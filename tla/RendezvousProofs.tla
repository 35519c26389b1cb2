-------------------------- MODULE RendezvousProofs ---------------------------
(***************************************************************************)
(* The two stations of lab1/protocol.c agree on the epoch they count from, *)
(* for any number of attempts, any count the code takes for failure, any   *)
(* time B starts at and any time it sleeps.                                *)
(***************************************************************************)
EXTENDS Rendezvous, TLAPS

-----------------------------------------------------------------------------
(* The inductive invariant: how far the two stations may be apart.         *)

(* A waits for a connection until B has one, and B has one until A has     *)
(* heard from it.                                                          *)
InStep ==
  /\ b = "connecting" => ~ backlog /\ a \in {"off", "accepting", "aborted"}
  /\ b = "connected" => a \in {"accepting", "receiving"}

(* The epoch B counts from is on its way until A counts from it, too.      *)
EpochOnItsWay ==
  /\ b # "running" => wire = None
  /\ b = "running" =>
       /\ epoch["B"] # None
       /\ \/ a \in {"accepting", "receiving"} /\ wire = epoch["B"]
          \/ a = "running" /\ epoch["A"] = epoch["B"]

RendezvousInv == TypeOK /\ InStep /\ EpochOnItsWay

-----------------------------------------------------------------------------
Epochs == {None} \cup {StartTime + k * Nap : k \in 0 .. Attempts}

(* B's clock is never 0: a time that B sends is an epoch.                  *)
LEMMA TimeIsEpoch ==
  ASSUME TypeOK
  PROVE  /\ time \in Epochs /\ time # None
         /\ None \in Epochs
         /\ wire \in Epochs
<1>1. i \in Nat /\ i \in 0 .. Attempts /\ time = StartTime + i * Nap /\ wire \in {None, time}
  BY RendezvousAssumption DEF TypeOK
<1>2. i * Nap \in Nat
  BY <1>1, RendezvousAssumption
<1>3. time # None
  BY <1>1, <1>2, RendezvousAssumption DEF None
<1> QED BY <1>1, <1>3 DEF Epochs

LEMMA InitHolds == Init => RendezvousInv
<1> SUFFICES ASSUME Init PROVE RendezvousInv
  OBVIOUS
<1>1. i \in 0 .. Attempts /\ time = StartTime + i * Nap
  BY RendezvousAssumption DEF Init
<1>2. None \in Epochs /\ epoch = [A |-> None, B |-> None]
  BY DEF Init, Epochs
<1>3. epoch \in [{"A", "B"} -> Epochs]
  BY <1>2
<1>4. TypeOK
  BY <1>1, <1>3 DEF Init, TypeOK, Epochs
<1> QED BY <1>4 DEF Init, RendezvousInv, InStep, EpochOnItsWay

(* Starting A and accepting B move A alone. *)
LEMMA ListenKeeps ==
  ASSUME RendezvousInv, Listen
  PROVE  RendezvousInv'
<1>1. TypeOK'
  BY DEF RendezvousInv, TypeOK, Listen
<1> QED BY <1>1 DEF RendezvousInv, Listen, TypeOK, InStep, EpochOnItsWay

LEMMA AcceptKeeps ==
  ASSUME RendezvousInv, Accept
  PROVE  RendezvousInv'
<1>1. TypeOK'
  BY DEF RendezvousInv, TypeOK, Accept
<1> QED BY <1>1 DEF RendezvousInv, Accept, TypeOK, InStep, EpochOnItsWay

(* recv returns with the epoch, or because B is over. *)
LEMMA ReceiveEpochKeeps ==
  ASSUME RendezvousInv, ReceiveEpoch
  PROVE  RendezvousInv'
<1>1. /\ a = "receiving" /\ a' = "running" /\ wire' = None
      /\ wire # None \/ b \in {"aborted", "killed"}
      /\ UNCHANGED <<b, i, time, backlog>>
  BY DEF ReceiveEpoch, RecvReturns, BOver
<1>2. epoch' = [epoch EXCEPT !["A"] = wire] /\ epoch \in [{"A", "B"} -> Epochs]
  BY DEF ReceiveEpoch, RendezvousInv, TypeOK, Epochs
<1>3. epoch' \in [{"A", "B"} -> Epochs] /\ epoch'["A"] = wire /\ epoch'["B"] = epoch["B"]
  BY <1>2, TimeIsEpoch DEF RendezvousInv
<1>4. TypeOK'
  BY <1>1, <1>3 DEF RendezvousInv, TypeOK, Epochs
<1>5. b \notin {"connecting", "connected"}
  BY <1>1 DEF RendezvousInv, InStep, EpochOnItsWay
<1> QED BY <1>1, <1>3, <1>4, <1>5 DEF RendezvousInv, InStep, EpochOnItsWay

(* Every failure sets B's clock Nap seconds on. *)
LEMMA ConnectFailsKeeps ==
  ASSUME RendezvousInv, ConnectFails
  PROVE  RendezvousInv'
<1>1. /\ i < Attempts /\ i' = i + 1 /\ time' = time + Nap
      /\ i \in Nat /\ time = StartTime + i * Nap /\ wire = None
  BY RendezvousAssumption DEF ConnectFails, RendezvousInv, TypeOK, EpochOnItsWay
<1>2. i' * Nap = i * Nap + Nap /\ i * Nap \in Nat
  BY <1>1, RendezvousAssumption
<1>3. i' \in 0 .. Attempts /\ time' = StartTime + i' * Nap
  BY <1>1, <1>2, RendezvousAssumption
<1>4. TypeOK'
  BY <1>1, <1>3 DEF RendezvousInv, TypeOK, ConnectFails
<1> QED BY <1>4 DEF RendezvousInv, ConnectFails, InStep, EpochOnItsWay

(* Whoever B connects to has not accepted anyone yet. *)
LEMMA ConnectSucceedsKeeps ==
  ASSUME RendezvousInv, ConnectSucceeds
  PROVE  RendezvousInv'
<1>1. TypeOK'
  BY DEF RendezvousInv, TypeOK, ConnectSucceeds
<1>2. a = "accepting"
  BY DEF RendezvousInv, InStep, ConnectSucceeds, Listening
<1> QED BY <1>1, <1>2 DEF RendezvousInv, ConnectSucceeds, InStep, EpochOnItsWay

LEMMA AbortKeeps ==
  ASSUME RendezvousInv, Abort
  PROVE  RendezvousInv'
<1>1. TypeOK'
  BY DEF RendezvousInv, TypeOK, Abort
<1> QED BY <1>1 DEF RendezvousInv, Abort, LoopLeft, InStep, EpochOnItsWay

(* B counts from the time it sends, or is killed by sending it. *)
LEMMA SendEpochKeeps ==
  ASSUME RendezvousInv, SendEpoch
  PROVE  RendezvousInv'
<1>1. /\ LoopLeft /\ epoch' = [epoch EXCEPT !["B"] = time]
      /\ epoch \in [{"A", "B"} -> Epochs]
      /\ UNCHANGED <<a, i, time, backlog>>
      /\ \/ b = "connected" /\ wire' = time /\ b' = "running"
         \/ b = "connecting" /\ b' = "killed" /\ wire' = wire
  BY DEF SendEpoch, RendezvousInv, TypeOK, Epochs
<1>2. /\ epoch' \in [{"A", "B"} -> Epochs]
      /\ epoch'["B"] = time /\ time # None
  BY <1>1, TimeIsEpoch DEF RendezvousInv
<1>3. TypeOK'
  BY <1>1, <1>2 DEF RendezvousInv, TypeOK, Epochs
<1> QED BY <1>1, <1>2, <1>3 DEF RendezvousInv, InStep, EpochOnItsWay

LEMMA StepKeeps ==
  ASSUME RendezvousInv, [Next]_vars
  PROVE  RendezvousInv'
<1>1. CASE UNCHANGED vars
  BY <1>1 DEF vars, RendezvousInv, TypeOK, InStep, EpochOnItsWay
<1> QED BY <1>1, ListenKeeps, AcceptKeeps, ReceiveEpochKeeps, ConnectFailsKeeps,
           ConnectSucceedsKeeps, AbortKeeps, SendEpochKeeps DEF Next

-----------------------------------------------------------------------------
(* The invariant holds.                                                    *)
THEOREM RendezvousInvCorrect == Spec => []RendezvousInv
BY InitHolds, StepKeeps, PTL DEF Spec

(* Two stations that run count from the same second, and it is one: recv,  *)
(* whose result nobody looks at, waits for the epoch as long as B lives.   *)
THEOREM EpochsAgreeHolds == Spec => []EpochsAgree
<1>1. RendezvousInv => EpochsAgree
  BY DEF RendezvousInv, EpochOnItsWay, EpochsAgree
<1> QED BY <1>1, RendezvousInvCorrect, PTL
=============================================================================
