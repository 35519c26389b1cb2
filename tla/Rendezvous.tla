----------------------------- MODULE Rendezvous -----------------------------
(***************************************************************************)
(* protocol_init of lab1/protocol.c at both stations: A listens and waits, *)
(* B tries to connect, sleeps and tries again; B then sends its time, the  *)
(* epoch from which both count their milliseconds.                         *)
(***************************************************************************)
EXTENDS Naturals

CONSTANTS
  Attempts,   \* how often B tries to connect: 60
  Tested,     \* the count the code takes for failure after the loop: 6
  StartTime,  \* seconds of B's clock when B starts
  Nap         \* seconds B sleeps after a failure: 2

ASSUME RendezvousAssumption ==
  /\ Attempts \in Nat \ {0}
  /\ Tested \in Nat
  /\ StartTime \in Nat \ {0}
  /\ Nap \in Nat

None == 0   \* no epoch yet: get_ms returns 0

VARIABLES
  a,      \* what station A is about
  b,      \* what station B is about
  i,      \* B's attempts that failed
  time,   \* B's clock
  epoch,  \* of each station
  wire,   \* the epoch on its way, or None
  backlog \* B's connection waits for A's accept

vars == <<a, b, i, time, epoch, wire, backlog>>

Init ==
  /\ a = "off"
  /\ b = "connecting"
  /\ i = 0
  /\ time = StartTime
  /\ epoch = [A |-> None, B |-> None]
  /\ wire = None
  /\ backlog = FALSE

-----------------------------------------------------------------------------
(* Station A. *)

(* A is started, whenever that may be; its port may be in use.             *)
Listen ==
  /\ a = "off"
  /\ a' \in {"accepting", "aborted"}
  /\ UNCHANGED <<b, i, time, epoch, wire, backlog>>

Accept ==
  /\ a = "accepting"
  /\ backlog
  /\ a' = "receiving"
  /\ backlog' = FALSE
  /\ UNCHANGED <<b, i, time, epoch, wire>>

BOver == b \in {"aborted", "killed"}

(* recv waits for the epoch or for the end of the connection, and its      *)
(* result is not looked at.                                                *)
RecvNoWait == TRUE   \* slip: on a socket that does not block
RecvReturns == wire # None \/ BOver

ReceiveEpoch ==
  /\ a = "receiving"
  /\ RecvReturns
  /\ epoch' = [epoch EXCEPT !.A = wire]
  /\ wire' = None
  /\ a' = "running"
  /\ UNCHANGED <<b, i, time, backlog>>

-----------------------------------------------------------------------------
(* Station B. *)

Listening == a \in {"accepting", "receiving", "running"}

ConnectFails ==
  /\ b = "connecting"
  /\ i < Attempts
  /\ ~Listening
  /\ i' = i + 1
  /\ time' = time + Nap
  /\ UNCHANGED <<a, b, epoch, wire, backlog>>

ConnectSucceeds ==
  /\ b = "connecting"
  /\ i < Attempts
  /\ Listening
  /\ b' = "connected"
  /\ backlog' = TRUE
  /\ UNCHANGED <<a, i, time, epoch, wire>>

(* The test after the loop, which looks at the count alone.                *)
TestedEarlier == i + 1 = Tested   \* slip
TakenForFailure == i = Tested

LoopLeft == b = "connected" \/ (b = "connecting" /\ i = Attempts)

Abort ==
  /\ LoopLeft
  /\ TakenForFailure
  /\ b' = "aborted"
  /\ UNCHANGED <<a, i, time, epoch, wire, backlog>>

(* On a socket without a connection send raises SIGPIPE.                   *)
SendEpoch ==
  /\ LoopLeft
  /\ ~TakenForFailure
  /\ epoch' = [epoch EXCEPT !.B = time]
  /\ \/ /\ b = "connected"
        /\ wire' = time
        /\ b' = "running"
     \/ /\ b = "connecting"
        /\ b' = "killed"
        /\ UNCHANGED wire
  /\ UNCHANGED <<a, i, time, backlog>>

Next ==
  \/ Listen \/ Accept \/ ReceiveEpoch
  \/ ConnectFails \/ ConnectSucceeds \/ Abort \/ SendEpoch

Spec == Init /\ [][Next]_vars

(* A station that can go on does; nobody has to start A.                   *)
Fairness ==
  /\ WF_vars(Accept) /\ WF_vars(ReceiveEpoch)
  /\ WF_vars(ConnectFails) /\ WF_vars(ConnectSucceeds)
  /\ WF_vars(Abort) /\ WF_vars(SendEpoch)

FairSpec == Spec /\ Fairness

-----------------------------------------------------------------------------
TypeOK ==
  /\ a \in {"off", "accepting", "receiving", "running", "aborted"}
  /\ b \in {"connecting", "connected", "running", "aborted", "killed"}
  /\ i \in 0 .. Attempts
  /\ time = StartTime + i * Nap
  /\ epoch \in [{"A", "B"} -> {None} \cup {StartTime + k * Nap : k \in 0 .. Attempts}]
  /\ wire \in {None, time}
  /\ backlog \in BOOLEAN

(* Two stations that run count from the same second, and it is one.        *)
EpochsAgree ==
  /\ TypeOK
  /\ a = "running" /\ b = "running" => epoch.A = epoch.B /\ epoch.A # None

(* If A listens before B's attempt number Tested (counted from 0) begins,  *)
(* they come together.                                                     *)
InTimeTogether ==
  (a = "accepting" /\ b = "connecting" /\ i < Tested)
    ~> (a = "running" /\ b = "running")

(* The message of B's ABORT, "Station B failed to connect station A": it   *)
(* is for a B that has no connection, waiting to be accepted or accepted.  *)
AbortMeansNoConnection ==
  b = "aborted" => ~backlog /\ a \notin {"receiving", "running"}
=============================================================================
