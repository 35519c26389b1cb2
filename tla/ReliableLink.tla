---------------------------- MODULE ReliableLink ----------------------------
(***************************************************************************)
(* What the data link layer promises the network layers of two stations,   *)
(* with no mention of frames, timers or sequence numbers: each station     *)
(* hands over a stream of packets, the other one gets that stream, in      *)
(* order, without loss or duplicate, and never more than Window packets    *)
(* behind.  A packet is its position in the stream, so the state of a      *)
(* stream is how much of it was sent and how much received.                *)
(***************************************************************************)
EXTENDS Integers

CONSTANTS Station, Peer(_), Window

VARIABLES
  sent,      \* packets taken from each station's network layer
  received   \* packets given to each station's network layer

Init ==
  /\ sent     = [s \in Station |-> 0]
  /\ received = [s \in Station |-> 0]

Submit(s) ==
  /\ sent[s] - received[Peer(s)] < Window
  /\ sent' = [sent EXCEPT ![s] = @ + 1]
  /\ UNCHANGED received

(* The next packets, and no others, reach the network layer of s.          *)
Deliver(s) ==
  /\ \E n \in 1 .. Window :
       /\ received[s] + n <= sent[Peer(s)]
       /\ received' = [received EXCEPT ![s] = @ + n]
  /\ UNCHANGED sent

Next == \E s \in Station : Submit(s) \/ Deliver(s)

Spec == Init /\ [][Next]_<<sent, received>>

(* Whatever was sent is received in the end. *)
FairSpec == Spec /\ \A s \in Station : WF_<<sent, received>>(Deliver(s))
=============================================================================
