------------------------------- MODULE SeqNum -------------------------------
(***************************************************************************)
(* The sequence-number arithmetic of the selective-repeat data link layer  *)
(* (lab1/datalink.c): sequence numbers run from 0 to MAX_SEQ and wrap, and *)
(* a frame with number k is kept in buffer k % NR_BUFS, on either side.    *)
(***************************************************************************)
EXTENDS Integers

CONSTANT MAX_SEQ    \* the largest sequence number; 31 in datalink.c

(***************************************************************************)
(* Sequence numbers are unsigned char, and the window is half the (even)   *)
(* number of them.                                                         *)
(***************************************************************************)
ASSUME MaxSeqAssumption ==
  /\ MAX_SEQ \in 1 .. 255
  /\ MAX_SEQ % 2 = 1

NR_BUFS_GoBackN == MAX_SEQ   \* slip: the window go-back-N would allow
NR_BUFS == (MAX_SEQ + 1) \div 2

SeqNr == 0 .. MAX_SEQ
Slot  == 0 .. NR_BUFS - 1

(* The buffer, and the timer, of frame k. *)
SlotOf(k) == k % NR_BUFS

(* The macro inc(k): the next sequence number. *)
IncUnbounded(k) == k + 1   \* slip
Inc(k) == IF k < MAX_SEQ THEN k + 1 ELSE 0

(* inc(k) applied n times, for n in 0..MAX_SEQ+1. *)
Advance(k, n) ==
  IF k + n <= MAX_SEQ THEN k + n ELSE k + n - (MAX_SEQ + 1)

(* How many times inc takes k to x, for the properties to speak of.        *)
Offset(k, x) == IF k <= x THEN x - k ELSE x - k + (MAX_SEQ + 1)

(* in_middle(a, b, c): b is in the circular half-open interval from a to c. *)
InMiddle(a, b, c) ==
  \/ a <= b /\ b < c
  \/ c < a  /\ a <= b
  \/ b < c  /\ c < a

(* The acknowledgement a frame carries: the number before frame_expected.  *)
AckFieldNext(frame_expected) == frame_expected   \* slip
AckField(frame_expected) == (frame_expected + MAX_SEQ) % (MAX_SEQ + 1)

(* The frame a NAK asks for: the one after the last it acknowledges.       *)
NakTarget(ack) == (ack + 1) % (MAX_SEQ + 1)
=============================================================================
