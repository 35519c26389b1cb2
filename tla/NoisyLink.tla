----------------------------- MODULE NoisyLink ------------------------------
(***************************************************************************)
(* What the framing of the physical layer promises the data link layer,    *)
(* in one direction: a queue of frames in the order they were sent.  The   *)
(* noise can take frames out of it, damage them, or make one damaged frame *)
(* of several neighbours; it never repeats, reorders or mends a frame.     *)
(***************************************************************************)
EXTENDS Naturals, Sequences

VARIABLES
  sent,      \* number of frames sent
  link,      \* what will be received if no more noise comes
  received   \* what was received

vars == <<sent, link, received>>

(* What arrives as one frame was made of frames first to last.             *)
Item == [first : Nat, last : Nat, sound : BOOLEAN]

Sound(k) == [first |-> k, last |-> k, sound |-> TRUE]

SoundItems(queue) == {queue[i] : i \in {j \in DOMAIN queue : queue[j].sound}}

InOrder(queue, n) ==
  /\ \A i \in DOMAIN queue :
       /\ 1 <= queue[i].first
       /\ queue[i].first <= queue[i].last
       /\ queue[i].last <= n
       /\ queue[i].sound => queue[i].first = queue[i].last
  /\ \A i, j \in DOMAIN queue : i < j => queue[i].last < queue[j].first

Init == sent = 0 /\ link = <<>> /\ received = <<>>

(* The frame is lost at once if the one before it waits for its closing    *)
(* flag: that is when the noise took the flag.                             *)
Send ==
  /\ sent' = sent + 1
  /\ link' \in {link, Append(link, Sound(sent'))}
  /\ UNCHANGED received

Noise ==
  /\ link' \in Seq(Item)
  /\ InOrder(received \o link', sent)
  /\ SoundItems(link') \subseteq SoundItems(link)
  /\ UNCHANGED <<sent, received>>

Receive ==
  /\ link # <<>>
  /\ received' = Append(received, Head(link))
  /\ link' = Tail(link)
  /\ UNCHANGED sent

Next == Send \/ Noise \/ Receive

Spec == Init /\ [][Next]_vars
=============================================================================
