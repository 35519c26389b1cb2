------------------------------ MODULE Framing -------------------------------
(***************************************************************************)
(* One direction of the physical layer of lab1/protocol.c, byte by byte:   *)
(* send_frame puts a frame on the connection as nibbles between two flags, *)
(* socket_recv cuts what arrives into blocks and imposes the noise, and    *)
(* wait_for_event commits one block per pass, cuts it into frames and, if  *)
(* there is one, has the data link layer take it with recv_frame.          *)
(*                                                                         *)
(* A byte is known by the frame it was sent for and its place in it.       *)
(***************************************************************************)
EXTENDS Naturals, Sequences, SequencesExt

CONSTANTS
  Sizes,       \* lengths of the frames of the data link layer, in bytes
  BlockSizes,  \* bound: how many bytes one recv() may return
  MaxBlocks,   \* bound: how many blocks wait to be committed
  MaxFrames,   \* bound: how many frames are sent
  MaxNoise     \* bound: how many bytes the noise hits

FrameSize == 2048   \* sizeof(rf_buf->frame)

ASSUME SizesAssumption ==
  /\ Sizes \subseteq Nat \ {0} /\ Sizes # {} /\ IsFiniteSet(Sizes)
  /\ BlockSizes \subseteq Nat \ {0}
  /\ MaxBlocks \in Nat \ {0}
  /\ MaxFrames \in Nat
  /\ MaxNoise \in Nat

(* The frames of the data link layer, of at most 263 bytes, fit in rf_buf. *)
ASSUME FitAssumption == \A n \in Sizes : n <= FrameSize

Byte == [frame : Nat, at : Nat, flag : BOOLEAN, hit : BOOLEAN]

VARIABLES
  sent,      \* the size of each frame given to send_frame
  tcp,       \* bytes between send_frame and socket_recv
  rblk,      \* rblk_head, ..., rblk_tail: blocks not yet committed
  rf_buf,    \* the frame under construction: its nibbles, if there is one
  rf,        \* rf_head, ..., rf_tail: frames recv_frame has not taken
  received,  \* frames recv_frame has returned
  noise,     \* bytes hit, as counted by socket_recv
  aborted    \* recv_frame met a frame longer than the caller's buffer

vars == <<sent, tcp, rblk, rf_buf, rf, received, noise, aborted>>

NoFrame == [open |-> FALSE, nibbles |-> <<>>]

Init ==
  /\ sent = <<>> /\ tcp = <<>> /\ rblk = <<>> /\ rf = <<>> /\ received = <<>>
  /\ rf_buf = NoFrame
  /\ noise = 0
  /\ aborted = FALSE

-----------------------------------------------------------------------------
(* Sending. *)

Flag(k, i)   == [frame |-> k, at |-> i, flag |-> TRUE, hit |-> FALSE]
Nibble(k, i) == [frame |-> k, at |-> i, flag |-> FALSE, hit |-> FALSE]

Nibbles(k, size) == [i \in 1 .. 2 * size |-> Nibble(k, i)]
EncodedOpen(k, size) == <<Flag(k, 0)>> \o Nibbles(k, size)   \* slip: one flag
Encoded(k, size) ==
  <<Flag(k, 0)>> \o Nibbles(k, size) \o <<Flag(k, 2 * size + 1)>>

SendFrame(size) ==
  /\ Len(sent) < MaxFrames
  /\ sent' = Append(sent, size)
  /\ tcp' = tcp \o Encoded(Len(sent'), size)
  /\ UNCHANGED <<rblk, rf_buf, rf, received, noise, aborted>>

-----------------------------------------------------------------------------
(* Receiving. *)

(* socket_recv: a block of n bytes.  The noise flips one bit of at most    *)
(* one of them: a flag is a flag no more, a nibble is another one.  A flip *)
(* without effect (in the bits the other nibble of the byte is put over)   *)
(* is no hit here.                                                         *)
Noised(block, i) == [block EXCEPT ![i].hit = TRUE]

SocketRecv(n) ==
  LET block == SubSeq(tcp, 1, n)
  IN  /\ ~aborted
      /\ tcp # <<>>
      /\ Len(rblk) < MaxBlocks
      /\ \/ /\ rblk' = Append(rblk, block)
            /\ UNCHANGED noise
         \/ /\ noise < MaxNoise
            /\ \E i \in 1 .. n : rblk' = Append(rblk, Noised(block, i))
            /\ noise' = noise + 1
      /\ tcp' = SubSeq(tcp, n + 1, Len(tcp))
      /\ UNCHANGED <<sent, rf_buf, rf, received, aborted>>

Length(frame) == Len(frame) \div 2   \* in bytes

IsFlag(b) == b.flag /\ ~b.hit

(* The body of the loop over the bytes of a block.  A flag opens a frame   *)
(* if there is none and closes the one there is, unless that is empty.     *)
CollectKeeps(r, b) ==   \* slip: the next frame is put behind this one
  IF IsFlag(b)
    THEN IF r.buf.open /\ Length(r.buf.nibbles) > 0
           THEN [buf |-> [r.buf EXCEPT !.open = FALSE],
                 done |-> Append(r.done, r.buf.nibbles)]
           ELSE [r EXCEPT !.buf.open = TRUE]
    ELSE IF r.buf.open /\ Length(r.buf.nibbles) < FrameSize
           THEN [r EXCEPT !.buf.nibbles = Append(@, b)]
           ELSE r
Collect(r, b) ==
  IF IsFlag(b)
    THEN IF r.buf.open /\ Length(r.buf.nibbles) > 0
           THEN [buf |-> NoFrame, done |-> Append(r.done, r.buf.nibbles)]
           ELSE [r EXCEPT !.buf.open = TRUE]
    ELSE IF r.buf.open /\ Length(r.buf.nibbles) < FrameSize
           THEN [r EXCEPT !.buf.nibbles = Append(@, b)]
           ELSE r

(* The member of a set that has one; TLC evaluates it once.                *)
Once(singleton) == CHOOSE x \in singleton : TRUE

(* The receiver after some bytes. *)
After(start, bytes) ==
  LET r[i \in 0 .. Len(bytes)] ==
        IF i = 0
          THEN start
          ELSE Once({Collect(before, bytes[i]) : before \in {r[i - 1]}})
  IN  r[Len(bytes)]

Collected(block) == After([buf |-> rf_buf, done |-> rf], block)

(* The caller's buffer, a struct FRAME, is a byte longer than the longest  *)
(* frame.                                                                  *)
RecvSizeNoCrc == Max(Sizes) - 1   \* slip: the checksum is forgotten
RecvSize == Max(Sizes) + 1

(* What recv_frame copies: half a byte at the end is left out.             *)
CopiedHalf(frame) == frame   \* slip
Copied(frame) == SubSeq(frame, 1, 2 * Length(frame))

(* wait_for_event: a block is due, and if that leaves a frame in the queue *)
(* FRAME_RECEIVED is raised, for which main() takes one.                   *)
Commit ==
  LET r == Collected(Head(rblk))
  IN  /\ ~aborted
      /\ rblk # <<>>
      /\ rblk' = Tail(rblk)
      /\ rf_buf' = r.buf
      /\ \/ /\ r.done = <<>>
            /\ UNCHANGED <<rf, received, aborted>>
         \/ /\ r.done # <<>>
            /\ Length(Head(r.done)) > RecvSize
            /\ rf' = r.done
            /\ aborted' = TRUE
            /\ UNCHANGED received
         \/ /\ r.done # <<>>
            /\ Length(Head(r.done)) <= RecvSize
            /\ rf' = Tail(r.done)
            /\ received' = Append(received, Copied(Head(r.done)))
            /\ UNCHANGED aborted
      /\ UNCHANGED <<sent, tcp, noise>>

Next ==
  \/ \E size \in Sizes : SendFrame(size)
  \/ \E n \in BlockSizes : SocketRecv(Min({n, Len(tcp)}))
  \/ Commit

Spec == Init /\ [][Next]_vars

-----------------------------------------------------------------------------
(* Blocks and frames are never empty, and what recv_frame returns is whole *)
(* bytes, as many as fit the caller's buffer.                              *)
TypeOK ==
  /\ sent \in Seq(Sizes)
  /\ tcp \in Seq(Byte)
  /\ rblk \in Seq(Seq(Byte) \ {<<>>})
  /\ rf_buf \in [open : BOOLEAN, nibbles : Seq(Byte)]
  /\ rf \in Seq(Seq(Byte))
  /\ received \in Seq(Seq(Byte))
  /\ \A i \in DOMAIN rf : Length(rf[i]) \in 1 .. FrameSize
  /\ \A i \in DOMAIN received :
       Len(received[i]) \in {2 * n : n \in 1 .. RecvSize}
  /\ noise \in Nat
  /\ aborted \in BOOLEAN

(* What is still to come if the noise is over, the frame that waits for    *)
(* its closing flag included.                                              *)
Coming ==
  LET rest(bytes) == After([buf |-> rf_buf, done |-> rf], bytes)
      all(r) == IF Length(r.buf.nibbles) > 0
                  THEN Append(r.done, r.buf.nibbles)
                  ELSE r.done
  IN  Once({all(r) : r \in {Once({rest(bytes) : bytes \in {FlattenSeq(rblk) \o tcp}})}})

(* A frame as received: which frames gave it bytes, and is it one of them. *)
Item(frame) ==
  LET copied == Copied(frame)
      frames == {copied[i].frame : i \in DOMAIN copied}
      k      == Min(frames)
  IN  [first |-> k, last |-> Max(frames),
       sound |-> copied = Nibbles(k, sent[k])]

Items(frames) == [i \in DOMAIN frames |-> Item(frames[i])]

ItemsComing ==
  Once({Items(frames) : frames \in {Coming}})

Link == INSTANCE NoisyLink WITH
  sent     <- Len(sent),
  link     <- ItemsComing,
  received <- Items(received)

(* The FIFO of whole frames that the data link layer is modelled over: the *)
(* frames come in order, none twice and none from the bits of another, and *)
(* once the noise has lost or damaged one nothing brings it back.          *)
ImplementsNoisyLink == Link!Spec

(* One hit costs at most one frame: the flags fall in step again by        *)
(* themselves, whichever of them was hit.                                  *)
CostOfNoise ==
  LET sound == Link!SoundItems(Items(received)) \cup Link!SoundItems(ItemsComing)
  IN  TypeOK /\ Len(sent) <= Cardinality(sound) + noise

(* recv_frame aborts the program only on frames merged by two hits.        *)
AbortNeedsTwoHits == aborted => noise >= 2
=============================================================================
