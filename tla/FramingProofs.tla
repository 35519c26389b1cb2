--------------------------- MODULE FramingProofs ----------------------------
(***************************************************************************)
(* One direction of the physical layer, for any lengths of frames and      *)
(* blocks and any bounds.                                                  *)
(*                                                                         *)
(* FramingInv says where the receiver is in the stream of bytes, and what  *)
(* that says of the frame it is putting together; that one hit cannot make *)
(* recv_frame abort follows from it.                                       *)
(*                                                                         *)
(* LinkInv says what the receiver will have when it has read all that is   *)
(* there: frames in order, and of those that were sent all but one for     *)
(* each hit.  It is kept because reading goes on alike, but for one frame, *)
(* behind a byte that was hit and behind the same byte unharmed (Costs).   *)
(* CostOfNoise and the refinement of NoisyLink follow from it.             *)
(***************************************************************************)
EXTENDS Framing, WellFoundedInduction, SequenceTheorems, FiniteSetTheorems, TLAPS

-----------------------------------------------------------------------------
(* Places in the stream.  In front of all frames is the place behind an    *)
(* empty one.                                                              *)

Size(k) == IF k = 0 THEN 0 ELSE sent[k]
LastAt(k) == 2 * Size(k) + 1
Place == {p \in [frame : 0 .. Len(sent), at : Nat] :
            p.at <= LastAt(p.frame) /\ (p.frame = 0 => p.at = LastAt(0))}

PlaceOf(b) == [frame |-> b.frame, at |-> b.at]

Follows(p, q) ==
  \/ p.at < LastAt(p.frame) /\ q = [frame |-> p.frame, at |-> p.at + 1]
  \/ p.at = LastAt(p.frame) /\ q = [frame |-> p.frame + 1, at |-> 0]

(* A byte as send_frame made it, but for the noise.                        *)
OfFrame(b) ==
  /\ b \in Byte
  /\ b.frame \in DOMAIN sent
  /\ b.at \in 0 .. LastAt(b.frame)
  /\ b.flag <=> b.at \in {0, LastAt(b.frame)}

(* Where one is who was at p and has read i bytes of s.                    *)
PlaceIn(p, s, i) == IF i = 0 THEN p ELSE PlaceOf(s[i])

(* The bytes of s are those that follow place p, up to place q.            *)
Run(p, s, q) ==
  /\ \A i \in 1 .. Len(s) : OfFrame(s[i]) /\ Follows(PlaceIn(p, s, i - 1), PlaceOf(s[i]))
  /\ q = PlaceIn(p, s, Len(s))

End == [frame |-> Len(sent), at |-> LastAt(Len(sent))]

(* Where the receiver will be behind the i-th block.                       *)
BehindBlock(p, i) == IF i = 0 THEN p ELSE PlaceOf(rblk[i][Len(rblk[i])])

(* The receiver is at p; the blocks, then the connection hold the rest.    *)
Stream(p) ==
  /\ \A i \in 1 .. Len(rblk) : Run(BehindBlock(p, i - 1), rblk[i], BehindBlock(p, i))
  /\ Run(BehindBlock(p, Len(rblk)), tcp, End)
  /\ \A i \in 1 .. Len(tcp) : ~ tcp[i].hit

-----------------------------------------------------------------------------
(* The receiver. *)

Fits(nibbles) == Length(nibbles) <= FrameSize

(* It has of the frame it is in what was sent up to here (or as much as    *)
(* fits), and between frames it has none.                                  *)
InStep(p, buf) ==
  \/ /\ p.at < LastAt(p.frame)
     /\ buf.open
     /\ Len(buf.nibbles) <= p.at
     /\ p.at > 0 => Len(buf.nibbles) >= 1
     /\ p.at > 1 => Len(buf.nibbles) >= 2
  \/ p.at = LastAt(p.frame) /\ buf = NoFrame

(* A flag was hit: it misses a frame, or it has one behind its end, at     *)
(* most a nibble longer than it was.                                       *)
OutOfStep(p, buf) ==
  \/ p.at < LastAt(p.frame) /\ buf = NoFrame
  \/ /\ p.at = LastAt(p.frame)
     /\ buf.open
     /\ Len(buf.nibbles) <= p.at /\ Len(buf.nibbles) # 1

Short(frame) == Length(frame) <= Max(Sizes)

Hit(i, j) == rblk[i][j].hit

HitsLater == \E i \in 1 .. Len(rblk) : \E j \in 1 .. Len(rblk[i]) : Hit(i, j)

AtMostOneHit ==
  \A i, k \in 1 .. Len(rblk) : \A j \in 1 .. Len(rblk[i]), l \in 1 .. Len(rblk[k]) :
    Hit(i, j) /\ Hit(k, l) => i = k /\ j = l

(* With one hit the receiver is in step until that comes, and never puts   *)
(* two frames together.                                                    *)
FewHits(p) ==
  noise <= 1 =>
    /\ ~ aborted
    /\ \A i \in 1 .. Len(rf) : Short(rf[i])
    /\ AtMostOneHit
    /\ noise = 0 => ~ HitsLater
    /\ \/ InStep(p, rf_buf)
       \/ noise = 1 /\ ~ HitsLater /\ OutOfStep(p, rf_buf)

FramingInv ==
  /\ TypeOK
  /\ Fits(rf_buf.nibbles)
  /\ ~ rf_buf.open => rf_buf = NoFrame
  /\ \E p \in Place : Stream(p) /\ FewHits(p)

-----------------------------------------------------------------------------
(* Facts about numbers and recursive functions. *)

Below == {p \in Nat \X Nat : p[1] < p[2]}

(* A set of natural numbers has a least one, since going down ends. *)
LEMMA LeastNatural ==
  ASSUME NEW T, T \subseteq Nat, T # {}
  PROVE  \E x \in T : \A y \in T : x <= y
<1>1. OpToRel(<, Nat) = Below
  BY DEF OpToRel, Below
<1>2. IsWellFoundedOn(Below, Nat)
  BY <1>1, NatLessThanWellFounded
<1>3. PICK x \in T : \A y \in T : ~ (<<y, x>> \in Below)
  BY <1>2, WFMin
<1>4. ASSUME NEW y \in T, y < x PROVE FALSE
  <2>1. <<y, x>> \in Nat \X Nat
    OBVIOUS
  <2>2. <<y, x>> \in Below
    BY <2>1, <1>4 DEF Below
  <2> QED BY <2>2, <1>3
<1> QED BY <1>3, <1>4

(* A finite set of natural numbers has a largest one: of the subsets that  *)
(* have none there would be a smallest.                                    *)
LEMMA LargestNatural ==
  ASSUME NEW S, IsFiniteSet(S), S \subseteq Nat, S # {}
  PROVE  \E x \in S : \A y \in S : y <= x
<1> DEFINE Largest(T) == \E x \in T : \A y \in T : y <= x
           T == {U \in FiniteSubsetsOf(S) : U # {} /\ ~ Largest(U)}
<1> SUFFICES ASSUME ~ Largest(S) PROVE FALSE
  OBVIOUS
<1>1. S \in T
  BY DEF FiniteSubsetsOf
<1>2. PICK U \in T : \A V \in T : ~ (<<V, U>> \in StrictSubsetOrdering(S))
  <2>1. T \subseteq FiniteSubsetsOf(S) /\ T # {}
    BY <1>1
  <2> HIDE DEF T
  <2> QED BY <2>1, WFMin, FS_StrictSubsetOrderingWellFounded
<1>3. U \subseteq S /\ IsFiniteSet(U) /\ U # {} /\ ~ Largest(U)
  BY DEF FiniteSubsetsOf
<1>4. PICK x \in U : TRUE
  BY <1>3
<1> DEFINE V == U \ {x}
<1>5. IsFiniteSet(V) /\ V \subseteq S /\ <<V, U>> \in StrictSubsetOrdering(S)
  BY <1>3, <1>4, FS_RemoveElement DEF StrictSubsetOrdering
<1>6. V = {} \/ Largest(V)
  BY <1>2, <1>5 DEF FiniteSubsetsOf
<1>7. CASE V = {}
  BY <1>3, <1>4, <1>7
<1>8. CASE Largest(V)
  <2>1. PICK y \in V : \A z \in V : z <= y
    BY <1>8
  <2>2. x \in Nat /\ y \in Nat /\ y \in U
    BY <1>3, <2>1
  <2>3. CASE x <= y
    BY <2>1, <2>2, <2>3, <1>3
  <2>4. CASE y < x
    <3>1. \A z \in U : z \in Nat /\ (z = x \/ z <= y)
      BY <2>1, <1>3
    <3>2. \A z \in U : z <= x
      BY <3>1, <2>2, <2>4
    <3> QED BY <3>2, <1>3
  <2> QED BY <2>2, <2>3, <2>4
<1> QED BY <1>6, <1>7, <1>8

LEMMA LongestFrame ==
  /\ Max(Sizes) \in Sizes /\ Max(Sizes) \in Nat
  /\ \A size \in Sizes : size \in Nat /\ size > 0 /\ size <= Max(Sizes)
<1>1. Sizes \subseteq Nat \ {0} /\ Sizes # {} /\ IsFiniteSet(Sizes)
  BY SizesAssumption
<1>2. \E x \in Sizes : \A y \in Sizes : x >= y
  BY <1>1, LargestNatural
<1>3. Max(Sizes) \in Sizes /\ \A y \in Sizes : Max(Sizes) >= y
  BY <1>2 DEF Max
<1>4. \A size \in Sizes : size \in Nat /\ size > 0
  BY <1>1
<1> HIDE DEF Max
<1> QED BY <1>3, <1>4

(* After, byte by byte. *)
Read(start, bytes, r, i) == IF i = 0 THEN start ELSE Collect(r[i - 1], bytes[i])

ReadUpTo(start, bytes, n, r) == r = [i \in 0 .. n |-> Read(start, bytes, r, i)]

LEMMA ReadExists ==
  ASSUME NEW start, NEW bytes, NEW n \in Nat
  PROVE  \E r : ReadUpTo(start, bytes, n, r)
<1> DEFINE T == {k \in Nat : ~ \E r : ReadUpTo(start, bytes, k, r)}
<1> SUFFICES ASSUME T # {} PROVE FALSE
  OBVIOUS
<1>1. PICK k \in T : \A j \in T : k <= j
  BY LeastNatural
<1>2. k \in Nat /\ ~ \E r : ReadUpTo(start, bytes, k, r)
  BY <1>1
<1>3. CASE k = 0
  <2> DEFINE r == [i \in 0 .. 0 |-> start]
  <2>1. [i \in 0 .. 0 |-> Read(start, bytes, r, i)] = r
    BY DEF Read
  <2> QED BY <2>1, <1>2, <1>3 DEF ReadUpTo
<1>4. CASE k > 0
  <2>1. PICK f : ReadUpTo(start, bytes, k - 1, f)
    BY <1>1, <1>2, <1>4
  <2> DEFINE r == [i \in 0 .. k |-> Read(start, bytes, f, i)]
  <2>2. \A i \in 0 .. (k - 1) : f[i] = Read(start, bytes, f, i)
    BY <2>1 DEF ReadUpTo
  <2>3. \A i \in 0 .. (k - 1) : r[i] = f[i]
    BY <2>2, <1>2
  <2>4. \A i \in 0 .. k : Read(start, bytes, r, i) = Read(start, bytes, f, i)
    <3> TAKE i \in 0 .. k
    <3>1. CASE i = 0
      BY <3>1 DEF Read
    <3>2. CASE i # 0
      <4>1. i - 1 \in 0 .. (k - 1)
        BY <3>2, <1>2
      <4>2. r[i - 1] = f[i - 1]
        BY <4>1, <2>3
      <4> HIDE DEF r
      <4> QED BY <4>2, <3>2 DEF Read
    <3> QED BY <3>1, <3>2
  <2>5. r = [i \in 0 .. k |-> Read(start, bytes, r, i)]
    BY <2>4
  <2> QED BY <2>5, <1>2 DEF ReadUpTo
<1> QED BY <1>2, <1>3, <1>4

Reading(start, bytes, r) ==
  /\ r[0] = start
  /\ \A i \in 1 .. Len(bytes) : r[i] = Collect(r[i - 1], bytes[i])
  /\ After(start, bytes) = r[Len(bytes)]

LEMMA AfterReads ==
  ASSUME NEW start, NEW bytes, Len(bytes) \in Nat
  PROVE  \E r : Reading(start, bytes, r)
<1> DEFINE P(r) == r = [i \in 0 .. Len(bytes) |->
                          IF i = 0 THEN start
                          ELSE Once({Collect(before, bytes[i]) : before \in {r[i - 1]}})]
           s == CHOOSE r : P(r)
<1>1. \A x, b : Once({Collect(before, b) : before \in {x}}) = Collect(x, b)
  <2> TAKE x, b
  <2>1. {Collect(before, b) : before \in {x}} = {Collect(x, b)}
    OBVIOUS
  <2>2. (CHOOSE y \in {Collect(x, b)} : TRUE) = Collect(x, b)
    OBVIOUS
  <2> QED BY <2>1, <2>2 DEF Once
<1>2. PICK f : ReadUpTo(start, bytes, Len(bytes), f)
  BY ReadExists
<1>3. P(f)
  BY <1>1, <1>2 DEF ReadUpTo, Read
<1>4. P(s)
  BY <1>3
<1>5. After(start, bytes) = s[Len(bytes)]
  BY DEF After
<1>6. /\ s[0] = start
      /\ \A i \in 1 .. Len(bytes) : s[i] = Collect(s[i - 1], bytes[i])
  <2>1. s = [i \in 0 .. Len(bytes) |->
               IF i = 0 THEN start
               ELSE Once({Collect(before, bytes[i]) : before \in {s[i - 1]}})]
    BY <1>4
  <2> HIDE DEF s
  <2>2. s[0] = start
    BY <2>1
  <2>3. ASSUME NEW i \in 1 .. Len(bytes)
        PROVE  s[i] = Once({Collect(before, bytes[i]) : before \in {s[i - 1]}})
    <3>1. i \in 0 .. Len(bytes) /\ i # 0
      OBVIOUS
    <3> QED BY <3>1, <2>1
  <2> QED BY <1>1, <2>2, <2>3
<1>7. Reading(start, bytes, s)
  <2> HIDE DEF s
  <2> QED BY <1>5, <1>6 DEF Reading
<1> HIDE DEF s
<1> QED BY <1>7

-----------------------------------------------------------------------------
(* What one byte does to the receiver. *)

Frames == {f \in Seq(Byte) : Length(f) \in 1 .. FrameSize}
Buffers == {b \in [open : BOOLEAN, nibbles : Seq(Byte)] :
              Fits(b.nibbles) /\ (~ b.open => b = NoFrame)}
Receiver == [buf : Buffers, done : Seq(Frames)]

LEMMA SizesOfSent ==
  ASSUME sent \in Seq(Sizes)
  PROVE  /\ Len(sent) \in Nat
         /\ \A k \in 0 .. Len(sent) : /\ Size(k) \in Nat /\ Size(k) <= Max(Sizes)
                                      /\ k # 0 => Size(k) > 0
                                      /\ LastAt(k) \in Nat /\ LastAt(k) = 2 * Size(k) + 1
<1>1. Len(sent) \in Nat /\ \A k \in 1 .. Len(sent) : sent[k] \in Sizes
  OBVIOUS
<1>2. ASSUME NEW k \in 0 .. Len(sent)
      PROVE  Size(k) \in Nat /\ Size(k) <= Max(Sizes) /\ (k # 0 => Size(k) > 0)
  <2>1. CASE k = 0
    BY <2>1, LongestFrame DEF Size
  <2>2. CASE k # 0
    <3>1. k \in 1 .. Len(sent) /\ Size(k) = sent[k]
      BY <2>2, <1>1 DEF Size
    <3> QED BY <3>1, <1>1, LongestFrame
  <2> QED BY <2>1, <2>2
<1> QED BY <1>1, <1>2 DEF LastAt

(* The length of a frame in bytes. *)
LEMMA HalfOf ==
  ASSUME NEW s \in Seq(Byte)
  PROVE  /\ Len(s) \in Nat /\ Length(s) \in Nat
         /\ Length(s) = 0 <=> Len(s) < 2
         /\ 2 * Length(s) <= Len(s) /\ Len(s) <= 2 * Length(s) + 1
BY DEF Length

LEMMA CollectDoes ==
  ASSUME NEW r \in Receiver, NEW b \in Byte, NEW c, c = Collect(r, b)
  PROVE  \/ /\ IsFlag(b) /\ r.buf.open /\ Len(r.buf.nibbles) >= 2
            /\ c.buf = NoFrame /\ c.done = Append(r.done, r.buf.nibbles)
         \/ /\ IsFlag(b) /\ (~ r.buf.open \/ Len(r.buf.nibbles) < 2)
            /\ c.buf.open /\ c.buf.nibbles = r.buf.nibbles /\ c.done = r.done
         \/ /\ ~ IsFlag(b) /\ r.buf.open /\ Length(r.buf.nibbles) < FrameSize
            /\ c.buf.open /\ c.buf.nibbles = Append(r.buf.nibbles, b) /\ c.done = r.done
         \/ /\ ~ IsFlag(b) /\ (~ r.buf.open \/ Len(r.buf.nibbles) >= 2)
            /\ c = r
<1>1. /\ r \in [buf : [open : BOOLEAN, nibbles : Seq(Byte)], done : Seq(Frames)]
      /\ r.buf.open \in BOOLEAN /\ r.buf.nibbles \in Seq(Byte)
  BY DEF Receiver, Buffers
<1>2. /\ Length(r.buf.nibbles) \in Nat /\ Len(r.buf.nibbles) \in Nat
      /\ Length(r.buf.nibbles) = 0 <=> Len(r.buf.nibbles) < 2
  BY <1>1, HalfOf
<1>3. Length(r.buf.nibbles) >= FrameSize => Len(r.buf.nibbles) >= 2
  BY <1>2 DEF FrameSize
<1>4. ASSUME c = [r EXCEPT !.buf.open = TRUE]
      PROVE  c.buf.open /\ c.buf.nibbles = r.buf.nibbles /\ c.done = r.done
  BY <1>1, <1>4
<1>5. ASSUME c = [r EXCEPT !.buf.nibbles = Append(@, b)]
      PROVE  /\ c.buf.open = r.buf.open
             /\ c.buf.nibbles = Append(r.buf.nibbles, b) /\ c.done = r.done
  BY <1>1, <1>5
<1>6. CASE IsFlag(b)
  BY <1>2, <1>4, <1>6 DEF Collect
<1>7. CASE ~ IsFlag(b)
  BY <1>2, <1>3, <1>5, <1>7 DEF Collect, FrameSize
<1> QED BY <1>6, <1>7

LEMMA CollectTyped ==
  ASSUME NEW r \in Receiver, NEW b \in Byte
  PROVE  Collect(r, b) \in Receiver
<1> DEFINE c == Collect(r, b)
<1>1. /\ r.buf \in Buffers /\ r.done \in Seq(Frames)
      /\ r.buf.open \in BOOLEAN /\ r.buf.nibbles \in Seq(Byte) /\ Fits(r.buf.nibbles)
  BY DEF Receiver, Buffers
<1>2. NoFrame \in Buffers
  <2>1. <<>> \in Seq(Byte) /\ Length(<<>>) = 0
    BY DEF Length
  <2> QED BY <2>1 DEF NoFrame, Buffers, Fits, FrameSize
<1>3. Len(r.buf.nibbles) >= 2 => r.buf.nibbles \in Frames
  BY <1>1, HalfOf DEF Frames, Fits
<1>4. /\ c \in [buf : [open : BOOLEAN, nibbles : Seq(Byte)], done : Seq(Frames)]
      /\ c = [buf |-> c.buf, done |-> c.done]
  <2>1. r \in [buf : [open : BOOLEAN, nibbles : Seq(Byte)], done : Seq(Frames)]
    BY DEF Receiver, Buffers
  <2>2. [r EXCEPT !.buf.open = TRUE]
          \in [buf : [open : BOOLEAN, nibbles : Seq(Byte)], done : Seq(Frames)]
    BY <2>1
  <2>3. [r EXCEPT !.buf.nibbles = Append(@, b)]
          \in [buf : [open : BOOLEAN, nibbles : Seq(Byte)], done : Seq(Frames)]
    <3>1. Append(r.buf.nibbles, b) \in Seq(Byte)
      BY <1>1
    <3> QED BY <2>1, <3>1
  <2>4. r.buf.open /\ Length(r.buf.nibbles) > 0 =>
          [buf |-> NoFrame, done |-> Append(r.done, r.buf.nibbles)]
            \in [buf : [open : BOOLEAN, nibbles : Seq(Byte)], done : Seq(Frames)]
    <3>1. Length(r.buf.nibbles) > 0 => r.buf.nibbles \in Frames
      BY <1>1, HalfOf DEF Frames, Fits
    <3>2. NoFrame \in [open : BOOLEAN, nibbles : Seq(Byte)]
      BY <1>2 DEF Buffers
    <3>3. Length(r.buf.nibbles) > 0 => Append(r.done, r.buf.nibbles) \in Seq(Frames)
      BY <3>1, <1>1
    <3> QED BY <3>2, <3>3
  <2> QED BY <2>1, <2>2, <2>3, <2>4 DEF Collect
<1>5. Length(r.buf.nibbles) < FrameSize => Fits(Append(r.buf.nibbles, b))
  <2> SUFFICES ASSUME Length(r.buf.nibbles) < FrameSize PROVE Fits(Append(r.buf.nibbles, b))
    OBVIOUS
  <2>5. PICK more : more = Append(r.buf.nibbles, b)
    OBVIOUS
  <2>1. /\ Len(more) = Len(r.buf.nibbles) + 1
        /\ Len(r.buf.nibbles) \in Nat /\ Len(r.buf.nibbles) < 2 * FrameSize
    BY <1>1, <2>5, HalfOf DEF FrameSize
  <2>2. PICK n \in Nat : n = Len(more)
    BY <2>1
  <2>3. n <= 4096
    BY <2>1, <2>2 DEF FrameSize
  <2>4. n \div 2 <= 2048
    BY <2>3
  <2>6. Fits(more)
    BY <2>2, <2>4 DEF Fits, Length, FrameSize
  <2> QED BY <2>5, <2>6
<1>6. Fits(c.buf.nibbles) /\ (~ c.buf.open => c.buf = NoFrame)
  <2>1. Fits(NoFrame.nibbles) /\ (~ r.buf.open => r.buf = NoFrame)
    BY <1>2 DEF Receiver, Buffers
  <2>2. \/ c.buf = NoFrame
        \/ c.buf.open /\ c.buf.nibbles = r.buf.nibbles
        \/ /\ Length(r.buf.nibbles) < FrameSize
           /\ c.buf.open /\ c.buf.nibbles = Append(r.buf.nibbles, b)
        \/ c = r
    <3>1. PICK d : d = Collect(r, b)
      OBVIOUS
    <3> QED BY <3>1, CollectDoes
  <2> HIDE DEF c
  <2> QED BY <1>1, <1>5, <2>1, <2>2
<1>7. c.buf \in [open : BOOLEAN, nibbles : Seq(Byte)] /\ c.done \in Seq(Frames)
  BY <1>4
<1> HIDE DEF c
<1>8. c.buf \in Buffers
  BY <1>6, <1>7 DEF Buffers
<1>9. [buf |-> c.buf, done |-> c.done] \in Receiver
  BY <1>7, <1>8 DEF Receiver
<1> QED BY <1>4, <1>9 DEF c

-----------------------------------------------------------------------------
(* What the place a byte has in the stream says of the receiver behind it. *)

LEMMA PlaceBehind ==
  ASSUME sent \in Seq(Sizes), NEW b, OfFrame(b)
  PROVE  /\ PlaceOf(b) \in Place
         /\ b.frame \in 1 .. Len(sent) /\ b.at \in Nat
         /\ LastAt(b.frame) = 2 * Size(b.frame) + 1 /\ Size(b.frame) \in Nat \ {0}
         /\ Size(b.frame) <= Max(Sizes)
<1>1. b.frame \in 1 .. Len(sent) /\ b.at \in 0 .. LastAt(b.frame)
  BY DEF OfFrame
<1>2. Len(sent) \in Nat /\ b.frame \in 0 .. Len(sent) /\ b.frame # 0
  BY <1>1, SizesOfSent
<1>3. /\ Size(b.frame) \in Nat /\ Size(b.frame) > 0 /\ Size(b.frame) <= Max(Sizes)
      /\ LastAt(b.frame) = 2 * Size(b.frame) + 1
  BY <1>2, SizesOfSent
<1> QED BY <1>1, <1>2, <1>3 DEF Place, PlaceOf

(* What Collect does, as far as lengths tell. *)
LEMMA CollectCounts ==
  ASSUME NEW r \in Receiver, NEW b \in Byte, NEW c, c = Collect(r, b)
  PROVE  LET n == Len(r.buf.nibbles)
             m == Len(c.buf.nibbles)
         IN  /\ n \in Nat /\ m \in Nat /\ b.hit \in BOOLEAN /\ r.buf.open \in BOOLEAN
             /\ r.buf = NoFrame => n = 0 /\ ~ r.buf.open
             /\ \/ /\ b.flag /\ ~ b.hit /\ r.buf.open /\ n >= 2
                   /\ c.buf = NoFrame /\ c.done = Append(r.done, r.buf.nibbles)
                \/ /\ b.flag /\ ~ b.hit /\ (~ r.buf.open \/ n < 2)
                   /\ c.buf.open /\ m = n /\ c.done = r.done
                \/ /\ ~ b.flag \/ b.hit
                   /\ r.buf.open
                   /\ c.buf.open /\ m = n + 1 /\ c.done = r.done
                \/ /\ ~ b.flag \/ b.hit
                   /\ ~ r.buf.open \/ n >= 2
                   /\ c.buf = r.buf /\ m = n /\ c.done = r.done
<1>1. /\ r.buf.nibbles \in Seq(Byte) /\ Len(r.buf.nibbles) \in Nat
      /\ Len(Append(r.buf.nibbles, b)) = Len(r.buf.nibbles) + 1
      /\ r.buf.open \in BOOLEAN
  BY DEF Receiver, Buffers
<1>2. c.buf.nibbles \in Seq(Byte) /\ Len(c.buf.nibbles) \in Nat
  BY CollectTyped DEF Receiver, Buffers
<1>3. NoFrame.nibbles = <<>> /\ ~ NoFrame.open /\ Len(<<>>) = 0
  BY DEF NoFrame
<1>4. b.flag \in BOOLEAN /\ b.hit \in BOOLEAN /\ (IsFlag(b) <=> b.flag /\ ~ b.hit)
  BY DEF IsFlag, Byte
<1>5. \/ /\ IsFlag(b) /\ r.buf.open /\ Len(r.buf.nibbles) >= 2
         /\ c.buf = NoFrame /\ c.done = Append(r.done, r.buf.nibbles)
      \/ /\ IsFlag(b) /\ (~ r.buf.open \/ Len(r.buf.nibbles) < 2)
         /\ c.buf.open /\ c.buf.nibbles = r.buf.nibbles /\ c.done = r.done
      \/ /\ ~ IsFlag(b) /\ r.buf.open
         /\ c.buf.open /\ c.buf.nibbles = Append(r.buf.nibbles, b) /\ c.done = r.done
      \/ /\ ~ IsFlag(b) /\ (~ r.buf.open \/ Len(r.buf.nibbles) >= 2)
         /\ c = r
  BY CollectDoes
<1> QED BY <1>1, <1>2, <1>3, <1>4, <1>5

(* Inside a frame, up to its closing flag. *)
LEMMA StepInFrame ==
  ASSUME NEW p, NEW b \in Byte, p.at \in Nat, NEW s \in Nat \ {0},
         NEW last, last = 2 * s + 1,
         LastAt(p.frame) = last, LastAt(b.frame) = last,
         p.at < last, b.at = p.at + 1, b.flag <=> b.at = last,
         NEW r \in Receiver, NEW c, c = Collect(r, b)
  PROVE  /\ InStep(p, r.buf) =>
              InStep(PlaceOf(b), c.buf) \/ (b.hit /\ OutOfStep(PlaceOf(b), c.buf))
         /\ OutOfStep(p, r.buf) /\ ~ b.hit => OutOfStep(PlaceOf(b), c.buf)
         /\ InStep(p, r.buf) \/ OutOfStep(p, r.buf) =>
              \/ c.done = r.done
              \/ c.done = Append(r.done, r.buf.nibbles) /\ Len(r.buf.nibbles) <= last
<1> DEFINE n == Len(r.buf.nibbles)
           m == Len(c.buf.nibbles)
           q == PlaceOf(b)
<1>1. q.at = b.at /\ q.frame = b.frame
  BY DEF PlaceOf
<1>2. /\ n \in Nat /\ m \in Nat /\ b.hit \in BOOLEAN /\ r.buf.open \in BOOLEAN
      /\ r.buf = NoFrame => n = 0 /\ ~ r.buf.open
      /\ \/ /\ b.at = last /\ ~ b.hit /\ r.buf.open /\ n >= 2
            /\ c.buf = NoFrame /\ c.done = Append(r.done, r.buf.nibbles)
         \/ /\ b.at = last /\ ~ b.hit /\ (~ r.buf.open \/ n < 2)
            /\ c.buf.open /\ m = n /\ c.done = r.done
         \/ /\ b.at # last \/ b.hit
            /\ r.buf.open
            /\ c.buf.open /\ m = n + 1 /\ c.done = r.done
         \/ /\ b.at # last \/ b.hit
            /\ ~ r.buf.open \/ n >= 2
            /\ c.buf = r.buf /\ m = n /\ c.done = r.done
  BY CollectCounts
<1>3. /\ InStep(p, r.buf) <=> /\ r.buf.open /\ n <= p.at
                              /\ p.at > 0 => n >= 1
                              /\ p.at > 1 => n >= 2
      /\ OutOfStep(p, r.buf) <=> r.buf = NoFrame
  BY DEF InStep, OutOfStep
<1>4. /\ b.at < last => InStep(q, c.buf) <=> /\ c.buf.open /\ m <= b.at /\ m >= 1
                                             /\ b.at > 1 => m >= 2
      /\ b.at = last => InStep(q, c.buf) <=> c.buf = NoFrame
      /\ b.at < last => OutOfStep(q, c.buf) <=> c.buf = NoFrame
      /\ b.at = last => OutOfStep(q, c.buf) <=> c.buf.open /\ m <= b.at /\ m # 1
  BY <1>1 DEF InStep, OutOfStep
<1> HIDE DEF n, m, q
<1>5. b.at \in 1 .. last /\ last >= 3 /\ (b.at = last => p.at >= 2)
  OBVIOUS
<1>6. ASSUME InStep(p, r.buf)
      PROVE  /\ InStep(q, c.buf) \/ (b.hit /\ OutOfStep(q, c.buf))
             /\ \/ c.done = r.done
                \/ c.done = Append(r.done, r.buf.nibbles) /\ n <= last
             /\ ~ OutOfStep(p, r.buf)
  <2>1. r.buf.open /\ n <= p.at /\ n <= last /\ ~ OutOfStep(p, r.buf)
    BY <1>2, <1>3, <1>6
  <2>2. CASE b.at = last
    <3>1. n >= 2
      BY <1>3, <1>5, <1>6, <2>2
    <3>2. CASE ~ b.hit
      BY <1>2, <1>4, <2>1, <2>2, <3>1, <3>2
    <3>3. CASE b.hit
      <4>1. c.buf.open /\ (m = n + 1 \/ m = n) /\ c.done = r.done
        BY <1>2, <2>1, <3>3
      <4> QED BY <1>4, <2>1, <2>2, <3>1, <3>3, <4>1, <1>2
    <3> QED BY <3>2, <3>3
  <2>3. CASE b.at < last
    <3>1. c.done = r.done /\ c.buf.open /\ (m = n + 1 \/ (m = n /\ n >= 2))
      BY <1>2, <2>1, <2>3
    <3>2. m <= b.at /\ m >= 1 /\ (b.at > 1 => m >= 2)
      BY <3>1, <1>2, <1>3, <1>6, <2>1
    <3> QED BY <1>4, <2>1, <2>3, <3>1, <3>2
  <2> QED BY <1>5, <2>2, <2>3
<1>7. ASSUME OutOfStep(p, r.buf)
      PROVE  (~ b.hit => OutOfStep(q, c.buf)) /\ c.done = r.done /\ ~ InStep(p, r.buf)
  <2>1. r.buf = NoFrame /\ n = 0 /\ ~ r.buf.open
    BY <1>2, <1>3, <1>7
  <2>2. /\ c.done = r.done
        /\ b.at = last /\ ~ b.hit => c.buf.open /\ m = 0
    BY <2>1, <1>2
  <2>3. b.at < last => c.buf = NoFrame
    BY <2>1, <1>2
  <2> QED BY <1>2, <1>3, <1>4, <1>5, <2>1, <2>2, <2>3
<1> QED BY <1>6, <1>7 DEF q, n

(* From the end of a frame to the opening flag of the next. *)
LEMMA StepBetween ==
  ASSUME NEW p, NEW b \in Byte, NEW last \in Nat, p.at = last, LastAt(p.frame) = last,
         LastAt(b.frame) \in Nat, LastAt(b.frame) > 0, b.at = 0, b.flag,
         NEW r \in Receiver, NEW c, c = Collect(r, b)
  PROVE  /\ InStep(p, r.buf) =>
              InStep(PlaceOf(b), c.buf) \/ (b.hit /\ OutOfStep(PlaceOf(b), c.buf))
         /\ OutOfStep(p, r.buf) /\ ~ b.hit =>
              InStep(PlaceOf(b), c.buf) \/ OutOfStep(PlaceOf(b), c.buf)
         /\ InStep(p, r.buf) \/ OutOfStep(p, r.buf) =>
              \/ c.done = r.done
              \/ c.done = Append(r.done, r.buf.nibbles) /\ Len(r.buf.nibbles) <= last
<1> DEFINE n == Len(r.buf.nibbles)
           m == Len(c.buf.nibbles)
           q == PlaceOf(b)
<1>1. q.at = b.at /\ q.frame = b.frame
  BY DEF PlaceOf
<1>2. /\ n \in Nat /\ m \in Nat /\ b.hit \in BOOLEAN /\ r.buf.open \in BOOLEAN
      /\ r.buf = NoFrame => n = 0 /\ ~ r.buf.open
      /\ \/ /\ ~ b.hit /\ r.buf.open /\ n >= 2
            /\ c.buf = NoFrame /\ c.done = Append(r.done, r.buf.nibbles)
         \/ /\ ~ b.hit /\ (~ r.buf.open \/ n < 2)
            /\ c.buf.open /\ m = n /\ c.done = r.done
         \/ /\ b.hit
            /\ r.buf.open
            /\ c.buf.open /\ m = n + 1 /\ c.done = r.done
         \/ /\ b.hit
            /\ ~ r.buf.open \/ n >= 2
            /\ c.buf = r.buf /\ m = n /\ c.done = r.done
  BY CollectCounts
<1>3. /\ InStep(p, r.buf) <=> r.buf = NoFrame
      /\ OutOfStep(p, r.buf) <=> r.buf.open /\ n <= last /\ n # 1
  BY DEF InStep, OutOfStep
<1>4. /\ InStep(q, c.buf) <=> c.buf.open /\ m <= 0
      /\ OutOfStep(q, c.buf) <=> c.buf = NoFrame
  BY <1>1 DEF InStep, OutOfStep
<1> HIDE DEF n, m, q
<1>5. ASSUME InStep(p, r.buf)
      PROVE  /\ InStep(q, c.buf) \/ (b.hit /\ OutOfStep(q, c.buf))
             /\ c.done = r.done
             /\ ~ OutOfStep(p, r.buf)
  <2>1. r.buf = NoFrame /\ n = 0 /\ ~ r.buf.open
    BY <1>2, <1>3, <1>5
  <2> QED BY <1>2, <1>3, <1>4, <2>1
<1>6. ASSUME OutOfStep(p, r.buf)
      PROVE  /\ ~ b.hit => InStep(q, c.buf) \/ OutOfStep(q, c.buf)
             /\ \/ c.done = r.done
                \/ c.done = Append(r.done, r.buf.nibbles) /\ n <= last
             /\ ~ InStep(p, r.buf)
  <2>1. r.buf.open /\ n <= last /\ n # 1 /\ r.buf # NoFrame
    BY <1>2, <1>3, <1>6
  <2>2. ~ b.hit => \/ c.buf = NoFrame
                   \/ c.buf.open /\ m = 0
    BY <1>2, <2>1
  <2>3. c.done = r.done \/ c.done = Append(r.done, r.buf.nibbles)
    BY <1>2, <2>1
  <2> QED BY <1>3, <1>4, <2>1, <2>2, <2>3
<1> QED BY <1>5, <1>6 DEF q, n

LEMMA StepInStream ==
  ASSUME sent \in Seq(Sizes), NEW p \in Place, NEW b, OfFrame(b), Follows(p, PlaceOf(b)),
         NEW r \in Receiver, NEW c, c = Collect(r, b)
  PROVE  /\ InStep(p, r.buf) =>
              InStep(PlaceOf(b), c.buf) \/ (b.hit /\ OutOfStep(PlaceOf(b), c.buf))
         /\ OutOfStep(p, r.buf) /\ ~ b.hit =>
              InStep(PlaceOf(b), c.buf) \/ OutOfStep(PlaceOf(b), c.buf)
         /\ InStep(p, r.buf) \/ OutOfStep(p, r.buf) =>
              \/ c.done = r.done
              \/ c.done = Append(r.done, r.buf.nibbles) /\ Short(r.buf.nibbles)
<1>1. /\ b \in Byte /\ b.at \in Nat
      /\ LastAt(b.frame) = 2 * Size(b.frame) + 1 /\ Size(b.frame) \in Nat \ {0}
      /\ b.flag <=> b.at \in {0, LastAt(b.frame)}
  BY PlaceBehind DEF OfFrame
<1>2. /\ p.frame \in 0 .. Len(sent) /\ p.at \in Nat /\ p.at <= LastAt(p.frame)
      /\ LastAt(p.frame) = 2 * Size(p.frame) + 1 /\ Size(p.frame) \in Nat
      /\ Size(p.frame) <= Max(Sizes) /\ Max(Sizes) \in Nat
  BY SizesOfSent, LongestFrame DEF Place
<1>3. PlaceOf(b).frame = b.frame /\ PlaceOf(b).at = b.at
  BY DEF PlaceOf
<1>4. Len(r.buf.nibbles) <= LastAt(p.frame) => Short(r.buf.nibbles)
  <2>1. r.buf.nibbles \in Seq(Byte)
    BY DEF Receiver, Buffers
  <2>2. /\ Len(r.buf.nibbles) \in Nat /\ Length(r.buf.nibbles) \in Nat
        /\ 2 * Length(r.buf.nibbles) <= Len(r.buf.nibbles)
    BY <2>1, HalfOf
  <2> QED BY <1>2, <2>2 DEF Short
<1>5. CASE p.at < LastAt(p.frame)
  <2>1. b.frame = p.frame /\ b.at = p.at + 1
    <3>1. p.at # LastAt(p.frame)
      BY <1>2, <1>5
    <3>2. PlaceOf(b) = [frame |-> p.frame, at |-> p.at + 1]
      BY <3>1 DEF Follows
    <3> QED BY <1>3, <3>2
  <2>2. b.flag <=> b.at = LastAt(b.frame)
    BY <1>1, <1>2, <2>1
  <2>3. PICK size \in Nat \ {0} : size = Size(b.frame)
    BY <1>1
  <2>4. PICK last : last = LastAt(b.frame)
    OBVIOUS
  <2>5. LastAt(p.frame) = last /\ last = 2 * size + 1 /\ p.at < last
    BY <1>1, <1>5, <2>1, <2>3, <2>4
  <2>6. /\ InStep(p, r.buf) =>
              InStep(PlaceOf(b), c.buf) \/ (b.hit /\ OutOfStep(PlaceOf(b), c.buf))
        /\ OutOfStep(p, r.buf) /\ ~ b.hit => OutOfStep(PlaceOf(b), c.buf)
        /\ InStep(p, r.buf) \/ OutOfStep(p, r.buf) =>
              \/ c.done = r.done
              \/ c.done = Append(r.done, r.buf.nibbles) /\ Len(r.buf.nibbles) <= LastAt(p.frame)
    <3>1. /\ b \in Byte /\ p.at \in Nat /\ last = 2 * size + 1
          /\ LastAt(p.frame) = last /\ LastAt(b.frame) = last
          /\ p.at < last /\ b.at = p.at + 1 /\ (b.flag <=> b.at = last)
      BY <1>1, <1>2, <2>1, <2>2, <2>4, <2>5
    <3> QED BY <3>1, StepInFrame
  <2> QED BY <1>4, <2>6
<1>6. CASE p.at = LastAt(p.frame)
  <2>1. b.at = 0 /\ b.flag
    BY <1>1, <1>2, <1>3, <1>6 DEF Follows
  <2>2. PICK last \in Nat : last = LastAt(p.frame)
    BY <1>2
  <2>3. LastAt(b.frame) \in Nat /\ LastAt(b.frame) > 0
    BY <1>1
  <2>4. /\ InStep(p, r.buf) =>
              InStep(PlaceOf(b), c.buf) \/ (b.hit /\ OutOfStep(PlaceOf(b), c.buf))
        /\ OutOfStep(p, r.buf) /\ ~ b.hit=>
              InStep(PlaceOf(b), c.buf) \/ OutOfStep(PlaceOf(b), c.buf)
        /\ InStep(p, r.buf) \/ OutOfStep(p, r.buf) =>
              \/ c.done = r.done
              \/ c.done = Append(r.done, r.buf.nibbles) /\ Len(r.buf.nibbles) <= LastAt(p.frame)
    <3>1. /\ b \in Byte /\ p.at = last /\ LastAt(p.frame) = last
          /\ LastAt(b.frame) \in Nat /\ LastAt(b.frame) > 0 /\ b.at = 0 /\ b.flag
          /\ c = Collect(r, b)
      BY <1>1, <1>6, <2>1, <2>2, <2>3
    <3> QED BY ONLY <3>1, StepBetween
  <2> QED BY <1>4, <2>4
<1> QED BY <1>2, <1>5, <1>6

-----------------------------------------------------------------------------
(* Reading a block. *)

(* What holds at the start and is kept by every byte holds at the end.     *)
LEMMA GoesOn ==
  ASSUME NEW n \in Nat, NEW G, 0 \in G, \A i \in 1 .. n : i - 1 \in G => i \in G
  PROVE  \A i \in 0 .. n : i \in G
<1> DEFINE T == {i \in 0 .. n : i \notin G}
<1> SUFFICES ASSUME T # {} PROVE FALSE
  OBVIOUS
<1>1. PICK i \in T : \A j \in T : i <= j
  <2>1. T \subseteq Nat
    OBVIOUS
  <2> HIDE DEF T
  <2> QED BY <2>1, LeastNatural
<1>2. i \in 1 .. n /\ i \notin G
  BY <1>1
<1>3. i - 1 \in 0 .. n /\ i - 1 \notin T
  BY <1>1, <1>2
<1> QED BY <1>2, <1>3

LEMMA AfterTyped ==
  ASSUME NEW start \in Receiver, NEW s \in Seq(Byte)
  PROVE  After(start, s) \in Receiver
<1>1. Len(s) \in Nat /\ \A i \in 1 .. Len(s) : s[i] \in Byte
  OBVIOUS
<1>read. PICK r : Reading(start, s, r)
  BY <1>1, AfterReads
<1>2. /\ r[0] = start
      /\ \A i \in 1 .. Len(s) : r[i] = Collect(r[i - 1], s[i])
      /\ After(start, s) = r[Len(s)]
  BY <1>read DEF Reading
<1> DEFINE G == {i \in 0 .. Len(s) : r[i] \in Receiver}
<1>3. 0 \in G
  BY <1>1, <1>2
<1>4. ASSUME NEW i \in 1 .. Len(s), i - 1 \in G PROVE i \in G
  BY <1>1, <1>2, <1>4, CollectTyped
<1>5. \A i \in 0 .. Len(s) : i \in G
  <2> HIDE DEF G
  <2> QED BY <1>1, <1>3, <1>4, GoesOn
<1> QED BY <1>1, <1>2, <1>5

AllShort(done) == \A i \in 1 .. Len(done) : Short(done[i])
NoHits(s) == \A i \in 1 .. Len(s) : ~ s[i].hit

LEMMA AppendShort ==
  ASSUME NEW done \in Seq(Frames), NEW f \in Frames, AllShort(done), Short(f)
  PROVE  AllShort(Append(done, f))
<1>1. /\ Len(Append(done, f)) = Len(done) + 1 /\ Len(done) \in Nat
      /\ \A i \in 1 .. Len(done) + 1 :
           Append(done, f)[i] = IF i = Len(done) + 1 THEN f ELSE done[i]
  OBVIOUS
<1> QED BY <1>1 DEF AllShort

LEMMA RunEndsInPlace ==
  ASSUME sent \in Seq(Sizes), NEW p \in Place, NEW s, Len(s) \in Nat, NEW q, Run(p, s, q)
  PROVE  q \in Place /\ \A i \in 0 .. Len(s) : PlaceIn(p, s, i) \in Place
<1>1. ASSUME NEW i \in 0 .. Len(s) PROVE PlaceIn(p, s, i) \in Place
  <2>1. CASE i = 0
    BY <2>1 DEF PlaceIn
  <2>2. CASE i # 0
    <3>1. i \in 1 .. Len(s)
      BY <2>2
    <3>2. OfFrame(s[i])
      BY <3>1 DEF Run
    <3> QED BY <2>2, <3>2, PlaceBehind DEF PlaceIn
  <2> QED BY <2>1, <2>2
<1> QED BY <1>1 DEF Run

LEMMA RunRead ==
  ASSUME sent \in Seq(Sizes), NEW p \in Place, NEW s \in Seq(Byte), NEW q, Run(p, s, q),
         NEW start \in Receiver, AllShort(start.done),
         \A i, j \in 1 .. Len(s) : s[i].hit /\ s[j].hit => i = j,
         InStep(p, start.buf) \/ (OutOfStep(p, start.buf) /\ NoHits(s)),
         NEW end, end = After(start, s)
  PROVE  /\ AllShort(end.done)
         /\ InStep(q, end.buf) \/ OutOfStep(q, end.buf)
         /\ InStep(p, start.buf) /\ NoHits(s) => InStep(q, end.buf)
<1>1. Len(s) \in Nat /\ \A i \in 1 .. Len(s) : s[i] \in Byte
  OBVIOUS
<1>read. PICK r : Reading(start, s, r)
  BY <1>1, AfterReads
<1>2. /\ r[0] = start
      /\ \A i \in 1 .. Len(s) : r[i] = Collect(r[i - 1], s[i])
      /\ After(start, s) = r[Len(s)]
  BY <1>read DEF Reading
<1> DEFINE at(i) == PlaceIn(p, s, i)
           NoneLater(i) == \A j \in 1 .. Len(s) : j > i => ~ s[j].hit
           G == {i \in 0 .. Len(s) :
                   /\ r[i] \in Receiver
                   /\ AllShort(r[i].done)
                   /\ InStep(at(i), r[i].buf) \/ (OutOfStep(at(i), r[i].buf) /\ NoneLater(i))
                   /\ InStep(p, start.buf) /\ NoHits(s) => InStep(at(i), r[i].buf)}
<1>3. 0 \in G
  <2>1. at(0) = p
    BY DEF PlaceIn
  <2>2. NoHits(s) => NoneLater(0)
    BY DEF NoHits
  <2> QED BY <1>1, <1>2, <2>1, <2>2
<1>4. ASSUME NEW i \in 1 .. Len(s), i - 1 \in G PROVE i \in G
  <2>1. i - 1 \in 0 .. Len(s) /\ i \in 0 .. Len(s) /\ i # 0
    BY <1>1
  <2>2. /\ r[i - 1] \in Receiver
        /\ AllShort(r[i - 1].done)
        /\ InStep(at(i - 1), r[i - 1].buf) \/ (OutOfStep(at(i - 1), r[i - 1].buf) /\ NoneLater(i - 1))
        /\ InStep(p, start.buf) /\ NoHits(s) => InStep(at(i - 1), r[i - 1].buf)
    BY <1>4
  <2>3. /\ r[i] = Collect(r[i - 1], s[i]) /\ r[i] \in Receiver
        /\ at(i) = PlaceOf(s[i]) /\ at(i - 1) \in Place
        /\ OfFrame(s[i]) /\ Follows(at(i - 1), PlaceOf(s[i]))
    BY <1>1, <1>2, <2>1, <2>2, CollectTyped, RunEndsInPlace DEF Run, PlaceIn
  <2>4. /\ NoneLater(i - 1) => ~ s[i].hit /\ NoneLater(i)
        /\ s[i].hit => NoneLater(i)
        /\ NoHits(s) => ~ s[i].hit
    BY <1>1 DEF NoHits
  <2> HIDE DEF at, NoneLater
  <2>5. /\ InStep(at(i - 1), r[i - 1].buf) =>
             InStep(at(i), r[i].buf) \/ (s[i].hit /\ OutOfStep(at(i), r[i].buf))
        /\ OutOfStep(at(i - 1), r[i - 1].buf) /\ ~ s[i].hit =>
             InStep(at(i), r[i].buf) \/ OutOfStep(at(i), r[i].buf)
        /\ InStep(at(i - 1), r[i - 1].buf) \/ OutOfStep(at(i - 1), r[i - 1].buf) =>
             \/ r[i].done = r[i - 1].done
             \/ /\ r[i].done = Append(r[i - 1].done, r[i - 1].buf.nibbles)
                /\ Short(r[i - 1].buf.nibbles)
    <3>1. PICK a, b, before, after :
            a = at(i - 1) /\ b = s[i] /\ before = r[i - 1] /\ after = r[i]
      OBVIOUS
    <3>2. /\ sent \in Seq(Sizes) /\ a \in Place /\ OfFrame(b) /\ Follows(a, PlaceOf(b))
          /\ before \in Receiver /\ after = Collect(before, b) /\ at(i) = PlaceOf(b)
      BY <2>2, <2>3, <3>1
    <3>3. /\ InStep(a, before.buf) =>
               InStep(PlaceOf(b), after.buf) \/ (b.hit /\ OutOfStep(PlaceOf(b), after.buf))
          /\ OutOfStep(a, before.buf) /\ ~ b.hit =>
               InStep(PlaceOf(b), after.buf) \/ OutOfStep(PlaceOf(b), after.buf)
          /\ InStep(a, before.buf) \/ OutOfStep(a, before.buf) =>
               \/ after.done = before.done
               \/ after.done = Append(before.done, before.buf.nibbles) /\ Short(before.buf.nibbles)
      BY ONLY <3>2, StepInStream
    <3> QED BY ONLY <3>1, <3>2, <3>3
  <2>6. AllShort(r[i].done)
    <3>1. r[i - 1].done \in Seq(Frames) /\ r[i].done \in Seq(Frames)
      BY <2>2, <2>3 DEF Receiver
    <3>2. r[i].done = Append(r[i - 1].done, r[i - 1].buf.nibbles) =>
            r[i - 1].buf.nibbles \in Frames
      <4> SUFFICES ASSUME r[i].done = Append(r[i - 1].done, r[i - 1].buf.nibbles)
                   PROVE  r[i - 1].buf.nibbles \in Frames
        OBVIOUS
      <4>1. r[i].done[Len(r[i].done)] = r[i - 1].buf.nibbles /\ Len(r[i].done) \in Nat \ {0}
        BY <3>1
      <4> QED BY <3>1, <4>1
    <3> QED BY <2>2, <2>5, <3>1, <3>2, AppendShort
  <2>7. InStep(at(i), r[i].buf) \/ (OutOfStep(at(i), r[i].buf) /\ NoneLater(i))
    BY <2>2, <2>4, <2>5
  <2>8. InStep(p, start.buf) /\ NoHits(s) => InStep(at(i), r[i].buf)
    BY <2>2, <2>4, <2>5
  <2> QED BY <2>1, <2>3, <2>6, <2>7, <2>8
<1>5. \A i \in 0 .. Len(s) : i \in G
  <2> HIDE DEF G
  <2> QED BY <1>1, <1>3, <1>4, GoesOn
<1>6. q = at(Len(s)) /\ Len(s) \in G
  BY <1>1, <1>5 DEF Run
<1> QED BY <1>2, <1>6

-----------------------------------------------------------------------------
(* The steps. *)

LEMMA InitHolds == Init => FramingInv
<1> SUFFICES ASSUME Init PROVE FramingInv
  OBVIOUS
<1>1. /\ sent = <<>> /\ tcp = <<>> /\ rblk = <<>> /\ rf = <<>> /\ received = <<>>
      /\ rf_buf = NoFrame /\ noise = 0 /\ aborted = FALSE
  BY DEF Init
<1>2. TypeOK
  <2>1. rf_buf \in [open : BOOLEAN, nibbles : Seq(Byte)]
    <3>1. <<>> \in Seq(Byte)
      OBVIOUS
    <3> QED BY <1>1, <3>1 DEF NoFrame
  <2>2. DOMAIN rf = {} /\ DOMAIN received = {}
    BY <1>1
  <2>3. /\ sent \in Seq(Sizes) /\ tcp \in Seq(Byte)
        /\ rblk \in Seq(Seq(Byte) \ {<<>>})
        /\ rf \in Seq(Seq(Byte)) /\ received \in Seq(Seq(Byte))
    BY <1>1
  <2> QED BY <1>1, <2>1, <2>2, <2>3 DEF TypeOK
<1>3. Fits(rf_buf.nibbles)
  BY <1>1 DEF Fits, Length, NoFrame, FrameSize
<1> DEFINE p == [frame |-> 0, at |-> 1]
<1>4. LastAt(0) = 1 /\ Len(sent) = 0
  BY <1>1 DEF LastAt, Size
<1>5. p \in Place /\ p = End
  BY <1>4 DEF Place, End
<1>6. Stream(p)
  BY <1>1, <1>5 DEF Stream, Run, BehindBlock, PlaceIn
<1>7. InStep(p, rf_buf) /\ FewHits(p)
  BY <1>1, <1>4 DEF InStep, FewHits, AtMostOneHit, HitsLater
<1> QED BY <1>1, <1>2, <1>3, <1>5, <1>6, <1>7 DEF FramingInv

(* Frames that were sent keep their sizes when one more is. *)
LEMMA SentKeeps ==
  ASSUME sent \in Seq(Sizes), NEW size \in Sizes, sent' = Append(sent, size)
  PROVE  /\ sent' \in Seq(Sizes) /\ Len(sent') = Len(sent) + 1 /\ Len(sent) \in Nat
         /\ \A k \in 0 .. Len(sent) : Size(k)' = Size(k) /\ LastAt(k)' = LastAt(k)
         /\ \A k \in Nat : k = Len(sent) + 1 => Size(k)' = size
         /\ Place \subseteq Place'
         /\ \A b : OfFrame(b) => OfFrame(b)'
         /\ \A p \in Place : \A q : Follows(p, q) => Follows(p, q)'
<1>1. /\ sent' \in Seq(Sizes) /\ Len(sent') = Len(sent) + 1 /\ Len(sent) \in Nat
      /\ \A k \in 1 .. Len(sent) : sent'[k] = sent[k]
      /\ sent'[Len(sent')] = size
  OBVIOUS
<1>2. ASSUME NEW k \in 0 .. Len(sent) PROVE Size(k)' = Size(k) /\ LastAt(k)' = LastAt(k)
  BY <1>1 DEF Size, LastAt
<1>3. ASSUME NEW k \in Nat, k = Len(sent) + 1 PROVE Size(k)' = size
  BY <1>1, <1>3 DEF Size
<1>4. Place \subseteq Place'
  <2> SUFFICES ASSUME NEW p \in Place PROVE p \in Place'
    OBVIOUS
  <2>1. /\ p \in [frame : 0 .. Len(sent), at : Nat]
        /\ p.at <= LastAt(p.frame) /\ (p.frame = 0 => p.at = LastAt(0))
    BY DEF Place
  <2>2. LastAt(p.frame)' = LastAt(p.frame) /\ LastAt(0)' = LastAt(0)
    BY <1>1, <1>2, <2>1
  <2>3. p \in [frame : 0 .. Len(sent'), at : Nat]
    BY <1>1, <2>1
  <2> QED BY <2>1, <2>2, <2>3 DEF Place
<1>5. ASSUME NEW b, OfFrame(b) PROVE OfFrame(b)'
  <2>1. b.frame \in DOMAIN sent /\ b.frame \in DOMAIN sent' /\ LastAt(b.frame)' = LastAt(b.frame)
    BY <1>1, <1>2, <1>5 DEF OfFrame
  <2> QED BY <1>5, <2>1 DEF OfFrame
<1>6. ASSUME NEW p \in Place, NEW q, Follows(p, q) PROVE Follows(p, q)'
  <2>1. LastAt(p.frame)' = LastAt(p.frame)
    BY <1>2 DEF Place
  <2> QED BY <1>6, <2>1 DEF Follows
<1> QED BY <1>1, <1>2, <1>3, <1>4, <1>5, <1>6

LEMMA RunKeeps ==
  ASSUME sent \in Seq(Sizes), NEW size \in Sizes, sent' = Append(sent, size),
         NEW p \in Place, NEW s, Len(s) \in Nat, NEW q, Run(p, s, q)
  PROVE  Run(p, s, q)'
<1>1. \A i \in 0 .. Len(s) : PlaceIn(p, s, i) \in Place
  BY RunEndsInPlace
<1>2. ASSUME NEW i \in 1 .. Len(s)
      PROVE  OfFrame(s[i])' /\ Follows(PlaceIn(p, s, i - 1), PlaceOf(s[i]))'
  <2>1. OfFrame(s[i]) /\ Follows(PlaceIn(p, s, i - 1), PlaceOf(s[i]))
    BY DEF Run
  <2>2. PlaceIn(p, s, i - 1) \in Place
    BY <1>1
  <2> QED BY <2>1, <2>2, SentKeeps
<1> QED BY <1>2 DEF Run

LEMMA Joined ==
  ASSUME NEW s \in Seq(Byte), NEW t \in Seq(Byte), NEW u, u = s \o t
  PROVE  /\ u \in Seq(Byte) /\ Len(u) = Len(s) + Len(t) /\ Len(s) \in Nat /\ Len(t) \in Nat
         /\ \A i \in 1 .. Len(s) + Len(t) : u[i] = IF i <= Len(s) THEN s[i] ELSE t[i - Len(s)]
OBVIOUS

(* Runs, put together (those of the next state) and taken apart. *)
LEMMA RunJoins ==
  ASSUME NEW p, NEW s \in Seq(Byte), NEW q, NEW t \in Seq(Byte), NEW e,
         Run(p, s, q)', Run(q, t, e)'
  PROVE  Run(p, s \o t, e)'
<1>1. /\ s \o t \in Seq(Byte) /\ Len(s \o t) = Len(s) + Len(t)
      /\ Len(s) \in Nat /\ Len(t) \in Nat
      /\ \A i \in 1 .. Len(s) + Len(t) :
           (s \o t)[i] = IF i <= Len(s) THEN s[i] ELSE t[i - Len(s)]
  OBVIOUS
<1>2. PICK u : u = s \o t
  OBVIOUS
<1>3. /\ \A i \in 0 .. Len(s) : PlaceIn(p, u, i) = PlaceIn(p, s, i)
      /\ \A i \in 0 .. Len(t) : PlaceIn(p, u, Len(s) + i) = PlaceIn(q, t, i)
  <2>1. ASSUME NEW i \in 0 .. Len(s) PROVE PlaceIn(p, u, i) = PlaceIn(p, s, i)
    BY <1>1, <1>2 DEF PlaceIn
  <2>2. ASSUME NEW i \in 0 .. Len(t) PROVE PlaceIn(p, u, Len(s) + i) = PlaceIn(q, t, i)
    <3>1. CASE i = 0
      <4>1. PlaceIn(q, t, 0) = q /\ q = PlaceIn(p, s, Len(s))
        BY DEF Run, PlaceIn
      <4> QED BY <4>1, <3>1, <2>1, <1>1
    <3>2. CASE i # 0
      <4>1. Len(s) + i \in 1 .. Len(s) + Len(t) /\ Len(s) + i # 0 /\ ~ (Len(s) + i <= Len(s))
        BY <3>2, <1>1
      <4>2. u[Len(s) + i] = t[i]
        BY <4>1, <1>1, <1>2
      <4> QED BY <4>1, <4>2, <3>2 DEF PlaceIn
    <3> QED BY <3>1, <3>2
  <2> QED BY <2>1, <2>2
<1>4. ASSUME NEW i \in 1 .. Len(u)
      PROVE  OfFrame(u[i])' /\ Follows(PlaceIn(p, u, i - 1), PlaceOf(u[i]))'
  <2>1. CASE i <= Len(s)
    <3>1. u[i] = s[i] /\ i \in 1 .. Len(s) /\ i - 1 \in 0 .. Len(s)
      BY <1>1, <1>2, <2>1
    <3> QED BY <3>1, <1>3 DEF Run
  <2>2. CASE i > Len(s)
    <3>1. PICK j \in 1 .. Len(t) : i = Len(s) + j /\ u[i] = t[j] /\ j - 1 \in 0 .. Len(t)
      <4>1. i - Len(s) \in 1 .. Len(t) /\ u[i] = t[i - Len(s)] /\ i = Len(s) + (i - Len(s))
        BY <1>1, <1>2, <2>2
      <4> QED BY <4>1
    <3>2. i - 1 = Len(s) + (j - 1)
      BY <3>1, <1>1
    <3>3. PlaceIn(p, u, i - 1) = PlaceIn(q, t, j - 1)
      BY <3>1, <3>2, <1>3
    <3> QED BY <3>1, <3>3 DEF Run
  <2> QED BY <1>1, <1>2, <2>1, <2>2
<1>5. PlaceIn(p, u, Len(u)) = e
  BY <1>1, <1>2, <1>3 DEF Run
<1> QED BY <1>2, <1>4, <1>5 DEF Run

LEMMA RunTaken ==
  ASSUME NEW p, NEW s \in Seq(Byte), NEW e, Run(p, s, e), NEW n \in 0 .. Len(s),
         NEW t, t = SubSeq(s, 1, n)
  PROVE  /\ t \in Seq(Byte) /\ Len(t) = n
         /\ Run(p, t, PlaceIn(p, s, n))
<1>1. /\ Len(s) \in Nat /\ n \in Nat /\ n <= Len(s)
      /\ t \in Seq(Byte) /\ Len(t) = n /\ \A i \in 1 .. n : t[i] = s[i]
  OBVIOUS
<1>2. \A i \in 0 .. n : PlaceIn(p, t, i) = PlaceIn(p, s, i)
  BY <1>1 DEF PlaceIn
<1>3. ASSUME NEW i \in 1 .. Len(t)
      PROVE  OfFrame(t[i]) /\ Follows(PlaceIn(p, t, i - 1), PlaceOf(t[i]))
  <2>1. i \in 1 .. Len(s) /\ t[i] = s[i] /\ i - 1 \in 0 .. n
    BY <1>1
  <2> QED BY <2>1, <1>2 DEF Run
<1> QED BY <1>1, <1>2, <1>3 DEF Run

LEMMA RunLeft ==
  ASSUME NEW p, NEW s \in Seq(Byte), NEW e, Run(p, s, e), NEW n \in 0 .. Len(s),
         NEW from, from = n + 1, NEW last, last = Len(s), NEW u, u = SubSeq(s, from, last)
  PROVE  /\ u \in Seq(Byte) /\ Len(u) = Len(s) - n
         /\ \A i \in 1 .. Len(s) - n : u[i] = s[n + i]
         /\ Run(PlaceIn(p, s, n), u, e)
<1>1. Len(s) \in Nat /\ n \in Nat /\ n <= Len(s)
  OBVIOUS
<1>2. /\ u \in Seq(Byte) /\ Len(u) = Len(s) - n
      /\ \A i \in 1 .. Len(s) - n : u[i] = s[n + i]
  <2>1. \A i \in 1 .. Len(s) : s[i] \in Byte
    OBVIOUS
  <2>2. u = [i \in 1 .. Len(s) - n |-> s[n + i]]
    BY <1>1
  <2> QED BY <2>1, <2>2, <1>1
<1>3. PICK q : q = PlaceIn(p, s, n)
  OBVIOUS
<1>4. \A i \in 0 .. Len(s) - n : PlaceIn(q, u, i) = PlaceIn(p, s, n + i)
  BY <1>1, <1>2, <1>3 DEF PlaceIn
<1>5. ASSUME NEW i \in 1 .. Len(u)
      PROVE  OfFrame(u[i]) /\ Follows(PlaceIn(q, u, i - 1), PlaceOf(u[i]))
  <2>1. n + i \in 1 .. Len(s) /\ u[i] = s[n + i] /\ i - 1 \in 0 .. Len(s) - n
        /\ n + (i - 1) = (n + i) - 1
    BY <1>1, <1>2
  <2>2. PlaceIn(q, u, i - 1) = PlaceIn(p, s, (n + i) - 1)
    BY <2>1, <1>4
  <2>3. OfFrame(s[n + i]) /\ Follows(PlaceIn(p, s, (n + i) - 1), PlaceOf(s[n + i]))
    BY <2>1 DEF Run
  <2> QED BY <2>1, <2>2, <2>3
<1>6. PlaceIn(q, u, Len(u)) = e
  <2>1. Len(s) - n \in 0 .. Len(s) - n /\ n + (Len(s) - n) = Len(s)
    BY <1>1
  <2> QED BY <2>1, <1>2, <1>4 DEF Run
<1>7. Run(q, u, e)
  BY <1>5, <1>6 DEF Run
<1> QED BY <1>2, <1>3, <1>7

(* The bytes of a frame, from flag to flag. *)
LEMMA EncodedBytes ==
  ASSUME NEW k \in Nat, NEW size \in Nat, NEW u, u = Encoded(k, size)
  PROVE  /\ u \in Seq(Byte) /\ Len(u) = 2 * size + 2
         /\ \A i \in 1 .. 2 * size + 2 :
              /\ u[i].frame = k /\ u[i].at = i - 1 /\ u[i].hit = FALSE
              /\ u[i].flag <=> i - 1 \in {0, 2 * size + 1}
<1>1. PICK n \in Nat : n = 2 * size
  OBVIOUS
<1>2. PICK e : e = <<Flag(k, 0)>>
  OBVIOUS
<1>3. PICK m : m = Nibbles(k, size)
  OBVIOUS
<1>4. PICK f : f = <<Flag(k, n + 1)>>
  OBVIOUS
<1>5. u = (e \o m) \o f
  BY <1>1, <1>2, <1>3, <1>4 DEF Encoded
<1>6. /\ \A i \in Nat : Flag(k, i) \in Byte /\ Nibble(k, i) \in Byte
      /\ \A i : /\ Flag(k, i).frame = k /\ Flag(k, i).at = i
                /\ Flag(k, i).flag = TRUE /\ Flag(k, i).hit = FALSE
                /\ Nibble(k, i).frame = k /\ Nibble(k, i).at = i
                /\ Nibble(k, i).flag = FALSE /\ Nibble(k, i).hit = FALSE
  BY DEF Flag, Nibble, Byte
<1>7. /\ e \in Seq(Byte) /\ Len(e) = 1 /\ e[1] = Flag(k, 0)
      /\ f \in Seq(Byte) /\ Len(f) = 1 /\ f[1] = Flag(k, n + 1)
  BY <1>2, <1>4, <1>6
<1>8. /\ m \in Seq(Byte) /\ Len(m) = n /\ \A i \in 1 .. n : m[i] = Nibble(k, i)
  <2>1. m = [i \in 1 .. n |-> Nibble(k, i)]
    BY <1>1, <1>3 DEF Nibbles
  <2> QED BY <2>1, <1>6
<1>9. PICK em : em = e \o m
  OBVIOUS
<1>10. /\ em \in Seq(Byte) /\ Len(em) = n + 1
       /\ \A i \in 1 .. n + 1 : em[i] = IF i = 1 THEN Flag(k, 0) ELSE Nibble(k, i - 1)
  <2>1. /\ em \in Seq(Byte) /\ Len(em) = 1 + n
        /\ \A i \in 1 .. 1 + n : em[i] = IF i <= 1 THEN e[i] ELSE m[i - 1]
    <3>1. /\ em \in Seq(Byte) /\ Len(em) = Len(e) + Len(m)
          /\ \A i \in 1 .. Len(e) + Len(m) : em[i] = IF i <= Len(e) THEN e[i] ELSE m[i - Len(e)]
      <4>1. e \in Seq(Byte) /\ m \in Seq(Byte) /\ em = e \o m
        BY <1>7, <1>8, <1>9
      <4> QED BY ONLY <4>1, Joined
    <3>2. Len(e) = 1 /\ Len(m) = n
      BY <1>7, <1>8
    <3> QED BY ONLY <3>1, <3>2
  <2>2. ASSUME NEW i \in 1 .. n + 1
        PROVE  em[i] = IF i = 1 THEN Flag(k, 0) ELSE Nibble(k, i - 1)
    <3>1. CASE i = 1
      BY <1>7, <2>1, <3>1
    <3>2. CASE i # 1
      <4>1. ~ (i <= 1) /\ i - 1 \in 1 .. n /\ i \in 1 .. 1 + n
        BY <3>2
      <4> QED BY <1>8, <2>1, <3>2, <4>1
    <3> QED BY <3>1, <3>2
  <2> QED BY <2>1, <2>2
<1>11. /\ u \in Seq(Byte) /\ Len(u) = n + 2
       /\ \A i \in 1 .. n + 2 : u[i] = IF i = n + 2 THEN Flag(k, n + 1) ELSE em[i]
  <2>1. /\ u \in Seq(Byte) /\ Len(u) = (n + 1) + 1
        /\ \A i \in 1 .. (n + 1) + 1 : u[i] = IF i <= n + 1 THEN em[i] ELSE f[i - (n + 1)]
    <3>1. /\ u \in Seq(Byte) /\ Len(u) = Len(em) + Len(f)
          /\ \A i \in 1 .. Len(em) + Len(f) : u[i] = IF i <= Len(em) THEN em[i] ELSE f[i - Len(em)]
      <4>1. em \in Seq(Byte) /\ f \in Seq(Byte) /\ u = em \o f
        BY <1>5, <1>7, <1>9, <1>10
      <4> QED BY ONLY <4>1, Joined
    <3>2. Len(em) = n + 1 /\ Len(f) = 1
      BY <1>7, <1>10
    <3> QED BY ONLY <3>1, <3>2
  <2>2. ASSUME NEW i \in 1 .. n + 2
        PROVE  u[i] = IF i = n + 2 THEN Flag(k, n + 1) ELSE em[i]
    <3>1. CASE i = n + 2
      <4>1. ~ (i <= n + 1) /\ i - (n + 1) = 1 /\ i \in 1 .. (n + 1) + 1
        BY <3>1
      <4> QED BY <1>7, <2>1, <3>1, <4>1
    <3>2. CASE i # n + 2
      <4>1. i <= n + 1 /\ i \in 1 .. (n + 1) + 1
        BY <3>2
      <4> QED BY <2>1, <3>2, <4>1
    <3> QED BY <3>1, <3>2
  <2> QED BY <2>1, <2>2
<1>12. \A i \in 1 .. n + 2 : u[i] = IF i = 1 \/ i = n + 2 THEN Flag(k, i - 1) ELSE Nibble(k, i - 1)
  <2> TAKE i \in 1 .. n + 2
  <2>1. CASE i = n + 2
    BY <2>1, <1>11
  <2>2. CASE i # n + 2
    <3>1. i \in 1 .. n + 1 /\ u[i] = em[i]
      BY <2>2, <1>11
    <3>2. i = 1 => Flag(k, 0) = Flag(k, i - 1)
      OBVIOUS
    <3> QED BY <2>2, <3>1, <3>2, <1>10
  <2> QED BY <2>1, <2>2
<1>13. ASSUME NEW i \in 1 .. n + 2
       PROVE  /\ u[i].frame = k /\ u[i].at = i - 1 /\ u[i].hit = FALSE
              /\ u[i].flag <=> i - 1 \in {0, n + 1}
  <2>1. CASE i = 1 \/ i = n + 2
    BY <2>1, <1>6, <1>12
  <2>2. CASE ~ (i = 1 \/ i = n + 2)
    BY <2>2, <1>6, <1>12
  <2> QED BY <2>1, <2>2
<1> QED BY <1>1, <1>11, <1>13

(* They follow the end of the frames before. *)
LEMMA EncodedRun ==
  ASSUME sent \in Seq(Sizes), NEW size \in Sizes, sent' = Append(sent, size),
         NEW k \in Nat, k = Len(sent) + 1, NEW u, u = Encoded(k, size),
         NEW old, old = End
  PROVE  /\ u \in Seq(Byte) /\ NoHits(u)
         /\ \A e : e = [frame |-> k, at |-> 2 * size + 1] => Run(old, u, e)'
         /\ End' = [frame |-> k, at |-> 2 * size + 1]
<1>1. PICK n \in Nat : n = Len(sent) /\ n \in 0 .. n
  OBVIOUS
<1>2. /\ Len(sent') = k /\ k \in DOMAIN sent' /\ size \in Nat /\ k = n + 1
      /\ Size(k)' = size /\ LastAt(k)' = 2 * size + 1 /\ LastAt(n)' = LastAt(n)
  <2>1. Len(sent') = k /\ k \in DOMAIN sent' /\ size \in Nat /\ k = n + 1 /\ size \in Nat
    BY <1>1, LongestFrame
  <2>2. Size(k)' = size
    BY SentKeeps
  <2>3. LastAt(n)' = LastAt(n)
    BY <1>1, SentKeeps
  <2> QED BY <2>1, <2>2, <2>3 DEF LastAt
<1>3. /\ u \in Seq(Byte) /\ Len(u) = 2 * size + 2
      /\ \A i \in 1 .. 2 * size + 2 :
           /\ u[i].frame = k /\ u[i].at = i - 1 /\ u[i].hit = FALSE
           /\ u[i].flag <=> i - 1 \in {0, 2 * size + 1}
      /\ \A i \in 1 .. 2 * size + 2 : u[i] \in Byte
  <2>1. /\ u \in Seq(Byte) /\ Len(u) = 2 * size + 2
        /\ \A i \in 1 .. 2 * size + 2 :
             /\ u[i].frame = k /\ u[i].at = i - 1 /\ u[i].hit = FALSE
             /\ u[i].flag <=> i - 1 \in {0, 2 * size + 1}
    <3>1. size \in Nat
      BY <1>2
    <3>2. k \in Nat /\ u = Encoded(k, size)
      OBVIOUS
    <3> QED BY <3>1, <3>2, EncodedBytes
  <2> QED BY <2>1
<1>4. old = [frame |-> n, at |-> LastAt(n)]
  BY <1>1 DEF End
<1>5. End' = [frame |-> k, at |-> 2 * size + 1]
  <2>1. End' = [frame |-> Len(sent'), at |-> 2 * (IF Len(sent') = 0 THEN 0 ELSE sent'[Len(sent')]) + 1]
    BY DEF End, LastAt, Size
  <2>2. Size(k)' = IF k = 0 THEN 0 ELSE sent'[k]
    BY DEF Size
  <2> QED BY <1>2, <2>1, <2>2
<1>6. ASSUME NEW i \in 1 .. Len(u)
      PROVE  OfFrame(u[i])' /\ Follows(PlaceIn(old, u, i - 1), PlaceOf(u[i]))'
  <2>1. i \in 1 .. 2 * size + 2 /\ i - 1 \in 0 .. 2 * size + 1
    BY <1>2, <1>3
  <2>2. PlaceOf(u[i]) = [frame |-> k, at |-> i - 1]
    BY <1>3, <2>1 DEF PlaceOf
  <2>3. OfFrame(u[i])'
    BY <1>2, <1>3, <2>1 DEF OfFrame
  <2>4. CASE i = 1
    <3>1. PlaceIn(old, u, i - 1) = old
      BY <2>4 DEF PlaceIn
    <3>2. Follows(old, PlaceOf(u[i]))'
      BY <1>2, <1>4, <2>2, <2>4 DEF Follows
    <3> QED BY <2>3, <3>1, <3>2
  <2>5. CASE i # 1
    <3>1. i - 1 \in 1 .. 2 * size + 2 /\ i - 1 # 0 /\ i - 2 \in Nat /\ (i - 1) - 1 = i - 2
          /\ (i - 2) + 1 = i - 1
      BY <2>1, <2>5, <1>2
    <3>2. PlaceIn(old, u, i - 1) = [frame |-> k, at |-> i - 2]
      BY <1>3, <3>1 DEF PlaceIn, PlaceOf
    <3>3. i - 2 < 2 * size + 1
      BY <2>1, <2>5, <1>2
    <3>4. PICK a, b : a = [frame |-> k, at |-> i - 2] /\ b = [frame |-> k, at |-> i - 1]
      OBVIOUS
    <3>5. Follows(a, b)'
      BY <1>2, <3>1, <3>3, <3>4 DEF Follows
    <3> QED BY <2>2, <2>3, <3>2, <3>4, <3>5
  <2> QED BY <2>4, <2>5
<1>7. ASSUME NEW e, e = [frame |-> k, at |-> 2 * size + 1] PROVE Run(old, u, e)'
  <2>1. PlaceIn(old, u, Len(u)) = e
    <3>1. Len(u) # 0 /\ Len(u) \in 1 .. 2 * size + 2 /\ Len(u) - 1 = 2 * size + 1
      BY <1>2, <1>3
    <3> QED BY <1>3, <1>7, <3>1 DEF PlaceIn, PlaceOf
  <2> QED BY <1>6, <2>1 DEF Run
<1>8. NoHits(u)
  BY <1>3 DEF NoHits
<1> QED BY <1>3, <1>5, <1>7, <1>8

(* The end of every block is a place in the stream.                        *)
LEMMA BlockPlaces ==
  ASSUME sent \in Seq(Sizes), rblk \in Seq(Seq(Byte) \ {<<>>}),
         NEW p \in Place, Stream(p)
  PROVE  \A i \in 0 .. Len(rblk) : BehindBlock(p, i) \in Place
<1> TAKE i \in 0 .. Len(rblk)
<1>1. CASE i = 0
  BY <1>1 DEF BehindBlock
<1>2. CASE i # 0
  <2>1. i \in 1 .. Len(rblk) /\ rblk[i] \in Seq(Byte) \ {<<>>}
    BY <1>2
  <2>2. Len(rblk[i]) \in 1 .. Len(rblk[i])
    BY <2>1
  <2>3. OfFrame(rblk[i][Len(rblk[i])])
    BY <2>1, <2>2 DEF Stream, Run
  <2> QED BY <1>2, <2>3, PlaceBehind DEF BehindBlock
<1> QED BY <1>1, <1>2

(* A hit changes neither the frame a byte is of nor its place in it.       *)
LEMMA NoisedBytes ==
  ASSUME NEW s \in Seq(Byte), NEW i \in 1 .. Len(s), NEW u, u = Noised(s, i)
  PROVE  /\ u \in Seq(Byte) /\ Len(u) = Len(s) /\ Len(s) \in Nat
         /\ \A j \in 1 .. Len(s) :
              /\ u[j] \in Byte /\ PlaceOf(u[j]) = PlaceOf(s[j])
              /\ u[j].frame = s[j].frame /\ u[j].at = s[j].at /\ u[j].flag = s[j].flag
              /\ u[j].hit => s[j].hit \/ j = i
<1>1. /\ Len(s) \in Nat /\ DOMAIN s = 1 .. Len(s)
      /\ s \in [1 .. Len(s) -> Byte]
  OBVIOUS
<1>2. u = [s EXCEPT ![i] = [s[i] EXCEPT !.hit = TRUE]]
  BY DEF Noised
<1>3. /\ [s[i] EXCEPT !.hit = TRUE] \in Byte
      /\ [s[i] EXCEPT !.hit = TRUE].frame = s[i].frame
      /\ [s[i] EXCEPT !.hit = TRUE].at = s[i].at
      /\ [s[i] EXCEPT !.hit = TRUE].flag = s[i].flag
  <2>1. s[i] \in Byte
    BY <1>1
  <2> QED BY <2>1 DEF Byte
<1>4. PICK hit : hit = [s[i] EXCEPT !.hit = TRUE]
  OBVIOUS
<1>5. u = [s EXCEPT ![i] = hit]
  BY <1>2, <1>4
<1>6. u \in [1 .. Len(s) -> Byte] /\ u[i] = hit /\ \A j \in 1 .. Len(s) : j # i => u[j] = s[j]
  BY <1>1, <1>3, <1>4, <1>5
<1>7. u \in Seq(Byte) /\ Len(u) = Len(s)
  BY <1>1, <1>6
<1>8. ASSUME NEW j \in 1 .. Len(s)
      PROVE  /\ u[j] \in Byte /\ PlaceOf(u[j]) = PlaceOf(s[j])
             /\ u[j].frame = s[j].frame /\ u[j].at = s[j].at /\ u[j].flag = s[j].flag
             /\ u[j].hit => s[j].hit \/ j = i
  BY <1>3, <1>4, <1>6 DEF PlaceOf
<1> QED BY <1>1, <1>7, <1>8

LEMMA RunNoised ==
  ASSUME NEW p, NEW s \in Seq(Byte), NEW q, Run(p, s, q),
         NEW i \in 1 .. Len(s), NEW u, u = Noised(s, i)
  PROVE  Run(p, u, q)
<1>1. /\ u \in Seq(Byte) /\ Len(u) = Len(s) /\ Len(s) \in Nat
      /\ \A j \in 1 .. Len(s) :
           /\ u[j] \in Byte /\ PlaceOf(u[j]) = PlaceOf(s[j])
           /\ u[j].frame = s[j].frame /\ u[j].at = s[j].at /\ u[j].flag = s[j].flag
  BY NoisedBytes
<1>2. \A j \in 0 .. Len(s) : PlaceIn(p, u, j) = PlaceIn(p, s, j)
  BY <1>1 DEF PlaceIn
<1>3. ASSUME NEW j \in 1 .. Len(s)
      PROVE  OfFrame(u[j]) /\ Follows(PlaceIn(p, u, j - 1), PlaceOf(u[j]))
  <2>1. OfFrame(s[j]) /\ Follows(PlaceIn(p, s, j - 1), PlaceOf(s[j]))
    BY DEF Run
  <2>2. OfFrame(u[j])
    BY <1>1, <2>1 DEF OfFrame
  <2>3. PlaceIn(p, u, j - 1) = PlaceIn(p, s, j - 1)
    BY <1>1, <1>2
  <2> QED BY <1>1, <2>1, <2>2, <2>3
<1>4. PlaceIn(p, u, Len(u)) = q
  BY <1>1, <1>2 DEF Run
<1> QED BY <1>1, <1>3, <1>4 DEF Run

(* send_frame puts the bytes of its frame at the end of the stream. *)
LEMMA SentInStream ==
  ASSUME sent \in Seq(Sizes), tcp \in Seq(Byte), rblk \in Seq(Seq(Byte) \ {<<>>}),
         NEW p \in Place, Stream(p), NEW size \in Sizes, sent' = Append(sent, size),
         rblk' = rblk, NEW k \in Nat, k = Len(sent) + 1, NEW u, u = Encoded(k, size),
         tcp' = tcp \o u
  PROVE  Stream(p)' /\ tcp' \in Seq(Byte)
<1>1. PICK old, e : old = End /\ e = [frame |-> k, at |-> 2 * size + 1]
  OBVIOUS
<1>2. u \in Seq(Byte) /\ NoHits(u) /\ Run(old, u, e)' /\ End' = e
  BY <1>1, EncodedRun
<1>3. /\ \A i \in 0 .. Len(rblk) : BehindBlock(p, i) \in Place
      /\ \A i : BehindBlock(p, i)' = BehindBlock(p, i)
  <2>1. \A i \in 0 .. Len(rblk) : BehindBlock(p, i) \in Place
    BY BlockPlaces
  <2>2. \A i : BehindBlock(p, i)' = BehindBlock(p, i)
    BY DEF BehindBlock
  <2> QED BY <2>1, <2>2
<1>4. ASSUME NEW i \in 1 .. Len(rblk)
      PROVE  Run(BehindBlock(p, i - 1), rblk[i], BehindBlock(p, i))'
  <2>1. /\ i - 1 \in 0 .. Len(rblk) /\ rblk[i] \in Seq(Byte) /\ Len(rblk[i]) \in Nat
    OBVIOUS
  <2>2. PICK a, s, b :
          a \in Place /\ a = BehindBlock(p, i - 1) /\ s = rblk[i] /\ b = BehindBlock(p, i)
    BY <1>3, <2>1
  <2>3. Run(a, s, b)
    BY <2>2 DEF Stream
  <2>4. Run(a, s, b)'
    BY <2>1, <2>2, <2>3, RunKeeps
  <2>5. a = BehindBlock(p, i - 1)' /\ s = rblk'[i] /\ b = BehindBlock(p, i)'
    BY <1>3, <2>2
  <2> QED BY <2>4, <2>5
<1>5. Run(BehindBlock(p, Len(rblk)), tcp, End)'
  <2>1. Len(rblk) \in 0 .. Len(rblk) /\ Len(tcp) \in Nat
    OBVIOUS
  <2>2. PICK a, s : a \in Place /\ a = BehindBlock(p, Len(rblk)) /\ s = tcp
    BY <1>3, <2>1
  <2>3. Run(a, s, old)
    BY <1>1, <2>2 DEF Stream
  <2>4. Run(a, s, old)'
    BY <2>1, <2>2, <2>3, RunKeeps
  <2>5. PICK t : t = s \o u
    OBVIOUS
  <2>6. Run(a, t, e)'
    BY <1>2, <2>2, <2>4, <2>5, RunJoins
  <2>7. a = BehindBlock(p, Len(rblk))' /\ t = tcp' /\ e = End'
    BY <1>2, <1>3, <2>2, <2>5
  <2> QED BY <2>6, <2>7
<1>6. tcp' \in Seq(Byte) /\ \A i \in 1 .. Len(tcp') : ~ tcp'[i].hit
  <2>1. PICK t, v : t = tcp' /\ v = tcp
    OBVIOUS
  <2>2. /\ t \in Seq(Byte) /\ Len(t) = Len(v) + Len(u) /\ Len(v) \in Nat /\ Len(u) \in Nat
        /\ \A i \in 1 .. Len(v) + Len(u) : t[i] = IF i <= Len(v) THEN v[i] ELSE u[i - Len(v)]
    BY <1>2, <2>1, Joined
  <2>3. (\A i \in 1 .. Len(v) : ~ v[i].hit) /\ \A i \in 1 .. Len(u) : ~ u[i].hit
    BY <1>2, <2>1 DEF Stream, NoHits
  <2>4. ASSUME NEW i \in 1 .. Len(t) PROVE ~ t[i].hit
    <3>1. CASE i <= Len(v)
      <4>1. i \in 1 .. Len(v) /\ t[i] = v[i]
        BY <2>2, <3>1
      <4> QED BY <2>3, <4>1
    <3>2. CASE ~ (i <= Len(v))
      <4>1. PICK j : j = i - Len(v)
        OBVIOUS
      <4>2. j \in 1 .. Len(u) /\ t[i] = u[j]
        BY <2>2, <3>2, <4>1
      <4> QED BY <2>3, <4>2
    <3> QED BY <3>1, <3>2
  <2> QED BY <2>1, <2>2, <2>4
<1> QED BY <1>4, <1>5, <1>6 DEF Stream

(* send_frame: what was sent before keeps its places, the frame is put     *)
(* behind it.                                                              *)
LEMMA SendFrameKeeps ==
  ASSUME FramingInv, NEW size \in Sizes, SendFrame(size)
  PROVE  FramingInv'
<1>1. /\ TypeOK /\ Fits(rf_buf.nibbles) /\ (~ rf_buf.open => rf_buf = NoFrame)
      /\ sent \in Seq(Sizes) /\ tcp \in Seq(Byte) /\ rblk \in Seq(Seq(Byte) \ {<<>>})
  BY DEF FramingInv, TypeOK
<1>2. PICK p \in Place : Stream(p) /\ FewHits(p)
  BY DEF FramingInv
<1>3. /\ sent' = Append(sent, size) /\ tcp' = tcp \o Encoded(Len(sent'), size)
      /\ rblk' = rblk /\ rf_buf' = rf_buf /\ rf' = rf /\ received' = received
      /\ noise' = noise /\ aborted' = aborted
  BY DEF SendFrame
<1>4. PICK k \in Nat : k = Len(sent) + 1 /\ k = Len(sent')
  BY <1>1, <1>3
<1>5. PICK u : u = Encoded(k, size)
  OBVIOUS
<1>6. tcp' = tcp \o u
  BY <1>3, <1>4, <1>5
<1>7. Stream(p)' /\ tcp' \in Seq(Byte)
  BY <1>1, <1>2, <1>3, <1>4, <1>5, <1>6, SentInStream
<1>8. TypeOK'
  <2>1. sent' \in Seq(Sizes) /\ tcp' \in Seq(Byte)
    BY <1>1, <1>3, <1>7
  <2> QED BY <1>1, <1>3, <2>1 DEF TypeOK
<1>9. p \in Place'
  BY <1>1, <1>3, SentKeeps
<1>10. FewHits(p)'
  <2>1. LastAt(p.frame)' = LastAt(p.frame)
    BY <1>1, <1>3, SentKeeps DEF Place
  <2>2. InStep(p, rf_buf)' <=> InStep(p, rf_buf)
    BY <1>3, <2>1 DEF InStep
  <2>3. OutOfStep(p, rf_buf)' <=> OutOfStep(p, rf_buf)
    BY <1>3, <2>1 DEF OutOfStep
  <2>4. (HitsLater' <=> HitsLater) /\ (AtMostOneHit' <=> AtMostOneHit)
    BY <1>3 DEF HitsLater, AtMostOneHit, Hit
  <2> QED BY <1>2, <1>3, <2>2, <2>3, <2>4 DEF FewHits, Short
<1>11. Fits(rf_buf'.nibbles) /\ (~ rf_buf'.open => rf_buf' = NoFrame)
  BY <1>1, <1>3
<1> QED BY <1>7, <1>8, <1>9, <1>10, <1>11 DEF FramingInv

LEMMA MinOfTwo ==
  ASSUME NEW a \in Nat, NEW b \in Nat
  PROVE  Min({a, b}) \in {a, b} /\ Min({a, b}) <= a /\ Min({a, b}) <= b
<1>1. \E x \in {a, b} : \A y \in {a, b} : x <= y
  <2>1. CASE a <= b
    BY <2>1
  <2>2. CASE b < a
    BY <2>2
  <2> QED BY <2>1, <2>2
<1>2. Min({a, b}) \in {a, b} /\ \A y \in {a, b} : Min({a, b}) <= y
  BY <1>1 DEF Min
<1> HIDE DEF Min
<1> QED BY <1>2

(* Where sizes of frames stay, runs stay.                                  *)
LEMMA SameRuns ==
  ASSUME sent' = sent
  PROVE  /\ \A p, s, q : Run(p, s, q)' <=> Run(p, s, q)
         /\ \A k : LastAt(k)' = LastAt(k)
         /\ Place' = Place /\ End' = End
         /\ \A p, buf : /\ InStep(p, buf)' <=> InStep(p, buf)
                        /\ OutOfStep(p, buf)' <=> OutOfStep(p, buf)
<1>1. \A k : LastAt(k)' = LastAt(k)
  BY DEF LastAt, Size
<1>2. \A b : OfFrame(b)' <=> OfFrame(b)
  BY DEF OfFrame, LastAt, Size
<1>3. \A p, q : Follows(p, q)' <=> Follows(p, q)
  BY <1>1 DEF Follows
<1>4. \A p, s, q : Run(p, s, q)' <=> Run(p, s, q)
  BY <1>2, <1>3 DEF Run
<1>5. Place' = Place
  BY DEF Place, LastAt, Size
<1>6. End' = End
  BY DEF End, LastAt, Size
<1>7. \A p, buf : InStep(p, buf)' <=> InStep(p, buf)
  BY <1>1 DEF InStep
<1>8. \A p, buf : OutOfStep(p, buf)' <=> OutOfStep(p, buf)
  BY <1>1 DEF OutOfStep
<1> QED BY <1>1, <1>4, <1>5, <1>6, <1>7, <1>8

(* Where the bytes stay too, so does the stream.                           *)
LEMMA SameStream ==
  ASSUME sent' = sent, tcp' = tcp, rblk' = rblk, NEW p, Stream(p)
  PROVE  Stream(p)'
<1>1. \A b, t, c : Run(b, t, c)' <=> Run(b, t, c)
  BY SameRuns
<1>2. ASSUME NEW i \in 1 .. Len(rblk')
      PROVE  Run(BehindBlock(p, i - 1), rblk[i], BehindBlock(p, i))'
  <2>1. PICK b, t, c : b = BehindBlock(p, i - 1) /\ t = rblk[i] /\ c = BehindBlock(p, i)
    OBVIOUS
  <2>2. b = BehindBlock(p, i - 1)' /\ t = rblk'[i] /\ c = BehindBlock(p, i)'
    BY <2>1 DEF BehindBlock
  <2>3. Run(b, t, c)'
    BY <1>1, <2>1 DEF Stream
  <2> QED BY <2>2, <2>3
<1>3. Run(BehindBlock(p, Len(rblk)), tcp, End)'
  <2>1. PICK b, t, c : b = BehindBlock(p, Len(rblk)) /\ t = tcp /\ c = End
    OBVIOUS
  <2>2. b = BehindBlock(p, Len(rblk))' /\ t = tcp' /\ c = End'
    BY <2>1, SameRuns DEF BehindBlock
  <2>3. Run(b, t, c)'
    BY <1>1, <2>1 DEF Stream
  <2> QED BY <2>2, <2>3
<1> QED BY <1>2, <1>3 DEF Stream

(* A block behind the others, with its hits.                               *)
LEMMA BlockAdded ==
  ASSUME rblk \in Seq(Seq(Byte) \ {<<>>}), NEW blk \in Seq(Byte) \ {<<>>},
         rblk' = Append(rblk, blk)
  PROVE  /\ rblk' \in Seq(Seq(Byte) \ {<<>>})
         /\ Len(rblk) \in Nat /\ Len(rblk') = Len(rblk) + 1
         /\ \A i \in 1 .. Len(rblk) : rblk'[i] = rblk[i]
         /\ \A i \in Nat : i = Len(rblk) + 1 => rblk'[i] = blk
OBVIOUS

(* socket_recv: a block more, cut off what is on the connection.           *)
LEMMA BlockInStream ==
  ASSUME sent \in Seq(Sizes), tcp \in Seq(Byte), rblk \in Seq(Seq(Byte) \ {<<>>}),
         NEW p \in Place, Stream(p), sent' = sent,
         NEW m \in 1 .. Len(tcp), tcp' = SubSeq(tcp, m + 1, Len(tcp)),
         NEW block, block = SubSeq(tcp, 1, m),
         NEW blk, rblk' = Append(rblk, blk),
         blk = block \/ \E i \in 1 .. m : blk = Noised(block, i)
  PROVE  Stream(p)' /\ blk \in Seq(Byte) \ {<<>>} /\ tcp' \in Seq(Byte)
<1>1. /\ Len(tcp) \in Nat /\ Len(rblk) \in Nat /\ m \in 0 .. Len(tcp) /\ m # 0
  OBVIOUS
<1>2. PICK a, e, s, q : /\ a = BehindBlock(p, Len(rblk)) /\ e = End /\ s = tcp
                        /\ q = PlaceIn(a, s, m)
  OBVIOUS
<1>3. Run(a, s, e) /\ s \in Seq(Byte) /\ m \in 0 .. Len(s)
  BY <1>1, <1>2 DEF Stream
<1>4. PICK u : u = SubSeq(s, m + 1, Len(s)) /\ u = tcp'
  BY <1>2
<1>5. /\ block \in Seq(Byte) /\ Len(block) = m
      /\ u \in Seq(Byte) /\ Len(u) = Len(s) - m /\ \A i \in 1 .. Len(s) - m : u[i] = s[m + i]
      /\ Run(a, block, q) /\ Run(q, u, e)
  <2>1. block = SubSeq(s, 1, m)
    BY <1>2
  <2>2. /\ s \in Seq(Byte) /\ Run(a, s, e) /\ m \in 0 .. Len(s)
        /\ u = SubSeq(s, m + 1, Len(s)) /\ q = PlaceIn(a, s, m)
    BY <1>2, <1>3, <1>4
  <2>3. block \in Seq(Byte) /\ Len(block) = m /\ Run(a, block, PlaceIn(a, s, m))
    BY ONLY <2>1, <2>2, RunTaken
  <2>4. /\ u \in Seq(Byte) /\ Len(u) = Len(s) - m
        /\ \A i \in 1 .. Len(s) - m : u[i] = s[m + i]
        /\ Run(PlaceIn(a, s, m), u, e)
    <3>1. PICK from, last : from = m + 1 /\ last = Len(s)
      OBVIOUS
    <3>2. u = SubSeq(s, from, last)
      BY ONLY <2>2, <3>1
    <3> QED BY ONLY <2>2, <3>1, <3>2, RunLeft
  <2> QED BY ONLY <2>2, <2>3, <2>4
<1>6. blk \in Seq(Byte) /\ Len(blk) = m /\ Run(a, blk, q)
  <2>1. CASE blk = block
    BY ONLY <1>5, <2>1
  <2>2. CASE \E i \in 1 .. m : blk = Noised(block, i)
    <3>1. PICK i \in 1 .. m : blk = Noised(block, i)
      BY <2>2
    <3>2. i \in 1 .. Len(block) /\ block \in Seq(Byte) /\ Run(a, block, q)
      BY <1>5
    <3>3. blk \in Seq(Byte) /\ Len(blk) = Len(block)
      BY ONLY <3>1, <3>2, NoisedBytes
    <3>4. Run(a, blk, q)
      BY ONLY <3>1, <3>2, RunNoised
    <3> QED BY ONLY <1>5, <3>3, <3>4
  <2> QED BY <2>1, <2>2
<1>7. blk # <<>>
  BY <1>1, <1>6
<1>8. q = PlaceOf(blk[Len(blk)])
  BY <1>1, <1>6 DEF Run, PlaceIn
<1>9. /\ rblk' \in Seq(Seq(Byte) \ {<<>>})
      /\ Len(rblk') = Len(rblk) + 1
      /\ \A i \in 1 .. Len(rblk) : rblk'[i] = rblk[i]
      /\ \A i \in Nat : i = Len(rblk) + 1 => rblk'[i] = blk
  BY <1>6, <1>7, BlockAdded
<1>10. \A i \in 0 .. Len(rblk) : BehindBlock(p, i)' = BehindBlock(p, i)
  BY <1>1, <1>9 DEF BehindBlock
<1>11. \A i \in Nat : i = Len(rblk) + 1 => BehindBlock(p, i)' = q
  BY <1>1, <1>8, <1>9 DEF BehindBlock
<1>12. \A b, t, c : Run(b, t, c)' <=> Run(b, t, c)
  BY SameRuns
<1>13. \A i \in 1 .. Len(rblk') : Run(BehindBlock(p, i - 1), rblk[i], BehindBlock(p, i))'
  <2> SUFFICES ASSUME NEW i \in 1 .. Len(rblk')
               PROVE  Run(BehindBlock(p, i - 1), rblk[i], BehindBlock(p, i))'
    OBVIOUS
  <2>1. CASE i \in 1 .. Len(rblk)
    <3>1. PICK b, t, c : b = BehindBlock(p, i - 1) /\ t = rblk[i] /\ c = BehindBlock(p, i)
      OBVIOUS
    <3>2. Run(b, t, c)
      BY <2>1, <3>1 DEF Stream
    <3>3. b = BehindBlock(p, i - 1)' /\ t = rblk'[i] /\ c = BehindBlock(p, i)'
      BY <1>1, <1>9, <1>10, <2>1, <3>1
    <3>4. Run(b, t, c)'
      BY <1>12, <3>2
    <3> QED BY <3>3, <3>4
  <2>2. CASE i = Len(rblk) + 1
    <3>1. a = BehindBlock(p, i - 1)' /\ blk = rblk'[i] /\ q = BehindBlock(p, i)'
      BY <1>1, <1>2, <1>9, <1>10, <1>11, <2>2
    <3>2. Run(a, blk, q)'
      BY <1>6, <1>12
    <3> QED BY <3>1, <3>2
  <2> QED BY <1>1, <1>9, <2>1, <2>2
<1>14. Run(BehindBlock(p, Len(rblk)), tcp, End)'
  <2>1. q = BehindBlock(p, Len(rblk))' /\ u = tcp' /\ e = End'
    BY <1>1, <1>2, <1>4, <1>9, <1>11, SameRuns DEF BehindBlock
  <2>2. Run(q, u, e)'
    BY <1>5, <1>12
  <2> QED BY <2>1, <2>2
<1>15. \A i \in 1 .. Len(tcp') : ~ tcp'[i].hit
  <2>1. \A i \in 1 .. Len(s) : ~ s[i].hit
    BY <1>2 DEF Stream
  <2>2. \A i \in 1 .. Len(u) : ~ u[i].hit
    <3> TAKE i \in 1 .. Len(u)
    <3>1. Len(s) = Len(tcp)
      BY <1>2
    <3>2. i \in 1 .. Len(s) - m /\ m + i \in 1 .. Len(s)
      BY ONLY <1>1, <1>5, <3>1, i \in 1 .. Len(u)
    <3>3. u[i] = s[m + i]
      BY ONLY <1>5, <3>2
    <3> QED BY ONLY <2>1, <3>2, <3>3
  <2> QED BY <1>4, <2>2
<1> QED BY <1>4, <1>5, <1>6, <1>7, <1>13, <1>14, <1>15 DEF Stream

LEMMA SocketRecvKeeps ==
  ASSUME FramingInv, NEW n \in BlockSizes, SocketRecv(Min({n, Len(tcp)}))
  PROVE  FramingInv'
<1>1. /\ TypeOK /\ Fits(rf_buf.nibbles) /\ (~ rf_buf.open => rf_buf = NoFrame)
      /\ sent \in Seq(Sizes) /\ tcp \in Seq(Byte) /\ rblk \in Seq(Seq(Byte) \ {<<>>})
      /\ noise \in Nat
  BY DEF FramingInv, TypeOK
<1>2. PICK p \in Place : Stream(p) /\ FewHits(p)
  BY DEF FramingInv
<1>3. PICK m : m = Min({n, Len(tcp)})
  OBVIOUS
<1>4. tcp # <<>>
  BY DEF SocketRecv
<1>5. m \in 1 .. Len(tcp)
  <2>1. Len(tcp) \in Nat \ {0} /\ n \in Nat \ {0}
    BY <1>1, <1>4, SizesAssumption
  <2> QED BY <1>3, <2>1, MinOfTwo
<1>6. PICK block : block = SubSeq(tcp, 1, m)
  OBVIOUS
<1>7. /\ sent' = sent /\ rf_buf' = rf_buf /\ rf' = rf /\ received' = received
      /\ aborted' = aborted /\ tcp' = SubSeq(tcp, m + 1, Len(tcp))
      /\ \/ rblk' = Append(rblk, block) /\ noise' = noise
         \/ (\E i \in 1 .. m : rblk' = Append(rblk, Noised(block, i))) /\ noise' = noise + 1
  BY <1>3, <1>6 DEF SocketRecv
<1>8. PICK blk : /\ rblk' = Append(rblk, blk)
                 /\ \/ blk = block /\ noise' = noise
                    \/ (\E i \in 1 .. m : blk = Noised(block, i)) /\ noise' = noise + 1
  <2>1. CASE rblk' = Append(rblk, block) /\ noise' = noise
    BY <2>1
  <2>2. CASE (\E i \in 1 .. m : rblk' = Append(rblk, Noised(block, i))) /\ noise' = noise + 1
    <3>1. PICK i \in 1 .. m : rblk' = Append(rblk, Noised(block, i))
      BY <2>2
    <3> QED BY <2>2, <3>1
  <2> QED BY <1>7, <2>1, <2>2
<1>9. Stream(p)' /\ blk \in Seq(Byte) \ {<<>>} /\ tcp' \in Seq(Byte)
  <2>1. blk = block \/ \E i \in 1 .. m : blk = Noised(block, i)
    BY <1>8
  <2>2. sent' = sent /\ tcp' = SubSeq(tcp, m + 1, Len(tcp)) /\ rblk' = Append(rblk, blk)
    BY <1>7, <1>8
  <2> QED BY ONLY <1>1, <1>2, <1>5, <1>6, <2>1, <2>2, BlockInStream
<1>10. /\ rblk' \in Seq(Seq(Byte) \ {<<>>})
       /\ Len(rblk) \in Nat /\ Len(rblk') = Len(rblk) + 1
       /\ \A i \in 1 .. Len(rblk) : rblk'[i] = rblk[i]
       /\ \A i \in Nat : i = Len(rblk) + 1 => rblk'[i] = blk
  BY <1>1, <1>8, <1>9, BlockAdded
<1>11. TypeOK'
  <2>1. noise' \in Nat
    BY <1>1, <1>8
  <2> QED BY <1>1, <1>7, <1>9, <1>10, <2>1 DEF TypeOK
<1>12. /\ block \in Seq(Byte) /\ Len(block) = m /\ m \in Nat
       /\ \A j \in 1 .. m : ~ block[j].hit
  <2>1. \A j \in 1 .. Len(tcp) : ~ tcp[j].hit
    BY <1>2 DEF Stream
  <2>2. /\ block \in Seq(Byte) /\ Len(block) = m /\ m \in Nat
        /\ \A j \in 1 .. m : j \in 1 .. Len(tcp) /\ block[j] = tcp[j]
    BY <1>1, <1>5, <1>6
  <2> QED BY <2>1, <2>2
<1>13. p \in Place'
  BY <1>7, SameRuns
<1>14. FewHits(p)'
  <2> SUFFICES ASSUME noise' <= 1
               PROVE  /\ ~ aborted
                      /\ \A i \in 1 .. Len(rf) : Short(rf[i])
                      /\ AtMostOneHit'
                      /\ noise' = 0 => ~ HitsLater'
                      /\ \/ InStep(p, rf_buf)
                         \/ noise' = 1 /\ ~ HitsLater' /\ OutOfStep(p, rf_buf)
    <3>1. /\ InStep(p, rf_buf)' <=> InStep(p, rf_buf)
          /\ OutOfStep(p, rf_buf)' <=> OutOfStep(p, rf_buf)
      <4>1. PICK buf : buf = rf_buf /\ buf = rf_buf'
        BY <1>7
      <4>2. InStep(p, buf)' <=> InStep(p, buf)
        BY <1>7, SameRuns
      <4>3. OutOfStep(p, buf)' <=> OutOfStep(p, buf)
        BY <1>7, SameRuns
      <4> QED BY <4>1, <4>2, <4>3
    <3> QED BY <1>7, <3>1 DEF FewHits, Short
  <2>1. /\ noise <= 1 /\ ~ aborted
        /\ \A i \in 1 .. Len(rf) : Short(rf[i])
        /\ AtMostOneHit
        /\ noise = 0 => ~ HitsLater
        /\ InStep(p, rf_buf) \/ (noise = 1 /\ ~ HitsLater /\ OutOfStep(p, rf_buf))
    BY <1>1, <1>2, <1>8 DEF FewHits
  <2>2. ASSUME NEW i \in 1 .. Len(rblk'), NEW j \in 1 .. Len(rblk'[i]), Hit(i, j)'
        PROVE  \/ i \in 1 .. Len(rblk) /\ j \in 1 .. Len(rblk[i]) /\ Hit(i, j)
               \/ i = Len(rblk) + 1 /\ j \in 1 .. Len(blk) /\ blk[j].hit
    <3>1. CASE i \in 1 .. Len(rblk)
      BY <1>10, <2>2, <3>1 DEF Hit
    <3>2. CASE i = Len(rblk) + 1
      <4>1. rblk'[i] = blk
        BY <1>10, <3>2
      <4> QED BY <2>2, <3>2, <4>1 DEF Hit
    <3> QED BY <1>10, <3>1, <3>2
  <2>3. CASE blk = block /\ noise' = noise
    <3>1. \A i \in 1 .. Len(rblk') : \A j \in 1 .. Len(rblk'[i]) :
            Hit(i, j)' => i \in 1 .. Len(rblk) /\ j \in 1 .. Len(rblk[i]) /\ Hit(i, j)
      BY <1>12, <2>2, <2>3
    <3>2. HitsLater' => HitsLater
      BY <3>1 DEF HitsLater
    <3>3. AtMostOneHit'
      <4>1. ASSUME NEW i \in 1 .. Len(rblk'), NEW k \in 1 .. Len(rblk'),
                   NEW j \in 1 .. Len(rblk'[i]), NEW l \in 1 .. Len(rblk'[k]),
                   Hit(i, j)', Hit(k, l)'
            PROVE  i = k /\ j = l
        <5>1. /\ i \in 1 .. Len(rblk) /\ j \in 1 .. Len(rblk[i]) /\ Hit(i, j)
              /\ k \in 1 .. Len(rblk) /\ l \in 1 .. Len(rblk[k]) /\ Hit(k, l)
          BY <3>1, <4>1
        <5> QED BY <2>1, <5>1 DEF AtMostOneHit
      <4> QED BY <4>1 DEF AtMostOneHit
    <3> QED BY <2>1, <2>3, <3>2, <3>3
  <2>4. CASE (\E i \in 1 .. m : blk = Noised(block, i)) /\ noise' = noise + 1
    <3>1. PICK at \in 1 .. m : blk = Noised(block, at)
      BY <2>4
    <3>2. noise = 0 /\ noise' = 1 /\ ~ HitsLater /\ InStep(p, rf_buf)
      BY <1>1, <2>1, <2>4
    <3>3. Len(blk) = m /\ \A j \in 1 .. m : blk[j].hit => j = at
      <4>1. block \in Seq(Byte) /\ at \in 1 .. Len(block) /\ Len(block) = m
        BY <1>12
      <4>2. /\ Len(blk) = m
            /\ \A j \in 1 .. m : blk[j].hit => block[j].hit \/ j = at
        BY ONLY <3>1, <4>1, NoisedBytes
      <4> QED BY <1>12, <4>2
    <3>4. \A i \in 1 .. Len(rblk') : \A j \in 1 .. Len(rblk'[i]) :
            Hit(i, j)' => i = Len(rblk) + 1 /\ j = at
      BY <2>2, <3>2, <3>3 DEF HitsLater
    <3>5. AtMostOneHit'
      BY <3>4 DEF AtMostOneHit
    <3> QED BY <2>1, <3>2, <3>5
  <2> QED BY <1>8, <2>3, <2>4
<1>15. Fits(rf_buf'.nibbles) /\ (~ rf_buf'.open => rf_buf' = NoFrame)
  BY <1>1, <1>7
<1> QED BY <1>9, <1>11, <1>13, <1>14, <1>15 DEF FramingInv

LEMMA HeadAndTail ==
  ASSUME NEW S, NEW s \in Seq(S), s # <<>>, NEW t, t = Tail(s)
  PROVE  /\ Len(s) \in Nat \ {0} /\ Head(s) = s[1] /\ s[1] \in S
         /\ t \in Seq(S) /\ Len(t) = Len(s) - 1
         /\ \A i \in 1 .. Len(t) : t[i] = s[i + 1] /\ i + 1 \in 1 .. Len(s)
OBVIOUS

(* wait_for_event takes the first block: the stream begins behind it.      *)
LEMMA StreamBehindBlock ==
  ASSUME sent \in Seq(Sizes), rblk \in Seq(Seq(Byte) \ {<<>>}), rblk # <<>>,
         NEW p \in Place, Stream(p),
         sent' = sent, tcp' = tcp, rblk' = Tail(rblk),
         NEW s, s = rblk[1], NEW q, q = BehindBlock(p, 1)
  PROVE  q \in Place' /\ Run(p, s, q) /\ Stream(q)'
<1>1. /\ Len(rblk) \in Nat \ {0} /\ rblk' \in Seq(Seq(Byte) \ {<<>>})
      /\ Len(rblk') = Len(rblk) - 1
      /\ \A i \in 1 .. Len(rblk') : rblk'[i] = rblk[i + 1] /\ i + 1 \in 1 .. Len(rblk)
  <2>1. PICK b, t : b = rblk /\ t = rblk' /\ t = Tail(b)
    OBVIOUS
  <2> QED BY <2>1, HeadAndTail
<1>2. q \in Place'
  <2>1. 1 \in 0 .. Len(rblk)
    BY <1>1
  <2>2. q \in Place
    BY <2>1, BlockPlaces
  <2> QED BY <2>2, SameRuns
<1>3. Run(p, s, q)
  <2>1. 1 \in 1 .. Len(rblk) /\ 1 - 1 = 0
    BY <1>1
  <2>2. Run(BehindBlock(p, 1 - 1), rblk[1], BehindBlock(p, 1))
    BY <2>1 DEF Stream
  <2>3. BehindBlock(p, 0) = p
    BY DEF BehindBlock
  <2> QED BY <2>1, <2>2, <2>3
<1>4. \A i \in 0 .. Len(rblk') : BehindBlock(q, i)' = BehindBlock(p, i + 1)
  <2> TAKE i \in 0 .. Len(rblk')
  <2>1. CASE i = 0
    BY <2>1 DEF BehindBlock
  <2>2. CASE i # 0
    <3>1. i \in 1 .. Len(rblk') /\ i + 1 # 0
      BY <1>1, <2>2
    <3>2. rblk'[i] = rblk[i + 1]
      BY <1>1, <3>1
    <3> QED BY <2>2, <3>1, <3>2 DEF BehindBlock
  <2> QED BY <2>1, <2>2
<1>5. \A b, t, c : Run(b, t, c)' <=> Run(b, t, c)
  BY SameRuns
<1>6. ASSUME NEW i \in 1 .. Len(rblk')
      PROVE  Run(BehindBlock(q, i - 1), rblk[i], BehindBlock(q, i))'
  <2>1. /\ i - 1 \in 0 .. Len(rblk') /\ i \in 0 .. Len(rblk')
        /\ (i - 1) + 1 = i /\ (i + 1) - 1 = i /\ i + 1 \in 1 .. Len(rblk)
    BY <1>1
  <2>2. PICK b, t, c : b = BehindBlock(p, i) /\ t = rblk[i + 1] /\ c = BehindBlock(p, i + 1)
    OBVIOUS
  <2>3. Run(BehindBlock(p, (i + 1) - 1), rblk[i + 1], BehindBlock(p, i + 1))
    BY <2>1 DEF Stream
  <2>4. Run(b, t, c)
    BY <2>1, <2>2, <2>3
  <2>5. Run(b, t, c)'
    BY <1>5, <2>4
  <2>6. b = BehindBlock(q, i - 1)' /\ t = rblk'[i] /\ c = BehindBlock(q, i)'
    BY <1>1, <1>4, <2>1, <2>2
  <2> QED BY <2>5, <2>6
<1>7. Run(BehindBlock(q, Len(rblk)), tcp, End)'
  <2>1. PICK b, t, e : b = BehindBlock(p, Len(rblk)) /\ t = tcp /\ e = End
    OBVIOUS
  <2>2. Run(b, t, e)
    BY <2>1 DEF Stream
  <2>3. Len(rblk') \in 0 .. Len(rblk') /\ Len(rblk') + 1 = Len(rblk)
    BY <1>1
  <2>4. b = BehindBlock(q, Len(rblk))' /\ t = tcp' /\ e = End'
    BY <1>4, <2>1, <2>3, SameRuns
  <2>5. Run(b, t, e)'
    BY <1>5, <2>2
  <2> QED BY <2>4, <2>5
<1>8. \A i \in 1 .. Len(tcp') : ~ tcp'[i].hit
  BY DEF Stream
<1>9. Stream(q)'
  BY <1>6, <1>7, <1>8 DEF Stream
<1> QED BY <1>2, <1>3, <1>9

(* What recv_frame returns is whole bytes, and fits the caller's buffer.   *)
LEMMA CopiedFits ==
  ASSUME NEW f \in Frames, Length(f) <= RecvSize, NEW c, c = Copied(f)
  PROVE  c \in Seq(Byte) /\ Len(c) \in {2 * n : n \in 1 .. RecvSize}
<1>1. f \in Seq(Byte) /\ Length(f) \in 1 .. FrameSize
  BY DEF Frames
<1>2. RecvSize \in Nat
  BY LongestFrame DEF RecvSize
<1>3. Length(f) \in 1 .. RecvSize /\ 2 * Length(f) <= Len(f) /\ Len(f) \in Nat
  BY <1>1, <1>2, HalfOf
<1>4. PICK k : k = 2 * Length(f)
  OBVIOUS
<1>5. k \in Nat /\ k <= Len(f) /\ c = SubSeq(f, 1, k)
  BY <1>3, <1>4 DEF Copied
<1>6. c \in Seq(Byte) /\ Len(c) = k
  BY ONLY <1>1, <1>3, <1>5
<1> QED BY <1>3, <1>4, <1>6

(* wait_for_event: the block is read, and the first frame is taken.        *)
LEMMA CommitKeeps ==
  ASSUME FramingInv, Commit
  PROVE  FramingInv'
<1>1. /\ TypeOK /\ Fits(rf_buf.nibbles) /\ (~ rf_buf.open => rf_buf = NoFrame)
      /\ sent \in Seq(Sizes) /\ tcp \in Seq(Byte) /\ rblk \in Seq(Seq(Byte) \ {<<>>})
      /\ noise \in Nat /\ received \in Seq(Seq(Byte)) /\ rf \in Seq(Seq(Byte))
      /\ rf_buf \in [open : BOOLEAN, nibbles : Seq(Byte)]
      /\ \A i \in DOMAIN rf : Length(rf[i]) \in 1 .. FrameSize
      /\ \A i \in DOMAIN received : Len(received[i]) \in {2 * n : n \in 1 .. RecvSize}
  BY DEF FramingInv, TypeOK
<1>2. PICK p \in Place : Stream(p) /\ FewHits(p)
  BY DEF FramingInv
<1>3. PICK r : r = Collected(Head(rblk))
  OBVIOUS
<1>4. /\ ~ aborted /\ rblk # <<>> /\ rblk' = Tail(rblk) /\ rf_buf' = r.buf
      /\ sent' = sent /\ tcp' = tcp /\ noise' = noise
      /\ \/ r.done = <<>> /\ rf' = rf /\ received' = received /\ aborted' = aborted
         \/ /\ r.done # <<>> /\ Length(Head(r.done)) > RecvSize
            /\ rf' = r.done /\ aborted' = TRUE /\ received' = received
         \/ /\ r.done # <<>> /\ Length(Head(r.done)) <= RecvSize
            /\ rf' = Tail(r.done) /\ received' = Append(received, Copied(Head(r.done)))
            /\ aborted' = aborted
  BY <1>3 DEF Commit
<1>5. /\ Len(rblk) \in Nat \ {0} /\ Head(rblk) = rblk[1] /\ rblk[1] \in Seq(Byte) \ {<<>>}
      /\ rblk' \in Seq(Seq(Byte) \ {<<>>}) /\ Len(rblk') = Len(rblk) - 1
      /\ \A i \in 1 .. Len(rblk') : rblk'[i] = rblk[i + 1] /\ i + 1 \in 1 .. Len(rblk)
  <2>1. PICK b, t : b = rblk /\ t = rblk' /\ t = Tail(b)
    BY <1>4
  <2> QED BY <1>1, <1>4, <2>1, HeadAndTail
<1>6. PICK s, q : s = rblk[1] /\ q = BehindBlock(p, 1)
  OBVIOUS
<1>7. q \in Place' /\ Run(p, s, q) /\ Stream(q)'
  BY ONLY <1>1, <1>2, <1>4, <1>6, StreamBehindBlock
<1>8. PICK start : start = [buf |-> rf_buf, done |-> rf]
  OBVIOUS
<1>9. start \in Receiver /\ start.buf = rf_buf /\ start.done = rf
  <2>1. rf_buf \in Buffers
    BY <1>1 DEF Buffers
  <2>2. rf \in Seq(Frames)
    <3>1. \A i \in 1 .. Len(rf) : rf[i] \in Seq(Byte) /\ Length(rf[i]) \in 1 .. FrameSize
      BY <1>1
    <3>2. \A i \in 1 .. Len(rf) : rf[i] \in Frames
      BY <3>1 DEF Frames
    <3>3. Len(rf) \in Nat /\ rf = [i \in 1 .. Len(rf) |-> rf[i]]
      BY <1>1
    <3> HIDE DEF Frames
    <3> QED BY ONLY <3>2, <3>3
  <2> QED BY <1>8, <2>1, <2>2 DEF Receiver
<1>10. s \in Seq(Byte) /\ r = After(start, s)
  BY <1>3, <1>5, <1>6, <1>8 DEF Collected
<1>11. r \in Receiver /\ r.buf \in Buffers /\ r.done \in Seq(Frames)
  <2>1. r \in Receiver
    BY ONLY <1>9, <1>10, AfterTyped
  <2> QED BY <2>1 DEF Receiver
<1>12. ASSUME r.done # <<>>
       PROVE  /\ Head(r.done) \in Frames /\ Head(r.done) = r.done[1]
              /\ Len(r.done) \in Nat \ {0}
              /\ Tail(r.done) \in Seq(Frames)
              /\ Len(Tail(r.done)) = Len(r.done) - 1
              /\ \A i \in 1 .. Len(Tail(r.done)) :
                   Tail(r.done)[i] = r.done[i + 1] /\ i + 1 \in 1 .. Len(r.done)
  <2>1. PICK d, t : d = r.done /\ t = Tail(d)
    OBVIOUS
  <2> QED BY <1>11, <1>12, <2>1, HeadAndTail
<1>13. rf' \in Seq(Frames)
  BY <1>4, <1>9, <1>11, <1>12 DEF Receiver
<1>14. /\ received' \in Seq(Seq(Byte))
       /\ \A i \in DOMAIN received' : Len(received'[i]) \in {2 * n : n \in 1 .. RecvSize}
  <2>1. CASE received' = received
    BY <1>1, <2>1
  <2>2. CASE /\ r.done # <<>> /\ Length(Head(r.done)) <= RecvSize
             /\ received' = Append(received, Copied(Head(r.done)))
    <3>1. PICK f, c : f = Head(r.done) /\ c = Copied(f)
      OBVIOUS
    <3>2. c \in Seq(Byte) /\ Len(c) \in {2 * n : n \in 1 .. RecvSize}
      BY <1>12, <2>2, <3>1, CopiedFits
    <3>3. received' = Append(received, c)
      BY <2>2, <3>1
    <3>4. /\ received' \in Seq(Seq(Byte)) /\ Len(received') = Len(received) + 1
          /\ Len(received) \in Nat
          /\ \A i \in 1 .. Len(received) : received'[i] = received[i]
          /\ received'[Len(received) + 1] = c
      BY <1>1, <3>2, <3>3
    <3>5. ASSUME NEW i \in DOMAIN received'
          PROVE  Len(received'[i]) \in {2 * n : n \in 1 .. RecvSize}
      <4>1. i \in DOMAIN received \/ i = Len(received) + 1
        BY ONLY <1>1, <3>4, i \in DOMAIN received'
      <4>2. i \in DOMAIN received => received'[i] = received[i]
        <5>1. DOMAIN received = 1 .. Len(received)
          BY <1>1
        <5> QED BY ONLY <3>4, <5>1
      <4>3. CASE i \in DOMAIN received
        BY <1>1, <4>2, <4>3
      <4>4. CASE i = Len(received) + 1
        BY <3>2, <3>4, <4>4
      <4> QED BY <4>1, <4>3, <4>4
    <3> QED BY <3>4, <3>5
  <2> QED BY <1>4, <2>1, <2>2
<1>15. TypeOK'
  <2>1. rf' \in Seq(Seq(Byte)) /\ \A i \in DOMAIN rf' : Length(rf'[i]) \in 1 .. FrameSize
    BY <1>13 DEF Frames
  <2>2. rf_buf' \in [open : BOOLEAN, nibbles : Seq(Byte)]
    BY <1>4, <1>11 DEF Buffers
  <2>3. aborted' \in BOOLEAN
    BY <1>1, <1>4 DEF TypeOK
  <2> QED BY <1>1, <1>4, <1>5, <1>14, <2>1, <2>2, <2>3 DEF TypeOK
<1>16. Fits(rf_buf'.nibbles) /\ (~ rf_buf'.open => rf_buf' = NoFrame)
  BY <1>4, <1>11 DEF Buffers
<1>17. ASSUME noise <= 1
       PROVE  /\ AllShort(r.done)
              /\ InStep(q, r.buf) \/ OutOfStep(q, r.buf)
              /\ InStep(p, rf_buf) /\ NoHits(s) => InStep(q, r.buf)
              /\ NoHits(s) \/ InStep(p, rf_buf)
              /\ NoHits(s) \/ (noise = 1 /\ ~ HitsLater')
              /\ HitsLater' => HitsLater
              /\ AtMostOneHit'
  <2>1. /\ AllShort(rf)
        /\ AtMostOneHit
        /\ noise = 0 => ~ HitsLater
        /\ InStep(p, rf_buf) \/ (noise = 1 /\ ~ HitsLater /\ OutOfStep(p, rf_buf))
    BY <1>2, <1>17 DEF FewHits, AllShort
  <2>2. 1 \in 1 .. Len(rblk) /\ Len(s) \in Nat
    BY <1>5, <1>6, <1>10
  <2>3. \A i \in 1 .. Len(rblk') : \A j \in 1 .. Len(rblk'[i]) :
          Hit(i, j)' => /\ i + 1 \in 1 .. Len(rblk) /\ j \in 1 .. Len(rblk[i + 1])
                        /\ Hit(i + 1, j) /\ i + 1 # 1
    <3> SUFFICES ASSUME NEW i \in 1 .. Len(rblk'), NEW j \in 1 .. Len(rblk'[i]), Hit(i, j)'
                 PROVE  /\ i + 1 \in 1 .. Len(rblk) /\ j \in 1 .. Len(rblk[i + 1])
                        /\ Hit(i + 1, j) /\ i + 1 # 1
      OBVIOUS
    <3>1. rblk'[i] = rblk[i + 1] /\ i + 1 \in 1 .. Len(rblk)
      BY <1>5
    <3> QED BY <3>1 DEF Hit
  <2>4. HitsLater' => HitsLater
    BY <2>3 DEF HitsLater
  <2>5. AtMostOneHit'
    <3>1. ASSUME NEW i \in 1 .. Len(rblk'), NEW k \in 1 .. Len(rblk'),
                 NEW j \in 1 .. Len(rblk'[i]), NEW l \in 1 .. Len(rblk'[k]),
                 Hit(i, j)', Hit(k, l)'
          PROVE  i = k /\ j = l
      <4>1. PICK a, b : a = i + 1 /\ b = k + 1
        OBVIOUS
      <4>2. /\ a \in 1 .. Len(rblk) /\ j \in 1 .. Len(rblk[a]) /\ Hit(a, j)
            /\ b \in 1 .. Len(rblk) /\ l \in 1 .. Len(rblk[b]) /\ Hit(b, l)
        BY <2>3, <3>1, <4>1
      <4>3. a = b /\ j = l
        BY <2>1, <4>2 DEF AtMostOneHit
      <4> QED BY <4>1, <4>3
    <3> QED BY <3>1 DEF AtMostOneHit
  <2>6. \A j \in 1 .. Len(s) : s[j].hit <=> Hit(1, j)
    BY <1>6 DEF Hit
  <2>7. \A i, j \in 1 .. Len(s) : s[i].hit /\ s[j].hit => i = j
    BY <1>6, <2>1, <2>2, <2>6 DEF AtMostOneHit
  <2>8. ~ NoHits(s) => HitsLater
    BY <1>6, <2>2, <2>6 DEF NoHits, HitsLater
  <2>9. ~ NoHits(s) => noise = 1 /\ InStep(p, rf_buf) /\ ~ HitsLater'
    <3> SUFFICES ASSUME ~ NoHits(s)
                 PROVE  noise = 1 /\ InStep(p, rf_buf) /\ ~ HitsLater'
      OBVIOUS
    <3>1. noise = 1 /\ InStep(p, rf_buf)
      BY <1>1, <1>17, <2>1, <2>8
    <3>2. PICK l \in 1 .. Len(s) : Hit(1, l)
      BY <2>6 DEF NoHits
    <3>3. ASSUME NEW i \in 1 .. Len(rblk'), NEW j \in 1 .. Len(rblk'[i]), Hit(i, j)'
          PROVE  FALSE
      <4>1. PICK a : a = i + 1
        OBVIOUS
      <4>2. a \in 1 .. Len(rblk) /\ j \in 1 .. Len(rblk[a]) /\ Hit(a, j) /\ a # 1
        BY <2>3, <3>3, <4>1
      <4> QED BY <1>6, <2>1, <2>2, <3>2, <4>2 DEF AtMostOneHit
    <3>4. ~ HitsLater'
      BY <3>3 DEF HitsLater
    <3> QED BY <3>1, <3>4
  <2>10. InStep(p, start.buf) \/ (OutOfStep(p, start.buf) /\ NoHits(s))
    BY <1>9, <2>1, <2>9
  <2>11. /\ AllShort(r.done)
         /\ InStep(q, r.buf) \/ OutOfStep(q, r.buf)
         /\ InStep(p, start.buf) /\ NoHits(s) => InStep(q, r.buf)
    <3>1. AllShort(start.done)
      BY <1>9, <2>1
    <3> QED BY ONLY <1>1, <1>7, <1>9, <1>10, <2>7, <2>10, <3>1, RunRead
  <2> QED BY <1>9, <2>4, <2>5, <2>9, <2>11
<1>18. FewHits(q)'
  <2> SUFFICES ASSUME noise <= 1
               PROVE  /\ ~ aborted'
                      /\ AllShort(rf')
                      /\ AtMostOneHit'
                      /\ noise = 0 => ~ HitsLater'
                      /\ \/ InStep(q, r.buf)
                         \/ noise = 1 /\ ~ HitsLater' /\ OutOfStep(q, r.buf)
    <3>1. PICK buf : buf = r.buf /\ buf = rf_buf'
      BY <1>4
    <3>2. InStep(q, buf)' <=> InStep(q, buf)
      BY <1>4, SameRuns
    <3>3. OutOfStep(q, buf)' <=> OutOfStep(q, buf)
      BY <1>4, SameRuns
    <3>4. (InStep(q, rf_buf)' <=> InStep(q, r.buf)) /\ (OutOfStep(q, rf_buf)' <=> OutOfStep(q, r.buf))
      BY <3>1, <3>2, <3>3
    <3> QED BY <1>4, <3>4 DEF FewHits, AllShort, Short
  <2>1. /\ noise = 0 => ~ HitsLater
        /\ InStep(p, rf_buf) \/ (noise = 1 /\ ~ HitsLater /\ OutOfStep(p, rf_buf))
        /\ AllShort(rf)
    BY <1>2 DEF FewHits, AllShort
  <2>2. ASSUME r.done # <<>> PROVE Length(Head(r.done)) <= RecvSize
    <3>1. Head(r.done) = r.done[1] /\ 1 \in 1 .. Len(r.done) /\ Head(r.done) \in Frames
      BY <1>12, <2>2
    <3>2. Short(Head(r.done))
      BY <1>17, <3>1 DEF AllShort
    <3>3. Length(Head(r.done)) \in Nat
      BY <3>1 DEF Frames
    <3> QED BY <3>2, <3>3, LongestFrame DEF Short, RecvSize
  <2>3. ~ aborted'
    <3>1. ASSUME r.done # <<>>, Length(Head(r.done)) > RecvSize PROVE FALSE
      <4>1. Length(Head(r.done)) \in Nat /\ RecvSize \in Nat
        BY <1>12, <3>1, LongestFrame DEF Frames, RecvSize
      <4> QED BY <2>2, <3>1, <4>1
    <3> QED BY <1>4, <3>1
  <2>4. AllShort(rf')
    <3>1. AllShort(r.done)
      BY <1>17
    <3>2. r.done # <<>> => AllShort(Tail(r.done))
      BY <1>12, <3>1 DEF AllShort
    <3> QED BY <1>4, <2>1, <3>1, <3>2
  <2>5. \/ InStep(q, r.buf)
        \/ noise = 1 /\ ~ HitsLater' /\ OutOfStep(q, r.buf)
    BY <1>17, <2>1
  <2> QED BY <1>17, <2>1, <2>3, <2>4, <2>5
<1> QED BY <1>7, <1>15, <1>16, <1>18 DEF FramingInv

-----------------------------------------------------------------------------
LEMMA StepKeeps == FramingInv /\ [Next]_vars => FramingInv'
<1> SUFFICES ASSUME FramingInv, [Next]_vars PROVE FramingInv'
  OBVIOUS
<1>1. CASE \E size \in Sizes : SendFrame(size)
  BY <1>1, SendFrameKeeps
<1>2. CASE \E n \in BlockSizes : SocketRecv(Min({n, Len(tcp)}))
  BY <1>2, SocketRecvKeeps
<1>3. CASE Commit
  BY <1>3, CommitKeeps
<1>4. CASE UNCHANGED vars
  <2>1. /\ sent' = sent /\ tcp' = tcp /\ rblk' = rblk /\ rf_buf' = rf_buf /\ rf' = rf
        /\ received' = received /\ noise' = noise /\ aborted' = aborted
    BY <1>4 DEF vars
  <2>2. PICK p \in Place : Stream(p) /\ FewHits(p)
    BY DEF FramingInv
  <2>3. TypeOK'
    BY <2>1 DEF FramingInv, TypeOK
  <2>4. p \in Place'
    BY <2>1, SameRuns
  <2>5. Stream(p)'
    BY <2>1, <2>2, SameStream
  <2>6. FewHits(p)'
    BY <2>1, <2>2 DEF FewHits, InStep, OutOfStep, HitsLater, AtMostOneHit, Hit, LastAt, Size
  <2> QED BY <2>1, <2>3, <2>4, <2>5, <2>6 DEF FramingInv
<1> QED BY <1>1, <1>2, <1>3, <1>4 DEF Next

(* The receiver is somewhere in the stream of the bytes that were sent: in *)
(* step with its frames, as long as no byte of it was hit, and behind the  *)
(* only hit at most one frame out of step.  send_frame, socket_recv and    *)
(* wait_for_event keep this, whatever frames are sent and wherever the     *)
(* stream is cut into blocks.                                              *)
THEOREM FramingInvCorrect == Spec => []FramingInv
<1>1. Init => FramingInv
  BY InitHolds
<1>2. FramingInv /\ [Next]_vars => FramingInv'
  BY StepKeeps
<1> QED BY <1>1, <1>2, PTL DEF Spec

(* A frame longer than the buffer of the data link layer, at which         *)
(* recv_frame aborts the program, takes two hits at least: one hit never   *)
(* puts two frames together.                                               *)
THEOREM AbortNeedsTwoHitsHolds == Spec => []AbortNeedsTwoHits
<1>1. FramingInv => AbortNeedsTwoHits
  <2>1. TypeOK => noise \in Nat
    BY DEF TypeOK
  <2> QED BY <2>1 DEF FramingInv, FewHits, AbortNeedsTwoHits
<1> QED BY <1>1, FramingInvCorrect, PTL
-----------------------------------------------------------------------------
(* The frames that will be received. *)

Rest == FlattenSeq(rblk) \o tcp

(* The receiver, what recv_frame returned included.                        *)
Whole == [buf |-> rf_buf, done |-> received \o rf]

(* The frames a receiver has, the one that waits for its closing flag too. *)
All(r) ==
  IF Length(r.buf.nibbles) > 0 THEN Append(r.done, r.buf.nibbles) ELSE r.done

(* Made of bytes of the frames up to n.                                    *)
Within(f, n) == \A i \in 1 .. Len(f) : f[i].frame \in Nat \ {0} /\ f[i].frame <= n

Apart(f, g) ==
  \A i \in 1 .. Len(f), j \in 1 .. Len(g) : f[i].frame < g[j].frame

(* The frame whose bytes are all read at p.                                *)
Closed(p) == IF p.at = LastAt(p.frame) THEN p.frame ELSE p.frame - 1

(* What was read from the same frame stays together, in order.             *)
Ordered(p, r) ==
  /\ \A i \in 1 .. Len(r.done) : Within(r.done[i], Closed(p)) /\ Apart(r.done[i], r.buf.nibbles)
  /\ \A i, j \in 1 .. Len(r.done) : i < j => Apart(r.done[i], r.done[j])

(* What the frame under construction has, and its last nibbles.            *)
Shape(p, buf) ==
  LET f == buf.nibbles
      n == Len(f)
  IN  /\ Within(f, p.frame)
      /\ n <= 2 * FrameSize
      /\ p.at = LastAt(p.frame) => n # 1
      /\ buf.open /\ p.at < LastAt(p.frame) =>
           /\ p.at >= 1 => n >= 1 /\ (n < 2 * FrameSize => PlaceOf(f[n]) = p)
           /\ p.at >= 2 => n >= 2 /\ (n < 2 * FrameSize =>
                             PlaceOf(f[n - 1]) = [frame |-> p.frame, at |-> p.at - 1])

(* f is frame k as it was sent.                                            *)
IsWhole(f, k) == Copied(f) = Nibbles(k, sent[k])

WholeIn(frames) == {k \in 1 .. Len(sent) : \E i \in 1 .. Len(frames) : IsWhole(frames[i], k)}

(* The frame that is lost as soon as it is sent.                           *)
Debt(r) == IF Length(r.buf.nibbles) > 0 THEN 1 ELSE 0

Final == After(Whole, Rest)

LinkInv ==
  /\ FramingInv
  /\ Whole \in Receiver
  /\ \E p \in Place : Stream(p) /\ Shape(p, rf_buf) /\ Ordered(p, Whole)
  /\ Len(sent) + Debt(Final) <= Cardinality(WholeIn(All(Final))) + noise

-----------------------------------------------------------------------------
(* Reading in pieces. *)

LEMMA SameReading ==
  ASSUME NEW n \in Nat, NEW r, NEW t, r[0] = t[0],
         \A i \in 1 .. n : r[i - 1] = t[i - 1] => r[i] = t[i]
  PROVE  r[n] = t[n]
<1> DEFINE G == {i \in 0 .. n : r[i] = t[i]}
<1>1. 0 \in G
  OBVIOUS
<1>2. ASSUME NEW i \in 1 .. n, i - 1 \in G PROVE i \in G
  BY <1>2
<1>3. \A i \in 0 .. n : i \in G
  <2> HIDE DEF G
  <2> QED BY <1>1, <1>2, GoesOn
<1> QED BY <1>3

LEMMA AfterNone ==
  ASSUME NEW start
  PROVE  After(start, <<>>) = start
<1>1. Len(<<>>) = 0
  OBVIOUS
<1>2. PICK r : Reading(start, <<>>, r)
  BY <1>1, AfterReads
<1> QED BY <1>1, <1>2 DEF Reading

LEMMA AfterJoined ==
  ASSUME NEW start, NEW s \in Seq(Byte), NEW t \in Seq(Byte)
  PROVE  After(start, s \o t) = After(After(start, s), t)
<1>1. PICK u : u = s \o t
  OBVIOUS
<1>2. /\ u \in Seq(Byte) /\ Len(u) = Len(s) + Len(t) /\ Len(s) \in Nat /\ Len(t) \in Nat
      /\ \A i \in 1 .. Len(s) + Len(t) : u[i] = IF i <= Len(s) THEN s[i] ELSE t[i - Len(s)]
  BY <1>1, Joined
<1>3. PICK m \in Nat, n \in Nat : m = Len(s) /\ n = Len(t)
  BY <1>2
<1>4. Len(u) \in Nat /\ Len(u) = m + n
  BY <1>2, <1>3
<1>5. PICK all : Reading(start, u, all)
  BY <1>4, AfterReads
<1>6. PICK first : Reading(start, s, first)
  BY <1>2, AfterReads
<1>7. PICK middle : middle = After(start, s)
  OBVIOUS
<1>8. PICK second : Reading(middle, t, second)
  BY <1>2, AfterReads
<1>9. all[m] = first[m]
  <2>1. all[0] = first[0]
    BY <1>5, <1>6 DEF Reading
  <2>2. \A i \in 1 .. m : all[i] = Collect(all[i - 1], s[i]) /\ first[i] = Collect(first[i - 1], s[i])
    <3> TAKE i \in 1 .. m
    <3>1. i \in 1 .. Len(u) /\ i \in 1 .. Len(s) /\ u[i] = s[i]
      BY <1>2, <1>3
    <3> QED BY <3>1, <1>5, <1>6 DEF Reading
  <2> QED BY <2>1, <2>2, SameReading
<1>10. first[m] = middle
  BY <1>3, <1>6, <1>7 DEF Reading
<1> DEFINE rest == [i \in 0 .. n |-> all[m + i]]
<1>11. rest[n] = second[n]
  <2>1. rest[0] = second[0]
    BY <1>8, <1>9, <1>10 DEF Reading
  <2>2. \A i \in 1 .. n : rest[i] = Collect(rest[i - 1], t[i]) /\ second[i] = Collect(second[i - 1], t[i])
    <3> TAKE i \in 1 .. n
    <3>1. /\ m + i \in 1 .. Len(u) /\ i \in 1 .. Len(t) /\ (m + i) - 1 = m + (i - 1)
          /\ i - 1 \in 0 .. n /\ i \in 0 .. n /\ ~ (m + i <= m) /\ (m + i) - m = i
      BY <1>3, <1>4
    <3>2. u[m + i] = t[i]
      <4>1. u[m + i] = t[(m + i) - m]
        BY <3>1, <1>2, <1>3
      <4> QED BY <3>1, <4>1
    <3>3. all[m + i] = Collect(all[(m + i) - 1], u[m + i])
      BY <3>1, <1>5 DEF Reading
    <3>4. rest[i] = all[m + i] /\ rest[i - 1] = all[m + (i - 1)]
      BY <3>1
    <3>5. second[i] = Collect(second[i - 1], t[i])
      BY <3>1, <1>8 DEF Reading
    <3> QED BY <3>1, <3>2, <3>3, <3>4, <3>5
  <2> HIDE DEF rest
  <2>3. \A i \in 1 .. n : rest[i - 1] = second[i - 1] => rest[i] = second[i]
    BY <2>2
  <2> QED BY <2>1, <2>3, SameReading
<1>12. rest[n] = all[m + n]
  OBVIOUS
<1>13. After(start, u) = all[m + n] /\ After(middle, t) = second[n]
  BY <1>3, <1>4, <1>5, <1>8 DEF Reading
<1> HIDE DEF rest
<1> QED BY <1>1, <1>7, <1>11, <1>12, <1>13

(* Frames that are there already change nothing. *)
LEMMA CollectBehind ==
  ASSUME NEW r \in Receiver, NEW d \in Seq(Frames), NEW b \in Byte,
         NEW w \in Receiver, w.buf = r.buf, w.done = d \o r.done
  PROVE  /\ Collect(w, b).buf = Collect(r, b).buf
         /\ Collect(w, b).done = d \o Collect(r, b).done
<1>1. PICK c, e : c = Collect(r, b) /\ e = Collect(w, b)
  OBVIOUS
<1>2. /\ r.done \in Seq(Frames) /\ r.buf.open \in BOOLEAN /\ r.buf.nibbles \in Seq(Byte)
      /\ Len(r.buf.nibbles) \in Nat
      /\ r = [buf |-> r.buf, done |-> r.done] /\ w = [buf |-> w.buf, done |-> w.done]
      /\ r.buf = [open |-> r.buf.open, nibbles |-> r.buf.nibbles]
  BY DEF Receiver, Buffers
<1>3. \A f \in Frames : d \o Append(r.done, f) = Append(d \o r.done, f)
  BY <1>2
<1>4. PICK n : n = r.buf.nibbles
  OBVIOUS
<1>5. PICK open : open = r.buf.open
  OBVIOUS
<1>6. CASE IsFlag(b) /\ open /\ Length(n) > 0
  <2>1. /\ c = [buf |-> NoFrame, done |-> Append(r.done, n)]
        /\ e = [buf |-> NoFrame, done |-> Append(w.done, n)]
    BY <1>1, <1>4, <1>5, <1>6 DEF Collect
  <2>2. n \in Frames
    BY <1>2, <1>4, <1>6, HalfOf DEF Receiver, Buffers, Frames, Fits
  <2>3. c.buf = e.buf /\ c.done = Append(r.done, n) /\ e.done = Append(d \o r.done, n)
    BY <2>1
  <2>4. Append(d \o r.done, n) = d \o Append(r.done, n)
    BY <1>3, <2>2
  <2> QED BY <1>1, <2>3, <2>4
<1>7. CASE IsFlag(b) /\ ~ (open /\ Length(n) > 0)
  <2>1. c = [r EXCEPT !.buf.open = TRUE] /\ e = [w EXCEPT !.buf.open = TRUE]
    BY <1>1, <1>4, <1>5, <1>7 DEF Collect
  <2>2. c.buf = [r.buf EXCEPT !.open = TRUE] /\ c.done = r.done
    BY <1>2, <2>1
  <2>3. e.buf = [w.buf EXCEPT !.open = TRUE] /\ e.done = w.done
    BY <1>2, <2>1
  <2> QED BY <1>1, <2>2, <2>3
<1>8. CASE ~ IsFlag(b) /\ open /\ Length(n) < FrameSize
  <2>1. c = [r EXCEPT !.buf.nibbles = Append(@, b)] /\ e = [w EXCEPT !.buf.nibbles = Append(@, b)]
    BY <1>1, <1>4, <1>5, <1>8 DEF Collect
  <2>2. c.buf = [r.buf EXCEPT !.nibbles = Append(@, b)] /\ c.done = r.done
    BY <1>2, <2>1
  <2>3. e.buf = [w.buf EXCEPT !.nibbles = Append(@, b)] /\ e.done = w.done
    BY <1>2, <2>1
  <2> QED BY <1>1, <2>2, <2>3
<1>9. CASE ~ IsFlag(b) /\ ~ (open /\ Length(n) < FrameSize)
  <2>1. c = r /\ e = w
    BY <1>1, <1>4, <1>5, <1>9 DEF Collect
  <2> QED BY <1>1, <2>1
<1> QED BY <1>6, <1>7, <1>8, <1>9

LEMMA AfterBehind ==
  ASSUME NEW r \in Receiver, NEW d \in Seq(Frames), NEW s \in Seq(Byte),
         NEW w \in Receiver, w.buf = r.buf, w.done = d \o r.done
  PROVE  /\ After(w, s).buf = After(r, s).buf
         /\ After(w, s).done = d \o After(r, s).done
<1>1. Len(s) \in Nat /\ \A i \in 1 .. Len(s) : s[i] \in Byte
  OBVIOUS
<1>2. PICK x : Reading(r, s, x)
  BY <1>1, AfterReads
<1>3. PICK y : Reading(w, s, y)
  BY <1>1, AfterReads
<1> DEFINE G == {i \in 0 .. Len(s) : /\ x[i] \in Receiver /\ y[i] \in Receiver
                                     /\ y[i].buf = x[i].buf /\ y[i].done = d \o x[i].done}
<1>4. 0 \in G
  <2>1. x[0] = r /\ y[0] = w
    BY <1>2, <1>3 DEF Reading
  <2>2. /\ x[0] \in Receiver /\ y[0] \in Receiver
        /\ y[0].buf = x[0].buf /\ y[0].done = d \o x[0].done
    BY <2>1
  <2>3. 0 \in 0 .. Len(s)
    BY <1>1
  <2> QED BY <2>2, <2>3
<1>5. ASSUME NEW i \in 1 .. Len(s), i - 1 \in G PROVE i \in G
  <2>1. x[i] = Collect(x[i - 1], s[i]) /\ y[i] = Collect(y[i - 1], s[i])
    BY <1>2, <1>3 DEF Reading
  <2>2. PICK a, b, c : a = x[i - 1] /\ b = y[i - 1] /\ c = s[i]
    OBVIOUS
  <2>3. a \in Receiver /\ b \in Receiver /\ b.buf = a.buf /\ b.done = d \o a.done /\ c \in Byte
    BY <1>1, <1>5, <2>2
  <2>4. /\ Collect(a, c) \in Receiver /\ Collect(b, c) \in Receiver
        /\ Collect(b, c).buf = Collect(a, c).buf /\ Collect(b, c).done = d \o Collect(a, c).done
    BY ONLY <2>3, d \in Seq(Frames), CollectTyped, CollectBehind
  <2>5. i \in 0 .. Len(s)
    BY <1>1
  <2> QED BY <2>1, <2>2, <2>4, <2>5
<1>6. \A i \in 0 .. Len(s) : i \in G
  <2> HIDE DEF G
  <2> QED BY <1>1, <1>4, <1>5, GoesOn
<1>7. Len(s) \in G
  BY <1>1, <1>6
<1> QED BY <1>2, <1>3, <1>7 DEF Reading

-----------------------------------------------------------------------------
(* The blocks as one sequence of bytes. *)

Flattened(ss, n, f) == f = [i \in 1 .. n |-> IF i = 1 THEN ss[i] ELSE f[i - 1] \o ss[i]]

LEMMA FlattenExists ==
  ASSUME NEW ss, NEW n \in Nat
  PROVE  \E f : Flattened(ss, n, f)
<1> DEFINE T == {k \in Nat : ~ \E f : Flattened(ss, k, f)}
<1> SUFFICES ASSUME T # {} PROVE FALSE
  OBVIOUS
<1>1. PICK k \in T : \A j \in T : k <= j
  BY LeastNatural
<1>2. k \in Nat /\ ~ \E f : Flattened(ss, k, f)
  BY <1>1
<1>3. CASE k = 0
  <2> DEFINE r == [i \in 1 .. 0 |-> ss]
  <2>1. \A i \in 1 .. 0 : FALSE
    OBVIOUS
  <2>2. [i \in 1 .. 0 |-> IF i = 1 THEN ss[i] ELSE r[i - 1] \o ss[i]] = r
    BY <2>1
  <2> HIDE DEF r
  <2> QED BY <2>2, <1>2, <1>3 DEF Flattened
<1>4. CASE k > 0
  <2>1. PICK g : Flattened(ss, k - 1, g)
    BY <1>1, <1>2, <1>4
  <2> DEFINE e(r, i) == IF i = 1 THEN ss[i] ELSE r[i - 1] \o ss[i]
             r == [i \in 1 .. k |-> e(g, i)]
  <2>2. \A i \in 1 .. (k - 1) : g[i] = e(g, i)
    BY <2>1 DEF Flattened
  <2>3. \A i \in 1 .. (k - 1) : r[i] = g[i]
    <3> TAKE i \in 1 .. (k - 1)
    <3>1. i \in 1 .. k
      BY <1>2
    <3>2. r[i] = e(g, i)
      BY <3>1
    <3> QED BY <2>2, <3>2
  <2>4. \A i \in 1 .. k : e(r, i) = e(g, i)
    <3> TAKE i \in 1 .. k
    <3>1. CASE i = 1
      BY <3>1
    <3>2. CASE i # 1
      <4>1. i - 1 \in 1 .. (k - 1)
        BY <3>2, <1>2
      <4>2. r[i - 1] = g[i - 1]
        BY <4>1, <2>3
      <4> HIDE DEF r
      <4> QED BY <4>2, <3>2
    <3> QED BY <3>1, <3>2
  <2>5. r = [i \in 1 .. k |-> e(r, i)]
    <3> HIDE DEF e
    <3> QED BY <2>4
  <2>6. Flattened(ss, k, r)
    <3> HIDE DEF r
    <3> QED BY <2>5 DEF Flattened
  <2> QED BY <2>6, <1>2
<1> QED BY <1>2, <1>3, <1>4

LEMMA FlattenNone == FlattenSeq(<<>>) = <<>>
BY DEF FlattenSeq

LEMMA FlattenReads ==
  ASSUME NEW ss \in Seq(Seq(Byte)), ss # <<>>
  PROVE  \E f : /\ f[1] = ss[1]
                /\ \A i \in 2 .. Len(ss) : f[i] = f[i - 1] \o ss[i]
                /\ \A i \in 1 .. Len(ss) : f[i] \in Seq(Byte)
                /\ FlattenSeq(ss) = f[Len(ss)]
<1>1. PICK n \in Nat \ {0} : n = Len(ss)
  OBVIOUS
<1> DEFINE s == CHOOSE f : Flattened(ss, n, f)
<1>2. Flattened(ss, n, s)
  <2>1. \E f : Flattened(ss, n, f)
    BY FlattenExists
  <2> QED BY <2>1
<1>3. FlattenSeq(ss) = s[n]
  BY <1>1 DEF FlattenSeq, Flattened
<1> HIDE DEF s
<1>4. \A i \in 1 .. n : s[i] = IF i = 1 THEN ss[i] ELSE s[i - 1] \o ss[i]
  BY <1>2 DEF Flattened
<1>5. s[1] = ss[1] /\ \A i \in 2 .. n : s[i] = s[i - 1] \o ss[i]
  <2>1. 1 \in 1 .. n /\ \A i \in 2 .. n : i \in 1 .. n /\ i # 1
    BY <1>1
  <2> QED BY <1>4, <2>1
<1>6. \A i \in 1 .. n : s[i] \in Seq(Byte)
  <2>1. \A i \in 1 .. n : ss[i] \in Seq(Byte)
    BY <1>1
  <2> DEFINE G == {i \in 0 .. n : i = 0 \/ s[i] \in Seq(Byte)}
  <2>2. 0 \in G
    BY <1>1
  <2>3. ASSUME NEW i \in 1 .. n, i - 1 \in G PROVE i \in G
    <3>1. CASE i = 1
      BY <1>1, <1>5, <2>1, <3>1
    <3>2. CASE i # 1
      <4>1. i \in 2 .. n /\ i \in 0 .. n /\ i - 1 # 0
        BY <1>1, <3>2
      <4>2. s[i - 1] \in Seq(Byte)
        BY <2>3, <4>1
      <4>3. s[i - 1] \o ss[i] \in Seq(Byte)
        BY <2>1, <4>2
      <4> QED BY <1>5, <4>1, <4>3
    <3> QED BY <3>1, <3>2
  <2>4. \A i \in 0 .. n : i \in G
    <3> HIDE DEF G
    <3> QED BY <1>1, <2>2, <2>3, GoesOn
  <2>5. \A i \in 1 .. n : i \in 0 .. n /\ i # 0
    BY <1>1
  <2> QED BY <2>4, <2>5
<1> QED BY <1>1, <1>3, <1>5, <1>6

LEMMA FlattenTyped ==
  ASSUME NEW ss \in Seq(Seq(Byte))
  PROVE  FlattenSeq(ss) \in Seq(Byte)
<1>1. CASE ss = <<>>
  <2>1. <<>> \in Seq(Byte)
    OBVIOUS
  <2> QED BY <1>1, <2>1, FlattenNone
<1>2. CASE ss # <<>>
  <2>1. Len(ss) \in 1 .. Len(ss)
    BY <1>2
  <2> QED BY <1>2, <2>1, FlattenReads
<1> QED BY <1>1, <1>2

(* A block more at the end, and the first one apart. *)
LEMMA FlattenAppend ==
  ASSUME NEW ss \in Seq(Seq(Byte)), NEW s \in Seq(Byte), NEW all, all = Append(ss, s)
  PROVE  FlattenSeq(all) = FlattenSeq(ss) \o s
<1>1. PICK n \in Nat : n = Len(ss)
  OBVIOUS
<1>2. /\ all \in Seq(Seq(Byte)) /\ all # <<>> /\ Len(all) = n + 1
      /\ \A i \in 1 .. n : all[i] = ss[i]
      /\ all[n + 1] = s
  BY <1>1
<1>3. PICK f : /\ f[1] = all[1]
               /\ \A i \in 2 .. n + 1 : f[i] = f[i - 1] \o all[i]
               /\ FlattenSeq(all) = f[n + 1]
  BY <1>2, FlattenReads
<1>4. CASE n = 0
  <2>1. FlattenSeq(all) = s
    BY <1>2, <1>3, <1>4
  <2>2. ss = <<>> /\ <<>> \o s = s
    <3>1. ss = <<>>
      BY <1>1, <1>4, EmptySeq
    <3>2. <<>> \o s = s
      OBVIOUS
    <3> QED BY <3>1, <3>2
  <2> QED BY <2>1, <2>2, FlattenNone
<1>5. CASE n # 0
  <2>1. PICK g : /\ g[1] = ss[1]
                 /\ \A i \in 2 .. n : g[i] = g[i - 1] \o ss[i]
                 /\ FlattenSeq(ss) = g[n]
    <3>1. ss # <<>>
      BY <1>1, <1>5
    <3> QED BY <1>1, <3>1, FlattenReads
  <2> DEFINE G == {i \in 0 .. n : i = 0 \/ f[i] = g[i]}
  <2>2. 0 \in G
    OBVIOUS
  <2>3. ASSUME NEW i \in 1 .. n, i - 1 \in G PROVE i \in G
    <3>1. CASE i = 1
      BY <1>2, <1>3, <2>1, <3>1
    <3>2. CASE i # 1
      <4>1. i \in 2 .. n /\ i \in 2 .. n + 1 /\ i - 1 # 0 /\ i \in 0 .. n /\ i \in 1 .. n
        BY <3>2
      <4>2. f[i - 1] = g[i - 1] /\ all[i] = ss[i]
        BY <1>2, <2>3, <4>1
      <4> QED BY <1>3, <2>1, <4>1, <4>2
    <3> QED BY <3>1, <3>2
  <2>4. \A i \in 0 .. n : i \in G
    <3> HIDE DEF G
    <3> QED BY <2>2, <2>3, GoesOn
  <2>5. n \in 0 .. n /\ n + 1 \in 2 .. n + 1 /\ (n + 1) - 1 = n
    BY <1>5
  <2>6. f[n] = g[n]
    BY <1>5, <2>4, <2>5
  <2>7. f[n + 1] = f[(n + 1) - 1] \o all[n + 1]
    BY <1>3, <2>5
  <2> QED BY <1>2, <1>3, <2>1, <2>5, <2>6, <2>7
<1> QED BY <1>4, <1>5

LEMMA FlattenFirst ==
  ASSUME NEW ss \in Seq(Seq(Byte)), ss # <<>>, NEW more, more = Tail(ss), NEW s, s = ss[1]
  PROVE  /\ s \in Seq(Byte) /\ more \in Seq(Seq(Byte)) /\ FlattenSeq(more) \in Seq(Byte)
         /\ FlattenSeq(ss) = s \o FlattenSeq(more)
<1>1. PICK n \in Nat : n + 1 = Len(ss)
  <2>1. Len(ss) - 1 \in Nat /\ (Len(ss) - 1) + 1 = Len(ss)
    OBVIOUS
  <2> QED BY <2>1
<1>2. /\ more \in Seq(Seq(Byte)) /\ Len(more) = n /\ s \in Seq(Byte)
      /\ \A i \in 1 .. n : more[i] = ss[i + 1] /\ more[i] \in Seq(Byte)
  <2>1. Len(more) = Len(ss) - 1 /\ \A i \in 1 .. Len(more) : more[i] = ss[i + 1]
    BY HeadAndTail
  <2>2. more \in Seq(Seq(Byte)) /\ s \in Seq(Byte)
    BY HeadAndTail
  <2> QED BY <1>1, <2>1, <2>2
<1>3. PICK f : /\ f[1] = s
               /\ \A i \in 2 .. n + 1 : f[i] = f[i - 1] \o ss[i]
               /\ FlattenSeq(ss) = f[n + 1]
  BY <1>1, FlattenReads
<1>4. FlattenSeq(more) \in Seq(Byte)
  BY <1>2, FlattenTyped
<1>5. CASE n = 0
  <2>1. more = <<>> /\ s \o <<>> = s
    <3>1. more = <<>>
      BY <1>2, <1>5, EmptySeq
    <3>2. s \o <<>> = s
      BY <1>2
    <3> QED BY <3>1, <3>2
  <2>2. FlattenSeq(ss) = s
    BY <1>3, <1>5
  <2> QED BY <1>2, <1>4, <2>1, <2>2, FlattenNone
<1>6. CASE n # 0
  <2>1. more # <<>>
    BY <1>2, <1>6
  <2>2. PICK g : /\ g[1] = more[1]
                 /\ \A i \in 2 .. n : g[i] = g[i - 1] \o more[i]
                 /\ \A i \in 1 .. n : g[i] \in Seq(Byte)
                 /\ FlattenSeq(more) = g[n]
    BY <1>2, <2>1, FlattenReads
  <2> DEFINE G == {i \in 0 .. n : i = 0 \/ f[i + 1] = s \o g[i]}
  <2>3. 0 \in G
    OBVIOUS
  <2>4. ASSUME NEW i \in 1 .. n, i - 1 \in G PROVE i \in G
    <3>1. i + 1 \in 2 .. n + 1 /\ (i + 1) - 1 = i /\ i \in 0 .. n
      OBVIOUS
    <3>2. f[i + 1] = f[i] \o ss[i + 1] /\ ss[i + 1] = more[i]
      <4>1. f[i + 1] = f[(i + 1) - 1] \o ss[i + 1]
        BY <1>3, <3>1
      <4> QED BY <1>2, <3>1, <4>1
    <3>3. CASE i = 1
      <4>1. f[1] = s /\ g[i] = more[i]
        BY <1>3, <2>2, <3>3
      <4> QED BY <3>1, <3>2, <3>3, <4>1
    <3>4. CASE i # 1
      <4>1. i \in 2 .. n /\ i - 1 # 0 /\ i - 1 \in 1 .. n /\ (i - 1) + 1 = i
        BY <3>4
      <4>2. f[i] = s \o g[i - 1]
        BY <2>4, <4>1
      <4>3. (s \o g[i - 1]) \o more[i] = s \o (g[i - 1] \o more[i])
        <5>1. g[i - 1] \in Seq(Byte) /\ more[i] \in Seq(Byte)
          BY <1>2, <2>2, <4>1
        <5>2. \A x, y, z \in Seq(Byte) : (x \o y) \o z = x \o (y \o z)
          OBVIOUS
        <5> QED BY <1>2, <5>1, <5>2
      <4>4. g[i] = g[i - 1] \o more[i]
        BY <2>2, <4>1
      <4> QED BY <3>1, <3>2, <4>2, <4>3, <4>4
    <3> QED BY <3>3, <3>4
  <2>5. \A i \in 0 .. n : i \in G
    <3> HIDE DEF G
    <3> QED BY <2>3, <2>4, GoesOn
  <2>6. n \in 0 .. n
    OBVIOUS
  <2>7. f[n + 1] = s \o g[n]
    BY <1>6, <2>5, <2>6
  <2> QED BY <1>2, <1>3, <1>4, <2>2, <2>7
<1> QED BY <1>5, <1>6

(* Runs, put together: as RunJoins, of this state. *)
LEMMA RunsJoin ==
  ASSUME NEW p, NEW s \in Seq(Byte), NEW q, NEW t \in Seq(Byte), NEW e,
         Run(p, s, q), Run(q, t, e)
  PROVE  Run(p, s \o t, e)
<1>1. PICK u : u = s \o t
  OBVIOUS
<1>2. /\ u \in Seq(Byte) /\ Len(u) = Len(s) + Len(t) /\ Len(s) \in Nat /\ Len(t) \in Nat
      /\ \A i \in 1 .. Len(s) + Len(t) : u[i] = IF i <= Len(s) THEN s[i] ELSE t[i - Len(s)]
  BY <1>1, Joined
<1>3. PICK m \in Nat, n \in Nat : m = Len(s) /\ n = Len(t)
  BY <1>2
<1>4. /\ Len(u) = m + n
      /\ \A i \in 1 .. m : u[i] = s[i]
      /\ \A j \in 1 .. n : u[m + j] = t[j]
  <2>1. \A i \in 1 .. m : u[i] = s[i]
    BY <1>2, <1>3
  <2>2. ASSUME NEW j \in 1 .. n PROVE u[m + j] = t[j]
    <3>1. m + j \in 1 .. m + n /\ ~ (m + j <= m) /\ (m + j) - m = j
      BY <1>3
    <3>2. u[m + j] = t[(m + j) - m]
      BY <1>2, <1>3, <3>1
    <3> QED BY <3>1, <3>2
  <2> QED BY <1>2, <1>3, <2>1, <2>2
<1>5. \A i \in 0 .. m : PlaceIn(p, u, i) = PlaceIn(p, s, i)
  BY <1>4 DEF PlaceIn
<1>6. \A j \in 0 .. n : PlaceIn(p, u, m + j) = PlaceIn(q, t, j)
  <2> TAKE j \in 0 .. n
  <2>1. CASE j = 0
    <3>1. q = PlaceIn(p, s, m) /\ PlaceIn(q, t, 0) = q /\ m + 0 = m /\ m \in 0 .. m
      BY <1>3 DEF Run, PlaceIn
    <3> QED BY <1>5, <2>1, <3>1
  <2>2. CASE j # 0
    <3>1. j \in 1 .. n /\ m + j # 0
      BY <1>3, <2>2
    <3>2. u[m + j] = t[j]
      BY <1>4, <3>1
    <3> QED BY <2>2, <3>1, <3>2 DEF PlaceIn
  <2> QED BY <2>1, <2>2
<1>7. ASSUME NEW i \in 1 .. Len(u)
      PROVE  OfFrame(u[i]) /\ Follows(PlaceIn(p, u, i - 1), PlaceOf(u[i]))
  <2>1. CASE i <= m
    <3>1. i \in 1 .. Len(s) /\ u[i] = s[i] /\ i - 1 \in 0 .. m
      BY <1>3, <1>4, <2>1
    <3>2. PlaceIn(p, u, i - 1) = PlaceIn(p, s, i - 1)
      BY <1>5, <3>1
    <3> QED BY <3>1, <3>2 DEF Run
  <2>2. CASE i > m
    <3>1. PICK j \in 1 .. n : i = m + j
      <4>1. i - m \in 1 .. n /\ i = m + (i - m)
        BY <1>3, <1>4, <2>2
      <4> QED BY <4>1
    <3>2. u[i] = t[j] /\ j \in 1 .. Len(t) /\ j - 1 \in 0 .. n /\ i - 1 = m + (j - 1)
      BY <1>3, <1>4, <3>1
    <3>3. PlaceIn(p, u, i - 1) = PlaceIn(q, t, j - 1)
      BY <1>6, <3>2
    <3> QED BY <3>2, <3>3 DEF Run
  <2> QED BY <1>3, <1>4, <2>1, <2>2
<1>8. PlaceIn(p, u, Len(u)) = e
  <2>1. n \in 0 .. n
    OBVIOUS
  <2>2. PlaceIn(p, u, m + n) = PlaceIn(q, t, n)
    BY <1>6, <2>1
  <2> QED BY <1>3, <1>4, <2>2 DEF Run
<1> QED BY <1>1, <1>7, <1>8 DEF Run

(* What the blocks and the connection hold is the rest of the stream. *)
LEMMA RunOfRest ==
  ASSUME rblk \in Seq(Seq(Byte) \ {<<>>}), tcp \in Seq(Byte), NEW p, Stream(p),
         NEW s, s = FlattenSeq(rblk)
  PROVE  /\ s \in Seq(Byte) /\ Rest \in Seq(Byte)
         /\ Run(p, s, BehindBlock(p, Len(rblk)))
         /\ Run(p, Rest, End)
<1>1. rblk \in Seq(Seq(Byte)) /\ Len(rblk) \in Nat
  OBVIOUS
<1>2. s \in Seq(Byte)
  BY <1>1, FlattenTyped
<1>3. Run(p, s, BehindBlock(p, Len(rblk)))
  <2>1. CASE rblk = <<>>
    <3>1. s = <<>> /\ Len(s) = 0 /\ Len(rblk) = 0
      BY <2>1, FlattenNone
    <3> QED BY <3>1 DEF Run, PlaceIn, BehindBlock
  <2>2. CASE rblk # <<>>
    <3>1. PICK f : /\ f[1] = rblk[1]
                   /\ \A i \in 2 .. Len(rblk) : f[i] = f[i - 1] \o rblk[i]
                   /\ \A i \in 1 .. Len(rblk) : f[i] \in Seq(Byte)
                   /\ s = f[Len(rblk)]
      BY <1>1, <2>2, FlattenReads
    <3> DEFINE G == {i \in 0 .. Len(rblk) : i = 0 \/ Run(p, f[i], BehindBlock(p, i))}
    <3>2. 0 \in G
      BY <1>1
    <3>3. ASSUME NEW i \in 1 .. Len(rblk), i - 1 \in G PROVE i \in G
      <4>1. /\ Run(BehindBlock(p, i - 1), rblk[i], BehindBlock(p, i))
            /\ rblk[i] \in Seq(Byte) /\ i \in 0 .. Len(rblk)
        BY <1>1 DEF Stream
      <4>2. CASE i = 1
        BY <3>1, <4>1, <4>2 DEF BehindBlock
      <4>3. CASE i # 1
        <5>1. i \in 2 .. Len(rblk) /\ i - 1 # 0 /\ i - 1 \in 1 .. Len(rblk)
          BY <1>1, <4>3
        <5>2. Run(p, f[i - 1], BehindBlock(p, i - 1)) /\ f[i - 1] \in Seq(Byte)
          BY <3>1, <3>3, <5>1
        <5>3. Run(p, f[i - 1] \o rblk[i], BehindBlock(p, i))
          BY <4>1, <5>2, RunsJoin
        <5> QED BY <3>1, <4>1, <5>1, <5>3
      <4> QED BY <4>2, <4>3
    <3>4. \A i \in 0 .. Len(rblk) : i \in G
      <4> HIDE DEF G
      <4> QED BY <1>1, <3>2, <3>3, GoesOn
    <3>5. Len(rblk) \in 0 .. Len(rblk) /\ Len(rblk) # 0
      BY <2>2, EmptySeq
    <3> QED BY <3>1, <3>4, <3>5
  <2> QED BY <2>1, <2>2
<1>4. Run(p, s \o tcp, End) /\ s \o tcp \in Seq(Byte)
  <2>1. Run(BehindBlock(p, Len(rblk)), tcp, End)
    BY DEF Stream
  <2>2. s \o tcp \in Seq(Byte)
    BY <1>2
  <2> QED BY <1>2, <1>3, <2>1, <2>2, RunsJoin
<1> QED BY <1>2, <1>3, <1>4 DEF Rest

-----------------------------------------------------------------------------
(* What one byte does to the frame under construction. *)

LEMMA RoomLeft ==
  ASSUME NEW s \in Seq(Byte)
  PROVE  Length(s) < FrameSize <=> Len(s) < 2 * FrameSize
<1>1. PICK n \in Nat : n = Len(s)
  OBVIOUS
<1>2. n \div 2 < 2048 <=> n < 4096
  OBVIOUS
<1> QED BY <1>1, <1>2 DEF Length, FrameSize

(* c is r after byte b, f and g what they have of a frame.                 *)
Reads(r, b, c, f, g) ==
  \/ /\ IsFlag(b) /\ r.buf.open /\ Len(f) >= 2
     /\ c.buf = NoFrame /\ g = <<>> /\ Len(g) = 0 /\ ~ c.buf.open
     /\ f \in Frames /\ c.done = Append(r.done, f)
  \/ /\ IsFlag(b) /\ (~ r.buf.open \/ Len(f) < 2)
     /\ c.buf.open /\ g = f /\ c.done = r.done
  \/ /\ ~ IsFlag(b) /\ r.buf.open /\ Len(f) < 2 * FrameSize
     /\ c.buf.open /\ g = Append(f, b) /\ c.done = r.done
     /\ Len(g) = Len(f) + 1 /\ g[Len(f) + 1] = b
     /\ \A i \in 1 .. Len(f) : g[i] = f[i]
  \/ /\ ~ IsFlag(b) /\ (~ r.buf.open \/ Len(f) >= 2 * FrameSize)
     /\ c = r /\ g = f

LEMMA CollectCases ==
  ASSUME NEW r \in Receiver, NEW b \in Byte, NEW c, c = Collect(r, b)
  PROVE  LET f == r.buf.nibbles
             g == c.buf.nibbles
         IN  /\ c \in Receiver
             /\ f \in Seq(Byte) /\ Len(f) \in Nat /\ g \in Seq(Byte) /\ Len(g) \in Nat
             /\ r.buf.open \in BOOLEAN /\ c.buf.open \in BOOLEAN
             /\ ~ r.buf.open => r.buf = NoFrame /\ f = <<>> /\ Len(f) = 0
             /\ c.buf = [open |-> c.buf.open, nibbles |-> g]
             /\ Reads(r, b, c, f, g)
<1>0. PICK f, g : f = r.buf.nibbles /\ g = c.buf.nibbles
  OBVIOUS
<1>1. /\ f \in Seq(Byte) /\ Len(f) \in Nat /\ r.buf.open \in BOOLEAN
      /\ r = [buf |-> r.buf, done |-> r.done]
      /\ r.buf = [open |-> r.buf.open, nibbles |-> f]
      /\ Length(f) \in Nat /\ Fits(f) /\ r.done \in Seq(Frames)
      /\ ~ r.buf.open => r.buf = NoFrame
  BY <1>0, HalfOf DEF Receiver, Buffers
<1>2. c \in Receiver
  BY CollectTyped
<1>3. /\ g \in Seq(Byte) /\ Len(g) \in Nat /\ c.buf.open \in BOOLEAN
      /\ c.buf = [open |-> c.buf.open, nibbles |-> g]
  BY <1>0, <1>2 DEF Receiver, Buffers
<1>4. NoFrame.nibbles = <<>> /\ NoFrame.open = FALSE /\ Len(<<>>) = 0
  BY DEF NoFrame
<1>5. Length(f) < FrameSize <=> Len(f) < 2 * FrameSize
  BY <1>1, RoomLeft
<1>6. (Length(f) > 0 <=> Len(f) >= 2) /\ (Length(f) > 0 => f \in Frames)
  BY <1>1, HalfOf DEF Frames, Fits
<1>7. /\ Len(Append(f, b)) = Len(f) + 1 /\ Append(f, b)[Len(f) + 1] = b
      /\ \A i \in 1 .. Len(f) : Append(f, b)[i] = f[i]
  BY <1>1
<1>8. CASE IsFlag(b) /\ r.buf.open /\ Len(f) >= 2
  <2>1. c = [buf |-> NoFrame, done |-> Append(r.done, f)]
    BY <1>0, <1>6, <1>8 DEF Collect
  <2> QED BY <1>0, <1>1, <1>2, <1>3, <1>4, <1>6, <1>8, <2>1 DEF Reads
<1>9. CASE IsFlag(b) /\ (~ r.buf.open \/ Len(f) < 2)
  <2>1. c = [r EXCEPT !.buf.open = TRUE]
    BY <1>0, <1>1, <1>6, <1>9 DEF Collect
  <2>2. c.buf.open /\ c.buf.nibbles = f /\ c.done = r.done
    BY <1>0, <1>1, <2>1
  <2> QED BY <1>0, <1>1, <1>2, <1>3, <1>4, <1>9, <2>2 DEF Reads
<1>10. CASE ~ IsFlag(b) /\ r.buf.open /\ Len(f) < 2 * FrameSize
  <2>1. c = [r EXCEPT !.buf.nibbles = Append(@, b)]
    BY <1>0, <1>5, <1>10 DEF Collect
  <2>2. c.buf.open /\ c.buf.nibbles = Append(f, b) /\ c.done = r.done
    BY <1>0, <1>1, <1>10, <2>1
  <2> QED BY <1>0, <1>1, <1>2, <1>3, <1>4, <1>7, <1>10, <2>2 DEF Reads
<1>11. CASE ~ IsFlag(b) /\ (~ r.buf.open \/ ~ (Len(f) < 2 * FrameSize))
  <2>1. c = r
    BY <1>0, <1>5, <1>11 DEF Collect
  <2>2. ~ (Len(f) < 2 * FrameSize) => Len(f) >= 2 * FrameSize
    BY <1>1 DEF FrameSize
  <2> QED BY <1>0, <1>1, <1>2, <1>3, <1>4, <1>11, <2>1, <2>2 DEF Reads
<1>12. ~ (Len(f) >= 2) => Len(f) < 2
  BY <1>1
<1> QED BY <1>0, <1>8, <1>9, <1>10, <1>11, <1>12

(* The next place. *)
LEMMA NextPlace ==
  ASSUME sent \in Seq(Sizes), NEW p \in Place, NEW b, OfFrame(b), NEW q, q = PlaceOf(b),
         Follows(p, q)
  PROVE  /\ b \in Byte /\ b.hit \in BOOLEAN /\ b.flag \in BOOLEAN
         /\ IsFlag(b) <=> b.flag /\ ~ b.hit
         /\ q \in Place /\ p.frame \in Nat /\ p.at \in Nat /\ q.frame \in Nat \ {0} /\ q.at \in Nat
         /\ q.frame = b.frame /\ q.at = b.at
         /\ LastAt(p.frame) \in Nat /\ LastAt(q.frame) \in Nat
         /\ LastAt(q.frame) >= 3
         /\ q.frame \in 1 .. Len(sent) /\ LastAt(q.frame) = 2 * sent[q.frame] + 1
         /\ \/ /\ q.frame = p.frame /\ q.at = p.at + 1
               /\ p.at < LastAt(q.frame) - 1 /\ ~ b.flag
            \/ /\ q.frame = p.frame /\ q.at = p.at + 1
               /\ p.at = LastAt(q.frame) - 1 /\ q.at = LastAt(q.frame) /\ b.flag
            \/ /\ q.frame = p.frame + 1 /\ q.at = 0
               /\ p.at = LastAt(p.frame) /\ b.flag
<1>1. /\ PlaceOf(b) \in Place /\ b.frame \in 1 .. Len(sent) /\ b.at \in Nat
      /\ LastAt(b.frame) = 2 * Size(b.frame) + 1 /\ Size(b.frame) \in Nat \ {0}
  BY PlaceBehind
<1>2. q.frame = b.frame /\ q.at = b.at
  BY DEF PlaceOf
<1>3. PICK size \in Nat \ {0} : size = Size(b.frame)
  BY <1>1
<1>4. /\ LastAt(q.frame) = 2 * size + 1 /\ LastAt(q.frame) \in Nat
      /\ Len(sent) \in Nat /\ b.frame \in Nat \ {0} /\ size = sent[b.frame]
  BY <1>1, <1>2, <1>3 DEF Size
<1>5. p.frame \in 0 .. Len(sent) /\ p.at \in Nat /\ p.at <= LastAt(p.frame)
  BY DEF Place
<1>6. LastAt(p.frame) \in Nat /\ p.frame \in Nat
  BY <1>4, <1>5, SizesOfSent
<1>7. /\ b \in Byte /\ b.hit \in BOOLEAN /\ b.flag \in BOOLEAN
      /\ b.flag <=> b.at \in {0, LastAt(b.frame)}
  BY DEF OfFrame, Byte
<1>8. \/ /\ p.at < LastAt(p.frame) /\ q.frame = p.frame /\ q.at = p.at + 1
      \/ /\ p.at = LastAt(p.frame) /\ q.frame = p.frame + 1 /\ q.at = 0
  BY DEF Follows
<1>9. PICK last \in Nat : last = LastAt(q.frame) /\ last >= 3
  BY <1>4
<1>10. CASE p.at = LastAt(p.frame) /\ q.frame = p.frame + 1 /\ q.at = 0
  BY <1>1, <1>2, <1>4, <1>6, <1>5, <1>7, <1>9, <1>10 DEF IsFlag
<1>11. CASE p.at < LastAt(p.frame) /\ q.frame = p.frame /\ q.at = p.at + 1
  <2>1. p.at < last /\ q.at # 0
    BY <1>5, <1>9, <1>11
  <2>2. p.at < last - 1 \/ p.at = last - 1
    BY <1>5, <2>1
  <2>3. b.flag <=> q.at = last
    BY <1>2, <1>7, <1>9, <2>1
  <2>4. p.at < last - 1 => q.at # last
    BY <1>5, <1>11
  <2>5. p.at = last - 1 => q.at = last
    BY <1>5, <1>11
  <2> QED BY <1>1, <1>2, <1>4, <1>5, <1>6, <1>7, <1>9, <1>11, <2>2, <2>3, <2>4, <2>5 DEF IsFlag
<1> QED BY <1>8, <1>10, <1>11

LEMMA ShapeKept ==
  ASSUME sent \in Seq(Sizes), NEW p \in Place, NEW b, OfFrame(b), NEW q, q = PlaceOf(b),
         Follows(p, q),
         NEW r \in Receiver, Shape(p, r.buf), NEW c, c = Collect(r, b)
  PROVE  Shape(q, c.buf)
<1>1. PICK f, g : f = r.buf.nibbles /\ g = c.buf.nibbles
  OBVIOUS
<1>2. PICK last \in Nat : last = LastAt(q.frame)
  BY NextPlace
<1>3. /\ b \in Byte /\ b.hit \in BOOLEAN /\ b.flag \in BOOLEAN
      /\ IsFlag(b) <=> b.flag /\ ~ b.hit
      /\ p.frame \in Nat /\ p.at \in Nat /\ q.frame \in Nat \ {0} /\ q.at \in Nat
      /\ q.frame = b.frame /\ q.at = b.at /\ last >= 3
      /\ \/ q.frame = p.frame /\ q.at = p.at + 1 /\ p.at < last - 1 /\ ~ b.flag
         \/ q.frame = p.frame /\ q.at = p.at + 1 /\ p.at = last - 1 /\ q.at = last /\ b.flag
         \/ q.frame = p.frame + 1 /\ q.at = 0 /\ p.at = LastAt(p.frame) /\ b.flag
  BY <1>2, NextPlace
<1>4. /\ f \in Seq(Byte) /\ Len(f) \in Nat /\ g \in Seq(Byte) /\ Len(g) \in Nat
      /\ r.buf.open \in BOOLEAN /\ c.buf.open \in BOOLEAN
      /\ ~ r.buf.open => Len(f) = 0
      /\ \/ /\ IsFlag(b) /\ r.buf.open /\ Len(f) >= 2
            /\ g = <<>> /\ Len(g) = 0 /\ ~ c.buf.open
         \/ /\ IsFlag(b) /\ (~ r.buf.open \/ Len(f) < 2)
            /\ c.buf.open /\ g = f
         \/ /\ ~ IsFlag(b) /\ r.buf.open /\ Len(f) < 2 * FrameSize
            /\ c.buf.open /\ Len(g) = Len(f) + 1 /\ g[Len(f) + 1] = b
            /\ \A i \in 1 .. Len(f) : g[i] = f[i]
         \/ /\ ~ IsFlag(b) /\ (~ r.buf.open \/ Len(f) >= 2 * FrameSize)
            /\ c.buf.open = r.buf.open /\ g = f
  <2>1. /\ f \in Seq(Byte) /\ Len(f) \in Nat /\ g \in Seq(Byte) /\ Len(g) \in Nat
        /\ r.buf.open \in BOOLEAN /\ c.buf.open \in BOOLEAN
        /\ ~ r.buf.open => Len(f) = 0
    BY ONLY <1>1, <1>3, r \in Receiver, c = Collect(r, b), CollectCases
  <2>2. Reads(r, b, c, f, g)
    BY ONLY <1>1, <1>3, r \in Receiver, c = Collect(r, b), CollectCases
  <2>3. c = r => c.buf.open = r.buf.open
    OBVIOUS
  <2> QED BY ONLY <2>1, <2>2, <2>3 DEF Reads
<1>5. PICK n \in Nat, m \in Nat, full \in Nat : n = Len(f) /\ m = Len(g) /\ full = 2 * FrameSize /\ full = 4096
  BY <1>4 DEF FrameSize
<1>6. /\ Within(f, p.frame)
      /\ n <= full
      /\ p.at = LastAt(p.frame) => n # 1
      /\ r.buf.open /\ p.at < LastAt(p.frame) =>
           /\ p.at >= 1 => n >= 1 /\ (n < full => PlaceOf(f[n]) = p)
           /\ p.at >= 2 => n >= 2 /\ (n < full =>
                             PlaceOf(f[n - 1]) = [frame |-> p.frame, at |-> p.at - 1])
  BY <1>1, <1>5 DEF Shape
<1>7. Within(g, q.frame)
  <2>1. p.frame <= q.frame
    BY <1>3
  <2>2. \A i \in 1 .. n : f[i].frame \in Nat \ {0} /\ f[i].frame <= q.frame
    <3> TAKE i \in 1 .. n
    <3>1. f[i].frame \in Nat /\ f[i].frame # 0 /\ f[i].frame <= p.frame
      BY <1>5, <1>6 DEF Within
    <3> QED BY ONLY <1>3, <2>1, <3>1
  <2>3. \A i \in 1 .. m : (i \in 1 .. n /\ g[i] = f[i]) \/ g[i] = b
    BY <1>4, <1>5
  <2> QED BY <1>3, <1>5, <2>2, <2>3 DEF Within
<1>8. m <= full
  BY <1>4, <1>5, <1>6
<1>9. CASE q.frame = p.frame /\ q.at = p.at + 1 /\ p.at < last - 1 /\ ~ b.flag
  <2>1. ~ (q.at = last)
    BY <1>3, <1>9
  <2>2. p.at < LastAt(p.frame)
    BY <1>2, <1>3, <1>9
  <2> SUFFICES ASSUME c.buf.open
               PROVE  /\ q.at >= 1 => m >= 1 /\ (m < full => PlaceOf(g[m]) = q)
                      /\ q.at >= 2 => m >= 2 /\ (m < full =>
                                        PlaceOf(g[m - 1]) = [frame |-> q.frame, at |-> q.at - 1])
    BY <1>1, <1>2, <1>5, <1>7, <1>8, <2>1 DEF Shape
  <2>3. r.buf.open
    BY <1>3, <1>4, <1>9
  <2>4. /\ p.at >= 1 => n >= 1 /\ (n < full => PlaceOf(f[n]) = p)
        /\ p.at >= 2 => n >= 2
    BY <1>6, <2>2, <2>3
  <2>5. CASE n < full /\ m = n + 1 /\ g[n + 1] = b /\ \A i \in 1 .. n : g[i] = f[i]
    <3>1. m >= 1 /\ PlaceOf(g[m]) = q
      BY <2>5
    <3>2. ASSUME q.at >= 2
          PROVE  m >= 2 /\ PlaceOf(g[m - 1]) = [frame |-> q.frame, at |-> q.at - 1]
      <4>1. p.at >= 1 /\ n >= 1 /\ n \in 1 .. n /\ m - 1 = n
        BY <1>3, <1>9, <2>4, <2>5, <3>2
      <4>2. PlaceOf(g[m - 1]) = p
        BY <2>4, <2>5, <4>1
      <4>3. p = [frame |-> q.frame, at |-> q.at - 1]
        <5>1. p = [frame |-> p.frame, at |-> p.at]
          BY DEF Place
        <5>2. q.at - 1 = p.at
          BY <1>3, <1>9
        <5> QED BY <1>9, <5>1, <5>2
      <4> QED BY <2>5, <4>1, <4>2, <4>3
    <3> QED BY <3>1, <3>2
  <2>6. CASE n >= full /\ g = f
    BY <1>5, <2>6
  <2> QED BY <1>3, <1>4, <1>5, <1>9, <2>3, <2>5, <2>6
<1>10. CASE q.frame = p.frame /\ q.at = p.at + 1 /\ p.at = last - 1 /\ q.at = last /\ b.flag
  <2>1. p.at < LastAt(p.frame) /\ p.at >= 2
    BY <1>2, <1>3, <1>10
  <2>2. r.buf.open => n >= 2
    BY <1>6, <2>1
  <2>3. m # 1
    <3>1. ~ r.buf.open => n = 0
      BY <1>4, <1>5
    <3> QED BY <1>4, <1>5, <2>2, <3>1
  <2>4. ~ (q.at < last)
    BY <1>3, <1>10
  <2> QED BY <1>1, <1>2, <1>5, <1>7, <1>8, <2>3, <2>4 DEF Shape
<1>11. CASE q.frame = p.frame + 1 /\ q.at = 0 /\ p.at = LastAt(p.frame) /\ b.flag
  <2>1. ~ (q.at = last) /\ ~ (q.at >= 1) /\ ~ (q.at >= 2)
    BY <1>3, <1>11
  <2> QED BY <1>1, <1>2, <1>5, <1>7, <1>8, <2>1 DEF Shape
<1> QED BY <1>3, <1>9, <1>10, <1>11

LEMMA OrderedKept ==
  ASSUME sent \in Seq(Sizes), NEW p \in Place, NEW b, OfFrame(b), NEW q, q = PlaceOf(b),
         Follows(p, q),
         NEW r \in Receiver, Shape(p, r.buf), Ordered(p, r), NEW c, c = Collect(r, b)
  PROVE  Ordered(q, c)
<1>1. PICK f, g, d, e : f = r.buf.nibbles /\ g = c.buf.nibbles /\ d = r.done /\ e = c.done
  OBVIOUS
<1>2. PICK low \in Int, high \in Int : low = Closed(p) /\ high = Closed(q)
  BY NextPlace DEF Closed
<1>3. /\ b \in Byte /\ p.frame \in Nat /\ q.frame = b.frame /\ b.frame \in Nat
      /\ (IsFlag(b) => high = p.frame) /\ low <= high /\ low < b.frame
  <2>1. /\ b \in Byte /\ p.frame \in Nat /\ p.at \in Nat /\ q.frame = b.frame /\ b.frame \in Nat
        /\ q.at \in Nat /\ LastAt(q.frame) \in Nat /\ LastAt(q.frame) >= 3
        /\ IsFlag(b) => b.flag
        /\ \/ q.frame = p.frame /\ q.at = p.at + 1 /\ p.at < LastAt(q.frame) - 1 /\ ~ b.flag
           \/ q.frame = p.frame /\ q.at = p.at + 1 /\ p.at = LastAt(q.frame) - 1
              /\ q.at = LastAt(q.frame) /\ b.flag
           \/ q.frame = p.frame + 1 /\ q.at = 0 /\ p.at = LastAt(p.frame) /\ b.flag
    BY NextPlace
  <2> QED BY <1>2, <2>1 DEF Closed
<1>4. /\ f \in Seq(Byte) /\ Len(f) \in Nat /\ g \in Seq(Byte) /\ Len(g) \in Nat
      /\ Reads(r, b, c, f, g)
  BY ONLY <1>1, <1>3, r \in Receiver, c = Collect(r, b), CollectCases
<1>5. d \in Seq(Frames) /\ Len(d) \in Nat
  BY <1>1 DEF Receiver
<1>6. PICK n \in Nat : n = Len(d)
  BY <1>5
<1>7. /\ \A i \in 1 .. n : Within(d[i], low) /\ Apart(d[i], f)
      /\ \A i, j \in 1 .. n : i < j => Apart(d[i], d[j])
  BY <1>1, <1>2, <1>6 DEF Ordered
<1>8. Within(f, p.frame)
  BY <1>1 DEF Shape
<1>9. \A i \in 1 .. n : Within(d[i], high)
  <2> TAKE i \in 1 .. n
  <2>1. \A j \in 1 .. Len(d[i]) : d[i][j].frame \in Nat \ {0} /\ d[i][j].frame <= low
    BY <1>7 DEF Within
  <2>2. \A j \in 1 .. Len(d[i]) : d[i][j].frame <= high
    <3> TAKE j \in 1 .. Len(d[i])
    <3>1. d[i][j].frame \in Nat /\ d[i][j].frame <= low
      BY <2>1
    <3> QED BY ONLY <1>2, <1>3, <3>1
  <2> QED BY <2>1, <2>2 DEF Within
<1>10. CASE e = d
  <2>1. \A i \in 1 .. n : Apart(d[i], g)
    <3> TAKE i \in 1 .. n
    <3>1. \A j \in 1 .. Len(g) : (j \in 1 .. Len(f) /\ g[j] = f[j]) \/ g[j] = b
      BY <1>4 DEF Reads
    <3>2. \A k \in 1 .. Len(d[i]) : d[i][k].frame < b.frame
      <4> TAKE k \in 1 .. Len(d[i])
      <4>1. d[i][k].frame \in Nat /\ d[i][k].frame <= low
        BY <1>7 DEF Within
      <4> QED BY ONLY <1>2, <1>3, <4>1
    <3>3. \A k \in 1 .. Len(d[i]), j \in 1 .. Len(f) : d[i][k].frame < f[j].frame
      BY <1>7 DEF Apart
    <3> QED BY <3>1, <3>2, <3>3 DEF Apart
  <2> QED BY <1>1, <1>2, <1>6, <1>7, <1>9, <1>10, <2>1 DEF Ordered
<1>11. CASE IsFlag(b) /\ f \in Frames /\ e = Append(d, f) /\ Len(g) = 0
  <2>1. /\ Len(e) = n + 1 /\ e[n + 1] = f /\ \A i \in 1 .. n : e[i] = d[i]
    BY <1>5, <1>6, <1>11
  <2>2. \A i \in 1 .. n + 1 : Within(e[i], high)
    <3> TAKE i \in 1 .. n + 1
    <3>1. Within(f, high)
      BY <1>3, <1>8, <1>11
    <3> QED BY <1>9, <2>1, <3>1
  <2>3. \A i \in 1 .. n + 1 : Apart(e[i], g)
    BY <1>11 DEF Apart
  <2>4. \A i, j \in 1 .. n + 1 : i < j => Apart(e[i], e[j])
    <3> TAKE i, j \in 1 .. n + 1
    <3>1. CASE j \in 1 .. n
      BY <1>7, <2>1, <3>1
    <3>2. CASE j = n + 1
      BY <1>7, <2>1, <3>2
    <3> QED BY <3>1, <3>2
  <2> QED BY <1>1, <1>2, <2>1, <2>2, <2>3, <2>4 DEF Ordered
<1>12. e = d \/ (IsFlag(b) /\ f \in Frames /\ e = Append(d, f) /\ Len(g) = 0)
  <2>1. c = r => e = d
    BY <1>1
  <2> QED BY ONLY <1>1, <1>4, <2>1 DEF Reads
<1> QED BY <1>10, <1>11, <1>12

LEMMA RunKept ==
  ASSUME sent \in Seq(Sizes), NEW p \in Place, NEW s \in Seq(Byte), NEW q, Run(p, s, q),
         NEW start \in Receiver, Shape(p, start.buf), NEW end, end = After(start, s)
  PROVE  /\ q \in Place /\ end \in Receiver /\ Shape(q, end.buf)
         /\ Ordered(p, start) => Ordered(q, end)
<1>1. Len(s) \in Nat /\ \A i \in 1 .. Len(s) : s[i] \in Byte
  OBVIOUS
<1>2. PICK r : /\ r[0] = start
               /\ \A i \in 1 .. Len(s) : r[i] = Collect(r[i - 1], s[i])
               /\ After(start, s) = r[Len(s)]
  <2>1. PICK r : Reading(start, s, r)
    BY <1>1, AfterReads
  <2> QED BY <2>1 DEF Reading
<1> DEFINE at(i) == PlaceIn(p, s, i)
           G == {i \in 0 .. Len(s) :
                   /\ r[i] \in Receiver /\ Shape(at(i), r[i].buf)
                   /\ Ordered(p, start) => Ordered(at(i), r[i])}
<1>3. 0 \in G
  <2>1. at(0) = p
    BY DEF PlaceIn
  <2> QED BY <1>1, <1>2, <2>1
<1>4. ASSUME NEW i \in 1 .. Len(s), i - 1 \in G PROVE i \in G
  <2>1. i - 1 \in 0 .. Len(s) /\ i \in 0 .. Len(s) /\ i # 0
    BY <1>1
  <2>2. PICK a, b, x, y : a = at(i - 1) /\ b = s[i] /\ x = r[i - 1] /\ y = r[i]
    OBVIOUS
  <2>3. /\ x \in Receiver /\ Shape(a, x.buf) /\ (Ordered(p, start) => Ordered(a, x))
        /\ y = Collect(x, b)
    BY <1>2, <1>4, <2>2
  <2>4. a \in Place /\ OfFrame(b) /\ b \in Byte /\ Follows(a, PlaceOf(b)) /\ at(i) = PlaceOf(b)
    BY <1>1, <2>1, <2>2, RunEndsInPlace DEF Run, PlaceIn
  <2>5. y \in Receiver /\ Shape(PlaceOf(b), y.buf)
    BY ONLY <2>3, <2>4, sent \in Seq(Sizes), CollectTyped, ShapeKept
  <2>6. Ordered(a, x) => Ordered(PlaceOf(b), y)
    BY ONLY <2>3, <2>4, sent \in Seq(Sizes), OrderedKept
  <2> HIDE DEF at
  <2> QED BY <2>1, <2>2, <2>3, <2>4, <2>5, <2>6
<1>5. \A i \in 0 .. Len(s) : i \in G
  <2> HIDE DEF G
  <2> QED BY <1>1, <1>3, <1>4, GoesOn
<1>6. q = at(Len(s)) /\ Len(s) \in G /\ q \in Place
  BY <1>1, <1>5, RunEndsInPlace DEF Run
<1> QED BY <1>2, <1>6

-----------------------------------------------------------------------------
(* Frames as items of the abstract queue. *)

LEMMA CopiedOf ==
  ASSUME NEW f \in Frames, NEW c, c = Copied(f)
  PROVE  /\ f \in Seq(Byte) /\ Len(f) \in Nat /\ c \in Frames /\ c \in Seq(Byte)
         /\ Length(c) = Length(f) /\ Len(c) = 2 * Length(f) /\ Length(f) \in Nat \ {0}
         /\ Len(c) >= 2 /\ Len(c) <= Len(f) /\ Len(f) <= Len(c) + 1
         /\ \A i \in 1 .. Len(c) : c[i] = f[i] /\ i \in 1 .. Len(f)
         /\ Copied(c) = c
<1>1. f \in Seq(Byte) /\ Length(f) \in 1 .. FrameSize /\ Len(f) \in Nat
  BY DEF Frames
<1>2. PICK n \in Nat, h \in Nat \ {0} : n = Len(f) /\ h = Length(f)
  <2>1. \A h \in 1 .. 2048 : h \in Nat \ {0}
    OBVIOUS
  <2>2. Length(f) \in 1 .. 2048
    BY <1>1 DEF FrameSize
  <2>3. PICK h : h = Length(f)
    OBVIOUS
  <2>4. h \in 1 .. 2048
    BY ONLY <2>2, <2>3
  <2>5. h \in Nat \ {0}
    BY ONLY <2>1, <2>4
  <2> QED BY <1>1, <2>3, <2>5
<1>3. 2 * h <= n /\ n <= 2 * h + 1 /\ (2 * h) \div 2 = h
  BY <1>1, <1>2, HalfOf
<1>4. PICK k \in Nat : k = 2 * h
  OBVIOUS
<1>5. c = SubSeq(f, 1, k)
  BY <1>2, <1>4 DEF Copied
<1>6. /\ c \in Seq(Byte) /\ Len(c) = k
      /\ \A i \in 1 .. k : c[i] = f[i] /\ i \in 1 .. Len(f)
  BY ONLY <1>1, <1>2, <1>3, <1>4, <1>5
<1>7. Length(c) = h
  BY <1>3, <1>4, <1>6 DEF Length
<1>8. Copied(c) = SubSeq(c, 1, Len(c))
  BY <1>4, <1>6, <1>7 DEF Copied
<1>9. SubSeq(c, 1, Len(c)) = c
  BY <1>6
<1>10. c \in Frames
  BY <1>1, <1>2, <1>6, <1>7 DEF Frames
<1>11. k >= 2 /\ k <= n /\ n <= k + 1
  BY <1>2, <1>3, <1>4
<1> QED BY <1>1, <1>2, <1>4, <1>6, <1>7, <1>8, <1>9, <1>10, <1>11

(* A frame as it was sent has its bytes, none of them hit. *)
LEMMA WholeSays ==
  ASSUME sent \in Seq(Sizes), NEW f \in Frames, NEW k \in 1 .. Len(sent), IsWhole(f, k),
         NEW c, c = Copied(f)
  PROVE  /\ sent[k] \in Nat \ {0} /\ Len(c) = 2 * sent[k]
         /\ \A i \in 1 .. Len(c) : f[i] = Nibble(k, i)
         /\ \A i \in 1 .. Len(c) : f[i].frame = k /\ f[i].at = i /\ ~ f[i].hit /\ ~ f[i].flag
<1>1. sent[k] \in Nat \ {0}
  BY LongestFrame
<1>2. PICK m \in Nat : m = 2 * sent[k]
  BY <1>1
<1>3. c = [i \in 1 .. m |-> Nibble(k, i)]
  BY <1>2 DEF IsWhole, Nibbles
<1>4. Len(c) = m
  BY <1>3
<1>5. \A i \in 1 .. Len(c) : f[i] = Nibble(k, i)
  <2>1. \A i \in 1 .. Len(c) : c[i] = f[i]
    BY ONLY f \in Frames, c = Copied(f), CopiedOf
  <2>2. \A i \in 1 .. Len(c) : c[i] = Nibble(k, i)
    BY <1>3, <1>4
  <2> QED BY <2>1, <2>2
<1>6. \A i : /\ Nibble(k, i).frame = k /\ Nibble(k, i).at = i
             /\ ~ Nibble(k, i).hit /\ ~ Nibble(k, i).flag
  BY DEF Nibble
<1> QED BY <1>1, <1>2, <1>4, <1>5, <1>6

LEMMA LeastAndLargest ==
  ASSUME NEW n \in Nat, NEW S, S \subseteq 1 .. n, S # {}
  PROVE  /\ Min(S) \in S /\ \A x \in S : Min(S) <= x
         /\ Max(S) \in S /\ \A x \in S : x <= Max(S)
<1>1. IsFiniteSet(S) /\ S \subseteq Nat
  <2>1. IsFiniteSet(1 .. n) /\ S \subseteq Nat
    BY FS_Interval
  <2> QED BY <2>1, FS_Subset
<1>2. Min(S) \in S /\ \A x \in S : Min(S) <= x
  <2>1. \E x \in S : \A y \in S : x <= y
    BY <1>1, LeastNatural
  <2> QED BY <2>1 DEF Min
<1>3. Max(S) \in S /\ \A x \in S : x <= Max(S)
  <2>1. PICK x \in S : \A y \in S : y <= x
    BY <1>1, LargestNatural
  <2>2. \E z \in S : \A y \in S : z >= y
    BY <1>1, <2>1
  <2>3. Max(S) \in S /\ \A y \in S : Max(S) >= y
    BY <2>2 DEF Max
  <2> HIDE DEF Max
  <2> QED BY <1>1, <2>3
<1> QED BY <1>2, <1>3

FramesOf(f) == {f[i].frame : i \in 1 .. Len(f)}

LEMMA ItemIs ==
  ASSUME NEW f \in Frames, NEW c, c = Copied(f)
  PROVE  Item(f) = [first |-> Min(FramesOf(c)), last |-> Max(FramesOf(c)),
                    sound |-> c = Nibbles(Min(FramesOf(c)), sent[Min(FramesOf(c))])]
<1>1. DOMAIN c = 1 .. Len(c)
  BY CopiedOf
<1>2. {c[i].frame : i \in DOMAIN c} = FramesOf(c)
  BY <1>1 DEF FramesOf
<1> HIDE DEF Min, Max
<1> QED BY <1>2 DEF Item

LEMMA ItemOf ==
  ASSUME sent \in Seq(Sizes), NEW f \in Frames, NEW n \in Nat, n <= Len(sent), Within(f, n),
         NEW it, it = Item(f)
  PROVE  /\ it \in [first : Nat, last : Nat, sound : BOOLEAN]
         /\ 1 <= it.first /\ it.first <= it.last /\ it.last <= n
         /\ \E i \in 1 .. Len(f) : it.first = f[i].frame
         /\ \E i \in 1 .. Len(f) : it.last = f[i].frame
         /\ it.sound <=> IsWhole(f, it.first)
         /\ it.sound => it.first = it.last
         /\ \A k \in 1 .. Len(sent) : IsWhole(f, k) => it = Link!Sound(k)
         /\ Item(Copied(f)) = it
<1>1. PICK c : c = Copied(f)
  OBVIOUS
<1>2. /\ f \in Seq(Byte) /\ Len(f) \in Nat /\ c \in Frames /\ c \in Seq(Byte)
      /\ Len(c) \in Nat /\ Len(c) >= 2 /\ Copied(c) = c
      /\ \A i \in 1 .. Len(c) : c[i] = f[i] /\ i \in 1 .. Len(f)
  BY <1>1, CopiedOf
<1>3. PICK S : S = FramesOf(c)
  OBVIOUS
<1>4. S \subseteq 1 .. n /\ S # {}
  <2>1. \A i \in 1 .. Len(c) : c[i].frame \in 1 .. n
    BY <1>2 DEF Within
  <2>2. 1 \in 1 .. Len(c)
    BY <1>2
  <2> QED BY <1>3, <2>1, <2>2 DEF FramesOf
<1>5. PICK low, high : low = Min(S) /\ high = Max(S)
  OBVIOUS
<1>6. /\ low \in S /\ high \in S /\ \A x \in S : low <= x /\ x <= high
      /\ low \in 1 .. n /\ high \in 1 .. n
  BY <1>4, <1>5, LeastAndLargest
<1>7. it = [first |-> low, last |-> high, sound |-> c = Nibbles(low, sent[low])]
  BY ONLY <1>1, <1>3, <1>5, it = Item(f), f \in Frames, ItemIs
<1>8. Item(c) = it
  <2>1. Item(c) = [first |-> low, last |-> high, sound |-> c = Nibbles(low, sent[low])]
    BY ONLY <1>2, <1>3, <1>5, ItemIs
  <2> QED BY <1>7, <2>1
<1>9. \A x \in S : \E i \in 1 .. Len(c) : x = c[i].frame /\ x = f[i].frame /\ i \in 1 .. Len(f)
  BY <1>2, <1>3 DEF FramesOf
<1>10. it.sound <=> IsWhole(f, it.first)
  <2>1. it.first = low
    BY <1>7
  <2>2. it.sound = (c = Nibbles(low, sent[low]))
    <3> DEFINE s == (c = Nibbles(low, sent[low]))
    <3>1. it = [first |-> low, last |-> high, sound |-> s]
      BY <1>7
    <3>2. it.sound = s
      <4> HIDE DEF s
      <4> QED BY ONLY <3>1
    <3> QED BY <3>2
  <2>3. IsWhole(f, low) = (c = Nibbles(low, sent[low]))
    BY ONLY <1>1 DEF IsWhole
  <2> QED BY ONLY <2>1, <2>2, <2>3
<1>11. ASSUME NEW k \in 1 .. Len(sent), IsWhole(f, k)
       PROVE  low = k /\ high = k
  <2>1. \A i \in 1 .. Len(c) : f[i].frame = k
    BY <1>1, <1>11, WholeSays
  <2>2. \A x \in S : x = k
    BY <1>2, <1>9, <2>1
  <2> QED BY <1>6, <2>2
<1>12. low \in 1 .. Len(sent)
  <2>1. Len(sent) \in Nat
    OBVIOUS
  <2> QED BY <1>6, <2>1
<1>13. it.sound => low = high
  BY <1>7, <1>10, <1>11, <1>12
<1>14. \A k \in 1 .. Len(sent) : IsWhole(f, k) => it = Link!Sound(k)
  <2> SUFFICES ASSUME NEW k \in 1 .. Len(sent), IsWhole(f, k) PROVE it = Link!Sound(k)
    OBVIOUS
  <2>1. low = k /\ high = k
    BY <1>11
  <2>2. c = Nibbles(low, sent[low])
    BY <1>1, <2>1 DEF IsWhole
  <2>3. (c = Nibbles(low, sent[low])) = TRUE
    BY <2>2
  <2> QED BY <1>7, <2>1, <2>3 DEF Link!Sound
<1>15. low \in Nat /\ high \in Nat /\ 1 <= low /\ low <= high /\ high <= n
  BY <1>6
<1>16. it \in [first : Nat, last : Nat, sound : BOOLEAN]
  BY <1>7, <1>15
<1> QED BY <1>1, <1>6, <1>7, <1>8, <1>9, <1>10, <1>13, <1>14, <1>15, <1>16

-----------------------------------------------------------------------------
(* Frames in order. *)

InLine(frames) ==
  /\ frames \in Seq(Frames)
  /\ \A i \in 1 .. Len(frames) : Within(frames[i], Len(sent))
  /\ \A i, j \in 1 .. Len(frames) : i < j => Apart(frames[i], frames[j])

LEMMA ItemsInOrder ==
  ASSUME sent \in Seq(Sizes), NEW frames, InLine(frames), NEW items, items = Items(frames)
  PROVE  /\ items \in Seq(Link!Item) /\ Len(items) = Len(frames)
         /\ \A i \in 1 .. Len(frames) : items[i] = Item(frames[i])
         /\ Link!InOrder(items, Len(sent))
<1>1. PICK n \in Nat, m \in Nat : n = Len(frames) /\ m = Len(sent)
  BY DEF InLine
<1>2. /\ frames \in Seq(Frames) /\ DOMAIN frames = 1 .. n
      /\ \A i \in 1 .. n : frames[i] \in Frames
  BY <1>1 DEF InLine
<1>3. items = [i \in 1 .. n |-> Item(frames[i])]
  BY <1>2 DEF Items
<1>4. \A i \in 1 .. n : items[i] = Item(frames[i])
  BY <1>3
<1>5. ASSUME NEW i \in 1 .. n
      PROVE  /\ items[i] \in Link!Item
             /\ 1 <= items[i].first /\ items[i].first <= items[i].last /\ items[i].last <= m
             /\ items[i].sound => items[i].first = items[i].last
             /\ \E k \in 1 .. Len(frames[i]) : items[i].first = frames[i][k].frame
             /\ \E k \in 1 .. Len(frames[i]) : items[i].last = frames[i][k].frame
  <2>1. PICK f, it : f = frames[i] /\ it = items[i]
    OBVIOUS
  <2>2. f \in Frames /\ m <= Len(sent) /\ m \in Nat /\ Within(f, m) /\ it = Item(f)
    BY <1>1, <1>2, <1>4, <2>1 DEF InLine
  <2>3. /\ it \in [first : Nat, last : Nat, sound : BOOLEAN]
        /\ 1 <= it.first /\ it.first <= it.last /\ it.last <= m
        /\ \E k \in 1 .. Len(f) : it.first = f[k].frame
        /\ \E k \in 1 .. Len(f) : it.last = f[k].frame
        /\ it.sound => it.first = it.last
    BY ONLY <2>2, sent \in Seq(Sizes), ItemOf
  <2> QED BY <2>1, <2>3 DEF Link!Item
<1>6. ASSUME NEW i \in 1 .. n, NEW j \in 1 .. n, i < j
      PROVE  items[i].last < items[j].first
  <2>1. Apart(frames[i], frames[j])
    BY <1>1, <1>6 DEF InLine
  <2>2. PICK k \in 1 .. Len(frames[i]) : items[i].last = frames[i][k].frame
    BY <1>5
  <2>3. PICK l \in 1 .. Len(frames[j]) : items[j].first = frames[j][l].frame
    BY <1>5
  <2> QED BY <2>1, <2>2, <2>3 DEF Apart
<1>7. items \in Seq(Link!Item) /\ Len(items) = n /\ DOMAIN items = 1 .. n
  <2> HIDE DEF Link!Item
  <2> QED BY <1>3, <1>4, <1>5
<1>8. Link!InOrder(items, Len(sent))
  BY <1>1, <1>5, <1>6, <1>7 DEF Link!InOrder
<1> QED BY <1>1, <1>4, <1>7, <1>8

(* The sound items are the frames that are whole.                          *)
LEMMA SoundOnes ==
  ASSUME sent \in Seq(Sizes), NEW frames, InLine(frames)
  PROVE  Link!SoundItems(Items(frames)) = {Link!Sound(k) : k \in WholeIn(frames)}
<1>1. PICK items : items = Items(frames)
  OBVIOUS
<1>2. PICK n \in Nat, m \in Nat : n = Len(frames) /\ m = Len(sent)
  BY DEF InLine
<1>3. DOMAIN items = 1 .. n /\ \A i \in 1 .. n : items[i] = Item(frames[i])
  BY <1>1, <1>2, ItemsInOrder
<1>4. ASSUME NEW i \in 1 .. n
      PROVE  /\ items[i].first \in 1 .. m
             /\ items[i].sound <=> IsWhole(frames[i], items[i].first)
             /\ \A k \in 1 .. m : IsWhole(frames[i], k) => items[i] = Link!Sound(k)
  <2>1. PICK f, it : f = frames[i] /\ it = items[i]
    OBVIOUS
  <2>2. f \in Frames /\ m <= Len(sent) /\ m \in Nat /\ Within(f, m) /\ it = Item(f)
    BY <1>2, <1>3, <2>1 DEF InLine
  <2>3. /\ it \in [first : Nat, last : Nat, sound : BOOLEAN]
        /\ 1 <= it.first /\ it.first <= it.last /\ it.last <= m
        /\ it.sound <=> IsWhole(f, it.first)
        /\ \A k \in 1 .. Len(sent) : IsWhole(f, k) => it = Link!Sound(k)
    BY ONLY <2>2, sent \in Seq(Sizes), ItemOf
  <2>4. it.first \in 1 .. m
    BY <2>3
  <2> QED BY <1>2, <2>1, <2>3, <2>4
<1>5. ASSUME NEW x, x \in Link!SoundItems(items)
      PROVE  \E k \in WholeIn(frames) : x = Link!Sound(k)
  <2>1. PICK i \in 1 .. n : x = items[i] /\ items[i].sound
    BY <1>3, <1>5 DEF Link!SoundItems
  <2>2. PICK k \in 1 .. m : k = items[i].first /\ IsWhole(frames[i], k)
    BY <1>4, <2>1
  <2>3. x = Link!Sound(k) /\ k \in WholeIn(frames)
    BY <1>2, <1>4, <2>1, <2>2 DEF WholeIn
  <2> QED BY <2>3
<1>6. ASSUME NEW k \in WholeIn(frames)
      PROVE  Link!Sound(k) \in Link!SoundItems(items)
  <2>1. k \in 1 .. m /\ \E i \in 1 .. n : IsWhole(frames[i], k)
    BY <1>2 DEF WholeIn
  <2>2. PICK i \in 1 .. n : IsWhole(frames[i], k)
    BY <2>1
  <2>3. items[i] = Link!Sound(k)
    BY <1>4, <2>1, <2>2
  <2>4. items[i].sound
    BY <2>3 DEF Link!Sound
  <2> QED BY <1>3, <2>3, <2>4 DEF Link!SoundItems
<1> QED BY <1>1, <1>5, <1>6

LEMMA WholeFinite ==
  ASSUME sent \in Seq(Sizes), NEW frames
  PROVE  IsFiniteSet(WholeIn(frames)) /\ Cardinality(WholeIn(frames)) \in Nat
<1>1. Len(sent) \in Nat
  OBVIOUS
<1>2. IsFiniteSet(1 .. Len(sent)) /\ WholeIn(frames) \in SUBSET (1 .. Len(sent))
  BY <1>1, FS_Interval DEF WholeIn
<1>3. IsFiniteSet(WholeIn(frames))
  BY <1>2, FS_Subset
<1> QED BY <1>3, FS_CardinalityType

LEMMA SoundCount ==
  ASSUME NEW K, IsFiniteSet(K), NEW S, S = {Link!Sound(k) : k \in K}
  PROVE  Cardinality(S) = Cardinality(K)
<1> DEFINE f == [k \in K |-> Link!Sound(k)]
<1>1. f \in [K -> S]
  OBVIOUS
<1>2. \A k, l \in K : f[k] = f[l] => k = l
  BY DEF Link!Sound
<1>3. \A x \in S : \E k \in K : f[k] = x
  OBVIOUS
<1>4. f \in Bijection(K, S)
  <2> HIDE DEF f
  <2>1. IsInjective(f)
    BY <1>1, <1>2 DEF IsInjective
  <2> QED BY <1>1, <1>3, <2>1 DEF Bijection, Injection, Surjection
<1>5. ExistsBijection(K, S)
  <2> HIDE DEF f
  <2> QED BY <1>4 DEF ExistsBijection
<1> QED BY <1>5, FS_Bijection

-----------------------------------------------------------------------------
(* What one hit costs: the receiver s that read a byte the noise hit,      *)
(* against the receiver r that read all the rest as it was.                *)

(* The frames that f is.                                                   *)
Whose(f) == {k \in 1 .. Len(sent) : IsWhole(f, k)}

(* All of A but one is in B, which has nothing else.                       *)
OneLess(A, B) == B \subseteq A /\ \A x, y \in A \ B : x = y

(* g is f, the noise apart.                                                *)
Worse(f, g) ==
  /\ Len(f) = Len(g)
  /\ \A i \in 1 .. Len(g) : g[i].hit \/ g[i] = f[i]

SameFrame(A, B, r, s) == s.buf = r.buf /\ OneLess(A, B)

(* s missed the opening flag.                                              *)
FrameMissed(A, B, r, s) == r.buf.open /\ s.buf = NoFrame /\ A = B

(* s has the frame with a damaged nibble, or with a flag in front of it.   *)
FrameWorse(A, B, r, s) ==
  /\ r.buf.open /\ s.buf.open /\ A = B
  /\ \/ Worse(r.buf.nibbles, s.buf.nibbles)
     \/ Len(s.buf.nibbles) >= 1 /\ s.buf.nibbles[1].hit

(* s has the frame before this one still open.                             *)
FrameLonger(p, A, B, r, s) ==
  /\ r.buf = NoFrame /\ s.buf.open
  /\ Len(s.buf.nibbles) >= 2 /\ s.buf.nibbles[1].frame < p.frame
  /\ Whose(s.buf.nibbles) \subseteq A /\ OneLess(A, B)

(* The frame ended for both, or for r only.                                *)
BothEnded(A, B, r, s) ==
  r.buf.nibbles = <<>> /\ s.buf.nibbles = <<>> /\ OneLess(A, B)

OneWaits(A, B, r, s) ==
  /\ r.buf = NoFrame /\ s.buf.open /\ Len(s.buf.nibbles) >= 2
  /\ A = B \cup Whose(s.buf.nibbles)

Costs(p, r, s) ==
  LET A == WholeIn(r.done)
      B == WholeIn(s.done)
  IN  \/ /\ p.at < LastAt(p.frame)
         /\ \/ SameFrame(A, B, r, s)
            \/ FrameMissed(A, B, r, s)
            \/ FrameWorse(A, B, r, s)
            \/ FrameLonger(p, A, B, r, s)
      \/ /\ p.at = LastAt(p.frame)
         /\ BothEnded(A, B, r, s) \/ OneWaits(A, B, r, s)

(* The frames that are whole when there is one more. *)
LEMMA OneMoreWhole ==
  ASSUME NEW d \in Seq(Frames), NEW f
  PROVE  /\ f \in Frames => WholeIn(Append(d, f)) = WholeIn(d) \cup Whose(f)
         /\ Whose(f) \subseteq 1 .. Len(sent)
<1>1. Whose(f) \subseteq 1 .. Len(sent)
  BY DEF Whose
<1>2. PICK e, n : e = Append(d, f) /\ n = Len(d)
  OBVIOUS
<1>3. SUFFICES ASSUME f \in Frames PROVE WholeIn(e) = WholeIn(d) \cup Whose(f)
  BY <1>1, <1>2
<1>4. /\ n \in Nat /\ Len(e) = n + 1 /\ e[n + 1] = f
      /\ \A i \in 1 .. n : e[i] = d[i]
  BY <1>2, <1>3
<1>5. ASSUME NEW k \in 1 .. Len(sent)
      PROVE  (\E i \in 1 .. n + 1 : IsWhole(e[i], k))
               <=> (\E i \in 1 .. n : IsWhole(d[i], k)) \/ IsWhole(f, k)
  <2>1. ASSUME NEW i \in 1 .. n + 1, IsWhole(e[i], k)
        PROVE  (\E j \in 1 .. n : IsWhole(d[j], k)) \/ IsWhole(f, k)
    <3>1. i \in 1 .. n \/ i = n + 1
      BY <1>4
    <3> QED BY <1>4, <2>1, <3>1
  <2>2. ASSUME NEW i \in 1 .. n, IsWhole(d[i], k)
        PROVE  \E j \in 1 .. n + 1 : IsWhole(e[j], k)
    <3>1. i \in 1 .. n + 1
      BY <1>4
    <3> QED BY <1>4, <2>2, <3>1
  <2>3. IsWhole(f, k) => \E j \in 1 .. n + 1 : IsWhole(e[j], k)
    <3>1. n + 1 \in 1 .. n + 1
      BY <1>4
    <3> QED BY <1>4, <3>1
  <2> QED BY <2>1, <2>2, <2>3
<1> QED BY <1>2, <1>4, <1>5 DEF WholeIn, Whose

(* A frame is at most one frame, the one its first byte is from. *)
LEMMA WhoseSays ==
  ASSUME sent \in Seq(Sizes), NEW f \in Frames
  PROVE  /\ \A k \in Whose(f) : k = f[1].frame /\ ~ f[1].hit
         /\ \A k, l \in Whose(f) : k = l
         /\ Len(f) \in Nat /\ Len(f) >= 2 /\ f \in Seq(Byte)
<1>1. PICK c : c = Copied(f)
  OBVIOUS
<1>2. /\ f \in Seq(Byte) /\ Len(f) \in Nat /\ Len(c) \in Nat /\ Len(c) >= 2 /\ Len(c) <= Len(f)
      /\ 1 \in 1 .. Len(c)
  BY <1>1, CopiedOf
<1>3. ASSUME NEW k \in Whose(f) PROVE k = f[1].frame /\ ~ f[1].hit
  <2>1. k \in 1 .. Len(sent) /\ IsWhole(f, k)
    BY DEF Whose
  <2>2. \A i \in 1 .. Len(c) : f[i].frame = k /\ ~ f[i].hit
    BY <1>1, <2>1, WholeSays
  <2> QED BY <1>2, <2>2
<1> QED BY <1>2, <1>3

(* A byte of another frame, or one that was hit, makes it no frame more. *)
LEMMA WhoseLonger ==
  ASSUME sent \in Seq(Sizes), NEW f \in Frames, NEW b \in Byte, NEW g \in Frames,
         g = Append(f, b), b.hit \/ b.frame # f[1].frame
  PROVE  Whose(g) \subseteq Whose(f)
<1>1. PICK n, m, h, l : n = Len(f) /\ m = Len(g) /\ h = Length(f) /\ l = Length(g)
  OBVIOUS
<1>2. PICK c, d : c = Copied(f) /\ d = Copied(g)
  OBVIOUS
<1>3. /\ f \in Seq(Byte) /\ n \in Nat /\ h \in Nat \ {0}
      /\ Len(c) = 2 * h /\ \A i \in 1 .. Len(c) : c[i] = f[i]
      /\ c \in Seq(Byte) /\ 2 * h <= n /\ n <= 2 * h + 1
  <2>1. /\ f \in Seq(Byte) /\ Len(f) \in Nat /\ Length(f) \in Nat \ {0}
        /\ Len(c) = 2 * Length(f) /\ \A i \in 1 .. Len(c) : c[i] = f[i]
        /\ c \in Seq(Byte)
    BY ONLY f \in Frames, <1>2, CopiedOf
  <2>2. 2 * Length(f) <= Len(f) /\ Len(f) <= 2 * Length(f) + 1
    BY <2>1, HalfOf
  <2> QED BY <1>1, <2>1, <2>2
<1>4. /\ g \in Seq(Byte) /\ m \in Nat /\ l \in Nat \ {0}
      /\ Len(d) = 2 * l /\ \A i \in 1 .. Len(d) : d[i] = g[i]
      /\ d \in Seq(Byte) /\ 2 * l <= m /\ m <= 2 * l + 1
  <2>1. /\ g \in Seq(Byte) /\ Len(g) \in Nat /\ Length(g) \in Nat \ {0}
        /\ Len(d) = 2 * Length(g) /\ \A i \in 1 .. Len(d) : d[i] = g[i]
        /\ d \in Seq(Byte)
    BY ONLY g \in Frames, <1>2, CopiedOf
  <2>2. 2 * Length(g) <= Len(g) /\ Len(g) <= 2 * Length(g) + 1
    BY <2>1, HalfOf
  <2> QED BY <1>1, <2>1, <2>2
<1>5. m = n + 1 /\ g[n + 1] = b /\ \A i \in 1 .. n : g[i] = f[i]
  BY <1>1, <1>3
<1>6. CASE l = h
  <2>1. \A i \in 1 .. 2 * h : i \in 1 .. n
    BY <1>3
  <2>2. \A i \in 1 .. Len(c) : c[i] = d[i]
    BY <1>3, <1>4, <1>5, <1>6, <2>1
  <2>3. c = d
    BY <1>3, <1>4, <1>6, <2>2
  <2> QED BY <1>2, <2>3 DEF Whose, IsWhole
<1>7. CASE l # h
  <2>1. 2 * l = m /\ n + 1 \in 1 .. Len(d) /\ 1 \in 1 .. n /\ 1 \in 1 .. Len(d)
    BY <1>3, <1>4, <1>5, <1>7
  <2>2. ASSUME NEW k \in Whose(g) PROVE FALSE
    <3>1. k \in 1 .. Len(sent) /\ IsWhole(g, k)
      BY DEF Whose
    <3>2. \A i \in 1 .. Len(d) : g[i].frame = k /\ ~ g[i].hit
      BY ONLY sent \in Seq(Sizes), g \in Frames, <1>2, <3>1, WholeSays
    <3>3. b.frame = k /\ ~ b.hit /\ f[1].frame = k
      BY <1>5, <2>1, <3>2
    <3> QED BY <3>3
  <2> QED BY <2>2
<1> QED BY <1>6, <1>7

(* Neither does noise. *)
LEMMA WhoseWorse ==
  ASSUME sent \in Seq(Sizes), NEW f \in Frames, NEW g \in Frames, Worse(f, g)
  PROVE  Whose(g) \subseteq Whose(f)
<1>1. PICK c, d : c = Copied(f) /\ d = Copied(g)
  OBVIOUS
<1>2. /\ Len(f) \in Nat /\ Length(f) \in Nat /\ c \in Seq(Byte)
      /\ Len(c) = 2 * Length(f) /\ \A i \in 1 .. Len(c) : c[i] = f[i] /\ i \in 1 .. Len(f)
  BY ONLY f \in Frames, <1>1, CopiedOf
<1>3. /\ Len(g) \in Nat /\ d \in Seq(Byte)
      /\ Len(d) = 2 * Length(g) /\ \A i \in 1 .. Len(d) : d[i] = g[i] /\ i \in 1 .. Len(g)
  BY ONLY g \in Frames, <1>1, CopiedOf
<1>4. Length(f) = Length(g)
  BY DEF Worse, Length
<1>5. ASSUME NEW k \in Whose(g) PROVE k \in Whose(f)
  <2>1. k \in 1 .. Len(sent) /\ IsWhole(g, k)
    BY DEF Whose
  <2>2. \A i \in 1 .. Len(d) : ~ g[i].hit
    BY ONLY sent \in Seq(Sizes), g \in Frames, <1>1, <2>1, WholeSays
  <2>3. \A i \in 1 .. Len(d) : g[i] = f[i]
    BY <1>3, <2>2 DEF Worse
  <2>4. c = d
    BY ONLY <1>2, <1>3, <1>4, <2>3, SeqEqual
  <2> QED BY <1>1, <2>1, <2>4 DEF Whose, IsWhole
<1> QED BY <1>5

(* The frame that ended is what it was, if its closing flag is read as one *)
(* more nibble.                                                            *)
LEMMA WhoseEnded ==
  ASSUME sent \in Seq(Sizes), NEW f \in Frames, NEW b \in Byte, b.hit, NEW g \in Frames,
         g = Append(f, b), NEW last \in Nat, NEW k \in Nat, last = LastAt(k),
         f[Len(f)].at = last - 1, f[Len(f)].frame = k,
         f[Len(f) - 1].at = last - 2, f[Len(f) - 1].frame = k
  PROVE  Whose(g) = Whose(f)
<1>1. Whose(g) \subseteq Whose(f)
  BY WhoseLonger
<1>2. PICK n, h, c : n = Len(f) /\ h = Length(f) /\ c = Copied(f)
  OBVIOUS
<1>3. /\ f \in Seq(Byte) /\ n \in Nat /\ h \in Nat \ {0} /\ c \in Seq(Byte)
      /\ Len(c) = 2 * h /\ \A i \in 1 .. Len(c) : c[i] = f[i] /\ i \in 1 .. Len(f)
  BY ONLY f \in Frames, <1>2, CopiedOf
<1>4. 2 * h <= n /\ n <= 2 * h + 1
  BY <1>2, <1>3, HalfOf
<1>5. CASE n = 2 * h
  <2>1. /\ Len(g) = n + 1 /\ g \in Seq(Byte)
        /\ \A i \in 1 .. n : g[i] = f[i]
    BY <1>2, <1>3 DEF Frames
  <2>2. Length(g) = h
    <3>1. PICK m \in Nat : m = Len(g) /\ m = 2 * h + 1
      BY <1>3, <1>5, <2>1
    <3>2. m \div 2 = h
      BY <1>3, <3>1
    <3> QED BY <3>1, <3>2 DEF Length
  <2>3. PICK d : d = Copied(g)
    OBVIOUS
  <2>4. d \in Seq(Byte) /\ Len(d) = 2 * h /\ \A i \in 1 .. Len(d) : d[i] = g[i]
    BY ONLY g \in Frames, <2>2, <2>3, CopiedOf
  <2>5. c = d
    BY ONLY <1>3, <1>5, <2>1, <2>4, SeqEqual
  <2> QED BY <1>2, <2>3, <2>5 DEF Whose, IsWhole
<1>6. CASE n # 2 * h
  <2>1. n = 2 * h + 1 /\ n - 1 \in 1 .. Len(c)
    BY <1>3, <1>4, <1>6
  <2>2. ASSUME NEW l \in Whose(f) PROVE FALSE
    <3>1. l \in 1 .. Len(sent) /\ IsWhole(f, l)
      BY DEF Whose
    <3>2. /\ sent[l] \in Nat \ {0} /\ Len(c) = 2 * sent[l]
          /\ \A i \in 1 .. Len(c) : f[i].frame = l /\ f[i].at = i
      BY ONLY sent \in Seq(Sizes), f \in Frames, <1>2, <3>1, WholeSays
    <3>3. f[n - 1].frame = l /\ f[n - 1].at = n - 1
      BY <2>1, <3>2
    <3>4. l = k /\ n - 1 = last - 2
      BY <1>2, <3>3
    <3>5. last = 2 * sent[l] + 1
      BY <3>1, <3>4 DEF LastAt, Size
    <3>6. PICK size \in Nat : size = sent[l]
      BY <3>2
    <3>7. 2 * h = 2 * size /\ last = 2 * size + 1
      BY <1>3, <3>2, <3>5, <3>6
    <3> QED BY ONLY <1>3, <2>1, <3>4, <3>6, <3>7
  <2> QED BY <1>1, <2>2
<1> QED BY <1>3, <1>4, <1>5, <1>6

LEMMA OneLessKept ==
  ASSUME NEW A, NEW B, NEW W, NEW V
  PROVE  /\ OneLess(A, A)
         /\ OneLess(A, B) => OneLess(A \cup W, B \cup W)
         /\ OneLess(A, B) /\ W \subseteq A => OneLess(A, B \cup W)
         /\ (\A x, y \in W : x = y) /\ V \subseteq W => OneLess(A \cup W, A \cup V)
         /\ (\A x, y \in W : x = y) => OneLess(A \cup W, A)
BY DEF OneLess

LEMMA LongEnough ==
  ASSUME NEW r \in Receiver, NEW f, f = r.buf.nibbles, Len(f) >= 2
  PROVE  f \in Frames
BY HalfOf DEF Frames, Receiver, Buffers, Fits

(* A nibble that the noise leaves alone. *)
LEMMA CostsNibble ==
  ASSUME sent \in Seq(Sizes), NEW p, NEW q, NEW b \in Byte, ~ IsFlag(b), b.frame = p.frame,
         p.frame = q.frame, p.frame \in Nat, p.at < LastAt(p.frame), q.at < LastAt(q.frame),
         NEW r \in Receiver, NEW s \in Receiver, Costs(p, r, s),
         ~ (p.at = LastAt(p.frame)),
         NEW c, c = Collect(r, b), NEW e, e = Collect(s, b)
  PROVE  Costs(q, c, e)
<1>1. PICK A, B, f, g, x, y : /\ A = WholeIn(r.done) /\ B = WholeIn(s.done)
                              /\ f = r.buf.nibbles /\ g = s.buf.nibbles
                              /\ x = c.buf.nibbles /\ y = e.buf.nibbles
  OBVIOUS
<1>2. /\ c \in Receiver /\ f \in Seq(Byte) /\ Len(f) \in Nat
      /\ c.buf.open \in BOOLEAN /\ c.buf = [open |-> c.buf.open, nibbles |-> x]
      /\ Reads(r, b, c, f, x)
  BY ONLY <1>1, b \in Byte, r \in Receiver, c = Collect(r, b), CollectCases
<1>3. /\ e \in Receiver /\ g \in Seq(Byte) /\ Len(g) \in Nat
      /\ e.buf.open \in BOOLEAN /\ e.buf = [open |-> e.buf.open, nibbles |-> y]
      /\ Reads(s, b, e, g, y)
  BY ONLY <1>1, b \in Byte, s \in Receiver, e = Collect(s, b), CollectCases
<1>4. \/ /\ r.buf.open /\ Len(f) < 2 * FrameSize /\ c.buf.open /\ x = Append(f, b) /\ c.done = r.done
         /\ Len(x) = Len(f) + 1 /\ x[Len(f) + 1] = b /\ \A i \in 1 .. Len(f) : x[i] = f[i]
      \/ (~ r.buf.open \/ Len(f) >= 2 * FrameSize) /\ c = r /\ x = f
  BY <1>2 DEF Reads
<1>5. \/ /\ s.buf.open /\ Len(g) < 2 * FrameSize /\ e.buf.open /\ y = Append(g, b) /\ e.done = s.done
         /\ Len(y) = Len(g) + 1 /\ y[Len(g) + 1] = b /\ \A i \in 1 .. Len(g) : y[i] = g[i]
      \/ (~ s.buf.open \/ Len(g) >= 2 * FrameSize) /\ e = s /\ y = g
  BY <1>3 DEF Reads
<1>6. WholeIn(c.done) = A /\ WholeIn(e.done) = B
  BY <1>1, <1>4, <1>5
<1>7. /\ r.buf.open => c.buf.open
      /\ s.buf.open => e.buf.open
      /\ r.buf = NoFrame => c.buf = NoFrame
      /\ s.buf = NoFrame => e.buf = NoFrame
  <2>1. ~ NoFrame.open
    BY DEF NoFrame
  <2> QED BY <1>4, <1>5, <2>1
<1>8. CASE SameFrame(A, B, r, s)
  <2>1. s.buf = r.buf /\ g = f /\ OneLess(A, B)
    BY <1>1, <1>8 DEF SameFrame
  <2>2. 2 * FrameSize \in Nat
    BY DEF FrameSize
  <2>3. e.buf = c.buf
    <3>1. CASE r.buf.open /\ Len(f) < 2 * FrameSize
      <4>1. ~ (Len(f) >= 2 * FrameSize)
        BY <1>2, <2>2, <3>1
      <4>2. c.buf.open /\ e.buf.open /\ x = Append(f, b) /\ y = Append(f, b)
        BY <1>4, <1>5, <2>1, <3>1, <4>1
      <4>3. c.buf.open = TRUE /\ e.buf.open = TRUE
        BY <1>2, <1>3, <4>2
      <4> QED BY <1>2, <1>3, <4>2, <4>3
    <3>2. CASE ~ (r.buf.open /\ Len(f) < 2 * FrameSize)
      BY <1>4, <1>5, <2>1, <3>2
    <3> QED BY <3>1, <3>2
  <2>4. SameFrame(A, B, c, e)
    BY <2>1, <2>3 DEF SameFrame
  <2> QED BY <1>6, <2>4 DEF Costs
<1>9. CASE FrameMissed(A, B, r, s)
  <2>1. FrameMissed(A, B, c, e)
    BY <1>7, <1>9 DEF FrameMissed
  <2> QED BY <1>6, <2>1 DEF Costs
<1>10. CASE FrameWorse(A, B, r, s)
  <2>1. r.buf.open /\ s.buf.open /\ A = B /\ c.buf.open /\ e.buf.open
    BY <1>7, <1>10 DEF FrameWorse
  <2>2. CASE Worse(f, g)
    <3>1. Len(f) = Len(g) /\ \A i \in 1 .. Len(g) : g[i].hit \/ g[i] = f[i]
      BY <2>2 DEF Worse
    <3>2. 2 * FrameSize \in Nat
      BY DEF FrameSize
    <3>3. CASE Len(f) < 2 * FrameSize
      <4>1. /\ Len(x) = Len(f) + 1 /\ x[Len(f) + 1] = b /\ \A i \in 1 .. Len(f) : x[i] = f[i]
            /\ Len(y) = Len(f) + 1 /\ y[Len(f) + 1] = b /\ \A i \in 1 .. Len(f) : y[i] = g[i]
        BY <1>2, <1>4, <1>5, <2>1, <3>1, <3>2, <3>3
      <4>2. \A i \in 1 .. Len(y) : i \in 1 .. Len(f) \/ i = Len(f) + 1
        BY <1>2, <4>1
      <4>3. \A i \in 1 .. Len(y) : y[i].hit \/ y[i] = x[i]
        BY <3>1, <4>1, <4>2
      <4>4. Worse(x, y)
        BY <4>1, <4>3 DEF Worse
      <4>5. FrameWorse(A, B, c, e)
        BY <1>1, <2>1, <4>4 DEF FrameWorse
      <4> QED BY <1>6, <4>5 DEF Costs
    <3>4. CASE ~ (Len(f) < 2 * FrameSize)
      <4>1. x = f /\ y = g
        BY <1>4, <1>5, <3>1, <3>4
      <4> QED BY <1>1, <1>6, <2>1, <2>2, <4>1 DEF FrameWorse, Costs
    <3> QED BY <3>3, <3>4
  <2>3. CASE Len(g) >= 1 /\ g[1].hit
    <3>1. Len(y) >= 1 /\ y[1] = g[1]
      BY <1>3, <1>5, <2>3
    <3> QED BY <1>1, <1>6, <2>1, <2>3, <3>1 DEF FrameWorse, Costs
  <2> QED BY <1>1, <1>10, <2>2, <2>3 DEF FrameWorse
<1>11. CASE FrameLonger(p, A, B, r, s)
  <2>1. /\ r.buf = NoFrame /\ s.buf.open /\ Len(g) >= 2 /\ g[1].frame < p.frame
        /\ Whose(g) \subseteq A /\ OneLess(A, B)
    BY <1>1, <1>11 DEF FrameLonger
  <2>2. c.buf = NoFrame /\ e.buf.open
    BY <1>7, <2>1
  <2>3. y[1] = g[1] /\ Len(y) >= 2
    BY <1>3, <1>5, <2>1
  <2>4. g \in Frames /\ y \in Frames
    BY <1>1, <1>3, <2>1, <2>3, LongEnough
  <2>5. Whose(y) \subseteq Whose(g)
    <3>1. CASE y = g
      BY <3>1
    <3>2. CASE y = Append(g, b)
      <4>1. b.frame # g[1].frame
        <5>1. PICK k : k = g[1].frame
          OBVIOUS
        <5>2. k \in Nat
          <6>1. g[1] \in Byte
            BY <1>3, <2>1
          <6> QED BY <5>1, <6>1 DEF Byte
        <5> QED BY <2>1, <5>1, <5>2
      <4> QED BY ONLY <2>4, <3>2, <4>1, b \in Byte, sent \in Seq(Sizes), WhoseLonger
    <3> QED BY <1>5, <3>1, <3>2
  <2>6. FrameLonger(q, A, B, c, e)
    BY <1>1, <2>1, <2>2, <2>3, <2>5 DEF FrameLonger
  <2> QED BY <1>6, <2>6 DEF Costs
<1> QED BY <1>1, <1>8, <1>9, <1>10, <1>11 DEF Costs

(* The closing flag, left alone. *)
LEMMA CostsClose ==
  ASSUME sent \in Seq(Sizes), NEW p, NEW q, NEW b \in Byte, IsFlag(b),
         ~ (p.at = LastAt(p.frame)), q.at = LastAt(q.frame),
         NEW r \in Receiver, NEW s \in Receiver, Costs(p, r, s),
         r.buf.open => Len(r.buf.nibbles) >= 2, s.buf.open => Len(s.buf.nibbles) >= 2,
         NEW c, c = Collect(r, b), NEW e, e = Collect(s, b)
  PROVE  Costs(q, c, e)
<1>1. PICK A, B, f, g : /\ A = WholeIn(r.done) /\ B = WholeIn(s.done)
                        /\ f = r.buf.nibbles /\ g = s.buf.nibbles
  OBVIOUS
<1>2. /\ c.buf.nibbles = <<>>
      /\ r.buf.open => f \in Frames /\ WholeIn(c.done) = A \cup Whose(f)
      /\ ~ r.buf.open => WholeIn(c.done) = A
      /\ ~ s.buf.open => g = <<>>
  <2>1. /\ f \in Seq(Byte) /\ Len(f) \in Nat
        /\ ~ r.buf.open => f = <<>>
        /\ Reads(r, b, c, f, c.buf.nibbles)
    BY ONLY <1>1, b \in Byte, r \in Receiver, c = Collect(r, b), CollectCases
  <2>2. \/ r.buf.open /\ c.buf.nibbles = <<>> /\ f \in Frames /\ c.done = Append(r.done, f)
        \/ ~ r.buf.open /\ c.buf.nibbles = f /\ c.done = r.done
    BY <1>1, <2>1 DEF Reads
  <2>3. r.done \in Seq(Frames)
    BY DEF Receiver
  <2>4. f \in Frames => WholeIn(Append(r.done, f)) = A \cup Whose(f)
    BY <1>1, <2>3, OneMoreWhole
  <2>5. ~ s.buf.open => g = <<>>
    BY ONLY <1>1, b \in Byte, s \in Receiver, e = Collect(s, b), CollectCases
  <2> QED BY <1>1, <2>1, <2>2, <2>4, <2>5
<1>3. /\ e.buf.nibbles = <<>>
      /\ s.buf.open => g \in Frames /\ WholeIn(e.done) = B \cup Whose(g)
      /\ ~ s.buf.open => WholeIn(e.done) = B
  <2>1. /\ g \in Seq(Byte) /\ Len(g) \in Nat
        /\ ~ s.buf.open => g = <<>>
        /\ Reads(s, b, e, g, e.buf.nibbles)
    BY ONLY <1>1, b \in Byte, s \in Receiver, e = Collect(s, b), CollectCases
  <2>2. \/ s.buf.open /\ e.buf.nibbles = <<>> /\ g \in Frames /\ e.done = Append(s.done, g)
        \/ ~ s.buf.open /\ e.buf.nibbles = g /\ e.done = s.done
    BY <1>1, <2>1 DEF Reads
  <2>3. s.done \in Seq(Frames)
    BY DEF Receiver
  <2>4. g \in Frames => WholeIn(Append(s.done, g)) = B \cup Whose(g)
    BY <1>1, <2>3, OneMoreWhole
  <2> QED BY <1>1, <2>1, <2>2, <2>4
<1>4. PICK A2, B2 : A2 = WholeIn(c.done) /\ B2 = WholeIn(e.done)
  OBVIOUS
<1>5. SUFFICES OneLess(A2, B2)
  BY <1>2, <1>3, <1>4 DEF BothEnded, Costs
<1>6. ~ NoFrame.open
  BY DEF NoFrame
<1>7. r.buf.open => \A x, y \in Whose(f) : x = y
  BY ONLY <1>2, sent \in Seq(Sizes), WhoseSays
<1>8. CASE SameFrame(A, B, r, s)
  <2>1. s.buf = r.buf /\ g = f /\ OneLess(A, B)
    BY <1>1, <1>8 DEF SameFrame
  <2>2. OneLess(A \cup Whose(f), B \cup Whose(f))
    BY <2>1, OneLessKept
  <2>3. (A2 = A /\ B2 = B) \/ (A2 = A \cup Whose(f) /\ B2 = B \cup Whose(f))
    BY <1>2, <1>3, <1>4, <2>1
  <2> QED BY <2>1, <2>2, <2>3
<1>9. CASE FrameMissed(A, B, r, s)
  <2>1. r.buf.open /\ ~ s.buf.open /\ A = B
    BY <1>6, <1>9 DEF FrameMissed
  <2>2. OneLess(A \cup Whose(f), A)
    BY <1>7, <2>1, OneLessKept
  <2>3. A2 = A \cup Whose(f) /\ B2 = A
    BY <1>2, <1>3, <1>4, <2>1
  <2> QED BY <2>2, <2>3
<1>10. CASE FrameWorse(A, B, r, s)
  <2>1. r.buf.open /\ s.buf.open /\ A = B /\ (Worse(f, g) \/ g[1].hit)
    BY <1>1, <1>10 DEF FrameWorse
  <2>2. f \in Frames /\ g \in Frames
    BY <1>2, <1>3, <2>1
  <2>3. Worse(f, g) => Whose(g) \subseteq Whose(f)
    BY ONLY <2>2, sent \in Seq(Sizes), WhoseWorse
  <2>4. \A k \in Whose(g) : ~ g[1].hit
    BY ONLY <2>2, sent \in Seq(Sizes), WhoseSays
  <2>5. Whose(g) \subseteq Whose(f)
    BY <2>1, <2>3, <2>4
  <2>6. OneLess(A \cup Whose(f), A \cup Whose(g))
    BY <1>7, <2>1, <2>5, OneLessKept
  <2>7. A2 = A \cup Whose(f) /\ B2 = A \cup Whose(g)
    BY <1>2, <1>3, <1>4, <2>1
  <2> QED BY <2>6, <2>7
<1>11. CASE FrameLonger(p, A, B, r, s)
  <2>1. ~ r.buf.open /\ s.buf.open /\ Whose(g) \subseteq A /\ OneLess(A, B)
    BY <1>1, <1>6, <1>11 DEF FrameLonger
  <2>2. OneLess(A, B \cup Whose(g))
    BY <2>1, OneLessKept
  <2>3. A2 = A /\ B2 = B \cup Whose(g)
    BY <1>2, <1>3, <1>4, <2>1
  <2> QED BY <2>2, <2>3
<1> QED BY <1>1, <1>8, <1>9, <1>10, <1>11 DEF Costs

(* The opening flag, left alone. *)
LEMMA CostsOpen ==
  ASSUME sent \in Seq(Sizes), NEW p, NEW q, NEW b \in Byte, IsFlag(b),
         p.at = LastAt(p.frame), ~ (p.at < LastAt(p.frame)), q.at < LastAt(q.frame),
         NEW r \in Receiver, NEW s \in Receiver, Costs(p, r, s),
         NEW c, c = Collect(r, b), NEW e, e = Collect(s, b)
  PROVE  Costs(q, c, e)
<1>1. PICK A, B, f, g : /\ A = WholeIn(r.done) /\ B = WholeIn(s.done)
                        /\ f = r.buf.nibbles /\ g = s.buf.nibbles
  OBVIOUS
<1>2. /\ c.buf.open \in BOOLEAN /\ Len(f) \in Nat
      /\ c.buf = [open |-> c.buf.open, nibbles |-> c.buf.nibbles]
      /\ Reads(r, b, c, f, c.buf.nibbles)
  BY ONLY <1>1, b \in Byte, r \in Receiver, c = Collect(r, b), CollectCases
<1>3. /\ e.buf.open \in BOOLEAN /\ Len(g) \in Nat
      /\ e.buf = [open |-> e.buf.open, nibbles |-> e.buf.nibbles]
      /\ Reads(s, b, e, g, e.buf.nibbles)
  BY ONLY <1>1, b \in Byte, s \in Receiver, e = Collect(s, b), CollectCases
<1>4. NoFrame.nibbles = <<>> /\ ~ NoFrame.open /\ Len(<<>>) = 0
  BY DEF NoFrame
<1>5. CASE BothEnded(A, B, r, s)
  <2>1. f = <<>> /\ g = <<>> /\ OneLess(A, B)
    BY <1>1, <1>5 DEF BothEnded
  <2>2. /\ c.buf.open /\ c.buf.nibbles = <<>> /\ c.done = r.done
        /\ e.buf.open /\ e.buf.nibbles = <<>> /\ e.done = s.done
    BY <1>2, <1>3, <1>4, <2>1 DEF Reads
  <2>3. c.buf.open = TRUE /\ e.buf.open = TRUE
    BY <1>2, <1>3, <2>2
  <2>4. e.buf = c.buf
    BY <1>2, <1>3, <2>2, <2>3
  <2>5. SameFrame(A, B, c, e)
    BY <2>1, <2>4 DEF SameFrame
  <2> QED BY <1>1, <2>2, <2>5 DEF Costs
<1>6. CASE OneWaits(A, B, r, s)
  <2>1. /\ r.buf = NoFrame /\ s.buf.open /\ Len(g) >= 2 /\ A = B \cup Whose(g)
    BY <1>1, <1>6 DEF OneWaits
  <2>2. c.buf.open /\ c.done = r.done
    BY <1>1, <1>2, <1>4, <2>1 DEF Reads
  <2>3. e.buf = NoFrame /\ g \in Frames /\ e.done = Append(s.done, g)
    BY <1>3, <2>1 DEF Reads
  <2>4. WholeIn(e.done) = A
    <3>1. s.done \in Seq(Frames)
      BY DEF Receiver
    <3> QED BY <1>1, <2>1, <2>3, <3>1, OneMoreWhole
  <2>5. FrameMissed(A, A, c, e)
    BY <2>2, <2>3 DEF FrameMissed
  <2> QED BY <1>1, <2>2, <2>4, <2>5 DEF Costs
<1> QED BY <1>1, <1>5, <1>6 DEF Costs

LEMMA CostsStep ==
  ASSUME sent \in Seq(Sizes), NEW p \in Place, NEW b, OfFrame(b), ~ b.hit, NEW q, q = PlaceOf(b),
         Follows(p, q),
         NEW r \in Receiver, NEW s \in Receiver, Shape(p, r.buf), Shape(p, s.buf), Costs(p, r, s),
         NEW c, c = Collect(r, b), NEW e, e = Collect(s, b)
  PROVE  Costs(q, c, e)
<1>1. /\ b \in Byte
      /\ IsFlag(b) <=> b.flag
      /\ p.frame \in Nat /\ p.at \in Nat /\ q.at \in Nat
      /\ q.frame = b.frame /\ LastAt(p.frame) \in Nat /\ LastAt(q.frame) \in Nat
      /\ LastAt(q.frame) >= 3
      /\ \/ /\ q.frame = p.frame /\ q.at = p.at + 1
            /\ p.at < LastAt(q.frame) - 1 /\ ~ b.flag
         \/ /\ q.frame = p.frame /\ q.at = p.at + 1
            /\ p.at = LastAt(q.frame) - 1 /\ q.at = LastAt(q.frame) /\ b.flag
         \/ q.frame = p.frame + 1 /\ q.at = 0 /\ p.at = LastAt(p.frame) /\ b.flag
  BY NextPlace
<1>2. CASE /\ q.frame = p.frame /\ q.at = p.at + 1
           /\ p.at < LastAt(q.frame) - 1 /\ ~ b.flag
  <2>1. ~ IsFlag(b) /\ b.frame = p.frame /\ p.frame = q.frame
    BY <1>1, <1>2
  <2>2. p.at < LastAt(p.frame) /\ ~ (p.at = LastAt(p.frame)) /\ q.at < LastAt(q.frame)
    <3>1. PICK n \in Nat, m \in Nat, last \in Nat : n = p.at /\ m = q.at /\ last = LastAt(q.frame)
      BY <1>1
    <3> QED BY <1>2, <3>1
  <2> QED BY <1>1, <2>1, <2>2, CostsNibble
<1>3. CASE /\ q.frame = p.frame /\ q.at = p.at + 1
           /\ p.at = LastAt(q.frame) - 1 /\ q.at = LastAt(q.frame) /\ b.flag
  <2>1. /\ ~ (p.at = LastAt(p.frame)) /\ p.at < LastAt(p.frame) /\ p.at >= 2 /\ IsFlag(b)
    BY <1>1, <1>3
  <2>2. /\ r.buf.open => Len(r.buf.nibbles) >= 2
        /\ s.buf.open => Len(s.buf.nibbles) >= 2
    BY <2>1 DEF Shape
  <2> QED BY <1>1, <1>3, <2>1, <2>2, CostsClose
<1>4. CASE q.frame = p.frame + 1 /\ q.at = 0 /\ p.at = LastAt(p.frame) /\ b.flag
  <2>1. ~ (p.at < LastAt(p.frame)) /\ q.at < LastAt(q.frame) /\ IsFlag(b)
    BY <1>1, <1>4
  <2> QED BY <1>1, <1>4, <2>1, CostsOpen
<1> QED BY <1>1, <1>2, <1>3, <1>4

(* The byte that is hit. *)
LEMMA CostsFirst ==
  ASSUME sent \in Seq(Sizes), NEW p \in Place, NEW b, OfFrame(b), ~ b.hit, NEW q, q = PlaceOf(b),
         Follows(p, q),
         NEW h \in Byte, h.hit, h.frame = b.frame,
         NEW r \in Receiver, Shape(p, r.buf),
         NEW c, c = Collect(r, b), NEW e, e = Collect(r, h)
  PROVE  Costs(q, c, e)
<1>1. /\ b \in Byte
      /\ IsFlag(b) <=> b.flag
      /\ p.frame \in Nat /\ p.at \in Nat /\ q.at \in Nat
      /\ q.frame = b.frame /\ LastAt(p.frame) \in Nat /\ LastAt(q.frame) \in Nat
      /\ LastAt(q.frame) >= 3
      /\ \/ /\ q.frame = p.frame /\ q.at = p.at + 1
            /\ p.at < LastAt(q.frame) - 1 /\ ~ b.flag
         \/ /\ q.frame = p.frame /\ q.at = p.at + 1
            /\ p.at = LastAt(q.frame) - 1 /\ q.at = LastAt(q.frame) /\ b.flag
         \/ q.frame = p.frame + 1 /\ q.at = 0 /\ p.at = LastAt(p.frame) /\ b.flag
  BY NextPlace
<1>2. PICK A, f, x, y : /\ A = WholeIn(r.done) /\ f = r.buf.nibbles
                        /\ x = c.buf.nibbles /\ y = e.buf.nibbles
  OBVIOUS
<1>3. /\ f \in Seq(Byte) /\ Len(f) \in Nat
      /\ ~ r.buf.open => r.buf = NoFrame /\ f = <<>>
      /\ c.buf = [open |-> c.buf.open, nibbles |-> x] /\ Reads(r, b, c, f, x)
  <2>1. b \in Byte
    BY <1>1
  <2>2. f \in Seq(Byte) /\ Len(f) \in Nat /\ Reads(r, b, c, f, x)
    BY ONLY <1>2, <2>1, r \in Receiver, c = Collect(r, b), CollectCases
  <2>3. /\ ~ r.buf.open => r.buf = NoFrame /\ f = <<>>
        /\ c.buf = [open |-> c.buf.open, nibbles |-> x]
    BY ONLY <1>2, <2>1, r \in Receiver, c = Collect(r, b), CollectCases
  <2> QED BY <2>2, <2>3
<1>4. ~ IsFlag(h)
  BY DEF IsFlag
<1>5. /\ e \in Receiver
      /\ \/ /\ r.buf.open /\ Len(f) < 2 * FrameSize
            /\ e.buf.open /\ y = Append(f, h) /\ e.done = r.done
            /\ Len(y) = Len(f) + 1 /\ y[Len(f) + 1] = h
            /\ \A i \in 1 .. Len(f) : y[i] = f[i]
         \/ /\ ~ r.buf.open \/ Len(f) >= 2 * FrameSize
            /\ e = r /\ y = f
  <2>1. e \in Receiver /\ Reads(r, h, e, f, y)
    BY ONLY <1>2, h \in Byte, r \in Receiver, e = Collect(r, h), CollectCases
  <2> QED BY <1>4, <2>1 DEF Reads
<1>6. WholeIn(e.done) = A
  BY <1>2, <1>5
<1>7. OneLess(A, A)
  BY OneLessKept
<1>8. r.done \in Seq(Frames)
  BY DEF Receiver
<1>9. CASE /\ q.frame = p.frame /\ q.at = p.at + 1
           /\ p.at < LastAt(q.frame) - 1 /\ ~ b.flag
  <2>1. q.at < LastAt(q.frame) /\ ~ IsFlag(b)
    <3>1. PICK n \in Nat, m \in Nat, last \in Nat : n = p.at /\ m = q.at /\ last = LastAt(q.frame)
      BY <1>1
    <3>2. ~ IsFlag(b)
      BY <1>1, <1>9
    <3> QED BY <1>9, <3>1, <3>2
  <2>2. CASE r.buf.open /\ Len(f) < 2 * FrameSize
    <3>1. ~ (Len(f) >= 2 * FrameSize)
      BY <1>3, <2>2 DEF FrameSize
    <3>2. /\ c.buf.open /\ Len(x) = Len(f) + 1 /\ c.done = r.done
          /\ \A i \in 1 .. Len(f) : x[i] = f[i]
      BY <1>3, <2>1, <2>2, <3>1 DEF Reads
    <3>3. /\ e.buf.open /\ Len(y) = Len(f) + 1 /\ y[Len(f) + 1] = h
          /\ \A i \in 1 .. Len(f) : y[i] = f[i]
      BY <1>5, <2>2, <3>1
    <3>4. \A i \in 1 .. Len(y) : i \in 1 .. Len(f) \/ i = Len(f) + 1
      BY <1>3, <3>3
    <3>5. Worse(x, y)
      BY <3>2, <3>3, <3>4 DEF Worse
    <3>6. FrameWorse(A, A, c, e)
      BY <1>2, <3>2, <3>3, <3>5 DEF FrameWorse
    <3> QED BY <1>2, <1>6, <2>1, <3>2, <3>6 DEF Costs
  <2>3. CASE ~ (r.buf.open /\ Len(f) < 2 * FrameSize)
    <3>1. c = r /\ e = r
      BY <1>3, <1>5, <2>1, <2>3 DEF Reads
    <3>2. SameFrame(A, A, c, e)
      BY <1>7, <3>1 DEF SameFrame
    <3> QED BY <1>2, <2>1, <3>1, <3>2 DEF Costs
  <2> QED BY <2>2, <2>3
<1>10. CASE /\ q.frame = p.frame /\ q.at = p.at + 1
            /\ p.at = LastAt(q.frame) - 1 /\ q.at = LastAt(q.frame) /\ b.flag
  <2>1. p.at < LastAt(p.frame) /\ p.at >= 1 /\ p.at >= 2 /\ IsFlag(b)
    BY <1>1, <1>10
  <2>2. CASE ~ r.buf.open
    <3>1. x = <<>> /\ c.done = r.done
      BY <1>3, <2>1, <2>2 DEF Reads
    <3>2. e = r /\ y = <<>>
      BY <1>3, <1>5, <2>2
    <3>3. BothEnded(A, A, c, e)
      BY <1>2, <1>7, <3>1, <3>2 DEF BothEnded
    <3> QED BY <1>2, <1>6, <1>10, <3>1, <3>3 DEF Costs
  <2>3. CASE r.buf.open
    <3>1. /\ Len(f) >= 2
          /\ Len(f) < 2 * FrameSize =>
               /\ PlaceOf(f[Len(f)]) = p
               /\ PlaceOf(f[Len(f) - 1]) = [frame |-> p.frame, at |-> p.at - 1]
      BY <1>2, <2>1, <2>3 DEF Shape
    <3>2. c.buf = NoFrame /\ f \in Frames /\ c.done = Append(r.done, f)
      BY <1>3, <2>1, <2>3, <3>1 DEF Reads
    <3>3. WholeIn(c.done) = A \cup Whose(f)
      BY <1>2, <1>8, <3>2, OneMoreWhole
    <3>4. e.buf.open /\ Len(y) >= 2
      BY <1>3, <1>5, <2>3, <3>1
    <3>5. y \in Frames
      BY ONLY <1>2, <1>5, <3>4, LongEnough
    <3>6. Whose(y) = Whose(f)
      <4>1. CASE y = f
        BY <4>1
      <4>2. CASE y = Append(f, h) /\ Len(f) < 2 * FrameSize
        <5>1. PICK n \in Nat, last \in Nat : n = Len(f) /\ last = LastAt(p.frame)
          BY <1>1, <1>3
        <5>2. p.at - 1 = last - 2 /\ p.at = last - 1
          BY <1>1, <1>10, <5>1
        <5>3. /\ f[Len(f)].at = last - 1 /\ f[Len(f)].frame = p.frame
              /\ f[Len(f) - 1].at = last - 2 /\ f[Len(f) - 1].frame = p.frame
          <6>1. PICK v, w : v = f[Len(f)] /\ w = f[Len(f) - 1]
            OBVIOUS
          <6>2. [frame |-> v.frame, at |-> v.at] = p
            BY <3>1, <4>2, <6>1 DEF PlaceOf
          <6>3. [frame |-> w.frame, at |-> w.at] = [frame |-> p.frame, at |-> p.at - 1]
            BY <3>1, <4>2, <6>1 DEF PlaceOf
          <6>4. v.frame = p.frame /\ v.at = p.at
            BY <6>2
          <6>5. w.frame = p.frame /\ w.at = p.at - 1
            BY <6>3
          <6> QED BY <5>2, <6>1, <6>4, <6>5
        <5>4. PICK k : k = p.frame
          OBVIOUS
        <5> QED
          BY ONLY <1>1, <3>2, <3>5, <4>2, <5>1, <5>3, <5>4, sent \in Seq(Sizes), h \in Byte, h.hit,
                  last \in Nat, WhoseEnded
      <4> QED BY <1>5, <4>1, <4>2
    <3>7. OneWaits(A \cup Whose(f), A, c, e)
      BY <1>2, <3>2, <3>4, <3>6 DEF OneWaits
    <3> QED BY <1>6, <1>10, <3>3, <3>7 DEF Costs
  <2> QED BY <2>2, <2>3
<1>11. CASE q.frame = p.frame + 1 /\ q.at = 0 /\ p.at = LastAt(p.frame) /\ b.flag
  <2>1. q.at < LastAt(q.frame) /\ IsFlag(b)
    BY <1>1, <1>11
  <2>2. Len(f) # 1 /\ Within(f, p.frame)
    BY <1>2, <1>11 DEF Shape
  <2>3. CASE ~ r.buf.open
    <3>1. c.buf.open /\ c.done = r.done
      BY <1>3, <2>1, <2>3 DEF Reads
    <3>2. e.buf = NoFrame
      BY <1>3, <1>5, <2>3
    <3>3. FrameMissed(A, A, c, e)
      BY <3>1, <3>2 DEF FrameMissed
    <3> QED BY <1>2, <1>6, <2>1, <3>1, <3>3 DEF Costs
  <2>4. CASE r.buf.open /\ Len(f) < 2
    <3>1. Len(f) = 0 /\ Len(f) < 2 * FrameSize /\ ~ (Len(f) >= 2 * FrameSize)
      <4>1. PICK n \in Nat : n = Len(f)
        BY <1>3
      <4>2. n = 0
        BY <2>2, <2>4, <4>1
      <4> QED BY <4>1, <4>2 DEF FrameSize
    <3>2. c.buf.open /\ c.done = r.done
      BY <1>3, <2>1, <2>4, <3>1 DEF Reads
    <3>3. e.buf.open /\ Len(y) = 1 /\ y[1] = h
      BY <1>5, <2>4, <3>1
    <3>4. FrameWorse(A, A, c, e)
      BY <1>2, <3>2, <3>3 DEF FrameWorse
    <3> QED BY <1>2, <1>6, <2>1, <3>2, <3>4 DEF Costs
  <2>5. CASE r.buf.open /\ Len(f) >= 2
    <3>1. c.buf = NoFrame /\ f \in Frames /\ c.done = Append(r.done, f)
      BY <1>3, <2>1, <2>5 DEF Reads
    <3>2. WholeIn(c.done) = A \cup Whose(f)
      BY <1>2, <1>8, <3>1, OneMoreWhole
    <3>3. e.buf.open /\ Len(y) >= 2 /\ y[1] = f[1]
      <4>1. PICK n \in Nat : n = Len(f) /\ n >= 2 /\ 1 \in 1 .. n
        BY <1>3, <2>5
      <4>2. CASE /\ e.buf.open /\ Len(y) = n + 1
                 /\ \A i \in 1 .. n : y[i] = f[i]
        BY ONLY <4>1, <4>2
      <4>3. CASE e = r /\ y = f
        BY ONLY <2>5, <4>1, <4>3
      <4> QED BY <1>5, <4>1, <4>2, <4>3
    <3>4. y \in Frames
      BY ONLY <1>2, <1>5, <3>3, LongEnough
    <3>5. f[1].frame \in Nat /\ f[1].frame <= p.frame
      <4>1. 1 \in 1 .. Len(f)
        BY <1>3, <2>5
      <4> QED BY <2>2, <4>1 DEF Within
    <3>6. Whose(y) \subseteq Whose(f)
      <4>1. CASE y = f
        BY <4>1
      <4>2. CASE y = Append(f, h)
        BY ONLY <3>1, <3>4, <4>2, sent \in Seq(Sizes), h \in Byte, h.hit, WhoseLonger
      <4> QED BY <1>5, <4>1, <4>2
    <3>7. OneLess(A \cup Whose(f), A)
      BY ONLY <3>1, sent \in Seq(Sizes), WhoseSays, OneLessKept
    <3>8. y[1].frame < q.frame
      <4>1. PICK k \in Nat : k = f[1].frame /\ k <= p.frame
        BY <3>5
      <4> QED BY <1>1, <1>11, <3>3, <4>1
    <3>9. FrameLonger(q, A \cup Whose(f), A, c, e)
      BY <1>2, <3>1, <3>3, <3>6, <3>7, <3>8 DEF FrameLonger
    <3> QED BY <1>6, <2>1, <3>2, <3>9 DEF Costs
  <2> QED BY <1>3, <2>3, <2>4, <2>5
<1> QED BY <1>1, <1>9, <1>10, <1>11

LEMMA NoisedOne ==
  ASSUME NEW s \in Seq(Byte), NEW i \in 1 .. Len(s), NEW u, u = Noised(s, i)
  PROVE  u[i].hit /\ \A j \in 1 .. Len(s) : j # i => u[j] = s[j]
<1>1. s \in [1 .. Len(s) -> Byte] /\ s[i] \in Byte
  OBVIOUS
<1>2. PICK hit : hit = [s[i] EXCEPT !.hit = TRUE]
  OBVIOUS
<1>3. u = [s EXCEPT ![i] = hit]
  BY <1>2 DEF Noised
<1>4. hit.hit
  BY <1>1, <1>2 DEF Byte
<1> QED BY <1>1, <1>3, <1>4

(* One hit in bytes that the noise left alone. *)
LEMMA CostOfHit ==
  ASSUME sent \in Seq(Sizes), NEW p \in Place, NEW s \in Seq(Byte), NoHits(s),
         NEW q, Run(p, s, q), NEW i \in 1 .. Len(s), NEW t, t = Noised(s, i),
         NEW start \in Receiver, Shape(p, start.buf),
         NEW r, r = After(start, s), NEW w, w = After(start, t)
  PROVE  Costs(q, r, w)
<1>1. PICK n \in Nat : n = Len(s) /\ \A j \in 1 .. n : s[j] \in Byte /\ ~ s[j].hit
  BY DEF NoHits
<1>2. /\ t \in Seq(Byte) /\ Len(t) = n /\ t[i].hit
      /\ \A j \in 1 .. n : /\ t[j] \in Byte /\ PlaceOf(t[j]) = PlaceOf(s[j])
                           /\ t[j].frame = s[j].frame
                           /\ j # i => t[j] = s[j]
  BY <1>1, NoisedBytes, NoisedOne
<1>3. PICK x : Reading(start, s, x)
  BY <1>1, AfterReads
<1>4. PICK y : Reading(start, t, y)
  BY <1>1, <1>2, AfterReads
<1>5. /\ x[0] = start /\ y[0] = start /\ r = x[n] /\ w = y[n]
      /\ \A j \in 1 .. n : x[j] = Collect(x[j - 1], s[j]) /\ y[j] = Collect(y[j - 1], t[j])
  BY <1>1, <1>2, <1>3, <1>4 DEF Reading
<1> DEFINE at(j) == PlaceIn(p, s, j)
           G == {j \in 0 .. n :
                   /\ x[j] \in Receiver /\ Shape(at(j), x[j].buf)
                   /\ y[j] \in Receiver /\ Shape(at(j), y[j].buf)
                   /\ j < i => x[j] = y[j]
                   /\ j >= i => Costs(at(j), x[j], y[j])}
<1>6. 0 \in G
  <2>1. at(0) = p /\ 0 < i /\ ~ (0 >= i) /\ 0 \in 0 .. n
    BY <1>1 DEF PlaceIn
  <2> QED BY <1>5, <2>1
<1>7. Run(p, t, q)
  BY RunNoised
<1>8. ASSUME NEW j \in 1 .. n, j - 1 \in G PROVE j \in G
  <2>1. PICK a, b, c, u, v, g, h : /\ a = at(j - 1) /\ b = s[j] /\ c = t[j]
                                   /\ u = x[j - 1] /\ v = y[j - 1] /\ g = x[j] /\ h = y[j]
    OBVIOUS
  <2>2. /\ u \in Receiver /\ Shape(a, u.buf) /\ v \in Receiver /\ Shape(a, v.buf)
        /\ j - 1 < i => u = v
        /\ j - 1 >= i => Costs(a, u, v)
    BY <1>8, <2>1
  <2>3. g = Collect(u, b) /\ h = Collect(v, c)
    BY <1>5, <2>1
  <2>4. /\ a \in Place /\ OfFrame(b) /\ b \in Byte /\ ~ b.hit /\ Follows(a, PlaceOf(b))
        /\ at(j) = PlaceOf(b) /\ j \in 0 .. n /\ j - 1 \in 0 .. n
    <3>1. j \in 0 .. n /\ j - 1 \in 0 .. n /\ j # 0
      BY <1>1
    <3>2. \A k \in 0 .. n : PlaceIn(p, s, k) \in Place
      BY <1>1, RunEndsInPlace
    <3>3. OfFrame(s[j]) /\ Follows(PlaceIn(p, s, j - 1), PlaceOf(s[j]))
      BY <1>1 DEF Run
    <3>4. PlaceIn(p, s, j) = PlaceOf(s[j])
      BY <3>1 DEF PlaceIn
    <3> QED BY <1>1, <2>1, <3>1, <3>2, <3>3, <3>4
  <2>5. c \in Byte /\ PlaceOf(c) = PlaceOf(b) /\ c.frame = b.frame /\ OfFrame(c)
    BY <1>1, <1>2, <1>7, <2>1 DEF Run
  <2>6. /\ j # i => c = b
        /\ j = i => c.hit
    BY <1>2, <2>1
  <2>7. g \in Receiver /\ Shape(PlaceOf(b), g.buf)
    BY ONLY <2>2, <2>3, <2>4, sent \in Seq(Sizes), CollectTyped, ShapeKept
  <2>8. h \in Receiver
    BY ONLY <2>2, <2>3, <2>5, CollectTyped
  <2>9. Shape(PlaceOf(b), h.buf)
    <3>1. PICK e : e = PlaceOf(c) /\ e = PlaceOf(b)
      BY <2>5
    <3>2. Shape(e, h.buf)
      BY ONLY <2>2, <2>3, <2>4, <2>5, <3>1, sent \in Seq(Sizes), ShapeKept
    <3> QED BY <3>1, <3>2
  <2>10. CASE j < i
    <3>1. j - 1 < i /\ j # i /\ ~ (j >= i)
      BY <1>1, <2>10
    <3>2. g = h
      BY <2>2, <2>3, <2>6, <3>1
    <3> HIDE DEF at
    <3> QED BY <2>1, <2>4, <2>7, <2>8, <2>9, <2>10, <3>1, <3>2
  <2>11. CASE j = i
    <3>1. j - 1 < i /\ ~ (j < i)
      BY <1>1, <2>11
    <3>2. u = v /\ c.hit
      BY <2>2, <2>6, <2>11, <3>1
    <3>3. h = Collect(u, c)
      BY <2>3, <3>2
    <3>4. Costs(PlaceOf(b), g, h)
      BY ONLY <2>2, <2>3, <2>4, <2>5, <3>2, <3>3, sent \in Seq(Sizes), CostsFirst
    <3> HIDE DEF at
    <3> QED BY <2>1, <2>4, <2>7, <2>8, <2>9, <3>1, <3>4
  <2>12. CASE j > i
    <3>1. j - 1 >= i /\ j # i /\ ~ (j < i)
      BY <1>1, <2>12
    <3>2. h = Collect(v, b)
      BY <2>3, <2>6, <3>1
    <3>3. Costs(PlaceOf(b), g, h)
      BY ONLY <2>2, <2>3, <2>4, <3>1, <3>2, sent \in Seq(Sizes), CostsStep
    <3> HIDE DEF at
    <3> QED BY <2>1, <2>4, <2>7, <2>8, <2>9, <3>1, <3>3
  <2> QED BY <1>1, <2>10, <2>11, <2>12
<1>9. \A j \in 0 .. n : j \in G
  <2> HIDE DEF G
  <2> QED BY <1>6, <1>8, GoesOn
<1>10. n \in G /\ n >= i
  BY <1>1, <1>9
<1>11. Costs(at(n), r, w)
  BY <1>5, <1>10
<1>12. q = at(n)
  BY <1>1 DEF Run
<1> HIDE DEF at
<1> QED BY <1>11, <1>12

(* Behind all frames: none is whole that was not before, and at most one   *)
(* is lost, or will be when the next one is sent.                          *)
LEMMA CostsAtEnd ==
  ASSUME sent \in Seq(Sizes), NEW p, p.at = LastAt(p.frame), ~ (p.at < LastAt(p.frame)),
         NEW r \in Receiver, NEW s \in Receiver, Costs(p, r, s)
  PROVE  /\ WholeIn(All(s)) \subseteq WholeIn(All(r))
         /\ Cardinality(WholeIn(All(r))) <= Cardinality(WholeIn(All(s))) + 1
         /\ Debt(s) + Cardinality(WholeIn(All(r)))
              <= Debt(r) + Cardinality(WholeIn(All(s))) + 1
<1>1. PICK A, B, f, g : /\ A = WholeIn(r.done) /\ B = WholeIn(s.done)
                        /\ f = r.buf.nibbles /\ g = s.buf.nibbles
  OBVIOUS
<1>2. /\ r.done \in Seq(Frames) /\ s.done \in Seq(Frames)
      /\ f \in Seq(Byte) /\ g \in Seq(Byte) /\ Length(f) \in Nat /\ Length(g) \in Nat
      /\ ~ s.buf.open => s.buf = NoFrame
  BY <1>1, HalfOf DEF Receiver, Buffers
<1>3. NoFrame.nibbles = <<>> /\ Len(<<>>) = 0 /\ Length(<<>>) = 0
  BY DEF NoFrame, Length
<1>4. /\ IsFiniteSet(A) /\ Cardinality(A) \in Nat
      /\ IsFiniteSet(B) /\ Cardinality(B) \in Nat
  BY <1>1, WholeFinite
<1>5. CASE BothEnded(A, B, r, s)
  <2>1. f = <<>> /\ g = <<>> /\ OneLess(A, B)
    BY <1>1, <1>5 DEF BothEnded
  <2>2. All(r) = r.done /\ All(s) = s.done /\ Debt(r) = 0 /\ Debt(s) = 0
    BY <1>1, <1>3, <2>1 DEF All, Debt
  <2>3. Cardinality(A) <= Cardinality(B) + 1
    <3>1. CASE A \ B = {}
      <4>1. A = B
        BY <2>1, <3>1 DEF OneLess
      <4> QED BY <1>4, <4>1
    <3>2. CASE A \ B # {}
      <4>1. PICK x : x \in A \ B
        BY <3>2
      <4>2. A = B \cup {x}
        BY <2>1, <4>1 DEF OneLess
      <4> QED BY <1>4, <4>1, <4>2, FS_AddElement
    <3> QED BY <3>1, <3>2
  <2> QED BY <1>1, <1>4, <2>1, <2>2, <2>3 DEF OneLess
<1>6. CASE OneWaits(A, B, r, s)
  <2>1. /\ f = <<>> /\ Len(g) >= 2 /\ A = B \cup Whose(g)
    BY <1>1, <1>3, <1>6 DEF OneWaits
  <2>2. g \in Frames
    BY <1>1, <2>1, LongEnough
  <2>3. Length(g) > 0
    BY <1>2, <2>1, HalfOf
  <2>4. /\ All(r) = r.done /\ All(s) = Append(s.done, g)
        /\ Debt(r) = 0 /\ Debt(s) = 1
    BY <1>1, <1>3, <2>1, <2>3 DEF All, Debt
  <2>5. WholeIn(All(s)) = A
    BY <1>1, <1>2, <2>1, <2>2, <2>4, OneMoreWhole
  <2> QED BY <1>1, <1>4, <2>4, <2>5
<1> QED BY <1>1, <1>5, <1>6 DEF Costs

-----------------------------------------------------------------------------
(* What becomes of a frame when it is sent, if no more noise comes. *)

LEMMA AfterOne ==
  ASSUME NEW start, NEW b, NEW s, s = <<b>>
  PROVE  After(start, s) = Collect(start, b)
<1>1. Len(s) = 1 /\ s[1] = b
  OBVIOUS
<1>2. PICK r : Reading(start, s, r)
  BY <1>1, AfterReads
<1>3. r[0] = start /\ r[1] = Collect(r[1 - 1], b) /\ After(start, s) = r[1]
  <2>1. 1 \in 1 .. Len(s)
    BY <1>1
  <2> QED BY <1>1, <1>2, <2>1 DEF Reading
<1>4. 1 - 1 = 0
  OBVIOUS
<1> QED BY <1>3, <1>4

LEMMA NibblesOf ==
  ASSUME NEW k \in Nat, NEW size \in Nat, NEW n, n = 2 * size, NEW u, u = Nibbles(k, size)
  PROVE  /\ n \in Nat /\ u \in Seq(Byte) /\ Len(u) = n
         /\ \A i \in 1 .. n : u[i] = Nibble(k, i) /\ u[i] \in Byte /\ ~ IsFlag(u[i])
<1>1. n \in Nat /\ u = [i \in 1 .. n |-> Nibble(k, i)]
  BY DEF Nibbles
<1>2. \A i \in 1 .. n : Nibble(k, i) \in Byte /\ ~ IsFlag(Nibble(k, i))
  <2>1. \A i \in 1 .. n : i \in Nat
    BY <1>1
  <2> QED BY <2>1 DEF Nibble, Byte, IsFlag
<1> HIDE DEF Byte
<1> QED BY <1>1, <1>2

(* Into an empty buffer they go one after the other, as many as fit; past  *)
(* a closed one they go unread.                                            *)
LEMMA NibblesRead ==
  ASSUME NEW k \in Nat, NEW size \in 1 .. FrameSize, NEW u, u = Nibbles(k, size),
         NEW start \in Receiver, NEW r, r = After(start, u)
  PROVE  /\ ~ start.buf.open => r = start
         /\ start.buf.open /\ start.buf.nibbles = <<>> =>
              r.buf.open /\ r.buf.nibbles = u /\ r.done = start.done
         /\ r \in Receiver
<1>1. size \in Nat /\ size <= 2048
  BY DEF FrameSize
<1>2. PICK n \in Nat : n = 2 * size /\ n <= 4096
  BY <1>1
<1>3. /\ u \in Seq(Byte) /\ Len(u) = n
      /\ \A i \in 1 .. n : u[i] = Nibble(k, i) /\ u[i] \in Byte /\ ~ IsFlag(u[i])
  <2>1. u \in Seq(Byte) /\ Len(u) = n
    BY ONLY <1>1, <1>2, k \in Nat, u = Nibbles(k, size), NibblesOf
  <2>2. u = [i \in 1 .. n |-> Nibble(k, i)]
    BY <1>2 DEF Nibbles
  <2>3. ASSUME NEW i \in 1 .. n
        PROVE  u[i] = Nibble(k, i) /\ u[i] \in Byte /\ ~ IsFlag(u[i])
    <3>1. PICK b : b = u[i]
      OBVIOUS
    <3>2. b = Nibble(k, i) /\ b \in Byte
      BY <2>1, <2>2, <3>1
    <3>3. ~ IsFlag(b)
      BY <3>2 DEF Nibble, IsFlag
    <3> QED BY <3>1, <3>2, <3>3
  <2> QED BY <2>1, <2>3
<1>4. PICK x : Reading(start, u, x)
  BY <1>3, AfterReads
<1>5. /\ x[0] = start /\ r = x[n]
      /\ \A i \in 1 .. n : x[i] = Collect(x[i - 1], u[i])
  BY <1>3, <1>4 DEF Reading
<1>6. ~ start.buf.open => r = start
  <2> SUFFICES ASSUME ~ start.buf.open PROVE r = start
    OBVIOUS
  <2> DEFINE G == {i \in 0 .. n : x[i] = start}
  <2>1. 0 \in G
    BY <1>5
  <2>2. ASSUME NEW i \in 1 .. n, i - 1 \in G PROVE i \in G
    <3>1. x[i] = Collect(start, u[i])
      BY <1>5, <2>2
    <3>2. Collect(start, u[i]) = start
      BY <1>3 DEF Collect
    <3> QED BY <3>1, <3>2
  <2>3. \A i \in 0 .. n : i \in G
    <3> HIDE DEF G
    <3> QED BY <2>1, <2>2, GoesOn
  <2> QED BY <1>5, <2>3
<1>7. ASSUME start.buf.open, start.buf.nibbles = <<>>
      PROVE  r.buf.open /\ r.buf.nibbles = u /\ r.done = start.done
  <2> DEFINE G == {i \in 0 .. n :
                     /\ x[i] \in Receiver /\ x[i].buf.open
                     /\ x[i].buf.nibbles \in Seq(Byte) /\ Len(x[i].buf.nibbles) = i
                     /\ \A j \in 1 .. i : x[i].buf.nibbles[j] = u[j]
                     /\ x[i].done = start.done}
  <2>1. 0 \in G
    <3>1. start.buf.nibbles \in Seq(Byte) /\ Len(start.buf.nibbles) = 0
      BY <1>7
    <3>2. 0 \in 0 .. n /\ \A j \in 1 .. 0 : start.buf.nibbles[j] = u[j]
      BY <1>2
    <3> QED BY <1>5, <1>7, <3>1, <3>2
  <2>2. ASSUME NEW i \in 1 .. n, i - 1 \in G PROVE i \in G
    <3>1. PICK a, b, c, f, g : /\ a = x[i - 1] /\ b = u[i] /\ c = x[i]
                               /\ f = a.buf.nibbles /\ g = c.buf.nibbles
      OBVIOUS
    <3>2. /\ a \in Receiver /\ a.buf.open /\ f \in Seq(Byte) /\ Len(f) = i - 1
          /\ \A j \in 1 .. i - 1 : f[j] = u[j]
          /\ a.done = start.done
      BY <2>2, <3>1
    <3>3. c = Collect(a, b) /\ b \in Byte /\ ~ IsFlag(b)
      BY <1>3, <1>5, <3>1
    <3>4. c \in Receiver /\ g \in Seq(Byte) /\ Reads(a, b, c, f, g)
      BY ONLY <3>1, <3>2, <3>3, CollectCases
    <3>5. Len(f) < 2 * FrameSize /\ ~ (Len(f) >= 2 * FrameSize)
      BY <1>2, <3>2 DEF FrameSize
    <3>6. /\ c.buf.open /\ c.done = start.done
          /\ Len(g) = i /\ g[i] = b /\ \A j \in 1 .. i - 1 : g[j] = u[j]
      BY <3>2, <3>3, <3>4, <3>5 DEF Reads
    <3>7. \A j \in 1 .. i : g[j] = u[j]
      <4>1. \A j \in 1 .. i : j \in 1 .. i - 1 \/ j = i
        OBVIOUS
      <4> QED BY <3>1, <3>6, <4>1
    <3>8. i \in 0 .. n
      BY <1>2
    <3> QED BY <3>1, <3>4, <3>6, <3>7, <3>8
  <2>3. \A i \in 0 .. n : i \in G
    <3> HIDE DEF G
    <3> QED BY <2>1, <2>2, GoesOn
  <2>4. n \in G
    BY <1>2, <2>3
  <2>5. PICK g : g = r.buf.nibbles
    OBVIOUS
  <2>6. g \in Seq(Byte) /\ Len(g) = n /\ \A j \in 1 .. n : g[j] = u[j]
    BY <1>5, <2>4, <2>5
  <2>7. g = u
    BY ONLY <1>3, <2>6, SeqEqual
  <2> QED BY <1>5, <2>4, <2>5, <2>7
<1>8. r \in Receiver
  BY <1>3, AfterTyped
<1> QED BY <1>6, <1>7, <1>8

LEMMA FrameRead ==
  ASSUME NEW k \in Nat, NEW size \in 1 .. FrameSize, NEW u, u = Encoded(k, size),
         NEW start \in Receiver, Len(start.buf.nibbles) # 1,
         NEW r, r = After(start, u), NEW f, f = Nibbles(k, size)
  PROVE  /\ Debt(r) = 0
         /\ Debt(start) = 1 => All(r) = All(start)
         /\ Debt(start) = 0 => f \in Frames /\ All(r) = Append(All(start), f)
         /\ Debt(start) \in {0, 1}
<1>1. size \in Nat \ {0} /\ size <= 2048
  BY DEF FrameSize
<1>2. PICK n \in Nat : n = 2 * size /\ n <= 4096 /\ n >= 2
  BY <1>1
<1>3. f \in Seq(Byte) /\ Len(f) = n
  BY ONLY <1>1, <1>2, k \in Nat, f = Nibbles(k, size), NibblesOf
<1>4. PICK a, b : a = Flag(k, 0) /\ b = Flag(k, n + 1)
  OBVIOUS
<1>5. a \in Byte /\ b \in Byte /\ IsFlag(a) /\ IsFlag(b)
  BY <1>2, <1>4 DEF Flag, Byte, IsFlag
<1>6. PICK s, t : s = <<a>> /\ t = <<b>>
  OBVIOUS
<1>7. /\ s \in Seq(Byte) /\ t \in Seq(Byte) /\ u = (s \o f) \o t /\ s \o f \in Seq(Byte)
  BY <1>2, <1>3, <1>4, <1>5, <1>6 DEF Encoded
<1>8. PICK x, y : x = Collect(start, a) /\ y = After(x, f)
  OBVIOUS
<1>9. r = Collect(y, b)
  <2>1. After(start, s) = x
    BY <1>6, <1>8, AfterOne
  <2>2. PICK v : v = s \o f
    OBVIOUS
  <2>3. After(start, v) = y
    BY ONLY <1>3, <1>7, <1>8, <2>1, <2>2, AfterJoined
  <2>4. After(start, v \o t) = After(y, t)
    BY ONLY <1>7, <2>2, <2>3, AfterJoined
  <2>5. r = After(y, t)
    BY <1>7, <2>2, <2>4
  <2> QED BY <1>6, <2>5, AfterOne
<1>10. PICK g, h : g = start.buf.nibbles /\ h = y.buf.nibbles
  OBVIOUS
<1>11. /\ x \in Receiver /\ g \in Seq(Byte) /\ Len(g) \in Nat /\ Len(g) # 1
       /\ Reads(start, a, x, g, x.buf.nibbles)
       /\ ~ start.buf.open => g = <<>>
  BY ONLY <1>5, <1>8, <1>10, start \in Receiver, Len(start.buf.nibbles) # 1, CollectCases
<1>12. /\ y \in Receiver
       /\ ~ x.buf.open => y = x
       /\ x.buf.open /\ x.buf.nibbles = <<>> =>
            y.buf.open /\ y.buf.nibbles = f /\ y.done = x.done
  BY ONLY <1>8, <1>11, k \in Nat, size \in 1 .. FrameSize, f = Nibbles(k, size), NibblesRead
<1>13. Reads(y, b, r, h, r.buf.nibbles)
  BY ONLY <1>5, <1>9, <1>10, <1>12, CollectCases
<1>14. Len(<<>>) = 0 /\ Length(<<>>) = 0
  BY DEF Length
<1>15. Length(g) > 0 <=> Len(g) >= 2
  BY <1>11, HalfOf
<1>16. CASE start.buf.open /\ Len(g) >= 2
  <2>1. ~ x.buf.open /\ x.buf.nibbles = <<>> /\ x.done = Append(start.done, g)
    BY <1>5, <1>11, <1>16 DEF Reads
  <2>2. y = x /\ h = <<>>
    BY <1>10, <1>12, <2>1
  <2>3. r.buf.nibbles = <<>> /\ r.done = Append(start.done, g)
    BY <1>5, <1>13, <1>14, <2>1, <2>2 DEF Reads
  <2>4. Debt(start) = 1 /\ All(start) = Append(start.done, g)
    BY <1>10, <1>15, <1>16 DEF Debt, All
  <2>5. Debt(r) = 0 /\ All(r) = r.done
    BY <1>14, <2>3 DEF Debt, All
  <2> QED BY <2>3, <2>4, <2>5
<1>17. CASE ~ (start.buf.open /\ Len(g) >= 2)
  <2>1. g = <<>> /\ ~ (Len(g) >= 2) /\ Len(g) < 2
    <3>1. CASE ~ start.buf.open
      BY <1>11, <1>14, <3>1
    <3>2. CASE start.buf.open
      <4>1. PICK m \in Nat : m = Len(g)
        BY <1>11
      <4>2. m = 0
        BY <1>11, <1>17, <3>2, <4>1
      <4>3. g \in Seq(Byte) /\ Len(g) = 0
        BY <1>11, <4>1, <4>2
      <4>4. g = <<>>
        BY ONLY <4>3, EmptySeq
      <4> QED BY <4>1, <4>2, <4>4
    <3> QED BY <3>1, <3>2
  <2>2. x.buf.open /\ x.buf.nibbles = <<>> /\ x.done = start.done
    BY <1>5, <1>11, <2>1 DEF Reads
  <2>3. y.buf.open /\ h = f /\ y.done = start.done
    BY <1>10, <1>12, <2>2
  <2>4. r.buf.nibbles = <<>> /\ f \in Frames /\ r.done = Append(start.done, f)
    BY <1>2, <1>3, <1>5, <1>13, <2>3 DEF Reads
  <2>5. Debt(start) = 0 /\ All(start) = start.done
    BY <1>10, <1>15, <2>1 DEF Debt, All
  <2>6. Debt(r) = 0 /\ All(r) = r.done
    BY <1>14, <2>4 DEF Debt, All
  <2> QED BY <2>4, <2>5, <2>6
<1> QED BY <1>16, <1>17

-----------------------------------------------------------------------------
(* What the steps keep. *)

(* Where the frames that were sent stay. *)
LEMMA SameFrames ==
  ASSUME sent' = sent
  PROVE  /\ \A frames : WholeIn(frames)' = WholeIn(frames)
         /\ \A p, buf : Shape(p, buf)' <=> Shape(p, buf)
         /\ \A p, r : Ordered(p, r)' <=> Ordered(p, r)
         /\ \A frames : Items(frames)' = Items(frames)
<1>1. \A k : LastAt(k)' = LastAt(k)
  BY DEF LastAt, Size
<1>2. \A frames : WholeIn(frames)' = WholeIn(frames)
  BY DEF WholeIn, IsWhole
<1>3. \A p, buf : Shape(p, buf)' <=> Shape(p, buf)
  BY <1>1 DEF Shape
<1>4. \A p, r : Ordered(p, r)' <=> Ordered(p, r)
  BY <1>1 DEF Ordered, Closed
<1>5. \A frames : Items(frames)' = Items(frames)
  <2>1. \A f : Item(f)' = Item(f)
    BY DEF Item
  <2> QED BY <2>1 DEF Items
<1> QED BY <1>2, <1>3, <1>4, <1>5

(* e has the frames of d, some of them without their last half byte. *)
Like(d, e) ==
  /\ e \in Seq(Frames) /\ Len(e) = Len(d)
  /\ \A i \in 1 .. Len(d) : e[i] = d[i] \/ e[i] = Copied(d[i])

LEMMA LikeSays ==
  ASSUME NEW d \in Seq(Frames), NEW e, Like(d, e)
  PROVE  /\ WholeIn(e) = WholeIn(d) /\ Items(e) = Items(d)
         /\ \A n : (\A i \in 1 .. Len(d) : Within(d[i], n)) => \A i \in 1 .. Len(d) : Within(e[i], n)
         /\ \A f : \A i \in 1 .. Len(d) : Apart(d[i], f) => Apart(e[i], f)
         /\ \A i, j \in 1 .. Len(d) : Apart(d[i], d[j]) => Apart(e[i], e[j])
<1>1. PICK n \in Nat : n = Len(d) /\ n = Len(e)
  BY DEF Like
<1>2. \A i \in 1 .. n : d[i] \in Frames
  <2>1. \A i \in 1 .. Len(d) : d[i] \in Frames
    BY ONLY d \in Seq(Frames)
  <2> QED BY <1>1, <2>1
<1>3. ASSUME NEW i \in 1 .. n
      PROVE  /\ Copied(e[i]) = Copied(d[i])
             /\ \A j \in 1 .. Len(e[i]) : j \in 1 .. Len(d[i]) /\ e[i][j] = d[i][j]
  <2>1. PICK f, c : f = d[i] /\ c = Copied(f)
    OBVIOUS
  <2>2. f \in Frames
    BY <1>2, <2>1
  <2>3. Copied(c) = c /\ \A j \in 1 .. Len(c) : c[j] = f[j] /\ j \in 1 .. Len(f)
    BY ONLY <2>1, <2>2, CopiedOf
  <2>4. e[i] = f \/ e[i] = c
    BY <1>1, <2>1 DEF Like
  <2> QED BY <2>1, <2>3, <2>4
<1>4. WholeIn(e) = WholeIn(d)
  BY <1>1, <1>3 DEF WholeIn, IsWhole
<1>5. Items(e) = Items(d)
  <2>1. \A i \in 1 .. n : Item(e[i]) = Item(d[i])
    BY <1>3 DEF Item
  <2>2. DOMAIN e = 1 .. n /\ DOMAIN d = 1 .. n
    BY <1>1 DEF Like
  <2> QED BY <2>1, <2>2 DEF Items
<1>6. \A m : (\A i \in 1 .. n : Within(d[i], m)) => \A i \in 1 .. n : Within(e[i], m)
  BY <1>3 DEF Within
<1>7. \A f : \A i \in 1 .. n : Apart(d[i], f) => Apart(e[i], f)
  BY <1>3 DEF Apart
<1>8. \A i, j \in 1 .. n : Apart(d[i], d[j]) => Apart(e[i], e[j])
  BY <1>3 DEF Apart
<1> QED BY <1>1, <1>4, <1>5, <1>6, <1>7, <1>8

LEMMA LikeOrdered ==
  ASSUME NEW p, NEW r, NEW w, r.done \in Seq(Frames), Like(r.done, w.done), w.buf = r.buf,
         Ordered(p, r)
  PROVE  Ordered(p, w)
<1>1. PICK d, e, f, n : d = r.done /\ e = w.done /\ f = r.buf.nibbles /\ n = Closed(p)
  OBVIOUS
<1>2. d \in Seq(Frames) /\ Like(d, e) /\ Len(e) = Len(d)
  BY <1>1 DEF Like
<1>3. /\ \A i \in 1 .. Len(d) : Within(d[i], n) /\ Apart(d[i], f)
      /\ \A i, j \in 1 .. Len(d) : i < j => Apart(d[i], d[j])
  BY <1>1 DEF Ordered
<1>4. /\ \A i \in 1 .. Len(d) : Within(e[i], n) /\ Apart(e[i], f)
      /\ \A i, j \in 1 .. Len(d) : i < j => Apart(e[i], e[j])
  BY <1>2, <1>3, LikeSays
<1> QED BY <1>1, <1>2, <1>4 DEF Ordered

(* The same bytes read behind frames that are alike leave frames alike. *)
LEMMA LikeRead ==
  ASSUME NEW r \in Receiver, NEW w \in Receiver, w.buf = r.buf, Like(r.done, w.done),
         NEW s \in Seq(Byte), NEW x, x = After(r, s), NEW y, y = After(w, s)
  PROVE  /\ x \in Receiver /\ y \in Receiver
         /\ y.buf = x.buf /\ Debt(y) = Debt(x)
         /\ All(x) \in Seq(Frames) /\ Like(All(x), All(y))
<1>1. x \in Receiver /\ y \in Receiver
  BY AfterTyped
<1>2. PICK base : base = [buf |-> r.buf, done |-> <<>>]
  OBVIOUS
<1>3. /\ base \in Receiver /\ base.buf = r.buf
      /\ \A d \in Seq(Frames) : d \o base.done = d
      /\ r.done \in Seq(Frames) /\ w.done \in Seq(Frames)
  <2>1. <<>> \in Seq(Frames)
    OBVIOUS
  <2>2. \A d \in Seq(Frames) : d \o <<>> = d
    OBVIOUS
  <2> QED BY <1>2, <2>1, <2>2 DEF Receiver
<1>4. PICK z : z = After(base, s)
  OBVIOUS
<1>5. z \in Receiver /\ z.done \in Seq(Frames)
  <2>1. z \in Receiver
    BY <1>3, <1>4, AfterTyped
  <2> QED BY <2>1 DEF Receiver
<1>6. x.buf = z.buf /\ x.done = r.done \o z.done
  <2>1. PICK d : d = r.done
    OBVIOUS
  <2>2. d \in Seq(Frames) /\ r.done = d \o base.done /\ r.buf = base.buf
    BY <1>3, <2>1
  <2>3. After(r, s).buf = After(base, s).buf /\ After(r, s).done = d \o After(base, s).done
    BY ONLY <1>3, <2>2, r \in Receiver, s \in Seq(Byte), AfterBehind
  <2> QED BY <1>4, <2>1, <2>3
<1>7. y.buf = z.buf /\ y.done = w.done \o z.done
  <2>1. PICK d : d = w.done
    OBVIOUS
  <2>2. d \in Seq(Frames) /\ w.done = d \o base.done /\ w.buf = base.buf
    BY <1>3, <2>1
  <2>3. After(w, s).buf = After(base, s).buf /\ After(w, s).done = d \o After(base, s).done
    BY ONLY <1>3, <2>2, w \in Receiver, s \in Seq(Byte), AfterBehind
  <2> QED BY <1>4, <2>1, <2>3
<1>8. Debt(y) = Debt(x)
  BY <1>6, <1>7 DEF Debt
<1>9. PICK more : /\ more \in Seq(Frames)
                  /\ All(x) = r.done \o more /\ All(y) = w.done \o more
  <2>1. PICK f : f = z.buf.nibbles
    OBVIOUS
  <2>2. CASE Length(f) > 0
    <3>1. f \in Frames
      BY <1>5, <2>1, <2>2, HalfOf DEF Receiver, Buffers, Frames, Fits
    <3>2. All(x) = Append(r.done \o z.done, f) /\ All(y) = Append(w.done \o z.done, f)
      BY <1>6, <1>7, <2>1, <2>2 DEF All
    <3>3. \A d \in Seq(Frames) : Append(d \o z.done, f) = d \o Append(z.done, f)
      <4>1. PICK v : v = z.done
        OBVIOUS
      <4>2. v \in Seq(Frames)
        BY <1>5, <4>1
      <4>3. \A d \in Seq(Frames) : Append(d \o v, f) = d \o Append(v, f)
        BY ONLY <3>1, <4>2
      <4> QED BY <4>1, <4>3
    <3>4. Append(z.done, f) \in Seq(Frames)
      BY <1>5, <3>1
    <3> QED BY <1>3, <3>2, <3>3, <3>4
  <2>3. CASE ~ (Length(f) > 0)
    BY <1>5, <1>6, <1>7, <2>1, <2>3 DEF All
  <2> QED BY <2>2, <2>3
<1>10. PICK d, e, a, b : d = r.done /\ e = w.done /\ a = All(x) /\ b = All(y)
  OBVIOUS
<1>11. /\ a \in Seq(Frames) /\ Len(a) = Len(d) + Len(more) /\ Len(d) \in Nat /\ Len(more) \in Nat
       /\ \A i \in 1 .. Len(d) + Len(more) : a[i] = IF i <= Len(d) THEN d[i] ELSE more[i - Len(d)]
  BY ONLY <1>3, <1>9, <1>10
<1>12. /\ b \in Seq(Frames) /\ Len(b) = Len(e) + Len(more)
       /\ \A i \in 1 .. Len(e) + Len(more) : b[i] = IF i <= Len(e) THEN e[i] ELSE more[i - Len(e)]
  BY ONLY <1>3, <1>9, <1>10
<1>13. Len(e) = Len(d) /\ \A i \in 1 .. Len(d) : e[i] = d[i] \/ e[i] = Copied(d[i])
  BY <1>10 DEF Like
<1>14. ASSUME NEW i \in 1 .. Len(a) PROVE b[i] = a[i] \/ b[i] = Copied(a[i])
  <2>1. CASE i <= Len(d)
    <3>1. i \in 1 .. Len(d) /\ a[i] = d[i] /\ b[i] = e[i]
      BY <1>11, <1>12, <1>13, <2>1
    <3> QED BY <1>13, <3>1
  <2>2. CASE ~ (i <= Len(d))
    BY <1>11, <1>12, <1>13, <2>2
  <2> QED BY <2>1, <2>2
<1>15. Like(a, b)
  BY <1>11, <1>12, <1>13, <1>14 DEF Like
<1> QED BY <1>1, <1>6, <1>7, <1>8, <1>10, <1>11, <1>15

LEMMA LinkSays ==
  ASSUME LinkInv
  PROVE  /\ sent \in Seq(Sizes) /\ tcp \in Seq(Byte) /\ rblk \in Seq(Seq(Byte) \ {<<>>})
         /\ rblk \in Seq(Seq(Byte)) /\ noise \in Nat /\ Len(sent) \in Nat
         /\ Whole \in Receiver /\ Rest \in Seq(Byte) /\ Final \in Receiver
         /\ Whole.buf = rf_buf /\ Whole.done = received \o rf
<1>1. /\ sent \in Seq(Sizes) /\ tcp \in Seq(Byte) /\ rblk \in Seq(Seq(Byte) \ {<<>>})
      /\ noise \in Nat
  BY DEF LinkInv, FramingInv, TypeOK
<1>2. rblk \in Seq(Seq(Byte)) /\ Len(sent) \in Nat
  BY <1>1
<1>3. Whole \in Receiver /\ Whole.buf = rf_buf /\ Whole.done = received \o rf
  BY DEF LinkInv, Whole
<1>4. Rest \in Seq(Byte)
  BY <1>1, <1>2, FlattenTyped DEF Rest
<1>5. Final \in Receiver
  BY <1>3, <1>4, AfterTyped DEF Final
<1> QED BY <1>1, <1>2, <1>3, <1>4, <1>5

(* The receiver that has read everything. *)
LEMMA FinalSays ==
  ASSUME LinkInv
  PROVE  /\ End \in Place /\ End.at = LastAt(End.frame) /\ ~ (End.at < LastAt(End.frame))
         /\ Shape(End, Final.buf) /\ Len(Final.buf.nibbles) # 1
         /\ InLine(All(Final)) /\ All(Final) \in Seq(Frames)
<1>1. PICK p \in Place : Stream(p) /\ Shape(p, rf_buf) /\ Ordered(p, Whole)
  BY DEF LinkInv
<1>2. PICK s, r, w, e : s = Rest /\ r = Final /\ w = Whole /\ e = End
  OBVIOUS
<1>3. /\ sent \in Seq(Sizes) /\ tcp \in Seq(Byte) /\ rblk \in Seq(Seq(Byte) \ {<<>>})
      /\ Len(sent) \in Nat /\ w \in Receiver /\ s \in Seq(Byte) /\ r \in Receiver
      /\ w.buf = rf_buf
  BY <1>2, LinkSays
<1>4. Run(p, s, e)
  BY <1>1, <1>2, <1>3, RunOfRest
<1>5. Shape(p, w.buf) /\ Ordered(p, w) /\ r = After(w, s)
  BY <1>1, <1>2, <1>3 DEF Final
<1>6. e \in Place /\ Shape(e, r.buf) /\ Ordered(e, r)
  BY ONLY <1>1, <1>3, <1>4, <1>5, RunKept
<1>7. e.frame = Len(sent) /\ e.at = LastAt(e.frame) /\ ~ (e.at < LastAt(e.frame))
  <2>1. e.frame = Len(sent) /\ e.at = LastAt(e.frame)
    BY <1>2 DEF End
  <2>2. LastAt(e.frame) \in Nat
    BY <1>3, <2>1, SizesOfSent
  <2> QED BY <2>1, <2>2
<1>8. PICK d, f, n : d = r.done /\ f = r.buf.nibbles /\ n = Len(sent)
  OBVIOUS
<1>9. /\ d \in Seq(Frames) /\ f \in Seq(Byte) /\ Len(f) \in Nat
      /\ Length(f) > 0 => f \in Frames
  BY <1>3, <1>8, HalfOf DEF Receiver, Buffers, Frames, Fits
<1>10. /\ Within(f, n) /\ Len(f) # 1
       /\ \A i \in 1 .. Len(d) : Within(d[i], n) /\ Apart(d[i], f)
       /\ \A i, j \in 1 .. Len(d) : i < j => Apart(d[i], d[j])
  BY <1>6, <1>7, <1>8 DEF Shape, Ordered, Closed
<1>11. InLine(All(r)) /\ All(r) \in Seq(Frames)
  <2>1. CASE ~ (Length(f) > 0)
    <3>1. All(r) = d
      BY <1>8, <2>1 DEF All
    <3> QED BY <1>8, <1>9, <1>10, <3>1 DEF InLine
  <2>2. CASE Length(f) > 0
    <3>1. PICK a, m : a = All(r) /\ m = Len(d)
      OBVIOUS
    <3>2. a = Append(d, f) /\ f \in Frames
      BY <1>8, <1>9, <2>2, <3>1 DEF All
    <3>3. /\ a \in Seq(Frames) /\ m \in Nat /\ Len(a) = m + 1 /\ a[m + 1] = f
          /\ \A i \in 1 .. m : a[i] = d[i]
      BY ONLY <1>9, <3>1, <3>2
    <3>4. \A i \in 1 .. m + 1 : i \in 1 .. m \/ i = m + 1
      BY <3>3
    <3>5. \A i \in 1 .. m + 1 : Within(a[i], n)
      BY <1>10, <3>1, <3>3, <3>4
    <3>6. \A i, j \in 1 .. m + 1 : i < j => Apart(a[i], a[j])
      <4> SUFFICES ASSUME NEW i \in 1 .. m + 1, NEW j \in 1 .. m + 1, i < j
                   PROVE  Apart(a[i], a[j])
        OBVIOUS
      <4>1. i \in 1 .. m
        BY <3>3
      <4> QED BY <1>10, <3>1, <3>3, <3>4, <4>1
    <3> QED BY <1>8, <3>1, <3>3, <3>5, <3>6 DEF InLine
  <2> QED BY <2>1, <2>2
<1> QED BY <1>2, <1>6, <1>7, <1>8, <1>10, <1>11

LEMMA LinkInit == Init => LinkInv
<1> SUFFICES ASSUME Init PROVE LinkInv
  OBVIOUS
<1>1. /\ sent = <<>> /\ tcp = <<>> /\ rblk = <<>> /\ rf = <<>> /\ received = <<>>
      /\ rf_buf = NoFrame /\ noise = 0
  BY DEF Init
<1>2. FramingInv
  BY InitHolds
<1>3. Whole = [buf |-> NoFrame, done |-> <<>>]
  BY <1>1 DEF Whole
<1>4. NoFrame.nibbles = <<>> /\ ~ NoFrame.open /\ Len(<<>>) = 0 /\ Length(<<>>) = 0
  BY DEF NoFrame, Length
<1>5. Whole \in Receiver
  <2>1. NoFrame \in Buffers
    <3>1. <<>> \in Seq(Byte)
      OBVIOUS
    <3> QED BY <1>4, <3>1 DEF Buffers, NoFrame, Fits, FrameSize
  <2>2. <<>> \in Seq(Frames)
    OBVIOUS
  <2> QED BY <1>3, <2>1, <2>2 DEF Receiver
<1>6. PICK p \in Place : Stream(p) /\ FewHits(p)
  BY <1>2 DEF FramingInv
<1>7. p.frame = 0 /\ p.at = LastAt(0) /\ ~ (p.at < LastAt(0))
  <2>1. p.frame = 0
    BY <1>1 DEF Place
  <2>2. p.at = LastAt(0) /\ p.at \in Nat
    BY <2>1 DEF Place
  <2> QED BY <2>1, <2>2
<1>8. Shape(p, rf_buf) /\ Ordered(p, Whole)
  <2>1. Within(<<>>, p.frame)
    BY <1>4 DEF Within
  <2>2. 0 <= 2 * FrameSize
    BY DEF FrameSize
  <2>3. Shape(p, rf_buf)
    BY <1>1, <1>4, <2>1, <2>2 DEF Shape
  <2>4. Ordered(p, Whole)
    BY <1>3, <1>4 DEF Ordered
  <2> QED BY <2>3, <2>4
<1>9. Final = Whole
  <2>1. Rest = <<>>
    BY <1>1, FlattenNone DEF Rest
  <2> QED BY <2>1, AfterNone DEF Final
<1>10. Debt(Final) = 0 /\ Len(sent) = 0
  BY <1>1, <1>3, <1>4, <1>9 DEF Debt
<1>11. Cardinality(WholeIn(All(Final))) \in Nat
  <2>1. sent \in Seq(Sizes)
    BY <1>1
  <2> QED BY <2>1, WholeFinite
<1>12. Len(sent) + Debt(Final) <= Cardinality(WholeIn(All(Final))) + noise
  BY <1>1, <1>10, <1>11
<1> QED BY <1>2, <1>5, <1>6, <1>8, <1>12 DEF LinkInv

(* A frame more is sent: what was received is what it was. *)
LEMMA MoreSent ==
  ASSUME sent \in Seq(Sizes), NEW size \in Sizes, sent' = Append(sent, size),
         NEW k \in Nat, k = Len(sent) + 1, NEW frames, InLine(frames)
  PROVE  /\ WholeIn(frames) \subseteq WholeIn(frames)'
         /\ WholeIn(frames) \subseteq 1 .. Len(sent)
         /\ Items(frames)' = Items(frames)
<1>1. PICK n \in Nat : n = Len(sent)
  OBVIOUS
<1>2. /\ Len(sent') = n + 1 /\ \A i \in 1 .. n : sent'[i] = sent[i] /\ i \in 1 .. n + 1
  BY <1>1
<1>3. WholeIn(frames) \subseteq WholeIn(frames)'
  BY <1>1, <1>2 DEF WholeIn, IsWhole
<1>4. ASSUME NEW i \in 1 .. Len(frames) PROVE Item(frames[i])' = Item(frames[i])
  <2>1. PICK f, c, S : f = frames[i] /\ c = Copied(f) /\ S = FramesOf(c)
    OBVIOUS
  <2>2. f \in Frames /\ Within(f, n)
    BY <1>1, <2>1 DEF InLine
  <2>3. /\ c \in Seq(Byte) /\ Len(c) \in Nat /\ Len(c) >= 2
        /\ \A j \in 1 .. Len(c) : c[j] = f[j] /\ j \in 1 .. Len(f)
    BY ONLY <2>1, <2>2, CopiedOf
  <2>4. S \subseteq 1 .. n /\ S # {}
    <3>1. \A j \in 1 .. Len(c) : c[j].frame \in 1 .. n
      BY <1>1, <2>2, <2>3 DEF Within
    <3>2. 1 \in 1 .. Len(c)
      BY <2>3
    <3> QED BY <2>1, <3>1, <3>2 DEF FramesOf
  <2>5. PICK low, high : low = Min(S) /\ high = Max(S)
    OBVIOUS
  <2>6. low \in 1 .. n
    BY <2>4, <2>5, LeastAndLargest
  <2>7. sent'[low] = sent[low]
    BY <1>2, <2>6
  <2>8. {c[j].frame : j \in DOMAIN c} = S
    <3>1. DOMAIN c = 1 .. Len(c)
      BY <2>3
    <3> QED BY <2>1, <3>1 DEF FramesOf
  <2> HIDE DEF Min, Max
  <2>9. Item(f) = [first |-> low, last |-> high, sound |-> c = Nibbles(low, sent[low])]
    BY <2>1, <2>5, <2>8 DEF Item
  <2>10. Item(f)' = [first |-> low, last |-> high, sound |-> c = Nibbles(low, sent'[low])]
    BY <2>1, <2>5, <2>8 DEF Item
  <2>11. Item(f)' = Item(f)
    BY <2>7, <2>9, <2>10
  <2> QED BY <2>1, <2>11
<1>5. Items(frames)' = Items(frames)
  <2>1. DOMAIN frames = 1 .. Len(frames)
    BY DEF InLine
  <2> QED BY <1>4, <2>1 DEF Items
<1>6. WholeIn(frames) \subseteq 1 .. Len(sent)
  BY DEF WholeIn
<1> QED BY <1>3, <1>5, <1>6

(* And the frame, if all of it arrives, is sound. *)
LEMMA SentIsWhole ==
  ASSUME sent \in Seq(Sizes), NEW size \in Sizes, sent' = Append(sent, size),
         NEW k \in Nat, k = Len(sent) + 1, NEW f \in Frames, f = Nibbles(k, size)
  PROVE  /\ \A frames \in Seq(Frames) :
              /\ k \in WholeIn(Append(frames, f))'
              /\ WholeIn(frames)' \subseteq WholeIn(Append(frames, f))'
         /\ Item(f)' = Link!Sound(k)
<1>1. size \in Nat \ {0}
  BY LongestFrame
<1>2. sent'[k] = size /\ k \in 1 .. Len(sent') /\ Len(sent) \in Nat
  OBVIOUS
<1>3. PICK c, n : c = Copied(f) /\ n = 2 * size
  OBVIOUS
<1>4. n \in Nat /\ n >= 2 /\ f \in Seq(Byte) /\ Len(f) = n /\ f = [i \in 1 .. n |-> Nibble(k, i)]
  <2>1. n \in Nat /\ f \in Seq(Byte) /\ Len(f) = n
    BY ONLY <1>1, <1>3, k \in Nat, f = Nibbles(k, size), NibblesOf
  <2> QED BY <1>1, <1>3, <2>1 DEF Nibbles
<1>5. c = f
  <2>1. Length(f) = size
    <3>1. n \div 2 = size
      BY <1>1, <1>3
    <3> QED BY <1>4, <3>1 DEF Length
  <2>2. c = SubSeq(f, 1, n)
    BY <1>3, <2>1 DEF Copied
  <2> QED BY ONLY <1>4, <2>2
<1>6. IsWhole(f, k)'
  BY <1>2, <1>3, <1>5 DEF IsWhole
<1>7. ASSUME NEW frames \in Seq(Frames)
      PROVE  /\ k \in WholeIn(Append(frames, f))'
             /\ WholeIn(frames)' \subseteq WholeIn(Append(frames, f))'
  <2>1. PICK a, m : a = Append(frames, f) /\ m = Len(frames)
    OBVIOUS
  <2>2. /\ m \in Nat /\ Len(a) = m + 1 /\ a[m + 1] = f /\ m + 1 \in 1 .. m + 1
        /\ \A i \in 1 .. m : a[i] = frames[i] /\ i \in 1 .. m + 1
    BY <2>1
  <2>3. k \in WholeIn(a)'
    BY <1>2, <1>6, <2>2 DEF WholeIn
  <2>4. WholeIn(frames)' \subseteq WholeIn(a)'
    BY <2>1, <2>2 DEF WholeIn, IsWhole
  <2> QED BY <2>1, <2>3, <2>4
<1>8. Item(f)' = Link!Sound(k)
  <2>1. PICK S : S = {c[i].frame : i \in DOMAIN c}
    OBVIOUS
  <2>2. S = {k}
    <3>1. \A i \in 1 .. n : f[i].frame = k
      BY <1>4 DEF Nibble
    <3>2. DOMAIN f = 1 .. n /\ 1 \in 1 .. n
      BY <1>4
    <3> QED BY <1>5, <2>1, <3>1, <3>2
  <2>3. Min(S) = k /\ Max(S) = k
    <3>1. S \subseteq 1 .. k /\ S # {}
      BY <1>2, <2>2
    <3>2. Min(S) \in S /\ Max(S) \in S
      BY ONLY <3>1, k \in Nat, LeastAndLargest
    <3> QED BY <2>2, <3>2
  <2>4. (c = Nibbles(k, sent'[k])) = TRUE
    BY <1>2, <1>5
  <2> HIDE DEF Min, Max
  <2>5. Item(f)' = [first |-> k, last |-> k, sound |-> c = Nibbles(k, sent'[k])]
    BY <1>3, <2>1, <2>3 DEF Item
  <2> QED BY <2>4, <2>5 DEF Link!Sound
<1> QED BY <1>7, <1>8

LEMMA FewNumbers ==
  ASSUME NEW n \in Nat, NEW S, S \subseteq 1 .. n, NEW T, T \subseteq S
  PROVE  /\ IsFiniteSet(S) /\ Cardinality(S) \in Nat
         /\ IsFiniteSet(T) /\ Cardinality(T) \in Nat /\ Cardinality(T) <= Cardinality(S)
<1>1. IsFiniteSet(1 .. n)
  BY FS_Interval
<1>2. IsFiniteSet(S)
  BY <1>1, FS_Subset
<1>3. IsFiniteSet(T) /\ Cardinality(T) <= Cardinality(S)
  BY <1>2, FS_Subset
<1> QED BY <1>2, <1>3, FS_CardinalityType

LEMMA FrameFits == \A size \in Sizes : size \in 1 .. FrameSize /\ size \in Nat
<1> TAKE size \in Sizes
<1>1. size \in Nat /\ size > 0
  BY LongestFrame
<1>2. size <= FrameSize
  BY ONLY FitAssumption, size \in Sizes
<1>3. PICK n : n = size
  OBVIOUS
<1>4. n \in Nat /\ n > 0 /\ n <= 2048
  BY <1>1, <1>2, <1>3 DEF FrameSize
<1>5. n \in 1 .. 2048
  BY ONLY <1>4
<1> QED BY <1>1, <1>3, <1>5 DEF FrameSize

(* send_frame: what is there and was sent is read as before, and then the  *)
(* frame, unless that is lost to the one before it.                        *)
LEMMA SentIsRead ==
  ASSUME LinkInv, NEW size \in Sizes, SendFrame(size), NEW k, k = Len(sent) + 1,
         NEW start \in Receiver, start.buf = rf_buf, NEW r, r = After(start, Rest),
         r.buf = Final.buf, NEW next, next = After(start, Rest'), NEW f, f = Nibbles(k, size)
  PROVE  /\ k \in Nat /\ Debt(next) = 0 /\ f \in Seq(Byte)
         /\ Debt(r) = 1 => All(next) = All(r)
         /\ Debt(r) = 0 => f \in Frames /\ All(next) = Append(All(r), f)
         /\ Debt(r) \in {0, 1}
<1>1. /\ sent \in Seq(Sizes) /\ tcp \in Seq(Byte) /\ rblk \in Seq(Seq(Byte))
      /\ Len(sent) \in Nat /\ Rest \in Seq(Byte)
  BY LinkSays
<1>2. /\ sent' = Append(sent, size) /\ rblk' = rblk /\ k \in Nat /\ Len(sent') = k
      /\ tcp' = tcp \o Encoded(Len(sent'), size)
  BY <1>1 DEF SendFrame
<1>3. PICK u, s : u = Encoded(k, size) /\ s = FlattenSeq(rblk)
  OBVIOUS
<1>4. size \in 1 .. FrameSize /\ size \in Nat
  BY ONLY size \in Sizes, FrameFits
<1>5. u \in Seq(Byte) /\ s \in Seq(Byte)
  BY <1>1, <1>2, <1>3, <1>4, EncodedBytes, FlattenTyped
<1>6. Rest' = Rest \o u
  <2>1. PICK t : t = tcp
    OBVIOUS
  <2>2. s \o (t \o u) = (s \o t) \o u
    <3>1. t \in Seq(Byte)
      BY <1>1, <2>1
    <3> QED BY ONLY <1>5, <3>1, ConcatAssociative
  <2>3. Rest = s \o t
    BY <1>3, <2>1 DEF Rest
  <2>4. Rest' = s \o (t \o u)
    BY <1>2, <1>3, <2>1 DEF Rest
  <2> QED BY <2>2, <2>3, <2>4
<1>7. next = After(r, u)
  <2>1. PICK v : v = Rest
    OBVIOUS
  <2>2. next = After(start, v \o u) /\ r = After(start, v) /\ v \in Seq(Byte)
    BY <1>1, <1>6, <2>1
  <2> QED BY ONLY <1>5, <2>2, AfterJoined
<1>8. r \in Receiver
  BY <1>1, AfterTyped
<1>9. Len(r.buf.nibbles) # 1
  BY FinalSays
<1>10. f \in Seq(Byte)
  BY ONLY <1>2, <1>4, f = Nibbles(k, size), NibblesOf
<1>11. /\ Debt(next) = 0
       /\ Debt(r) = 1 => All(next) = All(r)
       /\ Debt(r) = 0 => f \in Frames /\ All(next) = Append(All(r), f)
       /\ Debt(r) \in {0, 1}
  BY ONLY <1>2, <1>3, <1>4, <1>7, <1>8, <1>9, f = Nibbles(k, size), FrameRead
<1> QED BY <1>2, <1>10, <1>11

LEMMA SendFrameLinks ==
  ASSUME LinkInv, NEW size \in Sizes, SendFrame(size)
  PROVE  LinkInv'
<1>1. /\ sent \in Seq(Sizes) /\ tcp \in Seq(Byte) /\ rblk \in Seq(Seq(Byte) \ {<<>>})
      /\ Len(sent) \in Nat /\ noise \in Nat /\ Whole \in Receiver /\ Whole.buf = rf_buf
  BY LinkSays
<1>2. /\ sent' = Append(sent, size) /\ rblk' = rblk /\ rf_buf' = rf_buf /\ rf' = rf
      /\ received' = received /\ noise' = noise
      /\ tcp' = tcp \o Encoded(Len(sent'), size)
  BY DEF SendFrame
<1>3. PICK k \in Nat : k = Len(sent) + 1 /\ Len(sent') = k
  BY <1>1, <1>2
<1>4. FramingInv'
  BY SendFrameKeeps DEF LinkInv
<1>5. PICK p \in Place : Stream(p) /\ Shape(p, rf_buf) /\ Ordered(p, Whole)
  BY DEF LinkInv
<1>6. Whole' = Whole
  BY <1>2 DEF Whole
<1>7. p \in Place' /\ Stream(p)'
  <2>1. PICK u : u = Encoded(k, size)
    OBVIOUS
  <2>2. tcp' = tcp \o u
    BY <1>2, <1>3, <2>1
  <2>3. Stream(p)'
    BY <1>1, <1>2, <1>3, <1>5, <2>1, <2>2, SentInStream
  <2>4. Place \subseteq Place'
    BY <1>1, <1>2, SentKeeps
  <2> QED BY <2>3, <2>4
<1>8. Shape(p, rf_buf)' /\ Ordered(p, Whole)'
  <2>1. LastAt(p.frame)' = LastAt(p.frame)
    BY <1>1, <1>2, SentKeeps DEF Place
  <2>2. Closed(p)' = Closed(p)
    BY <2>1 DEF Closed
  <2>3. Shape(p, rf_buf)'
    BY <1>2, <1>5, <2>1 DEF Shape
  <2>4. Ordered(p, Whole)'
    BY <1>5, <1>6, <2>2 DEF Ordered
  <2> QED BY <2>3, <2>4
<1>9. PICK r, next, f, n : r = Final /\ next = Final' /\ f = Nibbles(k, size) /\ n = Len(sent)
  OBVIOUS
<1>10. /\ Debt(next) = 0
       /\ Debt(r) = 1 => All(next) = All(r)
       /\ Debt(r) = 0 => f \in Frames /\ All(next) = Append(All(r), f)
       /\ Debt(r) \in {0, 1}
  <2>1. PICK start : start = Whole
    OBVIOUS
  <2>2. start \in Receiver /\ start.buf = rf_buf /\ r = After(start, Rest) /\ r.buf = Final.buf
    BY <1>1, <1>9, <2>1 DEF Final
  <2>3. next = After(start, Rest')
    BY <1>6, <1>9, <2>1 DEF Final
  <2>4. k = Len(sent) + 1 /\ f = Nibbles(k, size)
    BY <1>3, <1>9
  <2> HIDE DEF Final
  <2> QED BY <2>2, <2>3, <2>4, SentIsRead
<1>11. PICK A, B : A = WholeIn(All(r)) /\ B = WholeIn(All(next))'
  OBVIOUS
<1>12. InLine(All(r)) /\ All(r) \in Seq(Frames)
  BY <1>9, FinalSays
<1>13. /\ A \subseteq WholeIn(All(r))' /\ A \subseteq 1 .. n
  BY <1>1, <1>2, <1>3, <1>9, <1>11, <1>12, MoreSent
<1>14. B \subseteq 1 .. k
  BY <1>3, <1>11 DEF WholeIn
<1>15. n + Debt(r) <= Cardinality(A) + noise
  BY <1>9, <1>11 DEF LinkInv
<1>16. k <= Cardinality(B) + noise
  <2>1. CASE Debt(r) = 1
    <3>1. A \subseteq B
      BY <1>10, <1>11, <1>13, <2>1
    <3>2. Cardinality(A) <= Cardinality(B) /\ Cardinality(A) \in Nat /\ Cardinality(B) \in Nat
      BY <1>14, <3>1, FewNumbers
    <3> QED BY <1>1, <1>3, <1>9, <1>15, <2>1, <3>2
  <2>2. CASE Debt(r) = 0
    <3>1. f \in Frames /\ All(next) = Append(All(r), f)
      BY <1>10, <2>2
    <3>2. k \in B /\ A \subseteq B
      <4>1. k \in WholeIn(Append(All(r), f))' /\ WholeIn(All(r))' \subseteq WholeIn(Append(All(r), f))'
        <5>1. PICK a : a = All(r)
          OBVIOUS
        <5>2. k \in WholeIn(Append(a, f))' /\ WholeIn(a)' \subseteq WholeIn(Append(a, f))'
          BY <1>1, <1>2, <1>3, <1>9, <1>12, <3>1, <5>1, SentIsWhole
        <5> QED BY <5>1, <5>2
      <4> QED BY <1>11, <1>13, <3>1, <4>1
    <3>3. k \notin A
      BY <1>1, <1>3, <1>9, <1>13
    <3>4. A \cup {k} \subseteq B /\ A \subseteq A \cup {k}
      BY <3>2
    <3>5. /\ Cardinality(A \cup {k}) <= Cardinality(B) /\ Cardinality(B) \in Nat
          /\ Cardinality(A) \in Nat /\ IsFiniteSet(A)
      <4>1. Cardinality(A \cup {k}) <= Cardinality(B) /\ Cardinality(B) \in Nat
        BY ONLY <1>14, <3>4, k \in Nat, FewNumbers
      <4>2. Cardinality(A) \in Nat /\ IsFiniteSet(A)
        BY ONLY <1>14, <3>2, k \in Nat, FewNumbers
      <4> QED BY <4>1, <4>2
    <3>6. Cardinality(A \cup {k}) = Cardinality(A) + 1
      BY ONLY <3>3, <3>5, FS_AddElement
    <3> QED BY <1>1, <1>3, <1>9, <1>15, <2>2, <3>5, <3>6
  <2> QED BY <1>10, <2>1, <2>2
<1>17. (Len(sent) + Debt(Final) <= Cardinality(WholeIn(All(Final))) + noise)'
  <2>1. PICK a : a = All(next)
    OBVIOUS
  <2>2. All(Final)' = a /\ Debt(Final)' = 0
    BY <1>9, <1>10, <2>1 DEF All, Debt
  <2>3. WholeIn(All(Final))' = B
    BY <1>11, <2>1, <2>2 DEF WholeIn, IsWhole
  <2> QED BY <1>2, <1>3, <1>16, <2>2, <2>3
<1>18. Whole' \in Receiver
  BY <1>1, <1>6
<1> QED BY <1>4, <1>7, <1>8, <1>17, <1>18 DEF LinkInv

NoisedJoin(t, a, c, i) ==
  /\ i \in 1 .. Len(t) /\ Noised(a, i) \in Seq(Byte)
  /\ Noised(a, i) \o c = Noised(t, i)

(* The noise in the first bytes of the connection is noise in it. *)
LEMMA NoisedBehind ==
  ASSUME NEW t \in Seq(Byte), NEW m \in 1 .. Len(t), NEW a, a = SubSeq(t, 1, m),
         NEW from, from = m + 1, NEW last, last = Len(t), NEW c, c = SubSeq(t, from, last)
  PROVE  /\ a \in Seq(Byte) /\ Len(a) = m /\ c \in Seq(Byte) /\ a \o c = t
         /\ \A i \in 1 .. m : NoisedJoin(t, a, c, i)
<1>1. PICK n \in Nat : n = Len(t)
  OBVIOUS
<1>2. /\ m \in 1 .. n /\ \A i \in 1 .. m : i \in 1 .. n
      /\ n - m \in Nat /\ m + (n - m) = n
  BY <1>1
<1>3. /\ a \in Seq(Byte) /\ Len(a) = m /\ \A i \in 1 .. m : a[i] = t[i]
  BY <1>1, <1>2
<1>4. /\ c \in Seq(Byte) /\ Len(c) = n - m /\ \A i \in 1 .. n - m : c[i] = t[m + i]
  <2>1. \A i \in 1 .. Len(t) : t[i] \in Byte
    OBVIOUS
  <2>2. c = [i \in 1 .. Len(t) - m |-> t[m + i]]
    BY <1>1, <1>2
  <2> QED BY <1>1, <1>2, <2>1, <2>2
<1>5. ASSUME NEW b \in Seq(Byte), Len(b) = m, NEW u \in Seq(Byte), Len(u) = n,
             \A i \in 1 .. m : b[i] = u[i], \A i \in 1 .. n : i > m => u[i] = t[i]
      PROVE  b \o c = u
  <2>1. PICK v : v = b \o c
    OBVIOUS
  <2>2. /\ v \in Seq(Byte) /\ Len(v) = Len(b) + Len(c)
        /\ \A i \in 1 .. Len(b) + Len(c) : v[i] = IF i <= Len(b) THEN b[i] ELSE c[i - Len(b)]
    <3>1. b \in Seq(Byte) /\ c \in Seq(Byte)
      BY <1>4
    <3> QED BY ONLY <2>1, <3>1, Joined
  <2>3. Len(v) = n /\ \A i \in 1 .. n : v[i] = IF i <= m THEN b[i] ELSE c[i - m]
    BY <1>2, <1>4, <1>5, <2>2
  <2>4. ASSUME NEW i \in 1 .. n PROVE v[i] = u[i]
    <3>1. CASE i <= m
      <4>1. i \in 1 .. m
        BY <3>1
      <4> QED BY <1>5, <2>3, <3>1, <4>1
    <3>2. CASE i > m
      <4>1. i - m \in 1 .. n - m /\ m + (i - m) = i /\ ~ (i <= m)
        BY <1>2, <3>2
      <4>2. v[i] = c[i - m] /\ c[i - m] = t[m + (i - m)]
        BY <1>4, <2>3, <4>1
      <4> QED BY <1>5, <3>2, <4>1, <4>2
    <3> QED BY <1>2, <3>1, <3>2
  <2>5. v = u
    BY ONLY <1>5, <2>2, <2>3, <2>4, SeqEqual
  <2> QED BY <2>1, <2>5
<1>6. a \o c = t
  BY <1>1, <1>3, <1>5
<1>7. ASSUME NEW i \in 1 .. m, NEW b, b = Noised(a, i), NEW u, u = Noised(t, i)
      PROVE  i \in 1 .. Len(t) /\ b \in Seq(Byte) /\ b \o c = u
  <2>2. i \in 1 .. Len(a) /\ i \in 1 .. Len(t)
    BY <1>1, <1>2, <1>3
  <2>3. b \in Seq(Byte) /\ Len(b) = Len(a)
    BY ONLY <1>3, <1>7, <2>2, NoisedBytes
  <2>4. u \in Seq(Byte) /\ Len(u) = Len(t)
    BY ONLY t \in Seq(Byte), <1>7, <2>2, NoisedBytes
  <2>5. \A j \in 1 .. Len(t) : j # i => u[j] = t[j]
    BY ONLY t \in Seq(Byte), <1>7, <2>2, NoisedOne
  <2>6. \A j \in 1 .. Len(a) : j # i => b[j] = a[j]
    BY ONLY <1>3, <1>7, <2>2, NoisedOne
  <2>7. b[i] = u[i]
    <3>1. a \in [1 .. m -> Byte] /\ t \in [1 .. n -> Byte]
      <4>1. \A x \in Seq(Byte) : x \in [1 .. Len(x) -> Byte]
        OBVIOUS
      <4> QED BY ONLY <1>1, <1>3, <4>1, t \in Seq(Byte)
    <3>2. b[i] = [a[i] EXCEPT !.hit = TRUE] /\ u[i] = [t[i] EXCEPT !.hit = TRUE]
      BY <1>2, <1>7, <3>1 DEF Noised
    <3> QED BY <1>3, <3>2
  <2>8. \A j \in 1 .. m : b[j] = u[j]
    BY <1>1, <1>2, <1>3, <2>5, <2>6, <2>7
  <2>9. \A j \in 1 .. n : j > m => u[j] = t[j]
    BY <1>1, <2>5
  <2>10. Len(b) = m /\ Len(u) = n
    BY <1>1, <1>3, <2>3, <2>4
  <2>11. b \o c = u
    BY ONLY <1>5, <2>3, <2>4, <2>8, <2>9, <2>10
  <2> QED BY <2>2, <2>3, <2>11
<1>8. \A i \in 1 .. m : NoisedJoin(t, a, c, i)
  BY <1>7 DEF NoisedJoin
<1> QED BY <1>3, <1>4, <1>6, <1>8

(* socket_recv: what is read of what is there is what it was, or costs at  *)
(* most one frame more.                                                    *)
LEMMA NoiseRead ==
  ASSUME LinkInv, NEW n \in BlockSizes, SocketRecv(Min({n, Len(tcp)})),
         NEW start \in Receiver, start.buf = rf_buf,
         NEW r, r = After(start, Rest), NEW next, next = After(start, Rest')
  PROVE  /\ r \in Receiver /\ next \in Receiver
         /\ (noise' = noise /\ next = r) \/ (noise' = noise + 1 /\ Costs(End, r, next))
         /\ rf_buf' = rf_buf /\ rf' = rf /\ received' = received /\ sent' = sent
         /\ \A p \in Place : Stream(p) => Stream(p)'
<1>1. /\ sent \in Seq(Sizes) /\ tcp \in Seq(Byte) /\ rblk \in Seq(Seq(Byte) \ {<<>>})
      /\ rblk \in Seq(Seq(Byte)) /\ noise \in Nat /\ Rest \in Seq(Byte)
  BY LinkSays
<1>2. PICK m, t, u, a : /\ m = Min({n, Len(tcp)}) /\ t = tcp /\ u = tcp'
                        /\ a = SubSeq(t, 1, m)
  OBVIOUS
<1>3. m \in 1 .. Len(t) /\ t \in Seq(Byte)
  <2>1. Len(tcp) \in Nat \ {0} /\ n \in Nat \ {0}
    BY <1>1, SizesAssumption DEF SocketRecv
  <2> QED BY <1>1, <1>2, <2>1, MinOfTwo
<1>4. PICK blk : /\ rblk' = Append(rblk, blk)
                 /\ \/ blk = a /\ noise' = noise
                    \/ noise' = noise + 1 /\ \E i \in 1 .. m : blk = Noised(a, i)
  BY <1>2 DEF SocketRecv
<1>5. /\ u = SubSeq(t, m + 1, Len(t))
      /\ rf_buf' = rf_buf /\ rf' = rf /\ received' = received /\ sent' = sent
  BY <1>2 DEF SocketRecv
<1>6. /\ a \in Seq(Byte) /\ u \in Seq(Byte) /\ a \o u = t
      /\ \A i \in 1 .. m : NoisedJoin(t, a, u, i)
  <2>1. PICK from, last : from = m + 1 /\ last = Len(t)
    OBVIOUS
  <2>2. u = SubSeq(t, from, last) /\ a = SubSeq(t, 1, m)
    BY <1>2, <1>5, <2>1
  <2>3. t \in Seq(Byte) /\ m \in 1 .. Len(t)
    BY <1>3
  <2>4. from = m + 1 /\ last = Len(t)
    BY <2>1
  <2>5. a \in Seq(Byte) /\ u \in Seq(Byte) /\ a \o u = t
    BY ONLY <2>2, <2>3, <2>4, NoisedBehind
  <2>6. \A i \in 1 .. m : NoisedJoin(t, a, u, i)
    BY ONLY <2>2, <2>3, <2>4, NoisedBehind, ZenonT(30)
  <2> QED BY ONLY <2>5, <2>6
<1>7. blk \in Seq(Byte)
  BY <1>4, <1>6 DEF NoisedJoin
<1>8. \A p \in Place : Stream(p) => Stream(p)'
  <2> SUFFICES ASSUME NEW p \in Place, Stream(p) PROVE Stream(p)'
    OBVIOUS
  <2>1. m \in 1 .. Len(tcp) /\ tcp' = SubSeq(tcp, m + 1, Len(tcp)) /\ a = SubSeq(tcp, 1, m)
    BY <1>2, <1>3, <1>5
  <2>2. blk = a \/ \E i \in 1 .. m : blk = Noised(a, i)
    BY <1>4
  <2> QED BY <1>1, <1>4, <1>5, <2>1, <2>2, BlockInStream
<1>9. PICK s, bs, cs : s = FlattenSeq(rblk) /\ bs = rblk /\ cs = rblk'
  OBVIOUS
<1>10. s \in Seq(Byte) /\ FlattenSeq(cs) = s \o blk
  <2>1. bs \in Seq(Seq(Byte)) /\ cs = Append(bs, blk)
    BY <1>1, <1>4, <1>9
  <2>2. FlattenSeq(cs) = FlattenSeq(bs) \o blk /\ FlattenSeq(bs) \in Seq(Byte)
    BY ONLY <1>7, <2>1, FlattenAppend, FlattenTyped
  <2> QED BY <1>9, <2>2
<1>11. Rest = s \o t /\ Rest' = s \o (blk \o u)
  <2>1. Rest = s \o t
    BY <1>2, <1>9 DEF Rest
  <2>2. Rest' = (s \o blk) \o u
    BY <1>2, <1>9, <1>10 DEF Rest
  <2>3. (s \o blk) \o u = s \o (blk \o u)
    BY ONLY <1>6, <1>7, <1>10, ConcatAssociative
  <2> QED BY <2>1, <2>2, <2>3
<1>12. PICK mid : mid = After(start, s)
  OBVIOUS
<1>13. mid \in Receiver
  BY ONLY <1>10, <1>12, start \in Receiver, AfterTyped
<1>14. r = After(mid, t) /\ r \in Receiver
  <2>1. r = After(start, s \o t)
    BY <1>11
  <2>2. r = After(mid, t)
    BY ONLY <1>3, <1>10, <1>12, <2>1, AfterJoined
  <2> QED BY ONLY <1>3, <1>13, <2>2, AfterTyped
<1>15. CASE blk = a /\ noise' = noise
  <2>1. Rest' = Rest
    BY <1>6, <1>11, <1>15
  <2> QED BY <1>5, <1>8, <1>14, <1>15, <2>1
<1>16. CASE noise' = noise + 1 /\ \E i \in 1 .. m : blk = Noised(a, i)
  <2>1. PICK i \in 1 .. m : blk = Noised(a, i)
    BY <1>16
  <2>2. PICK v : v = Noised(t, i)
    OBVIOUS
  <2>3. i \in 1 .. Len(t) /\ blk \o u = v
    BY <1>6, <2>1, <2>2 DEF NoisedJoin
  <2>4. v \in Seq(Byte)
    BY ONLY <1>3, <2>2, <2>3, NoisedBytes
  <2>5. next = After(mid, v)
    <3>1. next = After(start, s \o v)
      BY <1>11, <2>3
    <3> QED BY ONLY <1>10, <1>12, <2>4, <3>1, AfterJoined
  <2>6. next \in Receiver
    BY ONLY <1>13, <2>4, <2>5, AfterTyped
  <2>7. PICK p \in Place : Stream(p) /\ Shape(p, rf_buf)
    BY DEF LinkInv
  <2>8. PICK b : b = BehindBlock(p, Len(rblk))
    OBVIOUS
  <2>9. Run(p, s, b)
    BY <1>1, <1>9, <2>7, <2>8, RunOfRest
  <2>10. Shape(p, start.buf)
    BY <2>7
  <2>11. b \in Place /\ Shape(b, mid.buf)
    BY ONLY <1>1, <1>10, <1>12, <2>7, <2>9, <2>10, start \in Receiver, RunKept
  <2>12. PICK e : e = End
    OBVIOUS
  <2>13. Run(b, t, e) /\ NoHits(t)
    BY <1>2, <2>7, <2>8, <2>12 DEF Stream, NoHits
  <2>14. Costs(e, r, next)
    BY ONLY <1>1, <1>3, <1>13, <1>14, <2>2, <2>3, <2>5, <2>11, <2>13, CostOfHit
  <2> QED BY <1>5, <1>8, <1>14, <1>16, <2>6, <2>12, <2>14
<1> QED BY <1>4, <1>15, <1>16

LEMMA SocketRecvLinks ==
  ASSUME LinkInv, NEW n \in BlockSizes, SocketRecv(Min({n, Len(tcp)}))
  PROVE  LinkInv'
<1>1. /\ sent \in Seq(Sizes) /\ noise \in Nat /\ Len(sent) \in Nat
      /\ Whole \in Receiver /\ Whole.buf = rf_buf
  BY LinkSays
<1>2. PICK start, r, next : /\ start = Whole /\ r = After(start, Rest)
                            /\ next = After(start, Rest')
  OBVIOUS
<1>3. start \in Receiver /\ start.buf = rf_buf
  BY <1>1, <1>2
<1>4. /\ r \in Receiver /\ next \in Receiver
      /\ (noise' = noise /\ next = r) \/ (noise' = noise + 1 /\ Costs(End, r, next))
      /\ rf_buf' = rf_buf /\ rf' = rf /\ received' = received /\ sent' = sent
      /\ \A p \in Place : Stream(p) => Stream(p)'
  BY <1>2, <1>3, NoiseRead
<1>5. Whole' = Whole
  BY <1>4 DEF Whole
<1>6. Final = r /\ Final' = next
  BY <1>2, <1>5 DEF Final
<1>7. FramingInv'
  BY SocketRecvKeeps DEF LinkInv
<1>8. PICK p \in Place : Stream(p) /\ Shape(p, rf_buf) /\ Ordered(p, Whole)
  BY DEF LinkInv
<1>9. p \in Place' /\ Stream(p)' /\ Shape(p, rf_buf)' /\ Ordered(p, Whole)'
  <2>1. Place' = Place
    BY <1>4, SameRuns
  <2>2. PICK buf, w : buf = rf_buf /\ w = Whole
    OBVIOUS
  <2>3. Shape(p, buf)' /\ Ordered(p, w)'
    BY <1>4, <1>8, <2>2, SameFrames
  <2> QED BY <1>4, <1>5, <1>8, <2>1, <2>2, <2>3
<1>10. PICK A, B : A = WholeIn(All(r)) /\ B = WholeIn(All(next))
  OBVIOUS
<1>11. Len(sent) + Debt(r) <= Cardinality(A) + noise
  BY <1>6, <1>10 DEF LinkInv
<1>12. /\ Cardinality(A) \in Nat /\ Cardinality(B) \in Nat
       /\ Debt(r) \in Nat /\ Debt(next) \in Nat
  BY <1>1, <1>10, WholeFinite DEF Debt
<1>13. Len(sent) + Debt(next) <= Cardinality(B) + noise'
  <2>1. CASE noise' = noise /\ next = r
    BY <1>10, <1>11, <2>1
  <2>2. CASE noise' = noise + 1 /\ Costs(End, r, next)
    <3>1. PICK e : e = End
      OBVIOUS
    <3>2. e.at = LastAt(e.frame) /\ ~ (e.at < LastAt(e.frame))
      BY <3>1, FinalSays
    <3>3. Costs(e, r, next)
      BY <2>2, <3>1
    <3>4. Debt(next) + Cardinality(A) <= Debt(r) + Cardinality(B) + 1
      BY ONLY <1>1, <1>4, <1>10, <3>2, <3>3, CostsAtEnd
    <3> QED BY <1>1, <1>11, <1>12, <2>2, <3>4
  <2> QED BY <1>4, <2>1, <2>2
<1>14. (Len(sent) + Debt(Final) <= Cardinality(WholeIn(All(Final))) + noise)'
  <2>1. PICK a : a = All(next)
    OBVIOUS
  <2>2. All(Final)' = a /\ Debt(Final)' = Debt(next)
    BY <1>6, <2>1 DEF All, Debt
  <2>3. WholeIn(a)' = WholeIn(a)
    BY <1>4, SameFrames
  <2>4. WholeIn(All(Final))' = B
    BY <1>10, <2>1, <2>2, <2>3 DEF WholeIn, IsWhole
  <2> QED BY <1>4, <1>13, <2>2, <2>4
<1>15. Whole' \in Receiver
  BY <1>1, <1>5
<1> QED BY <1>7, <1>9, <1>14, <1>15 DEF LinkInv

LEMMA FramesJoined ==
  ASSUME NEW S, NEW s \in Seq(S), NEW t \in Seq(S), NEW u, u = s \o t
  PROVE  /\ u \in Seq(S) /\ Len(u) = Len(s) + Len(t) /\ Len(s) \in Nat /\ Len(t) \in Nat
         /\ \A i \in 1 .. Len(s) + Len(t) : u[i] = IF i <= Len(s) THEN s[i] ELSE t[i - Len(s)]
OBVIOUS

LEMMA PartsTyped ==
  ASSUME NEW d, NEW e, d \in Seq(Seq(Byte)), e \in Seq(Seq(Byte)), d \o e \in Seq(Frames)
  PROVE  d \in Seq(Frames) /\ e \in Seq(Frames)
<1>1. PICK m, n, u : m = Len(d) /\ n = Len(e) /\ u = d \o e
  OBVIOUS
<1> m \in Nat /\ n \in Nat
  BY <1>1
<1>2. /\ Len(u) = m + n
      /\ \A i \in 1 .. m + n : u[i] = IF i <= m THEN d[i] ELSE e[i - m]
  BY <1>1
<1>3. \A i \in 1 .. m + n : u[i] \in Frames
  BY <1>1, <1>2
<1>4. \A i \in 1 .. m : d[i] \in Frames
  <2> TAKE i \in 1 .. m
  <2>1. i \in 1 .. m + n /\ i <= m
    OBVIOUS
  <2> QED BY <1>2, <1>3, <2>1
<1>5. \A i \in 1 .. n : e[i] \in Frames
  <2> TAKE i \in 1 .. n
  <2>1. m + i \in 1 .. m + n /\ ~ (m + i <= m) /\ (m + i) - m = i
    OBVIOUS
  <2>2. u[m + i] = e[(m + i) - m]
    BY <1>2, <2>1
  <2> QED BY <1>3, <2>1, <2>2
<1>6. d = [i \in 1 .. m |-> d[i]] /\ e = [i \in 1 .. n |-> e[i]]
  BY <1>1
<1> HIDE DEF Frames
<1> QED BY ONLY <1>4, <1>5, <1>6, m \in Nat, n \in Nat

LEMMA ReceivedTyped ==
  ASSUME LinkInv
  PROVE  /\ received \in Seq(Frames) /\ rf \in Seq(Frames) /\ rf_buf \in Buffers
         /\ [buf |-> rf_buf, done |-> rf] \in Receiver
<1>1. received \in Seq(Seq(Byte)) /\ rf \in Seq(Seq(Byte))
  BY DEF LinkInv, FramingInv, TypeOK
<1>2. Whole \in Receiver /\ Whole.buf = rf_buf /\ Whole.done = received \o rf
  BY LinkSays
<1>3. received \o rf \in Seq(Frames) /\ rf_buf \in Buffers
  BY <1>2 DEF Receiver
<1>4. received \in Seq(Frames) /\ rf \in Seq(Frames)
  BY ONLY <1>1, <1>3, PartsTyped
<1> QED BY <1>3, <1>4 DEF Receiver

(* The first of the frames that wait, put behind those that were received. *)
LEMMA LikeTaken ==
  ASSUME NEW a \in Seq(Frames), NEW d \in Seq(Frames), d # <<>>,
         NEW e, e = Append(a, Copied(d[1])) \o Tail(d)
  PROVE  e \in Seq(Frames) /\ Like(a \o d, e)
<1>1. PICK m \in Nat, n \in Nat : m = Len(a) /\ n + 1 = Len(d)
  <2>1. Len(a) \in Nat /\ Len(d) - 1 \in Nat /\ (Len(d) - 1) + 1 = Len(d)
    OBVIOUS
  <2> QED BY <2>1
<1>2. PICK f, c, t, b, u : /\ f = d[1] /\ c = Copied(f) /\ t = Tail(d)
                           /\ b = Append(a, c) /\ u = a \o d
  OBVIOUS
<1>3. /\ f \in Frames /\ t \in Seq(Frames) /\ Len(t) = n
      /\ \A i \in 1 .. n : t[i] = d[i + 1]
  <2>1. /\ d[1] \in Frames /\ t \in Seq(Frames) /\ Len(t) = Len(d) - 1
        /\ \A i \in 1 .. Len(t) : t[i] = d[i + 1]
    BY ONLY <1>2, d \in Seq(Frames), d # <<>>, HeadAndTail
  <2> QED BY <1>1, <1>2, <2>1
<1>4. c \in Frames
  BY ONLY <1>2, <1>3, CopiedOf
<1>5. /\ b \in Seq(Frames) /\ Len(b) = m + 1 /\ b[m + 1] = c
      /\ \A i \in 1 .. m : b[i] = a[i]
  BY ONLY <1>1, <1>2, <1>4, a \in Seq(Frames)
<1>6. /\ e \in Seq(Frames) /\ Len(e) = (m + 1) + n
      /\ \A i \in 1 .. (m + 1) + n : e[i] = IF i <= m + 1 THEN b[i] ELSE t[i - (m + 1)]
  <2>1. e = b \o t
    BY <1>2
  <2>2. /\ e \in Seq(Frames) /\ Len(e) = Len(b) + Len(t)
        /\ \A i \in 1 .. Len(b) + Len(t) : e[i] = IF i <= Len(b) THEN b[i] ELSE t[i - Len(b)]
    BY ONLY <1>3, <1>5, <2>1, FramesJoined
  <2>3. Len(b) = m + 1 /\ Len(t) = n
    BY <1>3, <1>5
  <2> HIDE DEF Frames
  <2> QED BY ONLY <2>2, <2>3
<1>7. /\ u \in Seq(Frames) /\ Len(u) = m + (n + 1)
      /\ \A i \in 1 .. m + (n + 1) : u[i] = IF i <= m THEN a[i] ELSE d[i - m]
  <2>1. /\ u \in Seq(Frames) /\ Len(u) = Len(a) + Len(d)
        /\ \A i \in 1 .. Len(a) + Len(d) : u[i] = IF i <= Len(a) THEN a[i] ELSE d[i - Len(a)]
    BY ONLY <1>2, a \in Seq(Frames), d \in Seq(Frames), FramesJoined
  <2>2. Len(a) = m /\ Len(d) = n + 1
    BY <1>1
  <2> QED BY ONLY <2>1, <2>2
<1>8. ASSUME NEW i \in 1 .. m + (n + 1) PROVE e[i] = u[i] \/ e[i] = Copied(u[i])
  <2>1. CASE i <= m
    <3>1. i \in 1 .. m /\ i <= m + 1 /\ i \in 1 .. (m + 1) + n
      BY <2>1
    <3> QED BY <1>5, <1>6, <1>7, <2>1, <3>1
  <2>2. CASE i = m + 1
    <3>1. /\ i <= m + 1 /\ i \in 1 .. (m + 1) + n /\ ~ (i <= m) /\ i - m = 1
      BY <2>2
    <3>2. e[i] = c /\ u[i] = f
      BY <1>2, <1>5, <1>6, <1>7, <2>2, <3>1
    <3> QED BY <1>2, <3>2
  <2>3. CASE i > m + 1
    <3>1. /\ ~ (i <= m + 1) /\ i \in 1 .. (m + 1) + n /\ ~ (i <= m)
          /\ i - (m + 1) \in 1 .. n /\ (i - (m + 1)) + 1 = i - m
      BY <2>3
    <3>2. e[i] = t[i - (m + 1)] /\ u[i] = d[i - m]
      BY <1>6, <1>7, <3>1
    <3>3. t[i - (m + 1)] = d[(i - (m + 1)) + 1]
      BY <1>3, <3>1
    <3> QED BY <3>1, <3>2, <3>3
  <2>4. i <= m \/ i = m + 1 \/ i > m + 1
    OBVIOUS
  <2> QED BY ONLY <2>1, <2>2, <2>3, <2>4
<1>9. Len(e) = Len(u) /\ \A i \in 1 .. Len(u) : e[i] = u[i] \/ e[i] = Copied(u[i])
  BY <1>6, <1>7, <1>8
<1>10. Like(u, e)
  BY <1>6, <1>9 DEF Like
<1> QED BY <1>2, <1>6, <1>10

LEMMA LikeItself ==
  ASSUME NEW d \in Seq(Frames)
  PROVE  Like(d, d)
BY DEF Like

(* wait_for_event: the first block is read, and recv_frame takes a frame   *)
(* or none.                                                                *)
LEMMA CommitReads ==
  ASSUME LinkInv, Commit, NEW s, s = rblk[1], NEW r, r = After(Whole, s)
  PROVE  /\ s \in Seq(Byte) /\ r \in Receiver /\ Rest = s \o Rest' /\ Rest' \in Seq(Byte)
         /\ Whole' \in Receiver /\ Whole'.buf = r.buf /\ rf_buf' = r.buf
         /\ Like(r.done, Whole'.done)
         /\ sent' = sent /\ tcp' = tcp /\ noise' = noise
         /\ \/ received' = received
            \/ \E c \in Frames : received' = Append(received, c)
<1>1. /\ sent \in Seq(Sizes) /\ tcp \in Seq(Byte) /\ rblk \in Seq(Seq(Byte))
      /\ Whole \in Receiver /\ Rest \in Seq(Byte)
      /\ Whole.buf = rf_buf /\ Whole.done = received \o rf
  BY LinkSays
<1>2. /\ received \in Seq(Frames) /\ rf \in Seq(Frames) /\ rf_buf \in Buffers
      /\ [buf |-> rf_buf, done |-> rf] \in Receiver
  BY ReceivedTyped
<1>3. PICK start, x, d : /\ start = [buf |-> rf_buf, done |-> rf] /\ x = Collected(Head(rblk))
                         /\ d = x.done
  OBVIOUS
<1>4. /\ rblk # <<>> /\ rblk' = Tail(rblk) /\ rf_buf' = x.buf
      /\ sent' = sent /\ tcp' = tcp /\ noise' = noise
      /\ \/ d = <<>> /\ rf' = rf /\ received' = received
         \/ rf' = d /\ received' = received
         \/ /\ d # <<>> /\ rf' = Tail(d)
            /\ received' = Append(received, Copied(Head(d)))
  BY <1>3 DEF Commit
<1>5. PICK bs, cs : bs = rblk /\ cs = rblk'
  OBVIOUS
<1>6. /\ bs \in Seq(Seq(Byte)) /\ bs # <<>> /\ cs = Tail(bs) /\ s = bs[1] /\ Head(bs) = bs[1]
  BY <1>1, <1>4, <1>5
<1>7. /\ s \in Seq(Byte) /\ FlattenSeq(cs) \in Seq(Byte)
      /\ FlattenSeq(bs) = s \o FlattenSeq(cs)
  BY ONLY <1>6, FlattenFirst
<1>8. Rest = s \o Rest' /\ Rest' \in Seq(Byte)
  <2>1. PICK t, u : t = tcp /\ u = FlattenSeq(cs)
    OBVIOUS
  <2>2. u \in Seq(Byte) /\ t \in Seq(Byte) /\ FlattenSeq(bs) = s \o u
    BY <1>1, <1>7, <2>1
  <2>3. (s \o u) \o t = s \o (u \o t) /\ u \o t \in Seq(Byte)
    <3>1. (s \o u) \o t = s \o (u \o t)
      BY ONLY <1>7, <2>2, ConcatAssociative
    <3> QED BY ONLY <2>2, <3>1
  <2>4. Rest = FlattenSeq(bs) \o t /\ Rest' = u \o t
    BY <1>4, <1>5, <2>1 DEF Rest
  <2> QED BY <2>2, <2>3, <2>4
<1>9. start \in Receiver /\ start.buf = rf_buf /\ start.done = rf
  BY <1>2, <1>3
<1>10. x = After(start, s)
  BY <1>3, <1>5, <1>6 DEF Collected
<1>11. x \in Receiver /\ r \in Receiver /\ d \in Seq(Frames)
  <2>1. x \in Receiver
    BY ONLY <1>7, <1>9, <1>10, AfterTyped
  <2>2. r \in Receiver
    BY <1>1, <1>7, AfterTyped
  <2> QED BY <1>3, <2>1, <2>2 DEF Receiver
<1>12. PICK a, w : a = received /\ w = Whole
  OBVIOUS
<1>13. r.buf = x.buf /\ r.done = a \o d
  <2>1. w \in Receiver /\ w.buf = start.buf /\ w.done = a \o start.done /\ a \in Seq(Frames)
    BY <1>1, <1>2, <1>9, <1>12
  <2>2. After(w, s).buf = After(start, s).buf /\ After(w, s).done = a \o After(start, s).done
    BY ONLY <1>7, <1>9, <2>1, AfterBehind
  <2> QED BY <1>3, <1>10, <1>12, <2>2
<1>14. d = <<>> => rf = <<>>
  <2>1. PICK base, e : base = [buf |-> rf_buf, done |-> <<>>] /\ e = rf
    OBVIOUS
  <2>2. /\ base \in Receiver /\ start.buf = base.buf /\ start.done = e \o base.done
        /\ e \in Seq(Frames)
    <3>1. <<>> \in Seq(Frames)
      OBVIOUS
    <3>2. e \in Seq(Frames) /\ e \o <<>> = e
      BY <1>2, <2>1
    <3> QED BY <1>2, <1>9, <2>1, <3>1, <3>2 DEF Receiver
  <2>3. PICK z : z = After(base, s)
    OBVIOUS
  <2>4. d = e \o z.done
    <3>1. After(start, s).done = e \o After(base, s).done
      BY ONLY <1>7, <1>9, <2>2, AfterBehind
    <3> QED BY <1>3, <1>10, <2>3, <3>1
  <2>5. z.done \in Seq(Frames)
    <3>1. z \in Receiver
      BY ONLY <1>7, <2>2, <2>3, AfterTyped
    <3> QED BY <3>1 DEF Receiver
  <2>6. Len(d) = Len(e) + Len(z.done) /\ Len(e) \in Nat /\ Len(z.done) \in Nat
    BY <2>2, <2>4, <2>5
  <2>7. d = <<>> => Len(e) = 0
    BY <2>6
  <2>8. Len(e) = 0 => e = <<>>
    BY ONLY <2>2
  <2> QED BY <2>1, <2>7, <2>8
<1>15. PICK v : v = Whole'
  OBVIOUS
<1>16. v.buf = r.buf /\ v.done = received' \o rf' /\ v = [buf |-> r.buf, done |-> received' \o rf']
  BY <1>4, <1>13, <1>15 DEF Whole
<1>17. CASE \/ d = <<>> /\ rf' = rf /\ received' = received
            \/ rf' = d /\ received' = received
  <2>1. v.done = r.done
    BY <1>12, <1>13, <1>14, <1>16, <1>17
  <2>2. r.done \in Seq(Frames) /\ r = [buf |-> r.buf, done |-> r.done]
    BY <1>11 DEF Receiver
  <2>3. v \in Receiver
    BY <1>11, <1>16, <2>1, <2>2
  <2>4. Like(r.done, v.done)
    BY <2>1, <2>2, LikeItself
  <2> QED BY <1>4, <1>7, <1>8, <1>11, <1>13, <1>15, <1>16, <1>17, <2>3, <2>4
<1>18. CASE /\ d # <<>> /\ rf' = Tail(d)
            /\ received' = Append(received, Copied(Head(d)))
  <2>1. PICK f, c, e : f = d[1] /\ c = Copied(f) /\ e = Append(a, c) \o Tail(d)
    OBVIOUS
  <2>2. f = Head(d) /\ f \in Frames
    BY ONLY <1>11, <1>18, <2>1, HeadAndTail
  <2>3. c \in Frames
    BY ONLY <2>1, <2>2, CopiedOf
  <2>4. received' = Append(received, c) /\ v.done = e
    BY <1>12, <1>16, <1>18, <2>1, <2>2
  <2>5. a \in Seq(Frames)
    BY <1>2, <1>12
  <2>6. e \in Seq(Frames) /\ Like(a \o d, e)
    BY ONLY <1>11, <1>18, <2>1, <2>5, LikeTaken
  <2>7. v \in Receiver
    <3>1. r.buf \in Buffers
      BY <1>11 DEF Receiver
    <3> QED BY <1>16, <2>4, <2>6, <3>1 DEF Receiver
  <2>8. Like(r.done, v.done)
    BY <1>13, <2>4, <2>6
  <2> QED BY <1>4, <1>7, <1>8, <1>11, <1>13, <1>15, <1>16, <2>3, <2>4, <2>7, <2>8
<1> QED BY <1>4, <1>17, <1>18

(* And so what is received and what is to come stays the same.             *)
LEMMA CommitSame ==
  ASSUME LinkInv, Commit
  PROVE  /\ Debt(Final)' = Debt(Final)
         /\ (WholeIn(All(Final)))' = WholeIn(All(Final))
         /\ Items(All(Final))' = Items(All(Final))
         /\ sent' = sent /\ noise' = noise
         /\ \/ received' = received
            \/ \E c \in Frames : received' = Append(received, c)
         /\ LinkInv'
<1>1. PICK s, r : s = rblk[1] /\ r = After(Whole, s)
  OBVIOUS
<1>2. /\ s \in Seq(Byte) /\ r \in Receiver /\ Rest = s \o Rest' /\ Rest' \in Seq(Byte)
      /\ Whole' \in Receiver /\ Whole'.buf = r.buf /\ rf_buf' = r.buf
      /\ Like(r.done, Whole'.done)
      /\ sent' = sent /\ tcp' = tcp /\ noise' = noise
      /\ \/ received' = received
         \/ \E c \in Frames : received' = Append(received, c)
  BY <1>1, CommitReads
<1>3. /\ sent \in Seq(Sizes) /\ tcp \in Seq(Byte) /\ rblk \in Seq(Seq(Byte) \ {<<>>})
      /\ Whole \in Receiver /\ Whole.buf = rf_buf
  BY LinkSays
<1>4. PICK v, w, t, x, y : /\ v = Whole /\ w = Whole' /\ t = Rest' /\ x = Final /\ y = Final'
  OBVIOUS
<1>5. /\ v \in Receiver /\ w \in Receiver /\ w.buf = r.buf /\ Like(r.done, w.done)
      /\ t \in Seq(Byte) /\ Rest = s \o t /\ r = After(v, s)
  BY <1>1, <1>2, <1>3, <1>4
<1>6. x = After(r, t)
  <2>1. x = After(v, s \o t)
    BY <1>4, <1>5 DEF Final
  <2> QED BY ONLY <1>2, <1>5, <2>1, AfterJoined
<1>7. y = After(w, t)
  BY <1>4 DEF Final
<1>8. /\ y.buf = x.buf /\ Debt(y) = Debt(x)
      /\ All(x) \in Seq(Frames) /\ Like(All(x), All(y))
  BY ONLY <1>2, <1>5, <1>6, <1>7, LikeRead
<1>9. PICK a, b : a = All(x) /\ b = All(y)
  OBVIOUS
<1>10. WholeIn(b) = WholeIn(a) /\ Items(b) = Items(a)
  BY <1>8, <1>9, LikeSays
<1>11. /\ \A frames : WholeIn(frames)' = WholeIn(frames)
       /\ \A p, buf : Shape(p, buf)' <=> Shape(p, buf)
       /\ \A p, e : Ordered(p, e)' <=> Ordered(p, e)
       /\ \A frames : Items(frames)' = Items(frames)
  BY <1>2, SameFrames
<1>12. All(Final)' = b /\ Debt(Final)' = Debt(Final) /\ All(Final) = a
  BY <1>4, <1>8, <1>9 DEF All, Debt
<1>13. (WholeIn(All(Final)))' = WholeIn(All(Final))
  <2>1. (WholeIn(All(Final)))' = WholeIn(b)'
    BY <1>12 DEF WholeIn, IsWhole
  <2>2. WholeIn(b)' = WholeIn(b)
    BY <1>11
  <2> QED BY <1>10, <1>12, <2>1, <2>2
<1>14. Items(All(Final))' = Items(All(Final))
  <2>1. Items(All(Final))' = Items(b)'
    BY <1>12 DEF Items, Item
  <2>2. Items(b)' = Items(b)
    BY <1>11
  <2> QED BY <1>10, <1>12, <2>1, <2>2
<1>15. LinkInv'
  <2>1. FramingInv'
    BY CommitKeeps DEF LinkInv
  <2>2. PICK p \in Place : Stream(p) /\ Shape(p, rf_buf) /\ Ordered(p, Whole)
    BY DEF LinkInv
  <2>3. PICK q : q = BehindBlock(p, 1)
    OBVIOUS
  <2>4. q \in Place' /\ Run(p, s, q) /\ Stream(q)'
    <3>1. rblk # <<>> /\ rblk' = Tail(rblk)
      BY DEF Commit
    <3> QED BY <1>1, <1>2, <1>3, <2>2, <2>3, <3>1, StreamBehindBlock
  <2>5. Shape(p, v.buf) /\ Ordered(p, v)
    BY <1>3, <1>4, <2>2
  <2>6. Shape(q, r.buf) /\ Ordered(q, r)
    BY ONLY <1>2, <1>3, <1>5, <2>2, <2>4, <2>5, RunKept
  <2>7. r.done \in Seq(Frames)
    BY <1>2 DEF Receiver
  <2>8. Ordered(q, w)
    BY ONLY <1>5, <2>6, <2>7, LikeOrdered
  <2>9. Shape(q, rf_buf)'
    <3>1. PICK buf : buf = r.buf
      OBVIOUS
    <3>2. Shape(q, buf)'
      BY <1>11, <2>6, <3>1
    <3> QED BY <1>2, <3>1, <3>2
  <2>10. Ordered(q, Whole)'
    <3>1. Ordered(q, w)'
      BY <1>11, <2>8
    <3> QED BY <1>4, <3>1
  <2>11. (Len(sent) + Debt(Final) <= Cardinality(WholeIn(All(Final))) + noise)'
    <3>1. Len(sent) + Debt(Final) <= Cardinality(WholeIn(All(Final))) + noise
      BY DEF LinkInv
    <3> QED BY <1>2, <1>12, <1>13, <3>1
  <2> QED BY <1>2, <2>1, <2>4, <2>9, <2>10, <2>11 DEF LinkInv
<1> QED BY <1>2, <1>12, <1>13, <1>14, <1>15

LEMMA NothingLinks ==
  ASSUME LinkInv, UNCHANGED vars
  PROVE  LinkInv'
<1>1. /\ sent' = sent /\ tcp' = tcp /\ rblk' = rblk /\ rf_buf' = rf_buf /\ rf' = rf
      /\ received' = received /\ noise' = noise
  BY DEF vars
<1>2. FramingInv'
  BY StepKeeps DEF LinkInv
<1>3. PICK p \in Place : Stream(p) /\ Shape(p, rf_buf) /\ Ordered(p, Whole)
  BY DEF LinkInv
<1>4. Whole' = Whole /\ Rest' = Rest
  BY <1>1 DEF Whole, Rest
<1>5. PICK v, w, x, a : v = rf_buf /\ w = Whole /\ x = Final /\ a = All(x)
  OBVIOUS
<1>6. x = Final'
  BY <1>4, <1>5 DEF Final
<1>7. p \in Place' /\ Stream(p)' /\ Shape(p, rf_buf)' /\ Ordered(p, Whole)'
  <2>1. Place' = Place
    BY <1>1, SameRuns
  <2>2. Stream(p)'
    BY <1>1, <1>3, SameStream
  <2>3. Shape(p, v)' /\ Ordered(p, w)'
    BY <1>1, <1>3, <1>5, SameFrames
  <2> QED BY <1>1, <1>4, <1>5, <2>1, <2>2, <2>3
<1>8. (Len(sent) + Debt(Final) <= Cardinality(WholeIn(All(Final))) + noise)'
  <2>1. Len(sent) + Debt(Final) <= Cardinality(WholeIn(All(Final))) + noise
    BY DEF LinkInv
  <2>2. All(Final)' = a /\ All(Final) = a /\ Debt(Final)' = Debt(Final)
    BY <1>5, <1>6 DEF All, Debt
  <2>3. WholeIn(a)' = WholeIn(a)
    BY <1>1, SameFrames
  <2>4. WholeIn(All(Final))' = WholeIn(All(Final))
    BY <2>2, <2>3 DEF WholeIn, IsWhole
  <2> QED BY <1>1, <2>1, <2>2, <2>4
<1>9. Whole' \in Receiver
  BY <1>4, LinkSays
<1> QED BY <1>2, <1>7, <1>8, <1>9 DEF LinkInv

LEMMA LinkStep == LinkInv /\ [Next]_vars => LinkInv'
<1> SUFFICES ASSUME LinkInv, [Next]_vars PROVE LinkInv'
  OBVIOUS
<1>1. CASE \E size \in Sizes : SendFrame(size)
  BY <1>1, SendFrameLinks
<1>2. CASE \E n \in BlockSizes : SocketRecv(Min({n, Len(tcp)}))
  BY <1>2, SocketRecvLinks
<1>3. CASE Commit
  BY <1>3, CommitSame
<1>4. CASE UNCHANGED vars
  BY <1>4, NothingLinks
<1> QED BY <1>1, <1>2, <1>3, <1>4 DEF Next

-----------------------------------------------------------------------------
(* The queue of the abstract link. *)

LEMMA ComingIs == Coming = All(After([buf |-> rf_buf, done |-> rf], Rest))
<1>1. PICK b, start, x : /\ b = FlattenSeq(rblk) \o tcp /\ start = [buf |-> rf_buf, done |-> rf]
                         /\ x = After(start, b)
  OBVIOUS
<1>2. \A y : Once({y}) = y
  BY DEF Once
<1>3. {After(start, bytes) : bytes \in {b}} = {x}
  BY <1>1
<1>4. Once({After(start, bytes) : bytes \in {b}}) = x
  BY <1>2, <1>3
<1> DEFINE all(r) == IF Length(r.buf.nibbles) > 0 THEN Append(r.done, r.buf.nibbles) ELSE r.done
<1>5. Coming = Once({all(r) : r \in {Once({After(start, bytes) : bytes \in {b}})}})
  BY <1>1 DEF Coming
<1>6. Coming = Once({all(r) : r \in {x}})
  BY <1>4, <1>5
<1>7. {all(r) : r \in {x}} = {all(x)}
  <2> HIDE DEF all
  <2> QED OBVIOUS
<1>8. Coming = all(x)
  <2> HIDE DEF all
  <2> QED BY <1>2, <1>6, <1>7
<1>9. all(x) = All(x)
  BY DEF All
<1> QED BY <1>1, <1>8, <1>9 DEF Rest

LEMMA ItemsComingIs == ItemsComing = Items(Coming)
<1>1. PICK c : c = Coming
  OBVIOUS
<1>2. {Items(frames) : frames \in {c}} = {Items(c)}
  <2> HIDE DEF Items
  <2> QED OBVIOUS
<1>3. \A y : Once({y}) = y
  BY DEF Once
<1> QED BY <1>1, <1>2, <1>3 DEF ItemsComing

LEMMA InLineParts ==
  ASSUME NEW d \in Seq(Frames), NEW e \in Seq(Frames), InLine(d \o e)
  PROVE  InLine(d) /\ InLine(e)
<1>1. PICK m, n, u, k : m = Len(d) /\ n = Len(e) /\ u = d \o e /\ k = Len(sent)
  OBVIOUS
<1>2. /\ m \in Nat /\ n \in Nat /\ Len(u) = m + n
      /\ \A i \in 1 .. m + n : u[i] = IF i <= m THEN d[i] ELSE e[i - m]
  BY ONLY <1>1, d \in Seq(Frames), e \in Seq(Frames), FramesJoined
<1>3. /\ \A i \in 1 .. m + n : Within(u[i], k)
      /\ \A i, j \in 1 .. m + n : i < j => Apart(u[i], u[j])
  BY <1>1, <1>2 DEF InLine
<1>4. \A i \in 1 .. m : i \in 1 .. m + n /\ u[i] = d[i]
  BY <1>2
<1>5. \A i \in 1 .. n : m + i \in 1 .. m + n /\ u[m + i] = e[i]
  <2> TAKE i \in 1 .. n
  <2>1. m + i \in 1 .. m + n /\ ~ (m + i <= m) /\ (m + i) - m = i
    BY <1>2
  <2>2. u[m + i] = e[(m + i) - m]
    BY <1>2, <2>1
  <2> QED BY <2>1, <2>2
<1>6. InLine(d)
  <2>1. \A i \in 1 .. m : Within(d[i], k)
    BY <1>3, <1>4
  <2>2. \A i, j \in 1 .. m : i < j => Apart(d[i], d[j])
    BY <1>3, <1>4
  <2> QED BY <1>1, <2>1, <2>2 DEF InLine
<1>7. InLine(e)
  <2>1. \A i \in 1 .. n : Within(e[i], k)
    BY <1>3, <1>5
  <2>2. ASSUME NEW i \in 1 .. n, NEW j \in 1 .. n, i < j PROVE Apart(e[i], e[j])
    <3>1. m + i < m + j
      BY <1>2, <2>2
    <3> QED BY <1>3, <1>5, <3>1
  <2> QED BY <1>1, <2>1, <2>2 DEF InLine
<1> QED BY <1>6, <1>7

LEMMA ItemsJoined ==
  ASSUME sent \in Seq(Sizes), NEW d \in Seq(Frames), NEW e \in Seq(Frames), InLine(d \o e)
  PROVE  /\ Items(d) \in Seq(Link!Item) /\ Items(e) \in Seq(Link!Item)
         /\ Items(d) \o Items(e) = Items(d \o e)
         /\ Link!InOrder(Items(d \o e), Len(sent))
<1>1. PICK m, n, u : m = Len(d) /\ n = Len(e) /\ u = d \o e
  OBVIOUS
<1>2. /\ m \in Nat /\ n \in Nat /\ Len(u) = m + n
      /\ \A i \in 1 .. m + n : u[i] = IF i <= m THEN d[i] ELSE e[i - m]
  BY ONLY <1>1, d \in Seq(Frames), e \in Seq(Frames), FramesJoined
<1>3. InLine(d) /\ InLine(e) /\ InLine(u)
  BY <1>1, InLineParts
<1>4. PICK a, b, c : a = Items(d) /\ b = Items(e) /\ c = Items(u)
  OBVIOUS
<1>5. a \in Seq(Link!Item) /\ Len(a) = m /\ \A i \in 1 .. m : a[i] = Item(d[i])
  BY <1>1, <1>3, <1>4, ItemsInOrder
<1>6. b \in Seq(Link!Item) /\ Len(b) = n /\ \A i \in 1 .. n : b[i] = Item(e[i])
  BY <1>1, <1>3, <1>4, ItemsInOrder
<1>7. c \in Seq(Link!Item) /\ Len(c) = m + n /\ \A i \in 1 .. m + n : c[i] = Item(u[i])
  BY <1>2, <1>3, <1>4, ItemsInOrder
<1>8. Link!InOrder(c, Len(sent))
  BY <1>3, <1>4, ItemsInOrder
<1>9. PICK v : v = a \o b
  OBVIOUS
<1>10. /\ v \in Seq(Link!Item) /\ Len(v) = Len(a) + Len(b)
       /\ \A i \in 1 .. Len(a) + Len(b) : v[i] = IF i <= Len(a) THEN a[i] ELSE b[i - Len(a)]
  <2>1. a \in Seq(Link!Item) /\ b \in Seq(Link!Item)
    BY <1>5, <1>6
  <2> QED BY ONLY <1>9, <2>1, FramesJoined
<1>11. Len(v) = m + n /\ \A i \in 1 .. m + n : v[i] = IF i <= m THEN a[i] ELSE b[i - m]
  BY ONLY <1>5, <1>6, <1>10
<1>12. ASSUME NEW i \in 1 .. m + n PROVE v[i] = c[i]
  <2>1. CASE i <= m
    <3>1. i \in 1 .. m
      BY <1>2, <2>1
    <3> QED BY <1>2, <1>5, <1>7, <1>11, <2>1, <3>1
  <2>2. CASE ~ (i <= m)
    <3>1. i - m \in 1 .. n
      BY <1>2, <2>2
    <3> QED BY <1>2, <1>6, <1>7, <1>11, <2>2, <3>1
  <2> QED BY <2>1, <2>2
<1>13. v = c
  BY ONLY <1>7, <1>10, <1>11, <1>12, SeqEqual
<1> QED BY <1>1, <1>4, <1>5, <1>6, <1>8, <1>9, <1>13

LEMMA SoundJoined ==
  ASSUME NEW a \in Seq(Link!Item), NEW b \in Seq(Link!Item)
  PROVE  Link!SoundItems(a) \cup Link!SoundItems(b) = Link!SoundItems(a \o b)
<1>1. PICK m, n, u : m = Len(a) /\ n = Len(b) /\ u = a \o b
  OBVIOUS
<1>2. /\ m \in Nat /\ n \in Nat /\ Len(u) = m + n
      /\ \A i \in 1 .. m + n : u[i] = IF i <= m THEN a[i] ELSE b[i - m]
  BY ONLY <1>1, a \in Seq(Link!Item), b \in Seq(Link!Item), FramesJoined
<1>3. DOMAIN u = 1 .. m + n /\ DOMAIN a = 1 .. m /\ DOMAIN b = 1 .. n
  <2>1. u \in Seq(Link!Item)
    BY ONLY <1>1, a \in Seq(Link!Item), b \in Seq(Link!Item), FramesJoined
  <2> QED BY <1>1, <1>2, <2>1
<1>4. \A i \in 1 .. m : i \in 1 .. m + n /\ u[i] = a[i]
  BY <1>2
<1>5. \A i \in 1 .. n : m + i \in 1 .. m + n /\ u[m + i] = b[i]
  <2> TAKE i \in 1 .. n
  <2>1. m + i \in 1 .. m + n /\ ~ (m + i <= m) /\ (m + i) - m = i
    BY <1>2
  <2>2. u[m + i] = b[(m + i) - m]
    BY <1>2, <2>1
  <2> QED BY <2>1, <2>2
<1>6. \A i \in 1 .. m + n : \/ i \in 1 .. m /\ u[i] = a[i]
                            \/ \E j \in 1 .. n : u[i] = b[j]
  <2> TAKE i \in 1 .. m + n
  <2>1. CASE i <= m
    <3>1. i \in 1 .. m
      BY <1>2, <2>1
    <3> QED BY <1>4, <3>1
  <2>2. CASE ~ (i <= m)
    <3>1. i - m \in 1 .. n
      BY <1>2, <2>2
    <3> QED BY <1>2, <2>2, <3>1
  <2> QED BY <2>1, <2>2
<1>7. \A x : x \in Link!SoundItems(u) <=> \E i \in 1 .. m + n : u[i] = x /\ u[i].sound
  BY <1>3 DEF Link!SoundItems
<1>8. \A x : x \in Link!SoundItems(a) <=> \E i \in 1 .. m : a[i] = x /\ a[i].sound
  BY <1>3 DEF Link!SoundItems
<1>9. \A x : x \in Link!SoundItems(b) <=> \E i \in 1 .. n : b[i] = x /\ b[i].sound
  BY <1>3 DEF Link!SoundItems
<1>10. \A x : x \in Link!SoundItems(u) => x \in Link!SoundItems(a) \cup Link!SoundItems(b)
  BY ONLY <1>6, <1>7, <1>8, <1>9
<1>11. \A x : x \in Link!SoundItems(a) => x \in Link!SoundItems(u)
  BY ONLY <1>4, <1>7, <1>8
<1>12. \A x : x \in Link!SoundItems(b) => x \in Link!SoundItems(u)
  BY ONLY <1>5, <1>7, <1>9
<1> QED BY <1>1, <1>10, <1>11, <1>12

(* What was received and what is to come are the frames that are whole or  *)
(* damaged in the end, in order.                                           *)
LinkQueue ==
  /\ Coming = All(After([buf |-> rf_buf, done |-> rf], Rest))
  /\ ItemsComing = Items(Coming)
  /\ After([buf |-> rf_buf, done |-> rf], Rest).buf = Final.buf
  /\ InLine(received) /\ InLine(Coming)
  /\ Items(received) \in Seq(Link!Item) /\ ItemsComing \in Seq(Link!Item)
  /\ Items(received) \o ItemsComing = Items(All(Final))
  /\ Link!InOrder(Items(received) \o ItemsComing, Len(sent))

LEMMA QueueOrdered == LinkInv => LinkQueue
<1> SUFFICES ASSUME LinkInv PROVE LinkQueue
  OBVIOUS
<1>1. PICK start, w, s, x, y, a : /\ start = [buf |-> rf_buf, done |-> rf] /\ w = Whole
                                  /\ s = Rest /\ x = After(start, s) /\ y = Final /\ a = received
  OBVIOUS
<1>2. /\ start \in Receiver /\ a \in Seq(Frames) /\ w \in Receiver /\ s \in Seq(Byte)
      /\ w.buf = start.buf /\ w.done = a \o start.done /\ sent \in Seq(Sizes)
      /\ y = After(w, s)
  BY <1>1, ReceivedTyped, LinkSays DEF Final
<1>3. y.buf = x.buf /\ y.done = a \o x.done
  <2>1. After(w, s).buf = After(start, s).buf /\ After(w, s).done = a \o After(start, s).done
    BY ONLY <1>2, AfterBehind
  <2> QED BY <1>1, <1>2, <2>1
<1>4. x \in Receiver
  BY ONLY <1>1, <1>2, AfterTyped
<1>5. PICK d, f : d = x.done /\ f = x.buf.nibbles
  OBVIOUS
<1>6. d \in Seq(Frames) /\ (Length(f) > 0 => f \in Frames)
  BY <1>4, <1>5, HalfOf DEF Receiver, Buffers, Frames, Fits
<1>7. PICK c : c = All(x)
  OBVIOUS
<1>8. c \in Seq(Frames) /\ All(y) = a \o c
  <2>1. CASE Length(f) > 0
    <3>1. c = Append(d, f) /\ All(y) = Append(a \o d, f)
      BY <1>3, <1>5, <1>7, <2>1 DEF All
    <3>2. Append(d, f) \in Seq(Frames) /\ Append(a \o d, f) = a \o Append(d, f)
      <4>1. f \in Frames /\ d \in Seq(Frames)
        BY <1>6, <2>1
      <4>2. \A e \in Seq(Frames) : Append(e \o d, f) = e \o Append(d, f)
        BY ONLY <4>1
      <4>3. Append(d, f) \in Seq(Frames)
        BY ONLY <4>1
      <4> QED BY <1>2, <4>2, <4>3
    <3> QED BY <3>1, <3>2
  <2>2. CASE ~ (Length(f) > 0)
    BY <1>3, <1>5, <1>6, <1>7, <2>2 DEF All
  <2> QED BY <2>1, <2>2
<1>9. InLine(a \o c)
  BY <1>1, <1>8, FinalSays
<1>10. InLine(a) /\ InLine(c)
  BY ONLY <1>2, <1>8, <1>9, InLineParts
<1>11. /\ Items(a) \in Seq(Link!Item) /\ Items(c) \in Seq(Link!Item)
       /\ Items(a) \o Items(c) = Items(a \o c)
       /\ Link!InOrder(Items(a \o c), Len(sent))
  BY <1>2, <1>8, <1>9, ItemsJoined
<1>12. Coming = c /\ ItemsComing = Items(c)
  BY <1>1, <1>7, ComingIs, ItemsComingIs
<1> QED BY <1>1, <1>3, <1>7, <1>8, <1>10, <1>11, <1>12 DEF LinkQueue

(* Of the frames sent all but one for each hit will have been received     *)
(* whole, when what the blocks and the connection hold is read without     *)
(* more noise, and the next one too unless one waits for its closing flag. *)
THEOREM LinkInvCorrect == Spec => []LinkInv
<1>1. Init => LinkInv
  BY LinkInit
<1>2. LinkInv /\ [Next]_vars => LinkInv'
  BY LinkStep
<1> QED BY <1>1, <1>2, PTL DEF Spec

(* socket_recv's noise costs at most one frame for each byte it hits: all  *)
(* the others were received sound by recv_frame or still will be.          *)
THEOREM CostOfNoiseHolds == Spec => []CostOfNoise
<1>1. LinkInv /\ LinkQueue => CostOfNoise
  <2> SUFFICES ASSUME LinkInv, LinkQueue PROVE CostOfNoise
    OBVIOUS
  <2>1. /\ sent \in Seq(Sizes) /\ noise \in Nat /\ Len(sent) \in Nat
    BY LinkSays
  <2>2. PICK a, b, K, S : /\ a = Items(received) /\ b = ItemsComing /\ K = WholeIn(All(Final))
                          /\ S = {Link!Sound(k) : k \in K}
    OBVIOUS
  <2>3. Link!SoundItems(a) \cup Link!SoundItems(b) = S
    <3>1. a \in Seq(Link!Item) /\ b \in Seq(Link!Item) /\ a \o b = Items(All(Final))
      BY <2>2 DEF LinkQueue
    <3>2. Link!SoundItems(a) \cup Link!SoundItems(b) = Link!SoundItems(a \o b)
      BY <3>1, SoundJoined
    <3>3. Link!SoundItems(Items(All(Final))) = S
      BY <2>1, <2>2, FinalSays, SoundOnes
    <3> QED BY <3>1, <3>2, <3>3
  <2>4. IsFiniteSet(K) /\ Cardinality(K) \in Nat
    BY <2>1, <2>2, WholeFinite
  <2>5. Cardinality(S) = Cardinality(K)
    BY ONLY <2>2, <2>4, SoundCount
  <2>6. Len(sent) + Debt(Final) <= Cardinality(K) + noise /\ Debt(Final) \in Nat
    BY <2>2 DEF LinkInv, Debt
  <2>7. Len(sent) <= Cardinality(S) + noise
    BY <2>1, <2>4, <2>5, <2>6
  <2>8. TypeOK
    BY DEF LinkInv, FramingInv
  <2> QED BY <2>2, <2>3, <2>7, <2>8 DEF CostOfNoise
<1> QED BY <1>1, QueueOrdered, LinkInvCorrect, PTL

(* The first of w has gone over to u. *)
Moves(u, x, v, w) == Append(u, x) \o v = u \o w
Taken(x, v, w) == w # <<>> /\ x = Head(w) /\ v = Tail(w)

LEMMA MovedIsTaken ==
  ASSUME NEW S, NEW u \in Seq(S), NEW v \in Seq(S), NEW x \in S, NEW w \in Seq(S),
         Moves(u, x, v, w)
  PROVE  Taken(x, v, w)
<1>1. PICK t : t = <<x>> \o v
  OBVIOUS
<1>2. t \in Seq(S) /\ <<x>> \in Seq(S) /\ Append(u, x) = u \o <<x>>
  BY <1>1
<1>3. (u \o <<x>>) \o v = u \o t
  BY ONLY <1>1, <1>2, u \in Seq(S), v \in Seq(S), ConcatAssociative
<1>4. t = w
  <2>1. u \o t = u \o w
    BY <1>2, <1>3 DEF Moves
  <2> QED BY ONLY <1>2, <2>1, u \in Seq(S), w \in Seq(S), ConcatSimplifications
<1>5. t # <<>> /\ Head(t) = x /\ Tail(t) = v
  <2>1. Len(t) = Len(v) + 1 /\ t[1] = x /\ Len(v) \in Nat
    BY <1>1
  <2>2. t # <<>> /\ Head(t) = x
    BY <1>2, <2>1
  <2>3. Tail(t) = v
    <3>1. PICK y : y = Tail(t)
      OBVIOUS
    <3>2. y \in Seq(S) /\ Len(y) = Len(t) - 1 /\ \A i \in 1 .. Len(y) : y[i] = t[i + 1]
      BY ONLY <1>2, <2>2, <3>1, HeadTailProperties
    <3>3. \A i \in 1 .. Len(v) : t[i + 1] = v[i]
      BY <1>1
    <3>4. y = v
      BY ONLY <2>1, <3>2, <3>3, v \in Seq(S), SeqEqual
    <3> QED BY <3>1, <3>4
  <2> QED BY <2>2, <2>3
<1> QED BY <1>4, <1>5 DEF Taken

(* An item more, in this state and in the next one. *)
IsList(n, u) == u = [i \in 1 .. n |-> u[i]]

LEMMA OneMore ==
  ASSUME NEW n \in Nat, NEW m, m = n + 1, NEW u, IsList(n, u), NEW v, IsList(m, v),
         \A i \in 1 .. n : v[i] = u[i]
  PROVE  v = Append(u, v[m])
<1>1. PICK S, x : S = {v[i] : i \in 1 .. m} /\ x = v[m]
  OBVIOUS
<1>2. v \in Seq(S) /\ Len(v) = n + 1 /\ u \in Seq(S) /\ Len(u) = n /\ x \in S
  <2>1. m \in Nat /\ m \in 1 .. m /\ \A i \in 1 .. n : i \in 1 .. m
    OBVIOUS
  <2>2. \A i \in 1 .. m : v[i] \in S
    BY <1>1
  <2>3. \A i \in 1 .. n : u[i] \in S
    BY <2>1, <2>2
  <2>4. \A k \in Nat : \A w : IsList(k, w) /\ (\A i \in 1 .. k : w[i] \in S) => w \in Seq(S) /\ Len(w) = k
    BY DEF IsList
  <2>5. v \in Seq(S) /\ Len(v) = m
    BY ONLY <2>1, <2>2, <2>4, IsList(m, v)
  <2>6. u \in Seq(S) /\ Len(u) = n
    BY ONLY <2>3, <2>4, IsList(n, u), n \in Nat
  <2> QED BY <1>1, <2>1, <2>2, <2>5, <2>6
<1>3. PICK w : w = Append(u, x)
  OBVIOUS
<1>4. /\ w \in Seq(S) /\ Len(w) = n + 1 /\ w[n + 1] = x
      /\ \A i \in 1 .. n : w[i] = u[i]
  BY ONLY <1>2, <1>3, n \in Nat, m = n + 1
<1>5. \A i \in 1 .. n + 1 : w[i] = v[i]
  <2>1. \A i \in 1 .. n + 1 : i \in 1 .. n \/ i = n + 1
    OBVIOUS
  <2> QED BY <1>1, <1>4, <2>1
<1>6. w = v
  BY ONLY <1>2, <1>4, <1>5, m = n + 1, SeqEqual
<1> QED BY <1>1, <1>3, <1>6

LEMMA ItemsAppended ==
  ASSUME NEW d \in Seq(Frames), NEW f \in Frames, NEW a, a = Append(d, f)
  PROVE  /\ Items(a) = Append(Items(d), Item(f))
         /\ Items(a)' = Append(Items(d)', Item(f)')
<1>1. PICK n, m : n = Len(d) /\ m = n + 1
  OBVIOUS
<1>2. /\ n \in Nat /\ DOMAIN d = 1 .. n /\ DOMAIN a = 1 .. m
      /\ a[m] = f /\ \A i \in 1 .. n : a[i] = d[i] /\ i \in 1 .. m
      /\ m \in 1 .. m
  BY <1>1
<1>3. PICK u, v : u = Items(d) /\ v = Items(a)
  OBVIOUS
<1>4. u = [i \in 1 .. n |-> Item(d[i])] /\ v = [i \in 1 .. m |-> Item(a[i])]
  BY <1>2, <1>3 DEF Items
<1>5. IsList(n, u) /\ IsList(m, v)
  BY <1>4 DEF IsList
<1>6. v[m] = Item(f) /\ \A i \in 1 .. n : v[i] = u[i]
  BY <1>2, <1>4
<1>7. v = Append(u, v[m])
  BY ONLY <1>1, <1>2, <1>5, <1>6, OneMore
<1>8. PICK x, y : x = Items(d)' /\ y = Items(a)'
  OBVIOUS
<1>9. x = [i \in 1 .. n |-> Item(d[i])'] /\ y = [i \in 1 .. m |-> Item(a[i])']
  BY <1>2, <1>8 DEF Items
<1>10. IsList(n, x) /\ IsList(m, y)
  BY <1>9 DEF IsList
<1>11. y[m] = Item(f)' /\ \A i \in 1 .. n : y[i] = x[i]
  BY <1>2, <1>9
<1>12. y = Append(x, y[m])
  BY ONLY <1>1, <1>2, <1>10, <1>11, OneMore
<1> QED BY <1>3, <1>6, <1>7, <1>8, <1>11, <1>12

(* send_frame puts the frame into the queue, unless the frame before it    *)
(* waits for the flag that opens this one.                                 *)
LEMMA SendIsSend ==
  ASSUME LinkInv, LinkQueue, LinkQueue', NEW size \in Sizes, SendFrame(size)
  PROVE  Link!Send
<1>1. PICK k, start, r, next, f : /\ k = Len(sent) + 1 /\ f = Nibbles(k, size)
                                  /\ start = [buf |-> rf_buf, done |-> rf]
                                  /\ r = After(start, Rest) /\ next = After(start, Rest')
  OBVIOUS
<1>2. /\ sent' = Append(sent, size) /\ rf_buf' = rf_buf /\ rf' = rf /\ received' = received
  BY DEF SendFrame
<1>3. sent \in Seq(Sizes) /\ Len(sent) \in Nat /\ Len(sent') = k /\ k \in Nat
  <2>1. sent \in Seq(Sizes) /\ Len(sent) \in Nat
    BY LinkSays
  <2> QED BY <1>1, <1>2, <2>1
<1>4. start \in Receiver /\ start.buf = rf_buf /\ r.buf = Final.buf
  BY <1>1, ReceivedTyped DEF LinkQueue
<1>5. /\ Debt(r) = 1 => All(next) = All(r)
      /\ Debt(r) = 0 => f \in Frames /\ All(next) = Append(All(r), f)
      /\ Debt(r) \in {0, 1}
  <2> HIDE DEF Final
  <2> QED BY <1>1, <1>4, SentIsRead
<1>6. PICK c, e : c = Coming /\ e = Coming'
  OBVIOUS
<1>7. c = All(r) /\ InLine(c) /\ c \in Seq(Frames) /\ ItemsComing = Items(c)
  BY <1>1, <1>6 DEF LinkQueue, InLine
<1>8. e = All(next) /\ ItemsComing' = Items(e)'
  <2>1. Coming' = All(After([buf |-> rf_buf', done |-> rf'], Rest'))
    BY DEF LinkQueue, All
  <2>2. ItemsComing' = Items(Coming)'
    BY DEF LinkQueue
  <2>3. Items(Coming)' = Items(e)'
    BY <1>6 DEF Items, Item
  <2> QED BY <1>1, <1>2, <1>6, <2>1, <2>2, <2>3
<1>9. Items(c)' = Items(c)
  BY <1>1, <1>2, <1>3, <1>7, MoreSent
<1>10. Items(received)' = Items(received)
  <2>1. PICK a : a = received
    OBVIOUS
  <2>2. InLine(a)
    BY <2>1 DEF LinkQueue
  <2>3. Items(a)' = Items(a)
    BY <1>1, <1>2, <1>3, <2>2, MoreSent
  <2> QED BY <1>2, <2>1, <2>3
<1>11. ItemsComing' \in {ItemsComing, Append(ItemsComing, Link!Sound(Len(sent')))}
  <2>1. CASE Debt(r) = 1
    BY <1>5, <1>7, <1>8, <1>9, <2>1
  <2>2. CASE Debt(r) = 0
    <3>1. f \in Frames /\ e = Append(c, f)
      BY <1>5, <1>7, <1>8, <2>2
    <3>2. Items(e)' = Append(Items(c)', Item(f)')
      BY <1>7, <3>1, ItemsAppended
    <3>3. Item(f)' = Link!Sound(k)
      BY <1>1, <1>2, <1>3, <3>1, SentIsWhole
    <3> QED BY <1>3, <1>7, <1>8, <1>9, <3>1, <3>2, <3>3
  <2> QED BY <1>5, <2>1, <2>2
<1> QED BY <1>1, <1>3, <1>10, <1>11 DEF Link!Send

(* The noise that socket_recv imposes takes frames away or damages them.   *)
LEMMA NoiseIsNoise ==
  ASSUME LinkInv, LinkQueue, LinkQueue', NEW n \in BlockSizes, SocketRecv(Min({n, Len(tcp)}))
  PROVE  Link!Noise \/ UNCHANGED Link!vars
<1>1. PICK start, r, next : /\ start = [buf |-> rf_buf, done |-> rf]
                            /\ r = After(start, Rest) /\ next = After(start, Rest')
  OBVIOUS
<1>2. start \in Receiver /\ start.buf = rf_buf /\ sent \in Seq(Sizes)
  BY <1>1, ReceivedTyped, LinkSays
<1>3. /\ r \in Receiver /\ next \in Receiver
      /\ (noise' = noise /\ next = r) \/ (noise' = noise + 1 /\ Costs(End, r, next))
      /\ rf_buf' = rf_buf /\ rf' = rf /\ received' = received /\ sent' = sent
  BY <1>1, <1>2, NoiseRead
<1>4. \A frames : Items(frames)' = Items(frames)
  BY <1>3, SameFrames
<1>5. PICK c, e : c = All(r) /\ e = All(next)
  OBVIOUS
<1>6. InLine(c) /\ ItemsComing = Items(c)
  BY <1>1, <1>5 DEF LinkQueue
<1>7. Coming' = e /\ InLine(e) /\ ItemsComing' = Items(e)
  <2>1. Coming' = All(After([buf |-> rf_buf', done |-> rf'], Rest'))
    BY DEF LinkQueue, All
  <2>2. Coming' = e
    BY <1>1, <1>3, <1>5, <2>1
  <2>3. InLine(Coming)' /\ ItemsComing' = Items(Coming)'
    BY DEF LinkQueue
  <2>4. InLine(e)
    BY <1>3, <2>2, <2>3 DEF InLine
  <2>5. Items(Coming)' = Items(e)'
    BY <2>2 DEF Items, Item
  <2> QED BY <1>4, <2>2, <2>3, <2>4, <2>5
<1>8. Items(received)' = Items(received) /\ Len(sent)' = Len(sent)
  <2>1. PICK a : a = received
    OBVIOUS
  <2> QED BY <1>3, <1>4, <2>1
<1>9. CASE noise' = noise /\ next = r
  BY <1>5, <1>6, <1>7, <1>8, <1>9 DEF Link!vars
<1>10. CASE noise' = noise + 1 /\ Costs(End, r, next)
  <2>1. PICK p : p = End
    OBVIOUS
  <2>2. p.at = LastAt(p.frame) /\ ~ (p.at < LastAt(p.frame)) /\ Costs(p, r, next)
    BY <1>10, <2>1, FinalSays
  <2>3. WholeIn(e) \subseteq WholeIn(c)
    BY ONLY <1>2, <1>3, <1>5, <2>2, CostsAtEnd
  <2>4. /\ Link!SoundItems(Items(e)) = {Link!Sound(k) : k \in WholeIn(e)}
        /\ Link!SoundItems(Items(c)) = {Link!Sound(k) : k \in WholeIn(c)}
    BY <1>2, <1>6, <1>7, SoundOnes
  <2>5. Link!SoundItems(ItemsComing') \subseteq Link!SoundItems(ItemsComing)
    BY <1>6, <1>7, <2>3, <2>4
  <2>6. ItemsComing' \in Seq(Link!Item)
    BY DEF LinkQueue
  <2>7. Link!InOrder(Items(received) \o ItemsComing', Len(sent))
    <3>1. Link!InOrder(Items(received)' \o ItemsComing', Len(sent)')
      BY DEF LinkQueue, Link!InOrder
    <3> QED BY <1>8, <3>1
  <2> QED BY <1>8, <2>5, <2>6, <2>7 DEF Link!Noise
<1> QED BY <1>3, <1>9, <1>10

(* wait_for_event moves frames on, and with recv_frame the first one of    *)
(* the queue is received.                                                  *)
LEMMA CommitIsReceive ==
  ASSUME LinkInv, LinkQueue, LinkQueue', Commit
  PROVE  Link!Receive \/ UNCHANGED Link!vars
<1>1. /\ Items(All(Final))' = Items(All(Final)) /\ sent' = sent
      /\ \/ received' = received
         \/ \E c \in Frames : received' = Append(received, c)
  BY CommitSame
<1>2. \A frames : Items(frames)' = Items(frames)
  BY <1>1, SameFrames
<1>3. PICK a, u, v, w : /\ a = received /\ u = Items(a) /\ v = ItemsComing'
                        /\ w = ItemsComing
  OBVIOUS
<1>4. /\ u \in Seq(Link!Item) /\ w \in Seq(Link!Item) /\ a \in Seq(Frames)
      /\ u \o w = Items(All(Final))
  BY <1>3 DEF LinkQueue, InLine
<1>5. /\ Items(received)' \in Seq(Link!Item) /\ v \in Seq(Link!Item)
      /\ Items(received)' \o v = Items(All(Final))'
  BY <1>3 DEF LinkQueue
<1>6. CASE received' = received
  <2>1. Items(received)' = u
    BY <1>2, <1>3, <1>6
  <2>2. u \o v = u \o w
    BY <1>1, <1>4, <1>5, <2>1
  <2>3. v = w
    BY ONLY <1>4, <1>5, <2>2, ConcatSimplifications
  <2>4. Items(received)' = Items(received) /\ ItemsComing' = ItemsComing /\ Len(sent)' = Len(sent)
    BY <1>1, <1>3, <2>1, <2>3
  <2> QED BY <2>4 DEF Link!vars
<1>7. CASE \E c \in Frames : received' = Append(received, c)
  <2>1. PICK c \in Frames : received' = Append(a, c)
    BY <1>3, <1>7
  <2>2. PICK b, x : b = Append(a, c) /\ x = Item(c)
    OBVIOUS
  <2>3. Items(b) = Append(u, x)
    BY <1>3, <1>4, <2>2, ItemsAppended
  <2>4. Items(received)' = Append(u, x)
    <3>1. Items(received)' = Items(b)'
      BY <2>1, <2>2 DEF Items, Item
    <3> QED BY <1>2, <2>3, <3>1
  <2>5. x \in Link!Item
    <3>1. Append(u, x) \in Seq(Link!Item)
      BY <1>5, <2>4
    <3>2. PICK y, m : y = Append(u, x) /\ m = Len(u) + 1
      OBVIOUS
    <3>3. y[m] = x /\ m \in 1 .. Len(y)
      BY <1>4, <3>2
    <3> QED BY <3>1, <3>2, <3>3
  <2>6. Append(u, x) \o v = u \o w
    BY <1>1, <1>4, <1>5, <2>4
  <2>7. w # <<>> /\ x = Head(w) /\ v = Tail(w)
    <3>1. PICK S : S = Link!Item
      OBVIOUS
    <3>2. u \in Seq(S) /\ v \in Seq(S) /\ w \in Seq(S) /\ x \in S
      BY <1>4, <1>5, <2>5, <3>1
    <3>3. Moves(u, x, v, w)
      BY <2>6 DEF Moves
    <3>4. Taken(x, v, w)
      BY ONLY <3>2, <3>3, MovedIsTaken
    <3> QED BY <3>4 DEF Taken
  <2> QED BY <1>1, <1>3, <2>4, <2>7 DEF Link!Receive
<1> QED BY <1>1, <1>6, <1>7

LEMMA NoisyStep ==
  ASSUME LinkInv, LinkQueue, LinkQueue', [Next]_vars
  PROVE  [Link!Next]_<<Len(sent), ItemsComing, Items(received)>>
<1>1. CASE \E size \in Sizes : SendFrame(size)
  BY <1>1, SendIsSend DEF Link!Next
<1>2. CASE \E n \in BlockSizes : SocketRecv(Min({n, Len(tcp)}))
  BY <1>2, NoiseIsNoise DEF Link!Next, Link!vars
<1>3. CASE Commit
  BY <1>3, CommitIsReceive DEF Link!Next, Link!vars
<1>4. CASE UNCHANGED vars
  <2>1. /\ sent' = sent /\ tcp' = tcp /\ rblk' = rblk /\ rf_buf' = rf_buf /\ rf' = rf
        /\ received' = received
    BY <1>4 DEF vars
  <2>2. ItemsComing' = ItemsComing
    BY <2>1 DEF ItemsComing, Coming, Items, Item
  <2>3. Items(received)' = Items(received)
    BY <2>1 DEF Items, Item
  <2> QED BY <2>1, <2>2, <2>3
<1> QED BY <1>1, <1>2, <1>3, <1>4 DEF Next

(* The bytes, blocks and flags, with the noise, implement the queue of     *)
(* frames in which the noise only takes frames away or damages them: none  *)
(* comes twice, before an earlier one, or mended.                          *)
THEOREM NoisyLinkImplemented == Spec => ImplementsNoisyLink
<1>1. Init => Link!Init
  <2> SUFFICES ASSUME Init PROVE Link!Init
    OBVIOUS
  <2>1. /\ sent = <<>> /\ tcp = <<>> /\ rblk = <<>> /\ rf = <<>> /\ received = <<>>
        /\ rf_buf = NoFrame
    BY DEF Init
  <2>2. PICK start : start = [buf |-> rf_buf, done |-> rf]
    OBVIOUS
  <2>3. Rest = <<>>
    BY <2>1, FlattenNone DEF Rest
  <2>4. After(start, Rest) = start
    BY <2>3, AfterNone
  <2>5. Length(start.buf.nibbles) = 0 /\ start.done = <<>>
    BY <2>1, <2>2 DEF NoFrame, Length
  <2>6. Coming = <<>>
    BY <2>2, <2>4, <2>5, ComingIs DEF All
  <2>7. Items(<<>>) = <<>>
    BY DEF Items
  <2>8. ItemsComing = <<>> /\ Items(received) = <<>> /\ Len(sent) = 0
    BY <2>1, <2>6, <2>7, ItemsComingIs
  <2> QED BY <2>8 DEF Link!Init
<1>2. LinkInv /\ LinkQueue /\ LinkQueue' /\ [Next]_vars
        => [Link!Next]_<<Len(sent), ItemsComing, Items(received)>>
  BY NoisyStep
<1> QED BY <1>1, <1>2, QueueOrdered, LinkInvCorrect, PTL
        DEF Spec, ImplementsNoisyLink, Link!Spec, Link!vars
=============================================================================
