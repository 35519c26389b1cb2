---------------------------- MODULE PartsProofs ----------------------------
(***************************************************************************)
(* Two parts that do not meet, and that are reasoned about in the same     *)
(* way, by numbers of blocks or lines.                                     *)
(*                                                                         *)
(* LoopInv is an invariant of the event loop, for any sizes, rate, timers  *)
(* and levels that leave room for QueueBound: what waits in the sending    *)
(* queue and what is still owed fit, whatever the peer sends.              *)
(*                                                                         *)
(* BlockingInv is an invariant of the first relay, for any table, hash     *)
(* function, users and numbers of datagrams: the query it serves is in     *)
(* client, and the list of its name has the line that counts in front of   *)
(* the others for it.                                                      *)
(***************************************************************************)
EXTENDS EventLoop, BlockingRelay, WellFoundedInduction, SequenceTheorems,
        FiniteSetTheorems, TLAPS

Below == {p \in Nat \X Nat : p[1] < p[2]}

(* A set of natural numbers has a least one, since going down ends. *)
LEMMA LeastNatural ==
  ASSUME NEW T, T \subseteq Nat, T # {}
  PROVE  \E x \in T : \A y \in T : x <= y
<1>1. OpToRel(<, Nat) = Below
  BY DEF OpToRel, Below
<1>2. IsWellFoundedOn(Below, Nat)
  BY <1>1, NatLessThanWellFounded
<1>3. PICK x \in T : \A y \in T : ~ (<<y, x>> \in Below)
  BY <1>2, WFMin
<1>4. ASSUME NEW y \in T, y < x PROVE FALSE
  <2>1. <<y, x>> \in Nat \X Nat
    OBVIOUS
  <2>2. <<y, x>> \in Below
    BY <2>1, <1>4 DEF Below
  <2> QED BY <2>2, <1>3
<1> QED BY <1>3, <1>4


(* What holds at the start and is kept by every line holds at the end.     *)
LEMMA GoesOn ==
  ASSUME NEW n \in Nat, NEW G, 0 \in G, \A i \in 1 .. n : i - 1 \in G => i \in G
  PROVE  \A i \in 0 .. n : i \in G
<1> DEFINE T == {i \in 0 .. n : i \notin G}
<1> SUFFICES ASSUME T # {} PROVE FALSE
  OBVIOUS
<1>1. PICK i \in T : \A j \in T : i <= j
  <2>1. T \subseteq Nat
    OBVIOUS
  <2> HIDE DEF T
  <2> QED BY <2>1, LeastNatural
<1>2. i \in 1 .. n /\ i \notin G
  BY <1>1
<1>3. i - 1 \in 0 .. n /\ i - 1 \notin T
  BY <1>1, <1>2
<1> QED BY <1>2, <1>3

-----------------------------------------------------------------------------
(* The event loop. *)

(* What the present event may put into the queue, if it is no packet of    *)
(* the network layer.                                                      *)
Pending ==
  CASE event = "DATA_TIMEOUT" -> DataLen
    [] event \in {"FRAME_RECEIVED", "ACK_TIMEOUT"} -> ControlLen
    [] OTHER -> 0

AckDue == IF timer[ACK_TIMER_ID] = Off THEN 0 ELSE ControlLen

(* What may be put into the queue before a data timer expires: a frame in  *)
(* each block is answered, by a control frame or, once for each slot, with *)
(* DATA.                                                                   *)
Owed ==
  Pending + AckDue + ControlLen * Len(rblk)
    + (DataLen - ControlLen) * Cardinality(outstanding \ nakked)

(* The data timers that expire within x. *)
ExpiringIn(x) == {s \in Slot : timer[s] # Off /\ timer[s] <= x}

QueueFits == sq_len + Owed <= QueueBound

(* Half of what the channel takes until they expire is enough for them:    *)
(* the other half takes the answers to what arrives.                       *)
TimersFit ==
  \A x \in Nat :
    2 * (sq_len + Owed + DataLen * Cardinality(ExpiringIn(x)))
      <= 2 * QueueBound + Rate * (x + elapsed)

(* One block in a unit of time.                                            *)
BlocksSpaced ==
  /\ Len(rblk) <= Delay
  /\ \A k \in 1 .. Len(rblk) :
       rblk[k].wait = 0 \/ rblk[k].wait + elapsed + (Len(rblk) - k) <= Delay

Reported ==
  /\ phl_ready \/ network_layer_active \/ event = "PHYSICAL_LAYER_READY" =>
       sq_len < PHL_SQ_LEVEL
  /\ event = "NETWORK_LAYER_READY" => network_layer_active
  /\ network_layer_active => Cardinality(outstanding) < NR_BUFS

LoopInv ==
  /\ NeverOverflows
  /\ FramesWaiting <= MaxFrames
  /\ event = "FRAME_RECEIVED" => rf > 0
  /\ event = "DATA_TIMEOUT" => arg \in Slot
  /\ BlocksSpaced
  /\ Reported
  /\ QueueFits
  /\ TimersFit

-----------------------------------------------------------------------------
(* Numbers. *)

LEMMA MaxOfTwo ==
  ASSUME NEW x \in Int, NEW y \in Int
  PROVE  Max({x, y}) = IF x >= y THEN x ELSE y
<1>1. PICK S : S = {x, y}
  OBVIOUS
<1>2. \E z \in S : \A v \in S : z >= v
  BY <1>1
<1>3. Max(S) \in S /\ \A v \in S : Max(S) >= v
  BY <1>2 DEF Max
<1> HIDE DEF Max
<1> QED BY <1>1, <1>3

LEMMA Times ==
  ASSUME NEW f \in Nat, NEW x \in Nat, NEW y \in Nat, x <= y
  PROVE  f * x \in Nat /\ f * y \in Nat /\ f * x <= f * y
OBVIOUS

(* The time the channel takes for twice q, rounded up, is enough.          *)
LEMMA RoundedUp ==
  ASSUME NEW q \in Nat
  PROVE  /\ (2 * q + Rate - 1) \div Rate \in Nat
         /\ 2 * q <= Rate * ((2 * q + Rate - 1) \div Rate)
<1>1. PICK r : r = Rate /\ r \in Nat \ {0}
  BY EventLoopAssumption
<1>2. PICK p : p = 2 * q + r - 1 /\ p \in Nat
  BY <1>1
<1>3. p \div r \in Nat /\ p < r * (p \div r) + r
  BY <1>1, <1>2
<1> QED BY <1>1, <1>2, <1>3

(* What the assumptions say, with the sums of QueueBound as numbers.       *)
LEMMA Sizes ==
  /\ {NR_BUFS, DataLen, ControlLen, Rate, SQ_SIZE, PHL_SQ_LEVEL, DATA_TIMER,
      ACK_TIMER, Delay, PacketGap, Wrap} \subseteq Nat \ {0}
  /\ {Idle, MaxFrames} \subseteq Nat
  /\ ControlLen <= DataLen /\ 2 * ControlLen <= Rate
  /\ QueueBound < SQ_SIZE /\ QueueBound \in Nat
  /\ PHL_SQ_LEVEL - 1 + ControlLen * Delay + NR_BUFS * (2 * DataLen - ControlLen) <= QueueBound
  /\ ControlLen + ControlLen * Delay + NR_BUFS * (2 * DataLen - ControlLen) <= QueueBound
  /\ ControlLen * Delay \in Nat /\ NR_BUFS * (2 * DataLen - ControlLen) \in Nat
<1>1. /\ {NR_BUFS, DataLen, ControlLen, Rate, SQ_SIZE, PHL_SQ_LEVEL, DATA_TIMER,
          ACK_TIMER, Delay, PacketGap, Wrap} \subseteq Nat \ {0}
      /\ {Idle, MaxFrames} \subseteq Nat
      /\ ControlLen <= DataLen /\ 2 * ControlLen <= Rate
      /\ QueueBound < SQ_SIZE
  BY EventLoopAssumption, SizesAssumption
<1>2. PICK x \in Nat, y \in Nat :
        /\ x = ControlLen * Delay
        /\ y = NR_BUFS * (2 * DataLen - ControlLen)
  <2>1. ControlLen * Delay \in Nat /\ 2 * DataLen - ControlLen \in Nat
    BY <1>1
  <2>2. NR_BUFS * (2 * DataLen - ControlLen) \in Nat
    BY <1>1, <2>1
  <2> QED BY <2>1, <2>2
<1>3. PICK m : m = Max({PHL_SQ_LEVEL - 1, ControlLen})
  OBVIOUS
<1>4. m \in Nat /\ PHL_SQ_LEVEL - 1 <= m /\ ControlLen <= m
  BY <1>1, <1>3, MaxOfTwo
<1>5. QueueBound = m + x + y
  BY <1>2, <1>3 DEF QueueBound
<1> QED BY <1>1, <1>2, <1>4, <1>5

(* What k slots that may be asked for and n timers owe.                    *)
LEMMA SlotsOwe ==
  ASSUME NEW k \in 0 .. NR_BUFS, NEW n \in 0 .. NR_BUFS
  PROVE  /\ (DataLen - ControlLen) * k \in Nat
         /\ DataLen * n \in Nat
         /\ (DataLen - ControlLen) * k + DataLen * n <= NR_BUFS * (2 * DataLen - ControlLen)
         /\ n < NR_BUFS => (DataLen - ControlLen) * k + DataLen * n + DataLen
                             <= NR_BUFS * (2 * DataLen - ControlLen)
<1>1. PICK u, v, r : u = DataLen - ControlLen /\ v = DataLen /\ r = NR_BUFS
  OBVIOUS
<1>2. u \in Nat /\ v \in Nat /\ r \in Nat /\ k \in Nat /\ n \in Nat /\ k <= r /\ n <= r
  BY <1>1, Sizes
<1>3. /\ u * k \in Nat /\ u * r \in Nat /\ u * k <= u * r
      /\ v * n \in Nat /\ v * r \in Nat /\ v * n <= v * r
  BY <1>2, Times
<1>4. r * (u + v) = u * r + v * r
  BY <1>2
<1>5. NR_BUFS * (2 * DataLen - ControlLen) = r * (u + v)
  BY <1>1, Sizes
<1>6. ASSUME n < r PROVE v * n + v <= v * r
  <2>1. v * (n + 1) = v * n + v
    BY <1>2
  <2>2. n + 1 <= r /\ n + 1 \in Nat
    BY <1>2, <1>6
  <2>3. v * (n + 1) <= v * r
    BY <1>2, <2>2, Times
  <2> QED BY <2>1, <2>3
<1>7. u * k + v * n <= r * (u + v) /\ (n < r => u * k + v * n + v <= r * (u + v))
  BY <1>2, <1>3, <1>4, <1>6
<1>8. u * k \in Nat /\ v * n \in Nat
  BY <1>3
<1> QED BY ONLY <1>1, <1>5, <1>7, <1>8

(* Sets of slots. *)
LEMMA SlotsCounted ==
  ASSUME NEW S \in SUBSET Slot
  PROVE  /\ IsFiniteSet(S) /\ Cardinality(S) \in 0 .. NR_BUFS
         /\ \A T \in SUBSET S : Cardinality(T) <= Cardinality(S)
         /\ \A s \in S : Cardinality(S \ {s}) = Cardinality(S) - 1
<1>1. IsFiniteSet(Slot) /\ Cardinality(Slot) = NR_BUFS
  <2>1. NR_BUFS \in Nat \ {0}
    BY Sizes
  <2>2. PICK m \in Int : m = NR_BUFS - 1 /\ m >= 0
    BY <2>1
  <2>3. IsFiniteSet(0 .. m) /\ Cardinality(0 .. m) = m - 0 + 1
    BY <2>2, FS_Interval
  <2> QED BY <2>1, <2>2, <2>3 DEF Slot
<1>2. IsFiniteSet(S) /\ Cardinality(S) <= NR_BUFS
  BY <1>1, FS_Subset
<1>3. Cardinality(S) \in Nat
  BY <1>2, FS_CardinalityType
<1>4. \A T \in SUBSET S : Cardinality(T) <= Cardinality(S)
  BY <1>2, FS_Subset
<1>5. \A s \in S : Cardinality(S \ {s}) = Cardinality(S) - 1
  BY <1>2, FS_RemoveElement
<1> QED BY <1>2, <1>3, <1>4, <1>5, Sizes

(* A timer expires within x of now if it does within x + d of d earlier.   *)
LEMMA AgedIs ==
  ASSUME NEW t \in {Off} \cup Nat, NEW d \in {0, 1}
  PROVE  /\ Aged(t, d) \in {Off} \cup Nat
         /\ Aged(t, d) = Off <=> t = Off
         /\ t # Off => Aged(t, d) = IF t >= d THEN t - d ELSE 0
         /\ \A x \in Nat : Aged(t, d) # Off /\ Aged(t, d) <= x <=> t # Off /\ t <= x + d
<1>1. CASE t = Off
  BY <1>1 DEF Aged, Off
<1>2. CASE t # Off
  <2>1. t \in Nat /\ t - d \in Int
    BY <1>2
  <2>2. Aged(t, d) = IF t - d >= 0 THEN t - d ELSE 0
    BY <1>2, <2>1, MaxOfTwo DEF Aged, Expired
  <2> QED BY <1>2, <2>1, <2>2 DEF Off
<1> QED BY <1>1, <1>2

-----------------------------------------------------------------------------
(* Blocks. *)

Block == [wait : 0 .. Delay, frames : 0 .. MaxFrames]

Sums(blocks, sum) ==
  /\ sum[0] = 0
  /\ \A n \in 1 .. Len(blocks) : sum[n] = sum[n - 1] + blocks[n].frames
  /\ FramesOf(blocks) = sum[Len(blocks)]

(* FramesOf, block by block. *)
LEMMA FramesSummed ==
  ASSUME NEW blocks, Len(blocks) \in Nat
  PROVE  \E sum : Sums(blocks, sum)
<1> DEFINE Step(r, i) == IF i = 0 THEN 0 ELSE r[i - 1] + blocks[i].frames
           UpTo(n, r) == r = [i \in 0 .. n |-> Step(r, i)]
           T == {n \in Nat : ~ \E r : UpTo(n, r)}
<1>1. ASSUME T # {} PROVE FALSE
  <2>1. PICK n \in T : \A k \in T : n <= k
    <3>1. T \subseteq Nat
      OBVIOUS
    <3> HIDE DEF T
    <3> QED BY <1>1, <3>1, LeastNatural
  <2>2. n \in Nat /\ ~ \E r : UpTo(n, r)
    BY <2>1
  <2>3. CASE n = 0
    <3> DEFINE r == [i \in 0 .. 0 |-> 0]
    <3>1. [i \in 0 .. 0 |-> Step(r, i)] = r
      OBVIOUS
    <3>2. UpTo(n, r)
      BY <2>3, <3>1
    <3> QED BY <2>2, <3>2
  <2>4. CASE n > 0
    <3>1. PICK f : UpTo(n - 1, f)
      <4>1. n - 1 \in Nat /\ ~ n <= n - 1
        BY <2>2, <2>4
      <4>2. n - 1 \notin T
        <5> HIDE DEF T
        <5> QED BY <2>1, <4>1
      <4> QED BY <4>1, <4>2
    <3> DEFINE r == [i \in 0 .. n |-> Step(f, i)]
    <3>2. \A i \in 0 .. (n - 1) : r[i] = f[i]
      <4> TAKE i \in 0 .. (n - 1)
      <4>1. f[i] = Step(f, i)
        <5> HIDE DEF Step
        <5> QED BY <3>1
      <4>2. i \in 0 .. n
        BY <2>2
      <4> HIDE DEF Step
      <4> QED BY <4>1, <4>2
    <3>3. ASSUME NEW i \in 0 .. n PROVE Step(r, i) = Step(f, i)
      <4>1. CASE i = 0
        BY <4>1
      <4>2. CASE i # 0
        <5>1. r[i - 1] = f[i - 1]
          <6>1. i - 1 \in 0 .. (n - 1)
            BY <4>2, <2>2
          <6> QED BY <6>1, <3>2
        <5> HIDE DEF r
        <5> QED BY <4>2, <5>1
      <4> QED BY <4>1, <4>2
    <3>4. r = [i \in 0 .. n |-> Step(r, i)]
      <4> HIDE DEF Step
      <4> QED BY <3>3
    <3>5. UpTo(n, r)
      BY <3>4
    <3> QED BY <2>2, <3>5
  <2> QED BY <2>2, <2>3, <2>4
<1>2. PICK f : UpTo(Len(blocks), f)
  BY <1>1
<1> DEFINE sum == CHOOSE r : UpTo(Len(blocks), r)
<1>3. UpTo(Len(blocks), sum)
  BY <1>2
<1>4. FramesOf(blocks) = sum[Len(blocks)]
  BY DEF FramesOf
<1>5. PICK s : s = sum
  OBVIOUS
<1>6. s = [i \in 0 .. Len(blocks) |-> Step(s, i)]
  BY <1>3, <1>5
<1>7. s[0] = 0
  BY <1>6
<1>8. ASSUME NEW n \in 1 .. Len(blocks) PROVE s[n] = s[n - 1] + blocks[n].frames
  <2>1. n \in 0 .. Len(blocks) /\ n # 0
    OBVIOUS
  <2> QED BY <1>6, <2>1
<1>9. Sums(blocks, s)
  BY <1>4, <1>5, <1>7, <1>8 DEF Sums
<1> QED BY <1>9

LEMMA SumsInNat ==
  ASSUME NEW blocks, NEW n \in Nat, n = Len(blocks),
         \A k \in 1 .. n : blocks[k].frames \in Nat,
         NEW sum, Sums(blocks, sum)
  PROVE  \A k \in 0 .. n : sum[k] \in Nat
<1> DEFINE G == {k \in 0 .. n : sum[k] \in Nat}
<1>1. 0 \in G
  BY DEF Sums
<1>2. ASSUME NEW k \in 1 .. n, k - 1 \in G PROVE k \in G
  BY <1>2 DEF Sums
<1>3. \A k \in 0 .. n : k \in G
  <2> HIDE DEF G
  <2> QED BY <1>1, <1>2, GoesOn
<1> QED BY <1>3

(* Sums over the same frames. *)
LEMMA SumsAgree ==
  ASSUME NEW some, NEW s, Sums(some, s), NEW more, NEW t, Sums(more, t),
         NEW m \in Nat, m = Len(some), m <= Len(more), Len(more) \in Nat,
         \A k \in 1 .. m : some[k].frames = more[k].frames
  PROVE  t[m] = s[m]
<1> DEFINE G == {k \in 0 .. m : t[k] = s[k]}
<1>1. 0 \in G
  BY DEF Sums
<1>2. ASSUME NEW k \in 1 .. m, k - 1 \in G PROVE k \in G
  BY <1>2 DEF Sums
<1>3. m \in G
  <2> HIDE DEF G
  <2>1. \A k \in 0 .. m : k \in G
    BY <1>1, <1>2, GoesOn
  <2> QED BY <2>1
<1> QED BY <1>3

(* Sums over the same frames, from the next block on. *)
LEMMA SumsAgreeBehind ==
  ASSUME NEW some, NEW s, Sums(some, s), NEW more, NEW t, Sums(more, t),
         NEW m \in Nat, m = Len(some), Len(more) = m + 1, t[1] \in Nat,
         \A k \in 1 .. m : some[k].frames \in Nat /\ some[k].frames = more[k + 1].frames
  PROVE  t[m + 1] = t[1] + s[m]
<1>1. \A k \in 0 .. m : s[k] \in Nat
  BY SumsInNat
<1> DEFINE G == {k \in 0 .. m : t[k + 1] = t[1] + s[k]}
<1>2. 0 \in G
  BY DEF Sums
<1>3. ASSUME NEW k \in 1 .. m, k - 1 \in G PROVE k \in G
  <2>1. k + 1 \in 1 .. m + 1 /\ (k + 1) - 1 = (k - 1) + 1 /\ k - 1 \in 0 .. m
    OBVIOUS
  <2>2. t[k + 1] = t[(k - 1) + 1] + more[k + 1].frames
    BY <2>1 DEF Sums
  <2>3. s[k] = s[k - 1] + some[k].frames
    BY DEF Sums
  <2>4. t[(k - 1) + 1] = t[1] + s[k - 1]
    BY <1>3
  <2>5. s[k - 1] \in Nat /\ some[k].frames \in Nat
    BY <1>1, <2>1
  <2>6. t[k + 1] = t[1] + s[k]
    BY <2>2, <2>3, <2>4, <2>5
  <2> QED BY <2>6
<1>4. m \in G
  <2> HIDE DEF G
  <2>1. \A k \in 0 .. m : k \in G
    BY <1>2, <1>3, GoesOn
  <2> QED BY <2>1
<1> QED BY <1>4

LEMMA FramesCounted ==
  ASSUME NEW blocks \in Seq(Block)
  PROVE  /\ Len(blocks) \in Nat /\ FramesOf(blocks) \in Nat
         /\ \A k \in 1 .. Len(blocks) : blocks[k] \in Block /\ blocks[k].frames \in Nat
<1>1. Len(blocks) \in Nat /\ \A k \in 1 .. Len(blocks) : blocks[k] \in Block
  OBVIOUS
<1>2. \A k \in 1 .. Len(blocks) : blocks[k].frames \in Nat
  BY <1>1 DEF Block
<1>3. PICK s : Sums(blocks, s)
  BY <1>1, FramesSummed
<1>4. s[Len(blocks)] \in Nat
  <2>1. Len(blocks) \in 0 .. Len(blocks)
    BY <1>1
  <2> QED BY <1>1, <1>2, <1>3, <2>1, SumsInNat
<1> QED BY <1>1, <1>2, <1>3, <1>4 DEF Sums

LEMMA FramesSame ==
  ASSUME NEW blocks \in Seq(Block), NEW other \in Seq(Block), Len(other) = Len(blocks),
         \A k \in 1 .. Len(blocks) : other[k].frames = blocks[k].frames
  PROVE  FramesOf(other) = FramesOf(blocks)
<1>1. PICK m : m = Len(blocks) /\ m \in Nat
  BY FramesCounted
<1>2. /\ \A k \in 1 .. m : blocks[k].frames \in Nat
      /\ \A k \in 1 .. m : other[k].frames = blocks[k].frames
      /\ Len(other) = m
  BY <1>1, FramesCounted
<1>3. PICK s : Sums(blocks, s)
  BY <1>1, FramesSummed
<1>4. PICK t : Sums(other, t)
  BY <1>1, <1>2, FramesSummed
<1>5. t[m] = s[m]
  BY <1>1, <1>2, <1>3, <1>4, SumsAgree
<1> QED BY <1>1, <1>2, <1>3, <1>4, <1>5 DEF Sums

LEMMA FramesTail ==
  ASSUME NEW blocks \in Seq(Block), blocks # <<>>, NEW rest, rest = Tail(blocks)
  PROVE  /\ rest \in Seq(Block) /\ Len(blocks) = Len(rest) + 1 /\ Len(rest) \in Nat
         /\ Head(blocks) = blocks[1] /\ Head(blocks) \in Block
         /\ \A k \in 1 .. Len(rest) : rest[k] = blocks[k + 1]
         /\ FramesOf(blocks) = FramesOf(rest) + Head(blocks).frames
<1>1. /\ rest \in Seq(Block) /\ Len(blocks) = Len(rest) + 1 /\ Len(rest) \in Nat
      /\ Head(blocks) = blocks[1] /\ Head(blocks) \in Block
      /\ \A k \in 1 .. Len(rest) : rest[k] = blocks[k + 1]
  OBVIOUS
<1>2. PICK m : m = Len(rest) /\ m \in Nat /\ Len(blocks) = m + 1
  BY <1>1
<1>3. /\ \A k \in 1 .. m + 1 : blocks[k].frames \in Nat
      /\ \A k \in 1 .. m : rest[k].frames \in Nat
  BY <1>1, <1>2, FramesCounted
<1>4. PICK s : Sums(rest, s)
  BY <1>2, FramesSummed
<1>5. PICK t : Sums(blocks, t)
  BY <1>2, FramesSummed
<1>6. t[1] = Head(blocks).frames
  <2>1. 1 \in 1 .. Len(blocks) /\ 1 - 1 = 0
    BY <1>2
  <2>2. t[1] = t[0] + blocks[1].frames /\ t[0] = 0 /\ blocks[1].frames \in Nat
    BY <1>2, <1>3, <1>5, <2>1 DEF Sums
  <2> QED BY <1>1, <2>2
<1>7. s[m] \in Nat /\ t[1] \in Nat
  <2>1. s[m] = FramesOf(rest)
    BY <1>2, <1>4 DEF Sums
  <2>2. 1 \in 1 .. m + 1
    BY <1>2
  <2> QED BY <1>1, <1>3, <1>6, <2>1, <2>2, FramesCounted
<1>8. t[m + 1] = t[1] + s[m]
  <2>1. \A k \in 1 .. m : rest[k].frames \in Nat /\ rest[k].frames = blocks[k + 1].frames
    BY <1>1, <1>2, <1>3
  <2>2. m \in Nat /\ m = Len(rest) /\ Len(blocks) = m + 1 /\ t[1] \in Nat
    BY <1>2, <1>7
  <2> QED BY ONLY <1>4, <1>5, <2>1, <2>2, SumsAgreeBehind
<1>9. FramesOf(blocks) = t[m + 1] /\ FramesOf(rest) = s[m]
  BY <1>2, <1>4, <1>5 DEF Sums
<1> QED BY <1>1, <1>6, <1>7, <1>8, <1>9

LEMMA FramesAppend ==
  ASSUME NEW blocks \in Seq(Block), NEW more \in Seq(Block), Len(more) = Len(blocks) + 1,
         \A k \in 1 .. Len(blocks) : more[k] = blocks[k]
  PROVE  FramesOf(more) = FramesOf(blocks) + more[Len(more)].frames
<1>1. Len(blocks) \in Nat
  OBVIOUS
<1>2. PICK m : m = Len(blocks) /\ m \in Nat /\ Len(more) = m + 1 /\ m + 1 \in Nat
  BY <1>1
<1>3. /\ \A k \in 1 .. m + 1 : more[k].frames \in Nat
      /\ \A k \in 1 .. m : blocks[k].frames \in Nat
  BY <1>1, <1>2, FramesCounted
<1>4. PICK s : Sums(blocks, s)
  BY <1>2, FramesSummed
<1>5. PICK t : Sums(more, t)
  BY <1>2, FramesSummed
<1>6. t[m] = s[m]
  <2>1. \A k \in 1 .. m : blocks[k].frames = more[k].frames
    BY <1>1, <1>2
  <2>2. m \in Nat /\ m = Len(blocks) /\ m <= Len(more) /\ Len(more) \in Nat
    BY <1>2
  <2> QED BY ONLY <1>4, <1>5, <2>1, <2>2, SumsAgree
<1>7. s[m] = FramesOf(blocks)
  BY <1>2, <1>4, <1>5, FramesCounted DEF Sums
<1>8. t[m + 1] = t[m] + more[Len(more)].frames /\ FramesOf(more) = t[m + 1]
  <2>1. m + 1 \in 1 .. m + 1 /\ (m + 1) - 1 = m
    BY <1>2
  <2> QED BY <1>1, <1>2, <1>5, <2>1 DEF Sums
<1> QED BY <1>6, <1>7, <1>8

(* A unit of time, or none, goes by. *)
LEMMA WaitingIs ==
  ASSUME NEW blocks \in Seq(Block), NEW d \in {0, 1}, NEW later, later = Waiting(blocks, d)
  PROVE  /\ later \in Seq(Block) /\ Len(later) = Len(blocks) /\ Len(blocks) \in Nat
         /\ FramesOf(later) = FramesOf(blocks)
         /\ \A k \in 1 .. Len(blocks) :
              /\ blocks[k].wait \in Nat
              /\ later[k].wait = IF blocks[k].wait >= d THEN blocks[k].wait - d ELSE 0
<1>1. Len(blocks) \in Nat /\ \A k \in 1 .. Len(blocks) : blocks[k] \in Block
  BY FramesCounted
<1>2. ASSUME NEW b \in Block
      PROVE  /\ b.wait \in Nat
             /\ Aged(b.wait, d) = IF b.wait >= d THEN b.wait - d ELSE 0
             /\ [b EXCEPT !.wait = Aged(@, d)] \in Block
             /\ [b EXCEPT !.wait = Aged(@, d)].wait = Aged(b.wait, d)
             /\ [b EXCEPT !.wait = Aged(@, d)].frames = b.frames
  <2>1. b.wait \in 0 .. Delay /\ b.wait # Off /\ Delay \in Nat
    BY Sizes DEF Block, Off
  <2>2. Aged(b.wait, d) = IF b.wait >= d THEN b.wait - d ELSE 0
    BY <2>1, AgedIs
  <2>3. Aged(b.wait, d) \in 0 .. Delay
    BY <2>1, <2>2
  <2> QED BY <2>1, <2>2, <2>3 DEF Block
<1>3. later = [k \in 1 .. Len(blocks) |-> [blocks[k] EXCEPT !.wait = Aged(@, d)]]
  BY DEF Waiting
<1>4. later \in Seq(Block) /\ Len(later) = Len(blocks)
  <2>1. \A k \in 1 .. Len(blocks) : [blocks[k] EXCEPT !.wait = Aged(@, d)] \in Block
    BY <1>1, <1>2
  <2> QED BY <1>1, <1>3, <2>1
<1>5. \A k \in 1 .. Len(blocks) :
        /\ blocks[k].wait \in Nat
        /\ later[k].wait = IF blocks[k].wait >= d THEN blocks[k].wait - d ELSE 0
        /\ later[k].frames = blocks[k].frames
  BY <1>1, <1>2, <1>3
<1>6. FramesOf(later) = FramesOf(blocks)
  BY <1>4, <1>5, FramesSame
<1> QED BY <1>1, <1>4, <1>5, <1>6

-----------------------------------------------------------------------------
(* A pass. *)

LEMMA Types ==
  ASSUME LoopInv
  PROVE  /\ sq_len \in Nat /\ elapsed \in Nat /\ rf \in Nat /\ rf <= MaxFrames
         /\ rblk \in Seq(Block) /\ Len(rblk) \in Nat
         /\ timer \in [Timer -> {Off} \cup Nat] /\ arg \in Timer
         /\ outstanding \in SUBSET Slot /\ nakked \in SUBSET outstanding
         /\ outstanding \ nakked \in SUBSET Slot
         /\ \A x : ExpiringIn(x) \in SUBSET Slot
         /\ ACK_TIMER_ID \in Timer /\ ACK_TIMER_ID \notin Slot /\ Timer = Slot \cup {ACK_TIMER_ID}
<1>1. rblk \in Seq(Block)
  BY DEF LoopInv, NeverOverflows, TypeOK, Block
<1>2. /\ ACK_TIMER_ID \in Timer /\ ACK_TIMER_ID \notin Slot
      /\ Timer = Slot \cup {ACK_TIMER_ID}
  <2>1. PICK n \in Nat \ {0} : n = NR_BUFS
    BY Sizes
  <2>2. n \in 0 .. n /\ n \notin 0 .. n - 1 /\ 0 .. n = (0 .. n - 1) \cup {n}
    BY <2>1
  <2> QED BY <2>1, <2>2 DEF ACK_TIMER_ID, Timer, Slot
<1>3. rf \in Nat /\ rf <= MaxFrames
  BY Sizes DEF LoopInv, NeverOverflows, TypeOK
<1>4. \A x : ExpiringIn(x) \in SUBSET Slot
  BY DEF ExpiringIn
<1> QED BY <1>1, <1>2, <1>3, <1>4, FramesCounted DEF LoopInv, NeverOverflows, TypeOK

(* A set of numbers has a least. *)
LEMMA MinIs ==
  ASSUME NEW S, S \subseteq Nat, S # {}
  PROVE  Min(S) \in S
<1>1. \E x \in S : \A y \in S : x <= y
  BY LeastNatural
<1> QED BY <1>1 DEF Min

(* The blocks that were there stay spaced while time goes by.              *)
LEMMA LaterBlocks ==
  ASSUME LoopInv, NEW d \in {0, 1}, NEW rest, NEW left, left = Waiting(rest, d),
         \/ rest = rblk
         \/ rblk # <<>> /\ rest = Tail(rblk)
  PROVE  /\ left \in Seq(Block) /\ Len(left) = Len(rest) /\ Len(left) \in Nat
         /\ FramesOf(left) = FramesOf(rest) /\ FramesOf(rest) \in Nat
         /\ Len(rest) <= Len(rblk)
         /\ \A k \in 1 .. Len(left) :
              \/ left[k].wait = 0
              \/ left[k].wait + (elapsed + d) + (Len(left) - k) <= Delay
         /\ \A k \in 1 .. Len(left) : left[k].wait \in Nat
<1>1. rblk \in Seq(Block) /\ Len(rblk) \in Nat /\ elapsed \in Nat /\ Delay \in Nat
  BY Types, Sizes
<1>2. PICK o \in {0, 1} :
        /\ rest \in Seq(Block) /\ Len(rest) \in Nat
        /\ Len(rblk) = Len(rest) + o
        /\ \A k \in 1 .. Len(rest) : rest[k] = rblk[k + o]
  <2>1. CASE rest = rblk
    <3>1. \A k \in 1 .. Len(rest) : k + 0 = k
      BY <1>1, <2>1
    <3> QED BY <1>1, <2>1, <3>1
  <2>2. CASE rblk # <<>> /\ rest = Tail(rblk)
    BY <1>1, <2>2, FramesTail
  <2> QED BY <2>1, <2>2
<1>3. /\ left \in Seq(Block) /\ Len(left) = Len(rest)
      /\ FramesOf(left) = FramesOf(rest)
      /\ \A k \in 1 .. Len(rest) :
           /\ rest[k].wait \in Nat
           /\ left[k].wait = IF rest[k].wait >= d THEN rest[k].wait - d ELSE 0
  BY <1>2, WaitingIs
<1>4. ASSUME NEW k \in 1 .. Len(left)
      PROVE  /\ left[k].wait \in Nat
             /\ \/ left[k].wait = 0
                \/ left[k].wait + (elapsed + d) + (Len(left) - k) <= Delay
  <2>1. /\ k + o \in 1 .. Len(rblk) /\ rest[k] = rblk[k + o]
        /\ Len(rblk) - (k + o) = Len(left) - k
    BY <1>2, <1>3
  <2>2. rblk[k + o].wait = 0 \/ rblk[k + o].wait + elapsed + (Len(rblk) - (k + o)) <= Delay
    BY <2>1 DEF LoopInv, BlocksSpaced
  <2>3. PICK w \in Nat : w = rest[k].wait
    BY <1>2, <1>3
  <2>4. left[k].wait = IF w >= d THEN w - d ELSE 0
    BY <1>3, <2>3
  <2>5. w = 0 \/ w + elapsed + (Len(left) - k) <= Delay
    BY <2>1, <2>2, <2>3
  <2>6. PICK v, a, e : v = left[k].wait /\ a = Len(left) - k /\ e = elapsed
    OBVIOUS
  <2>7. /\ v = (IF w >= d THEN w - d ELSE 0) /\ (w = 0 \/ w + e + a <= Delay)
        /\ w \in Nat /\ d \in {0, 1} /\ Delay \in Nat /\ a \in Int /\ e \in Nat
    <3>1. a \in Int /\ e \in Nat
      BY <1>1, <1>2, <1>3, <2>6
    <3> QED BY <1>1, <2>3, <2>4, <2>5, <2>6, <3>1
  <2>8. v \in Nat /\ (v = 0 \/ v + (e + d) + a <= Delay)
    <3>1. CASE d = 0
      BY ONLY <2>7, <3>1
    <3>2. CASE d = 1
      BY ONLY <2>7, <3>2
    <3> QED BY <3>1, <3>2
  <2> QED BY <2>6, <2>8
<1>5. FramesOf(rest) \in Nat
  BY <1>2, FramesCounted
<1> QED BY <1>1, <1>2, <1>3, <1>4, <1>5

(* socket_recv takes at most one block, and then one was due or there is   *)
(* room for one in the time a block takes.                                 *)
LEMMA LookBlocks ==
  ASSUME LoopInv, NEW d \in {0, 1}, SocketRecv(d), elapsed' = 0, rf' = rf
  PROVE  /\ rblk' \in Seq(Block) /\ Len(rblk') \in Nat
         /\ BlocksSpaced' /\ FramesWaiting' <= MaxFrames
         /\ Len(rblk') <= Len(rblk) + (IF elapsed + d > 0 THEN 1 ELSE 0)
<1>1. PICK rest, left :
        /\ rest = IF Due(d) THEN Tail(rblk) ELSE rblk
        /\ left = Waiting(rest, d)
  OBVIOUS
<1>2. /\ rblk \in Seq(Block) /\ Len(rblk) \in Nat /\ elapsed \in Nat /\ rf \in Nat
      /\ Delay \in Nat \ {0} /\ MaxFrames \in Nat
  BY Types, Sizes
<1>3. rest = rblk \/ (rblk # <<>> /\ rest = Tail(rblk))
  BY <1>1 DEF Due
<1>4. /\ left \in Seq(Block) /\ Len(left) = Len(rest) /\ Len(left) \in Nat
      /\ FramesOf(left) = FramesOf(rest) /\ FramesOf(rest) \in Nat
      /\ Len(rest) <= Len(rblk)
      /\ \A k \in 1 .. Len(left) :
           \/ left[k].wait = 0
           \/ left[k].wait + (elapsed + d) + (Len(left) - k) <= Delay
      /\ \A k \in 1 .. Len(left) : left[k].wait \in Nat
  BY <1>1, <1>3, LaterBlocks
<1>5. FramesOf(rest) <= FramesOf(rblk) /\ FramesOf(rblk) \in Nat
  <2>1. FramesOf(rblk) \in Nat
    BY <1>2, FramesCounted
  <2>2. CASE rest = rblk
    BY <2>1, <2>2
  <2>3. CASE rblk # <<>> /\ rest = Tail(rblk)
    <3>1. PICK tail : tail = Tail(rblk)
      OBVIOUS
    <3>2. FramesOf(rblk) = FramesOf(tail) + Head(rblk).frames /\ Head(rblk) \in Block
      BY <1>2, <2>3, <3>1, FramesTail
    <3>3. Head(rblk).frames \in Nat /\ FramesOf(tail) \in Nat
      BY <1>2, <1>4, <2>3, <3>1, <3>2 DEF Block
    <3> QED BY <2>1, <2>3, <3>1, <3>2, <3>3
  <2> QED BY <1>3, <2>2, <2>3
<1>6. rf + FramesOf(left) <= MaxFrames
  <2>1. rf + FramesOf(rblk) <= MaxFrames
    BY DEF LoopInv, FramesWaiting
  <2> QED BY <1>2, <1>4, <1>5, <2>1
<1>7. Len(rblk) <= Delay
  BY DEF LoopInv, BlocksSpaced
<1>8. CASE rblk' = left
  <2>1. FramesWaiting' <= MaxFrames
    BY <1>6, <1>8 DEF FramesWaiting
  <2>2. \A k \in 1 .. Len(left) :
          left[k].wait = 0 \/ left[k].wait + 0 + (Len(left) - k) <= Delay
    BY <1>2, <1>4
  <2>3. BlocksSpaced'
    BY <1>2, <1>4, <1>7, <1>8, <2>2 DEF BlocksSpaced
  <2> QED BY <1>2, <1>4, <1>8, <2>1, <2>3
<1>9. CASE /\ elapsed + d > 0
           /\ \E frames \in 0 .. MaxFrames - FramesWaiting :
                rblk' = Append(left, [wait |-> Delay, frames |-> frames])
  <2>1. PICK frames, b :
          /\ frames \in 0 .. MaxFrames - FramesWaiting
          /\ b = [wait |-> Delay, frames |-> frames] /\ rblk' = Append(left, b)
    BY <1>9
  <2>2. FramesWaiting \in Nat /\ FramesWaiting = rf + FramesOf(rblk)
    BY <1>2, <1>5 DEF FramesWaiting
  <2>3. b \in Block /\ b.wait = Delay /\ b.frames = frames /\ frames \in Nat
    BY <1>2, <2>1, <2>2 DEF Block
  <2>4. /\ rblk' \in Seq(Block) /\ Len(rblk') = Len(left) + 1
        /\ rblk'[Len(left) + 1] = b
        /\ \A k \in 1 .. Len(left) : rblk'[k] = left[k]
        /\ FramesOf(rblk') = FramesOf(left) + frames
    <3>1. PICK more : more = rblk' /\ more = Append(left, b)
      BY <2>1
    <3>2. more = Append(left, b) /\ left \in Seq(Block) /\ b \in Block
      BY <1>4, <2>3, <3>1
    <3>3. /\ more \in Seq(Block) /\ Len(more) = Len(left) + 1 /\ more[Len(more)] = b
          /\ more[Len(left) + 1] = b
          /\ \A k \in 1 .. Len(left) : more[k] = left[k]
      BY ONLY <3>2
    <3>4. FramesOf(more) = FramesOf(left) + more[Len(more)].frames
      BY ONLY <3>2, <3>3, FramesAppend
    <3> QED BY <2>3, <3>1, <3>3, <3>4
  <2>5. FramesWaiting' <= MaxFrames
    <3>1. FramesWaiting' = rf + (FramesOf(left) + frames)
      BY <2>4 DEF FramesWaiting
    <3>2. FramesOf(left) <= FramesOf(rblk) /\ FramesOf(left) \in Nat
      BY <1>4, <1>5
    <3> QED BY <1>2, <1>5, <2>1, <2>2, <2>3, <3>1, <3>2
  <2>6. Len(left) + 1 <= Delay
    <3>1. CASE Due(d)
      <4>1. Len(rblk) = Len(left) + 1
        <5>1. rblk # <<>> /\ rest = Tail(rblk)
          BY <1>1, <3>1 DEF Due
        <5>2. Len(rblk) = Len(Tail(rblk)) + 1
          BY <1>2, <5>1, FramesTail
        <5> QED BY <1>4, <5>1, <5>2
      <4> QED BY <1>7, <4>1
    <3>2. CASE ~ Due(d) /\ rblk = <<>>
      BY <1>2, <1>4, <3>2
    <3>3. CASE ~ Due(d) /\ rblk # <<>>
      <4>1. rest = rblk /\ Len(left) = Len(rblk) /\ 1 \in 1 .. Len(left)
        BY <1>1, <1>2, <1>4, <3>3
      <4>2. Head(rblk) = rblk[1] /\ rblk[1] \in Block /\ ~ Head(rblk).wait <= d
        BY <1>2, <3>3 DEF Due
      <4>3. left[1].wait > 0
        <5>1. rblk[1].wait \in Nat /\ left[1].wait = rblk[1].wait - d
          <6>1. PICK w : w = rblk[1].wait
            OBVIOUS
          <6>2. w \in Nat /\ left[1].wait = IF w >= d THEN w - d ELSE 0
            BY <1>1, <1>2, <4>1, <6>1, WaitingIs
          <6> QED BY <4>2, <6>1, <6>2
        <5> QED BY <4>2, <5>1
      <4>4. left[1].wait + (elapsed + d) + (Len(left) - 1) <= Delay /\ left[1].wait \in Nat
        BY <1>4, <4>1, <4>3
      <4>5. PICK v, e, l : v = left[1].wait /\ e = elapsed + d /\ l = Len(left)
        OBVIOUS
      <4>6. v \in Nat /\ e \in Nat /\ l \in Nat /\ Delay \in Nat
        BY <1>2, <1>4, <4>4, <4>5
      <4>7. v > 0 /\ e > 0 /\ v + e + (l - 1) <= Delay
        BY <1>9, <4>3, <4>4, <4>5
      <4>8. l + 1 <= Delay
        BY ONLY <4>6, <4>7
      <4> QED BY <4>5, <4>8
    <3> QED BY <3>1, <3>2, <3>3
  <2>7. ASSUME NEW k \in 1 .. Len(rblk')
        PROVE  rblk'[k].wait = 0 \/ rblk'[k].wait + 0 + (Len(rblk') - k) <= Delay
    <3>1. CASE k = Len(left) + 1
      BY <1>2, <1>4, <2>3, <2>4, <3>1
    <3>2. CASE k \in 1 .. Len(left)
      <4>1. rblk'[k] = left[k] /\ left[k].wait \in Nat
        BY <1>4, <2>4, <3>2
      <4>2. left[k].wait = 0 \/ left[k].wait + (elapsed + d) + (Len(left) - k) <= Delay
        BY <1>4, <3>2
      <4>3. PICK v, e, l : v = left[k].wait /\ e = elapsed + d /\ l = Len(left)
        OBVIOUS
      <4>4. e > 0 /\ (v = 0 \/ v + e + (l - k) <= Delay)
        BY <1>9, <4>2, <4>3
      <4>5. k \in Nat /\ Delay \in Nat /\ v \in Nat /\ e \in Nat /\ l \in Nat
        BY <1>2, <1>4, <4>1, <4>3
      <4>6. v = 0 \/ v + 0 + ((l + 1) - k) <= Delay
        BY ONLY <4>4, <4>5
      <4> QED BY <2>4, <4>1, <4>3, <4>6
    <3> QED BY <1>4, <2>4, <3>1, <3>2
  <2>8. BlocksSpaced'
    BY <2>4, <2>6, <2>7 DEF BlocksSpaced
  <2>9. Len(rblk') \in Nat /\ Len(rblk') <= Len(rblk) + 1
    BY <1>2, <1>4, <2>4
  <2> QED BY <1>9, <2>4, <2>5, <2>8, <2>9
<1>10. rblk' = left \/ (/\ elapsed + d > 0
                        /\ \E frames \in 0 .. MaxFrames - FramesWaiting :
                             rblk' = Append(left, [wait |-> Delay, frames |-> frames]))
  BY <1>1 DEF SocketRecv
<1> QED BY <1>8, <1>9, <1>10

(* What is owed besides the event, and how much it can be.                 *)
LEMMA OwedAtMost ==
  ASSUME LoopInv
  PROVE  /\ AckDue \in 0 .. ControlLen
         /\ Cardinality(outstanding \ nakked) \in 0 .. NR_BUFS
         /\ \A x \in Nat : Cardinality(ExpiringIn(x)) \in 0 .. NR_BUFS
<1>1. \A x \in Nat : Cardinality(ExpiringIn(x)) \in 0 .. NR_BUFS
  BY Types, SlotsCounted
<1>2. Cardinality(outstanding \ nakked) \in 0 .. NR_BUFS
  BY Types, SlotsCounted
<1>3. AckDue \in 0 .. ControlLen
  BY Sizes DEF AckDue
<1> QED BY <1>1, <1>2, <1>3

(* What blocks that are on their way owe. *)
LEMMA Blocked ==
  ASSUME NEW l \in Nat, l <= Delay
  PROVE  ControlLen * l \in Nat /\ ControlLen * l <= ControlLen * Delay
BY Sizes, Times

(* While time goes by, what the channel takes pays for a block that comes, *)
(* and for the timers that come closer.                                    *)
LEMMA LookFits ==
  ASSUME LoopInv, NEW d \in {0, 1}, event = "none",
         sq_len' = Max({sq_len - Rate * (elapsed + d), 0}),
         Len(rblk') \in Nat, Len(rblk') <= Delay,
         Len(rblk') <= Len(rblk) + (IF elapsed + d > 0 THEN 1 ELSE 0),
         NEW x \in Nat
  PROVE  /\ sq_len' \in Nat /\ sq_len' <= sq_len
         /\ 2 * (sq_len' + (AckDue + ControlLen * Len(rblk')
                    + (DataLen - ControlLen) * Cardinality(outstanding \ nakked))
                    + DataLen * Cardinality(ExpiringIn(x + d)))
              <= 2 * QueueBound + Rate * x
<1>1. PICK e : e = elapsed + d /\ e \in Nat /\ elapsed \in Nat
  BY Types
<1>2. PICK re, rx : /\ re = Rate * e /\ re \in Nat /\ (e > 0 => re >= Rate)
                    /\ rx = Rate * x /\ rx \in Nat
                    /\ Rate * ((x + d) + elapsed) = rx + re
  <2>1. Rate \in Nat \ {0}
    BY Sizes
  <2>2. Rate * e \in Nat /\ Rate * x \in Nat
    BY <1>1, <2>1
  <2>3. e > 0 => Rate * 1 <= Rate * e
    BY <1>1, <2>1, Times
  <2>4. Rate * (x + e) = Rate * x + Rate * e
    BY <1>1, <2>1
  <2>5. (x + d) + elapsed = x + e
    BY <1>1
  <2> QED BY <2>1, <2>2, <2>3, <2>4, <2>5
<1>3. PICK q, c, a, l, m, k, n :
        /\ q = sq_len /\ c = ControlLen /\ a = AckDue
        /\ l = ControlLen * Len(rblk) /\ m = ControlLen * Len(rblk')
        /\ k = (DataLen - ControlLen) * Cardinality(outstanding \ nakked)
        /\ n = DataLen * Cardinality(ExpiringIn(x + d))
  OBVIOUS
<1>4. /\ q \in Nat /\ c \in Nat /\ 2 * c <= Rate
      /\ a \in Nat /\ a <= c
      /\ l \in Nat /\ m \in Nat /\ k \in Nat /\ n \in Nat
      /\ c + m + k + n <= QueueBound
      /\ m <= l + (IF e > 0 THEN c ELSE 0)
  <2>1. /\ sq_len \in Nat /\ Len(rblk) \in Nat /\ Len(rblk) <= Delay
        /\ ControlLen \in Nat /\ Delay \in Nat /\ 2 * ControlLen <= Rate
    BY Types, Sizes DEF LoopInv, BlocksSpaced
  <2>2. /\ ControlLen * Len(rblk) \in Nat /\ ControlLen * Len(rblk') \in Nat
        /\ ControlLen * Len(rblk') <= ControlLen * Delay
    BY <2>1, Blocked
  <2>3. ControlLen * Len(rblk') <= ControlLen * Len(rblk) + (IF e > 0 THEN ControlLen ELSE 0)
    <3>1. CASE e > 0
      <4>1. Len(rblk') <= Len(rblk) + 1 /\ Len(rblk) + 1 \in Nat
        BY <1>1, <2>1, <3>1
      <4>2. ControlLen * Len(rblk') <= ControlLen * (Len(rblk) + 1)
        BY <2>1, <4>1, Times
      <4>3. ControlLen * (Len(rblk) + 1) = ControlLen * Len(rblk) + ControlLen
        BY <2>1
      <4> QED BY <3>1, <4>2, <4>3
    <3>2. CASE ~ e > 0
      <4>1. Len(rblk') <= Len(rblk)
        BY <1>1, <2>1, <3>2
      <4> QED BY <2>1, <2>2, <3>2, <4>1, Times
    <3> QED BY <3>1, <3>2
  <2>4. x + d \in Nat
    OBVIOUS
  <2>5. /\ (DataLen - ControlLen) * Cardinality(outstanding \ nakked) \in Nat
        /\ DataLen * Cardinality(ExpiringIn(x + d)) \in Nat
        /\ (DataLen - ControlLen) * Cardinality(outstanding \ nakked)
             + DataLen * Cardinality(ExpiringIn(x + d)) <= NR_BUFS * (2 * DataLen - ControlLen)
    BY <2>4, OwedAtMost, SlotsOwe
  <2>6. /\ ControlLen * Delay \in Nat /\ NR_BUFS * (2 * DataLen - ControlLen) \in Nat
        /\ QueueBound \in Nat
        /\ ControlLen + ControlLen * Delay + NR_BUFS * (2 * DataLen - ControlLen) <= QueueBound
    BY Sizes
  <2>7. AckDue \in Nat /\ AckDue <= ControlLen
    BY <2>1, OwedAtMost
  <2>8. c + m + k + n <= QueueBound
    <3>1. k + n <= NR_BUFS * (2 * DataLen - ControlLen) /\ m <= ControlLen * Delay
      BY <1>3, <2>2, <2>5
    <3>2. k \in Nat /\ n \in Nat /\ m \in Nat /\ c \in Nat
      BY <1>3, <2>1, <2>2, <2>5
    <3>3. c + ControlLen * Delay + NR_BUFS * (2 * DataLen - ControlLen) <= QueueBound
      BY <1>3, <2>6
    <3> QED BY ONLY <2>6, <3>1, <3>2, <3>3
  <2> QED BY <1>3, <2>1, <2>2, <2>3, <2>5, <2>7, <2>8
<1>5. 2 * (q + (a + l + k) + n) <= 2 * QueueBound + (rx + re)
  <2>1. x + d \in Nat
    OBVIOUS
  <2>2. Owed = a + l + k
    BY <1>3, <1>4 DEF Owed, Pending
  <2>3. 2 * (sq_len + Owed + DataLen * Cardinality(ExpiringIn(x + d)))
          <= 2 * QueueBound + Rate * ((x + d) + elapsed)
    BY <2>1 DEF LoopInv, TimersFit
  <2> QED BY <1>2, <1>3, <2>2, <2>3
<1>6. QueueBound \in Nat /\ Rate \in Nat
  BY Sizes
<1>7. PICK p : p = sq_len' /\ p = IF q - re >= 0 THEN q - re ELSE 0
  <2>1. Rate * (elapsed + d) = re
    BY <1>1, <1>2
  <2>2. sq_len' = Max({q - re, 0})
    BY <1>3, <2>1
  <2>3. q - re \in Int /\ 0 \in Int
    BY <1>2, <1>4
  <2>4. Max({q - re, 0}) = IF q - re >= 0 THEN q - re ELSE 0
    BY ONLY <2>3, MaxOfTwo
  <2> QED BY <2>2, <2>4
<1>8. /\ q \in Nat /\ re \in Nat /\ rx \in Nat /\ QueueBound \in Nat /\ Rate \in Nat /\ e \in Nat
       /\ p = IF q - re >= 0 THEN q - re ELSE 0
  BY <1>1, <1>2, <1>6, <1>7, <1>4
<1>9. p \in Nat /\ p <= q
  BY ONLY <1>8
<1>10. 2 * (p + (a + m + k) + n) <= 2 * QueueBound + rx
  <2>1. CASE e > 0
    <3>1. re >= Rate /\ m <= l + c
      BY <1>2, <1>4, <2>1
    <3>2. CASE q - re >= 0
      <4>1. p = q - re
        BY <1>8, <3>2
      <4> QED BY ONLY <1>5, <1>4, <1>8, <3>1, <4>1
    <3>3. CASE ~ q - re >= 0
      <4>1. p = 0
        BY <1>8, <3>3
      <4> QED BY ONLY <1>4, <1>8, <4>1
    <3> QED BY <3>2, <3>3
  <2>2. CASE ~ e > 0
    <3>1. e = 0 /\ m <= l
      <4>1. e = 0
        BY ONLY <1>8, <2>2
      <4> QED BY <1>4, <4>1
    <3>2. re = 0
      BY <1>2, <3>1, Sizes
    <3> QED BY ONLY <1>5, <1>9, <1>4, <1>8, <3>1, <3>2
  <2> QED BY <2>1, <2>2
<1> QED BY <1>2, <1>3, <1>7, <1>9, <1>10

(* What expires next, after time went by, and what an expired timer owes.  *)
LEMMA LookTimers ==
  ASSUME LoopInv, NEW d \in {0, 1}, Look(d)
  PROVE  /\ timer' \in [Timer -> {Off} \cup Nat]
         /\ \A x \in Nat :
              Pending' + AckDue' + DataLen * Cardinality(ExpiringIn(x)')
                = AckDue + DataLen * Cardinality(ExpiringIn(x + d))
         /\ arg' \in Timer /\ (event' = "DATA_TIMEOUT" => arg' \in Slot)
         /\ event' \in {"none", "NETWORK_LAYER_READY", "DATA_TIMEOUT", "ACK_TIMEOUT",
                        "PHYSICAL_LAYER_READY"}
<1>1. /\ timer \in [Timer -> {Off} \cup Nat] /\ arg \in Timer
      /\ ACK_TIMER_ID \in Timer /\ ACK_TIMER_ID \notin Slot
      /\ Timer = Slot \cup {ACK_TIMER_ID}
      /\ event = "none"
  BY Types DEF Look, TimeGoesBy
<1>2. \A i \in Timer :
        /\ Aged(timer[i], d) \in {Off} \cup Nat
        /\ Aged(timer[i], d) = Off <=> timer[i] = Off
        /\ \A x \in Nat :
             Aged(timer[i], d) # Off /\ Aged(timer[i], d) <= x
               <=> timer[i] # Off /\ timer[i] <= x + d
  BY <1>1, AgedIs
<1>3. CASE /\ timer' = [i \in Timer |-> Aged(timer[i], d)] /\ arg' = arg
           /\ event' \in {"none", "NETWORK_LAYER_READY", "PHYSICAL_LAYER_READY"}
  <2>1. \A i \in Timer : timer'[i] = Aged(timer[i], d)
    BY <1>3
  <2>2. \A x \in Nat : ExpiringIn(x)' = ExpiringIn(x + d)
    BY <1>1, <1>2, <2>1 DEF ExpiringIn
  <2>3. AckDue' = AckDue
    BY <1>1, <1>2, <2>1 DEF AckDue, ACK_TIMER_ID
  <2>4. Pending' = 0
    BY <1>3 DEF Pending
  <2>5. AckDue \in Nat /\ AckDue = 0 + AckDue
    BY OwedAtMost, Sizes
  <2> QED BY <1>1, <1>2, <1>3, <2>2, <2>3, <2>4, <2>5
<1>4. CASE /\ Fired(d) # {} /\ TimerEvent(d)
           /\ timer' = [i \in Timer |-> IF Fired(d) # {} /\ i = arg' THEN Off
                                        ELSE Aged(timer[i], d)]
  <2>1. arg' \in Fired(d)
    <3>1. Fired(d) \subseteq Nat
      BY Sizes DEF Fired, Timer, ACK_TIMER_ID
    <3> QED BY <1>4, <3>1, MinIs DEF TimerEvent
  <2>2. arg' \in Timer /\ Aged(timer[arg'], d) = 0
    BY <2>1 DEF Fired, Expired
  <2>3. timer[arg'] # Off /\ \A x \in Nat : timer[arg'] <= x + d
    BY <1>2, <2>2 DEF Off
  <2>4. \A i \in Timer : timer'[i] = IF i = arg' THEN Off ELSE Aged(timer[i], d)
    BY <1>4
  <2>5. timer' \in [Timer -> {Off} \cup Nat]
    BY <1>2, <1>4
  <2>6. CASE arg' = ACK_TIMER_ID
    <3>1. event' = "ACK_TIMEOUT"
      BY <1>4, <2>6 DEF TimerEvent
    <3>2. \A x \in Nat : ExpiringIn(x)' = ExpiringIn(x + d)
      BY <1>1, <1>2, <2>4, <2>6 DEF ExpiringIn
    <3>3. AckDue' = 0 /\ AckDue = ControlLen
      BY <1>1, <2>3, <2>4, <2>6 DEF AckDue, ACK_TIMER_ID
    <3>4. Pending' = ControlLen
      BY <3>1 DEF Pending
    <3> QED BY <2>2, <2>5, <3>1, <3>2, <3>3, <3>4, Sizes
  <2>7. CASE arg' # ACK_TIMER_ID
    <3>1. event' = "DATA_TIMEOUT" /\ arg' \in Slot
      BY <1>1, <1>4, <2>2, <2>7 DEF TimerEvent
    <3>2. ASSUME NEW x \in Nat
          PROVE  /\ ExpiringIn(x)' = ExpiringIn(x + d) \ {arg'}
                 /\ arg' \in ExpiringIn(x + d)
      BY <1>1, <1>2, <2>3, <2>4, <3>1 DEF ExpiringIn
    <3>3. AckDue' = AckDue
      BY <1>1, <1>2, <2>4, <2>7 DEF AckDue, ACK_TIMER_ID
    <3>4. Pending' = DataLen
      BY <3>1 DEF Pending
    <3>5. ASSUME NEW x \in Nat
          PROVE  DataLen + DataLen * Cardinality(ExpiringIn(x)')
                   = DataLen * Cardinality(ExpiringIn(x + d))
      <4>1. PICK n : n = Cardinality(ExpiringIn(x + d)) /\ n \in Nat
        <5>1. x + d \in Nat
          OBVIOUS
        <5> QED BY <5>1, OwedAtMost
      <4>2. Cardinality(ExpiringIn(x)') = n - 1
        BY <3>2, <4>1, SlotsCounted, Types
      <4>3. DataLen \in Nat /\ DataLen + DataLen * (n - 1) = DataLen * n
        BY <4>1, Sizes
      <4> QED BY <4>1, <4>2, <4>3
    <3>6. AckDue \in Nat /\ DataLen \in Nat
      BY OwedAtMost, Sizes
    <3>7. \A x \in Nat : DataLen * Cardinality(ExpiringIn(x)') \in Nat
      <4> TAKE x \in Nat
      <4>1. Cardinality(ExpiringIn(x)') \in Nat
        <5>1. ExpiringIn(x)' \in SUBSET Slot
          BY <3>2, Types
        <5> QED BY <5>1, SlotsCounted
      <4> QED BY <3>6, <4>1
    <3> QED BY <2>2, <2>5, <3>1, <3>3, <3>4, <3>5, <3>6, <3>7
  <2> QED BY <2>6, <2>7
<1>5. \/ /\ timer' = [i \in Timer |-> Aged(timer[i], d)] /\ arg' = arg
         /\ event' \in {"none", "NETWORK_LAYER_READY", "PHYSICAL_LAYER_READY"}
      \/ /\ Fired(d) # {} /\ TimerEvent(d)
         /\ timer' = [i \in Timer |-> IF Fired(d) # {} /\ i = arg' THEN Off
                                      ELSE Aged(timer[i], d)]
  <2>1. \/ /\ NetworkLayerEvent
           /\ timer' = [i \in Timer |-> Aged(timer[i], d)]
        \/ /\ Fired(d) # {} /\ TimerEvent(d)
           /\ timer' = [i \in Timer |-> IF Fired(d) # {} /\ i = arg' THEN Off
                                        ELSE Aged(timer[i], d)]
        \/ /\ Fired(d) = {} /\ (PhysicalLayerEvent \/ Sleep)
           /\ timer' = [i \in Timer |-> IF Fired(d) # {} /\ i = arg' THEN Off
                                        ELSE Aged(timer[i], d)]
    BY DEF Look
  <2> QED BY <1>1, <2>1 DEF NetworkLayerEvent, PhysicalLayerEvent, Sleep
<1> QED BY <1>3, <1>4, <1>5

LEMMA SinceIs ==
  ASSUME LoopInv, NEW d \in {0, 1}
  PROVE  SinceTaken(since + d) \in 0 .. Wrap - 1 /\ 0 \in 0 .. Wrap - 1
<1>1. PICK w, s : w \in Nat \ {0} /\ w = Wrap /\ s = since
  BY Sizes
<1>2. s \in 0 .. w - 1
  BY <1>1 DEF LoopInv, NeverOverflows, TypeOK
<1>3. s + d \in Nat
  BY ONLY <1>1, <1>2, d \in {0, 1}
<1>4. (s + d) % w \in 0 .. w - 1 /\ 0 \in 0 .. w - 1
  BY ONLY <1>1, <1>3
<1> QED BY <1>1, <1>4 DEF SinceTaken

(* A pass that reads the socket and the clock. *)
LEMMA LookKeeps ==
  ASSUME LoopInv, NEW d \in {0, 1}, Look(d)
  PROVE  LoopInv'
<1>1. /\ event = "none" /\ ~ aborted /\ SocketRecv(d) /\ elapsed' = 0
      /\ sq_len' = Max({sq_len - Rate * (elapsed + d), 0})
      /\ mode_flood' = mode_flood /\ rf' = rf
      /\ network_layer_active' = network_layer_active
      /\ aborted' = aborted /\ phl_ready' = phl_ready
      /\ outstanding' = outstanding /\ nakked' = nakked
  BY DEF Look, TimeGoesBy, window
<1>2. /\ rblk' \in Seq(Block) /\ Len(rblk') \in Nat
      /\ BlocksSpaced' /\ FramesWaiting' <= MaxFrames
      /\ Len(rblk') <= Len(rblk) + (IF elapsed + d > 0 THEN 1 ELSE 0)
  BY <1>1, LookBlocks
<1>3. Len(rblk') <= Delay
  BY <1>2 DEF BlocksSpaced
<1>4. /\ timer' \in [Timer -> {Off} \cup Nat]
      /\ \A x \in Nat :
           Pending' + AckDue' + DataLen * Cardinality(ExpiringIn(x)')
             = AckDue + DataLen * Cardinality(ExpiringIn(x + d))
      /\ arg' \in Timer /\ (event' = "DATA_TIMEOUT" => arg' \in Slot)
      /\ event' \in {"none", "NETWORK_LAYER_READY", "DATA_TIMEOUT", "ACK_TIMEOUT",
                     "PHYSICAL_LAYER_READY"}
  BY LookTimers
<1>5. /\ sq_len' \in Nat /\ sq_len' <= sq_len
      /\ \A x \in Nat :
           2 * (sq_len' + (AckDue + ControlLen * Len(rblk')
                  + (DataLen - ControlLen) * Cardinality(outstanding \ nakked))
                  + DataLen * Cardinality(ExpiringIn(x + d)))
             <= 2 * QueueBound + Rate * x
  <2>1. 0 \in Nat
    OBVIOUS
  <2> QED BY <1>1, <1>2, <1>3, <2>1, LookFits
<1>6. /\ Pending' \in Nat /\ AckDue' \in Nat /\ AckDue \in Nat
      /\ ControlLen * Len(rblk') \in Nat
      /\ (DataLen - ControlLen) * Cardinality(outstanding \ nakked) \in Nat
      /\ Owed' = Pending' + AckDue' + ControlLen * Len(rblk')
                   + (DataLen - ControlLen) * Cardinality(outstanding \ nakked)
  <2>1. Pending' \in Nat /\ AckDue' \in Nat
    BY Sizes DEF Pending, AckDue
  <2>2. (DataLen - ControlLen) * Cardinality(outstanding \ nakked) \in Nat
    <3>1. 0 \in 0 .. NR_BUFS
      BY Sizes
    <3> QED BY <3>1, OwedAtMost, SlotsOwe
  <2> QED BY <1>1, <1>2, <1>3, <2>1, <2>2, OwedAtMost, Sizes, Blocked DEF Owed
<1>7. \A x \in Nat : DataLen * Cardinality(ExpiringIn(x)') \in Nat
                     /\ DataLen * Cardinality(ExpiringIn(x + d)) \in Nat
  <2> TAKE x \in Nat
  <2>1. ExpiringIn(x)' \in SUBSET Slot /\ ExpiringIn(x + d) \in SUBSET Slot
    BY DEF ExpiringIn
  <2>2. Cardinality(ExpiringIn(x)') \in Nat /\ Cardinality(ExpiringIn(x + d)) \in Nat
    BY <2>1, SlotsCounted
  <2> QED BY <2>2, Sizes
<1>8. ASSUME NEW x \in Nat
      PROVE  2 * (sq_len' + Owed' + DataLen * Cardinality(ExpiringIn(x)'))
               <= 2 * QueueBound + Rate * (x + elapsed')
  <2>1. PICK q, p, a, b, l, k, n, m, r :
          /\ q = sq_len' /\ p = Pending' /\ a = AckDue' /\ b = AckDue
          /\ l = ControlLen * Len(rblk')
          /\ k = (DataLen - ControlLen) * Cardinality(outstanding \ nakked)
          /\ n = DataLen * Cardinality(ExpiringIn(x)')
          /\ m = DataLen * Cardinality(ExpiringIn(x + d))
          /\ r = Rate * x
    OBVIOUS
  <2>2. /\ q \in Nat /\ p \in Nat /\ a \in Nat /\ b \in Nat /\ l \in Nat /\ k \in Nat
        /\ n \in Nat /\ m \in Nat /\ r \in Int /\ QueueBound \in Nat
    <3>1. r \in Int
      <4>1. Rate \in Nat
        BY Sizes
      <4>2. Rate * x \in Int
        BY ONLY <4>1, x \in Nat
      <4> QED BY <2>1, <4>2
    <3>2. p \in Nat /\ a \in Nat /\ b \in Nat /\ l \in Nat /\ k \in Nat
      BY <1>6, <2>1
    <3>3. n \in Nat /\ m \in Nat
      BY <1>7, <2>1
    <3> QED BY <1>5, <2>1, <3>1, <3>2, <3>3, Sizes
  <2>3. p + a + n = b + m
    BY <1>4, <2>1
  <2>4. 2 * (q + (b + l + k) + m) <= 2 * QueueBound + r
    BY <1>5, <2>1
  <2>5. 2 * (q + (p + a + l + k) + n) <= 2 * QueueBound + r
    BY ONLY <2>2, <2>3, <2>4
  <2>6. Rate * (x + elapsed') = r
    <3>1. x + elapsed' = x
      BY <1>1
    <3> QED BY <2>1, <3>1
  <2> QED BY <1>6, <2>1, <2>5, <2>6
<1>9. TimersFit'
  BY <1>8 DEF TimersFit
<1>10. QueueFits'
  <2>1. PICK z : z = Rate * 0
    OBVIOUS
  <2>2. z = 0
    BY <2>1, Sizes
  <2>3. 0 \in Nat /\ 0 + elapsed' = 0
    BY <1>1
  <2>4. 2 * (sq_len' + Owed' + DataLen * Cardinality(ExpiringIn(0)')) <= 2 * QueueBound + 0
    BY <1>8, <2>1, <2>2, <2>3
  <2>5. PICK q, o, n : /\ q = sq_len' /\ o = Owed'
                       /\ n = DataLen * Cardinality(ExpiringIn(0)')
    OBVIOUS
  <2>6. q \in Nat /\ o \in Nat /\ n \in Nat /\ QueueBound \in Nat
    <3>1. o \in Nat
      <4>1. PICK p, a, l, k :
              /\ p = Pending' /\ a = AckDue' /\ l = ControlLen * Len(rblk')
              /\ k = (DataLen - ControlLen) * Cardinality(outstanding \ nakked)
        OBVIOUS
      <4>2. p \in Nat /\ a \in Nat /\ l \in Nat /\ k \in Nat /\ o = p + a + l + k
        BY <1>6, <2>5, <4>1
      <4> QED BY ONLY <4>2
    <3>2. n \in Nat
      BY <1>7, <2>3, <2>5
    <3> QED BY <1>5, <2>5, <3>1, <3>2, Sizes
  <2>7. 2 * (q + o + n) <= 2 * QueueBound + 0
    BY <2>4, <2>5
  <2>8. q + o <= QueueBound
    BY ONLY <2>6, <2>7
  <2> QED BY <2>5, <2>8 DEF QueueFits
<1>11. Reported'
  <2>1. \/ sq_len' < PHL_SQ_LEVEL
        \/ ~ (phl_ready \/ network_layer_active \/ event' = "PHYSICAL_LAYER_READY")
    <3>1. CASE phl_ready \/ network_layer_active
      <4>1. sq_len < PHL_SQ_LEVEL
        BY <3>1 DEF LoopInv, Reported
      <4>2. sq_len' \in Nat /\ sq_len' <= sq_len /\ sq_len \in Nat /\ PHL_SQ_LEVEL \in Nat
        BY <1>5, Types, Sizes
      <4>3. sq_len' < PHL_SQ_LEVEL
        BY ONLY <4>1, <4>2
      <4> QED BY <4>3
    <3>2. CASE event' = "PHYSICAL_LAYER_READY"
      <4>1. Ready
        BY <1>1, <3>2 DEF Look, NetworkLayerEvent, TimerEvent, Sleep
      <4> QED BY <4>1 DEF Ready
    <3> QED BY ONLY <3>1, <3>2
  <2>2. event' = "NETWORK_LAYER_READY" => network_layer_active
    BY <1>1 DEF Look, TimerEvent, PhysicalLayerEvent, Sleep, MayOffer
  <2>3. network_layer_active => Cardinality(outstanding) < NR_BUFS
    BY DEF LoopInv, Reported
  <2> QED BY <1>1, <2>1, <2>2, <2>3 DEF Reported
<1>12. TypeOK'
  <2>1. since' \in 0 .. Wrap - 1
    <3>1. SinceTaken(since + d) \in 0 .. Wrap - 1 /\ 0 \in 0 .. Wrap - 1
      BY SinceIs
    <3> QED BY <3>1 DEF Look, NetworkLayerEvent
  <2>2. slept' \in BOOLEAN /\ inform_phl_ready' \in BOOLEAN
    BY DEF Look, NetworkLayerEvent, TimerEvent, PhysicalLayerEvent, Sleep, LoopInv,
           NeverOverflows, TypeOK
  <2>3. rblk' \in Seq([wait : 0 .. Delay, frames : 0 .. MaxFrames])
    BY <1>2 DEF Block
  <2>4. elapsed' \in Nat
    BY <1>1
  <2> QED BY <1>1, <1>4, <1>5, <2>1, <2>2, <2>3, <2>4 DEF LoopInv, NeverOverflows, TypeOK
<1>13. event' # "FRAME_RECEIVED"
  BY <1>4
<1> QED BY <1>1, <1>2, <1>4, <1>9, <1>10, <1>11, <1>12, <1>13 DEF LoopInv, NeverOverflows

(* A frame that arrived is paid for by its block.                          *)
LEMMA CommitBlockKeeps ==
  ASSUME LoopInv, NEW d \in {0, 1}, CommitBlock(d)
  PROVE  LoopInv'
<1>1. /\ event = "none" /\ ~ aborted /\ rblk # <<>> /\ rf + Head(rblk).frames > 0
      /\ event' = "FRAME_RECEIVED" /\ slept' = FALSE /\ elapsed' = elapsed + d
      /\ rf' = rf + Head(rblk).frames /\ rblk' = Waiting(Tail(rblk), d)
      /\ timer' = [i \in Timer |-> Aged(timer[i], d)]
      /\ since' = SinceTaken(since + d)
      /\ mode_flood' = mode_flood /\ arg' = arg /\ sq_len' = sq_len
      /\ inform_phl_ready' = inform_phl_ready
      /\ network_layer_active' = network_layer_active
      /\ aborted' = aborted /\ phl_ready' = phl_ready
      /\ outstanding' = outstanding /\ nakked' = nakked
  BY DEF CommitBlock, TimeGoesBy, FrameIn, Due, window
<1>2. /\ rblk \in Seq(Block) /\ Len(rblk) \in Nat /\ rf \in Nat /\ elapsed \in Nat
      /\ sq_len \in Nat /\ timer \in [Timer -> {Off} \cup Nat]
      /\ MaxFrames \in Nat /\ ControlLen \in Nat /\ Delay \in Nat
  BY Types, Sizes
<1>3. PICK tail : tail = Tail(rblk)
  OBVIOUS
<1>4. /\ Len(rblk) = Len(tail) + 1 /\ Head(rblk) \in Block
      /\ FramesOf(rblk) = FramesOf(tail) + Head(rblk).frames
  BY <1>1, <1>2, <1>3, FramesTail
<1>5. /\ rblk' \in Seq(Block) /\ Len(rblk') = Len(tail) /\ Len(rblk') \in Nat
      /\ FramesOf(rblk') = FramesOf(tail) /\ FramesOf(tail) \in Nat
      /\ \A k \in 1 .. Len(rblk') :
           rblk'[k].wait = 0 \/ rblk'[k].wait + (elapsed + d) + (Len(rblk') - k) <= Delay
  BY <1>1, <1>3, LaterBlocks
<1>6. BlocksSpaced'
  <2>1. Len(rblk) <= Delay
    BY DEF LoopInv, BlocksSpaced
  <2>2. Len(rblk') <= Delay
    BY <1>2, <1>4, <1>5, <2>1
  <2> QED BY <1>1, <1>5, <2>2 DEF BlocksSpaced
<1>7. /\ rf' \in 0 .. MaxFrames /\ rf' > 0
      /\ FramesWaiting' <= MaxFrames
  <2>1. PICK f, g : f = Head(rblk).frames /\ g = FramesOf(tail)
    OBVIOUS
  <2>2. f \in Nat /\ g \in Nat /\ rf \in Nat /\ MaxFrames \in Nat
    BY <1>2, <1>4, <1>5, <2>1 DEF Block
  <2>3. rf + (g + f) <= MaxFrames
    BY <1>4, <2>1 DEF LoopInv, FramesWaiting
  <2>4. rf' = rf + f /\ rf + f > 0 /\ FramesWaiting' = (rf + f) + g
    BY <1>1, <1>5, <2>1 DEF FramesWaiting
  <2> QED BY ONLY <2>2, <2>3, <2>4
<1>8. /\ \A i \in Timer :
           /\ timer'[i] = Aged(timer[i], d)
           /\ Aged(timer[i], d) \in {Off} \cup Nat
           /\ Aged(timer[i], d) = Off <=> timer[i] = Off
           /\ \A x \in Nat :
                Aged(timer[i], d) # Off /\ Aged(timer[i], d) <= x
                  <=> timer[i] # Off /\ timer[i] <= x + d
      /\ ACK_TIMER_ID \in Timer /\ Timer = Slot \cup {ACK_TIMER_ID}
  BY <1>1, <1>2, AgedIs, Types
<1>9. timer' \in [Timer -> {Off} \cup Nat]
  BY <1>1, <1>8
<1>10. \A x \in Nat : ExpiringIn(x)' = ExpiringIn(x + d)
  BY <1>8 DEF ExpiringIn
<1>11. Owed' = Owed /\ Owed \in Nat
  <2>1. Pending' = ControlLen /\ Pending = 0
    BY <1>1 DEF Pending
  <2>2. AckDue' = AckDue /\ AckDue \in Nat
    BY <1>8, OwedAtMost, Sizes DEF AckDue
  <2>3. PICK l, m, k, a :
          /\ l = ControlLen * Len(rblk) /\ m = ControlLen * Len(rblk') /\ a = AckDue
          /\ k = (DataLen - ControlLen) * Cardinality(outstanding \ nakked)
    OBVIOUS
  <2>4. l = m + ControlLen /\ m \in Nat
    <3>1. PICK n \in Nat, c \in Nat : n = Len(rblk') /\ c = ControlLen
      BY <1>2, <1>5
    <3>2. c * (n + 1) = c * n + c /\ c * n \in Nat
      BY ONLY <3>1, c \in Nat, n \in Nat
    <3>3. Len(rblk) = n + 1
      BY <1>4, <1>5, <3>1
    <3> QED BY <2>3, <3>1, <3>2, <3>3
  <2>5. k \in Nat
    <3>1. 0 \in 0 .. NR_BUFS
      BY Sizes
    <3> QED BY <2>3, <3>1, OwedAtMost, SlotsOwe
  <2>6. Owed = 0 + a + l + k /\ Owed' = ControlLen + a + m + k
    BY <1>1, <2>1, <2>2, <2>3 DEF Owed
  <2>7. a \in Nat
    BY <2>2, <2>3
  <2> QED BY <1>2, <2>4, <2>5, <2>6, <2>7
<1>12. QueueFits'
  BY <1>1, <1>11 DEF QueueFits, LoopInv
<1>13. TimersFit'
  <2>1. ASSUME NEW x \in Nat
        PROVE  2 * (sq_len' + Owed' + DataLen * Cardinality(ExpiringIn(x)'))
                 <= 2 * QueueBound + Rate * (x + elapsed')
    <3>1. x + d \in Nat /\ (x + d) + elapsed = x + elapsed'
      BY <1>1, <1>2
    <3>2. 2 * (sq_len + Owed + DataLen * Cardinality(ExpiringIn(x + d)))
            <= 2 * QueueBound + Rate * ((x + d) + elapsed)
      BY <3>1 DEF LoopInv, TimersFit
    <3> QED BY <1>1, <1>10, <1>11, <3>1, <3>2
  <2> QED BY <2>1 DEF TimersFit
<1>14. Reported'
  BY <1>1 DEF LoopInv, Reported
<1>15. TypeOK'
  <2>1. since' \in 0 .. Wrap - 1
    BY <1>1, SinceIs
  <2>2. rblk' \in Seq([wait : 0 .. Delay, frames : 0 .. MaxFrames])
    BY <1>5 DEF Block
  <2>3. elapsed' \in Nat
    BY <1>1, <1>2
  <2> QED BY <1>1, <1>7, <1>9, <2>1, <2>2, <2>3 DEF LoopInv, NeverOverflows, TypeOK
<1> QED BY <1>1, <1>6, <1>7, <1>12, <1>13, <1>14, <1>15 DEF LoopInv, NeverOverflows

-----------------------------------------------------------------------------
(* The data link layer. *)

Conserved ==
  sq_len' + AckDue' + (DataLen - ControlLen) * Cardinality(outstanding' \ nakked')
    <= sq_len + Pending + AckDue
         + (DataLen - ControlLen) * Cardinality(outstanding \ nakked)

(* What is put into the queue was owed, or it is a packet, which is taken  *)
(* when little waits; and a timer that is started allows for the queue.    *)
Settles ==
  /\ sq_len' \in Nat
  /\ \/ /\ Conserved
        /\ \A x \in Nat : ExpiringIn(x)' \subseteq ExpiringIn(x) \/ 2 * sq_len' <= Rate * x
     \/ /\ sq_len' < PHL_SQ_LEVEL + DataLen /\ AckDue' = 0
        /\ \A x \in Nat : Cardinality(ExpiringIn(x)') < NR_BUFS \/ 2 * sq_len' <= Rate * x

(* If the call settles what it puts, everything still fits.  A timer that  *)
(* expires late has time for all that can be in the queue by then.         *)
LEMMA SettlesFits ==
  ASSUME LoopInv, Settles, event' = "none", rblk' = rblk, elapsed' = elapsed,
         outstanding' \in SUBSET Slot
  PROVE  /\ QueueFits' /\ \A x \in Nat :
              2 * (sq_len' + Owed' + DataLen * Cardinality(ExpiringIn(x)'))
                <= 2 * QueueBound + Rate * (x + elapsed')
<1>1. PICK c, w, s, y :
        /\ c = ControlLen * Len(rblk) /\ w = ControlLen * Delay
        /\ y = NR_BUFS * (2 * DataLen - ControlLen)
        /\ s = (DataLen - ControlLen) * Cardinality(outstanding \ nakked)
  OBVIOUS
<1>2. PICK q, p, a, u, b, v :
        /\ q = sq_len /\ p = Pending /\ a = AckDue
        /\ u = sq_len' /\ b = AckDue'
        /\ v = (DataLen - ControlLen) * Cardinality(outstanding' \ nakked')
  OBVIOUS
<1>3. /\ c \in Nat /\ w \in Nat /\ c <= w /\ y \in Nat
      /\ PHL_SQ_LEVEL \in Nat /\ DataLen \in Nat /\ ControlLen \in Nat /\ QueueBound \in Nat
      /\ PHL_SQ_LEVEL - 1 + w + y <= QueueBound
      /\ ControlLen + w + y <= QueueBound
  <2>1. Len(rblk) \in Nat /\ Len(rblk) <= Delay
    BY Types DEF LoopInv, BlocksSpaced
  <2> QED BY <1>1, <2>1, Blocked, Sizes
<1>4. /\ q \in Nat /\ u \in Nat /\ p \in Nat /\ a \in Nat /\ b \in Nat /\ b <= ControlLen
  <2>1. Pending \in Nat /\ AckDue' \in Nat /\ AckDue' <= ControlLen /\ AckDue \in Nat
    BY Sizes DEF Pending, AckDue
  <2> QED BY <1>2, <2>1, Types DEF Settles
<1>5. /\ \A x \in Nat : Cardinality(ExpiringIn(x)') \in 0 .. NR_BUFS
                        /\ Cardinality(ExpiringIn(x)) \in 0 .. NR_BUFS
      /\ Cardinality(outstanding' \ nakked') \in 0 .. NR_BUFS
      /\ Cardinality(outstanding \ nakked) \in 0 .. NR_BUFS
  <2>1. \A x \in Nat : ExpiringIn(x)' \in SUBSET Slot /\ ExpiringIn(x) \in SUBSET Slot
    BY DEF ExpiringIn
  <2>2. outstanding' \ nakked' \in SUBSET Slot /\ outstanding \ nakked \in SUBSET Slot
    BY Types
  <2> QED BY <2>1, <2>2, SlotsCounted
<1>6. s \in Nat /\ v \in Nat
  <2>1. 0 \in 0 .. NR_BUFS
    BY Sizes
  <2> QED BY <1>1, <1>2, <1>5, <2>1, SlotsOwe
<1>7. Owed = p + a + c + s /\ Owed' = b + c + v
  <2>1. Pending' = 0
    BY DEF Pending
  <2>2. Owed' = 0 + b + c + v
    BY <1>1, <1>2, <2>1 DEF Owed
  <2>3. Owed = p + a + c + s
    BY <1>1, <1>2 DEF Owed
  <2> QED BY <1>3, <1>4, <1>6, <2>2, <2>3
<1>8. q + (p + a + c + s) <= QueueBound
  BY <1>2, <1>7 DEF LoopInv, QueueFits
<1>9. ASSUME NEW x \in Nat
      PROVE  /\ Rate * x \in Nat /\ Rate * (x + elapsed') \in Nat
             /\ Rate * x <= Rate * (x + elapsed')
  <2>1. Rate \in Nat /\ x + elapsed' \in Nat /\ x <= x + elapsed'
    <3>1. PICK e : e = elapsed'
      OBVIOUS
    <3>2. e \in Nat
      BY <3>1, Types
    <3>3. x + e \in Nat /\ x <= x + e
      BY ONLY <3>2, x \in Nat
    <3> QED BY <3>1, <3>3, Sizes
  <2> QED BY ONLY <2>1, x \in Nat, Times
<1>10. ASSUME NEW x \in Nat, 2 * sq_len' <= Rate * x
       PROVE  2 * (sq_len' + Owed' + DataLen * Cardinality(ExpiringIn(x)'))
                <= 2 * QueueBound + Rate * (x + elapsed')
  <2>1. PICK m, r, t : /\ m = DataLen * Cardinality(ExpiringIn(x)')
                       /\ r = Rate * x /\ t = Rate * (x + elapsed')
    OBVIOUS
  <2>2. m \in Nat /\ v + m <= y
    BY <1>1, <1>2, <1>5, <2>1, SlotsOwe
  <2>3. r \in Nat /\ t \in Nat /\ r <= t /\ 2 * u <= r
    BY <1>2, <1>9, <1>10, <2>1
  <2>4. 2 * (u + (b + c + v) + m) <= 2 * QueueBound + t
    BY ONLY <1>3, <1>4, <1>6, <2>2, <2>3
  <2> QED BY <1>2, <1>7, <2>1, <2>4
<1>11. CASE /\ Conserved
            /\ \A x \in Nat : ExpiringIn(x)' \subseteq ExpiringIn(x) \/ 2 * sq_len' <= Rate * x
  <2>1. u + b + v <= q + p + a + s
    BY <1>1, <1>2, <1>11 DEF Conserved
  <2>2. u + (b + c + v) <= q + (p + a + c + s)
    BY ONLY <1>3, <1>4, <1>6, <2>1
  <2>3. QueueFits'
    <3>1. u + (b + c + v) <= QueueBound
      BY ONLY <1>3, <1>4, <1>6, <1>8, <2>2
    <3> QED BY <1>2, <1>7, <3>1 DEF QueueFits
  <2>4. ASSUME NEW x \in Nat, ExpiringIn(x)' \subseteq ExpiringIn(x)
        PROVE  2 * (sq_len' + Owed' + DataLen * Cardinality(ExpiringIn(x)'))
                 <= 2 * QueueBound + Rate * (x + elapsed')
    <3>1. PICK m, n, t : /\ m = DataLen * Cardinality(ExpiringIn(x)')
                         /\ n = DataLen * Cardinality(ExpiringIn(x))
                         /\ t = Rate * (x + elapsed')
      OBVIOUS
    <3>2. m \in Nat /\ n \in Nat /\ m <= n
      <4>1. Cardinality(ExpiringIn(x)') <= Cardinality(ExpiringIn(x))
        BY <2>4, Types, SlotsCounted
      <4>2. Cardinality(ExpiringIn(x)') \in Nat /\ Cardinality(ExpiringIn(x)) \in Nat
        BY <1>5
      <4> QED BY <1>3, <3>1, <4>1, <4>2, Times
    <3>3. 2 * (q + (p + a + c + s) + n) <= 2 * QueueBound + t
      <4>1. 2 * (sq_len + Owed + DataLen * Cardinality(ExpiringIn(x)))
              <= 2 * QueueBound + Rate * (x + elapsed)
        BY DEF LoopInv, TimersFit
      <4> QED BY <1>2, <1>7, <3>1, <4>1
    <3>4. t \in Nat
      BY <1>9, <3>1
    <3>5. 2 * (u + (b + c + v) + m) <= 2 * QueueBound + t
      BY ONLY <1>3, <1>4, <1>6, <2>2, <3>2, <3>3, <3>4
    <3> QED BY <1>2, <1>7, <3>1, <3>5
  <2> QED BY <1>10, <1>11, <2>3, <2>4
<1>12. CASE /\ sq_len' < PHL_SQ_LEVEL + DataLen /\ AckDue' = 0
            /\ \A x \in Nat : Cardinality(ExpiringIn(x)') < NR_BUFS \/ 2 * sq_len' <= Rate * x
  <2>1. u < PHL_SQ_LEVEL + DataLen /\ b = 0
    BY <1>2, <1>12
  <2>2. QueueFits'
    <3>1. PICK m : m = DataLen * 0
      OBVIOUS
    <3>2. m = 0 /\ 0 \in 0 .. NR_BUFS /\ 0 < NR_BUFS
      BY <3>1, Sizes
    <3>3. v + m + DataLen <= y
      BY <1>1, <1>2, <1>5, <3>1, <3>2, SlotsOwe
    <3>4. u + (b + c + v) <= QueueBound
      BY ONLY <1>3, <1>4, <1>6, <2>1, <3>2, <3>3
    <3> QED BY <1>2, <1>7, <3>4 DEF QueueFits
  <2>3. ASSUME NEW x \in Nat, Cardinality(ExpiringIn(x)') < NR_BUFS
        PROVE  2 * (sq_len' + Owed' + DataLen * Cardinality(ExpiringIn(x)'))
                 <= 2 * QueueBound + Rate * (x + elapsed')
    <3>1. PICK m, t : /\ m = DataLen * Cardinality(ExpiringIn(x)')
                      /\ t = Rate * (x + elapsed')
      OBVIOUS
    <3>2. m \in Nat /\ v + m + DataLen <= y
      BY <1>1, <1>2, <1>5, <2>3, <3>1, SlotsOwe
    <3>3. t \in Nat
      BY <1>9, <3>1
    <3>4. 2 * (u + (b + c + v) + m) <= 2 * QueueBound + t
      BY ONLY <1>3, <1>4, <1>6, <2>1, <3>2, <3>3
    <3> QED BY <1>2, <1>7, <3>1, <3>4
  <2> QED BY <1>10, <1>12, <2>2, <2>3
<1> QED BY <1>11, <1>12 DEF Settles

(* start_timer: before it expires the channel takes twice what waits.      *)
LEMMA DeadlineAllows ==
  ASSUME sq_len' \in Nat
  PROVE  /\ Deadline \in Nat
         /\ \A x \in Nat : Deadline <= x => 2 * sq_len' <= Rate * x
<1>1. PICK q, r, t, f :
        /\ q = sq_len' /\ r = Rate /\ t = DATA_TIMER /\ f = (2 * q + Rate - 1) \div Rate
  OBVIOUS
<1>2. q \in Nat /\ r \in Nat /\ t \in Nat /\ f \in Nat /\ 2 * q <= r * f
  BY <1>1, RoundedUp, Sizes
<1>3. Deadline = f + t
  BY <1>1 DEF Deadline
<1>4. ASSUME NEW x \in Nat, f + t <= x PROVE 2 * q <= r * x
  <2>1. f <= x
    BY ONLY <1>2, <1>4, x \in Nat
  <2>2. r * f \in Nat /\ r * x \in Nat /\ r * f <= r * x
    BY ONLY <1>2, <2>1, x \in Nat, Times
  <2> QED BY ONLY <1>2, <2>2
<1>5. f + t \in Nat
  BY ONLY <1>2
<1> QED BY <1>1, <1>3, <1>4, <1>5

(* What the layer does to the queue and what it knows of it.               *)
Puts ==
  /\ aborted' \in BOOLEAN /\ (aborted' => sq_len' > SQ_SIZE - 1)
  /\ inform_phl_ready' \in BOOLEAN /\ phl_ready' \in BOOLEAN
  /\ phl_ready' => sq_len' < PHL_SQ_LEVEL

(* put_frame forgets that the physical layer is ready.                     *)
LEMMA PutKeeps ==
  ASSUME LoopInv
  PROVE  /\ PutNothing => Puts /\ sq_len' = sq_len
         /\ \A len \in {DataLen, ControlLen} : PutFrame(len) =>
              Puts /\ sq_len' = sq_len + len /\ sq_len' \in Nat
<1>1. ASSUME PutNothing PROVE Puts /\ sq_len' = sq_len
  BY <1>1 DEF PutNothing, Puts, LoopInv, NeverOverflows, TypeOK, Reported
<1>2. ASSUME NEW len \in {DataLen, ControlLen}, PutFrame(len)
      PROVE  Puts /\ sq_len' = sq_len + len /\ sq_len' \in Nat
  <2>1. PICK q : q = sq_len
    OBVIOUS
  <2>2. q \in Nat /\ len \in Nat
    BY <2>1, Types, Sizes
  <2>3. q + len \in Nat
    BY ONLY <2>2
  <2>4. sq_len' = q + len /\ aborted' = (q + len > SQ_SIZE - 1)
        /\ inform_phl_ready' = TRUE /\ phl_ready' = FALSE
    BY <1>2, <2>1 DEF PutFrame, Informs
  <2>5. aborted' \in BOOLEAN
    BY <2>4
  <2>6. aborted' => q + len > SQ_SIZE - 1
    BY <2>4
  <2> QED BY <2>1, <2>3, <2>4, <2>5, <2>6 DEF Puts
<1> QED BY <1>1, <1>2

(* What every handler ends with: the network layer is opened or closed.    *)
LEMMA HandledKeeps ==
  ASSUME LoopInv, Handle, Settles, Puts,
         timer' \in [Timer -> {Off} \cup Nat],
         outstanding' \in SUBSET Slot, nakked' \in SUBSET outstanding',
         rf' \in Nat, rf' <= rf
  PROVE  LoopInv'
<1>1. /\ event' = "none" /\ arg' = 0 /\ mode_flood' = mode_flood /\ slept' = slept
      /\ elapsed' = elapsed /\ rblk' = rblk /\ since' = since
      /\ network_layer_active' \in BOOLEAN
      /\ network_layer_active' => Cardinality(outstanding') < NR_BUFS /\ phl_ready'
  BY DEF Handle, EnableNetworkLayer, DisableNetworkLayer
<1>2. /\ sq_len \in Nat /\ elapsed \in Nat /\ rf \in Nat /\ rf <= MaxFrames
      /\ rblk \in Seq(Block) /\ MaxFrames \in Nat /\ 0 \in Timer
  <2>1. 0 \in Timer
    BY Sizes DEF Timer, ACK_TIMER_ID
  <2> QED BY <2>1, Types, Sizes
<1>3. /\ QueueFits'
      /\ \A x \in Nat :
           2 * (sq_len' + Owed' + DataLen * Cardinality(ExpiringIn(x)'))
             <= 2 * QueueBound + Rate * (x + elapsed')
  BY <1>1, SettlesFits
<1>4. TimersFit'
  BY <1>3 DEF TimersFit
<1>5. aborted' = FALSE
  <2>1. PICK q, o : q = sq_len' /\ o = Owed'
    OBVIOUS
  <2>2. q \in Nat /\ o \in Nat
    <3>1. Pending' = 0
      BY <1>1 DEF Pending
    <3>2. PICK a, l, k : /\ a = AckDue' /\ l = ControlLen * Len(rblk)
                         /\ k = (DataLen - ControlLen) * Cardinality(outstanding' \ nakked')
      OBVIOUS
    <3>3. a \in Nat
      BY <3>2, Sizes DEF AckDue
    <3>4. l \in Nat
      BY <3>2, Types, Blocked DEF LoopInv, BlocksSpaced
    <3>5. k \in Nat
      <4>1. outstanding' \ nakked' \in SUBSET Slot /\ 0 \in 0 .. NR_BUFS
        BY Sizes
      <4> QED BY <3>2, <4>1, SlotsCounted, SlotsOwe
    <3>6. o = 0 + a + l + k
      BY <1>1, <2>1, <3>1, <3>2 DEF Owed
    <3> QED BY <2>1, <3>3, <3>4, <3>5, <3>6 DEF Settles
  <2>3. q + o <= QueueBound
    BY <1>3, <2>1 DEF QueueFits
  <2>4. QueueBound \in Nat /\ SQ_SIZE \in Nat /\ QueueBound < SQ_SIZE
    BY Sizes
  <2>5. ~ q > SQ_SIZE - 1
    BY ONLY <2>2, <2>3, <2>4
  <2>6. ~ sq_len' > SQ_SIZE - 1
    BY <2>1, <2>5
  <2> QED BY <2>6 DEF Puts
<1>6. FramesWaiting' <= MaxFrames
  <2>1. PICK f, g : f = FramesOf(rblk) /\ g = rf'
    OBVIOUS
  <2>2. f \in Nat /\ g \in Nat /\ g <= rf /\ rf + f <= MaxFrames
    BY <1>2, <2>1, FramesCounted DEF LoopInv, FramesWaiting
  <2>3. FramesWaiting' = g + f
    BY <1>1, <2>1 DEF FramesWaiting
  <2> QED BY ONLY <1>2, <2>2, <2>3
<1>7. BlocksSpaced'
  BY <1>1 DEF LoopInv, BlocksSpaced
<1>8. Reported'
  BY <1>1 DEF Reported, Puts
<1>9. TypeOK'
  <2>1. rf' \in 0 .. MaxFrames
    BY <1>2
  <2> QED BY <1>1, <1>2, <1>5, <2>1 DEF LoopInv, NeverOverflows, TypeOK, Puts, Settles
<1> QED BY <1>1, <1>3, <1>4, <1>5, <1>6, <1>7, <1>8, <1>9 DEF LoopInv, NeverOverflows

(* A packet is taken when little waits. *)
LEMMA NetworkLayerReadyKeeps ==
  ASSUME LoopInv, Handle, NetworkLayerReady
  PROVE  LoopInv'
<1>1. PICK slot \in Slot \ outstanding :
        /\ PutFrame(DataLen) /\ timer' = WithData(slot)
        /\ outstanding' = outstanding \cup {slot}
        /\ rf' = rf /\ nakked' = nakked /\ event = "NETWORK_LAYER_READY"
  BY DEF NetworkLayerReady
<1>2. /\ sq_len \in Nat /\ rf \in Nat /\ timer \in [Timer -> {Off} \cup Nat]
      /\ outstanding \in SUBSET Slot /\ nakked \in SUBSET outstanding
      /\ ACK_TIMER_ID \in Timer /\ ACK_TIMER_ID \notin Slot
      /\ Timer = Slot \cup {ACK_TIMER_ID}
  BY Types
<1>3. Puts /\ sq_len' = sq_len + DataLen /\ sq_len' \in Nat
  BY <1>1, PutKeeps
<1>4. Deadline \in Nat /\ \A x \in Nat : Deadline <= x => 2 * sq_len' <= Rate * x
  BY <1>3, DeadlineAllows
<1>5. PICK t : t = Deadline /\ t \in Nat
  BY <1>4
<1>6. /\ timer' \in [Timer -> {Off} \cup Nat]
      /\ timer'[slot] = t /\ timer'[ACK_TIMER_ID] = Off
      /\ \A i \in Slot \ {slot} : timer'[i] = timer[i]
  BY <1>1, <1>2, <1>5 DEF WithData, WithoutAck
<1>7. AckDue' = 0
  BY <1>6 DEF AckDue, ACK_TIMER_ID
<1>8. ASSUME NEW x \in Nat
      PROVE  Cardinality(ExpiringIn(x)') < NR_BUFS \/ 2 * sq_len' <= Rate * x
  <2>1. CASE t <= x
    BY <1>4, <1>5, <2>1
  <2>2. CASE ~ t <= x
    <3>1. ExpiringIn(x)' \in SUBSET (Slot \ {slot})
      BY <1>6, <2>2 DEF ExpiringIn
    <3>2. Cardinality(Slot \ {slot}) = Cardinality(Slot) - 1 /\ Cardinality(Slot) \in 0 .. NR_BUFS
      BY <1>1, SlotsCounted
    <3>3. Cardinality(ExpiringIn(x)') <= Cardinality(Slot \ {slot})
      <4>1. Slot \ {slot} \in SUBSET Slot
        OBVIOUS
      <4> QED BY <3>1, <4>1, SlotsCounted
    <3>4. Cardinality(ExpiringIn(x)') \in Nat
      <4>1. ExpiringIn(x)' \in SUBSET Slot
        BY <3>1
      <4> QED BY <4>1, SlotsCounted
    <3> QED BY <3>2, <3>3, <3>4, Sizes
  <2> QED BY <2>1, <2>2
<1>9. sq_len' < PHL_SQ_LEVEL + DataLen
  <2>1. sq_len < PHL_SQ_LEVEL
    BY <1>1 DEF LoopInv, Reported
  <2> QED BY <1>2, <1>3, <2>1, Sizes
<1>10. Settles
  BY <1>3, <1>7, <1>8, <1>9 DEF Settles
<1>11. outstanding' \in SUBSET Slot /\ nakked' \in SUBSET outstanding' /\ rf' \in Nat /\ rf' <= rf
  BY <1>1, <1>2
<1> QED BY <1>3, <1>6, <1>10, <1>11, HandledKeeps

(* Reported only below the level. *)
LEMMA PhysicalLayerReadyKeeps ==
  ASSUME LoopInv, Handle, PhysicalLayerReady
  PROVE  LoopInv'
<1>1. /\ event = "PHYSICAL_LAYER_READY" /\ phl_ready' = TRUE
      /\ rf' = rf /\ sq_len' = sq_len /\ aborted' = aborted
      /\ inform_phl_ready' = inform_phl_ready /\ timer' = timer
      /\ outstanding' = outstanding /\ nakked' = nakked
  BY DEF PhysicalLayerReady, window
<1>2. /\ sq_len \in Nat /\ rf \in Nat /\ timer \in [Timer -> {Off} \cup Nat]
      /\ outstanding \in SUBSET Slot /\ nakked \in SUBSET outstanding
      /\ ~ aborted /\ aborted \in BOOLEAN /\ inform_phl_ready \in BOOLEAN
      /\ sq_len < PHL_SQ_LEVEL
  BY <1>1, Types DEF LoopInv, NeverOverflows, TypeOK, Reported
<1>3. Puts
  BY <1>1, <1>2 DEF Puts
<1>4. \A x \in Nat : ExpiringIn(x)' = ExpiringIn(x)
  BY <1>1 DEF ExpiringIn
<1>5. Conserved
  <2>1. PICK k : k = (DataLen - ControlLen) * Cardinality(outstanding \ nakked)
    OBVIOUS
  <2>2. k \in Nat
    <3>1. 0 \in 0 .. NR_BUFS
      BY Sizes
    <3> QED BY <2>1, <3>1, OwedAtMost, SlotsOwe
  <2>3. AckDue' = AckDue /\ AckDue \in Nat /\ Pending = 0
    BY <1>1, OwedAtMost, Sizes DEF AckDue, Pending
  <2>4. sq_len' + AckDue' + k <= sq_len + Pending + AckDue + k
    BY <1>1, <1>2, <2>2, <2>3
  <2> QED BY <1>1, <2>1, <2>4 DEF Conserved
<1>6. Settles
  BY <1>1, <1>2, <1>4, <1>5 DEF Settles
<1> QED BY <1>1, <1>2, <1>3, <1>6, HandledKeeps

(* What is put into the queue is paid for by the event and by the ACK      *)
(* timer, or by a slot that may not be asked for again.                    *)
LEMMA Paid ==
  ASSUME LoopInv, NEW put \in Nat, sq_len' = sq_len + put,
         outstanding' \ nakked' \subseteq outstanding \ nakked,
         \/ put + AckDue' <= Pending + AckDue
         \/ /\ put + AckDue' <= Pending + AckDue + (DataLen - ControlLen)
            /\ outstanding' \ nakked' # outstanding \ nakked
  PROVE  Conserved
<1>1. PICK T, U : T = outstanding \ nakked /\ U = outstanding' \ nakked'
  OBVIOUS
<1>2. T \in SUBSET Slot /\ U \in SUBSET T /\ U \in SUBSET Slot
  BY <1>1, Types
<1>3. PICK m, n, g, k, j :
        /\ m = Cardinality(T) /\ n = Cardinality(U) /\ g = DataLen - ControlLen
        /\ k = g * m /\ j = g * n
  OBVIOUS
<1>4. m \in Nat /\ n \in Nat /\ n <= m /\ g \in Nat
  BY <1>2, <1>3, SlotsCounted, Sizes
<1>5. k \in Nat /\ j \in Nat /\ j <= k
  BY <1>3, <1>4, Times
<1>6. ASSUME U # T PROVE j + g <= k
  <2>1. PICK s \in T : s \notin U
    BY <1>2, <1>6
  <2>2. U \in SUBSET (T \ {s}) /\ T \ {s} \in SUBSET Slot
    BY <1>2, <2>1
  <2>3. Cardinality(U) <= Cardinality(T \ {s}) /\ Cardinality(T \ {s}) = Cardinality(T) - 1
    BY <1>2, <2>1, <2>2, SlotsCounted
  <2>4. n + 1 <= m /\ n + 1 \in Nat
    BY <1>3, <1>4, <2>3
  <2>5. g * (n + 1) <= g * m
    BY <1>4, <2>4, Times
  <2>6. g * (n + 1) = g * n + g
    BY <1>4
  <2> QED BY <1>3, <2>5, <2>6
<1>7. PICK q, p, a, b : q = sq_len /\ p = Pending /\ a = AckDue /\ b = AckDue'
  OBVIOUS
<1>8. q \in Nat /\ p \in Nat /\ a \in Nat /\ b \in Nat
  BY <1>7, Types, Sizes DEF Pending, AckDue
<1>9. (q + put) + b + j <= q + p + a + k
  <2>1. CASE put + b <= p + a
    BY ONLY <1>5, <1>8, <2>1, put \in Nat
  <2>2. CASE put + b <= p + a + g /\ U # T
    <3>1. j + g <= k
      BY <1>6, <2>2
    <3> QED BY ONLY <1>4, <1>5, <1>8, <2>2, <3>1, put \in Nat
  <2> QED BY <1>1, <1>3, <1>7, <2>1, <2>2
<1> QED BY <1>1, <1>3, <1>7, <1>9 DEF Conserved

(* A frame is sent once more. *)
LEMMA DataTimeoutKeeps ==
  ASSUME LoopInv, Handle, DataTimeout
  PROVE  LoopInv'
<1>1. /\ event = "DATA_TIMEOUT" /\ PutFrame(DataLen) /\ timer' = WithData(arg)
      /\ rf' = rf /\ outstanding' = outstanding /\ nakked' = nakked
  BY DEF DataTimeout, window
<1>2. /\ sq_len \in Nat /\ rf \in Nat /\ timer \in [Timer -> {Off} \cup Nat]
      /\ outstanding \in SUBSET Slot /\ nakked \in SUBSET outstanding
      /\ ACK_TIMER_ID \in Timer /\ ACK_TIMER_ID \notin Slot
      /\ Timer = Slot \cup {ACK_TIMER_ID} /\ arg \in Slot
  BY <1>1, Types DEF LoopInv
<1>3. Puts /\ sq_len' = sq_len + DataLen /\ sq_len' \in Nat
  BY <1>1, PutKeeps
<1>4. Deadline \in Nat /\ \A x \in Nat : Deadline <= x => 2 * sq_len' <= Rate * x
  BY <1>3, DeadlineAllows
<1>5. PICK t : t = Deadline /\ t \in Nat
  BY <1>4
<1>6. /\ timer' \in [Timer -> {Off} \cup Nat]
      /\ timer'[arg] = t /\ timer'[ACK_TIMER_ID] = Off
      /\ \A i \in Slot \ {arg} : timer'[i] = timer[i]
  BY <1>1, <1>2, <1>5 DEF WithData, WithoutAck
<1>7. AckDue' = 0 /\ AckDue \in Nat /\ Pending = DataLen
  BY <1>1, <1>6, OwedAtMost, Sizes DEF AckDue, ACK_TIMER_ID, Pending
<1>8. Conserved
  BY <1>1, <1>3, <1>7, Paid, Sizes
<1>9. \A x \in Nat : ExpiringIn(x)' \subseteq ExpiringIn(x) \/ 2 * sq_len' <= Rate * x
  BY <1>4, <1>5, <1>6 DEF ExpiringIn
<1>10. Settles
  BY <1>3, <1>8, <1>9 DEF Settles
<1> QED BY <1>1, <1>2, <1>3, <1>6, <1>10, HandledKeeps

(* The ACK that was due goes out. *)
LEMMA AckTimeoutKeeps ==
  ASSUME LoopInv, Handle, AckTimeout
  PROVE  LoopInv'
<1>1. /\ event = "ACK_TIMEOUT" /\ PutFrame(ControlLen) /\ timer' = WithoutAck
      /\ rf' = rf /\ outstanding' = outstanding /\ nakked' = nakked
  BY DEF AckTimeout, window
<1>2. /\ sq_len \in Nat /\ rf \in Nat /\ timer \in [Timer -> {Off} \cup Nat]
      /\ outstanding \in SUBSET Slot /\ nakked \in SUBSET outstanding
      /\ ACK_TIMER_ID \in Timer /\ ACK_TIMER_ID \notin Slot
      /\ Timer = Slot \cup {ACK_TIMER_ID}
  BY Types
<1>3. Puts /\ sq_len' = sq_len + ControlLen /\ sq_len' \in Nat
  BY <1>1, PutKeeps
<1>4. /\ timer' \in [Timer -> {Off} \cup Nat] /\ timer'[ACK_TIMER_ID] = Off
      /\ \A i \in Slot : timer'[i] = timer[i]
  BY <1>1, <1>2 DEF WithoutAck
<1>5. AckDue' = 0 /\ AckDue \in Nat /\ Pending = ControlLen
  BY <1>1, <1>4, OwedAtMost, Sizes DEF AckDue, ACK_TIMER_ID, Pending
<1>6. Conserved
  BY <1>1, <1>3, <1>5, Paid, Sizes
<1>7. \A x \in Nat : ExpiringIn(x)' \subseteq ExpiringIn(x)
  BY <1>4 DEF ExpiringIn
<1>8. Settles
  BY <1>3, <1>6, <1>7 DEF Settles
<1> QED BY <1>1, <1>2, <1>3, <1>4, <1>8, HandledKeeps

(* Answers to a frame. *)
LEMMA FrameReceivedKeeps ==
  ASSUME LoopInv, Handle, FrameReceived
  PROVE  LoopInv'
<1>1. /\ event = "FRAME_RECEIVED" /\ rf' = rf - 1
      /\ sq_len \in Nat /\ rf \in Nat /\ rf > 0 /\ timer \in [Timer -> {Off} \cup Nat]
      /\ outstanding \in SUBSET Slot /\ nakked \in SUBSET outstanding
      /\ ACK_TIMER_ID \in Timer /\ ACK_TIMER_ID \notin Slot
      /\ Timer = Slot \cup {ACK_TIMER_ID} /\ arg \in Timer
  BY Types DEF LoopInv, FrameReceived
<1>2. PICK acked \in SUBSET outstanding :
        /\ outstanding' = outstanding \ acked
        /\ \/ /\ PutNothing
              /\ timer' = Stopped(timer, acked)
              /\ nakked' = nakked \ acked
           \/ /\ PutFrame(ControlLen)
              /\ timer' = Stopped(WithoutAck, acked)
              /\ nakked' = nakked \ acked
           \/ /\ PutNothing
              /\ timer' = Stopped(StartAckTimer(timer), acked)
              /\ nakked' = nakked \ acked
           \/ \E slot \in outstanding' \ nakked :
                /\ PutFrame(DataLen)
                /\ timer' = Stopped(WithData(slot), acked)
                /\ nakked' = (nakked \ acked) \cup {slot}
  BY DEF FrameReceived
<1>3. /\ outstanding' \in SUBSET Slot /\ nakked' \in SUBSET outstanding'
      /\ outstanding' \ nakked' \subseteq outstanding \ nakked
      /\ rf' \in Nat /\ rf' <= rf /\ ACK_TIMER_ID \notin acked
  BY <1>1, <1>2
<1>4. /\ Pending = ControlLen /\ ControlLen \in Nat /\ DataLen \in Nat
      /\ DataLen - ControlLen \in Nat /\ 0 \in Nat
      /\ AckDue \in Nat /\ AckDue <= ControlLen
  BY <1>1, OwedAtMost, Sizes DEF Pending
<1>5. CASE PutNothing /\ timer' = Stopped(timer, acked)
  <2>1. /\ timer' \in [Timer -> {Off} \cup Nat]
        /\ timer'[ACK_TIMER_ID] = timer[ACK_TIMER_ID]
        /\ \A i \in Slot : timer'[i] = Off \/ timer'[i] = timer[i]
    BY <1>1, <1>3, <1>5 DEF Stopped
  <2>2. Puts /\ sq_len' = sq_len
    BY <1>5, PutKeeps
  <2>3. AckDue' = AckDue
    BY <2>1 DEF AckDue, ACK_TIMER_ID
  <2>4. 0 + AckDue' <= Pending + AckDue /\ sq_len' = sq_len + 0
    BY <1>1, <1>4, <2>2, <2>3
  <2>5. Conserved
    BY <1>3, <1>4, <2>4, Paid
  <2>6. \A x \in Nat : ExpiringIn(x)' \subseteq ExpiringIn(x)
    BY <2>1 DEF ExpiringIn
  <2>7. Settles
    BY <1>1, <2>2, <2>5, <2>6 DEF Settles
  <2> QED BY <1>3, <2>1, <2>2, <2>7, HandledKeeps
<1>6. CASE PutFrame(ControlLen) /\ timer' = Stopped(WithoutAck, acked)
  <2>1. /\ timer' \in [Timer -> {Off} \cup Nat] /\ timer'[ACK_TIMER_ID] = Off
        /\ \A i \in Slot : timer'[i] = Off \/ timer'[i] = timer[i]
    BY <1>1, <1>3, <1>6 DEF Stopped, WithoutAck
  <2>2. Puts /\ sq_len' = sq_len + ControlLen /\ sq_len' \in Nat
    BY <1>6, PutKeeps
  <2>3. AckDue' = 0
    BY <2>1 DEF AckDue, ACK_TIMER_ID
  <2>4. ControlLen + AckDue' <= Pending + AckDue
    BY <1>4, <2>3
  <2>5. Conserved
    BY <1>3, <1>4, <2>2, <2>4, Paid
  <2>6. \A x \in Nat : ExpiringIn(x)' \subseteq ExpiringIn(x)
    BY <2>1 DEF ExpiringIn
  <2>7. Settles
    BY <2>2, <2>5, <2>6 DEF Settles
  <2> QED BY <1>3, <2>1, <2>2, <2>7, HandledKeeps
<1>7. CASE PutNothing /\ timer' = Stopped(StartAckTimer(timer), acked)
  <2>1. /\ timer' \in [Timer -> {Off} \cup Nat]
        /\ \A i \in Slot : timer'[i] = Off \/ timer'[i] = timer[i]
    <3>1. /\ StartAckTimer(timer) \in [Timer -> {Off} \cup Nat]
          /\ \A i \in Slot : StartAckTimer(timer)[i] = timer[i]
      BY <1>1, Sizes DEF StartAckTimer
    <3> HIDE DEF StartAckTimer
    <3> QED BY <1>1, <1>7, <3>1 DEF Stopped
  <2>2. Puts /\ sq_len' = sq_len
    BY <1>7, PutKeeps
  <2>3. AckDue' \in Nat /\ AckDue' <= ControlLen
    BY <1>4 DEF AckDue
  <2>4. 0 + AckDue' <= Pending + AckDue
    <3>1. PICK b, a, c : b = AckDue' /\ a = AckDue /\ c = ControlLen
      OBVIOUS
    <3>2. b \in Nat /\ a \in Nat /\ c \in Nat /\ b <= c
      BY <1>4, <2>3, <3>1
    <3>3. 0 + b <= c + a
      BY ONLY <3>2
    <3> QED BY <1>4, <3>1, <3>3
  <2>5. sq_len' = sq_len + 0
    BY <1>1, <2>2
  <2>6. Conserved
    BY <1>3, <1>4, <2>4, <2>5, Paid
  <2>7. \A x \in Nat : ExpiringIn(x)' \subseteq ExpiringIn(x)
    BY <2>1 DEF ExpiringIn
  <2>8. Settles
    BY <1>1, <2>2, <2>6, <2>7 DEF Settles
  <2> QED BY <1>3, <2>1, <2>2, <2>8, HandledKeeps
<1>8. ASSUME NEW slot \in outstanding' \ nakked, PutFrame(DataLen),
             timer' = Stopped(WithData(slot), acked), nakked' = (nakked \ acked) \cup {slot}
      PROVE  LoopInv'
  <2>1. Puts /\ sq_len' = sq_len + DataLen /\ sq_len' \in Nat
    BY <1>8, PutKeeps
  <2>2. Deadline \in Nat /\ \A x \in Nat : Deadline <= x => 2 * sq_len' <= Rate * x
    BY <2>1, DeadlineAllows
  <2>3. PICK t : t = Deadline /\ t \in Nat
    BY <2>2
  <2>4. slot \in Slot /\ slot \notin acked /\ slot \in outstanding
    BY <1>1, <1>2
  <2>5. /\ timer' \in [Timer -> {Off} \cup Nat]
        /\ timer'[slot] = t /\ timer'[ACK_TIMER_ID] = Off
        /\ \A i \in Slot \ {slot} : timer'[i] = Off \/ timer'[i] = timer[i]
    BY <1>1, <1>3, <1>8, <2>3, <2>4 DEF Stopped, WithData, WithoutAck
  <2>6. AckDue' = 0
    BY <2>5 DEF AckDue, ACK_TIMER_ID
  <2>7. DataLen + AckDue' <= Pending + AckDue + (DataLen - ControlLen)
    BY <1>4, <2>6
  <2>8. outstanding' \ nakked' # outstanding \ nakked
    BY <1>8, <2>4
  <2>9. Conserved
    BY <1>3, <1>4, <2>1, <2>7, <2>8, Paid
  <2>10. \A x \in Nat : ExpiringIn(x)' \subseteq ExpiringIn(x) \/ 2 * sq_len' <= Rate * x
    BY <2>2, <2>3, <2>5 DEF ExpiringIn
  <2>11. Settles
    BY <2>1, <2>9, <2>10 DEF Settles
  <2> QED BY <1>3, <2>1, <2>5, <2>11, HandledKeeps
<1> QED BY <1>2, <1>5, <1>6, <1>7, <1>8

-----------------------------------------------------------------------------
(* At the start nothing waits, no timer runs and nothing is outstanding:   *)
(* LoopInv holds.                                                          *)
LEMMA LoopInit ==
  ASSUME Init
  PROVE  LoopInv
<1>1. /\ event = "none" /\ arg = 0 /\ sq_len = 0 /\ elapsed = 0 /\ rblk = <<>> /\ rf = 0
      /\ timer = [i \in Timer |-> Off] /\ since = 0 /\ outstanding = {} /\ nakked = {}
      /\ mode_flood \in BOOLEAN /\ slept = FALSE /\ inform_phl_ready = TRUE
      /\ network_layer_active = TRUE /\ aborted = FALSE /\ phl_ready = FALSE
  BY DEF Init
<1>2. 0 \in Timer /\ 0 \in 0 .. Wrap - 1 /\ 0 \in 0 .. MaxFrames /\ ACK_TIMER_ID \in Timer
  BY Sizes DEF Timer, ACK_TIMER_ID
<1>3. timer \in [Timer -> {Off} \cup Nat] /\ rblk \in Seq(Block) /\ Len(rblk) = 0
  BY <1>1
<1>4. TypeOK
  BY <1>1, <1>2, <1>3 DEF TypeOK, Block
<1>5. FramesWaiting = 0
  <2>1. PICK s : Sums(rblk, s)
    BY <1>3, FramesSummed
  <2>2. FramesOf(rblk) = 0
    BY <1>3, <2>1 DEF Sums
  <2> QED BY <1>1, <2>2 DEF FramesWaiting
<1>6. BlocksSpaced
  BY <1>1, <1>3, Sizes DEF BlocksSpaced
<1>7. Cardinality({}) = 0
  BY FS_EmptySet
<1>8. Reported
  <2>1. 0 < PHL_SQ_LEVEL /\ 0 < NR_BUFS
    BY Sizes
  <2> QED BY <1>1, <1>7, <2>1 DEF Reported
<1>9. Owed = 0
  <2>1. Pending = 0 /\ AckDue = 0
    BY <1>1, <1>2 DEF Pending, AckDue
  <2>2. outstanding \ nakked = {}
    BY <1>1
  <2>3. ControlLen * 0 = 0 /\ (DataLen - ControlLen) * 0 = 0
    BY Sizes
  <2>4. Owed = 0 + 0 + 0 + 0
    BY <1>3, <1>7, <2>1, <2>2, <2>3 DEF Owed
  <2> QED BY <2>4
<1>10. QueueFits
  BY <1>1, <1>9, Sizes DEF QueueFits
<1>11. TimersFit
  <2>1. ASSUME NEW x \in Nat
        PROVE  2 * (sq_len + Owed + DataLen * Cardinality(ExpiringIn(x)))
                 <= 2 * QueueBound + Rate * (x + elapsed)
    <3>1. ExpiringIn(x) = {}
      <4>1. \A s \in Slot : timer[s] = Off
        <5>1. Slot \subseteq Timer
          BY Sizes DEF Slot, Timer, ACK_TIMER_ID
        <5> QED BY <1>1, <5>1
      <4> QED BY <4>1 DEF ExpiringIn
    <3>2. DataLen * Cardinality(ExpiringIn(x)) = 0
      BY <1>7, <3>1, Sizes
    <3>3. Rate * (x + elapsed) \in Nat
      <4>1. x + elapsed \in Nat /\ Rate \in Nat
        BY <1>1, Sizes
      <4> QED BY ONLY <4>1, Times
    <3>4. PICK r : r = Rate * (x + elapsed)
      OBVIOUS
    <3>5. r \in Nat /\ QueueBound \in Nat
      BY <3>3, <3>4, Sizes
    <3>6. 2 * (0 + 0 + 0) <= 2 * QueueBound + r
      BY ONLY <3>5
    <3> QED BY <1>1, <1>9, <3>2, <3>4, <3>6
  <2> QED BY <2>1 DEF TimersFit
<1> QED BY <1>1, <1>4, <1>5, <1>6, <1>8, <1>10, <1>11, Sizes DEF LoopInv, NeverOverflows

LEMMA LoopStep ==
  ASSUME LoopInv, [Next]_vars
  PROVE  LoopInv'
<1>1. CASE Pass
  BY <1>1, CommitBlockKeeps, LookKeeps DEF Pass
<1>2. CASE Handle
  BY <1>2, NetworkLayerReadyKeeps, PhysicalLayerReadyKeeps, DataTimeoutKeeps,
     AckTimeoutKeeps, FrameReceivedKeeps DEF Handle
<1>3. CASE UNCHANGED vars
  BY <1>3 DEF vars, window, LoopInv, NeverOverflows, TypeOK, FramesWaiting, FramesOf,
              BlocksSpaced, Reported, QueueFits, TimersFit, Owed, Pending, AckDue,
              ExpiringIn
<1> QED BY <1>1, <1>2, <1>3 DEF Next

(* What waits in the sending queue and what is owed fit together, in every *)
(* state of wait_for_event and main.                                       *)
THEOREM LoopInvCorrect == Spec => []LoopInv
<1>1. Init => LoopInv
  BY LoopInit
<1>2. LoopInv /\ [Next]_vars => LoopInv'
  BY LoopStep
<1> QED BY <1>1, <1>2, PTL DEF Spec

(* put_frame never aborts: the sending queue never overflows.              *)
THEOREM NeverOverflowsHolds == Spec => []NeverOverflows
<1>1. LoopInv => NeverOverflows
  BY DEF LoopInv
<1> QED BY <1>1, LoopInvCorrect, PTL

-----------------------------------------------------------------------------
(* The first relay. *)

Datagram == [from : User \cup {TheServer}, name : Domain, long : BOOLEAN]

(* Line m is the last of the first n for its name. *)
LastFor(m, n) ==
  \A k \in m + 1 .. n : LinesRead[k].domain # LinesRead[m].domain

(* The first of a list with that name. *)
FirstIs(list, line) ==
  \E j \in 1 .. Len(list) : /\ list[j] = line
                            /\ \A k \in 1 .. j - 1 : list[k].domain # line.domain

(* A name is first found in its list as the last of the first n lines with *)
(* that name has it.                                                       *)
Holds(lists, n) ==
  /\ lists \in [List -> Seq(Line)]
  /\ \A m \in 1 .. n :
       LastFor(m, n) => FirstIs(lists[HashCode[LinesRead[m].domain]], LinesRead[m])

(* Before the program has its query, nothing was sent on and all that      *)
(* waits is of users.  After it, that query was sent on and nothing else;  *)
(* if no user sent another datagram, what waits is from the server.        *)
Asked ==
  IF client = Empty
    THEN /\ forwarded = {}
         /\ Len(socket) <= Len(sentBy)
    ELSE /\ client \in Datagram /\ forwarded = {client.name}
         /\ Len(sentBy) >= 1
         /\ Len(sentBy) <= 1 => \A i \in 1 .. Len(socket) : socket[i].from = TheServer

(* Where the program is and what it has; whatever the server sends, is     *)
(* about a query it got.                                                   *)
BlockingInv ==
  /\ socket \in Seq(Datagram)
  /\ pc \in {"start", "receive", "wait", "look", "smashed", "crash", "end"}
  /\ sentBy \in Seq([from : User, name : Domain])
  /\ pc = "start" => hlist = [b \in List |-> NoList]
  /\ pc \in {"start", "receive"} => client = Empty
  /\ pc = "wait" => client # Empty
  /\ \A i \in 1 .. Len(socket) : socket[i].from = TheServer => socket[i].name \in forwarded
  /\ Asked
  /\ pc = "receive" \/ client # Empty => Holds(hlist, Len(LinesRead))
  /\ client # Empty /\ LabelCount[client.name] = 2 => temp = client.name
  /\ ServedUnlessOvertaken

-----------------------------------------------------------------------------
(* The largest member of a set of numbers up to n.                         *)
LEMMA LargestUpTo ==
  ASSUME NEW n \in Nat, NEW S, S \subseteq 1 .. n, S # {}
  PROVE  /\ Max(S) \in S /\ \A y \in S : y <= Max(S)
<1> DEFINE T == {k \in 0 .. n : n - k \in S}
<1>1. PICK x \in S : TRUE
  OBVIOUS
<1>2. x \in 1 .. n /\ n - x \in 0 .. n /\ n - (n - x) = x
  BY <1>1
<1>3. n - x \in T /\ T \subseteq Nat
  BY <1>1, <1>2
<1>4. PICK k \in T : \A j \in T : k <= j
  <2> HIDE DEF T
  <2> QED BY <1>3, LeastNatural
<1>5. ASSUME NEW y \in S PROVE n - k >= y
  <2>1. y \in 1 .. n /\ n - y \in 0 .. n /\ n - (n - y) = y
    OBVIOUS
  <2>2. n - y \in T
    BY <2>1
  <2>3. k <= n - y
    BY <1>4, <2>2
  <2>4. k \in Nat
    BY <1>3
  <2> QED BY <2>1, <2>3, <2>4
<1>6. \E z \in S : \A y \in S : z >= y
  <2>1. n - k \in S
    BY <1>4
  <2> QED BY <1>5, <2>1
<1>7. Max(S) \in S /\ \A y \in S : Max(S) >= y
  BY <1>6 DEF Max
<1>8. Max(S) \in Int
  <2>1. S \subseteq Int
    OBVIOUS
  <2> HIDE DEF Max
  <2> QED BY <1>7, <2>1
<1>9. ASSUME NEW y \in S PROVE y <= Max(S)
  <2>1. Max(S) >= y /\ y \in Int
    BY <1>7
  <2> HIDE DEF Max
  <2> QED BY <1>8, <2>1
<1> QED BY <1>7, <1>9

-----------------------------------------------------------------------------
(* The table. *)

LEMMA TableLines ==
  /\ Len(TableFile) \in Nat \ {0}
  /\ LinesRead \in Seq(Line)
  /\ Len(LinesRead) = Len(TableFile) + 1
  /\ \A i \in 1 .. Len(TableFile) : LinesRead[i] = TableFile[i] /\ TableFile[i] \in Line
  /\ LinesRead[Len(TableFile) + 1] = TableFile[Len(TableFile)]
<1>1. TableFile \in Seq(Line) /\ Len(TableFile) \in Nat \ {0}
  BY BlockingAssumption
<1>2. PICK t, u, n : t = TableFile /\ u = LinesRead /\ n = Len(t)
  OBVIOUS
<1>3. t \in Seq(Line) /\ n \in Nat \ {0} /\ t[n] \in Line
  BY <1>1, <1>2
<1>4. u = t \o <<t[n]>>
  BY <1>2 DEF LinesRead, Last
<1>5. /\ u \in Seq(Line) /\ Len(u) = n + 1
      /\ \A i \in 1 .. n : u[i] = t[i] /\ t[i] \in Line
      /\ u[n + 1] = t[n]
  BY <1>2, <1>3, <1>4
<1> QED BY <1>1, <1>2, <1>5

Reading(lists, lines, read) ==
  /\ read[0] = lists
  /\ \A n \in 1 .. Len(lines) : read[n] = AddHashMap(read[n - 1], lines[n])
  /\ HashMapInit(lists, lines) = read[Len(lines)]

(* HashMapInit, line by line. *)
LEMMA TableRead ==
  ASSUME NEW lists, NEW lines, Len(lines) \in Nat
  PROVE  \E read : Reading(lists, lines, read)
<1> DEFINE Step(r, i) == IF i = 0 THEN lists ELSE AddHashMap(r[i - 1], lines[i])
           UpTo(n, r) == r = [i \in 0 .. n |-> Step(r, i)]
           T == {n \in Nat : ~ \E r : UpTo(n, r)}
<1>1. ASSUME T # {} PROVE FALSE
  <2>1. PICK n \in T : \A k \in T : n <= k
    <3>1. T \subseteq Nat
      OBVIOUS
    <3> HIDE DEF T
    <3> QED BY <1>1, <3>1, LeastNatural
  <2>2. n \in Nat /\ ~ \E r : UpTo(n, r)
    BY <2>1
  <2>3. CASE n = 0
    <3> DEFINE r == [i \in 0 .. 0 |-> lists]
    <3>1. [i \in 0 .. 0 |-> Step(r, i)] = r
      OBVIOUS
    <3>2. UpTo(n, r)
      BY <2>3, <3>1
    <3> QED BY <2>2, <3>2
  <2>4. CASE n > 0
    <3>1. PICK f : UpTo(n - 1, f)
      <4>1. n - 1 \in Nat /\ ~ n <= n - 1
        BY <2>2, <2>4
      <4>2. n - 1 \notin T
        <5> HIDE DEF T
        <5> QED BY <2>1, <4>1
      <4> QED BY <4>1, <4>2
    <3> DEFINE r == [i \in 0 .. n |-> Step(f, i)]
    <3>2. \A i \in 0 .. (n - 1) : r[i] = f[i]
      <4> TAKE i \in 0 .. (n - 1)
      <4>1. f[i] = Step(f, i)
        <5> HIDE DEF Step
        <5> QED BY <3>1
      <4>2. i \in 0 .. n
        BY <2>2
      <4> HIDE DEF Step
      <4> QED BY <4>1, <4>2
    <3>3. ASSUME NEW i \in 0 .. n PROVE Step(r, i) = Step(f, i)
      <4>1. CASE i = 0
        BY <4>1
      <4>2. CASE i # 0
        <5>1. r[i - 1] = f[i - 1]
          <6>1. i - 1 \in 0 .. (n - 1)
            BY <4>2, <2>2
          <6> QED BY <6>1, <3>2
        <5> HIDE DEF r
        <5> QED BY <4>2, <5>1
      <4> QED BY <4>1, <4>2
    <3>4. r = [i \in 0 .. n |-> Step(r, i)]
      <4> HIDE DEF Step
      <4> QED BY <3>3
    <3>5. UpTo(n, r)
      BY <3>4
    <3> QED BY <2>2, <3>5
  <2> QED BY <2>2, <2>3, <2>4
<1>2. PICK f : UpTo(Len(lines), f)
  BY <1>1
<1> DEFINE read == CHOOSE r : UpTo(Len(lines), r)
<1>3. UpTo(Len(lines), read)
  BY <1>2
<1>4. HashMapInit(lists, lines) = read[Len(lines)]
  BY DEF HashMapInit
<1>5. PICK s : s = read
  OBVIOUS
<1>6. s = [i \in 0 .. Len(lines) |-> Step(s, i)]
  BY <1>3, <1>5
<1>7. s[0] = lists
  BY <1>6
<1>8. ASSUME NEW n \in 1 .. Len(lines) PROVE s[n] = AddHashMap(s[n - 1], lines[n])
  <2>1. n \in 0 .. Len(lines) /\ n # 0
    OBVIOUS
  <2> QED BY <1>6, <2>1
<1>9. Reading(lists, lines, s)
  BY <1>4, <1>5, <1>7, <1>8 DEF Reading
<1> QED BY <1>9

LEMMA InFront ==
  ASSUME NEW list \in Seq(Line), NEW line \in Line, NEW more, more = <<line>> \o list
  PROVE  /\ more \in Seq(Line) /\ Len(more) = Len(list) + 1 /\ Len(list) \in Nat
         /\ more[1] = line
         /\ \A k \in 1 .. Len(list) : more[k + 1] = list[k]
OBVIOUS

(* One line more. *)
LEMMA AddHolds ==
  ASSUME NEW n \in Nat, n + 1 <= Len(LinesRead), NEW lists, Holds(lists, n),
         NEW more, more = AddHashMap(lists, LinesRead[n + 1])
  PROVE  Holds(more, n + 1)
<1>1. PICK line, b : line = LinesRead[n + 1] /\ b = HashCode[line.domain]
  OBVIOUS
<1>2. /\ Len(LinesRead) \in Nat
      /\ \A m \in 1 .. n + 1 : LinesRead[m] \in Line /\ HashCode[LinesRead[m].domain] \in List
  <2>1. LinesRead \in Seq(Line) /\ Len(LinesRead) \in Nat
    BY TableLines
  <2>2. \A m \in 1 .. n + 1 : LinesRead[m] \in Line
    BY <2>1
  <2> QED BY <2>1, <2>2, BlockingAssumption DEF Line
<1>3. line \in Line /\ b \in List
  BY <1>1, <1>2
<1>4. lists \in [List -> Seq(Line)]
  BY DEF Holds
<1>5. PICK front : front = <<line>> \o lists[b]
  OBVIOUS
<1>6. /\ front \in Seq(Line) /\ Len(front) = Len(lists[b]) + 1 /\ Len(lists[b]) \in Nat
      /\ front[1] = line
      /\ \A k \in 1 .. Len(lists[b]) : front[k + 1] = lists[b][k]
  <2>1. lists[b] \in Seq(Line)
    BY <1>3, <1>4
  <2> QED BY <1>3, <1>5, <2>1, InFront
<1>7. more = [lists EXCEPT ![b] = front]
  BY <1>1, <1>5 DEF AddHashMap
<1>8. /\ more \in [List -> Seq(Line)]
      /\ more[b] = front /\ \A c \in List : c # b => more[c] = lists[c]
  BY <1>3, <1>4, <1>6, <1>7
<1>9. ASSUME NEW m \in 1 .. n + 1, LastFor(m, n + 1)
      PROVE  FirstIs(more[HashCode[LinesRead[m].domain]], LinesRead[m])
  <2>1. CASE m = n + 1
    <3>1. 1 \in 1 .. Len(front) /\ front[1] = line
      BY <1>6
    <3>2. FirstIs(front, line)
      BY <3>1 DEF FirstIs
    <3> QED BY <1>1, <1>8, <2>1, <3>2
  <2>2. CASE m \in 1 .. n
    <3>1. LastFor(m, n) /\ line.domain # LinesRead[m].domain
      BY <1>1, <1>9, <2>2 DEF LastFor
    <3>2. PICK old, c : old = LinesRead[m] /\ c = HashCode[old.domain]
      OBVIOUS
    <3>3. FirstIs(lists[c], old) /\ c \in List
      BY <1>2, <2>2, <3>1, <3>2 DEF Holds
    <3>4. CASE c # b
      BY <1>8, <3>2, <3>3, <3>4
    <3>5. CASE c = b
      <4>1. PICK j \in 1 .. Len(lists[b]) :
              lists[b][j] = old /\ \A k \in 1 .. j - 1 : lists[b][k].domain # old.domain
        BY <3>3, <3>5 DEF FirstIs
      <4>2. j + 1 \in 1 .. Len(front) /\ front[j + 1] = old
        BY <1>6, <4>1
      <4>3. ASSUME NEW k \in 1 .. (j + 1) - 1 PROVE front[k].domain # old.domain
        <5>1. CASE k = 1
          BY <1>6, <3>1, <3>2, <5>1
        <5>2. CASE k # 1
          <6>1. k - 1 \in 1 .. j - 1 /\ k - 1 \in 1 .. Len(lists[b]) /\ (k - 1) + 1 = k
            BY <1>6, <5>2
          <6>2. front[k] = lists[b][k - 1]
            BY <1>6, <6>1
          <6> QED BY <4>1, <6>1, <6>2
        <5> QED BY <5>1, <5>2
      <4>4. FirstIs(front, old)
        BY <4>2, <4>3 DEF FirstIs
      <4> QED BY <1>8, <3>2, <3>5, <4>4
    <3> QED BY <3>4, <3>5
  <2> QED BY <2>1, <2>2
<1> QED BY <1>8, <1>9 DEF Holds

LEMMA TableHolds ==
  ASSUME NEW lists, lists = [b \in List |-> NoList],
         NEW made, made = HashMapInit(lists, LinesRead)
  PROVE  Holds(made, Len(LinesRead))
<1>1. PICK n \in Nat : n = Len(LinesRead)
  BY TableLines
<1>2. PICK read : Reading(lists, LinesRead, read)
  BY <1>1, TableRead
<1>3. /\ read[0] = lists /\ made = read[n]
      /\ \A i \in 1 .. n : read[i] = AddHashMap(read[i - 1], LinesRead[i])
  BY <1>1, <1>2 DEF Reading
<1> DEFINE G == {i \in 0 .. n : Holds(read[i], i)}
<1>4. 0 \in G
  <2>1. lists \in [List -> Seq(Line)]
    BY DEF NoList
  <2>2. Holds(lists, 0)
    BY <2>1 DEF Holds
  <2> QED BY <1>3, <2>2
<1>5. ASSUME NEW i \in 1 .. n, i - 1 \in G PROVE i \in G
  <2>1. PICK k \in Nat : k = i - 1 /\ k + 1 = i /\ k + 1 <= Len(LinesRead)
    BY <1>1
  <2>2. Holds(read[k], k) /\ read[i] = AddHashMap(read[k], LinesRead[k + 1])
    BY <1>3, <1>5, <2>1
  <2>3. Holds(read[i], k + 1)
    BY <2>1, <2>2, AddHolds
  <2> QED BY <2>1, <2>3
<1>6. n \in G
  <2> HIDE DEF G
  <2>1. \A i \in 0 .. n : i \in G
    BY <1>4, <1>5, GoesOn
  <2> QED BY <2>1
<1> QED BY <1>1, <1>3, <1>6

(* The line that counts for a name is in front of the others for it.       *)
LEMMA LineThatCounts ==
  ASSUME NEW lists, Holds(lists, Len(LinesRead)), NEW name \in Domain,
         NEW S, S = {i \in DOMAIN TableFile : TableFile[i].domain = name}, S # {}
  PROVE  /\ FirstIs(lists[HashCode[name]], TableFile[Max(S)])
         /\ TableFile[Max(S)].domain = name
<1>1. PICK n \in Nat \ {0} : n = Len(TableFile)
  BY TableLines
<1>2. /\ Len(LinesRead) = n + 1
      /\ \A i \in 1 .. n : LinesRead[i] = TableFile[i]
      /\ LinesRead[n + 1] = TableFile[n]
  BY <1>1, TableLines
<1>3. DOMAIN TableFile = 1 .. n
  BY <1>1, BlockingAssumption
<1>4. PICK last : last = Max(S)
  OBVIOUS
<1>5. last \in S /\ \A y \in S : y <= last
  <2>1. S \subseteq 1 .. n
    BY <1>3
  <2> QED BY <1>4, <2>1, LargestUpTo
<1>6. last \in 1 .. n /\ TableFile[last].domain = name
  BY <1>3, <1>5
<1>7. PICK m \in 1 .. n + 1 : LinesRead[m] = TableFile[last] /\ LastFor(m, n + 1)
  <2>1. CASE last = n
    <3>1. LastFor(n + 1, n + 1)
      BY DEF LastFor
    <3> QED BY <1>2, <2>1, <3>1
  <2>2. CASE last < n
    <3>1. ASSUME NEW k \in last + 1 .. n + 1 PROVE LinesRead[k].domain # name
      <4>1. PICK i \in 1 .. n : i > last /\ LinesRead[k] = TableFile[i]
        <5>1. CASE k = n + 1
          BY <1>2, <2>2, <5>1
        <5>2. CASE k # n + 1
          BY <1>2, <1>6, <5>2
        <5> QED BY <5>1, <5>2
      <4>2. i \notin S
        BY <1>5, <1>6, <4>1
      <4> QED BY <1>3, <4>1, <4>2
    <3>2. last \in 1 .. n + 1 /\ LinesRead[last] = TableFile[last]
      BY <1>2, <1>6
    <3>3. LastFor(last, n + 1)
      BY <1>6, <3>1, <3>2 DEF LastFor
    <3> QED BY <3>2, <3>3
  <2> QED BY <1>6, <2>1, <2>2
<1>8. FirstIs(lists[HashCode[LinesRead[m].domain]], LinesRead[m])
  BY <1>2, <1>7 DEF Holds
<1> QED BY <1>4, <1>6, <1>7, <1>8

LEMMA FirstFound ==
  ASSUME NEW list \in Seq(Line), NEW line, FirstIs(list, line),
         NEW S, S = {i \in DOMAIN list : list[i].domain = line.domain}
  PROVE  S # {} /\ list # <<>> /\ list[Min(S)] = line
<1>1. PICK j \in 1 .. Len(list) :
        list[j] = line /\ \A k \in 1 .. j - 1 : list[k].domain # line.domain
  BY DEF FirstIs
<1>2. DOMAIN list = 1 .. Len(list) /\ Len(list) \in Nat
  OBVIOUS
<1>3. j \in S
  BY <1>1, <1>2
<1>4. j \in Nat /\ \A y \in S : j <= y /\ y \in Nat
  BY <1>1, <1>2
<1>5. Min(S) \in S /\ \A y \in S : Min(S) <= y
  <2>1. \E x \in S : \A y \in S : x <= y
    BY <1>3, <1>4
  <2> QED BY <2>1 DEF Min
<1>6. Min(S) = j
  <2> HIDE DEF Min
  <2>1. Min(S) \in Nat /\ j <= Min(S) /\ Min(S) <= j
    BY <1>3, <1>4, <1>5
  <2> QED BY <1>4, <2>1
<1>7. list # <<>>
  BY <1>2, <1>1
<1> QED BY <1>1, <1>3, <1>6, <1>7

-----------------------------------------------------------------------------
(* The steps. *)

LEMMA InitHolds ==
  ASSUME BlockingInit
  PROVE  BlockingInv
<1>1. Empty \notin Datagram /\ Len(socket) = 0 /\ Len(sentBy) = 0
  BY BlockingAssumption DEF BlockingInit, Empty, Datagram
<1>2. /\ socket \in Seq(Datagram) /\ sentBy \in Seq([from : User, name : Domain])
      /\ \A i \in 1 .. Len(socket) : socket[i].from = TheServer => socket[i].name \in forwarded
  BY <1>1 DEF BlockingInit
<1>3. Asked
  BY <1>1 DEF BlockingInit, Asked
<1>4. ServedUnlessOvertaken
  BY DEF BlockingInit, ServedUnlessOvertaken, ReplyIsServers, ListedFound
<1> QED BY <1>2, <1>3, <1>4 DEF BlockingInit, BlockingInv

LEMMA ServedStays ==
  ASSUME ServedUnlessOvertaken, UNCHANGED <<replied, client, pc, ans>>
  PROVE  ServedUnlessOvertaken'
BY DEF ServedUnlessOvertaken, ReplyIsServers, ListedFound

LEMMA ClientAsked ==
  ASSUME BlockingInv, client # Empty
  PROVE  client \in Datagram /\ client.name \in Domain /\ client.name # Mangled
BY BlockingAssumption DEF BlockingInv, Asked, Datagram

(* A sequence with one more. *)
LEMMA OneMore ==
  ASSUME NEW S, NEW s \in Seq(S), NEW e \in S, NEW t, t = Append(s, e)
  PROVE  /\ t \in Seq(S) /\ Len(s) \in Nat /\ Len(t) = Len(s) + 1
         /\ t[Len(s) + 1] = e
         /\ \A i \in 1 .. Len(s) : t[i] = s[i]
OBVIOUS

(* A sequence with one less. *)
LEMMA OneLess ==
  ASSUME NEW S, NEW s \in Seq(S), s # <<>>, NEW t, t = Tail(s)
  PROVE  /\ t \in Seq(S) /\ Len(t) \in Nat /\ Len(s) = Len(t) + 1
         /\ Head(s) \in S /\ Head(s) = s[1]
         /\ \A i \in 1 .. Len(t) : t[i] = s[i + 1]
OBVIOUS

LEMMA UserSendsKeeps ==
  ASSUME BlockingInv, NEW user \in User, NEW name \in Domain, UserSends(user, name)
  PROVE  BlockingInv'
<1>1. UNCHANGED <<hlist, pc, client, temp, ans, forwarded, replied>>
  BY DEF UserSends, program
<1>2. PICK e : e = [from |-> user, name |-> name, long |-> FALSE]
  OBVIOUS
<1>3. e \in Datagram /\ e.from # TheServer
  BY <1>2, BlockingAssumption DEF Datagram
<1>4. /\ socket' \in Seq(Datagram) /\ Len(socket) \in Nat /\ Len(socket') = Len(socket) + 1
      /\ socket'[Len(socket) + 1] = e
      /\ \A i \in 1 .. Len(socket) : socket'[i] = socket[i]
  <2>1. socket \in Seq(Datagram) /\ socket' = Append(socket, e)
    BY <1>2 DEF BlockingInv, UserSends
  <2> QED BY <1>3, <2>1, OneMore
<1>5. /\ sentBy' \in Seq([from : User, name : Domain])
      /\ Len(sentBy) \in Nat /\ Len(sentBy') = Len(sentBy) + 1
  <2>1. /\ sentBy \in Seq([from : User, name : Domain])
        /\ sentBy' = Append(sentBy, [from |-> user, name |-> name])
    BY DEF BlockingInv, UserSends
  <2> QED BY <2>1
<1>6. \A i \in 1 .. Len(socket') :
        socket'[i].from = TheServer => socket'[i].name \in forwarded'
  BY <1>1, <1>3, <1>4 DEF BlockingInv
<1>7. Asked'
  <2>1. CASE client = Empty
    BY <1>1, <1>4, <1>5, <2>1 DEF BlockingInv, Asked, Empty
  <2>2. CASE client # Empty
    BY <1>1, <1>5, <2>2 DEF BlockingInv, Asked, Empty, Datagram
  <2> QED BY <2>1, <2>2
<1>8. ServedUnlessOvertaken'
  BY <1>1, ServedStays DEF BlockingInv
<1> QED BY <1>1, <1>4, <1>5, <1>6, <1>7, <1>8 DEF BlockingInv, Empty

LEMMA ServerSendsKeeps ==
  ASSUME BlockingInv, NEW name \in Domain, NEW long \in BOOLEAN, ServerSends(name, long)
  PROVE  BlockingInv'
<1>1. UNCHANGED <<hlist, pc, client, temp, ans, forwarded, replied, sentBy>>
  BY DEF ServerSends, program
<1>2. PICK e : e = [from |-> TheServer, name |-> name, long |-> long]
  OBVIOUS
<1>3. e \in Datagram /\ e.from = TheServer /\ e.name \in forwarded
  BY <1>2 DEF Datagram, ServerSends
<1>4. /\ socket' \in Seq(Datagram) /\ Len(socket) \in Nat /\ Len(socket') = Len(socket) + 1
      /\ socket'[Len(socket) + 1] = e
      /\ \A i \in 1 .. Len(socket) : socket'[i] = socket[i]
  <2>1. socket \in Seq(Datagram) /\ socket' = Append(socket, e)
    BY <1>2 DEF BlockingInv, ServerSends
  <2> QED BY <1>3, <2>1, OneMore
<1>5. \A i \in 1 .. Len(socket') :
        socket'[i].from = TheServer => socket'[i].name \in forwarded'
  BY <1>1, <1>3, <1>4 DEF BlockingInv
<1>6. Asked'
  <2>1. client # Empty
    BY <1>3 DEF BlockingInv, Asked
  <2> QED BY <1>1, <1>3, <1>4, <2>1 DEF BlockingInv, Asked, Empty, Datagram
<1>7. ServedUnlessOvertaken'
  BY <1>1, ServedStays DEF BlockingInv
<1> QED BY <1>1, <1>4, <1>5, <1>6, <1>7 DEF BlockingInv, Empty

LEMMA StartKeeps ==
  ASSUME BlockingInv, Start
  PROVE  BlockingInv'
<1>1. /\ UNCHANGED <<socket, client, temp, ans, forwarded, replied, sentBy>>
      /\ client = Empty /\ pc' \in {"receive", "look"}
  BY DEF BlockingInv, Start, networkHistory
<1>2. Holds(hlist', Len(LinesRead))
  <2>1. hlist = [b \in List |-> NoList] /\ hlist' = HashMapInit(hlist, LinesRead)
    BY DEF BlockingInv, Start
  <2> QED BY <2>1, TableHolds
<1>3. Asked'
  BY <1>1 DEF BlockingInv, Asked, Empty
<1>4. ServedUnlessOvertaken'
  BY <1>1 DEF BlockingInv, ServedUnlessOvertaken, ReplyIsServers, ListedFound, Empty
<1> QED BY <1>1, <1>2, <1>3, <1>4 DEF BlockingInv, Empty

LEMMA ExitKeeps ==
  ASSUME BlockingInv, Exit
  PROVE  BlockingInv'
<1>1. /\ UNCHANGED <<socket, hlist, client, temp, ans, forwarded, replied, sentBy>>
      /\ client = Empty /\ pc' = "end"
  BY DEF BlockingInv, Exit, networkHistory
<1>2. Asked'
  BY <1>1 DEF BlockingInv, Asked, Empty
<1>3. ServedUnlessOvertaken'
  BY <1>1 DEF BlockingInv, ServedUnlessOvertaken, ReplyIsServers, ListedFound, Empty
<1> QED BY <1>1, <1>2, <1>3 DEF BlockingInv, Empty

LEMMA HandleQueryKeeps ==
  ASSUME BlockingInv, HandleQuery
  PROVE  BlockingInv'
<1>1. /\ UNCHANGED <<hlist, ans, replied, sentBy>>
      /\ pc = "receive" /\ pc' = "wait" /\ client = Empty /\ client' = Head(socket)
  BY DEF BlockingInv, HandleQuery, networkHistory
<1>2. /\ socket' \in Seq(Datagram) /\ Len(socket') \in Nat /\ Len(socket) = Len(socket') + 1
      /\ client' \in Datagram
      /\ \A i \in 1 .. Len(socket') : socket'[i] = socket[i + 1]
  <2>1. socket \in Seq(Datagram) /\ socket # <<>> /\ socket' = Tail(socket)
    BY DEF BlockingInv, HandleQuery
  <2> QED BY <1>1, <2>1, OneLess
<1>3. client' # Empty /\ client'.name \in Domain
  BY <1>2, BlockingAssumption DEF Empty, Datagram
<1>4. forwarded = {} /\ Len(socket) <= Len(sentBy) /\ forwarded' = {client'.name}
  BY <1>1 DEF BlockingInv, Asked, HandleQuery
<1>5. Len(sentBy) \in Nat
  BY DEF BlockingInv
<1>6. \A i \in 1 .. Len(socket') :
        socket'[i].from = TheServer => socket'[i].name \in forwarded'
  BY <1>2, <1>4 DEF BlockingInv
<1>7. Asked'
  <2>1. Len(sentBy) >= 1
    BY <1>2, <1>4, <1>5
  <2>2. Len(sentBy) <= 1 => Len(socket') = 0
    BY <1>2, <1>4, <1>5
  <2>3. Len(sentBy') <= 1 => \A i \in 1 .. Len(socket') : socket'[i].from = TheServer
    BY <1>1, <2>2
  <2> QED BY <1>1, <1>2, <1>3, <1>4, <2>1, <2>3 DEF Asked, Empty
<1>8. ServedUnlessOvertaken'
  BY <1>1 DEF BlockingInv, ServedUnlessOvertaken, ReplyIsServers, ListedFound
<1>9. LabelCount[client'.name] = 2 => temp' = client'.name
  BY <1>1 DEF HandleQuery, ToDomainName
<1> QED BY <1>1, <1>2, <1>3, <1>6, <1>7, <1>8, <1>9 DEF BlockingInv, Empty

LEMMA HandleAnswerKeeps ==
  ASSUME BlockingInv, HandleAnswer
  PROVE  BlockingInv'
<1>1. /\ UNCHANGED <<hlist, client, temp, ans, forwarded, sentBy>>
      /\ client # Empty /\ pc' \in {"look", "smashed"}
  BY DEF BlockingInv, HandleAnswer, Reply, networkHistory
<1>2. socket # <<>> /\ socket' = Tail(socket) /\ socket \in Seq(Datagram)
  BY DEF BlockingInv, HandleAnswer, Awaited
<1>3. /\ socket' \in Seq(Datagram) /\ Len(socket') \in Nat /\ Len(socket) = Len(socket') + 1
      /\ Head(socket) = socket[1] /\ Head(socket) \in Datagram
      /\ \A i \in 1 .. Len(socket') : socket'[i] = socket[i + 1]
  BY <1>2, OneLess
<1>4. \A i \in 1 .. Len(socket') :
        socket'[i].from = TheServer => socket'[i].name \in forwarded'
  BY <1>1, <1>3 DEF BlockingInv
<1>5. /\ forwarded = {client.name} /\ client \in Datagram
      /\ Len(sentBy) >= 1 /\ Len(sentBy) \in Nat
      /\ Len(sentBy) <= 1 => \A i \in 1 .. Len(socket) : socket[i].from = TheServer
  BY <1>1 DEF BlockingInv, Asked
<1>6. Asked'
  <2>1. Len(sentBy') <= 1 => \A i \in 1 .. Len(socket') : socket'[i].from = TheServer
    BY <1>1, <1>3, <1>5
  <2> QED BY <1>1, <1>5, <2>1 DEF Asked, Empty
<1>7. ReplyIsServers'
  <2>1. ReplyIsServers
    BY DEF BlockingInv, ServedUnlessOvertaken
  <2>2. CASE UNCHANGED replied
    BY <2>1, <2>2 DEF ReplyIsServers
  <2>3. CASE Reply(Head(socket))
    <3>1. PICK r : /\ r.asked = client.name /\ r.from = Head(socket).from
                   /\ r.name = Head(socket).name /\ r.among = Len(sentBy)
                   /\ replied' = replied \cup {r}
      BY <2>3 DEF Reply
    <3>2. (r.from = TheServer /\ r.name = r.asked) \/ r.among > 1
      <4>1. CASE Len(sentBy) > 1
        BY <3>1, <4>1
      <4>2. CASE Len(sentBy) <= 1
        <5>1. 1 \in 1 .. Len(socket)
          BY <1>3
        <5>2. Head(socket).from = TheServer /\ Head(socket).name \in forwarded
          BY <1>3, <1>5, <4>2, <5>1 DEF BlockingInv
        <5> QED BY <1>5, <3>1, <5>2
      <4> QED BY <1>5, <4>1, <4>2
    <3> QED BY <2>1, <3>1, <3>2 DEF ReplyIsServers
  <2>4. UNCHANGED replied \/ Reply(Head(socket))
    BY <1>2 DEF HandleAnswer
  <2> QED BY <2>2, <2>3, <2>4
<1>8. ListedFound'
  BY <1>1 DEF ListedFound
<1> QED BY <1>1, <1>3, <1>4, <1>6, <1>7, <1>8
        DEF BlockingInv, ServedUnlessOvertaken, Empty

(* A name of two labels is found by its last line. *)
LEMMA LookupFinds ==
  ASSUME BlockingInv, FindHashMap, client # Empty, LabelCount[client.name] = 2,
         NEW S, S = {i \in DOMAIN TableFile : TableFile[i].domain = client.name}, S # {}
  PROVE  pc' = "end" /\ ans' = Value(TableFile[Max(S)])
<1>1. PICK name \in Domain : name = client.name /\ temp = name /\ name # Mangled
  BY ClientAsked DEF BlockingInv
<1>2. PICK list, line : list = hlist[HashCode[name]] /\ line = TableFile[Max(S)]
  OBVIOUS
<1>3. list \in Seq(Line) /\ FirstIs(list, line) /\ line.domain = name
  <2>1. Holds(hlist, Len(LinesRead)) /\ HashCode[name] \in List
    BY <1>1, BlockingAssumption DEF BlockingInv
  <2>2. list \in Seq(Line)
    BY <1>2, <2>1 DEF Holds
  <2> QED BY <1>1, <1>2, <2>1, <2>2, LineThatCounts
<1>4. Matches(list) = {i \in DOMAIN list : list[i].domain = line.domain}
  BY <1>1, <1>3 DEF Matches
<1>5. Matches(list) # {} /\ list # <<>> /\ list[Min(Matches(list))] = line
  BY <1>3, <1>4, FirstFound
<1>6. ListsOf(temp) = {HashCode[name]}
  BY <1>1 DEF ListsOf
<1>7. CASE list = NoList
  BY <1>5, <1>7 DEF NoList
<1>8. CASE list # NoList
  <2>1. ans' = Value(list[Min(Matches(list))]) /\ pc' = "end"
    BY <1>2, <1>5, <1>6, <1>8 DEF FindHashMap
  <2> QED BY <1>2, <1>5, <2>1
<1> QED BY <1>7, <1>8

LEMMA FindHashMapKeeps ==
  ASSUME BlockingInv, FindHashMap
  PROVE  BlockingInv'
<1>1. UNCHANGED <<socket, hlist, client, temp, forwarded, replied, sentBy>>
  BY DEF FindHashMap, networkHistory
<1>2. pc = "look" /\ pc' \in {"end", "crash"}
  BY DEF FindHashMap
<1>3. Asked'
  BY <1>1 DEF BlockingInv, Asked, Empty
<1>4. ReplyIsServers'
  BY <1>1 DEF BlockingInv, ServedUnlessOvertaken, ReplyIsServers
<1>5. ListedFound'
  <2>1. PICK S : S = {i \in DOMAIN TableFile : TableFile[i].domain = client.name}
    OBVIOUS
  <2>2. client # Empty /\ S # {} /\ LabelCount[client.name] = 2 =>
          pc' = "end" /\ ans' = Value(TableFile[Max(S)])
    BY <2>1, LookupFinds
  <2> QED BY <1>1, <2>1, <2>2 DEF ListedFound, Empty
<1> QED BY <1>1, <1>2, <1>3, <1>4, <1>5 DEF BlockingInv, ServedUnlessOvertaken, Empty

LEMMA StutterKeeps ==
  ASSUME BlockingInv, UNCHANGED blockingVars
  PROVE  BlockingInv'
<1>1. /\ UNCHANGED <<socket, hlist, pc, client, temp, ans, forwarded, replied>>
      /\ UNCHANGED sentBy
  BY DEF blockingVars, networkHistory
<1>2. ServedUnlessOvertaken'
  BY <1>1, ServedStays DEF BlockingInv
<1>3. Asked'
  BY <1>1 DEF BlockingInv, Asked, Empty
<1> QED BY <1>1, <1>2, <1>3 DEF BlockingInv, Empty

-----------------------------------------------------------------------------
(* For any table, hash function and users, while the program waits for the *)
(* answer and looks the name up it has kept the one query it took, and     *)
(* every list of the table has the line that counts for a name in front of *)
(* its others.                                                             *)
THEOREM BlockingInvCorrect == BlockingSpec => []BlockingInv
<1>1. BlockingInit => BlockingInv
  BY InitHolds
<1>2. BlockingInv /\ [BlockingNext]_blockingVars => BlockingInv'
  <2> SUFFICES ASSUME BlockingInv, [BlockingNext]_blockingVars
               PROVE  BlockingInv'
    OBVIOUS
  <2>1. CASE \E user \in User, name \in Domain : UserSends(user, name)
    BY <2>1, UserSendsKeeps
  <2>2. CASE \E name \in Domain, long \in BOOLEAN : ServerSends(name, long)
    BY <2>2, ServerSendsKeeps
  <2>3. CASE Start
    BY <2>3, StartKeeps
  <2>4. CASE Exit
    BY <2>4, ExitKeeps
  <2>5. CASE HandleQuery
    BY <2>5, HandleQueryKeeps
  <2>6. CASE HandleAnswer
    BY <2>6, HandleAnswerKeeps
  <2>7. CASE FindHashMap
    BY <2>7, FindHashMapKeeps
  <2>8. CASE UNCHANGED blockingVars
    BY <2>8, StutterKeeps
  <2> QED BY <2>1, <2>2, <2>3, <2>4, <2>5, <2>6, <2>7, <2>8 DEF BlockingNext
<1> QED BY <1>1, <1>2, PTL DEF BlockingSpec

(* What is sent back to the one client the first relay serves is the       *)
(* server's answer to its question, unless another datagram of a user came *)
(* before; and a name of two labels that is in the table is found there,   *)
(* by its last line, for any table and hash function.                      *)
THEOREM ServedUnlessOvertakenHolds == BlockingSpec => []ServedUnlessOvertaken
<1>1. BlockingInv => ServedUnlessOvertaken
  BY DEF BlockingInv
<1> QED BY <1>1, BlockingInvCorrect, PTL
=============================================================================
