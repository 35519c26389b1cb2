-------------------------- MODULE SendQueueProofs ----------------------------
(***************************************************************************)
(* QueueInv is an invariant of the sending queue, for a ring of any size,  *)
(* any frames, timer and pace of the loop; that bytes leave in order and   *)
(* not too fast, and that a timer leaves its frame the time to go, follow  *)
(* from it.                                                                *)
(***************************************************************************)
EXTENDS SendQueue, SequenceTheorems, TLAPS

-----------------------------------------------------------------------------
(* The inductive invariant. *)

(* What has left are the first bytes given.                                *)
LeftInOrder ==
  /\ \A j \in 1 .. Len(out) : out[j] = j
  /\ Len(out) <= given

(* What waits in the ring are the next ones, up to the last.  (A frame     *)
(* that found the ring full has ended the program.)                        *)
RestWaits ==
  ~ aborted =>
    /\ given = Len(out) + SqLen
    /\ \A k \in 0 .. SqLen - 1 : sq[(sq_head + k) % SQ_SIZE] = Len(out) + k + 1

ClocksInOrder == last_ts <= now

(* What has to leave before the timer expires can do so at the rate of the *)
(* channel.  Until the loop first sends, last_ts is 0 and no time counts:  *)
(* DATA_TIMER makes up for the first pass.                                 *)
TimerAllows ==
  /\ due <= given
  /\ ~ aborted /\ timer # Off /\ ~ stalled /\ Len(out) < due =>
       /\ last_ts # 0 => due - Len(out) <= Rate * (timer - last_ts)
       /\ last_ts = 0 => now + (due - Len(out)) + DATA_TIMER <= timer

QueueInv ==
  /\ TypeOK
  /\ LeftInOrder
  /\ RestWaits
  /\ RateKept
  /\ ClocksInOrder
  /\ TimerAllows

-----------------------------------------------------------------------------
(* Places of the ring. *)

LEMMA Sizes ==
  /\ SQ_SIZE \in Nat /\ SQ_SIZE > 1
  /\ MaxPass \in Nat /\ MaxBytes \in Nat /\ MaxClock \in Nat
  /\ DATA_TIMER \in Nat /\ DATA_TIMER > MaxPass
  /\ Lengths \subseteq Nat \ {0}
BY QueueAssumption

Wrapped(x) == IF x < SQ_SIZE THEN x ELSE x - SQ_SIZE

(* A remainder of a number below twice the divisor needs one subtraction.  *)
LEMMA ModOnce ==
  ASSUME NEW m \in Nat \ {0}, NEW x \in 0 .. 2 * m - 1
  PROVE  x % m = IF x < m THEN x ELSE x - m
OBVIOUS

LEMMA WrapOnce ==
  ASSUME NEW x \in 0 .. 2 * SQ_SIZE - 1
  PROVE  /\ x % SQ_SIZE = Wrapped(x)
         /\ Wrapped(x) \in Place
<1>1. PICK m \in Nat \ {0} : m = SQ_SIZE
  BY Sizes
<1>2. x \in 0 .. 2 * m - 1
  BY <1>1
<1>3. x % m = IF x < m THEN x ELSE x - m
  BY <1>2, ModOnce
<1>4. x % SQ_SIZE = IF x < SQ_SIZE THEN x ELSE x - SQ_SIZE
  BY <1>1, <1>3
<1> QED BY <1>4, Sizes DEF Wrapped, Place

LEMMA MinOfTwo ==
  ASSUME NEW x \in Nat, NEW y \in Nat
  PROVE  Min({x, y}) = IF x <= y THEN x ELSE y
BY DEF Min

(* How many places lie between the ends of the ring. *)
Between(head, tail) == IF head <= tail THEN tail - head ELSE tail + SQ_SIZE - head

LEMMA BetweenIs ==
  ASSUME NEW head \in Place, NEW tail \in Place
  PROVE  /\ (tail + SQ_SIZE - head) % SQ_SIZE = Between(head, tail)
         /\ Between(head, tail) \in 0 .. SQ_SIZE - 1
<1>1. tail + SQ_SIZE - head \in 0 .. 2 * SQ_SIZE - 1
  BY Sizes DEF Place
<1>2. (tail + SQ_SIZE - head) % SQ_SIZE = Wrapped(tail + SQ_SIZE - head)
  BY <1>1, WrapOnce
<1> QED BY <1>2, Sizes DEF Wrapped, Between, Place

LEMMA SqLenBetween ==
  ASSUME sq_head \in Place, sq_tail \in Place
  PROVE  /\ SqLen = Between(sq_head, sq_tail)
         /\ SqLen \in 0 .. SQ_SIZE - 1
BY BetweenIs DEF SqLen

(* Moving one end of the ring by n places. *)
LEMMA MoveTail ==
  ASSUME NEW head \in Place, NEW tail \in Place,
         NEW n \in Nat, Between(head, tail) + n < SQ_SIZE
  PROVE  /\ (tail + n) % SQ_SIZE \in Place
         /\ Between(head, (tail + n) % SQ_SIZE) = Between(head, tail) + n
<1>1. tail + n \in 0 .. 2 * SQ_SIZE - 1
  BY Sizes DEF Place, Between
<1>2. (tail + n) % SQ_SIZE = Wrapped(tail + n) /\ Wrapped(tail + n) \in Place
  BY <1>1, WrapOnce
<1> QED BY <1>2, Sizes DEF Wrapped, Between, Place

LEMMA MoveHead ==
  ASSUME NEW head \in Place, NEW tail \in Place,
         NEW n \in Nat, n <= Between(head, tail)
  PROVE  /\ (head + n) % SQ_SIZE \in Place
         /\ Between((head + n) % SQ_SIZE, tail) = Between(head, tail) - n
<1>1. head + n \in 0 .. 2 * SQ_SIZE - 1
  BY Sizes DEF Place, Between
<1>2. (head + n) % SQ_SIZE = Wrapped(head + n) /\ Wrapped(head + n) \in Place
  BY <1>1, WrapOnce
<1> QED BY <1>2, Sizes DEF Wrapped, Between, Place

(* The place k behind the one n behind the head is the one n + k behind it.*)
LEMMA PlaceBehind ==
  ASSUME NEW head \in Place, NEW n \in Nat, NEW k \in Nat, n + k < SQ_SIZE
  PROVE  /\ (((head + n) % SQ_SIZE) + k) % SQ_SIZE = (head + n + k) % SQ_SIZE
         /\ (head + n + k) % SQ_SIZE \in Place
<1>1. head + n + k \in 0 .. 2 * SQ_SIZE - 1 /\ head + n \in 0 .. 2 * SQ_SIZE - 1
  BY Sizes DEF Place
<1>2. /\ (head + n) % SQ_SIZE = Wrapped(head + n)
      /\ (head + n + k) % SQ_SIZE = Wrapped(head + n + k)
      /\ Wrapped(head + n) \in Place /\ Wrapped(head + n + k) \in Place
  BY <1>1, WrapOnce
<1>3. Wrapped(head + n) + k \in 0 .. 2 * SQ_SIZE - 1
  BY <1>2, Sizes DEF Place
<1>4. (Wrapped(head + n) + k) % SQ_SIZE = Wrapped(Wrapped(head + n) + k)
  BY <1>3, WrapOnce
<1> QED BY <1>2, <1>4, Sizes DEF Wrapped, Place

(* Sequences of numbered bytes. *)

Bytes == Seq(1 .. MaxBytes)

LEMMA NumberedIsBytes ==
  ASSUME NEW m \in Nat, NEW first \in Nat, first + m <= MaxBytes,
         NEW s, s = [i \in 1 .. m |-> s[i]],
         \A i \in 1 .. m : s[i] = first + i
  PROVE  s \in Bytes /\ Len(s) = m
<1>1. \A i \in 1 .. m : first + i \in 1 .. MaxBytes
  BY Sizes
<1>2. s \in [1 .. m -> 1 .. MaxBytes]
  BY <1>1
<1>3. s \in Bytes
  BY <1>2, SeqDef DEF Bytes
<1> QED BY <1>2, <1>3, LenProperties DEF Bytes

(* The bytes from 1 on, followed by the next ones. *)
LEMMA InOrderContinued ==
  ASSUME NEW s \in Bytes, NEW more \in Bytes,
         \A j \in 1 .. Len(s) : s[j] = j,
         \A i \in 1 .. Len(more) : more[i] = Len(s) + i
  PROVE  /\ s \o more \in Bytes
         /\ Len(s \o more) = Len(s) + Len(more)
         /\ \A j \in 1 .. Len(s) + Len(more) : (s \o more)[j] = j
<1>1. /\ s \o more \in Bytes
      /\ Len(s \o more) = Len(s) + Len(more)
      /\ \A j \in 1 .. Len(s) + Len(more) :
           (s \o more)[j] = IF j <= Len(s) THEN s[j] ELSE more[j - Len(s)]
  BY ConcatProperties DEF Bytes
<1>2. Len(s) \in Nat /\ Len(more) \in Nat
  BY DEF Bytes
<1>3. ASSUME NEW j \in 1 .. Len(s) + Len(more), j > Len(s)
      PROVE  more[j - Len(s)] = j
  <2>1. j - Len(s) \in 1 .. Len(more)
    BY <1>2, <1>3
  <2> QED BY <2>1, <1>2
<1> QED BY <1>1, <1>2, <1>3

(* What Filled writes, by the distance from the tail.                      *)
LEMMA FilledWrites ==
  ASSUME sq_tail \in Place, NEW first, NEW n \in Nat,
         NEW o \in 0 .. SQ_SIZE - 1
  PROVE  /\ (sq_tail + o) % SQ_SIZE \in Place
         /\ Filled(first, n)[(sq_tail + o) % SQ_SIZE] =
              IF o < n THEN first + o ELSE sq[(sq_tail + o) % SQ_SIZE]
<1> DEFINE p == (sq_tail + o) % SQ_SIZE
<1>1. sq_tail + o \in 0 .. 2 * SQ_SIZE - 1
  BY Sizes DEF Place
<1>2. p = Wrapped(sq_tail + o) /\ p \in Place
  BY <1>1, WrapOnce
<1>3. p + SQ_SIZE - sq_tail \in 0 .. 2 * SQ_SIZE - 1
  BY <1>2, Sizes DEF Place
<1>4. (p + SQ_SIZE - sq_tail) % SQ_SIZE = Wrapped(p + SQ_SIZE - sq_tail)
  BY <1>3, WrapOnce
<1>5. (p + SQ_SIZE - sq_tail) % SQ_SIZE = o
  BY <1>1, <1>2, <1>4, Sizes DEF Wrapped, Place
<1> HIDE DEF p
<1>6. Filled(first, n)[p] = IF o < n THEN first + o ELSE sq[p]
  BY <1>2, <1>5 DEF Filled
<1> QED BY <1>2, <1>6 DEF p

(* What waits is, seen from the tail, at the far end of the ring.          *)
LEMMA WaitingSeenFromTail ==
  ASSUME sq_head \in Place, sq_tail \in Place, NEW k \in 0 .. SqLen - 1
  PROVE  /\ (sq_head + k) % SQ_SIZE = (sq_tail + (SQ_SIZE - SqLen + k)) % SQ_SIZE
         /\ SQ_SIZE - SqLen + k \in 0 .. SQ_SIZE - 1
<1>1. SqLen = Between(sq_head, sq_tail) /\ SqLen \in 0 .. SQ_SIZE - 1
  BY SqLenBetween
<1>2. PICK l \in 0 .. SQ_SIZE - 1 : l = SqLen
  BY <1>1
<1>3. k \in 0 .. l - 1 /\ l = Between(sq_head, sq_tail)
  BY <1>1, <1>2
<1>4. sq_head + k \in 0 .. 2 * SQ_SIZE - 1
      /\ sq_tail + (SQ_SIZE - l + k) \in 0 .. 2 * SQ_SIZE - 1
  BY <1>3, Sizes DEF Place
<1>5. /\ (sq_head + k) % SQ_SIZE = Wrapped(sq_head + k)
      /\ (sq_tail + (SQ_SIZE - l + k)) % SQ_SIZE = Wrapped(sq_tail + (SQ_SIZE - l + k))
  BY <1>4, WrapOnce
<1>6. Wrapped(sq_head + k) = Wrapped(sq_tail + (SQ_SIZE - l + k))
  BY <1>3, Sizes DEF Wrapped, Between, Place
<1>7. SQ_SIZE - l + k \in 0 .. SQ_SIZE - 1
  BY <1>3, Sizes
<1> QED BY <1>2, <1>5, <1>6, <1>7

(* A full length after the head is the tail. *)
LEMMA TailBehindHead ==
  ASSUME sq_head \in Place, sq_tail \in Place
  PROVE  (sq_head + SqLen) % SQ_SIZE = sq_tail
<1>1. SqLen = Between(sq_head, sq_tail) /\ SqLen \in 0 .. SQ_SIZE - 1
  BY SqLenBetween
<1>2. sq_head + SqLen \in 0 .. 2 * SQ_SIZE - 1
  BY <1>1, Sizes DEF Place
<1>3. (sq_head + SqLen) % SQ_SIZE = Wrapped(sq_head + SqLen)
  BY <1>2, WrapOnce
<1> QED BY <1>1, <1>3, Sizes DEF Wrapped, Between, Place

-----------------------------------------------------------------------------
(* A frame is given. *)

(* What the allowance lets past the ring, only if nothing waits.           *)
LEMMA BypassedIs ==
  ASSUME TypeOK, NEW len \in Nat
  PROVE  /\ Bypassed(len) \in 0 .. len
         /\ Bypassed(len) <= send_bytes_allowed
         /\ Bypassed(len) > 0 => SqLen = 0
<1>1. send_bytes_allowed \in Nat /\ sq_head \in Place /\ sq_tail \in Place
  BY DEF TypeOK
<1>2. sq_head = sq_tail => SqLen = 0
  BY <1>1, SqLenBetween, Sizes DEF Between, Place
<1>3. Min({len, send_bytes_allowed}) =
        IF len <= send_bytes_allowed THEN len ELSE send_bytes_allowed
  BY <1>1, MinOfTwo
<1> QED BY <1>1, <1>2, <1>3 DEF Bypassed

LEMMA SendFrameKeeps ==
  ASSUME TypeOK, LeftInOrder, RestWaits, ~ aborted,
         NEW len \in Nat, SendFrame(len), sq_head' = sq_head
  PROVE  /\ sq' \in [Place -> 0 .. MaxBytes] /\ sq_tail' \in Place
         /\ out' \in Seq(1 .. MaxBytes)
         /\ given' \in 0 .. MaxBytes /\ given' >= given
         /\ aborted' \in BOOLEAN /\ send_bytes_allowed' \in Nat
         /\ inform_phl_ready' \in BOOLEAN
         /\ Len(out') + send_bytes_allowed' = Len(out) + send_bytes_allowed
         /\ LeftInOrder' /\ RestWaits'
         /\ Len(out) <= Len(out')
<1> DEFINE sent == Bypassed(len)
           left == len - sent
           n == Len(out)
           l == SqLen
<1>1. /\ sent \in 0 .. len /\ sent <= send_bytes_allowed
      /\ sent > 0 => l = 0
  BY BypassedIs
<1>2. /\ sq_head \in Place /\ sq_tail \in Place
      /\ sq \in [Place -> 0 .. MaxBytes]
      /\ send_bytes_allowed \in Nat /\ given \in 0 .. MaxBytes
      /\ out \in Seq(1 .. MaxBytes) /\ n \in Nat
  BY DEF TypeOK
<1>3. l \in 0 .. SQ_SIZE - 1 /\ l = Between(sq_head, sq_tail)
  BY <1>2, SqLenBetween
<1>4. given = n + l
  BY DEF RestWaits
<1>a. /\ \A k \in 0 .. l - 1 : sq[(sq_head + k) % SQ_SIZE] = n + k + 1
      /\ \A j \in 1 .. n : out[j] = j
  BY DEF RestWaits, LeftInOrder
<1>d. given + len <= MaxBytes /\ given' = given + len
  BY DEF SendFrame
<1>5. /\ inform_phl_ready' = TRUE
      /\ out' = out \o Numbers(given + 1, sent)
      /\ send_bytes_allowed' = send_bytes_allowed - sent
  BY DEF SendFrame
<1>6. \/ l + left > SQ_SIZE - 1 /\ aborted' = TRUE /\ UNCHANGED ring
      \/ /\ l + left <= SQ_SIZE - 1
         /\ sq' = Filled(given + sent + 1, left)
         /\ sq_tail' = (sq_tail + left) % SQ_SIZE
         /\ aborted' = aborted
  <2>1. l + left \in Nat
    BY <1>1, <1>3
  <2> QED BY <2>1, Sizes DEF SendFrame
<1>7. sent \in Nat /\ left \in Nat /\ len = sent + left
  BY <1>1
<1> HIDE DEF sent, left, n, l
<1>8. /\ out' \in Seq(1 .. MaxBytes) /\ Len(out') = n + sent
      /\ \A j \in 1 .. n + sent : out'[j] = j
  <2> DEFINE more == Numbers(given + 1, sent)
  <2>1. more = [j \in 1 .. sent |-> given + 1 + j - 1]
    BY DEF Numbers
  <2>2. out' = out \o more
    BY <1>5
  <2> HIDE DEF more
  <2>3. \A j \in 1 .. sent : more[j] = given + j
    BY <2>1, <1>2, <1>7, Sizes
  <2>4. more = [j \in 1 .. sent |-> more[j]]
    BY <2>1
  <2>5. given \in Nat /\ given + sent <= MaxBytes
    BY <1>2, <1>d, <1>7, Sizes
  <2>6. more \in Bytes /\ Len(more) = sent
    BY <2>3, <2>4, <2>5, <1>7, NumberedIsBytes
  <2>7. \A j \in 1 .. Len(more) : more[j] = Len(out) + j
    <3>1. sent > 0 => given = n
      BY <1>1, <1>2, <1>4
    <3> QED BY <2>3, <2>6, <3>1, <1>7 DEF n
  <2> QED BY <2>2, <2>6, <2>7, <1>2, <1>a, InOrderContinued DEF Bytes, n
<1>g. l \in Nat /\ n \in Nat
  BY <1>2, <1>3, Sizes
<1>b. n + sent <= given' /\ given' \in 0 .. MaxBytes /\ given' >= given
  <2>1. l \in Nat /\ n \in Nat /\ given \in Nat
    BY <1>2, <1>3, Sizes
  <2> QED BY <2>1, <1>4, <1>d, <1>7, Sizes
<1>c. send_bytes_allowed' \in Nat /\ n + sent + send_bytes_allowed' = n + send_bytes_allowed
  BY <1>1, <1>2, <1>5, <1>7
<1>e. /\ given' \in 0 .. MaxBytes /\ given' >= given
      /\ send_bytes_allowed' \in Nat
      /\ Len(out') + send_bytes_allowed' = Len(out) + send_bytes_allowed
      /\ Len(out) <= Len(out')
  BY <1>b, <1>c, <1>2, <1>7, <1>8 DEF n
<1>9. CASE l + left > SQ_SIZE - 1 /\ aborted' = TRUE /\ UNCHANGED ring
  <2>1. LeftInOrder' /\ RestWaits'
    BY <1>9, <1>8, <1>b DEF LeftInOrder, RestWaits
  <2>2. sq' = sq /\ sq_tail' = sq_tail
    BY <1>9 DEF ring
  <2> QED BY <2>1, <2>2, <1>9, <1>e, <1>2, <1>5, <1>8
<1>10. CASE /\ l + left <= SQ_SIZE - 1
            /\ sq' = Filled(given + sent + 1, left)
            /\ sq_tail' = (sq_tail + left) % SQ_SIZE
            /\ aborted' = aborted
  <2>1. /\ sq_tail' \in Place
        /\ Between(sq_head, sq_tail') = l + left
    BY <1>2, <1>3, <1>7, <1>10, MoveTail, Sizes
  <2>2. SqLen' = l + left
    <3>1. sq_head' \in Place /\ sq_tail' \in Place
      BY <1>2, <2>1
    <3>2. SqLen' = Between(sq_head', sq_tail')
      BY <3>1, BetweenIs DEF SqLen
    <3> QED BY <2>1, <3>2
  <2>3. sq' \in [Place -> 0 .. MaxBytes]
    <3>1. ASSUME NEW p \in Place
          PROVE  (IF (p + SQ_SIZE - sq_tail) % SQ_SIZE < left
                    THEN given + sent + 1 + ((p + SQ_SIZE - sq_tail) % SQ_SIZE)
                    ELSE sq[p]) \in 0 .. MaxBytes
      <4>1. p + SQ_SIZE - sq_tail \in 0 .. 2 * SQ_SIZE - 1
        BY <1>2, Sizes DEF Place
      <4>2. (p + SQ_SIZE - sq_tail) % SQ_SIZE \in Nat
        BY <4>1, WrapOnce DEF Place
      <4> QED BY <4>2, <1>2, <1>d, <1>7, Sizes
    <3> QED BY <3>1, <1>10 DEF Filled
  <2>4. ASSUME NEW k \in 0 .. l + left - 1
        PROVE  sq'[(sq_head + k) % SQ_SIZE] = n + sent + k + 1
    <3>1. CASE k < l
      <4>1. k \in 0 .. l - 1
        BY <3>1, <1>3
      <4>2. /\ (sq_head + k) % SQ_SIZE = (sq_tail + (SQ_SIZE - l + k)) % SQ_SIZE
            /\ SQ_SIZE - l + k \in 0 .. SQ_SIZE - 1
        BY <4>1, <1>2, WaitingSeenFromTail DEF l
      <4>3. ~ (SQ_SIZE - l + k < left)
        BY <4>1, <1>3, <1>7, <1>10, Sizes
      <4>4. sq'[(sq_head + k) % SQ_SIZE] = sq[(sq_head + k) % SQ_SIZE]
        BY <1>2, <1>7, <1>10, <4>2, <4>3, FilledWrites
      <4>5. sent = 0
        BY <4>1, <1>1, <1>3
      <4> QED BY <4>1, <4>4, <4>5, <1>a, <1>2
    <3>2. CASE k >= l
      <4>1. k - l \in 0 .. left - 1 /\ k - l \in 0 .. SQ_SIZE - 1
        BY <3>2, <1>3, <1>7, <1>10, Sizes
      <4>2. (sq_head + k) % SQ_SIZE = (sq_tail + (k - l)) % SQ_SIZE
        <5>1. k - l \in Nat /\ l \in Nat /\ l + (k - l) < SQ_SIZE
          BY <4>1, <1>3, <1>10, <1>7, Sizes
        <5>2. (((sq_head + l) % SQ_SIZE) + (k - l)) % SQ_SIZE = (sq_head + l + (k - l)) % SQ_SIZE
          BY <5>1, <1>2, PlaceBehind
        <5>3. (sq_head + l) % SQ_SIZE = sq_tail
          BY <1>2, TailBehindHead DEF l
        <5>4. sq_head + l + (k - l) = sq_head + k
          BY <1>2, <1>3 DEF Place
        <5> QED BY <5>2, <5>3, <5>4
      <4>3. sq'[(sq_tail + (k - l)) % SQ_SIZE] = given + sent + 1 + (k - l)
        BY <1>2, <1>7, <1>10, <4>1, FilledWrites
      <4>4. l \in Nat /\ n \in Nat /\ k \in Nat
        BY <1>2, <1>3, <1>7, Sizes
      <4>5. given + sent + 1 + (k - l) = n + sent + k + 1
        BY <4>4, <1>4, <1>7
      <4> QED BY <4>2, <4>3, <4>5
    <3> QED BY <3>1, <3>2, <1>3, <1>7
  <2>5. LeftInOrder'
    BY <1>8, <1>b DEF LeftInOrder
  <2>6. RestWaits'
    <3>1. given' = Len(out') + SqLen'
      <4>1. Len(out') = n + sent
        BY <1>8
      <4> QED BY <4>1, <2>2, <1>4, <1>7, <1>d, <1>g
    <3>2. \A k \in 0 .. SqLen' - 1 : sq'[(sq_head' + k) % SQ_SIZE] = Len(out') + k + 1
      <4>1. SqLen' = l + left /\ Len(out') = n + sent /\ sq_head' = sq_head
        BY <1>8, <2>2
      <4> TAKE k \in 0 .. SqLen' - 1
      <4>2. k \in 0 .. l + left - 1
        BY <4>1, <1>g, <1>7
      <4>3. sq'[(sq_head + k) % SQ_SIZE] = n + sent + k + 1
        BY <4>2, <2>4
      <4> QED BY <4>1, <4>3
    <3> QED BY <3>1, <3>2 DEF RestWaits
  <2>7. aborted' \in BOOLEAN
    BY <1>10 DEF TypeOK
  <2> QED BY <1>e, <1>5, <1>8, <2>1, <2>3, <2>5, <2>6, <2>7
<1> QED BY <1>6, <1>9, <1>10

-----------------------------------------------------------------------------
(* The socket is written to. *)

(* socket_send either sets last_ts alone, to the time if it was never set, *)
(* or sends all that waits or all that the rate allows since last_ts.      *)
SentSince(t) ==
  \/ /\ last_ts = 0 /\ last_ts' = t /\ out' = out
  \/ /\ last_ts # 0 /\ t = last_ts /\ last_ts' = last_ts /\ out' = out
  \/ /\ last_ts # 0 /\ last_ts' = t
     /\ Len(out') = given \/ Len(out') = Len(out) + Rate * (t - last_ts)

LEMMA SocketSendKeeps ==
  ASSUME TypeOK, LeftInOrder, RestWaits, RateKept, ClocksInOrder, ~ aborted,
         NEW t \in Nat, now <= t, SocketSend(t),
         UNCHANGED <<sq, sq_tail, aborted, given>>
  PROVE  /\ sq_head' \in Place /\ out' \in Seq(1 .. MaxBytes)
         /\ send_bytes_allowed' \in Nat /\ last_ts' \in Nat /\ started' \in Nat
         /\ last_ts' <= t
         /\ LeftInOrder' /\ RestWaits' /\ RateKept'
         /\ Len(out) <= Len(out')
         /\ SentSince(t)
<1> DEFINE since == IF last_ts = 0 THEN t ELSE last_ts
           n     == Min({SqLen, Allowed(t)})
           end   == (sq_head + n) % SQ_SIZE
           one   == IF end < sq_head THEN SQ_SIZE - sq_head ELSE n
           two   == IF end < sq_head THEN end ELSE 0
           l     == SqLen
           m     == Len(out)
<1>1. /\ sq_head \in Place /\ sq_tail \in Place
      /\ send_bytes_allowed \in Nat /\ last_ts \in Nat /\ started \in Nat /\ now \in Nat
      /\ given \in 0 .. MaxBytes
      /\ out \in Bytes /\ m \in Nat
  BY DEF TypeOK, Bytes
<1>2. l \in Nat /\ l < SQ_SIZE /\ l = Between(sq_head, sq_tail)
  BY <1>1, SqLenBetween, Sizes
<1>3. last_ts <= t /\ m + send_bytes_allowed <= 2 * (last_ts - started) /\ m <= given
  BY <1>1 DEF ClocksInOrder, RateKept, Rate, LeftInOrder
<1>4. given = m + l
  BY DEF RestWaits
<1>5. \A k \in 0 .. l - 1 : sq[(sq_head + k) % SQ_SIZE] = m + k + 1
  BY DEF RestWaits
<1>6. CASE /\ t <= since
           /\ last_ts' = since
           /\ started' = IF last_ts = 0 THEN since ELSE started
           /\ UNCHANGED <<sq_head, send_bytes_allowed, out>>
  <2>1. LeftInOrder' /\ RestWaits'
    BY <1>6 DEF LeftInOrder, RestWaits, SqLen
  <2>2. RateKept'
    BY <1>1, <1>3, <1>6 DEF RateKept, Rate
  <2>3. SentSince(t)
    BY <1>1, <1>3, <1>6 DEF SentSince
  <2> QED BY <2>1, <2>2, <2>3, <1>1, <1>3, <1>6 DEF Bytes
<1>7. CASE /\ t > since
           /\ out' = out \o From(sq_head, one) \o From(0, two)
           /\ sq_head' = (sq_head + one + two) % SQ_SIZE
           /\ send_bytes_allowed' = Allowed(t) - (one + two)
           /\ last_ts' = t
           /\ started' = started
  <2>1. last_ts # 0 /\ last_ts < t
    BY <1>1, <1>7
  <2>2. Allowed(t) = 2 * (t - last_ts) /\ Allowed(t) \in Nat
    BY <1>1, <2>1 DEF Allowed, Rate
  <2>3. n = IF l <= Allowed(t) THEN l ELSE Allowed(t)
    BY <1>2, <2>2, MinOfTwo
  <2>4. n \in Nat /\ n <= l /\ n <= Allowed(t)
    BY <2>2, <2>3, <1>2
  <2>a. sq_head + n \in 0 .. 2 * SQ_SIZE - 1
    <3> HIDE DEF n, l
    <3> QED BY <2>4, <1>1, <1>2, Sizes DEF Place
  <2>5. end = Wrapped(sq_head + n)
    <3> HIDE DEF n
    <3> QED BY <2>a, WrapOnce
  <2> HIDE DEF n, l
  <2>6. /\ one \in Nat /\ two \in Nat /\ one + two = n
        /\ sq_head + one <= SQ_SIZE
        /\ two > 0 => sq_head + one = SQ_SIZE
    <3> HIDE DEF end
    <3> QED BY <2>4, <2>5, <1>1, <1>2, Sizes DEF Wrapped, Place
  <2> HIDE DEF end, one, two, since, m
  <2>7. /\ From(sq_head, one) \in Bytes /\ Len(From(sq_head, one)) = one
        /\ \A i \in 1 .. one : From(sq_head, one)[i] = m + i
    <3>1. From(sq_head, one) = [i \in 1 .. one |-> sq[sq_head + i - 1]]
      BY DEF From
    <3>2. ASSUME NEW i \in 1 .. one PROVE sq[sq_head + i - 1] = m + i
      <4>1. i - 1 \in 0 .. l - 1 /\ sq_head + (i - 1) < SQ_SIZE
        BY <2>4, <2>6, <1>1, <1>2, Sizes DEF Place
      <4>2. sq_head + (i - 1) \in 0 .. 2 * SQ_SIZE - 1
        BY <4>1, <1>1, Sizes DEF Place
      <4>3. (sq_head + (i - 1)) % SQ_SIZE = sq_head + (i - 1)
        BY <4>1, <4>2, WrapOnce DEF Wrapped
      <4>4. sq[sq_head + (i - 1)] = m + (i - 1) + 1
        BY <4>1, <4>3, <1>5
      <4>5. sq_head + (i - 1) = sq_head + i - 1 /\ m + (i - 1) + 1 = m + i
        BY <2>6, <1>1 DEF Place
      <4> QED BY <4>4, <4>5
    <3> DEFINE s == From(sq_head, one)
    <3>3. s = [i \in 1 .. one |-> s[i]] /\ \A i \in 1 .. one : s[i] = m + i
      BY <3>1, <3>2
    <3>4. m + one <= MaxBytes
      BY <2>4, <2>6, <1>1, <1>2, <1>4, Sizes
    <3> HIDE DEF s
    <3>5. s \in Bytes /\ Len(s) = one
      BY <3>3, <3>4, <1>1, <2>6, NumberedIsBytes
    <3> QED BY <3>3, <3>5 DEF s
  <2>8. /\ From(0, two) \in Bytes /\ Len(From(0, two)) = two
        /\ \A i \in 1 .. two : From(0, two)[i] = m + one + i
    <3>1. From(0, two) = [i \in 1 .. two |-> sq[0 + i - 1]]
      BY DEF From
    <3>2. ASSUME NEW i \in 1 .. two PROVE sq[0 + i - 1] = m + one + i
      <4>1. one + i - 1 \in 0 .. l - 1 /\ sq_head + one = SQ_SIZE
        BY <2>4, <2>6, <1>1, <1>2, Sizes DEF Place
      <4>2. /\ sq_head + (one + i - 1) \in 0 .. 2 * SQ_SIZE - 1
            /\ sq_head + (one + i - 1) = SQ_SIZE + i - 1
        BY <4>1, <2>6, <1>1, <1>2, Sizes DEF Place
      <4>3. (sq_head + (one + i - 1)) % SQ_SIZE = i - 1
        BY <4>2, <2>6, WrapOnce, Sizes DEF Wrapped
      <4>4. sq[i - 1] = m + (one + i - 1) + 1
        BY <4>1, <4>3, <1>5
      <4>5. 0 + i - 1 = i - 1 /\ m + (one + i - 1) + 1 = m + one + i
        BY <2>6, <1>1
      <4> QED BY <4>4, <4>5
    <3> DEFINE s == From(0, two)
    <3>3. s = [i \in 1 .. two |-> s[i]] /\ \A i \in 1 .. two : s[i] = (m + one) + i
      BY <3>1, <3>2
    <3>4. (m + one) + two <= MaxBytes /\ m + one \in Nat
      BY <2>4, <2>6, <1>1, <1>2, <1>4, Sizes
    <3> HIDE DEF s
    <3>5. s \in Bytes /\ Len(s) = two
      BY <3>3, <3>4, <2>6, NumberedIsBytes
    <3> QED BY <3>3, <3>5 DEF s
  <2>9. /\ out' \in Bytes /\ Len(out') = m + n
        /\ \A j \in 1 .. m + n : out'[j] = j
    <3> DEFINE first == out \o From(sq_head, one)
    <3>1. first \in Bytes /\ Len(first) = m + one /\ \A j \in 1 .. Len(first) : first[j] = j
      BY <2>7, <1>1, InOrderContinued DEF LeftInOrder, m
    <3> DEFINE second == From(0, two)
    <3>2. out' = first \o second
      BY <1>7
    <3>5. second \in Bytes /\ Len(second) = two
          /\ \A i \in 1 .. Len(second) : second[i] = Len(first) + i
      <4> HIDE DEF first
      <4> QED BY <2>8, <3>1
    <3> HIDE DEF first, second
    <3>3. out' \in Bytes /\ Len(out') = (m + one) + two
          /\ \A j \in 1 .. (m + one) + two : out'[j] = j
      BY <3>1, <3>2, <3>5, InOrderContinued
    <3>4. (m + one) + two = m + n
      BY <2>6, <1>1
    <3> QED BY <3>3, <3>4
  <2>10. sq_head' \in Place /\ SqLen' = l - n
    <3>1. sq_head' = (sq_head + n) % SQ_SIZE
      <4>1. sq_head + one + two = sq_head + n
        BY <2>6, <1>1 DEF Place
      <4> QED BY <4>1, <1>7
    <3>2. sq_head' \in Place /\ Between(sq_head', sq_tail) = l - n
      BY <3>1, <2>4, <1>1, <1>2, MoveHead
    <3>3. SqLen' = Between(sq_head', sq_tail)
      BY <3>2, <1>1, BetweenIs DEF SqLen
    <3> QED BY <3>2, <3>3
  <2>11. LeftInOrder'
    BY <2>4, <2>9, <1>1, <1>2, <1>4 DEF LeftInOrder
  <2>12. RestWaits'
    <3>1. given' = Len(out') + SqLen'
      <4>1. given' = given /\ Len(out') = m + n
        BY <2>9
      <4> QED BY <4>1, <2>4, <2>10, <1>1, <1>2, <1>4
    <3>2. ASSUME NEW k \in 0 .. SqLen' - 1
          PROVE  sq[(sq_head' + k) % SQ_SIZE] = Len(out') + k + 1
      <4>1. k \in Nat /\ n + k \in 0 .. l - 1 /\ n + k < SQ_SIZE
        BY <2>4, <2>10, <1>2, Sizes
      <4>2. (sq_head' + k) % SQ_SIZE = (sq_head + (n + k)) % SQ_SIZE
        <5>1. sq_head' = (sq_head + n) % SQ_SIZE
          <6>1. sq_head + one + two = sq_head + n
            BY <2>6, <1>1 DEF Place
          <6> QED BY <6>1, <1>7
        <5>2. sq_head + n + k = sq_head + (n + k)
          BY <4>1, <2>4, <1>1 DEF Place
        <5> QED BY <5>1, <5>2, <4>1, <2>4, <1>1, PlaceBehind
      <4>3. sq[(sq_head + (n + k)) % SQ_SIZE] = m + (n + k) + 1
        BY <4>1, <1>5
      <4>4. m + (n + k) + 1 = Len(out') + k + 1
        <5>1. Len(out') = m + n
          BY <2>9
        <5> QED BY <5>1, <4>1, <2>4, <1>1
      <4> QED BY <4>2, <4>3, <4>4
    <3> QED BY <3>1, <3>2 DEF RestWaits
  <2>13. Len(out') = m + n
    BY <2>9
  <2>14. RateKept' /\ send_bytes_allowed' \in Nat
    <3>1. send_bytes_allowed' = 2 * (t - last_ts) - n
      BY <1>7, <2>2, <2>6
    <3>2. 2 * (t - last_ts) - n \in Nat /\ m + 2 * (t - last_ts) <= 2 * (t - started)
      BY <1>1, <1>3, <2>1, <2>2, <2>4
    <3> QED BY <3>1, <3>2, <2>4, <2>13, <1>1, <1>7 DEF RateKept, Rate
  <2>15. SentSince(t)
    BY <1>1, <1>4, <1>7, <2>1, <2>2, <2>3, <2>13 DEF SentSince, Rate, m
  <2>16. Len(out) <= Len(out')
    BY <2>4, <2>13, <1>1 DEF m
  <2> QED BY <1>1, <1>7, <2>9, <2>10, <2>11, <2>12, <2>14, <2>15, <2>16 DEF Bytes
<1> QED BY <1>6, <1>7 DEF SocketSend, Takes, AllowedAfter

-----------------------------------------------------------------------------
(* One lemma per action. *)

LEMMA SendDataKeeps ==
  ASSUME QueueInv, SendData
  PROVE  QueueInv'
<1>1. PICK len \in Lengths : SendFrame(len)
  BY DEF SendData
<1>2. /\ event # "none" /\ ~ aborted /\ len \in Nat
      /\ UNCHANGED <<sq_head, last_ts, now, event, started>>
  BY Sizes DEF SendData
<1>3. /\ sq' \in [Place -> 0 .. MaxBytes] /\ sq_tail' \in Place
      /\ out' \in Seq(1 .. MaxBytes)
      /\ given' \in 0 .. MaxBytes /\ given' >= given
      /\ aborted' \in BOOLEAN /\ send_bytes_allowed' \in Nat
      /\ inform_phl_ready' \in BOOLEAN
      /\ Len(out') + send_bytes_allowed' = Len(out) + send_bytes_allowed
      /\ LeftInOrder' /\ RestWaits'
      /\ Len(out) <= Len(out')
  BY <1>1, <1>2, SendFrameKeeps DEF QueueInv
<1>4. /\ {last_ts, now, timer, due, started} \subseteq Nat
      /\ given \in Nat /\ due <= given
      /\ last_ts <= now
      /\ Len(out) \in Nat /\ Len(out') \in Nat /\ given' \in Nat
  <2>1. /\ {last_ts, now, timer, due, started} \subseteq Nat
        /\ given \in 0 .. MaxBytes /\ out \in Seq(1 .. MaxBytes)
        /\ due <= given /\ last_ts <= now
    BY DEF QueueInv, TypeOK, TimerAllows, ClocksInOrder
  <2>2. Len(out) \in Nat /\ Len(out') \in Nat
    BY <2>1, <1>3
  <2> QED BY <2>1, <2>2, <1>3, Sizes
<1>5. sq_head' \in Place /\ SqLen' \in Nat
  <2>1. sq_head' \in Place
    BY <1>2 DEF QueueInv, TypeOK
  <2> QED BY <2>1, <1>3, BetweenIs, Sizes DEF SqLen
<1>6. CASE timer' = Deadline /\ due' = given' /\ stalled' = FALSE
  <2>1. timer' = now + SqLen' + DATA_TIMER
    BY <1>5, <1>6 DEF Deadline, TimePerByte
  <2>2. timer' \in Nat /\ due' \in Nat
    BY SMTT(20), <2>1, <1>4, <1>5, <1>6, Sizes
  <2>3. TimerAllows'
    <3>1. ~ aborted' => due' - Len(out') = SqLen'
      BY <1>3, <1>4, <1>5, <1>6 DEF RestWaits
    <3>2. SqLen' <= 2 * (timer' - last_ts') /\ now' + SqLen' + DATA_TIMER <= timer'
      BY SMTT(20), <2>1, <1>2, <1>4, <1>5, Sizes
    <3> QED BY <3>1, <3>2, <1>4, <1>6 DEF TimerAllows, Rate
  <2>4. TypeOK'
    BY <2>2, <1>2, <1>3, <1>4, <1>5, <1>6 DEF QueueInv, TypeOK
  <2> QED BY <2>3, <2>4, <1>2, <1>3, <1>4 DEF QueueInv, RateKept, ClocksInOrder
<1>7. CASE UNCHANGED <<timer, due, stalled>>
  <2>1. TimerAllows'
    <3>1. due' <= given'
      BY <1>3, <1>4, <1>7
    <3>2. ASSUME ~ aborted', timer' # Off, ~ stalled', Len(out') < due'
          PROVE  /\ last_ts' # 0 => due' - Len(out') <= Rate * (timer' - last_ts')
                 /\ last_ts' = 0 => now' + (due' - Len(out')) + DATA_TIMER <= timer'
      <4>1. /\ last_ts # 0 => due - Len(out) <= 2 * (timer - last_ts)
            /\ last_ts = 0 => now + (due - Len(out)) + DATA_TIMER <= timer
        BY <3>2, <1>2, <1>3, <1>4, <1>7 DEF QueueInv, TimerAllows, Rate
      <4>2. due - Len(out') <= due - Len(out)
        BY <1>3, <1>4
      <4>3. last_ts # 0 => due - Len(out') <= 2 * (timer - last_ts)
        BY <4>1, <4>2, <1>4
      <4>4. last_ts = 0 => now + (due - Len(out')) + DATA_TIMER <= timer
        BY <4>1, <4>2, <1>4, Sizes
      <4> QED BY <4>3, <4>4, <1>2, <1>7 DEF Rate
    <3> QED BY <3>1, <3>2 DEF TimerAllows
  <2>2. TypeOK'
    BY <1>2, <1>3, <1>4, <1>5, <1>7 DEF QueueInv, TypeOK
  <2> QED BY <2>1, <2>2, <1>2, <1>3, <1>4 DEF QueueInv, RateKept, ClocksInOrder
<1> QED BY <1>6, <1>7 DEF SendData

(* What does not touch the ring, the clock or what is counted keeps it.    *)
LEMMA QuietKeeps ==
  ASSUME QueueInv,
         UNCHANGED <<ring, send_bytes_allowed, last_ts, out, aborted, history>>,
         inform_phl_ready' \in BOOLEAN,
         timer' \in {timer, Off},
         now' \in Nat, now <= now', now' = now \/ last_ts # 0,
         event' \in {"none", "FRAME_RECEIVED", event}
  PROVE  QueueInv'
<1>1. UNCHANGED <<sq, sq_head, sq_tail, given, due, stalled, started>>
  BY DEF ring, history
<1>2. LeftInOrder' /\ RestWaits' /\ RateKept'
  BY <1>1 DEF QueueInv, LeftInOrder, RestWaits, RateKept, SqLen
<1>3. timer' \in Nat
  BY DEF QueueInv, TypeOK, Off
<1>4. TypeOK'
  BY <1>1, <1>3 DEF QueueInv, TypeOK
<1>5. ClocksInOrder'
  BY DEF QueueInv, TypeOK, ClocksInOrder
<1>6. TimerAllows'
  BY <1>1 DEF QueueInv, TimerAllows
<1> QED BY <1>2, <1>4, <1>5, <1>6 DEF QueueInv

LEMMA StopTimerKeeps ==
  ASSUME QueueInv, StopTimer
  PROVE  QueueInv'
<1>1. now \in Nat /\ inform_phl_ready \in BOOLEAN
  BY DEF QueueInv, TypeOK
<1> QED BY <1>1, QuietKeeps DEF StopTimer

LEMMA WaitForEventKeeps ==
  ASSUME QueueInv, WaitForEvent
  PROVE  QueueInv'
<1>1. now \in Nat /\ inform_phl_ready \in BOOLEAN
  BY DEF QueueInv, TypeOK
<1> QED BY <1>1, QuietKeeps DEF WaitForEvent

LEMMA CommitBlockKeeps ==
  ASSUME QueueInv, NEW t \in now .. now + MaxPass, CommitBlock(t)
  PROVE  QueueInv'
<1>1. now \in Nat /\ inform_phl_ready \in BOOLEAN
  BY DEF QueueInv, TypeOK
<1>2. now' = t /\ t \in Nat /\ now <= t
  BY <1>1, Sizes DEF CommitBlock, Looping
<1> QED BY <1>1, <1>2, QuietKeeps DEF CommitBlock

(* A pass does its sending before it looks for an event.  (Between two     *)
(* passes lie MaxPass ms at most.)                                         *)
LEMMA PassSends ==
  ASSUME QueueInv, NEW t \in now .. now + MaxPass, Pass(t)
  PROVE  /\ sq_head' \in Place /\ out' \in Seq(1 .. MaxBytes)
         /\ send_bytes_allowed' \in Nat /\ last_ts' \in Nat /\ started' \in Nat
         /\ last_ts' <= t
         /\ LeftInOrder' /\ RestWaits' /\ RateKept'
         /\ Len(out) <= Len(out')
         /\ stalled' \in BOOLEAN
         /\ ~ stalled' => ~ stalled /\ SentSince(t)
<1>1. /\ now \in Nat /\ t \in Nat /\ now <= t
      /\ last_ts \in Nat /\ last_ts <= t
  BY Sizes DEF QueueInv, TypeOK, ClocksInOrder
<1>2. ~ aborted /\ UNCHANGED <<sq, sq_tail, aborted, given, due>>
  BY DEF Pass, Looping
<1>3. CASE SocketSend(t) /\ stalled' = stalled
  <2>1. stalled \in BOOLEAN
    BY DEF QueueInv, TypeOK
  <2> QED BY <2>1, <1>1, <1>2, <1>3, SocketSendKeeps DEF QueueInv
<1>4. CASE stalled' = TRUE /\ UNCHANGED <<sq_head, send_bytes_allowed, last_ts, out, started>>
  <2>1. LeftInOrder' /\ RestWaits' /\ RateKept'
    BY <1>2, <1>4 DEF QueueInv, LeftInOrder, RestWaits, RateKept, SqLen
  <2>2. Len(out) \in Nat
    BY DEF QueueInv, TypeOK
  <2> QED BY <2>1, <2>2, <1>1, <1>4 DEF QueueInv, TypeOK
<1> QED BY <1>3, <1>4 DEF Pass

(* While a frame waits that the timer was started for, the time left is    *)
(* enough for what is left of it after the sending of a pass.              *)
LEMMA EnoughLeft ==
  ASSUME QueueInv, NEW t \in now .. now + MaxPass, Pass(t),
         timer # Off, ~ stalled', Len(out') < due
  PROVE  /\ last_ts' = t
         /\ t < timer
         /\ due - Len(out') <= Rate * (timer - t)
         /\ t = 0 => now = 0 /\ now + (due - Len(out')) + DATA_TIMER <= timer
<1>1. /\ SentSince(t) /\ ~ stalled /\ Len(out) <= Len(out')
      /\ out' \in Seq(1 .. MaxBytes)
  BY PassSends
<1>2. /\ now \in Nat /\ t \in Nat /\ now <= t /\ t <= now + MaxPass
      /\ last_ts \in Nat /\ last_ts <= now
      /\ timer \in Nat /\ due \in Nat /\ given \in Nat /\ due <= given
      /\ Len(out) \in Nat
  BY SMTT(20), Sizes DEF QueueInv, TypeOK, ClocksInOrder, TimerAllows
<1>3. Len(out') \in Nat
  BY <1>1
<1>4. Len(out) < due
  BY <1>1, <1>2, <1>3
<1>5. ~ aborted
  BY DEF Pass, Looping
<1>6. /\ last_ts # 0 => due - Len(out) <= 2 * (timer - last_ts)
      /\ last_ts = 0 => now + (due - Len(out)) + DATA_TIMER <= timer
  BY <1>1, <1>4, <1>5 DEF QueueInv, TimerAllows, Rate
<1>7. CASE last_ts = 0 /\ last_ts' = t /\ out' = out
  BY <1>2, <1>4, <1>6, <1>7, Sizes DEF Rate
<1>8. CASE last_ts # 0 /\ t = last_ts /\ last_ts' = last_ts /\ out' = out
  BY <1>2, <1>4, <1>6, <1>8, Sizes DEF Rate
<1>9. CASE /\ last_ts # 0 /\ last_ts' = t
           /\ Len(out') = given \/ Len(out') = Len(out) + Rate * (t - last_ts)
  <2>1. Len(out') = Len(out) + 2 * (t - last_ts)
    BY <1>2, <1>3, <1>9 DEF Rate
  <2> QED BY <2>1, <1>2, <1>3, <1>4, <1>6, <1>9, Sizes DEF Rate
<1> QED BY <1>1, <1>7, <1>8, <1>9 DEF SentSince

LEMMA PassKeeps ==
  ASSUME QueueInv, NEW t \in now .. now + MaxPass, Pass(t)
  PROVE  QueueInv'
<1>1. /\ now' = t /\ t \in Nat /\ ~ aborted
      /\ UNCHANGED <<sq, sq_tail, aborted, given, due>>
      /\ timer' \in {timer, Off}
  BY Sizes DEF Pass, Looping, QueueInv, TypeOK
<1>2. /\ sq_head' \in Place /\ out' \in Seq(1 .. MaxBytes)
      /\ send_bytes_allowed' \in Nat /\ last_ts' \in Nat /\ started' \in Nat
      /\ last_ts' <= t
      /\ LeftInOrder' /\ RestWaits' /\ RateKept'
      /\ stalled' \in BOOLEAN
  BY PassSends
<1>3. inform_phl_ready' \in BOOLEAN /\ timer' \in Nat
  <2>1. inform_phl_ready \in BOOLEAN /\ timer \in Nat
    BY DEF QueueInv, TypeOK
  <2>2. inform_phl_ready' = inform_phl_ready \/ inform_phl_ready' = FALSE
    BY DEF Pass
  <2>3. inform_phl_ready' \in BOOLEAN
    BY <2>1, <2>2
  <2> QED BY <2>1, <2>3, <1>1 DEF Off
<1>4. event' \in {"none", "FRAME_RECEIVED", "NETWORK_LAYER_READY", "DATA_TIMEOUT",
                  "PHYSICAL_LAYER_READY"}
  BY DEF Pass, QueueInv, TypeOK
<1>5. TypeOK'
  BY <1>1, <1>2, <1>3, <1>4 DEF QueueInv, TypeOK
<1>6. TimerAllows'
  <2>1. due' <= given'
    BY <1>1 DEF QueueInv, TimerAllows
  <2>2. ASSUME timer' # Off, ~ stalled', Len(out') < due'
        PROVE  /\ last_ts' # 0 => due' - Len(out') <= Rate * (timer' - last_ts')
               /\ last_ts' = 0 => now' + (due' - Len(out')) + DATA_TIMER <= timer'
    BY <2>2, <1>1, EnoughLeft
  <2> QED BY <2>1, <2>2 DEF TimerAllows
<1> QED BY <1>1, <1>2, <1>5, <1>6 DEF QueueInv, ClocksInOrder

LEMMA StepKeeps ==
  ASSUME QueueInv, [Next]_vars
  PROVE  QueueInv'
<1>1. CASE UNCHANGED vars
  <2>1. now \in Nat /\ inform_phl_ready \in BOOLEAN
    BY DEF QueueInv, TypeOK
  <2> QED BY <1>1, <2>1, QuietKeeps DEF vars
<1> QED BY <1>1, SendDataKeeps, StopTimerKeeps, WaitForEventKeeps, CommitBlockKeeps,
           PassKeeps DEF Next

LEMMA InitHolds == Init => QueueInv
<1> SUFFICES ASSUME Init PROVE QueueInv
  OBVIOUS
<1>1. 0 \in Place /\ 0 \in 0 .. MaxBytes
  BY Sizes DEF Place
<1>2. TypeOK
  BY <1>1 DEF Init, TypeOK, Off
<1>3. SqLen = 0
  BY <1>1, SqLenBetween DEF Init, Between
<1> QED BY <1>2, <1>3 DEF Init, QueueInv, LeftInOrder, RestWaits, RateKept, Rate,
                         ClocksInOrder, TimerAllows

-----------------------------------------------------------------------------
(* The invariant holds.  TypeOK is one of its parts.                       *)
THEOREM QueueInvCorrect == Spec => []QueueInv
BY InitHolds, StepKeeps, PTL DEF Spec

(* Bytes leave in the order they were given, whichever way they went, and  *)
(* none is lost: what has left and what waits are the numbers given.       *)
THEOREM InOrderHolds == Spec => []InOrder
<1>1. QueueInv => InOrder
  <2> SUFFICES ASSUME QueueInv, ~ aborted
               PROVE  out \o Waiting = Numbers(1, given)
    BY DEF QueueInv, InOrder
  <2>1. /\ out \in Seq(1 .. MaxBytes) /\ Len(out) \in Nat /\ SqLen \in Nat
        /\ given = Len(out) + SqLen
        /\ \A k \in 0 .. SqLen - 1 : sq[(sq_head + k) % SQ_SIZE] = Len(out) + k + 1
        /\ \A j \in 1 .. Len(out) : out[j] = j
    BY SqLenBetween, Sizes DEF QueueInv, TypeOK, RestWaits, LeftInOrder
  <2>2. ASSUME NEW i \in 1 .. SqLen
        PROVE  Waiting[i] = Len(out) + i
    <3>1. i - 1 \in 0 .. SqLen - 1 /\ sq_head + (i - 1) = sq_head + i - 1
      BY <2>1, Sizes DEF QueueInv, TypeOK, Place
    <3>2. sq[(sq_head + (i - 1)) % SQ_SIZE] = Len(out) + (i - 1) + 1
      BY <2>1, <3>1
    <3>3. Len(out) + (i - 1) + 1 = Len(out) + i
      BY <2>1
    <3> QED BY <3>1, <3>2, <3>3 DEF Waiting
  <2>3. Len(out) + SqLen <= MaxBytes
    BY <2>1, Sizes DEF QueueInv, TypeOK
  <2>4. Waiting = [i \in 1 .. SqLen |-> Waiting[i]]
    BY DEF Waiting
  <2>5. Waiting \in Bytes /\ Len(Waiting) = SqLen
    BY <2>1, <2>2, <2>3, <2>4, NumberedIsBytes
  <2>6. /\ out \o Waiting \in Bytes
        /\ Len(out \o Waiting) = given
        /\ \A j \in 1 .. given : (out \o Waiting)[j] = j
    BY <2>1, <2>2, <2>5, InOrderContinued DEF Bytes
  <2>7. PICK o : o = out \o Waiting
    OBVIOUS
  <2>8. o \in Seq(1 .. MaxBytes) /\ Len(o) = given /\ \A j \in 1 .. given : o[j] = j
    BY <2>6, <2>7 DEF Bytes
  <2>9. o = [j \in 1 .. given |-> o[j]]
    BY <2>8
  <2>10. \A j \in 1 .. given : o[j] = 1 + j - 1
    BY <2>8
  <2> QED BY <2>7, <2>9, <2>10 DEF Numbers
<1> QED BY <1>1, QueueInvCorrect, PTL

(* An allowance that was not used is not kept for later, one that was used *)
(* is gone: AllowedAfter takes off what socket_send sent, and send_byte    *)
(* what it sent past the ring.                                             *)
THEOREM RateKeptHolds == Spec => []RateKept
<1>1. QueueInv => RateKept
  BY DEF QueueInv
<1> QED BY <1>1, QueueInvCorrect, PTL

(* start_timer allows for what waits in the ring: a data timer does not    *)
(* expire before the frame it was started for has left, unless the socket  *)
(* was not writable at a pass in the meantime.                             *)
THEOREM TimeoutAfterSendingHolds == Spec => TimeoutAfterSending
<1>1. QueueInv /\ [Next]_vars =>
        [event' = "DATA_TIMEOUT" /\ event = "none" => Len(out') >= due \/ stalled']_vars
  <2> SUFFICES ASSUME QueueInv, Next, event' = "DATA_TIMEOUT", event = "none", ~ stalled'
               PROVE  Len(out') >= due
    OBVIOUS
  <2>1. PICK t \in now .. now + MaxPass : Pass(t)
    BY DEF Next, SendData, StopTimer, WaitForEvent, CommitBlock
  <2>2. timer # Off /\ timer <= t
    BY <2>1 DEF Pass, Expired
  <2>3. Len(out') < due => t < timer
    BY <2>1, <2>2, EnoughLeft
  <2>4. timer \in Nat /\ t \in Nat /\ due \in Nat
    BY Sizes DEF QueueInv, TypeOK
  <2>5. Len(out') \in Nat
    BY <2>1, PassSends
  <2> QED BY <2>2, <2>3, <2>4, <2>5
<1> QED BY <1>1, QueueInvCorrect, PTL DEF Spec, TimeoutAfterSending
=============================================================================
