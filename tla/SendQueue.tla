----------------------------- MODULE SendQueue ------------------------------
(***************************************************************************)
(* The sending half of the physical layer of lab1/protocol.c: frames go    *)
(* byte by byte into a ring, past it when it is empty, and out of it at    *)
(* the rate of the channel, once per pass of wait_for_event.  A timer that *)
(* is started allows for what waits in the ring.                           *)
(*                                                                         *)
(* Bytes are numbered in the order they are given to send_byte.            *)
(***************************************************************************)
EXTENDS Naturals, Sequences, FiniteSetsExt

CONSTANTS
  SQ_SIZE,        \* places of the ring
  PHL_SQ_LEVEL,   \* below it the physical layer reports that it is ready
  Lengths,        \* of frames, in bytes as given to send_byte
  DATA_TIMER,     \* of the data link layer, in ms
  MaxPass,        \* bound: ms from one pass to the next
  MaxClock,       \* bound: ms
  MaxBytes        \* bound: bytes given

ASSUME QueueAssumption ==
  /\ SQ_SIZE \in Nat \ {0, 1}
  /\ PHL_SQ_LEVEL \in Nat
  /\ Lengths \subseteq Nat \ {0}
  /\ {MaxPass, MaxClock, MaxBytes} \subseteq Nat
  /\ DATA_TIMER \in Nat /\ DATA_TIMER > MaxPass

Place == 0 .. SQ_SIZE - 1

Rate == 2        \* bytes per ms: nibbles at CHAN_BPS
TimePerByte == 1 \* ms a timer allows for a byte that waits

Off == 0         \* of a timer

VARIABLES
  sq, sq_head, sq_tail,
  inform_phl_ready,
  send_bytes_allowed,
  last_ts,      \* of socket_send
  now,
  timer,        \* deadline of a data timer, or Off
  event,        \* what wait_for_event returned; "none" while it loops
  out,          \* bytes sent, in order
  aborted,      \* the ring was full
  (* history *)
  given,        \* bytes given to send_byte
  due,          \* bytes given when the timer was started
  stalled,      \* the socket was not writable at a pass since then
  started       \* the first last_ts

ring    == <<sq, sq_head, sq_tail>>
history == <<given, due, stalled, started>>
vars    == <<ring, inform_phl_ready, send_bytes_allowed, last_ts, now, timer,
             event, out, aborted, history>>

Init ==
  /\ sq = [p \in Place |-> 0] /\ sq_head = 0 /\ sq_tail = 0
  /\ inform_phl_ready = TRUE
  /\ send_bytes_allowed = 0
  /\ last_ts = 0 /\ now = 0 /\ started = 0
  /\ timer = Off /\ due = 0 /\ stalled = FALSE
  /\ event = "none"
  /\ out = <<>> /\ given = 0
  /\ aborted = FALSE

SqLen == (sq_tail + SQ_SIZE - sq_head) % SQ_SIZE

-----------------------------------------------------------------------------
(* The data link layer, with an event to deal with. *)

(* send_byte sends at once while nothing waits and the allowance lasts:    *)
(* how many bytes of a frame that are.                                     *)
Bypassed(len) ==
  IF sq_head = sq_tail THEN Min({len, send_bytes_allowed}) ELSE 0

Numbers(first, n) == [i \in 1 .. n |-> first + i - 1]

(* n bytes into the ring, the first of them with that number.              *)
Filled(first, n) ==
  LET offset(p) == (p + SQ_SIZE - sq_tail) % SQ_SIZE
  IN  [p \in Place |-> IF offset(p) < n THEN first + offset(p) ELSE sq[p]]

SendFrame(len) ==
  LET sent == Bypassed(len)
      left == len - sent
  IN  /\ given + len <= MaxBytes
      /\ given' = given + len
      /\ inform_phl_ready' = TRUE
      /\ out' = out \o Numbers(given + 1, sent)
      /\ send_bytes_allowed' = send_bytes_allowed - sent
      /\ IF SqLen + left > SQ_SIZE - 1
           THEN /\ aborted' = TRUE
                /\ UNCHANGED ring
           ELSE /\ sq' = Filled(given + sent + 1, left)
                /\ sq_tail' = (sq_tail + left) % SQ_SIZE
                /\ UNCHANGED <<sq_head, aborted>>

DeadlineFromNow == now + DATA_TIMER   \* slip: what waits is forgotten
Deadline == now + SqLen' * TimePerByte + DATA_TIMER

(* send_data: a frame with a data timer, or one without.                   *)
SendData ==
  /\ event # "none" /\ ~aborted
  /\ \E len \in Lengths : SendFrame(len)
  /\ \/ /\ timer' = Deadline
        /\ due' = given'
        /\ stalled' = FALSE
     \/ UNCHANGED <<timer, due, stalled>>
  /\ UNCHANGED <<sq_head, last_ts, now, event, started>>

StopTimer ==
  /\ event = "FRAME_RECEIVED" /\ ~aborted
  /\ timer' = Off
  /\ UNCHANGED <<ring, inform_phl_ready, send_bytes_allowed, last_ts, now, event,
                 out, aborted, history>>

WaitForEvent ==
  /\ event # "none" /\ ~aborted
  /\ event' = "none"
  /\ UNCHANGED <<ring, inform_phl_ready, send_bytes_allowed, last_ts, now, timer,
                 out, aborted, history>>

-----------------------------------------------------------------------------
(* wait_for_event. *)

(* send() on a blocking socket takes all it is given. *)
TakesSome(n) == IF n = 0 THEN {0} ELSE 1 .. n   \* slip: one that does not block
Takes(n) == {n}

From(place, n) == [i \in 1 .. n |-> sq[place + i - 1]]

Allowed(t) == (t - last_ts) * Rate

AllowedStays(t, n) == Allowed(t)   \* slip: what is sent is not taken off
AllowedAfter(t, n) == Allowed(t) - n

(* socket_send at time t: in two parts if the data wraps around. *)
SocketSend(t) ==
  LET since     == IF last_ts = 0 THEN t ELSE last_ts
      n         == Min({SqLen, Allowed(t)})
      send_tail == (sq_head + n) % SQ_SIZE
      wraps     == send_tail < sq_head
  IN  \/ /\ t <= since
         /\ last_ts' = since
         /\ started' = IF last_ts = 0 THEN since ELSE started
         /\ UNCHANGED <<sq_head, send_bytes_allowed, out>>
      \/ /\ t > since
         /\ \E one \in Takes(IF wraps THEN SQ_SIZE - sq_head ELSE n),
               two \in Takes(IF wraps THEN send_tail ELSE 0) :
              /\ out' = out \o From(sq_head, one) \o From(0, two)
              /\ sq_head' = (sq_head + one + two) % SQ_SIZE
              /\ send_bytes_allowed' = AllowedAfter(t, one + two)
         /\ last_ts' = t
         /\ UNCHANGED started

Looping(t) ==
  /\ event = "none" /\ ~aborted
  /\ t <= MaxClock
  /\ now' = t

(* A block that is due completes a frame: nothing else is looked at.  It   *)
(* was read in a pass CHAN_DELAY - 10 ms ago, after that pass had sent.    *)
CommitBlock(t) ==
  /\ Looping(t)
  /\ last_ts # 0
  /\ event' = "FRAME_RECEIVED"
  /\ UNCHANGED <<ring, inform_phl_ready, send_bytes_allowed, last_ts, timer, out,
                 aborted, history>>

Expired(t) == timer # Off /\ timer <= t

(* The rest of a pass: send what may be sent, then look for an event of    *)
(* the network layer, of the timers and of the physical layer.  (The ACK   *)
(* timer and other data timers do to the queue what the network layer      *)
(* does: a frame may follow.)                                              *)
Pass(t) ==
  /\ Looping(t)
  /\ UNCHANGED <<sq, sq_tail, aborted, given, due>>
  /\ \/ /\ SocketSend(t)
        /\ UNCHANGED stalled
     \/ /\ stalled' = TRUE
        /\ UNCHANGED <<sq_head, send_bytes_allowed, last_ts, out, started>>
  /\ \/ /\ event' = "NETWORK_LAYER_READY"
        /\ UNCHANGED <<timer, inform_phl_ready>>
     \/ /\ Expired(t)
        /\ event' = "DATA_TIMEOUT"
        /\ timer' = Off
        /\ UNCHANGED inform_phl_ready
     \/ /\ ~Expired(t)
        /\ inform_phl_ready /\ SqLen' < PHL_SQ_LEVEL
        /\ event' = "PHYSICAL_LAYER_READY"
        /\ inform_phl_ready' = FALSE
        /\ UNCHANGED timer
     \/ /\ ~Expired(t)
        /\ ~(inform_phl_ready /\ SqLen' < PHL_SQ_LEVEL)
        /\ UNCHANGED <<event, timer, inform_phl_ready>>

Next ==
  \/ SendData \/ StopTimer \/ WaitForEvent
  \/ \E t \in now .. now + MaxPass : CommitBlock(t) \/ Pass(t)

Spec == Init /\ [][Next]_vars

-----------------------------------------------------------------------------
TypeOK ==
  /\ sq \in [Place -> 0 .. MaxBytes]
  /\ sq_head \in Place /\ sq_tail \in Place
  /\ inform_phl_ready \in BOOLEAN
  /\ {send_bytes_allowed, last_ts, now, timer, due, started} \subseteq Nat
  /\ event \in {"none", "FRAME_RECEIVED", "NETWORK_LAYER_READY", "DATA_TIMEOUT",
                "PHYSICAL_LAYER_READY"}
  /\ out \in Seq(1 .. MaxBytes)
  /\ given \in 0 .. MaxBytes
  /\ aborted \in BOOLEAN /\ stalled \in BOOLEAN

Waiting == [i \in 1 .. SqLen |-> sq[(sq_head + i - 1) % SQ_SIZE]]

(* Bytes leave in the order they were given, whether they went through the *)
(* ring, across its end in two parts, or past it; and none is lost.        *)
InOrder ==
  /\ TypeOK
  /\ ~aborted => out \o Waiting = Numbers(1, given)

(* The channel is never faster than its rate: an allowance that was not    *)
(* used is not kept for later, one that was used is gone.                  *)
RateKept == Len(out) + send_bytes_allowed <= Rate * (last_ts - started)

(* A data timer does not expire before the frame it was started for has    *)
(* left the ring, unless the socket was not writable in the meantime.      *)
TimeoutAfterSending ==
  [][event' = "DATA_TIMEOUT" /\ event = "none" => Len(out') >= due \/ stalled']_vars
=============================================================================
