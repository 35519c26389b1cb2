------------------------------ MODULE EventLoop ------------------------------
(***************************************************************************)
(* wait_for_event of lab1/protocol.c at one station, with its order and    *)
(* its clock, and main of lab1/datalink.c as far as it decides what the    *)
(* next passes find: how long the sending queue is, which timers run, and  *)
(* whether the network layer is open.  The peer sends whatever it likes.   *)
(*                                                                         *)
(* Time is relative: a timer, a block and the network layer know how long  *)
(* they have to wait or have waited, in units of the sleep of a pass.      *)
(***************************************************************************)
EXTENDS Integers, Sequences, FiniteSetsExt, SequencesExt

CONSTANTS
  NR_BUFS,       \* data timers, one per slot of the send window
  DataLen,       \* length of a DATA frame, in bytes as they are queued
  ControlLen,    \* of an ACK or NAK frame
  Rate,          \* bytes the channel takes per unit
  SQ_SIZE,       \* the sending queue aborts at this length
  PHL_SQ_LEVEL,  \* below it the physical layer reports that it is ready
  DATA_TIMER, ACK_TIMER,
  Delay,         \* of the channel
  PacketGap,     \* between two packets of the network layer
  Idle,          \* the longest station B's network layer is idle
  Wrap,          \* the clock difference, times CHAN_BPS, wraps around
  MaxFrames      \* bound: frames that have arrived and wait

ASSUME EventLoopAssumption ==
  /\ {NR_BUFS, DataLen, ControlLen, Rate, SQ_SIZE, PHL_SQ_LEVEL, DATA_TIMER,
      ACK_TIMER, Delay, PacketGap, Wrap} \subseteq Nat \ {0}
  /\ {Idle, MaxFrames} \subseteq Nat
  /\ 2 * Idle < Wrap /\ 2 * PacketGap < Wrap

(* Below PHL_SQ_LEVEL the network layer may add a frame; each slot may     *)
(* time out and be asked for again, which is no ACK then; and a block that *)
(* is on its way may bring one frame that is answered.                     *)
QueueBound ==
  Max({PHL_SQ_LEVEL - 1, ControlLen}) + ControlLen * Delay
    + NR_BUFS * (2 * DataLen - ControlLen)

(* In the time of a pass the channel takes two control frames: 28 bytes of *)
(* 30.  The bound is about 17,000 of 131,072.                              *)
ASSUME SizesAssumption ==
  /\ ControlLen <= DataLen
  /\ 2 * ControlLen <= Rate
  /\ QueueBound < SQ_SIZE

Slot == 0 .. NR_BUFS - 1

(* The last timer, which is scanned last.                                  *)
ACK_TIMER_ID == NR_BUFS
Timer == 0 .. ACK_TIMER_ID

Off == -1          \* of a timer
Expired == 0

VARIABLES
  mode_flood,             \* an option
  event, arg,             \* what wait_for_event returned; "none" while it loops
  slept,                  \* the last pass found nothing
  sq_len, inform_phl_ready,
  elapsed,                \* time since socket_send took from the queue
  rblk,                   \* blocks that were read, with the time until they count
  rf,                     \* frames completed and not taken
  timer,                  \* time until each timer expires
  network_layer_active,
  since,                  \* time since the last packet
  aborted,                \* the sending queue was full
  (* of the data link layer *)
  phl_ready,
  outstanding,            \* slots of frames that are not acknowledged
  nakked                  \* those that were asked for again

window  == <<outstanding, nakked>>
vars == <<mode_flood, event, arg, slept, sq_len, inform_phl_ready, elapsed, rblk, rf,
          timer, network_layer_active, since, aborted, phl_ready, window>>

Init ==
  /\ mode_flood \in BOOLEAN
  /\ event = "none" /\ arg = 0 /\ slept = FALSE
  /\ sq_len = 0 /\ inform_phl_ready = TRUE /\ elapsed = 0
  /\ rblk = <<>> /\ rf = 0
  /\ timer = [i \in Timer |-> Off]
  /\ network_layer_active = TRUE
  /\ since = 0
  /\ aborted = FALSE
  /\ phl_ready = FALSE
  /\ outstanding = {} /\ nakked = {}

-----------------------------------------------------------------------------
(* A pass. *)

Aged(t, d) == IF t = Off THEN Off ELSE Max({t - d, Expired})

(* The difference of two clock readings is multiplied before it is         *)
(* divided: from half of Wrap on the product is negative.  In flood mode   *)
(* nobody looks.                                                           *)
SinceCut(t) ==  \* slip: the product sticks at its end
  IF mode_flood THEN 0 ELSE Min({t, Wrap - 1})
SinceTaken(t) == IF mode_flood THEN 0 ELSE t % Wrap
LongEnough(t) == t \in PacketGap .. (Wrap - 1) \div 2

(* network_layer_ready: always in flood mode; otherwise after a while,     *)
(* which in its idle phases station B draws.  (Station A draws no more     *)
(* than PacketGap.)                                                        *)
MayOffer(t) == network_layer_active /\ (mode_flood \/ LongEnough(t))
MustOffer(t) == MayOffer(t) /\ (mode_flood \/ t >= Idle)

Due(d) == rblk # <<>> /\ Head(rblk).wait <= d

Waiting(blocks, d) == [i \in DOMAIN blocks |-> [blocks[i] EXCEPT !.wait = Aged(@, d)]]

(* Noticed only with a block that is due, be it a frame of an earlier one. *)
FrameIn(d) == Due(d) /\ rf + Head(rblk).frames > 0

TimeGoesBy(d) ==
  /\ event = "none" /\ ~aborted
  /\ d \in IF slept THEN {1} ELSE {0, 1}

(* A block that is due is cut into frames.  If there is one nothing else   *)
(* is looked at.                                                           *)
CommitBlock(d) ==
  /\ TimeGoesBy(d)
  /\ FrameIn(d)
  /\ event' = "FRAME_RECEIVED"
  /\ slept' = FALSE
  /\ elapsed' = elapsed + d
  /\ rf' = rf + Head(rblk).frames
  /\ rblk' = Waiting(Tail(rblk), d)
  /\ timer' = [i \in Timer |-> Aged(timer[i], d)]
  /\ since' = SinceTaken(since + d)
  /\ UNCHANGED <<mode_flood, arg, sq_len, inform_phl_ready, network_layer_active,
                 aborted, phl_ready, window>>

FramesOf(blocks) ==
  LET sum[n \in 0 .. Len(blocks)] ==
        IF n = 0 THEN 0 ELSE sum[n - 1] + blocks[n].frames
  IN  sum[Len(blocks)]

FramesWaiting == rf + FramesOf(rblk)

(* socket_recv: what the peer sent since the last, if anything.            *)
SocketRecv(d) ==
  LET left == Waiting(IF Due(d) THEN Tail(rblk) ELSE rblk, d)
  IN  \/ rblk' = left
      \/ /\ elapsed + d > 0
         /\ \E frames \in 0 .. MaxFrames - FramesWaiting :
              rblk' = Append(left, [wait |-> Delay, frames |-> frames])

Fired(d) == {i \in Timer : Aged(timer[i], d) = Expired}

NetworkLayerEvent ==
  /\ event' = "NETWORK_LAYER_READY"
  /\ since' = 0
  /\ slept' = FALSE
  /\ UNCHANGED <<arg, inform_phl_ready>>

(* scan_timer: the first one. *)
TimerEvent(d) ==
  /\ arg' = Min(Fired(d))
  /\ event' = IF arg' = ACK_TIMER_ID THEN "ACK_TIMEOUT" ELSE "DATA_TIMEOUT"
  /\ slept' = FALSE
  /\ UNCHANGED inform_phl_ready

PhysicalLayerEvent ==
  /\ event' = "PHYSICAL_LAYER_READY"
  /\ inform_phl_ready' = FALSE
  /\ slept' = FALSE
  /\ UNCHANGED arg

Sleep ==
  /\ slept' = TRUE
  /\ UNCHANGED <<event, arg, inform_phl_ready>>

Ready == inform_phl_ready /\ sq_len' < PHL_SQ_LEVEL

(* The socket, the network layer, the timers, the physical layer, sleep.   *)
Look(d) ==
  /\ TimeGoesBy(d)
  /\ ~ FrameIn(d)
  /\ SocketRecv(d)
  /\ sq_len' = Max({sq_len - Rate * (elapsed + d), 0})
  /\ elapsed' = 0
  /\ \/ /\ MayOffer(SinceTaken(since + d))
        /\ NetworkLayerEvent
        /\ timer' = [i \in Timer |-> Aged(timer[i], d)]
     \/ /\ ~ MustOffer(SinceTaken(since + d))
        /\ since' = SinceTaken(since + d)
        /\ \/ Fired(d) # {} /\ TimerEvent(d)
           \/ Fired(d) = {} /\ Ready /\ PhysicalLayerEvent
           \/ Fired(d) = {} /\ ~ Ready /\ Sleep
        /\ timer' = [i \in Timer |-> IF Fired(d) # {} /\ i = arg' THEN Off
                                     ELSE Aged(timer[i], d)]
  /\ UNCHANGED <<mode_flood, rf, network_layer_active, aborted, phl_ready, window>>

Pass == \E d \in {0, 1} : CommitBlock(d) \/ Look(d)

-----------------------------------------------------------------------------
(* The data link layer, called back. *)

(* put_frame. *)
InformsData(len) == inform_phl_ready \/ len = DataLen  \* slip: only after DATA
Informs(len) == TRUE

PutFrameUnnoticed(len) ==  \* slip: phl_ready stays
  /\ sq_len' = sq_len + len
  /\ aborted' = (sq_len + len > SQ_SIZE - 1)
  /\ inform_phl_ready' = Informs(len)
  /\ UNCHANGED phl_ready

PutFrame(len) ==
  /\ sq_len' = sq_len + len
  /\ aborted' = (sq_len + len > SQ_SIZE - 1)
  /\ inform_phl_ready' = Informs(len)
  /\ phl_ready' = FALSE

PutNothing == UNCHANGED <<sq_len, aborted, inform_phl_ready, phl_ready>>

(* start_timer: what waits in the queue takes its time, and is given twice *)
(* that.                                                                   *)
DeadlineFromNow == DATA_TIMER  \* slip: what waits is forgotten
Deadline == (2 * sq_len' + Rate - 1) \div Rate + DATA_TIMER

(* send_data: every frame takes an acknowledgement along. *)
WithoutAck == [timer EXCEPT ![ACK_TIMER_ID] = Off]
WithData(slot) == [WithoutAck EXCEPT ![slot] = Deadline]

(* A timer that runs goes on as it is. *)
StartAckTimer(timers) ==
  IF timers[ACK_TIMER_ID] = Off THEN [timers EXCEPT ![ACK_TIMER_ID] = ACK_TIMER] ELSE timers

NetworkLayerReady ==
  /\ event = "NETWORK_LAYER_READY"
  /\ \E slot \in Slot \ outstanding :
       /\ PutFrame(DataLen)
       /\ timer' = WithData(slot)
       /\ outstanding' = outstanding \cup {slot}
  /\ UNCHANGED <<rf, nakked>>

PhysicalLayerReady ==
  /\ event = "PHYSICAL_LAYER_READY"
  /\ phl_ready' = TRUE
  /\ UNCHANGED <<rf, sq_len, aborted, inform_phl_ready, timer, window>>

DataTimeout ==
  /\ event = "DATA_TIMEOUT"
  /\ PutFrame(DataLen)
  /\ timer' = WithData(arg)
  /\ UNCHANGED <<rf, window>>

AckTimeout ==
  /\ event = "ACK_TIMEOUT"
  /\ PutFrame(ControlLen)
  /\ timer' = WithoutAck
  /\ UNCHANGED <<rf, window>>

Stopped(timers, slots) == [i \in Timer |-> IF i \in slots THEN Off ELSE timers[i]]

(* A frame that acknowledges some slots.  Either nothing more comes of it; *)
(* or it is damaged or out of order and a NAK goes out (whether no_nak     *)
(* allows it or not); or it is DATA to be acknowledged; or it is a NAK,    *)
(* which the peer sends once for each frame.                               *)
FrameReceived ==
  /\ event = "FRAME_RECEIVED"
  /\ rf' = rf - 1
  /\ \E acked \in SUBSET outstanding :
       /\ outstanding' = outstanding \ acked
       /\ \/ /\ PutNothing
             /\ timer' = Stopped(timer, acked)
             /\ nakked' = nakked \ acked
          \/ /\ PutFrame(ControlLen)
             /\ timer' = Stopped(WithoutAck, acked)
             /\ nakked' = nakked \ acked
          \/ /\ PutNothing
             /\ timer' = Stopped(StartAckTimer(timer), acked)
             /\ nakked' = nakked \ acked
          \/ \E slot \in outstanding' \ nakked :
               /\ PutFrame(DataLen)
               /\ timer' = Stopped(WithData(slot), acked)
               /\ nakked' = (nakked \ acked) \cup {slot}

EnableNetworkLayer == network_layer_active' = TRUE
DisableNetworkLayer == network_layer_active' = FALSE

Handle ==
  /\ \/ NetworkLayerReady \/ PhysicalLayerReady \/ DataTimeout \/ AckTimeout
     \/ FrameReceived
  /\ event' = "none"
  /\ arg' = 0
  /\ IF Cardinality(outstanding') < NR_BUFS /\ phl_ready'
       THEN EnableNetworkLayer
       ELSE DisableNetworkLayer
  /\ UNCHANGED <<mode_flood, slept, elapsed, rblk, since>>

Next == Pass \/ (~aborted /\ Handle)

Spec == Init /\ [][Next]_vars

(* The program runs. *)
FairSpec == Spec /\ WF_vars(Next)

-----------------------------------------------------------------------------
TypeOK ==
  /\ event \in {"none", "FRAME_RECEIVED", "NETWORK_LAYER_READY", "DATA_TIMEOUT",
                "ACK_TIMEOUT", "PHYSICAL_LAYER_READY"}
  /\ arg \in Timer
  /\ {sq_len, elapsed} \subseteq Nat
  /\ rblk \in Seq([wait : 0 .. Delay, frames : 0 .. MaxFrames])
  /\ rf \in 0 .. MaxFrames
  /\ timer \in [Timer -> {Off} \cup Nat]
  /\ since \in 0 .. Wrap - 1
  /\ nakked \subseteq outstanding /\ outstanding \subseteq Slot
  /\ {mode_flood, slept, inform_phl_ready, network_layer_active, aborted,
      phl_ready} \subseteq BOOLEAN

(* The sending queue never overflows: a packet is taken only when little   *)
(* waits, and what is sent again waits until its timer, which allows for   *)
(* the queue, has expired, or the peer has asked for it.                   *)
NeverOverflows == TypeOK /\ ~aborted

(* An expired timer is reported, whatever frames arrive, however many      *)
(* packets the network layer has and whatever timer is looked at before    *)
(* it: none of them starves it.  (Before timer 0 there is no other.)       *)
TimersServed == \A i \in Timer \ {0} : timer[i] = Expired ~> timer[i] # Expired

(* put_frame forgets that the physical layer is ready, which closes the    *)
(* network layer.  A report follows, however many frames arrive and are    *)
(* answered: only frames that time out can keep the queue filled.          *)
ReportedUnlessResending == ~ phl_ready ~> phl_ready \/ event = "DATA_TIMEOUT"

(* A network layer that is open gives a packet, even if the clock          *)
(* difference has wrapped around while it was closed, or is closed again.  *)
Offered ==
  network_layer_active ~> event = "NETWORK_LAYER_READY" \/ ~ network_layer_active
=============================================================================
