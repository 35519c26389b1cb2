------------------------------ MODULE Datalink ------------------------------
(***************************************************************************)
(* The selective-repeat data link layer of lab1/datalink.c: two stations   *)
(* that run the same event loop and exchange DATA, ACK and NAK frames over *)
(* a full-duplex link that may damage or swallow frames.                   *)
(*                                                                         *)
(* One action is one pass through the loop of main(): wait_for_event       *)
(* returns an event, its case of the switch runs to the end, and the       *)
(* trailing statement opens or closes the network layer.  Time is          *)
(* abstracted: a timer that runs may expire at any moment.  A packet is    *)
(* its position in the stream the network layer generates (get_packet) and *)
(* expects (put_packet); sizes and contents are left out.                  *)
(***************************************************************************)
EXTENDS SeqNum, Sequences

CONSTANTS
  A, B,       \* the two stations
  PktLimit,   \* bound: how many packets each station's network layer offers
  MaxChan     \* bound: how many frames one direction of the link holds

Station == {A, B}

ASSUME StationAssumption == A # B
ASSUME BoundAssumption   == /\ PktLimit \in [Station -> Nat]
                            /\ MaxChan \in Nat \ {0}

Peer(s) == IF s = A THEN B ELSE A

(* What a buffer holds before its first packet, and an ACK or NAK carries. *)
NoPacket == -1
Packet   == Nat \cup {NoPacket}

Frame == [kind : {"DATA", "ACK", "NAK"}, seq : SeqNr, ack : SeqNr, data : Packet]

UCHAR == 256  \* now_postion is an unsigned char

VARIABLES
  (* the sender *)
  next_frame_to_send,    \* upper edge of the send window
  ack_expected,          \* lower edge of the send window
  now_postion,           \* number of frames in the send window
  to_phy_buffer,         \* packets kept until they are acknowledged
  timer,                 \* the slots whose data timer runs
  (* the receiver *)
  frame_expected,        \* lower edge of the receive window
  too_far,               \* upper edge of the receive window
  have_arrived,          \* the slots that hold a packet out of order
  to_network_buffer,     \* the packets in those slots
  no_nak,                \* no NAK has been sent for frame_expected
  ack_timer,             \* the acknowledgement timer runs
  (* the physical layer *)
  phl_ready,             \* the station believes the physical layer ready
  inform_phl_ready,      \* protocol.c owes it a PHYSICAL_LAYER_READY
  link,                  \* link[s]: the frames from s to its peer, in order
  (* the network layer *)
  network_layer_active,
  pkt_no,                \* packets taken from the network layer
  rpackets,              \* packets handed to the network layer
  aborted                \* put_packet met a wrong packet and exited

senderVars   == <<next_frame_to_send, ack_expected, now_postion, timer>>
receiverVars == <<frame_expected, too_far, have_arrived, to_network_buffer,
                  rpackets, aborted>>
sourceVars   == <<to_phy_buffer, pkt_no>>
vars == <<senderVars, receiverVars, sourceVars, no_nak, ack_timer, phl_ready,
          inform_phl_ready, link, network_layer_active>>

Init ==
  /\ next_frame_to_send   = [s \in Station |-> 0]
  /\ ack_expected         = [s \in Station |-> 0]
  /\ now_postion          = [s \in Station |-> 0]
  /\ to_phy_buffer        = [s \in Station |-> [i \in Slot |-> NoPacket]]
  /\ timer                = [s \in Station |-> {}]
  /\ frame_expected       = [s \in Station |-> 0]
  /\ too_far              = [s \in Station |-> NR_BUFS]
  /\ have_arrived         = [s \in Station |-> {}]
  /\ to_network_buffer    = [s \in Station |-> [i \in Slot |-> NoPacket]]
  /\ no_nak               = [s \in Station |-> TRUE]
  /\ ack_timer            = [s \in Station |-> FALSE]
  /\ phl_ready            = [s \in Station |-> FALSE]
  /\ inform_phl_ready     = [s \in Station |-> TRUE]
  /\ link                 = [s \in Station |-> <<>>]
  /\ network_layer_active = [s \in Station |-> TRUE]
  /\ pkt_no               = [s \in Station |-> 0]
  /\ rpackets             = [s \in Station |-> 0]
  /\ aborted              = [s \in Station |-> FALSE]

-----------------------------------------------------------------------------
(* Sending: send_data and put_frame. *)

DataFrame(s, nr, packet) ==
  [kind |-> "DATA", seq |-> nr, ack |-> AckField(frame_expected[s]),
   data |-> packet]

ControlFrame(s, kind) ==
  [kind |-> kind, seq |-> 0, ack |-> AckField(frame_expected[s]),
   data |-> NoPacket]

(* A frame sent onto a full link is one that gets lost.                    *)
Pushed(queue, f) == IF Len(queue) < MaxChan THEN Append(queue, f) ELSE queue

(* put_frame: the physical layer is busy until it reports again.           *)
PhysicalBusySilent(s) ==   \* slip: the report is not asked for
  /\ phl_ready' = [phl_ready EXCEPT ![s] = FALSE]
  /\ UNCHANGED inform_phl_ready
PhysicalBusy(s) ==
  /\ phl_ready'        = [phl_ready EXCEPT ![s] = FALSE]
  /\ inform_phl_ready' = [inform_phl_ready EXCEPT ![s] = TRUE]

PhysicalUntouched == UNCHANGED <<phl_ready, inform_phl_ready>>

(* After the switch: the network layer is open while the window and the    *)
(* physical layer have room.                                               *)
HasRoomForOneMore(count) == count <= NR_BUFS   \* slip
HasRoom(count) == count < NR_BUFS

GateNetworkLayer(s) ==
  network_layer_active' =
    [network_layer_active EXCEPT
       ![s] = HasRoom(now_postion'[s]) /\ phl_ready'[s]]

-----------------------------------------------------------------------------
(* Events of the station's own layers. *)

(* case NETWORK_LAYER_READY *)
NetworkLayerReady(s) ==
  LET nr     == next_frame_to_send[s]
      packet == pkt_no[s]
  IN  /\ ~aborted[s]
      /\ network_layer_active[s]
      /\ packet < PktLimit[s]
      /\ Len(link[s]) < MaxChan
      /\ to_phy_buffer' = [to_phy_buffer EXCEPT ![s][SlotOf(nr)] = packet]
      /\ pkt_no' = [pkt_no EXCEPT ![s] = @ + 1]
      /\ link' = [link EXCEPT ![s] = Pushed(@, DataFrame(s, nr, packet))]
      /\ timer' = [timer EXCEPT ![s] = @ \cup {SlotOf(nr)}]
      /\ ack_timer' = [ack_timer EXCEPT ![s] = FALSE]
      /\ PhysicalBusy(s)
      /\ next_frame_to_send' = [next_frame_to_send EXCEPT ![s] = Inc(@)]
      /\ now_postion' = [now_postion EXCEPT ![s] = (@ + 1) % UCHAR]
      /\ GateNetworkLayer(s)
      /\ UNCHANGED <<ack_expected, receiverVars, no_nak>>

(* case PHYSICAL_LAYER_READY: the sending queue has drained, at its own    *)
(* pace, below PHL_SQ_LEVEL.                                               *)
PhysicalLayerReady(s) ==
  /\ ~aborted[s]
  /\ inform_phl_ready[s]
  /\ inform_phl_ready' = [inform_phl_ready EXCEPT ![s] = FALSE]
  /\ phl_ready' = [phl_ready EXCEPT ![s] = TRUE]
  /\ UNCHANGED <<senderVars, receiverVars, sourceVars, no_nak, ack_timer, link>>
  /\ GateNetworkLayer(s)

(* The timers after timer i fired and frame nr was sent again.             *)
FiredOnce(s, i, nr)    == timer[s] \ {i}   \* slip: not started again
FiredAgain(s, i, nr)   == (timer[s] \ {i}) \cup {SlotOf(nr)}

(* case DATA_TIMEOUT: scan_timer clears the timer and returns its number,  *)
(* which is a slot; the frame is the one of the two numbers of that slot   *)
(* that is in the window.  start_timer adds the time the sending queue     *)
(* needs to drain, so the link has room when the timer expires.            *)
DataTimeout(s, i) ==
  LET nr == IF InMiddle(ack_expected[s], i, next_frame_to_send[s])
              THEN i ELSE i + NR_BUFS
      f  == DataFrame(s, nr, to_phy_buffer[s][SlotOf(nr)])
  IN  /\ ~aborted[s]
      /\ i \in timer[s]
      /\ Len(link[s]) < MaxChan
      /\ link' = [link EXCEPT ![s] = Pushed(@, f)]
      /\ timer' = [timer EXCEPT ![s] = FiredAgain(s, i, nr)]
      /\ ack_timer' = [ack_timer EXCEPT ![s] = FALSE]
      /\ PhysicalBusy(s)
      /\ UNCHANGED <<next_frame_to_send, ack_expected, now_postion,
                     receiverVars, sourceVars, no_nak>>
      /\ GateNetworkLayer(s)

(* case ACK_TIMEOUT: no DATA frame came by to carry the acknowledgement.   *)
AckTimeout(s) ==
  /\ ~aborted[s]
  /\ ack_timer[s]
  /\ link' = [link EXCEPT ![s] = Pushed(@, ControlFrame(s, "ACK"))]
  /\ ack_timer' = [ack_timer EXCEPT ![s] = FALSE]
  /\ PhysicalBusy(s)
  /\ UNCHANGED <<senderVars, receiverVars, sourceVars, no_nak>>
  /\ GateNetworkLayer(s)

-----------------------------------------------------------------------------
(* case FRAME_RECEIVED *)

Arriving(s) == link[Peer(s)]

(* The link after s took the first arriving frame, and sent nothing or f.  *)
Taken(s)          == [link EXCEPT ![Peer(s)] = Tail(@)]
TakenThenSent(s, f) == [Taken(s) EXCEPT ![s] = Pushed(@, f)]

(* A NAK may be sent only once for the frame the receiver waits for.       *)
NakEveryTime(s) == TRUE   \* slip
NakAllowed(s)   == no_nak[s]

(* A damaged frame fails the length or CRC check.                          *)
ReceiveDamaged(s) ==
  /\ ~aborted[s]
  /\ Arriving(s) # <<>>
  /\ \/ /\ NakAllowed(s)
        /\ link' = TakenThenSent(s, ControlFrame(s, "NAK"))
        /\ no_nak' = [no_nak EXCEPT ![s] = FALSE]
        /\ ack_timer' = [ack_timer EXCEPT ![s] = FALSE]
        /\ PhysicalBusy(s)
     \/ /\ ~NakAllowed(s)
        /\ link' = Taken(s)
        /\ UNCHANGED <<no_nak, ack_timer>>
        /\ PhysicalUntouched
  /\ UNCHANGED <<senderVars, receiverVars, sourceVars>>
  /\ GateNetworkLayer(s)

(* while (in_middle(ack_expected, r.ack, next_frame_to_send)): m rounds.   *)
AckRounds(s, ack, m) ==
  LET acknowledged(j) ==
        InMiddle(Advance(ack_expected[s], j), ack, next_frame_to_send[s])
  IN  /\ \A j \in 0 .. m - 1 : acknowledged(j)
      /\ ~acknowledged(m)

(* The timers those rounds stop.                                           *)
StoppedLate(s, m) ==   \* slip: inc before stop_timer
  {SlotOf(Advance(ack_expected[s], j)) : j \in 1 .. m}
Stopped(s, m) == {SlotOf(Advance(ack_expected[s], j)) : j \in 0 .. m - 1}

(* Those rounds move the window, stop the timers of the frames they pass   *)
(* and free their buffers; running is the set of timers before them.       *)
Acknowledge(s, m, running) ==
  /\ ack_expected' = [ack_expected EXCEPT ![s] = Advance(@, m)]
  /\ now_postion'  = [now_postion EXCEPT ![s] = (@ - m) % UCHAR]
  /\ timer' = [timer EXCEPT ![s] = running \ Stopped(s, m)]
  /\ UNCHANGED <<next_frame_to_send, sourceVars>>

(* while (have_arrived[frame_expected % NR_BUFS]): n rounds.  Each round   *)
(* clears its slot, so there are no more than NR_BUFS.                     *)
DeliverRounds(arrived, expected, n) ==
  /\ \A j \in 0 .. n - 1 : SlotOf(Advance(expected, j)) \in arrived
  /\ n < NR_BUFS => SlotOf(Advance(expected, n)) \notin arrived

(* Those rounds hand the packets to put_packet, which compares each with   *)
(* the one it expects, and move the window.                                *)
Deliver(s, arrived, buffer, n) ==
  LET slot(j) == SlotOf(Advance(frame_expected[s], j))
  IN  /\ have_arrived' =
           [have_arrived EXCEPT ![s] = arrived \ {slot(j) : j \in 0 .. n - 1}]
      /\ to_network_buffer' = [to_network_buffer EXCEPT ![s] = buffer]
      /\ frame_expected' = [frame_expected EXCEPT ![s] = Advance(@, n)]
      /\ too_far' = [too_far EXCEPT ![s] = Advance(@, n)]
      /\ rpackets' = [rpackets EXCEPT ![s] = @ + n]
      /\ aborted' = [aborted EXCEPT
                       ![s] = \E j \in 0 .. n - 1 :
                                buffer[slot(j)] # rpackets[s] + j]

(* The frame is in the receive window and is not there yet.                *)
NewAnywhere(s, seq) == SlotOf(seq) \notin have_arrived[s]   \* slip
New(s, seq) ==
  InMiddle(frame_expected[s], seq, too_far[s]) /\ SlotOf(seq) \notin have_arrived[s]

(* The ACK timer is started for every DATA frame a NAK did not answer.     *)
AckDueOnDelivery(n, nak) == n > 0   \* slip: duplicates are not acknowledged
AckDue(n, nak) == n > 0 \/ ~nak

(* A sound DATA frame.  One that is not the expected one is answered with  *)
(* a NAK unless one was sent before, any other one within the ACK timer;   *)
(* one that falls in the receive window and is new is kept, and everything *)
(* that is now in order goes to the network layer.                         *)
ReceiveData(s) ==
  LET f        == Head(Arriving(s))
      expected == frame_expected[s]
      nak      == f.seq # expected /\ NakAllowed(s)
      new      == New(s, f.seq)
      arrived  == IF new THEN have_arrived[s] \cup {SlotOf(f.seq)}
                         ELSE have_arrived[s]
      buffer   == IF new
                    THEN [to_network_buffer[s] EXCEPT ![SlotOf(f.seq)] = f.data]
                    ELSE to_network_buffer[s]
  IN  /\ ~aborted[s]
      /\ Arriving(s) # <<>>
      /\ f.kind = "DATA"
      /\ \E n \in 0 .. NR_BUFS, m \in 0 .. MAX_SEQ :
           /\ IF new THEN DeliverRounds(arrived, expected, n) ELSE n = 0
           /\ Deliver(s, arrived, buffer, n)
           /\ no_nak' = [no_nak EXCEPT ![s] = n > 0 \/ (@ /\ ~nak)]
           /\ ack_timer' = [ack_timer EXCEPT ![s] = AckDue(n, nak)]
           /\ AckRounds(s, f.ack, m)
           /\ Acknowledge(s, m, timer[s])
      /\ IF nak
           THEN /\ link' = TakenThenSent(s, ControlFrame(s, "NAK"))
                /\ PhysicalBusy(s)
           ELSE /\ link' = Taken(s)
                /\ PhysicalUntouched
      /\ GateNetworkLayer(s)

(* A sound ACK frame. *)
ReceiveAck(s) ==
  /\ ~aborted[s]
  /\ Arriving(s) # <<>>
  /\ Head(Arriving(s)).kind = "ACK"
  /\ link' = Taken(s)
  /\ \E m \in 0 .. MAX_SEQ :
       /\ AckRounds(s, Head(Arriving(s)).ack, m)
       /\ Acknowledge(s, m, timer[s])
  /\ UNCHANGED <<receiverVars, no_nak, ack_timer>>
  /\ PhysicalUntouched
  /\ GateNetworkLayer(s)

(* A sound NAK frame: the frame it asks for is sent again, if it is in the *)
(* send window, before the acknowledgement is looked at.                   *)
ReceiveNak(s) ==
  LET ack    == Head(Arriving(s)).ack
      nr     == NakTarget(ack)
      resend == InMiddle(ack_expected[s], nr, next_frame_to_send[s])
      f      == DataFrame(s, nr, to_phy_buffer[s][SlotOf(nr)])
  IN  /\ ~aborted[s]
      /\ Arriving(s) # <<>>
      /\ Head(Arriving(s)).kind = "NAK"
      /\ IF resend
           THEN /\ link' = TakenThenSent(s, f)
                /\ ack_timer' = [ack_timer EXCEPT ![s] = FALSE]
                /\ PhysicalBusy(s)
           ELSE /\ link' = Taken(s)
                /\ UNCHANGED ack_timer
                /\ PhysicalUntouched
      /\ \E m \in 0 .. MAX_SEQ :
           /\ AckRounds(s, ack, m)
           /\ Acknowledge(s, m, IF resend THEN timer[s] \cup {SlotOf(nr)}
                                          ELSE timer[s])
      /\ UNCHANGED <<receiverVars, no_nak>>
      /\ GateNetworkLayer(s)

(* The noise hits a flag byte: the frame is never seen by the receiver.    *)
Lose(s) ==
  /\ link[s] # <<>>
  /\ link' = [link EXCEPT ![s] = Tail(@)]
  /\ UNCHANGED <<senderVars, receiverVars, sourceVars, no_nak, ack_timer,
                 phl_ready, inform_phl_ready, network_layer_active>>

-----------------------------------------------------------------------------

Receive(s) == ReceiveData(s) \/ ReceiveAck(s) \/ ReceiveNak(s)

StationStep(s) ==
  \/ NetworkLayerReady(s)
  \/ PhysicalLayerReady(s)
  \/ \E i \in Slot : DataTimeout(s, i)
  \/ AckTimeout(s)
  \/ ReceiveDamaged(s)
  \/ Receive(s)

Next == \E s \in Station : StationStep(s) \/ Lose(s)

Spec == Init /\ [][Next]_vars

(***************************************************************************)
(* Fairness.  A timer that runs expires, and what is on the link arrives,  *)
(* sound, damaged or not at all (its bits take finite time).  The noise    *)
(* hits each bit independently with probability below one, so not every    *)
(* copy of a frame that is sent again and again is hit: this is asked of   *)
(* the DATA frame the receiver waits for, of DATA frames as such, and of   *)
(* the frames that acknowledge something.  The timer of the oldest frame   *)
(* has to expire while the link has room.  Nothing is asked of the network *)
(* layer.                                                                  *)
(***************************************************************************)
Arrive(s) == Receive(s) \/ ReceiveDamaged(s) \/ Lose(Peer(s))

ReceiveExpected(s) ==
  ReceiveData(s) /\ Head(Arriving(s)).seq = frame_expected[s]

ReceiveAcknowledging(s) ==
  /\ Receive(s)
  /\ InMiddle(ack_expected[s], Head(Arriving(s)).ack, next_frame_to_send[s])

Fairness(s) ==
  /\ WF_vars(Arrive(s))
  /\ WF_vars(AckTimeout(s))
  /\ SF_vars(DataTimeout(s, SlotOf(ack_expected[s])))
  /\ SF_vars(ReceiveData(s))
  /\ SF_vars(ReceiveExpected(s))
  /\ SF_vars(ReceiveAcknowledging(s))

FairSpec == Spec /\ \A s \in Station : Fairness(s)
=============================================================================
