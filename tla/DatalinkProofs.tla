--------------------------- MODULE DatalinkProofs ---------------------------
(***************************************************************************)
(* Proofs about the selective-repeat data link layer, for every MAX_SEQ,   *)
(* every number of packets and every capacity of the link: first what the  *)
(* operators of SeqNum compute - the remainders of datalink.c as case      *)
(* distinctions, and the circular intervals of in_middle as an order on    *)
(* offsets from a window's lower edge - then the types of the states, then *)
(* how a frame that is pushed, taken, acknowledged or delivered changes    *)
(* the parts of the invariant of DatalinkInvariant, that it is inductive,  *)
(* and the theorems that follow from it.                                   *)
(***************************************************************************)
EXTENDS DatalinkInvariant, SequenceTheorems, TLAPS

(* There are twice as many sequence numbers as buffers.                    *)
LEMMA NrBufs == /\ NR_BUFS \in Nat \ {0}
                /\ MAX_SEQ \in Nat \ {0}
                /\ MAX_SEQ = 2 * NR_BUFS - 1
                /\ NR_BUFS <= 128
  BY MaxSeqAssumption DEF NR_BUFS

(* A remainder of a number below twice the divisor needs one subtraction.  *)
LEMMA ModOnce ==
  ASSUME NEW m \in Nat \ {0}, NEW k \in 0 .. 2 * m - 1
  PROVE  k % m = IF k < m THEN k ELSE k - m
  OBVIOUS

(* Two sequence numbers share each buffer. *)
LEMMA SlotOfSeqNr ==
  ASSUME NEW k \in SeqNr
  PROVE  /\ SlotOf(k) = IF k < NR_BUFS THEN k ELSE k - NR_BUFS
         /\ SlotOf(k) \in Slot
  <1>1. SlotOf(k) = IF k < NR_BUFS THEN k ELSE k - NR_BUFS
    BY NrBufs, ModOnce DEF SlotOf, SeqNr
  <1>. QED  BY <1>1, NrBufs DEF SeqNr, Slot

(* The acknowledgement carried is the number before the one expected ...   *)
LEMMA AckFieldIsPrevious ==
  ASSUME NEW k \in SeqNr
  PROVE  /\ AckField(k) = IF k = 0 THEN MAX_SEQ ELSE k - 1
         /\ AckField(k) \in SeqNr
  <1>1. PICK m \in Nat \ {0}, x \in Nat : m = MAX_SEQ + 1 /\ x = k + MAX_SEQ
    BY NrBufs DEF SeqNr
  <1>2. x % m = IF x < m THEN x ELSE x - m
    <2>1. x \in 0 .. 2 * m - 1
      BY <1>1, NrBufs DEF SeqNr
    <2>. QED  BY <2>1, ModOnce
  <1>. QED  BY <1>1, <1>2, NrBufs DEF AckField, SeqNr

(* ... and the frame a NAK asks for is the one after it, so the one the    *)
(* receiver expected.                                                      *)
LEMMA NakTargetIsNext ==
  ASSUME NEW k \in SeqNr
  PROVE  NakTarget(k) = Inc(k) /\ NakTarget(k) \in SeqNr
  <1>1. PICK m \in Nat \ {0}, x \in Nat : m = MAX_SEQ + 1 /\ x = k + 1
    BY NrBufs DEF SeqNr
  <1>2. x % m = IF x < m THEN x ELSE x - m
    <2>1. x \in 0 .. 2 * m - 1
      BY <1>1, NrBufs DEF SeqNr
    <2>. QED  BY <2>1, ModOnce
  <1>. QED  BY <1>1, <1>2, NrBufs DEF NakTarget, Inc, SeqNr

LEMMA NakTargetOfAckField ==
  ASSUME NEW k \in SeqNr
  PROVE  NakTarget(AckField(k)) = k
  BY AckFieldIsPrevious, NakTargetIsNext, NrBufs DEF Inc, SeqNr

(* Advance is inc, repeated. *)
LEMMA AdvanceSteps ==
  ASSUME NEW k \in SeqNr
  PROVE  /\ Advance(k, 0) = k
         /\ Advance(k, 1) = Inc(k)
         /\ \A n \in 0 .. MAX_SEQ + 1 : Advance(k, n) \in SeqNr
         /\ \A n, m \in 0 .. MAX_SEQ + 1 :
              n + m <= MAX_SEQ + 1
                => Advance(Advance(k, n), m) = Advance(k, n + m)
  BY NrBufs DEF Advance, Inc, SeqNr

(* Advance and Offset are inverse, so offsets stand for numbers.           *)
LEMMA OffsetOfAdvance ==
  ASSUME NEW k \in SeqNr
  PROVE  /\ \A x \in SeqNr : /\ Offset(k, x) \in 0 .. MAX_SEQ
                             /\ Advance(k, Offset(k, x)) = x
         /\ \A n \in 0 .. MAX_SEQ : Offset(k, Advance(k, n)) = n
  BY NrBufs DEF Advance, Offset, SeqNr

(* Moving the edge towards x shortens the offset.                          *)
LEMMA OffsetFromAdvance ==
  ASSUME NEW k \in SeqNr, NEW x \in SeqNr, NEW n \in 0 .. Offset(k, x)
  PROVE  Offset(Advance(k, n), x) = Offset(k, x) - n
  BY NrBufs DEF Advance, Offset, SeqNr

(* A number behind the edge is, going round, far ahead of it.              *)
LEMMA OffsetBehind ==
  ASSUME NEW x \in SeqNr, NEW n \in 1 .. MAX_SEQ
  PROVE  Offset(Advance(x, n), x) = MAX_SEQ + 1 - n
  BY NrBufs DEF Advance, Offset, SeqNr

(* in_middle is the order of offsets from its first argument.              *)
LEMMA InMiddleIsOrder ==
  ASSUME NEW k \in SeqNr, NEW x \in SeqNr, NEW n \in 0 .. MAX_SEQ
  PROVE  InMiddle(k, x, Advance(k, n)) <=> Offset(k, x) < n
  BY NrBufs DEF Advance, Offset, InMiddle, SeqNr

(* The acknowledgement loop: for an acknowledgement that asks for the      *)
(* number at offset d of a window of n, in_middle holds at the edges 0 to  *)
(* d - 1 and fails at d.                                                   *)
LEMMA AcknowledgedOffsets ==
  ASSUME NEW k \in SeqNr, NEW ack \in SeqNr, NEW n \in 0 .. NR_BUFS,
         Offset(k, NakTarget(ack)) <= n
  PROVE  LET d == Offset(k, NakTarget(ack))
         IN  /\ d \in 0 .. NR_BUFS
             /\ \A j \in 0 .. d - 1 :
                  InMiddle(Advance(k, j), ack, Advance(k, n))
             /\ ~InMiddle(Advance(k, d), ack, Advance(k, n))
  <1>. DEFINE d == Offset(k, NakTarget(ack))
  <1>1. NakTarget(ack) = Inc(ack)
    BY NakTargetIsNext
  <1>2. d = Offset(k, Inc(ack)) /\ d \in 0 .. NR_BUFS /\ d <= n
    BY <1>1, NrBufs DEF Offset, Inc, SeqNr
  <1>. HIDE DEF d
  <1>3. ASSUME NEW j \in 0 .. d - 1
        PROVE  InMiddle(Advance(k, j), ack, Advance(k, n))
    BY <1>2, NrBufs DEF Advance, Offset, Inc, InMiddle, SeqNr
  <1>4. ~InMiddle(Advance(k, d), ack, Advance(k, n))
    BY <1>2, NrBufs DEF Advance, Offset, Inc, InMiddle, SeqNr
  <1>. QED  BY <1>2, <1>3, <1>4 DEF d

(* The frames of one window have buffers of their own, and use them all;   *)
(* the frame after the window shares the first one's.                      *)
LEMMA SlotsOfWindow ==
  ASSUME NEW k \in SeqNr
  PROVE  /\ \A i, j \in 0 .. NR_BUFS - 1 :
              SlotOf(Advance(k, i)) = SlotOf(Advance(k, j)) => i = j
         /\ \A i \in Slot : \E j \in 0 .. NR_BUFS - 1 :
              i = SlotOf(Advance(k, j))
         /\ SlotOf(Advance(k, NR_BUFS)) = SlotOf(k)
  <1>1. \A n \in 0 .. NR_BUFS :
          LET x == Advance(k, n)
          IN  SlotOf(x) = IF x < NR_BUFS THEN x ELSE x - NR_BUFS
    BY AdvanceSteps, SlotOfSeqNr, NrBufs
  <1>2. SlotOf(k) = IF k < NR_BUFS THEN k ELSE k - NR_BUFS
    BY SlotOfSeqNr
  <1>3. ASSUME NEW i \in 0 .. NR_BUFS - 1, NEW j \in 0 .. NR_BUFS - 1,
               SlotOf(Advance(k, i)) = SlotOf(Advance(k, j))
        PROVE  i = j
    <2>1. i \in 0 .. NR_BUFS /\ j \in 0 .. NR_BUFS
      BY NrBufs
    <2>2. /\ SlotOf(Advance(k, i)) = IF Advance(k, i) < NR_BUFS
                                      THEN Advance(k, i) ELSE Advance(k, i) - NR_BUFS
          /\ SlotOf(Advance(k, j)) = IF Advance(k, j) < NR_BUFS
                                      THEN Advance(k, j) ELSE Advance(k, j) - NR_BUFS
      BY <1>1, <2>1
    <2>. QED  BY <1>3, <2>2, NrBufs DEF Advance, SeqNr
  <1>4. ASSUME NEW i \in Slot
        PROVE  \E j \in 0 .. NR_BUFS - 1 : i = SlotOf(Advance(k, j))
    <2>. DEFINE j == IF SlotOf(k) <= i THEN i - SlotOf(k)
                                       ELSE i - SlotOf(k) + NR_BUFS
    <2>1. j \in 0 .. NR_BUFS - 1
      BY <1>2, SlotOfSeqNr, NrBufs DEF Slot
    <2>2. SlotOf(Advance(k, j)) = i
      BY <1>1, <1>2, <2>1, NrBufs DEF Advance, Slot, SeqNr
    <2>. QED  BY <2>1, <2>2
  <1>5. SlotOf(Advance(k, NR_BUFS)) = SlotOf(k)
    BY <1>1, <1>2, NrBufs DEF Advance, SeqNr
  <1>. QED  BY <1>3, <1>4, <1>5

-----------------------------------------------------------------------------
LEMMA PeerFacts ==
  ASSUME NEW s \in Station
  PROVE  /\ Peer(s) \in Station
         /\ Peer(s) # s
         /\ Peer(Peer(s)) = s
         /\ \A t \in Station : t = s \/ t = Peer(s)
  BY StationAssumption DEF Peer, Station

(* Frames, and the link after a frame was sent or taken, keep their types. *)
LEMMA FrameTypes ==
  ASSUME TypeOK, NEW s \in Station
  PROVE  /\ \A nr \in SeqNr, packet \in Packet : DataFrame(s, nr, packet) \in Frame
         /\ \A kind \in {"ACK", "NAK"} : ControlFrame(s, kind) \in Frame
         /\ Arriving(s) # <<>> => /\ Head(Arriving(s)) \in Frame
                                  /\ Taken(s) \in [Station -> Seq(Frame)]
  <1>1. /\ frame_expected[s] \in SeqNr
        /\ link \in [Station -> Seq(Frame)]
        /\ Peer(s) \in Station
    BY PeerFacts DEF TypeOK
  <1>2. AckField(frame_expected[s]) \in SeqNr
    BY <1>1, AckFieldIsPrevious
  <1>3. 0 \in SeqNr /\ NoPacket \in Packet
    BY NrBufs DEF SeqNr, Packet, NoPacket
  <1>4. \A nr \in SeqNr, packet \in Packet : DataFrame(s, nr, packet) \in Frame
    BY <1>2 DEF DataFrame, Frame
  <1>5. \A kind \in {"ACK", "NAK"} : ControlFrame(s, kind) \in Frame
    BY <1>2, <1>3 DEF ControlFrame, Frame
  <1>6. ASSUME Arriving(s) # <<>>
        PROVE  Head(Arriving(s)) \in Frame /\ Taken(s) \in [Station -> Seq(Frame)]
    BY <1>1, <1>6 DEF Arriving, Taken
  <1>. QED  BY <1>4, <1>5, <1>6

LEMMA PushedType ==
  ASSUME NEW queue \in Seq(Frame), NEW f \in Frame
  PROVE  Pushed(queue, f) \in Seq(Frame)
  BY DEF Pushed

LEMMA TakenThenSentType ==
  ASSUME TypeOK, NEW s \in Station, Arriving(s) # <<>>, NEW f \in Frame
  PROVE  TakenThenSent(s, f) \in [Station -> Seq(Frame)]
  <1>1. Taken(s) \in [Station -> Seq(Frame)]
    BY FrameTypes
  <1>. QED  BY <1>1, PushedType DEF TakenThenSent

LEMMA SlotOfType == \A k \in SeqNr : SlotOf(k) \in Slot
  BY SlotOfSeqNr

LEMMA InitTypeOK == Init => TypeOK
  <1>1. /\ 0 \in SeqNr
        /\ NR_BUFS \in SeqNr
        /\ NoPacket \in Packet
        /\ 0 \in 0 .. UCHAR - 1
    BY NrBufs DEF SeqNr, NoPacket, Packet, UCHAR
  <1>. QED  BY <1>1 DEF Init, TypeOK

(* The parts of a step that several actions share.                         *)
LEMMA PhysicalType ==
  ASSUME TypeOK, NEW s \in Station, PhysicalBusy(s) \/ PhysicalUntouched
  PROVE  phl_ready' \in [Station -> BOOLEAN] /\ inform_phl_ready' \in [Station -> BOOLEAN]
  BY DEF TypeOK, PhysicalBusy, PhysicalUntouched

LEMMA GateType ==
  ASSUME TypeOK, NEW s \in Station, GateNetworkLayer(s)
  PROVE  network_layer_active' \in [Station -> BOOLEAN]
  BY DEF TypeOK, GateNetworkLayer, HasRoom

LEMMA AcknowledgeType ==
  ASSUME TypeOK, NEW s \in Station, NEW m \in 0 .. MAX_SEQ,
         NEW running \in SUBSET Slot, Acknowledge(s, m, running)
  PROVE  /\ next_frame_to_send' \in [Station -> SeqNr]
         /\ ack_expected' \in [Station -> SeqNr]
         /\ now_postion' \in [Station -> 0 .. UCHAR - 1]
         /\ timer' \in [Station -> SUBSET Slot]
         /\ to_phy_buffer' \in [Station -> [Slot -> Packet]]
         /\ pkt_no' \in [Station -> Nat]
  <1>1. m \in 0 .. MAX_SEQ + 1
    BY NrBufs
  <1>2. ack_expected[s] \in SeqNr /\ now_postion[s] \in 0 .. UCHAR - 1
    BY DEF TypeOK
  <1>3. Advance(ack_expected[s], m) \in SeqNr
    BY <1>1, <1>2, AdvanceSteps
  <1>4. (now_postion[s] - m) % UCHAR \in 0 .. UCHAR - 1
    <2>1. now_postion[s] \in Int /\ m \in Int
      BY <1>1, <1>2, NrBufs DEF UCHAR
    <2>. QED  BY <2>1 DEF UCHAR
  <1>. QED  BY <1>3, <1>4 DEF TypeOK, Acknowledge, sourceVars

LEMMA DeliverType ==
  ASSUME TypeOK, NEW s \in Station, NEW n \in 0 .. NR_BUFS,
         NEW arrived \in SUBSET Slot, NEW buffer \in [Slot -> Packet],
         Deliver(s, arrived, buffer, n)
  PROVE  /\ have_arrived' \in [Station -> SUBSET Slot]
         /\ to_network_buffer' \in [Station -> [Slot -> Packet]]
         /\ frame_expected' \in [Station -> SeqNr]
         /\ too_far' \in [Station -> SeqNr]
         /\ rpackets' \in [Station -> Nat]
         /\ aborted' \in [Station -> BOOLEAN]
  <1>1. n \in 0 .. MAX_SEQ + 1 /\ n \in Nat
    BY NrBufs
  <1>2. frame_expected[s] \in SeqNr /\ too_far[s] \in SeqNr
    BY DEF TypeOK
  <1>3. /\ Advance(frame_expected[s], n) \in SeqNr
        /\ Advance(too_far[s], n) \in SeqNr
    BY <1>1, <1>2, AdvanceSteps
  <1>4. rpackets[s] + n \in Nat
    BY <1>1 DEF TypeOK
  <1>. QED  BY <1>3, <1>4 DEF TypeOK, Deliver

LEMMA NextTypeOK == TypeOK /\ [Next]_vars => TypeOK'
  <1>. SUFFICES ASSUME TypeOK, [Next]_vars
                PROVE  TypeOK'
    OBVIOUS
  <1>. USE SlotOfType
  <1>1. ASSUME NEW s \in Station, NetworkLayerReady(s)
        PROVE  TypeOK'
    <2>. DEFINE nr     == next_frame_to_send[s]
                packet == pkt_no[s]
                f      == DataFrame(s, nr, packet)
    <2>1. nr \in SeqNr /\ packet \in Nat /\ packet \in Packet
      BY DEF TypeOK, Packet
    <2>2. Inc(nr) \in SeqNr
      BY <2>1, NrBufs DEF Inc, SeqNr
    <2>3. Pushed(link[s], f) \in Seq(Frame)
      BY <2>1, FrameTypes, PushedType DEF TypeOK
    <2>4. (now_postion[s] + 1) % UCHAR \in 0 .. UCHAR - 1
      <3>1. now_postion[s] \in 0 .. UCHAR - 1
        BY DEF TypeOK
      <3>2. now_postion[s] + 1 \in Int
        BY <3>1 DEF UCHAR
      <3>. QED  BY <3>2 DEF UCHAR
    <2>5. /\ phl_ready' \in [Station -> BOOLEAN]
          /\ inform_phl_ready' \in [Station -> BOOLEAN]
          /\ network_layer_active' \in [Station -> BOOLEAN]
      BY <1>1, PhysicalType, GateType DEF NetworkLayerReady
    <2>6. /\ to_phy_buffer' \in [Station -> [Slot -> Packet]]
          /\ timer' \in [Station -> SUBSET Slot]
          /\ pkt_no' \in [Station -> Nat]
      BY <1>1, <2>1 DEF TypeOK, NetworkLayerReady
    <2>7. /\ next_frame_to_send' \in [Station -> SeqNr]
          /\ now_postion' \in [Station -> 0 .. UCHAR - 1]
          /\ link' \in [Station -> Seq(Frame)]
          /\ ack_timer' \in [Station -> BOOLEAN]
      BY <1>1, <2>2, <2>3, <2>4 DEF TypeOK, NetworkLayerReady
    <2>. QED  BY <1>1, <2>5, <2>6, <2>7
              DEF TypeOK, NetworkLayerReady, receiverVars
  <1>2. ASSUME NEW s \in Station, PhysicalLayerReady(s)
        PROVE  TypeOK'
    BY <1>2, GateType
    DEF TypeOK, PhysicalLayerReady, senderVars, receiverVars, sourceVars
  <1>3. ASSUME NEW s \in Station, NEW i \in Slot, DataTimeout(s, i)
        PROVE  TypeOK'
    <2>. DEFINE nr == IF InMiddle(ack_expected[s], i, next_frame_to_send[s])
                        THEN i ELSE i + NR_BUFS
                f  == DataFrame(s, nr, to_phy_buffer[s][SlotOf(nr)])
    <2>1. nr \in SeqNr
      BY NrBufs DEF SeqNr, Slot
    <2>2. SlotOf(nr) \in Slot
      BY <2>1
    <2>3. to_phy_buffer[s][SlotOf(nr)] \in Packet
      BY <2>2 DEF TypeOK
    <2>4. Pushed(link[s], f) \in Seq(Frame)
      BY <2>1, <2>3, FrameTypes, PushedType DEF TypeOK
    <2>5. FiredAgain(s, i, nr) \in SUBSET Slot
      BY <2>2 DEF FiredAgain, TypeOK
    <2>6. /\ phl_ready' \in [Station -> BOOLEAN]
          /\ inform_phl_ready' \in [Station -> BOOLEAN]
          /\ network_layer_active' \in [Station -> BOOLEAN]
      BY <1>3, PhysicalType, GateType DEF DataTimeout
    <2>. QED  BY <1>3, <2>4, <2>5, <2>6
              DEF TypeOK, DataTimeout, receiverVars, sourceVars
  <1>4. ASSUME NEW s \in Station, AckTimeout(s)
        PROVE  TypeOK'
    <2>1. Pushed(link[s], ControlFrame(s, "ACK")) \in Seq(Frame)
      BY FrameTypes, PushedType DEF TypeOK
    <2>2. /\ phl_ready' \in [Station -> BOOLEAN]
          /\ inform_phl_ready' \in [Station -> BOOLEAN]
          /\ network_layer_active' \in [Station -> BOOLEAN]
      BY <1>4, PhysicalType, GateType DEF AckTimeout
    <2>. QED  BY <1>4, <2>1, <2>2
              DEF TypeOK, AckTimeout, senderVars, receiverVars, sourceVars
  <1>5. ASSUME NEW s \in Station, ReceiveDamaged(s)
        PROVE  TypeOK'
    <2>1. /\ Taken(s) \in [Station -> Seq(Frame)]
          /\ TakenThenSent(s, ControlFrame(s, "NAK")) \in [Station -> Seq(Frame)]
      BY <1>5, FrameTypes, TakenThenSentType DEF ReceiveDamaged
    <2>2. /\ phl_ready' \in [Station -> BOOLEAN]
          /\ inform_phl_ready' \in [Station -> BOOLEAN]
          /\ network_layer_active' \in [Station -> BOOLEAN]
      BY <1>5, PhysicalType, GateType DEF ReceiveDamaged
    <2>. QED  BY <1>5, <2>1, <2>2
              DEF TypeOK, ReceiveDamaged, senderVars, receiverVars, sourceVars
  <1>6. ASSUME NEW s \in Station, ReceiveData(s)
        PROVE  TypeOK'
    <2>. DEFINE f       == Head(Arriving(s))
                nak     == f.seq # frame_expected[s] /\ NakAllowed(s)
                new     == New(s, f.seq)
                arrived == IF new THEN have_arrived[s] \cup {SlotOf(f.seq)}
                                  ELSE have_arrived[s]
                buffer  == IF new
                             THEN [to_network_buffer[s] EXCEPT ![SlotOf(f.seq)] = f.data]
                             ELSE to_network_buffer[s]
    <2>1. Arriving(s) # <<>> /\ f \in Frame
      BY <1>6, FrameTypes DEF ReceiveData
    <2>2. f.data \in Packet /\ SlotOf(f.seq) \in Slot
      BY <2>1 DEF Frame
    <2>3. arrived \in SUBSET Slot /\ buffer \in [Slot -> Packet]
      BY <2>2 DEF TypeOK
    <2>4. PICK n \in 0 .. NR_BUFS, m \in 0 .. MAX_SEQ :
            /\ Deliver(s, arrived, buffer, n)
            /\ no_nak' = [no_nak EXCEPT ![s] = n > 0 \/ (@ /\ ~nak)]
            /\ ack_timer' = [ack_timer EXCEPT ![s] = AckDue(n, nak)]
            /\ Acknowledge(s, m, timer[s])
      BY <1>6 DEF ReceiveData
    <2>5. timer[s] \in SUBSET Slot
      BY DEF TypeOK
    <2>6. link' \in [Station -> Seq(Frame)]
      BY <1>6, <2>1, FrameTypes, TakenThenSentType DEF ReceiveData
    <2>7. /\ phl_ready' \in [Station -> BOOLEAN]
          /\ inform_phl_ready' \in [Station -> BOOLEAN]
          /\ network_layer_active' \in [Station -> BOOLEAN]
      BY <1>6, PhysicalType, GateType DEF ReceiveData
    <2>8. no_nak' \in [Station -> BOOLEAN] /\ ack_timer' \in [Station -> BOOLEAN]
      BY <2>4 DEF TypeOK, AckDue, NakAllowed
    <2>9. /\ have_arrived' \in [Station -> SUBSET Slot]
          /\ to_network_buffer' \in [Station -> [Slot -> Packet]]
          /\ frame_expected' \in [Station -> SeqNr]
          /\ too_far' \in [Station -> SeqNr]
          /\ rpackets' \in [Station -> Nat]
          /\ aborted' \in [Station -> BOOLEAN]
      <3>. HIDE DEF arrived, buffer
      <3>. QED  BY <2>3, <2>4, DeliverType
    <2>10. /\ next_frame_to_send' \in [Station -> SeqNr]
           /\ ack_expected' \in [Station -> SeqNr]
           /\ now_postion' \in [Station -> 0 .. UCHAR - 1]
           /\ timer' \in [Station -> SUBSET Slot]
           /\ to_phy_buffer' \in [Station -> [Slot -> Packet]]
           /\ pkt_no' \in [Station -> Nat]
      BY <2>4, <2>5, AcknowledgeType
    <2>. QED  BY <2>6, <2>7, <2>8, <2>9, <2>10 DEF TypeOK
  <1>7. ASSUME NEW s \in Station, ReceiveAck(s)
        PROVE  TypeOK'
    <2>1. link' \in [Station -> Seq(Frame)]
      BY <1>7, FrameTypes DEF ReceiveAck
    <2>2. timer[s] \in SUBSET Slot
      BY DEF TypeOK
    <2>3. /\ next_frame_to_send' \in [Station -> SeqNr]
          /\ ack_expected' \in [Station -> SeqNr]
          /\ now_postion' \in [Station -> 0 .. UCHAR - 1]
          /\ timer' \in [Station -> SUBSET Slot]
          /\ to_phy_buffer' \in [Station -> [Slot -> Packet]]
          /\ pkt_no' \in [Station -> Nat]
      BY <1>7, <2>2, AcknowledgeType DEF ReceiveAck
    <2>4. /\ phl_ready' \in [Station -> BOOLEAN]
          /\ inform_phl_ready' \in [Station -> BOOLEAN]
          /\ network_layer_active' \in [Station -> BOOLEAN]
      BY <1>7, PhysicalType, GateType DEF ReceiveAck
    <2>. QED  BY <1>7, <2>1, <2>3, <2>4 DEF TypeOK, ReceiveAck, receiverVars
  <1>8. ASSUME NEW s \in Station, ReceiveNak(s)
        PROVE  TypeOK'
    <2>. DEFINE ack    == Head(Arriving(s)).ack
                nr     == NakTarget(ack)
                resend == InMiddle(ack_expected[s], nr, next_frame_to_send[s])
                f      == DataFrame(s, nr, to_phy_buffer[s][SlotOf(nr)])
                running == IF resend THEN timer[s] \cup {SlotOf(nr)} ELSE timer[s]
    <2>1. Arriving(s) # <<>> /\ Head(Arriving(s)) \in Frame
      BY <1>8, FrameTypes DEF ReceiveNak
    <2>2. ack \in SeqNr
      BY <2>1 DEF Frame
    <2>3. nr \in SeqNr
      BY <2>2, NakTargetIsNext
    <2>4. SlotOf(nr) \in Slot
      BY <2>3
    <2>5. f \in Frame
      BY <2>3, <2>4, FrameTypes DEF TypeOK
    <2>6. link' \in [Station -> Seq(Frame)]
      <3>. HIDE DEF f, nr
      <3>1. Taken(s) \in [Station -> Seq(Frame)]
        BY <2>1, FrameTypes
      <3>2. TakenThenSent(s, f) \in [Station -> Seq(Frame)]
        BY <2>1, <2>5, TakenThenSentType
      <3>3. link' = Taken(s) \/ link' = TakenThenSent(s, f)
        BY <1>8 DEF ReceiveNak, f, nr
      <3>. QED  BY <3>1, <3>2, <3>3
    <2>7. running \in SUBSET Slot
      BY <2>4 DEF TypeOK
    <2>8. PICK m \in 0 .. MAX_SEQ : Acknowledge(s, m, running)
      BY <1>8 DEF ReceiveNak
    <2>9. /\ next_frame_to_send' \in [Station -> SeqNr]
          /\ ack_expected' \in [Station -> SeqNr]
          /\ now_postion' \in [Station -> 0 .. UCHAR - 1]
          /\ timer' \in [Station -> SUBSET Slot]
          /\ to_phy_buffer' \in [Station -> [Slot -> Packet]]
          /\ pkt_no' \in [Station -> Nat]
      <3>. HIDE DEF running
      <3>. QED  BY <2>7, <2>8, AcknowledgeType
    <2>10. /\ phl_ready' \in [Station -> BOOLEAN]
           /\ inform_phl_ready' \in [Station -> BOOLEAN]
           /\ network_layer_active' \in [Station -> BOOLEAN]
      BY <1>8, PhysicalType, GateType DEF ReceiveNak
    <2>11. ack_timer' \in [Station -> BOOLEAN]
      BY <1>8 DEF ReceiveNak, TypeOK
    <2>. QED  BY <1>8, <2>6, <2>9, <2>10, <2>11 DEF TypeOK, ReceiveNak, receiverVars
  <1>9. ASSUME NEW s \in Station, Lose(s)
        PROVE  TypeOK'
    BY <1>9 DEF TypeOK, Lose, senderVars, receiverVars, sourceVars
  <1>10. CASE UNCHANGED vars
    BY <1>10 DEF TypeOK, vars, senderVars, receiverVars, sourceVars
  <1>. QED  BY <1>1, <1>2, <1>3, <1>4, <1>5, <1>6, <1>7, <1>8, <1>9, <1>10
            DEF Next, StationStep, Receive

(* Every variable keeps its type: in particular the sequence numbers stay  *)
(* within 0..MAX_SEQ and the array indexes within the buffers, although    *)
(* both come from arithmetic on numbers received from the peer.            *)
THEOREM TypeCorrect == Spec => []TypeOK
  BY InitTypeOK, NextTypeOK, PTL DEF Spec

-----------------------------------------------------------------------------
(* Frames that leave the link, arriving or lost.                           *)

LEMMA FrameFields ==
  ASSUME NEW q \in Seq(Frame), NEW i \in DOMAIN q
  PROVE  q[i].seq \in SeqNr /\ q[i].ack \in SeqNr /\ NakTarget(q[i].ack) \in SeqNr
  <1>1. q[i] \in Frame
    OBVIOUS
  <1>2. q[i].seq \in SeqNr /\ q[i].ack \in SeqNr
    BY <1>1 DEF Frame
  <1>. QED  BY <1>2, NakTargetIsNext

LEMMA TailFacts ==
  ASSUME NEW q \in Seq(Frame), q # <<>>
  PROVE  /\ Tail(q) \in Seq(Frame)
         /\ Len(q) \in Nat \ {0}
         /\ 1 \in DOMAIN q
         /\ Head(q) = q[1]
         /\ \A i \in DOMAIN Tail(q) :
              i \in Nat \ {0} /\ i + 1 \in DOMAIN q /\ Tail(q)[i] = q[i + 1]
  OBVIOUS

LEMMA DataTail ==
  ASSUME NEW q \in Seq(Frame), q # <<>>, NEW S, NEW R, NEW fe,
         DataOnLink(q, S, R, fe)
  PROVE  /\ DataOnLink(Tail(q), S, R, fe)
         /\ GoodData(Head(q), S, R, fe)
         /\ \A i \in DOMAIN Tail(q) : OrderedData(Head(q), Tail(q)[i])
  <1>. USE TailFacts
  <1>1. ASSUME NEW i \in DOMAIN Tail(q)
        PROVE  GoodData(Tail(q)[i], S, R, fe) /\ OrderedData(Head(q), Tail(q)[i])
    BY DEF DataOnLink
  <1>2. ASSUME NEW i \in DOMAIN Tail(q), NEW j \in DOMAIN Tail(q), i < j
        PROVE  OrderedData(Tail(q)[i], Tail(q)[j])
    BY <1>2 DEF DataOnLink
  <1>3. GoodData(Head(q), S, R, fe)
    BY DEF DataOnLink
  <1>. QED  BY <1>1, <1>2, <1>3 DEF DataOnLink

LEMMA AcksTail ==
  ASSUME NEW q \in Seq(Frame), q # <<>>, NEW ae, NEW acked, NEW R,
         AcksOnLink(q, ae, acked, R)
  PROVE  /\ AcksOnLink(Tail(q), ae, acked, R)
         /\ acked + Asked(Head(q), ae) <= R
         /\ \A i \in DOMAIN Tail(q) : Asked(Head(q), ae) <= Asked(Tail(q)[i], ae)
  <1>. USE TailFacts
  <1>1. ASSUME NEW i \in DOMAIN Tail(q)
        PROVE  /\ acked + Asked(Tail(q)[i], ae) <= R
               /\ Asked(Head(q), ae) <= Asked(Tail(q)[i], ae)
    BY DEF AcksOnLink
  <1>2. ASSUME NEW i \in DOMAIN Tail(q), NEW j \in DOMAIN Tail(q), i < j
        PROVE  Asked(Tail(q)[i], ae) <= Asked(Tail(q)[j], ae)
    BY <1>2 DEF AcksOnLink
  <1>3. acked + Asked(Head(q), ae) <= R
    BY DEF AcksOnLink
  <1>. QED  BY <1>1, <1>2, <1>3 DEF AcksOnLink

LEMMA NaksTail ==
  ASSUME NEW q \in Seq(Frame), q # <<>>, NEW fe, NEW none, NaksOnLink(q, fe, none)
  PROVE  NaksOnLink(Tail(q), fe, none)
  <1>. USE TailFacts
  <1>1. ASSUME NEW i \in DOMAIN Tail(q), Tail(q)[i].kind = "NAK",
               NakTarget(Tail(q)[i].ack) = fe
        PROVE  ~none
    BY <1>1 DEF NaksOnLink
  <1>2. ASSUME NEW i \in DOMAIN Tail(q), NEW j \in DOMAIN Tail(q),
               Tail(q)[i].kind = "NAK", Tail(q)[j].kind = "NAK",
               Tail(q)[i].ack = Tail(q)[j].ack
        PROVE  i = j
    <2>1. i + 1 = j + 1
      BY <1>2 DEF NaksOnLink
    <2>. QED  BY <2>1
  <1>. QED  BY <1>1, <1>2 DEF NaksOnLink

LEMMA BufferedTail ==
  ASSUME NEW q \in Seq(Frame), q # <<>>,
         NEW have, NEW buffer, NEW S, NEW R, NEW fe,
         Buffered(have, buffer, q, S, R, fe)
  PROVE  Buffered(have, buffer, Tail(q), S, R, fe)
  BY TailFacts DEF Buffered

-----------------------------------------------------------------------------
(* Frames put on the link. *)

LEMMA PushedFacts ==
  ASSUME NEW q \in Seq(Frame), NEW f \in Frame
  PROVE  /\ Pushed(q, f) \in Seq(Frame)
         /\ \A i \in DOMAIN Pushed(q, f) :
              \/ i \in DOMAIN q /\ Pushed(q, f)[i] = q[i]
              \/ i = Len(q) + 1 /\ Pushed(q, f)[i] = f
         /\ \A i \in DOMAIN q : i \in Nat /\ i <= Len(q)
         /\ Len(q) \in Nat
  BY DEF Pushed

LEMMA DataPush ==
  ASSUME NEW q \in Seq(Frame), NEW f \in Frame, NEW S, NEW R, NEW fe,
         DataOnLink(q, S, R, fe), GoodData(f, S, R, fe),
         \A i \in DOMAIN q : OrderedData(q[i], f)
  PROVE  DataOnLink(Pushed(q, f), S, R, fe)
  <1>. DEFINE p == Pushed(q, f)
  <1>1. /\ \A i \in DOMAIN p : \/ i \in DOMAIN q /\ p[i] = q[i]
                               \/ i = Len(q) + 1 /\ p[i] = f
        /\ \A i \in DOMAIN q : i \in Nat /\ i <= Len(q)
        /\ Len(q) \in Nat
    BY PushedFacts
  <1>. HIDE DEF p
  <1>2. ASSUME NEW i \in DOMAIN p
        PROVE  GoodData(p[i], S, R, fe)
    BY <1>1 DEF DataOnLink
  <1>3. ASSUME NEW i \in DOMAIN p, NEW j \in DOMAIN p, i < j
        PROVE  OrderedData(p[i], p[j])
    BY <1>1, <1>3 DEF DataOnLink
  <1>4. DataOnLink(p, S, R, fe)
    BY <1>2, <1>3 DEF DataOnLink
  <1>. QED  BY <1>4 DEF p

LEMMA AcksPush ==
  ASSUME NEW q \in Seq(Frame), NEW f \in Frame, NEW ae, NEW acked, NEW R,
         AcksOnLink(q, ae, acked, R), acked + Asked(f, ae) <= R,
         \A i \in DOMAIN q : Asked(q[i], ae) <= Asked(f, ae)
  PROVE  AcksOnLink(Pushed(q, f), ae, acked, R)
  <1>. DEFINE p == Pushed(q, f)
  <1>1. /\ \A i \in DOMAIN p : \/ i \in DOMAIN q /\ p[i] = q[i]
                               \/ i = Len(q) + 1 /\ p[i] = f
        /\ \A i \in DOMAIN q : i \in Nat /\ i <= Len(q)
        /\ Len(q) \in Nat
    BY PushedFacts
  <1>. HIDE DEF p
  <1>2. ASSUME NEW i \in DOMAIN p
        PROVE  acked + Asked(p[i], ae) <= R
    BY <1>1 DEF AcksOnLink
  <1>3. ASSUME NEW i \in DOMAIN p, NEW j \in DOMAIN p, i < j
        PROVE  Asked(p[i], ae) <= Asked(p[j], ae)
    BY <1>1, <1>3 DEF AcksOnLink
  <1>4. AcksOnLink(p, ae, acked, R)
    BY <1>2, <1>3 DEF AcksOnLink
  <1>. QED  BY <1>4 DEF p

(* A frame that is no NAK, or the first NAK for fe.                        *)
LEMMA NaksPush ==
  ASSUME NEW q \in Seq(Frame), NEW f \in Frame, NEW fe,
         NEW none \in BOOLEAN, NEW none1 \in BOOLEAN,
         NaksOnLink(q, fe, none), none1 => none,
         f.kind = "NAK" => NakTarget(f.ack) = fe /\ none /\ ~none1
  PROVE  NaksOnLink(Pushed(q, f), fe, none1)
  <1>. DEFINE p == Pushed(q, f)
  <1>1. /\ \A i \in DOMAIN p : \/ i \in DOMAIN q /\ p[i] = q[i]
                               \/ i = Len(q) + 1 /\ p[i] = f
        /\ \A i \in DOMAIN q : i \in Nat /\ i <= Len(q)
        /\ Len(q) \in Nat
    BY PushedFacts
  <1>. HIDE DEF p
  <1>2. ASSUME NEW i \in DOMAIN p, p[i].kind = "NAK", NakTarget(p[i].ack) = fe
        PROVE  ~none1
    BY <1>1, <1>2 DEF NaksOnLink
  <1>3. ASSUME NEW i \in DOMAIN p, NEW j \in DOMAIN p,
               p[i].kind = "NAK", p[j].kind = "NAK", p[i].ack = p[j].ack
        PROVE  i = j
    BY <1>1, <1>3 DEF NaksOnLink
  <1>4. NaksOnLink(p, fe, none1)
    BY <1>2, <1>3 DEF NaksOnLink
  <1>. QED  BY <1>4 DEF p

LEMMA BufferedPush ==
  ASSUME NEW q \in Seq(Frame), NEW f \in Frame,
         NEW have, NEW buffer, NEW S \in Nat, NEW R \in Nat, NEW fe,
         Buffered(have, buffer, q, S, R, fe),
         f.kind = "DATA" => f.data \in Nat /\ S <= f.data + NR_BUFS
  PROVE  Buffered(have, buffer, Pushed(q, f), S, R, fe)
  <1>. DEFINE p == Pushed(q, f)
  <1>1. \A i \in DOMAIN p : \/ i \in DOMAIN q /\ p[i] = q[i]
                            \/ p[i] = f
    BY PushedFacts
  <1>. HIDE DEF p
  <1>2. ASSUME NEW o \in 0 .. NR_BUFS - 1, SlotOf(Advance(fe, o)) \in have
        PROVE  /\ o > 0
               /\ buffer[SlotOf(Advance(fe, o))] = R + o
               /\ R + o < S
               /\ \A i \in DOMAIN q : q[i].kind = "DATA" => R + o < q[i].data + NR_BUFS
    BY <1>2 DEF Buffered
  <1>3. ASSUME NEW o \in 0 .. NR_BUFS - 1, SlotOf(Advance(fe, o)) \in have,
               NEW i \in DOMAIN p, p[i].kind = "DATA"
        PROVE  R + o < p[i].data + NR_BUFS
    BY <1>1, <1>2, <1>3, NrBufs
  <1>4. Buffered(have, buffer, p, S, R, fe)
    BY <1>2, <1>3 DEF Buffered
  <1>. QED  BY <1>4 DEF p

-----------------------------------------------------------------------------
(* The windows move. *)

LEMMA MoreSent ==
  ASSUME NEW q \in Seq(Frame), NEW S \in Nat, NEW S1 \in Nat, S <= S1,
         NEW R \in Nat, NEW fe, NEW have, NEW buffer,
         DataOnLink(q, S, R, fe), Buffered(have, buffer, q, S, R, fe)
  PROVE  DataOnLink(q, S1, R, fe) /\ Buffered(have, buffer, q, S1, R, fe)
  <1>1. ASSUME NEW i \in DOMAIN q
        PROVE  GoodData(q[i], S1, R, fe)
    BY DEF DataOnLink, GoodData
  <1>2. DataOnLink(q, S1, R, fe)
    BY <1>1 DEF DataOnLink
  <1>3. Buffered(have, buffer, q, S1, R, fe)
    BY NrBufs DEF Buffered
  <1>. QED  BY <1>2, <1>3

LEMMA AcksMoreReceived ==
  ASSUME NEW q \in Seq(Frame), NEW ae \in SeqNr, NEW acked \in Nat,
         NEW R \in Nat, NEW R1 \in Nat, R <= R1, AcksOnLink(q, ae, acked, R)
  PROVE  AcksOnLink(q, ae, acked, R1)
  <1>1. \A i \in DOMAIN q : Asked(q[i], ae) \in Nat
    BY FrameFields, OffsetOfAdvance, NrBufs DEF Asked
  <1>. QED  BY <1>1 DEF AcksOnLink

LEMMA AcksMoreAcked ==
  ASSUME NEW q \in Seq(Frame), NEW ae \in SeqNr, NEW acked \in Nat, NEW R \in Nat,
         AcksOnLink(q, ae, acked, R), NEW d \in 0 .. MAX_SEQ,
         \A i \in DOMAIN q : d <= Asked(q[i], ae)
  PROVE  AcksOnLink(q, Advance(ae, d), acked + d, R)
  <1>1. ASSUME NEW i \in DOMAIN q
        PROVE  /\ Asked(q[i], ae) \in 0 .. MAX_SEQ
               /\ Asked(q[i], Advance(ae, d)) = Asked(q[i], ae) - d
    <2>1. NakTarget(q[i].ack) \in SeqNr
      BY FrameFields
    <2>2. Offset(ae, NakTarget(q[i].ack)) \in 0 .. MAX_SEQ
      BY <2>1, OffsetOfAdvance
    <2>3. d \in 0 .. Offset(ae, NakTarget(q[i].ack))
      BY <2>2, NrBufs DEF Asked
    <2>. QED  BY <2>1, <2>2, <2>3, OffsetFromAdvance DEF Asked
  <1>2. d \in Nat
    BY NrBufs
  <1>3. \A i \in DOMAIN q : acked + d + (Asked(q[i], ae) - d) <= R
    <2>. TAKE i \in DOMAIN q
    <2>1. Asked(q[i], ae) \in Nat /\ acked + Asked(q[i], ae) <= R
      BY <1>1, NrBufs DEF AcksOnLink
    <2>. QED  BY <1>2, <2>1
  <1>4. \A i, j \in DOMAIN q : i < j => Asked(q[i], ae) - d <= Asked(q[j], ae) - d
    <2>. TAKE i, j \in DOMAIN q
    <2>. HAVE i < j
    <2>1. /\ Asked(q[i], ae) \in Int /\ Asked(q[j], ae) \in Int
          /\ Asked(q[i], ae) <= Asked(q[j], ae)
      BY <1>1, NrBufs DEF AcksOnLink
    <2>. QED  BY <1>2, <2>1
  <1>. QED  BY <1>1, <1>3, <1>4 DEF AcksOnLink

LEMMA DataMoreReceived ==
  ASSUME NEW q \in Seq(Frame), NEW S \in Nat, NEW R \in Nat, S <= R + NR_BUFS,
         NEW fe \in SeqNr, NEW n \in 0 .. NR_BUFS, DataOnLink(q, S, R, fe),
         \A i \in DOMAIN q : q[i].kind = "DATA" => R + n <= q[i].data + NR_BUFS
  PROVE  DataOnLink(q, S, R + n, Advance(fe, n))
  <1>1. ASSUME NEW i \in DOMAIN q, q[i].kind = "DATA"
        PROVE  GoodData(q[i], S, R + n, Advance(fe, n))
    <2>. DEFINE k == q[i].data
                x == q[i].seq
    <2>1. /\ k \in 0 .. S - 1
          /\ k >= R => x = Advance(fe, k - R)
          /\ k < R  => fe = Advance(x, R - k)
          /\ R + n <= k + NR_BUFS
          /\ R <= k + NR_BUFS
      BY <1>1 DEF DataOnLink, GoodData
    <2>2. x \in SeqNr /\ k \in Int /\ R <= k + NR_BUFS /\ k < S
      BY <2>1, FrameFields
    <2>. HIDE DEF k, x
    <2>3. k >= R + n => x = Advance(Advance(fe, n), k - (R + n))
      <3>. SUFFICES ASSUME k >= R + n
                    PROVE  x = Advance(Advance(fe, n), k - (R + n))
        OBVIOUS
      <3>1. /\ n \in 0 .. MAX_SEQ + 1
            /\ k - (R + n) \in 0 .. MAX_SEQ + 1
            /\ n + (k - (R + n)) = k - R
            /\ k - R <= MAX_SEQ + 1
        BY <2>1, NrBufs
      <3>. QED  BY <2>1, <3>1, AdvanceSteps
    <2>4. k < R + n => Advance(fe, n) = Advance(x, R + n - k)
      <3>1. CASE k < R
        <4>1. /\ n \in 0 .. MAX_SEQ + 1
              /\ R - k \in 0 .. MAX_SEQ + 1
              /\ R - k + n = R + n - k
              /\ R + n - k <= MAX_SEQ + 1
          BY <2>2, <3>1, NrBufs
        <4>. QED  BY <2>1, <2>2, <3>1, <4>1, AdvanceSteps
      <3>2. CASE k >= R /\ k < R + n
        <4>1. /\ k - R \in 0 .. MAX_SEQ + 1
              /\ R + n - k \in 0 .. MAX_SEQ + 1
              /\ k - R + (R + n - k) = n
              /\ n <= MAX_SEQ + 1
          BY <2>2, <3>2, NrBufs
        <4>2. Advance(Advance(fe, k - R), R + n - k) = Advance(fe, n)
          BY <4>1, AdvanceSteps
        <4>. QED  BY <2>1, <3>2, <4>2
      <3>. QED  BY <2>2, <3>1, <3>2
    <2>. QED  BY <1>1, <2>1, <2>3, <2>4 DEF GoodData, k, x
  <1>2. \A i \in DOMAIN q : GoodData(q[i], S, R + n, Advance(fe, n))
    BY <1>1 DEF GoodData
  <1>. QED  BY <1>2 DEF DataOnLink

(* What the loop of put_packet calls leaves in the buffers.                *)
LEMMA BufferedAfterDelivery ==
  ASSUME NEW q \in Seq(Frame), NEW S \in Nat, NEW R \in Nat,
         NEW fe \in SeqNr, NEW n \in 0 .. NR_BUFS,
         NEW arrived \in SUBSET Slot, NEW buffer, DeliverRounds(arrived, fe, n),
         \A o \in 0 .. NR_BUFS - 1 :
           SlotOf(Advance(fe, o)) \in arrived =>
             /\ buffer[SlotOf(Advance(fe, o))] = R + o
             /\ R + o < S
             /\ \A i \in DOMAIN q :
                  q[i].kind = "DATA" => R + o < q[i].data + NR_BUFS
  PROVE  Buffered(arrived \ {SlotOf(Advance(fe, j)) : j \in 0 .. n - 1},
                  buffer, q, S, R + n, Advance(fe, n))
  <1>. DEFINE have == arrived \ {SlotOf(Advance(fe, j)) : j \in 0 .. n - 1}
  <1>1. ASSUME NEW o \in 0 .. NR_BUFS - 1,
               SlotOf(Advance(Advance(fe, n), o)) \in have
        PROVE  /\ o > 0
               /\ buffer[SlotOf(Advance(Advance(fe, n), o))] = (R + n) + o
               /\ (R + n) + o < S
               /\ \A i \in DOMAIN q :
                    q[i].kind = "DATA" => (R + n) + o < q[i].data + NR_BUFS
    <2>1. Advance(Advance(fe, n), o) = Advance(fe, n + o)
      <3>1. /\ n \in 0 .. MAX_SEQ + 1
            /\ o \in 0 .. MAX_SEQ + 1
            /\ n + o <= MAX_SEQ + 1
        BY NrBufs
      <3>. QED  BY <3>1, AdvanceSteps
    <2>2. n + o < NR_BUFS
      <3>. SUFFICES ASSUME n + o >= NR_BUFS
                    PROVE  FALSE
        BY NrBufs
      <3>. DEFINE j == n + o - NR_BUFS
      <3>1. /\ j \in 0 .. MAX_SEQ + 1
            /\ NR_BUFS \in 0 .. MAX_SEQ + 1
            /\ j + NR_BUFS = n + o
            /\ n + o <= MAX_SEQ + 1
            /\ j \in 0 .. n - 1
        BY NrBufs
      <3>2. Advance(fe, j) \in SeqNr
        BY <3>1, AdvanceSteps
      <3>3. Advance(fe, n + o) = Advance(Advance(fe, j), NR_BUFS)
        BY <3>1, AdvanceSteps
      <3>4. SlotOf(Advance(fe, n + o)) = SlotOf(Advance(fe, j))
        BY <3>2, <3>3, SlotsOfWindow
      <3>. QED  BY <1>1, <2>1, <3>1, <3>4
    <2>3. n + o \in 0 .. NR_BUFS - 1 /\ R + (n + o) = (R + n) + o
      BY <2>2, NrBufs
    <2>4. SlotOf(Advance(fe, n + o)) \in arrived
      BY <1>1, <2>1
    <2>5. o > 0
      <3>1. n < NR_BUFS => SlotOf(Advance(fe, n)) \notin arrived
        BY DEF DeliverRounds
      <3>2. o = 0 => n + o = n
        OBVIOUS
      <3>. QED  BY <2>2, <2>4, <3>1, <3>2, NrBufs
    <2>6. /\ buffer[SlotOf(Advance(fe, n + o))] = R + (n + o)
          /\ R + (n + o) < S
          /\ \A i \in DOMAIN q :
               q[i].kind = "DATA" => R + (n + o) < q[i].data + NR_BUFS
      BY <2>3, <2>4
    <2>. QED  BY <2>1, <2>3, <2>5, <2>6
  <1>. QED  BY <1>1 DEF Buffered

-----------------------------------------------------------------------------
(* What the invariant says of one direction, from s to its peer.           *)
LEMMA DirectionFacts ==
  ASSUME Inv, NEW s \in Station
  PROVE  /\ pkt_no[s] \in Nat
         /\ now_postion[s] \in 0 .. NR_BUFS
         /\ Acked(s) \in Nat
         /\ pkt_no[s] = Acked(s) + now_postion[s]
         /\ rpackets[Peer(s)] \in Nat
         /\ Acked(s) <= rpackets[Peer(s)]
         /\ rpackets[Peer(s)] <= pkt_no[s]
         /\ ack_expected[s] \in SeqNr
         /\ next_frame_to_send[s] = Advance(ack_expected[s], now_postion[s])
         /\ frame_expected[Peer(s)] \in SeqNr
         /\ frame_expected[Peer(s)] =
              Advance(ack_expected[s], rpackets[Peer(s)] - Acked(s))
         /\ too_far[Peer(s)] = Advance(frame_expected[Peer(s)], NR_BUFS)
         /\ link[s] \in Seq(Frame)
         /\ link[Peer(s)] \in Seq(Frame)
         /\ no_nak[Peer(s)] \in BOOLEAN
  <1>1. Peer(s) \in Station
    BY PeerFacts
  <1>2. /\ pkt_no[s] \in Nat
        /\ now_postion[s] \in 0 .. UCHAR - 1
        /\ rpackets[Peer(s)] \in Nat
        /\ ack_expected[s] \in SeqNr
        /\ frame_expected[Peer(s)] \in SeqNr
        /\ link[s] \in Seq(Frame)
        /\ link[Peer(s)] \in Seq(Frame)
        /\ no_nak[Peer(s)] \in BOOLEAN
    BY <1>1 DEF Inv, TypeOK
  <1>3. /\ now_postion[s] <= NR_BUFS
        /\ next_frame_to_send[s] = Advance(ack_expected[s], now_postion[s])
    BY DEF Inv, WindowOK
  <1>4. InStep(s)
    BY DEF Inv
  <1>5. now_postion[s] \in 0 .. NR_BUFS
    <2>1. now_postion[s] \in 0 .. 255 /\ now_postion[s] <= NR_BUFS
      BY <1>2, <1>3 DEF UCHAR
    <2>. QED  BY <2>1, NrBufs
  <1>6. Acked(s) = pkt_no[s] - now_postion[s]
    BY <1>2, <1>5, NrBufs DEF Acked, OutstandingPacket
  <1>. QED  BY <1>2, <1>3, <1>4, <1>5, <1>6, NrBufs DEF InStep

(* A frame t puts on the link: it acknowledges all that t received, and,   *)
(* if it is a DATA frame, carries a packet of the send window, which may   *)
(* have grown to S1.                                                       *)
LEMMA SendKeepsInFlight ==
  ASSUME Inv, NEW t \in Station, NEW f \in Frame, NEW S1 \in Nat,
         NEW none1 \in BOOLEAN, none1 => no_nak[t],
         pkt_no[t] <= S1, S1 <= Acked(t) + NR_BUFS,
         f.ack = AckField(frame_expected[t]),
         f.kind = "NAK" => no_nak[t] /\ ~none1,
         f.kind = "DATA" =>
           /\ f.data \in Acked(t) .. S1 - 1
           /\ f.seq = Advance(ack_expected[t], f.data - Acked(t))
  PROVE  LET q == Peer(t)
             L == Pushed(link[t], f)
         IN  /\ DataOnLink(L, S1, rpackets[q], frame_expected[q])
             /\ Buffered(have_arrived[q], to_network_buffer[q], L,
                         S1, rpackets[q], frame_expected[q])
             /\ AcksOnLink(L, ack_expected[q], Acked(q), rpackets[t])
             /\ NaksOnLink(L, frame_expected[t], none1)
  <1>. DEFINE q == Peer(t)
              k == f.data
  <1>1. q \in Station /\ Peer(q) = t
    BY PeerFacts
  <1>2. InFlight(t) /\ InFlight(q)
    BY <1>1 DEF Inv
  <1>3. /\ DataOnLink(link[t], pkt_no[t], rpackets[q], frame_expected[q])
        /\ Buffered(have_arrived[q], to_network_buffer[q], link[t],
                    pkt_no[t], rpackets[q], frame_expected[q])
        /\ AcksOnLink(link[t], ack_expected[q], Acked(q), rpackets[t])
        /\ NaksOnLink(link[t], frame_expected[t], no_nak[t])
    BY <1>1, <1>2 DEF InFlight
  <1>4. /\ pkt_no[t] \in Nat
        /\ Acked(t) \in Nat
        /\ rpackets[q] \in Nat
        /\ Acked(t) <= rpackets[q]
        /\ rpackets[q] <= pkt_no[t]
        /\ ack_expected[t] \in SeqNr
        /\ frame_expected[q] \in SeqNr
        /\ frame_expected[q] = Advance(ack_expected[t], rpackets[q] - Acked(t))
        /\ link[t] \in Seq(Frame)
    BY DirectionFacts
  <1>5. /\ DataOnLink(link[t], S1, rpackets[q], frame_expected[q])
        /\ Buffered(have_arrived[q], to_network_buffer[q], link[t],
                    S1, rpackets[q], frame_expected[q])
    BY <1>3, <1>4, MoreSent
  <1>6. GoodData(f, S1, rpackets[q], frame_expected[q])
    <2>. SUFFICES ASSUME f.kind = "DATA"
                  PROVE  GoodData(f, S1, rpackets[q], frame_expected[q])
      BY DEF GoodData
    <2>1. /\ k \in Acked(t) .. S1 - 1
          /\ f.seq = Advance(ack_expected[t], k - Acked(t))
      OBVIOUS
    <2>2. k \in 0 .. S1 - 1 /\ rpackets[q] <= k + NR_BUFS
      BY <1>4, <2>1, NrBufs
    <2>a. /\ k \in Int
          /\ Acked(t) <= k
          /\ k < Acked(t) + NR_BUFS
          /\ Acked(t) \in Nat
          /\ rpackets[q] \in Nat
          /\ Acked(t) <= rpackets[q]
          /\ rpackets[q] <= k + NR_BUFS
          /\ rpackets[q] <= Acked(t) + NR_BUFS
      BY <1>4, <2>1, <2>2, NrBufs
    <2>. HIDE DEF k, q
    <2>3. k >= rpackets[q] => f.seq = Advance(frame_expected[q], k - rpackets[q])
      <3>. SUFFICES ASSUME k >= rpackets[q]
                    PROVE  f.seq = Advance(frame_expected[q], k - rpackets[q])
        OBVIOUS
      <3>1. /\ rpackets[q] - Acked(t) \in 0 .. MAX_SEQ + 1
            /\ k - rpackets[q] \in 0 .. MAX_SEQ + 1
            /\ rpackets[q] - Acked(t) + (k - rpackets[q]) = k - Acked(t)
            /\ k - Acked(t) <= MAX_SEQ + 1
        BY <2>a, NrBufs
      <3>2. Advance(Advance(ack_expected[t], rpackets[q] - Acked(t)), k - rpackets[q])
              = Advance(ack_expected[t], k - Acked(t))
        BY <1>4, <3>1, AdvanceSteps
      <3>. QED  BY <1>4, <2>1, <3>2
    <2>4. k < rpackets[q] => frame_expected[q] = Advance(f.seq, rpackets[q] - k)
      <3>. SUFFICES ASSUME k < rpackets[q]
                    PROVE  frame_expected[q] = Advance(f.seq, rpackets[q] - k)
        OBVIOUS
      <3>1. /\ k - Acked(t) \in 0 .. MAX_SEQ + 1
            /\ rpackets[q] - k \in 0 .. MAX_SEQ + 1
            /\ k - Acked(t) + (rpackets[q] - k) = rpackets[q] - Acked(t)
            /\ rpackets[q] - Acked(t) <= MAX_SEQ + 1
        BY <2>a, NrBufs
      <3>2. Advance(Advance(ack_expected[t], k - Acked(t)), rpackets[q] - k)
              = Advance(ack_expected[t], rpackets[q] - Acked(t))
        BY <1>4, <3>1, AdvanceSteps
      <3>. QED  BY <1>4, <2>1, <3>2
    <2>. QED  BY <2>2, <2>3, <2>4 DEF GoodData, k
  <1>7. ASSUME NEW i \in DOMAIN link[t]
        PROVE  OrderedData(link[t][i], f)
    <2>1. link[t][i].kind = "DATA" => link[t][i].data \in 0 .. pkt_no[t] - 1
      BY <1>3 DEF DataOnLink, GoodData
    <2>2. ASSUME link[t][i].kind = "DATA", f.kind = "DATA"
          PROVE  link[t][i].data < f.data + NR_BUFS
      <3>. DEFINE d == link[t][i].data
      <3>1. d \in Nat /\ d < pkt_no[t]
        BY <1>4, <2>1, <2>2
      <3>2. k \in Nat /\ Acked(t) <= k
        BY <1>4, <2>2
      <3>3. d < Acked(t) + NR_BUFS
        BY <1>4, <3>1, NrBufs
      <3>. HIDE DEF d, k
      <3>4. d < k + NR_BUFS
        BY <1>4, <3>1, <3>2, <3>3, NrBufs
      <3>. QED  BY <3>4 DEF d, k
    <2>. QED  BY <2>2 DEF OrderedData
  <1>8. f.kind = "DATA" => f.data \in Nat /\ S1 <= f.data + NR_BUFS
    <2>. SUFFICES ASSUME f.kind = "DATA"
                  PROVE  k \in Nat /\ S1 <= k + NR_BUFS
      OBVIOUS
    <2>1. k \in Acked(t) .. S1 - 1
      OBVIOUS
    <2>2. NR_BUFS \in Nat /\ Acked(t) \in Nat
      BY <1>4, NrBufs
    <2>. HIDE DEF k, q
    <2>3. k \in Nat /\ Acked(t) <= k
      BY <2>1, <2>2
    <2>. QED  BY <2>2, <2>3
  <1>9. /\ DataOnLink(Pushed(link[t], f), S1, rpackets[q], frame_expected[q])
        /\ Buffered(have_arrived[q], to_network_buffer[q], Pushed(link[t], f),
                    S1, rpackets[q], frame_expected[q])
    BY <1>4, <1>5, <1>6, <1>7, <1>8, DataPush, BufferedPush
  <1>10. frame_expected[t] \in SeqNr /\ NakTarget(f.ack) = frame_expected[t]
    <2>1. frame_expected[t] \in SeqNr
      BY DEF Inv, TypeOK
    <2>. QED  BY <2>1, NakTargetOfAckField
  <1>11. Acked(q) + Asked(f, ack_expected[q]) = rpackets[t]
    <2>1. /\ ack_expected[q] \in SeqNr
          /\ frame_expected[t] = Advance(ack_expected[q], rpackets[t] - Acked(q))
          /\ rpackets[t] - Acked(q) \in 0 .. MAX_SEQ
          /\ Acked(q) \in Nat
          /\ rpackets[t] \in Nat
      <3>1. /\ ack_expected[q] \in SeqNr
            /\ frame_expected[t] = Advance(ack_expected[q], rpackets[t] - Acked(q))
            /\ rpackets[t] \in Nat
            /\ Acked(q) \in Nat
            /\ Acked(q) <= rpackets[t]
            /\ rpackets[t] <= pkt_no[q]
            /\ pkt_no[q] = Acked(q) + now_postion[q]
            /\ now_postion[q] \in 0 .. NR_BUFS
        BY <1>1, DirectionFacts
      <3>2. rpackets[t] - Acked(q) \in 0 .. MAX_SEQ
        BY <3>1, NrBufs
      <3>. QED  BY <3>1, <3>2
    <2>2. Asked(f, ack_expected[q]) = rpackets[t] - Acked(q)
      BY <1>10, <2>1, OffsetOfAdvance DEF Asked
    <2>. QED  BY <2>1, <2>2
  <1>12. AcksOnLink(Pushed(link[t], f), ack_expected[q], Acked(q), rpackets[t])
    <2>1. /\ Acked(q) \in Nat
          /\ rpackets[t] \in Nat
          /\ ack_expected[q] \in SeqNr
      BY <1>1, DirectionFacts
    <2>2. Asked(f, ack_expected[q]) \in Int
      BY <1>10, <2>1, OffsetOfAdvance DEF Asked
    <2>3. ASSUME NEW i \in DOMAIN link[t]
          PROVE  Asked(link[t][i], ack_expected[q]) <= Asked(f, ack_expected[q])
      <3>1. Acked(q) + Asked(link[t][i], ack_expected[q]) <= rpackets[t]
        BY <1>3 DEF AcksOnLink
      <3>2. Asked(link[t][i], ack_expected[q]) \in Int
        <4>1. NakTarget(link[t][i].ack) \in SeqNr
          BY <1>4, FrameFields
        <4>. QED  BY <2>1, <4>1, OffsetOfAdvance DEF Asked
      <3>. QED  BY <1>11, <2>1, <2>2, <3>1, <3>2
    <2>4. Acked(q) + Asked(f, ack_expected[q]) <= rpackets[t]
      BY <1>11, <2>1
    <2>. QED  BY <1>3, <1>4, <2>3, <2>4, AcksPush
  <1>13. NaksOnLink(Pushed(link[t], f), frame_expected[t], none1)
    <2>1. no_nak[t] \in BOOLEAN
      BY DEF Inv, TypeOK
    <2>. QED  BY <1>3, <1>4, <1>10, <2>1, NaksPush
  <1>. QED  BY <1>9, <1>12, <1>13

(* A frame that leaves the link towards t, and what it says to t.          *)
LEMMA TakeKeepsInFlight ==
  ASSUME Inv, NEW t \in Station, link[Peer(t)] # <<>>
  PROVE  LET q == Peer(t)
             L == Tail(link[q])
             h == Head(link[q])
         IN  /\ DataOnLink(L, pkt_no[q], rpackets[t], frame_expected[t])
             /\ Buffered(have_arrived[t], to_network_buffer[t], L,
                         pkt_no[q], rpackets[t], frame_expected[t])
             /\ AcksOnLink(L, ack_expected[t], Acked(t), rpackets[q])
             /\ NaksOnLink(L, frame_expected[q], no_nak[q])
             /\ GoodData(h, pkt_no[q], rpackets[t], frame_expected[t])
             /\ \A i \in DOMAIN L : OrderedData(h, L[i])
             /\ Acked(t) + Asked(h, ack_expected[t]) <= rpackets[q]
             /\ \A i \in DOMAIN L :
                  Asked(h, ack_expected[t]) <= Asked(L[i], ack_expected[t])
  <1>. DEFINE q == Peer(t)
  <1>1. q \in Station /\ Peer(q) = t
    BY PeerFacts
  <1>2. InFlight(t) /\ InFlight(q)
    BY <1>1 DEF Inv
  <1>3. /\ DataOnLink(link[q], pkt_no[q], rpackets[t], frame_expected[t])
        /\ Buffered(have_arrived[t], to_network_buffer[t], link[q],
                    pkt_no[q], rpackets[t], frame_expected[t])
        /\ AcksOnLink(link[q], ack_expected[t], Acked(t), rpackets[q])
        /\ NaksOnLink(link[q], frame_expected[q], no_nak[q])
    BY <1>1, <1>2 DEF InFlight
  <1>4. link[q] \in Seq(Frame)
    BY <1>1 DEF Inv, TypeOK
  <1>. QED  BY <1>3, <1>4, DataTail, BufferedTail, AcksTail, NaksTail

(* A round of the acknowledgement loop for each frame the peer received,   *)
(* and no more.                                                            *)
LEMMA AckRoundsExact ==
  ASSUME Inv, NEW t \in Station, NEW ack \in SeqNr, NEW m \in 0 .. MAX_SEQ,
         Offset(ack_expected[t], NakTarget(ack)) <= now_postion[t],
         AckRounds(t, ack, m)
  PROVE  m = Offset(ack_expected[t], NakTarget(ack)) /\ m \in 0 .. now_postion[t]
  <1>. DEFINE ae == ack_expected[t]
              d  == Offset(ae, NakTarget(ack))
  <1>1. /\ ae \in SeqNr
        /\ now_postion[t] \in 0 .. NR_BUFS
        /\ next_frame_to_send[t] = Advance(ae, now_postion[t])
    BY DirectionFacts
  <1>2. /\ d \in 0 .. NR_BUFS
        /\ d <= now_postion[t]
        /\ \A j \in 0 .. d - 1 : InMiddle(Advance(ae, j), ack, next_frame_to_send[t])
        /\ ~InMiddle(Advance(ae, d), ack, next_frame_to_send[t])
    BY <1>1, AcknowledgedOffsets
  <1>3. /\ \A j \in 0 .. m - 1 : InMiddle(Advance(ae, j), ack, next_frame_to_send[t])
        /\ ~InMiddle(Advance(ae, m), ack, next_frame_to_send[t])
    BY DEF AckRounds
  <1>. HIDE DEF ae, d
  <1>4. d \in Nat /\ m \in Nat
    BY <1>2, NrBufs
  <1>5. ~(m < d) /\ ~(d < m)
    BY <1>2, <1>3, <1>4
  <1>6. m = d
    BY <1>4, <1>5
  <1>7. m \in 0 .. now_postion[t]
    BY <1>1, <1>2, <1>4, <1>6
  <1>. QED  BY <1>6, <1>7 DEF d, ae

(* The loop keeps the window, its timers and its buffers in step.          *)
LEMMA AcknowledgeKeepsWindow ==
  ASSUME Inv, NEW t \in Station, NEW m \in 0 .. now_postion[t],
         Acknowledge(t, m, timer[t])
  PROVE  /\ \A s \in Station :
              /\ now_postion'[s] \in 0 .. NR_BUFS
              /\ next_frame_to_send'[s] = Advance(ack_expected'[s], now_postion'[s])
         /\ TimersGuardOutstanding'
         /\ RetransmitBuffered'
         /\ pkt_no' = pkt_no
         /\ ack_expected'[t] = Advance(ack_expected[t], m)
         /\ Acked(t)' = Acked(t) + m
         /\ now_postion'[t] = now_postion[t] - m
         /\ ack_expected'[Peer(t)] = ack_expected[Peer(t)]
         /\ now_postion'[Peer(t)] = now_postion[Peer(t)]
  <1>. DEFINE ae == ack_expected[t]
              c  == now_postion[t]
  <1>1. /\ ae \in SeqNr
        /\ c \in 0 .. NR_BUFS
        /\ next_frame_to_send[t] = Advance(ae, c)
        /\ pkt_no[t] \in Nat
    BY DirectionFacts
  <1>2. /\ ack_expected \in [Station -> SeqNr]
        /\ now_postion \in [Station -> 0 .. UCHAR - 1]
        /\ timer \in [Station -> SUBSET Slot]
    BY DEF Inv, TypeOK
  <1>3. (c - m) % UCHAR = c - m
    <2>1. c - m \in 0 .. 255
      BY <1>1, NrBufs
    <2>. QED  BY <2>1 DEF UCHAR
  <1>4. /\ ack_expected' = [ack_expected EXCEPT ![t] = Advance(ae, m)]
        /\ now_postion' = [now_postion EXCEPT ![t] = c - m]
        /\ timer' = [timer EXCEPT ![t] = timer[t] \ Stopped(t, m)]
        /\ UNCHANGED <<next_frame_to_send, to_phy_buffer, pkt_no>>
    BY <1>3 DEF Acknowledge, sourceVars
  <1>5. /\ ack_expected'[t] = Advance(ae, m)
        /\ now_postion'[t] = c - m
        /\ timer'[t] = timer[t] \ Stopped(t, m)
        /\ \A s \in Station \ {t} : /\ ack_expected'[s] = ack_expected[s]
                                    /\ now_postion'[s] = now_postion[s]
                                    /\ timer'[s] = timer[s]
    BY <1>2, <1>4
  <1>. HIDE DEF ae, c
  <1>6. \A j \in 0 .. (c - m) : Advance(Advance(ae, m), j) = Advance(ae, m + j)
    <2>. TAKE j \in 0 .. (c - m)
    <2>1. /\ m \in 0 .. MAX_SEQ + 1
          /\ j \in 0 .. MAX_SEQ + 1
          /\ m + j <= MAX_SEQ + 1
      BY <1>1, NrBufs DEF c
    <2>. QED  BY <1>1, <2>1, AdvanceSteps
  <1>7. ASSUME NEW s \in Station
        PROVE  /\ now_postion'[s] \in 0 .. NR_BUFS
               /\ next_frame_to_send'[s] = Advance(ack_expected'[s], now_postion'[s])
    <2>1. CASE s = t
      <3>1. c - m \in 0 .. NR_BUFS /\ c - m \in 0 .. (c - m) /\ m + (c - m) = c
        BY <1>1, NrBufs DEF c
      <3>2. Advance(Advance(ae, m), c - m) = Advance(ae, c)
        BY <1>6, <3>1
      <3>. QED  BY <1>1, <1>4, <1>5, <2>1, <3>1, <3>2
    <2>2. CASE s # t
      BY <1>4, <1>5, <2>2, DirectionFacts
    <2>. QED  BY <2>1, <2>2
  <1>8. TimersGuardOutstanding'
    <2>. SUFFICES ASSUME NEW s \in Station
                  PROVE  timer'[s] = {SlotOf(Advance(ack_expected'[s], j)) :
                                        j \in 0 .. now_postion'[s] - 1}
      BY DEF TimersGuardOutstanding, Outstanding
    <2>1. timer[s] = {SlotOf(Advance(ack_expected[s], j)) :
                        j \in 0 .. now_postion[s] - 1}
      BY DEF Inv, TimersGuardOutstanding, Outstanding
    <2>2. CASE s # t
      BY <1>5, <2>1, <2>2
    <2>3. CASE s = t
      <3>. DEFINE slot(j) == SlotOf(Advance(ae, j))
      <3>1. timer[t] = {slot(j) : j \in 0 .. c - 1}
        BY <2>1, <2>3 DEF ae, c
      <3>2. Stopped(t, m) = {slot(j) : j \in 0 .. m - 1}
        BY DEF Stopped, ae
      <3>3. \A i, j \in 0 .. c - 1 : slot(i) = slot(j) => i = j
        <4>. TAKE i, j \in 0 .. c - 1
        <4>1. i \in 0 .. NR_BUFS - 1 /\ j \in 0 .. NR_BUFS - 1
          BY <1>1, NrBufs
        <4>. QED  BY <1>1, <4>1, SlotsOfWindow
      <3>4. \A j \in 0 .. (c - m) - 1 :
              /\ SlotOf(Advance(Advance(ae, m), j)) = slot(m + j)
              /\ m + j \in 0 .. c - 1
              /\ m + j \notin 0 .. m - 1
        BY <1>1, <1>6, NrBufs DEF c
      <3>5. \A j \in 0 .. c - 1 :
              j \in 0 .. m - 1 \/ (j - m \in 0 .. (c - m) - 1 /\ m + (j - m) = j)
        BY <1>1, NrBufs DEF c
      <3>6. 0 .. m - 1 \subseteq 0 .. c - 1
        BY <1>1, NrBufs DEF c
      <3>. HIDE DEF slot
      <3>7. {slot(j) : j \in 0 .. c - 1} \ {slot(j) : j \in 0 .. m - 1}
              = {SlotOf(Advance(Advance(ae, m), j)) : j \in 0 .. (c - m) - 1}
        BY <3>3, <3>4, <3>5, <3>6
      <3>. QED  BY <1>5, <2>3, <3>1, <3>2, <3>7
    <2>. QED  BY <2>2, <2>3
  <1>9. RetransmitBuffered'
    <2>. SUFFICES ASSUME NEW s \in Station, NEW j \in 0 .. now_postion'[s] - 1
                  PROVE  to_phy_buffer'[s][SlotOf(Advance(ack_expected'[s], j))]
                           = pkt_no'[s] - now_postion'[s] + j
      BY DEF RetransmitBuffered, Outstanding, OutstandingPacket
    <2>1. \A i \in 0 .. now_postion[s] - 1 :
            to_phy_buffer[s][SlotOf(Advance(ack_expected[s], i))]
              = pkt_no[s] - now_postion[s] + i
      BY DEF Inv, RetransmitBuffered, Outstanding, OutstandingPacket
    <2>2. CASE s # t
      BY <1>4, <1>5, <2>1, <2>2
    <2>3. CASE s = t
      <3>1. /\ m + j \in 0 .. c - 1
            /\ j \in 0 .. (c - m)
            /\ pkt_no[t] - c + (m + j) = pkt_no[t] - (c - m) + j
        BY <1>1, <1>5, <2>3, NrBufs DEF c
      <3>2. Advance(Advance(ae, m), j) = Advance(ae, m + j)
        BY <1>6, <3>1
      <3>. QED  BY <1>4, <1>5, <2>1, <2>3, <3>1, <3>2 DEF ae, c
    <2>. QED  BY <2>2, <2>3
  <1>10. Acked(t)' = Acked(t) + m
    <2>1. pkt_no[t] - (c - m) + 0 = pkt_no[t] - c + 0 + m
      BY <1>1, NrBufs DEF c
    <2>. QED  BY <1>4, <1>5, <2>1 DEF Acked, OutstandingPacket, c
  <1>. QED  BY <1>4, <1>5, <1>7, <1>8, <1>9, <1>10, PeerFacts DEF ae, c

(* What a frame from the peer does to the send window of t.                *)
LEMMA AcknowledgementArrives ==
  ASSUME Inv, NEW t \in Station, link[Peer(t)] # <<>>, NEW m \in 0 .. MAX_SEQ,
         AckRounds(t, Head(link[Peer(t)]).ack, m), Acknowledge(t, m, timer[t])
  PROVE  LET q == Peer(t)
         IN  /\ m \in 0 .. now_postion[t]
             /\ AcksOnLink(Tail(link[q]), ack_expected'[t], Acked(t)', rpackets[q])
             /\ now_postion'[t] <= pkt_no'[t]
             /\ Acked(t)' <= rpackets[q]
             /\ frame_expected[q] =
                  Advance(ack_expected'[t], rpackets[q] - Acked(t)')
  <1>. DEFINE q   == Peer(t)
              h   == Head(link[q])
              L   == Tail(link[q])
              ae  == ack_expected[t]
              R   == rpackets[q]
              acked == Acked(t)
  <1>1. /\ AcksOnLink(L, ae, acked, R)
        /\ acked + Asked(h, ae) <= R
        /\ \A i \in DOMAIN L : Asked(h, ae) <= Asked(L[i], ae)
    BY TakeKeepsInFlight
  <1>2. /\ ae \in SeqNr
        /\ acked \in Nat
        /\ R \in Nat
        /\ R <= pkt_no[t]
        /\ pkt_no[t] \in Nat
        /\ pkt_no[t] = acked + now_postion[t]
        /\ now_postion[t] \in 0 .. NR_BUFS
        /\ frame_expected[q] = Advance(ae, R - acked)
        /\ link[q] \in Seq(Frame)
    BY DirectionFacts
  <1>3. L \in Seq(Frame) /\ 1 \in DOMAIN link[q] /\ h = link[q][1]
    BY <1>2, TailFacts
  <1>4. h.ack \in SeqNr /\ NakTarget(h.ack) \in SeqNr
    BY <1>2, <1>3, FrameFields
  <1>5. Asked(h, ae) = Offset(ae, NakTarget(h.ack)) /\ Asked(h, ae) \in 0 .. MAX_SEQ
    BY <1>2, <1>4, OffsetOfAdvance DEF Asked
  <1>6. Asked(h, ae) <= now_postion[t]
    BY <1>1, <1>2, <1>5, NrBufs
  <1>7. m = Asked(h, ae) /\ m \in 0 .. now_postion[t]
    BY <1>4, <1>5, <1>6, AckRoundsExact
  <1>8. /\ ack_expected'[t] = Advance(ae, m)
        /\ Acked(t)' = acked + m
        /\ now_postion'[t] = now_postion[t] - m
        /\ pkt_no' = pkt_no
    BY <1>7, AcknowledgeKeepsWindow
  <1>9. AcksOnLink(L, Advance(ae, m), acked + m, R)
    BY <1>1, <1>2, <1>3, <1>7, AcksMoreAcked
  <1>10. m \in Nat /\ acked + m <= R /\ now_postion[t] - m <= pkt_no[t]
    BY <1>1, <1>2, <1>7, NrBufs
  <1>11. frame_expected[q] = Advance(Advance(ae, m), R - (acked + m))
    <2>1. /\ m \in 0 .. MAX_SEQ + 1
          /\ R - (acked + m) \in 0 .. MAX_SEQ + 1
          /\ m + (R - (acked + m)) = R - acked
          /\ R - acked <= MAX_SEQ + 1
      <3>. HIDE DEF R, acked, q
      <3>1. R <= acked + NR_BUFS
        <4>1. /\ acked \in Nat /\ R \in Nat /\ R <= acked + now_postion[t]
              /\ now_postion[t] \in Nat /\ now_postion[t] <= NR_BUFS
          BY <1>2, NrBufs
        <4>. QED  BY <4>1, NrBufs
      <3>2. /\ R \in Nat /\ acked \in Nat /\ m \in Nat /\ acked + m <= R
            /\ NR_BUFS \in Nat /\ MAX_SEQ \in Nat /\ NR_BUFS <= MAX_SEQ
        BY <1>2, <1>10, NrBufs
      <3>. QED  BY <3>1, <3>2
    <2>. QED  BY <1>2, <2>1, AdvanceSteps
  <1>. QED  BY <1>7, <1>8, <1>9, <1>10, <1>11

(* After a delivery no NAK on the link asks for the new frame_expected.    *)
LEMMA NaksAfterDelivery ==
  ASSUME NEW q \in Seq(Frame), NEW ae \in SeqNr, NEW acked \in Nat,
         NEW R \in Nat, acked <= R, NEW n \in Nat \ {0},
         R + n <= acked + NR_BUFS, NEW fe, fe = Advance(ae, R - acked),
         AcksOnLink(q, ae, acked, R), NEW none, NaksOnLink(q, fe, none)
  PROVE  NaksOnLink(q, Advance(fe, n), TRUE)
  <1>1. /\ R - acked \in 0 .. MAX_SEQ + 1
        /\ n \in 0 .. MAX_SEQ + 1
        /\ (R - acked) + n \in 0 .. MAX_SEQ
        /\ (R - acked) + n <= MAX_SEQ + 1
    BY NrBufs
  <1>2. Advance(fe, n) = Advance(ae, (R - acked) + n)
    BY <1>1, AdvanceSteps
  <1>3. Offset(ae, Advance(fe, n)) = (R - acked) + n
    BY <1>1, <1>2, OffsetOfAdvance
  <1>4. ASSUME NEW i \in DOMAIN q, NakTarget(q[i].ack) = Advance(fe, n)
        PROVE  FALSE
    <2>1. acked + Asked(q[i], ae) <= R
      BY DEF AcksOnLink
    <2>2. Asked(q[i], ae) = (R - acked) + n
      BY <1>3, <1>4 DEF Asked
    <2>. QED  BY <2>1, <2>2
  <1>. QED  BY <1>4 DEF NaksOnLink

(* The buffers hold the n packets that follow R, the one fe stands for.    *)
HoldsNext(buffer, fe, R, n) ==
  \A j \in 0 .. n - 1 : buffer[SlotOf(Advance(fe, j))] = R + j

(* What a DATA frame from the peer does to the receive window of t: it is  *)
(* kept if it is in the window and new, and then n packets in a row are    *)
(* delivered, all of them the ones the network layer expects.              *)
LEMMA DataArrives ==
  ASSUME Inv, NEW t \in Station, link[Peer(t)] # <<>>,
         Head(link[Peer(t)]).kind = "DATA",
         NEW arrived,
         arrived = IF New(t, Head(link[Peer(t)]).seq)
                     THEN have_arrived[t] \cup {SlotOf(Head(link[Peer(t)]).seq)}
                     ELSE have_arrived[t],
         NEW buffer,
         buffer = IF New(t, Head(link[Peer(t)]).seq)
                    THEN [to_network_buffer[t] EXCEPT
                            ![SlotOf(Head(link[Peer(t)]).seq)] = Head(link[Peer(t)]).data]
                    ELSE to_network_buffer[t],
         NEW n \in 0 .. NR_BUFS,
         IF New(t, Head(link[Peer(t)]).seq)
           THEN DeliverRounds(arrived, frame_expected[t], n) ELSE n = 0
  PROVE  LET L  == Tail(link[Peer(t)])
             S  == pkt_no[Peer(t)]
             R  == rpackets[t]
             fe == frame_expected[t]
         IN  /\ R + n <= S
             /\ HoldsNext(buffer, fe, R, n)
             /\ DataOnLink(L, S, R + n, Advance(fe, n))
             /\ Buffered(arrived \ {SlotOf(Advance(fe, j)) : j \in 0 .. n - 1},
                         buffer, L, S, R + n, Advance(fe, n))
  <1>. DEFINE q  == Peer(t)
              h  == Head(link[q])
              L  == Tail(link[q])
              S  == pkt_no[q]
              R  == rpackets[t]
              fe == frame_expected[t]
              new == New(t, h.seq)
              slot(o) == SlotOf(Advance(fe, o))
  <1>0. q \in Station /\ Peer(q) = t
    BY PeerFacts
  <1>1. /\ DataOnLink(L, S, R, fe)
        /\ Buffered(have_arrived[t], to_network_buffer[t], L, S, R, fe)
        /\ GoodData(h, S, R, fe)
        /\ \A i \in DOMAIN L : OrderedData(h, L[i])
    BY TakeKeepsInFlight
  <1>2. /\ S \in Nat
        /\ R \in Nat
        /\ R <= S
        /\ S <= R + NR_BUFS
        /\ fe \in SeqNr
        /\ too_far[t] = Advance(fe, NR_BUFS)
        /\ link[q] \in Seq(Frame)
    <2>1. /\ S \in Nat
          /\ R \in Nat
          /\ R <= S
          /\ fe \in SeqNr
          /\ too_far[t] = Advance(fe, NR_BUFS)
          /\ link[q] \in Seq(Frame)
          /\ S = Acked(q) + now_postion[q]
          /\ Acked(q) \in Nat
          /\ now_postion[q] \in 0 .. NR_BUFS
          /\ Acked(q) <= R
      BY <1>0, DirectionFacts
    <2>. QED  BY <2>1, NrBufs
  <1>3. L \in Seq(Frame) /\ 1 \in DOMAIN link[q] /\ h = link[q][1]
    BY <1>2, TailFacts
  <1>4. h.seq \in SeqNr
    BY <1>2, <1>3, FrameFields
  <1>5. /\ h.data \in 0 .. S - 1
        /\ R <= h.data + NR_BUFS
        /\ h.data >= R => h.seq = Advance(fe, h.data - R)
        /\ h.data < R  => fe = Advance(h.seq, R - h.data)
    BY <1>1 DEF GoodData
  <1>6. /\ have_arrived[t] \in SUBSET Slot
        /\ to_network_buffer[t] \in [Slot -> Packet]
        /\ SlotOf(h.seq) \in Slot
    BY <1>4, SlotOfType DEF Inv, TypeOK
  <1>a. /\ arrived = IF new THEN have_arrived[t] \cup {SlotOf(h.seq)}
                            ELSE have_arrived[t]
        /\ buffer = IF new
                     THEN [to_network_buffer[t] EXCEPT ![SlotOf(h.seq)] = h.data]
                     ELSE to_network_buffer[t]
        /\ IF new THEN DeliverRounds(arrived, fe, n) ELSE n = 0
    OBVIOUS
  <1>. HIDE DEF S, R, fe, L, h, q, new
  <1>7. ASSUME new
        PROVE  \E o \in 0 .. NR_BUFS - 1 : h.seq = Advance(fe, o) /\ h.data = R + o
    <2>1. InMiddle(fe, h.seq, Advance(fe, NR_BUFS))
      BY <1>2, <1>7 DEF New, new, fe
    <2>2. NR_BUFS \in 0 .. MAX_SEQ
      BY NrBufs
    <2>3. Offset(fe, h.seq) < NR_BUFS
      BY <1>2, <1>4, <2>1, <2>2, InMiddleIsOrder
    <2>4. ~(h.data < R)
      <3>. SUFFICES ASSUME h.data < R
                    PROVE  FALSE
        OBVIOUS
      <3>1. R - h.data \in 1 .. MAX_SEQ /\ R - h.data <= NR_BUFS
        BY <1>2, <1>5, NrBufs
      <3>2. Offset(fe, h.seq) = MAX_SEQ + 1 - (R - h.data)
        BY <1>4, <1>5, <3>1, OffsetBehind
      <3>. QED  BY <2>3, <3>1, <3>2, NrBufs
    <2>5. h.data - R \in 0 .. MAX_SEQ /\ h.data >= R
      BY <1>2, <1>5, <2>4, NrBufs
    <2>6. Offset(fe, h.seq) = h.data - R
      BY <1>2, <1>5, <2>5, OffsetOfAdvance
    <2>7. h.data - R \in 0 .. NR_BUFS - 1 /\ h.data = R + (h.data - R)
      <3>1. h.data - R < NR_BUFS
        BY <2>3, <2>6
      <3>2. h.data \in Int /\ R \in Int /\ h.data >= R
        BY <1>2, <1>5, <2>5
      <3>. QED  BY <3>1, <3>2, NrBufs
    <2>. QED  BY <1>5, <2>5, <2>7
  <1>8. ASSUME NEW o \in 0 .. NR_BUFS - 1, slot(o) \in arrived
        PROVE  /\ buffer[slot(o)] = R + o
               /\ R + o < S
               /\ \A i \in DOMAIN L : L[i].kind = "DATA" => R + o < L[i].data + NR_BUFS
    <2>1. CASE slot(o) \in have_arrived[t] /\ (new => slot(o) # SlotOf(h.seq))
      <3>1. buffer[slot(o)] = to_network_buffer[t][slot(o)]
        BY <1>a, <1>6, <2>1
      <3>. QED  BY <1>1, <2>1, <3>1 DEF Buffered
    <2>2. CASE new /\ slot(o) = SlotOf(h.seq)
      <3>1. PICK o1 \in 0 .. NR_BUFS - 1 : h.seq = Advance(fe, o1) /\ h.data = R + o1
        BY <1>7, <2>2
      <3>2. o = o1
        BY <1>2, <2>2, <3>1, SlotsOfWindow
      <3>3. buffer[slot(o)] = h.data
        BY <1>a, <1>6, <2>2
      <3>4. R + o = h.data
        BY <3>1, <3>2
      <3>5. h.kind = "DATA"
        BY DEF h, q
      <3>6. \A i \in DOMAIN L : L[i].kind = "DATA" => h.data < L[i].data + NR_BUFS
        BY <1>1, <3>5 DEF OrderedData
      <3>7. h.data < S
        BY <1>2, <1>5
      <3>. QED  BY <3>3, <3>4, <3>6, <3>7
    <2>. QED  BY <1>a, <1>8, <2>1, <2>2
  <1>9. \A j \in 0 .. n - 1 : slot(j) \in arrived /\ j \in 0 .. NR_BUFS - 1
    <2>1. new => \A j \in 0 .. n - 1 : slot(j) \in arrived
      BY <1>a DEF DeliverRounds
    <2>2. ~new => n = 0
      BY <1>a
    <2>. QED  BY <2>1, <2>2, NrBufs
  <1>10. HoldsNext(buffer, fe, R, n)
    BY <1>8, <1>9 DEF HoldsNext
  <1>11. /\ R + n <= S
         /\ \A i \in DOMAIN L : L[i].kind = "DATA" => R + n <= L[i].data + NR_BUFS
    <2>1. CASE n = 0
      <3>1. \A i \in DOMAIN L : L[i].kind = "DATA" => R <= L[i].data + NR_BUFS
        BY <1>1 DEF DataOnLink, GoodData
      <3>2. R + n = R
        BY <1>2, <2>1
      <3>. QED  BY <1>2, <3>1, <3>2
    <2>2. CASE n # 0
      <3>1. n - 1 \in 0 .. n - 1 /\ n \in Nat
        BY <2>2, NrBufs
      <3>2. /\ R + (n - 1) < S
            /\ \A i \in DOMAIN L :
                 L[i].kind = "DATA" => R + (n - 1) < L[i].data + NR_BUFS
        BY <1>8, <1>9, <3>1
      <3>3. \A i \in DOMAIN L : L[i].kind = "DATA" => L[i].data \in Int
        BY <1>1 DEF DataOnLink, GoodData
      <3>. QED  BY <1>2, <3>1, <3>2, <3>3, NrBufs
    <2>. QED  BY <2>1, <2>2
  <1>12. DataOnLink(L, S, R + n, Advance(fe, n))
    BY <1>1, <1>2, <1>3, <1>11, DataMoreReceived
  <1>13. Buffered(arrived \ {slot(j) : j \in 0 .. n - 1}, buffer, L, S, R + n, Advance(fe, n))
    <2>1. CASE new
      <3>1. arrived \in SUBSET Slot
        BY <1>a, <1>6, <2>1
      <3>2. DeliverRounds(arrived, fe, n)
        BY <1>a, <2>1
      <3>. QED  BY <1>2, <1>8, <1>3, <3>1, <3>2, BufferedAfterDelivery
    <2>2. CASE ~new
      <3>1. /\ n = 0
            /\ arrived = have_arrived[t]
            /\ buffer = to_network_buffer[t]
        BY <1>a, <2>2
      <3>2. {slot(j) : j \in 0 .. n - 1} = {}
        BY <3>1
      <3>3. R + n = R /\ Advance(fe, n) = fe
        BY <1>2, <3>1, AdvanceSteps
      <3>4. arrived \ {slot(j) : j \in 0 .. n - 1} = have_arrived[t]
        BY <3>1, <3>2
      <3>. QED  BY <1>1, <3>1, <3>3, <3>4
    <2>. QED  BY <2>1, <2>2
  <1>. QED  BY <1>10, <1>11, <1>12, <1>13 DEF S, R, fe, L, q

-----------------------------------------------------------------------------
(* The steps. *)

LEMMA GateKept ==
  ASSUME Inv, NEW t \in Station, GateNetworkLayer(t),
         \/ PhysicalBusy(t)
         \/ PhysicalUntouched
         \/ /\ phl_ready' = [phl_ready EXCEPT ![t] = TRUE]
            /\ inform_phl_ready' = [inform_phl_ready EXCEPT ![t] = FALSE],
         \A s \in Station : now_postion'[s] \in 0 .. NR_BUFS,
         now_postion'[Peer(t)] = now_postion[Peer(t)]
  PROVE  \A s \in Station : /\ Gate(s)'
                            /\ network_layer_active'[s] => now_postion'[s] < NR_BUFS
  <1>. TAKE s \in Station
  <1>1. /\ phl_ready \in [Station -> BOOLEAN]
        /\ inform_phl_ready \in [Station -> BOOLEAN]
        /\ network_layer_active \in [Station -> BOOLEAN]
        /\ Gate(s)
        /\ network_layer_active[s] => now_postion[s] < NR_BUFS
    BY DEF Inv, TypeOK, WindowOK
  <1>2. CASE s = t
    <2>1. network_layer_active'[t] = (now_postion'[t] < NR_BUFS /\ phl_ready'[t])
      BY <1>1 DEF GateNetworkLayer, HasRoom
    <2>2. phl_ready'[t] \/ inform_phl_ready'[t]
      BY <1>1, <1>2 DEF Gate, PhysicalBusy, PhysicalUntouched
    <2>3. now_postion'[t] < NR_BUFS \/ now_postion'[t] = NR_BUFS
      BY NrBufs
    <2>. QED  BY <1>2, <2>1, <2>2, <2>3 DEF Gate
  <1>3. CASE s # t
    <2>1. /\ phl_ready'[s] = phl_ready[s]
          /\ inform_phl_ready'[s] = inform_phl_ready[s]
          /\ network_layer_active'[s] = network_layer_active[s]
      BY <1>1, <1>3 DEF GateNetworkLayer, PhysicalBusy, PhysicalUntouched
    <2>2. now_postion'[s] = now_postion[s]
      BY <1>3, PeerFacts
    <2>. QED  BY <1>1, <2>1, <2>2 DEF Gate
  <1>. QED  BY <1>2, <1>3

(* The events that move no window: a timeout, a report of the physical     *)
(* layer, a damaged or lost frame.  The link towards t may lose a frame,   *)
(* and t may send one.                                                     *)
LEMMA QuietKeepsInv ==
  ASSUME Inv, TypeOK', NEW t \in Station,
         UNCHANGED <<next_frame_to_send, ack_expected, now_postion,
                     to_phy_buffer, timer, pkt_no, rpackets, frame_expected,
                     too_far, have_arrived, to_network_buffer, aborted>>,
         \/ link'[Peer(t)] = link[Peer(t)]
         \/ link[Peer(t)] # <<>> /\ link'[Peer(t)] = Tail(link[Peer(t)]),
         no_nak'[Peer(t)] = no_nak[Peer(t)],
         \/ link'[t] = link[t] /\ no_nak'[t] = no_nak[t]
         \/ \E f \in Frame :
              /\ link'[t] = Pushed(link[t], f)
              /\ no_nak'[t] => no_nak[t]
              /\ f.ack = AckField(frame_expected[t])
              /\ f.kind = "NAK" => no_nak[t] /\ ~no_nak'[t]
              /\ f.kind = "DATA" =>
                   /\ f.data \in Acked(t) .. pkt_no[t] - 1
                   /\ f.seq = Advance(ack_expected[t], f.data - Acked(t)),
         \A s \in Station : /\ Gate(s)'
                            /\ network_layer_active'[s] => now_postion'[s] < NR_BUFS
  PROVE  Inv'
  <1>. DEFINE q == Peer(t)
  <1>1. /\ q \in Station
        /\ Peer(q) = t
        /\ \A s \in Station : s = t \/ s = q
    BY PeerFacts
  <1>2. /\ DataOnLink(link'[t], pkt_no[t], rpackets[q], frame_expected[q])
        /\ Buffered(have_arrived[q], to_network_buffer[q], link'[t],
                    pkt_no[t], rpackets[q], frame_expected[q])
        /\ AcksOnLink(link'[t], ack_expected[q], Acked(q), rpackets[t])
        /\ NaksOnLink(link'[t], frame_expected[t], no_nak'[t])
    <2>1. CASE link'[t] = link[t] /\ no_nak'[t] = no_nak[t]
      <3>1. InFlight(t) /\ InFlight(q)
        BY <1>1 DEF Inv
      <3>. QED  BY <1>1, <2>1, <3>1 DEF InFlight
    <2>2. CASE \E f \in Frame :
              /\ link'[t] = Pushed(link[t], f)
              /\ no_nak'[t] => no_nak[t]
              /\ f.ack = AckField(frame_expected[t])
              /\ f.kind = "NAK" => no_nak[t] /\ ~no_nak'[t]
              /\ f.kind = "DATA" =>
                   /\ f.data \in Acked(t) .. pkt_no[t] - 1
                   /\ f.seq = Advance(ack_expected[t], f.data - Acked(t))
      <3>1. PICK f \in Frame :
              /\ link'[t] = Pushed(link[t], f)
              /\ no_nak'[t] => no_nak[t]
              /\ f.ack = AckField(frame_expected[t])
              /\ f.kind = "NAK" => no_nak[t] /\ ~no_nak'[t]
              /\ f.kind = "DATA" =>
                   /\ f.data \in Acked(t) .. pkt_no[t] - 1
                   /\ f.seq = Advance(ack_expected[t], f.data - Acked(t))
        BY <2>2
      <3>2. no_nak'[t] \in BOOLEAN
        BY DEF TypeOK
      <3>3. pkt_no[t] \in Nat /\ pkt_no[t] <= Acked(t) + NR_BUFS
        <4>1. /\ pkt_no[t] \in Nat
              /\ Acked(t) \in Nat
              /\ pkt_no[t] = Acked(t) + now_postion[t]
              /\ now_postion[t] \in 0 .. NR_BUFS
          BY DirectionFacts
        <4>. QED  BY <4>1, NrBufs
      <3>4. pkt_no[t] <= pkt_no[t]
        BY <3>3
      <3>. QED  BY <3>1, <3>2, <3>3, <3>4, SendKeepsInFlight
    <2>. QED  BY <2>1, <2>2
  <1>3. /\ DataOnLink(link'[q], pkt_no[q], rpackets[t], frame_expected[t])
        /\ Buffered(have_arrived[t], to_network_buffer[t], link'[q],
                    pkt_no[q], rpackets[t], frame_expected[t])
        /\ AcksOnLink(link'[q], ack_expected[t], Acked(t), rpackets[q])
        /\ NaksOnLink(link'[q], frame_expected[q], no_nak'[q])
    <2>1. CASE link'[q] = link[q]
      <3>1. InFlight(t) /\ InFlight(q)
        BY <1>1 DEF Inv
      <3>. QED  BY <1>1, <2>1, <3>1 DEF InFlight
    <2>2. CASE link[q] # <<>> /\ link'[q] = Tail(link[q])
      BY <2>2, TakeKeepsInFlight
    <2>. QED  BY <2>1, <2>2
  <1>4. Acked(t)' = Acked(t) /\ Acked(q)' = Acked(q)
    BY DEF Acked, OutstandingPacket
  <1>5. InFlight(t)' /\ InFlight(q)'
    BY <1>1, <1>2, <1>3, <1>4 DEF InFlight
  <1>6. InStep(t)' /\ InStep(q)'
    <2>1. InStep(t) /\ InStep(q)
      BY <1>1 DEF Inv
    <2>. QED  BY <1>1, <1>4, <2>1 DEF InStep
  <1>7. /\ WindowOK'
        /\ TimersGuardOutstanding'
        /\ RetransmitBuffered'
        /\ NoBadPacket'
    BY DEF Inv, WindowOK, TimersGuardOutstanding, RetransmitBuffered,
           NoBadPacket, Outstanding, OutstandingPacket
  <1>. QED  BY <1>1, <1>5, <1>6, <1>7 DEF Inv

(* The numbers in the send window, by in_middle and by their offsets; each *)
(* has a running timer and its packet in its buffer.                       *)
LEMMA SendWindow ==
  ASSUME Inv, NEW t \in Station, NEW x \in SeqNr
  PROVE  /\ InMiddle(ack_expected[t], x, next_frame_to_send[t])
              => \E j \in 0 .. now_postion[t] - 1 : x = Advance(ack_expected[t], j)
         /\ \A j \in 0 .. now_postion[t] - 1 :
              x = Advance(ack_expected[t], j) =>
                /\ InMiddle(ack_expected[t], x, next_frame_to_send[t])
                /\ SlotOf(x) \in timer[t]
                /\ to_phy_buffer[t][SlotOf(x)] = Acked(t) + j
  <1>1. /\ ack_expected[t] \in SeqNr
        /\ now_postion[t] \in 0 .. NR_BUFS
        /\ now_postion[t] \in 0 .. MAX_SEQ
        /\ next_frame_to_send[t] = Advance(ack_expected[t], now_postion[t])
        /\ pkt_no[t] \in Nat
        /\ Acked(t) \in Nat
        /\ pkt_no[t] = Acked(t) + now_postion[t]
    <2>1. now_postion[t] \in 0 .. NR_BUFS
      BY DirectionFacts
    <2>2. now_postion[t] \in 0 .. MAX_SEQ
      BY <2>1, NrBufs
    <2>. QED  BY <2>1, <2>2, DirectionFacts
  <1>2. InMiddle(ack_expected[t], x, next_frame_to_send[t])
          <=> Offset(ack_expected[t], x) < now_postion[t]
    BY <1>1, InMiddleIsOrder
  <1>3. /\ Offset(ack_expected[t], x) \in 0 .. MAX_SEQ
        /\ Advance(ack_expected[t], Offset(ack_expected[t], x)) = x
    BY <1>1, OffsetOfAdvance
  <1>4. ASSUME InMiddle(ack_expected[t], x, next_frame_to_send[t])
        PROVE  \E j \in 0 .. now_postion[t] - 1 : x = Advance(ack_expected[t], j)
    <2>1. Offset(ack_expected[t], x) \in 0 .. now_postion[t] - 1
      BY <1>1, <1>2, <1>3, <1>4, NrBufs
    <2>. QED  BY <1>3, <2>1
  <1>5. ASSUME NEW j \in 0 .. now_postion[t] - 1, x = Advance(ack_expected[t], j)
        PROVE  /\ InMiddle(ack_expected[t], x, next_frame_to_send[t])
               /\ SlotOf(x) \in timer[t]
               /\ to_phy_buffer[t][SlotOf(x)] = Acked(t) + j
    <2>1. j \in 0 .. MAX_SEQ /\ j < now_postion[t]
      BY <1>1, NrBufs
    <2>2. Offset(ack_expected[t], x) = j
      BY <1>1, <1>5, <2>1, OffsetOfAdvance
    <2>3. InMiddle(ack_expected[t], x, next_frame_to_send[t])
      BY <1>2, <2>1, <2>2
    <2>4. SlotOf(x) \in timer[t]
      BY <1>5 DEF Inv, TimersGuardOutstanding, Outstanding
    <2>5. to_phy_buffer[t][SlotOf(x)] = pkt_no[t] - now_postion[t] + j
      BY <1>5 DEF Inv, RetransmitBuffered, Outstanding, OutstandingPacket
    <2>6. pkt_no[t] - now_postion[t] + j = Acked(t) + j
      BY <1>1
    <2>. QED  BY <2>3, <2>4, <2>5, <2>6
  <1>. QED  BY <1>4, <1>5

LEMMA NowUnchanged ==
  ASSUME Inv, NEW s \in Station
  PROVE  now_postion[s] \in 0 .. NR_BUFS
  BY DirectionFacts

LEMMA PhysicalLayerReadyKeepsInv ==
  ASSUME Inv, TypeOK', NEW t \in Station, PhysicalLayerReady(t)
  PROVE  Inv'
  <1>1. /\ UNCHANGED <<senderVars, receiverVars, sourceVars, no_nak, link>>
        /\ GateNetworkLayer(t)
        /\ phl_ready' = [phl_ready EXCEPT ![t] = TRUE]
        /\ inform_phl_ready' = [inform_phl_ready EXCEPT ![t] = FALSE]
    BY DEF PhysicalLayerReady
  <1>2. UNCHANGED <<next_frame_to_send, ack_expected, now_postion,
                    to_phy_buffer, timer, pkt_no, rpackets, frame_expected,
                    too_far, have_arrived, to_network_buffer, aborted>>
    BY <1>1 DEF senderVars, receiverVars, sourceVars
  <1>3. \A s \in Station : /\ Gate(s)'
                           /\ network_layer_active'[s] => now_postion'[s] < NR_BUFS
    BY <1>1, <1>2, NowUnchanged, GateKept
  <1>. QED  BY <1>1, <1>2, <1>3, QuietKeepsInv

LEMMA AckTimeoutKeepsInv ==
  ASSUME Inv, TypeOK', NEW t \in Station, AckTimeout(t)
  PROVE  Inv'
  <1>. DEFINE f == ControlFrame(t, "ACK")
  <1>1. /\ UNCHANGED <<senderVars, receiverVars, sourceVars, no_nak>>
        /\ GateNetworkLayer(t)
        /\ PhysicalBusy(t)
        /\ link' = [link EXCEPT ![t] = Pushed(@, f)]
    BY DEF AckTimeout
  <1>2. UNCHANGED <<next_frame_to_send, ack_expected, now_postion,
                    to_phy_buffer, timer, pkt_no, rpackets, frame_expected,
                    too_far, have_arrived, to_network_buffer, aborted>>
    BY <1>1 DEF senderVars, receiverVars, sourceVars
  <1>3. \A s \in Station : /\ Gate(s)'
                           /\ network_layer_active'[s] => now_postion'[s] < NR_BUFS
    BY <1>1, <1>2, NowUnchanged, GateKept
  <1>4. f \in Frame
    BY FrameTypes DEF Inv
  <1>5. f.kind = "ACK" /\ f.ack = AckField(frame_expected[t])
    BY DEF ControlFrame
  <1>6. link'[t] = Pushed(link[t], f) /\ link'[Peer(t)] = link[Peer(t)]
    BY <1>1, PeerFacts DEF Inv, TypeOK
  <1>. HIDE DEF f
  <1>. QED  BY <1>1, <1>2, <1>3, <1>4, <1>5, <1>6, QuietKeepsInv

LEMMA DataTimeoutKeepsInv ==
  ASSUME Inv, TypeOK', NEW t \in Station, NEW i \in Slot, DataTimeout(t, i)
  PROVE  Inv'
  <1>. DEFINE nr == IF InMiddle(ack_expected[t], i, next_frame_to_send[t])
                      THEN i ELSE i + NR_BUFS
              f  == DataFrame(t, nr, to_phy_buffer[t][SlotOf(nr)])
  <1>1. /\ UNCHANGED <<next_frame_to_send, ack_expected, now_postion,
                       receiverVars, sourceVars, no_nak>>
        /\ GateNetworkLayer(t)
        /\ PhysicalBusy(t)
        /\ i \in timer[t]
        /\ timer' = [timer EXCEPT ![t] = FiredAgain(t, i, nr)]
        /\ link' = [link EXCEPT ![t] = Pushed(@, f)]
    BY DEF DataTimeout
  <1>2. \E j \in 0 .. now_postion[t] - 1 :
          nr = Advance(ack_expected[t], j) /\ SlotOf(nr) = i
    <2>1. PICK j \in 0 .. now_postion[t] - 1 : i = SlotOf(Advance(ack_expected[t], j))
      BY <1>1 DEF Inv, TimersGuardOutstanding, Outstanding
    <2>. DEFINE x == Advance(ack_expected[t], j)
    <2>2. x \in SeqNr
      <3>1. now_postion[t] \in 0 .. NR_BUFS /\ ack_expected[t] \in SeqNr
        BY DirectionFacts
      <3>2. j \in 0 .. MAX_SEQ + 1
        BY <3>1, NrBufs
      <3>. QED  BY <3>1, <3>2, AdvanceSteps
    <2>3. InMiddle(ack_expected[t], x, next_frame_to_send[t])
      BY <2>2, SendWindow
    <2>4. x = i \/ x = i + NR_BUFS
      BY <2>1, <2>2, SlotOfSeqNr, NrBufs DEF SeqNr
    <2>5. CASE InMiddle(ack_expected[t], i, next_frame_to_send[t])
      <3>1. i \in SeqNr /\ SlotOf(i) = i
        <4>1. i \in SeqNr /\ i < NR_BUFS
          BY NrBufs DEF Slot, SeqNr
        <4>. QED  BY <4>1, SlotOfSeqNr
      <3>2. nr = i
        BY <2>5
      <3>. QED  BY <2>5, <3>1, <3>2, SendWindow
    <2>6. CASE ~InMiddle(ack_expected[t], i, next_frame_to_send[t])
      <3>1. nr = x
        BY <2>3, <2>4, <2>6
      <3>. QED  BY <2>1, <3>1
    <2>. QED  BY <2>5, <2>6
  <1>. HIDE DEF nr
  <1>3. PICK j \in 0 .. now_postion[t] - 1 :
          nr = Advance(ack_expected[t], j) /\ SlotOf(nr) = i
    BY <1>2
  <1>4. /\ pkt_no[t] = Acked(t) + now_postion[t]
        /\ Acked(t) \in Nat
        /\ now_postion[t] \in 0 .. NR_BUFS
        /\ ack_expected[t] \in SeqNr
    BY DirectionFacts
  <1>5. nr \in SeqNr
    <2>1. j \in 0 .. MAX_SEQ + 1
      BY <1>4, NrBufs
    <2>. QED  BY <1>3, <1>4, <2>1, AdvanceSteps
  <1>6. to_phy_buffer[t][SlotOf(nr)] = Acked(t) + j
    BY <1>3, <1>5, SendWindow
  <1>7. /\ Acked(t) + j \in Acked(t) .. pkt_no[t] - 1
        /\ (Acked(t) + j) - Acked(t) = j
        /\ Acked(t) + j \in Packet
    <2>1. j \in Nat /\ j < now_postion[t]
      BY <1>4, NrBufs
    <2>2. Acked(t) + j \in Nat
      BY <1>4, <2>1
    <2>. QED  BY <1>4, <2>1, <2>2, NrBufs DEF Packet
  <1>8. f \in Frame
    BY <1>5, <1>6, <1>7, FrameTypes DEF Inv
  <1>9. /\ f.ack = AckField(frame_expected[t])
        /\ f.kind = "DATA"
        /\ f.data \in Acked(t) .. pkt_no[t] - 1
        /\ f.seq = Advance(ack_expected[t], f.data - Acked(t))
    BY <1>3, <1>6, <1>7 DEF DataFrame
  <1>10. timer' = timer
    <2>1. timer \in [Station -> SUBSET Slot]
      BY DEF Inv, TypeOK
    <2>2. FiredAgain(t, i, nr) = timer[t]
      BY <1>1, <1>3 DEF FiredAgain
    <2>. QED  BY <1>1, <2>1, <2>2
  <1>11. UNCHANGED <<next_frame_to_send, ack_expected, now_postion,
                     to_phy_buffer, timer, pkt_no, rpackets, frame_expected,
                     too_far, have_arrived, to_network_buffer, aborted>>
    BY <1>1, <1>10 DEF receiverVars, sourceVars
  <1>12. \A s \in Station : /\ Gate(s)'
                            /\ network_layer_active'[s] => now_postion'[s] < NR_BUFS
    BY <1>1, <1>11, NowUnchanged, GateKept
  <1>13. link'[t] = Pushed(link[t], f) /\ link'[Peer(t)] = link[Peer(t)]
    BY <1>1, PeerFacts DEF Inv, TypeOK
  <1>. HIDE DEF f
  <1>. QED  BY <1>1, <1>8, <1>9, <1>11, <1>12, <1>13, QuietKeepsInv

LEMMA ReceiveDamagedKeepsInv ==
  ASSUME Inv, TypeOK', NEW t \in Station, ReceiveDamaged(t)
  PROVE  Inv'
  <1>. DEFINE f == ControlFrame(t, "NAK")
  <1>1. /\ UNCHANGED <<senderVars, receiverVars, sourceVars>>
        /\ GateNetworkLayer(t)
        /\ PhysicalBusy(t) \/ PhysicalUntouched
        /\ link[Peer(t)] # <<>>
        /\ \/ /\ no_nak[t]
              /\ link' = TakenThenSent(t, f)
              /\ no_nak' = [no_nak EXCEPT ![t] = FALSE]
           \/ /\ link' = Taken(t)
              /\ no_nak' = no_nak
    BY DEF ReceiveDamaged, NakAllowed, Arriving
  <1>2. UNCHANGED <<next_frame_to_send, ack_expected, now_postion,
                    to_phy_buffer, timer, pkt_no, rpackets, frame_expected,
                    too_far, have_arrived, to_network_buffer, aborted>>
    BY <1>1 DEF senderVars, receiverVars, sourceVars
  <1>3. \A s \in Station : /\ Gate(s)'
                           /\ network_layer_active'[s] => now_postion'[s] < NR_BUFS
    BY <1>1, <1>2, NowUnchanged, GateKept
  <1>4. f \in Frame
    BY FrameTypes DEF Inv
  <1>5. f.kind = "NAK" /\ f.ack = AckField(frame_expected[t])
    BY DEF ControlFrame
  <1>6. /\ link \in [Station -> Seq(Frame)]
        /\ no_nak \in [Station -> BOOLEAN]
        /\ Peer(t) \in Station
        /\ Peer(t) # t
    BY PeerFacts DEF Inv, TypeOK
  <1>7. link'[Peer(t)] = Tail(link[Peer(t)])
    BY <1>1, <1>6 DEF TakenThenSent, Taken
  <1>8. /\ no_nak'[Peer(t)] = no_nak[Peer(t)]
        /\ \/ link'[t] = link[t] /\ no_nak'[t] = no_nak[t]
           \/ link'[t] = Pushed(link[t], f) /\ no_nak[t] /\ ~no_nak'[t]
    BY <1>1, <1>6 DEF TakenThenSent, Taken
  <1>. HIDE DEF f
  <1>. QED  BY <1>1, <1>2, <1>3, <1>4, <1>5, <1>7, <1>8, QuietKeepsInv

LEMMA LoseKeepsInv ==
  ASSUME Inv, TypeOK', NEW s \in Station, Lose(s)
  PROVE  Inv'
  <1>. DEFINE t == Peer(s)
  <1>1. /\ t \in Station
        /\ Peer(t) = s
        /\ t # s
    BY PeerFacts
  <1>2. /\ UNCHANGED <<senderVars, receiverVars, sourceVars, no_nak,
                       phl_ready, inform_phl_ready, network_layer_active>>
        /\ link[s] # <<>>
        /\ link' = [link EXCEPT ![s] = Tail(@)]
    BY DEF Lose
  <1>3. UNCHANGED <<next_frame_to_send, ack_expected, now_postion,
                    to_phy_buffer, timer, pkt_no, rpackets, frame_expected,
                    too_far, have_arrived, to_network_buffer, aborted>>
    BY <1>2 DEF senderVars, receiverVars, sourceVars
  <1>4. \A u \in Station : /\ Gate(u)'
                           /\ network_layer_active'[u] => now_postion'[u] < NR_BUFS
    BY <1>2, <1>3 DEF Inv, Gate, WindowOK
  <1>5. link'[s] = Tail(link[s]) /\ link'[t] = link[t]
    BY <1>1, <1>2 DEF Inv, TypeOK
  <1>. HIDE DEF t
  <1>. QED  BY <1>1, <1>2, <1>3, <1>4, <1>5, QuietKeepsInv
-----------------------------------------------------------------------------
(* A sound frame that t takes from the link: what it acknowledges moves    *)
(* the send window of t; what it carries, and what t answers, leave both   *)
(* directions of the link as the invariant says.                           *)
LEMMA ArrivalKeepsInv ==
  ASSUME Inv, TypeOK', NEW t \in Station, NEW q, q = Peer(t),
         link[q] # <<>>, link'[q] = Tail(link[q]),
         NEW m \in 0 .. MAX_SEQ,
         AckRounds(t, Head(link[q]).ack, m), Acknowledge(t, m, timer[t]),
         \A s \in Station : /\ Gate(s)'
                            /\ network_layer_active'[s] => now_postion'[s] < NR_BUFS,
         NoBadPacket',
         rpackets'[q] = rpackets[q], frame_expected'[q] = frame_expected[q],
         too_far'[q] = too_far[q], have_arrived'[q] = have_arrived[q],
         to_network_buffer'[q] = to_network_buffer[q], no_nak'[q] = no_nak[q],
         rpackets[t] <= rpackets'[t], rpackets'[t] <= pkt_no[q],
         frame_expected'[t] = Advance(ack_expected[q], rpackets'[t] - Acked(q)),
         too_far'[t] = Advance(frame_expected'[t], NR_BUFS),
         DataOnLink(link'[q], pkt_no[q], rpackets'[t], frame_expected'[t]),
         Buffered(have_arrived'[t], to_network_buffer'[t], link'[q],
                  pkt_no[q], rpackets'[t], frame_expected'[t]),
         DataOnLink(link'[t], pkt_no[t], rpackets[q], frame_expected[q]),
         Buffered(have_arrived[q], to_network_buffer[q], link'[t],
                  pkt_no[t], rpackets[q], frame_expected[q]),
         AcksOnLink(link'[t], ack_expected[q], Acked(q), rpackets'[t]),
         NaksOnLink(link'[t], frame_expected'[t], no_nak'[t])
  PROVE  Inv'
  <1>1. /\ q \in Station
        /\ Peer(q) = t
        /\ \A s \in Station : s = t \/ s = q
    BY PeerFacts
  <1>2. /\ m \in 0 .. now_postion[t]
        /\ AcksOnLink(link'[q], ack_expected'[t], Acked(t)', rpackets[q])
        /\ now_postion'[t] <= pkt_no'[t]
        /\ Acked(t)' <= rpackets[q]
        /\ frame_expected[q] = Advance(ack_expected'[t], rpackets[q] - Acked(t)')
    BY AcknowledgementArrives
  <1>3. /\ \A s \in Station :
             /\ now_postion'[s] \in 0 .. NR_BUFS
             /\ next_frame_to_send'[s] = Advance(ack_expected'[s], now_postion'[s])
        /\ TimersGuardOutstanding'
        /\ RetransmitBuffered'
        /\ pkt_no' = pkt_no
        /\ ack_expected'[q] = ack_expected[q]
        /\ now_postion'[q] = now_postion[q]
    BY <1>2, AcknowledgeKeepsWindow
  <1>4. WindowOK'
    BY <1>3, NrBufs DEF WindowOK
  <1>5. Acked(q)' = Acked(q)
    BY <1>3 DEF Acked, OutstandingPacket
  <1>6. InStep(t)'
    <2>1. rpackets[q] <= pkt_no[t] /\ too_far[q] = Advance(frame_expected[q], NR_BUFS)
      BY DirectionFacts
    <2>. QED  BY <1>2, <1>3, <2>1 DEF InStep
  <1>7. InStep(q)'
    <2>1. InStep(q)
      BY <1>1 DEF Inv
    <2>2. now_postion[q] <= pkt_no[q]
      BY <2>1 DEF InStep
    <2>3. Acked(q) <= rpackets'[t]
      <3>1. Acked(q) <= rpackets[t] /\ Acked(q) \in Nat /\ rpackets[t] \in Nat
        BY <1>1, DirectionFacts
      <3>2. rpackets'[t] \in Nat
        BY DEF TypeOK
      <3>. QED  BY <3>1, <3>2
    <2>. QED  BY <1>1, <1>3, <1>5, <2>2, <2>3 DEF InStep
  <1>8. InFlight(t)'
    <2>1. NaksOnLink(link'[q], frame_expected[q], no_nak[q])
      BY TakeKeepsInFlight
    <2>. QED  BY <1>2, <1>3, <2>1 DEF InFlight
  <1>9. InFlight(q)'
    BY <1>1, <1>3, <1>5 DEF InFlight
  <1>. QED  BY <1>1, <1>3, <1>4, <1>6, <1>7, <1>8, <1>9 DEF Inv

(* The links when t sends no frame.                                        *)
LEMMA SilenceKeepsInFlight ==
  ASSUME Inv, NEW t \in Station, NEW q, q = Peer(t)
  PROVE  /\ DataOnLink(link[t], pkt_no[t], rpackets[q], frame_expected[q])
         /\ Buffered(have_arrived[q], to_network_buffer[q], link[t],
                     pkt_no[t], rpackets[q], frame_expected[q])
         /\ AcksOnLink(link[t], ack_expected[q], Acked(q), rpackets[t])
         /\ NaksOnLink(link[t], frame_expected[t], no_nak[t])
  <1>1. q \in Station /\ Peer(q) = t
    BY PeerFacts
  <1>2. InFlight(t) /\ InFlight(q)
    BY <1>1 DEF Inv
  <1>. QED  BY <1>1, <1>2 DEF InFlight

(* After an ACK or a NAK, which move only the send window.                 *)
LEMMA ControlArrivalKeepsInv ==
  ASSUME Inv, TypeOK', NEW t \in Station, NEW q, q = Peer(t),
         link[q] # <<>>, link'[q] = Tail(link[q]),
         NEW m \in 0 .. MAX_SEQ,
         AckRounds(t, Head(link[q]).ack, m), Acknowledge(t, m, timer[t]),
         GateNetworkLayer(t), PhysicalBusy(t) \/ PhysicalUntouched,
         UNCHANGED <<receiverVars, no_nak>>,
         DataOnLink(link'[t], pkt_no[t], rpackets[q], frame_expected[q]),
         Buffered(have_arrived[q], to_network_buffer[q], link'[t],
                  pkt_no[t], rpackets[q], frame_expected[q]),
         AcksOnLink(link'[t], ack_expected[q], Acked(q), rpackets[t]),
         NaksOnLink(link'[t], frame_expected[t], no_nak[t])
  PROVE  Inv'
  <1>1. /\ q \in Station
        /\ Peer(q) = t
    BY PeerFacts
  <1>2. UNCHANGED <<rpackets, frame_expected, too_far, have_arrived,
                    to_network_buffer, no_nak, aborted>>
    BY DEF receiverVars
  <1>3. /\ \A s \in Station : now_postion'[s] \in 0 .. NR_BUFS
        /\ now_postion'[Peer(t)] = now_postion[Peer(t)]
    <2>1. m \in 0 .. now_postion[t]
      BY AcknowledgementArrives
    <2>. QED  BY <2>1, AcknowledgeKeepsWindow
  <1>4. \A s \in Station : /\ Gate(s)'
                           /\ network_layer_active'[s] => now_postion'[s] < NR_BUFS
    BY <1>3, GateKept
  <1>5. NoBadPacket'
    BY <1>2 DEF Inv, NoBadPacket
  <1>6. /\ rpackets[t] \in Nat
        /\ rpackets[t] <= pkt_no[q]
        /\ frame_expected[t] = Advance(ack_expected[q], rpackets[t] - Acked(q))
        /\ too_far[t] = Advance(frame_expected[t], NR_BUFS)
    BY <1>1, DirectionFacts
  <1>7. /\ DataOnLink(link'[q], pkt_no[q], rpackets[t], frame_expected[t])
        /\ Buffered(have_arrived[t], to_network_buffer[t], link'[q],
                    pkt_no[q], rpackets[t], frame_expected[t])
    BY TakeKeepsInFlight
  <1>8. rpackets[t] <= rpackets'[t]
    BY <1>2, <1>6
  <1>. QED  BY <1>2, <1>4, <1>5, <1>6, <1>7, <1>8, ArrivalKeepsInv

LEMMA ReceiveAckKeepsInv ==
  ASSUME Inv, TypeOK', NEW t \in Station, ReceiveAck(t)
  PROVE  Inv'
  <1>. DEFINE q == Peer(t)
  <1>1. /\ link[q] # <<>>
        /\ link' = Taken(t)
        /\ UNCHANGED <<receiverVars, no_nak>>
        /\ GateNetworkLayer(t)
        /\ PhysicalUntouched
    BY DEF ReceiveAck, Arriving
  <1>2. PICK m \in 0 .. MAX_SEQ :
          AckRounds(t, Head(link[q]).ack, m) /\ Acknowledge(t, m, timer[t])
    BY DEF ReceiveAck, Arriving
  <1>3. link'[q] = Tail(link[q]) /\ link'[t] = link[t]
    BY <1>1, PeerFacts DEF Taken, Inv, TypeOK
  <1>. HIDE DEF q
  <1>4. q = Peer(t)
    BY DEF q
  <1>. QED  BY <1>1, <1>2, <1>3, <1>4, SilenceKeepsInFlight, ControlArrivalKeepsInv

LEMMA ReceiveNakKeepsInv ==
  ASSUME Inv, TypeOK', NEW t \in Station, ReceiveNak(t)
  PROVE  Inv'
  <1>. DEFINE q   == Peer(t)
              ack == Head(link[q]).ack
              nr  == NakTarget(ack)
              resend == InMiddle(ack_expected[t], nr, next_frame_to_send[t])
              f   == DataFrame(t, nr, to_phy_buffer[t][SlotOf(nr)])
  <1>1. /\ link[q] # <<>>
        /\ UNCHANGED <<receiverVars, no_nak>>
        /\ GateNetworkLayer(t)
        /\ IF resend THEN link' = TakenThenSent(t, f) /\ PhysicalBusy(t)
                     ELSE link' = Taken(t) /\ PhysicalUntouched
    BY DEF ReceiveNak, Arriving
  <1>2. PICK m \in 0 .. MAX_SEQ :
          /\ AckRounds(t, ack, m)
          /\ Acknowledge(t, m, IF resend THEN timer[t] \cup {SlotOf(nr)} ELSE timer[t])
    BY DEF ReceiveNak, Arriving
  <1>3. /\ q \in Station
        /\ q # t
        /\ link \in [Station -> Seq(Frame)]
        /\ nr \in SeqNr
    <2>1. /\ q \in Station
          /\ q # t
          /\ link \in [Station -> Seq(Frame)]
      BY PeerFacts DEF Inv, TypeOK
    <2>2. link[q] \in Seq(Frame)
      BY <2>1
    <2>3. 1 \in DOMAIN link[q] /\ Head(link[q]) = link[q][1]
      BY <1>1, <2>2, TailFacts
    <2>4. nr \in SeqNr
      BY <2>2, <2>3, FrameFields
    <2>. QED  BY <2>1, <2>4
  <1>4. CASE resend
    <2>1. PICK j \in 0 .. now_postion[t] - 1 : nr = Advance(ack_expected[t], j)
      BY <1>3, <1>4, SendWindow
    <2>2. SlotOf(nr) \in timer[t] /\ to_phy_buffer[t][SlotOf(nr)] = Acked(t) + j
      BY <1>3, <2>1, SendWindow
    <2>3. /\ pkt_no[t] = Acked(t) + now_postion[t]
          /\ pkt_no[t] \in Nat
          /\ Acked(t) \in Nat
          /\ now_postion[t] \in 0 .. NR_BUFS
          /\ no_nak[t] \in BOOLEAN
      BY DirectionFacts DEF Inv, TypeOK
    <2>4. /\ Acked(t) + j \in Acked(t) .. pkt_no[t] - 1
          /\ (Acked(t) + j) - Acked(t) = j
          /\ Acked(t) + j \in Packet
          /\ pkt_no[t] <= pkt_no[t]
          /\ pkt_no[t] <= Acked(t) + NR_BUFS
      <3>1. j \in Nat /\ j < now_postion[t]
        BY <2>3, NrBufs
      <3>2. Acked(t) + j \in Nat
        BY <2>3, <3>1
      <3>. QED  BY <2>3, <3>1, <3>2, NrBufs DEF Packet
    <2>5. f \in Frame
      BY <1>3, <2>2, <2>4, FrameTypes DEF Inv
    <2>6. /\ f.ack = AckField(frame_expected[t])
          /\ f.kind = "DATA"
          /\ f.data \in Acked(t) .. pkt_no[t] - 1
          /\ f.seq = Advance(ack_expected[t], f.data - Acked(t))
      BY <2>1, <2>2, <2>4 DEF DataFrame
    <2>7. Acknowledge(t, m, timer[t])
      <3>1. timer[t] \cup {SlotOf(nr)} = timer[t]
        BY <2>2
      <3>. QED  BY <1>2, <1>4, <3>1
    <2>8. /\ link'[q] = Tail(link[q])
          /\ link'[t] = Pushed(link[t], f)
          /\ PhysicalBusy(t)
      BY <1>1, <1>3, <1>4 DEF TakenThenSent, Taken
    <2>. HIDE DEF f
    <2>9. /\ DataOnLink(link'[t], pkt_no[t], rpackets[q], frame_expected[q])
          /\ Buffered(have_arrived[q], to_network_buffer[q], link'[t],
                      pkt_no[t], rpackets[q], frame_expected[q])
          /\ AcksOnLink(link'[t], ack_expected[q], Acked(q), rpackets[t])
          /\ NaksOnLink(link'[t], frame_expected[t], no_nak[t])
      BY <2>3, <2>4, <2>5, <2>6, <2>8, SendKeepsInFlight
    <2>. QED  BY <1>1, <1>2, <2>7, <2>8, <2>9, ControlArrivalKeepsInv
  <1>5. CASE ~resend
    <2>1. /\ link'[q] = Tail(link[q])
          /\ link'[t] = link[t]
          /\ PhysicalUntouched
      BY <1>1, <1>3, <1>5 DEF Taken
    <2>2. Acknowledge(t, m, timer[t])
      BY <1>2, <1>5
    <2>3. /\ DataOnLink(link'[t], pkt_no[t], rpackets[q], frame_expected[q])
          /\ Buffered(have_arrived[q], to_network_buffer[q], link'[t],
                      pkt_no[t], rpackets[q], frame_expected[q])
          /\ AcksOnLink(link'[t], ack_expected[q], Acked(q), rpackets[t])
          /\ NaksOnLink(link'[t], frame_expected[t], no_nak[t])
      BY <2>1, SilenceKeepsInFlight
    <2>. QED  BY <1>1, <1>2, <2>1, <2>2, <2>3, ControlArrivalKeepsInv
  <1>. QED  BY <1>4, <1>5

(* What t has on the link when it has delivered n packets.                 *)
LEMMA DeliveryKeepsInFlight ==
  ASSUME Inv, NEW t \in Station, NEW q, q = Peer(t), NEW L \in Seq(Frame),
         NEW none, NEW n \in 0 .. NR_BUFS, rpackets[t] + n <= pkt_no[q],
         AcksOnLink(L, ack_expected[q], Acked(q), rpackets[t]),
         NaksOnLink(L, frame_expected[t], none)
  PROVE  /\ AcksOnLink(L, ack_expected[q], Acked(q), rpackets[t] + n)
         /\ NaksOnLink(L, Advance(frame_expected[t], n),
                       IF n > 0 THEN TRUE ELSE none)
         /\ Advance(frame_expected[t], n) =
              Advance(ack_expected[q], (rpackets[t] + n) - Acked(q))
         /\ Advance(too_far[t], n) = Advance(Advance(frame_expected[t], n), NR_BUFS)
  <1>. DEFINE R     == rpackets[t]
              S     == pkt_no[q]
              acked == Acked(q)
              ae    == ack_expected[q]
              fe    == frame_expected[t]
  <1>1. q \in Station /\ Peer(q) = t
    BY PeerFacts
  <1>2. /\ R \in Nat
        /\ S = acked + now_postion[q]
        /\ now_postion[q] \in 0 .. NR_BUFS
        /\ acked \in Nat
        /\ acked <= R
        /\ ae \in SeqNr
        /\ fe \in SeqNr
        /\ fe = Advance(ae, R - acked)
        /\ too_far[t] = Advance(fe, NR_BUFS)
    BY <1>1, DirectionFacts
  <1>3. AcksOnLink(L, ae, acked, R) /\ NaksOnLink(L, fe, none) /\ R + n <= S
    OBVIOUS
  <1>. HIDE DEF R, S, acked, ae, fe
  <1>4. /\ n \in Nat
        /\ R + n \in Nat
        /\ R <= R + n
        /\ R + n <= acked + NR_BUFS
    BY <1>2, <1>3, NrBufs
  <1>5. AcksOnLink(L, ae, acked, R + n)
    BY <1>2, <1>3, <1>4, AcksMoreReceived
  <1>6. NaksOnLink(L, Advance(fe, n), IF n > 0 THEN TRUE ELSE none)
    <2>1. CASE n > 0
      <3>1. n \in Nat \ {0}
        BY <1>4, <2>1
      <3>2. NaksOnLink(L, Advance(fe, n), TRUE)
        BY <1>2, <1>3, <1>4, <3>1, NaksAfterDelivery
      <3>. QED  BY <2>1, <3>2
    <2>2. CASE ~(n > 0)
      <3>1. n = 0 /\ Advance(fe, 0) = fe
        BY <1>2, <1>4, <2>2, AdvanceSteps
      <3>. QED  BY <1>3, <2>2, <3>1
    <2>. QED  BY <2>1, <2>2
  <1>7. Advance(fe, n) = Advance(ae, (R + n) - acked)
    <2>1. /\ R - acked \in 0 .. MAX_SEQ + 1
          /\ n \in 0 .. MAX_SEQ + 1
          /\ (R - acked) + n = (R + n) - acked
          /\ (R - acked) + n <= MAX_SEQ + 1
      <3>1. /\ R \in Nat /\ acked \in Nat /\ acked <= R
            /\ n \in Nat /\ R + n <= acked + NR_BUFS
        BY <1>2, <1>4
      <3>2. NR_BUFS \in Nat /\ MAX_SEQ \in Nat /\ NR_BUFS <= MAX_SEQ
        BY NrBufs
      <3>. QED  BY <3>1, <3>2
    <2>. QED  BY <1>2, <2>1, AdvanceSteps
  <1>8. Advance(too_far[t], n) = Advance(Advance(fe, n), NR_BUFS)
    <2>1. /\ n \in 0 .. MAX_SEQ + 1
          /\ NR_BUFS \in 0 .. MAX_SEQ + 1
          /\ n + NR_BUFS <= MAX_SEQ + 1
          /\ n + NR_BUFS = NR_BUFS + n
      BY <1>4, NrBufs
    <2>. QED  BY <1>2, <2>1, AdvanceSteps
  <1>. QED  BY <1>5, <1>6, <1>7, <1>8 DEF R, S, acked, ae, fe

LEMMA ReceiveDataKeepsInv ==
  ASSUME Inv, TypeOK', NEW t \in Station, ReceiveData(t)
  PROVE  Inv'
  <1>. DEFINE q        == Peer(t)
              h        == Head(link[q])
              fe       == frame_expected[t]
              nak      == h.seq # fe /\ NakAllowed(t)
              new      == New(t, h.seq)
              arrived  == IF new THEN have_arrived[t] \cup {SlotOf(h.seq)}
                                 ELSE have_arrived[t]
              buffer   == IF new
                            THEN [to_network_buffer[t] EXCEPT ![SlotOf(h.seq)] = h.data]
                            ELSE to_network_buffer[t]
              f        == ControlFrame(t, "NAK")
  <1>1. /\ link[q] # <<>>
        /\ h.kind = "DATA"
        /\ GateNetworkLayer(t)
        /\ IF nak THEN link' = TakenThenSent(t, f) /\ PhysicalBusy(t)
                  ELSE link' = Taken(t) /\ PhysicalUntouched
    BY DEF ReceiveData, Arriving
  <1>2. PICK n \in 0 .. NR_BUFS, m \in 0 .. MAX_SEQ :
          /\ IF new THEN DeliverRounds(arrived, fe, n) ELSE n = 0
          /\ Deliver(t, arrived, buffer, n)
          /\ no_nak' = [no_nak EXCEPT ![t] = n > 0 \/ (@ /\ ~nak)]
          /\ AckRounds(t, h.ack, m)
          /\ Acknowledge(t, m, timer[t])
    BY DEF ReceiveData, Arriving
  <1>3. /\ q \in Station
        /\ q # t
        /\ Peer(q) = t
        /\ \A s \in Station : s = t \/ s = q
        /\ link \in [Station -> Seq(Frame)]
        /\ no_nak \in [Station -> BOOLEAN]
        /\ fe \in SeqNr
    BY PeerFacts DEF Inv, TypeOK
  <1>4. /\ rpackets[t] + n <= pkt_no[q]
        /\ \A j \in 0 .. n - 1 : buffer[SlotOf(Advance(fe, j))] = rpackets[t] + j
        /\ DataOnLink(Tail(link[q]), pkt_no[q], rpackets[t] + n, Advance(fe, n))
        /\ Buffered(arrived \ {SlotOf(Advance(fe, j)) : j \in 0 .. n - 1},
                    buffer, Tail(link[q]), pkt_no[q], rpackets[t] + n, Advance(fe, n))
    <2>1. /\ arrived = IF New(t, h.seq) THEN have_arrived[t] \cup {SlotOf(h.seq)}
                              ELSE have_arrived[t]
          /\ buffer = IF New(t, h.seq)
                       THEN [to_network_buffer[t] EXCEPT ![SlotOf(h.seq)] = h.data]
                       ELSE to_network_buffer[t]
          /\ IF New(t, h.seq) THEN DeliverRounds(arrived, fe, n) ELSE n = 0
      BY <1>2
    <2>. HIDE DEF arrived, buffer
    <2>2. rpackets[t] + n <= pkt_no[q]
      BY <1>1, <2>1, DataArrives
    <2>3. HoldsNext(buffer, fe, rpackets[t], n)
      BY <1>1, <2>1, DataArrives
    <2>4. DataOnLink(Tail(link[q]), pkt_no[q], rpackets[t] + n, Advance(fe, n))
      BY <1>1, <2>1, DataArrives
    <2>5. Buffered(arrived \ {SlotOf(Advance(fe, j)) : j \in 0 .. n - 1},
                   buffer, Tail(link[q]), pkt_no[q], rpackets[t] + n, Advance(fe, n))
      BY <1>1, <2>1, DataArrives
    <2>. QED  BY <2>2, <2>3, <2>4, <2>5 DEF HoldsNext
  <1>5. /\ have_arrived'[t] = arrived \ {SlotOf(Advance(fe, j)) : j \in 0 .. n - 1}
        /\ to_network_buffer'[t] = buffer
        /\ frame_expected'[t] = Advance(fe, n)
        /\ too_far'[t] = Advance(too_far[t], n)
        /\ rpackets'[t] = rpackets[t] + n
        /\ aborted'[t] = \E j \in 0 .. n - 1 :
                           buffer[SlotOf(Advance(fe, j))] # rpackets[t] + j
        /\ have_arrived'[q] = have_arrived[q]
        /\ to_network_buffer'[q] = to_network_buffer[q]
        /\ frame_expected'[q] = frame_expected[q]
        /\ too_far'[q] = too_far[q]
        /\ rpackets'[q] = rpackets[q]
        /\ aborted'[q] = aborted[q]
    BY <1>2, <1>3 DEF Deliver, Inv, TypeOK
  <1>6. NoBadPacket'
    BY <1>3, <1>4, <1>5 DEF Inv, NoBadPacket
  <1>7. /\ no_nak'[q] = no_nak[q]
        /\ no_nak'[t] = (n > 0 \/ (no_nak[t] /\ ~nak))
    BY <1>2, <1>3
  <1>8. link'[q] = Tail(link[q])
    BY <1>1, <1>3 DEF TakenThenSent, Taken
  <1>9. /\ DataOnLink(link'[t], pkt_no[t], rpackets[q], frame_expected[q])
        /\ Buffered(have_arrived[q], to_network_buffer[q], link'[t],
                    pkt_no[t], rpackets[q], frame_expected[q])
        /\ AcksOnLink(link'[t], ack_expected[q], Acked(q), rpackets[t])
        /\ NaksOnLink(link'[t], fe, no_nak[t] /\ ~nak)
    <2>1. CASE nak
      <3>1. no_nak[t] /\ FALSE \in BOOLEAN
        BY <2>1 DEF NakAllowed
      <3>2. link'[t] = Pushed(link[t], f)
        BY <1>1, <1>3, <2>1 DEF TakenThenSent, Taken
      <3>3. f \in Frame
        BY FrameTypes DEF Inv
      <3>4. f.kind = "NAK" /\ f.ack = AckField(fe)
        BY DEF ControlFrame
      <3>5. /\ pkt_no[t] \in Nat
            /\ pkt_no[t] <= pkt_no[t]
            /\ pkt_no[t] <= Acked(t) + NR_BUFS
        <4>1. /\ pkt_no[t] \in Nat
              /\ Acked(t) \in Nat
              /\ pkt_no[t] = Acked(t) + now_postion[t]
              /\ now_postion[t] \in 0 .. NR_BUFS
          BY DirectionFacts
        <4>. QED  BY <4>1, NrBufs
      <3>. HIDE DEF f, nak
      <3>6. (no_nak[t] /\ ~nak) = FALSE
        BY <2>1
      <3>. QED  BY <3>1, <3>2, <3>3, <3>4, <3>5, <3>6, SendKeepsInFlight
    <2>2. CASE ~nak
      <3>1. link'[t] = link[t]
        BY <1>1, <1>3, <2>2 DEF Taken
      <3>2. no_nak[t] \in BOOLEAN
        BY <1>3
      <3>. HIDE DEF nak
      <3>3. (no_nak[t] /\ ~nak) = no_nak[t]
        BY <2>2, <3>2
      <3>. QED  BY <3>1, <3>3, SilenceKeepsInFlight
    <2>. QED  BY <2>1, <2>2
  <1>. HIDE DEF nak, new, arrived, buffer, h, f
  <1>10. link'[t] \in Seq(Frame)
    BY DEF TypeOK
  <1>11. /\ AcksOnLink(link'[t], ack_expected[q], Acked(q), rpackets[t] + n)
         /\ NaksOnLink(link'[t], Advance(fe, n),
                       IF n > 0 THEN TRUE ELSE no_nak[t] /\ ~nak)
         /\ Advance(fe, n) = Advance(ack_expected[q], (rpackets[t] + n) - Acked(q))
         /\ Advance(too_far[t], n) = Advance(Advance(fe, n), NR_BUFS)
    <2>. PICK none : none = (no_nak[t] /\ ~nak)
      OBVIOUS
    <2>1. /\ NaksOnLink(link'[t], fe, none)
          /\ AcksOnLink(link'[t], ack_expected[q], Acked(q), rpackets[t])
          /\ rpackets[t] + n <= pkt_no[q]
      BY <1>4, <1>9
    <2>3. q = Peer(t) /\ fe = frame_expected[t]
      OBVIOUS
    <2>. HIDE DEF nak, q, fe
    <2>2. /\ AcksOnLink(link'[t], ack_expected[q], Acked(q), rpackets[t] + n)
          /\ NaksOnLink(link'[t], Advance(fe, n), IF n > 0 THEN TRUE ELSE none)
          /\ Advance(fe, n) = Advance(ack_expected[q], (rpackets[t] + n) - Acked(q))
          /\ Advance(too_far[t], n) = Advance(Advance(fe, n), NR_BUFS)
      BY <1>10, <2>1, <2>3, DeliveryKeepsInFlight
    <2>. QED  BY <2>2
  <1>12. NaksOnLink(link'[t], Advance(fe, n), no_nak'[t])
    <2>1. no_nak'[t] = IF n > 0 THEN TRUE ELSE no_nak[t] /\ ~nak
      <3>1. CASE n > 0
        BY <1>7, <3>1
      <3>2. CASE ~(n > 0)
        BY <1>7, <3>2
      <3>. QED  BY <3>1, <3>2
    <2>. QED  BY <1>11, <2>1
  <1>13. rpackets[t] <= rpackets[t] + n
    <2>1. rpackets[t] \in Nat /\ n \in Nat
      BY NrBufs DEF Inv, TypeOK
    <2>. QED  BY <2>1
  <1>14. \A s \in Station : /\ Gate(s)'
                            /\ network_layer_active'[s] => now_postion'[s] < NR_BUFS
    <2>1. m \in 0 .. now_postion[t]
      BY <1>1, <1>2, AcknowledgementArrives DEF h
    <2>2. /\ \A s \in Station : now_postion'[s] \in 0 .. NR_BUFS
          /\ now_postion'[Peer(t)] = now_postion[Peer(t)]
      BY <1>2, <2>1, AcknowledgeKeepsWindow
    <2>3. PhysicalBusy(t) \/ PhysicalUntouched
      BY <1>1
    <2>. QED  BY <1>1, <2>2, <2>3, GateKept
  <1>15. AckRounds(t, Head(link[q]).ack, m) /\ Acknowledge(t, m, timer[t])
    BY <1>2 DEF h
  <1>. HIDE DEF q, fe
  <1>16. q = Peer(t) /\ fe = frame_expected[t]
    BY DEF q, fe
  <1>. QED  BY <1>1, <1>4, <1>5, <1>6, <1>7, <1>8, <1>9, <1>11, <1>12, <1>13,
               <1>14, <1>15, <1>16, ArrivalKeepsInv

(* A new frame at the upper edge of the send window, in a free buffer.     *)
LEMMA NetworkLayerReadyKeepsInv ==
  ASSUME Inv, TypeOK', NEW t \in Station, NetworkLayerReady(t)
  PROVE  Inv'
  <1>. DEFINE q      == Peer(t)
              ae     == ack_expected[t]
              now    == now_postion[t]
              nr     == next_frame_to_send[t]
              packet == pkt_no[t]
              f      == DataFrame(t, nr, packet)
  <1>1. /\ network_layer_active[t]
        /\ to_phy_buffer' = [to_phy_buffer EXCEPT ![t][SlotOf(nr)] = packet]
        /\ pkt_no' = [pkt_no EXCEPT ![t] = @ + 1]
        /\ link' = [link EXCEPT ![t] = Pushed(@, f)]
        /\ timer' = [timer EXCEPT ![t] = @ \cup {SlotOf(nr)}]
        /\ PhysicalBusy(t)
        /\ next_frame_to_send' = [next_frame_to_send EXCEPT ![t] = Inc(@)]
        /\ now_postion' = [now_postion EXCEPT ![t] = (@ + 1) % UCHAR]
        /\ GateNetworkLayer(t)
        /\ UNCHANGED <<ack_expected, receiverVars, no_nak>>
    BY DEF NetworkLayerReady
  <1>2. UNCHANGED <<ack_expected, rpackets, frame_expected, too_far,
                    have_arrived, to_network_buffer, aborted, no_nak>>
    BY <1>1 DEF receiverVars
  <1>3. /\ q \in Station
        /\ q # t
        /\ Peer(q) = t
        /\ \A s \in Station : s = t \/ s = q
    BY PeerFacts
  <1>4. /\ packet \in Nat
        /\ now \in 0 .. NR_BUFS
        /\ Acked(t) \in Nat
        /\ packet = Acked(t) + now
        /\ ae \in SeqNr
        /\ nr = Advance(ae, now)
        /\ rpackets[q] \in Nat
        /\ rpackets[q] <= packet
    BY DirectionFacts
  <1>5. now \in 0 .. NR_BUFS - 1 /\ now + 1 \in 1 .. NR_BUFS
    <2>1. now < NR_BUFS
      BY <1>1 DEF Inv, WindowOK
    <2>. QED  BY <1>4, <2>1, NrBufs
  <1>6. /\ (now + 1) % UCHAR = now + 1
        /\ nr \in SeqNr
        /\ Inc(nr) = Advance(ae, now + 1)
    <2>1. /\ now \in 0 .. MAX_SEQ + 1
          /\ 1 \in 0 .. MAX_SEQ + 1
          /\ now + 1 <= MAX_SEQ + 1
          /\ now + 1 \in 0 .. 255
      BY <1>5, NrBufs
    <2>2. (now + 1) % 256 = now + 1
      BY <2>1
    <2>3. nr \in SeqNr
      BY <1>4, <2>1, AdvanceSteps
    <2>. QED  BY <1>4, <2>1, <2>2, <2>3, AdvanceSteps DEF UCHAR
  <1>7. /\ next_frame_to_send'[t] = Advance(ae, now + 1)
        /\ now_postion'[t] = now + 1
        /\ pkt_no'[t] = packet + 1
        /\ timer'[t] = timer[t] \cup {SlotOf(nr)}
        /\ to_phy_buffer'[t] = [to_phy_buffer[t] EXCEPT ![SlotOf(nr)] = packet]
        /\ link'[t] = Pushed(link[t], f)
        /\ next_frame_to_send'[q] = next_frame_to_send[q]
        /\ now_postion'[q] = now_postion[q]
        /\ pkt_no'[q] = pkt_no[q]
        /\ timer'[q] = timer[q]
        /\ to_phy_buffer'[q] = to_phy_buffer[q]
        /\ link'[q] = link[q]
    BY <1>1, <1>3, <1>6 DEF Inv, TypeOK
  <1>8. Acked(t)' = Acked(t) /\ Acked(q)' = Acked(q)
    <2>1. (packet + 1) - (now + 1) = packet - now
      BY <1>4
    <2>2. /\ Acked(t)' = pkt_no'[t] - now_postion'[t] + 0
          /\ Acked(t) = packet - now + 0
      BY DEF Acked, OutstandingPacket
    <2>3. Acked(q)' = Acked(q)
      BY <1>7 DEF Acked, OutstandingPacket
    <2>. QED  BY <1>7, <2>1, <2>2, <2>3
  <1>9. \A s \in Station : /\ Gate(s)'
                           /\ network_layer_active'[s] => now_postion'[s] < NR_BUFS
    <2>1. \A s \in Station : now_postion'[s] \in 0 .. NR_BUFS
      <3>1. now_postion[q] \in 0 .. NR_BUFS
        BY <1>3, NowUnchanged
      <3>. QED  BY <1>3, <1>5, <1>7, <3>1, NrBufs
    <2>. QED  BY <1>1, <1>7, <2>1, GateKept
  <1>10. WindowOK'
    <2>1. /\ now_postion[q] <= NR_BUFS
          /\ next_frame_to_send[q] = Advance(ack_expected[q], now_postion[q])
      BY <1>3 DEF Inv, WindowOK
    <2>2. now + 1 <= NR_BUFS
      BY <1>5, NrBufs
    <2>. QED  BY <1>2, <1>3, <1>7, <1>9, <2>1, <2>2 DEF WindowOK
  <1>11. TimersGuardOutstanding'
    <2>1. /\ timer[t] = {SlotOf(Advance(ae, j)) : j \in 0 .. now - 1}
          /\ timer[q] = {SlotOf(Advance(ack_expected[q], j)) :
                           j \in 0 .. now_postion[q] - 1}
      BY <1>3 DEF Inv, TimersGuardOutstanding, Outstanding
    <2>2. \A j : j \in 0 .. (now + 1) - 1 <=> j \in 0 .. now - 1 \/ j = now
      BY <1>5, NrBufs
    <2>3. timer'[t] = {SlotOf(Advance(ae, j)) : j \in 0 .. (now + 1) - 1}
      BY <1>4, <1>7, <2>1, <2>2
    <2>. QED  BY <1>2, <1>3, <1>7, <2>1, <2>3
              DEF TimersGuardOutstanding, Outstanding
  <1>12. RetransmitBuffered'
    <2>1. ASSUME NEW j \in 0 .. now_postion'[t] - 1
          PROVE  to_phy_buffer'[t][SlotOf(Advance(ae, j))] =
                   pkt_no'[t] - now_postion'[t] + j
      <3>1. /\ j \in 0 .. NR_BUFS - 1
            /\ j \in 0 .. now - 1 \/ j = now
            /\ pkt_no'[t] - now_postion'[t] + j = packet - now + j
        BY <1>4, <1>5, <1>7, NrBufs
      <3>2. to_phy_buffer[t] \in [Slot -> Packet] /\ SlotOf(nr) \in Slot
        BY <1>6, SlotOfType DEF Inv, TypeOK
      <3>3. CASE j = now
        <4>1. packet = packet - now + j
          BY <1>4, <3>3
        <4>. QED  BY <1>4, <1>7, <3>1, <3>2, <3>3, <4>1
      <3>4. CASE j \in 0 .. now - 1
        <4>1. j # now
          BY <1>4, <3>4, NrBufs
        <4>2. SlotOf(Advance(ae, j)) # SlotOf(nr)
          BY <1>4, <1>5, <3>1, <4>1, SlotsOfWindow
        <4>3. to_phy_buffer[t][SlotOf(Advance(ae, j))] = packet - now + j
          BY <3>4 DEF Inv, RetransmitBuffered, Outstanding, OutstandingPacket
        <4>4. to_phy_buffer'[t][SlotOf(Advance(ae, j))]
                = to_phy_buffer[t][SlotOf(Advance(ae, j))]
          <5>1. j \in 0 .. MAX_SEQ + 1
            BY <3>1, NrBufs
          <5>2. SlotOf(Advance(ae, j)) \in Slot
            BY <1>4, <5>1, AdvanceSteps, SlotOfType
          <5>. QED  BY <1>7, <3>2, <4>2, <5>2
        <4>. QED  BY <3>1, <4>3, <4>4
      <3>. QED  BY <3>1, <3>3, <3>4
    <2>2. ASSUME NEW j \in 0 .. now_postion[q] - 1
          PROVE  to_phy_buffer[q][SlotOf(Advance(ack_expected[q], j))] =
                   pkt_no[q] - now_postion[q] + j
      BY <1>3 DEF Inv, RetransmitBuffered, Outstanding, OutstandingPacket
    <2>3. ASSUME NEW s \in Station, NEW j \in 0 .. now_postion'[s] - 1
          PROVE  to_phy_buffer'[s][SlotOf(Advance(ack_expected'[s], j))] =
                   pkt_no'[s] - now_postion'[s] + j
      <3>1. ack_expected' = ack_expected
        BY <1>2
      <3>2. CASE s = t
        BY <2>1, <3>1, <3>2
      <3>3. CASE s = q
        <4>1. j \in 0 .. now_postion[q] - 1
          BY <1>7, <3>3
        <4>. QED  BY <1>7, <2>2, <3>1, <3>3, <4>1
      <3>. QED  BY <1>3, <3>2, <3>3
    <2>. QED  BY <2>3 DEF RetransmitBuffered, Outstanding, OutstandingPacket
  <1>13. NoBadPacket'
    BY <1>2 DEF Inv, NoBadPacket
  <1>14. InStep(t)'
    <2>1. InStep(t)
      BY DEF Inv
    <2>2. rpackets[q] <= packet + 1 /\ now + 1 <= packet + 1
      BY <1>4, NrBufs
    <2>. QED  BY <1>2, <1>7, <1>8, <2>1, <2>2 DEF InStep
  <1>15. InStep(q)'
    <2>1. InStep(q)
      BY <1>3 DEF Inv
    <2>. QED  BY <1>2, <1>3, <1>7, <1>8, <2>1 DEF InStep
  <1>16. /\ DataOnLink(link'[t], packet + 1, rpackets[q], frame_expected[q])
         /\ Buffered(have_arrived[q], to_network_buffer[q], link'[t],
                     packet + 1, rpackets[q], frame_expected[q])
         /\ AcksOnLink(link'[t], ack_expected[q], Acked(q), rpackets[t])
         /\ NaksOnLink(link'[t], frame_expected[t], no_nak[t])
    <2>1. /\ f.ack = AckField(frame_expected[t])
          /\ f.kind = "DATA"
          /\ f.data = packet
          /\ f.seq = nr
      BY DEF DataFrame
    <2>2. /\ packet \in Acked(t) .. (packet + 1) - 1
          /\ packet - Acked(t) = now
          /\ packet \in Packet
          /\ packet + 1 \in Nat
          /\ packet <= packet + 1
          /\ packet + 1 <= Acked(t) + NR_BUFS
      BY <1>4, <1>5, NrBufs DEF Packet
    <2>3. f \in Frame
      BY <1>6, <2>2, FrameTypes DEF Inv
    <2>4. no_nak[t] \in BOOLEAN
      BY DEF Inv, TypeOK
    <2>. HIDE DEF f
    <2>. QED  BY <1>4, <1>7, <2>1, <2>2, <2>3, <2>4, SendKeepsInFlight
  <1>17. /\ DataOnLink(link[q], pkt_no[q], rpackets[t], frame_expected[t])
         /\ Buffered(have_arrived[t], to_network_buffer[t], link[q],
                     pkt_no[q], rpackets[t], frame_expected[t])
         /\ AcksOnLink(link[q], ack_expected[t], Acked(t), rpackets[q])
         /\ NaksOnLink(link[q], frame_expected[q], no_nak[q])
    BY <1>3, SilenceKeepsInFlight
  <1>18. InFlight(t)'
    BY <1>2, <1>7, <1>8, <1>16, <1>17 DEF InFlight
  <1>19. InFlight(q)'
    BY <1>2, <1>3, <1>7, <1>8, <1>16, <1>17 DEF InFlight
  <1>. QED  BY <1>3, <1>9, <1>10, <1>11, <1>12, <1>13, <1>14, <1>15, <1>18, <1>19 DEF Inv

-----------------------------------------------------------------------------
(* The invariant. *)

LEMMA InitInv == Init => Inv
  <1>. SUFFICES ASSUME Init
                PROVE  Inv
    OBVIOUS
  <1>. USE DEF Init
  <1>1. TypeOK
    BY InitTypeOK
  <1>2. /\ 0 \in SeqNr
        /\ Advance(0, 0) = 0
        /\ Advance(0, NR_BUFS) = NR_BUFS
        /\ 0 .. 0 - 1 = {}
        /\ 0 < NR_BUFS
    BY NrBufs DEF SeqNr, Advance
  <1>3. WindowOK
    BY <1>2, NrBufs DEF WindowOK
  <1>4. TimersGuardOutstanding
    BY <1>2 DEF TimersGuardOutstanding
  <1>5. RetransmitBuffered
    BY <1>2 DEF RetransmitBuffered
  <1>6. NoBadPacket
    BY DEF NoBadPacket
  <1>7. ASSUME NEW s \in Station
        PROVE  InStep(s) /\ InFlight(s) /\ Gate(s)
    <2>1. Peer(s) \in Station
      BY PeerFacts
    <2>2. Acked(s) = 0
      BY DEF Acked, OutstandingPacket
    <2>3. InStep(s)
      BY <1>2, <2>1, <2>2 DEF InStep
    <2>4. InFlight(s)
      BY <2>1 DEF InFlight, DataOnLink, AcksOnLink, NaksOnLink, Buffered
    <2>5. Gate(s)
      BY DEF Gate
    <2>. QED  BY <2>3, <2>4, <2>5
  <1>. QED  BY <1>1, <1>3, <1>4, <1>5, <1>6, <1>7 DEF Inv

LEMMA NextInv == Inv /\ [Next]_vars => Inv'
  <1>. SUFFICES ASSUME Inv, [Next]_vars
                PROVE  Inv'
    OBVIOUS
  <1>1. TypeOK'
    BY NextTypeOK DEF Inv
  <1>2. ASSUME NEW s \in Station, StationStep(s)
        PROVE  Inv'
    <2>1. CASE NetworkLayerReady(s)
      BY <1>1, <2>1, NetworkLayerReadyKeepsInv
    <2>2. CASE PhysicalLayerReady(s)
      BY <1>1, <2>2, PhysicalLayerReadyKeepsInv
    <2>3. CASE \E i \in Slot : DataTimeout(s, i)
      BY <1>1, <2>3, DataTimeoutKeepsInv
    <2>4. CASE AckTimeout(s)
      BY <1>1, <2>4, AckTimeoutKeepsInv
    <2>5. CASE ReceiveDamaged(s)
      BY <1>1, <2>5, ReceiveDamagedKeepsInv
    <2>6. CASE ReceiveData(s)
      BY <1>1, <2>6, ReceiveDataKeepsInv
    <2>7. CASE ReceiveAck(s)
      BY <1>1, <2>7, ReceiveAckKeepsInv
    <2>8. CASE ReceiveNak(s)
      BY <1>1, <2>8, ReceiveNakKeepsInv
    <2>. QED  BY <1>2, <2>1, <2>2, <2>3, <2>4, <2>5, <2>6, <2>7, <2>8
              DEF StationStep, Receive
  <1>3. ASSUME NEW s \in Station, Lose(s)
        PROVE  Inv'
    BY <1>1, <1>3, LoseKeepsInv
  <1>4. CASE UNCHANGED vars
    BY <1>1, <1>4 DEF vars, senderVars, receiverVars, sourceVars,
         Inv, WindowOK, TimersGuardOutstanding, RetransmitBuffered, NoBadPacket,
         InStep, InFlight, Gate, Acked, Outstanding, OutstandingPacket
  <1>. QED  BY <1>2, <1>3, <1>4 DEF Next

(* The invariant holds in every state of every run of the two stations,    *)
(* whatever MAX_SEQ, the packets offered and the capacity of the link.     *)
THEOREM InvCorrect == Spec => []Inv
  <1>1. Init => Inv
    BY InitInv
  <1>2. Inv /\ [Next]_vars => Inv'
    BY NextInv
  <1>. QED  BY <1>1, <1>2, PTL DEF Spec

-----------------------------------------------------------------------------
(* The properties. *)

(* The counter, the edges of the send window and the gate of the network   *)
(* layer stay in step.                                                     *)
THEOREM WindowCorrect == Spec => []WindowOK
  <1>1. Inv => WindowOK
    BY DEF Inv
  <1>. QED  BY <1>1, InvCorrect, PTL

(* A timer runs for each unacknowledged frame and for no other.            *)
THEOREM TimersCorrect == Spec => []TimersGuardOutstanding
  <1>1. Inv => TimersGuardOutstanding
    BY DEF Inv
  <1>. QED  BY <1>1, InvCorrect, PTL

(* What is sent again is what was first sent.                              *)
THEOREM RetransmitCorrect == Spec => []RetransmitBuffered
  <1>1. Inv => RetransmitBuffered
    BY DEF Inv
  <1>. QED  BY <1>1, InvCorrect, PTL

(* put_packet never aborts the program.                                    *)
THEOREM DeliveryCorrect == Spec => []NoBadPacket
  <1>1. Inv => NoBadPacket
    BY DEF Inv
  <1>. QED  BY <1>1, InvCorrect, PTL

(* A DATA frame in the receive window is never from a window ago.          *)
THEOREM WindowsDoNotOverlap == Spec => []NoOverlap
  <1>1. Inv => NoOverlap
    <2>. SUFFICES ASSUME Inv, NEW s \in Station, NEW i \in DOMAIN link[s],
                         NEW j \in 0 .. NR_BUFS - 1, link[s][i].kind = "DATA",
                         link[s][i].seq = Advance(frame_expected[Peer(s)], j)
                  PROVE  link[s][i].data = rpackets[Peer(s)] + j
      BY DEF NoOverlap
    <2>. DEFINE p  == Peer(s)
                fe == frame_expected[p]
                R  == rpackets[p]
                k  == link[s][i].data
                x  == link[s][i].seq
    <2>1. /\ R \in Nat
          /\ fe \in SeqNr
          /\ pkt_no[s] \in Nat
          /\ pkt_no[s] <= R + NR_BUFS
          /\ link[s] \in Seq(Frame)
      <3>1. /\ R \in Nat
            /\ fe \in SeqNr
            /\ link[s] \in Seq(Frame)
            /\ pkt_no[s] \in Nat
            /\ pkt_no[s] = Acked(s) + now_postion[s]
            /\ Acked(s) \in Nat
            /\ now_postion[s] \in 0 .. NR_BUFS
            /\ Acked(s) <= R
        BY DirectionFacts
      <3>. QED  BY <3>1, NrBufs
    <2>2. GoodData(link[s][i], pkt_no[s], R, fe)
      BY DEF Inv, InFlight, DataOnLink
    <2>3. /\ k \in 0 .. pkt_no[s] - 1
          /\ R <= k + NR_BUFS
          /\ k >= R => x = Advance(fe, k - R)
          /\ k < R  => fe = Advance(x, R - k)
      BY <2>2 DEF GoodData
    <2>4. x \in SeqNr
      BY <2>1, FrameFields
    <2>5. x = Advance(fe, j)
      OBVIOUS
    <2>. HIDE DEF p, fe, R, k, x
    <2>6. j \in 0 .. MAX_SEQ /\ Offset(fe, x) = j
      <3>1. j \in 0 .. MAX_SEQ
        BY NrBufs
      <3>. QED  BY <2>1, <2>5, <3>1, OffsetOfAdvance
    <2>7. CASE k >= R
      <3>1. k - R \in 0 .. MAX_SEQ
        BY <2>1, <2>3, <2>7, NrBufs
      <3>2. Offset(fe, x) = k - R
        BY <2>1, <2>3, <2>7, <3>1, OffsetOfAdvance
      <3>3. k \in Int
        BY <2>3
      <3>4. k = R + j
        BY <2>1, <2>6, <3>2, <3>3
      <3>. QED  BY <3>4 DEF k, R, p
    <2>8. CASE k < R
      <3>1. R - k \in 1 .. MAX_SEQ /\ R - k <= NR_BUFS
        BY <2>1, <2>3, <2>8, NrBufs
      <3>2. Offset(fe, x) = MAX_SEQ + 1 - (R - k)
        BY <2>3, <2>4, <2>8, <3>1, OffsetBehind
      <3>3. MAX_SEQ + 1 - (R - k) >= NR_BUFS
        BY <3>1, NrBufs
      <3>. QED  BY <2>6, <3>2, <3>3, NrBufs
    <2>. QED  BY <2>1, <2>3, <2>7, <2>8
  <1>. QED  BY <1>1, InvCorrect, PTL

(* No frame acknowledges a packet its sender's network layer does not have.*)
THEOREM AcknowledgementsHonest == Spec => []AckHonest
  <1>1. Inv => AckHonest
    <2>. SUFFICES ASSUME Inv, NEW s \in Station
                  PROVE  /\ OutstandingPacket(s, 0) <= rpackets[Peer(s)]
                         /\ \A i \in DOMAIN link[Peer(s)], j \in 0 .. now_postion[s] - 1 :
                              link[Peer(s)][i].ack = Outstanding(s, j)
                                => OutstandingPacket(s, j) < rpackets[Peer(s)]
      BY DEF AckHonest
    <2>. DEFINE q  == Peer(s)
                ae == ack_expected[s]
    <2>1. /\ ae \in SeqNr
          /\ now_postion[s] \in 0 .. NR_BUFS
          /\ Acked(s) \in Nat
          /\ pkt_no[s] = Acked(s) + now_postion[s]
          /\ rpackets[q] \in Nat
          /\ Acked(s) <= rpackets[q]
      BY DirectionFacts
    <2>2. OutstandingPacket(s, 0) <= rpackets[q]
      BY <2>1 DEF Acked
    <2>3. ASSUME NEW i \in DOMAIN link[q], NEW j \in 0 .. now_postion[s] - 1,
                 link[q][i].ack = Outstanding(s, j)
          PROVE  OutstandingPacket(s, j) < rpackets[q]
      <3>1. /\ j \in 0 .. MAX_SEQ + 1
            /\ 1 \in 0 .. MAX_SEQ + 1
            /\ j + 1 \in 0 .. MAX_SEQ
            /\ j + 1 <= MAX_SEQ + 1
        BY <2>1, NrBufs
      <3>2. Outstanding(s, j) \in SeqNr /\ Inc(Outstanding(s, j)) = Advance(ae, j + 1)
        BY <2>1, <3>1, AdvanceSteps DEF Outstanding
      <3>3. NakTarget(link[q][i].ack) = Advance(ae, j + 1)
        BY <2>3, <3>2, NakTargetIsNext
      <3>4. Asked(link[q][i], ae) = j + 1
        BY <2>1, <3>1, <3>3, OffsetOfAdvance DEF Asked
      <3>5. Acked(s) + Asked(link[q][i], ae) <= rpackets[q]
        BY DEF Inv, InFlight, AcksOnLink
      <3>6. OutstandingPacket(s, j) = Acked(s) + j
        BY <2>1, <3>1 DEF OutstandingPacket
      <3>. QED  BY <2>1, <3>1, <3>4, <3>5, <3>6
    <2>. QED  BY <2>2, <2>3
  <1>. QED  BY <1>1, InvCorrect, PTL

(* Two NAKs on the link ask for different frames.                          *)
THEOREM NaksCorrect == Spec => []AtMostOneNak
  <1>1. Inv => AtMostOneNak
    <2>. SUFFICES ASSUME Inv, NEW s \in Station
                  PROVE  \A i, j \in DOMAIN link[s] :
                           /\ link[s][i].kind = "NAK"
                           /\ link[s][j].kind = "NAK"
                           /\ link[s][i].ack = link[s][j].ack
                           => i = j
      BY DEF AtMostOneNak
    <2>1. Peer(s) \in Station /\ Peer(Peer(s)) = s
      BY PeerFacts
    <2>2. InFlight(Peer(s))
      BY <2>1 DEF Inv
    <2>. QED  BY <2>1, <2>2 DEF InFlight, NaksOnLink
  <1>. QED  BY <1>1, InvCorrect, PTL

(* A closed network layer waits for an event that is due.                  *)
THEOREM WakeupsCorrect == Spec => []NeverStuck
  <1>1. Inv => NeverStuck
    <2>. SUFFICES ASSUME Inv, NEW s \in Station,
                         ~network_layer_active[s], ~inform_phl_ready[s]
                  PROVE  now_postion[s] = NR_BUFS /\ timer[s] # {}
      BY DEF NeverStuck
    <2>1. now_postion[s] = NR_BUFS
      BY DEF Inv, Gate
    <2>2. 0 \in 0 .. now_postion[s] - 1
      BY <2>1, NrBufs
    <2>3. SlotOf(Outstanding(s, 0)) \in timer[s]
      BY <2>2 DEF Inv, TimersGuardOutstanding
    <2>. QED  BY <2>1, <2>3
  <1>. QED  BY <1>1, InvCorrect, PTL

-----------------------------------------------------------------------------
(* The reliable link. *)

(* A new frame submits a packet, sound DATA delivers what is in order; any *)
(* other step leaves the reliable link alone.                              *)
LEMMA StepRefines ==
  ASSUME Inv, Inv', [Next]_vars
  PROVE  [Reliable!Next]_<<pkt_no, [s \in Station |-> IF aborted[s] THEN NoPacket
                                                     ELSE rpackets[s]]>>
  <1>. DEFINE received == [s \in Station |-> IF aborted[s] THEN NoPacket ELSE rpackets[s]]
  <1>1. /\ received = rpackets
        /\ received' = rpackets'
    BY DEF Inv, TypeOK, NoBadPacket
  <1>. HIDE DEF received
  <1>2. ASSUME NEW t \in Station, NetworkLayerReady(t)
        PROVE  Reliable!Submit(t)
    <2>1. /\ pkt_no' = [pkt_no EXCEPT ![t] = @ + 1]
          /\ rpackets' = rpackets
          /\ network_layer_active[t]
      BY <1>2 DEF NetworkLayerReady, receiverVars
    <2>2. now_postion[t] < NR_BUFS
      BY <2>1 DEF Inv, WindowOK
    <2>3. /\ pkt_no[t] = Acked(t) + now_postion[t]
          /\ now_postion[t] \in 0 .. NR_BUFS
          /\ Acked(t) \in Nat
          /\ rpackets[Peer(t)] \in Nat
          /\ Acked(t) <= rpackets[Peer(t)]
      BY DirectionFacts
    <2>4. pkt_no[t] - rpackets[Peer(t)] < NR_BUFS
      BY <2>2, <2>3, NrBufs
    <2>. QED  BY <1>1, <2>1, <2>4 DEF Reliable!Submit, received
  <1>3. ASSUME NEW t \in Station, ReceiveData(t)
        PROVE  Reliable!Deliver(t) \/ UNCHANGED <<pkt_no, received>>
    <2>1. pkt_no' = pkt_no /\ \E n \in 0 .. NR_BUFS : rpackets' = [rpackets EXCEPT ![t] = @ + n]
      BY <1>3 DEF ReceiveData, Deliver, Acknowledge, sourceVars
    <2>2. PICK n \in 0 .. NR_BUFS : rpackets' = [rpackets EXCEPT ![t] = @ + n]
      BY <2>1
    <2>3. /\ rpackets \in [Station -> Nat]
          /\ Peer(t) \in Station
          /\ Peer(Peer(t)) = t
      BY PeerFacts DEF Inv, TypeOK
    <2>4. rpackets[t] + n <= pkt_no[Peer(t)]
      <3>1. InStep(Peer(t))'
        BY <2>3 DEF Inv
      <3>2. rpackets'[t] <= pkt_no'[Peer(t)]
        BY <2>3, <3>1 DEF InStep
      <3>. QED  BY <2>1, <2>2, <2>3, <3>2
    <2>5. CASE n = 0
      <3>1. rpackets' = rpackets
        BY <2>2, <2>3, <2>5
      <3>. QED  BY <1>1, <2>1, <3>1
    <2>6. CASE n # 0
      <3>1. n \in 1 .. NR_BUFS
        BY <2>6, NrBufs
      <3>. QED  BY <1>1, <2>1, <2>2, <2>4, <3>1 DEF Reliable!Deliver, received
    <2>. QED  BY <2>5, <2>6
  <1>4. ASSUME \/ UNCHANGED vars
               \/ \E t \in Station :
                    \/ PhysicalLayerReady(t)
                    \/ \E i \in Slot : DataTimeout(t, i)
                    \/ AckTimeout(t)
                    \/ ReceiveDamaged(t)
                    \/ ReceiveAck(t)
                    \/ ReceiveNak(t)
                    \/ Lose(t)
        PROVE  UNCHANGED <<pkt_no, received>>
    <2>1. pkt_no' = pkt_no /\ rpackets' = rpackets
      BY <1>4 DEF PhysicalLayerReady, DataTimeout, AckTimeout, ReceiveDamaged,
                  ReceiveAck, ReceiveNak, Lose, Acknowledge, vars, receiverVars,
                  sourceVars
    <2>. QED  BY <1>1, <2>1
  <1>. QED  BY <1>2, <1>3, <1>4 DEF Next, StationStep, Receive, Reliable!Next, received

(* The two stations and the lossy link between them implement the reliable *)
(* link: every packet reaches the peer's network layer in order, once, at  *)
(* most NR_BUFS behind the sender.                                         *)
THEOREM LinkReliable == Spec => ImplementsReliableLink
  <1>1. Init => Reliable!Init
    BY DEF Init, Reliable!Init
  <1>2. Inv /\ Inv' /\ [Next]_vars
          => [Reliable!Next]_<<pkt_no, [s \in Station |-> IF aborted[s] THEN NoPacket
                                                         ELSE rpackets[s]]>>
    BY StepRefines
  <1>. QED  BY <1>1, <1>2, InvCorrect, PTL
            DEF Spec, ImplementsReliableLink, Reliable!Spec
=============================================================================
