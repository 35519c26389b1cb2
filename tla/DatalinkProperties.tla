------------------------ MODULE DatalinkProperties --------------------------
(***************************************************************************)
(* What makes the selective-repeat data link layer correct.                *)
(***************************************************************************)
EXTENDS Datalink

(* Every variable of main() and of the layers below keeps its range; in    *)
(* particular the counter now_postion, an unsigned char, never wraps.      *)
TypeOK ==
  /\ next_frame_to_send   \in [Station -> SeqNr]
  /\ ack_expected         \in [Station -> SeqNr]
  /\ now_postion          \in [Station -> 0 .. UCHAR - 1]
  /\ to_phy_buffer        \in [Station -> [Slot -> Packet]]
  /\ timer                \in [Station -> SUBSET Slot]
  /\ frame_expected       \in [Station -> SeqNr]
  /\ too_far              \in [Station -> SeqNr]
  /\ have_arrived         \in [Station -> SUBSET Slot]
  /\ to_network_buffer    \in [Station -> [Slot -> Packet]]
  /\ no_nak               \in [Station -> BOOLEAN]
  /\ ack_timer            \in [Station -> BOOLEAN]
  /\ phl_ready            \in [Station -> BOOLEAN]
  /\ inform_phl_ready     \in [Station -> BOOLEAN]
  /\ link                 \in [Station -> Seq(Frame)]
  /\ network_layer_active \in [Station -> BOOLEAN]
  /\ pkt_no               \in [Station -> Nat]
  /\ rpackets             \in [Station -> Nat]
  /\ aborted              \in [Station -> BOOLEAN]

-----------------------------------------------------------------------------
(* The sender. *)

(* The number of the j-th frame of the send window, and its packet.        *)
Outstanding(s, j) == Advance(ack_expected[s], j)
OutstandingPacket(s, j) == pkt_no[s] - now_postion[s] + j

(* now_postion counts the frames between ack_expected and                  *)
(* next_frame_to_send, they never outnumber the buffers, and the network   *)
(* layer is open only when a buffer is free: the three are kept in step by *)
(* different statements of main().                                         *)
WindowOK ==
  \A s \in Station :
    /\ now_postion[s] <= NR_BUFS
    /\ next_frame_to_send[s] = Advance(ack_expected[s], now_postion[s])
    /\ network_layer_active[s] => now_postion[s] < NR_BUFS

(* A data timer runs for each frame of the send window and for no other,   *)
(* although a timer belongs to two sequence numbers and a NAK restarts it: *)
(* a frame without a timer could be lost for good, a stray timer would     *)
(* send a frame that is outside the window.                                *)
TimersGuardOutstanding ==
  \A s \in Station :
    timer[s] = {SlotOf(Outstanding(s, j)) : j \in 0 .. now_postion[s] - 1}

(* The packet of every frame of the send window is still in its buffer:    *)
(* whatever a timeout or a NAK sends again is the packet first sent.       *)
RetransmitBuffered ==
  \A s \in Station : \A j \in 0 .. now_postion[s] - 1 :
    to_phy_buffer[s][SlotOf(Outstanding(s, j))] = OutstandingPacket(s, j)

-----------------------------------------------------------------------------
(* The receiver. *)

(* put_packet never gets a packet other than the next one of the peer's    *)
(* stream, which makes it abort the program (protocol.c).                  *)
NoBadPacket == \A s \in Station : ~aborted[s]

(* The windows do not overlap (the comments at NR_BUFS and too_far): a     *)
(* DATA frame on its way whose number falls in the receive window carries  *)
(* the packet that number stands for now, not one from a window ago.       *)
NoOverlap ==
  \A s \in Station : \A i \in DOMAIN link[s] : \A j \in 0 .. NR_BUFS - 1 :
    LET f == link[s][i]
        p == Peer(s)
    IN  f.kind = "DATA" /\ f.seq = Advance(frame_expected[p], j)
          => f.data = rpackets[p] + j

(* An acknowledgement on its way, on a frame of any kind, covers only      *)
(* packets the network layer of its sender has received, so a buffer is    *)
(* never freed, nor its timer stopped, before its packet is safe.          *)
AckHonest ==
  \A s \in Station :
    /\ OutstandingPacket(s, 0) <= rpackets[Peer(s)]
    /\ \A i \in DOMAIN link[Peer(s)] : \A j \in 0 .. now_postion[s] - 1 :
         link[Peer(s)][i].ack = Outstanding(s, j)
           => OutstandingPacket(s, j) < rpackets[Peer(s)]

(* The comment at no_nak: a NAK is not sent twice for the same frame.      *)
AtMostOneNak ==
  \A s \in Station : \A i, j \in DOMAIN link[s] :
    /\ link[s][i].kind = "NAK"
    /\ link[s][j].kind = "NAK"
    /\ link[s][i].ack = link[s][j].ack
    => i = j

(* No lost wakeup: a station whose network layer is closed waits for an    *)
(* event that will come, the report of the physical layer or the           *)
(* retransmission of a frame of its full window.                           *)
NeverStuck ==
  \A s \in Station :
    \/ network_layer_active[s]
    \/ inform_phl_ready[s]
    \/ now_postion[s] = NR_BUFS /\ timer[s] # {}

-----------------------------------------------------------------------------
(* Together the two stations implement the reliable link; a station that   *)
(* aborted has not received its stream.                                    *)
Reliable == INSTANCE ReliableLink WITH
  Window   <- NR_BUFS,
  sent     <- pkt_no,
  received <- [s \in Station |-> IF aborted[s] THEN NoPacket ELSE rpackets[s]]

(* Every packet reaches the peer's network layer in order, once, at most   *)
(* NR_BUFS behind the sender.                                              *)
ImplementsReliableLink == Reliable!Spec

(* ... and every packet sent does arrive, whatever frames the link loses   *)
(* or damages on the way.                                                  *)
ImplementsFairReliableLink == Reliable!FairSpec

(* Every frame sent is acknowledged in the end: the last ones too, when no  *)
(* DATA frame follows to carry the acknowledgement, and although the ACK   *)
(* itself may be lost.                                                     *)
EventuallyAcknowledged ==
  \A s \in Station : \A k \in 0 .. PktLimit[s] - 1 :
    pkt_no[s] > k ~> OutstandingPacket(s, 0) > k
=============================================================================
