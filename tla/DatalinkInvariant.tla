------------------------- MODULE DatalinkInvariant --------------------------
(***************************************************************************)
(* Why the data link layer is correct: an inductive invariant of the two   *)
(* stations and the frames between them, from which the safety properties  *)
(* follow.  It speaks of packets by their position in the stream, which    *)
(* the code never sees, and says which sequence number stands for which    *)
(* position in each part of the state.                                     *)
(*                                                                         *)
(* S packets were sent, R received; fe is frame_expected, ae ack_expected  *)
(* and acked the position ae stands for; q is the link the frames are on.  *)
(***************************************************************************)
EXTENDS DatalinkProperties

Acked(s) == OutstandingPacket(s, 0)

(* A DATA frame is at most a window behind the receiver, and its number is *)
(* as far from fe as its packet is from R.                                 *)
GoodData(f, S, R, fe) ==
  f.kind = "DATA" =>
    /\ f.data \in 0 .. S - 1
    /\ R <= f.data + NR_BUFS
    /\ f.data >= R => f.seq = Advance(fe, f.data - R)
    /\ f.data < R  => fe = Advance(f.seq, R - f.data)

(* The sender was less than a window past g when it sent g after f.        *)
OrderedData(f, g) ==
  f.kind = "DATA" /\ g.kind = "DATA" => f.data < g.data + NR_BUFS

DataOnLink(q, S, R, fe) ==
  /\ \A i \in DOMAIN q : GoodData(q[i], S, R, fe)
  /\ \A i, j \in DOMAIN q : i < j => OrderedData(q[i], q[j])

(* What a frame acknowledges, as a distance from ae: the next number it    *)
(* asks for.                                                               *)
Asked(f, ae) == Offset(ae, NakTarget(f.ack))

(* No frame acknowledges what was not received, none acknowledges less     *)
(* than the frame before it.                                               *)
AcksOnLink(q, ae, acked, R) ==
  /\ \A i \in DOMAIN q : acked + Asked(q[i], ae) <= R
  /\ \A i, j \in DOMAIN q : i < j => Asked(q[i], ae) <= Asked(q[j], ae)

(* The NAKs ask for different frames, the last one perhaps for fe.         *)
NaksOnLink(q, fe, none) ==
  /\ \A i \in DOMAIN q :
       q[i].kind = "NAK" /\ NakTarget(q[i].ack) = fe => ~none
  /\ \A i, j \in DOMAIN q :
       q[i].kind = "NAK" /\ q[j].kind = "NAK" /\ q[i].ack = q[j].ack => i = j

(* A slot of the receive window that is taken holds the packet its number  *)
(* stands for; it was sent, and is less than a window past any frame still *)
(* on its way.                                                             *)
Buffered(have, buffer, q, S, R, fe) ==
  \A o \in 0 .. NR_BUFS - 1 :
    LET slot == SlotOf(Advance(fe, o))
    IN  slot \in have =>
          /\ o > 0
          /\ buffer[slot] = R + o
          /\ R + o < S
          /\ \A i \in DOMAIN q :
               q[i].kind = "DATA" => R + o < q[i].data + NR_BUFS

(* The windows of a sender and its receiver overlap.                       *)
InStep(s) ==
  LET p == Peer(s)
  IN  /\ now_postion[s] <= pkt_no[s]
      /\ Acked(s) <= rpackets[p]
      /\ rpackets[p] <= pkt_no[s]
      /\ frame_expected[p] = Advance(ack_expected[s], rpackets[p] - Acked(s))
      /\ too_far[p] = Advance(frame_expected[p], NR_BUFS)

InFlight(s) ==
  LET p == Peer(s)
  IN  /\ DataOnLink(link[s], pkt_no[s], rpackets[p], frame_expected[p])
      /\ AcksOnLink(link[p], ack_expected[s], Acked(s), rpackets[p])
      /\ NaksOnLink(link[p], frame_expected[p], no_nak[p])
      /\ Buffered(have_arrived[p], to_network_buffer[p], link[s],
                  pkt_no[s], rpackets[p], frame_expected[p])

(* The network layer is closed only for want of room, or of the physical   *)
(* layer, which then owes a report.                                        *)
Gate(s) ==
  /\ phl_ready[s] \/ inform_phl_ready[s]
  /\ network_layer_active[s] \/ ~phl_ready[s] \/ now_postion[s] = NR_BUFS

Inv ==
  /\ TypeOK
  /\ WindowOK
  /\ TimersGuardOutstanding
  /\ RetransmitBuffered
  /\ NoBadPacket
  /\ \A s \in Station : InStep(s) /\ InFlight(s) /\ Gate(s)
=============================================================================
