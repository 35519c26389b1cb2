----------------------------- MODULE DnsMessage ------------------------------
(***************************************************************************)
(* How the relay of EasyDns/net.c reads and writes DNS messages: by        *)
(* offsets into the one buffer of runDns, over whatever earlier datagrams  *)
(* left there (or the stack, before the first).  A message is a sequence   *)
(* of bytes; the relay's structures are laid out by a compiler that aligns *)
(* ttl to four bytes, on a machine with the low byte first.                *)
(*                                                                         *)
(* Names have a label at least, and the server refers to the question for  *)
(* the name of its first record, as servers do.                            *)
(***************************************************************************)
EXTENDS Integers, Sequences, SequencesExt

CONSTANTS
  Labels,       \* names, as sequences of labels, which are sequences of bytes
  QTypes,       \* types asked for, two bytes each
  Addresses,    \* four bytes each
  TTLs,         \* four bytes each
  ANS_LEN,      \* of the buffer
  MaxDatagrams  \* bound: datagrams that arrive

VARIABLES
  buf,       \* of runDns
  packet,    \* the last datagram and what became of it
  received   \* bound: how many came

messageVars == <<buf, packet, received>>

At(msg, offset) == msg[offset + 1]

(* size bytes from an offset on. *)
BytesAt(msg, offset, size) == SubSeq(msg, offset + 1, offset + size)

(* bytes written over msg, from an offset on. *)
Put(msg, offset, bytes) ==
  [i \in DOMAIN msg |->
     IF i - offset \in DOMAIN bytes THEN bytes[i - offset] ELSE msg[i]]

HEADER == 12   \* sizeof(struct HEADER)
ANS == 16      \* sizeof(struct ANS), of which the record's head is 12

-----------------------------------------------------------------------------
(* What clients and servers send. *)

EncodedName(labels) ==
  FoldLeft(LAMBDA bytes, label : bytes \o <<Len(label)>> \o label, <<>>, labels) \o <<0>>

Question(labels, qtype) == EncodedName(labels) \o qtype \o <<0, 1>>

(* With EDNS: an OPT record for answers of 1232 bytes. *)
OPT == <<0, 0, 41, 4, 208, 0, 0, 0, 0, 0, 0>>

Query(labels, qtype, edns) ==
  <<7, 8, 1, 0, 0, 1, 0, 0, 0, 0, 0, IF edns THEN 1 ELSE 0>>
    \o Question(labels, qtype) \o (IF edns THEN OPT ELSE <<>>)

(* A record that refers to the question for its name. *)
Record(type, ttl, rdata) ==
  <<192, HEADER>> \o type \o <<0, 1>> \o ttl \o <<0, Len(rdata)>> \o rdata

A_TYPE == <<0, 1>>
CNAME == <<0, 5>>
CAA == <<1, 1>>

(* An address, an alias and its address, a CAA record or nothing.          *)
Response(labels, first, ip, ttl) ==
  LET records == CASE first = "A"     -> <<Record(A_TYPE, ttl, ip)>>
                   [] first = "CNAME" -> <<Record(CNAME, ttl, <<1, 99, 0>>), Record(A_TYPE, ttl, ip)>>
                   [] first = "CAA"   -> <<Record(CAA, ttl, <<0, 5, 105, 115>>)>>
                   [] first = "none"  -> <<>>
  IN  <<7, 8, 129, 128, 0, 1, 0, Len(records), 0, 0, 0, 0>>
        \o Question(labels, IF first = "CAA" THEN CAA ELSE A_TYPE)
        \o FlattenSeq(records)

-----------------------------------------------------------------------------
(* What the relay reads. *)

IsQueryMessage(msg) == At(msg, 3) = 0

(* strlen and five: the root, the type and the class. *)
LenOfQuery(msg) ==
  5 + CHOOSE n \in 0 .. Len(msg) :
        At(msg, HEADER + n) = 0 /\ \A k \in 0 .. n - 1 : At(msg, HEADER + k) # 0

AnswerAt(msg) == HEADER + LenOfQuery(msg)

(* The length of each label but the first becomes a dot, the first is      *)
(* passed over.                                                            *)
RECURSIVE Dotted(_)
Dotted(name) ==
  LET label == SubSeq(name, 2, Head(name) + 1)
      rest  == SubSeq(name, Head(name) + 2, Len(name))
  IN  IF rest = <<>> THEN label ELSE label \o <<46>> \o Dotted(rest)

GetAddress(msg) == Dotted(BytesAt(msg, HEADER, LenOfQuery(msg) - 5))

(* The second byte of the type is all that is looked at.                   *)
IsNotIpv4(msg) == At(msg, AnswerAt(msg) - 3) # 1

(* rdlength and ttl of the structure are four and two bytes behind those   *)
(* of the record.                                                          *)
GetIP(msg) == BytesAt(msg, AnswerAt(msg) + 12, 4)

GetTTlField(msg) == BytesAt(msg, AnswerAt(msg) + 8, 4)  \* slip: the field itself
GetTTl(msg) == BytesAt(msg, AnswerAt(msg) + 6, 4)

(* Sixteen bits from the middle of the type on, the low byte first.        *)
FirstIsA(msg) == BytesAt(msg, AnswerAt(msg) + 3, 2) = <<1, 0>>

-----------------------------------------------------------------------------
(* What the relay writes. *)

Website == [i \in 1 .. 23 |-> 119]   \* "it is a bad net website"

(* qr, and no aa; byte 3 of a query is zero already, and the low bits of   *)
(* htons(5) are, too.                                                      *)
MakeDnsHead(msg) ==
  LET flags == At(msg, 2) % 128
      aa    == (flags \div 4) % 2
  IN  Put(msg, 2, <<128 + flags - 4 * aa>>)

(* htons(0x1565) falls on the lower half of the record's TTL; what is in   *)
(* the upper half stays.  The eight bytes of a ulong are written.          *)
MakeDnsRR(msg, blocked, ip) ==
  LET rr     == AnswerAt(msg)
      head   == Put(Put(msg, 6, <<0, 1>>), rr, <<192, HEADER, 0, IF blocked THEN 16 ELSE 1, 0, 1>>)
      filled == Put(head, rr + 8, <<21, 101, 0, IF blocked THEN 24 ELSE 4>>)
  IN  IF blocked
      THEN Put(Put(filled, rr + 12, <<Len(Website)>> \o Website \o <<0>>), 3, <<5>>)
      ELSE Put(filled, rr + 12, ip \o <<0, 0, 0, 0>>)

(* extraLen stays zero if the name is not blocked. *)
ExtraLenSame(blocked) == 0  \* slip: room for an address only
ExtraLen(blocked) == IF blocked THEN Len(Website) - 3 ELSE 0

-----------------------------------------------------------------------------
NoPacket == [kind |-> "none"]

MessageInit ==
  /\ \E rubbish \in {0, 255} : buf = [i \in 1 .. ANS_LEN |-> rubbish]
  /\ packet = NoPacket
  /\ received = 0

(* recvfrom, and the copy dealWithPacket gets. *)
RecvFrom(datagram) ==
  /\ received < MaxDatagrams
  /\ received' = received + 1
  /\ buf' = Put(buf, 0, datagram)

(* A query for a name that is known, blocked or not. *)
AnswerQuery(labels, qtype, edns, blocked, ip) ==
  LET query == Query(labels, qtype, edns)
  IN  /\ RecvFrom(query)
      /\ IsQueryMessage(buf') /\ ~ IsNotIpv4(buf')
      /\ packet' =
           [kind |-> "reply", labels |-> labels, query |-> query, edns |-> edns,
            blocked |-> blocked, ip |-> ip, domain |-> GetAddress(buf'),
            sent |-> BytesAt(MakeDnsRR(MakeDnsHead(buf'), blocked, ip), 0,
                             Len(query) + ANS + ExtraLen(blocked))]

(* Any other goes on as it came. *)
ForwardQuery(labels, qtype, edns) ==
  /\ RecvFrom(Query(labels, qtype, edns))
  /\ IsQueryMessage(buf')
  /\ packet' = [kind |-> "forwarded", labels |-> labels, domain |-> GetAddress(buf')]

(* An answer, and what of it is put into the cache. *)
ReadAnswer(labels, first, ip, ttl) ==
  /\ RecvFrom(Response(labels, first, ip, ttl))
  /\ ~ IsQueryMessage(buf')
  /\ packet' =
       [kind |-> "answer", labels |-> labels, first |-> first, ip |-> ip, ttl |-> ttl,
        domain |-> GetAddress(buf'),
        cached |-> IF FirstIsA(buf') THEN <<GetIP(buf'), GetTTl(buf')>> ELSE <<>>]

MessageNext ==
  \/ \E labels \in Labels, qtype \in QTypes, edns, blocked \in BOOLEAN, ip \in Addresses :
       AnswerQuery(labels, qtype, edns, blocked, ip)
  \/ \E labels \in Labels, qtype \in QTypes, edns \in BOOLEAN :
       ForwardQuery(labels, qtype, edns)
  \/ \E labels \in Labels, first \in {"A", "CNAME", "CAA", "none"},
        ip \in Addresses, ttl \in TTLs :
       ReadAnswer(labels, first, ip, ttl)

MessageSpec == MessageInit /\ [][MessageNext]_messageVars

-----------------------------------------------------------------------------
(* The name of a datagram, read back from its dots. *)
DomainRight ==
  LET split(acc, byte) == IF byte = 46 THEN Append(acc, <<>>)
                          ELSE [acc EXCEPT ![Len(acc)] = Append(@, byte)]
  IN  FoldLeft(split, << <<>> >>, packet.domain) = packet.labels

(* A reply the relay makes itself, read as RFC 1035 says, is the question, *)
(* one record about it with the address or the text, and nothing more,     *)
(* whatever was in the buffer.  Two things are not promised: the upper     *)
(* half of the TTL is what was in the buffer, and the additional record of *)
(* a query with EDNS, counted still, is written over.                      *)
ReplyReadsBack ==
  packet.kind = "reply" =>
    LET sent   == packet.sent
        rr     == Len(packet.query)
        rdata  == IF packet.blocked THEN <<Len(Website)>> \o Website ELSE packet.ip
    IN  /\ DomainRight
        /\ ~ packet.edns =>
             /\ BytesAt(sent, 0, 2) = BytesAt(packet.query, 0, 2)
             /\ At(sent, 2) \div 128 = 1
             /\ At(sent, 3) = IF packet.blocked THEN 5 ELSE 0
             /\ BytesAt(sent, 4, 8) = <<0, 1, 0, 1, 0, 0, 0, 0>>
             /\ BytesAt(sent, HEADER, rr - HEADER) = BytesAt(packet.query, HEADER, rr - HEADER)
             /\ BytesAt(sent, rr, 6) =
                  <<192, HEADER>> \o (IF packet.blocked THEN <<0, 16>> ELSE A_TYPE) \o <<0, 1>>
             /\ BytesAt(sent, rr + 8, Len(sent) - rr - 8) =
                  <<21, 101, 0, Len(rdata)>> \o rdata

(* What an answer puts into the cache is the name, the address and the     *)
(* lifetime of its first record, and only if that is an address: but a CAA *)
(* record is taken for one, and an answer without records for what an      *)
(* earlier datagram left behind it.                                        *)
CachedAsSaid ==
  packet.kind = "answer" =>
    /\ DomainRight
    /\ packet.first = "A" => packet.cached = <<packet.ip, packet.ttl>>
    /\ packet.first = "CNAME" => packet.cached = <<>>
=============================================================================
