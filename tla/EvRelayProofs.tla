--------------------------- MODULE EvRelayProofs ----------------------------
(***************************************************************************)
(* EvInv is an invariant of the libuv relay, for any clients, names,       *)
(* table, number of slots, batch and bounds; who can get whose answer,     *)
(* what can crash the program and what can turn to garbage follow from it. *)
(***************************************************************************)
EXTENDS EvRelay, WellFoundedInduction, TLAPS

-----------------------------------------------------------------------------
(* The inductive invariant: where everything that is on its way comes      *)
(* from.                                                                   *)

(* A query about the name has written to the slot, and an address with it. *)
Given(slot, name) ==
  /\ slot \in Slot \ {0}
  /\ \E q \in uses[slot] : q.name = name
  /\ cacheForId[slot].value # NULL

(* The server was asked for the name by such a query, or by one that was   *)
(* overwritten.                                                            *)
Answerable(id, name) == Given(id, name) \/ [id |-> id, name |-> name] \in garbled

(* A datagram is something a client sent, or the server's answer to what   *)
(* it was asked.                                                           *)
Known(d) ==
  \/ d \in ClientQuery /\ \E i \in DOMAIN asked : asked[i] = d
  \/ /\ d \in ServerAnswer /\ \E i \in DOMAIN answers : answers[i] = d
     /\ Answerable(d.id, d.name)

InboxKnown == \A i \in DOMAIN inbox : Known(inbox[i])
SlabKnown == count > 0 => Known(slab)

(* What a slot keeps is of queries that wrote to it, the address perhaps   *)
(* of another than the number.                                             *)
SlotsKeepUses ==
  \A s \in CacheIndex :
    /\ cacheForId[s].value # NULL =>
         s \in Slot /\ \E q \in uses[s] : q.from = cacheForId[s].value
    /\ s \in Slot /\ uses[s] # {} => \E q \in uses[s] : q.id = cacheForId[s].key

(* An answer passed on is one of the server's, and goes where queries of   *)
(* its slot came from.                                                     *)
Answers(r) ==
  \E i \in DOMAIN answers : /\ answers[i].id = r.slot /\ answers[i].name = r.name
                            /\ r.content = FirstBytes(answers[i])

ReplyMadeOf(r) ==
  /\ r.slot # OwnAnswer /\ r.content # "query" => Answers(r)
  /\ FromServer(r) =>
       /\ r.slot \in Slot
       /\ \E q \in uses[r.slot] : q.from = r.client
       /\ \E q \in uses[r.slot] : q.id = r.id
       /\ \/ \E q \in uses[r.slot] : q.name = r.name
          \/ [id |-> r.slot, name |-> r.name] \in garbled

RepliesMade == \A r \in replies : ReplyMadeOf(r)
UpstreamKnown == \A u \in upstream : Answerable(u.id, u.name)

(* What may be sent: a query of a slot, or a reply that is made of what    *)
(* the queries of its slot had; one that can be garbage is the relay's own.*)
Sendable(send) ==
  \/ /\ send.to = Server
     /\ send.message \in Request
     /\ Answerable(send.message.id, send.message.name)
  \/ /\ send.to \in Client
     /\ send.message \in Reply
     /\ ReplyMadeOf(send.message)
     /\ send.freed => send.message.slot = OwnAnswer

PendingMade == \A i \in DOMAIN pending : Sendable(pending[i])

EvInv ==
  /\ TypeOK
  /\ InboxKnown
  /\ SlabKnown
  /\ SlotsKeepUses
  /\ RepliesMade
  /\ UpstreamKnown
  /\ PendingMade
  /\ CrashNeedsFlagOrGarbling

-----------------------------------------------------------------------------
(* The table. *)

Below == {p \in Nat \X Nat : p[1] < p[2]}

(* A set of natural numbers has a least one, since going down ends. *)
LEMMA LeastNatural ==
  ASSUME NEW T, T \subseteq Nat, T # {}
  PROVE  \E x \in T : \A y \in T : x <= y
<1>1. OpToRel(<, Nat) = Below
  BY DEF OpToRel, Below
<1>2. IsWellFoundedOn(Below, Nat)
  BY <1>1, NatLessThanWellFounded
<1>3. PICK x \in T : \A y \in T : ~ (<<y, x>> \in Below)
  BY <1>2, WFMin
<1>4. ASSUME NEW y \in T, y < x PROVE FALSE
  <2>1. <<y, x>> \in Nat \X Nat
    OBVIOUS
  <2>2. <<y, x>> \in Below
    BY <2>1, <1>4 DEF Below
  <2> QED BY <2>2, <1>3
<1> QED BY <1>3, <1>4

(* The lookup of a name the table has gives the address of a line. *)
LEMMA FoundIsInTable ==
  ASSUME NEW name, Answered(name)
  PROVE  FindHashMap(name) \in {"0.0.0.0", "address"}
<1> DEFINE N == Len(Table)
           T == {N - i : i \in Lines(name)}
<1>1. /\ N \in Nat
      /\ \A i \in Lines(name) : /\ i \in Nat /\ i <= N
                                /\ Table[i].ip \in {"0.0.0.0", "address"}
  <2> DEFINE Line == [ip : {"0.0.0.0", "address"}, domain : Name]
  <2>1. Table \in Seq(Line)
    BY EvRelayAssumption
  <2>2. \A l \in Line : l.ip \in {"0.0.0.0", "address"}
    OBVIOUS
  <2> HIDE DEF Line
  <2>3. N \in Nat /\ \A i \in Lines(name) : i \in 1 .. N /\ Table[i] \in Line
    BY <2>1 DEF Lines
  <2> HIDE DEF N
  <2> QED BY <2>2, <2>3
<1> HIDE DEF N
<1>2. T \subseteq Nat /\ T # {}
  BY <1>1 DEF Answered
<1>3. PICK x \in T : \A y \in T : x <= y
  <2> HIDE DEF T
  <2> QED BY <1>2, LeastNatural
<1>4. PICK i \in Lines(name) : x = N - i
  BY <1>3
<1>5. ASSUME NEW j \in Lines(name) PROVE j <= i
  <2>1. N - i <= N - j
    BY <1>3, <1>4
  <2>2. i \in Nat /\ j \in Nat
    BY <1>1
  <2> QED BY <2>1, <2>2, <1>1
<1>6. (CHOOSE k \in Lines(name) : \A j \in Lines(name) : j <= k) \in Lines(name)
  BY <1>5
<1> QED BY <1>1, <1>6 DEF FindHashMap

-----------------------------------------------------------------------------
(* What stays true while slots are written to and queries and answers      *)
(* arrive.                                                                 *)

(* Slots are given more queries, and an address is kept or replaced. *)
SlotsGrow ==
  \A s \in Slot : /\ uses[s] \subseteq uses'[s]
                  /\ cacheForId[s].value # NULL => cacheForId'[s].value # NULL

HistoryGrows ==
  /\ \A i \in DOMAIN asked : i \in DOMAIN asked' /\ asked'[i] = asked[i]
  /\ \A i \in DOMAIN answers : i \in DOMAIN answers' /\ answers'[i] = answers[i]
  /\ garbled \subseteq garbled'

Grows == SlotsGrow /\ HistoryGrows

history == <<asked, garbled, answers>>

LEMMA AnswerableStays ==
  ASSUME Grows, NEW id, NEW name, Answerable(id, name)
  PROVE  Answerable(id, name)'
BY DEF Grows, SlotsGrow, HistoryGrows, Answerable, Given

LEMMA KnownStays ==
  ASSUME Grows, NEW d, Known(d)
  PROVE  Known(d)'
<1>1. CASE d \in ClientQuery /\ \E i \in DOMAIN asked : asked[i] = d
  BY <1>1 DEF Known, Grows, HistoryGrows
<1>2. CASE /\ d \in ServerAnswer /\ \E i \in DOMAIN answers : answers[i] = d
           /\ Answerable(d.id, d.name)
  <2>1. \E i \in DOMAIN answers' : answers'[i] = d
    BY <1>2 DEF Grows, HistoryGrows
  <2>2. Answerable(d.id, d.name)'
    BY <1>2, AnswerableStays
  <2> QED BY <1>2, <2>1, <2>2 DEF Known
<1> QED BY <1>1, <1>2 DEF Known

LEMMA ReplyMadeStays ==
  ASSUME Grows, NEW r, ReplyMadeOf(r)
  PROVE  ReplyMadeOf(r)'
<1>1. Answers(r) => Answers(r)'
  BY DEF Answers, Grows, HistoryGrows
<1>2. FromServer(r)' <=> FromServer(r)
  BY DEF FromServer
<1> QED BY <1>1, <1>2 DEF Grows, SlotsGrow, HistoryGrows, ReplyMadeOf

(* A known datagram is a datagram, and a query is one of a client.         *)
LEMMA KnownIsDatagram ==
  ASSUME NEW d, Known(d)
  PROVE  /\ d \in Datagram
         /\ IsQuery(d) => d \in ClientQuery
BY DEF Known, Datagram, ClientQuery, ServerAnswer, IsQuery

-----------------------------------------------------------------------------
(* Sending. *)

Send == [to : {Server}, message : Request, freed : BOOLEAN]
        \cup [to : Client, message : Reply, freed : BOOLEAN]

Sends == /\ pending \in Seq(Send)
         /\ upstream \subseteq Request
         /\ replies \subseteq Reply
         /\ garbled \subseteq Request
         /\ RepliesMade /\ UpstreamKnown /\ PendingMade

LEMMA ServerIsNoClient ==
  Server \notin Client /\ NULL \notin Client /\ NULL # Server
BY EvRelayAssumption

LEMMA SendableStays ==
  ASSUME Grows, NEW send, Sendable(send)
  PROVE  Sendable(send)'
<1>1. CASE send.to = Server /\ send.message \in Request
           /\ Answerable(send.message.id, send.message.name)
  <2>1. Answerable(send.message.id, send.message.name)'
    BY <1>1, AnswerableStays
  <2> QED BY <1>1, <2>1 DEF Sendable
<1>2. CASE /\ send.to \in Client /\ send.message \in Reply
           /\ ReplyMadeOf(send.message)
           /\ send.freed => send.message.slot = OwnAnswer
  <2>1. ReplyMadeOf(send.message)'
    BY <1>2, ReplyMadeStays
  <2> QED BY <1>2, <2>1 DEF Sendable
<1> QED BY <1>1, <1>2 DEF Sendable

LEMMA SendsStay ==
  ASSUME Sends, Grows, UNCHANGED <<pending, upstream, replies, garbled>>
  PROVE  Sends'
<1>1. RepliesMade'
  BY ReplyMadeStays DEF Sends, RepliesMade
<1>2. UpstreamKnown'
  BY AnswerableStays DEF Sends, UpstreamKnown
<1>3. PendingMade'
  BY SendableStays DEF Sends, PendingMade
<1> QED BY <1>1, <1>2, <1>3 DEF Sends

(* What is delivered becomes a query upstream or a reply. *)
LEMMA DeliveredKeepsSends ==
  ASSUME Sends, Grows, NEW send,
         Sendable(send)', Delivered(send.to, send.message)
  PROVE  /\ upstream' \subseteq Request /\ UpstreamKnown'
         /\ replies' \subseteq Reply /\ RepliesMade'
<1>1. \A u \in upstream : Answerable(u.id, u.name)'
  BY AnswerableStays DEF Sends, UpstreamKnown
<1>2. \A r \in replies : ReplyMadeOf(r)'
  BY ReplyMadeStays DEF Sends, RepliesMade
<1>3. CASE send.to = Server
  <2>1. /\ send.message \in Request
        /\ Answerable(send.message.id, send.message.name)'
    BY <1>3, ServerIsNoClient DEF Sendable
  <2>2. upstream' = upstream \cup {send.message} /\ replies' = replies
    BY <1>3 DEF Delivered
  <2> QED BY <1>1, <1>2, <2>1, <2>2 DEF Sends, UpstreamKnown, RepliesMade
<1>4. CASE send.to # Server
  <2>1. send.message \in Reply /\ ReplyMadeOf(send.message)'
    BY <1>4 DEF Sendable
  <2>2. replies' = replies \cup {send.message} /\ upstream' = upstream
    BY <1>4 DEF Delivered
  <2> QED BY <1>1, <1>2, <2>1, <2>2 DEF Sends, UpstreamKnown, RepliesMade
<1> QED BY <1>3, <1>4

LEMMA UdpSendKeepsSends ==
  ASSUME Sends, Grows, NEW to, NEW message, NEW freed \in BOOLEAN,
         Sendable([to |-> to, message |-> message, freed |-> freed])',
         UdpSend(to, message, freed), UNCHANGED garbled
  PROVE  Sends'
<1> DEFINE send == [to |-> to, message |-> message, freed |-> freed]
<1>1. send \in Send /\ send.to = to /\ send.message = message
  BY DEF Sendable, Send
<1>2. Sendable(send)'
  OBVIOUS
<1> HIDE DEF send
<1>3. CASE Delivered(send.to, send.message) /\ pending' = pending
  <2>1. PendingMade'
    BY <1>3, SendableStays DEF Sends, PendingMade
  <2> QED BY <1>2, <1>3, <2>1, DeliveredKeepsSends DEF Sends
<1>4. CASE pending' = Append(pending, send) /\ UNCHANGED <<upstream, replies>>
  <2>1. /\ pending' \in Seq(Send)
        /\ \A i \in DOMAIN pending' : \/ pending'[i] = send
                                      \/ (i \in DOMAIN pending /\ pending'[i] = pending[i])
    BY <1>1, <1>4 DEF Sends
  <2>2. PendingMade'
    BY <2>1, <1>2, SendableStays DEF Sends, PendingMade
  <2>3. UpstreamKnown' /\ RepliesMade'
    BY <1>4, AnswerableStays, ReplyMadeStays DEF Sends, UpstreamKnown, RepliesMade
  <2> QED BY <1>4, <2>1, <2>2, <2>3 DEF Sends
<1> QED BY <1>1, <1>3, <1>4 DEF UdpSend, send

LEMMA FlushKeepsSends ==
  ASSUME Sends, Flush
  PROVE  Sends'
<1>1. Grows
  <2>1. garbled \subseteq garbled'
    BY DEF Flush, Flushed, Overwritten
  <2> QED BY <2>1 DEF Grows, SlotsGrow, HistoryGrows, Flush, network
<1>2. pending # <<>> /\ pending' = Tail(pending) /\ Flushed(Head(pending))
  BY DEF Flush
<1>3. /\ pending' \in Seq(Send)
      /\ \A i \in DOMAIN pending' : i + 1 \in DOMAIN pending /\ pending'[i] = pending[i + 1]
      /\ Head(pending) = pending[1] /\ 1 \in DOMAIN pending
  BY <1>2 DEF Sends
<1>4. PICK send : send = Head(pending)
  OBVIOUS
<1>5. Sendable(send)'
  BY <1>1, <1>3, <1>4, SendableStays DEF Sends, PendingMade
<1>6. PendingMade'
  BY <1>1, <1>3, SendableStays DEF Sends, PendingMade
<1>7. /\ upstream' \subseteq Request /\ UpstreamKnown'
      /\ replies' \subseteq Reply /\ RepliesMade'
      /\ garbled' \subseteq Request
  <2>1. CASE Delivered(send.to, send.message) /\ garbled' = garbled
    BY <2>1, <1>1, <1>5, DeliveredKeepsSends DEF Sends
  <2>2. CASE send.to = Server /\ Overwritten(send)
    <3>1. PICK g \in [id : Number, name : Name] :
            Delivered(Server, g) /\ garbled' = garbled \cup {g}
      BY <2>2 DEF Overwritten
    <3>2. g \in Request /\ g = [id |-> g.id, name |-> g.name]
      BY <3>1 DEF Request
    <3>3. Answerable(g.id, g.name)'
      BY <3>1, <3>2 DEF Answerable
    <3>4. PICK new : new = [to |-> Server, message |-> g, freed |-> TRUE]
      OBVIOUS
    <3>5. new.to = Server /\ new.message = g
      BY <3>4
    <3>6. Sendable(new)'
      BY <3>2, <3>3, <3>5 DEF Sendable
    <3>7. Delivered(new.to, new.message)
      BY <3>1, <3>5
    <3> QED BY <3>1, <3>2, <3>6, <3>7, <1>1, DeliveredKeepsSends DEF Sends
  <2>3. CASE send.freed /\ send.to # Server /\ Overwritten(send)
    <3>1. PICK g : g = [to |-> send.to, freed |-> TRUE,
                        message |-> [send.message EXCEPT !.content = "garbage"]]
      OBVIOUS
    <3>2. /\ send.to \in Client /\ send.message \in Reply
          /\ send.message.slot = OwnAnswer
      BY <1>5, <2>3 DEF Sendable
    <3>3. /\ g.to = send.to /\ g.message \in Reply /\ g.message.slot = OwnAnswer
          /\ g.message.content = "garbage"
      BY <3>1, <3>2 DEF Reply
    <3>4. Sendable(g)'
      BY <3>2, <3>3 DEF Sendable, ReplyMadeOf, FromServer
    <3>5. Delivered(g.to, g.message) /\ garbled' = garbled
      BY <2>3, <3>1 DEF Overwritten
    <3> QED BY <3>4, <3>5, <1>1, DeliveredKeepsSends DEF Sends
  <2> QED BY <1>2, <1>4, <2>1, <2>2, <2>3 DEF Flushed
<1> QED BY <1>3, <1>6, <1>7 DEF Sends

-----------------------------------------------------------------------------
(* What dealWithPacket does with a query and with an answer. *)

SlotsType ==
  /\ cacheForId \in [CacheIndex -> [key : Number, value : Client \cup {NULL}]]
  /\ uses \in [Slot -> SUBSET ClientQuery]

(* What holds of the slots and of what is sent. *)
Kernel == SlotsType /\ SlotsKeepUses /\ Sends

LEMMA KernelOfInv == EvInv => Kernel
BY DEF EvInv, Kernel, Sends, SlotsType, TypeOK, Send

LEMMA SlotsAreNumbers ==
  /\ CACHELEN \in Nat \ {0} /\ Batch \in Nat \ {0}
  /\ Number \subseteq Nat /\ Id \subseteq Number /\ Slot \subseteq Number /\ 0 \in Number
  /\ Slot \subseteq CacheIndex /\ CacheIndex \subseteq Nat
  /\ \A i \in Nat : i % CACHELEN \in Slot
  /\ \A i \in Slot : i % CACHELEN = i
<1>1. /\ CACHELEN \in Nat \ {0} /\ Batch \in Nat \ {0}
      /\ Number \subseteq Nat /\ Id \subseteq Number
      /\ 0 .. CACHELEN - 1 \subseteq Number /\ 0 \in 0 .. CACHELEN - 1
  BY EvRelayAssumption
<1> QED BY <1>1 DEF Slot, CacheIndex

LEMMA AnswerFromTableKeeps ==
  ASSUME Kernel, NEW d \in ClientQuery, NEW addr \in Client \cup {NULL},
         Answered(d.name), AnswerFromTable(d, addr), UNCHANGED history
  PROVE  Kernel' /\ Grows
<1>1. SlotsType' /\ SlotsKeepUses' /\ Grows /\ garbled' = garbled
  BY DEF AnswerFromTable, Kernel, SlotsType, SlotsKeepUses, Grows, SlotsGrow, HistoryGrows,
         history
<1>2. CASE addr = NULL
  BY <1>1, <1>2, SendsStay DEF AnswerFromTable, Kernel
<1>3. CASE addr # NULL
  <2> DEFINE reply == ReplyOf(addr, d.id, d.name, OwnAnswer, FindHashMap(d.name))
  <2>1. FindHashMap(d.name) \in {"0.0.0.0", "address"}
    BY FoundIsInTable
  <2>2. addr \in Client /\ addr # Server
    BY <1>3, ServerIsNoClient
  <2>3. reply \in Reply /\ reply.slot = OwnAnswer /\ ~ FromServer(reply)
    BY <2>1, <2>2, SlotsAreNumbers DEF ReplyOf, Reply, ClientQuery, FromServer
  <2>4. PICK message : message = reply
    OBVIOUS
  <2>5. Sendable([to |-> addr, message |-> message, freed |-> TRUE])'
    BY <2>2, <2>3, <2>4 DEF Sendable, ReplyMadeOf
  <2>6. UdpSend(addr, message, TRUE)
    BY <1>3, <2>4 DEF AnswerFromTable
  <2> QED BY <1>1, <2>5, <2>6, UdpSendKeepsSends DEF Kernel
<1> QED BY <1>2, <1>3

LEMMA RelayKeeps ==
  ASSUME Kernel, NEW d \in ClientQuery, NEW addr \in Client \cup {NULL},
         addr # NULL => addr = d.from,
         NEW slot \in Slot, Relay(d, addr, slot), UNCHANGED history
  PROVE  Kernel' /\ Grows
<1> DEFINE new == [key |-> d.id,
                   value |-> IF addr = NULL THEN cacheForId[slot].value ELSE addr]
<1>1. /\ slot \in CacheIndex /\ Slot \subseteq CacheIndex
      /\ d.id \in Number /\ slot \in Number /\ d.name \in Name /\ d.from \in Client
  BY SlotsAreNumbers DEF ClientQuery
<1>2. /\ cacheForId' = [cacheForId EXCEPT ![slot] = new]
      /\ uses' = [uses EXCEPT ![slot] = @ \cup {d}]
  BY DEF Relay, Kept
<1>3. /\ cacheForId'[slot] = new
      /\ \A s \in CacheIndex : s # slot => cacheForId'[s] = cacheForId[s]
      /\ uses'[slot] = uses[slot] \cup {d}
      /\ \A s \in Slot : s # slot => uses'[s] = uses[s]
  BY <1>1, <1>2 DEF Kernel, SlotsType
<1>4. SlotsType'
  <2>1. new \in [key : Number, value : Client \cup {NULL}]
    BY <1>1 DEF Kernel, SlotsType
  <2> HIDE DEF new
  <2> QED BY <1>2, <2>1 DEF Kernel, SlotsType
<1>5. Grows /\ garbled' = garbled
  BY <1>1, <1>3 DEF Grows, SlotsGrow, HistoryGrows, history
<1>6. SlotsKeepUses'
  <2> SUFFICES ASSUME NEW s \in CacheIndex
               PROVE  /\ cacheForId'[s].value # NULL =>
                           s \in Slot /\ \E q \in uses'[s] : q.from = cacheForId'[s].value
                      /\ s \in Slot /\ uses'[s] # {} =>
                           \E q \in uses'[s] : q.id = cacheForId'[s].key
    BY DEF SlotsKeepUses
  <2>1. CASE s # slot
    BY <2>1, <1>3 DEF Kernel, SlotsKeepUses
  <2>2. CASE s = slot
    <3>1. d \in uses'[s] /\ d.id = cacheForId'[s].key
      BY <2>2, <1>3
    <3>2. ASSUME cacheForId'[s].value # NULL
          PROVE  \E q \in uses'[s] : q.from = cacheForId'[s].value
      <4>1. CASE addr = NULL
        BY <4>1, <3>2, <2>2, <1>3 DEF Kernel, SlotsKeepUses
      <4>2. CASE addr # NULL
        BY <4>2, <3>1, <2>2, <1>3
      <4> QED BY <4>1, <4>2
    <3> QED BY <2>2, <3>1, <3>2
  <2> QED BY <2>1, <2>2
<1>7. Sends'
  <2>1. CASE addr = NULL \/ slot = 0
    BY <2>1, <1>5, SendsStay DEF Relay, IdOnwards, Kernel
  <2>2. CASE addr # NULL /\ slot # 0
    <3>1. PICK message : message = [id |-> slot, name |-> d.name]
      OBVIOUS
    <3>2. message \in Request /\ message.id = slot /\ message.name = d.name
      BY <3>1, <2>2, <1>1 DEF Request
    <3>3. Answerable(slot, d.name)'
      BY <2>2, <1>3 DEF Answerable, Given
    <3>4. Sendable([to |-> Server, message |-> message, freed |-> TRUE])'
      BY <3>2, <3>3 DEF Sendable
    <3>5. UdpSend(Server, message, TRUE)
      BY <2>2, <3>1 DEF Relay, IdOnwards
    <3> QED BY <3>4, <3>5, <1>5, UdpSendKeepsSends DEF Kernel
  <2> QED BY <2>1, <2>2
<1> QED BY <1>4, <1>5, <1>6, <1>7 DEF Kernel

(* An answer changes no slot.  A known one crashes the program only if it  *)
(* is a client's datagram with a flag set, or the answer to a query that   *)
(* was overwritten.                                                        *)
LEMMA DealWithAnswerKeeps ==
  ASSUME Kernel, NEW d, Known(d), ~ IsQuery(d), DealWithAnswer(d), UNCHANGED history
  PROVE  /\ Kernel' /\ Grows
         /\ \/ crashed' = crashed
            \/ /\ crashed' = "memcpy"
               /\ \/ \E i \in DOMAIN asked : asked[i] = d /\ d.byte3
                  \/ \E g \in garbled : Unowned(g.id)'
<1> DEFINE id == cacheForId[d.id % CACHELEN].key
           owner == cacheForId[d.id].value
           content == FirstBytes(d)
<1>1. UNCHANGED <<cacheForId, uses, asked, garbled, answers>>
  BY DEF DealWithAnswer, history
<1>2. SlotsType' /\ SlotsKeepUses' /\ Grows
  BY <1>1 DEF Kernel, SlotsType, SlotsKeepUses, Grows, SlotsGrow, HistoryGrows
<1>3. d \in Datagram /\ d.id \in Number /\ d.id \in Nat /\ d.name \in Name /\ d.byte3
  <2>1. d \in Datagram /\ d.byte3
    BY KnownIsDatagram DEF IsQuery
  <2> QED BY <2>1, SlotsAreNumbers DEF Datagram, ClientQuery, ServerAnswer
<1>4. \/ /\ d.from = Server /\ \E i \in DOMAIN answers : answers[i] = d
         /\ Answerable(d.id, d.name)
      \/ d.from # Server /\ \E i \in DOMAIN asked : asked[i] = d
  BY ServerIsNoClient DEF Known, ClientQuery, ServerAnswer
<1>5. CASE UNCHANGED <<pending, upstream, replies>> /\ crashed' \in {"memcpy", crashed}
           /\ ~ (d.id \in CacheIndex /\ owner # NULL)
  <2>1. Sends'
    BY <1>1, <1>2, <1>5, SendsStay DEF Kernel
  <2>2. ~ Given(d.id, d.name)
    BY <1>5, SlotsAreNumbers DEF Given
  <2>3. Unowned(d.id)'
    BY <1>1, <1>5 DEF Unowned
  <2>4. \/ \E i \in DOMAIN asked : asked[i] = d
        \/ [id |-> d.id, name |-> d.name] \in garbled
    BY <1>4, <2>2 DEF Answerable
  <2>5. CASE [id |-> d.id, name |-> d.name] \in garbled
    <3>1. PICK g \in garbled : g.id = d.id
      BY <2>5
    <3>2. Unowned(g.id)'
      BY <3>1, <2>3
    <3> QED BY <1>2, <1>5, <2>1, <3>2 DEF Kernel
  <2> QED BY <1>2, <1>3, <1>5, <2>1, <2>4, <2>5 DEF Kernel
<1>6. CASE /\ d.id \in CacheIndex /\ owner # NULL /\ crashed' = crashed
           /\ UdpSend(owner, ReplyOf(owner, id, d.name, d.id, content), FALSE)
  <2>1. PICK to : to = owner
    OBVIOUS
  <2>2. PICK message : message = ReplyOf(owner, id, d.name, d.id, content)
    OBVIOUS
  <2>3. to \in Client /\ to # Server
    BY <1>6, <2>1, ServerIsNoClient DEF Kernel, SlotsType
  <2>4. id \in Number
    <3>1. d.id % CACHELEN \in CacheIndex
      BY <1>3, SlotsAreNumbers
    <3> QED BY <3>1 DEF Kernel, SlotsType
  <2>5. /\ content \in {"padded", "answer", "cut", "query"}
        /\ content # "query" => d.from = Server
    <3>1. d.from = Server => d.size \in Nat
      BY <1>4, ServerIsNoClient DEF Known, Datagram, ClientQuery, ServerAnswer
    <3>2. CASE d.from # Server
      BY <3>2 DEF FirstBytes
    <3>3. CASE d.from = Server /\ d.size < SentLength
      BY <3>1, <3>3 DEF FirstBytes, SentLength
    <3>4. CASE d.from = Server /\ d.size = SentLength
      BY <3>1, <3>4 DEF FirstBytes, SentLength
    <3>5. CASE d.from = Server /\ d.size > SentLength
      BY <3>1, <3>5 DEF FirstBytes, SentLength
    <3> QED BY <3>1, <3>2, <3>3, <3>4, <3>5 DEF SentLength
  <2>6. message.content = content
    BY <2>2 DEF ReplyOf
  <2>7. /\ message \in Reply
        /\ message.client = to /\ message.id = id /\ message.slot = d.id
        /\ message.name = d.name /\ message.content # "garbage"
    <3> HIDE DEF id, owner, content
    <3> QED BY <1>3, <1>6, <2>1, <2>2, <2>3, <2>4, <2>5 DEF ReplyOf, Reply
  <2>8. ReplyMadeOf(message)
    <3> SUFFICES ASSUME message.content # "query"
                 PROVE  /\ Answers(message)
                        /\ d.id \in Slot
                        /\ \E q \in uses[d.id] : q.from = owner
                        /\ \E q \in uses[d.id] : q.id = id
                        /\ \/ \E q \in uses[d.id] : q.name = d.name
                           \/ [id |-> d.id, name |-> d.name] \in garbled
      BY <2>1, <2>7 DEF ReplyMadeOf, FromServer
    <3>1. d.from = Server
      BY <2>5, <2>6
    <3>2. (\E i \in DOMAIN answers : answers[i] = d) /\ Answerable(d.id, d.name)
      BY <3>1, <1>4
    <3>3. Answers(message)
      BY <2>6, <2>7, <3>2 DEF Answers
    <3>4. d.id \in Slot /\ \E q \in uses[d.id] : q.from = owner
      BY <1>6 DEF Kernel, SlotsKeepUses
    <3>5. d.id \in CacheIndex /\ d.id % CACHELEN = d.id
      BY <3>4, SlotsAreNumbers
    <3>6. id = cacheForId[d.id].key
      BY <3>5
    <3>7. \E q \in uses[d.id] : q.id = id
      BY <3>4, <3>5, <3>6 DEF Kernel, SlotsKeepUses
    <3> QED BY <3>2, <3>3, <3>4, <3>7 DEF Answerable, Given
  <2>9. Sendable([to |-> to, message |-> message, freed |-> FALSE])'
    BY <2>3, <2>7, <2>8, <1>2, ReplyMadeStays DEF Sendable
  <2>10. UdpSend(to, message, FALSE)
    BY <1>6, <2>1, <2>2
  <2> QED BY <1>1, <1>2, <1>6, <2>9, <2>10, UdpSendKeepsSends DEF Kernel
<1>7. \/ /\ UNCHANGED <<pending, upstream, replies>> /\ crashed' \in {"memcpy", crashed}
         /\ ~ (d.id \in CacheIndex /\ owner # NULL)
      \/ /\ d.id \in CacheIndex /\ owner # NULL /\ crashed' = crashed
         /\ UdpSend(owner, ReplyOf(owner, id, d.name, d.id, content), FALSE)
  <2>1. CASE d.id \notin CacheIndex
    BY <2>1 DEF DealWithAnswer
  <2>2. CASE d.id \in CacheIndex /\ owner = NULL
    BY <2>2 DEF DealWithAnswer
  <2>3. CASE d.id \in CacheIndex /\ owner # NULL
    BY <2>3 DEF DealWithAnswer, AnswerKept
  <2> QED BY <2>1, <2>2, <2>3
<1> QED BY <1>5, <1>6, <1>7

LEMMA DealWithPacketKeeps ==
  ASSUME EvInv, crashed = "no", NEW d, Known(d),
         NEW addr, addr \in {d.from, NULL}, DealWithPacket(d, addr),
         UNCHANGED history
  PROVE  /\ Kernel' /\ Grows
         /\ CrashNeedsFlagOrGarbling'
         /\ crashed' \in {"no", "memcpy"}
         /\ \A e : Known(e) => Known(e)'
<1>1. Kernel
  BY KernelOfInv
<1>2. Grows => \A e : Known(e) => Known(e)'
  BY KnownStays
<1>3. CASE IsQuery(d)
  <2>1. d \in ClientQuery /\ d.from \in Client
    BY <1>3, KnownIsDatagram DEF ClientQuery
  <2>2. addr \in Client \cup {NULL} /\ (addr # NULL => addr = d.from)
    BY <2>1, ServerIsNoClient
  <2>3. DealWithQuery(d, addr)
    BY <1>3 DEF DealWithPacket
  <2>4. crashed' = crashed
    BY <2>3 DEF DealWithQuery, AnswerFromTable, Relay
  <2>5. Kernel' /\ Grows
    BY <1>1, <2>1, <2>2, <2>3, AnswerFromTableKeeps, RelayKeeps DEF DealWithQuery
  <2> QED BY <1>2, <2>4, <2>5 DEF CrashNeedsFlagOrGarbling
<1>4. CASE ~ IsQuery(d)
  <2>1. DealWithAnswer(d)
    BY <1>4 DEF DealWithPacket
  <2>2. /\ Kernel' /\ Grows
        /\ \/ crashed' = crashed
           \/ /\ crashed' = "memcpy"
              /\ \/ \E i \in DOMAIN asked : asked[i].byte3
                 \/ \E g \in garbled : Unowned(g.id)'
    BY <1>1, <1>4, <2>1, DealWithAnswerKeeps
  <2> QED BY <1>2, <2>2 DEF CrashNeedsFlagOrGarbling, history
<1> QED BY <1>3, <1>4

-----------------------------------------------------------------------------
(* One lemma per action. *)

LEMMA AskKeeps ==
  ASSUME EvInv, NEW q \in ClientQuery, Ask(q)
  PROVE  EvInv'
<1>1. /\ inbox' = Append(inbox, q) /\ asked' = Append(asked, q)
      /\ UNCHANGED <<slab, count, cacheForId, pending, upstream, replies, crashed,
                     uses, garbled, answers>>
  BY DEF Ask, Arrive, relay
<1>2. q \in Datagram
  BY DEF ClientQuery, Datagram
<1>3. /\ asked \in Seq(ClientQuery) /\ asked' \in Seq(ClientQuery)
      /\ \A i \in DOMAIN asked : i \in DOMAIN asked' /\ asked'[i] = asked[i]
      /\ \E i \in DOMAIN asked' : asked'[i] = q
  <2>1. asked \in Seq(ClientQuery) /\ asked' = Append(asked, q)
    BY <1>1 DEF EvInv, TypeOK
  <2>2. /\ asked' \in Seq(ClientQuery) /\ Len(asked') = Len(asked) + 1
        /\ asked'[Len(asked) + 1] = q
        /\ \A i \in 1 .. Len(asked) : asked'[i] = asked[i]
    BY <2>1
  <2>3. Len(asked) + 1 \in DOMAIN asked'
    BY <2>1, <2>2
  <2> QED BY <2>1, <2>2, <2>3
<1>4. /\ inbox' \in Seq(Datagram)
      /\ \A i \in DOMAIN inbox' :
           \/ inbox'[i] = q
           \/ (i \in DOMAIN inbox /\ inbox'[i] = inbox[i])
  BY <1>1, <1>2 DEF EvInv, TypeOK
<1>5. Grows
  BY <1>1, <1>3 DEF Grows, SlotsGrow, HistoryGrows
<1>6. \A e : Known(e) => Known(e)'
  BY <1>5, KnownStays
<1>7. Known(q)'
  BY <1>3 DEF Known
<1>8. InboxKnown' /\ SlabKnown'
  BY <1>1, <1>4, <1>6, <1>7 DEF EvInv, InboxKnown, SlabKnown
<1>9. TypeOK' /\ SlotsKeepUses' /\ CrashNeedsFlagOrGarbling'
  <2>1. TypeOK'
    BY <1>1, <1>3, <1>4 DEF EvInv, TypeOK
  <2>2. SlotsKeepUses'
    BY <1>1 DEF EvInv, SlotsKeepUses
  <2>3. CrashNeedsFlagOrGarbling'
    BY <1>1, <1>3 DEF EvInv, CrashNeedsFlagOrGarbling, Unowned
  <2> QED BY <2>1, <2>2, <2>3
<1>10. Sends'
  BY <1>1, <1>5, KernelOfInv, SendsStay DEF Kernel
<1> QED BY <1>8, <1>9, <1>10 DEF EvInv, Sends

LEMMA ServerAnswersKeeps ==
  ASSUME EvInv, NEW u \in upstream, NEW size \in AnswerSize[u.name], ServerAnswers(u, size)
  PROVE  EvInv'
<1> DEFINE d == [from |-> Server, id |-> u.id, name |-> u.name, byte3 |-> TRUE, size |-> size]
<1>1. /\ inbox' = Append(inbox, d) /\ answers' = Append(answers, d)
      /\ UNCHANGED <<slab, count, cacheForId, pending, upstream, replies, crashed,
                     uses, garbled, asked>>
  BY DEF ServerAnswers, Arrive, relay
<1>2. /\ d \in ServerAnswer /\ d \in Datagram
      /\ Answerable(d.id, d.name)
  <2>1. u \in Request /\ Answerable(u.id, u.name)
    BY DEF EvInv, UpstreamKnown, TypeOK
  <2>2. size \in Nat
    BY <2>1, EvRelayAssumption DEF Request
  <2>3. d \in ServerAnswer
    BY <2>1, <2>2 DEF Request, ServerAnswer
  <2> QED BY <2>1, <2>3 DEF Datagram
<1> HIDE DEF d
<1>3. /\ answers' \in Seq(ServerAnswer)
      /\ \A i \in DOMAIN answers : i \in DOMAIN answers' /\ answers'[i] = answers[i]
      /\ \E i \in DOMAIN answers' : answers'[i] = d
  <2>1. answers \in Seq(ServerAnswer) /\ answers' = Append(answers, d)
    BY <1>1 DEF EvInv, TypeOK
  <2>2. /\ answers' \in Seq(ServerAnswer) /\ Len(answers') = Len(answers) + 1
        /\ answers'[Len(answers) + 1] = d
        /\ \A i \in 1 .. Len(answers) : answers'[i] = answers[i]
    BY <1>2, <2>1
  <2>3. Len(answers) + 1 \in DOMAIN answers'
    BY <2>1, <2>2
  <2> QED BY <2>1, <2>2, <2>3
<1>4. /\ inbox' \in Seq(Datagram)
      /\ \A i \in DOMAIN inbox' :
           \/ inbox'[i] = d
           \/ (i \in DOMAIN inbox /\ inbox'[i] = inbox[i])
  BY <1>1, <1>2 DEF EvInv, TypeOK
<1>5. Grows
  BY <1>1, <1>3 DEF Grows, SlotsGrow, HistoryGrows
<1>6. \A e : Known(e) => Known(e)'
  BY <1>5, KnownStays
<1>7. Known(d)'
  BY <1>2, <1>3, <1>5, AnswerableStays DEF Known
<1>8. InboxKnown' /\ SlabKnown'
  BY <1>1, <1>4, <1>6, <1>7 DEF EvInv, InboxKnown, SlabKnown
<1>9. TypeOK' /\ SlotsKeepUses' /\ CrashNeedsFlagOrGarbling'
  <2>1. TypeOK'
    BY <1>1, <1>3, <1>4 DEF EvInv, TypeOK
  <2>2. SlotsKeepUses'
    BY <1>1 DEF EvInv, SlotsKeepUses
  <2>3. CrashNeedsFlagOrGarbling'
    BY <1>1 DEF EvInv, CrashNeedsFlagOrGarbling, Unowned
  <2> QED BY <2>1, <2>2, <2>3
<1>10. Sends'
  BY <1>1, <1>5, KernelOfInv, SendsStay DEF Kernel
<1> QED BY <1>8, <1>9, <1>10 DEF EvInv, Sends

LEMMA FlushKeeps ==
  ASSUME EvInv, Flush
  PROVE  EvInv'
<1>1. UNCHANGED <<slab, count, cacheForId, crashed, uses, inbox, asked, answers>>
  BY DEF Flush, network
<1>2. Sends' /\ crashed = "no"
  BY KernelOfInv, FlushKeepsSends DEF Kernel, Flush
<1>3. Grows
  <2>1. garbled \subseteq garbled'
    BY DEF Flush, Flushed, Overwritten
  <2> QED BY <1>1, <2>1 DEF Grows, SlotsGrow, HistoryGrows
<1>4. InboxKnown' /\ SlabKnown'
  BY <1>1, <1>3, KnownStays DEF EvInv, InboxKnown, SlabKnown
<1>5. TypeOK' /\ SlotsKeepUses' /\ CrashNeedsFlagOrGarbling'
  <2>1. TypeOK'
    <3>1. /\ pending' \in Seq(Send) /\ upstream' \subseteq Request
          /\ replies' \subseteq Reply /\ garbled' \subseteq Request
      BY <1>2 DEF Sends
    <3> QED BY <1>1, <3>1 DEF EvInv, TypeOK, Send
  <2>2. SlotsKeepUses'
    BY <1>1 DEF EvInv, SlotsKeepUses
  <2>3. CrashNeedsFlagOrGarbling'
    BY <1>1, <1>2 DEF CrashNeedsFlagOrGarbling
  <2> QED BY <2>1, <2>2, <2>3
<1> QED BY <1>2, <1>4, <1>5 DEF EvInv, Sends

LEMMA ReceiveKeeps ==
  ASSUME EvInv, Receive
  PROVE  EvInv'
<1>1. /\ crashed = "no" /\ inbox # <<>>
      /\ inbox' = Tail(inbox) /\ count' = (count + 1) % Batch
      /\ slab' = IF count' = 0 THEN NoDatagram ELSE Head(inbox)
      /\ DealWithPacket(Head(inbox), Head(inbox).from)
      /\ UNCHANGED <<asked, garbled, answers>>
  BY DEF Receive
<1>2. /\ inbox' \in Seq(Datagram)
      /\ \A i \in DOMAIN inbox' : i + 1 \in DOMAIN inbox /\ inbox'[i] = inbox[i + 1]
      /\ Head(inbox) = inbox[1] /\ 1 \in DOMAIN inbox
  BY <1>1 DEF EvInv, TypeOK
<1>3. PICK d : d = Head(inbox)
  OBVIOUS
<1>4. Known(d) /\ d \in Datagram
  BY <1>2, <1>3, KnownIsDatagram DEF EvInv, InboxKnown
<1>5. PICK addr : addr = d.from
  OBVIOUS
<1>6. /\ Kernel' /\ CrashNeedsFlagOrGarbling' /\ crashed' \in {"no", "memcpy"}
      /\ \A e : Known(e) => Known(e)'
  BY <1>1, <1>3, <1>4, <1>5, DealWithPacketKeeps DEF history
<1>7. InboxKnown'
  BY <1>2, <1>6 DEF EvInv, InboxKnown
<1>8. SlabKnown'
  <2>1. count' > 0 => slab' = d
    BY <1>1, <1>3
  <2> QED BY <2>1, <1>4, <1>6 DEF SlabKnown
<1>9. count' \in 0 .. Batch - 1
  BY <1>1, SlotsAreNumbers DEF EvInv, TypeOK
<1>10. TypeOK'
  <2>1. slab' \in Datagram \cup {NoDatagram}
    BY <1>1, <1>3, <1>4
  <2> QED BY <1>1, <1>2, <1>6, <1>9, <2>1
          DEF EvInv, TypeOK, Kernel, SlotsType, Sends, Send
<1> QED BY <1>6, <1>7, <1>8, <1>10 DEF EvInv, Kernel, Sends

LEMMA ReceiveNothingKeeps ==
  ASSUME EvInv, ReceiveNothing
  PROVE  EvInv'
<1>1. /\ crashed = "no" /\ count > 0 /\ count' = 0 /\ slab' = NoDatagram
      /\ DealWithPacket(slab, NULL)
      /\ UNCHANGED <<inbox, asked, garbled, answers>>
  BY DEF ReceiveNothing, network
<1>2. PICK d : d = slab
  OBVIOUS
<1>3. Known(d)
  BY <1>1, <1>2 DEF EvInv, SlabKnown
<1>4. /\ Kernel' /\ CrashNeedsFlagOrGarbling' /\ crashed' \in {"no", "memcpy"}
      /\ \A e : Known(e) => Known(e)'
  BY <1>1, <1>2, <1>3, DealWithPacketKeeps DEF history
<1>5. InboxKnown' /\ SlabKnown'
  BY <1>1, <1>4 DEF EvInv, InboxKnown, SlabKnown
<1>6. count' \in 0 .. Batch - 1
  BY <1>1, SlotsAreNumbers
<1>7. TypeOK'
  BY <1>1, <1>4, <1>6 DEF EvInv, TypeOK, Kernel, SlotsType, Sends, Send
<1> QED BY <1>4, <1>5, <1>7 DEF EvInv, Kernel, Sends

LEMMA ReceiveErrorKeeps ==
  ASSUME EvInv, ReceiveError
  PROVE  EvInv'
<1>1. /\ crashed' = "free"
      /\ UNCHANGED <<slab, count, cacheForId, pending, upstream, replies, uses,
                     inbox, asked, garbled, answers>>
  BY DEF ReceiveError, network
<1>2. Grows
  BY <1>1 DEF Grows, SlotsGrow, HistoryGrows
<1>3. Sends'
  BY <1>1, <1>2, KernelOfInv, SendsStay DEF Kernel
<1>4. \A e : Known(e)' <=> Known(e)
  BY <1>1 DEF Known, Answerable, Given
<1>5. InboxKnown' /\ SlabKnown'
  BY <1>1, <1>4 DEF EvInv, InboxKnown, SlabKnown
<1> QED BY <1>1, <1>3, <1>5
        DEF EvInv, TypeOK, Sends, SlotsKeepUses, CrashNeedsFlagOrGarbling

LEMMA StepKeeps ==
  ASSUME EvInv, [Next]_vars
  PROVE  EvInv'
<1>1. CASE UNCHANGED vars
  <2>1. UNCHANGED <<inbox, slab, count, cacheForId, pending, upstream, replies,
                    crashed, asked, uses, garbled, answers>>
    BY <1>1 DEF vars
  <2>2. Grows
    BY <2>1 DEF Grows, SlotsGrow, HistoryGrows
  <2>3. Sends'
    BY <2>1, <2>2, KernelOfInv, SendsStay DEF Kernel
  <2>4. \A e : Known(e)' <=> Known(e)
    BY <2>1 DEF Known, Answerable, Given
  <2>5. InboxKnown' /\ SlabKnown'
    BY <2>1, <2>4 DEF EvInv, InboxKnown, SlabKnown
  <2> QED BY <2>1, <2>3, <2>5
          DEF EvInv, TypeOK, Sends, SlotsKeepUses, CrashNeedsFlagOrGarbling, Unowned
<1> QED BY <1>1, AskKeeps, ServerAnswersKeeps, FlushKeeps, ReceiveKeeps,
           ReceiveNothingKeeps, ReceiveErrorKeeps DEF Next, Callback

LEMMA InitHolds == Init => EvInv
<1> SUFFICES ASSUME Init PROVE EvInv
  OBVIOUS
<1>1. /\ inbox = <<>> /\ slab = NoDatagram /\ count = 0 /\ pending = <<>>
      /\ upstream = {} /\ replies = {} /\ crashed = "no" /\ asked = <<>> /\ answers = <<>>
      /\ garbled = {}
  BY DEF Init
<1>2. /\ \A s \in CacheIndex : cacheForId[s] = NoOwner
      /\ \A s \in Slot : uses[s] = {}
      /\ uses \in [Slot -> SUBSET ClientQuery]
      /\ cacheForId \in [CacheIndex -> [key : Number, value : Client \cup {NULL}]]
  BY SlotsAreNumbers DEF Init, NoOwner
<1>3. TypeOK
  BY <1>1, <1>2, SlotsAreNumbers DEF TypeOK
<1>4. SlotsKeepUses
  BY <1>2 DEF SlotsKeepUses, NoOwner
<1> QED BY <1>1, <1>3, <1>4
        DEF EvInv, InboxKnown, SlabKnown, RepliesMade, UpstreamKnown, PendingMade,
            CrashNeedsFlagOrGarbling

-----------------------------------------------------------------------------
(* The invariant holds.  TypeOK is one of its parts.                       *)
THEOREM EvInvCorrect == Spec => []EvInv
BY InitHolds, StepKeeps, PTL DEF Spec

(* While one query only has used a slot, what its answers are made of -    *)
(* the address that addCacheMap may have left from another, the number it  *)
(* writes always, the name that comes back - are that query's; but for the *)
(* name, when another was asked for under that slot by overwritten bytes.  *)
THEOREM MixupNeedsSharedSlotHolds == Spec => []MixupNeedsSharedSlot
<1>1. EvInv => MixupNeedsSharedSlot
  <2> SUFFICES ASSUME EvInv, NEW r \in replies, FromServer(r),
                      NEW q \in uses[r.slot], uses[r.slot] = {q}
               PROVE  /\ r.client = q.from /\ r.id = q.id
                      /\ r.name = q.name \/ [id |-> r.slot, name |-> r.name] \in garbled
    BY DEF EvInv, MixupNeedsSharedSlot
  <2>1. ReplyMadeOf(r)
    BY DEF EvInv, RepliesMade
  <2> QED BY <2>1 DEF ReplyMadeOf
<1> QED BY <1>1, EvInvCorrect, PTL

(* memcpy is given no address only for a client's datagram with AD or CD   *)
(* set, or for the answer to a query that was overwritten while it waited  *)
(* and left under the number of a slot nobody owns: the slot any other     *)
(* answer comes back to has an address, and keeps one when the query is    *)
(* processed again without.                                                *)
THEOREM CrashNeedsFlagOrGarblingHolds == Spec => []CrashNeedsFlagOrGarbling
<1>1. EvInv => CrashNeedsFlagOrGarbling
  BY DEF EvInv
<1> QED BY <1>1, EvInvCorrect, PTL

(* What is passed on is the first 90 bytes of an answer the server gave    *)
(* under that slot and about that name: the branch that passes answers on  *)
(* does not free what it sends, so only the relay's own replies can be     *)
(* overwritten while they wait.                                            *)
THEOREM RelayedAnswersIntactHolds == Spec => []RelayedAnswersIntact
<1>1. EvInv => RelayedAnswersIntact
  BY DEF EvInv, RepliesMade, ReplyMadeOf, Answers, RelayedAnswersIntact
<1> QED BY <1>1, EvInvCorrect, PTL
=============================================================================
