------------------------------- MODULE EvRelay -------------------------------
(***************************************************************************)
(* The DNS relay of EvDNS: one UDP socket of libuv and one callback,       *)
(* dealWithPacket.  When the socket is readable libuv reads datagrams into *)
(* the one buffer alloc_buffer gives it, calling back after each, until    *)
(* there are none: then it calls back once more, without a datagram and    *)
(* without an address, and dealWithPacket takes the buffer's old contents  *)
(* for a datagram.  What is sent may have to wait, and libuv keeps the     *)
(* address of the data, which dealWithPacket frees at once (except in the  *)
(* branch for answers): what libuv sends then is whatever is there.        *)
(*                                                                         *)
(* The table has no expiry.  A query it does not answer is sent on under   *)
(* the number of a slot, which is the processor time used so far, modulo   *)
(* CACHELEN: any slot.  Answers come with the RA bit or an error code, and *)
(* as many bytes are passed on of a long one as of a short one.            *)
(***************************************************************************)
EXTENDS Integers, Sequences, FiniteSets

CONSTANTS
  Client,
  Server,      \* 10.3.9.4
  NULL,        \* no address
  Number,      \* the numbers a query can have, 0 .. 65535
  Id,          \* the numbers clients give their queries
  Name,        \* domain names
  Table,       \* the lines of dnsrelay.txt, an address and a name each
  CACHELEN,    \* number of slots
  AnswerSize,  \* the lengths of the server's answers about a name
  Batch,       \* datagrams libuv reads before it looks at anything else
  MaxQueries,  \* bound: queries that arrive
  MaxAnswers,  \* bound: answers that arrive
  MaxInbox     \* bound: datagrams in the socket's buffer

ASSUME EvRelayAssumption ==
  /\ CACHELEN \in Nat \ {0}
  /\ Batch \in Nat \ {0}
  /\ Number \subseteq Nat /\ Id \subseteq Number
  /\ 0 .. CACHELEN - 1 \subseteq Number
  /\ AnswerSize \in [Name -> SUBSET Nat]
  /\ Table \in Seq([ip : {"0.0.0.0", "address"}, domain : Name])
  /\ NULL # Server /\ {NULL, Server} \cap Client = {}
  /\ {MaxQueries, MaxAnswers, MaxInbox} \subseteq Nat

Slot == 0 .. CACHELEN - 1

(* The array has one slot more than are ever used.                         *)
CacheIndex == 0 .. CACHELEN

(* Datagrams of the clients and of the server, with what isQuery tests:    *)
(* the byte with RA, AD, CD and rcode.                                     *)
ClientQuery == [from : Client, id : Id, name : Name, byte3 : BOOLEAN]
ServerAnswer == [from : {Server}, id : Number, name : Name, byte3 : {TRUE},
                 size : Nat]
Datagram == ClientQuery \cup ServerAnswer

NoDatagram == [from |-> NULL, id |-> 0, name |-> CHOOSE n \in Name : TRUE,
               byte3 |-> FALSE]

NoOwner == [key |-> 0, value |-> NULL]

(* In the slot of a reply: made by the relay itself.                       *)
OwnAnswer == -1

VARIABLES
  inbox,        \* datagrams in the socket's buffer
  slab,         \* the buffer, while libuv is reading
  count,        \* datagrams read since the socket became readable
  cacheForId,   \* the slots
  pending,      \* sends that wait until the socket takes them
  upstream,     \* queries the server has got
  replies,      \* what the clients have got
  crashed,      \* "no", or the call that killed the program
  (* history *)
  asked,        \* queries that arrived
  uses,         \* the queries that wrote to each slot
  garbled,      \* what the server got of queries that were overwritten
  answers       \* what the server answered

network == <<inbox, asked, answers>>
vars == <<inbox, slab, count, cacheForId, pending, upstream, replies, crashed,
          asked, uses, garbled, answers>>

Init ==
  /\ inbox = <<>>
  /\ slab = NoDatagram
  /\ count = 0
  /\ cacheForId = [i \in CacheIndex |-> NoOwner]
  /\ pending = <<>>
  /\ upstream = {}
  /\ replies = {}
  /\ crashed = "no"
  /\ asked = <<>>
  /\ uses = [i \in Slot |-> {}]
  /\ garbled = {}
  /\ answers = <<>>

-----------------------------------------------------------------------------
(* The clients and the server, which answers in any order, more than once, *)
(* or not at all.                                                          *)

Arrive(d) ==
  /\ crashed = "no"
  /\ Len(inbox) < MaxInbox
  /\ inbox' = Append(inbox, d)

relay == <<slab, count, cacheForId, pending, upstream, replies, crashed, uses, garbled>>

Ask(q) ==
  /\ Len(asked) < MaxQueries
  /\ Arrive(q)
  /\ asked' = Append(asked, q)
  /\ UNCHANGED <<relay, answers>>

ServerAnswers(u, size) ==
  LET a == [from |-> Server, id |-> u.id, name |-> u.name, byte3 |-> TRUE, size |-> size]
  IN  /\ Len(answers) < MaxAnswers
      /\ answers' = Append(answers, a)
      /\ Arrive(a)
      /\ UNCHANGED <<relay, asked>>

-----------------------------------------------------------------------------
(* uv_udp_send: at once if nothing waits and the socket takes it.  A       *)
(* message to a client is the reply it is received as, one to the server   *)
(* the number and the name asked for.                                      *)

Delivered(to, message) ==
  IF to = Server
    THEN upstream' = upstream \cup {message} /\ UNCHANGED replies
    ELSE replies' = replies \cup {message} /\ UNCHANGED upstream

UdpSend(to, message, freed) ==
  \/ /\ pending = <<>>
     /\ Delivered(to, message)
     /\ UNCHANGED pending
  \/ /\ pending' = Append(pending, [to |-> to, message |-> message, freed |-> freed])
     /\ UNCHANGED <<upstream, replies>>

ReplyOf(client, id, name, slot, content) ==
  [client |-> client, id |-> id, name |-> name, slot |-> slot, content |-> content]

(* A freed message that something else was written over.  Of a query the   *)
(* allocator overwrites the number first, and a datagram that takes its    *)
(* place has a number and a name of its own; the server may take it for a  *)
(* query.                                                                  *)
Overwritten(send) ==
  IF send.to = Server
    THEN \E g \in [id : Number, name : Name] :
           Delivered(Server, g) /\ garbled' = garbled \cup {g}
    ELSE /\ Delivered(send.to, [send.message EXCEPT !.content = "garbage"])
         /\ UNCHANGED garbled

(* What libuv finds where the message was.                                 *)
Flushed(send) ==
  \/ Delivered(send.to, send.message) /\ UNCHANGED garbled
  \/ send.freed /\ Overwritten(send)

(* The socket is writable; libuv looks after it has read.                  *)
Flush ==
  /\ crashed = "no"
  /\ count = 0
  /\ pending # <<>>
  /\ pending' = Tail(pending)
  /\ Flushed(Head(pending))
  /\ UNCHANGED <<slab, count, cacheForId, crashed, uses, network>>

-----------------------------------------------------------------------------
(* dealWithPacket.  None of it overwrites what waits: that is seen when    *)
(* libuv sends it.                                                         *)

IsQuery(d) == ~ d.byte3

(* The newest line for the name is found first.                            *)
Lines(name) == {i \in DOMAIN Table : Table[i].domain = name}

FindHashMap(name) ==
  Table[CHOOSE i \in Lines(name) : \A j \in Lines(name) : j <= i].ip

AnsweredUnlessBlocked(name) ==   \* slip: the branch for 0.0.0.0 sends nothing
  Lines(name) # {} /\ FindHashMap(name) # "0.0.0.0"
Answered(name) == Lines(name) # {}

(* The reply is freed whether it has left or not.  Without an address      *)
(* uv_udp_send refuses.                                                    *)
AnswerFromTable(d, addr) ==
  /\ UNCHANGED <<cacheForId, uses, crashed>>
  /\ IF addr = NULL
       THEN UNCHANGED <<pending, upstream, replies>>
       ELSE UdpSend(addr, ReplyOf(addr, d.id, d.name, OwnAnswer, FindHashMap(d.name)), TRUE)

(* addCacheMap: the number is kept before it is known if there is an       *)
(* address to go with it.                                                  *)
KeptClears(slot, d, addr) ==   \* slip: the old address freed before the test, too
  [cacheForId EXCEPT ![slot] = [key |-> d.id, value |-> addr]]
KeptTooLate(slot, d, addr) ==   \* slip: the number overwritten before it is kept
  [cacheForId EXCEPT ![slot] =
     [key |-> slot, value |-> IF addr = NULL THEN @.value ELSE addr]]
Kept(slot, d, addr) ==
  [cacheForId EXCEPT ![slot] =
     [key |-> d.id, value |-> IF addr = NULL THEN @.value ELSE addr]]

IdOnwardsNext(slot) == slot + 1   \* slip: the clock read again, and not reduced
IdOnwards(slot) == slot

(* A query that is not in the table is kept and sent on, unless the number *)
(* it gets is 0: addCacheMap's sign for no address.                        *)
Relay(d, addr, slot) ==
  /\ cacheForId' = Kept(slot, d, addr)
  /\ uses' = [uses EXCEPT ![slot] = @ \cup {d}]
  /\ IF addr = NULL \/ IdOnwards(slot) = 0
       THEN UNCHANGED <<pending, upstream, replies>>
       ELSE UdpSend(Server, [id |-> IdOnwards(slot), name |-> d.name], TRUE)
  /\ UNCHANGED crashed

DealWithQuery(d, addr) ==
  \/ Answered(d.name) /\ AnswerFromTable(d, addr)
  \/ ~ Answered(d.name) /\ \E slot \in Slot : Relay(d, addr, slot)

(* The length of what is passed on is fixed: behind a shorter answer comes *)
(* what the slab had there of earlier datagrams, a longer one is cut off.  *)
SentLength == 90   \* 0x5a

FirstBytes(d) ==
  IF d.from # Server THEN "query"
  ELSE CASE d.size < SentLength -> "padded"
         [] d.size = SentLength -> "answer"
         [] d.size > SentLength -> "cut"

(* Anything else is an answer.  It gets the number kept in its slot, for   *)
(* which its own is reduced, and goes to the address kept in its slot, for *)
(* which it is not.  Behind the array lies anything.                       *)
AnswerFreed == TRUE   \* slip: free(rawmsg), as in the other branch
AnswerKept == FALSE

DealWithAnswer(d) ==
  LET id    == cacheForId[d.id % CACHELEN].key
      owner == cacheForId[d.id].value
      Crash == crashed' = "memcpy" /\ UNCHANGED <<pending, upstream, replies>>
  IN  /\ CASE d.id \notin CacheIndex -> Crash \/ UNCHANGED <<crashed, pending, upstream, replies>>
           [] d.id \in CacheIndex /\ owner = NULL -> Crash
           [] OTHER -> /\ UdpSend(owner, ReplyOf(owner, id, d.name, d.id, FirstBytes(d)), AnswerKept)
                       /\ UNCHANGED crashed
      /\ UNCHANGED <<cacheForId, uses>>

DealWithPacket(d, addr) ==
  IF IsQuery(d) THEN DealWithQuery(d, addr) ELSE DealWithAnswer(d)

-----------------------------------------------------------------------------
(* libuv calling back. *)

Receive ==
  /\ crashed = "no"
  /\ inbox # <<>>
  /\ inbox' = Tail(inbox)
  /\ count' = (count + 1) % Batch
  /\ slab' = IF count' = 0 THEN NoDatagram ELSE Head(inbox)
  /\ DealWithPacket(Head(inbox), Head(inbox).from)
  /\ UNCHANGED <<asked, garbled, answers>>

(* nread = 0, addr = NULL.                                                 *)
ReceiveNothing ==
  /\ crashed = "no"
  /\ inbox = <<>>
  /\ count > 0
  /\ count' = 0
  /\ slab' = NoDatagram
  /\ DealWithPacket(slab, NULL)
  /\ UNCHANGED <<network, garbled>>

(* nread < 0: the buffer, which malloc never gave, is freed.               *)
ReceiveError ==
  /\ crashed = "no"
  /\ inbox # <<>>
  /\ crashed' = "free"
  /\ UNCHANGED <<slab, count, cacheForId, pending, upstream, replies, uses, garbled, network>>

Callback == Receive \/ ReceiveNothing

Next ==
  \/ \E q \in ClientQuery : Ask(q)
  \/ \E u \in upstream : \E size \in AnswerSize[u.name] : ServerAnswers(u, size)
  \/ Flush
  \/ Callback
  \/ ReceiveError

Spec == Init /\ [][Next]_vars

(* The loop runs, and the socket takes what waits after each reading.      *)
FairSpec == Spec /\ WF_vars(Callback) /\ WF_vars(Flush)

-----------------------------------------------------------------------------
Reply == [client : Client, id : Number, name : Name, slot : CacheIndex \cup {OwnAnswer},
          content : {"0.0.0.0", "address", "padded", "answer", "cut", "query", "garbage"}]
Request == [id : Number, name : Name]

TypeOK ==
  /\ inbox \in Seq(Datagram)
  /\ slab \in Datagram \cup {NoDatagram}
  /\ count \in 0 .. Batch - 1
  /\ cacheForId \in [CacheIndex -> [key : Number, value : Client \cup {NULL}]]
  /\ pending \in Seq([to : {Server}, message : Request, freed : BOOLEAN]
                     \cup [to : Client, message : Reply, freed : BOOLEAN])
  /\ upstream \subseteq Request
  /\ replies \subseteq Reply
  /\ crashed \in {"no", "memcpy", "free"}
  /\ asked \in Seq(ClientQuery)
  /\ uses \in [Slot -> SUBSET ClientQuery]
  /\ garbled \subseteq Request
  /\ answers \in Seq(ServerAnswer)

FromServer(r) == r.content \in {"padded", "answer", "cut"}

(* An answer that comes back through a slot which one query only has used  *)
(* - be it again, in a callback without a datagram - goes to that query's  *)
(* client under its own number.  It is about the name that was asked for,  *)
(* unless the server was asked for another under that slot by a query that *)
(* was overwritten while it waited to be sent.                             *)
MixupNeedsSharedSlot ==
  /\ TypeOK
  /\ \A r \in replies : FromServer(r) =>
       \A q \in uses[r.slot] : uses[r.slot] = {q} =>
         /\ r.client = q.from /\ r.id = q.id
         /\ r.name = q.name \/ [id |-> r.slot, name |-> r.name] \in garbled

Unowned(id) == id \notin CacheIndex \/ cacheForId[id].value = NULL

(* The address of an owner is missing only for something a client sent     *)
(* that has AD or CD set, or when a query that was overwritten while it    *)
(* waited reached the server under the number of a slot without an owner.  *)
(* No other answer of the server, first or second, late or processed       *)
(* again, crashes the relay.                                               *)
CrashNeedsFlagOrGarbling ==
  crashed = "memcpy" =>
    \/ \E i \in DOMAIN asked : asked[i].byte3
    \/ \E g \in garbled : Unowned(g.id)

(* What is passed on through a slot, if it is not a client's own datagram, *)
(* is the first 90 bytes of what the server answered under that number and *)
(* about that name, cut off if it was longer and with the slab's old bytes *)
(* behind it if it was shorter.  It is that however long it waits,         *)
(* whatever is freed and whichever callback comes without a datagram: only *)
(* the relay's own replies can turn to garbage.                            *)
RelayedAnswersIntact ==
  \A r \in replies : r.slot # OwnAnswer /\ r.content # "query" =>
    \E i \in DOMAIN answers : /\ answers[i].id = r.slot /\ answers[i].name = r.name
                              /\ r.content = FirstBytes(answers[i])

(* Again and again there is a moment when every query that arrived so far  *)
(* and that the table can answer, even for a blocked name, was answered,   *)
(* though maybe by garbage, unless the program has died.                   *)
TableQueriesAnswered ==
  []<>(\/ crashed # "no"
       \/ \A i \in DOMAIN asked :
            IsQuery(asked[i]) /\ Lines(asked[i].name) # {} =>
              \E r \in replies : /\ r.slot = OwnAnswer /\ r.client = asked[i].from
                                 /\ r.id = asked[i].id /\ r.name = asked[i].name)
=============================================================================
