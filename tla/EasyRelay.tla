----------------------------- MODULE EasyRelay ------------------------------
(***************************************************************************)
(* The DNS relay of EasyDns/net.c: one socket, on which the queries of the *)
(* clients and the answers of the server above arrive, read once for every *)
(* edge epoll reports.  What the cache and the table know is answered at   *)
(* once; any other query is sent on under the number of a slot that keeps  *)
(* its own number and its client, and the slot is the second of its        *)
(* arrival modulo CACHE_LEN.                                               *)
(*                                                                         *)
(* The cache is what ExpiringMap promises of it.  Queries come without the *)
(* AD and CD bits and answers with the RA bit: those are the bits by which *)
(* isQuery tells them apart.                                               *)
(***************************************************************************)
EXTENDS Integers, Sequences, FiniteSets

CONSTANTS
  Client,
  NULL,        \* the address of no client
  Id,          \* the numbers clients give their queries
  Name,        \* domain names
  Address,     \* addresses the server gives
  Table,       \* the addresses of the names in dnsrelay.txt
  CACHE_LEN,   \* number of slots
  Lifetimes,   \* of the server's answers
  MaxQueries,  \* bound: queries that arrive
  MaxAnswers,  \* bound: answers that arrive
  MaxInbox,    \* bound: datagrams in the socket's buffer
  MaxClock     \* bound: seconds

Blocked == 0   \* 0.0.0.0 in the table

ASSUME RelayAssumption ==
  /\ CACHE_LEN \in Nat \ {0}
  /\ DOMAIN Table \subseteq Name
  /\ Blocked \notin Address
  /\ NULL \notin Client
  /\ Lifetimes \subseteq Nat
  /\ {MaxQueries, MaxAnswers, MaxInbox, MaxClock} \subseteq Nat

Slot == 0 .. CACHE_LEN - 1

(* For an IPv4 address, or for something else. *)
QType == {"A", "other"}

Query == [client : Client, id : Id, name : Name, qtype : QType]

(* An answer, with the type of its first record and what is read of it if  *)
(* that is an address.                                                     *)
Answer == [id : Slot, name : Name, first : QType, ip : Address, ttl : Lifetimes]

Datagram == [query : BOOLEAN, data : Query \cup Answer]

NoOwner == [key |-> 0, value |-> NULL]

(* In the slot of a reply: the relay gave it itself.  No answer comes for  *)
(* slot 0, as no query goes on with it.                                    *)
OwnAnswer == 0

VARIABLES
  inbox,        \* datagrams in the socket's buffer
  ready,        \* epoll has an edge to report
  cacheForId,   \* the slots
  cacheMap,     \* the cache of addresses
  clock,        \* tv_sec
  upstream,     \* queries on their way to the server, or answered by it
  replies,      \* what the clients were sent
  (* history *)
  asked,        \* queries that arrived
  owners,       \* the queries each slot was given to
  told,         \* addresses the server told, with the second they were read
  answers       \* how many answers arrived

history == <<asked, owners, told, answers>>
vars == <<inbox, ready, cacheForId, cacheMap, clock, upstream, replies, history>>

Init ==
  /\ inbox = <<>>
  /\ ready = FALSE
  /\ cacheForId = [i \in Slot |-> NoOwner]
  /\ cacheMap = {}
  /\ clock = 0
  /\ upstream = {}
  /\ replies = {}
  /\ asked = {}
  /\ owners = [i \in Slot |-> {}]
  /\ told = {}
  /\ answers = 0

-----------------------------------------------------------------------------
(* The network.  A datagram that comes is an edge, whatever waits already. *)

Arrive(datagram) ==
  /\ Len(inbox) < MaxInbox
  /\ inbox' = Append(inbox, datagram)
  /\ ready' = TRUE

Ask(q) ==
  /\ Cardinality(asked) < MaxQueries
  /\ Arrive([query |-> TRUE, data |-> q])
  /\ asked' = asked \cup {q}
  /\ UNCHANGED <<cacheForId, cacheMap, clock, upstream, replies, owners, told,
                 answers>>

(* The server answers in any order, more than once, or not at all.         *)
ServerAnswers(request, first, ip, ttl) ==
  /\ answers < MaxAnswers
  /\ answers' = answers + 1
  /\ request.qtype = "A" \/ first = "other"
  /\ Arrive([query |-> FALSE,
             data |-> [id |-> request.id, name |-> request.name,
                       first |-> first, ip |-> ip, ttl |-> ttl]])
  /\ UNCHANGED <<cacheForId, cacheMap, clock, upstream, replies, asked, owners,
                 told>>

Tick ==
  /\ clock < MaxClock
  /\ clock' = clock + 1
  /\ UNCHANGED <<inbox, ready, cacheForId, cacheMap, upstream, replies, history>>

-----------------------------------------------------------------------------
(* addCacheMap and sendToDns. *)

SlotOverflowing == clock   \* slip: the remainder forgotten
SlotNow == clock % CACHE_LEN

(* The number the query goes on with; 0 is taken for a failure.            *)
IdOnwardsNext == (clock + 1) % CACHE_LEN   \* slip: not the slot it was kept in
IdOnwards == SlotNow

KeptIfFree(q) ==   \* slip: the client of the slot's last query stays
  [cacheForId EXCEPT ![SlotNow] =
     IF @ = NoOwner THEN [key |-> q.id, value |-> q.client]
                    ELSE [@ EXCEPT !.key = q.id]]
Kept(q) ==
  [cacheForId EXCEPT ![SlotNow] = [key |-> q.id, value |-> q.client]]

SendToDns(q) ==
  /\ cacheForId' = Kept(q)
  /\ owners' = [owners EXCEPT ![SlotNow] = @ \cup {q}]
  /\ upstream' = IF IdOnwards = 0 THEN upstream
                 ELSE upstream \cup {[id |-> IdOnwards, name |-> q.name,
                                      qtype |-> q.qtype]}

-----------------------------------------------------------------------------
(* findHashMap and addHashMap on cacheMap, as in ExpiringMap. *)

Forever == -1

AliveAlways(e) == TRUE   \* slip
Alive(e) == e.TTL = Forever \/ e.TTL > clock - e.since

InCache(name) == {e \in cacheMap : e.name = name /\ Alive(e)}

Newest(entries) == CHOOSE e \in entries : \A f \in entries : f.no <= e.no

Added(name, ip, ttl) ==
  cacheMap \cup {[no |-> Cardinality(cacheMap) + 1, name |-> name, ip |-> ip,
                  TTL |-> ttl, since |-> clock]}

-----------------------------------------------------------------------------
(* dealWithPacket. *)

Reply(q, ip) ==
  replies' = replies \cup
    {[client |-> q.client, id |-> q.id, name |-> q.name, ip |-> ip,
      slot |-> OwnAnswer, at |-> clock]}

Relay(q) ==
  /\ SendToDns(q)
  /\ UNCHANGED <<cacheMap, replies>>

AnswerFromCache(q) ==
  /\ InCache(q.name) # {}
  /\ Reply(q, Newest(InCache(q.name)).ip)
  /\ UNCHANGED <<cacheForId, cacheMap, upstream, owners>>

(* What is found in the table goes to the cache for good.                  *)
AnswerFromTable(q) ==
  /\ InCache(q.name) = {}
  /\ q.name \in DOMAIN Table
  /\ Reply(q, Table[q.name])
  /\ cacheMap' = Added(q.name, Table[q.name], Forever)
  /\ UNCHANGED <<cacheForId, upstream, owners>>

DealWithQuery(q) ==
  /\ \/ /\ q.qtype = "A"
        /\ \/ AnswerFromCache(q)
           \/ AnswerFromTable(q)
           \/ InCache(q.name) = {} /\ q.name \notin DOMAIN Table /\ Relay(q)
     \/ q.qtype # "A" /\ Relay(q)
  /\ UNCHANGED told

(* An answer is cached, whoever asked, and sent to the owner of its slot   *)
(* under the number of the owner's query.                                  *)
DealWithAnswer(a) ==
  LET owner == cacheForId[a.id]
  IN  /\ IF a.first = "A"
           THEN /\ cacheMap' = Added(a.name, a.ip, a.ttl)
                /\ told' = told \cup {[name |-> a.name, ip |-> a.ip,
                                       ttl |-> a.ttl, at |-> clock]}
           ELSE UNCHANGED <<cacheMap, told>>
      /\ replies' = replies \cup
           {[client |-> owner.value, id |-> owner.key, name |-> a.name,
             ip |-> a.ip, slot |-> a.id, at |-> clock]}
      /\ UNCHANGED <<cacheForId, upstream, owners>>

(* runDns: epoll_wait reports the edge, one datagram is read.              *)
EdgeAgain == ready   \* slip: the socket taken for a level-triggered one
EdgeTaken == FALSE

RunDns ==
  /\ ready
  /\ ready' = EdgeTaken
  /\ inbox' = Tail(inbox)
  /\ IF Head(inbox).query THEN DealWithQuery(Head(inbox).data)
                          ELSE DealWithAnswer(Head(inbox).data)
  /\ UNCHANGED <<clock, asked, answers>>

Next ==
  \/ \E q \in Query : Ask(q)
  \/ \E request \in upstream, first \in QType, ip \in Address, ttl \in Lifetimes :
       ServerAnswers(request, first, ip, ttl)
  \/ Tick
  \/ RunDns

Spec == Init /\ [][Next]_vars

-----------------------------------------------------------------------------
Owner == [key : Id, value : Client]

TypeOK ==
  /\ inbox \in Seq(Datagram)
  /\ ready \in BOOLEAN
  /\ cacheForId \in [Slot -> Owner \cup {NoOwner}]
  /\ cacheMap \subseteq
       [no : Nat, name : Name, since : Nat, TTL : Lifetimes \cup {Forever},
        ip : Address \cup {Table[n] : n \in DOMAIN Table}]
  /\ clock \in Nat
  /\ upstream \subseteq [id : Slot \ {0}, name : Name, qtype : QType]
  /\ asked \subseteq Query
  /\ owners \in [Slot -> SUBSET Query]
  /\ told \subseteq [name : Name, ip : Address, ttl : Lifetimes, at : Nat]
  /\ answers \in Nat

(* An edge means a datagram: recvfrom never fails, after which the last    *)
(* datagram would be dealt with once more.                                 *)
EdgeMeansData == ready => inbox # <<>>

(* The owner an answer is sent to is there: memcpy is not given NULL.      *)
AnswersFindOwner ==
  \A i \in DOMAIN inbox :
    ~ inbox[i].query => cacheForId[inbox[i].data.id].value # NULL

(* A client gets replies to its own queries only: to a query it sent under *)
(* that number.                                                            *)
RepliesWereAsked ==
  \A r \in replies : \E q \in asked : q.client = r.client /\ q.id = r.id

(* Who gets the answer to another's query shares a slot with it: if a slot *)
(* was given to one query only, its answers went to that query's client    *)
(* and were about the name it asked for.                                   *)
MixupNeedsSharedSlot ==
  \A r \in replies : \A q \in owners[r.slot] :
    r.slot # OwnAnswer /\ owners[r.slot] = {q} =>
      r.client = q.client /\ r.id = q.id /\ r.name = q.name

(* Whatever the relay answers itself the table says, or the server said of *)
(* that name, and no longer ago than the lifetime it gave.                 *)
AnswersFresh ==
  \A r \in replies : r.slot = OwnAnswer =>
    \/ r.name \in DOMAIN Table /\ r.ip = Table[r.name]
    \/ \E t \in told : /\ t.name = r.name
                       /\ t.ip = r.ip
                       /\ r.at - t.at < t.ttl
-----------------------------------------------------------------------------
(* The inductive invariant.  It follows a query through its slot: what is  *)
(* sent on, answered and replied to was given to the slot it is known by.  *)

Given(i, name) == \E q \in owners[i] : q.name = name

SlotsKeepAnOwner ==
  \A i \in Slot :
    IF owners[i] = {}
      THEN cacheForId[i] = NoOwner
      ELSE \E q \in owners[i] : cacheForId[i] = [key |-> q.id, value |-> q.client]

OwnersAsked == \A i \in Slot : owners[i] \subseteq asked

UpstreamGiven == \A u \in upstream : Given(u.id, u.name)

AnswerGiven(a) == a \in Answer /\ a.id # OwnAnswer /\ Given(a.id, a.name)

InboxGiven ==
  \A i \in DOMAIN inbox :
    /\ inbox[i].query => inbox[i].data \in asked
    /\ ~ inbox[i].query => AnswerGiven(inbox[i].data)

RepliesGiven ==
  \A r \in replies :
    IF r.slot = OwnAnswer
      THEN \E q \in asked : q.client = r.client /\ q.id = r.id
      ELSE /\ r.slot \in Slot
           /\ Given(r.slot, r.name)
           /\ \E q \in owners[r.slot] : q.client = r.client /\ q.id = r.id

(* What the cache holds, the table says or the server told.                *)
CacheTold ==
  \A e \in cacheMap :
    \/ e.TTL = Forever /\ e.name \in DOMAIN Table /\ e.ip = Table[e.name]
    \/ \E t \in told : /\ t.name = e.name /\ t.ip = e.ip
                       /\ t.ttl = e.TTL   /\ t.at = e.since

CacheNumbered ==
  /\ IsFiniteSet(cacheMap)
  /\ \A e \in cacheMap : e.no <= Cardinality(cacheMap)

(* The invariant the proofs rest on: replies, datagrams and queries on     *)
(* their way belong to a query given to their slot, whose owner is kept.   *)
RelayInv ==
  /\ TypeOK
  /\ EdgeMeansData
  /\ SlotsKeepAnOwner
  /\ OwnersAsked
  /\ UpstreamGiven
  /\ InboxGiven
  /\ RepliesGiven
  /\ CacheTold
  /\ CacheNumbered
  /\ AnswersFresh
=============================================================================
