-------------------------- MODULE EasyRelayProofs ---------------------------
(***************************************************************************)
(* RelayInv is an invariant of the relay, for any clients, names, table,   *)
(* number of slots and bounds; who gets which answer follows from it.      *)
(***************************************************************************)
EXTENDS EasyRelay, FiniteSetTheorems, WellFoundedInduction, TLAPS

-----------------------------------------------------------------------------
(* A finite set of numbered entries has a newest one. *)

Below == {p \in Nat \X Nat : p[1] < p[2]}

(* Going down the natural numbers ends. *)
LEMMA BelowWellFounded == IsWellFoundedOn(Below, Nat)
<1>1. OpToRel(<, Nat) = Below
  BY DEF OpToRel, Below
<1> QED BY <1>1, NatLessThanWellFounded

(* A set of natural numbers has a least one. *)
LEMMA LeastNatural ==
  ASSUME NEW T, T \subseteq Nat, T # {}
  PROVE  \E x \in T : \A y \in T : x <= y
<1>1. PICK x \in T : \A y \in T : ~ (<<y, x>> \in Below)
  BY BelowWellFounded, WFMin
<1>2. ASSUME NEW y \in T, y < x PROVE FALSE
  <2>1. <<y, x>> \in Nat \X Nat
    OBVIOUS
  <2>2. <<y, x>> \in Below
    BY <2>1, <1>2 DEF Below
  <2> QED BY <2>2, <1>1
<1> QED BY <1>1, <1>2

(* Newest finds an entry: one of those it is given. *)
LEMMA NewestIsOne ==
  ASSUME NEW entries, entries # {},
         NEW N \in Nat,
         \A e \in entries : e.no \in Nat /\ e.no <= N
  PROVE  Newest(entries) \in entries
<1> DEFINE T == {N - e.no : e \in entries}
<1>1. T \subseteq Nat /\ T # {}
  OBVIOUS
<1>2. PICK x \in T : \A y \in T : x <= y
  BY <1>1, LeastNatural
<1>3. PICK e \in entries : x = N - e.no
  OBVIOUS
<1>4. \A f \in entries : f.no <= e.no
  <2> TAKE f \in entries
  <2>1. N - f.no \in T
    OBVIOUS
  <2>2. N - e.no <= N - f.no
    BY <2>1, <1>2, <1>3
  <2> QED BY <2>2
<1>5. \E g \in entries : \A f \in entries : f.no <= g.no
  BY <1>4
<1> QED BY <1>5 DEF Newest

-----------------------------------------------------------------------------
(* What the second of the clock and the reading of a datagram give. *)

(* The slot of a query is a slot. *)
LEMMA SlotNowIsSlot ==
  ASSUME TypeOK
  PROVE  SlotNow \in Slot
BY RelayAssumption DEF TypeOK, Slot, SlotNow

(* A new entry of the cache keeps the numbers below their count, if it is  *)
(* from the table or was told by the server.                               *)
LEMMA AddedKeepsCache ==
  ASSUME TypeOK, CacheTold, CacheNumbered,
         NEW name \in Name, NEW ip, NEW ttl,
         cacheMap' = Added(name, ip, ttl),
         told \subseteq told',
         \/ ttl = Forever /\ name \in DOMAIN Table /\ ip = Table[name]
         \/ [name |-> name, ip |-> ip, ttl |-> ttl, at |-> clock] \in told'
  PROVE  /\ CacheTold'
         /\ CacheNumbered'
<1> DEFINE new == [no |-> Cardinality(cacheMap) + 1, name |-> name, ip |-> ip,
                   TTL |-> ttl, since |-> clock]
<1>1. cacheMap' = cacheMap \cup {new}
  BY DEF Added
<1>2. CacheTold'
  <2> SUFFICES ASSUME NEW e \in cacheMap'
               PROVE  \/ e.TTL = Forever /\ e.name \in DOMAIN Table
                         /\ e.ip = Table[e.name]
                      \/ \E t \in told' : /\ t.name = e.name /\ t.ip = e.ip
                                          /\ t.ttl = e.TTL   /\ t.at = e.since
    BY DEF CacheTold
  <2>1. CASE e \in cacheMap
    BY <2>1 DEF CacheTold
  <2>2. CASE e = new
    <3>1. CASE ttl = Forever /\ name \in DOMAIN Table /\ ip = Table[name]
      BY <2>2, <3>1
    <3>2. CASE [name |-> name, ip |-> ip, ttl |-> ttl, at |-> clock] \in told'
      BY <2>2, <3>2
    <3> QED BY <3>1, <3>2
  <2> QED BY <1>1, <2>1, <2>2
<1>3. CacheNumbered'
  <2>1. IsFiniteSet(cacheMap) /\ Cardinality(cacheMap) \in Nat
    BY FS_CardinalityType DEF CacheNumbered
  <2>2. new \notin cacheMap
    BY <2>1 DEF CacheNumbered
  <2>3. /\ IsFiniteSet(cacheMap')
        /\ Cardinality(cacheMap') = Cardinality(cacheMap) + 1
    BY <1>1, <2>1, <2>2, FS_AddElement
  <2>4. ASSUME NEW e \in cacheMap' PROVE e.no <= Cardinality(cacheMap')
    <3>1. CASE e \in cacheMap
      <4>1. e.no \in Nat
        BY <3>1 DEF TypeOK
      <4> QED BY <3>1, <4>1, <2>1, <2>3 DEF CacheNumbered
    <3>2. CASE e = new
      BY <3>2, <2>1, <2>3
    <3> QED BY <1>1, <3>1, <3>2
  <2> QED BY <2>3, <2>4 DEF CacheNumbered
<1> QED BY <1>2, <1>3

-----------------------------------------------------------------------------
(* The inbox. *)

(* What was given to a slot stays given. *)
LEMMA GivenStays ==
  ASSUME NEW i \in Slot, NEW name,
         \A j \in Slot : owners[j] \subseteq owners'[j],
         Given(i, name)
  PROVE  Given(i, name)'
BY DEF Given

(* A datagram arrives that is a query asked or an answer to one given.     *)
LEMMA ArriveKeepsInbox ==
  ASSUME TypeOK, InboxGiven,
         NEW d \in Datagram, Arrive(d),
         asked \subseteq asked', owners' = owners,
         d.query => d.data \in asked',
         ~ d.query => AnswerGiven(d.data)
  PROVE  /\ inbox' \in Seq(Datagram)
         /\ ready' \in BOOLEAN
         /\ EdgeMeansData'
         /\ InboxGiven'
<1>1. inbox \in Seq(Datagram) /\ inbox' = Append(inbox, d) /\ ready' = TRUE
  BY DEF TypeOK, Arrive
<1>2. /\ inbox' \in Seq(Datagram)
      /\ Len(inbox') = Len(inbox) + 1
      /\ \A i \in 1 .. Len(inbox) : inbox'[i] = inbox[i]
      /\ inbox'[Len(inbox) + 1] = d
  BY <1>1
<1>3. EdgeMeansData'
  BY <1>2 DEF EdgeMeansData
<1>4. InboxGiven'
  <2> SUFFICES ASSUME NEW i \in DOMAIN inbox'
               PROVE  /\ inbox'[i].query => inbox'[i].data \in asked'
                      /\ ~ inbox'[i].query => AnswerGiven(inbox'[i].data)
    BY DEF InboxGiven, AnswerGiven, Given
  <2>1. CASE i \in 1 .. Len(inbox)
    <3>1. i \in DOMAIN inbox /\ inbox'[i] = inbox[i]
      BY <1>1, <1>2, <2>1
    <3> QED BY <3>1 DEF InboxGiven
  <2>2. CASE i = Len(inbox) + 1
    BY <1>2, <2>2
  <2> QED BY <1>1, <1>2, <2>1, <2>2
<1> QED BY <1>1, <1>2, <1>3, <1>4

(* The first datagram is taken, and the slots may be given more queries.   *)
LEMMA TakenKeepsInbox ==
  ASSUME TypeOK, EdgeMeansData, InboxGiven,
         ready, ready' = FALSE, inbox' = Tail(inbox),
         asked' = asked, \A j \in Slot : owners[j] \subseteq owners'[j]
  PROVE  /\ inbox' \in Seq(Datagram)
         /\ EdgeMeansData'
         /\ InboxGiven'
<1>1. inbox \in Seq(Datagram) /\ inbox # <<>>
  BY DEF TypeOK, EdgeMeansData
<1>2. /\ inbox' \in Seq(Datagram)
      /\ \A i \in DOMAIN inbox' : i + 1 \in DOMAIN inbox /\ inbox'[i] = inbox[i + 1]
  BY <1>1
<1>3. EdgeMeansData'
  BY DEF EdgeMeansData
<1>4. InboxGiven'
  <2> SUFFICES ASSUME NEW i \in DOMAIN inbox'
               PROVE  /\ inbox'[i].query => inbox'[i].data \in asked'
                      /\ ~ inbox'[i].query => AnswerGiven(inbox[i].data)'
    BY DEF InboxGiven
  <2>1. i + 1 \in DOMAIN inbox /\ inbox'[i] = inbox[i + 1]
    BY <1>2
  <2>2. CASE inbox'[i].query
    BY <2>1, <2>2 DEF InboxGiven
  <2>3. CASE ~ inbox'[i].query
    <3>1. AnswerGiven(inbox'[i].data)
      BY <2>1, <2>3 DEF InboxGiven
    <3>2. inbox'[i].data.id \in Slot
      BY <3>1 DEF AnswerGiven, Answer
    <3> QED BY <2>3, <3>1, <3>2 DEF AnswerGiven, Given
  <2> QED BY <2>2, <2>3
<1> QED BY <1>2, <1>3, <1>4

-----------------------------------------------------------------------------
(* What a step does to the replies and the slots. *)

(* Replies given before stay given, as slots are given more and no fewer   *)
(* queries.                                                                *)
LEMMA RepliesStayGiven ==
  ASSUME RepliesGiven,
         asked \subseteq asked', \A j \in Slot : owners[j] \subseteq owners'[j],
         \A r \in replies' \ replies :
           IF r.slot = OwnAnswer
             THEN \E q \in asked' : q.client = r.client /\ q.id = r.id
             ELSE /\ r.slot \in Slot
                  /\ Given(r.slot, r.name)'
                  /\ \E q \in owners'[r.slot] : q.client = r.client /\ q.id = r.id
  PROVE  RepliesGiven'
<1> SUFFICES ASSUME NEW r \in replies'
             PROVE  IF r.slot = OwnAnswer
                      THEN \E q \in asked' : q.client = r.client /\ q.id = r.id
                      ELSE /\ r.slot \in Slot
                           /\ Given(r.slot, r.name)'
                           /\ \E q \in owners'[r.slot] :
                                q.client = r.client /\ q.id = r.id
  BY DEF RepliesGiven
<1>1. CASE r \in replies
  <2>1. CASE r.slot = OwnAnswer
    BY <1>1, <2>1 DEF RepliesGiven
  <2>2. CASE r.slot # OwnAnswer
    <3>1. /\ r.slot \in Slot
          /\ Given(r.slot, r.name)
          /\ \E q \in owners[r.slot] : q.client = r.client /\ q.id = r.id
      BY <1>1, <2>2 DEF RepliesGiven
    <3> QED BY <2>2, <3>1 DEF Given
  <2> QED BY <2>1, <2>2
<1>2. CASE r \notin replies
  BY <1>2
<1> QED BY <1>1, <1>2

(* A query that is sent on is the owner of its slot, and goes on under the *)
(* number of that slot.                                                    *)
LEMMA SendToDnsKeeps ==
  ASSUME TypeOK, SlotsKeepAnOwner, OwnersAsked, UpstreamGiven,
         NEW q \in asked, SendToDns(q), asked' = asked
  PROVE  /\ cacheForId' \in [Slot -> Owner \cup {NoOwner}]
         /\ upstream' \subseteq [id : Slot \ {0}, name : Name, qtype : QType]
         /\ owners' \in [Slot -> SUBSET Query]
         /\ \A j \in Slot : owners[j] \subseteq owners'[j]
         /\ SlotsKeepAnOwner'
         /\ OwnersAsked'
         /\ UpstreamGiven'
<1> USE SlotNowIsSlot
<1>1. q \in Query
  BY DEF TypeOK
<1>2. /\ cacheForId' = [cacheForId EXCEPT ![SlotNow] =
                          [key |-> q.id, value |-> q.client]]
      /\ owners' = [owners EXCEPT ![SlotNow] = @ \cup {q}]
  BY DEF SendToDns, Kept
<1>3. cacheForId' \in [Slot -> Owner \cup {NoOwner}]
  <2>1. [key |-> q.id, value |-> q.client] \in Owner
    BY <1>1 DEF Query, Owner
  <2> QED BY <1>2, <2>1 DEF TypeOK
<1>4. /\ owners' \in [Slot -> SUBSET Query]
      /\ \A j \in Slot : owners[j] \subseteq owners'[j]
      /\ q \in owners'[SlotNow]
  BY <1>1, <1>2 DEF TypeOK
<1>5. SlotsKeepAnOwner'
  <2> SUFFICES ASSUME NEW i \in Slot
               PROVE  IF owners'[i] = {}
                        THEN cacheForId'[i] = NoOwner
                        ELSE \E p \in owners'[i] :
                               cacheForId'[i] = [key |-> p.id, value |-> p.client]
    BY DEF SlotsKeepAnOwner
  <2>1. CASE i = SlotNow
    BY <1>2, <1>4, <2>1 DEF TypeOK
  <2>2. CASE i # SlotNow
    <3>1. owners'[i] = owners[i] /\ cacheForId'[i] = cacheForId[i]
      BY <1>2, <2>2 DEF TypeOK
    <3> QED BY <3>1 DEF SlotsKeepAnOwner
  <2> QED BY <2>1, <2>2
<1>6. OwnersAsked'
  BY <1>2 DEF OwnersAsked, TypeOK
<1>7. ASSUME NEW u \in upstream' \ upstream
      PROVE  /\ u \in [id : Slot \ {0}, name : Name, qtype : QType]
             /\ Given(u.id, u.name)'
  <2>1. /\ IdOnwards # 0
        /\ u = [id |-> IdOnwards, name |-> q.name, qtype |-> q.qtype]
    BY DEF SendToDns
  <2> QED BY <1>1, <1>4, <2>1 DEF IdOnwards, Query, Given
<1>8. upstream' \subseteq [id : Slot \ {0}, name : Name, qtype : QType]
  BY <1>7 DEF TypeOK
<1>9. UpstreamGiven'
  <2> SUFFICES ASSUME NEW u \in upstream' PROVE Given(u.id, u.name)'
    BY DEF UpstreamGiven
  <2>1. CASE u \in upstream
    <3>1. u.id \in Slot /\ Given(u.id, u.name)
      BY <2>1 DEF TypeOK, UpstreamGiven
    <3> QED BY <3>1, <1>4 DEF Given
  <2> QED BY <2>1, <1>7
<1> QED BY <1>3, <1>4, <1>5, <1>6, <1>8, <1>9

-----------------------------------------------------------------------------
(* RelayInv is inductive: one lemma for each kind of step. *)

LEMMA Initially == Init => RelayInv
<1> SUFFICES ASSUME Init PROVE RelayInv
  OBVIOUS
<1>1. TypeOK
  <2>1. inbox \in Seq(Datagram)
    <3>1. inbox = <<>>
      BY DEF Init
    <3> QED BY <3>1
  <2>2. cacheForId \in [Slot -> Owner \cup {NoOwner}]
    BY DEF Init
  <2>3. owners \in [Slot -> SUBSET Query]
    BY DEF Init
  <2> QED BY <2>1, <2>2, <2>3 DEF Init, TypeOK
<1>2. CacheNumbered
  BY FS_EmptySet DEF Init, CacheNumbered
<1> QED
  BY <1>1, <1>2
  DEF Init, RelayInv, EdgeMeansData, SlotsKeepAnOwner, OwnersAsked, UpstreamGiven,
      InboxGiven, RepliesGiven, CacheTold, AnswersFresh

(* A client asks. *)
LEMMA AskKeeps ==
  ASSUME RelayInv, NEW q \in Query, Ask(q)
  PROVE  RelayInv'
<1> USE DEF RelayInv
<1> DEFINE d == [query |-> TRUE, data |-> q]
<1>1. /\ Arrive(d)
      /\ asked' = asked \cup {q}
      /\ UNCHANGED <<cacheForId, cacheMap, clock, upstream, replies, owners, told,
                     answers>>
  BY DEF Ask
<1>2. d \in Datagram
  BY DEF Datagram
<1>3. /\ inbox' \in Seq(Datagram)
      /\ ready' \in BOOLEAN
      /\ EdgeMeansData'
      /\ InboxGiven'
  BY <1>1, <1>2, ArriveKeepsInbox
<1>4. TypeOK'
  BY <1>1, <1>3 DEF TypeOK
<1>5. SlotsKeepAnOwner' /\ OwnersAsked' /\ UpstreamGiven'
  BY <1>1 DEF SlotsKeepAnOwner, OwnersAsked, UpstreamGiven, Given
<1>6. RepliesGiven'
  <2>1. /\ asked \subseteq asked'
        /\ \A j \in Slot : owners[j] \subseteq owners'[j]
        /\ replies' \ replies = {}
    BY <1>1
  <2> QED BY <2>1, RepliesStayGiven
<1>7. CacheTold' /\ CacheNumbered' /\ AnswersFresh'
  BY <1>1 DEF CacheTold, CacheNumbered, AnswersFresh
<1> QED BY <1>3, <1>4, <1>5, <1>6, <1>7

(* The server answers. *)
LEMMA ServerAnswersKeeps ==
  ASSUME RelayInv,
         NEW u \in upstream, NEW first \in QType, NEW ip \in Address,
         NEW ttl \in Lifetimes,
         ServerAnswers(u, first, ip, ttl)
  PROVE  RelayInv'
<1> USE DEF RelayInv
<1> DEFINE a == [id |-> u.id, name |-> u.name, first |-> first, ip |-> ip, ttl |-> ttl]
           d == [query |-> FALSE, data |-> a]
<1>1. /\ Arrive(d)
      /\ answers' = answers + 1
      /\ UNCHANGED <<cacheForId, cacheMap, clock, upstream, replies, asked, owners,
                     told>>
  BY DEF ServerAnswers
<1>2. u.id \in Slot /\ u.id # OwnAnswer /\ u.name \in Name
  BY DEF TypeOK, OwnAnswer
<1>3. a \in Answer
  BY <1>2 DEF Answer
<1>4. d \in Datagram
  BY <1>3 DEF Datagram
<1>5. AnswerGiven(d.data)
  BY <1>2, <1>3 DEF AnswerGiven, UpstreamGiven
<1>6. /\ inbox' \in Seq(Datagram)
      /\ ready' \in BOOLEAN
      /\ EdgeMeansData'
      /\ InboxGiven'
  <2>1. asked \subseteq asked' /\ owners' = owners /\ d.query = FALSE
    BY <1>1
  <2> QED BY <1>1, <1>4, <1>5, <2>1, ArriveKeepsInbox
<1>7. TypeOK'
  BY <1>1, <1>6 DEF TypeOK
<1>8. SlotsKeepAnOwner' /\ OwnersAsked' /\ UpstreamGiven' /\ RepliesGiven'
  BY <1>1 DEF SlotsKeepAnOwner, OwnersAsked, UpstreamGiven, RepliesGiven, Given
<1>9. CacheTold' /\ CacheNumbered' /\ AnswersFresh'
  BY <1>1 DEF CacheTold, CacheNumbered, AnswersFresh
<1> QED BY <1>6, <1>7, <1>8, <1>9

(* The clock ticks. *)
LEMMA TickKeeps ==
  ASSUME RelayInv, Tick
  PROVE  RelayInv'
<1> USE DEF RelayInv
<1>1. /\ clock' = clock + 1
      /\ UNCHANGED <<inbox, ready, cacheForId, cacheMap, upstream, replies, asked,
                     owners, told, answers>>
  BY DEF Tick, history
<1>2. TypeOK'
  BY <1>1 DEF TypeOK
<1>3. EdgeMeansData' /\ InboxGiven'
  BY <1>1 DEF EdgeMeansData, InboxGiven, AnswerGiven, Given
<1>4. SlotsKeepAnOwner' /\ OwnersAsked' /\ UpstreamGiven' /\ RepliesGiven'
  BY <1>1 DEF SlotsKeepAnOwner, OwnersAsked, UpstreamGiven, RepliesGiven, Given
<1>5. CacheTold' /\ CacheNumbered' /\ AnswersFresh'
  BY <1>1 DEF CacheTold, CacheNumbered, AnswersFresh
<1> QED BY <1>2, <1>3, <1>4, <1>5

(* What a query does that is answered by the relay itself: the reply goes  *)
(* to its client, with an address that is still alive.                     *)
LEMMA ReplyKeeps ==
  ASSUME RelayInv,
         NEW q \in asked, NEW ip, Reply(q, ip),
         told' = told, asked' = asked, owners' = owners,
         \/ q.name \in DOMAIN Table /\ ip = Table[q.name]
         \/ \E t \in told : t.name = q.name /\ t.ip = ip /\ clock - t.at < t.ttl
  PROVE  RepliesGiven' /\ AnswersFresh'
<1> USE DEF RelayInv
<1> DEFINE reply == [client |-> q.client, id |-> q.id, name |-> q.name, ip |-> ip,
                     slot |-> OwnAnswer, at |-> clock]
<1>1. replies' = replies \cup {reply}
  BY DEF Reply
<1>2. RepliesGiven'
  <2>1. asked \subseteq asked' /\ \A j \in Slot : owners[j] \subseteq owners'[j]
    OBVIOUS
  <2>2. ASSUME NEW r \in replies' \ replies
        PROVE  r.slot = OwnAnswer /\ \E p \in asked' : p.client = r.client /\ p.id = r.id
    BY <1>1
  <2> QED BY <2>1, <2>2, RepliesStayGiven
<1>3. AnswersFresh'
  <2> SUFFICES ASSUME NEW r \in replies', r.slot = OwnAnswer
               PROVE  \/ r.name \in DOMAIN Table /\ r.ip = Table[r.name]
                      \/ \E t \in told' : /\ t.name = r.name
                                          /\ t.ip = r.ip
                                          /\ r.at - t.at < t.ttl
    BY DEF AnswersFresh
  <2>1. CASE r \in replies
    BY <2>1 DEF AnswersFresh
  <2>2. CASE r = reply
    BY <2>2
  <2> QED BY <1>1, <2>1, <2>2
<1> QED BY <1>2, <1>3

(* An entry of the cache that is found is one the relay may answer with.   *)
LEMMA InCacheIsFresh ==
  ASSUME RelayInv, NEW name, InCache(name) # {}
  PROVE  LET e == Newest(InCache(name))
         IN  \/ name \in DOMAIN Table /\ e.ip = Table[name]
             \/ \E t \in told : t.name = name /\ t.ip = e.ip /\ clock - t.at < t.ttl
<1> USE DEF RelayInv
<1>1. Cardinality(cacheMap) \in Nat
  BY FS_CardinalityType DEF CacheNumbered
<1>2. \A e \in InCache(name) : e.no \in Nat /\ e.no <= Cardinality(cacheMap)
  BY DEF InCache, TypeOK, CacheNumbered
<1>3. PICK e : e = Newest(InCache(name)) /\ e \in InCache(name)
  BY <1>1, <1>2, NewestIsOne
<1>4. e \in cacheMap /\ e.name = name /\ Alive(e)
  BY <1>3 DEF InCache
<1>5. CASE e.TTL = Forever /\ e.name \in DOMAIN Table /\ e.ip = Table[e.name]
  BY <1>3, <1>4, <1>5
<1>6. CASE \E t \in told : /\ t.name = e.name /\ t.ip = e.ip
                           /\ t.ttl = e.TTL   /\ t.at = e.since
  <2>1. PICK t \in told : /\ t.name = e.name /\ t.ip = e.ip
                          /\ t.ttl = e.TTL   /\ t.at = e.since
    BY <1>6
  <2>2. t.ttl \in Nat /\ t.at \in Nat /\ clock \in Nat
    BY RelayAssumption DEF TypeOK
  <2>3. clock - t.at < t.ttl
    BY <1>4, <2>1, <2>2 DEF Alive, Forever
  <2> QED BY <1>3, <1>4, <2>1, <2>3
<1> QED BY <1>4, <1>5, <1>6 DEF CacheTold

(* Every query read is dealt with as the invariant wants it. *)
LEMMA DealWithQueryKeeps ==
  ASSUME RelayInv, NEW q \in asked, DealWithQuery(q),
         asked' = asked, clock' = clock, answers' = answers,
         inbox' \in Seq(Datagram), ready' \in BOOLEAN
  PROVE  /\ TypeOK'
         /\ \A j \in Slot : owners[j] \subseteq owners'[j]
         /\ SlotsKeepAnOwner' /\ OwnersAsked' /\ UpstreamGiven' /\ RepliesGiven'
         /\ CacheTold' /\ CacheNumbered' /\ AnswersFresh'
<1> USE DEF RelayInv
<1>1. told' = told /\ q \in Query /\ q.name \in Name
  BY DEF DealWithQuery, TypeOK, Query
<1>2. CASE Relay(q)
  <2>1. SendToDns(q) /\ cacheMap' = cacheMap /\ replies' = replies
    BY <1>2 DEF Relay
  <2>2. /\ cacheForId' \in [Slot -> Owner \cup {NoOwner}]
        /\ upstream' \subseteq [id : Slot \ {0}, name : Name, qtype : QType]
        /\ owners' \in [Slot -> SUBSET Query]
        /\ \A j \in Slot : owners[j] \subseteq owners'[j]
        /\ SlotsKeepAnOwner'
        /\ OwnersAsked'
        /\ UpstreamGiven'
    BY <2>1, SendToDnsKeeps
  <2>3. TypeOK'
    BY <1>1, <2>1, <2>2 DEF TypeOK
  <2>4. RepliesGiven'
    BY <2>1, <2>2, RepliesStayGiven
  <2>5. CacheTold' /\ CacheNumbered' /\ AnswersFresh'
    BY <1>1, <2>1 DEF CacheTold, CacheNumbered, AnswersFresh
  <2> QED BY <2>2, <2>3, <2>4, <2>5
<1>3. CASE AnswerFromCache(q)
  <2>1. /\ InCache(q.name) # {}
        /\ Reply(q, Newest(InCache(q.name)).ip)
        /\ UNCHANGED <<cacheForId, cacheMap, upstream, owners>>
    BY <1>3 DEF AnswerFromCache
  <2>2. RepliesGiven' /\ AnswersFresh'
    BY <1>1, <2>1, InCacheIsFresh, ReplyKeeps
  <2>3. TypeOK'
    BY <1>1, <2>1 DEF TypeOK
  <2>4. SlotsKeepAnOwner' /\ OwnersAsked' /\ UpstreamGiven'
    BY <2>1 DEF SlotsKeepAnOwner, OwnersAsked, UpstreamGiven, Given
  <2>5. CacheTold' /\ CacheNumbered'
    BY <1>1, <2>1 DEF CacheTold, CacheNumbered
  <2> QED BY <2>1, <2>2, <2>3, <2>4, <2>5
<1>4. CASE AnswerFromTable(q)
  <2>1. /\ q.name \in DOMAIN Table
        /\ Reply(q, Table[q.name])
        /\ cacheMap' = Added(q.name, Table[q.name], Forever)
        /\ UNCHANGED <<cacheForId, upstream, owners>>
    BY <1>4 DEF AnswerFromTable
  <2>2. RepliesGiven' /\ AnswersFresh'
    BY <1>1, <2>1, ReplyKeeps
  <2>3. CacheTold' /\ CacheNumbered'
    BY <1>1, <2>1, AddedKeepsCache
  <2>4. TypeOK'
    <3>1. Cardinality(cacheMap) + 1 \in Nat
      BY FS_CardinalityType DEF CacheNumbered
    <3>2. cacheMap' \subseteq
            [no : Nat, name : Name, since : Nat, TTL : Lifetimes \cup {Forever},
             ip : Address \cup {Table[n] : n \in DOMAIN Table}]
      BY <1>1, <2>1, <3>1 DEF TypeOK, Added
    <3> QED BY <1>1, <2>1, <3>2 DEF TypeOK
  <2>5. SlotsKeepAnOwner' /\ OwnersAsked' /\ UpstreamGiven'
    BY <2>1 DEF SlotsKeepAnOwner, OwnersAsked, UpstreamGiven, Given
  <2> QED BY <2>1, <2>2, <2>3, <2>4, <2>5
<1> QED BY <1>2, <1>3, <1>4 DEF DealWithQuery

(* Every answer read goes to an owner of its slot, and what it tells is    *)
(* cached.                                                                 *)
LEMMA DealWithAnswerKeeps ==
  ASSUME RelayInv, NEW a, AnswerGiven(a), DealWithAnswer(a),
         asked' = asked, clock' = clock, answers' = answers,
         inbox' \in Seq(Datagram), ready' \in BOOLEAN
  PROVE  /\ TypeOK'
         /\ \A j \in Slot : owners[j] \subseteq owners'[j]
         /\ SlotsKeepAnOwner' /\ OwnersAsked' /\ UpstreamGiven' /\ RepliesGiven'
         /\ CacheTold' /\ CacheNumbered' /\ AnswersFresh'
<1> USE DEF RelayInv
<1> DEFINE owner == cacheForId[a.id]
           reply == [client |-> owner.value, id |-> owner.key, name |-> a.name,
                     ip |-> a.ip, slot |-> a.id, at |-> clock]
           news  == [name |-> a.name, ip |-> a.ip, ttl |-> a.ttl, at |-> clock]
<1>1. /\ a \in Answer
      /\ a.id \in Slot /\ a.id # OwnAnswer
      /\ a.name \in Name /\ a.ip \in Address /\ a.ttl \in Lifetimes
      /\ Given(a.id, a.name)
  BY DEF AnswerGiven, Answer
<1>2. /\ replies' = replies \cup {reply}
      /\ UNCHANGED <<cacheForId, upstream, owners>>
      /\ \/ cacheMap' = Added(a.name, a.ip, a.ttl) /\ told' = told \cup {news}
         \/ cacheMap' = cacheMap /\ told' = told
  BY DEF DealWithAnswer
<1>3. PICK q \in owners[a.id] : owner = [key |-> q.id, value |-> q.client]
  BY <1>1 DEF SlotsKeepAnOwner, Given
<1>4. \A j \in Slot : owners[j] \subseteq owners'[j]
  BY <1>2
<1>5. SlotsKeepAnOwner' /\ OwnersAsked' /\ UpstreamGiven'
  BY <1>2 DEF SlotsKeepAnOwner, OwnersAsked, UpstreamGiven, Given
<1>6. RepliesGiven'
  <2>1. /\ reply.slot = a.id /\ reply.name = a.name
        /\ reply.client = q.client /\ reply.id = q.id
    BY <1>3
  <2>2. Given(reply.slot, reply.name)'
    BY <1>1, <1>2, <2>1 DEF Given
  <2>3. ASSUME NEW r \in replies' \ replies
        PROVE  /\ r.slot # OwnAnswer /\ r.slot \in Slot
               /\ Given(r.slot, r.name)'
               /\ \E p \in owners'[r.slot] : p.client = r.client /\ p.id = r.id
    <3>1. r = reply
      BY <1>2
    <3>2. Given(r.slot, r.name)'
      BY <2>2, <3>1 DEF Given
    <3> QED BY <1>1, <1>2, <1>3, <2>1, <3>1, <3>2
  <2> QED BY <1>4, <2>3, RepliesStayGiven
<1>7. AnswersFresh'
  <2> SUFFICES ASSUME NEW r \in replies', r.slot = OwnAnswer
               PROVE  \/ r.name \in DOMAIN Table /\ r.ip = Table[r.name]
                      \/ \E t \in told' : /\ t.name = r.name
                                          /\ t.ip = r.ip
                                          /\ r.at - t.at < t.ttl
    BY DEF AnswersFresh
  <2>1. r \in replies /\ told \subseteq told'
    BY <1>1, <1>2
  <2> QED BY <2>1 DEF AnswersFresh
<1>8. CacheTold' /\ CacheNumbered'
  <2>1. CASE cacheMap' = cacheMap /\ told' = told
    BY <2>1 DEF CacheTold, CacheNumbered
  <2>2. CASE cacheMap' = Added(a.name, a.ip, a.ttl) /\ told' = told \cup {news}
    BY <1>1, <2>2, AddedKeepsCache
  <2> QED BY <1>2, <2>1, <2>2
<1>9. TypeOK'
  <2>1. Cardinality(cacheMap) + 1 \in Nat
    BY FS_CardinalityType DEF CacheNumbered
  <2>2. cacheMap' \subseteq
          [no : Nat, name : Name, since : Nat, TTL : Lifetimes \cup {Forever},
           ip : Address \cup {Table[n] : n \in DOMAIN Table}]
    BY <1>1, <1>2, <2>1 DEF TypeOK, Added
  <2>3. told' \subseteq [name : Name, ip : Address, ttl : Lifetimes, at : Nat]
    BY <1>1, <1>2 DEF TypeOK
  <2> QED BY <1>2, <2>2, <2>3 DEF TypeOK
<1> QED BY <1>4, <1>5, <1>6, <1>7, <1>8, <1>9

(* One datagram is read and dealt with. *)
LEMMA RunDnsKeeps ==
  ASSUME RelayInv, RunDns
  PROVE  RelayInv'
<1> USE DEF RelayInv
<1>1. /\ ready /\ ready' = FALSE /\ inbox' = Tail(inbox)
      /\ IF Head(inbox).query THEN DealWithQuery(Head(inbox).data)
                              ELSE DealWithAnswer(Head(inbox).data)
      /\ UNCHANGED <<clock, asked, answers>>
  BY DEF RunDns, EdgeTaken
<1>2. inbox \in Seq(Datagram) /\ inbox # <<>>
  BY <1>1 DEF TypeOK, EdgeMeansData
<1>3. 1 \in DOMAIN inbox /\ Head(inbox) = inbox[1] /\ inbox' \in Seq(Datagram)
  BY <1>1, <1>2
<1>4. /\ TypeOK'
      /\ \A j \in Slot : owners[j] \subseteq owners'[j]
      /\ SlotsKeepAnOwner' /\ OwnersAsked' /\ UpstreamGiven' /\ RepliesGiven'
      /\ CacheTold' /\ CacheNumbered' /\ AnswersFresh'
  <2>1. CASE Head(inbox).query
    <3>1. Head(inbox).data \in asked
      BY <1>3, <2>1 DEF InboxGiven
    <3> QED BY <1>1, <1>3, <2>1, <3>1, DealWithQueryKeeps
  <2>2. CASE ~ Head(inbox).query
    <3>1. AnswerGiven(Head(inbox).data)
      BY <1>3, <2>2 DEF InboxGiven
    <3> QED BY <1>1, <1>3, <2>2, <3>1, DealWithAnswerKeeps
  <2> QED BY <2>1, <2>2
<1>5. EdgeMeansData' /\ InboxGiven'
  BY <1>1, <1>4, TakenKeepsInbox
<1> QED BY <1>4, <1>5

(* Whatever step is taken keeps the invariant. *)
LEMMA StepKeeps ==
  ASSUME RelayInv, [Next]_vars
  PROVE  RelayInv'
<1>1. CASE Next
  <2>1. CASE \E q \in Query : Ask(q)
    BY <2>1, AskKeeps
  <2>2. CASE \E u \in upstream, first \in QType, ip \in Address, ttl \in Lifetimes :
               ServerAnswers(u, first, ip, ttl)
    BY <2>2, ServerAnswersKeeps
  <2>3. CASE Tick
    BY <2>3, TickKeeps
  <2>4. CASE RunDns
    BY <2>4, RunDnsKeeps
  <2> QED BY <1>1, <2>1, <2>2, <2>3, <2>4 DEF Next
<1>2. CASE UNCHANGED vars
  BY <1>2
  DEF vars, history, RelayInv, TypeOK, EdgeMeansData, SlotsKeepAnOwner, OwnersAsked,
      UpstreamGiven, InboxGiven, AnswerGiven, Given, RepliesGiven, CacheTold,
      CacheNumbered, AnswersFresh
<1> QED BY <1>1, <1>2

-----------------------------------------------------------------------------
(* The theorems. *)

(* The inductive invariant holds: what is on its way belongs to a query    *)
(* that was given to its slot, and the cache holds what was told.          *)
THEOREM RelayInvCorrect == Spec => []RelayInv
<1>1. Init => RelayInv
  BY Initially
<1>2. RelayInv /\ [Next]_vars => RelayInv'
  BY StepKeeps
<1> QED BY <1>1, <1>2, PTL DEF Spec

(* Every variable keeps its range; a slot's number is always below         *)
(* CACHE_LEN and no query goes on under number 0.                          *)
THEOREM RelayTypeCorrect == Spec => []TypeOK
<1>1. RelayInv => TypeOK
  BY DEF RelayInv
<1> QED BY <1>1, RelayInvCorrect, PTL

(* runDns is not woken without a datagram to read. *)
THEOREM EdgesMeanData == Spec => []EdgeMeansData
<1>1. RelayInv => EdgeMeansData
  BY DEF RelayInv
<1> QED BY <1>1, RelayInvCorrect, PTL

(* The branch of dealWithPacket for answers finds the address of a client  *)
(* in the slot it looks at, never NULL.                                    *)
THEOREM OwnersFound == Spec => []AnswersFindOwner
<1>1. RelayInv => AnswersFindOwner
  <2> SUFFICES ASSUME RelayInv, NEW i \in DOMAIN inbox, ~ inbox[i].query
               PROVE  cacheForId[inbox[i].data.id].value # NULL
    BY DEF AnswersFindOwner
  <2>1. inbox[i].data.id \in Slot /\ Given(inbox[i].data.id, inbox[i].data.name)
    BY DEF RelayInv, InboxGiven, AnswerGiven, Answer
  <2>2. PICK q \in owners[inbox[i].data.id] :
          cacheForId[inbox[i].data.id] = [key |-> q.id, value |-> q.client]
    BY <2>1 DEF RelayInv, SlotsKeepAnOwner, Given
  <2>3. q.client \in Client
    BY <2>1, <2>2 DEF RelayInv, TypeOK, Query
  <2> QED BY <2>2, <2>3, RelayAssumption
<1> QED BY <1>1, RelayInvCorrect, PTL

(* No client gets a reply under a number it did not ask with. *)
THEOREM RepliesAsked == Spec => []RepliesWereAsked
<1>1. RelayInv => RepliesWereAsked
  BY DEF RelayInv, RepliesGiven, RepliesWereAsked, OwnersAsked
<1> QED BY <1>1, RelayInvCorrect, PTL

(* Only queries that share a slot can get each other's answers. *)
THEOREM MixupsShareSlots == Spec => []MixupNeedsSharedSlot
<1>1. RelayInv => MixupNeedsSharedSlot
  <2> SUFFICES ASSUME RelayInv, NEW r \in replies, NEW q \in owners[r.slot],
                      r.slot # OwnAnswer, owners[r.slot] = {q}
               PROVE  r.client = q.client /\ r.id = q.id /\ r.name = q.name
    BY DEF MixupNeedsSharedSlot
  <2> QED BY DEF RelayInv, RepliesGiven, Given
<1> QED BY <1>1, RelayInvCorrect, PTL

(* What the relay answers itself is in the table, or is an answer of the   *)
(* server for that name that has not outlived its lifetime.                *)
THEOREM OwnAnswersFresh == Spec => []AnswersFresh
<1>1. RelayInv => AnswersFresh
  BY DEF RelayInv
<1> QED BY <1>1, RelayInvCorrect, PTL

=============================================================================
