---------------------------- MODULE DomainCache -----------------------------
(***************************************************************************)
(* The hash map of EasyDns/hlist.c, which serves as the domain table and   *)
(* as the cache of answers: buckets of doubly linked entries, the newest   *)
(* first, where an entry's pprev points to the pointer that points to it.  *)
(* A lookup reads the clock at every entry, twice at one that matches, and *)
(* unlinks on its way what has expired.                                    *)
(***************************************************************************)
EXTENDS Integers, Sequences, FiniteSets

CONSTANTS
  Name,       \* domain names, as written
  Value,      \* addresses
  Bucket,
  Hash,       \* the bucket of a name
  Folded,     \* a name without its case
  Lifetimes,  \* the lifetimes answers come with; -1 is for ever
  MaxNodes,   \* bound: how many entries are added
  MaxClock    \* bound: how far the clock runs

ASSUME CacheAssumption ==
  /\ Hash \in [Name -> Bucket]
  /\ Folded \in [Name -> Name]
  /\ Lifetimes \subseteq Int
  /\ 0 \notin Value \cup Name
  /\ MaxNodes \in Nat /\ MaxClock \in Nat

Null == 0
Node == 1 .. MaxNodes

Forever  == -1
NotFound == 0

(* A pointer to a pointer: to the first of a bucket, or the next of a node. *)
FirstOf(b) == [of |-> "first", at |-> b]
NextOf(n)  == [of |-> "next", at |-> n]

VARIABLES
  heads,     \* the buckets that have a struct hlistHead
  first,     \* its first
  nodes,     \* the entries ever added, linked or not
  clock,     \* tv_sec
  search,    \* findHashMap on its way: name, entry and the place in the loop
  answer,    \* what findHashMap found, until the next call
  crashed    \* an access through a null pointer

lists == <<heads, first, nodes>>
vars  == <<lists, clock, search, answer, crashed>>

NoAnswer == [name |-> NotFound, value |-> NotFound]

Idle == [at |-> "idle", key |-> NotFound, temp |-> Null, flag |-> 0]

Init ==
  /\ heads = {}
  /\ first = [b \in Bucket |-> Null]
  /\ nodes = <<>>
  /\ clock = 0
  /\ search = Idle
  /\ answer = NoAnswer
  /\ crashed = FALSE

-----------------------------------------------------------------------------
(* *place = n, in the lists f, ns. *)
StoreFirst(f, place, n) ==
  IF place.of = "first" THEN [f EXCEPT ![place.at] = n] ELSE f
StoreNext(ns, place, n) ==
  IF place.of = "next" THEN [ns EXCEPT ![place.at].next = n] ELSE ns

(* The new entry goes in front of the first one of its bucket. *)
Linked(ns, old, n) == [ns EXCEPT ![old].pprev = NextOf(n)]

AddHashMap(key, value, ttl) ==
  LET n   == Len(nodes) + 1
      b   == Hash[key]
      old == first[b]
      node(place, next) ==
        [key |-> key, value |-> value, TTL |-> ttl, lastCallTime |-> clock,
         next |-> next, pprev |-> place]
  IN  /\ ~crashed
      /\ search.at = "idle"
      /\ Len(nodes) < MaxNodes
      /\ \/ /\ b \notin heads
            /\ heads' = heads \cup {b}
            /\ first' = [first EXCEPT ![b] = n]
            /\ nodes' = Append(nodes, node(FirstOf(b), Null))
            /\ UNCHANGED crashed
         \/ /\ b \in heads
            /\ old # Null
            /\ LET place == nodes[old].pprev
                   added == Append(Linked(nodes, old, n), node(place, old))
               IN  /\ first' = StoreFirst(first, place, n)
                   /\ nodes' = StoreNext(added, place, n)
            /\ UNCHANGED <<heads, crashed>>
         \/ /\ b \in heads
            /\ old = Null
            /\ crashed' = TRUE
            /\ UNCHANGED lists
      /\ answer' = NoAnswer
      /\ UNCHANGED <<clock, search>>

(* delHashMapNode: what points to n points to the next one, which learns   *)
(* of it; n itself keeps its pointers.                                     *)
UnlinkedOneWay(n) ==   \* slip: the next one keeps its pprev
  /\ first' = StoreFirst(first, nodes[n].pprev, nodes[n].next)
  /\ nodes' = StoreNext(nodes, nodes[n].pprev, nodes[n].next)
UnlinkedCleared(n) ==   \* slip: n forgets the next one
  LET next  == nodes[n].next
      place == nodes[n].pprev
      told  == IF next = Null THEN nodes ELSE [nodes EXCEPT ![next].pprev = place]
  IN  /\ first' = StoreFirst(first, place, next)
      /\ nodes' = [StoreNext(told, place, next) EXCEPT ![n].next = Null]
Unlinked(n) ==
  LET next  == nodes[n].next
      place == nodes[n].pprev
      told  == IF next = Null THEN nodes ELSE [nodes EXCEPT ![next].pprev = place]
  IN  /\ first' = StoreFirst(first, place, next)
      /\ nodes' = StoreNext(told, place, next)

AliveOrNever(n) == nodes[n].TTL > clock - nodes[n].lastCallTime   \* slip
Alive(n) ==
  \/ nodes[n].TTL = Forever
  \/ nodes[n].TTL > clock - nodes[n].lastCallTime

(* notOverTime: an entry that has expired is unlinked. *)
NotOverTime(n) ==
  \/ Alive(n) /\ UNCHANGED <<first, nodes>>
  \/ ~Alive(n) /\ Unlinked(n)

-----------------------------------------------------------------------------
(* findHashMap. *)

FindHashMap(key) ==
  LET b == Hash[key]
  IN  /\ ~crashed
      /\ search.at = "idle"
      /\ \/ /\ b \notin heads
            /\ answer' = [name |-> key, value |-> NotFound]
            /\ UNCHANGED <<search, crashed>>
         \/ /\ b \in heads
            /\ first[b] # Null
            /\ search' =
                 [at |-> "loop", key |-> key, temp |-> first[b],
                  flag |-> IF nodes[first[b]].TTL = Forever THEN -1 ELSE 0]
            /\ answer' = NoAnswer
            /\ UNCHANGED crashed
         \/ /\ b \in heads
            /\ first[b] = Null
            /\ crashed' = TRUE
            /\ answer' = NoAnswer
            /\ UNCHANGED search
      /\ UNCHANGED <<lists, clock>>

(* The loop's condition: flag is set before it and never counted up.       *)
Continues == search.temp # Null /\ (search.flag = -1 \/ search.flag <= 3)

ToNext(n) == [search EXCEPT !.at = "loop", !.temp = nodes'[n].next]

FoldsTo(n) == Folded[search.key] = Folded[nodes[n].key]

(* The body of the loop up to the comparison of the names. *)
Examine ==
  LET n == search.temp
  IN  /\ ~crashed
      /\ search.at = "loop"
      /\ Continues
      /\ NotOverTime(n)
      /\ \/ FoldsTo(n) /\ search' = [search EXCEPT !.at = "matched"]
         \/ ~FoldsTo(n) /\ search' = ToNext(n)
      /\ UNCHANGED <<heads, clock, answer, crashed>>

(* The name matches: the time is looked at once more. *)
Matched ==
  LET n == search.temp
  IN  /\ ~crashed
      /\ search.at = "matched"
      /\ NotOverTime(n)
      /\ \/ /\ Alive(n)
            /\ answer' = [name |-> search.key, value |-> nodes[n].value]
            /\ search' = Idle
         \/ /\ ~Alive(n)
            /\ search' = ToNext(n)
            /\ UNCHANGED answer
      /\ UNCHANGED <<heads, clock, crashed>>

GiveUp ==
  /\ ~crashed
  /\ search.at = "loop"
  /\ ~Continues
  /\ answer' = [name |-> search.key, value |-> NotFound]
  /\ search' = Idle
  /\ UNCHANGED <<lists, clock, crashed>>

Tick ==
  /\ clock < MaxClock
  /\ clock' = clock + 1
  /\ UNCHANGED <<lists, search, answer, crashed>>

Next ==
  \/ \E key \in Name, value \in Value, ttl \in Lifetimes :
       AddHashMap(key, value, ttl)
  \/ \E key \in Name : FindHashMap(key)
  \/ Examine
  \/ Matched
  \/ GiveUp
  \/ Tick

Spec == Init /\ [][Next]_vars

-----------------------------------------------------------------------------
Pointer == [of : {"first"}, at : Bucket] \cup [of : {"next"}, at : Node]

Entry == [key : Name, value : Value, TTL : Lifetimes, lastCallTime : Nat,
          next : Node \cup {Null}, pprev : Pointer]

TypeOK ==
  /\ heads \subseteq Bucket
  /\ first \in [Bucket -> Node \cup {Null}]
  /\ nodes \in Seq(Entry)
  /\ Len(nodes) <= MaxNodes
  /\ clock \in Nat
  /\ search \in [at : {"idle", "loop", "matched"}, key : Name \cup {NotFound},
                 temp : Node \cup {Null}, flag : {-1, 0}]
  /\ answer \in [name : Name \cup {NotFound}, value : Value \cup {NotFound}]
  /\ crashed \in BOOLEAN

(* The entries reached from entry n; next ones are older.                  *)
From(n) ==
  LET reached[m \in 0 .. Len(nodes)] ==
        IF m = Null THEN {}
        ELSE {m} \cup (IF nodes[m].next < m THEN reached[nodes[m].next] ELSE {})
  IN  reached[n]

InBucket(b) == From(first[b])
InLists == UNION {InBucket(b) : b \in Bucket}

PointsTo(place) ==
  IF place.of = "first" THEN first[place.at] ELSE nodes[place.at].next

(* The lists stay lists, whatever is unlinked while they are searched: an  *)
(* entry is in the bucket of its name, behind it are older ones only, and  *)
(* its pprev is the one pointer in the lists that points to it.            *)
ListsWellFormed ==
  /\ TypeOK
  /\ \A b \in Bucket : \A n \in InBucket(b) :
       /\ Hash[nodes[n].key] = b
       /\ nodes[n].next < n
       /\ PointsTo(nodes[n].pprev) = n
       /\ \/ nodes[n].pprev = FirstOf(b)
          \/ nodes[n].pprev.of = "next" /\ nodes[n].pprev.at \in InBucket(b)

(* The program crashes only at a bucket all of whose entries had a         *)
(* lifetime: so not in the domain table, which has none that expire.       *)
CrashNeedsExpiry ==
  crashed => \E b \in heads :
    /\ first[b] = Null
    /\ \A n \in DOMAIN nodes : Hash[nodes[n].key] = b => nodes[n].TTL # Forever

(* The comment in findHashMap, "by flag <= 3 realise LRU": a hit makes the *)
(* entry the most recently used one, by its place or by its lastCallTime   *)
(* (flag -1 is for the domain table, whose entries stay).                  *)
HitIsMostRecent ==
  [][\A n \in DOMAIN nodes :
       /\ search.at = "matched" /\ search.temp = n /\ search.flag # -1
       /\ search'.at = "idle"
       =>
         \/ first'[Hash[search.key]] = n
         \/ \A m \in DOMAIN nodes :
              nodes'[m].lastCallTime <= nodes'[n].lastCallTime]_vars

(* An entry answers every name that its own differs from in case only.     *)
SameButForCase ==
  {p \in Name \X Name : Hash[p[1]] = Hash[p[2]] /\ Folded[p[1]] = Folded[p[2]]}

EntryOf(n) == [no |-> n, key |-> nodes[n].key, value |-> nodes[n].value,
               TTL |-> nodes[n].TTL, since |-> nodes[n].lastCallTime]

Map == INSTANCE ExpiringMap WITH
  Answers <- SameButForCase,
  entries <- {EntryOf(n) : n \in InLists},
  now     <- clock

(* A lookup finds the newest entry for the name that has not expired, if   *)
(* there is one, and no entry is lost before its time.                     *)
ImplementsExpiringMap == Map!Spec
=============================================================================
