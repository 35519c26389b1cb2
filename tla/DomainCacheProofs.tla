------------------------- MODULE DomainCacheProofs ---------------------------
(***************************************************************************)
(* CacheInv is an invariant of the hash map, for any names, hash function, *)
(* lifetimes and bounds.  It says what the lists are without following a   *)
(* pointer twice, so that unlinking an entry - and unlinking it again -    *)
(* can be seen to keep them; that the lists are well formed, what can      *)
(* crash the program, and that a lookup finds the newest entry alive,      *)
(* follow from it.                                                         *)
(***************************************************************************)
EXTENDS DomainCache, WellFoundedInduction, TLAPS

-----------------------------------------------------------------------------
(* The inductive invariant. *)

(* Place is the pointer in the list of S that points to entry n.           *)
PointedAt(b, S, place, n) ==
  \/ place = FirstOf(b) /\ first[b] = n
  \/ \E m \in S : place = NextOf(m) /\ nodes[m].next = n

(* The entries of S are the list of bucket b, newest first: a pointer      *)
(* leads to the newest of those that are older.                            *)
IsList(b, S) ==
  /\ first[b] \in S \cup {Null}
  /\ \A m \in S : m <= first[b]
  /\ \A n \in S :
       /\ Hash[nodes[n].key] = b
       /\ nodes[n].next \in S \cup {Null} /\ nodes[n].next < n
       /\ \A m \in S : m < n => m <= nodes[n].next
       /\ PointedAt(b, S, nodes[n].pprev, n)

Layouts == [Bucket -> SUBSET DOMAIN nodes]

Lists(L) == \A b \in Bucket : IsList(b, L[b])

(* An entry for ever is never unlinked.                                    *)
ForeverStays(L) ==
  \A n \in DOMAIN nodes : nodes[n].TTL = Forever => n \in L[Hash[nodes[n].key]]

(* An entry that was unlinked where the list S has been joined: to unlink  *)
(* it again writes what is there already.                                  *)
Detached(b, S, n) ==
  /\ n \notin S /\ ~ Alive(n)
  /\ nodes[n].next \in S \cup {Null} /\ nodes[n].next < n
  /\ \A m \in S : m < n => m <= nodes[n].next
  /\ PointedAt(b, S, nodes[n].pprev, nodes[n].next)
  /\ nodes[n].next # Null => nodes[nodes[n].next].pprev = nodes[n].pprev

(* A search has passed no entry it should have found, and where it stands  *)
(* is in the list, or was just before.                                     *)
SearchOK(L) ==
  LET S == L[Hash[search.key]]
  IN  search.at # "idle" =>
        /\ search.key \in Name
        /\ \A m \in S : m > search.temp => ~ (FoldsTo(m) /\ Alive(m))
        /\ search.at = "loop" => search.temp \in S \cup {Null}
        /\ search.at = "matched" =>
             /\ search.temp \in DOMAIN nodes
             /\ FoldsTo(search.temp)
             /\ search.temp \in S \/ Detached(Hash[search.key], S, search.temp)

NoHeadNoList == \A b \in Bucket \ heads : first[b] = Null
CrashAtEmptyList == crashed => \E b \in heads : first[b] = Null

CacheInv ==
  /\ TypeOK
  /\ NoHeadNoList
  /\ CrashAtEmptyList
  /\ \E L \in Layouts : Lists(L) /\ ForeverStays(L) /\ SearchOK(L)

-----------------------------------------------------------------------------
(* What unlinking writes. *)

LEMMA EntryTypes ==
  ASSUME TypeOK
  PROVE  /\ Len(nodes) \in Nat /\ DOMAIN nodes = 1 .. Len(nodes)
         /\ DOMAIN nodes \subseteq Node /\ Null \notin Node
         /\ nodes \in [DOMAIN nodes -> Entry]
         /\ \A n \in DOMAIN nodes :
              /\ n \in Nat /\ n > 0
              /\ nodes[n] \in Entry
              /\ nodes[n].key \in Name /\ Hash[nodes[n].key] \in Bucket
              /\ nodes[n].next \in Nat
              /\ nodes[n].TTL \in Int /\ nodes[n].lastCallTime \in Nat
<1>1. nodes \in Seq(Entry) /\ Len(nodes) <= MaxNodes
  BY DEF TypeOK
<1>2. /\ Len(nodes) \in Nat /\ DOMAIN nodes = 1 .. Len(nodes)
      /\ \A n \in DOMAIN nodes : nodes[n] \in Entry
      /\ nodes \in [DOMAIN nodes -> Entry]
  BY <1>1
<1>3. MaxNodes \in Nat /\ Hash \in [Name -> Bucket] /\ Lifetimes \subseteq Int
  BY CacheAssumption
<1>4. DOMAIN nodes \subseteq Node /\ Null \notin Node /\ Node \cup {Null} \subseteq Nat
  BY <1>1, <1>2, <1>3 DEF Node, Null
<1>5. \A e \in Entry : /\ e.key \in Name /\ e.next \in Nat
                       /\ e.TTL \in Int /\ e.lastCallTime \in Nat
  BY <1>3, <1>4 DEF Entry
<1> QED BY <1>2, <1>3, <1>4, <1>5 DEF Node

(* Two pointers are written: the one that points to n, and the next        *)
(* entry's pprev.                                                          *)
LEMMA UnlinkedDoes ==
  ASSUME TypeOK, NEW n \in DOMAIN nodes, Unlinked(n),
         nodes[n].next \in DOMAIN nodes \cup {Null},
         \/ \E b \in Bucket : nodes[n].pprev = FirstOf(b)
         \/ \E m \in DOMAIN nodes : nodes[n].pprev = NextOf(m)
  PROVE  /\ nodes' \in Seq(Entry) /\ Len(nodes') = Len(nodes)
         /\ DOMAIN nodes' = DOMAIN nodes
         /\ first' \in [Bucket -> Node \cup {Null}]
         /\ \A k \in DOMAIN nodes :
              /\ nodes'[k].key = nodes[k].key /\ nodes'[k].value = nodes[k].value
              /\ nodes'[k].TTL = nodes[k].TTL
              /\ nodes'[k].lastCallTime = nodes[k].lastCallTime
              /\ nodes'[k].pprev = IF k = nodes[n].next THEN nodes[n].pprev
                                                       ELSE nodes[k].pprev
              /\ nodes'[k].next = IF nodes[n].pprev = NextOf(k) THEN nodes[n].next
                                                               ELSE nodes[k].next
         /\ \A c \in Bucket :
              first'[c] = IF nodes[n].pprev = FirstOf(c) THEN nodes[n].next ELSE first[c]
<1> DEFINE next == nodes[n].next
           place == nodes[n].pprev
           told == IF next = Null THEN nodes ELSE [nodes EXCEPT ![next].pprev = place]
<1>1. /\ first' = StoreFirst(first, place, next)
      /\ nodes' = StoreNext(told, place, next)
  BY DEF Unlinked
<1>2. /\ DOMAIN nodes = 1 .. Len(nodes) /\ Len(nodes) \in Nat
      /\ nodes \in [DOMAIN nodes -> Entry]
      /\ Null \notin DOMAIN nodes /\ next \in Node \cup {Null}
      /\ first \in [Bucket -> Node \cup {Null}]
  BY EntryTypes DEF TypeOK
<1>3. place \in Pointer /\ place \in Pointer
  BY <1>2 DEF Entry
<1>4. /\ told \in [DOMAIN nodes -> Entry]
      /\ \A k \in DOMAIN nodes :
           /\ told[k].key = nodes[k].key /\ told[k].value = nodes[k].value
           /\ told[k].TTL = nodes[k].TTL /\ told[k].lastCallTime = nodes[k].lastCallTime
           /\ told[k].pprev = IF k = next THEN place ELSE nodes[k].pprev
           /\ told[k].next = nodes[k].next
  <2>1. CASE next = Null
    BY <1>2, <2>1
  <2>2. CASE next # Null
    <3> DEFINE e == [nodes[next] EXCEPT !.pprev = place]
    <3>1. next \in DOMAIN nodes
      BY <2>2
    <3>2. nodes[next] \in Entry
      BY <3>1, <1>2
    <3>3. /\ e \in Entry /\ e.key = nodes[next].key /\ e.value = nodes[next].value
          /\ e.TTL = nodes[next].TTL /\ e.lastCallTime = nodes[next].lastCallTime
          /\ e.pprev = place /\ e.next = nodes[next].next
      BY <3>2, <1>3 DEF Entry
    <3>4. told = [nodes EXCEPT ![next] = e]
      BY <2>2
    <3> HIDE DEF e, told, next, place
    <3>5. told \in [DOMAIN nodes -> Entry]
      BY <1>2, <3>1, <3>3, <3>4
    <3>6. \A k \in DOMAIN nodes : told[k] = IF k = next THEN e ELSE nodes[k]
      BY <1>2, <3>1, <3>4
    <3> QED BY <3>3, <3>5, <3>6
  <2> QED BY <2>1, <2>2
<1> HIDE DEF told, next, place
<1>5. CASE \E b \in Bucket : place = FirstOf(b)
  <2>1. PICK b \in Bucket : place = FirstOf(b)
    BY <1>5
  <2>2. place.of = "first" /\ place.at = b
    BY <2>1 DEF FirstOf
  <2>3. /\ first' = [first EXCEPT ![b] = next]
        /\ nodes' = told
    BY <1>1, <2>2 DEF StoreFirst, StoreNext
  <2>4. \A k : place # NextOf(k)
    BY <2>1 DEF FirstOf, NextOf
  <2>5. \A c \in Bucket : place = FirstOf(c) <=> c = b
    BY <2>1 DEF FirstOf
  <2>6. /\ first' \in [Bucket -> Node \cup {Null}]
        /\ \A c \in Bucket : first'[c] = IF place = FirstOf(c) THEN next ELSE first[c]
    BY <1>2, <2>1, <2>3, <2>5
  <2>7. DOMAIN nodes' = DOMAIN nodes /\ nodes' \in Seq(Entry) /\ Len(nodes') = Len(nodes)
    BY <1>2, <1>4, <2>3
  <2> QED BY <1>4, <2>3, <2>4, <2>6, <2>7 DEF next, place
<1>6. CASE \E m \in DOMAIN nodes : place = NextOf(m)
  <2>1. PICK m \in DOMAIN nodes : place = NextOf(m)
    BY <1>6
  <2>2. place.of = "next" /\ place.at = m
    BY <2>1 DEF NextOf
  <2>3. /\ first' = first
        /\ nodes' = [told EXCEPT ![m].next = next]
    BY <1>1, <2>2 DEF StoreFirst, StoreNext
  <2>4. \A c : place # FirstOf(c)
    BY <2>1 DEF FirstOf, NextOf
  <2>5. \A k \in DOMAIN nodes : place = NextOf(k) <=> k = m
    BY <2>1 DEF NextOf
  <2> DEFINE e == [told[m] EXCEPT !.next = next]
  <2>6. /\ e \in Entry /\ e.key = told[m].key /\ e.value = told[m].value
        /\ e.TTL = told[m].TTL /\ e.lastCallTime = told[m].lastCallTime
        /\ e.pprev = told[m].pprev /\ e.next = next
    <3>1. told[m] \in Entry
      BY <1>4
    <3> QED BY <3>1, <1>2 DEF Entry
  <2>7. nodes' = [told EXCEPT ![m] = e]
    BY <2>3
  <2> HIDE DEF e
  <2>8. /\ nodes' \in [DOMAIN nodes -> Entry]
        /\ \A k \in DOMAIN nodes : nodes'[k] = IF k = m THEN e ELSE told[k]
    BY <1>4, <2>6, <2>7
  <2>9. DOMAIN nodes' = DOMAIN nodes /\ nodes' \in Seq(Entry) /\ Len(nodes') = Len(nodes)
    BY <1>2, <2>8
  <2>10. \A k \in DOMAIN nodes :
           /\ nodes'[k].key = nodes[k].key /\ nodes'[k].value = nodes[k].value
           /\ nodes'[k].TTL = nodes[k].TTL
           /\ nodes'[k].lastCallTime = nodes[k].lastCallTime
           /\ nodes'[k].pprev = IF k = next THEN place ELSE nodes[k].pprev
           /\ nodes'[k].next = IF place = NextOf(k) THEN next ELSE nodes[k].next
    BY <1>4, <2>5, <2>6, <2>8
  <2> QED BY <1>2, <2>3, <2>4, <2>9, <2>10 DEF next, place
<1> QED BY <1>5, <1>6 DEF place

-----------------------------------------------------------------------------
(* Unlinking keeps lists. *)

LEMMA PlacesDiffer ==
  /\ \A b, c : FirstOf(b) = FirstOf(c) => b = c
  /\ \A m, n : NextOf(m) = NextOf(n) => m = n
  /\ \A b, n : FirstOf(b) # NextOf(n)
BY DEF FirstOf, NextOf

(* An entry of a list is in no other, nor is what points to it.            *)
LEMMA ListsApart ==
  ASSUME TypeOK, NEW L \in Layouts, Lists(L), NEW b \in Bucket, NEW c \in Bucket, b # c
  PROVE  /\ L[b] \subseteq DOMAIN nodes
         /\ \A n \in L[b] : n \notin L[c] /\ n # Null
<1>1. L[b] \subseteq DOMAIN nodes
  BY DEF Layouts
<1>2. \A n \in L[b] : n # Null
  BY <1>1, EntryTypes DEF Null
<1>3. \A n \in L[b] : n \notin L[c]
  BY DEF Lists, IsList
<1> QED BY <1>1, <1>2, <1>3

(* Where a list is told apart by the pointers of its entries alone. *)
SamePointers(b, S) ==
  /\ first'[b] = first[b]
  /\ \A n \in S : /\ nodes'[n].key = nodes[n].key
                  /\ nodes'[n].next = nodes[n].next
                  /\ nodes'[n].pprev = nodes[n].pprev

LEMMA SameList ==
  ASSUME NEW b, NEW S, IsList(b, S), SamePointers(b, S)
  PROVE  IsList(b, S)'
<1>1. \A n \in S : PointedAt(b, S, nodes[n].pprev, n)' <=> PointedAt(b, S, nodes[n].pprev, n)
  BY DEF PointedAt, SamePointers
<1> QED BY <1>1 DEF IsList, SamePointers

LEMMA UnlinkPlaces ==
  ASSUME TypeOK, NEW L \in Layouts, Lists(L), NEW b \in Bucket, NEW n \in DOMAIN nodes,
         nodes[n].next \in L[b] \cup {Null}, NEW k, PointedAt(b, L[b], nodes[n].pprev, k)
  PROVE  /\ nodes[n].next \in DOMAIN nodes \cup {Null}
         /\ \/ \E c \in Bucket : nodes[n].pprev = FirstOf(c)
            \/ \E m \in DOMAIN nodes : nodes[n].pprev = NextOf(m)
<1>1. L[b] \subseteq DOMAIN nodes
  BY DEF Layouts
<1> QED BY <1>1 DEF PointedAt

LEMMA UnlinkKeepsLists ==
  ASSUME TypeOK, NEW L \in Layouts, Lists(L),
         NEW b \in Bucket, NEW n \in L[b], Unlinked(n)
  PROVE  /\ \A c \in Bucket \ {b} : IsList(c, L[c])'
         /\ IsList(b, L[b] \ {n})'
         /\ nodes'[n].next = nodes[n].next /\ nodes[n].next \in (L[b] \ {n}) \cup {Null}
         /\ PointedAt(b, L[b] \ {n}, nodes[n].pprev, nodes[n].next)'
         /\ nodes[n].next # Null => nodes'[nodes[n].next].pprev = nodes'[n].pprev
<1> DEFINE S == L[b]
           next == nodes[n].next
           place == nodes[n].pprev
<1>1. /\ S \subseteq DOMAIN nodes /\ n \in DOMAIN nodes
      /\ IsList(b, S)
  BY DEF Layouts, Lists
<1>2. /\ next \in S \cup {Null} /\ next < n
      /\ \A m \in S : m < n => m <= next
      /\ PointedAt(b, S, place, n)
  BY <1>1 DEF IsList
<1>3. /\ \A k \in DOMAIN nodes :
           /\ nodes'[k].key = nodes[k].key
           /\ nodes'[k].pprev = IF k = next THEN place ELSE nodes[k].pprev
           /\ nodes'[k].next = IF place = NextOf(k) THEN next ELSE nodes[k].next
      /\ \A c \in Bucket : first'[c] = IF place = FirstOf(c) THEN next ELSE first[c]
  <2>1. /\ next \in DOMAIN nodes \cup {Null}
        /\ \/ \E c \in Bucket : place = FirstOf(c)
           \/ \E m \in DOMAIN nodes : place = NextOf(m)
    BY <1>1, <1>2, UnlinkPlaces
  <2> QED BY <2>1, <1>1, UnlinkedDoes
<1>4. \A k \in S : k \in Nat /\ k > 0
  BY <1>1, EntryTypes
<1>5. next \in Nat /\ n \in Nat /\ Null = 0
  BY <1>2, <1>4 DEF Null
<1>6. ASSUME NEW c \in Bucket \ {b} PROVE IsList(c, L[c])'
  <2>1. IsList(c, L[c]) /\ L[c] \subseteq DOMAIN nodes
    BY DEF Lists, Layouts
  <2>2. \A k \in L[c] : k \notin S /\ k # Null
    BY ListsApart
  <2>3. place # FirstOf(c)
    BY <1>2, PlacesDiffer DEF PointedAt
  <2>4. \A k \in L[c] : place # NextOf(k) /\ k # next
    BY <1>2, <2>2, PlacesDiffer DEF PointedAt
  <2>5. SamePointers(c, L[c])
    BY <1>3, <2>1, <2>3, <2>4 DEF SamePointers
  <2> QED BY <2>1, <2>5, SameList
<1>7. \A k \in S : /\ nodes[k].next \in S \cup {Null} /\ nodes[k].next < k
                  /\ \A m \in S : m < k => m <= nodes[k].next
  BY <1>1 DEF IsList
<1>c. \A k \in S : k <= first[b]
  BY <1>1 DEF IsList
<1>a. \A k \in S : PointedAt(b, S, nodes[k].pprev, k)
  BY <1>1 DEF IsList
<1>b. \A k \in S : Hash[nodes[k].key] = b
  BY <1>1 DEF IsList
<1>8. first[b] \in S \cup {Null}
  BY <1>1 DEF IsList
<1>9. place # NextOf(n)
  BY <1>2, <1>5, PlacesDiffer DEF PointedAt
<1> HIDE DEF S, next, place
(* The new state, by who pointed to n. *)
<1>10. CASE place = FirstOf(b) /\ first[b] = n
  <2>1. first'[b] = next /\ \A k \in S : nodes'[k].next = nodes[k].next
    BY <1>1, <1>3, <1>10, PlacesDiffer
  <2>2. \A k \in S \ {n} : k < n /\ k <= next
    <3> TAKE k \in S \ {n}
    <3>1. k \in Nat /\ k <= n /\ k # n
      BY <1>4, <1>c, <1>10
    <3>2. k < n
      BY <3>1, <1>5
    <3> QED BY <3>2, <1>2
  <2>3. ASSUME NEW k \in S \ {n}
        PROVE  PointedAt(b, S \ {n}, nodes[k].pprev, k)'
    <3>1. CASE k = next
      <4>1. nodes'[k].pprev = FirstOf(b)
        BY <3>1, <1>1, <1>3, <1>10
      <4> QED BY <4>1, <3>1, <2>1 DEF PointedAt
    <3>2. CASE k # next
      <4>1. nodes'[k].pprev = nodes[k].pprev /\ k # first[b]
        BY <3>2, <1>1, <1>3, <1>10
      <4>2. PICK m \in S : nodes[k].pprev = NextOf(m) /\ nodes[m].next = k
        BY <4>1, <1>a DEF PointedAt
      <4>3. m # n
        BY <4>2, <3>2 DEF next
      <4> QED BY <4>1, <4>2, <4>3, <2>1 DEF PointedAt
    <3> QED BY <3>1, <3>2
  <2>4. \A k \in S \ {n} : nodes'[k].next # n
    BY <2>1, <2>2, <1>4, <1>5, <1>7
  <2>5. next \in (S \ {n}) \cup {Null}
    BY <1>2, <1>5
  <2>6. IsList(b, S \ {n})'
    BY <2>1, <2>2, <2>3, <2>4, <2>5, <1>1, <1>3, <1>7, <1>b DEF IsList
  <2>7. nodes'[n].next = next
    BY <2>1 DEF S, next
  <2>8. n # next
    BY <1>2, <1>5
  <2>9. nodes'[n].pprev = place
    BY <2>8, <1>1, <1>3 DEF place
  <2>10. PointedAt(b, S \ {n}, nodes[n].pprev, nodes[n].next)'
    BY <2>1, <2>7, <2>9, <1>10 DEF PointedAt
  <2>11. next # Null => nodes'[next].pprev = place
    BY <1>1, <1>2, <1>3
  <2> QED BY <1>6, <2>5, <2>6, <2>7, <2>9, <2>10, <2>11 DEF S, next, place, PointedAt
<1>11. CASE \E m \in S : place = NextOf(m) /\ nodes[m].next = n
  <2>1. PICK p \in S : place = NextOf(p) /\ nodes[p].next = n
    BY <1>11
  <2>2. first'[b] = first[b] /\ nodes'[p].next = next
        /\ \A k \in S \ {p} : nodes'[k].next = nodes[k].next
    BY <2>1, <1>1, <1>3, PlacesDiffer
  <2>3. p > n /\ p # n /\ first[b] # n
    <3>1. p \in Nat /\ n < p /\ p <= first[b]
      BY <2>1, <1>4, <1>7, <1>c
    <3>2. first[b] \in Nat
      BY <1>4, <1>5, <1>8
    <3> QED BY <3>1, <3>2, <1>5
  <2>4. \A k \in S \ {p} : nodes[k].next # n
    <3> SUFFICES ASSUME NEW k \in S, k # p, nodes[k].next = n PROVE FALSE
      OBVIOUS
    <3>1. n < k /\ k < p => k <= n
      BY <2>1, <1>7
    <3>2. n < p /\ p < k => p <= n
      BY <1>7
    <3> QED BY <3>1, <3>2, <2>3, <1>4, <1>5, <1>7
  <2>5. \A m \in S \ {n} : m < p => m <= next
    <3> TAKE m \in S \ {n}
    <3> HAVE m < p
    <3>1. m <= n /\ m # n /\ m \in Nat
      BY <2>1, <1>4, <1>7
    <3>2. m < n
      BY <3>1, <1>5
    <3> QED BY <3>2, <1>2
  <2>6. next < p
    BY <2>3, <1>2, <1>4, <1>5
  <2>7. ASSUME NEW k \in S \ {n}
        PROVE  PointedAt(b, S \ {n}, nodes[k].pprev, k)'
    <3>1. CASE k = next
      <4>1. nodes'[k].pprev = NextOf(p)
        BY <3>1, <2>1, <1>1, <1>3
      <4> QED BY <4>1, <3>1, <2>2, <2>3 DEF PointedAt
    <3>2. CASE k # next
      <4>1. nodes'[k].pprev = nodes[k].pprev
        BY <3>2, <1>1, <1>3
      <4>2. CASE nodes[k].pprev = FirstOf(b) /\ first[b] = k
        BY <4>1, <4>2, <2>2 DEF PointedAt
      <4>3. CASE \E m \in S : nodes[k].pprev = NextOf(m) /\ nodes[m].next = k
        <5>1. PICK m \in S : nodes[k].pprev = NextOf(m) /\ nodes[m].next = k
          BY <4>3
        <5>2. m # n /\ m # p
          BY <5>1, <3>2, <2>1 DEF next
        <5> QED BY <4>1, <5>1, <5>2, <2>2 DEF PointedAt
      <4> QED BY <4>2, <4>3, <1>a DEF PointedAt
    <3> QED BY <3>1, <3>2
  <2>8. next \in (S \ {n}) \cup {Null}
    BY <1>2, <1>5
  <2>9. \A k \in S \ {n} :
          /\ nodes'[k].next \in (S \ {n}) \cup {Null} /\ nodes'[k].next < k
          /\ \A m \in S \ {n} : m < k => m <= nodes'[k].next
    <3> TAKE k \in S \ {n}
    <3>1. CASE k = p
      BY <3>1, <2>2, <2>5, <2>6, <2>8
    <3>2. CASE k # p
      BY <3>2, <2>2, <2>4, <1>7
    <3> QED BY <3>1, <3>2
  <2>10. IsList(b, S \ {n})'
    <3>1. first'[b] \in (S \ {n}) \cup {Null} /\ \A m \in S \ {n} : m <= first'[b]
      BY <2>2, <2>3, <1>c, <1>8
    <3>2. \A k \in S \ {n} : Hash[nodes'[k].key] = b
      BY <1>1, <1>3, <1>b
    <3> QED BY <3>1, <3>2, <2>7, <2>9 DEF IsList
  <2>11. nodes'[n].next = next /\ nodes'[n].pprev = place
    <3>1. n \in S \ {p} /\ n # next
      BY <2>3, <1>2, <1>5 DEF S
    <3> QED BY <3>1, <2>2, <1>1, <1>3 DEF next, place
  <2>12. PointedAt(b, S \ {n}, nodes[n].pprev, nodes[n].next)'
    BY <2>1, <2>2, <2>3, <2>11 DEF PointedAt
  <2>13. next # Null => nodes'[next].pprev = place
    BY <1>1, <1>2, <1>3
  <2> QED BY <1>6, <2>8, <2>10, <2>11, <2>12, <2>13 DEF S, next, place, PointedAt
<1> QED BY <1>2, <1>10, <1>11 DEF PointedAt

(* To unlink an entry again writes what is there.                          *)
LEMMA UnlinkAgain ==
  ASSUME TypeOK, NEW L \in Layouts, Lists(L),
         NEW b \in Bucket, NEW n \in DOMAIN nodes, Detached(b, L[b], n), Unlinked(n)
  PROVE  /\ \A c \in Bucket : first'[c] = first[c]
         /\ \A k \in DOMAIN nodes : /\ nodes'[k].next = nodes[k].next
                                    /\ nodes'[k].pprev = nodes[k].pprev
<1> DEFINE next == nodes[n].next
           place == nodes[n].pprev
<1>1. /\ next \in L[b] \cup {Null}
      /\ PointedAt(b, L[b], place, next)
      /\ next # Null => nodes[next].pprev = place
  BY DEF Detached
<1>2. /\ next \in DOMAIN nodes \cup {Null}
      /\ \/ \E c \in Bucket : place = FirstOf(c)
         \/ \E m \in DOMAIN nodes : place = NextOf(m)
  BY <1>1, UnlinkPlaces
<1>3. /\ \A k \in DOMAIN nodes :
           /\ nodes'[k].pprev = IF k = next THEN place ELSE nodes[k].pprev
           /\ nodes'[k].next = IF place = NextOf(k) THEN next ELSE nodes[k].next
      /\ \A c \in Bucket : first'[c] = IF place = FirstOf(c) THEN next ELSE first[c]
  BY <1>2, UnlinkedDoes
<1>4. Null \notin DOMAIN nodes
  BY EntryTypes DEF Null
<1>5. \A k \in DOMAIN nodes : nodes'[k].pprev = nodes[k].pprev
  BY <1>1, <1>3, <1>4
<1>6. \A c \in Bucket : place = FirstOf(c) => first[c] = next
  BY <1>1, PlacesDiffer DEF PointedAt
<1>7. \A k \in DOMAIN nodes : place = NextOf(k) => nodes[k].next = next
  BY <1>1, PlacesDiffer DEF PointedAt
<1> QED BY <1>3, <1>5, <1>6, <1>7

(* A bucket is empty exactly if its first pointer is null.                 *)
LEMMA EmptyList ==
  ASSUME TypeOK, NEW L \in Layouts, Lists(L), NEW b \in Bucket
  PROVE  /\ first[b] = Null <=> L[b] = {}
         /\ first[b] # Null => first[b] \in L[b]
         /\ L[b] \subseteq DOMAIN nodes
<1>1. /\ IsList(b, L[b])
      /\ \A m \in L[b] : m \in Nat /\ m > 0
      /\ L[b] \subseteq DOMAIN nodes
  BY EntryTypes DEF Lists, Layouts
<1>2. /\ first[b] \in L[b] \cup {Null}
      /\ \A m \in L[b] : m <= first[b]
  BY <1>1 DEF IsList
<1> QED BY <1>1, <1>2 DEF Null

-----------------------------------------------------------------------------
(* An entry is looked at. *)

(* What is known of entries but for their pointers. *)
SameData ==
  /\ nodes' \in Seq(Entry) /\ Len(nodes') = Len(nodes) /\ DOMAIN nodes' = DOMAIN nodes
  /\ \A k \in DOMAIN nodes :
       /\ nodes'[k].key = nodes[k].key /\ nodes'[k].value = nodes[k].value
       /\ nodes'[k].TTL = nodes[k].TTL
       /\ nodes'[k].lastCallTime = nodes[k].lastCallTime

(* Behind entry n of bucket b comes the newest of those that are older.    *)
NextIs(b, S, n) ==
  /\ nodes[n].next \in S \cup {Null} /\ nodes[n].next < n
  /\ \A m \in S : m < n => m <= nodes[n].next

LEMMA NotOverTimeKeeps ==
  ASSUME TypeOK, NEW L \in Layouts, Lists(L), ForeverStays(L),
         NEW b \in Bucket, NEW n \in DOMAIN nodes,
         n \in L[b] \/ Detached(b, L[b], n),
         NotOverTime(n), clock' = clock
  PROVE  /\ SameData /\ first' \in [Bucket -> Node \cup {Null}]
         /\ \E K \in [Bucket -> SUBSET DOMAIN nodes] :
              /\ K \in Layouts' /\ Lists(K)' /\ ForeverStays(K)'
              /\ \A c \in Bucket \ {b} : K[c] = L[c]
              /\ K[b] = IF Alive(n) THEN L[b] ELSE L[b] \ {n}
              /\ NextIs(b, K[b], n)'
              /\ Alive(n) => n \in K[b]
              /\ ~ Alive(n) => Detached(b, K[b], n)'
<1>1. L[b] \subseteq DOMAIN nodes /\ IsList(b, L[b]) /\ L \in [Bucket -> SUBSET DOMAIN nodes]
  BY DEF Layouts, Lists
<1> PICK K \in [Bucket -> SUBSET DOMAIN nodes] :
      K = IF Alive(n) THEN L ELSE [L EXCEPT ![b] = L[b] \ {n}]
  BY <1>1
<1>2. NextIs(b, L[b], n) /\ \E k : PointedAt(b, L[b], nodes[n].pprev, k)
  BY <1>1 DEF IsList, Detached, NextIs
<1>3. /\ nodes[n].next \in DOMAIN nodes \cup {Null}
      /\ \/ \E c \in Bucket : nodes[n].pprev = FirstOf(c)
         \/ \E m \in DOMAIN nodes : nodes[n].pprev = NextOf(m)
  BY <1>2, UnlinkPlaces DEF NextIs
<1>4. SameData /\ first' \in [Bucket -> Node \cup {Null}]
  <2>1. CASE UNCHANGED <<first, nodes>>
    BY <2>1 DEF TypeOK, SameData
  <2>2. CASE Unlinked(n)
    BY <2>2, <1>3, UnlinkedDoes DEF SameData
  <2> QED BY <2>1, <2>2 DEF NotOverTime
<1>5. \A k \in DOMAIN nodes : Alive(k)' <=> Alive(k)
  BY <1>4 DEF SameData, Alive
<1>6. /\ K \in [Bucket -> SUBSET DOMAIN nodes] /\ K \in Layouts'
      /\ \A c \in Bucket \ {b} : K[c] = L[c]
      /\ K[b] = IF Alive(n) THEN L[b] ELSE L[b] \ {n}
  BY <1>1, <1>4 DEF Layouts, SameData
<1>7. Lists(K)' => ForeverStays(K)'
  <2> SUFFICES ASSUME NEW k \in DOMAIN nodes, nodes'[k].TTL = Forever
               PROVE  k \in K[Hash[nodes'[k].key]]
    BY <1>4 DEF ForeverStays, SameData
  <2>1. nodes[k].TTL = Forever /\ nodes'[k].key = nodes[k].key /\ k \in L[Hash[nodes[k].key]]
    BY <1>4 DEF SameData, ForeverStays
  <2>2. k = n => Alive(n)
    BY <2>1 DEF Alive
  <2>3. Hash[nodes[k].key] \in Bucket
    BY EntryTypes
  <2> QED BY <2>1, <2>2, <2>3, <1>6
<1>8. CASE Alive(n)
  <2>1. UNCHANGED <<first, nodes>> /\ K = L
    BY <1>8 DEF NotOverTime
  <2>2. n \in L[b]
    BY <1>8 DEF Detached
  <2>3. Lists(K)' /\ NextIs(b, K[b], n)'
    BY <2>1, <1>2, <1>6 DEF Lists, IsList, PointedAt, NextIs
  <2> QED BY <2>2, <2>3, <1>4, <1>6, <1>7, <1>8
<1>9. CASE ~ Alive(n) /\ n \in L[b]
  <2>1. Unlinked(n) /\ K[b] = L[b] \ {n}
    BY <1>6, <1>9 DEF NotOverTime
  <2>2. /\ \A c \in Bucket \ {b} : IsList(c, L[c])'
        /\ IsList(b, L[b] \ {n})'
        /\ nodes'[n].next = nodes[n].next /\ nodes[n].next \in (L[b] \ {n}) \cup {Null}
        /\ PointedAt(b, L[b] \ {n}, nodes[n].pprev, nodes[n].next)'
        /\ nodes[n].next # Null => nodes'[nodes[n].next].pprev = nodes'[n].pprev
    BY <2>1, <1>9, UnlinkKeepsLists
  <2>3. Lists(K)'
    BY <2>1, <2>2, <1>6 DEF Lists
  <2>4. NextIs(b, K[b], n)'
    BY <2>1, <2>2, <1>2 DEF NextIs
  <2>5. Detached(b, K[b], n)'
    BY <2>1, <2>2, <2>4, <1>5, <1>9 DEF Detached, NextIs
  <2> QED BY <2>3, <2>4, <2>5, <1>4, <1>6, <1>7, <1>9
<1>10. CASE ~ Alive(n) /\ n \notin L[b]
  <2>1. Detached(b, L[b], n) /\ Unlinked(n) /\ K[b] = L[b]
    BY <1>6, <1>10 DEF NotOverTime
  <2>2. /\ \A c \in Bucket : first'[c] = first[c]
        /\ \A k \in DOMAIN nodes : /\ nodes'[k].next = nodes[k].next
                                   /\ nodes'[k].pprev = nodes[k].pprev
    BY <2>1, UnlinkAgain
  <2>3. Lists(K)'
    <3> SUFFICES ASSUME NEW c \in Bucket PROVE IsList(c, K[c])'
      BY DEF Lists
    <3>1. K[c] = L[c] /\ IsList(c, L[c]) /\ L[c] \subseteq DOMAIN nodes
      BY <2>1, <1>6 DEF Lists, Layouts
    <3>2. SamePointers(c, L[c])
      BY <3>1, <2>2, <1>4 DEF SamePointers, SameData
    <3> QED BY <3>1, <3>2, SameList
  <2>4. NextIs(b, K[b], n)'
    BY <2>1, <2>2, <1>2 DEF NextIs
  <2>5. PointedAt(b, L[b], nodes[n].pprev, nodes[n].next)'
    BY <2>1, <2>2, <1>1 DEF Detached, PointedAt
  <2>6. nodes'[n].next # Null => nodes'[nodes'[n].next].pprev = nodes'[n].pprev
    BY <2>1, <2>2, <1>1 DEF Detached
  <2>7. Detached(b, K[b], n)'
    BY <2>1, <2>4, <2>5, <2>6, <1>5, <1>10 DEF Detached, NextIs
  <2> QED BY <2>3, <2>4, <2>7, <1>4, <1>6, <1>7, <1>10
<1> QED BY <1>8, <1>9, <1>10

-----------------------------------------------------------------------------
(* What is reached from the first of a bucket is its list. *)

Below == {p \in Nat \X Nat : p[1] < p[2]}

LEMMA LeastNatural ==
  ASSUME NEW T, T \subseteq Nat, T # {}
  PROVE  \E x \in T : \A y \in T : x <= y
<1>1. OpToRel(<, Nat) = Below
  BY DEF OpToRel, Below
<1>2. IsWellFoundedOn(Below, Nat)
  BY <1>1, NatLessThanWellFounded
<1>3. PICK x \in T : \A y \in T : ~ (<<y, x>> \in Below)
  BY <1>2, WFMin
<1>4. ASSUME NEW y \in T, y < x PROVE FALSE
  <2>1. <<y, x>> \in Nat \X Nat
    OBVIOUS
  <2>2. <<y, x>> \in Below
    BY <2>1, <1>4 DEF Below
  <2> QED BY <2>2, <1>3
<1> QED BY <1>3, <1>4

(* One step of the recursion of From, which r goes on with.                *)
Reached(r, m) ==
  IF m = Null THEN {}
  ELSE {m} \cup (IF nodes[m].next < m THEN r[nodes[m].next] ELSE {})

ReachedUpTo(n, r) == r = [m \in 0 .. n |-> Reached(r, m)]

(* The recursion has a solution: each entry asks for older ones only.      *)
LEMMA ReachedExists ==
  ASSUME TypeOK
  PROVE  \E r : ReachedUpTo(Len(nodes), r)
<1> DEFINE T == {n \in 0 .. Len(nodes) : ~ \E r : ReachedUpTo(n, r)}
<1>1. Len(nodes) \in Nat /\ \A m \in 1 .. Len(nodes) : nodes[m].next \in Nat
  BY EntryTypes
<1> SUFFICES ASSUME T # {} PROVE FALSE
  BY <1>1
<1>2. PICK n \in T : \A k \in T : n <= k
  <2>1. T \subseteq Nat
    BY <1>1
  <2> HIDE DEF T
  <2> QED BY <2>1, LeastNatural
<1>3. n \in 0 .. Len(nodes) /\ n \in Nat /\ ~ \E r : ReachedUpTo(n, r)
  BY <1>1, <1>2
<1>4. CASE n = 0
  <2> DEFINE r == [m \in 0 .. 0 |-> {}]
  <2>1. [m \in 0 .. 0 |-> Reached(r, m)] = r
    BY DEF Reached, Null
  <2>2. ReachedUpTo(0, r)
    BY <2>1 DEF ReachedUpTo
  <2> QED BY <2>2, <1>3, <1>4
<1>5. CASE n > 0
  <2>1. n - 1 \in 0 .. Len(nodes) /\ n - 1 \notin T
    BY <1>1, <1>2, <1>3, <1>5
  <2>2. PICK f : ReachedUpTo(n - 1, f)
    BY <2>1
  <2> DEFINE r == [m \in 0 .. n |-> Reached(f, m)]
  <2>3. \A m \in 0 .. (n - 1) : f[m] = Reached(f, m)
    BY <2>2 DEF ReachedUpTo
  <2>4. \A m \in 0 .. (n - 1) : r[m] = f[m]
    BY <2>3, <1>3
  <2>5. ASSUME NEW m \in 0 .. n PROVE Reached(r, m) = Reached(f, m)
    <3>1. CASE m = Null
      BY <3>1 DEF Reached
    <3>2. CASE m # Null /\ ~ (nodes[m].next < m)
      BY <3>2 DEF Reached
    <3>3. CASE m # Null /\ nodes[m].next < m
      <4>1. nodes[m].next \in 0 .. (n - 1)
        BY <3>3, <1>1, <1>3 DEF Null
      <4>2. r[nodes[m].next] = f[nodes[m].next]
        BY <4>1, <2>4
      <4> QED BY <4>2, <3>3 DEF Reached
    <3> QED BY <3>1, <3>2, <3>3
  <2>6. r = [m \in 0 .. n |-> Reached(r, m)]
    BY <2>5
  <2>7. ReachedUpTo(n, r)
    BY <2>6 DEF ReachedUpTo
  <2> QED BY <2>7, <1>3
<1> QED BY <1>3, <1>4, <1>5

LEMMA FromUnfolds ==
  ASSUME TypeOK
  PROVE  \E r : /\ \A m \in 0 .. Len(nodes) : r[m] = Reached(r, m)
                /\ \A m \in 0 .. Len(nodes) : From(m) = r[m]
<1> DEFINE P(r) == r = [m \in 0 .. Len(nodes) |-> Reached(r, m)]
           s == CHOOSE r : P(r)
<1>1. \E r : P(r)
  BY ReachedExists DEF ReachedUpTo
<1>2. P(s)
  BY <1>1
<1>3. \A m \in 0 .. Len(nodes) : From(m) = s[m]
  BY DEF From, Reached
<1>4. \A m \in 0 .. Len(nodes) : s[m] = Reached(s, m)
  <2> HIDE DEF s
  <2> QED BY <1>2
<1> QED BY <1>3, <1>4

LEMMA BucketsAre ==
  ASSUME TypeOK, NEW L \in Layouts, Lists(L), NEW b \in Bucket
  PROVE  InBucket(b) = L[b]
<1> DEFINE S == L[b]
<1>1. /\ S \subseteq 1 .. Len(nodes) /\ Len(nodes) \in Nat
      /\ IsList(b, S)
  BY EntryTypes DEF Layouts, Lists
<1>2. PICK r : /\ \A m \in 0 .. Len(nodes) : r[m] = Reached(r, m)
               /\ \A m \in 0 .. Len(nodes) : From(m) = r[m]
  BY FromUnfolds
<1>3. /\ first[b] \in S \cup {Null}
      /\ \A m \in S : m <= first[b]
      /\ \A n \in S : /\ nodes[n].next \in S \cup {Null} /\ nodes[n].next < n
                      /\ \A m \in S : m < n => m <= nodes[n].next
  BY <1>1 DEF IsList
<1> DEFINE Older(n) == {m \in S : m <= n}
           T == {n \in S \cup {Null} : r[n] # Older(n)}
<1>9. \A k \in S \cup {Null} : k \in Nat /\ k \in 0 .. Len(nodes) /\ k >= 0
  BY <1>1 DEF Null
<1>10. \A k \in S : k > 0
  BY <1>1
<1> HIDE DEF S
<1>4. T = {}
  <2> SUFFICES ASSUME T # {} PROVE FALSE
    OBVIOUS
  <2>1. T \subseteq Nat
    BY <1>9
  <2>2. PICK n \in T : \A k \in T : n <= k
    BY <2>1, LeastNatural
  <2>3. n \in 0 .. Len(nodes) /\ r[n] = Reached(r, n)
    BY <1>2, <1>9
  <2>4. CASE n = Null
    <3>1. r[n] = {}
      BY <2>3, <2>4 DEF Reached
    <3>2. Older(n) = {}
      <4>1. \A m \in S : ~ (m <= 0)
        BY <1>9, <1>10
      <4> QED BY <4>1, <2>4 DEF Null
    <3> QED BY <3>1, <3>2
  <2>5. CASE n # Null
    <3>1. n \in S /\ nodes[n].next < n /\ nodes[n].next \in S \cup {Null}
      BY <2>5, <1>3
    <3>2. n \in Nat /\ nodes[n].next \in Nat
      BY <3>1, <1>9
    <3>3. r[nodes[n].next] = Older(nodes[n].next)
      BY <3>1, <3>2, <2>2
    <3>4. r[n] = {n} \cup Older(nodes[n].next)
      BY <3>1, <3>3, <2>3, <2>5 DEF Reached
    <3>5. Older(n) = {n} \cup Older(nodes[n].next)
      <4>1. ASSUME NEW m \in S
            PROVE  m <= n <=> m = n \/ m <= nodes[n].next
        <5>1. m \in Nat /\ (m < n => m <= nodes[n].next)
          BY <3>1, <1>3, <1>9
        <5> QED BY <5>1, <3>1, <3>2
      <4> QED BY <4>1, <3>1
    <3> QED BY <3>4, <3>5
  <2> QED BY <2>4, <2>5
<1>5. r[first[b]] = Older(first[b])
  BY <1>3, <1>4
<1>6. Older(first[b]) = S
  BY <1>3
<1>7. first[b] \in 0 .. Len(nodes)
  BY <1>3, <1>9
<1>8. InBucket(b) = r[first[b]]
  BY <1>2, <1>7 DEF InBucket
<1> QED BY <1>5, <1>6, <1>8 DEF S

(* An entry is in the lists if it is in that of its own name.              *)
LEMMA InListsAre ==
  ASSUME TypeOK, NEW L \in Layouts, Lists(L)
  PROVE  InLists = {n \in DOMAIN nodes : n \in L[Hash[nodes[n].key]]}
<1>1. \A b \in Bucket : InBucket(b) = L[b]
  BY BucketsAre
<1>2. \A b \in Bucket : \A n \in L[b] : n \in DOMAIN nodes /\ Hash[nodes[n].key] = b
  BY DEF Lists, IsList, Layouts
<1>3. \A n \in DOMAIN nodes : Hash[nodes[n].key] \in Bucket
  BY EntryTypes
<1>4. \A n : n \in InLists <=> \E b \in Bucket : n \in L[b]
  BY <1>1 DEF InLists
<1> QED BY <1>2, <1>3, <1>4

-----------------------------------------------------------------------------
(* The entries a lookup can find, as the layout has them. *)

InLayout(L) == {n \in DOMAIN nodes : n \in L[Hash[nodes[n].key]]}

LEMMA InListsAreLaidOut ==
  TypeOK => \A L \in Layouts : Lists(L) => InLists = InLayout(L)
BY InListsAre DEF InLayout

LEMMA InListsAfter ==
  (TypeOK => \A L \in Layouts : Lists(L) => InLists = InLayout(L))'
BY InListsAreLaidOut, PTL

Entries == {EntryOf(n) : n \in InLists}

LEMMA SameEntries ==
  ASSUME TypeOK, TypeOK', NEW L \in Layouts, Lists(L), ForeverStays(L),
         UNCHANGED <<first, nodes>>
  PROVE  /\ L \in Layouts' /\ Lists(L)' /\ ForeverStays(L)'
         /\ Entries' = Entries
<1>1. L \in Layouts' /\ Lists(L)' /\ ForeverStays(L)'
  BY DEF Layouts, Lists, IsList, PointedAt, ForeverStays
<1>2. InLists = InLayout(L) /\ InLists' = InLayout(L)'
  BY <1>1, InListsAreLaidOut, InListsAfter
<1>3. InLayout(L)' = InLayout(L)
  BY DEF InLayout
<1>4. \A n : EntryOf(n)' = EntryOf(n)
  BY DEF EntryOf
<1> QED BY <1>1, <1>2, <1>3, <1>4 DEF Entries

(* Found holds the entries of the name's bucket that fold to it and live.  *)
Matches(L, key) ==
  {n \in L[Hash[key]] : Folded[key] = Folded[nodes[n].key] /\ Alive(n)}

LEMMA FoundIs ==
  ASSUME TypeOK, NEW L \in Layouts, Lists(L), NEW key \in Name
  PROVE  Map!Found(key) = {EntryOf(n) : n \in Matches(L, key)}
<1>1. \A n : Map!Alive(EntryOf(n)) <=> Alive(n)
  BY DEF Map!Alive, EntryOf, Alive, Map!Forever, Forever
<1>2. \A n : EntryOf(n).key = nodes[n].key
  BY DEF EntryOf
<1>3. InLists = InLayout(L)
  BY InListsAreLaidOut
<1>4. \A n \in DOMAIN nodes : nodes[n].key \in Name
  BY EntryTypes
<1>5. \A n \in InLayout(L) :
        /\ <<EntryOf(n).key, key>> \in SameButForCase
             <=> /\ Hash[nodes[n].key] = Hash[key]
                 /\ Folded[nodes[n].key] = Folded[key]
        /\ Hash[nodes[n].key] = Hash[key] => n \in L[Hash[key]]
  <2> TAKE n \in InLayout(L)
  <2>1. nodes[n].key \in Name /\ n \in L[Hash[nodes[n].key]]
    BY <1>4 DEF InLayout
  <2> QED BY <2>1, <1>2 DEF SameButForCase
<1>6. \A n \in L[Hash[key]] : n \in InLayout(L) /\ Hash[nodes[n].key] = Hash[key]
  <2>1. Hash[key] \in Bucket
    BY CacheAssumption
  <2>2. \A n \in L[Hash[key]] : n \in DOMAIN nodes /\ Hash[nodes[n].key] = Hash[key]
    BY <2>1 DEF Lists, IsList, Layouts
  <2> QED BY <2>2 DEF InLayout
<1>7. Map!Found(key) = {e \in Entries : <<e.key, key>> \in SameButForCase /\ Map!Alive(e)}
  BY DEF Map!Found, Entries
<1>8. ASSUME NEW e \in Map!Found(key) PROVE e \in {EntryOf(n) : n \in Matches(L, key)}
  <2>1. PICK n \in InLayout(L) : e = EntryOf(n)
    BY <1>3, <1>7, <1>8 DEF Entries
  <2>2. n \in Matches(L, key)
    BY <2>1, <1>1, <1>5, <1>7, <1>8 DEF Matches
  <2> QED BY <2>1, <2>2
<1>9. ASSUME NEW n \in Matches(L, key) PROVE EntryOf(n) \in Map!Found(key)
  <2>1. n \in InLayout(L) /\ Hash[nodes[n].key] = Hash[key]
    BY <1>6 DEF Matches
  <2>2. EntryOf(n) \in Entries
    BY <2>1, <1>3 DEF Entries
  <2>3. <<EntryOf(n).key, key>> \in SameButForCase /\ Map!Alive(EntryOf(n))
    BY <2>1, <1>1, <1>5 DEF Matches
  <2> QED BY <2>2, <2>3, <1>7
<1> QED BY <1>8, <1>9

-----------------------------------------------------------------------------
(* Each action keeps the invariant, and is a step of the abstract map or   *)
(* leaves it as it is.                                                     *)

MapStep == Map!Next \/ UNCHANGED Map!vars

(* What was found can be found no more, or can still, when lists stay. *)
LEMMA SearchStays ==
  ASSUME NEW L, SearchOK(L), UNCHANGED <<lists, clock, search>>
  PROVE  SearchOK(L)'
BY DEF SearchOK, FoldsTo, Alive, Detached, PointedAt, lists

(* A call that finds a head with no entry crashes. *)
LEMMA CrashKeeps ==
  ASSUME CacheInv, NEW b \in heads, first[b] = Null,
         crashed' = TRUE, answer' = NoAnswer, UNCHANGED <<lists, clock, search>>
  PROVE  CacheInv' /\ MapStep
<1>1. PICK L \in Layouts : Lists(L) /\ ForeverStays(L) /\ SearchOK(L)
  BY DEF CacheInv
<1>2. TypeOK'
  BY DEF CacheInv, TypeOK, lists, NoAnswer
<1>3. SearchOK(L)'
  BY <1>1, SearchStays
<1>4. /\ L \in Layouts' /\ Lists(L)' /\ ForeverStays(L)'
      /\ Entries' = Entries
  BY <1>1, <1>2, SameEntries DEF CacheInv, lists
<1>5. NoHeadNoList' /\ CrashAtEmptyList'
  BY DEF CacheInv, NoHeadNoList, CrashAtEmptyList, lists
<1>6. CacheInv'
  BY <1>2, <1>3, <1>4, <1>5 DEF CacheInv
<1>7. Map!Call
  BY <1>4 DEF Map!Call, NoAnswer, Map!NoAnswer, NotFound, Map!NotFound, Entries
<1> QED BY <1>6, <1>7 DEF MapStep, Map!Next

LEMMA FindHashMapKeeps ==
  ASSUME CacheInv, NEW key \in Name, FindHashMap(key)
  PROVE  CacheInv' /\ MapStep
<1> DEFINE b == Hash[key]
<1>1. PICK L \in Layouts : Lists(L) /\ ForeverStays(L) /\ SearchOK(L)
  BY DEF CacheInv
<1>2. /\ TypeOK /\ NoHeadNoList /\ crashed = FALSE /\ b \in Bucket
      /\ UNCHANGED <<lists, clock>>
  BY CacheAssumption DEF CacheInv, FindHashMap, TypeOK
<1>3. /\ first[b] = Null <=> L[b] = {}
      /\ first[b] # Null => first[b] \in L[b]
      /\ L[b] \subseteq DOMAIN nodes
      /\ \A m \in L[b] : m <= first[b]
  BY <1>1, <1>2, EmptyList DEF Lists, IsList
<1>4. CASE /\ b \notin heads
           /\ answer' = [name |-> key, value |-> NotFound]
           /\ UNCHANGED <<search, crashed>>
  <2>1. TypeOK'
    BY <1>2, <1>4 DEF TypeOK, lists
  <2>2. L \in Layouts' /\ Lists(L)' /\ ForeverStays(L)' /\ SearchOK(L)' /\ Entries' = Entries
    BY <2>1, <1>1, <1>2, <1>4, SameEntries, SearchStays DEF lists
  <2>3. NoHeadNoList' /\ CrashAtEmptyList'
    BY <1>2, <1>4 DEF NoHeadNoList, CrashAtEmptyList, lists
  <2>4. L[b] = {}
    BY <1>2, <1>3, <1>4 DEF NoHeadNoList
  <2>5. Map!Found(key) = {}
    BY <2>4, <1>1, <1>2, FoundIs DEF Matches
  <2>6. Map!Lookup(key)
    BY <2>2, <2>5, <1>2, <1>4 DEF Map!Lookup, Entries, NotFound, Map!NotFound
  <2> QED BY <2>1, <2>2, <2>3, <2>6 DEF CacheInv, MapStep, Map!Next
<1>5. CASE /\ b \in heads /\ first[b] # Null
           /\ search' = [at |-> "loop", key |-> key, temp |-> first[b],
                         flag |-> IF nodes[first[b]].TTL = Forever THEN -1 ELSE 0]
           /\ answer' = NoAnswer
           /\ UNCHANGED crashed
  <2>1. first[b] \in L[b] /\ first[b] \in Node
    BY <1>2, <1>3, <1>5, EntryTypes
  <2>2. TypeOK'
    BY <2>1, <1>2, <1>5 DEF TypeOK, lists, NoAnswer
  <2>3. L \in Layouts' /\ Lists(L)' /\ ForeverStays(L)' /\ Entries' = Entries
    BY <2>2, <1>1, <1>2, SameEntries DEF lists
  <2>4. /\ search'.at = "loop" /\ search'.key = key /\ search'.temp = first[b]
    BY <1>5
  <2>5. \A m \in L[b] : ~ (m > first[b])
    <3> TAKE m \in L[b]
    <3>1. m \in Nat /\ first[b] \in Nat
      BY <2>1, <1>2, <1>3, EntryTypes
    <3> QED BY <3>1, <1>3
  <2>6. SearchOK(L)'
    BY <2>1, <2>4, <2>5 DEF SearchOK
  <2>7. NoHeadNoList' /\ CrashAtEmptyList'
    BY <1>2, <1>5 DEF NoHeadNoList, CrashAtEmptyList, lists
  <2>8. Map!Call
    BY <2>3, <1>2, <1>5
    DEF Map!Call, NoAnswer, Map!NoAnswer, NotFound, Map!NotFound, Entries
  <2> QED BY <2>2, <2>3, <2>6, <2>7, <2>8 DEF CacheInv, MapStep, Map!Next
<1>6. CASE /\ b \in heads /\ first[b] = Null
           /\ crashed' = TRUE
           /\ answer' = NoAnswer
           /\ UNCHANGED search
  BY <1>2, <1>6, CrashKeeps
<1> QED BY <1>4, <1>5, <1>6 DEF FindHashMap

LEMMA GiveUpKeeps ==
  ASSUME CacheInv, GiveUp
  PROVE  CacheInv' /\ MapStep
<1>1. PICK L \in Layouts : Lists(L) /\ ForeverStays(L) /\ SearchOK(L)
  BY DEF CacheInv
<1> DEFINE key == search.key
           b == Hash[key]
<1>2. /\ TypeOK /\ NoHeadNoList /\ crashed = FALSE
      /\ search.at = "loop" /\ search' = Idle
      /\ answer' = [name |-> key, value |-> NotFound]
      /\ UNCHANGED <<lists, clock, crashed>>
      /\ search.flag \in {-1, 0}
  BY DEF CacheInv, GiveUp, TypeOK
<1>3. search.temp = Null
  BY <1>2 DEF GiveUp, Continues
<1>4. /\ key \in Name /\ b \in Bucket
      /\ \A m \in L[b] : m > Null => ~ (FoldsTo(m) /\ Alive(m))
  BY <1>1, <1>2, <1>3, CacheAssumption DEF SearchOK
<1>5. \A m \in L[b] : m > Null
  BY <1>1, <1>2, <1>4, EmptyList, EntryTypes DEF Null
<1>6. Map!Found(key) = {}
  BY <1>1, <1>2, <1>4, <1>5, FoundIs DEF Matches, FoldsTo
<1>7. TypeOK'
  BY <1>2, <1>4 DEF TypeOK, lists, Idle, Null
<1>8. L \in Layouts' /\ Lists(L)' /\ ForeverStays(L)' /\ Entries' = Entries
  BY <1>1, <1>2, <1>7, SameEntries DEF lists
<1>9. SearchOK(L)' /\ NoHeadNoList' /\ CrashAtEmptyList'
  BY <1>2 DEF SearchOK, Idle, NoHeadNoList, CrashAtEmptyList, lists
<1>10. Map!Lookup(key)
  BY <1>2, <1>6, <1>8 DEF Map!Lookup, Entries, NotFound, Map!NotFound
<1> QED BY <1>4, <1>7, <1>8, <1>9, <1>10 DEF CacheInv, MapStep, Map!Next

(* What has expired stays so.                                              *)
LEMMA TickKeeps ==
  ASSUME CacheInv, Tick
  PROVE  CacheInv' /\ MapStep
<1>1. PICK L \in Layouts : Lists(L) /\ ForeverStays(L) /\ SearchOK(L)
  BY DEF CacheInv
<1>2. TypeOK /\ clock \in Nat /\ clock' = clock + 1
      /\ UNCHANGED <<lists, search, answer, crashed>>
  BY DEF CacheInv, Tick, TypeOK
<1>3. TypeOK'
  BY <1>2 DEF TypeOK, lists
<1>4. L \in Layouts' /\ Lists(L)' /\ ForeverStays(L)' /\ Entries' = Entries
  BY <1>1, <1>2, <1>3, SameEntries DEF lists
<1>5. \A n \in DOMAIN nodes : Alive(n)' => Alive(n)
  <2> TAKE n \in DOMAIN nodes
  <2>1. nodes[n].TTL \in Int /\ nodes[n].lastCallTime \in Nat /\ nodes' = nodes
    BY <1>2, EntryTypes DEF lists
  <2> QED BY <2>1, <1>2 DEF Alive
<1>6. SearchOK(L)'
  <2> DEFINE b == Hash[search.key]
             S == L[b]
  <2> SUFFICES ASSUME search.at # "idle"
               PROVE  SearchOK(L)'
    BY <1>2 DEF SearchOK
  <2>1. /\ search.key \in Name /\ b \in Bucket /\ S \subseteq DOMAIN nodes
        /\ \A m \in S : m > search.temp => ~ (FoldsTo(m) /\ Alive(m))
        /\ search.at = "loop" => search.temp \in S \cup {Null}
        /\ search.at = "matched" =>
             /\ search.temp \in DOMAIN nodes
             /\ FoldsTo(search.temp)
             /\ search.temp \in S \/ Detached(b, S, search.temp)
    BY <1>1, CacheAssumption DEF SearchOK, Layouts
  <2>2. \A m : FoldsTo(m)' <=> FoldsTo(m)
    BY <1>2 DEF FoldsTo, lists
  <2>3. \A m \in S : m > search.temp => ~ (FoldsTo(m)' /\ Alive(m)')
    BY <2>1, <2>2, <1>5
  <2>4. search.at = "matched" /\ Detached(b, S, search.temp)
          => Detached(b, S, search.temp)'
    BY <2>1, <1>2, <1>5 DEF Detached, PointedAt, lists
  <2> QED BY <2>1, <2>2, <2>3, <2>4, <1>2 DEF SearchOK, lists
<1>7. NoHeadNoList' /\ CrashAtEmptyList'
  BY <1>2 DEF CacheInv, NoHeadNoList, CrashAtEmptyList, lists
<1>8. Map!Tick
  BY <1>2, <1>4 DEF Map!Tick, Entries
<1> QED BY <1>3, <1>4, <1>6, <1>7, <1>8 DEF CacheInv, MapStep, Map!Next

-----------------------------------------------------------------------------
(* An entry is added. *)

(* The new entry n of bucket b, with old behind it, is what first points   *)
(* to; every other entry keeps what it is.                                 *)
Added(b, n, old) ==
  /\ first' = [first EXCEPT ![b] = n]
  /\ nodes' \in Seq(Entry) /\ Len(nodes') = n
  /\ nodes'[n].next = old /\ nodes'[n].pprev = FirstOf(b)
  /\ Hash[nodes'[n].key] = b /\ nodes'[n].lastCallTime = clock
  /\ \A k \in DOMAIN nodes :
       /\ nodes'[k].key = nodes[k].key /\ nodes'[k].value = nodes[k].value
       /\ nodes'[k].TTL = nodes[k].TTL
       /\ nodes'[k].lastCallTime = nodes[k].lastCallTime
       /\ nodes'[k].next = nodes[k].next
       /\ nodes'[k].pprev = IF k = old THEN NextOf(n) ELSE nodes[k].pprev

(* The first entry of a bucket is the one its first points to: so what it  *)
(* says points to it is first, and the code that goes through its pprev    *)
(* writes first.                                                           *)
LEMMA AddHashMapAdds ==
  ASSUME TypeOK, NoHeadNoList, NEW L \in Layouts, Lists(L),
         NEW key \in Name, NEW value \in Value, NEW ttl \in Lifetimes,
         AddHashMap(key, value, ttl), crashed' = crashed
  PROVE  Added(Hash[key], Len(nodes) + 1, first[Hash[key]])
<1> DEFINE n == Len(nodes) + 1
           b == Hash[key]
           old == first[b]
           node(next) == [key |-> key, value |-> value, TTL |-> ttl,
                          lastCallTime |-> clock, next |-> next, pprev |-> FirstOf(b)]
<1>1. /\ b \in Bucket /\ Len(nodes) \in Nat /\ DOMAIN nodes = 1 .. Len(nodes)
      /\ n \in Node /\ n \notin DOMAIN nodes /\ clock \in Nat
      /\ nodes \in [DOMAIN nodes -> Entry] /\ nodes \in Seq(Entry)
      /\ crashed = FALSE /\ Null \notin DOMAIN nodes
  BY CacheAssumption, EntryTypes DEF TypeOK, AddHashMap, Node
<1>2. /\ old = Null <=> L[b] = {}
      /\ old # Null => old \in L[b]
      /\ L[b] \subseteq DOMAIN nodes
  BY <1>1, EmptyList
<1>3. old \in DOMAIN nodes \cup {Null} /\ old \in Node \cup {Null}
  BY <1>1, <1>2, EntryTypes
<1>4. FirstOf(b) \in Pointer /\ NextOf(n) \in Pointer
      /\ FirstOf(b).of = "first" /\ FirstOf(b).at = b
  BY <1>1 DEF FirstOf, NextOf, Pointer
<1>5. node(old) \in Entry
  BY <1>1, <1>3, <1>4 DEF Entry
<1> HIDE DEF node
<1>6. CASE /\ b \notin heads
           /\ first' = [first EXCEPT ![b] = n]
           /\ nodes' = Append(nodes, node(Null))
  <2>1. old = Null
    BY <1>1, <1>6 DEF NoHeadNoList
  <2>2. /\ nodes' \in Seq(Entry) /\ Len(nodes') = n
        /\ nodes'[n] = node(old)
        /\ \A k \in DOMAIN nodes : nodes'[k] = nodes[k]
    BY <2>1, <1>1, <1>5, <1>6
  <2>3. \A k \in DOMAIN nodes : k # old
    BY <2>1, <1>1
  <2> QED BY <2>2, <2>3, <1>6 DEF Added, node
<1>7. CASE /\ old # Null
           /\ LET place == nodes[old].pprev
                  added == Append(Linked(nodes, old, n),
                                  [key |-> key, value |-> value, TTL |-> ttl,
                                   lastCallTime |-> clock, next |-> old, pprev |-> place])
              IN  /\ first' = StoreFirst(first, place, n)
                  /\ nodes' = StoreNext(added, place, n)
  <2>1. old \in L[b] /\ old \in DOMAIN nodes
    BY <1>2, <1>7
  <2>2. /\ PointedAt(b, L[b], nodes[old].pprev, old)
        /\ \A m \in L[b] : m <= old /\ nodes[m].next < m
        /\ \A m \in L[b] : m \in Nat
    BY <2>1, <1>1, <1>2 DEF Lists, IsList
  <2>3. \A m \in L[b] : nodes[m].next # old
    BY <2>1, <2>2
  <2>4. nodes[old].pprev = FirstOf(b)
    BY <2>2, <2>3 DEF PointedAt
  <2> DEFINE e == [nodes[old] EXCEPT !.pprev = NextOf(n)]
             linked == Linked(nodes, old, n)
  <2>5. /\ first' = [first EXCEPT ![b] = n]
        /\ nodes' = Append(linked, node(old))
    BY <2>4, <1>4, <1>7 DEF StoreFirst, StoreNext, node
  <2>6. nodes[old] \in Entry
    BY <2>1, <1>1
  <2>7. /\ e \in Entry /\ e.key = nodes[old].key /\ e.value = nodes[old].value
        /\ e.TTL = nodes[old].TTL /\ e.lastCallTime = nodes[old].lastCallTime
        /\ e.next = nodes[old].next /\ e.pprev = NextOf(n)
    BY <2>6, <1>4 DEF Entry
  <2>8. linked = [nodes EXCEPT ![old] = e]
    BY DEF Linked
  <2> HIDE DEF e, linked
  <2>9. /\ linked \in [DOMAIN nodes -> Entry]
        /\ \A k \in DOMAIN nodes : linked[k] = IF k = old THEN e ELSE nodes[k]
    BY <2>1, <2>7, <2>8, <1>1
  <2>10. linked \in Seq(Entry) /\ Len(linked) = Len(nodes)
    BY <2>9, <1>1
  <2>11. /\ nodes' \in Seq(Entry) /\ Len(nodes') = n
         /\ nodes'[n] = node(old)
         /\ \A k \in DOMAIN nodes : nodes'[k] = linked[k]
    BY <2>5, <2>10, <1>1, <1>5
  <2> QED BY <2>5, <2>7, <2>9, <2>11 DEF Added, node
<1>8. crashed' # TRUE
  BY <1>1
<1> QED BY <1>6, <1>7, <1>8 DEF AddHashMap, node

LEMMA AddedKeepsLists ==
  ASSUME TypeOK, NEW L \in Layouts, Lists(L), ForeverStays(L), NEW b \in Bucket,
         NEW n, n = Len(nodes) + 1, Added(b, n, first[b])
  PROVE  \E K : /\ K \in Layouts' /\ Lists(K)' /\ ForeverStays(K)'
                /\ InLayout(K)' = InLayout(L) \cup {n}
<1> PICK K \in [Bucket -> SUBSET (DOMAIN nodes \cup {n})] :
      K = [L EXCEPT ![b] = L[b] \cup {n}]
  BY DEF Layouts
<1>1. /\ L \in [Bucket -> SUBSET DOMAIN nodes]
      /\ DOMAIN nodes = 1 .. Len(nodes) /\ Len(nodes) \in Nat
      /\ first[b] \notin {n}
      /\ \A k \in DOMAIN nodes : k \in Nat /\ 0 < k /\ k < n
  BY EntryTypes, EmptyList DEF Layouts, Null
<1>2. DOMAIN nodes' = DOMAIN nodes \cup {n} /\ n \in Nat /\ n > 0 /\ n \notin DOMAIN nodes
  BY <1>1 DEF Added
<1>3. K \in Layouts' /\ K[b] = L[b] \cup {n} /\ \A c \in Bucket \ {b} : K[c] = L[c]
  BY <1>1, <1>2 DEF Layouts
<1>4. /\ first[b] = Null <=> L[b] = {}
      /\ first[b] # Null => first[b] \in L[b]
      /\ L[b] \subseteq DOMAIN nodes
  BY EmptyList
<1>5. ASSUME NEW c \in Bucket, c # b PROVE IsList(c, K[c])'
  <2>1. IsList(c, L[c]) /\ L[c] \subseteq DOMAIN nodes /\ K[c] = L[c]
    BY <1>3, <1>5 DEF Lists, Layouts
  <2>2. first[b] \notin L[c]
    BY <1>4, <1>5, <2>1, <1>1, ListsApart DEF Null
  <2>3. first \in [Bucket -> Node \cup {Null}]
    BY DEF TypeOK
  <2>4. SamePointers(c, L[c])
    BY <2>1, <2>2, <2>3, <1>5 DEF SamePointers, Added
  <2> QED BY <2>1, <2>4, SameList
<1>6. IsList(b, K[b])'
  <2> DEFINE S == L[b]
  <2>1. /\ S \subseteq DOMAIN nodes
        /\ first[b] \in S \cup {Null}
        /\ \A m \in S : m <= first[b]
        /\ \A k \in S :
             /\ Hash[nodes[k].key] = b
             /\ nodes[k].next \in S \cup {Null} /\ nodes[k].next < k
             /\ \A m \in S : m < k => m <= nodes[k].next
             /\ PointedAt(b, S, nodes[k].pprev, k)
    BY <1>4 DEF Lists, IsList
  <2> HIDE DEF S
  <2>2. first'[b] = n
    BY DEF Added, TypeOK
  <2>3. \A m \in S \cup {n} : m <= n
    BY <2>1, <1>1, <1>2
  <2>4. /\ Hash[nodes'[n].key] = b
        /\ nodes'[n].next = first[b] /\ first[b] < n
        /\ \A m \in S \cup {n} : m < n => m <= nodes'[n].next
        /\ nodes'[n].pprev = FirstOf(b)
    BY <2>1, <1>1, <1>2 DEF Added, Null
  <2>5. ASSUME NEW k \in S
        PROVE  /\ Hash[nodes'[k].key] = b
               /\ nodes'[k].next \in S \cup {Null} /\ nodes'[k].next < k
               /\ \A m \in S \cup {n} : m < k => m <= nodes'[k].next
    <3>1. nodes'[k].key = nodes[k].key /\ nodes'[k].next = nodes[k].next /\ ~ (n < k)
      BY <2>1, <1>1, <1>2 DEF Added
    <3> QED BY <3>1, <2>1
  <2>6. ASSUME NEW k \in S PROVE PointedAt(b, S \cup {n}, nodes[k].pprev, k)'
    <3>1. CASE k = first[b]
      BY <3>1, <2>1, <2>4 DEF Added, PointedAt
    <3>2. CASE k # first[b]
      <4>1. nodes'[k].pprev = nodes[k].pprev
        BY <3>2, <2>1 DEF Added
      <4>2. PICK m \in S : nodes[k].pprev = NextOf(m) /\ nodes[m].next = k
        BY <3>2, <2>1 DEF PointedAt
      <4>3. nodes'[m].next = k
        BY <4>2, <2>1 DEF Added
      <4> QED BY <4>1, <4>2, <4>3 DEF PointedAt
    <3> QED BY <3>1, <3>2
  <2>7. PointedAt(b, S \cup {n}, nodes[n].pprev, n)'
    BY <2>2, <2>4 DEF PointedAt
  <2>8. IsList(b, S \cup {n})'
    BY <2>1, <2>2, <2>3, <2>4, <2>5, <2>6, <2>7 DEF IsList
  <2> QED BY <2>8, <1>3 DEF S
<1>7. Lists(K)'
  BY <1>5, <1>6 DEF Lists
<1>8. InLayout(K)' = InLayout(L) \cup {n}
  <2>1. \A k \in DOMAIN nodes : Hash[nodes'[k].key] = Hash[nodes[k].key]
                                 /\ Hash[nodes[k].key] \in Bucket
    BY EntryTypes DEF Added
  <2>2. \A k \in DOMAIN nodes : k \in K[Hash[nodes[k].key]] <=> k \in L[Hash[nodes[k].key]]
    BY <2>1, <1>2, <1>3
  <2>3. n \in InLayout(K)'
    BY <1>2, <1>3 DEF InLayout, Added
  <2> QED BY <2>1, <2>2, <2>3, <1>2 DEF InLayout
<1>9. ForeverStays(K)'
  <2> SUFFICES ASSUME NEW k \in DOMAIN nodes', nodes'[k].TTL = Forever
               PROVE  k \in K[Hash[nodes'[k].key]]
    BY DEF ForeverStays
  <2>1. CASE k = n
    BY <2>1, <1>3 DEF Added
  <2>2. CASE k \in DOMAIN nodes
    <3>1. nodes[k].TTL = Forever /\ nodes'[k].key = nodes[k].key
          /\ Hash[nodes[k].key] \in Bucket
      BY <2>2, EntryTypes DEF Added
    <3>2. k \in L[Hash[nodes[k].key]]
      BY <2>2, <3>1 DEF ForeverStays
    <3> QED BY <3>1, <3>2, <1>3
  <2> QED BY <2>1, <2>2, <1>2
<1> QED BY <1>3, <1>7, <1>8, <1>9

LEMMA AddHashMapKeeps ==
  ASSUME CacheInv, NEW key \in Name, NEW value \in Value, NEW ttl \in Lifetimes,
         AddHashMap(key, value, ttl)
  PROVE  CacheInv' /\ MapStep
<1> DEFINE b == Hash[key]
<1> PICK n : n = Len(nodes) + 1
  OBVIOUS
<1>1. PICK L \in Layouts : Lists(L) /\ ForeverStays(L) /\ SearchOK(L)
  BY DEF CacheInv
<1>2. /\ TypeOK /\ NoHeadNoList /\ crashed = FALSE /\ b \in Bucket
      /\ search.at = "idle" /\ Len(nodes) < MaxNodes
      /\ answer' = NoAnswer
      /\ UNCHANGED <<clock, search>>
  BY CacheAssumption DEF CacheInv, AddHashMap, TypeOK
<1>3. CASE /\ b \in heads /\ first[b] = Null
           /\ crashed' = TRUE
           /\ UNCHANGED lists
  BY <1>2, <1>3, CrashKeeps
<1>4. CASE crashed' = crashed
  <2>1. Added(b, n, first[b])
    BY <1>1, <1>2, <1>4, AddHashMapAdds
  <2>2. heads' = heads \cup {b}
    BY <1>2, <1>4 DEF AddHashMap
  <2>3. n \in Node /\ n \in Nat /\ n <= MaxNodes
    BY <1>2, EntryTypes, CacheAssumption DEF Node
  <2>4. first' \in [Bucket -> Node \cup {Null}]
    BY <2>1, <2>3, <1>2 DEF Added, TypeOK
  <2>5. TypeOK'
    BY <2>1, <2>2, <2>3, <2>4, <1>2, <1>4 DEF TypeOK, Added, NoAnswer
  <2>6. PICK K : /\ K \in Layouts' /\ Lists(K)' /\ ForeverStays(K)'
                 /\ InLayout(K)' = InLayout(L) \cup {n}
    BY <2>1, <1>1, <1>2, AddedKeepsLists
  <2>7. SearchOK(K)' /\ CrashAtEmptyList'
    BY <1>2, <1>4 DEF SearchOK, CrashAtEmptyList
  <2>8. NoHeadNoList'
    BY <2>1, <2>2, <1>2 DEF NoHeadNoList, Added, TypeOK
  <2>9. InLists' = InLists \cup {n}
    BY <2>5, <2>6, <1>1, <1>2, InListsAreLaidOut, InListsAfter
  <2>10. /\ \A k \in InLists : EntryOf(k)' = EntryOf(k) /\ k \in Nat /\ k < n
         /\ n \notin InLists
    <3>1. InLists \subseteq DOMAIN nodes
      BY <1>1, <1>2, InListsAreLaidOut DEF InLayout
    <3>2. \A k \in DOMAIN nodes : k \in Nat /\ k < n
      BY <1>2, EntryTypes
    <3> QED BY <3>1, <3>2, <2>1, <2>3 DEF EntryOf, Added
  <2> DEFINE e == EntryOf(n)'
  <2>11. /\ e.no = n /\ e.key \in Name /\ e.value \in Value /\ e.TTL \in Int
         /\ e.since = clock
    <3>1. nodes'[n] \in Entry /\ nodes'[n].lastCallTime = clock
      BY <2>1, <2>3, EntryTypes DEF Added
    <3> QED BY <3>1, CacheAssumption DEF Entry, EntryOf
  <2>12. Entries' = Entries \cup {e} /\ e \notin Entries
    <3>1. \A k \in InLists : EntryOf(k).no = k
      BY DEF EntryOf
    <3> QED BY <3>1, <2>9, <2>10, <2>11 DEF Entries
  <2>13. \A f \in Entries : f.no < e.no
    <3> TAKE f \in Entries
    <3>1. PICK k \in InLists : f = EntryOf(k)
      BY DEF Entries
    <3>2. f.no = k
      BY <3>1 DEF EntryOf
    <3> QED BY <3>2, <2>10, <2>11
  <2> HIDE DEF e
  <2>14. Map!Add
    BY <2>11, <2>12, <2>13, <1>2
    DEF Map!Add, Entries, NoAnswer, Map!NoAnswer, NotFound, Map!NotFound
  <2> QED BY <2>5, <2>6, <2>7, <2>8, <2>14 DEF CacheInv, MapStep, Map!Next
<1> QED BY <1>2, <1>3, <1>4 DEF AddHashMap

-----------------------------------------------------------------------------
(* A search goes on. *)

(* An entry is looked at: the lists become K, where only that entry can be *)
(* missing, and it only if it has expired.                                 *)
Looked(L, K, b, n) ==
  /\ SameData /\ first' \in [Bucket -> Node \cup {Null}]
  /\ K \in Layouts' /\ Lists(K)' /\ ForeverStays(K)'
  /\ \A c \in Bucket \ {b} : K[c] = L[c]
  /\ K[b] = IF Alive(n) THEN L[b] ELSE L[b] \ {n}
  /\ NextIs(b, K[b], n)'
  /\ Alive(n) => n \in K[b]
  /\ ~ Alive(n) => Detached(b, K[b], n)'

LEMMA LookedIs ==
  ASSUME TypeOK, NEW L \in Layouts, Lists(L), ForeverStays(L),
         NEW b \in Bucket, NEW n \in DOMAIN nodes,
         n \in L[b] \/ Detached(b, L[b], n),
         NotOverTime(n), clock' = clock
  PROVE  \E K \in [Bucket -> SUBSET DOMAIN nodes] : Looked(L, K, b, n)
BY NotOverTimeKeeps DEF Looked

LEMMA LookedExpires ==
  ASSUME TypeOK, TypeOK', NEW L \in Layouts, Lists(L), NEW b \in Bucket,
         NEW n \in DOMAIN nodes,
         NEW K \in [Bucket -> SUBSET DOMAIN nodes], Looked(L, K, b, n),
         UNCHANGED <<clock, answer>>
  PROVE  Map!Expire
<1>1. InLists = InLayout(L) /\ InLists' = InLayout(K)'
  BY InListsAreLaidOut, InListsAfter DEF Looked
<1>2. \A k \in DOMAIN nodes : EntryOf(k)' = EntryOf(k)
  BY DEF EntryOf, Looked, SameData
<1>3. InLayout(K)' \subseteq InLayout(L)
  <2>1. \A c \in Bucket : K[c] \subseteq L[c]
    BY DEF Looked
  <2>2. \A k \in DOMAIN nodes : Hash[nodes[k].key] \in Bucket
    BY EntryTypes
  <2> QED BY <2>1, <2>2 DEF InLayout, Looked, SameData
<1>4. \A k \in InLayout(L) : k \notin InLayout(K)' => k = n /\ ~ Alive(n)
  <2> TAKE k \in InLayout(L)
  <2>1. /\ k \in DOMAIN nodes /\ k \in L[Hash[nodes[k].key]]
        /\ Hash[nodes[k].key] \in Bucket
    BY EntryTypes DEF InLayout
  <2>2. k \in InLayout(K)' <=> k \in K[Hash[nodes[k].key]]
    BY <2>1 DEF InLayout, Looked, SameData
  <2>3. k \notin K[Hash[nodes[k].key]] => k = n /\ ~ Alive(n)
    BY <2>1 DEF Looked
  <2> QED BY <2>2, <2>3
<1>5. InLayout(L) \subseteq DOMAIN nodes
  BY DEF InLayout
<1>6. Entries' \subseteq Entries
  BY <1>1, <1>2, <1>3, <1>5 DEF Entries
<1>7. \A e \in Entries \ Entries' : ~ Map!Alive(e)
  <2> TAKE e \in Entries \ Entries'
  <2>1. PICK k \in InLayout(L) : e = EntryOf(k)
    BY <1>1 DEF Entries
  <2>2. k \notin InLayout(K)'
    BY <2>1, <1>1, <1>2, <1>5 DEF Entries
  <2>3. ~ Alive(k)
    BY <2>2, <1>4
  <2> QED BY <2>1, <2>3 DEF Map!Alive, EntryOf, Alive, Map!Forever, Forever
<1> QED BY <1>6, <1>7 DEF Map!Expire, Entries

LEMMA LookedKeeps ==
  ASSUME CacheInv, NEW L \in Layouts, Lists(L), NEW b \in Bucket,
         NEW n \in DOMAIN nodes,
         NEW K \in [Bucket -> SUBSET DOMAIN nodes], Looked(L, K, b, n),
         UNCHANGED <<heads, crashed>>, crashed = FALSE
  PROVE  NoHeadNoList' /\ CrashAtEmptyList'
<1>1. ASSUME NEW c \in Bucket \ heads PROVE first'[c] = Null
  <2>1. L[c] = {}
    BY EmptyList DEF CacheInv, NoHeadNoList
  <2>2. K[c] = {}
    BY <2>1 DEF Looked
  <2>3. IsList(c, K[c])'
    BY DEF Looked, Lists
  <2> QED BY <2>2, <2>3 DEF IsList
<1> QED BY <1>1 DEF NoHeadNoList, CrashAtEmptyList

(* The search goes on behind entry n, which is not what it looks for.      *)
LEMMA ToNextKeeps ==
  ASSUME CacheInv, NEW L \in Layouts, Lists(L), SearchOK(L), search.at # "idle",
         NEW n \in DOMAIN nodes, n = search.temp,
         NEW K \in [Bucket -> SUBSET DOMAIN nodes],
         NEW b, b = Hash[search.key], Looked(L, K, b, n),
         clock' = clock, search' = ToNext(n), ~ (FoldsTo(n) /\ Alive(n))
  PROVE  /\ SearchOK(K)'
         /\ search' \in [at : {"loop"}, key : Name, temp : Node \cup {Null}, flag : {-1, 0}]
<1>1. /\ search.key \in Name /\ b \in Bucket
      /\ \A m \in L[b] : m > n => ~ (FoldsTo(m) /\ Alive(m))
      /\ search \in [at : {"idle", "loop", "matched"}, key : Name \cup {NotFound},
                     temp : Node \cup {Null}, flag : {-1, 0}]
  BY CacheAssumption DEF SearchOK, CacheInv, TypeOK
<1>2. K[b] \subseteq L[b] /\ K[b] \subseteq DOMAIN nodes /\ L[b] \subseteq DOMAIN nodes
  BY <1>1 DEF Looked, Layouts
<1>3. /\ nodes'[n].next \in K[b] \cup {Null} /\ nodes'[n].next < n
      /\ \A m \in K[b] : m < n => m <= nodes'[n].next
  BY DEF Looked, NextIs
<1>4. DOMAIN nodes \subseteq Node /\ \A m \in DOMAIN nodes : m \in Nat
  BY EntryTypes DEF CacheInv
<1>5. /\ search'.at = "loop" /\ search'.key = search.key
      /\ search'.temp = nodes'[n].next
      /\ search' \in [at : {"loop"}, key : Name, temp : Node \cup {Null}, flag : {-1, 0}]
  <2>1. nodes'[n].next \in Node \cup {Null}
    BY <1>2, <1>3, <1>4
  <2> QED BY <2>1, <1>1 DEF ToNext
<1>6. \A m \in DOMAIN nodes : /\ FoldsTo(m)' <=> FoldsTo(m)
                              /\ Alive(m)' <=> Alive(m)
  BY <1>5 DEF FoldsTo, Alive, Looked, SameData
<1>7. ASSUME NEW m \in K[b], m > nodes'[n].next
      PROVE  ~ (FoldsTo(m) /\ Alive(m))
  <2>1. m \in Nat /\ n \in Nat /\ nodes'[n].next \in Nat
    BY <1>2, <1>3, <1>4 DEF Null
  <2>2. m = n \/ m > n
    BY <2>1, <1>3, <1>7
  <2> QED BY <2>2, <1>1, <1>2
<1> QED BY <1>1, <1>2, <1>3, <1>5, <1>6, <1>7 DEF SearchOK

LEMMA ExamineKeeps ==
  ASSUME CacheInv, Examine
  PROVE  CacheInv' /\ MapStep
<1>1. PICK L \in Layouts : Lists(L) /\ ForeverStays(L) /\ SearchOK(L)
  BY DEF CacheInv
<1> PICK b : b = Hash[search.key]
  OBVIOUS
<1> PICK n : n = search.temp
  OBVIOUS
<1>2. /\ TypeOK /\ crashed = FALSE /\ search.at = "loop"
      /\ n # Null /\ NotOverTime(n)
      /\ UNCHANGED <<heads, clock, answer, crashed>>
  BY DEF CacheInv, Examine, Continues, TypeOK
<1>3. search.key \in Name /\ b \in Bucket /\ n \in L[b]
  BY <1>1, <1>2, CacheAssumption DEF SearchOK
<1>4. n \in DOMAIN nodes /\ n \in Node
  BY <1>1, <1>2, <1>3, EntryTypes DEF Layouts
<1>5. PICK K \in [Bucket -> SUBSET DOMAIN nodes] : Looked(L, K, b, n)
  BY <1>1, <1>2, <1>3, <1>4, LookedIs
<1>6. NoHeadNoList' /\ CrashAtEmptyList'
  BY <1>1, <1>2, <1>3, <1>4, <1>5, LookedKeeps
<1>7. K \in Layouts' /\ Lists(K)' /\ ForeverStays(K)'
  BY <1>5 DEF Looked
<1>8. /\ SearchOK(K)'
      /\ search' \in [at : {"loop", "matched"}, key : Name, temp : Node \cup {Null},
                      flag : {-1, 0}]
  <2>1. CASE FoldsTo(n) /\ search' = [search EXCEPT !.at = "matched"]
    <3>1. /\ search'.at = "matched" /\ search'.key = search.key /\ search'.temp = n
          /\ search' \in [at : {"loop", "matched"}, key : Name, temp : Node \cup {Null},
                          flag : {-1, 0}]
      BY <2>1, <1>2, <1>3, <1>4 DEF TypeOK
    <3>2. \A m \in DOMAIN nodes : /\ FoldsTo(m)' <=> FoldsTo(m)
                                  /\ Alive(m)' <=> Alive(m)
      BY <3>1, <1>2, <1>5 DEF FoldsTo, Alive, Looked, SameData
    <3>3. K[b] \subseteq L[b] /\ L[b] \subseteq DOMAIN nodes
      BY <1>3, <1>5 DEF Looked, Layouts
    <3>4. \A m \in K[b] : m > n => ~ (FoldsTo(m)' /\ Alive(m)')
      BY <3>2, <3>3, <1>1, <1>2 DEF SearchOK
    <3>5. n \in DOMAIN nodes' /\ FoldsTo(n)'
      BY <3>2, <2>1, <1>4, <1>5 DEF Looked, SameData
    <3>6. n \in K[b] \/ Detached(b, K[b], n)'
      BY <1>5 DEF Looked
    <3> QED BY <3>1, <3>4, <3>5, <3>6, <1>3 DEF SearchOK
  <2>2. CASE ~ FoldsTo(n) /\ search' = ToNext(n)
    BY <2>2, <1>1, <1>2, <1>4, <1>5, ToNextKeeps
  <2> QED BY <2>1, <2>2 DEF Examine
<1>9. TypeOK'
  BY <1>2, <1>5, <1>8 DEF TypeOK, Looked, SameData
<1>10. Map!Expire
  BY <1>1, <1>2, <1>3, <1>4, <1>5, <1>9, LookedExpires
<1> QED BY <1>6, <1>7, <1>8, <1>9, <1>10 DEF CacheInv, MapStep, Map!Next

(* At a hit the entry is in the lists, which stay, and no newer one of     *)
(* those that match is alive.                                              *)
LEMMA HitKeeps ==
  ASSUME CacheInv, Matched, Alive(search.temp)
  PROVE  CacheInv' /\ MapStep
<1>1. PICK L \in Layouts : Lists(L) /\ ForeverStays(L) /\ SearchOK(L)
  BY DEF CacheInv
<1> DEFINE key == search.key
           b == Hash[key]
           n == search.temp
<1>2. /\ TypeOK /\ NoHeadNoList /\ crashed = FALSE /\ search.at = "matched"
      /\ answer' = [name |-> key, value |-> nodes[n].value]
      /\ search' = Idle
      /\ UNCHANGED <<lists, clock, crashed>>
  BY DEF CacheInv, Matched, NotOverTime, TypeOK, lists
<1>3. /\ key \in Name /\ n \in L[b] /\ FoldsTo(n)
      /\ \A m \in L[b] : m > n => ~ (FoldsTo(m) /\ Alive(m))
  BY <1>1, <1>2 DEF SearchOK, Detached
<1>4. /\ b \in Bucket /\ n \in DOMAIN nodes /\ nodes[n].value \in Value
      /\ L[b] \subseteq DOMAIN nodes /\ \A m \in DOMAIN nodes : m \in Nat
  BY <1>2, <1>3, CacheAssumption, EntryTypes DEF Layouts, Entry
<1>5. TypeOK'
  BY <1>2, <1>3, <1>4 DEF TypeOK, lists, Idle, Null
<1>6. L \in Layouts' /\ Lists(L)' /\ ForeverStays(L)' /\ Entries' = Entries
  BY <1>1, <1>2, <1>5, SameEntries DEF lists
<1>7. SearchOK(L)' /\ NoHeadNoList' /\ CrashAtEmptyList'
  BY <1>2 DEF SearchOK, Idle, NoHeadNoList, CrashAtEmptyList, lists
<1>8. n \in Matches(L, key) /\ \A m \in Matches(L, key) : m <= n
  BY <1>3, <1>4 DEF Matches, FoldsTo
<1>9. Map!Found(key) = {EntryOf(m) : m \in Matches(L, key)}
  BY <1>1, <1>2, <1>3, FoundIs
<1> DEFINE e == EntryOf(n)
<1>10. e \in Map!Found(key) /\ e.value = nodes[n].value
       /\ \A f \in Map!Found(key) : f.no <= e.no
  BY <1>8, <1>9 DEF EntryOf
<1>11. Map!Lookup(key)
  BY <1>2, <1>6, <1>10 DEF Map!Lookup, Entries
<1> QED BY <1>3, <1>5, <1>6, <1>7, <1>11 DEF CacheInv, MapStep, Map!Next

LEMMA MissKeeps ==
  ASSUME CacheInv, Matched, ~ Alive(search.temp)
  PROVE  CacheInv' /\ MapStep
<1>1. PICK L \in Layouts : Lists(L) /\ ForeverStays(L) /\ SearchOK(L)
  BY DEF CacheInv
<1> PICK b : b = Hash[search.key]
  OBVIOUS
<1> PICK n : n = search.temp
  OBVIOUS
<1>2. /\ TypeOK /\ crashed = FALSE /\ search.at = "matched" /\ ~ Alive(n)
      /\ NotOverTime(n) /\ search' = ToNext(n)
      /\ UNCHANGED <<heads, clock, answer, crashed>>
  BY DEF CacheInv, Matched, TypeOK
<1>3. search.key \in Name /\ b \in Bucket /\ n \in DOMAIN nodes
      /\ (n \in L[b] \/ Detached(b, L[b], n))
  BY <1>1, <1>2, CacheAssumption DEF SearchOK
<1>4. PICK K \in [Bucket -> SUBSET DOMAIN nodes] : Looked(L, K, b, n)
  BY <1>1, <1>2, <1>3, LookedIs
<1>5. NoHeadNoList' /\ CrashAtEmptyList'
  BY <1>1, <1>2, <1>3, <1>4, LookedKeeps
<1>6. K \in Layouts' /\ Lists(K)' /\ ForeverStays(K)'
  BY <1>4 DEF Looked
<1>7. /\ SearchOK(K)'
      /\ search' \in [at : {"loop"}, key : Name, temp : Node \cup {Null}, flag : {-1, 0}]
  BY <1>1, <1>2, <1>3, <1>4, ToNextKeeps
<1>8. TypeOK'
  BY <1>2, <1>4, <1>7 DEF TypeOK, Looked, SameData
<1>9. Map!Expire
  BY <1>1, <1>2, <1>3, <1>4, <1>8, LookedExpires
<1> QED BY <1>5, <1>6, <1>7, <1>8, <1>9 DEF CacheInv, MapStep, Map!Next

-----------------------------------------------------------------------------
LEMMA InitCacheInv ==
  ASSUME Init
  PROVE  CacheInv /\ Map!Init
<1> DEFINE L == [b \in Bucket |-> {}]
<1>1. TypeOK
  <2>1. nodes \in Seq(Entry) /\ Len(nodes) = 0
    BY DEF Init
  <2>2. first \in [Bucket -> Node \cup {Null}]
    BY DEF Init
  <2>3. search \in [at : {"idle", "loop", "matched"}, key : Name \cup {NotFound},
                    temp : Node \cup {Null}, flag : {-1, 0}]
    BY DEF Init, Idle
  <2>4. answer \in [name : Name \cup {NotFound}, value : Value \cup {NotFound}]
    BY DEF Init, NoAnswer
  <2>5. Len(nodes) <= MaxNodes
    BY <2>1, CacheAssumption
  <2>6. heads \subseteq Bucket /\ clock \in Nat /\ crashed \in BOOLEAN
    BY DEF Init
  <2> QED BY <2>1, <2>2, <2>3, <2>4, <2>5, <2>6 DEF TypeOK
<1>2. L \in Layouts /\ Lists(L)
  BY DEF Init, Layouts, Lists, IsList
<1>3. ForeverStays(L) /\ SearchOK(L) /\ NoHeadNoList /\ CrashAtEmptyList
  BY DEF Init, ForeverStays, SearchOK, NoHeadNoList, CrashAtEmptyList, Idle
<1>4. CacheInv
  BY <1>1, <1>2, <1>3 DEF CacheInv
<1>5. Entries = {}
  <2>1. DOMAIN nodes = {}
    BY DEF Init
  <2>2. InLists = {}
    BY <2>1, <1>1, <1>2, InListsAreLaidOut DEF InLayout
  <2> QED BY <2>2 DEF Entries
<1>6. Map!Init
  BY <1>5 DEF Init, Map!Init, Entries, NoAnswer, Map!NoAnswer, NotFound, Map!NotFound
<1> QED BY <1>4, <1>6

LEMMA StutterKeeps ==
  ASSUME CacheInv, UNCHANGED vars
  PROVE  CacheInv' /\ MapStep
<1>1. PICK L \in Layouts : Lists(L) /\ ForeverStays(L) /\ SearchOK(L)
  BY DEF CacheInv
<1>2. UNCHANGED <<lists, first, nodes, clock, search, answer, crashed>>
  BY DEF vars, lists
<1>3. TypeOK' /\ NoHeadNoList' /\ CrashAtEmptyList'
  BY <1>2 DEF CacheInv, TypeOK, NoHeadNoList, CrashAtEmptyList, lists
<1>4. SearchOK(L)'
  BY <1>1, <1>2, SearchStays
<1>5. L \in Layouts' /\ Lists(L)' /\ ForeverStays(L)' /\ Entries' = Entries
  BY <1>1, <1>2, <1>3, SameEntries DEF CacheInv
<1>6. UNCHANGED Map!vars
  BY <1>2, <1>5 DEF Map!vars, Entries
<1> QED BY <1>3, <1>4, <1>5, <1>6 DEF CacheInv, MapStep

LEMMA NextKeeps ==
  ASSUME CacheInv, [Next]_vars
  PROVE  CacheInv' /\ MapStep
<1>1. ASSUME NEW key \in Name, NEW value \in Value, NEW ttl \in Lifetimes,
             AddHashMap(key, value, ttl)
      PROVE  CacheInv' /\ MapStep
  BY <1>1, AddHashMapKeeps
<1>2. ASSUME NEW key \in Name, FindHashMap(key) PROVE CacheInv' /\ MapStep
  BY <1>2, FindHashMapKeeps
<1>3. CASE Examine
  BY <1>3, ExamineKeeps
<1>4. CASE Matched
  BY <1>4, HitKeeps, MissKeeps
<1>5. CASE GiveUp
  BY <1>5, GiveUpKeeps
<1>6. CASE Tick
  BY <1>6, TickKeeps
<1>7. CASE UNCHANGED vars
  BY <1>7, StutterKeeps
<1> QED BY <1>1, <1>2, <1>3, <1>4, <1>5, <1>6, <1>7 DEF Next

(* Every run of the hash map keeps CacheInv: hlist.c.                      *)
THEOREM CacheInvCorrect == Spec => []CacheInv
<1>1. Init => CacheInv
  BY InitCacheInv
<1>2. CacheInv /\ [Next]_vars => CacheInv'
  BY NextKeeps
<1> QED BY <1>1, <1>2, PTL DEF Spec

(* Whatever is added, searched for and unlinked on the way, and unlinked   *)
(* again, the lists stay lists: hlist.c.                                   *)
THEOREM ListsWellFormedHolds == Spec => []ListsWellFormed
<1>1. CacheInv => ListsWellFormed
  <2> SUFFICES ASSUME CacheInv PROVE ListsWellFormed
    OBVIOUS
  <2>1. PICK L \in Layouts : Lists(L)
    BY DEF CacheInv
  <2>2. TypeOK /\ \A b \in Bucket : InBucket(b) = L[b]
    BY <2>1, BucketsAre DEF CacheInv
  <2>3. ASSUME NEW b \in Bucket, NEW n \in L[b]
        PROVE  /\ Hash[nodes[n].key] = b
               /\ nodes[n].next < n
               /\ PointsTo(nodes[n].pprev) = n
               /\ \/ nodes[n].pprev = FirstOf(b)
                  \/ nodes[n].pprev.of = "next" /\ nodes[n].pprev.at \in L[b]
    <3>1. /\ Hash[nodes[n].key] = b /\ nodes[n].next < n
          /\ PointedAt(b, L[b], nodes[n].pprev, n)
      BY <2>1 DEF Lists, IsList
    <3>2. CASE nodes[n].pprev = FirstOf(b) /\ first[b] = n
      BY <3>1, <3>2 DEF PointsTo, FirstOf
    <3>3. CASE \E m \in L[b] : nodes[n].pprev = NextOf(m) /\ nodes[m].next = n
      BY <3>1, <3>3 DEF PointsTo, NextOf
    <3> QED BY <3>1, <3>2, <3>3 DEF PointedAt
  <2> QED BY <2>2, <2>3 DEF ListsWellFormed
<1> QED BY <1>1, CacheInvCorrect, PTL

(* The program crashes at a bucket none of whose entries was for ever: no  *)
(* bucket of the domain table is ever emptied, since notOverTime leaves    *)
(* its entries: hlist.c.                                                   *)
THEOREM CrashNeedsExpiryHolds == Spec => []CrashNeedsExpiry
<1>1. CacheInv => CrashNeedsExpiry
  <2> SUFFICES ASSUME CacheInv, crashed
               PROVE  \E b \in heads :
                        /\ first[b] = Null
                        /\ \A n \in DOMAIN nodes :
                             Hash[nodes[n].key] = b => nodes[n].TTL # Forever
    BY DEF CrashNeedsExpiry
  <2>1. PICK L \in Layouts : Lists(L) /\ ForeverStays(L)
    BY DEF CacheInv
  <2>2. PICK b \in heads : first[b] = Null
    BY DEF CacheInv, CrashAtEmptyList
  <2>3. b \in Bucket
    BY DEF CacheInv, TypeOK
  <2>4. L[b] = {}
    BY <2>1, <2>2, <2>3, EmptyList DEF CacheInv
  <2> QED BY <2>1, <2>2, <2>4 DEF ForeverStays
<1> QED BY <1>1, CacheInvCorrect, PTL

(* The hash map with its lists, its lookups in steps and its unlinking on  *)
(* the way implements the map of entries with a lifetime, of which a       *)
(* lookup returns the newest that is alive: findHashMap and addHashMap.    *)
THEOREM Implements == Spec => ImplementsExpiringMap
<1>1. Init => Map!Init
  BY InitCacheInv
<1>2. CacheInv /\ [Next]_vars => [Map!Next]_(Map!vars)
  BY NextKeeps DEF MapStep
<1> QED BY <1>1, <1>2, CacheInvCorrect, PTL DEF Spec, ImplementsExpiringMap, Map!Spec
=============================================================================
