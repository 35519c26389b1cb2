---------------------------- MODULE ExpiringMap -----------------------------
(***************************************************************************)
(* What the domain cache promises: entries with a lifetime, of which a     *)
(* lookup returns the newest that matches the name and has not expired.    *)
(* An expired entry may be forgotten at any time, another one never.       *)
(***************************************************************************)
EXTENDS Integers, FiniteSets

CONSTANTS
  Name, Value,
  Answers   \* the pairs of names of which an entry for one answers the other

VARIABLES
  entries,   \* the entries, each with its number
  now,
  answer     \* what a lookup returned, until the next call

vars == <<entries, now, answer>>

NotFound == 0

NoAnswer == [name |-> NotFound, value |-> NotFound]

Forever == -1

Alive(e) == e.TTL = Forever \/ e.TTL > now - e.since

Found(name) == {e \in entries : <<e.key, name>> \in Answers /\ Alive(e)}

Init == /\ entries = {}
        /\ now = 0
        /\ answer = NoAnswer

Add ==
  /\ \E e \in entries' \ entries :
       /\ e.key \in Name
       /\ e.value \in Value
       /\ e.TTL \in Int
       /\ e.since = now
       /\ \A f \in entries : f.no < e.no
       /\ entries' = entries \cup {e}
  /\ answer' = NoAnswer
  /\ UNCHANGED now

Expire ==
  /\ entries' \subseteq entries
  /\ \A e \in entries \ entries' : ~Alive(e)
  /\ UNCHANGED <<now, answer>>

Lookup(name) ==
  /\ \/ /\ Found(name) = {}
        /\ answer' = [name |-> name, value |-> NotFound]
     \/ \E e \in Found(name) :
          /\ \A f \in Found(name) : f.no <= e.no
          /\ answer' = [name |-> name, value |-> e.value]
  /\ UNCHANGED <<entries, now>>

Call == /\ answer' = NoAnswer
        /\ UNCHANGED <<entries, now>>

Tick == /\ now' = now + 1
        /\ UNCHANGED <<entries, answer>>

Next == \/ Add
        \/ \E name \in Name : Lookup(name)
        \/ Call
        \/ Expire
        \/ Tick

Spec == Init /\ [][Next]_vars
=============================================================================
