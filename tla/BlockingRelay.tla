---------------------------- MODULE BlockingRelay ----------------------------
(***************************************************************************)
(* The first DNS relay, DNS/net.c and DNS/test.c: the program reads its    *)
(* table, waits for one datagram, takes it for a query and sends it on,    *)
(* waits for one more, takes that for the answer and sends it back, looks  *)
(* the name up and ends.  All datagrams come to one socket, and who sent   *)
(* the second is not asked.                                                *)
(***************************************************************************)
EXTENDS Integers, Sequences, SequencesExt

CONSTANTS
  User,            \* who sends queries
  TheServer,       \* 10.3.9.4
  Domain,          \* names, in lower case
  Mangled,         \* what toDomainName makes of a name it cannot read
  LabelCount,      \* of each
  TableFile,       \* dnsrelay.txt, an address and a name in each line
  List, HashCode,  \* the lists of the table, and the one of each name
  MaxAsked,        \* bound: datagrams users send
  MaxAnswered      \* bound: datagrams the server sends

NoList == <<>>

Line == [ip : STRING, domain : Domain]

ASSUME BlockingAssumption ==
  /\ TheServer \notin User
  /\ Mangled \notin Domain
  /\ TableFile \in Seq(Line) \ {<<>>}
  /\ HashCode \in [Domain -> List]
  /\ LabelCount \in [Domain -> Nat \ {0}]
  /\ {MaxAsked, MaxAnswered} \subseteq Nat

VARIABLES
  socket,    \* datagrams that wait, with what they are about
  hlist,     \* the lists of the table
  pc,        \* where the program is
  client,    \* clent_addr, and the datagram it sent
  temp,      \* the name
  ans,       \* what was found in the table
  forwarded, \* queries the server got
  replied,   \* what was sent back
  (* history *)
  sentBy,    \* datagrams users sent
  served     \* how many datagrams the server sent

networkHistory == <<sentBy, served>>
blockingVars == <<socket, hlist, pc, client, temp, ans, forwarded, replied, networkHistory>>

Empty == [from |-> TheServer, name |-> Mangled, long |-> FALSE]

BlockingInit ==
  /\ socket = <<>>
  /\ hlist = [b \in List |-> NoList]
  /\ pc = "start"
  /\ client = Empty
  /\ temp = Mangled
  /\ ans = "nothing"
  /\ forwarded = {}
  /\ replied = {}
  /\ sentBy = <<>>
  /\ served = 0

-----------------------------------------------------------------------------
(* The network.  The server answers when and as often as it likes, also at *)
(* a length that does not fit buf.                                         *)

program == <<hlist, pc, client, temp, ans, forwarded, replied>>

UserSends(user, name) ==
  /\ Len(sentBy) < MaxAsked
  /\ socket' = Append(socket, [from |-> user, name |-> name, long |-> FALSE])
  /\ sentBy' = Append(sentBy, [from |-> user, name |-> name])
  /\ UNCHANGED <<program, served>>

ServerSends(name, long) ==
  /\ served < MaxAnswered
  /\ name \in forwarded
  /\ socket' = Append(socket, [from |-> TheServer, name |-> name, long |-> long])
  /\ served' = served + 1
  /\ UNCHANGED <<program, sentBy>>

-----------------------------------------------------------------------------
(* The table. *)

(* In front of what its list holds. *)
AddHashMap(lists, line) ==
  [lists EXCEPT ![HashCode[line.domain]] = <<line>> \o @]

(* feof is seen only after a line could not be read: the last line counts  *)
(* twice.                                                                  *)
LinesRead == TableFile \o <<Last(TableFile)>>

HashMapInit(lists, lines) ==
  LET read[n \in 0 .. Len(lines)] ==
        IF n = 0 THEN lists ELSE AddHashMap(read[n - 1], lines[n])
  IN  read[Len(lines)]

(* createHasMap, hashMapInit and initServer.  Without a socket the receive *)
(* fails, and the program looks up whatever is in temp.                    *)
Start ==
  /\ pc = "start"
  /\ hlist' = HashMapInit(hlist, LinesRead)
  /\ pc' \in {"receive", "look"}
  /\ UNCHANGED <<socket, client, temp, ans, forwarded, replied, networkHistory>>

(* The file could not be opened. *)
Exit ==
  /\ pc = "start"
  /\ pc' = "end"
  /\ UNCHANGED <<socket, hlist, client, temp, ans, forwarded, replied, networkHistory>>

-----------------------------------------------------------------------------
(* toDomainName steps over one byte too many behind every label but the    *)
(* first.  The end of two labels is missed by one byte, which does no      *)
(* harm; a third label is spoilt.  Behind the end of a single label what   *)
(* follows depends on a byte that was never written.                       *)
ToDomainName(name) ==
  CASE LabelCount[name] = 1 -> {name, Mangled}
    [] LabelCount[name] = 2 -> {name}
    [] LabelCount[name] > 2 -> {Mangled}

(* handleDnsMsg up to its second recvfrom. *)
HandleQuery ==
  /\ pc = "receive"
  /\ socket # <<>>
  /\ socket' = Tail(socket)
  /\ client' = Head(socket)
  /\ temp' \in ToDomainName(Head(socket).name)
  /\ forwarded' = forwarded \cup {Head(socket).name}
  /\ pc' = "wait"
  /\ UNCHANGED <<hlist, ans, replied, networkHistory>>

(* What is sent back is what buf holds. *)
Reply(content) ==
  replied' = replied \cup {[to |-> client.from, asked |-> client.name,
                            from |-> content.from, name |-> content.name,
                            among |-> Len(sentBy)]}

NotAwaited == TRUE          \* slip: the socket does not block
Awaited == socket # <<>>

(* The rest of it.  An answer of more than BUFF_LEN bytes is written past  *)
(* buf, over the client's address or what the function returns to.         *)
HandleAnswer ==
  /\ pc = "wait"
  /\ Awaited
  /\ LET content == IF socket = <<>> THEN client ELSE Head(socket)
     IN  \/ Reply(content) /\ pc' = "look"
         \/ content.long /\ Reply(content) /\ pc' = "smashed"
         \/ content.long /\ UNCHANGED replied /\ pc' \in {"look", "smashed"}
  /\ socket' = IF socket = <<>> THEN <<>> ELSE Tail(socket)
  /\ UNCHANGED <<hlist, client, temp, ans, forwarded, networkHistory>>

-----------------------------------------------------------------------------
(* findHashMap.  The loop does not know the end of a list: it takes what   *)
(* is sixteen bytes before a null pointer for another entry.               *)

Matches(list) == {i \in DOMAIN list : list[i].domain = temp}

Value(line) == IF line.ip = "0.0.0.0" THEN "Not have this" ELSE line.ip

(* A name is looked for in its own list, a mangled one in any.             *)
ListsOf(name) == IF name = Mangled THEN List ELSE {HashCode[name]}

FindHashMap ==
  /\ pc = "look"
  /\ \E b \in ListsOf(temp) :
       CASE hlist[b] = NoList -> ans' = "NULL" /\ pc' = "end"
         [] Matches(hlist[b]) # {} ->
              ans' = Value(hlist[b][Min(Matches(hlist[b]))]) /\ pc' = "end"
         [] OTHER -> UNCHANGED ans /\ pc' = "crash"
  /\ UNCHANGED <<socket, hlist, client, temp, forwarded, replied, networkHistory>>

BlockingNext ==
  \/ \E user \in User, name \in Domain : UserSends(user, name)
  \/ \E name \in Domain, long \in BOOLEAN : ServerSends(name, long)
  \/ Start
  \/ Exit
  \/ HandleQuery
  \/ HandleAnswer
  \/ FindHashMap

BlockingSpec == BlockingInit /\ [][BlockingNext]_blockingVars

-----------------------------------------------------------------------------
(* What a client gets is the server's answer to its own question, unless   *)
(* some other datagram came before the reply: a retry of its own, even.    *)
ReplyIsServers ==
  \A r \in replied :
    \/ r.from = TheServer /\ r.name = r.asked
    \/ r.among > 1

(* A name of two labels that is in the table is found there, by its last   *)
(* line, although a lookup that finds nothing crashes.                     *)
ListedFound ==
  LET lines == {i \in DOMAIN TableFile : TableFile[i].domain = client.name}
  IN  client # Empty /\ lines # {} /\ LabelCount[client.name] = 2 =>
        /\ pc # "crash"
        /\ pc = "end" => ans = Value(TableFile[Max(lines)])

(* Both, as the one query the program serves.                              *)
ServedUnlessOvertaken == ReplyIsServers /\ ListedFound
=============================================================================
