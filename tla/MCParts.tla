------------------------------ MODULE MCParts --------------------------------
(***************************************************************************)
(* Four parts that do not meet: the checksum and the printing of the       *)
(* protocol library, the messages of the epoll relay, and the first relay. *)
(* In a behaviour one of them runs.                                        *)
(***************************************************************************)
EXTENDS Crc32, Lprintf, DnsMessage, BlockingRelay

VARIABLE part

Init ==
  /\ part \in {"crc32", "lprintf", "message", "relay"}
  /\ CrcInit
  /\ PrintInit
  /\ MessageInit
  /\ BlockingInit
  /\ part # "message" => buf[1] = 0

Next ==
  /\ UNCHANGED part
  /\ \/ part = "crc32" /\ Receive /\ UNCHANGED <<printVars, messageVars, blockingVars>>
     \/ part = "lprintf" /\ PrintNext /\ UNCHANGED <<crcVars, messageVars, blockingVars>>
     \/ part = "message" /\ MessageNext /\ UNCHANGED <<crcVars, printVars, blockingVars>>
     \/ part = "relay" /\ BlockingNext /\ UNCHANGED <<crcVars, printVars, messageVars>>

Spec == Init /\ [][Next]_<<part, crcVars, printVars, messageVars, blockingVars>>

(* An acknowledgement as send_data makes it: the kind, 2, and a number.    *)
MCMessages == {<<{1}, {0, 2}>>}

Option(kind, n) == [kind |-> kind, n |-> n]

MCOption ==
  {Option(kind, 0) : kind \in {"#", "-", "+", " ", "h", "l", "0"}} \cup
  {Option("0", 5), Option("1", 3), Option("*", -6), Option(".", 0), Option(".", 6)}

MCOptions == UNION {[1 .. n -> MCOption] : n \in 0 .. 3}

MCLiterals == {<<"t", "\n">>, <<"\n", "\n", "t">>}
MCInteger == {-20, -8, -5, -1, 0, 3, 7, 20}
MCStrings == {<<>>, <<"s", "t", "r">>, <<"s", "\n">>}
MCDoubles == [negative : BOOLEAN, digits : {<<"1", ".", "5">>, <<"2">>}]

(* The last is longer than the buffer. *)
MCBlocks == {<<>>, <<3>>, <<171, 0, 16>>, <<9, 255, 31, 16, 7>>}

(* "a", "a.bc" and "abc.d.e", as bytes. *)
MCLabels ==
  {<< <<97>> >>, << <<97>>, <<98, 99>> >>, << <<97, 98, 99>>, <<100>>, <<101>> >>}

(* A, AAAA and CAA. *)
MCQTypes == {<<0, 1>>, <<0, 28>>, <<1, 1>>}
MCAddresses == {<<10, 0, 0, 1>>}
MCTTLs == {<<0, 0, 1, 44>>, <<1, 0, 0, 0>>}

MCLabelCount == [one |-> 1, two |-> 2, three |-> 3]

(* The last line for a name counts, and shares a list with another's. *)
MCTableFile == << [ip |-> "1.1.1.1", domain |-> "two"],
                  [ip |-> "0.0.0.0", domain |-> "two"],
                  [ip |-> "2.2.2.2", domain |-> "one"] >>
MCHashCode == [one |-> "b1", two |-> "b1", three |-> "b2"]
=============================================================================
