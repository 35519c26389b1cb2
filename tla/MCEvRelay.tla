------------------------------ MODULE MCEvRelay ------------------------------
(* A small instance of the libuv relay.                                    *)
EXTENDS EvRelay

(* A name with an address, blocked by a later line.  The other name is not *)
(* in the table.                                                           *)
MCTable == << [ip |-> "address", domain |-> "blocked"],
              [ip |-> "0.0.0.0", domain |-> "blocked"] >>

(* An answer shorter than what is sent of it, and a longer one.            *)
MCAnswerSize == [n \in Name |-> IF n = "blocked" THEN {60} ELSE {120}]
=============================================================================
