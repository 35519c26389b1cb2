---------------------------- MODULE MCEasyRelay -----------------------------
(* Instances of the relay small enough for TLC. *)
EXTENDS EasyRelay, TLC

CONSTANTS blocked, known

MCTable == blocked :> Blocked

Symmetry == Permutations(Client)
=============================================================================
