--------------------------- MODULE MCDomainCache ----------------------------
(* Instances of the domain cache small enough for TLC: two names that      *)
(* differ in case only, in one bucket, and a third name.                   *)
EXTENDS DomainCache, TLC

CONSTANTS lower, UPPER, other, b1, b2

MCHash   == lower :> b1 @@ UPPER :> b1 @@ other :> b1
MCLifetimes == {-1, 1}
MCLong      == {2}
MCFolded == lower :> lower @@ UPPER :> lower @@ other :> other
=============================================================================
