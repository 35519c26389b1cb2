----------------------------- MODULE MCDatalink -----------------------------
(* Instances of the data link layer small enough for TLC.                  *)
EXTENDS DatalinkInvariant, TLC

CONSTANTS PktsA, PktsB   \* what each station's network layer offers

MCPktLimit == A :> PktsA @@ B :> PktsB
=============================================================================
