-------------------------- MODULE MCWaitingPlayer ---------------------------
(* Every configuration over small ranges, the invalid ones included: Init   *)
(* keeps those that validate accepts.                                       *)
EXTENDS WaitingPlayer

CONSTANTS MaxMs, MaxDelta

MCConfigs ==
    [ms : [1 .. 4 -> 1 .. MaxMs], delta : [1 .. 5 -> 0 .. MaxDelta],
     tick : {1}, stale : {1, 2}]
=============================================================================
