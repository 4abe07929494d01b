---------------------------- MODULE MCPlayerPool ----------------------------
(* PlayerPool on small instances: two clients and one worker.               *)
EXTENDS PlayerPool, TLC

CONSTANTS a, b, c1, c2, w1, r1, r2

MCIds == {a, b}
MCClients == {c1, c2}
MCWorkers == {w1}
MCRatings == {r1, r2}

(* Each id has one client, which waits for every answer. *)
OwnIds == [c \in MCClients |-> IF c = c1 THEN {a} ELSE {b}]

(* Two requests for one id may be in flight together. *)
SharedIds == [c \in MCClients |-> MCIds]

OnlyOwnIds == {OwnIds}
OnlySharedIds == {SharedIds}
OwnOrSharedIds == {OwnIds, SharedIds}

(* Nothing tells the ratings apart, nor the two ids if their clients are    *)
(* swapped with them, which maps each of the assignments to itself.         *)
PoolSymmetry ==
    Permutations(MCRatings) \cup {a :> b @@ b :> a @@ c1 :> c2 @@ c2 :> c1}
=============================================================================
