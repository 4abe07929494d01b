----------------------------- MODULE MCMetrics -----------------------------
(* Metrics on a small instance.                                             *)
EXTENDS Metrics, TLC

CONSTANTS w1, w2, c1

MCWorkers == {w1, w2}
WorkerSymmetry == Permutations(MCWorkers)
MCClients == {c1}

(* An even match and an uneven one. *)
MCMatches == {[spread |-> 1, delta |-> 1, wait |-> 2], [spread |-> 3, delta |-> 2, wait |-> 0]}
=============================================================================
