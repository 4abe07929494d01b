----------------------------- MODULE MCClaiming -----------------------------
(* Claiming on small instances: model values for the workers, the ranks     *)
(* 1..n for the players.                                                    *)
EXTENDS Claiming, TLC

CONSTANTS w1, w2

MCWorkers == {w1, w2}
ThreePlayers == 1 .. 3
TwoPlayers == 1 .. 2

(* The workers run the same code; only safety runs use the symmetry. *)
WorkerSymmetry == Permutations(MCWorkers)
=============================================================================
