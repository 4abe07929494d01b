---------------------------- MODULE MCWorkerLoop ----------------------------
(* WorkerLoop on a small instance.                                          *)
EXTENDS WorkerLoop

CONSTANT c1

OneClient == {c1}
=============================================================================
