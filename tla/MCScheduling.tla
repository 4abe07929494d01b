---------------------------- MODULE MCScheduling ----------------------------
(* Scheduling on small instances: matches of two, ratings and times scaled  *)
(* down to a few units.                                                     *)
EXTENDS Scheduling

(* One player at the top, every other one at the bottom; or the reverse. *)
OneHigh(ids) == [i \in ids |-> IF i = 1 THEN MAX_SKILL_RATING ELSE 0]
OneLow(ids) == [i \in ids |-> IF i = 1 THEN 0 ELSE MAX_SKILL_RATING]

(* The default configuration in miniature: stage 5 covers every rating. *)
CoveringConfig ==
    [ms |-> [s \in 1 .. 4 |-> s], delta |-> [s \in 1 .. 5 |-> IF s < 5 THEN 0 ELSE 3],
     tick |-> 1, stale |-> 2]

(* A valid configuration whose last window is still narrow. *)
NarrowConfig ==
    [ms |-> [s \in 1 .. 4 |-> s], delta |-> [s \in 1 .. 5 |-> 0],
     tick |-> 1, stale |-> 2]

(* Several workers under the default configuration, and one worker whose    *)
(* seed may never find anybody.                                             *)
FairCases ==
    {[config |-> CoveringConfig, rating |-> OneHigh(Ids), alone |-> FALSE],
     [config |-> NarrowConfig, rating |-> OneHigh(1 .. 3), alone |-> TRUE],
     [config |-> NarrowConfig, rating |-> OneLow(1 .. 3), alone |-> TRUE]}

CapCases == {[config |-> CoveringConfig, rating |-> OneHigh(Ids), alone |-> TRUE]}
=============================================================================
