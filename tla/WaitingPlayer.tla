--------------------------- MODULE WaitingPlayer ----------------------------
(***************************************************************************)
(* One player waits in the queue under a configuration that from_env has    *)
(* accepted; scan_bounds is evaluated afresh on every scan, never cached    *)
(* (src/engine/relaxation.rs, README.md:236).                               *)
(***************************************************************************)
EXTENDS Relaxation

CONSTANTS
    Configs,     \* the configurations considered
    MaxWait      \* bound: the longest wait considered

ASSUME WaitAssumption == Configs \subseteq Config /\ MaxWait \in Nat

VARIABLES
    config,      \* the service's Config
    rating,      \* the player's skill_rating
    waited       \* join_timestamp.elapsed()

vars == <<config, rating, waited>>

(* validate accepted the configuration, enqueue the rating. *)
Init ==
    /\ config \in {c \in Configs : Validate(c)}
    /\ rating \in 0 .. MAX_SKILL_RATING
    /\ waited = 0

(* Time passes; Instant is monotonic. *)
Wait ==
    /\ waited < MaxWait
    /\ waited' = waited + 1
    /\ UNCHANGED <<config, rating>>

Spec == Init /\ [][Wait]_vars

(* The configuration stays valid, the rating in range. *)
WaitingTypeOK ==
    /\ config \in Config /\ Validate(config)
    /\ rating \in 0 .. MAX_SKILL_RATING
    /\ waited \in Nat

(* The window contains the player itself, so that a seed is a candidate of  *)
(* its own scan, and it stays inside the accepted ratings.                  *)
SeedInWindow ==
    LET b == scan_bounds(rating, waited, config) IN
    0 <= b.min /\ b.min <= rating /\ rating <= b.max /\ b.max <= MAX_SKILL_RATING

(* The window never narrows while the player waits                          *)
(* (relaxation.rs:24-28): a rating once acceptable stays acceptable.        *)
WindowNeverNarrows ==
    [][Accepts(rating, waited, config)
          \subseteq Accepts(rating, waited, config)']_vars

(* "Match at any cost" (relaxation.rs:18, README.md:240): past the last     *)
(* threshold every rating is acceptable.  validate does not enforce the     *)
(* premise, that the last delta covers the range; the default, 9999, does.  *)
StarvationFloor ==
    config.delta[5] >= MAX_SKILL_RATING /\ waited >= config.ms[4] =>
        Accepts(rating, waited, config) = 0 .. MAX_SKILL_RATING
=============================================================================
