----------------------------- MODULE Relaxation -----------------------------
(***************************************************************************)
(* The configuration's cross-field checks and the acceptable rating window  *)
(* as a function of the time a player has waited.                           *)
(*                                                                          *)
(*   src/config/mod.rs         Config, from_env's ranges, validate          *)
(*   src/engine/relaxation.rs  relaxation_stage, relaxation_window,         *)
(*                             scan_bounds                                  *)
(*                                                                          *)
(* A configuration is a record: ms[1..4] are relaxation_stage_1_ms to       *)
(* relaxation_stage_4_ms, delta[1..5] the deltas, tick is worker_tick_ms    *)
(* and stale is stale_claim_timeout_ms.  Times and ratings may be scaled.   *)
(***************************************************************************)
EXTENDS Integers

CONSTANTS
    MAX_SKILL_RATING,   \* 3000 in the code
    U32_MAX             \* the largest u32

ASSUME RatingAssumption ==
    MAX_SKILL_RATING \in Nat /\ U32_MAX \in Nat /\ MAX_SKILL_RATING <= U32_MAX

(* The types of the fields, with thresholds of at least 1 ms.  from_env     *)
(* caps every field (the deltas at 10_000); what holds for every u32 holds  *)
(* for those.                                                               *)
Config ==
    [ms : [1 .. 4 -> Nat \ {0}], delta : [1 .. 5 -> 0 .. U32_MAX],
     tick : Nat \ {0}, stale : Nat \ {0}]

(* Plausible bug: one of the checks on the deltas is missing. *)
ValidateWithoutLastDelta(config) ==
    /\ \A s \in 1 .. 3 : config.ms[s] < config.ms[s + 1]
    /\ \A s \in 1 .. 3 : config.delta[s] <= config.delta[s + 1]
    /\ config.stale > config.tick

(* Config::validate *)
Validate(config) ==
    /\ \A s \in 1 .. 3 : config.ms[s] < config.ms[s + 1]
    /\ \A s \in 1 .. 4 : config.delta[s] <= config.delta[s + 1]
    /\ config.stale > config.tick

(* The first threshold that the waiting time has not reached, or stage 5. *)
relaxation_stage(waited, config) ==
    IF waited < config.ms[1] THEN 1
    ELSE IF waited < config.ms[2] THEN 2
    ELSE IF waited < config.ms[3] THEN 3
    ELSE IF waited < config.ms[4] THEN 4
    ELSE 5

(* Plausible bug: the last comparison has no branch of its own. *)
relaxation_window_without_floor(waited, config) ==
    LET stage == relaxation_stage(waited, config) IN
    config.delta[IF stage = 5 THEN 4 ELSE stage]

(* The same comparisons select the half-width of the window. *)
relaxation_window(waited, config) ==
    config.delta[relaxation_stage(waited, config)]

saturating_sub(x, y) == IF y > x THEN 0 ELSE x - y
saturating_add(x, y) == IF x + y > U32_MAX THEN U32_MAX ELSE x + y

min_rating(rating, window) == saturating_sub(rating, window)

(* Plausible bug: the upper bound is the distance, not the rating. *)
max_rating_unclamped(rating, window) == saturating_add(rating, window)

max_rating(rating, window) ==
    LET r == saturating_add(rating, window) IN
    IF r > MAX_SKILL_RATING THEN MAX_SKILL_RATING ELSE r

(* scan_bounds: the inclusive bounds of the index scan. *)
scan_bounds(rating, waited, config) ==
    LET window == relaxation_window(waited, config) IN
    [min |-> min_rating(rating, window), max |-> max_rating(rating, window)]

(* The ratings that a player of this rating accepts after waiting so long. *)
Accepts(rating, waited, config) ==
    LET b == scan_bounds(rating, waited, config) IN b.min .. b.max
=============================================================================
