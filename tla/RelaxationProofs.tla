-------------------------- MODULE RelaxationProofs --------------------------
(***************************************************************************)
(* The window properties for every configuration that validate accepts,     *)
(* every rating and every waiting time.                                     *)
(***************************************************************************)
EXTENDS WaitingPlayer, TLAPS

(* There are five stages. *)
LEMMA StageRange ==
    ASSUME NEW c \in Config, NEW t \in Nat
    PROVE  relaxation_stage(t, c) \in 1 .. 5
  BY DEF relaxation_stage

(* A longer wait never goes back to an earlier stage. *)
LEMMA StageMonotone ==
    ASSUME NEW c \in Config, Validate(c), NEW s \in Nat, NEW t \in Nat, s <= t
    PROVE  relaxation_stage(s, c) <= relaxation_stage(t, c)
<1>1. /\ c.ms[1] \in Nat /\ c.ms[2] \in Nat /\ c.ms[3] \in Nat /\ c.ms[4] \in Nat
      /\ c.ms[1] < c.ms[2] /\ c.ms[2] < c.ms[3] /\ c.ms[3] < c.ms[4]
  BY DEF Config, Validate
<1> QED
  BY <1>1 DEF relaxation_stage

(* validate's checks on neighbouring deltas order all five of them. *)
LEMMA DeltasOrdered ==
    ASSUME NEW c \in Config, Validate(c), NEW i \in 1 .. 5, NEW j \in 1 .. 5,
           i <= j
    PROVE  c.delta[i] <= c.delta[j]
<1>1. \A k \in 1 .. 5 : c.delta[k] \in Nat
  BY RatingAssumption DEF Config
<1>2. /\ c.delta[1] <= c.delta[2] /\ c.delta[2] <= c.delta[3]
      /\ c.delta[3] <= c.delta[4] /\ c.delta[4] <= c.delta[5]
  BY DEF Validate
<1> QED
  BY <1>1, <1>2

(* A longer wait has a window at least as wide. *)
LEMMA WindowMonotone ==
    ASSUME NEW c \in Config, Validate(c), NEW s \in Nat, NEW t \in Nat, s <= t
    PROVE  /\ relaxation_window(s, c) \in Nat
           /\ relaxation_window(t, c) \in Nat
           /\ relaxation_window(s, c) <= relaxation_window(t, c)
<1>1. relaxation_stage(s, c) \in 1 .. 5 /\ relaxation_stage(t, c) \in 1 .. 5
  BY StageRange
<1>2. relaxation_stage(s, c) <= relaxation_stage(t, c)
  BY StageMonotone
<1>3. \A k \in 1 .. 5 : c.delta[k] \in Nat
  BY RatingAssumption DEF Config
<1> QED
  BY <1>1, <1>2, <1>3, DeltasOrdered DEF relaxation_window

(* The bounds of a window are in range and contain the player's rating. *)
LEMMA BoundsInRange ==
    ASSUME NEW r \in 0 .. MAX_SKILL_RATING, NEW w \in Nat
    PROVE  /\ min_rating(r, w) \in Nat /\ max_rating(r, w) \in Nat
           /\ min_rating(r, w) <= r /\ r <= max_rating(r, w)
           /\ max_rating(r, w) <= MAX_SKILL_RATING
  BY RatingAssumption
     DEF min_rating, max_rating, saturating_sub, saturating_add

(* A wider window has wider bounds. *)
LEMMA BoundsMonotone ==
    ASSUME NEW r \in 0 .. MAX_SKILL_RATING, NEW v \in Nat, NEW w \in Nat, v <= w
    PROVE  min_rating(r, w) <= min_rating(r, v) /\ max_rating(r, v) <= max_rating(r, w)
  BY RatingAssumption
     DEF min_rating, max_rating, saturating_sub, saturating_add

-----------------------------------------------------------------------------
(* The type invariant; the configuration stays the validated one. *)
LEMMA WaitingType == Spec => []WaitingTypeOK
<1>1. Init => WaitingTypeOK
  BY WaitAssumption DEF Init, WaitingTypeOK
<1>2. WaitingTypeOK /\ [Wait]_vars => WaitingTypeOK'
  BY DEF WaitingTypeOK, Wait, vars
<1> QED
  BY <1>1, <1>2, PTL DEF Spec

(* Whatever the valid configuration, the window contains the player's own   *)
(* rating and lies inside the accepted ratings.                             *)
THEOREM SeedAlwaysInWindow == Spec => []SeedInWindow
<1>1. WaitingTypeOK => SeedInWindow
  <2> SUFFICES ASSUME WaitingTypeOK PROVE SeedInWindow
    OBVIOUS
  <2>1. relaxation_window(waited, config) \in Nat
    BY WindowMonotone DEF WaitingTypeOK
  <2> QED
    BY <2>1, BoundsInRange DEF WaitingTypeOK, SeedInWindow, scan_bounds
<1> QED
  BY <1>1, WaitingType, PTL

(* Whatever the valid configuration, the window never narrows. *)
THEOREM RelaxationMonotone == Spec => WindowNeverNarrows
<1>1. WaitingTypeOK /\ [Wait]_vars =>
        [Accepts(rating, waited, config)
            \subseteq Accepts(rating, waited, config)']_vars
  <2> SUFFICES ASSUME WaitingTypeOK, Wait
               PROVE  Accepts(rating, waited, config)
                        \subseteq Accepts(rating, waited, config)'
    OBVIOUS
  <2> DEFINE v == relaxation_window(waited, config)
             w == relaxation_window(waited + 1, config)
  <2>1. v \in Nat /\ w \in Nat /\ v <= w
    <3>1. waited \in Nat /\ waited + 1 \in Nat /\ waited <= waited + 1
      BY DEF WaitingTypeOK
    <3> QED
      BY <3>1, WindowMonotone DEF WaitingTypeOK
  <2>2. min_rating(rating, w) <= min_rating(rating, v) /\ max_rating(rating, v) <= max_rating(rating, w)
    BY <2>1, BoundsMonotone DEF WaitingTypeOK
  <2>3. /\ min_rating(rating, v) \in Nat /\ max_rating(rating, v) \in Nat
        /\ min_rating(rating, w) \in Nat /\ max_rating(rating, w) \in Nat
    BY <2>1, BoundsInRange DEF WaitingTypeOK
  <2>4. Accepts(rating, waited, config)
           = min_rating(rating, v) .. max_rating(rating, v)
    BY DEF Accepts, scan_bounds
  <2>5. Accepts(rating, waited, config)'
           = min_rating(rating, w) .. max_rating(rating, w)
    BY DEF Wait, Accepts, scan_bounds, relaxation_window, relaxation_stage,
           min_rating, max_rating
  <2> HIDE DEF v, w
  <2> QED
    BY <2>2, <2>3, <2>4, <2>5
<1> QED
  BY <1>1, WaitingType, PTL DEF Spec, WindowNeverNarrows

(* The starvation floor holds under every valid configuration whose stage 5 *)
(* delta covers the whole range of ratings.                                 *)
THEOREM FloorNeedsFullDelta == Spec => []StarvationFloor
<1>1. WaitingTypeOK => StarvationFloor
  <2> SUFFICES ASSUME WaitingTypeOK, config.delta[5] >= MAX_SKILL_RATING,
                      waited >= config.ms[4]
               PROVE  Accepts(rating, waited, config) = 0 .. MAX_SKILL_RATING
    BY DEF StarvationFloor
  <2> DEFINE d == config.delta[5]
  <2>1. d \in Nat /\ rating \in Nat /\ rating <= MAX_SKILL_RATING /\ d >= MAX_SKILL_RATING
    BY RatingAssumption DEF WaitingTypeOK, Config
  <2>2. min_rating(rating, d) = 0 /\ max_rating(rating, d) = MAX_SKILL_RATING
    <3> HIDE DEF d
    <3> QED
      BY <2>1, RatingAssumption
         DEF min_rating, max_rating, saturating_sub, saturating_add
  <2>3. relaxation_stage(waited, config) = 5
    <3>1. \A s \in 1 .. 4 : config.ms[s] \in Nat
      BY DEF WaitingTypeOK, Config
    <3>2. config.ms[1] < config.ms[1 + 1] /\ config.ms[2] < config.ms[2 + 1]
            /\ config.ms[3] < config.ms[3 + 1]
      BY DEF WaitingTypeOK, Validate
    <3> QED
      BY <3>1, <3>2 DEF relaxation_stage, WaitingTypeOK
  <2> QED
    BY <2>2, <2>3 DEF Accepts, scan_bounds, relaxation_window
<1> QED
  BY <1>1, WaitingType, PTL

=============================================================================
