------------------------------ MODULE Balancer ------------------------------
(***************************************************************************)
(* exhaustive_balance (src/engine/balancer.rs): the search over all bit     *)
(* masks for the split of a match into two teams of least rating difference.*)
(* One step is one iteration of the loop.  Player i of the code's slice is  *)
(* ratings[i]; a mask is a number whose bit i puts player i in team A.      *)
(***************************************************************************)
EXTENDS Integers, FiniteSets, FiniteSetsExt

CONSTANTS
    MATCH_SIZE,         \* 10 in the code
    TEAM_SIZE,          \* 5 in the code
    MAX_SKILL_RATING,   \* ratings are scaled down to 0 .. MAX_SKILL_RATING
    U32_MAX             \* the initial best_delta

ASSUME TeamsAssumption ==
    /\ TEAM_SIZE \in Nat \ {0} /\ MATCH_SIZE = 2 * TEAM_SIZE
    /\ MAX_SKILL_RATING \in Nat /\ U32_MAX \in Nat
    /\ MATCH_SIZE * MAX_SKILL_RATING < U32_MAX

VARIABLES
    ratings,       \* the local array `ratings`
    mask,          \* the loop variable
    best_mask,
    best_delta,
    best_a_sum

vars == <<ratings, mask, best_mask, best_delta, best_a_sum>>

Indices == 0 .. MATCH_SIZE - 1

(* The players that a mask puts in team A. *)
TeamOf(m) == {i \in Indices : (m \div 2^i) % 2 = 1}

(* Every mask of the loop with count_ones() = TEAM_SIZE. *)
Splits == {m \in 0 .. 2^MATCH_SIZE - 1 : Cardinality(TeamOf(m)) = TEAM_SIZE}

Sum(rs, team) == MapThenSumSet(LAMBDA i : rs[i], team)

(* (2 * a_sum).abs_diff(total_sum) *)
Delta(rs, m) ==
    LET d == 2 * Sum(rs, TeamOf(m)) - Sum(rs, Indices) IN IF d < 0 THEN -d ELSE d

-----------------------------------------------------------------------------
(* The players are the first MATCH_SIZE claimed, in the order of their age. *)
Init ==
    /\ ratings \in [Indices -> 0 .. MAX_SKILL_RATING]
    /\ mask = 0
    /\ best_mask = 0
    /\ best_delta = U32_MAX
    /\ best_a_sum = 0

(* Plausible bug: the last of the equally good splits is kept. *)
BetterOrEqual(delta, a_sum) ==
    delta < best_delta \/ (delta = best_delta /\ a_sum >= best_a_sum)

(* Plausible bug: the tie-break alone is enough to replace the best split. *)
BetterEither(delta, a_sum) == delta < best_delta \/ a_sum > best_a_sum

(* A strictly smaller difference or, at the same one, a stronger team A. *)
Better(delta, a_sum) ==
    delta < best_delta \/ (delta = best_delta /\ a_sum > best_a_sum)

(* One iteration; a mask of another size is skipped. *)
Iterate ==
    /\ mask < 2^MATCH_SIZE
    /\ mask' = mask + 1
    /\ IF mask \in Splits /\ Better(Delta(ratings, mask), Sum(ratings, TeamOf(mask)))
       THEN /\ best_delta' = Delta(ratings, mask)
            /\ best_a_sum' = Sum(ratings, TeamOf(mask))
            /\ best_mask' = mask
       ELSE UNCHANGED <<best_mask, best_delta, best_a_sum>>
    /\ UNCHANGED ratings

Spec == Init /\ [][Iterate]_vars

(* The loop is over; team A and team B are read off best_mask. *)
Done == mask = 2^MATCH_SIZE
team_a == TeamOf(best_mask)
team_b == Indices \ team_a

-----------------------------------------------------------------------------
(* The guarantees of balancer.rs:79-85: two full teams and the least        *)
(* difference over all splits, which is the difference of these two teams.  *)
Optimal ==
    Done =>
        /\ Cardinality(team_a) = TEAM_SIZE /\ Cardinality(team_b) = TEAM_SIZE
        /\ best_delta = Delta(ratings, best_mask)
        /\ \A m \in Splits : best_delta <= Delta(ratings, m)

(* What the condition of the loop selects (balancer.rs:126-129), without    *)
(* the loop: of the splits of least difference those with the strongest     *)
(* team A, and of these, since both comparisons are strict, the lowest mask.*)
(* The difference and team A's sum do not depend on the order of the slice; *)
(* the lowest mask does, and with it who is in which team.                  *)
BestSplits(rs) ==
    {m \in Splits : \A n \in Splits :
        \/ Delta(rs, m) < Delta(rs, n)
        \/ Delta(rs, m) = Delta(rs, n) /\ Sum(rs, TeamOf(m)) >= Sum(rs, TeamOf(n))}

FirstBest(rs) == Min(BestSplits(rs))

(* The loop with its running best and its tie-break computes exactly that   *)
(* for the slice in the order in which it is given, and team A is never the *)
(* weaker one.  It is not the order-independence that balancer.rs:37-39     *)
(* speaks of: players of a tie change teams when the slice is reordered.    *)
LoopFindsFirstBest ==
    Done => /\ best_mask = FirstBest(ratings)
            /\ Sum(ratings, team_a) >= Sum(ratings, team_b)
=============================================================================
