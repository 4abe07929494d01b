----------------------------- MODULE Scheduling -----------------------------
(***************************************************************************)
(* Who is matched with whom, and when: seed selection, the throughput       *)
(* guard, the capped candidate scan and the choice of the oldest            *)
(* candidates.                                                              *)
(*                                                                          *)
(*   src/engine/matcher.rs  attempt_match (its outcome), select_seed,       *)
(*                          WorkerState                                     *)
(*   src/engine/bucket.rs   oldest_waiting, oldest_waiting_excluding_range, *)
(*                          range_scan                                      *)
(*                                                                          *)
(* The module follows one worker, alone or among any number of others.  One *)
(* attempt is one step: the claims are exclusive (module Claiming).  What   *)
(* can happen between its reads and its claims is part of the attempt: a    *)
(* candidate is cancelled, or other workers hold some players CLAIMED for a *)
(* moment, which the attempt then passes over.  The queue is kept in join   *)
(* order and contains the players that are held for a moment; waiting times *)
(* count up to the last threshold, beyond which scan_bounds no longer       *)
(* changes.                                                                 *)
(***************************************************************************)
EXTENDS Relaxation, Sequences, FiniteSets, FiniteSetsExt

CONSTANTS
    Ids,                      \* player ids, ordered like their UUIDs
    Cases,                    \* the cases considered: configuration, ratings, other workers
    MATCH_SIZE,               \* 10 in the code
    MAX_CANDIDATES_PER_SCAN,  \* 200 in the code
    SEED_RETRY_LIMIT          \* 3 in the code; failures count up to here

ASSUME CasesAssumption ==
    \A x \in Cases :
        /\ x.config \in Config /\ Validate(x.config)
        /\ DOMAIN x.rating \subseteq Ids /\ x.rating \in [DOMAIN x.rating -> 0 .. MAX_SKILL_RATING]
        /\ x.alone \in BOOLEAN
ASSUME SchedulingAssumption ==
    /\ Ids \subseteq Nat \ {0}
    /\ MATCH_SIZE \in Nat \ {0, 1} /\ MAX_CANDIDATES_PER_SCAN \in Nat
    /\ MATCH_SIZE <= MAX_CANDIDATES_PER_SCAN
    /\ SEED_RETRY_LIMIT \in Nat \ {0}

VARIABLES
    config,           \* the Config, fixed at the start
    rating,           \* skill_rating of every id that may come, fixed at the start
    alone,            \* config.worker_count is 1
    queue,            \* the players of the pool, oldest first
    waited,           \* how long they have waited
    current_seed_id,  \* WorkerState.current_seed_id, 0 for None
    failures          \* WorkerState.consecutive_failures

case == <<config, rating, alone>>
vars == <<case, queue, waited, current_seed_id, failures>>

Queued == {queue[k] : k \in DOMAIN queue}

(* The queued players whose rating is within the scan bounds of i. *)
Window(i) ==
    UNION {{j \in Queued : b.min <= rating[j] /\ rating[j] <= b.max} :
              b \in {scan_bounds(rating[i], waited[i], config)}}

-----------------------------------------------------------------------------
(* PlayerPool::oldest_waiting_excluding_range, with the primary seed's range. *)
OutsideWindow(i) == Queued \ Window(i)

(* The members of S of which at most n - 1 are older: the n oldest. *)
OldestOf(n, S) ==
    {queue[k] : k \in {m \in DOMAIN queue :
        queue[m] \in S /\ Cardinality({l \in 1 .. m : queue[l] \in S}) <= n}}


(* Plausible bug: a guard without an alternate yields no seed at all. *)
GuardFiresWithoutFallback ==
    current_seed_id = queue[1] /\ failures >= SEED_RETRY_LIMIT

(* The throughput guard: the oldest player has failed too often as a seed,  *)
(* and there is a player outside its window.                                *)
GuardFires ==
    /\ current_seed_id = queue[1]
    /\ failures >= SEED_RETRY_LIMIT
    /\ OutsideWindow(queue[1]) # {}

(* The seed, a set of at most one player like the Option of the code: the   *)
(* oldest waiting player or, when the guard fires, the oldest one outside   *)
(* its window.                                                              *)
select_seed ==
    IF queue = <<>> THEN {}
    ELSE IF GuardFires THEN OldestOf(1, OutsideWindow(queue[1])) ELSE {queue[1]}

(* The index's order: (skill_rating, id). *)
IndexBefore(i, j) == rating[i] < rating[j] \/ (rating[i] = rating[j] /\ i < j)

(* PlayerPool::range_scan stops at MAX_CANDIDATES_PER_SCAN players of the   *)
(* seed's range, in index order.                                            *)
range_scan(inRange) ==
    UNION {{j \in S : Cardinality({i \in S : IndexBefore(i, j)}) < MAX_CANDIDATES_PER_SCAN} :
              S \in {inRange}}

-----------------------------------------------------------------------------
Init ==
    /\ \E x \in Cases : config = x.config /\ rating = x.rating /\ alone = x.alone
    /\ queue = <<>>
    /\ waited = [i \in Ids |-> 0]
    /\ current_seed_id = 0
    /\ failures = 0

(* A player that is not queued joins. *)
Enqueue(i) ==
    /\ i \in DOMAIN rating \ Queued
    /\ queue' = Append(queue, i)
    /\ UNCHANGED <<case, waited, current_seed_id, failures>>

(* The players of S leave the queue; their ids may join again. *)
Leave(S) ==
    /\ queue' = SelectSeq(queue, LAMBDA i : i \notin S)
    /\ waited' = [i \in Ids |-> IF i \in S THEN 0 ELSE waited[i]]
    /\ UNCHANGED case

Cancel(i) ==
    /\ i \in Queued
    /\ Leave({i})
    /\ UNCHANGED <<current_seed_id, failures>>

(* Plausible bug: every failure looks like the first one. *)
record_failure_forgetful(i) == current_seed_id' = i /\ failures' = 1

(* WorkerState::record_failure *)
record_failure(i) ==
    /\ current_seed_id' = i
    /\ failures' = IF current_seed_id = i THEN Min({failures + 1, SEED_RETRY_LIMIT}) ELSE 1

(* attempt_match succeeds: range_scan sorts the candidates by age and the   *)
(* claim loop takes the first MATCH_SIZE that are not gone;                 *)
(* WorkerState::reset.                                                      *)
AttemptSucceeds(candidates, gone) ==
    /\ Cardinality(candidates \ gone) >= MATCH_SIZE
    /\ \E S \in {OldestOf(MATCH_SIZE, candidates \ gone)} : Leave(S \cup gone)
    /\ current_seed_id' = 0
    /\ failures' = 0

(* attempt_match returns InsufficientCandidates. *)
AttemptInsufficient(s, candidates) ==
    /\ Cardinality(candidates) < MATCH_SIZE
    /\ record_failure(s)
    /\ UNCHANGED <<case, queue, waited>>

(* attempt_match returns ClaimFailed: the candidates were enough until some *)
(* of them were gone.                                                       *)
AttemptClaimFailed(s, candidates, gone) ==
    /\ Cardinality(candidates) >= MATCH_SIZE
    /\ Cardinality(candidates \ gone) < MATCH_SIZE
    /\ record_failure(s)
    /\ Leave(gone)

(* One unit of time passes for every queued player. *)
Tick ==
    /\ \E i \in Queued : waited[i] < config.ms[4]
    /\ waited' = [i \in Ids |-> IF i \in Queued /\ waited[i] < config.ms[4]
                                THEN waited[i] + 1 ELSE waited[i]]
    /\ UNCHANGED <<case, queue, current_seed_id, failures>>

(* An attempt that nobody disturbs: the outcome is decided by the queue. *)
Attempt ==
    \E s \in select_seed : \E candidates \in {range_scan(Window(s))} :
        AttemptSucceeds(candidates, {}) \/ AttemptInsufficient(s, candidates)

(* A candidate, the seed perhaps, is cancelled between the scan and its     *)
(* claim.  Bound: one candidate of an attempt.                              *)
AttemptOvertaken ==
    \E s \in select_seed : \E candidates \in {range_scan(Window(s))} :
        \E i \in candidates :
            AttemptSucceeds(candidates, {i}) \/ AttemptClaimFailed(s, candidates, {i})

(* Matches that a worker can form while other workers hold some players     *)
(* CLAIMED, to match them or to roll them back: oldest_waiting skips the    *)
(* held ones, so that any queued player may be the oldest one it sees, and  *)
(* so do the scan and the claim loop.                                       *)
ContendedMatches == UNION {kSubset(MATCH_SIZE, Window(s)) : s \in Queued}

(* The attempt claims MATCH_SIZE players around those that are held, or     *)
(* fails, InsufficientCandidates or ClaimFailed.  Players that are rolled   *)
(* back have never left the queue.                                          *)
AttemptContended ==
    /\ ~alone
    /\ \/ /\ current_seed_id' = 0 /\ failures' = 0
          /\ \E free \in ContendedMatches : Leave(free)
       \/ /\ \E s \in Queued : record_failure(s)
          /\ UNCHANGED <<case, queue, waited>>

(* Another worker forms a match; it may pass over players that are held. *)
OthersMatch ==
    /\ ~alone
    /\ \E free \in ContendedMatches : Leave(free)
    /\ UNCHANGED <<current_seed_id, failures>>

Next ==
    \/ \E i \in Ids : Enqueue(i) \/ Cancel(i)
    \/ Attempt \/ AttemptOvertaken \/ AttemptContended \/ OthersMatch
    \/ Tick

(* The worker is woken by its interval tick, so it keeps attempting, and    *)
(* not every attempt is disturbed; time passes.  No player is obliged to    *)
(* come or to leave.                                                        *)
Fairness == WF_vars(Attempt) /\ WF_vars(Tick)

Spec == Init /\ [][Next]_vars /\ Fairness

-----------------------------------------------------------------------------
SchedulingTypeOK ==
    /\ [config |-> config, rating |-> rating, alone |-> alone] \in Cases
    /\ queue \in Seq(Ids)
    /\ waited \in [Ids -> 0 .. config.ms[4]]
    /\ current_seed_id \in Ids \cup {0}
    /\ failures \in 0 .. SEED_RETRY_LIMIT

(* The players that leave in this step, and whether it forms a match: with  *)
(* at most one cancel per step, more than one player leaves by a match only.*)
Leaving == Queued \ Queued'
MatchFormed == Cardinality(Leaving) >= MATCH_SIZE

(* A player is not left behind: once there are enough players for a match,  *)
(* each of them is matched or cancelled, unless the queue runs short first  *)
(* (README.md:20 and 240), if the window of stage 5 covers every rating.    *)
NoStarvation ==
    \A i \in Ids :
        (i \in Queued /\ Len(queue) >= MATCH_SIZE /\ config.delta[5] >= MAX_SKILL_RATING)
            ~> (i \notin Queued \/ Len(queue) < MATCH_SIZE)


(* The throughput guard keeps one unsatisfiable player from blocking the    *)
(* others (matcher.rs:146-147): MATCH_SIZE players of one rating do not     *)
(* wait together forever behind a seed nobody matches.                      *)
GuardUnblocks ==
    \A S \in SUBSET Ids :
        Cardinality(S) = MATCH_SIZE =>
            ((S \subseteq Queued /\ \A i, j \in S : rating[i] = rating[j])
                ~> ~(S \subseteq Queued))
=============================================================================
