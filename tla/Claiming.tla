------------------------------ MODULE Claiming ------------------------------
(***************************************************************************)
(* The claim protocol: how several workers and the Reaper share the atomic  *)
(* fields of the queued players.                                            *)
(*                                                                          *)
(*   src/models/mod.rs      Player: try_claim, release_claim, mark_matched, *)
(*                          try_evict                                       *)
(*   src/engine/matcher.rs  attempt_match, phases 2 to 5                    *)
(*   src/workers/mod.rs     run_reaper, reaper_tick                         *)
(*                                                                          *)
(* Every atomic load, store and compare_exchange on a shared field is a     *)
(* step of its own; the stores that accompany a CAS are separate steps in   *)
(* the order the code issues them.  A player is named by its rank in the    *)
(* order (join_timestamp, skill_rating, id) in which range_scan sorts the   *)
(* candidates and in which every worker therefore claims them.  The pool is *)
(* the primary map only; its rating index is the subject of PlayerPool.     *)
(***************************************************************************)
EXTENDS Integers, Sequences, FiniteSets

CONSTANTS
    Players,        \* the Player objects that are in the queue at the start
    Workers,        \* the worker tasks, ids 1..worker_count (never 0)
    MATCH_SIZE,     \* players per match (10 in the code)
    StaleTimeout,   \* config.stale_claim_timeout_ms, in clock units
    AttemptLimit,   \* the longest time an attempt_match call is in flight
    MaxCrashes,     \* bound: worker panics in one behaviour
    MaxTime         \* bound: last value of the clock

ASSUME PlayersAssumption ==
    Players \subseteq Nat /\ IsFiniteSet(Players) /\ Players # {}
ASSUME WorkersAssumption == 0 \notin Workers
ASSUME SizeAssumption == MATCH_SIZE \in Nat \ {0}
ASSUME TimeAssumption == /\ StaleTimeout \in Nat \ {0}
                         /\ AttemptLimit \in Nat \ {0}
                         /\ MaxCrashes \in Nat
                         /\ MaxTime \in Nat \ {0}

WAITING == "waiting"
CLAIMED == "claimed"
MATCHED == "matched"
EVICTED == "evicted"

VARIABLES
    state,            \* Player.state
    claimed_by,       \* Player.claimed_by, 0 for none
    claim_timestamp,  \* Player.claim_timestamp, 0 for none
    pool,             \* keys of PlayerPool.primary
    now,              \* the wall clock that unix_ms() reads
    pc,               \* where each worker is in attempt_match
    todo,             \* the players the worker's current loop has still to visit
    claimed,          \* attempt_match's local vector `claimed`
    now_ms,           \* attempt_match's local `now_ms`, 0 outside it
    matches,          \* the matches formed, in the order of their push_back
    crashes,          \* number of worker panics so far
    rpc,              \* where the Reaper is in reaper_tick
    r_todo,           \* reaper_tick: players of the snapshot still to visit
    r_cur,            \* reaper_tick: the player under examination
    r_now             \* reaper_tick: its local `now_ms`, 0 outside it

playerVars == <<state, claimed_by, claim_timestamp>>
workerVars == <<pc, todo, claimed, now_ms>>
reaperVars == <<rpc, r_todo, r_cur, r_now>>
vars == <<playerVars, pool, now, workerVars, matches, crashes, reaperVars>>

WorkerPCs == {"idle", "claim", "claim_by", "claim_ts",
              "release", "release_ts", "release_cas",
              "mark", "remove", "dead"}
ReaperPCs == {"sleep", "scan", "ts", "cas", "clear_by", "clear_ts"}

(* p is the next player of a loop that visits S in candidate order. *)
First(p, S) == p \in S /\ \A q \in S : p <= q

(* The value of r_cur between two players, when it means nothing. *)
NoOne == CHOOSE p \in Players : TRUE

-----------------------------------------------------------------------------
(* Every player has just been queued by Player::new; the clock is past 0, so *)
(* a real timestamp is never the sentinel 0.                                 *)
Init ==
    /\ state = [p \in Players |-> WAITING]
    /\ claimed_by = [p \in Players |-> 0]
    /\ claim_timestamp = [p \in Players |-> 0]
    /\ pool = Players
    /\ now = 1
    /\ pc = [w \in Workers |-> "idle"]
    /\ todo = [w \in Workers |-> {}]
    /\ claimed = [w \in Workers |-> {}]
    /\ now_ms = [w \in Workers |-> 0]
    /\ matches = <<>>
    /\ crashes = 0
    /\ rpc = "sleep"
    /\ r_todo = {}
    /\ r_cur = NoOne
    /\ r_now = 0

-----------------------------------------------------------------------------
(* attempt_match.                                                           *)

(* Bound: no attempt starts so late that a claim of it could not become     *)
(* stale before the clock stops.                                            *)
StartHorizon == now + StaleTimeout < MaxTime

(* Phase 2 and the start of phase 3: range_scan returns players of some     *)
(* rating window, and the clock is read once for all the claims.  Each      *)
(* candidate was WAITING when the scan loaded its state; by now any of them *)
(* may be in any state, which the claims will find out.  An attempt with    *)
(* too few candidates returns and leaves the players alone.                 *)
StartAttempt(w) ==
    /\ pc[w] = "idle"
    /\ StartHorizon
    /\ \E candidates \in SUBSET Players :
          /\ Cardinality(candidates) >= MATCH_SIZE
          /\ todo' = [todo EXCEPT ![w] = candidates]
    /\ claimed' = [claimed EXCEPT ![w] = {}]
    /\ now_ms' = [now_ms EXCEPT ![w] = now]
    /\ pc' = [pc EXCEPT ![w] = "claim"]
    /\ UNCHANGED <<playerVars, pool, now, matches, crashes, reaperVars>>

(* Plausible bug: the claim is a load and a store, not a CAS. *)
ClaimCandidateStore(w) ==
    /\ pc[w] = "claim"
    /\ Cardinality(claimed[w]) < MATCH_SIZE
    /\ \E p \in todo[w] :
          /\ First(p, todo[w])
          /\ state' = [state EXCEPT ![p] = CLAIMED]
          /\ claimed' = [claimed EXCEPT ![w] = @ \cup {p}]
    /\ pc' = [pc EXCEPT ![w] = "claim_by"]
    /\ UNCHANGED <<claimed_by, claim_timestamp, pool, now, todo, now_ms,
                   matches, crashes, reaperVars>>

(* Player::try_claim, its CAS succeeds. *)
ClaimCandidate(w) ==
    /\ pc[w] = "claim"
    /\ Cardinality(claimed[w]) < MATCH_SIZE
    /\ \E p \in todo[w] :
          /\ First(p, todo[w])
          /\ state[p] = WAITING
          /\ state' = [state EXCEPT ![p] = CLAIMED]
          /\ claimed' = [claimed EXCEPT ![w] = @ \cup {p}]
    /\ pc' = [pc EXCEPT ![w] = "claim_by"]
    /\ UNCHANGED <<claimed_by, claim_timestamp, pool, now, todo, now_ms,
                   matches, crashes, reaperVars>>

(* Plausible bug: the claim loop ignores what try_claim returns. *)
SkipCandidateKept(w) ==
    /\ pc[w] = "claim"
    /\ Cardinality(claimed[w]) < MATCH_SIZE
    /\ \E p \in todo[w] :
          /\ First(p, todo[w])
          /\ state[p] # WAITING
          /\ todo' = [todo EXCEPT ![w] = @ \ {p}]
          /\ claimed' = [claimed EXCEPT ![w] = @ \cup {p}]
    /\ UNCHANGED <<playerVars, pool, now, pc, now_ms,
                   matches, crashes, reaperVars>>

(* Player::try_claim, its CAS fails: the candidate is no longer WAITING. *)
SkipCandidate(w) ==
    /\ pc[w] = "claim"
    /\ Cardinality(claimed[w]) < MATCH_SIZE
    /\ \E p \in todo[w] :
          /\ First(p, todo[w])
          /\ state[p] # WAITING
          /\ todo' = [todo EXCEPT ![w] = @ \ {p}]
    /\ UNCHANGED <<playerVars, pool, now, pc, claimed, now_ms,
                   matches, crashes, reaperVars>>

(* Player::try_claim, claimed_by.store(worker_id). *)
StoreClaimedBy(w) ==
    /\ pc[w] = "claim_by"
    /\ \E p \in todo[w] :
          /\ First(p, todo[w])
          /\ claimed_by' = [claimed_by EXCEPT ![p] = w]
    /\ pc' = [pc EXCEPT ![w] = "claim_ts"]
    /\ UNCHANGED <<state, claim_timestamp, pool, now, todo, claimed, now_ms,
                   matches, crashes, reaperVars>>

(* Player::try_claim, claim_timestamp.store(now_ms); the loop moves on. *)
StoreClaimTimestamp(w) ==
    /\ pc[w] = "claim_ts"
    /\ \E p \in todo[w] :
          /\ First(p, todo[w])
          /\ claim_timestamp' = [claim_timestamp EXCEPT ![p] = now_ms[w]]
          /\ todo' = [todo EXCEPT ![w] = @ \ {p}]
    /\ pc' = [pc EXCEPT ![w] = "claim"]
    /\ UNCHANGED <<state, claimed_by, pool, now, claimed, now_ms,
                   matches, crashes, reaperVars>>

(* The claim loop ends with MATCH_SIZE players: phase 4 balances them, a    *)
(* computation on immutable ratings (module Balancer), and phase 5 begins.  *)
ClaimsComplete(w) ==
    /\ pc[w] = "claim"
    /\ Cardinality(claimed[w]) = MATCH_SIZE
    /\ pc' = [pc EXCEPT ![w] = "mark"]
    /\ todo' = [todo EXCEPT ![w] = claimed[w]]
    /\ UNCHANGED <<playerVars, pool, now, claimed, now_ms,
                   matches, crashes, reaperVars>>

(* The candidates are used up: every claim is rolled back. *)
ClaimsFailed(w) ==
    /\ pc[w] = "claim"
    /\ Cardinality(claimed[w]) < MATCH_SIZE
    /\ todo[w] = {}
    /\ pc' = [pc EXCEPT ![w] = "release"]
    /\ todo' = [todo EXCEPT ![w] = claimed[w]]
    /\ UNCHANGED <<playerVars, pool, now, claimed, now_ms,
                   matches, crashes, reaperVars>>

(* Player::release_claim, claimed_by.store(0). *)
ReleaseClaimedBy(w) ==
    /\ pc[w] = "release"
    /\ \E p \in todo[w] :
          /\ First(p, todo[w])
          /\ claimed_by' = [claimed_by EXCEPT ![p] = 0]
    /\ pc' = [pc EXCEPT ![w] = "release_ts"]
    /\ UNCHANGED <<state, claim_timestamp, pool, now, todo, claimed, now_ms,
                   matches, crashes, reaperVars>>

(* Plausible bug: the rollback forgets the timestamp. *)
ReleaseKeepsTimestamp(w) ==
    /\ pc[w] = "release_ts"
    /\ pc' = [pc EXCEPT ![w] = "release_cas"]
    /\ UNCHANGED <<playerVars, pool, now, todo, claimed, now_ms,
                   matches, crashes, reaperVars>>

(* Player::release_claim, claim_timestamp.store(0). *)
ReleaseTimestamp(w) ==
    /\ pc[w] = "release_ts"
    /\ \E p \in todo[w] :
          /\ First(p, todo[w])
          /\ claim_timestamp' = [claim_timestamp EXCEPT ![p] = 0]
    /\ pc' = [pc EXCEPT ![w] = "release_cas"]
    /\ UNCHANGED <<state, claimed_by, pool, now, todo, claimed, now_ms,
                   matches, crashes, reaperVars>>

(* Plausible bug: the rollback clears the claim fields and not the state. *)
ReleaseKeepsState(w) ==
    /\ pc[w] = "release_cas"
    /\ \E p \in todo[w] :
          /\ First(p, todo[w])
          /\ todo' = [todo EXCEPT ![w] = @ \ {p}]
    /\ pc' = [pc EXCEPT ![w] = "release"]
    /\ UNCHANGED <<playerVars, pool, now, claimed, now_ms,
                   matches, crashes, reaperVars>>

(* Player::release_claim, the CAS, whose failure is ignored. *)
ReleaseCAS(w) ==
    /\ pc[w] = "release_cas"
    /\ \E p \in todo[w] :
          /\ First(p, todo[w])
          /\ state' = [state EXCEPT ![p] = IF @ = CLAIMED THEN WAITING ELSE @]
          /\ todo' = [todo EXCEPT ![w] = @ \ {p}]
    /\ pc' = [pc EXCEPT ![w] = "release"]
    /\ UNCHANGED <<claimed_by, claim_timestamp, pool, now, claimed, now_ms,
                   matches, crashes, reaperVars>>

(* The rollback is over and attempt_match returns ClaimFailed. *)
AttemptFailed(w) ==
    /\ pc[w] = "release"
    /\ todo[w] = {}
    /\ pc' = [pc EXCEPT ![w] = "idle"]
    /\ claimed' = [claimed EXCEPT ![w] = {}]
    /\ now_ms' = [now_ms EXCEPT ![w] = 0]
    /\ UNCHANGED <<playerVars, pool, now, todo, matches, crashes, reaperVars>>

(* Player::mark_matched: CAS CLAIMED -> MATCHED, whose failure is ignored.  *)
MarkMatched(w) ==
    /\ pc[w] = "mark"
    /\ \E p \in todo[w] :
          /\ First(p, todo[w])
          /\ state' = [state EXCEPT ![p] = IF @ = CLAIMED THEN MATCHED ELSE @]
          /\ todo' = [todo EXCEPT ![w] = @ \ {p}]
    /\ UNCHANGED <<claimed_by, claim_timestamp, pool, now, pc, claimed, now_ms,
                   matches, crashes, reaperVars>>

(* All are marked; the match record is built and the removal loop begins. *)
MarksDone(w) ==
    /\ pc[w] = "mark"
    /\ todo[w] = {}
    /\ pc' = [pc EXCEPT ![w] = "remove"]
    /\ todo' = [todo EXCEPT ![w] = claimed[w]]
    /\ UNCHANGED <<playerVars, pool, now, claimed, now_ms,
                   matches, crashes, reaperVars>>

(* ctx.pool.remove(&player.id) *)
RemoveFromPool(w) ==
    /\ pc[w] = "remove"
    /\ \E p \in todo[w] :
          /\ First(p, todo[w])
          /\ pool' = pool \ {p}
          /\ todo' = [todo EXCEPT ![w] = @ \ {p}]
    /\ UNCHANGED <<playerVars, now, pc, claimed, now_ms,
                   matches, crashes, reaperVars>>

(* history.push_back(completed_match) and the return of Success. *)
Publish(w) ==
    /\ pc[w] = "remove"
    /\ todo[w] = {}
    /\ matches' = Append(matches, claimed[w])
    /\ claimed' = [claimed EXCEPT ![w] = {}]
    /\ now_ms' = [now_ms EXCEPT ![w] = 0]
    /\ pc' = [pc EXCEPT ![w] = "idle"]
    /\ UNCHANGED <<playerVars, pool, now, todo, crashes, reaperVars>>

(* One step of worker w inside attempt_match. *)
WorkerStep(w) ==
    \/ ClaimCandidate(w) \/ SkipCandidate(w)
    \/ StoreClaimedBy(w) \/ StoreClaimTimestamp(w)
    \/ ClaimsComplete(w) \/ ClaimsFailed(w)
    \/ ReleaseClaimedBy(w) \/ ReleaseTimestamp(w) \/ ReleaseCAS(w)
    \/ AttemptFailed(w)
    \/ MarkMatched(w) \/ MarksDone(w) \/ RemoveFromPool(w) \/ Publish(w)

(* A panic in phase 4 or 5 (exhaustive_balance, Uuid::new_v4, an expect on  *)
(* a lock).  spawn_all never restarts the task; nothing can panic while the *)
(* claim and rollback loops run.                                            *)
Crash(w) ==
    /\ pc[w] \in {"mark", "remove"}
    /\ crashes < MaxCrashes
    /\ crashes' = crashes + 1
    /\ pc' = [pc EXCEPT ![w] = "dead"]
    /\ now_ms' = [now_ms EXCEPT ![w] = 0]
    /\ todo' = [todo EXCEPT ![w] = {}]
    /\ UNCHANGED <<playerVars, pool, now, claimed, matches, reaperVars>>

(* Plausible bug: the eviction is a store, not a CAS. *)
CancelStored(p) ==
    /\ p \in pool
    /\ state' = [state EXCEPT ![p] = EVICTED]
    /\ pool' = pool \ {p}
    /\ UNCHANGED <<claimed_by, claim_timestamp, now, workerVars,
                   matches, crashes, reaperVars>>

-----------------------------------------------------------------------------
(* MatchmakerCore::cancel of a queued player: try_evict's CAS, then the     *)
(* removal from the pool.                                                   *)
Cancel(p) ==
    /\ p \in pool
    /\ state[p] = WAITING
    /\ state' = [state EXCEPT ![p] = EVICTED]
    /\ pool' = pool \ {p}
    /\ UNCHANGED <<claimed_by, claim_timestamp, now, workerVars,
                   matches, crashes, reaperVars>>

-----------------------------------------------------------------------------
(* reaper_tick.                                                             *)

(* unix_ms() and the snapshot all_players(). *)
ReaperTick ==
    /\ rpc = "sleep"
    /\ rpc' = "scan"
    /\ r_now' = now
    /\ r_todo' = pool
    /\ UNCHANGED <<playerVars, pool, now, workerVars, matches, crashes, r_cur>>

(* The next player of the snapshot, in the map's arbitrary order; one that  *)
(* is not CLAIMED is skipped.                                               *)
ReaperLoadState ==
    /\ rpc = "scan"
    /\ \E p \in r_todo :
          /\ r_todo' = r_todo \ {p}
          /\ \/ /\ state[p] = CLAIMED
                /\ r_cur' = p
                /\ rpc' = "ts"
             \/ /\ state[p] # CLAIMED
                /\ UNCHANGED <<r_cur, rpc>>
    /\ UNCHANGED <<playerVars, pool, now, workerVars, matches, crashes, r_now>>

(* The loop turns to the next player of the snapshot. *)
NextPlayer == rpc' = "scan" /\ r_cur' = NoOne

(* Plausible bug: a claim of exactly the timeout's age is stale. *)
IsStaleOffByOne(ts, at) == ts # 0 /\ at - ts >= StaleTimeout

(* claim_age_ms > stale_claim_timeout_ms, with the saturating subtraction. *)
IsStale(ts, at) == ts # 0 /\ at - ts > StaleTimeout

(* Plausible bug: the Reaper resets every claim, whatever its age. *)
ReaperLoadTimestampAnyAge ==
    /\ rpc = "ts"
    /\ \/ claim_timestamp[r_cur] # 0 /\ rpc' = "cas" /\ UNCHANGED r_cur
       \/ claim_timestamp[r_cur] = 0 /\ NextPlayer
    /\ UNCHANGED <<playerVars, pool, now, workerVars, matches, crashes,
                   r_todo, r_now>>

(* claim_timestamp.load, the test for the sentinel and the age test. *)
ReaperLoadTimestamp ==
    /\ rpc = "ts"
    /\ \/ /\ IsStale(claim_timestamp[r_cur], r_now)
          /\ rpc' = "cas"
          /\ UNCHANGED r_cur
       \/ /\ ~IsStale(claim_timestamp[r_cur], r_now)
          /\ NextPlayer
    /\ UNCHANGED <<playerVars, pool, now, workerVars, matches, crashes,
                   r_todo, r_now>>

(* compare_exchange(CLAIMED, WAITING) *)
ReaperCAS ==
    /\ rpc = "cas"
    /\ \/ /\ state[r_cur] = CLAIMED
          /\ state' = [state EXCEPT ![r_cur] = WAITING]
          /\ rpc' = "clear_by"
          /\ UNCHANGED r_cur
       \/ /\ state[r_cur] # CLAIMED
          /\ NextPlayer
          /\ UNCHANGED state
    /\ UNCHANGED <<claimed_by, claim_timestamp, pool, now, workerVars,
                   matches, crashes, r_todo, r_now>>

(* claimed_by.store(0), after the CAS. *)
ReaperClearClaimedBy ==
    /\ rpc = "clear_by"
    /\ claimed_by' = [claimed_by EXCEPT ![r_cur] = 0]
    /\ rpc' = "clear_ts"
    /\ UNCHANGED <<state, claim_timestamp, pool, now, workerVars,
                   matches, crashes, r_todo, r_cur, r_now>>

(* claim_timestamp.store(0), after the CAS. *)
ReaperClearTimestamp ==
    /\ rpc = "clear_ts"
    /\ claim_timestamp' = [claim_timestamp EXCEPT ![r_cur] = 0]
    /\ NextPlayer
    /\ UNCHANGED <<state, claimed_by, pool, now, workerVars,
                   matches, crashes, r_todo, r_now>>

(* The scan is over; run_reaper waits for its next tick. *)
ReaperSleep ==
    /\ rpc = "scan"
    /\ r_todo = {}
    /\ rpc' = "sleep"
    /\ r_now' = 0
    /\ UNCHANGED <<playerVars, pool, now, workerVars, matches, crashes,
                   r_todo, r_cur>>

ReaperStep ==
    \/ ReaperTick \/ ReaperLoadState \/ ReaperLoadTimestamp \/ ReaperCAS
    \/ ReaperClearClaimedBy \/ ReaperClearTimestamp \/ ReaperSleep

-----------------------------------------------------------------------------
(* A live worker is inside attempt_match, its claims dated now_ms[w]. *)
InAttempt(w) == pc[w] \notin {"idle", "dead"}

(* The wall clock moves on.  An attempt is in flight for at most            *)
(* AttemptLimit: the code's own assumption, that a healthy worker needs     *)
(* about a millisecond, is AttemptLimit <= StaleTimeout.                    *)
Tick ==
    /\ now < MaxTime
    /\ \A w \in Workers : InAttempt(w) => now - now_ms[w] < AttemptLimit
    /\ now' = now + 1
    /\ UNCHANGED <<playerVars, pool, workerVars, matches, crashes, reaperVars>>

-----------------------------------------------------------------------------
Next ==
    \/ \E w \in Workers : StartAttempt(w) \/ WorkerStep(w) \/ Crash(w)
    \/ \E p \in Players : Cancel(p)
    \/ ReaperStep
    \/ Tick

Spec == Init /\ [][Next]_vars

(* Tokio keeps polling every task that can run, and time passes.  Nothing   *)
(* obliges players to come, cancels to happen or workers to panic.          *)
Fairness ==
    /\ \A w \in Workers : WF_vars(WorkerStep(w))
    /\ WF_vars(ReaperStep)
    /\ WF_vars(Tick)

FairSpec == Spec /\ Fairness

-----------------------------------------------------------------------------
TypeOK ==
    /\ state \in [Players -> {WAITING, CLAIMED, MATCHED, EVICTED}]
    /\ claimed_by \in [Players -> Workers \cup {0}]
    /\ claim_timestamp \in [Players -> Nat]
    /\ pool \subseteq Players
    /\ now \in Nat
    /\ pc \in [Workers -> WorkerPCs]
    /\ todo \in [Workers -> SUBSET Players]
    /\ claimed \in [Workers -> SUBSET Players]
    /\ now_ms \in [Workers -> Nat]
    /\ matches \in Seq(SUBSET Players)
    /\ crashes \in Nat
    /\ rpc \in ReaperPCs
    /\ r_todo \subseteq Players
    /\ r_cur \in Players
    /\ r_now \in Nat

(* The players that a live worker w holds in state CLAIMED, by its own view. *)
Holds(w) ==
    IF pc[w] \in {"claim", "claim_by", "claim_ts"} THEN claimed[w]
    ELSE IF pc[w] \in {"release", "release_ts", "release_cas", "mark"} THEN todo[w]
    ELSE {}

(* The players that a live worker w has marked for the match it is forming. *)
Marked(w) ==
    IF pc[w] = "mark" THEN claimed[w] \ todo[w]
    ELSE IF pc[w] = "remove" THEN claimed[w]
    ELSE {}

(* No player appears in two matches (docs/architecture.md:14).  It takes a  *)
(* Reaper reset and two workers to break, because mark_matched ignores a    *)
(* failed CAS.                                                              *)
NoDoubleMatch ==
    \A i, j \in DOMAIN matches : i # j => matches[i] \cap matches[j] = {}

(* A claim is exclusive: what one worker means to mark or to roll back no   *)
(* other worker holds, and it is CLAIMED until that worker changes it, so   *)
(* release_claim and mark_matched always succeed (README.md:295).           *)
ClaimsExclusive ==
    /\ \A w \in Workers : \A p \in Holds(w) : state[p] = CLAIMED
    /\ \A v, w \in Workers : v # w => Holds(v) \cap Holds(w) = {}

(* Every player of a published match is MATCHED: none of them is WAITING    *)
(* for another match, CLAIMED by another worker or was told it is cancelled.*)
PublishedAreMatched ==
    \A i \in DOMAIN matches : \A p \in matches[i] : state[p] = MATCHED

(* The states change along the README's life cycle only (README.md:317-337):*)
(* MATCHED and EVICTED are terminal, whatever the timing of the Reaper.     *)
LegalTransitions ==
    [][\A p \in Players :
          \/ state'[p] = state[p]
          \/ state[p] = WAITING /\ state'[p] \in {CLAIMED, EVICTED}
          \/ state[p] = CLAIMED /\ state'[p] \in {WAITING, MATCHED}]_vars

(* No player stays CLAIMED forever: a claim is completed, rolled back or,   *)
(* when its worker has panicked, reset by the Reaper                        *)
(* (docs/architecture.md:214).                                              *)
ClaimsEnd ==
    \A p \in Players : (state[p] = CLAIMED) ~> (state[p] # CLAIMED)

(* The inductive strengthening of the invariants above, for attempts that   *)
(* never outlive the stale-claim timeout.                                   *)

(* What each worker knows of its own locals. *)
LocalInv ==
    \A w \in Workers :
        /\ pc[w] \in {"claim_by", "claim_ts"} =>
              \A p \in todo[w] : First(p, todo[w]) => p \in claimed[w]
        /\ pc[w] \in {"mark", "remove"} => Cardinality(claimed[w]) = MATCH_SIZE

(* What a worker has marked is MATCHED, for this match only. *)
MarkedInv ==
    /\ \A w \in Workers : \A p \in Marked(w) :
          state[p] = MATCHED /\ \A i \in DOMAIN matches : p \notin matches[i]
    /\ \A v, w \in Workers : v # w => Marked(v) \cap Marked(w) = {}

(* The ages of the attempts in flight; the Reaper's clock is not ahead. *)
FreshInv ==
    /\ \A w \in Workers :
          InAttempt(w) => now_ms[w] <= now /\ now - now_ms[w] <= AttemptLimit
    /\ r_now <= now

(* The Reaper has reset p and has yet to clear its claim fields. *)
Clearing(p) == rpc \in {"clear_by", "clear_ts"} /\ r_cur = p

(* A timestamp that the Reaper can read is the sentinel or the holder's. *)
StampInv ==
    /\ \A p \in Players : state[p] \in {WAITING, EVICTED} =>
          claim_timestamp[p] = 0 \/ Clearing(p)
    /\ \A w \in Workers : \A p \in Holds(w) :
          claim_timestamp[p] \in {0, now_ms[w]} \/ Clearing(p)
    /\ \A w \in Workers : pc[w] = "release_cas" =>
          \A p \in todo[w] :
              First(p, todo[w]) => claim_timestamp[p] = 0 \/ Clearing(p)

(* The claim that the Reaper is about to reset is a dead worker's. *)
ReaperInv ==
    rpc = "cas" => /\ state[r_cur] \in {CLAIMED, MATCHED}
                   /\ \A w \in Workers : r_cur \notin Holds(w)

(* The inductive invariant behind NoDoubleMatch: a live worker's claims are *)
(* its own because the Reaper only ever resets the claims of a dead one.    *)
ClaimInv ==
    /\ TypeOK
    /\ ClaimsExclusive
    /\ LocalInv
    /\ MarkedInv
    /\ PublishedAreMatched
    /\ NoDoubleMatch
    /\ FreshInv
    /\ StampInv
    /\ ReaperInv

-----------------------------------------------------------------------------
(* The abstract queue: a player is queued until it is cancelled or in a     *)
(* published match.                                                         *)
Queued ==
    {p \in Players :
        state[p] # EVICTED /\ \A i \in DOMAIN matches : p \notin matches[i]}

Service == INSTANCE MatchService WITH queued <- Queued

(* The claim protocol implements the promise of MatchService: the claims,   *)
(* the rollbacks, the panics and the Reaper are invisible, each publication *)
(* is one FormMatch of MATCH_SIZE queued players, each eviction one Cancel. *)
ImplementsService == Service!Spec
=============================================================================
