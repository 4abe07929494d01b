------------------------------- MODULE Metrics -------------------------------
(***************************************************************************)
(* The counters, the match history and their readers.                       *)
(*                                                                          *)
(*   src/metrics/mod.rs     Metrics and its snapshot                        *)
(*   src/engine/matcher.rs  update_metrics_on_success, the failure counters *)
(*                          and the push to the match history               *)
(*   src/engine/mod.rs      the counters of enqueue and cancel, and         *)
(*                          recent_matches, total_matches_formed            *)
(*   src/api/mod.rs         metrics_handler, matches_handler                *)
(*                                                                          *)
(* All counters are updated with Ordering::Relaxed, so an operation is the  *)
(* set of its fetch_adds: other threads may see them in any order.  What    *)
(* orders an update is a lock: the ones that follow the write section of    *)
(* the history are never seen by a thread that enters that lock before it.  *)
(* The five accumulators of the averages are one update, since no property  *)
(* and no operation tells apart in which order they change.  A match is the *)
(* record of what they accumulate about it.                                 *)
(***************************************************************************)
EXTENDS Integers, Sequences, FiniteSets, SequencesExt

CONSTANTS
    Workers,              \* matchmaking workers
    Clients,              \* requests that enqueue or cancel
    Reaper,               \* the Reaper task
    Matches,              \* what matches can be: [spread, delta, wait : Nat]
    MATCH_SIZE,           \* players per match (10 in the code)
    MATCH_HISTORY_LIMIT,  \* records kept (10 000 in the code)
    MaxEnqueued,          \* bound: enqueues in one behaviour
    MaxFailures,          \* bound: failed attempts, and cancels, of one behaviour
    MaxPanics             \* bound: workers that panic

ASSUME MetricsAssumption ==
    /\ MATCH_SIZE \in Nat \ {0} /\ MATCH_HISTORY_LIMIT \in Nat \ {0}
    /\ MaxEnqueued \in Nat /\ MaxFailures \in Nat /\ MaxPanics \in Nat
    /\ Matches \subseteq [spread : Nat, delta : Nat, wait : Nat]

ASSUME ThreadsAssumption ==
    /\ IsFiniteSet(Workers) /\ IsFiniteSet(Clients)
    /\ Workers \cap Clients = {} /\ Reaper \notin Workers \cup Clients

VARIABLES
    waiting,    \* number of WAITING players in the pool
    held,       \* number of players left CLAIMED by panicked workers
    lost,       \* number of players left MATCHED, in no match, by panicked workers
    forming,    \* the workers with a match that they have not published
    panicked,   \* the workers that panicked
    counters,   \* the atomics of Metrics
    history,    \* match_history, oldest first
    published,  \* all matches pushed so far, oldest first (history variable)
    todo,       \* the updates of each thread that are still to be seen
    counted,    \* total_matches_created in a client's snapshot, -1 before
    listed      \* the answer to its GET /matches, with the limit it was asked for

poolVars == <<waiting, held, lost, forming, panicked>>
vars == <<poolVars, counters, history, published, todo, counted, listed>>

Threads == Workers \cup Clients \cup {Reaper}

Counters ==
    {"total_players_enqueued", "total_players_cancelled", "total_matches_created",
     "total_players_matched", "match_attempts_insufficient",
     "match_attempts_claim_failed", "worker_cycles_total", "total_stale_claims_recovered",
     "current_queue_size", "total_wait_time_ms", "skill_spread_sum", "skill_spread_count",
     "team_delta_sum", "team_delta_count"}

-----------------------------------------------------------------------------
(* The updates of each operation.                                           *)

Add(counter, by) == [to |-> counter, by |-> by]
Accumulate(m) == [to |-> "averages", match |-> m]

Updates == [to : Counters, by : Int] \cup [to : {"averages"}, match : Matches]

EnqueueUpdates ==
    {Add("total_players_enqueued", 1), Add("current_queue_size", 1)}

CancelUpdates ==
    {Add("current_queue_size", -1), Add("total_players_cancelled", 1)}

(* Plausible bug: the gauge is lowered for one player. *)
SuccessUpdatesOnePlayer(m) ==
    {Add("total_matches_created", 1),
     Add("total_players_matched", MATCH_SIZE),
     Add("current_queue_size", -1),
     Accumulate(m)}

(* update_metrics_on_success. *)
SuccessUpdates(m) ==
    {Add("total_matches_created", 1),
     Add("total_players_matched", MATCH_SIZE),
     Add("current_queue_size", -MATCH_SIZE),
     Accumulate(m)}

-----------------------------------------------------------------------------
Init ==
    /\ waiting = 0 /\ held = 0 /\ lost = 0
    /\ forming = {} /\ panicked = {}
    /\ counters = [k \in Counters |-> 0]
    /\ history = <<>>
    /\ published = <<>>
    /\ todo = [t \in Threads |-> {}]
    /\ counted = -1
    /\ listed = [limit |-> 0, matches |-> <<>>]

(* The thread's last operation is over and seen by everybody. *)
Idle(t) == todo[t] = {} /\ t \notin forming

Begin(t, updates) == todo' = [todo EXCEPT ![t] = @ \cup updates]

(* The counters after a fetch_add, or after those of the averages. *)
After(u) ==
    IF u.to \in Counters THEN [counters EXCEPT ![u.to] = @ + u.by]
    ELSE [counters EXCEPT !["total_wait_time_ms"] = @ + u.match.wait,
                          !["skill_spread_sum"] = @ + u.match.spread,
                          !["skill_spread_count"] = @ + 1,
                          !["team_delta_sum"] = @ + u.match.delta,
                          !["team_delta_count"] = @ + 1]

(* An update takes effect, any of those that the thread has issued. *)
Update(t) ==
    /\ \E u \in todo[t] :
          /\ counters' = After(u)
          /\ todo' = [todo EXCEPT ![t] = @ \ {u}]
    /\ UNCHANGED <<poolVars, history, published, counted, listed>>

(* enqueue has inserted a player. *)
Enqueue(c) ==
    /\ Idle(c)
    /\ counters["total_players_enqueued"] < MaxEnqueued
    /\ waiting' = waiting + 1
    /\ Begin(c, EnqueueUpdates)
    /\ UNCHANGED <<held, lost, forming, panicked, counters, history, published, counted, listed>>

(* cancel has evicted and removed a player. *)
Cancel(c) ==
    /\ Idle(c)
    /\ waiting > 0
    /\ counters["total_players_cancelled"] < MaxFailures
    /\ waiting' = waiting - 1
    /\ Begin(c, CancelUpdates)
    /\ UNCHANGED <<held, lost, forming, panicked, counters, history, published, counted, listed>>

(* An attempt that finds a seed and fails, for want of candidates or of     *)
(* claims; another thread may have taken its players.  Without a seed       *)
(* nothing is counted.                                                      *)
AttemptFails(w) ==
    /\ Idle(w) /\ w \notin panicked
    /\ waiting > 0 \/ \E t \in Threads \ {w} : ~Idle(t)
    /\ counters["worker_cycles_total"] < Len(published) + MaxFailures
    /\ \E k \in {"match_attempts_insufficient", "match_attempts_claim_failed"} :
          Begin(w, {Add("worker_cycles_total", 1), Add(k, 1)})
    /\ UNCHANGED <<poolVars, counters, history, published, counted, listed>>

(* An attempt that claims MATCH_SIZE players. *)
ClaimPlayers(w) ==
    /\ Idle(w) /\ w \notin panicked
    /\ waiting >= MATCH_SIZE
    /\ waiting' = waiting - MATCH_SIZE
    /\ forming' = forming \cup {w}
    /\ Begin(w, {Add("worker_cycles_total", 1)})
    /\ UNCHANGED <<held, lost, panicked, counters, history, published, counted, listed>>

(* A panic in phase 4 or 5, with any number of the players marked already;  *)
(* some of these may have been removed from the pool, too.  The task is not *)
(* restarted.                                                               *)
Panic(w) ==
    /\ w \in forming
    /\ Cardinality(panicked) < MaxPanics
    /\ panicked' = panicked \cup {w}
    /\ forming' = forming \ {w}
    /\ \E marked \in 0 .. MATCH_SIZE :
          held' = held + MATCH_SIZE - marked /\ lost' = lost + marked
    /\ UNCHANGED <<waiting, counters, history, published, todo, counted, listed>>

(* Plausible bug: every claim that is looked at is counted as recovered. *)
RecoverCountsAll ==
    /\ Idle(Reaper)
    /\ \E n \in 1 .. held :
          /\ waiting' = waiting + n
          /\ held' = held - n
          /\ Begin(Reaper, {Add("total_stale_claims_recovered", held)})
    /\ UNCHANGED <<lost, forming, panicked, counters, history, published, counted, listed>>

(* reaper_tick has made stale claims WAITING and counts them. *)
Recover ==
    /\ Idle(Reaper)
    /\ \E n \in 1 .. held :
          /\ waiting' = waiting + n
          /\ held' = held - n
          /\ Begin(Reaper, {Add("total_stale_claims_recovered", n)})
    /\ UNCHANGED <<lost, forming, panicked, counters, history, published, counted, listed>>

(* Plausible bug: the limit itself counts as over capacity. *)
PublishOffByOne(w) ==
    /\ w \in forming
    /\ forming' = forming \ {w}
    /\ \E m \in Matches : LET h == Append(history, m) IN
          /\ history' = IF Len(h) >= MATCH_HISTORY_LIMIT THEN Tail(h) ELSE h
          /\ published' = Append(published, m)
          /\ Begin(w, SuccessUpdates(m))
    /\ UNCHANGED <<waiting, held, lost, panicked, counters, counted, listed>>

(* The write section of the history: push_back, then pop_front down to the  *)
(* limit.  update_metrics_on_success follows.                               *)
Publish(w) ==
    /\ w \in forming
    /\ forming' = forming \ {w}
    /\ \E m \in Matches : LET h == Append(history, m) IN
          /\ history' = IF Len(h) > MATCH_HISTORY_LIMIT THEN Tail(h) ELSE h
          /\ published' = Append(published, m)
          /\ Begin(w, SuccessUpdates(m))
    /\ UNCHANGED <<waiting, held, lost, panicked, counters, counted, listed>>

-----------------------------------------------------------------------------
(* Readers.                                                                 *)

(* metrics_handler: snapshot loads every counter, with no relation between  *)
(* two of them; the load of total_matches_created is the one that           *)
(* matches_handler's answer can be compared with.                           *)
Load ==
    /\ counted = -1
    /\ counted' = counters["total_matches_created"]
    /\ UNCHANGED <<poolVars, counters, history, published, todo, listed>>

(* MatchmakerCore::recent_matches: the newest records, newest first. *)
recent_matches(limit) == SubSeq(Reverse(history), 1, Min({limit, Len(history)}))

(* matches_handler, asked by a client that has read the metrics before: the *)
(* list is read under the lock; the total is loaded next, as it is.         *)
ListMatches ==
    /\ counted # -1
    /\ listed.limit = 0
    /\ \E asked \in 0 .. MATCH_HISTORY_LIMIT + 1 :
          LET limit == Max({asked, 1}) IN
          listed' = [limit |-> limit, matches |-> recent_matches(limit)]
    /\ UNCHANGED <<poolVars, counters, history, published, todo, counted>>

Next ==
    \/ \E t \in Threads : Update(t)
    \/ \E c \in Clients : Enqueue(c) \/ Cancel(c)
    \/ \E w \in Workers : AttemptFails(w) \/ ClaimPlayers(w) \/ Publish(w) \/ Panic(w)
    \/ Recover
    \/ Load \/ ListMatches

Spec == Init /\ [][Next]_vars

-----------------------------------------------------------------------------
MetricsTypeOK ==
    /\ waiting \in Nat /\ held \in Nat /\ lost \in Nat
    /\ forming \subseteq Workers /\ panicked \subseteq Workers
    /\ counters \in [Counters -> Int]
    /\ history \in Seq(Matches)
    /\ published \in Seq(Matches)
    /\ todo \in [Threads -> SUBSET Updates]
    /\ counted \in Int
    /\ listed \in [limit : Nat, matches : Seq(Matches)]

(* With no update in flight the counters agree with one another and with    *)
(* the players, after any number of panics: every attempt that found a seed *)
(* has one outcome or panicked; every player that was enqueued is in the    *)
(* gauge, cancelled or matched; the gauge is the players in the pool and    *)
(* those that a panic in phase 5 has lost, which nothing counts out; the    *)
(* Reaper has recovered every claim of a panicked worker that is not held   *)
(* or lost; and matches have MATCH_SIZE players (metrics/mod.rs:61-62) and  *)
(* are in both averages.                                                    *)
TotalsBalance ==
    (\A t \in Threads : Idle(t)) =>
        LET n(k) == counters[k] IN
        /\ n("worker_cycles_total") = n("match_attempts_insufficient")
                + n("match_attempts_claim_failed") + n("total_matches_created")
                + Cardinality(panicked)
        /\ n("total_players_enqueued") = n("current_queue_size")
                + n("total_players_cancelled") + n("total_players_matched")
        /\ n("current_queue_size") = waiting + held + lost
        /\ n("total_stale_claims_recovered") + held + lost
                = MATCH_SIZE * Cardinality(panicked)
        /\ n("total_players_matched") = MATCH_SIZE * n("total_matches_created")
        /\ n("skill_spread_count") = n("total_matches_created")
        /\ n("team_delta_count") = n("total_matches_created")

(* The gauge never drifts: at every moment it differs from the number of    *)
(* players by no more than the operations in flight explain, one player for *)
(* every busy client and a match for every busy worker, in whatever order   *)
(* the updates are seen and whatever panicked before.  So it can be         *)
(* negative (tests/metrics.rs:174 denies it), but not by more than the      *)
(* enqueues in flight.                                                      *)
GaugeLag ==
    LET drift == counters["current_queue_size"] - (waiting + held + lost)
        clients == Cardinality({c \in Clients : ~Idle(c)})
        workers == Cardinality({w \in Workers : ~Idle(w)}) IN
    -clients <= drift /\ drift <= clients + MATCH_SIZE * workers

(* A client that saw k matches counted in the metrics and then asks for     *)
(* them gets k records, up to its limit and the history's                   *)
(* (tests/api.rs:489-505): a match is in the history before it is counted.  *)
CountedAreListed ==
    listed.limit > 0 =>
        Len(listed.matches) >= Min({listed.limit, MATCH_HISTORY_LIMIT, counted})
=============================================================================
