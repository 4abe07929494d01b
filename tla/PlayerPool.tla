----------------------------- MODULE PlayerPool -----------------------------
(***************************************************************************)
(* The dual-structure pool and the operations that change it concurrently.  *)
(*                                                                          *)
(*   src/engine/bucket.rs   PlayerPool: insert, remove, contains, get and   *)
(*                          the index entries that range_scan sees          *)
(*   src/engine/mod.rs      MatchmakerCore::enqueue and cancel              *)
(*   src/engine/matcher.rs  the claims, the rollback, the marks and the     *)
(*                          removal loop of attempt_match, and the gauge    *)
(*   src/workers/mod.rs     reaper_tick's reset of a panicked worker's claim*)
(*   src/api/mod.rs         enqueue_handler and cancel_handler              *)
(*                                                                          *)
(* Each operation on the DashMap, each write section of the index lock and  *)
(* each change of the gauge is a step of its own.  A Player object (an      *)
(* Arc<Player>) is the number of its registration, so that two              *)
(* registrations of one id are told apart; the index holds it weakly.       *)
(***************************************************************************)
EXTENDS Integers, Sequences, FiniteSets

CONSTANTS
    Ids,          \* player ids
    Ratings,      \* skill ratings, all accepted by enqueue's range check
    Clients,      \* concurrent HTTP requests being handled
    Workers,      \* matchmaking workers
    Assignments,  \* which ids each client may enqueue and cancel: the cases considered
    MATCH_SIZE,   \* players per match (10 in the code)
    MaxPlayers    \* bound: registrations in one behaviour

ASSUME ThreadsAssumption == Clients \cap Workers = {}
ASSUME FinitenessAssumption ==
    IsFiniteSet(Ids) /\ IsFiniteSet(Clients) /\ IsFiniteSet(Workers)
ASSUME ClientsAssumption == Assignments \subseteq [Clients -> SUBSET Ids]
ASSUME PoolSizeAssumption == MATCH_SIZE \in Nat \ {0} /\ MaxPlayers \in Nat

VARIABLES
    mayUse,             \* the ids that each client uses, fixed at the start
    players,            \* the Player objects, in the order of Player::new
    primary,            \* PlayerPool.primary, 0 for an absent id
    index,              \* PlayerPool.index, 0 for an absent key
    current_queue_size, \* Metrics.current_queue_size
    asked,              \* the id of each client's request
    pc,                 \* where each thread is in its operation
    cur,                \* the Player a thread works on, 0 for none
    candidates,         \* what a worker's scan found and it has not tried to claim
    claimed,            \* the Players a worker has claimed and not yet marked
    batch               \* a worker's matched players still to be removed

claimVars == <<candidates, claimed>>
vars == <<mayUse, players, primary, index, current_queue_size, asked, pc, cur, claimVars, batch>>

Threads == Clients \cup Workers
Keys == Ratings \X Ids
PlayerStates == {"waiting", "claimed", "matched", "evicted"}
PoolPCs == {"idle", "ins_primary", "ins_index", "gauge_inc", "already_queued",
            "evict", "claiming", "marking", "rm_primary", "rm_index", "gauge_dec",
            "being_matched", "not_found", "dead", "abandoned"}
NoId == 0

(* The index key (skill_rating, id) of a Player. *)
Key(n) == <<players[n].rating, players[n].id>>

(* Some strong reference keeps the Player object alive. *)
Alive(n) ==
    \/ primary[players[n].id] = n
    \/ \E t \in Threads : cur[t] = n \/ n \in batch[t]
    \/ \E w \in Workers : n \in candidates[w] \/ n \in claimed[w]

-----------------------------------------------------------------------------
Init ==
    /\ mayUse \in Assignments
    /\ players = <<>>
    /\ primary = [i \in Ids |-> 0]
    /\ index = [k \in Keys |-> 0]
    /\ current_queue_size = 0
    /\ asked = [c \in Clients |-> NoId]
    /\ pc = [t \in Threads |-> "idle"]
    /\ cur = [t \in Threads |-> 0]
    /\ candidates = [w \in Workers |-> {}]
    /\ claimed = [w \in Workers |-> {}]
    /\ batch = [t \in Threads |-> {}]

Goto(t, where) == pc' = [pc EXCEPT ![t] = where]
Ask(c, i) == pc[c] = "idle" /\ i \in mayUse[c] /\ asked' = [asked EXCEPT ![c] = i]
Answer(c) == Goto(c, "idle") /\ asked' = [asked EXCEPT ![c] = NoId]

-----------------------------------------------------------------------------
(* MatchmakerCore::enqueue.                                                 *)

(* Plausible bug: the duplicate check is missing. *)
EnqueueUnchecked(c, i, r) ==
    /\ Ask(c, i)
    /\ Len(players) < MaxPlayers
    /\ players' = Append(players, [id |-> i, rating |-> r, state |-> "waiting"])
    /\ cur' = [cur EXCEPT ![c] = Len(players) + 1]
    /\ Goto(c, "ins_primary")
    /\ UNCHANGED <<mayUse, primary, index, current_queue_size, claimVars, batch>>

(* The duplicate check, passed, and Player::new.  A rating out of range is  *)
(* refused before and changes nothing.                                      *)
Enqueue(c, i, r) ==
    /\ Ask(c, i)
    /\ primary[i] = 0
    /\ Len(players) < MaxPlayers
    /\ players' = Append(players, [id |-> i, rating |-> r, state |-> "waiting"])
    /\ cur' = [cur EXCEPT ![c] = Len(players) + 1]
    /\ Goto(c, "ins_primary")
    /\ UNCHANGED <<mayUse, primary, index, current_queue_size, claimVars, batch>>

(* AlreadyQueued, 409. *)
EnqueueRefused(c, i) ==
    /\ Ask(c, i)
    /\ primary[i] # 0
    /\ Goto(c, "already_queued")
    /\ UNCHANGED <<mayUse, players, primary, index, current_queue_size, cur, claimVars, batch>>

(* PlayerPool::insert, primary.insert: an older entry of the id is replaced. *)
InsertPrimary(c) ==
    /\ pc[c] = "ins_primary"
    /\ primary' = [primary EXCEPT ![players[cur[c]].id] = cur[c]]
    /\ Goto(c, "ins_index")
    /\ UNCHANGED <<mayUse, asked, players, index, current_queue_size, cur, claimVars, batch>>

(* PlayerPool::insert, the write section of the index. *)
InsertIndex(c) ==
    /\ pc[c] = "ins_index"
    /\ index' = [index EXCEPT ![Key(cur[c])] = cur[c]]
    /\ Goto(c, "gauge_inc")
    /\ UNCHANGED <<mayUse, asked, players, primary, current_queue_size, cur, claimVars, batch>>

(* current_queue_size.fetch_add(1) and the return. *)
GaugeInc(c) ==
    /\ pc[c] = "gauge_inc"
    /\ current_queue_size' = current_queue_size + 1
    /\ cur' = [cur EXCEPT ![c] = 0]
    /\ Answer(c)
    /\ UNCHANGED <<mayUse, players, primary, index, claimVars, batch>>

-----------------------------------------------------------------------------
(* MatchmakerCore::cancel.                                                  *)

(* pool.get(id) finds nothing: NotFound, 404. *)
CancelUnknown(c, i) ==
    /\ Ask(c, i)
    /\ primary[i] = 0
    /\ Goto(c, "not_found")
    /\ UNCHANGED <<mayUse, players, primary, index, current_queue_size, cur, claimVars, batch>>

(* pool.get(id) finds a Player. *)
CancelGet(c, i) ==
    /\ Ask(c, i)
    /\ primary[i] # 0
    /\ cur' = [cur EXCEPT ![c] = primary[i]]
    /\ Goto(c, "evict")
    /\ UNCHANGED <<mayUse, players, primary, index, current_queue_size, claimVars, batch>>

(* Plausible bug: the state is stored without a look at the old one. *)
EvictStored(c) ==
    /\ pc[c] = "evict"
    /\ players' = [players EXCEPT ![cur[c]].state = "evicted"]
    /\ Goto(c, "rm_primary")
    /\ UNCHANGED <<mayUse, asked, primary, index, current_queue_size, cur, claimVars, batch>>

(* try_evict succeeds; the pool's remove follows. *)
Evict(c) ==
    /\ pc[c] = "evict"
    /\ players[cur[c]].state = "waiting"
    /\ players' = [players EXCEPT ![cur[c]].state = "evicted"]
    /\ Goto(c, "rm_primary")
    /\ UNCHANGED <<mayUse, asked, primary, index, current_queue_size, cur, claimVars, batch>>

(* try_evict fails: CurrentlyBeingMatched, 409. *)
EvictRefused(c) ==
    /\ pc[c] = "evict"
    /\ players[cur[c]].state # "waiting"
    /\ cur' = [cur EXCEPT ![c] = 0]
    /\ Goto(c, "being_matched")
    /\ UNCHANGED <<mayUse, asked, players, primary, index, current_queue_size, claimVars, batch>>

(* AppError::into_response: the refusal is sent. *)
Refuse(c) ==
    /\ pc[c] \in {"already_queued", "being_matched", "not_found"}
    /\ Answer(c)
    /\ UNCHANGED <<mayUse, players, primary, index, current_queue_size, cur, claimVars, batch>>

-----------------------------------------------------------------------------
(* A worker's match.  An attempt without enough candidates changes nothing. *)

(* The Players that PlayerPool::range_scan can return. *)
range_scan ==
    {n \in DOMAIN players :
        /\ players[n].state = "waiting"
        /\ Alive(n)
        /\ index[Key(n)] = n}

SetState(n, s) == players' = [players EXCEPT ![n].state = s]

(* Phase 2: the scan, which loads each state at a moment of its own. *)
Scan(w) ==
    /\ pc[w] = "idle"
    /\ \E S \in SUBSET range_scan :
          /\ Cardinality(S) >= MATCH_SIZE
          /\ candidates' = [candidates EXCEPT ![w] = S]
    /\ Goto(w, "claiming")
    /\ UNCHANGED <<mayUse, asked, players, primary, index, current_queue_size, cur, claimed, batch>>

(* Phase 3: the next candidate is tried while claims are missing. *)
Try(w, n) ==
    /\ pc[w] = "claiming"
    /\ Cardinality(claimed[w]) < MATCH_SIZE
    /\ n \in candidates[w]
    /\ candidates' = [candidates EXCEPT ![w] = @ \ {n}]
    /\ UNCHANGED <<mayUse, asked, primary, index, current_queue_size, pc, cur, batch>>

(* try_claim succeeds. *)
Claim(w) ==
    \E n \in candidates[w] :
        /\ Try(w, n)
        /\ players[n].state = "waiting"
        /\ SetState(n, "claimed")
        /\ claimed' = [claimed EXCEPT ![w] = @ \cup {n}]

(* try_claim fails: the player was claimed, matched or cancelled meanwhile. *)
ClaimFails(w) ==
    \E n \in candidates[w] :
        /\ Try(w, n)
        /\ players[n].state # "waiting"
        /\ UNCHANGED <<players, claimed>>

(* Too few claims: release_claim, one player after the other. *)
Release(w) ==
    /\ pc[w] = "claiming"
    /\ candidates[w] = {}
    /\ Cardinality(claimed[w]) < MATCH_SIZE
    /\ \E n \in claimed[w] : /\ SetState(n, "waiting")
                             /\ claimed' = [claimed EXCEPT ![w] = @ \ {n}]
    /\ UNCHANGED <<mayUse, asked, primary, index, current_queue_size, pc, cur, candidates, batch>>

(* Plausible bug: what was claimed is not released. *)
GiveUpWithoutRollback(w) ==
    /\ pc[w] = "claiming"
    /\ candidates[w] = {}
    /\ Cardinality(claimed[w]) < MATCH_SIZE
    /\ claimed' = [claimed EXCEPT ![w] = {}]
    /\ Goto(w, "idle")
    /\ UNCHANGED <<mayUse, asked, players, primary, index, current_queue_size, cur, candidates, batch>>

(* The attempt has failed and is rolled back. *)
GiveUp(w) ==
    /\ pc[w] = "claiming"
    /\ candidates[w] = {}
    /\ claimed[w] = {}
    /\ Goto(w, "idle")
    /\ UNCHANGED <<mayUse, asked, players, primary, index, current_queue_size, cur, claimVars, batch>>

(* Phase 4: enough players are claimed, the others are let go. *)
BeginMatch(w) ==
    /\ pc[w] = "claiming"
    /\ Cardinality(claimed[w]) = MATCH_SIZE
    /\ candidates' = [candidates EXCEPT ![w] = {}]
    /\ Goto(w, "marking")
    /\ UNCHANGED <<mayUse, asked, players, primary, index, current_queue_size, cur, claimed, batch>>

(* Phase 5: mark_matched, one player after the other.  The worker is in     *)
(* time, so that its claims are its own (module Claiming).                  *)
Mark(w) ==
    /\ pc[w] = "marking"
    /\ \E n \in claimed[w] : /\ SetState(n, "matched")
                             /\ claimed' = [claimed EXCEPT ![w] = @ \ {n}]
                             /\ batch' = [batch EXCEPT ![w] = @ \cup {n}]
    /\ UNCHANGED <<mayUse, asked, primary, index, current_queue_size, pc, cur, candidates>>

(* All are marked; the removal loop follows. *)
AllMarked(w) ==
    /\ pc[w] = "marking"
    /\ claimed[w] = {}
    /\ Goto(w, "rm_primary")
    /\ UNCHANGED <<mayUse, asked, players, primary, index, current_queue_size, cur, claimVars, batch>>

(* A panic in phase 4 or 5; the task is not restarted.  The worker's claims *)
(* are left to the Reaper.  What it has marked stays in the pool, if it was *)
(* not removed yet, and in the gauge: the match is abandoned.               *)
Panic(w) ==
    /\ pc[w] \in {"marking", "rm_primary", "gauge_dec"}
    /\ cur[w] = 0
    /\ claimed' = [claimed EXCEPT ![w] = {}]
    /\ Goto(w, IF pc[w] = "marking" /\ batch[w] = {} THEN "dead" ELSE "abandoned")
    /\ UNCHANGED <<mayUse, asked, players, primary, index, current_queue_size, cur, candidates, batch>>

(* reaper_tick resets the claim of a worker that has panicked. *)
ResetStale ==
    /\ \E n \in DOMAIN players :
          /\ players[n].state = "claimed"
          /\ \A w \in Workers : n \notin claimed[w]
          /\ SetState(n, "waiting")
    /\ UNCHANGED <<mayUse, asked, primary, index, current_queue_size, pc, cur, claimVars, batch>>

(* The removal loop turns to its next player. *)
NextToRemove(w) ==
    /\ pc[w] = "rm_primary"
    /\ cur[w] = 0
    /\ \E n \in batch[w] : /\ cur' = [cur EXCEPT ![w] = n]
                           /\ batch' = [batch EXCEPT ![w] = @ \ {n}]
    /\ UNCHANGED <<mayUse, asked, players, primary, index, current_queue_size, pc, claimVars>>

(* The removal loop is over. *)
AllRemoved(w) ==
    /\ pc[w] = "rm_primary"
    /\ cur[w] = 0
    /\ batch[w] = {}
    /\ Goto(w, "gauge_dec")
    /\ UNCHANGED <<mayUse, asked, players, primary, index, current_queue_size, cur, claimVars, batch>>

-----------------------------------------------------------------------------
(* PlayerPool::remove, for a client that cancels or a worker.               *)

(* The thread leaves remove: a client goes on to the gauge, a worker to its *)
(* next player.                                                             *)
LeaveRemove(t) ==
    /\ IF t \in Clients THEN Goto(t, "gauge_dec") ELSE Goto(t, "rm_primary")
    /\ cur' = [cur EXCEPT ![t] = 0]

(* primary.remove(id) by id: the Player found there is the one whose index  *)
(* key is removed next.                                                     *)
RemovePrimary(t) ==
    /\ pc[t] = "rm_primary"
    /\ cur[t] # 0
    /\ LET i == players[cur[t]].id IN
          /\ primary[i] # 0
          /\ cur' = [cur EXCEPT ![t] = primary[i]]
          /\ primary' = [primary EXCEPT ![i] = 0]
    /\ Goto(t, "rm_index")
    /\ UNCHANGED <<mayUse, asked, players, index, current_queue_size, claimVars, batch>>

(* primary.remove(id) finds nothing: remove returns None early. *)
RemoveAbsent(t) ==
    /\ pc[t] = "rm_primary"
    /\ cur[t] # 0
    /\ primary[players[cur[t]].id] = 0
    /\ LeaveRemove(t)
    /\ UNCHANGED <<mayUse, asked, players, primary, index, current_queue_size, claimVars, batch>>

(* The write section of the index: the entry under the key goes, whichever  *)
(* Player it refers to.                                                     *)
RemoveIndex(t) ==
    /\ pc[t] = "rm_index"
    /\ index' = [index EXCEPT ![Key(cur[t])] = 0]
    /\ LeaveRemove(t)
    /\ UNCHANGED <<mayUse, asked, players, primary, current_queue_size, claimVars, batch>>

(* The operation is over: a client is answered, a worker is free. *)
Finish(t) ==
    \/ t \in Clients /\ Answer(t)
    \/ t \in Workers /\ Goto(t, "idle") /\ UNCHANGED asked

(* Plausible bug: a match counts as one player. *)
GaugeDecOne(t) ==
    /\ pc[t] = "gauge_dec"
    /\ current_queue_size' = current_queue_size - 1
    /\ Finish(t)
    /\ UNCHANGED <<mayUse, players, primary, index, cur, claimVars, batch>>

(* current_queue_size.fetch_sub: one player in cancel, MATCH_SIZE in        *)
(* update_metrics_on_success.                                               *)
GaugeDec(t) ==
    /\ pc[t] = "gauge_dec"
    /\ current_queue_size' =
          current_queue_size - (IF t \in Clients THEN 1 ELSE MATCH_SIZE)
    /\ Finish(t)
    /\ UNCHANGED <<mayUse, players, primary, index, cur, claimVars, batch>>

-----------------------------------------------------------------------------
ClientStep(c) ==
    \/ \E i \in Ids, r \in Ratings : Enqueue(c, i, r)
    \/ \E i \in Ids : EnqueueRefused(c, i)
    \/ InsertPrimary(c) \/ InsertIndex(c) \/ GaugeInc(c)
    \/ \E i \in Ids : CancelUnknown(c, i) \/ CancelGet(c, i)
    \/ Evict(c) \/ EvictRefused(c) \/ Refuse(c)

WorkerStep(w) ==
    \/ Scan(w) \/ Claim(w) \/ ClaimFails(w) \/ Release(w) \/ GiveUp(w)
    \/ BeginMatch(w) \/ Mark(w) \/ AllMarked(w) \/ Panic(w)
    \/ NextToRemove(w) \/ AllRemoved(w)

RemoveStep(t) ==
    RemovePrimary(t) \/ RemoveAbsent(t) \/ RemoveIndex(t) \/ GaugeDec(t)

Next ==
    \/ \E c \in Clients : ClientStep(c)
    \/ \E w \in Workers : WorkerStep(w)
    \/ \E t \in Threads : RemoveStep(t)
    \/ ResetStale

Spec == Init /\ [][Next]_vars

-----------------------------------------------------------------------------
PoolTypeOK ==
    /\ mayUse \in Assignments
    /\ players \in Seq([id : Ids, rating : Ratings, state : PlayerStates])
    /\ primary \in [Ids -> Nat]
    /\ index \in [Keys -> Nat]
    /\ current_queue_size \in Int
    /\ asked \in [Clients -> Ids \cup {NoId}]
    /\ pc \in [Threads -> PoolPCs]
    /\ cur \in [Threads -> Nat]
    /\ candidates \in [Workers -> SUBSET Nat]
    /\ claimed \in [Workers -> SUBSET Nat]
    /\ batch \in [Threads -> SUBSET Nat]

(* No operation is in flight.  An abandoned match stays in flight for ever. *)
Quiet == \A t \in Threads : pc[t] \in {"idle", "dead"}

(* Player n has left the queue and its removal is under way. *)
BeingRemoved(n) ==
    \E t \in Threads : /\ pc[t] \in {"marking", "rm_primary", "rm_index"}
                       /\ cur[t] = n \/ n \in batch[t]

(* Each id is used by one client, which waits for every answer. *)
OneClientPerId ==
    \A c, d \in Clients : c # d => mayUse[c] \cap mayUse[d] = {}

(* No tombstones: an index entry refers to a Player of the primary store or *)
(* to one whose removal is under way (bucket.rs:26-28), as long as no two   *)
(* clients use one id.                                                      *)
IndexSound ==
    OneClientPerId => \A k \in Keys : index[k] # 0 =>
        primary[players[index[k]].id] = index[k] \/ BeingRemoved(index[k])

(* An id is queued at most once (README.md:379): a scan never finds two     *)
(* registrations of one id, which could then be matched with each other.    *)
UniqueRegistration ==
    \A m, n \in range_scan : players[m].id = players[n].id => m = n

(* With no operation in flight the gauge is the number of queued players,   *)
(* as long as no two clients use one id.                                    *)
GaugeExact ==
    OneClientPerId /\ Quiet =>
        current_queue_size = Cardinality({i \in Ids : primary[i] # 0})

(* With no operation in flight every player of the primary store is WAITING,*)
(* or CLAIMED by a worker that has panicked, which the Reaper will undo;    *)
(* also when several clients use one id and remove takes out whatever is    *)
(* registered under it.  No matched or cancelled player lingers, nor one    *)
(* that a rollback forgot, for which enqueue would answer AlreadyQueued and *)
(* cancel CurrentlyBeingMatched for ever.                                   *)
QueuedAreWaiting ==
    Quiet => \A i \in Ids : primary[i] # 0 =>
        \/ players[primary[i]].state = "waiting"
        \/ players[primary[i]].state = "claimed" /\ \E w \in Workers : pc[w] = "dead"

(* With no operation in flight every player of the primary store is in the  *)
(* index, so that range_scan can find it (bucket.rs:17).                    *)
IndexComplete ==
    Quiet => \A i \in Ids : primary[i] # 0 => index[Key(primary[i])] = primary[i]

-----------------------------------------------------------------------------
(* The pool as its callers see it: an id is out, queued, held by a claim,   *)
(* or leaving.                                                              *)
Status(i) ==
    IF primary[i] = 0 THEN "out"
    ELSE CASE players[primary[i]].state = "waiting" -> "queued"
           [] players[primary[i]].state = "claimed" -> "held"
           [] OTHER -> "leaving"

(* What a client's request will be answered, once that is decided.          *)
Decided(c) ==
    LET is(o, k) == [op |-> o, id |-> asked[c], code |-> k] IN
    CASE pc[c] \in {"ins_index", "gauge_inc"} -> is("enqueue", 200)
      [] pc[c] = "already_queued" -> is("enqueue", 409)
      [] pc[c] \in {"rm_primary", "rm_index", "gauge_dec"} -> is("cancel", 200)
      [] pc[c] = "being_matched" -> is("cancel", 409)
      [] pc[c] = "not_found" -> is("cancel", 404)
      [] OTHER -> [op |-> "none", id |-> 0, code |-> 0]

Q == INSTANCE QueueService WITH status <- [i \in Ids |-> Status(i)],
                                answer <- [c \in Clients |-> Decided(c)]

(* The handlers implement QueueService when no two clients use one id: the  *)
(* lock sections of enqueue, cancel and the workers' claims, rollbacks and  *)
(* removals interleave, and still every 200, 404 and 409 is right about the *)
(* queue at a moment within its request.  A cancel may be refused for a     *)
(* player that is held for a moment only and stays queued, as the comment   *)
(* of cancel says (engine/mod.rs:170-172), but for no other queued player.  *)
ImplementsQueue == (OneClientPerId => Q!Init) /\ [][OneClientPerId => Q!Next]_(Q!vars)
=============================================================================
