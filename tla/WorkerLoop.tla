----------------------------- MODULE WorkerLoop -----------------------------
(***************************************************************************)
(* When workers attempt a match, and how the process stops.                 *)
(*                                                                          *)
(*   src/workers/mod.rs     spawn_all, run_worker, run_reaper               *)
(*   src/engine/mod.rs      the notify_one at the end of enqueue            *)
(*   src/main.rs            the signal, the drain and the joins             *)
(*                                                                          *)
(* One poll of a biased select! is three steps, one per branch in its       *)
(* order: the token, the Notify, the interval.  tokio's Notify is external: *)
(* it holds at most one permit, notify_one hands a notification to a        *)
(* registered waiter if there is one, and a waiter dropped with an unused   *)
(* notification passes it on.  Players are only counted: any MATCH_SIZE     *)
(* waiting players can form a match (Scheduling says which ones do).        *)
(***************************************************************************)
EXTENDS Integers, FiniteSets, FiniteSetsExt

CONSTANTS
    Workers,     \* ids 1..worker_count
    Clients,     \* requests being handled at once
    MATCH_SIZE,  \* players per match (10 in the code)
    MaxWaiting,  \* bound: WAITING players
    MaxPanics    \* bound: workers that panic

ASSUME WorkersAssumption == Workers \subseteq Nat \ {0} /\ IsFiniteSet(Workers)
ASSUME MatchSizeAssumption == MATCH_SIZE \in Nat \ {0}
ASSUME BoundsAssumption == MaxWaiting \in Nat /\ MaxPanics \in Nat

VARIABLES
    waiting,     \* number of WAITING players in the pool
    cpc,         \* each client: "idle" or before its notify_one
    permit,      \* Notify: a stored notification
    registered,  \* Notify: the workers whose Notified future is queued
    notified,    \* Notify: the workers whose Notified future was notified
    wpc,         \* where each worker is in run_worker
    due,         \* the workers whose interval has a tick to deliver
    disturbed,   \* claiming workers whose candidates others have touched
    held,        \* players left CLAIMED by each panicked worker
    rpc,         \* where the Reaper is in run_reaper
    shutdown,    \* the CancellationToken is cancelled
    mpc,         \* where main is
    worker_set,  \* main's JoinSet: the number of tasks not joined yet
    unseen,      \* history: a player was inserted after the last scan
    late         \* history: attempts each worker began after the cancellation

poolVars == <<waiting, disturbed, held, unseen>>
notifyVars == <<permit, registered, notified>>
mainVars == <<shutdown, mpc, worker_set>>
vars == <<poolVars, notifyVars, mainVars, cpc, wpc, due, rpc, late>>

WorkerPCs == {"start", "poll", "poll_notify", "poll_tick", "parked",
              "attempt", "claiming", "forming", "exited", "panicked"}
MainPCs == {"serving", "joining", "joined", "timed_out"}

(* The Reaper's task; claims carry the worker id 0 for it. *)
Reaper == 0

Tasks == Workers \cup {Reaper}

Ended(t) == IF t = Reaper THEN rpc = "exited" ELSE wpc[t] \in {"exited", "panicked"}

-----------------------------------------------------------------------------
Init ==
    /\ waiting = 0
    /\ cpc = [c \in Clients |-> "idle"]
    /\ permit = FALSE
    /\ registered = {}
    /\ notified = {}
    /\ wpc = [w \in Workers |-> "start"]
    /\ due = {}
    /\ disturbed = {}
    /\ held = [w \in Workers |-> 0]
    /\ rpc = "start"
    /\ shutdown = FALSE
    /\ mpc = "serving"
    /\ worker_set = Cardinality(Tasks)
    /\ unseen = FALSE
    /\ late = [w \in Workers |-> 0]

Goto(w, where) == wpc' = [wpc EXCEPT ![w] = where]

Claiming == {w \in Workers : wpc[w] = "claiming"}

-----------------------------------------------------------------------------
(* tokio::sync::Notify (external).                                          *)

(* Plausible bug: notify_waiters, which stores no permit, is called. *)
NotifyWaiting(R, N) ==
    \/ R # {} /\ \E w \in R : /\ registered' = R \ {w}
                              /\ notified' = N \cup {w}
                              /\ UNCHANGED permit
    \/ R = {} /\ registered' = R /\ notified' = N /\ UNCHANGED permit

(* A notification for one of the queued waiters R, or for the permit; N are *)
(* the waiters that have one already.                                       *)
NotifyOne(R, N) ==
    \/ R # {} /\ \E w \in R : /\ registered' = R \ {w}
                              /\ notified' = N \cup {w}
                              /\ UNCHANGED permit
    \/ R = {} /\ registered' = R /\ notified' = N /\ permit' = TRUE

(* The Notified future of w is dropped with its select!. *)
DropNotified(w) ==
    \/ w \in notified /\ NotifyOne(registered, notified \ {w})
    \/ w \notin notified /\ registered' = registered \ {w} /\ UNCHANGED <<permit, notified>>

-----------------------------------------------------------------------------
(* Handlers.                                                                *)

(* The process still answers: requests in flight go on after a signal.      *)
Serving == mpc \in {"serving", "joining"}

(* enqueue makes a player visible to scans. *)
EnqueueInsert(c) ==
    /\ cpc[c] = "idle"
    /\ Serving
    /\ waiting < MaxWaiting
    /\ waiting' = waiting + 1
    /\ unseen' = TRUE
    /\ cpc' = [cpc EXCEPT ![c] = "notify"]
    /\ UNCHANGED <<disturbed, held, notifyVars, mainVars, wpc, due, rpc, late>>

(* enqueue's notify_one; a handler in flight gets here after a shutdown too. *)
EnqueueNotify(c) ==
    /\ cpc[c] = "notify"
    /\ NotifyOne(registered, notified)
    /\ cpc' = [cpc EXCEPT ![c] = "idle"]
    /\ UNCHANGED <<poolVars, mainVars, wpc, due, rpc, late>>

(* A cancel takes a player away, perhaps one that a worker is about to claim. *)
Cancel ==
    /\ Serving
    /\ waiting > 0
    /\ waiting' = waiting - 1
    /\ disturbed' = Claiming
    /\ UNCHANGED <<held, unseen, notifyVars, mainVars, cpc, wpc, due, rpc, late>>

-----------------------------------------------------------------------------
(* run_worker.                                                              *)

(* The first tick of the interval completes at once. *)
Start(w) ==
    /\ wpc[w] = "start"
    /\ Goto(w, "poll")
    /\ UNCHANGED <<poolVars, notifyVars, mainVars, cpc, due, rpc, late>>

(* The interval's next tick is due; only the third branch and a parked task *)
(* look at it.                                                              *)
TickDue(w) ==
    /\ wpc[w] \in {"poll_tick", "parked"}
    /\ w \notin due
    /\ due' = due \cup {w}
    /\ UNCHANGED <<poolVars, notifyVars, mainVars, cpc, wpc, rpc, late>>

(* Plausible bug: the token is the last branch instead of the first. *)
PollShutdownLast(w) ==
    /\ wpc[w] = "poll"
    /\ \/ /\ shutdown /\ ~permit /\ w \notin notified /\ w \notin due
          /\ DropNotified(w)
          /\ Goto(w, "exited")
       \/ /\ ~shutdown \/ permit \/ w \in notified \/ w \in due
          /\ Goto(w, "poll_notify")
          /\ UNCHANGED notifyVars
    /\ UNCHANGED <<poolVars, mainVars, cpc, due, rpc, late>>

(* First branch: shutdown.cancelled() ends the loop. *)
PollShutdown(w) ==
    /\ wpc[w] = "poll"
    /\ \/ shutdown /\ DropNotified(w) /\ Goto(w, "exited")
       \/ ~shutdown /\ Goto(w, "poll_notify") /\ UNCHANGED notifyVars
    /\ UNCHANGED <<poolVars, mainVars, cpc, due, rpc, late>>

(* The select! completes and attempt_match is called. *)
BeginAttempt(w) ==
    /\ Goto(w, "attempt")
    /\ late' = [late EXCEPT ![w] = IF shutdown THEN @ + 1 ELSE @]

(* Second branch: a notification or the permit is used, or the new Notified *)
(* future is queued.                                                        *)
PollNotify(w) ==
    /\ wpc[w] = "poll_notify"
    /\ \/ /\ w \in notified
          /\ notified' = notified \ {w}
          /\ BeginAttempt(w)
          /\ UNCHANGED <<permit, registered>>
       \/ /\ w \notin notified \cup registered /\ permit
          /\ permit' = FALSE
          /\ BeginAttempt(w)
          /\ UNCHANGED <<registered, notified>>
       \/ /\ w \notin notified /\ (permit => w \in registered)
          /\ registered' = registered \cup {w}
          /\ Goto(w, "poll_tick")
          /\ UNCHANGED <<permit, notified, late>>
    /\ UNCHANGED <<poolVars, mainVars, cpc, due, rpc>>

(* Plausible bug: there is no interval in the select!. *)
PollNoTick(w) ==
    /\ wpc[w] = "poll_tick"
    /\ Goto(w, "parked")
    /\ UNCHANGED <<poolVars, notifyVars, mainVars, cpc, due, rpc, late>>

(* Third branch: a due tick is used, or the task waits to be woken. *)
PollTick(w) ==
    /\ wpc[w] = "poll_tick"
    /\ \/ /\ w \in due
          /\ due' = due \ {w}
          /\ DropNotified(w)
          /\ BeginAttempt(w)
       \/ /\ w \notin due
          /\ Goto(w, "parked")
          /\ UNCHANGED <<notifyVars, due, late>>
    /\ UNCHANGED <<poolVars, mainVars, cpc, rpc>>

(* Any of the three wakes the task, and the select! is polled from the top. *)
Wake(w) ==
    /\ wpc[w] = "parked"
    /\ shutdown \/ w \in notified \/ w \in due
    /\ Goto(w, "poll")
    /\ UNCHANGED <<poolVars, notifyVars, mainVars, cpc, due, rpc, late>>

-----------------------------------------------------------------------------
(* attempt_match as the loop sees it.                                       *)

(* select_seed and range_scan see MATCH_SIZE players.  Workers that claim   *)
(* at the same time disturb one another.                                    *)
ScanFinds(w) ==
    /\ wpc[w] = "attempt"
    /\ waiting >= MATCH_SIZE
    /\ unseen' = FALSE
    /\ disturbed' = IF Claiming = {} THEN disturbed ELSE Claiming \cup {w}
    /\ Goto(w, "claiming")
    /\ UNCHANGED <<waiting, held, notifyVars, mainVars, cpc, due, rpc, late>>

(* PoolEmpty or InsufficientCandidates; the partial claims of another       *)
(* worker can hide players from the scan.                                   *)
ScanFails(w) ==
    /\ wpc[w] = "attempt"
    /\ waiting < MATCH_SIZE \/ Claiming # {}
    /\ unseen' = FALSE
    /\ Goto(w, "poll")
    /\ UNCHANGED <<waiting, disturbed, held, notifyVars, mainVars, cpc, due, rpc, late>>

(* MATCH_SIZE players are claimed. *)
ClaimSucceeds(w) ==
    /\ wpc[w] = "claiming"
    /\ waiting >= MATCH_SIZE
    /\ waiting' = waiting - MATCH_SIZE
    /\ disturbed' = Claiming \ {w}
    /\ Goto(w, "forming")
    /\ UNCHANGED <<held, unseen, notifyVars, mainVars, cpc, due, rpc, late>>

(* ClaimFailed: what was claimed has been released, without a notify_one. *)
ClaimFails(w) ==
    /\ wpc[w] = "claiming"
    /\ w \in disturbed
    /\ disturbed' = disturbed \ {w}
    /\ Goto(w, "poll")
    /\ UNCHANGED <<waiting, held, unseen, notifyVars, mainVars, cpc, due, rpc, late>>

(* The match is published and counted, and the loop goes on. *)
FormMatch(w) ==
    /\ wpc[w] = "forming"
    /\ Goto(w, "poll")
    /\ UNCHANGED <<poolVars, notifyVars, mainVars, cpc, due, rpc, late>>

(* A panic in phase 4 or 5 ends the task; nothing restarts it, and k of its *)
(* players are still CLAIMED.                                               *)
Panic(w) ==
    /\ wpc[w] = "forming"
    /\ Cardinality({v \in Workers : wpc[v] = "panicked"}) < MaxPanics
    /\ \E k \in 0 .. MATCH_SIZE : held' = [held EXCEPT ![w] = k]
    /\ Goto(w, "panicked")
    /\ due' = due \ {w}
    /\ UNCHANGED <<waiting, disturbed, unseen, notifyVars, mainVars, cpc, rpc, late>>

-----------------------------------------------------------------------------
(* run_reaper.                                                              *)

ReaperStart ==
    /\ rpc = "start"
    /\ rpc' = "parked"
    /\ UNCHANGED <<poolVars, notifyVars, mainVars, cpc, wpc, due, late>>

(* Plausible bug: the Reaper means to recover every claim before it exits. *)
ReaperExitRecovered ==
    /\ rpc = "parked"
    /\ shutdown
    /\ \A w \in Workers : held[w] = 0
    /\ rpc' = "exited"
    /\ UNCHANGED <<poolVars, notifyVars, mainVars, cpc, wpc, due, late>>

(* The token is polled first. *)
ReaperExit ==
    /\ rpc = "parked"
    /\ shutdown
    /\ rpc' = "exited"
    /\ UNCHANGED <<poolVars, notifyVars, mainVars, cpc, wpc, due, late>>

(* A tick that comes when some claim has become stale; the others change    *)
(* nothing.                                                                 *)
ReaperTick ==
    /\ rpc = "parked"
    /\ ~shutdown
    /\ \E w \in Workers : held[w] > 0
    /\ rpc' = "scanning"
    /\ UNCHANGED <<poolVars, notifyVars, mainVars, cpc, wpc, due, late>>

(* reaper_tick makes stale claims WAITING again, without a notify_one. *)
ReaperScan ==
    /\ rpc = "scanning"
    /\ waiting' = waiting + MapThenSumSet(LAMBDA w : held[w], Workers)
    /\ held' = [w \in Workers |-> 0]
    /\ rpc' = "parked"
    /\ UNCHANGED <<disturbed, unseen, notifyVars, mainVars, cpc, wpc, due, late>>

-----------------------------------------------------------------------------
(* main.                                                                    *)

(* main's select! is over: shutdown.cancel().  The sleep of                 *)
(* HTTP_DRAIN_TIMEOUT_SECS is a delay before the joins.                     *)
CancelToken == shutdown' = TRUE /\ mpc' = "joining"

(* SIGINT, SIGTERM or the end of the server, at any time. *)
Signal ==
    /\ mpc = "serving"
    /\ CancelToken
    /\ UNCHANGED <<poolVars, notifyVars, worker_set, cpc, wpc, due, rpc, late>>

(* Plausible bug: the loop ends with the first task joined. *)
JoinOnce ==
    /\ mpc = "joining"
    /\ Cardinality({t \in Tasks : ~Ended(t)}) < worker_set
    /\ worker_set' = worker_set - 1
    /\ mpc' = "joined"
    /\ UNCHANGED <<poolVars, notifyVars, shutdown, cpc, wpc, due, rpc, late>>

(* join_next: one task that exited or panicked, or None when all are joined; *)
(* then, as after a timeout, main logs its final snapshot and returns.      *)
JoinNext ==
    /\ mpc = "joining"
    /\ \/ /\ Cardinality({t \in Tasks : ~Ended(t)}) < worker_set
          /\ worker_set' = worker_set - 1
          /\ UNCHANGED mpc
       \/ /\ worker_set = 0
          /\ mpc' = "joined"
          /\ UNCHANGED worker_set
    /\ UNCHANGED <<poolVars, notifyVars, shutdown, cpc, wpc, due, rpc, late>>

(* The join deadline passes first. *)
JoinTimeout ==
    /\ mpc = "joining"
    /\ mpc' = "timed_out"
    /\ UNCHANGED <<poolVars, notifyVars, shutdown, worker_set, cpc, wpc, due, rpc, late>>

-----------------------------------------------------------------------------
LoopStep(w) ==
    Start(w) \/ PollShutdown(w) \/ PollNotify(w) \/ PollTick(w) \/ Wake(w)

AttemptStep(w) == ScanFinds(w) \/ ScanFails(w) \/ ClaimSucceeds(w) \/ ClaimFails(w) \/ FormMatch(w)

ReaperStep == ReaperStart \/ ReaperExit \/ ReaperTick \/ ReaperScan

(* What main does once the signal has come. *)
ShutdownStep == JoinNext \/ JoinTimeout

Next ==
    \/ \E c \in Clients : EnqueueInsert(c) \/ EnqueueNotify(c)
    \/ Cancel
    \/ \E w \in Workers : LoopStep(w) \/ AttemptStep(w) \/ TickDue(w) \/ Panic(w)
    \/ ReaperStep
    \/ Signal \/ ShutdownStep

Spec == Init /\ [][Next]_vars

(* Tasks that can run are run, timers expire, and main's own timers too. *)
Fairness ==
    /\ \A c \in Clients : WF_vars(EnqueueNotify(c))
    /\ \A w \in Workers : WF_vars(LoopStep(w) \/ AttemptStep(w)) /\ WF_vars(TickDue(w))
    /\ WF_vars(ReaperStep)
    /\ WF_vars(ShutdownStep)

FairSpec == Spec /\ Fairness

-----------------------------------------------------------------------------
(* The types of the control state. *)
ControlTypes ==
    /\ cpc \in [Clients -> {"idle", "notify"}]
    /\ permit \in BOOLEAN
    /\ registered \subseteq Workers
    /\ notified \subseteq Workers
    /\ wpc \in [Workers -> WorkerPCs]
    /\ rpc \in {"start", "parked", "scanning", "exited"}
    /\ shutdown \in BOOLEAN
    /\ worker_set \in Int
    /\ unseen \in BOOLEAN
    /\ late \in [Workers -> Nat]

LoopTypeOK ==
    /\ ControlTypes
    /\ waiting \in Nat
    /\ due \subseteq Workers
    /\ disturbed \subseteq Workers
    /\ held \in [Workers -> 0 .. MATCH_SIZE]
    /\ mpc \in MainPCs

(* No wakeup is lost (workers/mod.rs:150, engine/mod.rs:154): while a       *)
(* player has been inserted that no scan could have seen, either its        *)
(* enqueue has its notify_one still to do, or the permit is stored, or some *)
(* worker holds the notification or is on its way to a scan.  One permit    *)
(* stands for many enqueues, a worker that wakes for its tick passes an     *)
(* unused notification on, and one that exits does so too.                  *)
NoLostWakeup ==
    unseen => \/ \E c \in Clients : cpc[c] = "notify"
              \/ permit
              \/ notified # {}
              \/ \E w \in Workers : wpc[w] = "attempt"

(* After the token is cancelled a worker begins at most one more attempt,   *)
(* whatever notifications and ticks are pending: the one it had already     *)
(* chosen when the token changed (workers/mod.rs:32, main.rs:132: "workers  *)
(* will exit after current attempt").                                       *)
AtMostOneLateAttempt == \A w \in Workers : late[w] <= 1

(* When main reports that all tasks joined and logs its final metrics, no   *)
(* worker is in the middle of a match that the metrics would miss, also if  *)
(* a worker panicked before.                                                *)
FinalMetricsComplete == mpc = "joined" => \A t \in Tasks : Ended(t)

(* MATCH_SIZE waiting players are eventually taken, with no further enqueue *)
(* and also when they came back from a rollback or from the Reaper, neither *)
(* of which notifies: as long as a worker lives and attempts do not disturb *)
(* one another for ever (workers/mod.rs:163-165).                           *)
MatchableAreMatched ==
    waiting >= MATCH_SIZE ~>
        \/ waiting < MATCH_SIZE
        \/ disturbed # {}
        \/ shutdown
        \/ \A w \in Workers : wpc[w] = "panicked"

(* A cancelled token stops every task, whatever is pending for it, and main *)
(* returns.                                                                 *)
ShutdownCompletes ==
    shutdown ~> /\ mpc \in {"joined", "timed_out"}
                /\ \A t \in Tasks : Ended(t)
=============================================================================
