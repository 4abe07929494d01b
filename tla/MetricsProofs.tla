---------------------------- MODULE MetricsProofs ----------------------------
(***************************************************************************)
(* Proofs about Metrics, for every number of workers and clients, every     *)
(* match size and history limit, and any number of panics, at any point of  *)
(* phases 4 and 5.                                                          *)
(***************************************************************************)
EXTENDS Metrics, FiniteSetTheorems, SequenceTheorems, TLAPS

Failures == {"match_attempts_insufficient", "match_attempts_claim_failed"}

Cycle == Add("worker_cycles_total", 1)
FailureUpdates(k) == {Cycle, Add(k, 1)}
RecoverUpdates(n) == {Add("total_stale_claims_recovered", n)}

-----------------------------------------------------------------------------
(* What a thread has still to do.                                           *)

ClientTodo(s) == s \subseteq EnqueueUpdates \/ s \subseteq CancelUpdates

WorkerTodo(s) ==
    \/ \E k \in Failures : s \subseteq FailureUpdates(k)
    \/ \E m \in Matches : s \subseteq {Cycle} \cup SuccessUpdates(m)

ReaperTodo(s) == s = {} \/ \E n \in Nat : s = RecoverUpdates(n)

(* Every thread is somewhere in the updates of one operation, and a worker  *)
(* that has not published its match has not begun those of the success.     *)
TodoInv ==
    /\ \A c \in Clients : ClientTodo(todo[c])
    /\ \A w \in Workers : WorkerTodo(todo[w])
    /\ ReaperTodo(todo[Reaper])
    /\ \A w \in forming : todo[w] \subseteq {Cycle} /\ w \notin panicked

TypeInv == MetricsTypeOK /\ TodoInv

(* The updates of the operations are updates. *)
LEMMA UpdateTypes ==
  /\ EnqueueUpdates \subseteq Updates /\ CancelUpdates \subseteq Updates /\ Cycle \in Updates
  /\ \A k \in Failures : FailureUpdates(k) \subseteq Updates
  /\ \A m \in Matches : SuccessUpdates(m) \subseteq Updates
  /\ \A n \in Nat : RecoverUpdates(n) \subseteq Updates
  BY MetricsAssumption DEF EnqueueUpdates, CancelUpdates, Cycle, FailureUpdates, SuccessUpdates,
     RecoverUpdates, Updates, Add, Accumulate, Counters, Failures

(* The three kinds of threads. *)
LEMMA ThreadKinds ==
  /\ Clients \subseteq Threads /\ Workers \subseteq Threads /\ Reaper \in Threads
  /\ Reaper \notin Clients /\ Reaper \notin Workers
  /\ \A t \in Threads : \/ t \in Clients /\ t \notin Workers /\ t # Reaper
                        \/ t \in Workers /\ t \notin Clients /\ t # Reaper
                        \/ t = Reaper /\ t \notin Clients /\ t \notin Workers
  BY ThreadsAssumption DEF Threads

LEMMA TypeInit == Init => TypeInv
<1> SUFFICES ASSUME Init PROVE TypeInv
  OBVIOUS
<1>1. MetricsTypeOK
  BY DEF Init, MetricsTypeOK
<1>2. (\A t \in Threads : todo[t] = {}) /\ forming = {}
  BY DEF Init
<1> QED
  BY <1>1, <1>2, ThreadKinds DEF TypeInv, TodoInv, ClientTodo, WorkerTodo, ReaperTodo, Failures

(* What an issued update can be. *)
LEMMA Shape ==
  ASSUME TypeInv, NEW t \in Threads, NEW u \in todo[t]
  PROVE  \/ /\ t \in Clients /\ t \notin Workers /\ t # Reaper
            /\ \/ u.to \in {"total_players_enqueued", "total_players_cancelled"} /\ u.by = 1
               \/ u.to = "current_queue_size" /\ u.by \in {1, -1}
         \/ /\ t \in Workers /\ t \notin Clients /\ t # Reaper
            /\ \/ /\ u.to \in {"worker_cycles_total", "match_attempts_insufficient",
                               "match_attempts_claim_failed", "total_matches_created"}
                  /\ u.by = 1
               \/ u.to = "total_players_matched" /\ u.by = MATCH_SIZE
               \/ u.to = "current_queue_size" /\ u.by = -MATCH_SIZE
               \/ u.to = "averages" /\ u.match \in Matches
         \/ /\ t = Reaper /\ t \notin Clients /\ t \notin Workers
            /\ u.to = "total_stale_claims_recovered" /\ u.by \in Nat
            /\ todo[t] = {u}
<1>1. CASE t \in Clients
  <2>1. u \in EnqueueUpdates \/ u \in CancelUpdates
    BY <1>1 DEF TypeInv, TodoInv, ClientTodo
  <2> QED
    BY <1>1, <2>1, ThreadKinds DEF EnqueueUpdates, CancelUpdates, Add
<1>2. CASE t \in Workers
  <2>1. u = Cycle \/ (\E k \in Failures : u = Add(k, 1)) \/ (\E m \in Matches : u \in SuccessUpdates(m))
    BY <1>2 DEF TypeInv, TodoInv, WorkerTodo, FailureUpdates
  <2> QED
    BY <1>2, <2>1, ThreadKinds DEF Cycle, Failures, SuccessUpdates, Add, Accumulate
<1>3. CASE t = Reaper
  <2>1. PICK n \in Nat : todo[t] = RecoverUpdates(n)
    BY <1>3 DEF TypeInv, TodoInv, ReaperTodo
  <2> QED
    BY <1>3, <2>1, ThreadKinds DEF RecoverUpdates, Add
<1> QED
  BY <1>1, <1>2, <1>3, ThreadKinds

(* No thread has two updates of one counter to do. *)
LEMMA Distinct ==
  ASSUME TypeInv, NEW t \in Threads, NEW u \in todo[t], NEW v \in todo[t], u.to = v.to
  PROVE  u = v
<1>1. CASE t \in Clients
  BY <1>1 DEF TypeInv, TodoInv, ClientTodo, EnqueueUpdates, CancelUpdates, Add
<1>2. CASE t \in Workers
  <2>1. CASE \E k \in Failures : todo[t] \subseteq FailureUpdates(k)
    BY <2>1 DEF FailureUpdates, Failures, Cycle, Add
  <2>2. CASE \E m \in Matches : todo[t] \subseteq {Cycle} \cup SuccessUpdates(m)
    BY <2>2 DEF SuccessUpdates, Cycle, Add, Accumulate
  <2> QED
    BY <1>2, <2>1, <2>2 DEF TypeInv, TodoInv, WorkerTodo
<1>3. CASE t = Reaper
  BY <1>3, Shape, ThreadKinds
<1> QED
  BY <1>1, <1>2, <1>3, ThreadKinds

-----------------------------------------------------------------------------
(* Types.                                                                   *)

(* An update changes one counter, or those of the averages. *)
LEMMA AfterType ==
  ASSUME TypeInv, NEW t \in Threads, NEW u \in todo[t]
  PROVE  /\ After(u) \in [Counters -> Int]
         /\ u.to \in Counters =>
              \A k \in Counters : After(u)[k] = IF k = u.to THEN counters[k] + u.by ELSE counters[k]
         /\ u.to \notin Counters =>
              /\ u.to = "averages"
              /\ After(u)["skill_spread_count"] = counters["skill_spread_count"] + 1
              /\ After(u)["team_delta_count"] = counters["team_delta_count"] + 1
              /\ \A k \in Counters \ {"total_wait_time_ms", "skill_spread_sum", "skill_spread_count",
                                      "team_delta_sum", "team_delta_count"} :
                    After(u)[k] = counters[k]
<1>1. counters \in [Counters -> Int]
  BY DEF TypeInv, MetricsTypeOK
<1>2. CASE u.to \in Counters
  <2>1. u.by \in Int
    BY <1>2, Shape, MetricsAssumption DEF Counters
  <2>2. After(u) = [counters EXCEPT ![u.to] = @ + u.by]
    BY <1>2 DEF After
  <2> QED
    BY <1>1, <1>2, <2>1, <2>2
<1>3. CASE u.to \notin Counters
  <2>1. u.to = "averages" /\ u.match \in Matches
    BY <1>3, Shape DEF Counters
  <2>2. u.match.wait \in Int /\ u.match.spread \in Int /\ u.match.delta \in Int
    BY <2>1, MetricsAssumption
  <2>3. After(u) = [counters EXCEPT !["total_wait_time_ms"] = @ + u.match.wait,
                                    !["skill_spread_sum"] = @ + u.match.spread,
                                    !["skill_spread_count"] = @ + 1,
                                    !["team_delta_sum"] = @ + u.match.delta,
                                    !["team_delta_count"] = @ + 1]
    BY <1>3 DEF After
  <2> QED
    BY <1>1, <1>3, <2>1, <2>2, <2>3 DEF Counters
<1> QED
  BY <1>2, <1>3

(* Less to do is still within one operation. *)
LEMMA TypeUpdate ==
  ASSUME TypeInv, NEW t \in Threads, Update(t)
  PROVE  TypeInv'
<1>1. PICK u \in todo[t] : counters' = After(u) /\ todo' = [todo EXCEPT ![t] = @ \ {u}]
  BY DEF Update
<1>2. counters' \in [Counters -> Int]
  BY <1>1, AfterType
<1>3. todo \in [Threads -> SUBSET Updates]
  BY DEF TypeInv, MetricsTypeOK
<1>4. /\ todo' \in [Threads -> SUBSET Updates]
      /\ \A x \in Threads : todo'[x] \subseteq todo[x]
      /\ todo'[Reaper] = todo[Reaper] \/ t = Reaper
  BY <1>1, <1>3, ThreadKinds
<1>5. MetricsTypeOK'
  BY <1>2, <1>4 DEF Update, poolVars, TypeInv, MetricsTypeOK
<1>6. (\A c \in Clients : ClientTodo(todo[c])') /\ (\A w \in Workers : WorkerTodo(todo[w])')
  BY <1>4, ThreadKinds DEF TypeInv, TodoInv, ClientTodo, WorkerTodo
<1>7. ReaperTodo(todo[Reaper])'
  <2>1. CASE t = Reaper
    <3>1. todo[t] = {u}
      BY <2>1, Shape, ThreadKinds
    <3>2. todo'[Reaper] = {}
      BY <1>1, <1>3, <2>1, <3>1, ThreadKinds
    <3> QED
      BY <3>2 DEF ReaperTodo
  <2> QED
    BY <1>4, <2>1 DEF TypeInv, TodoInv, ReaperTodo
<1>8. forming' = forming /\ panicked' = panicked /\ forming \subseteq Threads
  BY ThreadKinds DEF Update, poolVars, TypeInv, MetricsTypeOK
<1> QED
  BY <1>4, <1>5, <1>6, <1>7, <1>8 DEF TypeInv, TodoInv

(* The thread t begins an operation. *)
LEMMA BeginTypes ==
  ASSUME TypeInv, NEW t \in Threads, NEW S \in SUBSET Updates, Begin(t, S)
  PROVE  /\ todo' \in [Threads -> SUBSET Updates]
         /\ todo'[t] = todo[t] \cup S
         /\ \A x \in Threads \ {t} : todo'[x] = todo[x]
  BY DEF Begin, TypeInv, MetricsTypeOK

LEMMA TypeClient ==
  ASSUME TypeInv, NEW c \in Clients, Enqueue(c) \/ Cancel(c)
  PROVE  TypeInv'
<1>1. PICK S \in {EnqueueUpdates, CancelUpdates} : Begin(c, S)
  BY DEF Enqueue, Cancel
<1>2. S \in SUBSET Updates /\ todo[c] = {} /\ c \in Threads
  BY UpdateTypes, ThreadKinds DEF Enqueue, Cancel, Idle
<1>3. /\ todo' \in [Threads -> SUBSET Updates] /\ todo'[c] = S
      /\ \A x \in Threads \ {c} : todo'[x] = todo[x]
  BY <1>1, <1>2, BeginTypes
<1>4. MetricsTypeOK'
  BY <1>3 DEF Enqueue, Cancel, TypeInv, MetricsTypeOK
<1>5. \A x \in Clients : ClientTodo(todo[x])'
  BY <1>1, <1>3, ThreadKinds DEF ClientTodo, TypeInv, TodoInv
<1>6. \A x \in Workers \cup {Reaper} : todo'[x] = todo[x]
  BY <1>3, ThreadKinds
<1>7. forming' = forming /\ panicked' = panicked /\ forming \subseteq Workers
  BY DEF Enqueue, Cancel, TypeInv, MetricsTypeOK
<1> QED
  BY <1>4, <1>5, <1>6, <1>7 DEF TypeInv, TodoInv

LEMMA TypeAttemptFails ==
  ASSUME TypeInv, NEW w \in Workers, AttemptFails(w)
  PROVE  TypeInv'
<1>1. PICK k \in Failures : Begin(w, FailureUpdates(k))
  BY DEF AttemptFails, Failures, FailureUpdates, Cycle
<1>2. FailureUpdates(k) \in SUBSET Updates /\ todo[w] = {} /\ w \in Threads /\ w \notin forming
  BY UpdateTypes, ThreadKinds DEF AttemptFails, Idle
<1>3. /\ todo' \in [Threads -> SUBSET Updates] /\ todo'[w] = FailureUpdates(k)
      /\ \A x \in Threads \ {w} : todo'[x] = todo[x]
  BY <1>1, <1>2, BeginTypes
<1>4. MetricsTypeOK'
  BY <1>3 DEF AttemptFails, poolVars, TypeInv, MetricsTypeOK
<1>5. \A x \in Workers : WorkerTodo(todo[x])'
  BY <1>1, <1>3, ThreadKinds DEF WorkerTodo, TypeInv, TodoInv
<1>6. \A x \in Clients \cup {Reaper} \cup forming : todo'[x] = todo[x]
  BY <1>2, <1>3, ThreadKinds DEF TypeInv, MetricsTypeOK
<1>7. forming' = forming /\ panicked' = panicked
  BY DEF AttemptFails, poolVars
<1> QED
  BY <1>4, <1>5, <1>6, <1>7 DEF TypeInv, TodoInv

LEMMA TypeClaimPlayers ==
  ASSUME TypeInv, NEW w \in Workers, ClaimPlayers(w)
  PROVE  TypeInv'
<1>1. Begin(w, {Cycle}) /\ forming' = forming \cup {w} /\ w \notin panicked
  BY DEF ClaimPlayers, Cycle
<1>2. {Cycle} \in SUBSET Updates /\ todo[w] = {} /\ w \in Threads
  BY UpdateTypes, ThreadKinds DEF ClaimPlayers, Idle
<1>3. /\ todo' \in [Threads -> SUBSET Updates] /\ todo'[w] = {Cycle}
      /\ \A x \in Threads \ {w} : todo'[x] = todo[x]
  BY <1>1, <1>2, BeginTypes
<1>4. MetricsTypeOK'
  <2>1. waiting' \in Nat
    BY MetricsAssumption DEF ClaimPlayers, TypeInv, MetricsTypeOK
  <2> QED
    BY <1>1, <1>3, <2>1 DEF ClaimPlayers, TypeInv, MetricsTypeOK
<1>5. \A x \in Workers : WorkerTodo(todo[x])'
  <2>1. \E k \in Failures : {Cycle} \subseteq FailureUpdates(k)
    BY DEF Failures, FailureUpdates
  <2> QED
    BY <1>3, <2>1, ThreadKinds DEF WorkerTodo, TypeInv, TodoInv
<1>6. \A x \in Clients \cup {Reaper} : todo'[x] = todo[x]
  BY <1>3, ThreadKinds
<1>7. \A x \in forming' : todo'[x] \subseteq {Cycle} /\ x \notin panicked'
  <2>1. panicked' = panicked /\ forming \subseteq Threads
    BY ThreadKinds DEF ClaimPlayers, TypeInv, MetricsTypeOK
  <2> QED
    BY <1>1, <1>3, <2>1 DEF TypeInv, TodoInv
<1> QED
  BY <1>4, <1>5, <1>6, <1>7 DEF TypeInv, TodoInv

(* Publish appends a match to the history and drops the oldest one when     *)
(* there are too many.                                                      *)
LEMMA TypePublish ==
  ASSUME TypeInv, NEW w \in Workers, Publish(w)
  PROVE  /\ TypeInv'
         /\ \E m \in Matches : /\ published' = Append(published, m)
                               /\ Len(history') = IF Len(history) < MATCH_HISTORY_LIMIT
                                                  THEN Len(history) + 1 ELSE Len(history)
                               /\ Begin(w, SuccessUpdates(m))
<1>1. PICK m \in Matches :
         /\ published' = Append(published, m) /\ Begin(w, SuccessUpdates(m))
         /\ history' = IF Len(Append(history, m)) > MATCH_HISTORY_LIMIT
                       THEN Tail(Append(history, m)) ELSE Append(history, m)
  BY DEF Publish
<1>2. /\ history \in Seq(Matches) /\ published \in Seq(Matches) /\ w \in Threads
      /\ w \in forming /\ todo[w] \subseteq {Cycle} /\ SuccessUpdates(m) \in SUBSET Updates
  BY UpdateTypes, ThreadKinds DEF TypeInv, MetricsTypeOK, TodoInv, Publish
<1>3. /\ todo' \in [Threads -> SUBSET Updates] /\ todo'[w] \subseteq {Cycle} \cup SuccessUpdates(m)
      /\ \A x \in Threads \ {w} : todo'[x] = todo[x]
  BY <1>1, <1>2, BeginTypes
<1>4. published' \in Seq(Matches)
  BY <1>1, <1>2
<1>5. /\ history' \in Seq(Matches)
      /\ Len(history') = IF Len(history) < MATCH_HISTORY_LIMIT
                         THEN Len(history) + 1 ELSE Len(history)
  <2> DEFINE h == Append(history, m)
  <2>1. h \in Seq(Matches) /\ Len(h) = Len(history) + 1 /\ h # <<>>
    BY <1>2
  <2>2. Tail(h) \in Seq(Matches) /\ Len(Tail(h)) = Len(h) - 1
    BY <2>1
  <2>3. history' = IF Len(h) > MATCH_HISTORY_LIMIT THEN Tail(h) ELSE h
    BY <1>1
  <2>4. Len(history) \in Nat /\ MATCH_HISTORY_LIMIT \in Nat
    BY <1>2, MetricsAssumption
  <2> HIDE DEF h
  <2> QED
    BY <2>1, <2>2, <2>3, <2>4
<1>6. MetricsTypeOK'
  BY <1>3, <1>4, <1>5 DEF Publish, TypeInv, MetricsTypeOK
<1>7. \A x \in Workers : WorkerTodo(todo[x])'
  BY <1>3, ThreadKinds DEF WorkerTodo, TypeInv, TodoInv
<1>8. \A x \in Clients \cup {Reaper} : todo'[x] = todo[x]
  BY <1>3, ThreadKinds
<1>9. \A x \in forming' : todo'[x] \subseteq {Cycle} /\ x \notin panicked'
  <2>1. forming' = forming \ {w} /\ panicked' = panicked /\ forming \subseteq Threads
    BY ThreadKinds DEF Publish, TypeInv, MetricsTypeOK
  <2> QED
    BY <1>3, <2>1 DEF TypeInv, TodoInv
<1>10. TypeInv'
  BY <1>6, <1>7, <1>8, <1>9 DEF TypeInv, TodoInv
<1> QED
  BY <1>1, <1>5, <1>10

LEMMA TypePanic ==
  ASSUME TypeInv, NEW w \in Workers, Panic(w)
  PROVE  TypeInv'
<1>1. PICK marked \in 0 .. MATCH_SIZE : held' = held + MATCH_SIZE - marked /\ lost' = lost + marked
  BY DEF Panic
<1>2. held' \in Nat /\ lost' \in Nat
  BY <1>1, MetricsAssumption DEF TypeInv, MetricsTypeOK
<1>3. MetricsTypeOK'
  BY <1>2 DEF Panic, TypeInv, MetricsTypeOK
<1> QED
  BY <1>3 DEF Panic, TypeInv, TodoInv

LEMMA TypeRecover ==
  ASSUME TypeInv, Recover
  PROVE  TypeInv'
<1>1. PICK n \in 1 .. held : /\ waiting' = waiting + n /\ held' = held - n
                             /\ Begin(Reaper, RecoverUpdates(n))
  BY DEF Recover, RecoverUpdates
<1>2. n \in Nat /\ RecoverUpdates(n) \in SUBSET Updates /\ todo[Reaper] = {}
  BY <1>1, UpdateTypes DEF Recover, Idle, TypeInv, MetricsTypeOK
<1>3. /\ todo' \in [Threads -> SUBSET Updates] /\ todo'[Reaper] = RecoverUpdates(n)
      /\ \A x \in Threads \ {Reaper} : todo'[x] = todo[x]
  BY <1>1, <1>2, BeginTypes, ThreadKinds
<1>4. waiting' \in Nat /\ held' \in Nat
  BY <1>1 DEF TypeInv, MetricsTypeOK
<1>5. MetricsTypeOK'
  BY <1>3, <1>4 DEF Recover, TypeInv, MetricsTypeOK
<1>6. \A x \in Clients \cup Workers : todo'[x] = todo[x]
  BY <1>3, ThreadKinds
<1>7. ReaperTodo(todo[Reaper])'
  BY <1>2, <1>3 DEF ReaperTodo
<1>8. forming' = forming /\ panicked' = panicked /\ forming \subseteq Workers
  BY DEF Recover, TypeInv, MetricsTypeOK
<1> QED
  BY <1>5, <1>6, <1>7, <1>8 DEF TypeInv, TodoInv

(* The smaller and the larger of two numbers. *)
LEMMA SmallestOf ==
  ASSUME NEW a \in Int, NEW b \in Int
  PROVE  /\ Min({a, b}) = IF a <= b THEN a ELSE b
         /\ Max({a, b}) = IF a >= b THEN a ELSE b
  BY DEF Min, Max

LEMMA TypeListMatches ==
  ASSUME TypeInv, ListMatches
  PROVE  /\ TypeInv'
         /\ listed'.limit \in Nat \ {0}
         /\ Len(listed'.matches) = IF listed'.limit <= Len(history)
                                   THEN listed'.limit ELSE Len(history)
<1>1. PICK asked \in 0 .. MATCH_HISTORY_LIMIT + 1 :
         listed' = [limit |-> Max({asked, 1}), matches |-> recent_matches(Max({asked, 1}))]
  BY DEF ListMatches
<1>2. Max({asked, 1}) \in Nat \ {0}
  <2>1. asked \in Int
    BY MetricsAssumption
  <2>2. Max({asked, 1}) = IF asked >= 1 THEN asked ELSE 1
    BY <2>1, SmallestOf
  <2> QED
    BY <2>1, <2>2
<1> DEFINE limit == Max({asked, 1})
           n == IF limit <= Len(history) THEN limit ELSE Len(history)
<1>3. history \in Seq(Matches)
  BY DEF TypeInv, MetricsTypeOK
<1> HIDE DEF limit
<1>4. limit \in Nat \ {0} /\ n \in 0 .. Len(history)
  BY <1>2, <1>3 DEF limit
<1>5. Min({limit, Len(history)}) = n
  BY <1>3, <1>4, SmallestOf
<1>6. Reverse(history) \in Seq(Matches) /\ Len(Reverse(history)) = Len(history)
  BY <1>3 DEF Reverse
<1>7. recent_matches(limit) \in Seq(Matches) /\ Len(recent_matches(limit)) = n
  <2>1. recent_matches(limit) = SubSeq(Reverse(history), 1, n)
    BY <1>5 DEF recent_matches
  <2> QED
    BY <1>4, <1>6, <2>1
<1>8. listed' = [limit |-> limit, matches |-> recent_matches(limit)]
  BY <1>1 DEF limit
<1>9. MetricsTypeOK'
  BY <1>4, <1>7, <1>8 DEF ListMatches, poolVars, TypeInv, MetricsTypeOK
<1> QED
  BY <1>4, <1>7, <1>8, <1>9 DEF ListMatches, poolVars, TypeInv, TodoInv

LEMMA TypeStep == TypeInv /\ [Next]_vars => TypeInv'
<1> SUFFICES ASSUME TypeInv, [Next]_vars PROVE TypeInv'
  OBVIOUS
<1>1. ASSUME NEW t \in Threads, Update(t) PROVE TypeInv'
  BY <1>1, TypeUpdate
<1>2. ASSUME NEW c \in Clients, Enqueue(c) \/ Cancel(c) PROVE TypeInv'
  BY <1>2, TypeClient
<1>3. ASSUME NEW w \in Workers, AttemptFails(w) PROVE TypeInv'
  BY <1>3, TypeAttemptFails
<1>4. ASSUME NEW w \in Workers, ClaimPlayers(w) PROVE TypeInv'
  BY <1>4, TypeClaimPlayers
<1>5. ASSUME NEW w \in Workers, Publish(w) PROVE TypeInv'
  BY <1>5, TypePublish
<1>6. ASSUME NEW w \in Workers, Panic(w) PROVE TypeInv'
  BY <1>6, TypePanic
<1>7. CASE Recover
  BY <1>7, TypeRecover
<1>8. CASE Load
  <2>1. counters["total_matches_created"] \in Int
    BY DEF TypeInv, MetricsTypeOK, Counters
  <2> QED
    BY <1>8, <2>1 DEF Load, poolVars, TypeInv, TodoInv, MetricsTypeOK
<1>9. CASE ListMatches
  BY <1>9, TypeListMatches
<1>10. CASE UNCHANGED vars
  BY <1>10 DEF vars, poolVars, TypeInv, TodoInv, MetricsTypeOK
<1> QED
  BY <1>1, <1>2, <1>3, <1>4, <1>5, <1>6, <1>7, <1>8, <1>9, <1>10 DEF Next

(* The variables keep their types: the counters are integers, whatever is   *)
(* in flight, and the history is a sequence of matches.                     *)
THEOREM TypesCorrect == Spec => []MetricsTypeOK
<1>1. TypeInv => MetricsTypeOK
  BY DEF TypeInv
<1> QED
  BY <1>1, TypeInit, TypeStep, PTL DEF Spec

-----------------------------------------------------------------------------
(* Who owes what.                                                           *)

(* u adds b to the counter k, or to the averages, where b does not matter. *)
Adds(u, k, b) == u.to = k /\ (k = "averages" \/ u.by = b)
Owes(s, k, b) == \E u \in s : Adds(u, k, b)

(* The threads of T that have still to add b to the counter k. *)
Owing(q, T, k, b) == {t \in T : Owes(q[t], k, b)}
Owed(q, T, k, b) == Cardinality(Owing(q, T, k, b))

One(b) == IF b THEN 1 ELSE 0

(* Sets that differ in at most one element. *)
LEMMA CardinalityChange ==
  ASSUME NEW S, IsFiniteSet(S), NEW S2, NEW t, S2 \ {t} = S \ {t}
  PROVE  /\ IsFiniteSet(S2) /\ Cardinality(S) \in Nat /\ Cardinality(S2) \in Nat
         /\ Cardinality(S2) = Cardinality(S) + One(t \in S2) - One(t \in S)
<1>1. Cardinality(S) \in Nat
  BY FS_CardinalityType
<1>2. CASE t \in S
  <2>1. IsFiniteSet(S \ {t}) /\ Cardinality(S \ {t}) = Cardinality(S) - 1
    BY <1>2, FS_RemoveElement
  <2>2. CASE t \in S2
    <3>1. S2 = S
      BY <1>2, <2>2
    <3> QED
      BY <1>1, <1>2, <3>1 DEF One
  <2>3. CASE t \notin S2
    <3>1. S2 = S \ {t}
      BY <2>3
    <3> QED
      BY <1>1, <1>2, <2>1, <2>3, <3>1, FS_CardinalityType DEF One
  <2> QED
    BY <2>2, <2>3
<1>3. CASE t \notin S
  <2>1. IsFiniteSet(S \cup {t}) /\ Cardinality(S \cup {t}) = Cardinality(S) + 1
    BY <1>3, FS_AddElement
  <2>2. CASE t \in S2
    <3>1. S2 = S \cup {t}
      BY <1>3, <2>2
    <3> QED
      BY <1>1, <1>3, <2>1, <2>2, <3>1, FS_CardinalityType DEF One
  <2>3. CASE t \notin S2
    <3>1. S2 = S
      BY <1>3, <2>3
    <3> QED
      BY <1>1, <1>3, <2>3, <3>1 DEF One
  <2> QED
    BY <2>2, <2>3
<1> QED
  BY <1>2, <1>3

LEMMA OwedType ==
  ASSUME NEW q, NEW T \in {Workers, Clients}, NEW k, NEW b
  PROVE  IsFiniteSet(Owing(q, T, k, b)) /\ Owed(q, T, k, b) \in Nat
<1>1. IsFiniteSet(T)
  BY ThreadsAssumption
<1>2. Owing(q, T, k, b) \subseteq T
  BY DEF Owing
<1>3. IsFiniteSet(Owing(q, T, k, b))
  BY <1>1, <1>2, FS_Subset
<1> QED
  BY <1>3, FS_CardinalityType DEF Owed

(* From q to q2 only the thread t changes, and has s to do. *)
Turns(q, q2, t, s) == t \in Threads /\ q2[t] = s /\ \A x \in Threads \ {t} : q2[x] = q[x]

(* What one thread owes decides how the number of debtors changes. *)
LEMMA OwedChange ==
  ASSUME NEW q, NEW q2, NEW t, NEW s, Turns(q, q2, t, s)
  PROVE  \A T \in {Workers, Clients} : \A k, b :
            Owed(q2, T, k, b) =
               Owed(q, T, k, b) + One(t \in T /\ Owes(s, k, b)) - One(t \in T /\ Owes(q[t], k, b))
<1> SUFFICES ASSUME NEW T \in {Workers, Clients}, NEW k, NEW b
             PROVE  Owed(q2, T, k, b) =
                       Owed(q, T, k, b) + One(t \in T /\ Owes(s, k, b))
                                        - One(t \in T /\ Owes(q[t], k, b))
  OBVIOUS
<1> T \subseteq Threads /\ IsFiniteSet(T)
  BY ThreadsAssumption DEF Threads
<1> DEFINE S == Owing(q, T, k, b)
           S2 == Owing(q2, T, k, b)
<1>1. t \in Threads /\ q2[t] = s /\ \A x \in Threads \ {t} : q2[x] = q[x]
  BY DEF Turns
<1>2. S2 \ {t} = S \ {t}
  BY <1>1 DEF Owing
<1>3. (t \in S2 <=> t \in T /\ Owes(s, k, b)) /\ (t \in S <=> t \in T /\ Owes(q[t], k, b))
  BY <1>1 DEF Owing
<1>4. IsFiniteSet(S)
  BY FS_Subset DEF Owing
<1>5. One(t \in S2) = One(t \in T /\ Owes(s, k, b)) /\ One(t \in S) = One(t \in T /\ Owes(q[t], k, b))
  BY <1>3 DEF One
<1>6. Cardinality(S2) = Cardinality(S) + One(t \in S2) - One(t \in S)
  <2> HIDE DEF S, S2
  <2> QED
    BY <1>2, <1>4, CardinalityChange
<1> QED
  BY <1>5, <1>6 DEF Owed

(* An update of t is taken from what t owes. *)
LEMMA OwedUpdate ==
  ASSUME TypeInv, NEW t \in Threads, NEW u \in todo[t], todo' = [todo EXCEPT ![t] = @ \ {u}]
  PROVE  \A T \in {Workers, Clients} : \A k, b :
            Owed(todo', T, k, b) = Owed(todo, T, k, b) - One(t \in T /\ Adds(u, k, b))
<1> SUFFICES ASSUME NEW T \in {Workers, Clients}, NEW k, NEW b
             PROVE  Owed(todo', T, k, b) = Owed(todo, T, k, b) - One(t \in T /\ Adds(u, k, b))
  OBVIOUS
<1>1. Turns(todo, todo', t, todo[t] \ {u})
  BY DEF Turns, TypeInv, MetricsTypeOK
<1>2. Owed(todo', T, k, b) = Owed(todo, T, k, b) + One(t \in T /\ Owes(todo[t] \ {u}, k, b))
                                                 - One(t \in T /\ Owes(todo[t], k, b))
  BY <1>1, OwedChange
<1>3. Owed(todo, T, k, b) \in Nat
  BY OwedType
<1>4. CASE Adds(u, k, b)
  <2>1. ~Owes(todo[t] \ {u}, k, b)
    BY <1>4, Distinct DEF Owes, Adds
  <2>2. Owes(todo[t], k, b)
    BY <1>4 DEF Owes
  <2> QED
    BY <1>2, <1>3, <1>4, <2>1, <2>2 DEF One
<1>5. CASE ~Adds(u, k, b)
  <2>1. Owes(todo[t] \ {u}, k, b) <=> Owes(todo[t], k, b)
    BY <1>5 DEF Owes
  <2>2. One(t \in T /\ Owes(todo[t] \ {u}, k, b)) = One(t \in T /\ Owes(todo[t], k, b))
    BY <2>1 DEF One
  <2> QED
    BY <1>2, <1>3, <1>5, <2>2 DEF One
<1> QED
  BY <1>4, <1>5

(* The updates of an operation that t begins are owed from now on. *)
LEMMA OwedBegin ==
  ASSUME TypeInv, NEW t \in Threads, NEW S \in SUBSET Updates, Begin(t, S),
         \A u \in todo[t], v \in S : u.to # v.to
  PROVE  \A T \in {Workers, Clients} : \A k, b :
            Owed(todo', T, k, b) = Owed(todo, T, k, b) + One(t \in T /\ Owes(S, k, b))
<1> SUFFICES ASSUME NEW T \in {Workers, Clients}, NEW k, NEW b
             PROVE  Owed(todo', T, k, b) = Owed(todo, T, k, b) + One(t \in T /\ Owes(S, k, b))
  OBVIOUS
<1>1. Turns(todo, todo', t, todo[t] \cup S)
  BY BeginTypes DEF Turns
<1>2. Owed(todo', T, k, b) = Owed(todo, T, k, b) + One(t \in T /\ Owes(todo[t] \cup S, k, b))
                                                 - One(t \in T /\ Owes(todo[t], k, b))
  BY <1>1, OwedChange
<1>3. Owed(todo, T, k, b) \in Nat
  BY OwedType
<1>4. Owes(todo[t] \cup S, k, b) <=> Owes(todo[t], k, b) \/ Owes(S, k, b)
  BY DEF Owes
<1>5. ~(Owes(todo[t], k, b) /\ Owes(S, k, b))
  BY DEF Owes, Adds
<1>6. CASE t \in T /\ Owes(S, k, b)
  BY <1>2, <1>3, <1>4, <1>5, <1>6 DEF One
<1>7. CASE ~(t \in T /\ Owes(S, k, b))
  <2>1. One(t \in T /\ Owes(todo[t] \cup S, k, b)) = One(t \in T /\ Owes(todo[t], k, b))
    BY <1>4, <1>7 DEF One
  <2> QED
    BY <1>2, <1>3, <1>7, <2>1 DEF One
<1> QED
  BY <1>6, <1>7

-----------------------------------------------------------------------------
(* The counters together with what is still owed to them.                   *)

CountTotal(T, k) == counters[k] + Owed(todo, T, k, 1)
AverageTotal(k) == counters[k] + Owed(todo, Workers, "averages", 0)

PlayersTotal ==
    counters["total_players_matched"]
    + MATCH_SIZE * Owed(todo, Workers, "total_players_matched", MATCH_SIZE)

QueueTotal ==
    counters["current_queue_size"]
    + Owed(todo, Clients, "current_queue_size", 1)
    - Owed(todo, Clients, "current_queue_size", -1)
    - MATCH_SIZE * Owed(todo, Workers, "current_queue_size", -MATCH_SIZE)

RecoveredTotal ==
    counters["total_stale_claims_recovered"]
    + (IF todo[Reaper] = {} THEN 0 ELSE (CHOOSE u \in todo[Reaper] : TRUE).by)

ClientCounts == {"total_players_enqueued", "total_players_cancelled"}
WorkerCounts == {"worker_cycles_total", "match_attempts_insufficient",
                 "match_attempts_claim_failed", "total_matches_created"}
AverageCounts == {"skill_spread_count", "team_delta_count"}

LEMMA Multiples ==
  ASSUME NEW a \in Int, NEW b \in Int
  PROVE  a * b \in Int /\ a * (b + 1) = a * b + a /\ a * (b - 1) = a * b - a
  OBVIOUS

LEMMA CountersType ==
  ASSUME TypeInv
  PROVE  /\ \A k \in Counters : counters[k] \in Int
         /\ ClientCounts \subseteq Counters /\ WorkerCounts \subseteq Counters
         /\ AverageCounts \subseteq Counters
         /\ "total_players_matched" \in Counters /\ "current_queue_size" \in Counters
         /\ "total_stale_claims_recovered" \in Counters /\ "averages" \notin Counters
  BY DEF TypeInv, MetricsTypeOK, Counters, ClientCounts, WorkerCounts, AverageCounts

LEMMA TotalTypes ==
  ASSUME TypeInv
  PROVE  /\ \A T \in {Workers, Clients} : \A k \in Counters : CountTotal(T, k) \in Int
         /\ \A k \in Counters : AverageTotal(k) \in Int
         /\ PlayersTotal \in Int /\ QueueTotal \in Int /\ RecoveredTotal \in Int
<1>1. MATCH_SIZE \in Int
  BY MetricsAssumption
<1>2. \A T \in {Workers, Clients} : \A k \in Counters : CountTotal(T, k) \in Int
  BY CountersType, OwedType DEF CountTotal
<1>3. \A k \in Counters : AverageTotal(k) \in Int
  BY CountersType, OwedType DEF AverageTotal
<1>4. /\ Owed(todo, Workers, "total_players_matched", MATCH_SIZE) \in Int
      /\ Owed(todo, Clients, "current_queue_size", 1) \in Int
      /\ Owed(todo, Clients, "current_queue_size", -1) \in Int
      /\ Owed(todo, Workers, "current_queue_size", -MATCH_SIZE) \in Int
  BY OwedType
<1>5. PlayersTotal \in Int
  BY <1>1, <1>4, Multiples, CountersType DEF PlayersTotal
<1>6. QueueTotal \in Int
  BY <1>1, <1>4, Multiples, CountersType DEF QueueTotal
<1>7. RecoveredTotal \in Int
  <2>1. ASSUME todo[Reaper] # {} PROVE (CHOOSE u \in todo[Reaper] : TRUE).by \in Int
    <3>1. (CHOOSE u \in todo[Reaper] : TRUE) \in todo[Reaper]
      BY <2>1
    <3> QED
      BY <3>1, Shape, ThreadKinds
  <2> QED
    BY <2>1, CountersType DEF RecoveredTotal
<1> QED
  BY <1>2, <1>3, <1>5, <1>6, <1>7

(* An update moves an amount from what is owed to the counter: no total     *)
(* changes.                                                                 *)
LEMMA UpdateKeepsTotals ==
  ASSUME TypeInv, NEW t \in Threads, Update(t)
  PROVE  /\ \A k \in ClientCounts : CountTotal(Clients, k)' = CountTotal(Clients, k)
         /\ \A k \in WorkerCounts : CountTotal(Workers, k)' = CountTotal(Workers, k)
         /\ \A k \in AverageCounts : AverageTotal(k)' = AverageTotal(k)
         /\ PlayersTotal' = PlayersTotal /\ QueueTotal' = QueueTotal
         /\ RecoveredTotal' = RecoveredTotal
<1>1. PICK u \in todo[t] : counters' = After(u) /\ todo' = [todo EXCEPT ![t] = @ \ {u}]
  BY DEF Update
<1>2. \A T \in {Workers, Clients} : \A k, b :
         Owed(todo', T, k, b) = Owed(todo, T, k, b) - One(t \in T /\ Adds(u, k, b))
  BY <1>1, OwedUpdate
<1>3. \A T \in {Workers, Clients} : \A k, b : Owed(todo, T, k, b) \in Int
  BY OwedType
<1>4. /\ u.to \in Counters =>
           \A k \in Counters : counters'[k] = IF k = u.to THEN counters[k] + u.by ELSE counters[k]
      /\ u.to \notin Counters =>
           /\ u.to = "averages"
           /\ \A k \in AverageCounts : counters'[k] = counters[k] + 1
           /\ \A k \in Counters \ {"total_wait_time_ms", "skill_spread_sum", "skill_spread_count",
                                   "team_delta_sum", "team_delta_count"} :
                 counters'[k] = counters[k]
  BY <1>1, AfterType DEF AverageCounts
<1>5. MATCH_SIZE \in Int
  BY MetricsAssumption
<1>6. ASSUME NEW k \in ClientCounts PROVE CountTotal(Clients, k)' = CountTotal(Clients, k)
  <2>1. k \in Counters /\ k # "averages"
    BY CountersType DEF ClientCounts
  <2>2. u.to = k <=> (t \in Clients /\ Adds(u, k, 1))
    BY <2>1, Shape DEF Adds, ClientCounts
  <2>3. u.to = k => u.by = 1
    BY <2>1, <2>2 DEF Adds
  <2>4. counters'[k] = counters[k] + One(u.to = k)
    BY <1>4, <2>1, <2>3, CountersType DEF One, ClientCounts
  <2>5. Owed(todo', Clients, k, 1) = Owed(todo, Clients, k, 1) - One(u.to = k)
    BY <1>2, <2>2 DEF One
  <2> QED
    BY <1>3, <2>1, <2>4, <2>5, CountersType DEF CountTotal, One
<1>7. ASSUME NEW k \in WorkerCounts PROVE CountTotal(Workers, k)' = CountTotal(Workers, k)
  <2>1. k \in Counters /\ k # "averages"
    BY CountersType DEF WorkerCounts
  <2>2. u.to = k <=> (t \in Workers /\ Adds(u, k, 1))
    BY <2>1, Shape DEF Adds, WorkerCounts
  <2>3. u.to = k => u.by = 1
    BY <2>1, <2>2 DEF Adds
  <2>4. counters'[k] = counters[k] + One(u.to = k)
    BY <1>4, <2>1, <2>3, CountersType DEF One, WorkerCounts
  <2>5. Owed(todo', Workers, k, 1) = Owed(todo, Workers, k, 1) - One(u.to = k)
    BY <1>2, <2>2 DEF One
  <2> QED
    BY <1>3, <2>1, <2>4, <2>5, CountersType DEF CountTotal, One
<1>8. ASSUME NEW k \in AverageCounts PROVE AverageTotal(k)' = AverageTotal(k)
  <2>1. k \in Counters
    BY CountersType
  <2>2. u.to # k /\ (u.to = "averages" <=> (t \in Workers /\ Adds(u, "averages", 0)))
    BY Shape DEF Adds, AverageCounts
  <2>3. counters'[k] = counters[k] + One(u.to = "averages")
    BY <1>4, <2>1, <2>2, CountersType DEF One
  <2>4. Owed(todo', Workers, "averages", 0) = Owed(todo, Workers, "averages", 0) - One(u.to = "averages")
    BY <1>2, <2>2 DEF One
  <2> QED
    BY <1>3, <2>1, <2>3, <2>4, CountersType DEF AverageTotal, One
<1>9. PlayersTotal' = PlayersTotal
  <2> DEFINE k == "total_players_matched"
             c == counters[k]
             o == Owed(todo, Workers, k, MATCH_SIZE)
  <2>1. k \in Counters /\ c \in Int /\ o \in Int
    BY <1>3, CountersType
  <2>2. u.to = k <=> (t \in Workers /\ Adds(u, k, MATCH_SIZE))
    BY Shape DEF Adds
  <2>3. u.to = k => u.by = MATCH_SIZE
    BY <2>2 DEF Adds
  <2>4. counters'[k] = IF u.to = k THEN c + MATCH_SIZE ELSE c
    BY <1>4, <2>1, <2>3
  <2>5. Owed(todo', Workers, k, MATCH_SIZE) = IF u.to = k THEN o - 1 ELSE o
    <3> HIDE DEF k
    <3>1. Owed(todo', Workers, k, MATCH_SIZE) = o - One(t \in Workers /\ Adds(u, k, MATCH_SIZE))
      BY <1>2
    <3> QED
      BY <2>1, <2>2, <3>1 DEF One
  <2>6. /\ PlayersTotal = c + MATCH_SIZE * o
        /\ PlayersTotal' = counters'[k] + MATCH_SIZE * Owed(todo', Workers, k, MATCH_SIZE)
    BY DEF PlayersTotal
  <2> HIDE DEF k, c, o
  <2>7. CASE u.to = k
    BY <1>5, <2>1, <2>4, <2>5, <2>6, <2>7, Multiples
  <2>8. CASE u.to # k
    BY <2>4, <2>5, <2>6, <2>8
  <2> QED
    BY <2>7, <2>8
<1>10. QueueTotal' = QueueTotal
  <2> DEFINE k == "current_queue_size"
             c == counters[k]
             p == Owed(todo, Clients, k, 1)
             n == Owed(todo, Clients, k, -1)
             o == Owed(todo, Workers, k, -MATCH_SIZE)
  <2>1. k \in Counters /\ c \in Int /\ p \in Int /\ n \in Int /\ o \in Int /\ MATCH_SIZE * o \in Int
    BY <1>3, <1>5, CountersType, Multiples
  <2>2. /\ Owed(todo', Clients, k, 1) = p - One(t \in Clients /\ Adds(u, k, 1))
        /\ Owed(todo', Clients, k, -1) = n - One(t \in Clients /\ Adds(u, k, -1))
        /\ Owed(todo', Workers, k, -MATCH_SIZE) = o - One(t \in Workers /\ Adds(u, k, -MATCH_SIZE))
    BY <1>2
  <2>3. u.to # k => counters'[k] = c
    BY <1>4, <2>1, CountersType
  <2>4. u.to = k => counters'[k] = c + u.by
    BY <1>4, <2>1
  <2>5. u.to = k => \/ t \in Clients /\ t \notin Workers /\ u.by = 1
                    \/ t \in Clients /\ t \notin Workers /\ u.by = -1
                    \/ t \in Workers /\ t \notin Clients /\ u.by = -MATCH_SIZE
    BY Shape
  <2>6. /\ QueueTotal = c + p - n - MATCH_SIZE * o
        /\ QueueTotal' = counters'[k] + Owed(todo', Clients, k, 1) - Owed(todo', Clients, k, -1)
                         - MATCH_SIZE * Owed(todo', Workers, k, -MATCH_SIZE)
    BY DEF QueueTotal
  <2> k # "averages"
    OBVIOUS
  <2> HIDE DEF k, c, p, n, o
  <2>7. CASE u.to # k
    BY <2>1, <2>2, <2>3, <2>6, <2>7 DEF One, Adds
  <2>8. CASE u.to = k /\ t \in Clients /\ t \notin Workers /\ u.by = 1
    BY <2>1, <2>2, <2>4, <2>6, <2>8 DEF One, Adds
  <2>9. CASE u.to = k /\ t \in Clients /\ t \notin Workers /\ u.by = -1
    BY <2>1, <2>2, <2>4, <2>6, <2>9 DEF One, Adds
  <2>10. CASE u.to = k /\ t \in Workers /\ t \notin Clients /\ u.by = -MATCH_SIZE
    <3>1. /\ Owed(todo', Clients, k, 1) = p /\ Owed(todo', Clients, k, -1) = n
          /\ Owed(todo', Workers, k, -MATCH_SIZE) = o - 1
      BY <2>1, <2>2, <2>10 DEF One, Adds
    <3>2. MATCH_SIZE * (o - 1) = MATCH_SIZE * o - MATCH_SIZE
      BY <1>5, <2>1, Multiples
    <3> QED
      BY <1>5, <2>1, <2>4, <2>6, <2>10, <3>1, <3>2
  <2> QED
    BY <2>5, <2>7, <2>8, <2>9, <2>10
<1>11. RecoveredTotal' = RecoveredTotal
  <2> DEFINE k == "total_stale_claims_recovered"
  <2>1. k \in Counters /\ counters[k] \in Int
    BY CountersType
  <2>2. CASE t = Reaper
    <3>1. todo[Reaper] = {u} /\ u.to = k /\ u.by \in Nat
      BY <2>2, Shape, ThreadKinds
    <3>2. todo'[Reaper] = {}
      BY <1>1, <2>2, <3>1, ThreadKinds DEF TypeInv, MetricsTypeOK
    <3>3. counters'[k] = counters[k] + u.by
      BY <1>4, <2>1, <3>1
    <3>4. (CHOOSE v \in {u} : TRUE) = u
      OBVIOUS
    <3> QED
      BY <2>1, <3>1, <3>2, <3>3, <3>4 DEF RecoveredTotal
  <2>3. CASE t # Reaper
    <3>1. u.to # k
      BY <2>3, Shape
    <3>2. todo'[Reaper] = todo[Reaper]
      BY <1>1, <2>3, ThreadKinds DEF TypeInv, MetricsTypeOK
    <3>3. counters'[k] = counters[k]
      BY <1>4, <2>1, <3>1, CountersType
    <3> QED
      BY <3>2, <3>3 DEF RecoveredTotal
  <2> QED
    BY <2>2, <2>3
<1> QED
  BY <1>6, <1>7, <1>8, <1>9, <1>10, <1>11

(* What the operations owe. *)
LEMMA OperationOwes ==
  /\ \A k, b : ~Owes({}, k, b)
  /\ \A k, b : Owes(EnqueueUpdates, k, b) <=>
        ((k = "total_players_enqueued" \/ k = "current_queue_size") /\ b = 1)
  /\ \A k, b : Owes(CancelUpdates, k, b) <=>
        \/ k = "total_players_cancelled" /\ b = 1
        \/ k = "current_queue_size" /\ b = -1
  /\ \A k, b : Owes({Cycle}, k, b) <=> (k = "worker_cycles_total" /\ b = 1)
  /\ \A f \in Failures : \A k, b : Owes(FailureUpdates(f), k, b) <=>
        ((k = "worker_cycles_total" \/ k = f) /\ b = 1)
  /\ \A m \in Matches : \A k, b : Owes(SuccessUpdates(m), k, b) <=>
        \/ k = "total_matches_created" /\ b = 1
        \/ k = "total_players_matched" /\ b = MATCH_SIZE
        \/ k = "current_queue_size" /\ b = -MATCH_SIZE
        \/ k = "averages"
<1>1. \A k, b : ~Owes({}, k, b)
  BY DEF Owes
<1>2. \A k, b : Owes(EnqueueUpdates, k, b) <=>
        ((k = "total_players_enqueued" \/ k = "current_queue_size") /\ b = 1)
  BY DEF Owes, Adds, EnqueueUpdates, Add
<1>3. \A k, b : Owes(CancelUpdates, k, b) <=>
        \/ k = "total_players_cancelled" /\ b = 1
        \/ k = "current_queue_size" /\ b = -1
  BY DEF Owes, Adds, CancelUpdates, Add
<1>4. \A k, b : Owes({Cycle}, k, b) <=> (k = "worker_cycles_total" /\ b = 1)
  BY DEF Owes, Adds, Cycle, Add
<1>5. \A f \in Failures : \A k, b : Owes(FailureUpdates(f), k, b) <=>
        ((k = "worker_cycles_total" \/ k = f) /\ b = 1)
  BY DEF Owes, Adds, FailureUpdates, Failures, Cycle, Add
<1>6. ASSUME NEW m \in Matches, NEW k, NEW b
      PROVE  Owes(SuccessUpdates(m), k, b) <=>
        \/ k = "total_matches_created" /\ b = 1
        \/ k = "total_players_matched" /\ b = MATCH_SIZE
        \/ k = "current_queue_size" /\ b = -MATCH_SIZE
        \/ k = "averages"
  BY DEF Owes, Adds, SuccessUpdates, Add, Accumulate
<1> QED
  BY <1>1, <1>2, <1>3, <1>4, <1>5, <1>6

(* An operation that begins raises the totals by what it owes. *)
LEMMA BeginTotals ==
  ASSUME TypeInv, NEW t \in Threads \ {Reaper}, NEW S \in SUBSET Updates, Begin(t, S),
         \A u \in todo[t], v \in S : u.to # v.to, counters' = counters
  PROVE  /\ \A k \in ClientCounts :
               CountTotal(Clients, k)' = CountTotal(Clients, k) + One(t \in Clients /\ Owes(S, k, 1))
         /\ \A k \in WorkerCounts :
               CountTotal(Workers, k)' = CountTotal(Workers, k) + One(t \in Workers /\ Owes(S, k, 1))
         /\ \A k \in AverageCounts :
               AverageTotal(k)' = AverageTotal(k) + One(t \in Workers /\ Owes(S, "averages", 0))
         /\ PlayersTotal' = PlayersTotal +
               (IF t \in Workers /\ Owes(S, "total_players_matched", MATCH_SIZE)
                THEN MATCH_SIZE ELSE 0)
         /\ QueueTotal' = QueueTotal
               + One(t \in Clients /\ Owes(S, "current_queue_size", 1))
               - One(t \in Clients /\ Owes(S, "current_queue_size", -1))
               - (IF t \in Workers /\ Owes(S, "current_queue_size", -MATCH_SIZE)
                  THEN MATCH_SIZE ELSE 0)
         /\ RecoveredTotal' = RecoveredTotal
<1>1. \A T \in {Workers, Clients} : \A k, b :
         Owed(todo', T, k, b) = Owed(todo, T, k, b) + One(t \in T /\ Owes(S, k, b))
  BY OwedBegin
<1>2. \A T \in {Workers, Clients} : \A k, b : Owed(todo, T, k, b) \in Int
  BY OwedType
<1>3. \A b : One(b) \in Int /\ (b => One(b) = 1) /\ (~b => One(b) = 0)
  BY DEF One
<1>4. MATCH_SIZE \in Int
  BY MetricsAssumption
<1>5. ASSUME NEW k \in ClientCounts
      PROVE  CountTotal(Clients, k)' = CountTotal(Clients, k) + One(t \in Clients /\ Owes(S, k, 1))
  BY <1>1, <1>2, <1>3, CountersType DEF CountTotal
<1>6. ASSUME NEW k \in WorkerCounts
      PROVE  CountTotal(Workers, k)' = CountTotal(Workers, k) + One(t \in Workers /\ Owes(S, k, 1))
  BY <1>1, <1>2, <1>3, CountersType DEF CountTotal
<1>7. ASSUME NEW k \in AverageCounts
      PROVE  AverageTotal(k)' = AverageTotal(k) + One(t \in Workers /\ Owes(S, "averages", 0))
  BY <1>1, <1>2, <1>3, CountersType DEF AverageTotal
<1>8. PlayersTotal' = PlayersTotal +
         (IF t \in Workers /\ Owes(S, "total_players_matched", MATCH_SIZE) THEN MATCH_SIZE ELSE 0)
  <2> DEFINE k == "total_players_matched"
             o == Owed(todo, Workers, k, MATCH_SIZE)
             c == counters[k]
             b == t \in Workers /\ Owes(S, k, MATCH_SIZE)
  <2>1. o \in Int /\ c \in Int
    BY <1>2, CountersType
  <2>2. PlayersTotal = c + MATCH_SIZE * o /\ PlayersTotal' = c + MATCH_SIZE * (o + One(b))
    BY <1>1 DEF PlayersTotal
  <2> HIDE DEF o, c, b
  <2>3. PlayersTotal' = PlayersTotal + (IF b THEN MATCH_SIZE ELSE 0)
    <3>1. CASE b
      BY <1>4, <2>1, <2>2, <3>1, Multiples DEF One
    <3>2. CASE ~b
      <4>1. o + One(b) = o
        BY <2>1, <3>2 DEF One
      <4> QED
        BY <1>4, <2>1, <2>2, <3>2, <4>1, Multiples
    <3> QED
      BY <3>1, <3>2
  <2> QED
    BY <2>3 DEF b
<1>9. QueueTotal' = QueueTotal
         + One(t \in Clients /\ Owes(S, "current_queue_size", 1))
         - One(t \in Clients /\ Owes(S, "current_queue_size", -1))
         - (IF t \in Workers /\ Owes(S, "current_queue_size", -MATCH_SIZE) THEN MATCH_SIZE ELSE 0)
  <2> DEFINE k == "current_queue_size"
             p == Owed(todo, Clients, k, 1)
             n == Owed(todo, Clients, k, -1)
             o == Owed(todo, Workers, k, -MATCH_SIZE)
             c == counters[k]
             bp == One(t \in Clients /\ Owes(S, k, 1))
             bn == One(t \in Clients /\ Owes(S, k, -1))
             b == t \in Workers /\ Owes(S, k, -MATCH_SIZE)
  <2>1. o \in Int /\ c \in Int /\ p \in Int /\ n \in Int /\ bp \in Int /\ bn \in Int
    BY <1>2, <1>3, CountersType
  <2>2. QueueTotal = c + p - n - MATCH_SIZE * o
    BY DEF QueueTotal
  <2>3. QueueTotal' = c + (p + bp) - (n + bn) - MATCH_SIZE * (o + One(b))
    BY <1>1 DEF QueueTotal
  <2> HIDE DEF p, n, o, c, b, bp, bn
  <2>4. MATCH_SIZE * (o + One(b)) = MATCH_SIZE * o + (IF b THEN MATCH_SIZE ELSE 0)
    <3>1. CASE b
      BY <1>4, <2>1, <3>1, Multiples DEF One
    <3>2. CASE ~b
      <4>1. o + One(b) = o
        BY <2>1, <3>2 DEF One
      <4> QED
        BY <1>4, <2>1, <3>2, <4>1, Multiples
    <3> QED
      BY <3>1, <3>2
  <2>5. MATCH_SIZE * o \in Int
    BY <1>4, <2>1, Multiples
  <2>6. QueueTotal' = QueueTotal + bp - bn - (IF b THEN MATCH_SIZE ELSE 0)
    BY <1>4, <2>1, <2>2, <2>3, <2>4, <2>5
  <2> QED
    BY <2>6 DEF b, bp, bn
<1>10. RecoveredTotal' = RecoveredTotal
  <2>1. todo'[Reaper] = todo[Reaper]
    BY BeginTypes, ThreadKinds
  <2> QED
    BY <2>1 DEF RecoveredTotal
<1> QED
  BY <1>5, <1>6, <1>7, <1>8, <1>9, <1>10

-----------------------------------------------------------------------------
(* The balances, with everything in flight.                                 *)

Forming == Cardinality(forming)
Panicked == Cardinality(panicked)

AttemptsBalance ==
    CountTotal(Workers, "worker_cycles_total")
        = CountTotal(Workers, "match_attempts_insufficient")
          + CountTotal(Workers, "match_attempts_claim_failed")
          + CountTotal(Workers, "total_matches_created") + Forming + Panicked

QueueBalance == QueueTotal = waiting + held + lost + MATCH_SIZE * Forming

EnqueuedBalance ==
    CountTotal(Clients, "total_players_enqueued")
        = QueueTotal + CountTotal(Clients, "total_players_cancelled") + PlayersTotal

RecoveredBalance == RecoveredTotal + held + lost = MATCH_SIZE * Panicked

MatchesBalance ==
    /\ PlayersTotal = MATCH_SIZE * CountTotal(Workers, "total_matches_created")
    /\ AverageTotal("skill_spread_count") = CountTotal(Workers, "total_matches_created")
    /\ AverageTotal("team_delta_count") = CountTotal(Workers, "total_matches_created")
    /\ CountTotal(Workers, "total_matches_created") = Len(published)

Balance ==
    /\ AttemptsBalance /\ QueueBalance /\ EnqueuedBalance
    /\ RecoveredBalance /\ MatchesBalance

(* All that the balances speak of are integers. *)
LEMMA BalanceTypes ==
  ASSUME TypeInv
  PROVE  /\ \A k \in ClientCounts : CountTotal(Clients, k) \in Int
         /\ \A k \in WorkerCounts : CountTotal(Workers, k) \in Int
         /\ \A k \in AverageCounts : AverageTotal(k) \in Int
         /\ PlayersTotal \in Int /\ QueueTotal \in Int /\ RecoveredTotal \in Int
         /\ waiting \in Nat /\ held \in Nat /\ lost \in Nat
         /\ IsFiniteSet(forming) /\ IsFiniteSet(panicked)
         /\ Forming \in Nat /\ Panicked \in Nat /\ Len(published) \in Nat
         /\ MATCH_SIZE \in Nat /\ MATCH_SIZE * Forming \in Int /\ MATCH_SIZE * Panicked \in Int
<1>1. MATCH_SIZE \in Nat /\ waiting \in Nat /\ held \in Nat /\ lost \in Nat /\ Len(published) \in Nat
  BY MetricsAssumption DEF TypeInv, MetricsTypeOK
<1>2. IsFiniteSet(forming) /\ IsFiniteSet(panicked)
  BY ThreadsAssumption, FS_Subset DEF TypeInv, MetricsTypeOK
<1>3. Forming \in Nat /\ Panicked \in Nat
  BY <1>2, FS_CardinalityType DEF Forming, Panicked
<1>4. MATCH_SIZE * Forming \in Int /\ MATCH_SIZE * Panicked \in Int
  BY <1>1, <1>3, Multiples
<1> QED
  BY <1>1, <1>2, <1>3, <1>4, TotalTypes, CountersType

LEMMA BalanceInit == Init => Balance
<1> SUFFICES ASSUME Init PROVE Balance
  OBVIOUS
<1>1. \A T \in {Workers, Clients} : \A k, b : Owed(todo, T, k, b) = 0
  <2> SUFFICES ASSUME NEW T \in {Workers, Clients}, NEW k, NEW b PROVE Owed(todo, T, k, b) = 0
    OBVIOUS
  <2>1. Owing(todo, T, k, b) = {}
    BY OperationOwes, ThreadKinds DEF Owing, Init
  <2> QED
    BY <2>1, FS_EmptySet DEF Owed
<1>2. \A k \in Counters : counters[k] = 0
  BY DEF Init
<1>3. MATCH_SIZE * 0 = 0
  BY MetricsAssumption
<1>4. /\ \A k \in ClientCounts : CountTotal(Clients, k) = 0
      /\ \A k \in WorkerCounts : CountTotal(Workers, k) = 0
      /\ \A k \in AverageCounts : AverageTotal(k) = 0
  BY <1>1, <1>2, TypeInit, CountersType DEF CountTotal, AverageTotal
<1>5. PlayersTotal = 0 /\ QueueTotal = 0
  <2>1. counters["total_players_matched"] = 0 /\ counters["current_queue_size"] = 0
    BY <1>2, TypeInit, CountersType
  <2>2. /\ Owed(todo, Workers, "total_players_matched", MATCH_SIZE) = 0
        /\ Owed(todo, Clients, "current_queue_size", 1) = 0
        /\ Owed(todo, Clients, "current_queue_size", -1) = 0
        /\ Owed(todo, Workers, "current_queue_size", -MATCH_SIZE) = 0
    BY <1>1
  <2> QED
    BY <1>3, <2>1, <2>2 DEF PlayersTotal, QueueTotal
<1>6. RecoveredTotal = 0
  BY <1>2, TypeInit, CountersType, ThreadKinds DEF RecoveredTotal, Init
<1>7. Forming = 0 /\ Panicked = 0 /\ Len(published) = 0 /\ waiting = 0 /\ held = 0 /\ lost = 0
  BY FS_EmptySet DEF Init, Forming, Panicked
<1> QED
  BY <1>3, <1>4, <1>5, <1>6, <1>7
  DEF Balance, AttemptsBalance, QueueBalance, EnqueuedBalance, RecoveredBalance, MatchesBalance,
      ClientCounts, WorkerCounts, AverageCounts

(* A step that leaves all totals and players alone. *)
LEMMA BalanceKept ==
  ASSUME Balance, UNCHANGED <<poolVars, published>>,
         \A k \in ClientCounts : CountTotal(Clients, k)' = CountTotal(Clients, k),
         \A k \in WorkerCounts : CountTotal(Workers, k)' = CountTotal(Workers, k),
         \A k \in AverageCounts : AverageTotal(k)' = AverageTotal(k),
         PlayersTotal' = PlayersTotal, QueueTotal' = QueueTotal, RecoveredTotal' = RecoveredTotal
  PROVE  Balance'
<1>1. Forming' = Forming /\ Panicked' = Panicked
  BY DEF Forming, Panicked, poolVars
<1> QED
  BY <1>1 DEF Balance, AttemptsBalance, QueueBalance, EnqueuedBalance, RecoveredBalance,
     MatchesBalance, ClientCounts, WorkerCounts, AverageCounts, poolVars

LEMMA BalanceUpdate ==
  ASSUME TypeInv, Balance, NEW t \in Threads, Update(t)
  PROVE  Balance'
  BY UpdateKeepsTotals, BalanceKept DEF Update

LEMMA BalanceRead ==
  ASSUME Balance, UNCHANGED <<poolVars, published, counters, todo>>
  PROVE  Balance'
<1>1. /\ \A k \in ClientCounts : CountTotal(Clients, k)' = CountTotal(Clients, k)
      /\ \A k \in WorkerCounts : CountTotal(Workers, k)' = CountTotal(Workers, k)
      /\ \A k \in AverageCounts : AverageTotal(k)' = AverageTotal(k)
      /\ PlayersTotal' = PlayersTotal /\ QueueTotal' = QueueTotal /\ RecoveredTotal' = RecoveredTotal
  BY DEF CountTotal, AverageTotal, PlayersTotal, QueueTotal, RecoveredTotal
<1> QED
  BY <1>1, BalanceKept

(* A client's operation leaves the totals of the workers alone. *)
LEMMA ClientTotals ==
  ASSUME TypeInv, NEW c \in Clients, NEW S \in {EnqueueUpdates, CancelUpdates}, Begin(c, S),
         todo[c] = {}, counters' = counters
  PROVE  /\ \A k \in ClientCounts :
               CountTotal(Clients, k)' = CountTotal(Clients, k) + One(Owes(S, k, 1))
         /\ \A k \in WorkerCounts : CountTotal(Workers, k)' = CountTotal(Workers, k)
         /\ \A k \in AverageCounts : AverageTotal(k)' = AverageTotal(k)
         /\ PlayersTotal' = PlayersTotal
         /\ QueueTotal' = QueueTotal + One(Owes(S, "current_queue_size", 1))
                                     - One(Owes(S, "current_queue_size", -1))
         /\ RecoveredTotal' = RecoveredTotal
<1>1. c \in Threads \ {Reaper} /\ c \notin Workers /\ S \in SUBSET Updates
  BY ThreadKinds, UpdateTypes
<1>2. /\ \A k \in ClientCounts :
            CountTotal(Clients, k)' = CountTotal(Clients, k) + One(c \in Clients /\ Owes(S, k, 1))
      /\ \A k \in WorkerCounts :
            CountTotal(Workers, k)' = CountTotal(Workers, k) + One(c \in Workers /\ Owes(S, k, 1))
      /\ \A k \in AverageCounts :
            AverageTotal(k)' = AverageTotal(k) + One(c \in Workers /\ Owes(S, "averages", 0))
      /\ PlayersTotal' = PlayersTotal +
            (IF c \in Workers /\ Owes(S, "total_players_matched", MATCH_SIZE)
             THEN MATCH_SIZE ELSE 0)
      /\ QueueTotal' = QueueTotal
            + One(c \in Clients /\ Owes(S, "current_queue_size", 1))
            - One(c \in Clients /\ Owes(S, "current_queue_size", -1))
            - (IF c \in Workers /\ Owes(S, "current_queue_size", -MATCH_SIZE)
               THEN MATCH_SIZE ELSE 0)
      /\ RecoveredTotal' = RecoveredTotal
  BY <1>1, BeginTotals
<1>3. \A k \in ClientCounts :
         CountTotal(Clients, k)' = CountTotal(Clients, k) + One(Owes(S, k, 1))
  BY <1>2 DEF One
<1>4. ASSUME NEW k \in WorkerCounts PROVE CountTotal(Workers, k)' = CountTotal(Workers, k)
  <2>1. One(c \in Workers /\ Owes(S, k, 1)) = 0
    BY <1>1 DEF One
  <2>2. CountTotal(Workers, k)' = CountTotal(Workers, k) + 0 /\ CountTotal(Workers, k) \in Int
    BY <1>2, <2>1, BalanceTypes
  <2> QED
    BY <2>2
<1>5. ASSUME NEW k \in AverageCounts PROVE AverageTotal(k)' = AverageTotal(k)
  <2>1. One(c \in Workers /\ Owes(S, "averages", 0)) = 0
    BY <1>1 DEF One
  <2>2. AverageTotal(k)' = AverageTotal(k) + 0 /\ AverageTotal(k) \in Int
    BY <1>2, <2>1, BalanceTypes
  <2> QED
    BY <2>2
<1>6. PlayersTotal' = PlayersTotal
  BY <1>1, <1>2, BalanceTypes
<1>7. QueueTotal' = QueueTotal + One(Owes(S, "current_queue_size", 1))
                               - One(Owes(S, "current_queue_size", -1))
  BY <1>1, <1>2, BalanceTypes DEF One
<1> QED
  BY <1>2, <1>3, <1>4, <1>5, <1>6, <1>7

LEMMA BalanceClient ==
  ASSUME TypeInv, Balance, NEW c \in Clients, Enqueue(c) \/ Cancel(c)
  PROVE  Balance'
<1> DEFINE E == CountTotal(Clients, "total_players_enqueued")
           C == CountTotal(Clients, "total_players_cancelled")
<1>1. CASE Enqueue(c)
  <2>1. /\ Begin(c, EnqueueUpdates) /\ todo[c] = {} /\ counters' = counters /\ waiting' = waiting + 1
        /\ UNCHANGED <<held, lost, forming, panicked, published>>
    BY <1>1 DEF Enqueue, Idle
  <2>2. E' = E + 1 /\ C' = C /\ QueueTotal' = QueueTotal + 1
    <3>1. /\ Owes(EnqueueUpdates, "total_players_enqueued", 1)
          /\ ~Owes(EnqueueUpdates, "total_players_cancelled", 1)
          /\ Owes(EnqueueUpdates, "current_queue_size", 1)
          /\ ~Owes(EnqueueUpdates, "current_queue_size", -1)
      BY OperationOwes
    <3>2. /\ One(Owes(EnqueueUpdates, "total_players_enqueued", 1)) = 1
          /\ One(Owes(EnqueueUpdates, "total_players_cancelled", 1)) = 0
          /\ One(Owes(EnqueueUpdates, "current_queue_size", 1)) = 1
          /\ One(Owes(EnqueueUpdates, "current_queue_size", -1)) = 0
      BY <3>1 DEF One
    <3>3. /\ E' = E + One(Owes(EnqueueUpdates, "total_players_enqueued", 1))
          /\ C' = C + One(Owes(EnqueueUpdates, "total_players_cancelled", 1))
          /\ QueueTotal' = QueueTotal + One(Owes(EnqueueUpdates, "current_queue_size", 1))
                                      - One(Owes(EnqueueUpdates, "current_queue_size", -1))
      BY <2>1, ClientTotals DEF ClientCounts
    <3>4. E \in Int /\ C \in Int /\ QueueTotal \in Int
      BY BalanceTypes DEF ClientCounts
    <3> HIDE DEF E, C
    <3> QED
      BY <3>2, <3>3, <3>4
  <2>3. /\ \A k \in WorkerCounts : CountTotal(Workers, k)' = CountTotal(Workers, k)
        /\ \A k \in AverageCounts : AverageTotal(k)' = AverageTotal(k)
        /\ PlayersTotal' = PlayersTotal /\ RecoveredTotal' = RecoveredTotal
    BY <2>1, ClientTotals
  <2>4. Forming' = Forming /\ Panicked' = Panicked
    BY <2>1 DEF Forming, Panicked
  <2>5. QueueBalance' /\ EnqueuedBalance'
    <3>1. /\ QueueTotal = waiting + held + lost + MATCH_SIZE * Forming
          /\ E = QueueTotal + C + PlayersTotal
      BY DEF Balance, QueueBalance, EnqueuedBalance
    <3>2. /\ E \in Int /\ C \in Int /\ QueueTotal \in Int /\ PlayersTotal \in Int
          /\ waiting \in Int /\ held \in Int /\ lost \in Int /\ MATCH_SIZE * Forming \in Int
      BY BalanceTypes DEF ClientCounts
    <3> HIDE DEF E, C
    <3>3. /\ QueueTotal' = waiting' + held' + lost' + MATCH_SIZE * Forming'
          /\ E' = QueueTotal' + C' + PlayersTotal'
      BY <2>1, <2>2, <2>3, <2>4, <3>1, <3>2
    <3> QED
      BY <3>3 DEF QueueBalance, EnqueuedBalance, E, C
  <2> QED
    BY <2>1, <2>3, <2>4, <2>5
    DEF Balance, AttemptsBalance, RecoveredBalance, MatchesBalance, WorkerCounts, AverageCounts
<1>2. CASE Cancel(c)
  <2>1. /\ Begin(c, CancelUpdates) /\ todo[c] = {} /\ counters' = counters /\ waiting' = waiting - 1
        /\ UNCHANGED <<held, lost, forming, panicked, published>>
    BY <1>2 DEF Cancel, Idle
  <2>2. E' = E /\ C' = C + 1 /\ QueueTotal' = QueueTotal - 1
    <3>1. /\ ~Owes(CancelUpdates, "total_players_enqueued", 1)
          /\ Owes(CancelUpdates, "total_players_cancelled", 1)
          /\ ~Owes(CancelUpdates, "current_queue_size", 1)
          /\ Owes(CancelUpdates, "current_queue_size", -1)
      BY OperationOwes
    <3>2. /\ One(Owes(CancelUpdates, "total_players_enqueued", 1)) = 0
          /\ One(Owes(CancelUpdates, "total_players_cancelled", 1)) = 1
          /\ One(Owes(CancelUpdates, "current_queue_size", 1)) = 0
          /\ One(Owes(CancelUpdates, "current_queue_size", -1)) = 1
      BY <3>1 DEF One
    <3>3. /\ E' = E + One(Owes(CancelUpdates, "total_players_enqueued", 1))
          /\ C' = C + One(Owes(CancelUpdates, "total_players_cancelled", 1))
          /\ QueueTotal' = QueueTotal + One(Owes(CancelUpdates, "current_queue_size", 1))
                                      - One(Owes(CancelUpdates, "current_queue_size", -1))
      BY <2>1, ClientTotals DEF ClientCounts
    <3>4. E \in Int /\ C \in Int /\ QueueTotal \in Int
      BY BalanceTypes DEF ClientCounts
    <3> HIDE DEF E, C
    <3> QED
      BY <3>2, <3>3, <3>4
  <2>3. /\ \A k \in WorkerCounts : CountTotal(Workers, k)' = CountTotal(Workers, k)
        /\ \A k \in AverageCounts : AverageTotal(k)' = AverageTotal(k)
        /\ PlayersTotal' = PlayersTotal /\ RecoveredTotal' = RecoveredTotal
    BY <2>1, ClientTotals
  <2>4. Forming' = Forming /\ Panicked' = Panicked
    BY <2>1 DEF Forming, Panicked
  <2>5. QueueBalance' /\ EnqueuedBalance'
    <3>1. /\ QueueTotal = waiting + held + lost + MATCH_SIZE * Forming
          /\ E = QueueTotal + C + PlayersTotal
      BY DEF Balance, QueueBalance, EnqueuedBalance
    <3>2. /\ E \in Int /\ C \in Int /\ QueueTotal \in Int /\ PlayersTotal \in Int
          /\ waiting \in Int /\ held \in Int /\ lost \in Int /\ MATCH_SIZE * Forming \in Int
      BY BalanceTypes DEF ClientCounts
    <3> HIDE DEF E, C
    <3>3. /\ QueueTotal' = waiting' + held' + lost' + MATCH_SIZE * Forming'
          /\ E' = QueueTotal' + C' + PlayersTotal'
      BY <2>1, <2>2, <2>3, <2>4, <3>1, <3>2
    <3> QED
      BY <3>3 DEF QueueBalance, EnqueuedBalance, E, C
  <2> QED
    BY <2>1, <2>3, <2>4, <2>5
    DEF Balance, AttemptsBalance, RecoveredBalance, MatchesBalance, WorkerCounts, AverageCounts
<1> QED
  BY <1>1, <1>2

(* A worker's operation leaves the totals of the clients alone. *)
LEMMA WorkerTotals ==
  ASSUME TypeInv, NEW w \in Workers, NEW S \in SUBSET Updates, Begin(w, S),
         \A u \in todo[w], v \in S : u.to # v.to, counters' = counters
  PROVE  /\ \A k \in ClientCounts : CountTotal(Clients, k)' = CountTotal(Clients, k)
         /\ \A k \in WorkerCounts :
               CountTotal(Workers, k)' = CountTotal(Workers, k) + One(Owes(S, k, 1))
         /\ \A k \in AverageCounts :
               AverageTotal(k)' = AverageTotal(k) + One(Owes(S, "averages", 0))
         /\ PlayersTotal' = PlayersTotal +
               (IF Owes(S, "total_players_matched", MATCH_SIZE) THEN MATCH_SIZE ELSE 0)
         /\ QueueTotal' = QueueTotal -
               (IF Owes(S, "current_queue_size", -MATCH_SIZE) THEN MATCH_SIZE ELSE 0)
         /\ RecoveredTotal' = RecoveredTotal
<1>1. w \in Threads \ {Reaper} /\ w \notin Clients
  BY ThreadKinds
<1>2. /\ \A k \in ClientCounts :
            CountTotal(Clients, k)' = CountTotal(Clients, k) + One(w \in Clients /\ Owes(S, k, 1))
      /\ \A k \in WorkerCounts :
            CountTotal(Workers, k)' = CountTotal(Workers, k) + One(w \in Workers /\ Owes(S, k, 1))
      /\ \A k \in AverageCounts :
            AverageTotal(k)' = AverageTotal(k) + One(w \in Workers /\ Owes(S, "averages", 0))
      /\ PlayersTotal' = PlayersTotal +
            (IF w \in Workers /\ Owes(S, "total_players_matched", MATCH_SIZE)
             THEN MATCH_SIZE ELSE 0)
      /\ QueueTotal' = QueueTotal
            + One(w \in Clients /\ Owes(S, "current_queue_size", 1))
            - One(w \in Clients /\ Owes(S, "current_queue_size", -1))
            - (IF w \in Workers /\ Owes(S, "current_queue_size", -MATCH_SIZE)
               THEN MATCH_SIZE ELSE 0)
      /\ RecoveredTotal' = RecoveredTotal
  BY <1>1, BeginTotals
<1>3. \A k \in ClientCounts : CountTotal(Clients, k)' = CountTotal(Clients, k)
  BY <1>1, <1>2, BalanceTypes DEF One
<1>4. /\ \A k \in WorkerCounts :
            CountTotal(Workers, k)' = CountTotal(Workers, k) + One(Owes(S, k, 1))
      /\ \A k \in AverageCounts :
            AverageTotal(k)' = AverageTotal(k) + One(Owes(S, "averages", 0))
  BY <1>2 DEF One
<1>5. QueueTotal' = QueueTotal -
         (IF Owes(S, "current_queue_size", -MATCH_SIZE) THEN MATCH_SIZE ELSE 0)
  BY <1>1, <1>2, BalanceTypes DEF One
<1> QED
  BY <1>2, <1>3, <1>4, <1>5

LEMMA BalanceAttemptFails ==
  ASSUME TypeInv, Balance, NEW w \in Workers, AttemptFails(w)
  PROVE  Balance'
<1>1. PICK f \in Failures : Begin(w, FailureUpdates(f))
  BY DEF AttemptFails, Failures, FailureUpdates, Cycle
<1>2. /\ FailureUpdates(f) \in SUBSET Updates /\ todo[w] = {} /\ counters' = counters
      /\ UNCHANGED <<poolVars, published>>
  BY UpdateTypes DEF AttemptFails, Idle
<1> DEFINE S == FailureUpdates(f)
           N(k) == CountTotal(Workers, k)
<1>3. /\ \A k \in ClientCounts : CountTotal(Clients, k)' = CountTotal(Clients, k)
      /\ \A k \in WorkerCounts : N(k)' = N(k) + One(Owes(S, k, 1))
      /\ \A k \in AverageCounts : AverageTotal(k)' = AverageTotal(k) + One(Owes(S, "averages", 0))
      /\ PlayersTotal' = PlayersTotal +
               (IF Owes(S, "total_players_matched", MATCH_SIZE) THEN MATCH_SIZE ELSE 0)
      /\ QueueTotal' = QueueTotal -
               (IF Owes(S, "current_queue_size", -MATCH_SIZE) THEN MATCH_SIZE ELSE 0)
      /\ RecoveredTotal' = RecoveredTotal
  BY <1>1, <1>2, WorkerTotals
<1>4. /\ \A k, b : Owes(S, k, b) <=> ((k = "worker_cycles_total" \/ k = f) /\ b = 1)
      /\ f = "match_attempts_insufficient" \/ f = "match_attempts_claim_failed"
  BY OperationOwes DEF Failures
<1> HIDE DEF S
<1>5. /\ ~Owes(S, "averages", 0) /\ ~Owes(S, "total_players_matched", MATCH_SIZE)
      /\ ~Owes(S, "current_queue_size", -MATCH_SIZE) /\ ~Owes(S, "total_matches_created", 1)
      /\ Owes(S, "worker_cycles_total", 1)
      /\ Owes(S, "match_attempts_insufficient", 1) <=> f = "match_attempts_insufficient"
      /\ Owes(S, "match_attempts_claim_failed", 1) <=> f = "match_attempts_claim_failed"
  BY <1>4
<1>6. /\ PlayersTotal' = PlayersTotal /\ QueueTotal' = QueueTotal
      /\ \A k \in AverageCounts : AverageTotal(k)' = AverageTotal(k)
  BY <1>3, <1>5, BalanceTypes DEF One
<1>7. /\ N("worker_cycles_total")' = N("worker_cycles_total") + 1
      /\ N("total_matches_created")' = N("total_matches_created")
      /\ N("match_attempts_insufficient")' \in Int /\ N("match_attempts_claim_failed")' \in Int
      /\ N("match_attempts_insufficient")' + N("match_attempts_claim_failed")'
            = N("match_attempts_insufficient") + N("match_attempts_claim_failed") + 1
  <2>1. /\ N("worker_cycles_total")' = N("worker_cycles_total") + 1
        /\ N("total_matches_created")' = N("total_matches_created") + 0
    BY <1>3, <1>5 DEF WorkerCounts, One
  <2>2. /\ N("match_attempts_insufficient")' = N("match_attempts_insufficient")
               + One(Owes(S, "match_attempts_insufficient", 1))
        /\ N("match_attempts_claim_failed")' = N("match_attempts_claim_failed")
               + One(Owes(S, "match_attempts_claim_failed", 1))
    BY <1>3 DEF WorkerCounts
  <2>3. One(Owes(S, "match_attempts_insufficient", 1)) + One(Owes(S, "match_attempts_claim_failed", 1)) = 1
        /\ One(Owes(S, "match_attempts_insufficient", 1)) \in Int
        /\ One(Owes(S, "match_attempts_claim_failed", 1)) \in Int
    BY <1>4, <1>5 DEF One
  <2>4. \A k \in WorkerCounts : N(k) \in Int
    BY BalanceTypes
  <2> HIDE DEF N
  <2> QED
    BY <2>1, <2>2, <2>3, <2>4 DEF WorkerCounts
<1>8. Forming' = Forming /\ Panicked' = Panicked
  BY <1>2 DEF Forming, Panicked, poolVars
<1>9. AttemptsBalance'
  <2>1. \A k \in WorkerCounts : N(k) \in Int
    BY BalanceTypes
  <2>2. Forming \in Int /\ Panicked \in Int
    BY BalanceTypes
  <2>3. N("worker_cycles_total") = N("match_attempts_insufficient")
           + N("match_attempts_claim_failed") + N("total_matches_created") + Forming + Panicked
    BY DEF Balance, AttemptsBalance
  <2> HIDE DEF N
  <2>4. N("worker_cycles_total")' = N("match_attempts_insufficient")'
           + N("match_attempts_claim_failed")' + N("total_matches_created")' + Forming' + Panicked'
    BY <1>7, <1>8, <2>1, <2>2, <2>3 DEF WorkerCounts
  <2> QED
    BY <2>4 DEF AttemptsBalance, N
<1> QED
  BY <1>2, <1>3, <1>6, <1>7, <1>8, <1>9
  DEF Balance, QueueBalance, EnqueuedBalance, RecoveredBalance, MatchesBalance, ClientCounts,
      WorkerCounts, AverageCounts, poolVars

LEMMA BalanceClaimPlayers ==
  ASSUME TypeInv, Balance, NEW w \in Workers, ClaimPlayers(w)
  PROVE  Balance'
<1> DEFINE S == {Cycle}
           N(k) == CountTotal(Workers, k)
<1>1. /\ Begin(w, S) /\ S \in SUBSET Updates /\ todo[w] = {} /\ counters' = counters
      /\ waiting' = waiting - MATCH_SIZE /\ forming' = forming \cup {w} /\ w \notin forming
      /\ UNCHANGED <<held, lost, panicked, published>>
  BY UpdateTypes DEF ClaimPlayers, Idle, Cycle
<1>2. /\ \A k \in ClientCounts : CountTotal(Clients, k)' = CountTotal(Clients, k)
      /\ \A k \in WorkerCounts : N(k)' = N(k) + One(Owes(S, k, 1))
      /\ \A k \in AverageCounts : AverageTotal(k)' = AverageTotal(k) + One(Owes(S, "averages", 0))
      /\ PlayersTotal' = PlayersTotal +
               (IF Owes(S, "total_players_matched", MATCH_SIZE) THEN MATCH_SIZE ELSE 0)
      /\ QueueTotal' = QueueTotal -
               (IF Owes(S, "current_queue_size", -MATCH_SIZE) THEN MATCH_SIZE ELSE 0)
      /\ RecoveredTotal' = RecoveredTotal
  BY <1>1, WorkerTotals
<1>3. \A k, b : Owes(S, k, b) <=> (k = "worker_cycles_total" /\ b = 1)
  BY OperationOwes
<1> HIDE DEF S
<1>4. /\ PlayersTotal' = PlayersTotal /\ QueueTotal' = QueueTotal
      /\ \A k \in AverageCounts : AverageTotal(k)' = AverageTotal(k)
  <2>1. /\ ~Owes(S, "averages", 0) /\ ~Owes(S, "total_players_matched", MATCH_SIZE)
        /\ ~Owes(S, "current_queue_size", -MATCH_SIZE)
    BY <1>3
  <2> QED
    BY <1>2, <2>1, BalanceTypes DEF One
<1>5. /\ N("worker_cycles_total")' = N("worker_cycles_total") + 1
      /\ \A k \in WorkerCounts \ {"worker_cycles_total"} : N(k)' = N(k)
  <2>1. \A k \in WorkerCounts : N(k) \in Int
    BY BalanceTypes
  <2> HIDE DEF N
  <2> QED
    BY <1>2, <1>3, <2>1 DEF One, WorkerCounts
<1>6. Forming' = Forming + 1 /\ Panicked' = Panicked
  BY <1>1, FS_AddElement, BalanceTypes DEF Forming, Panicked
<1>7. MATCH_SIZE * Forming' = MATCH_SIZE * Forming + MATCH_SIZE
  BY <1>6, Multiples, BalanceTypes
<1>8. QueueBalance'
  <2> DEFINE f == MATCH_SIZE * Forming
  <2>1. /\ waiting \in Int /\ held \in Int /\ lost \in Int /\ QueueTotal \in Int
        /\ f \in Int /\ MATCH_SIZE \in Int
    BY BalanceTypes
  <2>2. QueueTotal = waiting + held + lost + f
    BY DEF Balance, QueueBalance
  <2>3. f' = f + MATCH_SIZE
    BY <1>7
  <2> HIDE DEF f
  <2>4. QueueTotal' = waiting' + held' + lost' + f'
    BY <1>1, <1>4, <2>1, <2>2, <2>3
  <2> QED
    BY <2>4 DEF QueueBalance, f
<1>9. AttemptsBalance'
  <2>1. \A k \in WorkerCounts : N(k) \in Int
    BY BalanceTypes
  <2>2. Forming \in Int /\ Panicked \in Int
    BY BalanceTypes
  <2>3. N("worker_cycles_total") = N("match_attempts_insufficient")
           + N("match_attempts_claim_failed") + N("total_matches_created") + Forming + Panicked
    BY DEF Balance, AttemptsBalance
  <2> HIDE DEF N
  <2>4. N("worker_cycles_total")' = N("match_attempts_insufficient")'
           + N("match_attempts_claim_failed")' + N("total_matches_created")' + Forming' + Panicked'
    BY <1>5, <1>6, <2>1, <2>2, <2>3 DEF WorkerCounts
  <2> QED
    BY <2>4 DEF AttemptsBalance, N
<1> QED
  BY <1>1, <1>2, <1>4, <1>5, <1>6, <1>8, <1>9
  DEF Balance, EnqueuedBalance, RecoveredBalance, MatchesBalance, ClientCounts, WorkerCounts,
      AverageCounts

LEMMA BalancePublish ==
  ASSUME TypeInv, Balance, NEW w \in Workers, Publish(w)
  PROVE  Balance'
<1>1. PICK m \in Matches : published' = Append(published, m) /\ Begin(w, SuccessUpdates(m))
  BY TypePublish
<1> DEFINE S == SuccessUpdates(m)
           N(k) == CountTotal(Workers, k)
<1>2. /\ Begin(w, S) /\ S \in SUBSET Updates /\ counters' = counters
      /\ forming' = forming \ {w} /\ w \in forming
      /\ UNCHANGED <<waiting, held, lost, panicked>>
  BY <1>1, UpdateTypes DEF Publish
<1>3. \A u \in todo[w], v \in S : u.to # v.to
  <2>1. todo[w] \subseteq {Cycle}
    BY <1>2 DEF TypeInv, TodoInv
  <2> QED
    BY <2>1 DEF Cycle, SuccessUpdates, Add, Accumulate
<1>4. Len(published') = Len(published) + 1
  BY <1>1 DEF TypeInv, MetricsTypeOK
<1>5. /\ \A k \in ClientCounts : CountTotal(Clients, k)' = CountTotal(Clients, k)
      /\ \A k \in WorkerCounts : N(k)' = N(k) + One(Owes(S, k, 1))
      /\ \A k \in AverageCounts : AverageTotal(k)' = AverageTotal(k) + One(Owes(S, "averages", 0))
      /\ PlayersTotal' = PlayersTotal +
               (IF Owes(S, "total_players_matched", MATCH_SIZE) THEN MATCH_SIZE ELSE 0)
      /\ QueueTotal' = QueueTotal -
               (IF Owes(S, "current_queue_size", -MATCH_SIZE) THEN MATCH_SIZE ELSE 0)
      /\ RecoveredTotal' = RecoveredTotal
  BY <1>2, <1>3, WorkerTotals
<1>6. \A k, b : Owes(S, k, b) <=>
        \/ k = "total_matches_created" /\ b = 1
        \/ k = "total_players_matched" /\ b = MATCH_SIZE
        \/ k = "current_queue_size" /\ b = -MATCH_SIZE
        \/ k = "averages"
  BY OperationOwes
<1> HIDE DEF S
<1>7. /\ Owes(S, "total_players_matched", MATCH_SIZE) /\ Owes(S, "averages", 0)
      /\ Owes(S, "current_queue_size", -MATCH_SIZE) /\ Owes(S, "total_matches_created", 1)
      /\ \A k \in WorkerCounts \ {"total_matches_created"} : ~Owes(S, k, 1)
  BY <1>6 DEF WorkerCounts
<1>8. /\ PlayersTotal' = PlayersTotal + MATCH_SIZE /\ QueueTotal' = QueueTotal - MATCH_SIZE
      /\ \A k \in AverageCounts : AverageTotal(k)' = AverageTotal(k) + 1
  BY <1>5, <1>7 DEF One
<1>9. /\ N("total_matches_created")' = N("total_matches_created") + 1
      /\ \A k \in WorkerCounts \ {"total_matches_created"} : N(k)' = N(k)
  <2>1. \A k \in WorkerCounts : N(k) \in Int
    BY BalanceTypes
  <2> HIDE DEF N
  <2> QED
    BY <1>5, <1>7, <2>1 DEF One, WorkerCounts
<1>10. Forming' = Forming - 1 /\ Panicked' = Panicked
  BY <1>2, FS_RemoveElement, BalanceTypes DEF Forming, Panicked
<1>11. MATCH_SIZE * Forming' = MATCH_SIZE * Forming - MATCH_SIZE
  BY <1>10, Multiples, BalanceTypes
<1>12. QueueBalance'
  <2> DEFINE f == MATCH_SIZE * Forming
  <2>1. /\ waiting \in Int /\ held \in Int /\ lost \in Int /\ QueueTotal \in Int
        /\ f \in Int /\ MATCH_SIZE \in Int
    BY BalanceTypes
  <2>2. QueueTotal = waiting + held + lost + f
    BY DEF Balance, QueueBalance
  <2>3. f' = f - MATCH_SIZE
    BY <1>11
  <2> HIDE DEF f
  <2>4. QueueTotal' = waiting' + held' + lost' + f'
    BY <1>2, <1>8, <2>1, <2>2, <2>3
  <2> QED
    BY <2>4 DEF QueueBalance, f
<1>13. AttemptsBalance'
  <2>1. \A k \in WorkerCounts : N(k) \in Int
    BY BalanceTypes
  <2>2. Forming \in Int /\ Panicked \in Int
    BY BalanceTypes
  <2>3. N("worker_cycles_total") = N("match_attempts_insufficient")
           + N("match_attempts_claim_failed") + N("total_matches_created") + Forming + Panicked
    BY DEF Balance, AttemptsBalance
  <2> HIDE DEF N
  <2>4. N("worker_cycles_total")' = N("match_attempts_insufficient")'
           + N("match_attempts_claim_failed")' + N("total_matches_created")' + Forming' + Panicked'
    BY <1>9, <1>10, <2>1, <2>2, <2>3 DEF WorkerCounts
  <2> QED
    BY <2>4 DEF AttemptsBalance, N
<1>14. EnqueuedBalance'
  <2> DEFINE E == CountTotal(Clients, "total_players_enqueued")
             C == CountTotal(Clients, "total_players_cancelled")
  <2>1. E \in Int /\ C \in Int /\ QueueTotal \in Int /\ PlayersTotal \in Int /\ MATCH_SIZE \in Int
    BY BalanceTypes DEF ClientCounts
  <2>2. E' = E /\ C' = C
    BY <1>5 DEF ClientCounts
  <2>3. E = QueueTotal + C + PlayersTotal
    BY DEF Balance, EnqueuedBalance
  <2> HIDE DEF E, C
  <2>4. E' = QueueTotal' + C' + PlayersTotal'
    BY <1>8, <2>1, <2>2, <2>3
  <2> QED
    BY <2>4 DEF EnqueuedBalance, E, C
<1>15. MatchesBalance'
  <2> DEFINE c == N("total_matches_created")
             s == AverageTotal("skill_spread_count")
             d == AverageTotal("team_delta_count")
  <2>1. c \in Int /\ MATCH_SIZE \in Int
    BY BalanceTypes DEF WorkerCounts
  <2>2. PlayersTotal = MATCH_SIZE * c /\ s = c /\ d = c /\ c = Len(published)
    BY DEF Balance, MatchesBalance
  <2>3. c' = c + 1 /\ s' = s + 1 /\ d' = d + 1
    BY <1>8, <1>9 DEF AverageCounts
  <2> HIDE DEF c, s, d
  <2>4. MATCH_SIZE * c' = MATCH_SIZE * c + MATCH_SIZE
    BY <2>1, <2>3, Multiples
  <2>5. PlayersTotal' = MATCH_SIZE * c' /\ s' = c' /\ d' = c' /\ c' = Len(published')
    BY <1>4, <1>8, <2>2, <2>3, <2>4
  <2> QED
    BY <2>5 DEF MatchesBalance, c, s, d
<1>16. RecoveredBalance'
  BY <1>2, <1>5, <1>10 DEF Balance, RecoveredBalance
<1> QED
  BY <1>12, <1>13, <1>14, <1>15, <1>16 DEF Balance

LEMMA BalancePanic ==
  ASSUME TypeInv, Balance, NEW w \in Workers, Panic(w)
  PROVE  Balance'
<1>1. PICK marked \in 0 .. MATCH_SIZE : held' = held + MATCH_SIZE - marked /\ lost' = lost + marked
  BY DEF Panic
<1>2. /\ w \in forming /\ forming' = forming \ {w} /\ panicked' = panicked \cup {w} /\ w \notin panicked
      /\ UNCHANGED <<waiting, counters, published, todo>>
  BY DEF Panic, TypeInv, TodoInv
<1>3. marked \in Int
  BY BalanceTypes
<1>4. Forming' = Forming - 1 /\ Panicked' = Panicked + 1
  BY <1>2, FS_RemoveElement, FS_AddElement, BalanceTypes DEF Forming, Panicked
<1>5. /\ MATCH_SIZE * Forming' = MATCH_SIZE * Forming - MATCH_SIZE
      /\ MATCH_SIZE * Panicked' = MATCH_SIZE * Panicked + MATCH_SIZE
  <2>1. Forming \in Int /\ Panicked \in Int /\ MATCH_SIZE \in Int
    BY BalanceTypes
  <2>2. /\ MATCH_SIZE * (Forming - 1) = MATCH_SIZE * Forming - MATCH_SIZE
        /\ MATCH_SIZE * (Panicked + 1) = MATCH_SIZE * Panicked + MATCH_SIZE
    BY <2>1, Multiples
  <2> QED
    BY <1>4, <2>2
<1>6. /\ \A T, k : CountTotal(T, k)' = CountTotal(T, k)
      /\ \A k : AverageTotal(k)' = AverageTotal(k)
      /\ PlayersTotal' = PlayersTotal /\ QueueTotal' = QueueTotal /\ RecoveredTotal' = RecoveredTotal
  BY <1>2 DEF CountTotal, AverageTotal, PlayersTotal, QueueTotal, RecoveredTotal
<1>7. QueueBalance'
  <2> DEFINE f == MATCH_SIZE * Forming
  <2>1. /\ waiting \in Int /\ held \in Int /\ lost \in Int /\ QueueTotal \in Int
        /\ f \in Int /\ MATCH_SIZE \in Int
    BY BalanceTypes
  <2>2. QueueTotal = waiting + held + lost + f
    BY DEF Balance, QueueBalance
  <2>3. f' = f - MATCH_SIZE
    BY <1>5
  <2> HIDE DEF f
  <2>4. QueueTotal' = QueueTotal /\ waiting' = waiting
    BY <1>2, <1>6
  <2>5. QueueTotal' = waiting' + held' + lost' + f'
    BY <1>1, <1>3, <2>1, <2>2, <2>3, <2>4
  <2> QED
    BY <2>5 DEF QueueBalance, f
<1>8. RecoveredBalance'
  <2> DEFINE p == MATCH_SIZE * Panicked
  <2>1. held \in Int /\ lost \in Int /\ RecoveredTotal \in Int /\ p \in Int /\ MATCH_SIZE \in Int
    BY BalanceTypes
  <2>2. RecoveredTotal + held + lost = p
    BY DEF Balance, RecoveredBalance
  <2>3. p' = p + MATCH_SIZE
    BY <1>5
  <2> HIDE DEF p
  <2>4. RecoveredTotal' = RecoveredTotal
    BY <1>6
  <2>5. RecoveredTotal' + held' + lost' = p'
    BY <1>1, <1>3, <2>1, <2>2, <2>3, <2>4
  <2> QED
    BY <2>5 DEF RecoveredBalance, p
<1>9. AttemptsBalance'
  <2> DEFINE N(k) == CountTotal(Workers, k)
  <2>1. \A k \in WorkerCounts : N(k) \in Int /\ N(k)' = N(k)
    BY <1>6, BalanceTypes
  <2>2. Forming \in Int /\ Panicked \in Int
    BY BalanceTypes
  <2>3. N("worker_cycles_total") = N("match_attempts_insufficient")
           + N("match_attempts_claim_failed") + N("total_matches_created") + Forming + Panicked
    BY DEF Balance, AttemptsBalance
  <2> HIDE DEF N
  <2>4. N("worker_cycles_total")' = N("match_attempts_insufficient")'
           + N("match_attempts_claim_failed")' + N("total_matches_created")' + Forming' + Panicked'
    BY <1>4, <2>1, <2>2, <2>3 DEF WorkerCounts
  <2> QED
    BY <2>4 DEF AttemptsBalance, N
<1> QED
  BY <1>2, <1>6, <1>7, <1>8, <1>9 DEF Balance, EnqueuedBalance, MatchesBalance

LEMMA BalanceRecover ==
  ASSUME TypeInv, Balance, Recover
  PROVE  Balance'
<1>1. PICK n \in 1 .. held : /\ waiting' = waiting + n /\ held' = held - n
                             /\ Begin(Reaper, RecoverUpdates(n))
  BY DEF Recover, RecoverUpdates
<1>2. n \in Nat
  BY <1>1, BalanceTypes
<1>3. /\ RecoverUpdates(n) \in SUBSET Updates /\ todo[Reaper] = {}
      /\ UNCHANGED <<lost, forming, panicked, counters, published>>
  BY <1>2, UpdateTypes DEF Recover, Idle
<1>4. \A T \in {Workers, Clients} : \A k, b : Owed(todo', T, k, b) = Owed(todo, T, k, b)
  <2>1. \A T \in {Workers, Clients} : \A k, b : Owed(todo', T, k, b) =
            Owed(todo, T, k, b) + One(Reaper \in T /\ Owes(RecoverUpdates(n), k, b))
    BY <1>1, <1>3, OwedBegin, ThreadKinds
  <2>2. \A T \in {Workers, Clients} : Reaper \notin T
    BY ThreadKinds
  <2>3. \A T \in {Workers, Clients} : \A k, b : Owed(todo, T, k, b) \in Int
    BY OwedType
  <2> QED
    BY <2>1, <2>2, <2>3 DEF One
<1>5. /\ \A T \in {Workers, Clients} : \A k : CountTotal(T, k)' = CountTotal(T, k)
      /\ \A k : AverageTotal(k)' = AverageTotal(k)
      /\ PlayersTotal' = PlayersTotal /\ QueueTotal' = QueueTotal
  BY <1>3, <1>4 DEF CountTotal, AverageTotal, PlayersTotal, QueueTotal
<1>6. RecoveredTotal' = RecoveredTotal + n
  <2> DEFINE c == counters["total_stale_claims_recovered"]
  <2>1. todo'[Reaper] = {Add("total_stale_claims_recovered", n)}
    BY <1>1, <1>3, BeginTypes, ThreadKinds DEF RecoverUpdates
  <2>2. (CHOOSE u \in todo'[Reaper] : TRUE).by = n
    <3>1. (CHOOSE u \in {Add("total_stale_claims_recovered", n)} : TRUE)
             = Add("total_stale_claims_recovered", n)
      OBVIOUS
    <3> QED
      BY <2>1, <3>1 DEF Add
  <2>3. RecoveredTotal = c + 0 /\ RecoveredTotal' = c + n
    BY <1>3, <2>1, <2>2 DEF RecoveredTotal
  <2>4. c \in Int
    BY CountersType
  <2> QED
    BY <1>2, <2>3, <2>4
<1>7. Forming' = Forming /\ Panicked' = Panicked
  BY <1>3 DEF Forming, Panicked
<1>8. QueueBalance'
  <2> DEFINE f == MATCH_SIZE * Forming
  <2>1. /\ waiting \in Int /\ held \in Int /\ lost \in Int /\ QueueTotal \in Int
        /\ f \in Int /\ MATCH_SIZE \in Int
    BY BalanceTypes
  <2>2. QueueTotal = waiting + held + lost + f
    BY DEF Balance, QueueBalance
  <2>3. f' = f
    BY <1>7
  <2> HIDE DEF f
  <2>4. QueueTotal' = waiting' + held' + lost' + f'
    BY <1>1, <1>2, <1>3, <1>5, <2>1, <2>2, <2>3
  <2> QED
    BY <2>4 DEF QueueBalance, f
<1>9. RecoveredBalance'
  <2> DEFINE p == MATCH_SIZE * Panicked
  <2>1. held \in Int /\ lost \in Int /\ RecoveredTotal \in Int /\ p \in Int
    BY BalanceTypes
  <2>2. RecoveredTotal + held + lost = p
    BY DEF Balance, RecoveredBalance
  <2>3. p' = p
    BY <1>7
  <2> HIDE DEF p
  <2>4. RecoveredTotal' + held' + lost' = p'
    BY <1>1, <1>2, <1>3, <1>6, <2>1, <2>2, <2>3
  <2> QED
    BY <2>4 DEF RecoveredBalance, p
<1> QED
  BY <1>3, <1>5, <1>7, <1>8, <1>9 DEF Balance, AttemptsBalance, EnqueuedBalance, MatchesBalance

LEMMA BalanceStep == TypeInv /\ Balance /\ [Next]_vars => Balance'
<1> SUFFICES ASSUME TypeInv, Balance, [Next]_vars PROVE Balance'
  OBVIOUS
<1>1. ASSUME NEW t \in Threads, Update(t) PROVE Balance'
  BY <1>1, BalanceUpdate
<1>2. ASSUME NEW c \in Clients, Enqueue(c) \/ Cancel(c) PROVE Balance'
  BY <1>2, BalanceClient
<1>3. ASSUME NEW w \in Workers, AttemptFails(w) PROVE Balance'
  BY <1>3, BalanceAttemptFails
<1>4. ASSUME NEW w \in Workers, ClaimPlayers(w) PROVE Balance'
  BY <1>4, BalanceClaimPlayers
<1>5. ASSUME NEW w \in Workers, Publish(w) PROVE Balance'
  BY <1>5, BalancePublish
<1>6. ASSUME NEW w \in Workers, Panic(w) PROVE Balance'
  BY <1>6, BalancePanic
<1>7. CASE Recover
  BY <1>7, BalanceRecover
<1>8. CASE Load \/ ListMatches \/ UNCHANGED vars
  BY <1>8, BalanceRead DEF Load, ListMatches, vars
<1> QED
  BY <1>1, <1>2, <1>3, <1>4, <1>5, <1>6, <1>7, <1>8 DEF Next

-----------------------------------------------------------------------------
(* Balance at rest.                                                         *)

LEMMA AtRest ==
  ASSUME TypeInv, \A t \in Threads : Idle(t)
  PROVE  /\ \A k \in ClientCounts : CountTotal(Clients, k) = counters[k]
         /\ \A k \in WorkerCounts : CountTotal(Workers, k) = counters[k]
         /\ \A k \in AverageCounts : AverageTotal(k) = counters[k]
         /\ PlayersTotal = counters["total_players_matched"]
         /\ QueueTotal = counters["current_queue_size"]
         /\ RecoveredTotal = counters["total_stale_claims_recovered"]
         /\ Forming = 0 /\ MATCH_SIZE * Forming = 0
<1>1. \A T \in {Workers, Clients} : \A k, b : Owed(todo, T, k, b) = 0
  <2> SUFFICES ASSUME NEW T \in {Workers, Clients}, NEW k, NEW b PROVE Owed(todo, T, k, b) = 0
    OBVIOUS
  <2>1. \A t \in T : todo[t] = {}
    BY ThreadKinds DEF Idle
  <2>2. Owing(todo, T, k, b) = {}
    BY <2>1 DEF Owing, Owes
  <2> QED
    BY <2>2, FS_EmptySet DEF Owed
<1>2. MATCH_SIZE * 0 = 0
  BY MetricsAssumption
<1>3. \A k \in ClientCounts : CountTotal(Clients, k) = counters[k]
  BY <1>1, CountersType DEF CountTotal
<1>4. \A k \in WorkerCounts : CountTotal(Workers, k) = counters[k]
  BY <1>1, CountersType DEF CountTotal
<1>5. \A k \in AverageCounts : AverageTotal(k) = counters[k]
  BY <1>1, CountersType DEF AverageTotal
<1>6. /\ PlayersTotal = counters["total_players_matched"]
      /\ QueueTotal = counters["current_queue_size"]
  <2>1. counters["total_players_matched"] \in Int /\ counters["current_queue_size"] \in Int
    BY CountersType
  <2>2. /\ Owed(todo, Workers, "total_players_matched", MATCH_SIZE) = 0
        /\ Owed(todo, Clients, "current_queue_size", 1) = 0
        /\ Owed(todo, Clients, "current_queue_size", -1) = 0
        /\ Owed(todo, Workers, "current_queue_size", -MATCH_SIZE) = 0
    BY <1>1
  <2> QED
    BY <1>2, <2>1, <2>2 DEF PlayersTotal, QueueTotal
<1>7. RecoveredTotal = counters["total_stale_claims_recovered"]
  BY CountersType, ThreadKinds DEF RecoveredTotal, Idle
<1>8. forming = {}
  BY ThreadKinds DEF TypeInv, MetricsTypeOK, Idle
<1>9. Forming = 0
  BY <1>8, FS_EmptySet DEF Forming
<1> QED
  BY <1>2, <1>3, <1>4, <1>5, <1>6, <1>7, <1>9

IInv == TypeInv /\ Balance

LEMMA InductiveInvariant == Spec => []IInv
<1>1. Init => IInv
  BY TypeInit, BalanceInit DEF IInv
<1>2. IInv /\ [Next]_vars => IInv'
  BY TypeStep, BalanceStep DEF IInv
<1> QED
  BY <1>1, <1>2, PTL DEF Spec

(* Whenever nothing is in flight the counters balance: attempts with their  *)
(* outcomes, enqueued players with the gauge, the cancelled and the         *)
(* matched, recovered claims with what panicking workers held, players with *)
(* matches and both averages with matches; after any number of panics,      *)
(* whichever players were marked by then, and whatever was the order in     *)
(* which the relaxed updates became visible.                                *)
THEOREM CountersBalance == Spec => []TotalsBalance
<1>1. IInv => TotalsBalance
  <2> SUFFICES ASSUME TypeInv, Balance, \A t \in Threads : Idle(t)
               PROVE  TotalsBalance
    BY DEF IInv, TotalsBalance
  <2> DEFINE n(k) == counters[k]
  <2>1. /\ \A k \in ClientCounts : CountTotal(Clients, k) = n(k)
        /\ \A k \in WorkerCounts : CountTotal(Workers, k) = n(k)
        /\ \A k \in AverageCounts : AverageTotal(k) = n(k)
        /\ PlayersTotal = n("total_players_matched")
        /\ QueueTotal = n("current_queue_size")
        /\ RecoveredTotal = n("total_stale_claims_recovered")
        /\ Forming = 0 /\ MATCH_SIZE * Forming = 0
    BY AtRest
  <2>2. /\ n("current_queue_size") \in Int /\ waiting \in Int /\ held \in Int /\ lost \in Int
        /\ Panicked \in Int /\ \A k \in WorkerCounts : n(k) \in Int
    BY CountersType, BalanceTypes
  <2> HIDE DEF n
  <2>3. n("worker_cycles_total") = n("match_attempts_insufficient")
           + n("match_attempts_claim_failed") + n("total_matches_created") + Panicked
    <3>1. n("worker_cycles_total") = n("match_attempts_insufficient")
             + n("match_attempts_claim_failed") + n("total_matches_created") + 0 + Panicked
      BY <2>1 DEF Balance, AttemptsBalance, WorkerCounts
    <3> QED
      BY <2>2, <3>1 DEF WorkerCounts
  <2>4. n("total_players_enqueued") = n("current_queue_size")
           + n("total_players_cancelled") + n("total_players_matched")
    BY <2>1 DEF Balance, EnqueuedBalance, ClientCounts
  <2>5. n("current_queue_size") = waiting + held + lost
    BY <2>1, <2>2 DEF Balance, QueueBalance
  <2>6. n("total_stale_claims_recovered") + held + lost = MATCH_SIZE * Panicked
    BY <2>1 DEF Balance, RecoveredBalance
  <2>7. /\ n("total_players_matched") = MATCH_SIZE * n("total_matches_created")
        /\ n("skill_spread_count") = n("total_matches_created")
        /\ n("team_delta_count") = n("total_matches_created")
    BY <2>1 DEF Balance, MatchesBalance, WorkerCounts, AverageCounts
  <2> QED
    BY <2>3, <2>4, <2>5, <2>6, <2>7 DEF TotalsBalance, n, Panicked
<1> QED
  BY <1>1, InductiveInvariant, PTL

-----------------------------------------------------------------------------
(* The gauge in flight.                                                     *)

LEMMA MonotoneProduct ==
  ASSUME NEW a \in Nat, NEW b \in Nat, NEW c \in Nat, b <= c
  PROVE  a * b <= a * c /\ a * b \in Nat /\ a * c \in Nat
  OBVIOUS

(* The gauge never drifts: at any moment, with any number of operations in  *)
(* flight and after any panics, it is off by at most one for every client   *)
(* and a match for every worker that is busy.                               *)
THEOREM GaugeNeverDrifts == Spec => []GaugeLag
<1>1. IInv => GaugeLag
  <2> SUFFICES ASSUME TypeInv, Balance PROVE GaugeLag
    BY DEF IInv
  <2> DEFINE k == "current_queue_size"
             p == Owed(todo, Clients, k, 1)
             n == Owed(todo, Clients, k, -1)
             o == Owed(todo, Workers, k, -MATCH_SIZE)
             g == counters[k]
             B == {c \in Clients : ~Idle(c)}
             V == {w \in Workers : ~Idle(w)}
             F == Owing(todo, Workers, k, -MATCH_SIZE)
  <2>1. p \in Nat /\ n \in Nat /\ o \in Nat /\ g \in Int /\ IsFiniteSet(F)
    BY OwedType, CountersType
  <2>2. IsFiniteSet(B) /\ IsFiniteSet(V)
    BY FS_Subset, ThreadsAssumption
  <2>3. p <= Cardinality(B) /\ n <= Cardinality(B) /\ Cardinality(B) \in Nat
    <3>1. Owing(todo, Clients, k, 1) \subseteq B /\ Owing(todo, Clients, k, -1) \subseteq B
      BY DEF Owing, Owes, Idle
    <3> QED
      BY <2>2, <3>1, FS_Subset, FS_CardinalityType DEF Owed
  <2>4. Forming + o <= Cardinality(V) /\ Cardinality(V) \in Nat
    <3>1. forming \cap F = {}
      <4>1. \A w \in forming : \A u \in todo[w] : u.to # k
        BY DEF TypeInv, TodoInv, Cycle, Add
      <4> QED
        BY <4>1 DEF Owing, Owes, Adds
    <3>2. forming \cup F \subseteq V
      BY DEF Owing, Owes, Idle, TypeInv, MetricsTypeOK
    <3>3. IsFiniteSet(forming)
      BY BalanceTypes
    <3>4. Cardinality(forming \cup F) = Cardinality(forming) + Cardinality(F)
      <4> HIDE DEF F
      <4>1. Cardinality(forming \cup F)
               = Cardinality(forming) + Cardinality(F) - Cardinality(forming \cap F)
        BY <2>1, <3>3, FS_Union
      <4>2. Cardinality(forming \cap F) = 0
        BY <3>1, FS_EmptySet
      <4>3. Cardinality(forming) \in Nat /\ Cardinality(F) \in Nat
        BY <2>1, <3>3, FS_CardinalityType
      <4> QED
        BY <4>1, <4>2, <4>3
    <3>5. Cardinality(forming \cup F) <= Cardinality(V) /\ Cardinality(V) \in Nat
      BY <2>2, <3>2, FS_Subset, FS_CardinalityType
    <3> QED
      BY <3>4, <3>5 DEF Forming, Owed
  <2> HIDE DEF B, V, F
  <2> DEFINE b == Cardinality(B)
             v == Cardinality(V)
             q == waiting + held + lost
  <2>5. Forming \in Nat /\ MATCH_SIZE \in Nat /\ q \in Nat
    BY BalanceTypes
  <2>6. /\ MATCH_SIZE * Forming \in Int /\ MATCH_SIZE * o \in Int /\ MATCH_SIZE * v \in Int
        /\ MATCH_SIZE * Forming + MATCH_SIZE * o <= MATCH_SIZE * v
        /\ 0 <= MATCH_SIZE * Forming + MATCH_SIZE * o
    <3> HIDE DEF o, v
    <3>1. MATCH_SIZE * (Forming + o) = MATCH_SIZE * Forming + MATCH_SIZE * o
      BY <2>1, <2>5 DEF o
    <3>2. Forming + o \in Nat /\ o \in Nat /\ v \in Nat /\ Forming + o <= v
      BY <2>1, <2>4, <2>5 DEF v
    <3>3. MATCH_SIZE * (Forming + o) <= MATCH_SIZE * v /\ MATCH_SIZE * (Forming + o) \in Nat
          /\ MATCH_SIZE * v \in Nat
      BY <2>5, <3>2, MonotoneProduct
    <3> QED
      BY <2>5, <3>1, <3>2, <3>3, Multiples
  <2>7. g + p - n - MATCH_SIZE * o = q + MATCH_SIZE * Forming
    BY <2>5 DEF Balance, QueueBalance, QueueTotal
  <2> HIDE DEF p, n, o, g, b, v, q
  <2>8. -b <= g - q /\ g - q <= b + MATCH_SIZE * v
    <3> DEFINE x == MATCH_SIZE * Forming
               y == MATCH_SIZE * o
               z == MATCH_SIZE * v
    <3>1. x \in Int /\ y \in Int /\ z \in Int /\ x + y <= z /\ 0 <= x + y
      BY <2>6
    <3>2. g + p - n - y = q + x
      BY <2>7
    <3>3. b \in Int /\ p \in Nat /\ n \in Nat /\ p <= b /\ n <= b /\ g \in Int /\ q \in Int
      BY <2>1, <2>3, <2>5 DEF b
    <3> HIDE DEF x, y, z
    <3>4. -b <= g - q /\ g - q <= b + z
      BY <3>1, <3>2, <3>3
    <3> QED
      BY <3>4 DEF z
  <2> QED
    BY <2>8 DEF GaugeLag, g, q, b, v, B, V
<1> QED
  BY <1>1, InductiveInvariant, PTL

-----------------------------------------------------------------------------
(* The history holds the newest matches, as many as fit.                    *)

HistoryInv ==
    Len(history) = IF Len(published) < MATCH_HISTORY_LIMIT
                   THEN Len(published) ELSE MATCH_HISTORY_LIMIT

LEMMA HistoryStep == TypeInv /\ HistoryInv /\ [Next]_vars => HistoryInv'
<1> SUFFICES ASSUME TypeInv, HistoryInv, [Next]_vars PROVE HistoryInv'
  OBVIOUS
<1>1. Len(history) \in Nat /\ Len(published) \in Nat /\ MATCH_HISTORY_LIMIT \in Nat
  BY MetricsAssumption DEF TypeInv, MetricsTypeOK
<1>2. ASSUME NEW w \in Workers, Publish(w) PROVE HistoryInv'
  <2>1. PICK m \in Matches : /\ published' = Append(published, m)
                             /\ Len(history') = IF Len(history) < MATCH_HISTORY_LIMIT
                                                THEN Len(history) + 1 ELSE Len(history)
    BY <1>2, TypePublish
  <2>2. Len(published') = Len(published) + 1
    BY <2>1 DEF TypeInv, MetricsTypeOK
  <2> QED
    BY <1>1, <2>1, <2>2 DEF HistoryInv
<1>3. CASE UNCHANGED <<published, history>>
  BY <1>3 DEF HistoryInv
<1> QED
  BY <1>2, <1>3 DEF Next, Update, Enqueue, Cancel, AttemptFails, ClaimPlayers, Panic, Recover,
                    Load, ListMatches, vars

(* A match is counted after it was published, and the count never falls. *)
LEMMA CountedArePublished ==
  ASSUME TypeInv, Balance
  PROVE  counters["total_matches_created"] <= Len(published)
<1>1. Owed(todo, Workers, "total_matches_created", 1) \in Nat
  BY OwedType
<1>2. counters["total_matches_created"] \in Int
  BY DEF TypeInv, MetricsTypeOK, Counters
<1> QED
  BY <1>1, <1>2 DEF Balance, MatchesBalance, CountTotal

LEMMA CountGrows ==
  ASSUME TypeInv, [Next]_vars
  PROVE  counters'["total_matches_created"] >= counters["total_matches_created"]
<1> DEFINE k == "total_matches_created"
<1>1. k \in Counters /\ counters[k] \in Int
  BY DEF TypeInv, MetricsTypeOK, Counters
<1>2. ASSUME NEW t \in Threads, Update(t) PROVE counters'[k] >= counters[k]
  <2>1. PICK u \in todo[t] : counters' = After(u)
    BY <1>2 DEF Update
  <2>2. CASE u.to = k
    <3>1. u.by = 1
      BY <2>2, Shape
    <3> QED
      BY <1>1, <2>1, <2>2, <3>1, AfterType
  <2>3. CASE u.to # k
    <3>1. counters'[k] = counters[k]
      BY <1>1, <2>1, <2>3, AfterType
    <3> QED
      BY <1>1, <3>1
  <2> QED
    BY <2>2, <2>3
<1>3. CASE counters' = counters
  BY <1>1, <1>3
<1> QED
  BY <1>2, <1>3 DEF Next, Enqueue, Cancel, AttemptFails, ClaimPlayers, Publish, Panic, Recover,
                    Load, ListMatches, vars

(* What a reader has counted is counted still. *)
CountedInv == counted <= counters["total_matches_created"]

LEMMA CountedStep == TypeInv /\ CountedInv /\ [Next]_vars => CountedInv'
<1> SUFFICES ASSUME TypeInv, CountedInv, [Next]_vars PROVE CountedInv'
  OBVIOUS
<1> DEFINE c == counters["total_matches_created"]
<1>1. c \in Int /\ counted \in Int
  BY DEF TypeInv, MetricsTypeOK, Counters
<1>2. c' >= c /\ c' \in Int
  <2>1. TypeInv'
    BY TypeStep
  <2> QED
    BY <2>1, CountGrows DEF TypeInv, MetricsTypeOK, Counters
<1>3. CASE Load
  BY <1>1, <1>3 DEF Load, CountedInv
<1>4. CASE counted' = counted
  <2> counted <= c
    BY DEF CountedInv
  <2> HIDE DEF c
  <2>1. counted' <= c'
    BY <1>1, <1>2, <1>4
  <2> QED
    BY <2>1 DEF CountedInv, c
<1> QED
  BY <1>3, <1>4 DEF Next, Update, Enqueue, Cancel, AttemptFails, ClaimPlayers, Publish, Panic,
                    Recover, ListMatches, vars

(* The answer that a client got stays as it was. *)
ListedInv ==
    /\ counted = -1 => listed.limit = 0
    /\ listed.limit > 0 => \/ Len(listed.matches) >= listed.limit
                           \/ Len(listed.matches) >= MATCH_HISTORY_LIMIT
                           \/ Len(listed.matches) >= counted

LEMMA ListedStep ==
  ASSUME TypeInv, Balance, HistoryInv, CountedInv, ListedInv, [Next]_vars
  PROVE  ListedInv'
<1>1. CASE ListMatches
  <2>1. /\ listed'.limit \in Nat \ {0} /\ counted' = counted /\ counted # -1
        /\ Len(listed'.matches) = IF listed'.limit <= Len(history)
                                  THEN listed'.limit ELSE Len(history)
    BY <1>1, TypeListMatches DEF ListMatches
  <2>2. /\ Len(history) \in Nat /\ Len(published) \in Nat /\ MATCH_HISTORY_LIMIT \in Nat
        /\ counted \in Int /\ counters["total_matches_created"] \in Int
    BY MetricsAssumption DEF TypeInv, MetricsTypeOK, Counters
  <2>3. counted <= Len(published)
    BY <2>2, CountedArePublished DEF CountedInv
  <2> QED
    BY <2>1, <2>2, <2>3 DEF ListedInv, HistoryInv
<1>2. CASE Load
  <2>1. counted = -1 /\ listed' = listed
    BY <1>2 DEF Load
  <2> QED
    BY <2>1 DEF ListedInv
<1>3. CASE UNCHANGED <<listed, counted>>
  BY <1>3 DEF ListedInv
<1> QED
  BY <1>1, <1>2, <1>3 DEF Next, Update, Enqueue, Cancel, AttemptFails, ClaimPlayers, Publish, Panic,
                          Recover, vars

ReaderInv == HistoryInv /\ CountedInv /\ ListedInv

LEMMA ReaderInvariant == Spec => [](IInv /\ ReaderInv)
<1>1. Init => ReaderInv
  <2> SUFFICES ASSUME Init PROVE ReaderInv
    OBVIOUS
  <2>1. Len(history) = 0 /\ Len(published) = 0
    BY DEF Init
  <2>2. counters["total_matches_created"] = 0
    BY DEF Init, Counters
  <2> QED
    BY <2>1, <2>2, MetricsAssumption DEF Init, ReaderInv, HistoryInv, CountedInv, ListedInv
<1>2. IInv /\ ReaderInv /\ [Next]_vars => ReaderInv'
  BY HistoryStep, CountedStep, ListedStep DEF IInv, ReaderInv
<1> QED
  BY <1>1, <1>2, InductiveInvariant, PTL DEF Spec

LEMMA SmallestOfThree ==
  ASSUME NEW a \in Int, NEW b \in Int, NEW c \in Int
  PROVE  Min({a, b, c}) <= a /\ Min({a, b, c}) <= b /\ Min({a, b, c}) <= c /\ Min({a, b, c}) \in Int
<1> DEFINE S == {a, b, c}
<1>1. \E x \in S : \A y \in S : x <= y
  OBVIOUS
<1>2. Min(S) = CHOOSE x \in S : \A y \in S : x <= y
  BY DEF Min
<1>3. Min(S) \in S /\ \A y \in S : Min(S) <= y
  BY <1>1, <1>2
<1> QED
  BY <1>3

(* Whoever saw k matches counted and then asks for them is given k records, *)
(* as far as the limits allow: for every history limit, number of workers   *)
(* and order of the relaxed updates.                                        *)
THEOREM CountedMatchesAreListed == Spec => []CountedAreListed
<1>1. IInv /\ ReaderInv => CountedAreListed
  <2> SUFFICES ASSUME TypeInv, ListedInv, listed.limit > 0
               PROVE  Len(listed.matches) >= Min({listed.limit, MATCH_HISTORY_LIMIT, counted})
    BY DEF IInv, ReaderInv, CountedAreListed
  <2>1. /\ listed.limit \in Int /\ MATCH_HISTORY_LIMIT \in Int /\ counted \in Int
        /\ Len(listed.matches) \in Nat
    BY MetricsAssumption DEF TypeInv, MetricsTypeOK
  <2> DEFINE m == Min({listed.limit, MATCH_HISTORY_LIMIT, counted})
  <2>2. m <= listed.limit /\ m <= MATCH_HISTORY_LIMIT /\ m <= counted /\ m \in Int
    BY <2>1, SmallestOfThree
  <2> HIDE DEF m
  <2>3. Len(listed.matches) >= m
    BY <2>1, <2>2 DEF ListedInv
  <2> QED
    BY <2>3 DEF m
<1> QED
  BY <1>1, ReaderInvariant, PTL

=============================================================================
