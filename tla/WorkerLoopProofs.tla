-------------------------- MODULE WorkerLoopProofs --------------------------
(***************************************************************************)
(* Proofs about WorkerLoop, for every number of workers and clients, every  *)
(* match size and any number of panics.                                     *)
(***************************************************************************)
EXTENDS WorkerLoop, FiniteSetTheorems, TLAPS

(* The tasks are finitely many. *)
LEMMA TasksFinite == IsFiniteSet(Tasks)
  BY WorkersAssumption, FS_AddElement DEF Tasks

(* The initial state is well typed. *)
LEMMA ControlTypesInit == Init => ControlTypes
<1>1. Cardinality(Tasks) \in Int
  BY TasksFinite, FS_CardinalityType
<1>2. Init => late \in [Workers -> Nat] /\ wpc \in [Workers -> WorkerPCs]
  BY DEF Init, WorkerPCs
<1>3. Init => cpc \in [Clients -> {"idle", "notify"}] /\ worker_set \in Int
  BY <1>1 DEF Init
<1>4. Init => /\ permit \in BOOLEAN /\ shutdown \in BOOLEAN /\ unseen \in BOOLEAN
              /\ rpc \in {"start", "parked", "scanning", "exited"}
              /\ registered \subseteq Workers /\ notified \subseteq Workers
  BY DEF Init
<1> QED
  BY <1>2, <1>3, <1>4 DEF ControlTypes

(* The start of an attempt keeps the types. *)
LEMMA BeginAttemptTypes ==
  ASSUME ControlTypes, NEW w \in Workers, BeginAttempt(w)
  PROVE  late' \in [Workers -> Nat] /\ wpc' \in [Workers -> WorkerPCs]
<1>1. late[w] \in Nat /\ late[w] + 1 \in Nat
  BY DEF ControlTypes
<1>2. late' \in [Workers -> Nat]
  <2>1. CASE shutdown
    BY <1>1, <2>1 DEF BeginAttempt, ControlTypes
  <2>2. CASE ~shutdown
    BY <1>1, <2>2 DEF BeginAttempt, ControlTypes
  <2> QED
    BY <2>1, <2>2
<1>3. wpc' \in [Workers -> WorkerPCs]
  BY DEF BeginAttempt, ControlTypes, Goto, WorkerPCs
<1> QED
  BY <1>2, <1>3

(* Every step preserves the types. *)
LEMMA ControlTypesStep == ControlTypes /\ [Next]_vars => ControlTypes'
<1> SUFFICES ASSUME ControlTypes, [Next]_vars PROVE ControlTypes'
  OBVIOUS
<1> USE DEF ControlTypes, WorkerPCs, Goto, poolVars, notifyVars, mainVars
<1>1. ASSUME NEW c \in Clients, EnqueueInsert(c) PROVE ControlTypes'
  BY <1>1 DEF EnqueueInsert
<1>2. ASSUME NEW c \in Clients, EnqueueNotify(c) PROVE ControlTypes'
  BY <1>2 DEF EnqueueNotify, NotifyOne
<1>3. CASE Cancel
  BY <1>3 DEF Cancel
<1>4. ASSUME NEW w \in Workers, Start(w) PROVE ControlTypes'
  BY <1>4 DEF Start
<1>5. ASSUME NEW w \in Workers, TickDue(w) PROVE ControlTypes'
  BY <1>5 DEF TickDue
<1>6. ASSUME NEW w \in Workers, PollShutdown(w) PROVE ControlTypes'
  BY <1>6 DEF PollShutdown, DropNotified, NotifyOne
<1>7. ASSUME NEW w \in Workers, PollNotify(w) PROVE ControlTypes'
  BY <1>7, BeginAttemptTypes DEF PollNotify
<1>8. ASSUME NEW w \in Workers, PollTick(w) PROVE ControlTypes'
  BY <1>8, BeginAttemptTypes DEF PollTick, DropNotified, NotifyOne
<1>9. ASSUME NEW w \in Workers, Wake(w) PROVE ControlTypes'
  BY <1>9 DEF Wake
<1>10. ASSUME NEW w \in Workers, ScanFinds(w) PROVE ControlTypes'
  BY <1>10 DEF ScanFinds
<1>11. ASSUME NEW w \in Workers, ScanFails(w) PROVE ControlTypes'
  BY <1>11 DEF ScanFails
<1>12. ASSUME NEW w \in Workers, ClaimSucceeds(w) PROVE ControlTypes'
  BY <1>12 DEF ClaimSucceeds
<1>13. ASSUME NEW w \in Workers, ClaimFails(w) PROVE ControlTypes'
  BY <1>13 DEF ClaimFails
<1>14. ASSUME NEW w \in Workers, FormMatch(w) PROVE ControlTypes'
  BY <1>14 DEF FormMatch
<1>15. ASSUME NEW w \in Workers, Panic(w) PROVE ControlTypes'
  BY <1>15 DEF Panic
<1>16. CASE ReaperStep
  BY <1>16 DEF ReaperStep, ReaperStart, ReaperExit, ReaperTick, ReaperScan
<1>17. CASE Signal
  BY <1>17 DEF Signal, CancelToken
<1>18. CASE ShutdownStep
  BY <1>18 DEF ShutdownStep, JoinNext, JoinTimeout
<1>19. CASE UNCHANGED vars
  BY <1>19 DEF vars
<1> QED
  BY <1>1, <1>2, <1>3, <1>4, <1>5, <1>6, <1>7, <1>8, <1>9, <1>10,
     <1>11, <1>12, <1>13, <1>14, <1>15, <1>16, <1>17, <1>18, <1>19
  DEF Next, LoopStep, AttemptStep

-----------------------------------------------------------------------------
(* No lost wakeup.  The invariant is inductive as it stands: a step that    *)
(* takes a notification or the permit away begins an attempt or hands the   *)
(* notification on, and an attempt stops being one by its scan.             *)
LEMMA WakeupStep == ControlTypes /\ NoLostWakeup /\ [Next]_vars => NoLostWakeup'
<1> SUFFICES ASSUME ControlTypes, NoLostWakeup, [Next]_vars PROVE NoLostWakeup'
  OBVIOUS
<1> USE DEF ControlTypes, NoLostWakeup, WorkerPCs, Goto, poolVars, notifyVars, mainVars
<1>1. ASSUME NEW c \in Clients, EnqueueInsert(c) PROVE NoLostWakeup'
  BY <1>1 DEF EnqueueInsert
<1>2. ASSUME NEW c \in Clients, EnqueueNotify(c) PROVE NoLostWakeup'
  BY <1>2 DEF EnqueueNotify, NotifyOne
<1>3. CASE Cancel
  BY <1>3 DEF Cancel
<1>4. ASSUME NEW w \in Workers, Start(w) PROVE NoLostWakeup'
  BY <1>4 DEF Start
<1>5. ASSUME NEW w \in Workers, TickDue(w) PROVE NoLostWakeup'
  BY <1>5 DEF TickDue
<1>6. ASSUME NEW w \in Workers, PollShutdown(w) PROVE NoLostWakeup'
  BY <1>6 DEF PollShutdown, DropNotified, NotifyOne
<1>7. ASSUME NEW w \in Workers, PollNotify(w) PROVE NoLostWakeup'
  BY <1>7 DEF PollNotify, BeginAttempt
<1>8. ASSUME NEW w \in Workers, PollTick(w) PROVE NoLostWakeup'
  BY <1>8 DEF PollTick, DropNotified, NotifyOne, BeginAttempt
<1>9. ASSUME NEW w \in Workers, Wake(w) PROVE NoLostWakeup'
  BY <1>9 DEF Wake
<1>10. ASSUME NEW w \in Workers, ScanFinds(w) PROVE NoLostWakeup'
  BY <1>10 DEF ScanFinds
<1>11. ASSUME NEW w \in Workers, ScanFails(w) PROVE NoLostWakeup'
  BY <1>11 DEF ScanFails
<1>12. ASSUME NEW w \in Workers, ClaimSucceeds(w) PROVE NoLostWakeup'
  BY <1>12 DEF ClaimSucceeds
<1>13. ASSUME NEW w \in Workers, ClaimFails(w) PROVE NoLostWakeup'
  BY <1>13 DEF ClaimFails
<1>14. ASSUME NEW w \in Workers, FormMatch(w) PROVE NoLostWakeup'
  BY <1>14 DEF FormMatch
<1>15. ASSUME NEW w \in Workers, Panic(w) PROVE NoLostWakeup'
  BY <1>15 DEF Panic
<1>16. CASE ReaperStep
  BY <1>16 DEF ReaperStep, ReaperStart, ReaperExit, ReaperTick, ReaperScan
<1>17. CASE Signal
  BY <1>17 DEF Signal, CancelToken
<1>18. CASE ShutdownStep
  BY <1>18 DEF ShutdownStep, JoinNext, JoinTimeout
<1>19. CASE UNCHANGED vars
  BY <1>19 DEF vars
<1> QED
  BY <1>1, <1>2, <1>3, <1>4, <1>5, <1>6, <1>7, <1>8, <1>9, <1>10,
     <1>11, <1>12, <1>13, <1>14, <1>15, <1>16, <1>17, <1>18, <1>19
  DEF Next, LoopStep, AttemptStep

(* No wakeup is lost, with any number of workers, clients and panics and    *)
(* also during a shutdown (workers/mod.rs:150).                             *)
THEOREM WakeupsKept == Spec => []NoLostWakeup
<1>1. Init => ControlTypes /\ NoLostWakeup
  BY ControlTypesInit DEF Init, NoLostWakeup
<1>2. ControlTypes /\ NoLostWakeup /\ [Next]_vars => (ControlTypes /\ NoLostWakeup)'
  BY ControlTypesStep, WakeupStep
<1> QED
  BY <1>1, <1>2, PTL DEF Spec

-----------------------------------------------------------------------------
(* Late attempts: a worker that began an attempt after the cancellation     *)
(* passes the token's branch before it could begin another.                 *)
LateInv ==
    \A w \in Workers :
        /\ ~shutdown => late[w] = 0
        /\ late[w] <= 1
        /\ late[w] = 1 => wpc[w] \in {"attempt", "claiming", "forming", "poll",
                                      "exited", "panicked"}

(* Every step preserves it. *)
LEMMA LateStep == ControlTypes /\ LateInv /\ [Next]_vars => LateInv'
<1> SUFFICES ASSUME ControlTypes, LateInv, [Next]_vars PROVE LateInv'
  OBVIOUS
<1> USE DEF ControlTypes, LateInv, WorkerPCs, Goto, poolVars, notifyVars, mainVars
<1>1. ASSUME NEW c \in Clients, EnqueueInsert(c) PROVE LateInv'
  BY <1>1 DEF EnqueueInsert
<1>2. ASSUME NEW c \in Clients, EnqueueNotify(c) PROVE LateInv'
  BY <1>2 DEF EnqueueNotify, NotifyOne
<1>3. CASE Cancel
  BY <1>3 DEF Cancel
<1>4. ASSUME NEW w \in Workers, Start(w) PROVE LateInv'
  BY <1>4 DEF Start
<1>5. ASSUME NEW w \in Workers, TickDue(w) PROVE LateInv'
  BY <1>5 DEF TickDue
<1>6. ASSUME NEW w \in Workers, PollShutdown(w) PROVE LateInv'
  BY <1>6 DEF PollShutdown, DropNotified, NotifyOne
<1>7. ASSUME NEW w \in Workers, PollNotify(w) PROVE LateInv'
  BY <1>7 DEF PollNotify, BeginAttempt
<1>8. ASSUME NEW w \in Workers, PollTick(w) PROVE LateInv'
  BY <1>8 DEF PollTick, DropNotified, NotifyOne, BeginAttempt
<1>9. ASSUME NEW w \in Workers, Wake(w) PROVE LateInv'
  BY <1>9 DEF Wake
<1>10. ASSUME NEW w \in Workers, ScanFinds(w) PROVE LateInv'
  BY <1>10 DEF ScanFinds
<1>11. ASSUME NEW w \in Workers, ScanFails(w) PROVE LateInv'
  BY <1>11 DEF ScanFails
<1>12. ASSUME NEW w \in Workers, ClaimSucceeds(w) PROVE LateInv'
  BY <1>12 DEF ClaimSucceeds
<1>13. ASSUME NEW w \in Workers, ClaimFails(w) PROVE LateInv'
  BY <1>13 DEF ClaimFails
<1>14. ASSUME NEW w \in Workers, FormMatch(w) PROVE LateInv'
  BY <1>14 DEF FormMatch
<1>15. ASSUME NEW w \in Workers, Panic(w) PROVE LateInv'
  BY <1>15 DEF Panic
<1>16. CASE ReaperStep
  BY <1>16 DEF ReaperStep, ReaperStart, ReaperExit, ReaperTick, ReaperScan
<1>17. CASE Signal
  BY <1>17 DEF Signal, CancelToken
<1>18. CASE ShutdownStep
  BY <1>18 DEF ShutdownStep, JoinNext, JoinTimeout
<1>19. CASE UNCHANGED vars
  BY <1>19 DEF vars
<1> QED
  BY <1>1, <1>2, <1>3, <1>4, <1>5, <1>6, <1>7, <1>8, <1>9, <1>10,
     <1>11, <1>12, <1>13, <1>14, <1>15, <1>16, <1>17, <1>18, <1>19
  DEF Next, LoopStep, AttemptStep

(* After the cancellation of the token no worker begins more than one       *)
(* attempt (workers/mod.rs:32).                                             *)
THEOREM PromptShutdown == Spec => []AtMostOneLateAttempt
<1>1. Init => ControlTypes /\ LateInv
  BY ControlTypesInit DEF Init, LateInv
<1>2. ControlTypes /\ LateInv /\ [Next]_vars => (ControlTypes /\ LateInv)'
  BY ControlTypesStep, LateStep
<1>3. LateInv => AtMostOneLateAttempt
  BY DEF LateInv, AtMostOneLateAttempt
<1> QED
  BY <1>1, <1>2, <1>3, PTL DEF Spec

-----------------------------------------------------------------------------
(* The JoinSet: it holds at least the tasks that run, and main says         *)
(* "joined" only when it is empty.                                          *)
Running == {t \in Tasks : ~Ended(t)}

JoinInv ==
    /\ Cardinality(Running) <= worker_set
    /\ mpc = "joined" => worker_set = 0

(* A task that has ended stays so. *)
LEMMA EndedStays == ControlTypes /\ [Next]_vars => Running' \subseteq Running
<1> SUFFICES ASSUME ControlTypes, [Next]_vars PROVE Running' \subseteq Running
  OBVIOUS
<1> USE DEF ControlTypes, WorkerPCs, Goto, poolVars, notifyVars, mainVars,
            Running, Ended, Tasks, Reaper
<1> USE WorkersAssumption
<1>1. ASSUME NEW c \in Clients, EnqueueInsert(c) PROVE Running' \subseteq Running
  BY <1>1 DEF EnqueueInsert
<1>2. ASSUME NEW c \in Clients, EnqueueNotify(c) PROVE Running' \subseteq Running
  BY <1>2 DEF EnqueueNotify, NotifyOne
<1>3. CASE Cancel
  BY <1>3 DEF Cancel
<1>4. ASSUME NEW w \in Workers, Start(w) PROVE Running' \subseteq Running
  BY <1>4 DEF Start
<1>5. ASSUME NEW w \in Workers, TickDue(w) PROVE Running' \subseteq Running
  BY <1>5 DEF TickDue
<1>6. ASSUME NEW w \in Workers, PollShutdown(w) PROVE Running' \subseteq Running
  BY <1>6 DEF PollShutdown, DropNotified, NotifyOne
<1>7. ASSUME NEW w \in Workers, PollNotify(w) PROVE Running' \subseteq Running
  BY <1>7 DEF PollNotify, BeginAttempt
<1>8. ASSUME NEW w \in Workers, PollTick(w) PROVE Running' \subseteq Running
  BY <1>8 DEF PollTick, DropNotified, NotifyOne, BeginAttempt
<1>9. ASSUME NEW w \in Workers, Wake(w) PROVE Running' \subseteq Running
  BY <1>9 DEF Wake
<1>10. ASSUME NEW w \in Workers, ScanFinds(w) PROVE Running' \subseteq Running
  BY <1>10 DEF ScanFinds
<1>11. ASSUME NEW w \in Workers, ScanFails(w) PROVE Running' \subseteq Running
  BY <1>11 DEF ScanFails
<1>12. ASSUME NEW w \in Workers, ClaimSucceeds(w) PROVE Running' \subseteq Running
  BY <1>12 DEF ClaimSucceeds
<1>13. ASSUME NEW w \in Workers, ClaimFails(w) PROVE Running' \subseteq Running
  BY <1>13 DEF ClaimFails
<1>14. ASSUME NEW w \in Workers, FormMatch(w) PROVE Running' \subseteq Running
  BY <1>14 DEF FormMatch
<1>15. ASSUME NEW w \in Workers, Panic(w) PROVE Running' \subseteq Running
  BY <1>15 DEF Panic
<1>16. CASE ReaperStep
  BY <1>16 DEF ReaperStep, ReaperStart, ReaperExit, ReaperTick, ReaperScan
<1>17. CASE Signal
  BY <1>17 DEF Signal, CancelToken
<1>18. CASE ShutdownStep
  BY <1>18 DEF ShutdownStep, JoinNext, JoinTimeout
<1>19. CASE UNCHANGED vars
  BY <1>19 DEF vars
<1> QED
  BY <1>1, <1>2, <1>3, <1>4, <1>5, <1>6, <1>7, <1>8, <1>9, <1>10,
     <1>11, <1>12, <1>13, <1>14, <1>15, <1>16, <1>17, <1>18, <1>19
  DEF Next, LoopStep, AttemptStep

(* Every step preserves the bound on the JoinSet. *)
LEMMA JoinStep == ControlTypes /\ JoinInv /\ [Next]_vars => JoinInv'
<1> SUFFICES ASSUME ControlTypes, JoinInv, [Next]_vars PROVE JoinInv'
  OBVIOUS
<1>1. /\ Running' \subseteq Running
      /\ IsFiniteSet(Running) /\ IsFiniteSet(Running')
      /\ Cardinality(Running) \in Nat /\ Cardinality(Running') \in Nat
      /\ Cardinality(Running') <= Cardinality(Running)
  BY EndedStays, TasksFinite, FS_Subset, FS_CardinalityType DEF Running
<1>2. CASE JoinNext
  BY <1>1, <1>2 DEF JoinNext, JoinInv, ControlTypes, Running
<1>3. CASE ~JoinNext
  <2>1. worker_set' = worker_set /\ (mpc' = "joined" => mpc = "joined")
    BY <1>3 DEF Next, LoopStep, AttemptStep, ReaperStep, ShutdownStep, vars, mainVars,
                EnqueueInsert, EnqueueNotify, Cancel, Start, TickDue, PollShutdown, PollNotify,
                PollTick, Wake, ScanFinds, ScanFails, ClaimSucceeds, ClaimFails, FormMatch,
                Panic, ReaperStart, ReaperExit, ReaperTick, ReaperScan, Signal, CancelToken, JoinTimeout
  <2> QED
    BY <1>1, <2>1 DEF JoinInv, ControlTypes
<1> QED
  BY <1>2, <1>3

(* When main reports a clean join and logs the final metrics, every task    *)
(* has ended (main.rs:150-153).                                             *)
THEOREM JoinedMeansEnded == Spec => []FinalMetricsComplete
<1>1. Init => ControlTypes /\ JoinInv
  <2>1. ASSUME Init PROVE Cardinality(Running) <= worker_set
    BY <2>1, TasksFinite, FS_Subset, FS_CardinalityType DEF Init, Running
  <2> QED
    BY <2>1, ControlTypesInit DEF Init, JoinInv
<1>2. ControlTypes /\ JoinInv /\ [Next]_vars => (ControlTypes /\ JoinInv)'
  BY ControlTypesStep, JoinStep
<1>3. ControlTypes /\ JoinInv => FinalMetricsComplete
  <2> SUFFICES ASSUME ControlTypes, JoinInv, mpc = "joined", NEW t \in Tasks PROVE Ended(t)
    BY DEF FinalMetricsComplete
  <2>1. IsFiniteSet(Running) /\ Cardinality(Running) \in Nat
    BY TasksFinite, FS_Subset, FS_CardinalityType DEF Running
  <2>2. Running = {}
    BY <2>1, FS_EmptySet DEF JoinInv
  <2> QED
    BY <2>2 DEF Running
<1> QED
  BY <1>1, <1>2, <1>3, PTL DEF Spec
=============================================================================
