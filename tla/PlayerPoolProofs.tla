-------------------------- MODULE PlayerPoolProofs --------------------------
(***************************************************************************)
(* Proofs about the player pool, for any number of ids, clients and         *)
(* workers: IndexSound, GaugeExact, QueuedAreWaiting, and that the handlers *)
(* implement QueueService.                                                  *)
(*                                                                          *)
(* What holds whatever ids the clients use is in PoolInv; what holds when   *)
(* each id has one client is in OwnedInv.                                   *)
(***************************************************************************)
EXTENDS PlayerPool, FiniteSetTheorems, SequenceTheorems, TLAPS

-----------------------------------------------------------------------------
(* The inductive invariant.                                                 *)

(* The Player objects made so far. *)
Objects == DOMAIN players

Registrations == [id : Ids, rating : Ratings, state : PlayerStates]

(* The places of a client's operation at which it holds a Player. *)
Holding == {"ins_primary", "ins_index", "gauge_inc", "evict", "rm_primary", "rm_index"}

(* What a thread has yet to take out of the primary store. *)
Removing(t) == {n \in Objects : n \in batch[t] \/ (pc[t] = "rm_primary" /\ cur[t] = n)}

(* Both stores and the threads refer to objects, under their own id or key. *)
StoresInv ==
    /\ \A i \in Ids : primary[i] # 0 => primary[i] \in Objects /\ players[primary[i]].id = i
    /\ \A k \in Keys : index[k] # 0 => index[k] \in Objects /\ Key(index[k]) = k
    /\ \A t \in Threads : (cur[t] # 0 => cur[t] \in Objects) /\ batch[t] \subseteq Objects
    /\ \A w \in Workers : candidates[w] \subseteq Objects /\ claimed[w] \subseteq Objects

(* Where a client is, what it holds and what it was asked for. *)
ClientsInv ==
    \A c \in Clients :
        /\ batch[c] = {}
        /\ pc[c] \in Holding <=> cur[c] # 0
        /\ cur[c] # 0 => players[cur[c]].id = asked[c]
        /\ pc[c] # "idle" => asked[c] \in mayUse[c]

WorkerPCs == {"idle", "claiming", "marking", "rm_primary", "rm_index", "gauge_dec", "dead",
              "abandoned"}

(* Where a worker is and what it holds. *)
WorkersInv ==
    \A w \in Workers :
        /\ pc[w] \in WorkerPCs
        /\ pc[w] = "rm_index" => cur[w] # 0
        /\ pc[w] \notin {"rm_primary", "rm_index"} => cur[w] = 0
        /\ pc[w] \in {"idle", "claiming", "gauge_dec", "dead"} => batch[w] = {}
        /\ pc[w] \notin {"claiming", "marking"} => claimed[w] = {}
        /\ pc[w] = "marking" /\ batch[w] = {} => Cardinality(claimed[w]) = MATCH_SIZE

(* Nobody but client c can reach n. *)
Hidden(n, c) ==
    /\ \A i \in Ids : primary[i] # n
    /\ \A k \in Keys : index[k] # n
    /\ \A t \in Threads : t # c => cur[t] # n /\ n \notin batch[t]
    /\ \A w \in Workers : n \notin candidates[w]

(* A registration that is not yet in the primary store is its client's own. *)
FreshInv ==
    \A c \in Clients :
        pc[c] = "ins_primary" => players[cur[c]].state = "waiting" /\ Hidden(cur[c], c)

(* Somebody is to take the entry of id i out of the primary store. *)
BeingCleared(i) == \E t \in Threads : \E n \in Removing(t) : players[n].id = i

(* Player n has left the queue: it will be in it no more. *)
Gone(n) == players[n].state \in {"matched", "evicted"}

(* A player that left the queue and is still stored is to be taken out; by  *)
(* a worker that has abandoned its match, for ever.                         *)
LeavingInv ==
    \A i \in Ids : primary[i] # 0 /\ Gone(primary[i]) => BeingCleared(i)

(* A worker's claims are its own, and no claim is forgotten unless a worker *)
(* has panicked.                                                            *)
ClaimsInv ==
    /\ \A w \in Workers : \A n \in claimed[w] :
          /\ players[n].state = "claimed"
          /\ \A v \in Workers : n \in claimed[v] => v = w
    /\ \A n \in Objects : players[n].state = "claimed" =>
          \/ \E w \in Workers : n \in claimed[w]
          \/ \E w \in Workers : pc[w] \in {"dead", "abandoned"}

PoolInv ==
    /\ PoolTypeOK /\ StoresInv /\ ClientsInv /\ WorkersInv /\ FreshInv /\ LeavingInv
    /\ ClaimsInv

-----------------------------------------------------------------------------
(* What the actions do to the Player objects.                               *)

LEMMA ObjectsFacts ==
  ASSUME PoolTypeOK
  PROVE  /\ Len(players) \in Nat
         /\ Objects = 1 .. Len(players)
         /\ 0 \notin Objects
         /\ \A n \in Objects : players[n] \in Registrations
<1>1. players \in Seq(Registrations)
  BY DEF PoolTypeOK, Registrations
<1>2. Len(players) \in Nat /\ Objects = 1 .. Len(players)
  BY <1>1 DEF Objects
<1> QED
  BY <1>1, <1>2, ElementOfSeq

(* Player::new. *)
LEMMA EnqueueFacts ==
  ASSUME PoolTypeOK, NEW c \in Clients, NEW i \in Ids, NEW r \in Ratings, Enqueue(c, i, r)
  PROVE  \E n \in Nat \ (Objects \cup {0}) :
            /\ players' \in Seq(Registrations)
            /\ Objects' = Objects \cup {n}
            /\ players'[n] = [id |-> i, rating |-> r, state |-> "waiting"]
            /\ \A m \in Objects : players'[m] = players[m]
            /\ cur' = [cur EXCEPT ![c] = n]
<1> DEFINE n == Len(players) + 1
           e == [id |-> i, rating |-> r, state |-> "waiting"]
<1>1. e \in Registrations
  BY DEF Registrations, PlayerStates
<1>2. players \in Seq(Registrations) /\ Len(players) \in Nat
  BY DEF PoolTypeOK, Registrations
<1>3. players' = Append(players, e) /\ cur' = [cur EXCEPT ![c] = n]
  BY DEF Enqueue
<1> HIDE DEF e
<1>4. /\ players' \in Seq(Registrations) /\ Len(players') = n
      /\ players'[n] = e
      /\ \A m \in 1 .. Len(players) : players'[m] = players[m]
  BY <1>1, <1>2, <1>3, AppendProperties
<1>5. Objects = 1 .. Len(players) /\ Objects' = 1 .. Len(players')
  BY <1>2, <1>4 DEF Objects
<1>6. Objects' = Objects \cup {n} /\ n \in Nat \ (Objects \cup {0})
  BY <1>2, <1>4, <1>5
<1> HIDE DEF n
<1> QED
  BY <1>3, <1>4, <1>5, <1>6 DEF e

(* A change of some players' states. *)
Changed(S, s) ==
    /\ players' \in Seq(Registrations)
    /\ Objects' = Objects
    /\ \A n \in Objects : /\ players'[n].id = players[n].id
                          /\ players'[n].rating = players[n].rating
                          /\ n \in S => players'[n].state = s
                          /\ n \notin S => players'[n].state = players[n].state

LEMMA ChangedIs ==
  ASSUME PoolTypeOK, NEW S \in SUBSET Objects, NEW s \in PlayerStates,
         players' = [n \in DOMAIN players |->
                        IF n \in S THEN [players[n] EXCEPT !.state = s] ELSE players[n]]
  PROVE  Changed(S, s)
<1>1. /\ Len(players) \in Nat /\ Objects = 1 .. Len(players)
      /\ \A n \in Objects : players[n] \in Registrations
  BY ObjectsFacts
<1>2. \A n \in Objects :
         /\ players'[n] \in Registrations
         /\ players'[n].id = players[n].id
         /\ players'[n].rating = players[n].rating
         /\ n \in S => players'[n].state = s
         /\ n \notin S => players'[n].state = players[n].state
  BY <1>1 DEF Registrations, Objects
<1>3. players' \in [1 .. Len(players) -> Registrations]
  BY <1>1, <1>2 DEF Objects
<1>4. players' \in Seq(Registrations)
  BY <1>1, <1>3, SeqDef
<1>5. Objects' = Objects
  BY DEF Objects
<1> QED
  BY <1>2, <1>4, <1>5 DEF Changed

(* try_evict. *)
LEMMA EvictFacts ==
  ASSUME PoolTypeOK, StoresInv, ClientsInv, NEW c \in Clients, Evict(c)
  PROVE  cur[c] \in Objects /\ Changed({cur[c]}, "evicted")
<1>1. cur[c] \in Objects
  BY DEF Evict, ClientsInv, StoresInv, Holding, Threads
<1>2. players' = [n \in DOMAIN players |->
                    IF n \in {cur[c]} THEN [players[n] EXCEPT !.state = "evicted"] ELSE players[n]]
  BY <1>1 DEF Evict, Objects
<1> QED
  BY <1>1, <1>2, ChangedIs DEF PlayerStates

LEMMA SetStateIs ==
  ASSUME PoolTypeOK, NEW n \in Objects, NEW s \in PlayerStates, SetState(n, s)
  PROVE  Changed({n}, s)
<1>1. players' = [m \in DOMAIN players |->
                    IF m \in {n} THEN [players[m] EXCEPT !.state = s] ELSE players[m]]
  BY DEF SetState, Objects
<1> QED
  BY <1>1, ChangedIs

(* try_claim, release_claim, mark_matched and the Reaper's reset. *)
LEMMA ClaimFacts ==
  ASSUME PoolTypeOK, StoresInv, NEW w \in Workers, Claim(w)
  PROVE  \E n \in Objects :
            /\ n \in candidates[w] /\ players[n].state = "waiting" /\ Changed({n}, "claimed")
            /\ claimed' = [claimed EXCEPT ![w] = claimed[w] \cup {n}] /\ pc[w] = "claiming"
<1>1. PICK n \in candidates[w] :
         /\ players[n].state = "waiting" /\ SetState(n, "claimed") /\ pc[w] = "claiming"
         /\ claimed' = [claimed EXCEPT ![w] = claimed[w] \cup {n}]
  BY DEF Claim, Try
<1>2. n \in Objects
  BY DEF StoresInv
<1>3. Changed({n}, "claimed")
  BY <1>1, <1>2, SetStateIs DEF PlayerStates
<1> QED
  BY <1>1, <1>2, <1>3

LEMMA ReleaseFacts ==
  ASSUME PoolTypeOK, StoresInv, ClaimsInv, NEW w \in Workers, Release(w)
  PROVE  \E n \in Objects :
            /\ n \in claimed[w] /\ players[n].state = "claimed" /\ Changed({n}, "waiting")
            /\ claimed' = [claimed EXCEPT ![w] = claimed[w] \ {n}] /\ pc[w] = "claiming"
<1>1. PICK n \in claimed[w] :
         /\ SetState(n, "waiting") /\ pc[w] = "claiming"
         /\ claimed' = [claimed EXCEPT ![w] = claimed[w] \ {n}]
  BY DEF Release
<1>2. n \in Objects /\ players[n].state = "claimed"
  BY DEF StoresInv, ClaimsInv
<1>3. Changed({n}, "waiting")
  BY <1>1, <1>2, SetStateIs DEF PlayerStates
<1> QED
  BY <1>1, <1>2, <1>3

LEMMA MarkFacts ==
  ASSUME PoolTypeOK, StoresInv, ClaimsInv, NEW w \in Workers, Mark(w)
  PROVE  \E n \in Objects :
            /\ n \in claimed[w] /\ players[n].state = "claimed" /\ Changed({n}, "matched")
            /\ claimed' = [claimed EXCEPT ![w] = claimed[w] \ {n}]
            /\ batch' = [batch EXCEPT ![w] = batch[w] \cup {n}] /\ pc[w] = "marking"
<1>1. PICK n \in claimed[w] :
         /\ SetState(n, "matched") /\ pc[w] = "marking"
         /\ claimed' = [claimed EXCEPT ![w] = claimed[w] \ {n}]
         /\ batch' = [batch EXCEPT ![w] = batch[w] \cup {n}]
  BY DEF Mark
<1>2. n \in Objects /\ players[n].state = "claimed"
  BY DEF StoresInv, ClaimsInv
<1>3. Changed({n}, "matched")
  BY <1>1, <1>2, SetStateIs DEF PlayerStates
<1> QED
  BY <1>1, <1>2, <1>3

LEMMA ResetFacts ==
  ASSUME PoolTypeOK, ResetStale
  PROVE  \E n \in Objects :
            /\ players[n].state = "claimed" /\ Changed({n}, "waiting")
            /\ \A w \in Workers : n \notin claimed[w]
<1>1. PICK n \in Objects :
         /\ players[n].state = "claimed" /\ SetState(n, "waiting")
         /\ \A w \in Workers : n \notin claimed[w]
  BY DEF ResetStale, Objects
<1>2. Changed({n}, "waiting")
  BY <1>1, SetStateIs DEF PlayerStates
<1> QED
  BY <1>1, <1>2

-----------------------------------------------------------------------------
(* Types, the stores' references and the threads' places.                   *)

(* The types other than the Player objects'. *)
Types ==
    /\ mayUse \in Assignments
    /\ primary \in [Ids -> Nat]
    /\ index \in [Keys -> Nat]
    /\ current_queue_size \in Int
    /\ asked \in [Clients -> Ids \cup {NoId}]
    /\ pc \in [Threads -> PoolPCs]
    /\ cur \in [Threads -> Nat]
    /\ candidates \in [Workers -> SUBSET Nat]
    /\ claimed \in [Workers -> SUBSET Nat]
    /\ batch \in [Threads -> SUBSET Nat]

LEMMA TypesSplit == PoolTypeOK <=> Types /\ players \in Seq(Registrations)
BY DEF PoolTypeOK, Types, Registrations

LEMMA ThreadKinds ==
  /\ \A c \in Clients : c \in Threads /\ c \notin Workers
  /\ \A w \in Workers : w \in Threads /\ w \notin Clients
  /\ \A t \in Threads : t \in Clients \/ t \in Workers
BY ThreadsAssumption DEF Threads

LEMMA KeysFacts ==
  ASSUME PoolTypeOK, NEW n \in Objects
  PROVE  Key(n) \in Keys /\ players[n].id \in Ids /\ n # 0 /\ n \in Nat
<1>1. n \in Nat /\ n # 0 /\ players[n] \in Registrations
  BY ObjectsFacts
<1> QED
  BY <1>1 DEF Key, Keys, Registrations

(* How a step changes the primary store. *)
LEMMA PrimaryChanges ==
  ASSUME [Next]_vars
  PROVE  \/ \E c \in Clients : InsertPrimary(c)
         \/ \E t \in Threads : RemovePrimary(t)
         \/ UNCHANGED primary
BY DEF Next, ClientStep, WorkerStep, RemoveStep, Enqueue, EnqueueRefused, InsertIndex, GaugeInc,
       CancelUnknown, CancelGet, Evict, EvictRefused, Refuse, Scan, Claim, ClaimFails, Try, Release,
       GiveUp, BeginMatch, Mark, AllMarked, Panic, ResetStale, NextToRemove, AllRemoved,
       RemoveAbsent, RemoveIndex, GaugeDec, vars

(* How a step changes the index. *)
LEMMA IndexChanges ==
  ASSUME [Next]_vars
  PROVE  \/ \E c \in Clients : InsertIndex(c)
         \/ \E t \in Threads : RemoveIndex(t)
         \/ UNCHANGED index
BY DEF Next, ClientStep, WorkerStep, RemoveStep, Enqueue, EnqueueRefused, InsertPrimary, GaugeInc,
       CancelUnknown, CancelGet, Evict, EvictRefused, Refuse, Scan, Claim, ClaimFails, Try, Release,
       GiveUp, BeginMatch, Mark, AllMarked, Panic, ResetStale, NextToRemove, AllRemoved,
       RemovePrimary, RemoveAbsent, GaugeDec, vars

(* How a step changes the Player objects. *)
LEMMA PlayersChange ==
  ASSUME [Next]_vars
  PROVE  \/ \E c \in Clients, i \in Ids, r \in Ratings : Enqueue(c, i, r)
         \/ \E c \in Clients : Evict(c)
         \/ \E w \in Workers : Claim(w) \/ Release(w) \/ Mark(w)
         \/ ResetStale
         \/ UNCHANGED players
BY DEF Next, ClientStep, WorkerStep, RemoveStep, EnqueueRefused, InsertPrimary, InsertIndex,
       GaugeInc, CancelUnknown, CancelGet, EvictRefused, Refuse, Scan, ClaimFails, GiveUp,
       BeginMatch, AllMarked, Panic, NextToRemove, AllRemoved,
       RemovePrimary, RemoveAbsent, RemoveIndex, GaugeDec, vars

(* How a step changes what the threads hold. *)
LEMMA CurChanges ==
  ASSUME [Next]_vars
  PROVE  \/ \E c \in Clients, i \in Ids, r \in Ratings : Enqueue(c, i, r)
         \/ \E c \in Clients, i \in Ids : CancelGet(c, i)
         \/ \E w \in Workers : NextToRemove(w)
         \/ \E t \in Threads : RemovePrimary(t)
         \/ \E t \in Threads : cur' = [cur EXCEPT ![t] = 0]
         \/ UNCHANGED cur
BY ThreadKinds
   DEF Next, ClientStep, WorkerStep, RemoveStep, EnqueueRefused, InsertPrimary, InsertIndex,
       GaugeInc, CancelUnknown, Evict, EvictRefused, Refuse, Scan, Claim, ClaimFails, Try, Release,
       GiveUp, BeginMatch, Mark, AllMarked, Panic, ResetStale, AllRemoved, RemoveAbsent,
       RemoveIndex, GaugeDec, LeaveRemove, vars

(* How a step changes the batches. *)
LEMMA BatchChanges ==
  ASSUME [Next]_vars
  PROVE  \/ \E w \in Workers : Mark(w)
         \/ \E w \in Workers : NextToRemove(w)
         \/ UNCHANGED batch
BY DEF Next, ClientStep, WorkerStep, RemoveStep, Enqueue, EnqueueRefused, InsertPrimary,
       InsertIndex, GaugeInc, CancelUnknown, CancelGet, Evict, EvictRefused, Refuse, Scan, Claim,
       ClaimFails, Try, Release, GiveUp, BeginMatch, AllMarked, Panic, ResetStale, AllRemoved,
       RemovePrimary, RemoveAbsent, RemoveIndex, GaugeDec, vars

(* How a step changes what the workers have to claim and have claimed. *)
LEMMA ClaimsChange ==
  ASSUME [Next]_vars
  PROVE  \/ \E w \in Workers : Scan(w) \/ Claim(w) \/ ClaimFails(w) \/ Release(w) \/ BeginMatch(w)
                               \/ Mark(w) \/ Panic(w)
         \/ UNCHANGED <<candidates, claimed>>
BY DEF Next, ClientStep, WorkerStep, RemoveStep, Enqueue, EnqueueRefused, InsertPrimary,
       InsertIndex, GaugeInc, CancelUnknown, CancelGet, Evict, EvictRefused, Refuse, GiveUp,
       AllMarked, ResetStale, NextToRemove, AllRemoved, RemovePrimary, RemoveAbsent, RemoveIndex,
       GaugeDec, vars, claimVars

(* A candidate was one before or is found now. *)
LEMMA CandidatesFrom ==
  ASSUME Types, [Next]_vars
  PROVE  /\ candidates' \in [Workers -> SUBSET (Nat \cup range_scan)]
         /\ \A w \in Workers : \A n \in candidates'[w] : n \in candidates[w] \/ n \in range_scan
<1>1. CASE \E w \in Workers : Scan(w)
  BY <1>1 DEF Scan, Types
<1>2. CASE \E w \in Workers : Claim(w) \/ ClaimFails(w)
  BY <1>2 DEF Claim, ClaimFails, Try, Types
<1>3. CASE \E w \in Workers : BeginMatch(w)
  BY <1>3 DEF BeginMatch, Types
<1>4. CASE UNCHANGED candidates
  BY <1>4 DEF Types
<1> QED
  BY <1>1, <1>2, <1>3, <1>4, ClaimsChange DEF Release, Mark, Panic

(* A claim was one before or is made now. *)
LEMMA ClaimedFrom ==
  ASSUME PoolTypeOK, StoresInv, ClaimsInv, [Next]_vars
  PROVE  /\ claimed' \in [Workers -> SUBSET Nat]
         /\ \A w \in Workers : \A n \in claimed'[w] :
               \/ n \in claimed[w]
               \/ Claim(w) /\ n \in Objects /\ players[n].state = "waiting" /\ Changed({n}, "claimed")
<1>0. Types /\ \A n \in Objects : n \in Nat
  BY TypesSplit, KeysFacts
<1>1. ASSUME NEW w \in Workers, Claim(w)
      PROVE  /\ claimed' \in [Workers -> SUBSET Nat]
             /\ \A v \in Workers : \A n \in claimed'[v] :
                  \/ n \in claimed[v]
                  \/ v = w /\ n \in Objects /\ players[n].state = "waiting" /\ Changed({n}, "claimed")
  <2>1. PICK n \in Objects :
           /\ players[n].state = "waiting" /\ Changed({n}, "claimed")
           /\ claimed' = [claimed EXCEPT ![w] = claimed[w] \cup {n}]
    BY <1>1, ClaimFacts
  <2>2. ASSUME NEW v \in Workers, NEW m \in claimed'[v] PROVE m \in claimed[v] \/ (v = w /\ m = n)
    BY <1>0, <2>1, <2>2 DEF Types
  <2>3. claimed' \in [Workers -> SUBSET Nat]
    BY <1>0, <2>1 DEF Types
  <2> QED
    BY <2>1, <2>2, <2>3
<1>2. CASE \E w \in Workers : Release(w) \/ Mark(w) \/ Panic(w)
  <2>1. PICK w \in Workers, S \in SUBSET Nat :
           S \subseteq claimed[w] /\ claimed' = [claimed EXCEPT ![w] = S]
    BY <1>0, <1>2 DEF Release, Mark, Panic, Types
  <2> QED
    BY <1>0, <2>1 DEF Types
<1>3. CASE UNCHANGED claimed
  BY <1>0, <1>3 DEF Types
<1> QED
  BY <1>1, <1>2, <1>3, ClaimsChange DEF Scan, ClaimFails, BeginMatch

(* How a step changes the Player objects, in short. *)
LEMMA ObjectsChange ==
  ASSUME PoolTypeOK, StoresInv, ClientsInv, ClaimsInv, [Next]_vars
  PROVE  \/ \E c \in Clients, i \in Ids, r \in Ratings : Enqueue(c, i, r)
         \/ \E n \in Objects, z \in PlayerStates : Changed({n}, z)
         \/ UNCHANGED players
<1>1. {"waiting", "claimed", "matched", "evicted"} \subseteq PlayerStates
  BY DEF PlayerStates
<1>2. CASE \E c \in Clients : Evict(c)
  BY <1>1, <1>2, EvictFacts
<1>3. CASE \E w \in Workers : Claim(w) \/ Release(w)
  BY <1>1, <1>3, ClaimFacts, ReleaseFacts
<1>4. CASE \E w \in Workers : Mark(w)
  BY <1>1, <1>4, MarkFacts
<1>5. CASE ResetStale
  BY <1>1, <1>5, ResetFacts
<1> QED
  BY <1>2, <1>3, <1>4, <1>5, PlayersChange

LEMMA AssignmentStays ==
  ASSUME [Next]_vars PROVE mayUse' = mayUse /\ (OneClientPerId' <=> OneClientPerId)
<1>1. mayUse' = mayUse
  BY DEF Next, ClientStep, WorkerStep, RemoveStep, Enqueue, EnqueueRefused,
         InsertPrimary, InsertIndex, GaugeInc, CancelUnknown, CancelGet, Evict, EvictRefused,
         Refuse, Scan, Claim, ClaimFails, Try, Release, GiveUp, BeginMatch, Mark, AllMarked,
         Panic, ResetStale, NextToRemove, AllRemoved, RemovePrimary, RemoveAbsent,
         RemoveIndex, GaugeDec, vars
<1> QED
  BY <1>1 DEF OneClientPerId

LEMMA TypeStep == PoolInv /\ [Next]_vars => PoolTypeOK'
<1> SUFFICES ASSUME PoolInv, [Next]_vars PROVE PoolTypeOK'
  OBVIOUS
<1>0. PoolTypeOK /\ Types /\ players \in Seq(Registrations) /\ StoresInv /\ ClientsInv
      /\ ClaimsInv
  BY TypesSplit DEF PoolInv
<1>1. \A n \in Objects : Key(n) \in Keys /\ players[n].id \in Ids /\ n # 0 /\ n \in Nat
  BY <1>0, KeysFacts
<1>2. \A c \in Clients : pc[c] \in Holding => cur[c] \in Objects
  BY <1>0, ThreadKinds DEF ClientsInv, StoresInv
<1>3. mayUse' \in Assignments
  BY <1>0, AssignmentStays DEF Types
<1>4. players' \in Seq(Registrations)
  <2>1. CASE \E c \in Clients, i \in Ids, r \in Ratings : Enqueue(c, i, r)
    BY <1>0, <2>1, EnqueueFacts
  <2>2. CASE \E n \in Objects, z \in PlayerStates : Changed({n}, z)
    BY <2>2 DEF Changed
  <2> QED
    BY <1>0, <2>1, <2>2, ObjectsChange
<1>5. primary' \in [Ids -> Nat]
  <2>0. ASSUME NEW i, NEW n \in Nat, primary' = [primary EXCEPT ![i] = n]
        PROVE  primary' \in [Ids -> Nat]
    BY <1>0, <2>0 DEF Types
  <2>1. ASSUME NEW c \in Clients, InsertPrimary(c) PROVE primary' \in [Ids -> Nat]
    <3>1. players[cur[c]].id \in Ids /\ cur[c] \in Nat
      BY <1>1, <1>2, <2>1 DEF InsertPrimary, Holding
    <3> QED
      BY <1>0, <2>1, <3>1 DEF InsertPrimary, Types
  <2>2. CASE \E t \in Threads : RemovePrimary(t)
    BY <2>0, <2>2 DEF RemovePrimary
  <2>3. CASE UNCHANGED primary
    BY <1>0, <2>3 DEF Types
  <2> QED
    BY <2>1, <2>2, <2>3, PrimaryChanges
<1>6. index' \in [Keys -> Nat]
  <2>0. ASSUME NEW k, NEW n \in Nat, index' = [index EXCEPT ![k] = n]
        PROVE  index' \in [Keys -> Nat]
    BY <1>0, <2>0 DEF Types
  <2>1. ASSUME NEW c \in Clients, InsertIndex(c) PROVE index' \in [Keys -> Nat]
    <3>1. cur[c] \in Nat
      BY <1>1, <1>2, <2>1 DEF InsertIndex, Holding
    <3> QED
      BY <1>0, <2>1, <3>1 DEF InsertIndex, Types
  <2>2. CASE \E t \in Threads : RemoveIndex(t)
    BY <2>0, <2>2 DEF RemoveIndex
  <2>3. CASE UNCHANGED index
    BY <1>0, <2>3 DEF Types
  <2> QED
    BY <2>1, <2>2, <2>3, IndexChanges
<1>7. current_queue_size' \in Int
  <2>1. CASE \E c \in Clients : GaugeInc(c)
    BY <1>0, <2>1 DEF GaugeInc, Types
  <2>2. CASE \E t \in Threads : GaugeDec(t)
    BY <1>0, <2>2, PoolSizeAssumption DEF GaugeDec, Types
  <2>3. CASE UNCHANGED current_queue_size
    BY <1>0, <2>3 DEF Types
  <2> QED
    BY <2>1, <2>2, <2>3
    DEF Next, ClientStep, WorkerStep, RemoveStep, Enqueue, EnqueueRefused, InsertPrimary,
        InsertIndex, CancelUnknown, CancelGet, Evict, EvictRefused, Refuse, Scan,
        Claim, ClaimFails, Try, Release, GiveUp, BeginMatch, Mark, AllMarked, Panic, ResetStale,
        NextToRemove, AllRemoved, RemovePrimary, RemoveAbsent, RemoveIndex, vars
<1>8. asked' \in [Clients -> Ids \cup {NoId}]
  <2>1. CASE \E c \in Clients, i \in Ids : asked' = [asked EXCEPT ![c] = i]
    BY <1>0, <2>1 DEF Types
  <2>2. CASE \E c \in Clients : asked' = [asked EXCEPT ![c] = NoId]
    BY <1>0, <2>2 DEF Types
  <2>3. CASE UNCHANGED asked
    BY <1>0, <2>3 DEF Types
  <2> QED
    BY <2>1, <2>2, <2>3
    DEF Next, ClientStep, WorkerStep, RemoveStep, Enqueue, EnqueueRefused, InsertPrimary,
        InsertIndex, GaugeInc, CancelUnknown, CancelGet, Evict, EvictRefused, Refuse, Scan,
        Claim, ClaimFails, Try, Release, GiveUp, BeginMatch, Mark, AllMarked, Panic, ResetStale,
        NextToRemove, AllRemoved, RemovePrimary, RemoveAbsent, RemoveIndex, GaugeDec, Ask,
        Answer, Finish, vars
<1>9. pc' \in [Threads -> PoolPCs]
  <2>1. ASSUME NEW t, NEW p \in PoolPCs, Goto(t, p) PROVE pc' \in [Threads -> PoolPCs]
    BY <1>0, <2>1 DEF Types, Goto
  <2>2. /\ {"idle", "ins_primary", "ins_index", "gauge_inc", "already_queued"} \subseteq PoolPCs
        /\ {"evict", "rm_primary", "rm_index", "gauge_dec", "being_matched"} \subseteq PoolPCs
        /\ {"not_found", "claiming", "marking", "dead", "abandoned"} \subseteq PoolPCs
    BY DEF PoolPCs
  <2>3. CASE UNCHANGED pc
    BY <1>0, <2>3 DEF Types
  <2>4. ASSUME NEW c \in Clients, ClientStep(c) PROVE pc' \in [Threads -> PoolPCs]
    BY <2>1, <2>2, <2>4 DEF ClientStep, Enqueue, EnqueueRefused, InsertPrimary, InsertIndex,
        GaugeInc, CancelUnknown, CancelGet, Evict, EvictRefused, Refuse, Answer
  <2>5. ASSUME NEW w \in Workers, WorkerStep(w) PROVE pc' \in [Threads -> PoolPCs]
    BY <2>1, <2>2, <2>3, <2>5 DEF WorkerStep, Scan, Claim, ClaimFails, Try, Release,
        GiveUp, BeginMatch, Mark, AllMarked, Panic, NextToRemove, AllRemoved
  <2>6. ASSUME NEW t \in Threads, RemoveStep(t) PROVE pc' \in [Threads -> PoolPCs]
    BY <2>1, <2>2, <2>6 DEF RemoveStep, RemovePrimary, RemoveAbsent, RemoveIndex, GaugeDec,
        LeaveRemove, Finish, Answer
  <2> QED
    BY <2>3, <2>4, <2>5, <2>6 DEF Next, ResetStale, vars
<1>10. cur' \in [Threads -> Nat]
  <2>1. ASSUME NEW t, NEW n \in Nat, cur' = [cur EXCEPT ![t] = n] PROVE cur' \in [Threads -> Nat]
    BY <1>0, <2>1 DEF Types
  <2>2. CASE UNCHANGED cur
    BY <1>0, <2>2 DEF Types
  <2>3. CASE \E c \in Clients, i \in Ids, r \in Ratings : Enqueue(c, i, r)
    BY <1>0, <2>1, <2>3, EnqueueFacts
  <2>4. CASE \E c \in Clients, i \in Ids : CancelGet(c, i)
    BY <1>0, <2>1, <2>4 DEF CancelGet, Types
  <2>5. CASE \E w \in Workers : NextToRemove(w)
    BY <1>0, <2>1, <2>5, ThreadKinds DEF NextToRemove, Types
  <2>6. CASE \E t \in Threads : RemovePrimary(t)
    <3>1. PICK t \in Threads : RemovePrimary(t)
      BY <2>6
    <3>2. players[cur[t]].id \in Ids
      BY <1>0, <1>1, <3>1 DEF RemovePrimary, StoresInv
    <3> QED
      BY <1>0, <2>1, <3>1, <3>2 DEF RemovePrimary, Types
  <2>7. CASE \E t \in Threads : cur' = [cur EXCEPT ![t] = 0]
    BY <2>1, <2>7
  <2> QED
    BY <2>2, <2>3, <2>4, <2>5, <2>6, <2>7, CurChanges
<1>11. batch' \in [Threads -> SUBSET Nat]
  <2>1. CASE \E w \in Workers : Mark(w)
    <3>1. PICK w \in Workers, n \in Objects : batch' = [batch EXCEPT ![w] = batch[w] \cup {n}]
      BY <1>0, <2>1, MarkFacts
    <3> QED
      BY <1>0, <1>1, <3>1, ThreadKinds DEF Types
  <2>2. CASE \E w \in Workers : NextToRemove(w)
    BY <1>0, <2>2, ThreadKinds DEF NextToRemove, Types
  <2>3. CASE UNCHANGED batch
    BY <1>0, <2>3 DEF Types
  <2> QED
    BY <2>1, <2>2, <2>3, BatchChanges
<1>12. candidates' \in [Workers -> SUBSET Nat] /\ claimed' \in [Workers -> SUBSET Nat]
  <2>1. range_scan \subseteq Nat
    BY <1>1 DEF range_scan, Objects
  <2> QED
    BY <1>0, <2>1, CandidatesFrom, ClaimedFrom
<1>13. Types'
  BY <1>3, <1>5, <1>6, <1>7, <1>8, <1>9, <1>10, <1>11, <1>12 DEF Types
<1> QED
  BY <1>4, <1>13 DEF PoolTypeOK, Types, Registrations

(* Objects stay, with their ids and ratings. *)
LEMMA ObjectsStay ==
  ASSUME PoolInv, [Next]_vars, NEW n \in Objects
  PROVE  /\ n \in Objects'
         /\ players'[n].id = players[n].id
         /\ <<players'[n].rating, players'[n].id>> = Key(n)
<1>0. PoolTypeOK /\ StoresInv /\ ClientsInv /\ ClaimsInv
  BY DEF PoolInv
<1>1. /\ n \in Objects'
      /\ players'[n].id = players[n].id
      /\ players'[n].rating = players[n].rating
  <2>1. CASE \E c \in Clients, i \in Ids, r \in Ratings : Enqueue(c, i, r)
    BY <1>0, <2>1, EnqueueFacts
  <2>2. CASE \E m \in Objects, z \in PlayerStates : Changed({m}, z)
    BY <2>2 DEF Changed
  <2>3. CASE UNCHANGED players
    BY <2>3 DEF Objects
  <2> QED
    BY <1>0, <2>1, <2>2, <2>3, ObjectsChange
<1> QED
  BY <1>1 DEF Key

LEMMA StoresStep == PoolInv /\ [Next]_vars => StoresInv'
<1> SUFFICES ASSUME PoolInv, [Next]_vars PROVE StoresInv'
  OBVIOUS
<1>0. PoolTypeOK /\ Types /\ StoresInv /\ ClientsInv /\ ClaimsInv
  BY TypesSplit DEF PoolInv
<1>1. \A n \in Objects : Key(n) \in Keys /\ players[n].id \in Ids /\ n # 0 /\ n \in Nat
  BY <1>0, KeysFacts
<1>2. \A c \in Clients : pc[c] \in Holding => cur[c] \in Objects
  BY <1>0, ThreadKinds DEF ClientsInv, StoresInv
<1>3. \A n \in Objects : n \in Objects' /\ players'[n].id = players[n].id /\ <<players'[n].rating, players'[n].id>> = Key(n)
  BY ObjectsStay
<1>4. ASSUME NEW i \in Ids, primary'[i] # 0
      PROVE  primary'[i] \in Objects' /\ players'[primary'[i]].id = i
  <2>0. primary[i] # 0 => primary[i] \in Objects' /\ players'[primary[i]].id = i
    BY <1>0, <1>3 DEF StoresInv
  <2>1. ASSUME NEW c \in Clients, InsertPrimary(c)
        PROVE  \/ primary'[i] = primary[i]
               \/ primary'[i] = cur[c] /\ cur[c] \in Objects /\ players[cur[c]].id = i
    BY <1>0, <1>2, <2>1 DEF InsertPrimary, Types, Holding
  <2>2. ASSUME NEW t \in Threads, RemovePrimary(t)
        PROVE  primary'[i] = primary[i] \/ primary'[i] = 0
    BY <1>0, <2>2 DEF RemovePrimary, Types
  <2> QED
    BY <1>3, <1>4, <2>0, <2>1, <2>2, PrimaryChanges
<1>5. ASSUME NEW k \in Keys, index'[k] # 0
      PROVE  index'[k] \in Objects' /\ <<players'[index'[k]].rating, players'[index'[k]].id>> = k
  <2>0. index[k] # 0 => index[k] \in Objects' /\ <<players'[index[k]].rating, players'[index[k]].id>> = k
    BY <1>0, <1>3 DEF StoresInv
  <2>1. ASSUME NEW c \in Clients, InsertIndex(c)
        PROVE  \/ index'[k] = index[k]
               \/ index'[k] = cur[c] /\ cur[c] \in Objects /\ Key(cur[c]) = k
    BY <1>0, <1>2, <2>1 DEF InsertIndex, Types, Holding
  <2>2. ASSUME NEW t \in Threads, RemoveIndex(t)
        PROVE  index'[k] = index[k] \/ index'[k] = 0
    BY <1>0, <2>2 DEF RemoveIndex, Types
  <2> QED
    BY <1>3, <1>5, <2>0, <2>1, <2>2, IndexChanges
<1>6. ASSUME NEW t \in Threads, cur'[t] # 0 PROVE cur'[t] \in Objects'
  <2>0. cur[t] # 0 => cur[t] \in Objects'
    BY <1>0, <1>3 DEF StoresInv
  <2>1. CASE \E c \in Clients, i \in Ids, r \in Ratings : Enqueue(c, i, r)
    BY <1>0, <1>6, <2>0, <2>1, EnqueueFacts DEF Types
  <2>2. CASE \E c \in Clients, i \in Ids : CancelGet(c, i)
    BY <1>0, <1>3, <1>6, <2>0, <2>2 DEF CancelGet, Types, StoresInv
  <2>3. CASE \E w \in Workers : NextToRemove(w)
    BY <1>0, <1>3, <1>6, <2>0, <2>3, ThreadKinds DEF NextToRemove, Types, StoresInv
  <2>4. ASSUME NEW u \in Threads, RemovePrimary(u) PROVE cur'[t] \in Objects'
    BY <1>0, <1>1, <1>3, <1>6, <2>0, <2>4 DEF RemovePrimary, Types, StoresInv
  <2>5. CASE \E u \in Threads : cur' = [cur EXCEPT ![u] = 0]
    BY <1>0, <1>6, <2>0, <2>5 DEF Types
  <2> QED
    BY <1>6, <2>0, <2>1, <2>2, <2>3, <2>4, <2>5, CurChanges
<1>7. ASSUME NEW t \in Threads PROVE batch'[t] \subseteq Objects'
  <2>0. batch[t] \subseteq Objects'
    BY <1>0, <1>3 DEF StoresInv
  <2>1. CASE \E w \in Workers : Mark(w)
    <3>1. PICK w \in Workers, n \in Objects : batch' = [batch EXCEPT ![w] = batch[w] \cup {n}]
      BY <1>0, <2>1, MarkFacts
    <3>2. batch'[t] = batch[t] \/ batch'[t] = batch[t] \cup {n}
      BY <1>0, <3>1 DEF Types
    <3> QED
      BY <1>3, <2>0, <3>2
  <2>2. CASE \E w \in Workers : NextToRemove(w)
    BY <1>0, <2>0, <2>2 DEF NextToRemove, Types
  <2> QED
    BY <2>0, <2>1, <2>2, BatchChanges
<1>8. ASSUME NEW w \in Workers PROVE candidates'[w] \subseteq Objects' /\ claimed'[w] \subseteq Objects'
  <2>1. range_scan \subseteq Objects
    BY DEF range_scan, Objects
  <2>2. candidates[w] \subseteq Objects /\ claimed[w] \subseteq Objects
    BY <1>0 DEF StoresInv
  <2>3. candidates'[w] \subseteq Objects
    BY <1>0, <2>1, <2>2, CandidatesFrom
  <2>4. claimed'[w] \subseteq Objects
    BY <1>0, <2>2, ClaimedFrom
  <2> QED
    BY <1>3, <2>3, <2>4
<1> QED
  BY <1>4, <1>5, <1>6, <1>7, <1>8 DEF StoresInv, Key

(* A step is some thread's. *)
Step(t) ==
    \/ t \in Clients /\ ClientStep(t)
    \/ t \in Workers /\ WorkerStep(t)
    \/ RemoveStep(t)

(* No thread moves: the Reaper resets a claim, or nothing happens. *)
Rest ==
    UNCHANGED <<mayUse, primary, index, current_queue_size, asked, pc, cur, candidates, claimed, batch>>

LEMMA StepsAre == ASSUME [Next]_vars PROVE Rest \/ \E t \in Threads : Step(t)
<1>1. CASE ResetStale
  BY <1>1 DEF ResetStale, Rest, claimVars
<1>2. CASE UNCHANGED vars
  BY <1>2 DEF Rest, vars, claimVars
<1> QED
  BY <1>1, <1>2, ThreadKinds DEF Next, Step

(* It leaves the other threads where they are. *)
LEMMA OthersStay ==
  ASSUME Types, NEW t \in Threads, Step(t), NEW u \in Threads, u # t
  PROVE  /\ pc'[u] = pc[u] /\ cur'[u] = cur[u] /\ batch'[u] = batch[u]
         /\ u \in Clients => asked'[u] = asked[u]
         /\ u \in Workers => claimed'[u] = claimed[u]
<1>1. CASE ClientStep(t)
  <2>1. CASE \E i \in Ids, r \in Ratings : Enqueue(t, i, r)
    BY <2>1 DEF Types, Enqueue, Ask, Goto, claimVars
  <2>2. CASE \E i \in Ids : EnqueueRefused(t, i) \/ CancelUnknown(t, i) \/ CancelGet(t, i)
    BY <2>2 DEF Types, EnqueueRefused, CancelUnknown, CancelGet, Ask, Goto, claimVars
  <2>3. CASE InsertPrimary(t) \/ InsertIndex(t) \/ GaugeInc(t)
    BY <2>3 DEF Types, InsertPrimary, InsertIndex, GaugeInc, Answer, Goto, claimVars
  <2>4. CASE Evict(t) \/ EvictRefused(t) \/ Refuse(t)
    BY <2>4 DEF Types, Evict, EvictRefused, Refuse, Answer, Goto, claimVars
  <2> QED
    BY <1>1, <2>1, <2>2, <2>3, <2>4 DEF ClientStep
<1>2. CASE WorkerStep(t)
  <2>1. CASE Scan(t) \/ GiveUp(t) \/ BeginMatch(t)
    BY <2>1 DEF Types, Scan, GiveUp, BeginMatch, Goto, claimVars
  <2>2. CASE Claim(t) \/ ClaimFails(t)
    BY <2>2 DEF Types, Claim, ClaimFails, Try
  <2>3. CASE Release(t) \/ Mark(t)
    BY <2>3 DEF Types, Release, Mark
  <2>4. CASE AllMarked(t) \/ Panic(t)
    BY <2>4 DEF Types, AllMarked, Panic, Goto, claimVars
  <2>5. CASE NextToRemove(t) \/ AllRemoved(t)
    BY <2>5 DEF Types, NextToRemove, AllRemoved, Goto, claimVars
  <2> QED
    BY <1>2, <2>1, <2>2, <2>3, <2>4, <2>5 DEF WorkerStep
<1>3. CASE RemoveStep(t)
  <2>1. CASE RemovePrimary(t)
    BY <2>1 DEF Types, RemovePrimary, Goto, claimVars
  <2>2. CASE RemoveAbsent(t) \/ RemoveIndex(t)
    BY <2>2 DEF Types, RemoveAbsent, RemoveIndex, LeaveRemove, Goto, claimVars
  <2>3. CASE GaugeDec(t)
    BY <2>3 DEF Types, GaugeDec, Finish, Answer, Goto, claimVars
  <2> QED
    BY <1>3, <2>1, <2>2, <2>3 DEF RemoveStep
<1> QED
  BY <1>1, <1>2, <1>3 DEF Step

LEMMA ClientsStep == PoolInv /\ [Next]_vars => ClientsInv'
<1> SUFFICES ASSUME PoolInv, [Next]_vars, NEW c \in Clients
             PROVE  /\ batch'[c] = {}
                    /\ pc'[c] \in Holding <=> cur'[c] # 0
                    /\ cur'[c] # 0 => players'[cur'[c]].id = asked'[c]
                    /\ pc'[c] # "idle" => asked'[c] \in mayUse'[c]
  BY DEF ClientsInv
<1>0. PoolTypeOK /\ Types /\ StoresInv /\ ClientsInv
  BY TypesSplit DEF PoolInv
<1>1. c \in Threads /\ c \notin Workers
  BY ThreadKinds
<1>2. /\ batch[c] = {}
      /\ pc[c] \in Holding <=> cur[c] # 0
      /\ cur[c] # 0 => players[cur[c]].id = asked[c]
      /\ pc[c] # "idle" => asked[c] \in mayUse[c]
  BY <1>0 DEF ClientsInv
<1>3. cur[c] # 0 => cur[c] \in Objects /\ players'[cur[c]].id = players[cur[c]].id
  BY <1>0, <1>1, ObjectsStay DEF StoresInv
<1>4. \A i \in Ids : primary[i] # 0 => primary[i] \in Objects /\ players[primary[i]].id = i
  BY <1>0 DEF StoresInv
<1>5. UNCHANGED mayUse
  BY AssignmentStays
<1>6. ASSUME NEW t \in Threads, Step(t), t # c
      PROVE  pc'[c] = pc[c] /\ cur'[c] = cur[c] /\ batch'[c] = batch[c] /\ asked'[c] = asked[c]
  BY <1>0, <1>1, <1>6, OthersStay
<1>7. ASSUME NEW i \in Ids, NEW r \in Ratings, Enqueue(c, i, r)
      PROVE  /\ cur'[c] # 0 /\ players'[cur'[c]].id = i
             /\ pc'[c] = "ins_primary" /\ asked'[c] = i /\ i \in mayUse[c] /\ batch' = batch
  <2>1. PICK n \in Nat \ (Objects \cup {0}) :
           /\ players'[n] = [id |-> i, rating |-> r, state |-> "waiting"]
           /\ cur' = [cur EXCEPT ![c] = n]
    BY <1>0, <1>7, EnqueueFacts
  <2>2. cur'[c] = n
    BY <1>0, <1>1, <2>1 DEF Types
  <2> QED
    BY <1>0, <1>1, <1>7, <2>1, <2>2 DEF Types, Enqueue, Ask, Goto
<1>8. ASSUME NEW i \in Ids, CancelGet(c, i)
      PROVE  /\ cur'[c] # 0 /\ cur'[c] \in Objects /\ players[cur'[c]].id = i
             /\ players' = players
             /\ pc'[c] = "evict" /\ asked'[c] = i /\ i \in mayUse[c] /\ batch' = batch
  BY <1>0, <1>1, <1>4, <1>8 DEF Types, CancelGet, Ask, Goto
<1>9. ASSUME NEW i \in Ids, EnqueueRefused(c, i) \/ CancelUnknown(c, i)
      PROVE  /\ cur' = cur /\ pc[c] = "idle" /\ pc'[c] \in {"already_queued", "not_found"}
             /\ asked'[c] = i /\ i \in mayUse[c] /\ batch' = batch
  BY <1>0, <1>1, <1>9 DEF Types, EnqueueRefused, CancelUnknown, Ask, Goto
<1>10. CASE InsertPrimary(c) \/ InsertIndex(c) \/ Evict(c)
  BY <1>0, <1>1, <1>2, <1>3, <1>5, <1>10 DEF Types, InsertPrimary, InsertIndex, Evict, Goto, Holding
<1>11. CASE GaugeInc(c) \/ Refuse(c)
  BY <1>0, <1>1, <1>2, <1>11 DEF Types, GaugeInc, Refuse, Answer, Goto, Holding
<1>12. CASE EvictRefused(c)
  BY <1>0, <1>1, <1>2, <1>5, <1>12 DEF Types, EvictRefused, Goto, Holding
<1>13. CASE RemovePrimary(c)
  <2>1. /\ cur[c] \in Objects /\ players[cur[c]].id \in Ids /\ asked[c] = players[cur[c]].id
    BY <1>0, <1>2, <1>3, <1>13, KeysFacts DEF RemovePrimary
  <2>2. /\ pc'[c] = "rm_index" /\ pc[c] = "rm_primary" /\ batch' = batch /\ asked' = asked
        /\ cur'[c] # 0 /\ players'[cur'[c]].id = asked[c]
    BY <1>0, <1>1, <1>4, <1>13, <2>1 DEF Types, RemovePrimary, Goto
  <2> QED
    BY <1>2, <1>5, <2>2 DEF Holding
<1>14. CASE RemoveAbsent(c) \/ RemoveIndex(c)
  BY <1>0, <1>1, <1>2, <1>5, <1>14 DEF Types, RemoveAbsent, RemoveIndex, LeaveRemove, Goto, Holding
<1>15. CASE GaugeDec(c)
  BY <1>0, <1>1, <1>2, <1>15 DEF Types, GaugeDec, Finish, Answer, Goto, Holding
<1>16. CASE Rest
  BY <1>2, <1>3, <1>16 DEF Rest
<1>17. ASSUME NEW t \in Threads, Step(t), t # c
       PROVE  /\ batch'[c] = {}
              /\ pc'[c] \in Holding <=> cur'[c] # 0
              /\ cur'[c] # 0 => players'[cur'[c]].id = asked'[c]
              /\ pc'[c] # "idle" => asked'[c] \in mayUse'[c]
  BY <1>2, <1>3, <1>5, <1>6, <1>17
<1>18. CASE \E i \in Ids, r \in Ratings : Enqueue(c, i, r)
  BY <1>2, <1>5, <1>7, <1>18 DEF Holding
<1>19. CASE \E i \in Ids : EnqueueRefused(c, i) \/ CancelUnknown(c, i)
  BY <1>2, <1>5, <1>9, <1>19 DEF Holding
<1>20. CASE \E i \in Ids : CancelGet(c, i)
  BY <1>2, <1>5, <1>8, <1>20 DEF Holding
<1>21. CASE Step(c)
  BY <1>1, <1>10, <1>11, <1>12, <1>13, <1>14, <1>15, <1>18, <1>19, <1>20, <1>21
     DEF Step, ClientStep, RemoveStep
<1> QED
  BY <1>16, <1>17, <1>21, StepsAre

(* What WorkersInv says of a worker at p with Player n, claims C, batch B. *)
Worker(p, n, C, B) ==
    /\ p \in WorkerPCs
    /\ p = "rm_index" => n # 0
    /\ p \notin {"rm_primary", "rm_index"} => n = 0
    /\ p \in {"idle", "claiming", "gauge_dec", "dead"} => B = {}
    /\ p \notin {"claiming", "marking"} => C = {}
    /\ p = "marking" /\ B = {} => Cardinality(C) = MATCH_SIZE

LEMMA WorkersStep == PoolInv /\ [Next]_vars => WorkersInv'
<1> SUFFICES ASSUME PoolInv, [Next]_vars, NEW w \in Workers
             PROVE  Worker(pc'[w], cur'[w], claimed'[w], batch'[w])
  BY DEF WorkersInv, Worker
<1>0. PoolTypeOK /\ Types /\ StoresInv /\ ClaimsInv
  BY TypesSplit DEF PoolInv
<1>1. w \in Threads /\ w \notin Clients
  BY ThreadKinds
<1>2. Worker(pc[w], cur[w], claimed[w], batch[w])
  BY DEF PoolInv, WorkersInv, Worker
<1>3. CASE Scan(w) \/ GiveUp(w) \/ BeginMatch(w)
  BY <1>0, <1>1, <1>2, <1>3 DEF Types, Scan, GiveUp, BeginMatch, Goto, claimVars, Worker, WorkerPCs
<1>4. CASE Claim(w) \/ ClaimFails(w)
  <2>1. pc'[w] = pc[w] /\ pc[w] = "claiming" /\ cur' = cur /\ batch' = batch
    BY <1>4 DEF Claim, ClaimFails, Try
  <2> QED
    BY <1>2, <2>1 DEF Worker
<1>5. CASE Release(w)
  BY <1>2, <1>5 DEF Release, Worker
<1>6. CASE Mark(w)
  <2>1. batch'[w] # {} /\ pc'[w] = pc[w] /\ pc[w] = "marking" /\ cur' = cur
    BY <1>0, <1>1, <1>6 DEF Types, Mark
  <2> QED
    BY <1>2, <2>1 DEF Worker
<1>7. CASE AllMarked(w)
  BY <1>0, <1>1, <1>2, <1>7 DEF Types, AllMarked, Goto, claimVars, Worker, WorkerPCs
<1>8. CASE Panic(w)
  <2>1. /\ claimed'[w] = {} /\ cur'[w] = 0 /\ batch' = batch
        /\ \/ pc'[w] = "dead" /\ batch[w] = {}
           \/ pc'[w] = "abandoned"
    BY <1>0, <1>1, <1>8 DEF Types, Panic, Goto
  <2> QED
    BY <2>1 DEF Worker, WorkerPCs
<1>9. CASE NextToRemove(w) \/ AllRemoved(w)
  BY <1>0, <1>1, <1>2, <1>9
     DEF Types, NextToRemove, AllRemoved, Goto, claimVars, Worker, WorkerPCs
<1>10. CASE RemovePrimary(w)
  BY <1>0, <1>1, <1>2, <1>10 DEF Types, RemovePrimary, Goto, claimVars, Worker, WorkerPCs
<1>11. CASE RemoveAbsent(w) \/ RemoveIndex(w)
  BY <1>0, <1>1, <1>2, <1>11
     DEF Types, RemoveAbsent, RemoveIndex, LeaveRemove, Goto, claimVars, Worker, WorkerPCs
<1>12. CASE GaugeDec(w)
  BY <1>0, <1>1, <1>2, <1>12 DEF Types, GaugeDec, Finish, Goto, claimVars, Worker, WorkerPCs
<1>13. CASE Rest
  BY <1>2, <1>13 DEF Rest
<1>14. ASSUME NEW t \in Threads, Step(t), t # w
       PROVE  /\ pc'[w] = pc[w] /\ cur'[w] = cur[w] /\ batch'[w] = batch[w]
              /\ claimed'[w] = claimed[w]
  BY <1>0, <1>1, <1>14, OthersStay
<1>15. CASE Step(w)
  BY <1>1, <1>3, <1>4, <1>5, <1>6, <1>7, <1>8, <1>9, <1>10, <1>11, <1>12, <1>15
     DEF Step, WorkerStep, RemoveStep
<1> QED
  BY <1>2, <1>13, <1>14, <1>15, StepsAre

-----------------------------------------------------------------------------
(* A registration that is not yet stored stays hidden and WAITING.          *)

LEMMA HiddenStays ==
  ASSUME PoolInv, [Next]_vars,
         NEW c \in Clients, pc[c] = "ins_primary", pc'[c] = "ins_primary", cur'[c] = cur[c]
  PROVE  players'[cur'[c]].state = "waiting" /\ Hidden(cur[c], c)'
<1> DEFINE n == cur[c]
<1>0. PoolTypeOK /\ Types /\ StoresInv /\ ClientsInv /\ ClaimsInv
  BY TypesSplit DEF PoolInv
<1>1. /\ c \in Threads /\ n \in Objects /\ n # 0 /\ players[n].state = "waiting"
      /\ \A i \in Ids : primary[i] # n
      /\ \A k \in Keys : index[k] # n
      /\ \A u \in Threads : u # c => cur[u] # n /\ n \notin batch[u]
      /\ \A w \in Workers : n \notin candidates[w]
  BY <1>0, ThreadKinds DEF PoolInv, FreshInv, Hidden, ClientsInv, StoresInv, Holding
<1>2. \A u \in Clients : u \in Threads
  BY ThreadKinds
<1>3. n \in Nat /\ Key(n) \in Keys
  BY <1>0, <1>1, KeysFacts
<1> HIDE DEF n
<1>4. players'[n].state = "waiting"
  <2>1. CASE \E u \in Clients, i \in Ids, r \in Ratings : Enqueue(u, i, r)
    BY <1>0, <1>1, <2>1, EnqueueFacts
  <2>2. ASSUME NEW u \in Clients, Evict(u) PROVE players'[n].state = "waiting"
    <3>1. cur[u] # n
      BY <1>1, <1>2, <2>2 DEF Evict
    <3> QED
      BY <1>0, <1>1, <2>2, <3>1, EvictFacts DEF Changed
  <2>3. ASSUME NEW m \in Objects, NEW z \in PlayerStates, Changed({m}, z), m # n
        PROVE  players'[n].state = "waiting"
    BY <1>1, <2>3 DEF Changed
  <2>4. CASE \E w \in Workers : Claim(w)
    BY <1>0, <1>1, <2>3, <2>4, ClaimFacts DEF PlayerStates
  <2>5. CASE \E w \in Workers : Release(w)
    BY <1>0, <1>1, <2>3, <2>5, ReleaseFacts DEF PlayerStates
  <2>6. CASE \E w \in Workers : Mark(w)
    BY <1>0, <1>1, <2>3, <2>6, MarkFacts DEF PlayerStates
  <2>7. CASE ResetStale
    BY <1>0, <1>1, <2>3, <2>7, ResetFacts DEF PlayerStates
  <2> QED
    BY <1>1, <2>1, <2>2, <2>4, <2>5, <2>6, <2>7, PlayersChange
<1>5. ASSUME NEW i \in Ids PROVE primary'[i] # n
  <2>1. ASSUME NEW u \in Clients, InsertPrimary(u) PROVE primary'[i] # n
    <3>1. pc'[u] = "ins_index"
      BY <1>0, <1>2, <2>1 DEF InsertPrimary, Goto, Types
    <3>2. cur[u] # n
      BY <1>1, <1>2, <3>1
    <3> QED
      BY <1>0, <1>1, <2>1, <3>2 DEF InsertPrimary, Types
  <2>2. CASE \E t \in Threads : RemovePrimary(t)
    BY <1>0, <1>1, <2>2 DEF RemovePrimary, Types
  <2> QED
    BY <1>1, <2>1, <2>2, PrimaryChanges
<1>6. ASSUME NEW k \in Keys PROVE index'[k] # n
  <2>1. ASSUME NEW u \in Clients, InsertIndex(u) PROVE index'[k] # n
    <3>1. cur[u] # n
      BY <1>1, <1>2, <2>1 DEF InsertIndex
    <3> QED
      BY <1>0, <1>1, <2>1, <3>1 DEF InsertIndex, Types
  <2>2. ASSUME NEW t \in Threads, RemoveIndex(t) PROVE index'[k] = index[k] \/ index'[k] = 0
    BY <1>0, <2>2 DEF RemoveIndex, Types
  <2> QED
    BY <1>1, <2>1, <2>2, IndexChanges
<1>7. ASSUME NEW u \in Threads, u # c PROVE cur'[u] # n
  <2>0. cur[u] # n
    BY <1>1, <1>7
  <2>1. ASSUME NEW d \in Clients, NEW i \in Ids, NEW r \in Ratings, Enqueue(d, i, r)
        PROVE  cur'[u] # n
    <3>1. PICK q \in Nat \ (Objects \cup {0}) : cur' = [cur EXCEPT ![d] = q]
      BY <1>0, <2>1, EnqueueFacts
    <3> QED
      BY <1>0, <1>1, <2>0, <3>1 DEF Types
  <2>2. CASE \E d \in Clients, i \in Ids : CancelGet(d, i)
    BY <1>0, <1>1, <2>0, <2>2 DEF CancelGet, Types
  <2>3. ASSUME NEW w \in Workers, NextToRemove(w) PROVE cur'[u] # n
    BY <1>0, <1>1, <2>0, <2>3, ThreadKinds DEF NextToRemove, Types
  <2>4. ASSUME NEW t \in Threads, RemovePrimary(t) PROVE cur'[u] # n
    <3>1. players[cur[t]].id \in Ids
      BY <1>0, <2>4, KeysFacts DEF RemovePrimary, StoresInv
    <3> QED
      BY <1>0, <1>1, <2>0, <2>4, <3>1 DEF RemovePrimary, Types
  <2>5. CASE \E t \in Threads : cur' = [cur EXCEPT ![t] = 0]
    BY <1>0, <1>1, <2>0, <2>5 DEF Types
  <2> QED
    BY <2>0, <2>1, <2>2, <2>3, <2>4, <2>5, CurChanges
<1>8. ASSUME NEW u \in Threads, u # c PROVE n \notin batch'[u]
  <2>0. n \notin batch[u]
    BY <1>1, <1>8
  <2>1. CASE \E w \in Workers : Mark(w)
    <3>1. PICK w \in Workers, m \in Objects :
             players[m].state = "claimed" /\ batch' = [batch EXCEPT ![w] = batch[w] \cup {m}]
      BY <1>0, <2>1, MarkFacts
    <3>2. batch'[u] = batch[u] \/ batch'[u] = batch[u] \cup {m}
      BY <1>0, <3>1 DEF Types
    <3> QED
      BY <1>1, <2>0, <3>1, <3>2
  <2>2. CASE \E w \in Workers : NextToRemove(w)
    BY <1>0, <2>0, <2>2 DEF NextToRemove, Types
  <2> QED
    BY <2>0, <2>1, <2>2, BatchChanges
<1>9. \A w \in Workers : n \notin candidates'[w]
  <2>1. n \notin range_scan
    BY <1>1, <1>3 DEF range_scan
  <2> QED
    BY <1>0, <1>1, <2>1, CandidatesFrom
<1> QED
  BY <1>4, <1>5, <1>6, <1>7, <1>8, <1>9 DEF Hidden, n

LEMMA FreshStep == PoolInv /\ [Next]_vars => FreshInv'
<1> SUFFICES ASSUME PoolInv, [Next]_vars, NEW c \in Clients, pc'[c] = "ins_primary"
             PROVE  players'[cur'[c]].state = "waiting" /\ Hidden(cur[c], c)'
  BY DEF FreshInv
<1>0. PoolTypeOK /\ Types /\ StoresInv /\ ClientsInv /\ c \in Threads
  BY TypesSplit, ThreadKinds DEF PoolInv
<1>1. ASSUME NEW i \in Ids, NEW r \in Ratings, Enqueue(c, i, r)
      PROVE  players'[cur'[c]].state = "waiting" /\ Hidden(cur[c], c)'
  <2>1. PICK n \in Nat \ (Objects \cup {0}) :
           /\ players'[n] = [id |-> i, rating |-> r, state |-> "waiting"]
           /\ cur' = [cur EXCEPT ![c] = n]
    BY <1>0, <1>1, EnqueueFacts
  <2>2. /\ cur'[c] = n /\ primary' = primary /\ index' = index /\ batch' = batch
        /\ candidates' = candidates
        /\ \A t \in Threads : t # c => cur'[t] = cur[t]
    BY <1>0, <1>1, <2>1 DEF Enqueue, Types, claimVars
  <2>3. Hidden(cur[c], c)'
    BY <1>0, <2>2 DEF StoresInv, Hidden
  <2> QED
    BY <2>1, <2>2, <2>3
<1>2. CASE pc[c] = "ins_primary" /\ cur'[c] = cur[c]
  BY <1>2, HiddenStays
<1>3. CASE Rest
  BY <1>2, <1>3 DEF Rest
<1>4. ASSUME NEW t \in Threads, Step(t), t # c PROVE pc[c] = "ins_primary" /\ cur'[c] = cur[c]
  BY <1>0, <1>4, OthersStay
<1>5. CASE Step(c)
  <2>1. c \notin Workers
    BY ThreadKinds
  <2>2. CASE \E i \in Ids : EnqueueRefused(c, i) \/ CancelUnknown(c, i) \/ CancelGet(c, i)
    BY <1>0, <2>2 DEF Types, EnqueueRefused, CancelUnknown, CancelGet, Goto
  <2>3. CASE InsertPrimary(c) \/ InsertIndex(c) \/ GaugeInc(c)
    BY <1>0, <2>3 DEF Types, InsertPrimary, InsertIndex, GaugeInc, Answer, Goto
  <2>4. CASE Evict(c) \/ EvictRefused(c) \/ Refuse(c)
    BY <1>0, <2>4 DEF Types, Evict, EvictRefused, Refuse, Answer, Goto
  <2>5. CASE RemoveStep(c)
    BY <1>0, <2>1, <2>5 DEF Types, RemoveStep, RemovePrimary, RemoveAbsent, RemoveIndex, GaugeDec,
                            LeaveRemove, Finish, Answer, Goto
  <2> QED
    BY <1>1, <1>5, <2>1, <2>2, <2>3, <2>4, <2>5 DEF Step, ClientStep
<1> QED
  BY <1>2, <1>3, <1>4, <1>5, StepsAre

-----------------------------------------------------------------------------
(* A stored player that left the queue is taken out by somebody.            *)

(* What a thread has to take out it has to take out until it does so.       *)
LEMMA RemovingStays ==
  ASSUME PoolInv, [Next]_vars, NEW t \in Threads, NEW n \in Removing(t)
  PROVE  \/ n \in Removing(t)'
         \/ /\ cur[t] = n /\ pc[t] = "rm_primary"
            /\ RemovePrimary(t) \/ RemoveAbsent(t)
<1>0. PoolTypeOK /\ Types /\ StoresInv /\ ClientsInv /\ WorkersInv
  BY TypesSplit DEF PoolInv
<1>1. n \in Objects /\ n \in Objects' /\ (n \in batch[t] \/ (pc[t] = "rm_primary" /\ cur[t] = n))
  BY ObjectsStay DEF Removing
<1>2. n # 0
  BY <1>0, <1>1, KeysFacts
<1>3. CASE pc'[t] = pc[t] /\ cur'[t] = cur[t] /\ batch'[t] = batch[t]
  BY <1>1, <1>3 DEF Removing
<1>4. CASE Rest
  BY <1>3, <1>4 DEF Rest
<1>5. ASSUME NEW u \in Threads, Step(u), u # t
      PROVE  pc'[t] = pc[t] /\ cur'[t] = cur[t] /\ batch'[t] = batch[t]
  BY <1>0, <1>5, OthersStay
<1>6. ASSUME t \in Workers, Scan(t) \/ Claim(t) \/ ClaimFails(t) \/ Release(t) \/ GiveUp(t)
                             \/ BeginMatch(t)
      PROVE  FALSE
  BY <1>0, <1>1, <1>6 DEF Scan, Claim, ClaimFails, Try, Release, GiveUp, BeginMatch, WorkersInv
<1>6a. ASSUME t \in Workers, Mark(t) PROVE n \in Removing(t)'
  <2>1. n \in batch[t]
    BY <1>1, <1>6a DEF Mark
  <2>2. n \in batch'[t]
    BY <1>0, <1>6a, <2>1 DEF Mark, Types
  <2> QED
    BY <1>1, <2>2 DEF Removing
<1>6b. ASSUME t \in Workers, AllMarked(t) \/ Panic(t) PROVE n \in Removing(t)'
  <2>1. n \in batch[t]
    BY <1>1, <1>2, <1>6b DEF AllMarked, Panic
  <2>2. n \in batch'[t]
    BY <1>6b, <2>1 DEF AllMarked, Panic
  <2> QED
    BY <1>1, <2>2 DEF Removing
<1>7. ASSUME t \in Workers, NextToRemove(t) PROVE n \in Removing(t)'
  <2>1. n \in batch[t] /\ pc'[t] = "rm_primary"
    BY <1>0, <1>1, <1>2, <1>7 DEF NextToRemove, Types
  <2>2. n \in batch'[t] \/ cur'[t] = n
    BY <1>0, <1>7, <2>1 DEF NextToRemove, Types
  <2> QED
    BY <1>1, <2>1, <2>2 DEF Removing
<1>8. ASSUME t \in Workers, AllRemoved(t) PROVE FALSE
  BY <1>0, <1>1, <1>2, <1>8 DEF AllRemoved
<1>9. ASSUME t \in Clients, ClientStep(t) PROVE FALSE
  <2>1. pc[t] = "rm_primary"
    BY <1>0, <1>1, <1>9 DEF ClientsInv
  <2> QED
    BY <1>9, <2>1 DEF ClientStep, Enqueue, EnqueueRefused, InsertPrimary, InsertIndex, GaugeInc,
                      CancelUnknown, CancelGet, Evict, EvictRefused, Refuse, Ask
<1>10. ASSUME RemoveIndex(t) PROVE n \in Removing(t)'
  <2>1. n \in batch'[t]
    BY <1>1, <1>10 DEF RemoveIndex
  <2> QED
    BY <1>1, <2>1 DEF Removing
<1>11. ASSUME GaugeDec(t) PROVE FALSE
  <2>1. n \in batch[t] /\ pc[t] = "gauge_dec"
    BY <1>1, <1>11 DEF GaugeDec
  <2> QED
    BY <1>0, <2>1, ThreadKinds DEF ClientsInv, WorkersInv
<1>12. ASSUME RemovePrimary(t) \/ RemoveAbsent(t), ~(pc[t] = "rm_primary" /\ cur[t] = n)
       PROVE  n \in Removing(t)'
  <2>1. n \in batch'[t]
    BY <1>1, <1>12 DEF RemovePrimary, RemoveAbsent
  <2> QED
    BY <1>1, <2>1 DEF Removing
<1>13. CASE Step(t)
  BY <1>6, <1>6a, <1>6b, <1>7, <1>8, <1>9, <1>10, <1>11, <1>12, <1>13 DEF Step, WorkerStep, RemoveStep
<1> QED
  BY <1>3, <1>4, <1>5, <1>13, StepsAre

LEMMA LeavingStep == PoolInv /\ [Next]_vars => LeavingInv'
<1> SUFFICES ASSUME PoolInv, [Next]_vars,
                    NEW i \in Ids, primary'[i] # 0,
                    players'[primary'[i]].state \in {"matched", "evicted"}
             PROVE  \E t \in Threads : \E n \in Removing(t)' : players'[n].id = i
  BY DEF LeavingInv, BeingCleared, Gone
<1> DEFINE m == primary'[i]
<1>0. PoolTypeOK /\ Types /\ StoresInv /\ ClientsInv /\ WorkersInv /\ FreshInv /\ LeavingInv
      /\ ClaimsInv
  BY TypesSplit DEF PoolInv
<1>1. ASSUME NEW c \in Clients, InsertPrimary(c) PROVE primary'[i] = primary[i]
  <2>1. players[cur[c]].state = "waiting" /\ players' = players
    BY <1>0, <1>1 DEF InsertPrimary, FreshInv
  <2> QED
    BY <1>0, <1>1, <2>1 DEF InsertPrimary, Types
<1>2. ASSUME NEW t \in Threads, RemovePrimary(t) PROVE primary'[i] = primary[i]
  BY <1>0, <1>2 DEF RemovePrimary, Types
<1>3. primary[i] = m
  BY <1>1, <1>2, PrimaryChanges
<1>4. m \in Objects /\ players[m].id = i
  BY <1>0, <1>3 DEF StoresInv
<1>5. CASE Gone(m)
  <2>1. PICK t \in Threads : \E n \in Removing(t) : players[n].id = i
    BY <1>0, <1>3, <1>5 DEF LeavingInv, BeingCleared
  <2>2. PICK n \in Removing(t) : players[n].id = i
    BY <2>1
  <2>3. n \in Objects /\ players'[n].id = i
    BY <2>2, ObjectsStay DEF Removing
  <2>4. ASSUME cur[t] = n, RemovePrimary(t) \/ RemoveAbsent(t) PROVE FALSE
    BY <1>0, <1>3, <2>2, <2>4 DEF RemovePrimary, RemoveAbsent, Types
  <2>5. n \in Removing(t)'
    BY <2>4, RemovingStays
  <2> QED
    BY <2>3, <2>5
<1>6. CASE ~Gone(m)
  <2>0. players[m].state # "matched" /\ players[m].state # "evicted"
    BY <1>6 DEF Gone
  <2>1. ASSUME NEW c \in Clients, Evict(c)
        PROVE  c \in Threads /\ m \in Removing(c)'
    <3>1. cur[c] = m /\ Objects' = Objects
      BY <1>0, <1>4, <2>0, <2>1, EvictFacts DEF Changed
    <3>2. pc'[c] = "rm_primary" /\ cur' = cur
      BY <1>0, <2>1, ThreadKinds DEF Evict, Goto, Types
    <3> QED
      BY <1>4, <3>1, <3>2, ThreadKinds DEF Removing
  <2>2. ASSUME NEW w \in Workers, Mark(w)
        PROVE  w \in Threads /\ m \in Removing(w)'
    <3>1. PICK n \in Objects :
             Changed({n}, "matched") /\ batch' = [batch EXCEPT ![w] = batch[w] \cup {n}]
      BY <1>0, <2>2, MarkFacts
    <3>2. m = n /\ Objects' = Objects
      BY <1>4, <2>0, <3>1 DEF Changed
    <3>3. m \in batch'[w]
      BY <1>0, <3>1, <3>2, ThreadKinds DEF Types
    <3> QED
      BY <1>4, <3>2, <3>3, ThreadKinds DEF Removing
  <2>3. ASSUME NEW n \in Objects, NEW z \in {"waiting", "claimed"}, Changed({n}, z) PROVE FALSE
    BY <1>4, <2>0, <2>3 DEF Changed
  <2>4. ASSUME \E w \in Workers : Claim(w) \/ Release(w) PROVE FALSE
    BY <1>0, <2>3, <2>4, ClaimFacts, ReleaseFacts
  <2>5. ASSUME ResetStale PROVE FALSE
    BY <1>0, <2>3, <2>5, ResetFacts
  <2>6. ASSUME NEW c \in Clients, NEW j \in Ids, NEW r \in Ratings, Enqueue(c, j, r) PROVE FALSE
    BY <1>0, <1>4, <2>0, <2>6, EnqueueFacts
  <2>7. players'[m].id = i
    BY <1>4, ObjectsStay
  <2>8. ~UNCHANGED players
    BY <2>0
  <2> QED
    BY <2>1, <2>2, <2>4, <2>5, <2>6, <2>7, <2>8, PlayersChange
<1> QED
  BY <1>5, <1>6

-----------------------------------------------------------------------------
(* The claims.                                                              *)

(* Who has panicked stays so. *)
LEMMA DeadStay ==
  ASSUME PoolInv, [Next]_vars, NEW w \in Workers, pc[w] \in {"dead", "abandoned"}
  PROVE  pc'[w] = pc[w]
<1>0. Types /\ w \in Threads /\ w \notin Clients
  BY TypesSplit, ThreadKinds DEF PoolInv
<1>1. CASE Rest
  BY <1>1 DEF Rest
<1>2. ASSUME NEW t \in Threads, Step(t), t # w PROVE pc'[w] = pc[w]
  BY <1>0, <1>2, OthersStay
<1>3. ~Step(w)
  BY <1>0 DEF Step, WorkerStep, RemoveStep, Scan, Claim, ClaimFails, Try, Release, GiveUp,
              BeginMatch, Mark, AllMarked, Panic, NextToRemove, AllRemoved, RemovePrimary,
              RemoveAbsent, RemoveIndex, GaugeDec
<1> QED
  BY <1>1, <1>2, <1>3, StepsAre

(* A claim lasts until its worker releases or marks the player or panics. *)
LEMMA ClaimsLast ==
  ASSUME PoolInv, [Next]_vars, NEW w \in Workers, NEW n \in claimed[w]
  PROVE  \/ n \in claimed'[w]
         \/ (Release(w) \/ Mark(w)) /\ claimed'[w] = claimed[w] \ {n}
         \/ Panic(w) /\ pc'[w] \in {"dead", "abandoned"}
<1>0. PoolTypeOK /\ Types /\ StoresInv /\ ClaimsInv /\ w \in Threads
  BY TypesSplit, ThreadKinds DEF PoolInv
<1>1. CASE \E v \in Workers : Release(v) \/ Mark(v)
  <2>1. PICK v \in Workers, m \in Objects :
           (Release(v) \/ Mark(v)) /\ claimed' = [claimed EXCEPT ![v] = claimed[v] \ {m}]
    BY <1>0, <1>1, ReleaseFacts, MarkFacts
  <2> QED
    BY <1>0, <2>1 DEF Types
<1>2. CASE \E v \in Workers : Panic(v)
  BY <1>0, <1>2, ThreadKinds DEF Panic, Goto, Types
<1>3. CASE \E v \in Workers : Claim(v)
  BY <1>0, <1>3 DEF Claim, Types
<1> QED
  BY <1>1, <1>2, <1>3, ClaimsChange DEF Scan, ClaimFails, BeginMatch

LEMMA ClaimsStep == PoolInv /\ [Next]_vars => ClaimsInv'
<1> SUFFICES ASSUME PoolInv, [Next]_vars PROVE ClaimsInv'
  OBVIOUS
<1>0. PoolTypeOK /\ Types /\ StoresInv /\ ClientsInv /\ ClaimsInv
  BY TypesSplit DEF PoolInv
<1>1. ASSUME NEW w \in Workers, NEW n \in claimed[w], n \in claimed'[w]
      PROVE  players'[n].state = "claimed"
  <2>1. n \in Objects /\ players[n].state = "claimed" /\ \A v \in Workers : n \in claimed[v] => v = w
    BY <1>0 DEF StoresInv, ClaimsInv
  <2>2. CASE \E c \in Clients, i \in Ids, r \in Ratings : Enqueue(c, i, r)
    BY <1>0, <2>1, <2>2, EnqueueFacts
  <2>3. ASSUME NEW m \in Objects, NEW z, Changed({m}, z), m # n PROVE players'[n].state = "claimed"
    BY <2>1, <2>3 DEF Changed
  <2>4. CASE \E c \in Clients : Evict(c)
    BY <1>0, <2>1, <2>3, <2>4, EvictFacts DEF Evict
  <2>5. CASE \E v \in Workers : Claim(v)
    BY <1>0, <2>1, <2>3, <2>5, ClaimFacts
  <2>6. ASSUME NEW v \in Workers, Release(v) PROVE players'[n].state = "claimed"
    <3>1. PICK m \in Objects : /\ m \in claimed[v] /\ Changed({m}, "waiting")
                               /\ claimed' = [claimed EXCEPT ![v] = claimed[v] \ {m}]
      BY <1>0, <2>6, ReleaseFacts
    <3>2. m # n
      BY <1>0, <1>1, <2>1, <3>1 DEF Types
    <3> QED
      BY <2>3, <3>1, <3>2
  <2>7. ASSUME NEW v \in Workers, Mark(v) PROVE players'[n].state = "claimed"
    <3>1. PICK m \in Objects : /\ m \in claimed[v] /\ Changed({m}, "matched")
                               /\ claimed' = [claimed EXCEPT ![v] = claimed[v] \ {m}]
      BY <1>0, <2>7, MarkFacts
    <3>2. m # n
      BY <1>0, <1>1, <2>1, <3>1 DEF Types
    <3> QED
      BY <2>3, <3>1, <3>2
  <2>8. CASE ResetStale
    BY <1>0, <2>3, <2>8, ResetFacts
  <2> QED
    BY <2>1, <2>2, <2>4, <2>5, <2>6, <2>7, <2>8, PlayersChange
<1>2. ASSUME NEW w \in Workers, NEW n \in claimed'[w]
      PROVE  players'[n].state = "claimed" /\ \A v \in Workers : n \in claimed'[v] => v = w
  <2>1. CASE n \in claimed[w]
    <3>1. players[n].state = "claimed" /\ \A v \in Workers : n \in claimed[v] => v = w
      BY <1>0, <2>1 DEF ClaimsInv
    <3>2. \A v \in Workers : n \in claimed'[v] => n \in claimed[v]
      BY <1>0, <3>1, ClaimedFrom
    <3> QED
      BY <1>1, <1>2, <2>1, <3>1, <3>2
  <2>2. CASE n \notin claimed[w]
    <3>1. Claim(w) /\ n \in Objects /\ players[n].state = "waiting" /\ Changed({n}, "claimed")
      BY <1>0, <1>2, <2>2, ClaimedFrom
    <3>2. \A v \in Workers : n \notin claimed[v]
      BY <1>0, <3>1 DEF ClaimsInv
    <3>3. \A v \in Workers : v # w => claimed'[v] = claimed[v]
      BY <1>0, <3>1 DEF Claim, Types
    <3> QED
      BY <3>1, <3>2, <3>3 DEF Changed
  <2> QED
    BY <2>1, <2>2
<1>3. ASSUME NEW n \in Objects', players'[n].state = "claimed"
      PROVE  \/ \E w \in Workers : n \in claimed'[w]
             \/ \E w \in Workers : pc'[w] \in {"dead", "abandoned"}
  <2>1. CASE n \in Objects /\ players[n].state = "claimed"
    <3>1. CASE \E w \in Workers : pc[w] \in {"dead", "abandoned"}
      BY <3>1, DeadStay
    <3>2. ASSUME NEW w \in Workers, n \in claimed[w]
          PROVE  n \in claimed'[w] \/ pc'[w] \in {"dead", "abandoned"}
      <4>1. CASE (Release(w) \/ Mark(w)) /\ claimed'[w] = claimed[w] \ {n}
        <5>1. PICK m \in Objects, z \in {"waiting", "matched"} :
                 /\ m \in claimed[w] /\ Changed({m}, z)
                 /\ claimed' = [claimed EXCEPT ![w] = claimed[w] \ {m}]
          BY <1>0, <4>1, ReleaseFacts, MarkFacts
        <5>2. m = n
          BY <1>0, <3>2, <4>1, <5>1 DEF Types
        <5> QED
          BY <1>3, <5>1, <5>2 DEF Changed
      <4> QED
        BY <3>2, <4>1, ClaimsLast
    <3> QED
      BY <1>0, <2>1, <3>1, <3>2 DEF ClaimsInv
  <2>2. CASE ~(n \in Objects /\ players[n].state = "claimed")
    <3>1. ASSUME NEW m \in Objects, NEW z \in PlayerStates, Changed({m}, z) PROVE m = n /\ z = "claimed"
      BY <1>3, <2>2, <3>1 DEF Changed
    <3>2. ASSUME NEW c \in Clients, NEW j \in Ids, NEW r \in Ratings, Enqueue(c, j, r) PROVE FALSE
      <4>1. PICK m \in Nat \ (Objects \cup {0}) :
               /\ Objects' = Objects \cup {m}
               /\ players'[m] = [id |-> j, rating |-> r, state |-> "waiting"]
               /\ \A q \in Objects : players'[q] = players[q]
        BY <1>0, <3>2, EnqueueFacts
      <4> QED
        BY <1>3, <2>2, <4>1
    <3>3. ASSUME NEW c \in Clients, Evict(c) PROVE FALSE
      BY <1>0, <3>1, <3>3, EvictFacts DEF PlayerStates
    <3>4. ASSUME NEW w \in Workers, Release(w) \/ Mark(w) PROVE FALSE
      BY <1>0, <3>1, <3>4, ReleaseFacts, MarkFacts DEF PlayerStates
    <3>5. ASSUME ResetStale PROVE FALSE
      BY <1>0, <3>1, <3>5, ResetFacts DEF PlayerStates
    <3>6. ~UNCHANGED players
      BY <1>3, <2>2 DEF Objects
    <3>7. PICK w \in Workers : Claim(w)
      BY <3>2, <3>3, <3>4, <3>5, <3>6, PlayersChange
    <3>8. PICK m \in Objects : /\ Changed({m}, "claimed")
                               /\ claimed' = [claimed EXCEPT ![w] = claimed[w] \cup {m}]
      BY <1>0, <3>7, ClaimFacts
    <3>9. n \in claimed'[w]
      BY <1>0, <3>1, <3>8 DEF Types, PlayerStates
    <3> QED
      BY <3>9
  <2> QED
    BY <2>1, <2>2
<1> QED
  BY <1>2, <1>3 DEF ClaimsInv

LEMMA PoolInitially == Init => PoolInv
<1> SUFFICES ASSUME Init PROVE PoolInv
  OBVIOUS
<1>1. PoolTypeOK
  BY DEF Init, PoolTypeOK, PoolPCs
<1>2. StoresInv /\ LeavingInv
  BY DEF Init, StoresInv, LeavingInv
<1>3. ClientsInv /\ WorkersInv /\ FreshInv
  BY DEF Init, ClientsInv, WorkersInv, WorkerPCs, FreshInv, Threads, Holding
<1>4. ClaimsInv
  BY DEF Init, ClaimsInv, Objects
<1> QED
  BY <1>1, <1>2, <1>3, <1>4 DEF PoolInv

LEMMA PoolInductive == Spec => []PoolInv
<1>1. PoolInv /\ [Next]_vars => PoolInv'
  BY TypeStep, StoresStep, ClientsStep, WorkersStep, FreshStep, LeavingStep, ClaimsStep
  DEF PoolInv
<1> QED
  BY <1>1, PoolInitially, PTL DEF Spec

(* The type invariant, whatever ids the clients use. *)
THEOREM TypesCorrect == Spec => []PoolTypeOK
<1>1. PoolInv => PoolTypeOK
  BY DEF PoolInv
<1> QED
  BY <1>1, PoolInductive, PTL

LEMMA QuietQueue == PoolInv => QueuedAreWaiting
<1> SUFFICES ASSUME PoolInv, Quiet, NEW i \in Ids, primary[i] # 0
             PROVE  \/ players[primary[i]].state = "waiting"
                    \/ players[primary[i]].state = "claimed" /\ \E w \in Workers : pc[w] = "dead"
  BY DEF QueuedAreWaiting
<1>0. primary[i] \in Objects /\ players[primary[i]].state \in PlayerStates
  BY ObjectsFacts DEF PoolInv, StoresInv, Registrations
<1>1. \A t \in Threads : pc[t] \in {"idle", "dead"} /\ batch[t] = {}
  BY ThreadKinds DEF Quiet, PoolInv, ClientsInv, WorkersInv
<1>2. ~Gone(primary[i])
  BY <1>1 DEF PoolInv, LeavingInv, BeingCleared, Removing
<1>3. \A w \in Workers : claimed[w] = {} /\ pc[w] \in {"idle", "dead"}
  BY <1>1, ThreadKinds DEF PoolInv, WorkersInv
<1>4. players[primary[i]].state = "claimed" => \E w \in Workers : pc[w] = "dead"
  BY <1>0, <1>3 DEF PoolInv, ClaimsInv
<1> QED
  BY <1>0, <1>2, <1>4 DEF Gone, PlayerStates

(* With no operation in flight no matched or cancelled player is left in    *)
(* the primary store, although remove takes out by id whatever is there,    *)
(* and none that is CLAIMED unless a worker has panicked.                   *)
THEOREM NobodyLingers == Spec => []QueuedAreWaiting
BY QuietQueue, PoolInductive, PTL

-----------------------------------------------------------------------------
(* What holds besides when each id has one client.                          *)

(* A client is about to store object n. *)
Inserting(n) == \E c \in Clients : pc[c] = "ins_primary" /\ cur[c] = n

(* A player that has not left the queue is stored, or about to be. *)
RegisteredInv ==
    \A n \in Objects : ~Gone(n) => primary[players[n].id] = n \/ Inserting(n)

(* The id that the duplicate check found free is free still. *)
FreeInv == \A c \in Clients : pc[c] = "ins_primary" => primary[asked[c]] = 0

(* No worker finds a player that is not indexed yet. *)
UnindexedInv ==
    \A c \in Clients :
        pc[c] = "ins_index" =>
            /\ players[cur[c]].state = "waiting"
            /\ \A k \in Keys : index[k] # cur[c]
            /\ \A w \in Workers : cur[c] \notin candidates[w]

(* What cancel got from the store is not replaced by another registration. *)
GotInv == \A c \in Clients : pc[c] = "evict" => primary[asked[c]] \in {0, cur[c]}

(* What is to be removed is in the store: remove takes out the right one.  *)
RemovingInv ==
    \A t \in Threads : \A n \in Removing(t) :
        /\ primary[players[n].id] = n
        /\ players[n].state = IF t \in Clients THEN "evicted" ELSE "matched"

(* No two workers remove the same player, and none does it twice. *)
ApartInv ==
    \A w \in Workers :
        /\ \A v \in Workers : \A n \in Removing(w) : n \in Removing(v) => v = w
        /\ pc[w] = "rm_primary" => cur[w] \notin batch[w]

OwnedInv == RegisteredInv /\ FreeInv /\ UnindexedInv /\ GotInv /\ RemovingInv /\ ApartInv

(* Thread t did not move. *)
Stays(t) == pc'[t] = pc[t] /\ cur'[t] = cur[t] /\ batch'[t] = batch[t]

(* How a client gets where it is. *)
LEMMA ClientMoves ==
  ASSUME PoolInv, [Next]_vars, NEW c \in Clients
  PROVE  \/ Stays(c) /\ asked'[c] = asked[c]
         \/ pc'[c] = "ins_primary" /\ \E i \in Ids, r \in Ratings : Enqueue(c, i, r)
         \/ pc'[c] = "ins_index" /\ InsertPrimary(c)
         \/ pc'[c] = "gauge_inc" /\ InsertIndex(c)
         \/ pc'[c] = "evict" /\ \E i \in Ids : CancelGet(c, i)
         \/ pc'[c] = "rm_primary" /\ Evict(c)
         \/ pc'[c] = "rm_index" /\ RemovePrimary(c)
         \/ /\ pc'[c] \in {"gauge_dec", "idle", "already_queued", "being_matched", "not_found"}
            /\ pc[c] # "ins_primary"
<1>0. Types /\ c \in Threads /\ c \notin Workers
  BY TypesSplit, ThreadKinds DEF PoolInv
<1>1. CASE Rest
  BY <1>1 DEF Stays, Rest
<1>2. ASSUME NEW t \in Threads, Step(t), t # c PROVE Stays(c) /\ asked'[c] = asked[c]
  BY <1>0, <1>2, OthersStay DEF Stays
<1>3. CASE \E i \in Ids, r \in Ratings : Enqueue(c, i, r)
  BY <1>0, <1>3 DEF Types, Enqueue, Goto
<1>4. CASE \E i \in Ids : CancelGet(c, i)
  BY <1>0, <1>4 DEF Types, CancelGet, Goto
<1>5. CASE \E i \in Ids : EnqueueRefused(c, i) \/ CancelUnknown(c, i)
  BY <1>0, <1>5 DEF Types, EnqueueRefused, CancelUnknown, Goto, Ask
<1>6. CASE InsertPrimary(c) \/ InsertIndex(c) \/ Evict(c)
  BY <1>0, <1>6 DEF Types, InsertPrimary, InsertIndex, Evict, Goto
<1>7. CASE GaugeInc(c) \/ EvictRefused(c) \/ Refuse(c)
  BY <1>0, <1>7 DEF Types, GaugeInc, EvictRefused, Refuse, Answer, Goto
<1>8. CASE RemovePrimary(c)
  BY <1>0, <1>8 DEF Types, RemovePrimary, Goto
<1>9. CASE RemoveAbsent(c) \/ RemoveIndex(c) \/ GaugeDec(c)
  BY <1>0, <1>9 DEF Types, RemoveAbsent, RemoveIndex, GaugeDec, LeaveRemove, Finish, Answer, Goto
<1>10. CASE Step(c)
  BY <1>0, <1>3, <1>4, <1>5, <1>6, <1>7, <1>8, <1>9, <1>10 DEF Step, ClientStep, RemoveStep
<1> QED
  BY <1>1, <1>2, <1>10, StepsAre

(* How a worker gets where it is. *)
LEMMA WorkerMoves ==
  ASSUME PoolInv, [Next]_vars, NEW w \in Workers
  PROVE  \/ Stays(w)
         \/ pc'[w] = "marking" /\ Mark(w)
         \/ pc'[w] = "rm_primary" /\ NextToRemove(w)
         \/ pc'[w] = "rm_primary" /\ cur'[w] = 0 /\ batch'[w] = batch[w]
         \/ pc'[w] = "rm_index" /\ RemovePrimary(w)
         \/ pc'[w] \notin {"rm_primary", "rm_index"} /\ batch'[w] = batch[w]
<1>0. Types /\ WorkersInv /\ w \in Threads /\ w \notin Clients
  BY TypesSplit, ThreadKinds DEF PoolInv
<1>1. CASE Rest
  BY <1>1 DEF Stays, Rest
<1>2. ASSUME NEW t \in Threads, Step(t), t # w PROVE Stays(w)
  BY <1>0, <1>2, OthersStay DEF Stays
<1>3. CASE Claim(w) \/ ClaimFails(w) \/ Release(w)
  BY <1>3 DEF Claim, ClaimFails, Try, Release, Stays
<1>4. CASE Scan(w) \/ GiveUp(w) \/ BeginMatch(w)
  BY <1>0, <1>4 DEF Types, Scan, GiveUp, BeginMatch, Goto
<1>5. CASE Mark(w)
  BY <1>5 DEF Mark
<1>6. CASE AllMarked(w)
  BY <1>0, <1>6 DEF Types, AllMarked, Goto, WorkersInv
<1>7. CASE Panic(w)
  BY <1>0, <1>7 DEF Types, Panic, Goto
<1>8. CASE NextToRemove(w) \/ AllRemoved(w)
  BY <1>0, <1>8 DEF Types, NextToRemove, AllRemoved, Goto
<1>9. CASE RemovePrimary(w)
  BY <1>0, <1>9 DEF Types, RemovePrimary, Goto
<1>10. CASE RemoveAbsent(w) \/ RemoveIndex(w)
  BY <1>0, <1>10 DEF Types, RemoveAbsent, RemoveIndex, LeaveRemove, Goto
<1>11. CASE GaugeDec(w)
  BY <1>0, <1>11 DEF Types, GaugeDec, Finish, Goto
<1>12. CASE Step(w)
  BY <1>0, <1>3, <1>4, <1>5, <1>6, <1>7, <1>8, <1>9, <1>10, <1>11, <1>12
     DEF Step, WorkerStep, RemoveStep
<1> QED
  BY <1>1, <1>2, <1>12, StepsAre

(* How a thread comes to have something to remove. *)
LEMMA RemovingFrom ==
  ASSUME PoolInv, [Next]_vars, NEW t \in Threads, NEW n, n \in Removing(t)'
  PROVE  \/ n \in Removing(t)
         \/ t \in Clients /\ Evict(t) /\ cur[t] = n
         \/ t \in Workers /\ Mark(t) /\ n \in Objects /\ n \in claimed[t] /\ Changed({n}, "matched")
<1>0. PoolTypeOK /\ Types /\ StoresInv /\ ClientsInv /\ ClaimsInv
  BY TypesSplit DEF PoolInv
<1>1. n \in batch'[t] \/ (pc'[t] = "rm_primary" /\ cur'[t] = n)
  BY DEF Removing
<1>2. n # 0
  <2>1. PoolTypeOK'
    BY TypeStep
  <2>2. n \in DOMAIN players' /\ players' \in Seq(Registrations)
    BY <2>1 DEF Removing, Objects, PoolTypeOK, Registrations
  <2> QED
    BY <2>2
<1>3. n \in batch[t] => n \in Objects
  BY <1>0 DEF StoresInv
<1>4. cur[t] = n => n \in Objects
  BY <1>0, <1>2 DEF StoresInv
<1>5. CASE Stays(t)
  BY <1>1, <1>3, <1>4, <1>5 DEF Stays, Removing
<1>6. CASE t \in Clients
  <2>1. batch'[t] = {}
    BY <1>6, ClientsStep DEF ClientsInv
  <2>2. pc'[t] = "rm_primary" /\ cur'[t] = n
    BY <1>1, <2>1
  <2>3. CASE Evict(t)
    BY <1>6, <2>2, <2>3 DEF Evict
  <2> QED
    BY <1>5, <1>6, <2>2, <2>3, ClientMoves
<1>7. CASE t \in Workers
  <2>1. CASE NextToRemove(t)
    <3>1. n \in batch[t]
      BY <1>0, <1>1, <2>1 DEF NextToRemove, Types
    <3> QED
      BY <1>3, <3>1 DEF Removing
  <2>2. CASE Mark(t)
    <3>1. PICK m \in Objects :
             /\ m \in claimed[t] /\ Changed({m}, "matched")
             /\ batch' = [batch EXCEPT ![t] = batch[t] \cup {m}]
      BY <1>0, <1>7, <2>2, MarkFacts
    <3>2. batch'[t] = batch[t] \cup {m} /\ pc'[t] # "rm_primary"
      BY <1>0, <2>2, <3>1 DEF Types, Mark
    <3>3. n \in batch[t] \/ n = m
      BY <1>1, <3>2
    <3> QED
      BY <1>3, <1>7, <2>2, <3>1, <3>3 DEF Removing
  <2>3. CASE batch'[t] = batch[t] /\ ~(pc'[t] = "rm_primary" /\ cur'[t] = n)
    BY <1>1, <1>3, <2>3 DEF Removing
  <2>4. RemovePrimary(t) => batch'[t] = batch[t]
    BY DEF RemovePrimary
  <2> QED
    BY <1>2, <1>5, <1>7, <2>1, <2>2, <2>3, <2>4, WorkerMoves
<1> QED
  BY <1>6, <1>7, ThreadKinds

(* Two clients do not hold registrations of one id. *)
LEMMA Owners ==
  ASSUME PoolInv, OneClientPerId, NEW c \in Clients, NEW d \in Clients, c # d,
         pc[c] # "idle", pc[d] # "idle"
  PROVE  /\ asked[c] # asked[d]
         /\ cur[c] # 0 => cur[c] # cur[d] /\ players[cur[c]].id # asked[d]
<1>1. asked[c] \in mayUse[c] /\ asked[d] \in mayUse[d]
  BY DEF PoolInv, ClientsInv
<1>2. asked[c] # asked[d]
  BY <1>1 DEF OneClientPerId
<1> QED
  BY <1>2 DEF PoolInv, ClientsInv

(* A client's object. *)
LEMMA ClientHolds ==
  ASSUME PoolInv, NEW c \in Clients, pc[c] \in Holding
  PROVE  /\ cur[c] \in Objects /\ cur[c] # 0 /\ cur[c] \in Nat /\ Key(cur[c]) \in Keys
         /\ players[cur[c]].id = asked[c] /\ asked[c] \in Ids
<1>1. cur[c] \in Objects /\ players[cur[c]].id = asked[c]
  BY ThreadKinds DEF PoolInv, ClientsInv, StoresInv
<1> QED
  BY <1>1, KeysFacts DEF PoolInv

(* A player that has left the queue has left it for good. *)
LEMMA StatesLast ==
  ASSUME PoolInv, [Next]_vars, NEW n \in Objects, Gone(n)
  PROVE  players'[n].state = players[n].state
<1>0. /\ PoolTypeOK /\ StoresInv /\ ClientsInv /\ ClaimsInv
      /\ players[n].state # "waiting" /\ players[n].state # "claimed"
  BY DEF PoolInv, Gone
<1>1. CASE \E c \in Clients, i \in Ids, r \in Ratings : Enqueue(c, i, r)
  BY <1>0, <1>1, EnqueueFacts
<1>2. CASE \E c \in Clients : Evict(c)
  BY <1>0, <1>2, EvictFacts DEF Changed, Evict
<1>3. CASE \E w \in Workers : Claim(w) \/ Release(w)
  BY <1>0, <1>3, ClaimFacts, ReleaseFacts DEF Changed
<1>4. CASE \E w \in Workers : Mark(w)
  BY <1>0, <1>4, MarkFacts DEF Changed
<1>5. CASE ResetStale
  BY <1>0, <1>5, ResetFacts DEF Changed
<1> QED
  BY <1>1, <1>2, <1>3, <1>4, <1>5, PlayersChange

(* A player that others can reach and that has not left is stored. *)
LEMMA ReachedAreStored ==
  ASSUME PoolInv, OwnedInv, NEW n \in Objects, ~Gone(n),
         \/ \E k \in Keys : index[k] = n
         \/ \E t \in Threads : cur[t] = n /\ pc[t] # "ins_primary"
         \/ \E w \in Workers : n \in candidates[w]
         \/ players[n].state = "claimed"
  PROVE  primary[players[n].id] = n
<1>1. ~Inserting(n)
  <2> SUFFICES ASSUME NEW c \in Clients, pc[c] = "ins_primary", cur[c] = n PROVE FALSE
    BY DEF Inserting
  <2>1. Hidden(n, c) /\ players[n].state = "waiting"
    BY DEF PoolInv, FreshInv
  <2> QED
    BY <2>1, ThreadKinds DEF Hidden
<1> QED
  BY <1>1 DEF OwnedInv, RegisteredInv

(* The ids that InsertPrimary and RemovePrimary are about. *)
LEMMA InsertPrimaryFacts ==
  ASSUME PoolInv, NEW c \in Clients, InsertPrimary(c)
  PROVE  /\ primary'[asked[c]] = cur[c]
         /\ \A i \in Ids : i # asked[c] => primary'[i] = primary[i]
BY ClientHolds DEF InsertPrimary, Holding, PoolInv, PoolTypeOK

LEMMA RemovePrimaryFacts ==
  ASSUME PoolInv, OwnedInv, NEW t \in Threads, RemovePrimary(t)
  PROVE  /\ cur[t] \in Objects /\ cur[t] \in Removing(t)
         /\ players[cur[t]].id \in Ids
         /\ primary[players[cur[t]].id] = cur[t]
         /\ players[cur[t]].state = IF t \in Clients THEN "evicted" ELSE "matched"
         /\ primary'[players[cur[t]].id] = 0
         /\ \A i \in Ids : i # players[cur[t]].id => primary'[i] = primary[i]
         /\ cur'[t] = cur[t]
         /\ pc[t] = "rm_primary" /\ pc'[t] = "rm_index"
<1>1. cur[t] \in Objects /\ pc[t] = "rm_primary"
  BY DEF RemovePrimary, PoolInv, StoresInv
<1>2. cur[t] \in Removing(t)
  BY <1>1 DEF Removing
<1>3. players[cur[t]].id \in Ids
  BY <1>1, KeysFacts DEF PoolInv
<1>4. /\ primary[players[cur[t]].id] = cur[t]
      /\ players[cur[t]].state = IF t \in Clients THEN "evicted" ELSE "matched"
  BY <1>2 DEF OwnedInv, RemovingInv
<1>5. Types
  BY TypesSplit DEF PoolInv
<1>6. cur'[t] = cur[t] /\ pc'[t] = "rm_index"
  BY <1>4, <1>5 DEF RemovePrimary, Goto, Types
<1>7. /\ primary'[players[cur[t]].id] = 0
      /\ \A i \in Ids : i # players[cur[t]].id => primary'[i] = primary[i]
  BY <1>3, <1>5 DEF RemovePrimary, Types
<1> QED
  BY <1>1, <1>2, <1>3, <1>4, <1>6, <1>7

(* A stored player that has not left stays stored. *)
LEMMA WaitingStayStored ==
  ASSUME PoolInv, OwnedInv, [Next]_vars,
         NEW n \in Objects, ~Gone(n), primary[players[n].id] = n
  PROVE  primary'[players[n].id] = n
<1>0. n # 0 /\ players[n].id \in Ids
  BY KeysFacts DEF PoolInv
<1>1. ASSUME NEW c \in Clients, InsertPrimary(c) PROVE primary'[players[n].id] = n
  <2>1. primary[asked[c]] = 0
    BY <1>1 DEF OwnedInv, FreeInv, InsertPrimary
  <2> QED
    BY <1>0, <1>1, <2>1, InsertPrimaryFacts
<1>2. ASSUME NEW t \in Threads, RemovePrimary(t) PROVE primary'[players[n].id] = n
  BY <1>0, <1>2, RemovePrimaryFacts DEF Gone
<1> QED
  BY <1>1, <1>2, PrimaryChanges

LEMMA RegisteredStep ==
  PoolInv /\ OneClientPerId /\ OwnedInv /\ [Next]_vars => RegisteredInv'
<1> SUFFICES ASSUME PoolInv, OwnedInv, [Next]_vars,
                    NEW n \in Objects', ~Gone(n)'
             PROVE  primary'[players'[n].id] = n \/ Inserting(n)'
  BY DEF RegisteredInv
<1>0. PoolTypeOK /\ Types /\ RegisteredInv /\ StoresInv /\ ClientsInv /\ ClaimsInv
  BY TypesSplit DEF PoolInv, OwnedInv
<1>1. CASE n \in Objects
  <2>1. ~Gone(n) /\ players'[n].id = players[n].id
    BY <1>1, StatesLast, ObjectsStay DEF Gone
  <2>2. CASE primary[players[n].id] = n
    BY <1>1, <2>1, <2>2, WaitingStayStored
  <2>3. ASSUME NEW c \in Clients, pc[c] = "ins_primary", cur[c] = n
        PROVE  primary'[players'[n].id] = n \/ Inserting(n)'
    <3>1. CASE InsertPrimary(c)
      BY <2>1, <2>3, <3>1, InsertPrimaryFacts, ClientHolds DEF Holding
    <3>2. CASE Stays(c)
      BY <2>3, <3>2 DEF Stays, Inserting
    <3> QED
      BY <2>3, <3>1, <3>2, ClientMoves
         DEF Enqueue, InsertIndex, CancelGet, Ask, Evict, RemovePrimary
  <2> QED
    BY <1>0, <1>1, <2>1, <2>2, <2>3 DEF RegisteredInv, Inserting
<1>2. CASE n \notin Objects
  <2>1. PICK c \in Clients, i \in Ids, r \in Ratings : Enqueue(c, i, r)
    <3>1. CASE \E m \in Objects, z \in PlayerStates : Changed({m}, z)
      BY <1>2, <3>1 DEF Changed
    <3>2. CASE UNCHANGED players
      BY <1>2, <3>2 DEF Objects
    <3> QED
      BY <1>0, <3>1, <3>2, ObjectsChange
  <2>2. PICK m \in Nat \ (Objects \cup {0}) :
           Objects' = Objects \cup {m} /\ cur' = [cur EXCEPT ![c] = m]
    BY <1>0, <2>1, EnqueueFacts
  <2>3. m = n
    BY <1>2, <2>2
  <2>4. cur'[c] = n /\ pc'[c] = "ins_primary"
    BY <1>0, <2>1, <2>2, <2>3, ThreadKinds DEF Enqueue, Goto, Types
  <2> QED
    BY <2>4 DEF Inserting
<1> QED
  BY <1>1, <1>2

LEMMA FreeStep ==
  PoolInv /\ OneClientPerId /\ OwnedInv /\ [Next]_vars => FreeInv'
<1> SUFFICES ASSUME PoolInv, OneClientPerId, OwnedInv, [Next]_vars,
                    NEW c \in Clients, pc'[c] = "ins_primary"
             PROVE  primary'[asked'[c]] = 0
  BY DEF FreeInv
<1>0. Types
  BY TypesSplit DEF PoolInv
<1>1. ASSUME NEW i \in Ids, NEW r \in Ratings, Enqueue(c, i, r) PROVE primary'[asked'[c]] = 0
  BY <1>0, <1>1 DEF Enqueue, Ask, Types
<1>2. CASE Stays(c) /\ asked'[c] = asked[c]
  <2>1. pc[c] = "ins_primary" /\ primary[asked[c]] = 0 /\ asked[c] \in Ids
    BY <1>2, ClientHolds DEF Stays, OwnedInv, FreeInv, Holding
  <2>2. ASSUME NEW d \in Clients, InsertPrimary(d) PROVE primary'[asked[c]] = 0
    <3>1. d # c
      BY <1>0, <2>2, ThreadKinds DEF InsertPrimary, Goto, Types
    <3>2. asked[d] # asked[c]
      BY <2>1, <2>2, <3>1, Owners DEF InsertPrimary
    <3> QED
      BY <2>1, <2>2, <3>2, InsertPrimaryFacts
  <2>3. ASSUME NEW t \in Threads, RemovePrimary(t) PROVE primary'[asked[c]] = 0
    BY <2>1, <2>3, RemovePrimaryFacts
  <2> QED
    BY <1>2, <2>1, <2>2, <2>3, PrimaryChanges
<1> QED
  BY <1>1, <1>2, ClientMoves

LEMMA GotStep ==
  PoolInv /\ OneClientPerId /\ OwnedInv /\ [Next]_vars => GotInv'
<1> SUFFICES ASSUME PoolInv, OneClientPerId, OwnedInv, [Next]_vars,
                    NEW c \in Clients, pc'[c] = "evict"
             PROVE  primary'[asked'[c]] \in {0, cur'[c]}
  BY DEF GotInv
<1>0. Types /\ c \in Threads
  BY TypesSplit, ThreadKinds DEF PoolInv
<1>1. ASSUME NEW i \in Ids, CancelGet(c, i) PROVE primary'[asked'[c]] \in {0, cur'[c]}
  BY <1>0, <1>1 DEF CancelGet, Ask, Types
<1>2. CASE Stays(c) /\ asked'[c] = asked[c]
  <2>1. pc[c] = "evict" /\ primary[asked[c]] \in {0, cur[c]} /\ asked[c] \in Ids
    BY <1>2, ClientHolds DEF Stays, OwnedInv, GotInv, Holding
  <2>2. ASSUME NEW d \in Clients, InsertPrimary(d) PROVE primary'[asked[c]] = primary[asked[c]]
    <3>1. d # c /\ pc[d] # "idle" /\ pc[c] # "idle"
      BY <2>1, <2>2 DEF InsertPrimary
    <3>2. asked[d] # asked[c]
      BY <3>1, Owners
    <3> QED
      BY <2>1, <2>2, <3>2, InsertPrimaryFacts
  <2>3. ASSUME NEW t \in Threads, RemovePrimary(t)
        PROVE  primary'[asked[c]] \in {0, primary[asked[c]]}
    BY <2>1, <2>3, RemovePrimaryFacts
  <2> QED
    BY <1>2, <2>1, <2>2, <2>3, PrimaryChanges DEF Stays
<1> QED
  BY <1>1, <1>2, ClientMoves

LEMMA UnindexedStep ==
  PoolInv /\ OneClientPerId /\ OwnedInv /\ [Next]_vars => UnindexedInv'
<1> SUFFICES ASSUME PoolInv, OneClientPerId, OwnedInv, [Next]_vars,
                    NEW c \in Clients, pc'[c] = "ins_index"
             PROVE  /\ players'[cur'[c]].state = "waiting"
                    /\ \A k \in Keys : index'[k] # cur'[c]
                    /\ \A w \in Workers : cur'[c] \notin candidates'[w]
  BY DEF UnindexedInv
<1>0. PoolTypeOK /\ Types /\ StoresInv /\ ClientsInv /\ ClaimsInv
      /\ c \in Threads
  BY TypesSplit, ThreadKinds DEF PoolInv
<1>1. CASE InsertPrimary(c)
  BY <1>1 DEF InsertPrimary, PoolInv, FreshInv, Hidden, claimVars
<1>2. CASE Stays(c)
  <2>1. /\ pc[c] = "ins_index" /\ cur'[c] = cur[c] /\ players[cur[c]].state = "waiting"
        /\ \A k \in Keys : index[k] # cur[c]
        /\ \A w \in Workers : cur[c] \notin candidates[w]
    BY <1>2 DEF Stays, OwnedInv, UnindexedInv
  <2>2. cur[c] \in Objects /\ cur[c] # 0 /\ Key(cur[c]) \in Keys
    BY <2>1, ClientHolds DEF Holding
  <2>3. ASSUME NEW d \in Clients, d # c, pc[d] # "idle" PROVE cur[d] # cur[c]
    BY <2>1, <2>2, <2>3, Owners
  <2>4. players'[cur[c]].state = "waiting"
    <3>1. CASE \E d \in Clients, i \in Ids, r \in Ratings : Enqueue(d, i, r)
      BY <1>0, <2>1, <2>2, <3>1, EnqueueFacts
    <3>2. ASSUME NEW d \in Clients, Evict(d) PROVE players'[cur[c]].state = "waiting"
      <4>1. cur[d] # cur[c]
        BY <2>1, <2>3, <3>2 DEF Evict
      <4> QED
        BY <1>0, <2>1, <2>2, <3>2, <4>1, EvictFacts DEF Changed
    <3>3. ASSUME NEW m \in Objects, NEW z, Changed({m}, z), m # cur[c]
          PROVE  players'[cur[c]].state = "waiting"
      BY <2>1, <2>2, <3>3 DEF Changed
    <3>4. CASE \E w \in Workers : Claim(w)
      BY <1>0, <2>1, <3>3, <3>4, ClaimFacts
    <3>5. CASE \E w \in Workers : Release(w) \/ Mark(w)
      BY <1>0, <2>1, <3>3, <3>5, ReleaseFacts, MarkFacts
    <3>6. CASE ResetStale
      BY <1>0, <2>1, <3>3, <3>6, ResetFacts
    <3> QED
      BY <2>1, <3>1, <3>2, <3>4, <3>5, <3>6, PlayersChange
  <2>5. ASSUME NEW k \in Keys PROVE index'[k] # cur[c]
    <3>1. ASSUME NEW d \in Clients, InsertIndex(d) PROVE index'[k] # cur[c]
      <4>1. pc'[d] = "gauge_inc" /\ pc[d] # "idle"
        BY <1>0, <3>1, ThreadKinds DEF InsertIndex, Goto, Types
      <4>2. cur[d] # cur[c]
        BY <2>3, <4>1
      <4> QED
        BY <1>0, <2>1, <3>1, <4>2 DEF InsertIndex, Types
    <3>2. ASSUME NEW t \in Threads, RemoveIndex(t) PROVE index'[k] = index[k] \/ index'[k] = 0
      BY <1>0, <3>2 DEF RemoveIndex, Types
    <3> QED
      BY <2>1, <2>2, <3>1, <3>2, IndexChanges
  <2>6. ASSUME NEW w \in Workers PROVE cur[c] \notin candidates'[w]
    <3>1. cur[c] \notin range_scan
      BY <2>1, <2>2 DEF range_scan
    <3> QED
      BY <1>0, <2>1, <3>1, CandidatesFrom
  <2> QED
    BY <2>1, <2>4, <2>5, <2>6
<1> QED
  BY <1>1, <1>2, ClientMoves

LEMMA RemovingStep ==
  PoolInv /\ OneClientPerId /\ OwnedInv /\ [Next]_vars => RemovingInv'
<1> SUFFICES ASSUME PoolInv, OneClientPerId, OwnedInv, [Next]_vars,
                    NEW t \in Threads, NEW n \in Removing(t)'
             PROVE  /\ primary'[players'[n].id] = n
                    /\ players'[n].state = IF t \in Clients THEN "evicted" ELSE "matched"
  BY DEF RemovingInv
<1>0. PoolTypeOK /\ Types /\ StoresInv /\ ClientsInv /\ ClaimsInv
  BY TypesSplit DEF PoolInv
<1>1. CASE n \in Removing(t)
  <2>1. /\ n \in Objects /\ primary[players[n].id] = n
        /\ players[n].state = IF t \in Clients THEN "evicted" ELSE "matched"
    BY <1>1 DEF Removing, OwnedInv, RemovingInv
  <2>2. n # 0 /\ players[n].id \in Ids
    BY <1>0, <2>1, KeysFacts
  <2>3. players'[n].id = players[n].id /\ players'[n].state = players[n].state
    BY <2>1, StatesLast, ObjectsStay DEF Gone
  <2>4. ASSUME NEW c \in Clients, InsertPrimary(c) PROVE primary'[players[n].id] = n
    <3>1. primary[asked[c]] = 0
      BY <2>4 DEF OwnedInv, FreeInv, InsertPrimary
    <3> QED
      BY <2>1, <2>2, <2>4, <3>1, InsertPrimaryFacts
  <2>5. ASSUME NEW u \in Threads, RemovePrimary(u), players[cur[u]].id = players[n].id
        PROVE  FALSE
    <3>1. /\ cur[u] = n /\ n \in Removing(u) /\ pc[u] = "rm_primary" /\ pc'[u] = "rm_index"
          /\ players[n].state = IF u \in Clients THEN "evicted" ELSE "matched"
      BY <2>1, <2>5, RemovePrimaryFacts
    <3>2. CASE u \in Clients /\ t \in Clients /\ u # t
      <4>1. pc[t] = "rm_primary" /\ cur[t] = n
        BY <1>0, <1>1, <3>2 DEF Removing, ClientsInv
      <4> QED
        BY <2>2, <3>1, <3>2, <4>1, Owners
    <3>3. CASE u \in Workers /\ t \in Workers /\ u # t
      BY <1>1, <3>1, <3>3 DEF OwnedInv, ApartInv
    <3>4. CASE u = t
      <4>1. n \in batch'[t]
        BY <3>1, <3>4 DEF Removing
      <4>2. n \in batch[t]
        BY <2>5, <3>4, <4>1 DEF RemovePrimary
      <4> QED
        BY <1>0, <3>1, <3>4, <4>2, ThreadKinds DEF OwnedInv, ApartInv, ClientsInv
    <3> QED
      BY <2>1, <3>1, <3>2, <3>3, <3>4, ThreadKinds
  <2>6. ASSUME NEW u \in Threads, RemovePrimary(u) PROVE primary'[players[n].id] = n
    BY <2>1, <2>2, <2>5, <2>6, RemovePrimaryFacts
  <2>7. primary'[players[n].id] = n
    BY <2>1, <2>4, <2>6, PrimaryChanges
  <2> QED
    BY <2>1, <2>3, <2>7
<1>2. CASE t \in Clients /\ Evict(t) /\ cur[t] = n
  <2>1. /\ pc[t] = "evict" /\ players[n].state = "waiting" /\ n \in Objects
        /\ primary' = primary /\ players'[n].state = "evicted"
    BY <1>0, <1>2, EvictFacts DEF Evict, Changed
  <2>2. primary[players[n].id] = n
    BY <1>2, <2>1, ReachedAreStored DEF Gone
  <2>3. players'[n].id = players[n].id
    BY <2>1, ObjectsStay
  <2> QED
    BY <1>2, <2>1, <2>2, <2>3
<1>3. CASE t \in Workers /\ Mark(t) /\ n \in Objects /\ n \in claimed[t] /\ Changed({n}, "matched")
  <2>1. players[n].state = "claimed" /\ primary' = primary
    BY <1>0, <1>3 DEF ClaimsInv, Mark
  <2>2. primary[players[n].id] = n
    BY <1>3, <2>1, ReachedAreStored DEF Gone
  <2>3. players'[n].id = players[n].id /\ players'[n].state = "matched"
    BY <1>3 DEF Changed
  <2> QED
    BY <1>3, <2>1, <2>2, <2>3, ThreadKinds
<1> QED
  BY <1>1, <1>2, <1>3, RemovingFrom

LEMMA ApartStep ==
  PoolInv /\ OneClientPerId /\ OwnedInv /\ [Next]_vars => ApartInv'
<1> SUFFICES ASSUME PoolInv, OwnedInv, [Next]_vars, NEW w \in Workers
             PROVE  /\ \A v \in Workers : \A n \in Removing(w)' : n \in Removing(v)' => v = w
                    /\ pc'[w] = "rm_primary" => cur'[w] \notin batch'[w]
  BY DEF ApartInv
<1>0. PoolTypeOK /\ Types /\ StoresInv /\ WorkersInv /\ ClaimsInv /\ w \in Threads
  BY TypesSplit, ThreadKinds DEF PoolInv
<1>1. ASSUME NEW v \in Workers, NEW n, NEW u \in Workers, n \in claimed[u], n \in Removing(v)', v # u
      PROVE  FALSE
  <2>1. players[n].state = "claimed" /\ n \notin claimed[v]
    BY <1>0, <1>1 DEF ClaimsInv
  <2>2. n \in Removing(v) => players[n].state = "matched"
    BY <1>1, ThreadKinds DEF OwnedInv, RemovingInv
  <2> QED
    BY <1>1, <2>1, <2>2, RemovingFrom, ThreadKinds
<1>2. ASSUME NEW v \in Workers, NEW n, n \in Removing(w)', n \in Removing(v)', v # w PROVE FALSE
  <2>1. ~(n \in Removing(w) /\ n \in Removing(v))
    BY <1>2 DEF OwnedInv, ApartInv
  <2> QED
    BY <1>1, <1>2, <2>1, RemovingFrom, ThreadKinds
<1>3. ASSUME pc'[w] = "rm_primary" PROVE cur'[w] \notin batch'[w]
  <2>1. 0 \notin batch[w]
    BY <1>0, ObjectsFacts DEF StoresInv
  <2>2. CASE Stays(w)
    BY <1>3, <2>2 DEF Stays, OwnedInv, ApartInv
  <2>3. CASE NextToRemove(w)
    BY <1>0, <2>3 DEF NextToRemove, Types
  <2> QED
    BY <1>3, <2>1, <2>2, <2>3, WorkerMoves
<1> QED
  BY <1>2, <1>3

LEMMA OwnedInitially == Init => OwnedInv
<1> SUFFICES ASSUME Init PROVE OwnedInv
  OBVIOUS
<1>1. Objects = {}
  BY DEF Init, Objects
<1>2. \A t \in Threads : Removing(t) = {}
  BY <1>1 DEF Removing
<1>3. RegisteredInv /\ RemovingInv
  BY <1>1, <1>2 DEF RegisteredInv, RemovingInv
<1>4. ApartInv
  BY <1>2, ThreadKinds DEF Init, ApartInv
<1>5. FreeInv /\ UnindexedInv /\ GotInv
  BY ThreadKinds DEF Init, FreeInv, UnindexedInv, GotInv
<1> QED
  BY <1>3, <1>4, <1>5 DEF OwnedInv

LEMMA OwnedStep == PoolInv /\ OneClientPerId /\ OwnedInv /\ [Next]_vars => OwnedInv'
BY RegisteredStep, FreeStep, UnindexedStep, GotStep, RemovingStep, ApartStep DEF OwnedInv

-----------------------------------------------------------------------------
(* The index: an entry's Player is stored or being removed.                 *)

EntriesInv ==
    \A k \in Keys : index[k] # 0 =>
        primary[players[index[k]].id] = index[k] \/ BeingRemoved(index[k])

(* A removal goes on until the index entry is gone. *)
LEMMA RemovalGoesOn ==
  ASSUME PoolInv, OwnedInv, [Next]_vars, NEW n \in Objects, BeingRemoved(n)
  PROVE  BeingRemoved(n)' \/ index'[Key(n)] # n \/ primary'[players[n].id] = n
<1>0. PoolTypeOK /\ Types /\ StoresInv /\ ClientsInv /\ WorkersInv
  BY TypesSplit DEF PoolInv
<1>1. PICK t \in Threads : /\ pc[t] \in {"marking", "rm_primary", "rm_index"}
                           /\ cur[t] = n \/ n \in batch[t]
  BY DEF BeingRemoved
<1>2. n # 0 /\ Key(n) \in Keys
  BY <1>0, KeysFacts
<1>3. CASE Stays(t)
  BY <1>1, <1>3 DEF Stays, BeingRemoved
<1>4. CASE Rest
  BY <1>3, <1>4 DEF Rest, Stays
<1>5. ASSUME NEW u \in Threads, Step(u), u # t PROVE Stays(t)
  BY <1>0, <1>5, OthersStay DEF Stays
<1>6. CASE t \in Clients
  <2>1. cur[t] = n /\ pc[t] # "marking"
    BY <1>0, <1>1, <1>2, <1>6 DEF ClientsInv, Holding
  <2>2. ~ClientStep(t)
    BY <1>1 DEF ClientStep, Enqueue, EnqueueRefused, InsertPrimary, InsertIndex, GaugeInc,
                CancelUnknown, CancelGet, Evict, EvictRefused, Refuse, Ask
  <2>3. t \notin Workers
    BY <1>6, ThreadKinds
  <2>4. CASE RemovePrimary(t)
    BY <2>1, <2>4, RemovePrimaryFacts DEF BeingRemoved
  <2>5. ~RemoveAbsent(t)
    <3> SUFFICES ASSUME RemoveAbsent(t) PROVE FALSE
      OBVIOUS
    <3>1. n \in Removing(t)
      BY <2>1 DEF Removing, RemoveAbsent
    <3> QED
      BY <1>2, <2>1, <3>1 DEF RemoveAbsent, OwnedInv, RemovingInv
  <2>6. CASE RemoveIndex(t)
    BY <1>0, <1>2, <2>1, <2>6 DEF RemoveIndex, Types
  <2>7. ~GaugeDec(t)
    BY <1>1 DEF GaugeDec
  <2>8. Step(t) => BeingRemoved(n)' \/ index'[Key(n)] # n \/ primary'[players[n].id] = n
    BY <2>2, <2>3, <2>4, <2>5, <2>6, <2>7 DEF Step, RemoveStep
  <2> QED
    BY <1>3, <1>4, <1>5, <2>8, StepsAre
<1>7. CASE t \in Workers
  <2>1. t \notin Clients
    BY <1>7, ThreadKinds
  <2>2. /\ ~Scan(t) /\ ~Claim(t) /\ ~ClaimFails(t) /\ ~Release(t) /\ ~GiveUp(t) /\ ~BeginMatch(t)
        /\ ~GaugeDec(t) /\ ~AllRemoved(t)
    BY <1>1, <1>2 DEF Scan, Claim, ClaimFails, Try, Release, GiveUp, BeginMatch, GaugeDec,
                      AllRemoved
  <2>2a. CASE Mark(t)
    <3>1. n \in batch[t]
      BY <1>0, <1>1, <1>2, <1>7, <2>2a DEF Mark, WorkersInv
    <3>2. n \in batch'[t] /\ pc'[t] = "marking"
      BY <1>0, <2>2a, <3>1 DEF Mark, Types
    <3> QED
      BY <3>2 DEF BeingRemoved
  <2>2b. CASE AllMarked(t)
    <3>1. n \in batch[t]
      BY <1>0, <1>1, <1>2, <1>7, <2>2b DEF AllMarked, WorkersInv
    <3>2. n \in batch'[t] /\ pc'[t] = "rm_primary"
      BY <1>0, <2>2b, <3>1 DEF AllMarked, Goto, Types
    <3> QED
      BY <3>2 DEF BeingRemoved
  <2>2c. CASE Panic(t)
    <3>1. n \in Removing(t)
      BY <1>1, <1>2, <2>2c DEF Panic, Removing
    <3> QED
      BY <2>2c, <3>1 DEF Panic, OwnedInv, RemovingInv
  <2>3. CASE NextToRemove(t)
    BY <1>0, <1>1, <1>2, <2>3 DEF NextToRemove, BeingRemoved, Types
  <2>4. CASE RemovePrimary(t)
    <3>1. batch'[t] = batch[t] /\ cur'[t] = cur[t] /\ pc'[t] = "rm_index"
      BY <2>4, RemovePrimaryFacts DEF RemovePrimary
    <3> QED
      BY <1>1, <3>1 DEF BeingRemoved
  <2>5. CASE n \in batch[t] /\ (RemoveAbsent(t) \/ RemoveIndex(t))
    BY <1>0, <2>1, <2>5 DEF RemoveAbsent, RemoveIndex, LeaveRemove, Goto, BeingRemoved, Types
  <2>6. ~(cur[t] = n /\ RemoveAbsent(t))
    <3> SUFFICES ASSUME cur[t] = n, RemoveAbsent(t) PROVE FALSE
      OBVIOUS
    <3>1. n \in Removing(t)
      BY DEF Removing, RemoveAbsent
    <3> QED
      BY <1>2, <3>1 DEF RemoveAbsent, OwnedInv, RemovingInv
  <2>7. CASE cur[t] = n /\ RemoveIndex(t)
    BY <1>0, <1>2, <2>7 DEF RemoveIndex, Types
  <2>8. Step(t) => BeingRemoved(n)' \/ index'[Key(n)] # n \/ primary'[players[n].id] = n
    BY <1>1, <2>1, <2>2, <2>2a, <2>2b, <2>2c, <2>3, <2>4, <2>5, <2>6, <2>7 DEF Step, WorkerStep, RemoveStep
  <2> QED
    BY <1>3, <1>4, <1>5, <2>8, StepsAre
<1> QED
  BY <1>6, <1>7, ThreadKinds

LEMMA EntriesStep ==
  PoolInv /\ OneClientPerId /\ OwnedInv /\ EntriesInv /\ [Next]_vars => EntriesInv'
<1> SUFFICES ASSUME PoolInv, OwnedInv, EntriesInv, [Next]_vars,
                    NEW k \in Keys, NEW n, n = index'[k], n # 0
             PROVE  primary'[players'[n].id] = n \/ BeingRemoved(index[k])'
  BY DEF EntriesInv
<1>0. PoolTypeOK /\ Types /\ StoresInv
  BY TypesSplit DEF PoolInv
<1>1. ASSUME NEW c \in Clients, InsertIndex(c), n = cur[c]
      PROVE  primary'[players'[n].id] = n
  <2>1. /\ pc[c] = "ins_index" /\ players[n].state = "waiting" /\ c \in Threads
        /\ primary' = primary /\ players' = players
    BY <1>1, ThreadKinds DEF InsertIndex, OwnedInv, UnindexedInv
  <2>2. n \in Objects
    BY <1>1, <2>1, ClientHolds DEF Holding
  <2>3. primary[players[n].id] = n
    BY <1>1, <2>1, <2>2, ReachedAreStored DEF Gone
  <2> QED
    BY <2>1, <2>3
<1>2. CASE index[k] = n
  <2>1. n \in Objects /\ Key(n) = k
    BY <1>0, <1>2 DEF StoresInv
  <2>2. players'[n].id = players[n].id /\ players[n].id \in Ids
    BY <1>0, <2>1, ObjectsStay, KeysFacts
  <2>3. CASE primary[players[n].id] = n
    <3>1. ASSUME NEW c \in Clients, InsertPrimary(c) PROVE primary'[players[n].id] = n
      <4>1. primary[asked[c]] = 0
        BY <3>1 DEF OwnedInv, FreeInv, InsertPrimary
      <4> QED
        BY <2>2, <2>3, <3>1, <4>1, InsertPrimaryFacts
    <3>2. ASSUME NEW t \in Threads, RemovePrimary(t), players[cur[t]].id = players[n].id
          PROVE  BeingRemoved(index[k])'
      <4>1. cur'[t] = n /\ pc'[t] = "rm_index"
        BY <2>3, <3>2, RemovePrimaryFacts
      <4> QED
        BY <4>1 DEF BeingRemoved
    <3>3. ASSUME NEW t \in Threads, RemovePrimary(t), players[cur[t]].id # players[n].id
          PROVE  primary'[players[n].id] = n
      BY <2>2, <2>3, <3>3, RemovePrimaryFacts
    <3> QED
      BY <2>2, <2>3, <3>1, <3>2, <3>3, PrimaryChanges
  <2>4. CASE BeingRemoved(n)
    <3>1. BeingRemoved(n)' \/ primary'[players[n].id] = n
      BY <2>1, <2>4, RemovalGoesOn
    <3> QED
      BY <2>2, <3>1 DEF BeingRemoved
  <2> QED
    BY <1>2, <2>3, <2>4 DEF EntriesInv
<1>3. ASSUME NEW c \in Clients, InsertIndex(c) PROVE index'[k] = index[k] \/ index'[k] = cur[c]
  BY <1>0, <1>3 DEF InsertIndex, Types
<1>4. ASSUME NEW t \in Threads, RemoveIndex(t) PROVE index'[k] = index[k] \/ index'[k] = 0
  BY <1>0, <1>4 DEF RemoveIndex, Types
<1> QED
  BY <1>1, <1>2, <1>3, <1>4, IndexChanges

-----------------------------------------------------------------------------
(* The gauge: the stored players that are not matched, less those whose     *)
(* joining is not counted yet, plus those whose leaving is not.  A player   *)
(* of a match counts as matched from the match's beginning on.              *)

Taken(n) == \E w \in Workers : pc[w] = "marking" /\ n \in claimed[w]
Spoken(n) == players[n].state = "matched" \/ Taken(n)

Queued == {i \in Ids : primary[i] # 0 /\ ~Spoken(primary[i])}
Joining == {c \in Clients : pc[c] \in {"ins_index", "gauge_inc"}}
Quitting == {c \in Clients : pc[c] \in {"rm_index", "gauge_dec"}}

MatchPCs == {"marking", "rm_primary", "rm_index", "gauge_dec"}
Matching == {w \in Workers : pc[w] \in MatchPCs}

(* A panic in phase 5 has made the gauge too large for good. *)
Abandoned == \E w \in Workers : pc[w] = "abandoned"

GaugeInv ==
    ~Abandoned =>
        current_queue_size =
            Cardinality(Queued) - Cardinality(Joining) + Cardinality(Quitting)
                + MATCH_SIZE * Cardinality(Matching)

LEMMA FiniteParts ==
  /\ IsFiniteSet(Queued) /\ IsFiniteSet(Joining) /\ IsFiniteSet(Quitting) /\ IsFiniteSet(Matching)
  /\ Cardinality(Queued) \in Nat /\ Cardinality(Joining) \in Nat
  /\ Cardinality(Quitting) \in Nat /\ Cardinality(Matching) \in Nat
<1>1. /\ Queued \in SUBSET Ids /\ Joining \in SUBSET Clients /\ Quitting \in SUBSET Clients
      /\ Matching \in SUBSET Workers
  BY DEF Queued, Joining, Quitting, Matching
<1>2. /\ IsFiniteSet(Queued) /\ IsFiniteSet(Joining) /\ IsFiniteSet(Quitting)
      /\ IsFiniteSet(Matching)
  BY <1>1, FinitenessAssumption, FS_Subset
<1> QED
  BY <1>2, FS_CardinalityType

(* The ids of a match's players. *)
IdsOf(S) == {players[n].id : n \in S}

LEMMA MatchedIds ==
  ASSUME PoolInv, NEW S \in SUBSET Objects, \A n \in S : primary[players[n].id] = n
  PROVE  IsFiniteSet(IdsOf(S)) /\ Cardinality(IdsOf(S)) = Cardinality(S)
<1>1. IsFiniteSet(S)
  <2>1. IsFiniteSet(Objects)
    BY ObjectsFacts, FS_Interval DEF PoolInv
  <2> QED
    BY <2>1, FS_Subset
<1> DEFINE f == [n \in S |-> players[n].id]
<1>2. f \in [S -> IdsOf(S)]
  BY DEF IdsOf
<1>3. \A m, n \in S : f[m] = f[n] => m = n
  OBVIOUS
<1>4. \A i \in IdsOf(S) : \E n \in S : f[n] = i
  BY DEF IdsOf
<1>5. f \in Bijection(S, IdsOf(S))
  <2> HIDE DEF f
  <2> QED
    BY <1>2, <1>3, <1>4 DEF Bijection, Injection, Surjection, IsInjective
<1>6. ExistsBijection(S, IdsOf(S))
  BY <1>5 DEF ExistsBijection
<1> QED
  BY <1>1, <1>6, FS_Bijection

(* What a worker has claimed is stored. *)
LEMMA ClaimsAreStored ==
  ASSUME PoolInv, OwnedInv, NEW w \in Workers, NEW n \in claimed[w]
  PROVE  /\ n \in Objects /\ n # 0 /\ players[n].state = "claimed" /\ players[n].id \in Ids
         /\ primary[players[n].id] = n
<1>1. n \in Objects /\ players[n].state = "claimed"
  BY DEF PoolInv, StoresInv, ClaimsInv
<1>2. n # 0 /\ players[n].id \in Ids
  BY <1>1, KeysFacts DEF PoolInv
<1>3. primary[players[n].id] = n
  BY <1>1, ReachedAreStored DEF Gone
<1> QED
  BY <1>1, <1>2, <1>3

(* A step of a thread that is not marking takes nobody. *)
LEMMA TakenStays ==
  ASSUME Types, NEW t \in Threads, NEW q, pc' = [pc EXCEPT ![t] = q], claimed' = claimed,
         t \in Clients \/ (pc[t] # "marking" /\ q # "marking") \/ claimed[t] = {}
  PROVE  \A n : Taken(n)' <=> Taken(n)
BY ThreadKinds DEF Taken, Types

LEMMA QueuedStays ==
  ASSUME PoolInv, primary' = primary, \A n \in Objects : Spoken(n)' <=> Spoken(n)
  PROVE  Queued' = Queued
<1>1. \A i \in Ids : primary[i] # 0 => primary[i] \in Objects
  BY DEF PoolInv, StoresInv
<1>2. ASSUME NEW i \in Ids PROVE i \in Queued' <=> i \in Queued
  <2>1. PICK n : n = primary[i]
    OBVIOUS
  <2>2. n # 0 => (Spoken(n)' <=> Spoken(n))
    BY <1>1, <2>1
  <2>3. Spoken(primary[i])' <=> Spoken(n)'
    BY <2>1 DEF Spoken, Taken
  <2> QED
    BY <2>1, <2>2, <2>3 DEF Queued
<1> QED
  BY <1>2 DEF Queued

(* Who is queued and who joins, quits or matches, after each action that    *)
(* makes a difference to it.                                                *)
LEMMA InsertCounts ==
  ASSUME PoolInv, OwnedInv, NEW c \in Clients, InsertPrimary(c)
  PROVE  /\ asked[c] \notin Queued /\ Queued' = Queued \cup {asked[c]}
         /\ c \notin Joining /\ Joining' = Joining \cup {c}
         /\ Quitting' = Quitting /\ Matching' = Matching
<1>0. Types /\ c \in Threads /\ c \notin Workers /\ pc[c] = "ins_primary" /\ players' = players
      /\ claimed' = claimed
  BY TypesSplit, ThreadKinds DEF PoolInv, InsertPrimary, claimVars
<1>1. /\ asked[c] \in Ids /\ cur[c] # 0 /\ primary[asked[c]] = 0
      /\ players[cur[c]].state = "waiting"
  BY <1>0, ClientHolds DEF Holding, OwnedInv, FreeInv, PoolInv, FreshInv
<1>2. /\ primary'[asked[c]] = cur[c]
      /\ \A i \in Ids : i # asked[c] => primary'[i] = primary[i]
  BY InsertPrimaryFacts
<1>3. pc' = [pc EXCEPT ![c] = "ins_index"]
  BY DEF InsertPrimary, Goto
<1>4. asked[c] \notin Queued /\ Queued' = Queued \cup {asked[c]}
  <2>1. \A w \in Workers : pc'[w] = "marking" <=> pc[w] = "marking"
    BY <1>0, <1>3, ThreadKinds DEF Types
  <2>2. \A w \in Workers : cur[c] \notin claimed[w]
    BY <1>1 DEF PoolInv, ClaimsInv
  <2>3. ASSUME NEW i \in Ids PROVE i \in Queued' <=> i \in Queued \cup {asked[c]}
    <3>1. CASE i = asked[c]
      BY <1>0, <1>1, <1>2, <2>2, <3>1 DEF Queued, Spoken, Taken
    <3>2. CASE i # asked[c]
      BY <1>0, <1>2, <2>1, <3>2 DEF Queued, Spoken, Taken
    <3> QED
      BY <3>1, <3>2
  <2>4. Queued' \subseteq Ids /\ Queued \subseteq Ids /\ asked[c] \in Ids /\ asked[c] \notin Queued
    BY <1>1 DEF Queued
  <2> QED
    BY <2>3, <2>4
<1>5. c \notin Joining /\ Joining' = Joining \cup {c}
  BY <1>0, <1>3, ThreadKinds DEF Joining, Types
<1>6. Quitting' = Quitting
  BY <1>0, <1>3, ThreadKinds DEF Quitting, Types
<1>7. Matching' = Matching
  BY <1>0, <1>3, ThreadKinds DEF Matching, MatchPCs, Types
<1> QED
  BY <1>4, <1>5, <1>6, <1>7

LEMMA IncCounts ==
  ASSUME PoolInv, NEW c \in Clients, GaugeInc(c)
  PROVE  /\ c \in Joining /\ Joining' = Joining \ {c}
         /\ Queued' = Queued /\ Quitting' = Quitting /\ Matching' = Matching
<1>0. Types /\ c \in Threads /\ c \notin Workers /\ pc[c] = "gauge_inc"
  BY TypesSplit, ThreadKinds DEF PoolInv, GaugeInc
<1>1. /\ pc' = [pc EXCEPT ![c] = "idle"] /\ players' = players /\ primary' = primary
      /\ claimed' = claimed
  BY DEF GaugeInc, Answer, Goto, claimVars
<1>2. c \in Joining /\ Joining' = Joining \ {c}
  BY <1>0, <1>1, ThreadKinds DEF Joining, Types
<1>3. Quitting' = Quitting
  BY <1>0, <1>1, ThreadKinds DEF Quitting, Types
<1>4. Matching' = Matching
  BY <1>0, <1>1, ThreadKinds DEF Matching, MatchPCs, Types
<1>5. Queued' = Queued
  <2>1. \A n : Taken(n)' <=> Taken(n)
    BY <1>0, <1>1, TakenStays
  <2>2. \A n : Spoken(n)' <=> Spoken(n)
    BY <1>1, <2>1 DEF Spoken
  <2> QED
    BY <1>1, <2>2, QueuedStays
<1> QED
  BY <1>2, <1>3, <1>4, <1>5

LEMMA RemoveCounts ==
  ASSUME PoolInv, OwnedInv, NEW t \in Threads, RemovePrimary(t)
  PROVE  /\ Joining' = Joining /\ Matching' = Matching
         /\ t \in Clients => /\ players[cur[t]].id \in Queued
                             /\ Queued' = Queued \ {players[cur[t]].id}
                             /\ t \notin Quitting /\ Quitting' = Quitting \cup {t}
         /\ t \in Workers => Queued' = Queued /\ Quitting' = Quitting
<1> DEFINE i == players[cur[t]].id
<1>0. Types /\ players' = players /\ pc[t] = "rm_primary" /\ pc' = [pc EXCEPT ![t] = "rm_index"]
      /\ claimed' = claimed
  BY TypesSplit DEF PoolInv, RemovePrimary, Goto, claimVars
<1>1. /\ i \in Ids /\ primary[i] = cur[t] /\ cur[t] # 0 /\ primary'[i] = 0
      /\ players[cur[t]].state = IF t \in Clients THEN "evicted" ELSE "matched"
      /\ \A j \in Ids : j # i => primary'[j] = primary[j]
  BY RemovePrimaryFacts DEF RemovePrimary
<1> HIDE DEF i
<1>2. Joining' = Joining
  BY <1>0, ThreadKinds DEF Joining, Types
<1>3. Matching' = Matching
  BY <1>0, ThreadKinds DEF Matching, MatchPCs, Types
<1>3a. \A w \in Workers : pc'[w] = "marking" <=> pc[w] = "marking"
  BY <1>0, ThreadKinds DEF Types
<1>3b. t \in Clients => \A w \in Workers : cur[t] \notin claimed[w]
  BY <1>1 DEF PoolInv, ClaimsInv
<1>4. t \in Clients => i \in Queued /\ Queued' = Queued \ {i}
  BY <1>0, <1>1, <1>3a, <1>3b DEF Queued, Spoken, Taken
<1>5. t \in Workers => Queued' = Queued
  BY <1>0, <1>1, <1>3a, ThreadKinds DEF Queued, Spoken, Taken
<1>6. t \in Clients => t \notin Quitting /\ Quitting' = Quitting \cup {t}
  BY <1>0, ThreadKinds DEF Quitting, Types
<1>7. t \in Workers => Quitting' = Quitting
  BY <1>0, ThreadKinds DEF Quitting, Types
<1> QED
  BY <1>2, <1>3, <1>4, <1>5, <1>6, <1>7 DEF i

LEMMA DecCounts ==
  ASSUME PoolInv, NEW t \in Threads, GaugeDec(t)
  PROVE  /\ Queued' = Queued /\ Joining' = Joining
         /\ t \in Clients => /\ t \in Quitting /\ Quitting' = Quitting \ {t}
                             /\ Matching' = Matching
         /\ t \in Workers => /\ t \in Matching /\ Matching' = Matching \ {t}
                             /\ Quitting' = Quitting
<1>0. /\ Types /\ players' = players /\ primary' = primary /\ pc[t] = "gauge_dec"
      /\ pc' = [pc EXCEPT ![t] = "idle"] /\ claimed' = claimed
  BY TypesSplit DEF PoolInv, GaugeDec, Finish, Answer, Goto, claimVars
<1>1. Queued' = Queued
  <2>1. \A n : Taken(n)' <=> Taken(n)
    BY <1>0, TakenStays
  <2>2. \A n : Spoken(n)' <=> Spoken(n)
    BY <1>0, <2>1 DEF Spoken
  <2> QED
    BY <1>0, <2>2, QueuedStays
<1>2. Joining' = Joining
  BY <1>0, ThreadKinds DEF Joining, Types
<1>3. t \in Clients => t \in Quitting /\ Quitting' = Quitting \ {t}
  BY <1>0, ThreadKinds DEF Quitting, Types
<1>4. t \in Clients => Matching' = Matching
  BY <1>0, ThreadKinds DEF Matching, MatchPCs, Types
<1>5. t \in Workers => t \in Matching /\ Matching' = Matching \ {t}
  BY <1>0, ThreadKinds DEF Matching, MatchPCs, Types
<1>6. t \in Workers => Quitting' = Quitting
  BY <1>0, ThreadKinds DEF Quitting, Types
<1> QED
  BY <1>1, <1>2, <1>3, <1>4, <1>5, <1>6

(* The players of a match, when it begins or is given up by a panic. *)
LEMMA BeginCounts ==
  ASSUME PoolInv, OwnedInv, NEW w \in Workers, BeginMatch(w)
  PROVE  /\ Joining' = Joining /\ Quitting' = Quitting
         /\ w \notin Matching /\ Matching' = Matching \cup {w}
         /\ \E M \in SUBSET Queued : Cardinality(M) = MATCH_SIZE /\ Queued' = Queued \ M
<1>0. /\ Types /\ pc[w] = "claiming" /\ pc' = [pc EXCEPT ![w] = "marking"] /\ primary' = primary
      /\ players' = players /\ claimed' = claimed /\ Cardinality(claimed[w]) = MATCH_SIZE
      /\ w \in Threads /\ w \notin Clients
  BY TypesSplit, ThreadKinds DEF PoolInv, BeginMatch, Goto
<1>1. Joining' = Joining
  BY <1>0, ThreadKinds DEF Joining, Types
<1>2. Quitting' = Quitting
  BY <1>0, ThreadKinds DEF Quitting, Types
<1>3. w \notin Matching /\ Matching' = Matching \cup {w}
  BY <1>0, ThreadKinds DEF Matching, MatchPCs, Types
<1> DEFINE S == claimed[w]
<1>4. \A n \in S : /\ n \in Objects /\ n # 0 /\ players[n].state = "claimed"
                    /\ players[n].id \in Ids /\ primary[players[n].id] = n
  BY ClaimsAreStored
<1>5. Cardinality(IdsOf(S)) = MATCH_SIZE
  BY <1>0, <1>4, MatchedIds
<1>6. \A n \in S : \A v \in Workers : n \in claimed[v] => v = w
  BY DEF PoolInv, ClaimsInv
<1>7. \A v \in Workers : pc'[v] = "marking" <=> (pc[v] = "marking" \/ v = w)
  BY <1>0, ThreadKinds DEF Types
<1>8. IdsOf(S) \in SUBSET Queued
  <2> SUFFICES ASSUME NEW n \in S PROVE players[n].id \in Queued
    BY DEF IdsOf
  <2> QED
    BY <1>0, <1>4, <1>6 DEF Queued, Spoken, Taken
<1>9. ASSUME NEW i \in Ids PROVE i \in Queued' <=> i \in Queued \ IdsOf(S)
  <2>1. CASE primary[i] = 0
    BY <1>0, <2>1 DEF Queued
  <2>2. CASE primary[i] # 0
    <3>1. primary[i] \in Objects /\ players[primary[i]].id = i
      BY <2>2 DEF PoolInv, StoresInv
    <3>2. primary[i] \in S <=> i \in IdsOf(S)
      BY <1>4, <3>1 DEF IdsOf
    <3> QED
      BY <1>0, <1>7, <2>2, <3>2 DEF Queued, Spoken, Taken
  <2> QED
    BY <2>1, <2>2
<1>10. Queued' = Queued \ IdsOf(S)
  <2>1. Queued' \subseteq Ids /\ Queued \subseteq Ids
    BY DEF Queued
  <2> QED
    BY <1>9, <2>1
<1> QED
  BY <1>1, <1>2, <1>3, <1>5, <1>8, <1>10

LEMMA PanicCounts ==
  ASSUME PoolInv, OwnedInv, NEW w \in Workers, Panic(w), pc'[w] # "abandoned"
  PROVE  /\ Joining' = Joining /\ Quitting' = Quitting
         /\ w \in Matching /\ Matching' = Matching \ {w}
         /\ \E M \in SUBSET Queued' : Cardinality(M) = MATCH_SIZE /\ Queued = Queued' \ M
<1>0. /\ Types /\ primary' = primary /\ players' = players /\ w \in Threads /\ w \notin Clients
      /\ claimed' = [claimed EXCEPT ![w] = {}]
  BY TypesSplit, ThreadKinds DEF PoolInv, Panic
<1>1. pc[w] = "marking" /\ batch[w] = {} /\ pc' = [pc EXCEPT ![w] = "dead"]
  BY <1>0 DEF Panic, Goto, Types
<1>2. Joining' = Joining
  BY <1>0, <1>1, ThreadKinds DEF Joining, Types
<1>3. Quitting' = Quitting
  BY <1>0, <1>1, ThreadKinds DEF Quitting, Types
<1>4. w \in Matching /\ Matching' = Matching \ {w}
  BY <1>0, <1>1, ThreadKinds DEF Matching, MatchPCs, Types
<1> DEFINE S == claimed[w]
<1>5. \A n \in S : /\ n \in Objects /\ n # 0 /\ players[n].state = "claimed"
                    /\ players[n].id \in Ids /\ primary[players[n].id] = n
  BY ClaimsAreStored
<1>6. Cardinality(S) = MATCH_SIZE
  BY <1>1 DEF PoolInv, WorkersInv
<1>7. Cardinality(IdsOf(S)) = MATCH_SIZE
  BY <1>5, <1>6, MatchedIds
<1>8. \A n \in S : \A v \in Workers : n \in claimed[v] => v = w
  BY DEF PoolInv, ClaimsInv
<1>9. \A v \in Workers : (pc'[v] = "marking") <=> (pc[v] = "marking" /\ v # w)
  BY <1>0, <1>1, ThreadKinds DEF Types
<1>9a. \A v \in Workers : v # w => claimed'[v] = claimed[v]
  BY <1>0 DEF Types
<1>10. IdsOf(S) \in SUBSET Queued'
  <2> SUFFICES ASSUME NEW n \in S PROVE players[n].id \in Queued'
    BY DEF IdsOf
  <2>1. PICK i \in Ids : i = players[n].id
    BY <1>5
  <2>2. primary'[i] = n /\ n # 0 /\ players'[n].state # "matched"
    BY <1>0, <1>5, <2>1
  <2>3. \A v \in Workers : ~(pc'[v] = "marking" /\ n \in claimed'[v])
    BY <1>8, <1>9, <1>9a
  <2> QED
    BY <2>1, <2>2, <2>3 DEF Queued, Spoken, Taken
<1>11. ASSUME NEW i \in Ids PROVE i \in Queued <=> i \in Queued' \ IdsOf(S)
  <2>1. CASE primary[i] = 0
    BY <1>0, <2>1 DEF Queued
  <2>2. CASE primary[i] # 0
    <3>1. primary[i] \in Objects /\ players[primary[i]].id = i
      BY <2>2 DEF PoolInv, StoresInv
    <3>2. primary[i] \in S <=> i \in IdsOf(S)
      BY <1>5, <3>1 DEF IdsOf
    <3> QED
      BY <1>0, <1>1, <1>9, <1>9a, <2>2, <3>2 DEF Queued, Spoken, Taken
  <2> QED
    BY <2>1, <2>2
<1>12. Queued = Queued' \ IdsOf(S)
  <2>1. Queued' \subseteq Ids /\ Queued \subseteq Ids
    BY DEF Queued
  <2> QED
    BY <1>11, <2>1
<1> QED
  BY <1>2, <1>3, <1>4, <1>7, <1>10, <1>12

(* Thread t goes to q without joining, quitting or matching for it. *)
Keeps(t, q) ==
    /\ pc' = [pc EXCEPT ![t] = q]
    /\ t \in Clients =>
          /\ pc[t] \in {"ins_index", "gauge_inc"} <=> q \in {"ins_index", "gauge_inc"}
          /\ pc[t] \in {"rm_index", "gauge_dec"} <=> q \in {"rm_index", "gauge_dec"}
    /\ t \in Workers => (pc[t] \in MatchPCs <=> q \in MatchPCs)

(* A mark only makes matched who was taken, and nobody else takes part. *)
LEMMA SpokenStays ==
  ASSUME PoolInv, OwnedInv, [Next]_vars,
         \A c \in Clients : ~InsertPrimary(c) /\ ~GaugeInc(c),
         \A w \in Workers : ~BeginMatch(w) /\ ~Panic(w),
         \A t \in Threads : ~RemovePrimary(t) /\ ~GaugeDec(t)
  PROVE  \A n \in Objects : Spoken(n)' <=> Spoken(n)
<1>0. PoolTypeOK /\ Types /\ StoresInv /\ ClientsInv /\ WorkersInv /\ ClaimsInv
  BY TypesSplit DEF PoolInv
<1>1. ASSUME NEW w \in Workers, Mark(w), NEW n \in Objects PROVE Spoken(n)' <=> Spoken(n)
  <2>1. PICK m \in Objects :
           /\ m \in claimed[w] /\ players[m].state = "claimed" /\ Changed({m}, "matched")
           /\ claimed' = [claimed EXCEPT ![w] = claimed[w] \ {m}] /\ pc[w] = "marking"
    BY <1>0, <1>1, MarkFacts
  <2>2. pc' = pc
    BY <1>1 DEF Mark
  <2>3. CASE n = m
    BY <2>1, <2>3 DEF Spoken, Taken, Changed
  <2>4. CASE n # m
    <3>1. \A v \in Workers : n \in claimed'[v] <=> n \in claimed[v]
      BY <1>0, <2>1, <2>4 DEF Types
    <3> QED
      BY <2>1, <2>2, <2>4, <3>1 DEF Spoken, Taken, Changed
  <2> QED
    BY <2>3, <2>4
<1>2. ASSUME NEW w \in Workers, Claim(w) \/ Release(w), NEW n \in Objects
      PROVE  Spoken(n)' <=> Spoken(n)
  <2>1. PICK m \in Objects, z \in {"waiting", "claimed"}, T \in SUBSET Nat :
           /\ players[m].state # "matched" /\ Changed({m}, z)
           /\ claimed' = [claimed EXCEPT ![w] = T]
    <3>1. \A m \in Objects : claimed[w] \cup {m} \in SUBSET Nat /\ claimed[w] \ {m} \in SUBSET Nat
      BY <1>0, KeysFacts DEF Types
    <3>2. CASE Claim(w)
      BY <1>0, <3>1, <3>2, ClaimFacts
    <3>3. CASE Release(w)
      BY <1>0, <3>1, <3>3, ReleaseFacts
    <3> QED
      BY <1>2, <3>2, <3>3
  <2>2. pc' = pc /\ pc[w] = "claiming"
    BY <1>2 DEF Claim, Try, Release
  <2>3. \A v \in Workers : pc[v] = "marking" => claimed'[v] = claimed[v]
    BY <1>0, <2>1, <2>2 DEF Types
  <2>4. players'[n].state = "matched" <=> players[n].state = "matched"
    BY <2>1 DEF Changed
  <2> QED
    BY <2>2, <2>3, <2>4 DEF Spoken, Taken
<1>3. ASSUME \A w \in Workers : ~Claim(w) /\ ~Release(w) /\ ~Mark(w)
      PROVE  \A n \in Objects : Spoken(n)' <=> Spoken(n)
  <2>1. claimed' = claimed
    BY <1>3, ClaimsChange DEF Scan, ClaimFails
  <2>2. ASSUME NEW n \in Objects
        PROVE  players'[n].state = "matched" <=> players[n].state = "matched"
    <3>1. CASE \E c \in Clients, i \in Ids, r \in Ratings : Enqueue(c, i, r)
      BY <1>0, <3>1, EnqueueFacts
    <3>2. CASE \E c \in Clients : Evict(c)
      BY <1>0, <3>2, EvictFacts DEF Changed, Evict
    <3>3. CASE ResetStale
      BY <1>0, <3>3, ResetFacts DEF Changed
    <3> QED
      BY <1>3, <3>1, <3>2, <3>3, PlayersChange
  <2>3. ASSUME NEW w \in Workers, claimed[w] # {} PROVE pc'[w] = "marking" <=> pc[w] = "marking"
    <3>0. w \in Threads /\ w \notin Clients
      BY ThreadKinds
    <3>1. CASE Rest
      BY <3>1 DEF Rest
    <3>2. ASSUME NEW t \in Threads, Step(t), t # w PROVE pc'[w] = pc[w]
      BY <1>0, <3>0, <3>2, OthersStay
    <3>3. CASE Scan(w) \/ ClaimFails(w)
      BY <1>0, <3>0, <3>3 DEF Types, Scan, ClaimFails, Try, Goto
    <3>4. ~GiveUp(w) /\ ~AllMarked(w)
      BY <2>3 DEF GiveUp, AllMarked
    <3>5. CASE NextToRemove(w) \/ AllRemoved(w) \/ RemoveAbsent(w) \/ RemoveIndex(w)
      BY <1>0, <3>0, <3>5
         DEF Types, NextToRemove, AllRemoved, RemoveAbsent, RemoveIndex, LeaveRemove, Goto
    <3>6. CASE Step(w)
      BY <1>3, <3>0, <3>3, <3>4, <3>5, <3>6 DEF Step, WorkerStep, RemoveStep
    <3> QED
      BY <3>1, <3>2, <3>6, StepsAre
  <2> QED
    BY <2>1, <2>2, <2>3 DEF Spoken, Taken
<1> QED
  BY <1>1, <1>2, <1>3

(* Every other step leaves the four sets and the gauge as they are. *)
LEMMA OtherCounts ==
  ASSUME PoolInv, OwnedInv, [Next]_vars,
         \A c \in Clients : ~InsertPrimary(c) /\ ~GaugeInc(c),
         \A w \in Workers : ~BeginMatch(w) /\ ~Panic(w),
         \A t \in Threads : ~RemovePrimary(t) /\ ~GaugeDec(t)
  PROVE  /\ Queued' = Queued /\ Joining' = Joining /\ Quitting' = Quitting
         /\ Matching' = Matching /\ current_queue_size' = current_queue_size
<1>0. PoolTypeOK /\ Types /\ StoresInv /\ ClientsInv /\ WorkersInv
  BY TypesSplit DEF PoolInv
<1>1. primary' = primary
  BY PrimaryChanges
<1>2. Queued' = Queued
  BY <1>1, SpokenStays, QueuedStays
<1>3. current_queue_size' = current_queue_size
  BY DEF Next, ClientStep, WorkerStep, RemoveStep, Enqueue, EnqueueRefused, InsertIndex,
         CancelUnknown, CancelGet, Evict, EvictRefused, Refuse, Scan, Claim, ClaimFails, Try,
         Release, GiveUp, Mark, AllMarked, ResetStale, NextToRemove, AllRemoved,
         RemoveAbsent, RemoveIndex, vars
<1>4. ASSUME NEW t \in Threads PROVE ~RemoveAbsent(t)
  <2> SUFFICES ASSUME RemoveAbsent(t) PROVE FALSE
    OBVIOUS
  <2>1. cur[t] \in Objects
    BY <1>0 DEF RemoveAbsent, StoresInv
  <2>2. cur[t] \in Removing(t)
    BY <2>1 DEF RemoveAbsent, Removing
  <2> QED
    BY <2>2 DEF RemoveAbsent, OwnedInv, RemovingInv
<1>5. UNCHANGED pc \/ \E t \in Threads : \E q : Keeps(t, q)
  <2>1. ASSUME NEW c \in Clients, ClientStep(c) PROVE \E q : Keeps(c, q)
    <3>1. c \notin Workers
      BY ThreadKinds
    <3>2. (\E i \in Ids, r \in Ratings : Enqueue(c, i, r)) => Keeps(c, "ins_primary")
      BY <3>1 DEF Enqueue, Ask, Goto, Keeps
    <3>3. /\ (\E i \in Ids : EnqueueRefused(c, i)) => Keeps(c, "already_queued")
          /\ (\E i \in Ids : CancelUnknown(c, i)) => Keeps(c, "not_found")
          /\ (\E i \in Ids : CancelGet(c, i)) => Keeps(c, "evict")
      BY <3>1 DEF EnqueueRefused, CancelUnknown, CancelGet, Ask, Goto, Keeps
    <3>4. /\ InsertIndex(c) => Keeps(c, "gauge_inc")
          /\ Evict(c) => Keeps(c, "rm_primary")
          /\ EvictRefused(c) => Keeps(c, "being_matched")
          /\ Refuse(c) => Keeps(c, "idle")
      BY <3>1 DEF InsertIndex, Evict, EvictRefused, Refuse, Answer, Goto, Keeps
    <3> QED
      BY <2>1, <3>2, <3>3, <3>4 DEF ClientStep
  <2>2. ASSUME NEW w \in Workers, WorkerStep(w) PROVE UNCHANGED pc \/ \E q : Keeps(w, q)
    <3>1. w \notin Clients
      BY ThreadKinds
    <3>2. /\ Scan(w) => Keeps(w, "claiming")
          /\ GiveUp(w) => Keeps(w, "idle")
          /\ AllMarked(w) => Keeps(w, "rm_primary")
          /\ AllRemoved(w) => Keeps(w, "gauge_dec")
      BY <3>1 DEF Scan, GiveUp, AllMarked, AllRemoved, Goto, Keeps, MatchPCs
    <3> QED
      BY <2>2, <3>2 DEF WorkerStep, Claim, ClaimFails, Try, Release, Mark, NextToRemove
  <2>3. ASSUME NEW t \in Threads, RemoveStep(t) PROVE \E q : Keeps(t, q)
    <3>1. t \in Clients => t \notin Workers
      BY ThreadKinds
    <3>2. RemoveIndex(t) /\ t \in Clients => Keeps(t, "gauge_dec")
      BY <3>1 DEF RemoveIndex, LeaveRemove, Goto, Keeps
    <3>3. RemoveIndex(t) /\ t \notin Clients => Keeps(t, "rm_primary")
      BY DEF RemoveIndex, LeaveRemove, Goto, Keeps, MatchPCs
    <3> QED
      BY <1>4, <2>3, <3>2, <3>3 DEF RemoveStep
  <2> QED
    BY <2>1, <2>2, <2>3, ThreadKinds DEF Next, ResetStale, vars
<1>6. Joining' = Joining
  BY <1>0, <1>5, ThreadKinds DEF Joining, Keeps, Types
<1>7. Quitting' = Quitting
  BY <1>0, <1>5, ThreadKinds DEF Quitting, Keeps, Types
<1>8. Matching' = Matching
  BY <1>0, <1>5, ThreadKinds DEF Matching, Keeps, Types
<1> QED
  BY <1>2, <1>3, <1>6, <1>7, <1>8

LEMMA GaugeStep ==
  PoolInv /\ OneClientPerId /\ OwnedInv /\ GaugeInv /\ [Next]_vars => GaugeInv'
<1> SUFFICES ASSUME PoolInv, OwnedInv, GaugeInv, [Next]_vars, ~Abandoned' PROVE GaugeInv'
  BY DEF GaugeInv
<1>a. ~Abandoned
  BY DeadStay DEF Abandoned
<1> DEFINE q == Cardinality(Queued)
           j == Cardinality(Joining)
           l == Cardinality(Quitting)
           m == Cardinality(Matching)
           g == current_queue_size
<1>0. /\ q \in Nat /\ j \in Nat /\ l \in Nat /\ m \in Nat /\ MATCH_SIZE \in Nat
      /\ g = q - j + l + MATCH_SIZE * m
      /\ IsFiniteSet(Queued) /\ IsFiniteSet(Joining) /\ IsFiniteSet(Quitting)
      /\ IsFiniteSet(Matching)
  BY <1>a, FiniteParts, PoolSizeAssumption DEF GaugeInv
<1> SUFFICES g' = q' - j' + l' + MATCH_SIZE * m'
  BY DEF GaugeInv
<1>1. ASSUME NEW c \in Clients, InsertPrimary(c)
      PROVE  q' = q + 1 /\ j' = j + 1 /\ l' = l /\ m' = m /\ g' = g
  <2>1. Cardinality(Queued \cup {asked[c]}) = q + 1
    BY <1>0, <1>1, InsertCounts, FS_AddElement
  <2>2. Cardinality(Joining \cup {c}) = j + 1
    BY <1>0, <1>1, InsertCounts, FS_AddElement
  <2> QED
    BY <1>1, <2>1, <2>2, InsertCounts DEF InsertPrimary
<1>2. ASSUME NEW c \in Clients, GaugeInc(c)
      PROVE  q' = q /\ j' = j - 1 /\ l' = l /\ m' = m /\ g' = g + 1
  BY <1>0, <1>2, IncCounts, FS_RemoveElement DEF GaugeInc
<1>3. ASSUME NEW t \in Threads, RemovePrimary(t), t \in Clients
      PROVE  q' = q - 1 /\ j' = j /\ l' = l + 1 /\ m' = m /\ g' = g
  <2>1. /\ players[cur[t]].id \in Queued /\ Queued' = Queued \ {players[cur[t]].id}
        /\ t \notin Quitting /\ Quitting' = Quitting \cup {t}
        /\ Joining' = Joining /\ Matching' = Matching
    BY <1>3, RemoveCounts
  <2>2. Cardinality(Queued \ {players[cur[t]].id}) = q - 1
    BY <1>0, <2>1, FS_RemoveElement
  <2>3. Cardinality(Quitting \cup {t}) = l + 1
    BY <1>0, <2>1, FS_AddElement
  <2> QED
    BY <1>3, <2>1, <2>2, <2>3 DEF RemovePrimary
<1>4. ASSUME NEW t \in Threads, RemovePrimary(t), t \in Workers
      PROVE  q' = q /\ j' = j /\ l' = l /\ m' = m /\ g' = g
  BY <1>4, RemoveCounts DEF RemovePrimary
<1>5. ASSUME NEW t \in Threads, GaugeDec(t), t \in Clients
      PROVE  q' = q /\ j' = j /\ l' = l - 1 /\ m' = m /\ g' = g - 1
  BY <1>0, <1>5, DecCounts, FS_RemoveElement DEF GaugeDec
<1>6. ASSUME NEW t \in Threads, GaugeDec(t), t \in Workers
      PROVE  q' = q /\ j' = j /\ l' = l /\ m' = m - 1 /\ g' = g - MATCH_SIZE
  BY <1>0, <1>6, DecCounts, FS_RemoveElement, ThreadKinds DEF GaugeDec
<1>7. ASSUME NEW w \in Workers, BeginMatch(w)
      PROVE  q' = q - MATCH_SIZE /\ j' = j /\ l' = l /\ m' = m + 1 /\ g' = g
  <2>1. PICK M \in SUBSET Queued : Cardinality(M) = MATCH_SIZE /\ Queued' = Queued \ M
    BY <1>7, BeginCounts
  <2>2. Queued \cap M = M
    OBVIOUS
  <2>3. q' = q - MATCH_SIZE
    BY <1>0, <2>1, <2>2, FS_Difference
  <2>4. m' = m + 1
    BY <1>0, <1>7, BeginCounts, FS_AddElement
  <2> QED
    BY <1>7, <2>3, <2>4, BeginCounts DEF BeginMatch
<1>7a. ASSUME NEW w \in Workers, Panic(w)
       PROVE  q' = q + MATCH_SIZE /\ j' = j /\ l' = l /\ m' = m - 1 /\ g' = g
  <2>0. pc'[w] # "abandoned"
    BY DEF Abandoned
  <2>1. PICK M \in SUBSET Queued' : Cardinality(M) = MATCH_SIZE /\ Queued = Queued' \ M
    BY <1>7a, <2>0, PanicCounts
  <2>2. Queued' \cap M = M /\ IsFiniteSet(Queued') /\ q' \in Nat
    <3>1. Queued' \subseteq Ids
      BY DEF Queued
    <3> QED
      BY <3>1, FinitenessAssumption, FS_Subset, FS_CardinalityType
  <2>3. q = q' - MATCH_SIZE
    BY <2>1, <2>2, FS_Difference
  <2>4. q' = q + MATCH_SIZE
    <3>1. \A x, y \in Nat : x = y - MATCH_SIZE => y = x + MATCH_SIZE
      BY PoolSizeAssumption
    <3> HIDE DEF q
    <3> QED
      BY <1>0, <2>2, <2>3, <3>1, Zenon
  <2>5. m' = m - 1
    BY <1>0, <1>7a, <2>0, PanicCounts, FS_RemoveElement
  <2> QED
    BY <1>7a, <2>0, <2>4, <2>5, PanicCounts DEF Panic
<1>8. ASSUME \A c \in Clients : ~InsertPrimary(c) /\ ~GaugeInc(c),
             \A w \in Workers : ~BeginMatch(w) /\ ~Panic(w),
             \A t \in Threads : ~RemovePrimary(t) /\ ~GaugeDec(t)
      PROVE  q' = q /\ j' = j /\ l' = l /\ m' = m /\ g' = g
  BY <1>8, OtherCounts
<1>9. MATCH_SIZE * (m + 1) = MATCH_SIZE * m + MATCH_SIZE
      /\ MATCH_SIZE * (m - 1) = MATCH_SIZE * m - MATCH_SIZE
      /\ MATCH_SIZE * m \in Nat
  <2> HIDE DEF m
  <2> QED
    BY <1>0
<1> HIDE DEF q, j, l, m, g
<1>10. CASE \E c \in Clients : InsertPrimary(c) \/ GaugeInc(c)
  BY <1>0, <1>1, <1>2, <1>9, <1>10
<1>11. CASE \E t \in Threads : RemovePrimary(t) \/ GaugeDec(t)
  <2>1. \/ q' = q - 1 /\ j' = j /\ l' = l + 1 /\ m' = m /\ g' = g
        \/ q' = q /\ j' = j /\ l' = l /\ m' = m /\ g' = g
        \/ q' = q /\ j' = j /\ l' = l - 1 /\ m' = m /\ g' = g - 1
        \/ q' = q /\ j' = j /\ l' = l /\ m' = m - 1 /\ g' = g - MATCH_SIZE
    BY <1>3, <1>4, <1>5, <1>6, <1>11, ThreadKinds
  <2> QED
    BY <1>0, <1>9, <2>1
<1>12. CASE \E w \in Workers : BeginMatch(w) \/ Panic(w)
  <2>1. \/ q' = q - MATCH_SIZE /\ j' = j /\ l' = l /\ m' = m + 1 /\ g' = g
        \/ q' = q + MATCH_SIZE /\ j' = j /\ l' = l /\ m' = m - 1 /\ g' = g
    BY <1>7, <1>7a, <1>12
  <2> QED
    BY <1>0, <1>9, <2>1
<1>13. CASE q' = q /\ j' = j /\ l' = l /\ m' = m /\ g' = g
  BY <1>0, <1>13
<1> QED
  BY <1>8, <1>10, <1>11, <1>12, <1>13

LEMMA GaugeInitially == Init => GaugeInv
<1> SUFFICES ASSUME Init PROVE GaugeInv
  OBVIOUS
<1>1. Queued = {} /\ Joining = {} /\ Quitting = {} /\ Matching = {}
  BY ThreadKinds DEF Init, Queued, Joining, Quitting, Matching, MatchPCs
<1>2. current_queue_size = 0 /\ Cardinality({}) = 0 /\ MATCH_SIZE * 0 = 0
  BY PoolSizeAssumption, FS_EmptySet DEF Init
<1> QED
  BY <1>1, <1>2 DEF GaugeInv

-----------------------------------------------------------------------------
(* All of it together. *)
IInv == PoolInv /\ (OneClientPerId => OwnedInv /\ EntriesInv /\ GaugeInv)

LEMMA IInvInductive == Spec => []IInv
<1>1. Init => IInv
  BY PoolInitially, OwnedInitially, GaugeInitially DEF IInv, EntriesInv, Init
<1>2. IInv /\ [Next]_vars => IInv'
  <2> SUFFICES ASSUME IInv, [Next]_vars PROVE IInv'
    OBVIOUS
  <2>1. PoolInv /\ PoolInv'
    BY TypeStep, StoresStep, ClientsStep, WorkersStep, FreshStep, LeavingStep, ClaimsStep
    DEF IInv, PoolInv
  <2>2. OneClientPerId' <=> OneClientPerId
    BY AssignmentStays
  <2>3. ASSUME OneClientPerId PROVE OwnedInv' /\ EntriesInv' /\ GaugeInv'
    <3>1. OwnedInv /\ EntriesInv /\ GaugeInv
      BY <2>3 DEF IInv
    <3> QED
      BY <2>1, <2>3, <3>1, OwnedStep, EntriesStep, GaugeStep
  <2> QED
    BY <2>1, <2>2, <2>3 DEF IInv
<1> QED
  BY <1>1, <1>2, PTL DEF Spec

(* No tombstones: when each id has one client, an index entry refers to a   *)
(* stored player or to one that is being removed.                           *)
THEOREM NoTombstones == Spec => []IndexSound
<1>1. IInv => IndexSound
  BY DEF IInv, EntriesInv, IndexSound
<1> QED
  BY <1>1, IInvInductive, PTL

(* When each id has one client and no operation is in flight, nor a match   *)
(* abandoned, the gauge is the number of stored players.                    *)
THEOREM GaugeIsExact == Spec => []GaugeExact
<1>1. IInv => GaugeExact
  <2> SUFFICES ASSUME IInv, OneClientPerId, Quiet
               PROVE  current_queue_size = Cardinality({i \in Ids : primary[i] # 0})
    BY DEF GaugeExact
  <2>1. Joining = {} /\ Quitting = {} /\ Matching = {}
    BY ThreadKinds DEF Quiet, Joining, Quitting, Matching, MatchPCs
  <2>2. QueuedAreWaiting /\ ~Abandoned /\ \A w \in Workers : pc[w] # "marking"
    BY QuietQueue, ThreadKinds DEF IInv, Abandoned, Quiet
  <2>3. Queued = {i \in Ids : primary[i] # 0}
    BY <2>2 DEF QueuedAreWaiting, Queued, Spoken, Taken
  <2>4. Cardinality({}) = 0 /\ MATCH_SIZE * 0 = 0 /\ Cardinality(Queued) \in Nat
    BY PoolSizeAssumption, FS_EmptySet, FiniteParts
  <2>5. current_queue_size = Cardinality(Queued) - 0 + 0 + 0
    BY <2>1, <2>2, <2>4 DEF IInv, GaugeInv
  <2> QED
    BY <2>3, <2>4, <2>5
<1> QED
  BY <1>1, IInvInductive, PTL

-----------------------------------------------------------------------------
(* The handlers implement QueueService.                                     *)

status == [i \in Ids |-> Status(i)]
answer == [c \in Clients |-> Decided(c)]

Said(o, i, k) == [op |-> o, id |-> i, code |-> k]

(* The answer of a client that is at p in a request about i. *)
Verdict(p, i) ==
    CASE p \in {"ins_index", "gauge_inc"} -> Said("enqueue", i, 200)
      [] p = "already_queued" -> Said("enqueue", i, 409)
      [] p \in {"rm_primary", "rm_index", "gauge_dec"} -> Said("cancel", i, 200)
      [] p = "being_matched" -> Said("cancel", i, 409)
      [] p = "not_found" -> Said("cancel", i, 404)
      [] OTHER -> Said("none", 0, 0)

LEMMA DecidedIs ==
  /\ \A c : Decided(c) = Verdict(pc[c], asked[c])
  /\ \A c \in Clients : answer[c] = Verdict(pc[c], asked[c])
  /\ \A c \in Clients : answer'[c] = Verdict(pc'[c], asked'[c])
BY DEF Decided, Verdict, Said, answer

LEMMA Verdicts ==
  ASSUME NEW i
  PROVE  /\ \A p \in {"idle", "ins_primary", "evict"} : Verdict(p, i) = Q!NoAnswer
         /\ \A p \in {"ins_index", "gauge_inc"} : Verdict(p, i) = Said("enqueue", i, 200)
         /\ \A p \in {"rm_primary", "rm_index", "gauge_dec"} : Verdict(p, i) = Said("cancel", i, 200)
         /\ Verdict("already_queued", i) = Said("enqueue", i, 409)
         /\ Verdict("being_matched", i) = Said("cancel", i, 409)
         /\ Verdict("not_found", i) = Said("cancel", i, 404)
BY DEF Verdict, Said, Q!NoAnswer

LEMMA SaidSomething ==
  ASSUME NEW o \in {"enqueue", "cancel"}, NEW i, NEW k PROVE Said(o, i, k) # Q!NoAnswer
BY DEF Said, Q!NoAnswer

(* A client's step changes its own answer only, and a worker's none. *)
LEMMA AnswerChanges ==
  ASSUME PoolInv, NEW t \in Threads, Step(t)
  PROVE  /\ t \in Clients => answer' = [answer EXCEPT ![t] = Verdict(pc'[t], asked'[t])]
         /\ t \in Workers => answer' = answer
<1>1. Types
  BY TypesSplit DEF PoolInv
<1>2. \A c \in Clients : c # t => answer'[c] = answer[c]
  BY <1>1, OthersStay, ThreadKinds, DecidedIs
<1>3. \A c \in Clients : answer'[c] = Verdict(pc'[c], asked'[c])
  BY DecidedIs
<1>4. /\ answer = [c \in Clients |-> answer[c]] /\ DOMAIN answer = Clients
      /\ answer' = [c \in Clients |-> answer'[c]]
  BY DEF answer
<1>5. t \in Workers => t \notin Clients
  BY ThreadKinds
<1> HIDE DEF answer
<1> QED
  BY <1>2, <1>3, <1>4, <1>5

LEMMA AnswerStays ==
  ASSUME PoolInv, NEW t \in Threads, Step(t),
         t \in Clients => Verdict(pc'[t], asked'[t]) = Verdict(pc[t], asked[t])
  PROVE  answer' = answer
<1>1. t \in Clients => answer' = [answer EXCEPT ![t] = answer[t]]
  BY AnswerChanges, DecidedIs
<1>2. DOMAIN answer = Clients /\ answer = [c \in Clients |-> answer[c]]
  BY DEF answer
<1>3. t \in Workers => answer' = answer
  BY AnswerChanges
<1> QED
  BY <1>1, <1>2, <1>3, ThreadKinds

(* The queue of the abstract service. *)
LEMMA StatusIs ==
  /\ \A i \in Ids : status[i] = Status(i) /\ status'[i] = Status(i)'
  /\ DOMAIN status = Ids /\ status = [i \in Ids |-> status[i]]
  /\ DOMAIN status' = Ids /\ status' = [i \in Ids |-> status'[i]]
BY DEF status

LEMMA StatusStays ==
  ASSUME PoolInv, primary' = primary,
         \A n \in Objects : players'[n].state = players[n].state
  PROVE  status' = status
<1>1. ASSUME NEW i \in Ids PROVE Status(i)' = Status(i)
  BY DEF Status, PoolInv, StoresInv
<1>2. \A i \in Ids : status'[i] = status[i]
  BY <1>1, StatusIs
<1> QED
  BY <1>2, StatusIs

LEMMA StatusBecomes ==
  ASSUME NEW i \in Ids, NEW s, Status(i)' = s, \A j \in Ids : j # i => Status(j)' = Status(j)
  PROVE  status' = [status EXCEPT ![i] = s]
<1>1. status'[i] = s /\ \A j \in Ids : j # i => status'[j] = status[j]
  BY StatusIs
<1> QED
  BY <1>1, StatusIs

(* A client's request is decided, as QueueService says it. *)
LEMMA Decides ==
  ASSUME PoolInv, NEW c \in Clients, Step(c), NEW o, NEW i, NEW k,
         pc[c] \in {"idle", "ins_primary", "evict"},
         Verdict(pc'[c], asked'[c]) = Said(o, i, k)
  PROVE  Q!Decide(c, o, i, k)
<1>1. answer' = [answer EXCEPT ![c] = Said(o, i, k)]
  BY AnswerChanges, ThreadKinds
<1>2. answer[c] = Q!NoAnswer
  BY DecidedIs, Verdicts
<1> QED
  BY <1>1, <1>2 DEF Q!Decide, answer, Said

LEMMA Replies ==
  ASSUME PoolInv, NEW c \in Clients, Step(c), pc'[c] = "idle", status' = status,
         pc[c] \in {"gauge_inc", "gauge_dec", "already_queued", "being_matched", "not_found"}
  PROVE  Q!Reply(c)
<1>1. answer' = [answer EXCEPT ![c] = Q!NoAnswer]
  BY AnswerChanges, ThreadKinds, Verdicts
<1>2. answer[c] # Q!NoAnswer
  <2>1. \E o \in {"enqueue", "cancel"} : \E k : Verdict(pc[c], asked[c]) = Said(o, asked[c], k)
    BY Verdicts
  <2> QED
    BY <2>1, DecidedIs, SaidSomething
<1> QED
  BY <1>1, <1>2 DEF Q!Reply, answer, status

(* The step of the service that an action is. *)
Serves == Q!Next \/ (status' = status /\ answer' = answer)

LEMMA EnqueueServes ==
  ASSUME PoolInv, NEW c \in Clients, Step(c), NEW i \in Ids, NEW r \in Ratings, Enqueue(c, i, r)
  PROVE  Serves
<1>0. Types /\ PoolTypeOK /\ c \in Threads
  BY TypesSplit, ThreadKinds DEF PoolInv
<1>1. \A n \in Objects : players'[n] = players[n]
  BY <1>0, EnqueueFacts
<1>2. status' = status
  BY <1>1, StatusStays DEF Enqueue
<1>3. pc[c] = "idle" /\ pc'[c] = "ins_primary"
  BY <1>0 DEF Enqueue, Ask, Goto, Types
<1>4. answer' = answer
  BY <1>0, <1>3, AnswerStays, Verdicts
<1> QED
  BY <1>2, <1>4 DEF Serves

LEMMA RefusalServes ==
  ASSUME PoolInv, NEW c \in Clients, Step(c), NEW i \in Ids,
         EnqueueRefused(c, i) \/ CancelUnknown(c, i) \/ CancelGet(c, i)
  PROVE  Serves
<1>0. Types /\ c \in Threads
  BY TypesSplit, ThreadKinds DEF PoolInv
<1>1. primary' = primary /\ players' = players
  BY DEF EnqueueRefused, CancelUnknown, CancelGet
<1>2. status' = status
  BY <1>1, StatusStays
<1>3. pc[c] = "idle" /\ asked'[c] = i
  BY <1>0 DEF EnqueueRefused, CancelUnknown, CancelGet, Ask, Types
<1>4. CASE EnqueueRefused(c, i)
  <2>1. pc'[c] = "already_queued" /\ Status(i) # "out"
    BY <1>0, <1>4 DEF EnqueueRefused, Goto, Types, Status
  <2>2. Q!Decide(c, "enqueue", i, 409)
    BY <1>3, <2>1, Decides, Verdicts
  <2>3. Q!AlreadyQueued(c, i)
    BY <1>2, <2>1, <2>2 DEF Q!AlreadyQueued, status
  <2> QED
    BY <2>3 DEF Q!Next, Serves
<1>5. CASE CancelUnknown(c, i)
  <2>1. pc'[c] = "not_found" /\ Status(i) = "out"
    BY <1>0, <1>5 DEF CancelUnknown, Goto, Types, Status
  <2>2. Q!Decide(c, "cancel", i, 404)
    BY <1>3, <2>1, Decides, Verdicts
  <2>3. Q!NotFound(c, i)
    BY <1>2, <2>1, <2>2 DEF Q!NotFound, status
  <2> QED
    BY <2>3 DEF Q!Next, Serves
<1>6. CASE CancelGet(c, i)
  <2>1. pc'[c] = "evict"
    BY <1>0, <1>6 DEF CancelGet, Goto, Types
  <2>2. answer' = answer
    BY <1>0, <1>3, <2>1, AnswerStays, Verdicts
  <2> QED
    BY <1>2, <2>2 DEF Serves
<1> QED
  BY <1>4, <1>5, <1>6

LEMMA InsertServes ==
  ASSUME PoolInv, OwnedInv, NEW c \in Clients, Step(c), InsertPrimary(c)
  PROVE  Serves
<1>0. Types /\ c \in Threads /\ pc[c] = "ins_primary" /\ players' = players /\ asked' = asked
  BY TypesSplit, ThreadKinds DEF PoolInv, InsertPrimary
<1>1. /\ asked[c] \in Ids /\ cur[c] # 0 /\ primary[asked[c]] = 0
      /\ players[cur[c]].state = "waiting"
  BY <1>0, ClientHolds DEF Holding, OwnedInv, FreeInv, PoolInv, FreshInv
<1>2. /\ primary'[asked[c]] = cur[c]
      /\ \A i \in Ids : i # asked[c] => primary'[i] = primary[i]
  BY InsertPrimaryFacts
<1>3. /\ Status(asked[c]) = "out"
      /\ \A i \in Ids : i # asked[c] => Status(i)' = Status(i)
  BY <1>0, <1>1, <1>2 DEF Status
<1> DEFINE i == asked[c]
<1>4. i \in Ids /\ primary'[i] # 0 /\ players'[primary'[i]].state = "waiting"
  BY <1>0, <1>1, <1>2
<1>5. pc'[c] = "ins_index" /\ asked'[c] = i
  BY <1>0 DEF InsertPrimary, Goto, Types
<1>6. Q!Decide(c, "enqueue", i, 200)
  BY <1>0, <1>5, Decides, Verdicts
<1>7. status' = [status EXCEPT ![i] = "queued"]
  <2>1. status[i] = "out" /\ status'[i] = "queued"
    BY <1>0, <1>1, <1>2, <1>3 DEF status, Status
  <2>2. \A j \in Ids : j # i => status'[j] = status[j]
    BY <1>0, <1>2, <1>3, StatusIs DEF Status
  <2> QED
    BY <1>4, <2>1, <2>2, StatusIs
<1>8. Q!Join(c, i)
  BY <1>3, <1>4, <1>6, <1>7 DEF Q!Join, Q!Become, status
<1> QED
  BY <1>4, <1>8 DEF Q!Next, Serves

LEMMA CountServes ==
  ASSUME PoolInv, NEW c \in Clients, Step(c), InsertIndex(c) \/ GaugeInc(c) \/ Refuse(c)
  PROVE  Serves
<1>0. Types /\ c \in Threads /\ primary' = primary /\ players' = players
  BY TypesSplit, ThreadKinds DEF PoolInv, InsertIndex, GaugeInc, Refuse
<1>1. status' = status
  BY <1>0, StatusStays
<1>2. CASE InsertIndex(c)
  <2>1. pc[c] = "ins_index" /\ pc'[c] = "gauge_inc" /\ asked' = asked
    BY <1>0, <1>2 DEF InsertIndex, Goto, Types
  <2>2. answer' = answer
    BY <1>0, <2>1, AnswerStays, Verdicts
  <2> QED
    BY <1>1, <2>2 DEF Serves
<1>3. CASE GaugeInc(c) \/ Refuse(c)
  <2>1. /\ pc[c] \in {"gauge_inc", "already_queued", "being_matched", "not_found"}
        /\ pc'[c] = "idle"
    BY <1>0, <1>3 DEF GaugeInc, Refuse, Answer, Goto, Types
  <2>2. Q!Reply(c)
    BY <1>1, <2>1, Replies
  <2> QED
    BY <2>2 DEF Q!Next, Serves
<1> QED
  BY <1>2, <1>3

LEMMA EvictServes ==
  ASSUME PoolInv, OwnedInv, NEW c \in Clients, Step(c), Evict(c)
  PROVE  Serves
<1>0. /\ Types /\ c \in Threads /\ pc[c] = "evict" /\ primary' = primary /\ asked' = asked
      /\ players[cur[c]].state = "waiting"
  BY TypesSplit, ThreadKinds DEF PoolInv, Evict
<1>1. cur[c] \in Objects /\ cur[c] # 0 /\ players[cur[c]].id = asked[c] /\ asked[c] \in Ids
  BY <1>0, ClientHolds DEF Holding
<1>2. PICK i \in Ids : i = asked[c]
  BY <1>1
<1>3. primary[i] = cur[c]
  BY <1>0, <1>1, <1>2, ReachedAreStored DEF Gone
<1>4. Changed({cur[c]}, "evicted")
  BY EvictFacts DEF PoolInv
<1>5. Status(i) = "queued" /\ Status(i)' = "leaving"
  BY <1>0, <1>1, <1>3, <1>4 DEF Status, Changed
<1>6. ASSUME NEW j \in Ids, j # i PROVE Status(j)' = Status(j)
  <2>1. primary[j] # 0 => primary[j] \in Objects /\ primary[j] # cur[c]
    BY <1>1, <1>2, <1>6 DEF PoolInv, StoresInv
  <2> QED
    BY <1>0, <1>4, <2>1 DEF Status, Changed
<1>7. status' = [status EXCEPT ![i] = "leaving"]
  BY <1>5, <1>6, StatusBecomes
<1>8. pc'[c] = "rm_primary" /\ asked'[c] = i
  BY <1>0, <1>2 DEF Evict, Goto, Types
<1>9. Q!Decide(c, "cancel", i, 200)
  BY <1>0, <1>8, Decides, Verdicts
<1>10. Q!Quit(c, i)
  BY <1>5, <1>7, <1>9 DEF Q!Quit, Q!Become, status
<1> QED
  BY <1>10 DEF Q!Next, Serves

LEMMA EvictRefusedServes ==
  ASSUME PoolInv, OwnedInv, NEW c \in Clients, Step(c), EvictRefused(c)
  PROVE  Serves
<1>0. /\ Types /\ c \in Threads /\ pc[c] = "evict" /\ primary' = primary /\ asked' = asked
      /\ players[cur[c]].state # "waiting" /\ players' = players
  BY TypesSplit, ThreadKinds DEF PoolInv, EvictRefused
<1>1. asked[c] \in Ids /\ primary[asked[c]] \in {0, cur[c]}
  BY <1>0, ClientHolds DEF Holding, OwnedInv, GotInv
<1>2. PICK i \in Ids : i = asked[c]
  BY <1>1
<1>3. Status(i) # "queued"
  BY <1>0, <1>1, <1>2 DEF Status
<1>4. status' = status
  BY <1>0, StatusStays
<1>5. pc'[c] = "being_matched" /\ asked'[c] = i
  BY <1>0, <1>2 DEF EvictRefused, Goto, Types
<1>6. Q!Decide(c, "cancel", i, 409)
  BY <1>0, <1>5, Decides, Verdicts
<1>7. Q!BeingMatched(c, i)
  BY <1>3, <1>4, <1>6 DEF Q!BeingMatched, status
<1> QED
  BY <1>7 DEF Q!Next, Serves

(* The state of one stored player changes, as a caller sees it. *)
LEMMA OneChanges ==
  ASSUME PoolInv, NEW n \in Objects, NEW z, Changed({n}, z), primary' = primary,
         primary[players[n].id] = n, NEW i, i = players[n].id
  PROVE  /\ i \in Ids /\ primary[i] = n /\ primary'[i] = n /\ n # 0 /\ players'[n].state = z
         /\ status' = [status EXCEPT ![i] = status'[i]]
<1>1. n # 0 /\ i \in Ids
  BY KeysFacts DEF PoolInv
<1>2. ASSUME NEW j \in Ids, j # i PROVE Status(j)' = Status(j)
  <2>1. primary[j] # 0 => primary[j] \in Objects /\ primary[j] # n
    BY <1>2 DEF PoolInv, StoresInv
  <2> QED
    BY <2>1 DEF Status, Changed
<1>3. \A j \in Ids : j # i => status'[j] = status[j]
  BY <1>2, StatusIs
<1> QED
  BY <1>1, <1>3, StatusIs DEF Changed

LEMMA ClaimServes ==
  ASSUME PoolInv, OwnedInv, NEW w \in Workers, Step(w), Claim(w)
  PROVE  Serves
<1>1. PICK n \in Objects :
         n \in candidates[w] /\ players[n].state = "waiting" /\ Changed({n}, "claimed")
  BY ClaimFacts DEF PoolInv
<1>2. primary' = primary /\ primary[players[n].id] = n
  BY <1>1, ReachedAreStored DEF Gone, Claim, Try
<1>3. PICK i : i = players[n].id
  OBVIOUS
<1>4. /\ i \in Ids /\ primary[i] = n /\ primary'[i] = n /\ n # 0 /\ players'[n].state = "claimed"
      /\ status' = [status EXCEPT ![i] = status'[i]]
  BY <1>1, <1>2, <1>3, OneChanges
<1>5. Status(i) = "queued" /\ Status(i)' = "held"
  BY <1>1, <1>2, <1>4 DEF Status
<1>6. status[i] = "queued" /\ status' = [status EXCEPT ![i] = "held"]
  BY <1>4, <1>5, StatusIs
<1>7. answer' = answer
  BY AnswerChanges, ThreadKinds
<1>8. Q!Hold(i)
  BY <1>6, <1>7 DEF Q!Hold, Q!Move, Q!Become, status, answer
<1> QED
  BY <1>4, <1>8 DEF Q!Next, Serves

(* A rollback or the Reaper lets a held player go. *)
LEMMA LetGoServes ==
  ASSUME PoolInv, OwnedInv, NEW n \in Objects, players[n].state = "claimed",
         Changed({n}, "waiting"), primary' = primary, answer' = answer
  PROVE  Serves
<1>2. primary[players[n].id] = n
  BY ReachedAreStored DEF Gone
<1>3. PICK i : i = players[n].id
  OBVIOUS
<1>4. /\ i \in Ids /\ primary[i] = n /\ primary'[i] = n /\ n # 0 /\ players'[n].state = "waiting"
      /\ status' = [status EXCEPT ![i] = status'[i]]
  BY <1>2, <1>3, OneChanges
<1>5. Status(i) = "held" /\ Status(i)' = "queued"
  BY <1>2, <1>4 DEF Status
<1>6. status[i] = "held" /\ status' = [status EXCEPT ![i] = "queued"]
  BY <1>4, <1>5, StatusIs
<1>8. Q!LetGo(i)
  BY <1>6 DEF Q!LetGo, Q!Move, Q!Become, status, answer
<1> QED
  BY <1>4, <1>8 DEF Q!Next, Serves

LEMMA ReleaseServes ==
  ASSUME PoolInv, OwnedInv, NEW w \in Workers, Step(w), Release(w)
  PROVE  Serves
<1>1. PICK n \in Objects : players[n].state = "claimed" /\ Changed({n}, "waiting")
  BY ReleaseFacts DEF PoolInv
<1>2. primary' = primary
  BY DEF Release
<1>3. answer' = answer
  BY AnswerChanges, ThreadKinds
<1> QED
  BY <1>1, <1>2, <1>3, LetGoServes

LEMMA ResetServes == ASSUME PoolInv, OwnedInv, ResetStale PROVE Serves
<1>1. PICK n \in Objects : players[n].state = "claimed" /\ Changed({n}, "waiting")
  BY ResetFacts DEF PoolInv
<1>2. primary' = primary /\ asked' = asked /\ pc' = pc
  BY DEF ResetStale
<1>3. answer' = answer
  BY <1>2 DEF answer, Decided
<1> QED
  BY <1>1, <1>2, <1>3, LetGoServes

LEMMA MarkServes ==
  ASSUME PoolInv, OwnedInv, NEW w \in Workers, Step(w), Mark(w)
  PROVE  Serves
<1>1. PICK n \in Objects :
         n \in claimed[w] /\ players[n].state = "claimed" /\ Changed({n}, "matched")
  BY MarkFacts DEF PoolInv
<1>2. primary' = primary /\ primary[players[n].id] = n
  BY <1>1, ReachedAreStored DEF Gone, Mark
<1>3. PICK i : i = players[n].id
  OBVIOUS
<1>4. /\ i \in Ids /\ primary[i] = n /\ primary'[i] = n /\ n # 0 /\ players'[n].state = "matched"
      /\ status' = [status EXCEPT ![i] = status'[i]]
  BY <1>1, <1>2, <1>3, OneChanges
<1>5. Status(i) = "held" /\ Status(i)' = "leaving"
  BY <1>1, <1>2, <1>4 DEF Status
<1>6. status[i] = "held" /\ status' = [status EXCEPT ![i] = "leaving"]
  BY <1>4, <1>5, StatusIs
<1>7. answer' = answer
  BY AnswerChanges, ThreadKinds
<1>8. Q!Match(i)
  BY <1>6, <1>7 DEF Q!Match, Q!Move, Q!Become, status, answer
<1> QED
  BY <1>4, <1>8 DEF Q!Next, Serves

LEMMA RemoveServes ==
  ASSUME PoolInv, OwnedInv, NEW t \in Threads, Step(t), RemovePrimary(t)
  PROVE  Serves
<1>0. Types /\ players' = players /\ asked' = asked /\ cur[t] # 0
  BY TypesSplit DEF PoolInv, RemovePrimary
<1>1. PICK i \in Ids : i = players[cur[t]].id
  BY RemovePrimaryFacts
<1>2. /\ primary[i] = cur[t] /\ primary'[i] = 0 /\ Gone(cur[t])
      /\ \A j \in Ids : j # i => primary'[j] = primary[j]
      /\ pc[t] = "rm_primary" /\ pc'[t] = "rm_index"
  BY <1>1, RemovePrimaryFacts DEF Gone
<1>3. Status(i) = "leaving" /\ Status(i)' = "out"
  BY <1>0, <1>2 DEF Status, Gone
<1>4. \A j \in Ids : j # i => Status(j)' = Status(j)
  BY <1>0, <1>2 DEF Status
<1>5. status' = [status EXCEPT ![i] = "out"]
  BY <1>3, <1>4, StatusBecomes
<1>6. answer' = answer
  BY <1>0, <1>2, AnswerStays, Verdicts
<1>7. Q!Leave(i)
  BY <1>3, <1>5, <1>6 DEF Q!Leave, Q!Move, Q!Become, status, answer
<1> QED
  BY <1>7 DEF Q!Next, Serves

LEMMA RestServes ==
  ASSUME PoolInv, NEW t \in Threads, Step(t),
         \/ t \in Workers /\ \/ Scan(t) \/ ClaimFails(t) \/ GiveUp(t) \/ BeginMatch(t)
                             \/ AllMarked(t) \/ Panic(t) \/ NextToRemove(t) \/ AllRemoved(t)
         \/ RemoveAbsent(t) \/ RemoveIndex(t) \/ GaugeDec(t)
  PROVE  Serves
<1>0. Types /\ primary' = primary /\ players' = players
  BY TypesSplit DEF PoolInv, Scan, ClaimFails, Try, GiveUp, BeginMatch, AllMarked, Panic,
     NextToRemove, AllRemoved, RemoveAbsent, RemoveIndex, GaugeDec
<1>1. status' = status
  BY <1>0, StatusStays
<1>2. CASE t \in Workers
  BY <1>1, <1>2, AnswerChanges DEF Serves
<1>3. CASE t \in Clients /\ (RemoveAbsent(t) \/ RemoveIndex(t))
  <2>1. pc[t] \in {"rm_primary", "rm_index"} /\ pc'[t] = "gauge_dec" /\ asked' = asked
    BY <1>0, <1>3 DEF RemoveAbsent, RemoveIndex, LeaveRemove, Goto, Types
  <2>2. answer' = answer
    BY <2>1, AnswerStays, Verdicts
  <2> QED
    BY <1>1, <2>2 DEF Serves
<1>4. CASE t \in Clients /\ GaugeDec(t)
  <2>1. pc[t] = "gauge_dec" /\ pc'[t] = "idle"
    BY <1>0, <1>4 DEF GaugeDec, Finish, Answer, Goto, Types
  <2>2. Q!Reply(t)
    BY <1>1, <1>4, <2>1, Replies
  <2> QED
    BY <1>4, <2>2 DEF Q!Next, Serves
<1> QED
  BY <1>2, <1>3, <1>4, ThreadKinds

(* Every step of the handlers and the workers is one of the service or      *)
(* changes nothing that a caller sees.                                      *)
LEMMA StepsServe == ASSUME IInv, OneClientPerId, [Next]_vars PROVE Serves
<1>0. PoolInv /\ OwnedInv
  BY DEF IInv
<1>1. CASE UNCHANGED vars
  <2>1. status' = status
    BY <1>0, <1>1, StatusStays DEF vars
  <2>2. answer' = answer
    BY <1>1 DEF answer, Decided, vars
  <2> QED
    BY <2>1, <2>2 DEF Serves
<1>2. ASSUME NEW c \in Clients, Step(c), ClientStep(c) PROVE Serves
  BY <1>0, <1>2, EnqueueServes, RefusalServes, InsertServes, CountServes, EvictServes,
     EvictRefusedServes DEF ClientStep
<1>3. ASSUME NEW w \in Workers, Step(w), WorkerStep(w) PROVE Serves
  BY <1>0, <1>3, ClaimServes, ReleaseServes, MarkServes, RestServes, ThreadKinds DEF WorkerStep
<1>4. ASSUME NEW t \in Threads, Step(t), RemoveStep(t) PROVE Serves
  BY <1>0, <1>4, RemoveServes, RestServes DEF RemoveStep
<1>5. CASE ResetStale
  BY <1>0, <1>5, ResetServes
<1> QED
  BY <1>1, <1>2, <1>3, <1>4, <1>5, ThreadKinds DEF Next, Step

(* POST /enqueue and DELETE /enqueue/:player_id implement QueueService, for *)
(* any number of ids, clients and workers, when each id has one client:     *)
(* every 200, 404 and 409 is right about the queue within its request.      *)
THEOREM HandlersImplementQueue == Spec => ImplementsQueue
<1>1. Init => (OneClientPerId => Q!Init)
  <2> SUFFICES ASSUME Init PROVE Q!Init
    OBVIOUS
  <2>1. \A i \in Ids : Status(i) = "out"
    BY DEF Init, Status
  <2>2. \A c \in Clients : Decided(c) = Q!NoAnswer
    BY DecidedIs, Verdicts, ThreadKinds DEF Init
  <2> QED
    BY <2>1, <2>2 DEF Q!Init
<1>2. IInv /\ [Next]_vars => [OneClientPerId => Q!Next]_(Q!vars)
  <2> SUFFICES ASSUME IInv, [Next]_vars, OneClientPerId PROVE Q!Next \/ UNCHANGED Q!vars
    OBVIOUS
  <2>1. Serves
    BY StepsServe
  <2> QED
    BY <2>1 DEF Serves, Q!vars, status, answer
<1> QED
  BY <1>1, <1>2, IInvInductive, PTL DEF Spec, ImplementsQueue
=============================================================================
