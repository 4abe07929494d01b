--------------------------- MODULE ClaimingProofs ---------------------------
(***************************************************************************)
(* Proofs about Claiming, for every number of players, workers, panics and  *)
(* every value of the time constants.                                       *)
(***************************************************************************)
EXTENDS Claiming, TLAPS

USE DEF WAITING, CLAIMED, MATCHED, EVICTED

-----------------------------------------------------------------------------
(* Type correctness, for attempts of any length.                            *)

(* The default of r_cur is a player. *)
LEMMA NoOneType == NoOne \in Players
  BY PlayersAssumption DEF NoOne

(* The initial state is well typed. *)
LEMMA TypeInit == Init => TypeOK
  BY TimeAssumption, NoOneType DEF Init, TypeOK, WorkerPCs, ReaperPCs

(* Every step preserves the types. *)
LEMMA TypeStep == TypeOK /\ [Next]_vars => TypeOK'
<1> SUFFICES ASSUME TypeOK, [Next]_vars PROVE TypeOK'
  OBVIOUS
<1> USE DEF TypeOK, WorkerPCs, ReaperPCs, playerVars, workerVars, reaperVars
<1>1. ASSUME NEW w \in Workers, StartAttempt(w) PROVE TypeOK'
  BY <1>1 DEF StartAttempt
<1>2. ASSUME NEW w \in Workers, ClaimCandidate(w) PROVE TypeOK'
  BY <1>2 DEF ClaimCandidate
<1>26. ASSUME NEW w \in Workers, SkipCandidate(w) PROVE TypeOK'
  BY <1>26 DEF SkipCandidate
<1>3. ASSUME NEW w \in Workers, StoreClaimedBy(w) PROVE TypeOK'
  BY <1>3 DEF StoreClaimedBy
<1>4. ASSUME NEW w \in Workers, StoreClaimTimestamp(w) PROVE TypeOK'
  BY <1>4 DEF StoreClaimTimestamp
<1>5. ASSUME NEW w \in Workers, ClaimsComplete(w) PROVE TypeOK'
  BY <1>5 DEF ClaimsComplete
<1>6. ASSUME NEW w \in Workers, ClaimsFailed(w) PROVE TypeOK'
  BY <1>6 DEF ClaimsFailed
<1>7. ASSUME NEW w \in Workers, ReleaseClaimedBy(w) PROVE TypeOK'
  BY <1>7 DEF ReleaseClaimedBy
<1>8. ASSUME NEW w \in Workers, ReleaseTimestamp(w) PROVE TypeOK'
  BY <1>8 DEF ReleaseTimestamp
<1>9. ASSUME NEW w \in Workers, ReleaseCAS(w) PROVE TypeOK'
  BY <1>9 DEF ReleaseCAS
<1>10. ASSUME NEW w \in Workers, AttemptFailed(w) PROVE TypeOK'
  BY <1>10 DEF AttemptFailed
<1>11. ASSUME NEW w \in Workers, MarkMatched(w) PROVE TypeOK'
  BY <1>11 DEF MarkMatched
<1>12. ASSUME NEW w \in Workers, MarksDone(w) PROVE TypeOK'
  BY <1>12 DEF MarksDone
<1>13. ASSUME NEW w \in Workers, RemoveFromPool(w) PROVE TypeOK'
  BY <1>13 DEF RemoveFromPool
<1>14. ASSUME NEW w \in Workers, Publish(w) PROVE TypeOK'
  BY <1>14 DEF Publish
<1>15. ASSUME NEW w \in Workers, Crash(w) PROVE TypeOK'
  BY <1>15 DEF Crash
<1>16. ASSUME NEW p \in Players, Cancel(p) PROVE TypeOK'
  BY <1>16 DEF Cancel
<1>17. CASE ReaperTick
  BY <1>17 DEF ReaperTick
<1>18. CASE ReaperLoadState
  BY <1>18 DEF ReaperLoadState
<1>19. CASE ReaperLoadTimestamp
  BY <1>19, NoOneType DEF ReaperLoadTimestamp, NextPlayer
<1>20. CASE ReaperCAS
  BY <1>20, NoOneType DEF ReaperCAS, NextPlayer
<1>21. CASE ReaperClearClaimedBy
  BY <1>21 DEF ReaperClearClaimedBy
<1>22. CASE ReaperClearTimestamp
  BY <1>22, NoOneType DEF ReaperClearTimestamp, NextPlayer
<1>23. CASE ReaperSleep
  BY <1>23 DEF ReaperSleep
<1>24. CASE Tick
  BY <1>24 DEF Tick
<1>25. CASE UNCHANGED vars
  BY <1>25 DEF vars
<1> QED
  BY <1>1, <1>2, <1>3, <1>4, <1>5, <1>6, <1>7, <1>8, <1>9, <1>10, <1>11,
     <1>12, <1>13, <1>14, <1>15, <1>16, <1>17, <1>18, <1>19, <1>20, <1>21,
     <1>22, <1>23, <1>24, <1>25, <1>26 DEF Next, WorkerStep, ReaperStep

(* The type invariant of the claim protocol. *)
THEOREM TypeCorrect == Spec => []TypeOK
  BY TypeInit, TypeStep, PTL DEF Spec

-----------------------------------------------------------------------------
(* The inductive invariant, for attempts that end within the timeout.       *)

(* The initial state satisfies the invariant. *)
LEMMA InvInit == Init => ClaimInv
<1> SUFFICES ASSUME Init PROVE ClaimInv
  OBVIOUS
<1>1. TypeOK
  BY TypeInit
<1> QED
  BY <1>1, TimeAssumption DEF Init, ClaimInv, ClaimsExclusive, LocalInv,
     MarkedInv, PublishedAreMatched, NoDoubleMatch, FreshInv, StampInv,
     ReaperInv, Holds, Marked, InAttempt, Clearing

(* StartAttempt preserves the invariant. *)
LEMMA InvStartAttempt ==
    ASSUME ClaimInv, AttemptLimit <= StaleTimeout, NEW w \in Workers, StartAttempt(w), TypeOK'
    PROVE  ClaimInv'
<1> USE TimeAssumption DEF ClaimInv, TypeOK, playerVars, workerVars, reaperVars
<1>1. FreshInv'
  BY DEF StartAttempt, FreshInv, InAttempt
<1>2. StampInv'
  BY DEF StartAttempt, StampInv, Clearing, Holds, ClaimsExclusive, First,
     LocalInv
<1>3. ClaimsExclusive' /\ LocalInv' /\ MarkedInv' /\ PublishedAreMatched'
     /\ NoDoubleMatch' /\ ReaperInv'
  BY DEF StartAttempt, ClaimsExclusive, Holds, LocalInv, First, MarkedInv,
     Marked, PublishedAreMatched, NoDoubleMatch, ReaperInv
<1> QED
  BY <1>1, <1>2, <1>3

(* ClaimCandidate preserves the invariant. *)
LEMMA InvClaimCandidate ==
    ASSUME ClaimInv, AttemptLimit <= StaleTimeout, NEW w \in Workers, ClaimCandidate(w), TypeOK'
    PROVE  ClaimInv'
<1> USE TimeAssumption DEF ClaimInv, TypeOK, playerVars, workerVars, reaperVars
<1>1. ClaimsExclusive'
  BY DEF ClaimCandidate, ClaimsExclusive, Holds
<1>2. LocalInv'
  BY PlayersAssumption DEF ClaimCandidate, LocalInv, First, ClaimsExclusive
<1>3. StampInv'
  BY DEF ClaimCandidate, StampInv, Clearing, Holds, ClaimsExclusive, First,
     LocalInv
<1>4. ReaperInv'
  BY PlayersAssumption DEF ClaimCandidate, ReaperInv, Holds, ClaimsExclusive,
     StampInv, Clearing
<1>5. MarkedInv' /\ PublishedAreMatched' /\ NoDoubleMatch' /\ FreshInv'
  BY DEF ClaimCandidate, MarkedInv, Marked, PublishedAreMatched,
     NoDoubleMatch, FreshInv, InAttempt
<1> QED
  BY <1>1, <1>2, <1>3, <1>4, <1>5

(* SkipCandidate preserves the invariant. *)
LEMMA InvSkipCandidate ==
    ASSUME ClaimInv, AttemptLimit <= StaleTimeout, NEW w \in Workers, SkipCandidate(w), TypeOK'
    PROVE  ClaimInv'
<1> USE TimeAssumption DEF ClaimInv, TypeOK, playerVars, workerVars, reaperVars
<1>1. ClaimsExclusive' /\ LocalInv' /\ MarkedInv' /\ PublishedAreMatched'
     /\ NoDoubleMatch' /\ FreshInv' /\ StampInv' /\ ReaperInv'
  BY DEF SkipCandidate, ClaimsExclusive, Holds, LocalInv, First, MarkedInv,
     Marked, PublishedAreMatched, NoDoubleMatch, FreshInv, InAttempt,
     StampInv, Clearing, ReaperInv
<1> QED
  BY <1>1

(* StoreClaimedBy preserves the invariant. *)
LEMMA InvStoreClaimedBy ==
    ASSUME ClaimInv, AttemptLimit <= StaleTimeout, NEW w \in Workers, StoreClaimedBy(w), TypeOK'
    PROVE  ClaimInv'
<1> USE TimeAssumption DEF ClaimInv, TypeOK, playerVars, workerVars, reaperVars
<1>1. ClaimsExclusive' /\ LocalInv' /\ MarkedInv' /\ PublishedAreMatched'
     /\ NoDoubleMatch' /\ FreshInv' /\ StampInv' /\ ReaperInv'
  BY DEF StoreClaimedBy, ClaimsExclusive, Holds, LocalInv, First, MarkedInv,
     Marked, PublishedAreMatched, NoDoubleMatch, FreshInv, InAttempt,
     StampInv, Clearing, ReaperInv
<1> QED
  BY <1>1

(* StoreClaimTimestamp preserves the invariant. *)
LEMMA InvStoreClaimTimestamp ==
    ASSUME ClaimInv, AttemptLimit <= StaleTimeout, NEW w \in Workers, StoreClaimTimestamp(w), TypeOK'
    PROVE  ClaimInv'
<1> USE TimeAssumption DEF ClaimInv, TypeOK, playerVars, workerVars, reaperVars
<1>1. StampInv'
  <2>1. PICK p \in todo[w] : /\ First(p, todo[w])
                             /\ claim_timestamp' = [claim_timestamp EXCEPT ![p] = now_ms[w]]
    BY DEF StoreClaimTimestamp
  <2>2. p \in claimed[w] /\ p \in Holds(w) /\ p \in Players /\ state[p] = CLAIMED
    BY <2>1 DEF StoreClaimTimestamp, LocalInv, Holds, ClaimsExclusive
  <2>3. \A v \in Workers : /\ Holds(v)' = Holds(v)
                           /\ v # w => p \notin Holds(v) /\ pc'[v] = pc[v] /\ todo'[v] = todo[v]
    BY <2>2 DEF StoreClaimTimestamp, Holds, ClaimsExclusive
  <2>4. \A v \in Workers : pc'[v] = "release_cas" => v # w /\ todo[v] = Holds(v)
    BY DEF StoreClaimTimestamp, Holds
  <2> QED
    BY <2>1, <2>2, <2>3, <2>4 DEF StoreClaimTimestamp, StampInv, Clearing, First
<1>2. ClaimsExclusive' /\ LocalInv' /\ MarkedInv' /\ PublishedAreMatched'
     /\ NoDoubleMatch' /\ FreshInv' /\ ReaperInv'
  BY DEF StoreClaimTimestamp, ClaimsExclusive, Holds, LocalInv, First,
     MarkedInv, Marked, PublishedAreMatched, NoDoubleMatch, FreshInv,
     InAttempt, ReaperInv
<1> QED
  BY <1>1, <1>2

(* ClaimsComplete preserves the invariant. *)
LEMMA InvClaimsComplete ==
    ASSUME ClaimInv, AttemptLimit <= StaleTimeout, NEW w \in Workers, ClaimsComplete(w), TypeOK'
    PROVE  ClaimInv'
<1> USE TimeAssumption DEF ClaimInv, TypeOK, playerVars, workerVars, reaperVars
<1>1. ClaimsExclusive'
  BY DEF ClaimsComplete, ClaimsExclusive, Holds
<1>2. LocalInv'
  BY DEF ClaimsComplete, LocalInv, First, ClaimsExclusive
<1>3. MarkedInv'
  BY DEF ClaimsComplete, MarkedInv, Marked, PublishedAreMatched
<1>4. PublishedAreMatched' /\ NoDoubleMatch' /\ FreshInv' /\ StampInv'
     /\ ReaperInv'
  BY DEF ClaimsComplete, PublishedAreMatched, NoDoubleMatch, FreshInv,
     InAttempt, StampInv, Clearing, Holds, First, ReaperInv
<1> QED
  BY <1>1, <1>2, <1>3, <1>4

(* ClaimsFailed preserves the invariant. *)
LEMMA InvClaimsFailed ==
    ASSUME ClaimInv, AttemptLimit <= StaleTimeout, NEW w \in Workers, ClaimsFailed(w), TypeOK'
    PROVE  ClaimInv'
<1> USE TimeAssumption DEF ClaimInv, TypeOK, playerVars, workerVars, reaperVars
<1>1. ClaimsExclusive'
  BY DEF ClaimsFailed, ClaimsExclusive, Holds
<1>2. LocalInv' /\ MarkedInv' /\ PublishedAreMatched' /\ NoDoubleMatch'
     /\ FreshInv' /\ StampInv' /\ ReaperInv'
  BY DEF ClaimsFailed, LocalInv, First, MarkedInv, Marked,
     PublishedAreMatched, NoDoubleMatch, FreshInv, InAttempt, StampInv,
     Clearing, Holds, ReaperInv
<1> QED
  BY <1>1, <1>2

(* ReleaseClaimedBy preserves the invariant. *)
LEMMA InvReleaseClaimedBy ==
    ASSUME ClaimInv, AttemptLimit <= StaleTimeout, NEW w \in Workers, ReleaseClaimedBy(w), TypeOK'
    PROVE  ClaimInv'
<1> USE TimeAssumption DEF ClaimInv, TypeOK, playerVars, workerVars, reaperVars
<1>1. ClaimsExclusive' /\ LocalInv' /\ MarkedInv' /\ PublishedAreMatched'
     /\ NoDoubleMatch' /\ FreshInv' /\ StampInv' /\ ReaperInv'
  BY DEF ReleaseClaimedBy, ClaimsExclusive, Holds, LocalInv, First, MarkedInv,
     Marked, PublishedAreMatched, NoDoubleMatch, FreshInv, InAttempt,
     StampInv, Clearing, ReaperInv
<1> QED
  BY <1>1

(* ReleaseTimestamp preserves the invariant. *)
LEMMA InvReleaseTimestamp ==
    ASSUME ClaimInv, AttemptLimit <= StaleTimeout, NEW w \in Workers, ReleaseTimestamp(w), TypeOK'
    PROVE  ClaimInv'
<1> USE TimeAssumption DEF ClaimInv, TypeOK, playerVars, workerVars, reaperVars
<1>1. StampInv'
  BY PlayersAssumption DEF ReleaseTimestamp, StampInv, Clearing, Holds,
     ClaimsExclusive, First, LocalInv
<1>2. ClaimsExclusive' /\ LocalInv' /\ MarkedInv' /\ PublishedAreMatched'
     /\ NoDoubleMatch' /\ FreshInv' /\ ReaperInv'
  BY DEF ReleaseTimestamp, ClaimsExclusive, Holds, LocalInv, First, MarkedInv,
     Marked, PublishedAreMatched, NoDoubleMatch, FreshInv, InAttempt,
     ReaperInv
<1> QED
  BY <1>1, <1>2

(* ReleaseCAS preserves the invariant. *)
LEMMA InvReleaseCAS ==
    ASSUME ClaimInv, AttemptLimit <= StaleTimeout, NEW w \in Workers, ReleaseCAS(w), TypeOK'
    PROVE  ClaimInv'
<1> USE TimeAssumption DEF ClaimInv, TypeOK, playerVars, workerVars, reaperVars
<1>1. ClaimsExclusive'
  BY DEF ReleaseCAS, ClaimsExclusive, Holds
<1>2. StampInv'
  BY DEF ReleaseCAS, StampInv, Clearing, Holds, ClaimsExclusive, First,
     LocalInv
<1>3. ReaperInv'
  BY DEF ReleaseCAS, ReaperInv, Holds, ClaimsExclusive, StampInv, Clearing
<1>4. LocalInv' /\ MarkedInv' /\ PublishedAreMatched' /\ NoDoubleMatch'
     /\ FreshInv'
  BY DEF ReleaseCAS, LocalInv, First, MarkedInv, Marked, PublishedAreMatched,
     NoDoubleMatch, FreshInv, InAttempt
<1> QED
  BY <1>1, <1>2, <1>3, <1>4

(* AttemptFailed preserves the invariant. *)
LEMMA InvAttemptFailed ==
    ASSUME ClaimInv, AttemptLimit <= StaleTimeout, NEW w \in Workers, AttemptFailed(w), TypeOK'
    PROVE  ClaimInv'
<1> USE TimeAssumption DEF ClaimInv, TypeOK, playerVars, workerVars, reaperVars
<1>1. ClaimsExclusive' /\ LocalInv' /\ MarkedInv' /\ PublishedAreMatched'
     /\ NoDoubleMatch' /\ FreshInv' /\ StampInv' /\ ReaperInv'
  BY DEF AttemptFailed, ClaimsExclusive, Holds, LocalInv, First, MarkedInv,
     Marked, PublishedAreMatched, NoDoubleMatch, FreshInv, InAttempt,
     StampInv, Clearing, ReaperInv
<1> QED
  BY <1>1

(* MarkMatched preserves the invariant. *)
LEMMA InvMarkMatched ==
    ASSUME ClaimInv, AttemptLimit <= StaleTimeout, NEW w \in Workers, MarkMatched(w), TypeOK'
    PROVE  ClaimInv'
<1> USE TimeAssumption DEF ClaimInv, TypeOK, playerVars, workerVars, reaperVars
<1>1. ClaimsExclusive'
  <2>1. PICK p \in todo[w] : /\ state' = [state EXCEPT ![p] = IF @ = CLAIMED THEN MATCHED ELSE @]
                             /\ todo' = [todo EXCEPT ![w] = @ \ {p}]
    BY DEF MarkMatched
  <2>2. Holds(w)' = Holds(w) \ {p} /\ p \in Holds(w)
    BY <2>1 DEF MarkMatched, Holds
  <2>3. \A v \in Workers : v # w => Holds(v)' = Holds(v)
    BY <2>1 DEF MarkMatched, Holds
  <2>4. ASSUME NEW v \in Workers, NEW q \in Holds(v)'
        PROVE  q \in Holds(v) /\ q \in Players /\ state'[q] = CLAIMED
    <3>1. q \in Holds(v) /\ q # p
      <4>1. CASE v = w
        BY <2>2, <2>4, <4>1
      <4>2. CASE v # w
        <5>1. Holds(v) \cap Holds(w) = {}
          BY <4>2 DEF ClaimsExclusive
        <5> QED
          BY <2>2, <2>3, <2>4, <4>2, <5>1
      <4> QED
        BY <4>1, <4>2
    <3>2. state[q] = CLAIMED /\ q \in Players
      BY <3>1 DEF ClaimsExclusive, Holds
    <3> QED
      BY <2>1, <3>1, <3>2
  <2> QED
    BY <2>4 DEF ClaimsExclusive
<1>2. MarkedInv'
  BY DEF MarkMatched, MarkedInv, Marked, PublishedAreMatched, ClaimsExclusive,
     Holds
<1>3. PublishedAreMatched'
  BY DEF MarkMatched, PublishedAreMatched, MarkedInv, Marked
<1>4. StampInv'
  BY DEF MarkMatched, StampInv, Clearing, Holds, ClaimsExclusive, First,
     LocalInv
<1>5. ReaperInv'
  BY DEF MarkMatched, ReaperInv, Holds, ClaimsExclusive, StampInv, Clearing
<1>6. LocalInv' /\ NoDoubleMatch' /\ FreshInv'
  BY DEF MarkMatched, LocalInv, First, NoDoubleMatch, FreshInv, InAttempt
<1> QED
  BY <1>1, <1>2, <1>3, <1>4, <1>5, <1>6

(* MarksDone preserves the invariant. *)
LEMMA InvMarksDone ==
    ASSUME ClaimInv, AttemptLimit <= StaleTimeout, NEW w \in Workers, MarksDone(w), TypeOK'
    PROVE  ClaimInv'
<1> USE TimeAssumption DEF ClaimInv, TypeOK, playerVars, workerVars, reaperVars
<1>1. MarkedInv'
  BY DEF MarksDone, MarkedInv, Marked, PublishedAreMatched
<1>2. ClaimsExclusive' /\ LocalInv' /\ PublishedAreMatched' /\ NoDoubleMatch'
     /\ FreshInv' /\ StampInv' /\ ReaperInv'
  BY DEF MarksDone, ClaimsExclusive, Holds, LocalInv, First,
     PublishedAreMatched, NoDoubleMatch, FreshInv, InAttempt, StampInv,
     Clearing, ReaperInv
<1> QED
  BY <1>1, <1>2

(* RemoveFromPool preserves the invariant. *)
LEMMA InvRemoveFromPool ==
    ASSUME ClaimInv, AttemptLimit <= StaleTimeout, NEW w \in Workers, RemoveFromPool(w), TypeOK'
    PROVE  ClaimInv'
<1> USE TimeAssumption DEF ClaimInv, TypeOK, playerVars, workerVars, reaperVars
<1>1. ClaimsExclusive' /\ LocalInv' /\ MarkedInv' /\ PublishedAreMatched'
     /\ NoDoubleMatch' /\ FreshInv' /\ StampInv' /\ ReaperInv'
  BY DEF RemoveFromPool, ClaimsExclusive, Holds, LocalInv, First, MarkedInv,
     Marked, PublishedAreMatched, NoDoubleMatch, FreshInv, InAttempt,
     StampInv, Clearing, ReaperInv
<1> QED
  BY <1>1

(* Publish preserves the invariant. *)
LEMMA InvPublish ==
    ASSUME ClaimInv, AttemptLimit <= StaleTimeout, NEW w \in Workers, Publish(w), TypeOK'
    PROVE  ClaimInv'
<1> USE TimeAssumption DEF ClaimInv, TypeOK, playerVars, workerVars, reaperVars
<1>1. MarkedInv'
  BY DEF Publish, MarkedInv, Marked, PublishedAreMatched
<1>2. PublishedAreMatched'
  BY DEF Publish, PublishedAreMatched, MarkedInv, Marked
<1>3. NoDoubleMatch'
  <2>1. matches' = Append(matches, claimed[w]) /\ claimed[w] = Marked(w)
    BY DEF Publish, Marked
  <2>2. DOMAIN matches' = DOMAIN matches \cup {Len(matches) + 1}
    BY <2>1
  <2>3. \A i \in DOMAIN matches : matches'[i] = matches[i]
    BY <2>1
  <2>4. matches'[Len(matches) + 1] = claimed[w] /\ Len(matches) + 1 \notin DOMAIN matches
    BY <2>1
  <2>5. \A i \in DOMAIN matches : matches[i] \cap claimed[w] = {}
    BY <2>1 DEF MarkedInv
  <2> QED
    BY <2>2, <2>3, <2>4, <2>5 DEF NoDoubleMatch
<1>4. ClaimsExclusive' /\ LocalInv' /\ FreshInv' /\ StampInv' /\ ReaperInv'
  BY DEF Publish, ClaimsExclusive, Holds, LocalInv, First, FreshInv,
     InAttempt, StampInv, Clearing, ReaperInv
<1> QED
  BY <1>1, <1>2, <1>3, <1>4

(* Crash preserves the invariant. *)
LEMMA InvCrash ==
    ASSUME ClaimInv, AttemptLimit <= StaleTimeout, NEW w \in Workers, Crash(w), TypeOK'
    PROVE  ClaimInv'
<1> USE TimeAssumption DEF ClaimInv, TypeOK, playerVars, workerVars, reaperVars
<1>1. ClaimsExclusive' /\ LocalInv' /\ MarkedInv' /\ PublishedAreMatched'
     /\ NoDoubleMatch' /\ FreshInv' /\ StampInv' /\ ReaperInv'
  BY DEF Crash, ClaimsExclusive, Holds, LocalInv, First, MarkedInv, Marked,
     PublishedAreMatched, NoDoubleMatch, FreshInv, InAttempt, StampInv,
     Clearing, ReaperInv
<1> QED
  BY <1>1

(* Cancel preserves the invariant. *)
LEMMA InvCancel ==
    ASSUME ClaimInv, AttemptLimit <= StaleTimeout, NEW p \in Players, Cancel(p), TypeOK'
    PROVE  ClaimInv'
<1> USE TimeAssumption DEF ClaimInv, TypeOK, playerVars, workerVars, reaperVars
<1>1. ClaimsExclusive'
  BY DEF Cancel, ClaimsExclusive, Holds
<1>2. MarkedInv'
  BY DEF Cancel, MarkedInv, Marked, PublishedAreMatched
<1>3. PublishedAreMatched'
  BY DEF Cancel, PublishedAreMatched, MarkedInv, Marked
<1>4. StampInv'
  BY DEF Cancel, StampInv, Clearing, Holds, ClaimsExclusive, First, LocalInv
<1>5. ReaperInv'
  BY DEF Cancel, ReaperInv, Holds, ClaimsExclusive, StampInv, Clearing
<1>6. LocalInv' /\ NoDoubleMatch' /\ FreshInv'
  BY DEF Cancel, LocalInv, First, NoDoubleMatch, FreshInv, InAttempt
<1> QED
  BY <1>1, <1>2, <1>3, <1>4, <1>5, <1>6

(* ReaperTick preserves the invariant. *)
LEMMA InvReaperTick ==
    ASSUME ClaimInv, AttemptLimit <= StaleTimeout, ReaperTick, TypeOK'
    PROVE  ClaimInv'
<1> USE TimeAssumption DEF ClaimInv, TypeOK, playerVars, workerVars, reaperVars
<1>1. FreshInv'
  BY DEF ReaperTick, FreshInv, InAttempt
<1>2. ClaimsExclusive' /\ LocalInv' /\ MarkedInv' /\ PublishedAreMatched'
     /\ NoDoubleMatch' /\ StampInv' /\ ReaperInv'
  BY DEF ReaperTick, ClaimsExclusive, Holds, LocalInv, First, MarkedInv,
     Marked, PublishedAreMatched, NoDoubleMatch, StampInv, Clearing, ReaperInv
<1> QED
  BY <1>1, <1>2

(* ReaperLoadState preserves the invariant. *)
LEMMA InvReaperLoadState ==
    ASSUME ClaimInv, AttemptLimit <= StaleTimeout, ReaperLoadState, TypeOK'
    PROVE  ClaimInv'
<1> USE TimeAssumption DEF ClaimInv, TypeOK, playerVars, workerVars, reaperVars
<1>1. ClaimsExclusive' /\ LocalInv' /\ MarkedInv' /\ PublishedAreMatched'
     /\ NoDoubleMatch' /\ FreshInv' /\ StampInv' /\ ReaperInv'
  BY DEF ReaperLoadState, ClaimsExclusive, Holds, LocalInv, First, MarkedInv,
     Marked, PublishedAreMatched, NoDoubleMatch, FreshInv, InAttempt,
     StampInv, Clearing, ReaperInv
<1> QED
  BY <1>1

(* ReaperLoadTimestamp preserves the invariant. *)
LEMMA InvReaperLoadTimestamp ==
    ASSUME ClaimInv, AttemptLimit <= StaleTimeout, ReaperLoadTimestamp, TypeOK'
    PROVE  ClaimInv'
<1> USE TimeAssumption DEF ClaimInv, TypeOK, playerVars, workerVars, reaperVars
<1>1. ReaperInv'
  <2> SUFFICES ASSUME rpc' = "cas" PROVE ReaperInv'
    BY DEF ReaperInv
  <2> DEFINE ts == claim_timestamp[r_cur]
  <2>1. ts \in Nat /\ ts # 0 /\ r_now - ts > StaleTimeout /\ ~Clearing(r_cur)
    BY DEF ReaperLoadTimestamp, NextPlayer, IsStale, Clearing
  <2>2. state[r_cur] \in {CLAIMED, MATCHED}
    BY <2>1 DEF StampInv
  <2>3. ASSUME NEW w \in Workers, r_cur \in Holds(w) PROVE FALSE
    <3>1. ts = now_ms[w] /\ InAttempt(w)
      BY <2>1, <2>3 DEF StampInv, Holds, InAttempt
    <3>2. r_now <= now /\ now - ts <= AttemptLimit
      BY <3>1 DEF FreshInv
    <3> QED
      BY <2>1, <3>2
  <2> QED
    BY <2>2, <2>3 DEF ReaperLoadTimestamp, NextPlayer, ReaperInv, Holds
<1>2. ClaimsExclusive' /\ LocalInv' /\ MarkedInv' /\ PublishedAreMatched'
     /\ NoDoubleMatch' /\ FreshInv' /\ StampInv'
  BY DEF ReaperLoadTimestamp, ClaimsExclusive, Holds, LocalInv, First,
     MarkedInv, Marked, PublishedAreMatched, NoDoubleMatch, FreshInv,
     InAttempt, StampInv, Clearing
<1> QED
  BY <1>1, <1>2

(* ReaperCAS preserves the invariant. *)
LEMMA InvReaperCAS ==
    ASSUME ClaimInv, AttemptLimit <= StaleTimeout, ReaperCAS, TypeOK'
    PROVE  ClaimInv'
<1> USE TimeAssumption DEF ClaimInv, TypeOK, playerVars, workerVars, reaperVars
<1>1. ClaimsExclusive'
  BY DEF ReaperCAS, ClaimsExclusive, Holds, ReaperInv
<1>2. MarkedInv'
  BY DEF ReaperCAS, MarkedInv, Marked, PublishedAreMatched
<1>3. PublishedAreMatched'
  BY DEF ReaperCAS, PublishedAreMatched, MarkedInv, Marked
<1>4. StampInv'
  BY DEF ReaperCAS, StampInv, Clearing, Holds, ClaimsExclusive, First,
     LocalInv
<1>5. LocalInv' /\ NoDoubleMatch' /\ FreshInv' /\ ReaperInv'
  BY DEF ReaperCAS, NextPlayer, LocalInv, First, NoDoubleMatch, FreshInv,
     InAttempt, ReaperInv, Holds
<1> QED
  BY <1>1, <1>2, <1>3, <1>4, <1>5

(* ReaperClearClaimedBy preserves the invariant. *)
LEMMA InvReaperClearClaimedBy ==
    ASSUME ClaimInv, AttemptLimit <= StaleTimeout, ReaperClearClaimedBy, TypeOK'
    PROVE  ClaimInv'
<1> USE TimeAssumption DEF ClaimInv, TypeOK, playerVars, workerVars, reaperVars
<1>1. ClaimsExclusive' /\ LocalInv' /\ MarkedInv' /\ PublishedAreMatched'
     /\ NoDoubleMatch' /\ FreshInv' /\ StampInv' /\ ReaperInv'
  BY DEF ReaperClearClaimedBy, ClaimsExclusive, Holds, LocalInv, First,
     MarkedInv, Marked, PublishedAreMatched, NoDoubleMatch, FreshInv,
     InAttempt, StampInv, Clearing, ReaperInv
<1> QED
  BY <1>1

(* ReaperClearTimestamp preserves the invariant. *)
LEMMA InvReaperClearTimestamp ==
    ASSUME ClaimInv, AttemptLimit <= StaleTimeout, ReaperClearTimestamp, TypeOK'
    PROVE  ClaimInv'
<1> USE TimeAssumption DEF ClaimInv, TypeOK, playerVars, workerVars, reaperVars
<1>1. StampInv'
  BY DEF ReaperClearTimestamp, StampInv, Clearing, Holds, ClaimsExclusive,
     First, LocalInv
<1>2. ClaimsExclusive' /\ LocalInv' /\ MarkedInv' /\ PublishedAreMatched'
     /\ NoDoubleMatch' /\ FreshInv' /\ ReaperInv'
  BY DEF ReaperClearTimestamp, NextPlayer, ClaimsExclusive, Holds, LocalInv, First,
     MarkedInv, Marked, PublishedAreMatched, NoDoubleMatch, FreshInv,
     InAttempt, ReaperInv
<1> QED
  BY <1>1, <1>2

(* ReaperSleep preserves the invariant. *)
LEMMA InvReaperSleep ==
    ASSUME ClaimInv, AttemptLimit <= StaleTimeout, ReaperSleep, TypeOK'
    PROVE  ClaimInv'
<1> USE TimeAssumption DEF ClaimInv, TypeOK, playerVars, workerVars, reaperVars
<1>1. ClaimsExclusive' /\ LocalInv' /\ MarkedInv' /\ PublishedAreMatched'
     /\ NoDoubleMatch' /\ FreshInv' /\ StampInv' /\ ReaperInv'
  BY DEF ReaperSleep, ClaimsExclusive, Holds, LocalInv, First, MarkedInv,
     Marked, PublishedAreMatched, NoDoubleMatch, FreshInv, InAttempt,
     StampInv, Clearing, ReaperInv
<1> QED
  BY <1>1

(* Tick preserves the invariant. *)
LEMMA InvTick ==
    ASSUME ClaimInv, AttemptLimit <= StaleTimeout, Tick, TypeOK'
    PROVE  ClaimInv'
<1> USE TimeAssumption DEF ClaimInv, TypeOK, playerVars, workerVars, reaperVars
<1>1. FreshInv'
  BY DEF Tick, FreshInv, InAttempt
<1>2. ClaimsExclusive' /\ LocalInv' /\ MarkedInv' /\ PublishedAreMatched'
     /\ NoDoubleMatch' /\ StampInv' /\ ReaperInv'
  BY DEF Tick, ClaimsExclusive, Holds, LocalInv, First, MarkedInv, Marked,
     PublishedAreMatched, NoDoubleMatch, StampInv, Clearing, ReaperInv
<1> QED
  BY <1>1, <1>2

(* Every step preserves the invariant. *)
LEMMA InvStep ==
    ASSUME AttemptLimit <= StaleTimeout
    PROVE  ClaimInv /\ [Next]_vars => ClaimInv'
<1> SUFFICES ASSUME ClaimInv, [Next]_vars PROVE ClaimInv'
  OBVIOUS
<1>1. TypeOK'
  BY TypeStep DEF ClaimInv
<1>2. ASSUME NEW w \in Workers, StartAttempt(w) \/ WorkerStep(w) \/ Crash(w)
      PROVE  ClaimInv'
  BY <1>1, <1>2, InvStartAttempt, InvClaimCandidate, InvSkipCandidate,
     InvStoreClaimedBy, InvStoreClaimTimestamp, InvClaimsComplete,
     InvClaimsFailed, InvReleaseClaimedBy, InvReleaseTimestamp,
     InvReleaseCAS, InvAttemptFailed, InvMarkMatched, InvMarksDone,
     InvRemoveFromPool, InvPublish, InvCrash
     DEF WorkerStep
<1>3. ASSUME NEW p \in Players, Cancel(p) PROVE ClaimInv'
  BY <1>1, <1>3, InvCancel
<1>4. CASE ReaperStep
  BY <1>1, <1>4, InvReaperTick, InvReaperLoadState, InvReaperLoadTimestamp,
     InvReaperCAS, InvReaperClearClaimedBy, InvReaperClearTimestamp,
     InvReaperSleep
     DEF ReaperStep
<1>5. CASE Tick
  BY <1>1, <1>5, InvTick
<1>6. CASE UNCHANGED vars
  BY <1>6 DEF vars, playerVars, workerVars, reaperVars, ClaimInv, TypeOK,
     ClaimsExclusive, LocalInv, MarkedInv, PublishedAreMatched, NoDoubleMatch,
     FreshInv, StampInv, ReaperInv, Holds, Marked, InAttempt, Clearing, First
<1> QED
  BY <1>2, <1>3, <1>4, <1>5, <1>6 DEF Next

(* While no attempt outlives the stale-claim timeout, the inductive         *)
(* invariant of the claim protocol holds, for any number of workers,        *)
(* players and panics.                                                      *)
THEOREM ClaimSafety ==
    ASSUME AttemptLimit <= StaleTimeout
    PROVE  Spec => []ClaimInv
<1>1. ClaimInv /\ [Next]_vars => ClaimInv'
  BY InvStep
<1> QED
  BY <1>1, InvInit, PTL DEF Spec

(* No player is in two matches, under the same assumption.  The bound is    *)
(* tight: with AttemptLimit = StaleTimeout + 1 TLC finds a double match.    *)
THEOREM SafeMatches ==
    ASSUME AttemptLimit <= StaleTimeout
    PROVE  Spec => []NoDoubleMatch
<1>1. ClaimInv => NoDoubleMatch
  BY DEF ClaimInv
<1> QED
  BY <1>1, ClaimSafety, PTL

(* mark_matched and release_claim never meet a claim that is not theirs,    *)
(* under the same assumption.                                               *)
THEOREM ExclusiveClaims ==
    ASSUME AttemptLimit <= StaleTimeout
    PROVE  Spec => []ClaimsExclusive
<1>1. ClaimInv => ClaimsExclusive
  BY DEF ClaimInv
<1> QED
  BY <1>1, ClaimSafety, PTL

(* Every player of a published match is MATCHED and stays so, under the     *)
(* same assumption.                                                         *)
THEOREM PublishedStayMatched ==
    ASSUME AttemptLimit <= StaleTimeout
    PROVE  Spec => []PublishedAreMatched
<1>1. ClaimInv => PublishedAreMatched
  BY DEF ClaimInv
<1> QED
  BY <1>1, ClaimSafety, PTL

-----------------------------------------------------------------------------
(* The life cycle of a player, for attempts of any length.                  *)

LifeCycle(p) ==
    \/ state'[p] = state[p]
    \/ state[p] = WAITING /\ state'[p] \in {CLAIMED, EVICTED}
    \/ state[p] = CLAIMED /\ state'[p] \in {WAITING, MATCHED}

(* Every step moves each player along its life cycle. *)
LEMMA LifeCycleStep ==
    TypeOK /\ [Next]_vars => \A p \in Players : LifeCycle(p)
<1> SUFFICES ASSUME TypeOK, [Next]_vars, NEW p \in Players
             PROVE  LifeCycle(p)
  OBVIOUS
<1> USE DEF TypeOK, playerVars, LifeCycle
<1>1. ASSUME NEW w \in Workers, ClaimCandidate(w) PROVE LifeCycle(p)
  BY <1>1 DEF ClaimCandidate
<1>2. ASSUME NEW w \in Workers, ReleaseCAS(w) PROVE LifeCycle(p)
  BY <1>2 DEF ReleaseCAS
<1>3. ASSUME NEW w \in Workers, MarkMatched(w) PROVE LifeCycle(p)
  BY <1>3 DEF MarkMatched
<1>4. ASSUME NEW q \in Players, Cancel(q) PROVE LifeCycle(p)
  BY <1>4 DEF Cancel
<1>5. CASE ReaperCAS
  BY <1>5 DEF ReaperCAS
<1>6. CASE state' = state
  BY <1>6
<1> QED
  BY <1>1, <1>2, <1>3, <1>4, <1>5, <1>6
     DEF Next, WorkerStep, ReaperStep, vars,
         StartAttempt, SkipCandidate, StoreClaimedBy, StoreClaimTimestamp,
         ClaimsComplete, ClaimsFailed, ReleaseClaimedBy, ReleaseTimestamp,
         AttemptFailed, MarksDone, RemoveFromPool, Publish, Crash,
         ReaperTick, ReaperLoadState, ReaperLoadTimestamp,
         ReaperClearClaimedBy, ReaperClearTimestamp, ReaperSleep, Tick

(* MATCHED and EVICTED are terminal and only a claim leads to MATCHED, even *)
(* when the Reaper resets the claims of a live worker.                      *)
THEOREM TerminalStates == Spec => LegalTransitions
<1>1. TypeOK /\ [Next]_vars =>
        [\A p \in Players :
          \/ state'[p] = state[p]
          \/ state[p] = WAITING /\ state'[p] \in {CLAIMED, EVICTED}
          \/ state[p] = CLAIMED /\ state'[p] \in {WAITING, MATCHED}]_vars
  BY LifeCycleStep DEF LifeCycle
<1> QED
  BY <1>1, TypeCorrect, PTL DEF Spec, LegalTransitions

-----------------------------------------------------------------------------
(* Refinement: every step is a step of MatchService or invisible to it.     *)

(* A step that evicts nobody and publishes nothing is invisible. *)
LEMMA Invisible ==
    ASSUME UNCHANGED matches,
           \A p \in Players : (state'[p] = EVICTED) <=> (state[p] = EVICTED)
    PROVE  UNCHANGED Service!vars
  BY DEF Queued, Service!vars

(* A publication is a FormMatch of queued players. *)
LEMMA RefinePublish ==
    ASSUME ClaimInv, NEW w \in Workers, Publish(w)
    PROVE  Service!Next
<1> USE DEF ClaimInv, TypeOK, playerVars
<1>1. claimed[w] = Marked(w) /\ matches' = Append(matches, claimed[w])
      /\ state' = state
  BY DEF Publish, Marked
<1>2. Cardinality(claimed[w]) = MATCH_SIZE
  BY DEF Publish, LocalInv
<1>3. claimed[w] \in SUBSET Queued
  BY <1>1 DEF MarkedInv, Queued
<1>4. Queued' = Queued \ claimed[w]
  <2>1. DOMAIN matches' = DOMAIN matches \cup {Len(matches) + 1}
    BY <1>1
  <2>2. \A i \in DOMAIN matches : matches'[i] = matches[i]
    BY <1>1
  <2>3. matches'[Len(matches) + 1] = claimed[w]
    BY <1>1
  <2> QED
    BY <1>1, <2>1, <2>2, <2>3 DEF Queued
<1> QED
  <2>1. Service!Cardinality(claimed[w]) = Cardinality(claimed[w])
    BY DEF Service!Cardinality, Cardinality
  <2>2. Service!FormMatch(claimed[w])
    BY <1>1, <1>2, <1>4, <2>1 DEF Service!FormMatch
  <2> QED
    BY <1>3, <2>2 DEF Service!Next

(* An eviction is a Cancel of a queued player. *)
LEMMA RefineCancel ==
    ASSUME ClaimInv, NEW p \in Players, Cancel(p)
    PROVE  Service!Next
<1> USE DEF ClaimInv, TypeOK
<1>1. p \in Queued
  BY DEF Cancel, PublishedAreMatched, Queued
<1>2. Queued' = Queued \ {p} /\ UNCHANGED matches
  BY DEF Cancel, Queued
<1> QED
  BY <1>1, <1>2 DEF Service!Next, Service!Cancel

(* Every step maps to a step of MatchService or to a stutter. *)
LEMMA RefineStep ==
    ClaimInv /\ [Next]_vars => [Service!Next]_(Service!vars)
<1> SUFFICES ASSUME ClaimInv, [Next]_vars
             PROVE  Service!Next \/ UNCHANGED Service!vars
  OBVIOUS
<1>1. ASSUME NEW w \in Workers, Publish(w) PROVE Service!Next
  BY <1>1, RefinePublish
<1>2. ASSUME NEW p \in Players, Cancel(p) PROVE Service!Next
  BY <1>2, RefineCancel
<1>3. CASE /\ \A w \in Workers : ~Publish(w)
           /\ \A p \in Players : ~Cancel(p)
  <2>1. UNCHANGED matches
    BY <1>3 DEF Next, WorkerStep, ReaperStep, vars, StartAttempt,
       ClaimCandidate, SkipCandidate, StoreClaimedBy, StoreClaimTimestamp,
       ClaimsComplete, ClaimsFailed, ReleaseClaimedBy, ReleaseTimestamp,
       ReleaseCAS, AttemptFailed, MarkMatched, MarksDone, RemoveFromPool,
       Crash, ReaperTick, ReaperLoadState, ReaperLoadTimestamp, ReaperCAS,
       ReaperClearClaimedBy, ReaperClearTimestamp, ReaperSleep, Tick
  <2>2. TypeOK /\ \A p \in Players : LifeCycle(p)
    BY LifeCycleStep DEF ClaimInv
  <2>3. \A p \in Players : state[p] = WAITING => state'[p] # EVICTED
    <3> USE DEF TypeOK, playerVars
    <3>1. ASSUME NEW w \in Workers, ClaimCandidate(w)
          PROVE  \A p \in Players : state[p] = WAITING => state'[p] # EVICTED
      BY <2>2, <3>1 DEF ClaimCandidate
    <3>2. ASSUME NEW w \in Workers, ReleaseCAS(w)
          PROVE  \A p \in Players : state[p] = WAITING => state'[p] # EVICTED
      BY <2>2, <3>2 DEF ReleaseCAS
    <3>3. ASSUME NEW w \in Workers, MarkMatched(w)
          PROVE  \A p \in Players : state[p] = WAITING => state'[p] # EVICTED
      BY <2>2, <3>3 DEF MarkMatched
    <3>4. CASE ReaperCAS
      BY <2>2, <3>4 DEF ReaperCAS
    <3>5. CASE state' = state
      BY <3>5
    <3> QED
      BY <1>3, <3>1, <3>2, <3>3, <3>4, <3>5
         DEF Next, WorkerStep, ReaperStep, vars, StartAttempt, SkipCandidate,
         StoreClaimedBy, StoreClaimTimestamp, ClaimsComplete, ClaimsFailed,
         ReleaseClaimedBy, ReleaseTimestamp, AttemptFailed, MarksDone,
         RemoveFromPool, Publish, Crash, ReaperTick, ReaperLoadState,
         ReaperLoadTimestamp, ReaperClearClaimedBy, ReaperClearTimestamp,
         ReaperSleep, Tick
  <2> QED
    BY <2>1, <2>2, <2>3, Invisible DEF LifeCycle, TypeOK
<1> QED
  BY <1>1, <1>2, <1>3

(* Under the same assumption the claim protocol implements MatchService. *)
THEOREM Refinement ==
    ASSUME AttemptLimit <= StaleTimeout
    PROVE  Spec => ImplementsService
<1>1. Init => Service!Init
  BY DEF Init, Service!Init, Queued
<1>2. ClaimInv /\ [Next]_vars => [Service!Next]_(Service!vars)
  BY RefineStep
<1> QED
  BY <1>1, <1>2, ClaimSafety, PTL DEF Spec, ImplementsService, Service!Spec

=============================================================================
