---------------------------- MODULE MatchService ----------------------------
(***************************************************************************)
(* What the matchmaker promises its callers, without workers, claims, time  *)
(* or the Reaper: a queued player leaves the queue exactly once, either     *)
(* with MATCH_SIZE - 1 others in one new match or by its own cancellation.  *)
(* Claiming implements this specification as long as no attempt outlives    *)
(* the stale-claim timeout.                                                 *)
(***************************************************************************)
EXTENDS Integers, Sequences, FiniteSets

CONSTANTS Players, MATCH_SIZE

VARIABLES
    queued,    \* players that are neither in a published match nor cancelled
    matches    \* the published matches, oldest first

vars == <<queued, matches>>

Init == queued = Players /\ matches = <<>>

(* A full match of players that are all queued. *)
FormMatch(S) ==
    /\ Cardinality(S) = MATCH_SIZE
    /\ queued' = queued \ S
    /\ matches' = Append(matches, S)

(* A cancellation takes one queued player out. *)
Cancel(p) ==
    /\ queued' = queued \ {p}
    /\ UNCHANGED matches

Next ==
    \/ \E S \in SUBSET queued : FormMatch(S)
    \/ \E p \in queued : Cancel(p)

Spec == Init /\ [][Next]_vars
=============================================================================
