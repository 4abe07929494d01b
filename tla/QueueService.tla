---------------------------- MODULE QueueService ----------------------------
(***************************************************************************)
(* What the handlers of POST /enqueue and DELETE /enqueue/:player_id        *)
(* promise: every answer is right about the queue at one moment between the *)
(* request and the answer, and a player joins and leaves the queue at such  *)
(* moments only.  The status codes are those of src/api/mod.rs.             *)
(***************************************************************************)
EXTENDS Naturals

CONSTANTS Ids, Clients

VARIABLES
    status,  \* of each id: "out", "queued", "held" by a worker that may form a
             \* match, or "leaving" by a match or a cancel
    answer   \* of each client: what its request will be answered, or NoAnswer

vars == <<status, answer>>

NoAnswer == [op |-> "none", id |-> 0, code |-> 0]

Init ==
    /\ status = [i \in Ids |-> "out"]
    /\ answer = [c \in Clients |-> NoAnswer]

Decide(c, o, i, k) ==
    /\ answer[c] = NoAnswer
    /\ answer' = [answer EXCEPT ![c] = [op |-> o, id |-> i, code |-> k]]

Become(i, s) == status' = [status EXCEPT ![i] = s]

-----------------------------------------------------------------------------
Join(c, i) == Decide(c, "enqueue", i, 200) /\ status[i] = "out" /\ Become(i, "queued")

AlreadyQueued(c, i) ==
    Decide(c, "enqueue", i, 409) /\ status[i] # "out" /\ UNCHANGED status

Quit(c, i) == Decide(c, "cancel", i, 200) /\ status[i] = "queued" /\ Become(i, "leaving")

(* The player is held or leaving; it may be gone altogether by the time the *)
(* conflict is noticed, and it may be queued again by the time of the answer.*)
BeingMatched(c, i) ==
    Decide(c, "cancel", i, 409) /\ status[i] # "queued" /\ UNCHANGED status

NotFound(c, i) ==
    Decide(c, "cancel", i, 404) /\ status[i] = "out" /\ UNCHANGED status

Reply(c) ==
    /\ answer[c] # NoAnswer
    /\ answer' = [answer EXCEPT ![c] = NoAnswer]
    /\ UNCHANGED status

Move(i, from, to) == status[i] = from /\ Become(i, to) /\ UNCHANGED answer

(* A worker claims a player, for a match or to let it go again.  When it    *)
(* dies its claims are let go by the Reaper.                                *)
Hold(i) == Move(i, "queued", "held")
LetGo(i) == Move(i, "held", "queued")
Match(i) == Move(i, "held", "leaving")

Leave(i) == Move(i, "leaving", "out")

Next ==
    \/ \E c \in Clients, i \in Ids :
          \/ Join(c, i) \/ AlreadyQueued(c, i)
          \/ Quit(c, i) \/ BeingMatched(c, i) \/ NotFound(c, i)
    \/ \E c \in Clients : Reply(c)
    \/ \E i \in Ids : Hold(i) \/ LetGo(i) \/ Match(i) \/ Leave(i)

Spec == Init /\ [][Next]_vars
=============================================================================
