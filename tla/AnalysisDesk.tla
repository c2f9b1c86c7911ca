---------------------------- MODULE AnalysisDesk ----------------------------
(***************************************************************************)
(* What a player who asks for an analysis is promised: one reply at most,  *)
(* a ranking of tasks of the request without repetition, of all of them    *)
(* unless the deadline has passed, or none when the player stops waiting.  *)
(***************************************************************************)
EXTENDS Naturals, Sequences

CONSTANTS Requests, \* the calls of /analysis/routes and /analysis/intercept
          SideOf,   \* the side each of them is for
          TaskCount, \* how many tasks an analysis for a side has
          Scorings, \* what all the tasks may be found to be worth
          NoAnswer

VARIABLES player, \* what the caller of each request does
          reply,  \* the ranking made for each request
          late,   \* the deadline of the request has passed
          score   \* what the tasks of each request are worth, as of its snapshot

Tasks(r) == 1..TaskCount[SideOf[r]]

\* Route risk ranks the lowest score first, interception the highest.
Better(r, i, j) == IF SideOf[r] = "FREE_PEOPLES" THEN score[r][i] < score[r][j]
                                                 ELSE score[r][i] > score[r][j]

IsRanking(r, s) ==
    /\ \A i \in DOMAIN s : s[i] \in Tasks(r)
    /\ \A i, j \in DOMAIN s : i < j => s[i] # s[j] /\ ~Better(r, s[j], s[i])

IsComplete(r, s) == \A t \in Tasks(r) : \E i \in DOMAIN s : s[i] = t

Init ==
    /\ player = [r \in Requests |-> "idle"]
    /\ reply = [r \in Requests |-> NoAnswer]
    /\ late = [r \in Requests |-> FALSE]
    /\ score \in Scorings

Ask(r) == /\ player[r] = "idle" /\ player' = [player EXCEPT ![r] = "asking"]
          /\ UNCHANGED <<reply, late>>

Deadline(r) == /\ ~late[r] /\ player[r] # "idle" /\ late' = [late EXCEPT ![r] = TRUE]
               /\ UNCHANGED <<player, reply>>

\* The reply to r, which nobody may be waiting for any more.
Reply(r) ==
    /\ player[r] # "idle" /\ reply[r] = NoAnswer
    /\ reply' = [reply EXCEPT ![r] = reply'[r]]
    /\ reply'[r] # NoAnswer /\ IsRanking(r, reply'[r])
    /\ ~late[r] => IsComplete(r, reply'[r])
    /\ late' = [late EXCEPT ![r] = TRUE]
    /\ UNCHANGED player

Receive(r) == /\ player[r] = "asking" /\ reply[r] # NoAnswer
              /\ player' = [player EXCEPT ![r] = "answered"]
              /\ UNCHANGED <<reply, late>>

GiveUp(r) == /\ player[r] = "asking" /\ player' = [player EXCEPT ![r] = "gaveUp"]
             /\ UNCHANGED <<reply, late>>

Next == /\ UNCHANGED score
        /\ \E r \in Requests : Ask(r) \/ Deadline(r) \/ Reply(r) \/ Receive(r) \/ GiveUp(r)

Spec == Init /\ [][Next]_<<player, reply, late, score>>

=============================================================================
