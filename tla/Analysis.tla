------------------------------ MODULE Analysis ------------------------------
(***************************************************************************)
(* The analyses of one instance (package pipeline, and what package api    *)
(* does with it). A handler puts its request into analysisRequestCh and    *)
(* waits; the select loop takes requests one by one and runs the pipeline  *)
(* of the request's side before it goes on: a dispatcher, workers and a    *)
(* closer, all goroutines, under a deadline of 2 seconds.                  *)
(*                                                                         *)
(* resultCh has room for every task, so a send to it never waits, and what *)
(* waits in it and what the aggregator has ranged over are one sequence    *)
(* here. A task is its number in the order of dispatch; the route or the   *)
(* pair it stands for shows only in its score.                             *)
(***************************************************************************)
EXTENDS Naturals, Sequences, SequencesExt

CONSTANTS
    Requests,  \* bound: the calls of /analysis/routes and /analysis/intercept
    SideOf,    \* the side each of them is for
    TaskCount, \* how many routes, or pairs of Nazgul and region, a side has
    Scorings,  \* what ComputeRouteRisk or ComputeIntercept may return for all of them
    Workers,   \* 4 in the code
    TaskCap,   \* capacity of taskCh for each side, 20 and 30 in the code
    RequestCap, \* capacity of analysisRequestCh, 10 in the code
    NoRequest, NoAnswer, Idle, Gone

ASSUME RequestsAssumption ==
    /\ SideOf \in [Requests -> {"FREE_PEOPLES", "SHADOW"}]
    /\ TaskCount \in [{"FREE_PEOPLES", "SHADOW"} -> Nat]
    /\ \A s \in Scorings, r \in Requests : s[r] \in [1..TaskCount[SideOf[r]] -> Nat]

ASSUME PoolAssumption ==
    /\ Workers # {}
    /\ TaskCap \in [{"FREE_PEOPLES", "SHADOW"} -> Nat \ {0}]
    /\ RequestCap \in Nat \ {0}

ASSUME NamesAssumption ==
    /\ NoRequest \notin Requests
    /\ Idle \notin Nat /\ Gone \notin Nat /\ Idle # Gone
    /\ NoAnswer \notin Seq(Nat)

VARIABLES
    stage,      \* where the handler of each request is
    queue,      \* analysisRequestCh
    answer,     \* the resultCh of each request, with room for one
    score,      \* what the tasks of a request will be found to be worth
    serving,    \* the request whose pipeline runs in the select loop
    expired,    \* the context of a pipeline is done: deadline or cancel
    dispatcher, \* the dispatcher of each pipeline; "closed" with taskCh closed
    sent, taken, \* how many tasks went into taskCh, and out of it
    worker,     \* Idle, Gone, or the task in hand; of the pipeline served
    results,    \* the results sent to resultCh
    closed      \* resultCh is closed

handlers == <<stage, queue, answer>>
pool     == <<dispatcher, sent, taken, worker, results, closed>>
vars     == <<handlers, score, serving, expired, pool>>

Tasks(r)    == 1..TaskCount[SideOf[r]]
NoResults   == <<>>
Held        == {worker[w] : w \in Workers} \ {Idle, Gone}
Delivered   == {results[i] : i \in DOMAIN results}
Selecting   == serving = NoRequest

TypeOK ==
    /\ stage \in [Requests -> {"new", "sending", "waiting", "answered", "gaveUp"}]
    /\ queue \in Seq(Requests) /\ Len(queue) <= RequestCap
    /\ answer \in [Requests -> Seq(Nat) \cup {NoAnswer}]
    /\ serving \in Requests \cup {NoRequest}
    /\ expired \in [Requests -> BOOLEAN]
    /\ dispatcher \in [Requests -> {"none", "running", "closed"}]
    /\ sent \in [Requests -> Nat] /\ taken \in [Requests -> Nat]
    /\ \A r \in Requests :
         /\ taken[r] <= sent[r] /\ sent[r] <= TaskCount[SideOf[r]]
         /\ sent[r] - taken[r] <= TaskCap[SideOf[r]]
    /\ worker \in [Workers -> Nat \cup {Idle, Gone}]
    /\ results \in Seq(Nat)
    /\ closed \in BOOLEAN

Init ==
    /\ stage = [r \in Requests |-> "new"] /\ queue = <<>>
    /\ answer = [r \in Requests |-> NoAnswer]
    /\ score \in Scorings
    /\ serving = NoRequest
    /\ expired = [r \in Requests |-> FALSE]
    /\ dispatcher = [r \in Requests |-> "none"]
    /\ sent = [r \in Requests |-> 0] /\ taken = [r \in Requests |-> 0]
    /\ worker = [w \in Workers |-> Gone] /\ results = NoResults /\ closed = FALSE

-----------------------------------------------------------------------------
(* The handlers, handleAnalysisRoutes and handleAnalysisIntercept.         *)

Call(r) ==
    /\ stage[r] = "new" /\ stage' = [stage EXCEPT ![r] = "sending"]
    /\ UNCHANGED <<queue, answer, score, serving, expired, pool>>

\* The send has no timeout: a full channel holds the handler.
Send(r) ==
    /\ stage[r] = "sending" /\ Len(queue) < RequestCap
    /\ queue' = Append(queue, r) /\ stage' = [stage EXCEPT ![r] = "waiting"]
    /\ UNCHANGED <<answer, score, serving, expired, pool>>

Receive(r) ==
    /\ stage[r] = "waiting" /\ answer[r] # NoAnswer
    /\ stage' = [stage EXCEPT ![r] = "answered"]
    /\ UNCHANGED <<queue, answer, score, serving, expired, pool>>

\* 3 seconds are over: 504, and the request stays where it is.
GiveUp(r) ==
    /\ stage[r] = "waiting" /\ stage' = [stage EXCEPT ![r] = "gaveUp"]
    /\ UNCHANGED <<queue, answer, score, serving, expired, pool>>

-----------------------------------------------------------------------------
(* The select loop, case 4; every other case is no step of this module.    *)

\* handleAnalysisRequest: the pipeline is set up and its goroutines are started.
Serve ==
    /\ Selecting /\ queue # <<>>
    /\ serving' = Head(queue) /\ queue' = Tail(queue)
    /\ dispatcher' = [dispatcher EXCEPT ![Head(queue)] = "running"]
    /\ worker' = [w \in Workers |-> Idle]
    /\ UNCHANGED <<stage, answer, score, expired, sent, taken, results, closed>>

Better(r, i, j) == IF SideOf[r] = "FREE_PEOPLES" THEN score[r][i] < score[r][j]
                                                 ELSE score[r][i] > score[r][j]

\* Mutant of Ranked: results stay in the order they came in.
Unranked(r, s) == s

\* The inner loop of the sort: t goes down past the results it is better than.
Inserted(r, sorted, t) ==
    LET place == CHOOSE i \in 0..Len(sorted) :
                   /\ i # 0 => ~Better(r, t, sorted[i])
                   /\ \A j \in (i + 1)..Len(sorted) : Better(r, t, sorted[j])
    IN  InsertAt(sorted, place + 1, t)

\* sortByRisk and its twin: an insertion sort that leaves equals in their order.
Ranked(r, s) ==
    LET sorted[n \in 0..Len(s)] == IF n = 0 THEN <<>> ELSE Inserted(r, sorted[n - 1], s[n])
    IN  sorted[Len(s)]

\* Mutant of Return: the request's channel has no room of its own.
ReturnToCaller ==
    /\ serving # NoRequest /\ closed /\ stage[serving] = "waiting"
    /\ answer' = [answer EXCEPT ![serving] = Ranked(serving, results)]
    /\ expired' = [expired EXCEPT ![serving] = TRUE]
    /\ serving' = NoRequest /\ results' = NoResults /\ closed' = FALSE
    /\ UNCHANGED <<stage, queue, score, dispatcher, sent, taken, worker>>

\* The aggregator sees resultCh closed, ranks what came and returns; the deferred
\* cancel ends the context, the result goes into the request's own channel, and
\* resultCh is garbage.
Return ==
    /\ serving # NoRequest /\ closed
    /\ answer' = [answer EXCEPT ![serving] = Ranked(serving, results)]
    /\ expired' = [expired EXCEPT ![serving] = TRUE]
    /\ serving' = NoRequest /\ results' = NoResults /\ closed' = FALSE
    /\ UNCHANGED <<stage, queue, score, dispatcher, sent, taken, worker>>

-----------------------------------------------------------------------------
(* The pipeline, RunPipeline1 and RunPipeline2.                            *)

Deadline ==
    /\ serving # NoRequest /\ ~expired[serving]
    /\ expired' = [expired EXCEPT ![serving] = TRUE]
    /\ UNCHANGED <<handlers, score, serving, pool>>

\* Mutant of Dispatch: taskCh has no bound.
DispatchUnbounded(r) ==
    /\ dispatcher[r] = "running" /\ sent[r] < TaskCount[SideOf[r]]
    /\ sent' = [sent EXCEPT ![r] = @ + 1]
    /\ UNCHANGED <<handlers, score, serving, expired, dispatcher, taken, worker, results, closed>>

\* The dispatcher goes on while there is room, even after the deadline: select
\* takes either case. It may outlive its pipeline.
Dispatch(r) ==
    /\ dispatcher[r] = "running"
    /\ sent[r] < TaskCount[SideOf[r]] /\ sent[r] - taken[r] < TaskCap[SideOf[r]]
    /\ sent' = [sent EXCEPT ![r] = @ + 1]
    /\ UNCHANGED <<handlers, score, serving, expired, dispatcher, taken, worker, results, closed>>

\* Mutant of StopDispatching: the send to taskCh does not watch the context.
StopWhenSent(r) ==
    /\ dispatcher[r] = "running" /\ sent[r] = TaskCount[SideOf[r]]
    /\ dispatcher' = [dispatcher EXCEPT ![r] = "closed"]
    /\ UNCHANGED <<handlers, score, serving, expired, sent, taken, worker, results, closed>>

\* All sent, or the context is done: the deferred close of taskCh.
StopDispatching(r) ==
    /\ dispatcher[r] = "running"
    /\ sent[r] = TaskCount[SideOf[r]] \/ expired[r]
    /\ dispatcher' = [dispatcher EXCEPT ![r] = "closed"]
    /\ UNCHANGED <<handlers, score, serving, expired, sent, taken, worker, results, closed>>

Take(w) ==
    /\ serving # NoRequest /\ worker[w] = Idle /\ taken[serving] < sent[serving]
    /\ worker' = [worker EXCEPT ![w] = taken[serving] + 1]
    /\ taken' = [taken EXCEPT ![serving] = @ + 1]
    /\ UNCHANGED <<handlers, score, serving, expired, dispatcher, sent, results, closed>>

\* Mutant of Quit: a worker that finds nothing to do leaves.
QuitWhenEmpty(w) ==
    /\ serving # NoRequest /\ worker[w] = Idle
    /\ taken[serving] = sent[serving] \/ expired[serving]
    /\ worker' = [worker EXCEPT ![w] = Gone]
    /\ UNCHANGED <<handlers, score, serving, expired, dispatcher, sent, taken, results, closed>>

\* taskCh closed and empty, or the context done.
Quit(w) ==
    /\ serving # NoRequest /\ worker[w] = Idle
    /\ \/ dispatcher[serving] = "closed" /\ taken[serving] = sent[serving]
       \/ expired[serving]
    /\ worker' = [worker EXCEPT ![w] = Gone]
    /\ UNCHANGED <<handlers, score, serving, expired, dispatcher, sent, taken, results, closed>>

\* The formula is computed to its end, whatever the time, and the result sent ...
Deliver(w) ==
    /\ worker[w] \notin {Idle, Gone}
    /\ results' = Append(results, worker[w]) /\ worker' = [worker EXCEPT ![w] = Idle]
    /\ UNCHANGED <<handlers, score, serving, expired, dispatcher, sent, taken, closed>>

\* Mutant of Drop: a result that cannot be sent at once is thrown away.
DropAnyTime(w) ==
    /\ worker[w] \notin {Idle, Gone}
    /\ worker' = [worker EXCEPT ![w] = Gone]
    /\ UNCHANGED <<handlers, score, serving, expired, dispatcher, sent, taken, results, closed>>

\* ... or, after the deadline, perhaps thrown away.
Drop(w) ==
    /\ worker[w] \notin {Idle, Gone} /\ expired[serving]
    /\ worker' = [worker EXCEPT ![w] = Gone]
    /\ UNCHANGED <<handlers, score, serving, expired, dispatcher, sent, taken, results, closed>>

\* Mutant of CloseResults: the wait group counts one worker.
CloseAfterFirst ==
    /\ serving # NoRequest /\ ~closed /\ \E w \in Workers : worker[w] = Gone
    /\ closed' = TRUE
    /\ UNCHANGED <<handlers, score, serving, expired, dispatcher, sent, taken, worker, results>>

\* The closer: wg.Wait, then close(resultCh).
CloseResults ==
    /\ serving # NoRequest /\ ~closed /\ \A w \in Workers : worker[w] = Gone
    /\ closed' = TRUE
    /\ UNCHANGED <<handlers, score, serving, expired, dispatcher, sent, taken, worker, results>>

-----------------------------------------------------------------------------

Handler(r) == Call(r) \/ Send(r) \/ Receive(r) \/ GiveUp(r)

Dispatcher(r) == Dispatch(r) \/ StopDispatching(r)

Worker(w) == Take(w) \/ Quit(w) \/ Deliver(w) \/ Drop(w)

Next ==
    \/ \E r \in Requests : Handler(r) \/ Dispatcher(r)
    \/ \E w \in Workers : Worker(w)
    \/ Serve \/ Return \/ Deadline \/ CloseResults

Spec == Init /\ [][Next]_vars

\* select takes a case that is ready again and again, and so does a channel with
\* the senders that wait for it; a handler waits 3 seconds and no longer; every
\* goroutine of a pipeline gets on. Nothing is assumed about the deadline: even
\* without it the pipelines end.
FairSpec ==
    /\ Spec
    /\ SF_vars(Serve) /\ WF_vars(Return) /\ WF_vars(CloseResults)
    /\ \A r \in Requests : /\ SF_vars(Send(r)) /\ WF_vars(Receive(r) \/ GiveUp(r))
                           /\ WF_vars(Dispatcher(r))
    /\ \A w \in Workers : WF_vars(Worker(w))

-----------------------------------------------------------------------------

\* Between dispatcher, workers and the result channel no task is worked on
\* twice, and none is lost while the deadline has not passed: what has left
\* taskCh is in a worker's hands or among the results (RunPipeline1, RunPipeline2).
NothingIsLost ==
    serving # NoRequest =>
      /\ Held \cup Delivered \subseteq 1..taken[serving] /\ Held \cap Delivered = {}
      /\ \A v, w \in Workers : worker[v] = worker[w] /\ worker[v] \in Held => v = w
      /\ \A i, j \in DOMAIN results : results[i] = results[j] => i = j
      /\ ~expired[serving] => Held \cup Delivered = 1..taken[serving]

\* resultCh is closed after the last worker has left, in particular never
\* before a send, which would panic (the wait group and the closer).
ClosedAfterLastWorker == closed => \A w \in Workers : worker[w] = Gone

\* An analysis that ends before its deadline has a result for each task of its
\* request; only the deadline makes it partial (RunPipeline1, RunPipeline2).
InTimeIsComplete ==
    [][serving # NoRequest /\ serving' = NoRequest /\ ~expired[serving]
         => Delivered = Tasks(serving)]_vars

\* The select loop comes back from every analysis and takes the next: each
\* request sent is answered in the end, even one whose caller has given up, with
\* or without the deadline (case 4 of Run, and the request's channel of one).
RequestsAreServed == \A r \in Requests : stage[r] = "sending" ~> answer[r] # NoAnswer

\* No dispatcher is left waiting for room in a channel nobody reads any more.
DispatchersEnd == \A r \in Requests : dispatcher[r] = "running" ~> dispatcher[r] = "closed"

\* What the callers see is what they are promised.
Desk == INSTANCE AnalysisDesk WITH
    player <- [r \in Requests |->
                 CASE stage[r] = "new" -> "idle"
                   [] stage[r] \in {"sending", "waiting"} -> "asking"
                   [] OTHER -> stage[r]],
    reply <- answer,
    late <- expired

\* Callers get at most one answer each, ranked for their side, without
\* repetition, and complete unless the deadline has passed (both pipelines
\* behind both handlers).
DeskSpec == Desk!Spec

=============================================================================
