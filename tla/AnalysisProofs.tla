--------------------------- MODULE AnalysisProofs ---------------------------
(***************************************************************************)
(* What is proved of Analysis, for any number of requests, tasks and       *)
(* workers and any capacities: its types and limits, what becomes of the   *)
(* tasks, that the sort ranks them, and that AnalysisDesk is implemented.  *)
(***************************************************************************)
EXTENDS Analysis, SequenceTheorems, WellFoundedInduction, TLAPS

-----------------------------------------------------------------------------
(* Types.                                                                  *)

LoopTypeOK ==
    /\ stage \in [Requests -> {"new", "sending", "waiting", "answered", "gaveUp"}]
    /\ queue \in Seq(Requests)
    /\ serving \in Requests \cup {NoRequest}
    /\ expired \in [Requests -> BOOLEAN]

PoolTypeOK ==
    /\ dispatcher \in [Requests -> {"none", "running", "closed"}]
    /\ sent \in [Requests -> Nat] /\ taken \in [Requests -> Nat]
    /\ \A r \in Requests : taken[r] <= sent[r] /\ sent[r] <= TaskCount[SideOf[r]]
    /\ worker \in [Workers -> Nat \cup {Idle, Gone}]
    /\ results \in Seq(Nat)
    /\ closed \in BOOLEAN

TypesOK == LoopTypeOK /\ PoolTypeOK

LEMMA CountsAreNaturals == \A r \in Requests : TaskCount[SideOf[r]] \in Nat
BY RequestsAssumption

LEMMA InitTypesOK == Init => TypesOK
<1> SUFFICES ASSUME Init
             PROVE  TypesOK
  OBVIOUS
<1>1. LoopTypeOK
  BY EmptySeq DEF Init, LoopTypeOK
<1>2. results \in Seq(Nat)
  BY EmptySeq DEF Init, NoResults
<1>3. sent \in [Requests -> Nat] /\ taken \in [Requests -> Nat]
  BY DEF Init
<1>4. \A r \in Requests : taken[r] <= sent[r] /\ sent[r] <= TaskCount[SideOf[r]]
  BY CountsAreNaturals DEF Init
<1>5. /\ dispatcher \in [Requests -> {"none", "running", "closed"}]
      /\ worker \in [Workers -> Nat \cup {Idle, Gone}] /\ closed \in BOOLEAN
  BY DEF Init
<1>6. PoolTypeOK
  BY <1>2, <1>3, <1>4, <1>5 DEF PoolTypeOK
<1> QED
  BY <1>1, <1>6 DEF TypesOK

\* The first of the queue is a request, and so is what is left.
LEMMA QueueParts ==
    ASSUME LoopTypeOK, queue # <<>>
    PROVE  /\ Head(queue) \in Requests /\ Tail(queue) \in Seq(Requests)
           /\ Head(queue) = queue[1] /\ 1 \in DOMAIN queue
           /\ \A i \in DOMAIN Tail(queue) :
                i + 1 \in DOMAIN queue /\ i + 1 # 1 /\ Tail(queue)[i] = queue[i + 1]
BY HeadTailProperties, LenProperties DEF LoopTypeOK

LEMMA NextTypesOK == TypesOK /\ [Next]_vars => TypesOK'
<1> SUFFICES ASSUME TypesOK, [Next]_vars
             PROVE  TypesOK'
  OBVIOUS
<1> USE DEF TypesOK
<1>1. ASSUME NEW r \in Requests, Handler(r)
      PROVE  TypesOK'
  <2>1. PoolTypeOK'
    BY <1>1 DEF Handler, Call, Send, Receive, GiveUp, PoolTypeOK, pool
  <2>2. LoopTypeOK'
    BY <1>1, AppendProperties DEF Handler, Call, Send, Receive, GiveUp, LoopTypeOK
  <2> QED
    BY <2>1, <2>2
<1>2. ASSUME NEW r \in Requests, Dispatcher(r)
      PROVE  TypesOK'
  <2>1. LoopTypeOK'
    BY <1>2 DEF Dispatcher, Dispatch, StopDispatching, LoopTypeOK, handlers
  <2>2. CASE Dispatch(r)
    BY <2>1, <2>2, CountsAreNaturals DEF Dispatch, PoolTypeOK
  <2>3. CASE StopDispatching(r)
    BY <2>1, <2>3 DEF StopDispatching, PoolTypeOK
  <2> QED
    BY <1>2, <2>2, <2>3 DEF Dispatcher
<1>3. ASSUME NEW w \in Workers, Worker(w)
      PROVE  TypesOK'
  <2>1. LoopTypeOK'
    BY <1>3 DEF Worker, Take, Quit, Deliver, Drop, LoopTypeOK, handlers
  <2>2. CASE Take(w)
    BY <2>1, <2>2, CountsAreNaturals DEF Take, PoolTypeOK, LoopTypeOK
  <2>3. CASE Quit(w)
    BY <2>1, <2>3 DEF Quit, PoolTypeOK
  <2>4. CASE Deliver(w)
    BY <2>1, <2>4, AppendProperties DEF Deliver, PoolTypeOK
  <2>5. CASE Drop(w)
    BY <2>1, <2>5 DEF Drop, PoolTypeOK
  <2> QED
    BY <1>3, <2>2, <2>3, <2>4, <2>5 DEF Worker
<1>4. CASE Serve
  <2>1. queue # <<>> /\ Head(queue) \in Requests /\ Tail(queue) \in Seq(Requests)
    BY <1>4, QueueParts DEF Serve
  <2>2. LoopTypeOK'
    BY <1>4, <2>1 DEF Serve, LoopTypeOK
  <2>3. PoolTypeOK'
    BY <1>4, <2>1 DEF Serve, PoolTypeOK
  <2> QED
    BY <2>2, <2>3
<1>5. CASE Return
  <2>1. results' \in Seq(Nat)
    BY <1>5, EmptySeq DEF Return, NoResults
  <2>2. LoopTypeOK'
    BY <1>5 DEF Return, LoopTypeOK
  <2>3. PoolTypeOK'
    BY <1>5, <2>1 DEF Return, PoolTypeOK
  <2> QED
    BY <2>2, <2>3
<1>6. CASE Deadline
  BY <1>6 DEF Deadline, LoopTypeOK, PoolTypeOK, handlers, pool
<1>7. CASE CloseResults
  BY <1>7 DEF CloseResults, LoopTypeOK, PoolTypeOK, handlers
<1>8. CASE UNCHANGED vars
  BY <1>8 DEF vars, handlers, pool, LoopTypeOK, PoolTypeOK
<1> QED
  BY <1>1, <1>2, <1>3, <1>4, <1>5, <1>6, <1>7, <1>8 DEF Next

-----------------------------------------------------------------------------
(* A request is served once: it is in the queue once, and before it is     *)
(* served nothing of its pipeline exists.                                  *)

Fresh(r) == dispatcher[r] = "none" /\ sent[r] = 0 /\ taken[r] = 0

QueueInv ==
    /\ \A r \in Requests : stage[r] \in {"new", "sending"} => Fresh(r)
    /\ \A i \in DOMAIN queue : stage[queue[i]] \notin {"new", "sending"} /\ Fresh(queue[i])
    /\ \A i, j \in DOMAIN queue : queue[i] = queue[j] => i = j
    /\ serving # NoRequest => dispatcher[serving] # "none"

\* What is queued is a request.
LEMMA QueuedRequests == LoopTypeOK => \A i \in DOMAIN queue : queue[i] \in Requests
BY LenProperties, ElementOfSeq DEF LoopTypeOK

LEMMA InitQueueInv == Init => QueueInv
BY DEF Init, QueueInv, Fresh

LEMMA NextQueueInv == TypesOK /\ QueueInv /\ [Next]_vars => QueueInv'
<1> SUFFICES ASSUME TypesOK, QueueInv, [Next]_vars
             PROVE  QueueInv'
  OBVIOUS
<1> USE DEF TypesOK
<1>1. ASSUME NEW r \in Requests, Send(r)
      PROVE  QueueInv'
  <2>1. /\ queue' = Append(queue, r) /\ stage[r] = "sending"
        /\ stage' = [stage EXCEPT ![r] = "waiting"] /\ UNCHANGED <<serving, dispatcher, sent, taken>>
    BY <1>1 DEF Send, pool
  <2>2. Len(queue) \in Nat /\ DOMAIN queue = 1..Len(queue) /\ DOMAIN queue' = 1..(Len(queue) + 1)
        /\ queue'[Len(queue) + 1] = r /\ \A i \in DOMAIN queue : queue'[i] = queue[i]
    BY <2>1, LenProperties, AppendProperties DEF LoopTypeOK
  <2>3. \A q \in Requests : Fresh(q)' <=> Fresh(q)
    BY <2>1 DEF Fresh
  <2>4. \A i \in DOMAIN queue : queue[i] # r
    BY <2>1 DEF QueueInv
  <2>5. \A i \in DOMAIN queue' :
          stage'[queue'[i]] \notin {"new", "sending"} /\ Fresh(queue[i])'
    <3> SUFFICES ASSUME NEW i \in DOMAIN queue'
                 PROVE  stage'[queue'[i]] \notin {"new", "sending"} /\ Fresh(queue[i])'
      OBVIOUS
    <3>1. CASE i \in DOMAIN queue
      BY <2>1, <2>2, <2>4, <3>1, QueuedRequests DEF QueueInv, LoopTypeOK, Fresh
    <3>2. CASE queue'[i] = r
      BY <2>1, <3>2 DEF QueueInv, LoopTypeOK, Fresh
    <3> QED
      BY <2>2, <3>1, <3>2
  <2>6. \A i, j \in DOMAIN queue' : queue'[i] = queue'[j] => i = j
    BY <2>2, <2>4 DEF QueueInv
  <2>7. \A q \in Requests : stage'[q] \in {"new", "sending"} => Fresh(q)'
    BY <2>1, <2>3 DEF QueueInv, LoopTypeOK
  <2> QED
    BY <2>1, <2>5, <2>6, <2>7 DEF QueueInv, Fresh
<1>2. ASSUME NEW r \in Requests, Call(r) \/ Receive(r) \/ GiveUp(r)
      PROVE  QueueInv'
  <2>1. /\ UNCHANGED <<queue, serving, dispatcher, sent, taken>>
        /\ \A q \in Requests : stage'[q] \in {"new", "sending"} <=> stage[q] \in {"new", "sending"}
    BY <1>2 DEF Call, Receive, GiveUp, pool, LoopTypeOK
  <2> QED
    BY <2>1, QueuedRequests DEF QueueInv, Fresh
<1>3. CASE Serve
  <2>1. /\ queue # <<>> /\ serving' = Head(queue) /\ queue' = Tail(queue) /\ stage' = stage
        /\ dispatcher' = [dispatcher EXCEPT ![Head(queue)] = "running"]
        /\ UNCHANGED <<sent, taken>>
    BY <1>3 DEF Serve
  <2>2. /\ Head(queue) \in Requests /\ Head(queue) = queue[1] /\ 1 \in DOMAIN queue
        /\ \A i \in DOMAIN queue' : i + 1 \in DOMAIN queue /\ i + 1 # 1 /\ queue'[i] = queue[i + 1]
    BY <2>1, QueueParts
  <2>3. \A q \in Requests : q # Head(queue) => (Fresh(q)' <=> Fresh(q))
    BY <2>1 DEF Fresh, PoolTypeOK
  <2>4. \A i \in DOMAIN queue' : /\ queue'[i] \in Requests /\ queue'[i] # Head(queue)
                                 /\ i \in Nat
    BY <2>2, QueuedRequests, LenProperties, QueueParts, <2>1 DEF QueueInv, LoopTypeOK
  <2>5. dispatcher'[serving'] # "none"
    BY <2>1, <2>2 DEF PoolTypeOK
  <2>6. stage[Head(queue)] \notin {"new", "sending"}
    BY <2>2 DEF QueueInv
  <2>7. \A i \in DOMAIN queue' : stage'[queue'[i]] \notin {"new", "sending"} /\ Fresh(queue[i+1])
    BY <2>1, <2>2 DEF QueueInv
  <2>8. \A i \in DOMAIN queue' : Fresh(queue[i])'
    BY <2>1, <2>2, <2>3, <2>4, <2>7
  <2>9. \A i, j \in DOMAIN queue' : queue'[i] = queue'[j] => i = j
    BY <2>2, <2>4 DEF QueueInv
  <2>10. \A q \in Requests : stage'[q] \in {"new", "sending"} => Fresh(q)'
    BY <2>1, <2>3, <2>6 DEF QueueInv
  <2>11. \A i \in DOMAIN queue' : stage'[queue'[i]] \notin {"new", "sending"}
    BY <2>7
  <2> QED
    BY <2>5, <2>8, <2>9, <2>10, <2>11 DEF QueueInv
<1>4. CASE Return
  BY <1>4 DEF Return, QueueInv, Fresh
<1>5. ASSUME NEW r \in Requests, Dispatcher(r)
      PROVE  QueueInv'
  <2>1. /\ UNCHANGED <<stage, queue, serving, taken>> /\ dispatcher[r] = "running" /\ dispatcher'[r] # "none"
        /\ \A q \in Requests : q # r => dispatcher'[q] = dispatcher[q] /\ sent'[q] = sent[q]
    BY <1>5 DEF Dispatcher, Dispatch, StopDispatching, handlers, PoolTypeOK
  <2>2. \A q \in Requests : Fresh(q) => Fresh(q)' /\ q # r
    BY <2>1 DEF Fresh
  <2> QED
    BY <2>1, <2>2, QueuedRequests DEF QueueInv, LoopTypeOK, Fresh
<1>6. ASSUME NEW w \in Workers, Worker(w)
      PROVE  QueueInv'
  <2>1. CASE Take(w)
    <3>1. /\ serving \in Requests /\ UNCHANGED <<stage, queue, serving, dispatcher, sent>>
          /\ \A q \in Requests : q # serving => taken'[q] = taken[q]
      BY <2>1 DEF Take, handlers, LoopTypeOK, PoolTypeOK
    <3>2. dispatcher[serving] # "none"
      BY <2>1 DEF QueueInv, Take
    <3>3. \A q \in Requests : Fresh(q) => Fresh(q)'
      BY <3>1, <3>2 DEF Fresh
    <3> QED
      BY <3>1, <3>3, QueuedRequests DEF QueueInv
  <2>2. CASE Quit(w) \/ Deliver(w) \/ Drop(w)
    BY <2>2 DEF Quit, Deliver, Drop, handlers, QueueInv, Fresh
  <2> QED
    BY <1>6, <2>1, <2>2 DEF Worker
<1>7. CASE Deadline \/ CloseResults \/ UNCHANGED vars
  BY <1>7 DEF Deadline, CloseResults, vars, handlers, pool, QueueInv, Fresh
<1> QED
  BY <1>1, <1>2, <1>3, <1>4, <1>5, <1>6, <1>7 DEF Next, Handler

-----------------------------------------------------------------------------
(* The pipeline that is served.                                            *)

PoolInv ==
    /\ Selecting => (\A w \in Workers : worker[w] = Gone) /\ results = <<>> /\ ~closed
    /\ closed => \A w \in Workers : worker[w] = Gone
    /\ \A r \in Requests :
         dispatcher[r] = "closed" /\ ~expired[r] => sent[r] = TaskCount[SideOf[r]]
    /\ ~Selecting /\ ~expired[serving] =>
         \A w \in Workers : worker[w] = Gone =>
           dispatcher[serving] = "closed" /\ taken[serving] = sent[serving]

LEMMA InitPoolInv == Init => PoolInv
BY DEF Init, PoolInv, Selecting, NoResults

LEMMA NextPoolInv == TypesOK /\ PoolInv /\ [Next]_vars => PoolInv'
<1> SUFFICES ASSUME TypesOK, PoolInv, [Next]_vars
             PROVE  PoolInv'
  OBVIOUS
<1> USE DEF TypesOK
<1>0. NoRequest \notin Requests /\ Idle # Gone /\ Idle \notin Nat /\ Gone \notin Nat
  BY NamesAssumption
<1>1. ASSUME NEW r \in Requests, Handler(r)
      PROVE  PoolInv'
  BY <1>1 DEF Handler, Call, Send, Receive, GiveUp, PoolInv, pool, Selecting
<1>2. ASSUME NEW r \in Requests, Dispatch(r)
      PROVE  PoolInv'
  <2>1. /\ dispatcher[r] = "running" /\ UNCHANGED <<serving, expired, dispatcher, taken, worker, results, closed>>
        /\ \A q \in Requests : q # r => sent'[q] = sent[q]
    BY <1>2 DEF Dispatch, handlers, PoolTypeOK
  <2> QED
    BY <2>1 DEF PoolInv, Selecting, LoopTypeOK
<1>3. ASSUME NEW r \in Requests, StopDispatching(r)
      PROVE  PoolInv'
  <2>1. /\ sent[r] = TaskCount[SideOf[r]] \/ expired[r]
        /\ dispatcher[r] = "running" /\ UNCHANGED <<serving, expired, sent, taken, worker, results, closed>>
        /\ \A q \in Requests : q # r => dispatcher'[q] = dispatcher[q]
    BY <1>3 DEF StopDispatching, handlers, PoolTypeOK
  <2> QED
    BY <2>1 DEF PoolInv, Selecting, LoopTypeOK
<1>4. ASSUME NEW w \in Workers, Take(w)
      PROVE  PoolInv'
  <2>1. /\ ~Selecting /\ serving \in Requests /\ worker[w] = Idle /\ taken[serving] < sent[serving]
        /\ worker'[w] # Gone /\ \A v \in Workers : v # w => worker'[v] = worker[v]
        /\ UNCHANGED <<serving, expired, dispatcher, sent, results, closed>>
    BY <1>0, <1>4 DEF Take, Selecting, handlers, LoopTypeOK, PoolTypeOK
  <2>2. \A v \in Workers : worker[v] = Gone => expired[serving]
    BY <2>1 DEF PoolInv, PoolTypeOK
  <2> QED
    BY <1>0, <2>1, <2>2 DEF PoolInv, Selecting
<1>5. ASSUME NEW w \in Workers, Quit(w) \/ Drop(w)
      PROVE  PoolInv'
  <2>1. /\ ~Selecting /\ worker[w] # Gone
        /\ \/ dispatcher[serving] = "closed" /\ taken[serving] = sent[serving]
           \/ expired[serving]
        /\ \A v \in Workers : v # w => worker'[v] = worker[v]
        /\ worker'[w] = Gone
        /\ UNCHANGED <<serving, expired, dispatcher, sent, taken, results, closed>>
    BY <1>0, <1>5 DEF Quit, Drop, Selecting, handlers, PoolTypeOK, PoolInv
  <2> QED
    BY <2>1 DEF PoolInv, Selecting
<1>6. ASSUME NEW w \in Workers, Deliver(w)
      PROVE  PoolInv'
  <2>1. /\ ~Selecting /\ worker[w] # Gone /\ worker'[w] # Gone
        /\ \A v \in Workers : v # w => worker'[v] = worker[v]
        /\ UNCHANGED <<serving, expired, dispatcher, sent, taken, closed>>
    BY <1>0, <1>6 DEF Deliver, Selecting, handlers, PoolTypeOK, PoolInv
  <2> QED
    BY <2>1 DEF PoolInv, Selecting
<1>7. CASE Serve
  <2>1. /\ Selecting /\ serving' = Head(queue) /\ Head(queue) \in Requests
        /\ dispatcher' = [dispatcher EXCEPT ![Head(queue)] = "running"]
        /\ \A w \in Workers : worker'[w] = Idle
        /\ UNCHANGED <<expired, sent, taken, results, closed>>
    BY <1>7, QueueParts DEF Serve
  <2>2. \A r \in Requests : dispatcher'[r] = "closed" => dispatcher[r] = "closed"
    BY <2>1 DEF PoolTypeOK
  <2> QED
    BY <1>0, <2>1, <2>2 DEF PoolInv, Selecting
<1>8. CASE Return
  <2>1. /\ closed /\ serving \in Requests /\ serving' = NoRequest /\ results' = <<>> /\ ~closed'
        /\ \A r \in Requests : expired[r] => expired'[r]
        /\ UNCHANGED <<dispatcher, sent, taken, worker>>
    BY <1>8 DEF Return, NoResults, LoopTypeOK
  <2> QED
    BY <2>1 DEF PoolInv, Selecting
<1>9. CASE Deadline
  <2>1. /\ ~Selecting /\ serving \in Requests /\ expired'[serving]
        /\ \A r \in Requests : expired[r] => expired'[r]
        /\ UNCHANGED <<serving, dispatcher, sent, taken, worker, results, closed>>
    BY <1>9 DEF Deadline, Selecting, pool, LoopTypeOK
  <2> QED
    BY <2>1 DEF PoolInv, Selecting
<1>10. CASE CloseResults
  BY <1>10 DEF CloseResults, PoolInv, Selecting, handlers
<1>11. CASE UNCHANGED vars
  BY <1>11 DEF vars, handlers, pool, PoolInv, Selecting
<1> QED
  BY <1>1, <1>2, <1>3, <1>4, <1>5, <1>6, <1>7, <1>8, <1>9, <1>10, <1>11
     DEF Next, Dispatcher, Worker

\* resultCh is closed after the last worker has left: no send to a closed channel,
\* however workers, deadline and closer interleave (RunPipeline1, RunPipeline2).
THEOREM ClosedCorrect == Spec => []ClosedAfterLastWorker
<1>1. PoolInv => ClosedAfterLastWorker
  BY DEF PoolInv, ClosedAfterLastWorker
<1> QED
  BY <1>1, InitTypesOK, NextTypesOK, InitPoolInv, NextPoolInv, PTL DEF Spec

-----------------------------------------------------------------------------
(* Tasks and results.                                                      *)

\* A worker takes a task, or does nothing with it: what that does to Held.
LEMMA HeldChanges ==
    ASSUME PoolTypeOK, NEW w \in Workers, NEW x \in Nat \cup {Idle, Gone},
           worker' = [worker EXCEPT ![w] = x]
    PROVE  /\ x \in Nat => Held' \subseteq Held \cup {x} /\ x \in Held'
           /\ x \notin Nat => Held' \subseteq Held
           /\ worker[w] \notin Nat => Held \subseteq Held'
           /\ Held \subseteq Held' \cup {worker[w]}
<1>1. Idle \notin Nat /\ Gone \notin Nat
  BY NamesAssumption
<1>2. worker'[w] = x /\ \A v \in Workers : v # w => worker'[v] = worker[v]
  BY DEF PoolTypeOK
<1>3. \A v \in Workers : worker[v] \in Nat \cup {Idle, Gone}
  BY DEF PoolTypeOK
<1> QED
  BY <1>1, <1>2, <1>3 DEF Held

\* One more result.
LEMMA DeliveredChanges ==
    ASSUME PoolTypeOK, NEW x \in Nat, results' = Append(results, x)
    PROVE  /\ Delivered' = Delivered \cup {x}
           /\ \A i, j \in DOMAIN results' : results'[i] = results'[j] =>
                \/ i = j
                \/ i \in DOMAIN results /\ j \in DOMAIN results /\ results[i] = results[j]
                \/ x \in Delivered
<1>1. /\ Len(results) \in Nat /\ DOMAIN results = 1..Len(results)
      /\ DOMAIN results' = 1..(Len(results) + 1) /\ results'[Len(results) + 1] = x
      /\ \A i \in DOMAIN results : results'[i] = results[i]
  BY AppendProperties, LenProperties DEF PoolTypeOK
<1>2. DOMAIN results' = DOMAIN results \cup {Len(results) + 1} /\ Len(results) + 1 \notin DOMAIN results
  BY <1>1
<1> QED
  BY <1>1, <1>2 DEF Delivered

LEMMA TakeLosesNothing ==
    ASSUME TypesOK, NothingIsLost, NEW w \in Workers, Take(w)
    PROVE  NothingIsLost'
<1> DEFINE x == taken[serving] + 1
<1>1. /\ serving \in Requests /\ serving # NoRequest /\ worker[w] = Idle
      /\ worker' = [worker EXCEPT ![w] = x]
      /\ taken'[serving] = x /\ taken[serving] \in Nat
      /\ UNCHANGED <<serving, expired, results>>
  BY DEF Take, handlers, TypesOK, LoopTypeOK, PoolTypeOK
<1>2. x \in Nat /\ 1..x = (1..taken[serving]) \cup {x} /\ x \notin 1..taken[serving]
  BY <1>1
<1> HIDE DEF x
<1>3. Idle \notin Nat /\ Gone \notin Nat
  BY NamesAssumption
<1>4. x \in Held' /\ Held' = Held \cup {x}
  <2>1. PoolTypeOK /\ x \in Nat \cup {Idle, Gone} /\ worker[w] \notin Nat
    BY <1>1, <1>2, <1>3 DEF TypesOK
  <2>2. Held' \subseteq Held \cup {x} /\ x \in Held' /\ Held \subseteq Held'
    BY <1>1, <1>2, <2>1, HeldChanges
  <2> QED
    BY <2>2
<1>5. Delivered' = Delivered
  BY <1>1 DEF Delivered
<1>6. x \notin Held /\ x \notin Delivered
  BY <1>1, <1>2 DEF NothingIsLost
<1>7. \A v \in Workers : v # w => worker'[v] = worker[v]
  BY <1>1 DEF TypesOK, PoolTypeOK
<1>8. worker'[w] = x
  BY <1>1 DEF TypesOK, PoolTypeOK
<1>9. ASSUME NEW u \in Workers, NEW v \in Workers, worker'[u] = worker'[v], worker'[u] \in Held'
      PROVE  u = v
  <2>1. \A o \in Workers : o # w => worker[o] # x
    BY <1>2, <1>3, <1>6 DEF Held
  <2>2. CASE u = w \/ v = w
    BY <1>7, <1>8, <1>9, <2>1, <2>2
  <2>3. CASE u # w /\ v # w
    BY <1>1, <1>4, <1>7, <1>9, <2>1, <2>3 DEF NothingIsLost
  <2> QED
    BY <2>2, <2>3
<1>10. /\ Held' \cup Delivered' \subseteq 1..x /\ Held' \cap Delivered' = {}
       /\ ~expired[serving] => Held' \cup Delivered' = 1..x
  BY <1>1, <1>2, <1>4, <1>5, <1>6 DEF NothingIsLost
<1> QED
  BY <1>1, <1>9, <1>10 DEF NothingIsLost

LEMMA DeliverLosesNothing ==
    ASSUME TypesOK, PoolInv, NothingIsLost, NEW w \in Workers, Deliver(w)
    PROVE  NothingIsLost'
<1> DEFINE x == worker[w]
<1>0. Idle \notin Nat /\ Gone \notin Nat
  BY NamesAssumption
<1>1. /\ serving # NoRequest /\ x \in Nat /\ x \in Held
      /\ worker' = [worker EXCEPT ![w] = Idle] /\ results' = Append(results, x)
      /\ UNCHANGED <<serving, expired, taken>>
  BY <1>0 DEF Deliver, handlers, TypesOK, PoolTypeOK, PoolInv, Selecting, Held
<1>2. \A v \in Workers : v # w => worker'[v] = worker[v] /\ worker[v] # x
  BY <1>1 DEF TypesOK, PoolTypeOK, NothingIsLost
<1>3. worker'[w] = Idle
  BY <1>1 DEF TypesOK, PoolTypeOK
<1>4. Held' = Held \ {x}
  BY <1>0, <1>1, <1>2, <1>3 DEF Held
<1>5. x \notin Delivered
  BY <1>1 DEF NothingIsLost
<1> HIDE DEF x
<1>6. Delivered' = Delivered \cup {x}
  BY <1>1, DeliveredChanges DEF TypesOK
<1>7. \A i, j \in DOMAIN results' : results'[i] = results'[j] => i = j
  BY <1>1, <1>5, DeliveredChanges DEF TypesOK, NothingIsLost
<1>8. \A u, v \in Workers : worker'[u] = worker'[v] /\ worker'[u] \in Held' => u = v
  <2>1. worker'[w] \notin Held'
    BY <1>3 DEF Held
  <2> QED
    BY <1>1, <1>2, <1>4, <2>1 DEF NothingIsLost
<1>9. Held' \cup Delivered' = Held \cup Delivered /\ Held' \cap Delivered' = {}
  BY <1>1, <1>4, <1>6 DEF NothingIsLost
<1> QED
  BY <1>1, <1>7, <1>8, <1>9 DEF NothingIsLost

\* A worker that leaves with empty hands, or after the deadline.
LEMMA LeaveLosesNothing ==
    ASSUME TypesOK, PoolInv, NothingIsLost, NEW w \in Workers, Quit(w) \/ Drop(w)
    PROVE  NothingIsLost'
<1>0. Idle \notin Nat /\ Gone \notin Nat
  BY NamesAssumption
<1>1. /\ serving # NoRequest /\ (worker[w] \notin Nat \/ expired[serving])
      /\ worker' = [worker EXCEPT ![w] = Gone]
      /\ UNCHANGED <<serving, expired, taken, results>>
  BY <1>0 DEF Quit, Drop, handlers, PoolInv, Selecting
<1>2. worker'[w] = Gone /\ \A v \in Workers : v # w => worker'[v] = worker[v]
  BY <1>1 DEF TypesOK, PoolTypeOK
<1>3. Held' \subseteq Held /\ (worker[w] \notin Nat => Held' = Held)
  BY <1>0, <1>1, HeldChanges DEF TypesOK
<1>4. Delivered' = Delivered
  BY <1>1 DEF Delivered
<1>5. \A u, v \in Workers : worker'[u] = worker'[v] /\ worker'[u] \in Held' => u = v
  <2>1. worker'[w] \notin Held'
    BY <1>2 DEF Held
  <2> QED
    BY <1>1, <1>2, <1>3, <2>1 DEF NothingIsLost
<1> QED
  BY <1>1, <1>3, <1>4, <1>5 DEF NothingIsLost

LEMMA NextLosesNothing ==
    TypesOK /\ QueueInv /\ PoolInv /\ NothingIsLost /\ [Next]_vars => NothingIsLost'
<1> SUFFICES ASSUME TypesOK, QueueInv, PoolInv, NothingIsLost, [Next]_vars
             PROVE  NothingIsLost'
  OBVIOUS
<1>1. ASSUME UNCHANGED <<serving, worker, results, taken, expired>>
      PROVE  NothingIsLost'
  BY <1>1 DEF NothingIsLost, Held, Delivered
<1>2. ASSUME NEW r \in Requests, Handler(r) \/ Dispatcher(r)
      PROVE  NothingIsLost'
  BY <1>1, <1>2 DEF Handler, Call, Send, Receive, GiveUp, Dispatcher, Dispatch, StopDispatching,
                    pool, handlers
<1>3. CASE Serve
  <2>1. /\ serving' \in Requests /\ taken'[serving'] = 0 /\ results' = <<>>
        /\ \A w \in Workers : worker'[w] = Idle
    BY <1>3, QueueParts DEF Serve, QueueInv, Fresh, PoolInv, TypesOK
  <2>2. Held' = {} /\ Delivered' = {} /\ 1..taken'[serving'] = {}
    BY <2>1 DEF Held, Delivered
  <2> QED
    BY <2>1, <2>2 DEF NothingIsLost
<1>4. CASE Return
  BY <1>4 DEF Return, NothingIsLost
<1>5. CASE Deadline
  <2>1. UNCHANGED <<serving, worker, results, taken>> /\ serving \in Requests /\ expired'[serving]
    BY <1>5 DEF Deadline, pool, TypesOK, LoopTypeOK
  <2> QED
    BY <2>1 DEF NothingIsLost, Held, Delivered
<1>6. CASE CloseResults \/ UNCHANGED vars
  BY <1>1, <1>6 DEF CloseResults, vars, handlers, pool
<1> QED
  BY <1>2, <1>3, <1>4, <1>5, <1>6, TakeLosesNothing, DeliverLosesNothing, LeaveLosesNothing
     DEF Next, Worker

\* Between the goroutines of a pipeline no task is worked on twice, and before the
\* deadline none is lost, however many workers and tasks there are (RunPipeline1, 2).
THEOREM NothingLostCorrect == Spec => []NothingIsLost
<1>1. Init => NothingIsLost
  BY DEF Init, NothingIsLost
<1> QED
  BY <1>1, InitTypesOK, NextTypesOK, InitQueueInv, NextQueueInv, InitPoolInv, NextPoolInv,
     NextLosesNothing, PTL DEF Spec

\* An analysis that returns in time has a result for every task: the last worker has
\* left because taskCh was closed and empty, and it was closed because all was sent.
LEMMA ReturnIsComplete ==
    ASSUME TypesOK, PoolInv, NothingIsLost, Return, ~expired[serving]
    PROVE  Delivered = Tasks(serving)
<1>1. serving \in Requests /\ serving # NoRequest /\ \A w \in Workers : worker[w] = Gone
  BY DEF Return, PoolInv, TypesOK, LoopTypeOK
<1>2. dispatcher[serving] = "closed" /\ taken[serving] = sent[serving]
  BY <1>1, PoolAssumption DEF PoolInv, Selecting
<1>3. taken[serving] = TaskCount[SideOf[serving]]
  BY <1>1, <1>2 DEF PoolInv
<1>4. Held = {}
  BY <1>1 DEF Held
<1> QED
  BY <1>1, <1>3, <1>4 DEF NothingIsLost, Tasks

\* An analysis that ends in time has a result for every task of its request
\* (RunPipeline1, RunPipeline2).
THEOREM CompleteCorrect == Spec => InTimeIsComplete
<1> DEFINE Complete == serving # NoRequest /\ serving' = NoRequest /\ ~expired[serving]
                         => Delivered = Tasks(serving)
<1>1. TypesOK /\ PoolInv /\ NothingIsLost /\ [Next]_vars => [Complete]_vars
  <2> SUFFICES ASSUME TypesOK, PoolInv, NothingIsLost, Next,
                      serving # NoRequest, serving' = NoRequest, ~expired[serving]
               PROVE  Delivered = Tasks(serving)
    BY DEF vars
  <2>1. Return
    <3>1. \A r \in Requests : ~Handler(r) /\ ~Dispatcher(r)
      BY DEF Handler, Call, Send, Receive, GiveUp, Dispatcher, Dispatch, StopDispatching
    <3>2. \A w \in Workers : ~Worker(w)
      BY DEF Worker, Take, Quit, Deliver, Drop
    <3>3. ~Serve /\ ~Deadline /\ ~CloseResults
      BY DEF Serve, Deadline, CloseResults, Selecting
    <3> QED
      BY <3>1, <3>2, <3>3 DEF Next
  <2> QED
    BY <2>1, ReturnIsComplete
<1>2. Init => NothingIsLost
  BY DEF Init, NothingIsLost
<1> QED
  BY <1>1, <1>2, InitTypesOK, NextTypesOK, InitQueueInv, NextQueueInv, InitPoolInv, NextPoolInv,
     NextLosesNothing, PTL DEF Spec, InTimeIsComplete

-----------------------------------------------------------------------------
(* The ranking.                                                            *)

\* A non-empty set of naturals has a least element.
LEMMA LeastNumber ==
    ASSUME NEW S \in SUBSET Nat, S # {}
    PROVE  \E m \in S : \A k \in S : m <= k
<1>1. IsWellFoundedOn(OpToRel(<, Nat), Nat)
  BY NatLessThanWellFounded
<1>2. PICK m \in S : \A k \in S : ~(<<k, m>> \in OpToRel(<, Nat))
  BY <1>1, WFMin
<1>3. \A k \in S : ~(k < m)
  BY <1>2 DEF OpToRel
<1> QED
  BY <1>3

\* A set of naturals with 0 and the successor of each member has all of them.
LEMMA AllNumbers ==
    ASSUME NEW S \in SUBSET Nat, 0 \in S, \A n \in S : n + 1 \in S
    PROVE  S = Nat
<1> DEFINE T == Nat \ S
<1>1. SUFFICES ASSUME T # {}
               PROVE  FALSE
  OBVIOUS
<1>2. PICK m \in T : \A k \in T : m <= k
  BY <1>1, LeastNumber
<1>3. m - 1 \in Nat /\ ~(m <= m - 1)
  BY <1>2
<1> QED
  BY <1>2, <1>3

\* A set of numbers up to n that has 0 has a greatest element.
LEMMA GreatestNumber ==
    ASSUME NEW n \in Nat, NEW S \in SUBSET (0..n), 0 \in S
    PROVE  \E m \in S : \A k \in S : k <= m
<1> DEFINE T == {n - k : k \in S}
<1>1. \A k \in S : n - k \in Nat
  OBVIOUS
<1>2. n - 0 \in T
  OBVIOUS
<1> HIDE DEF T
<1>3. PICK t \in T : \A u \in T : t <= u
  <2>1. T \in SUBSET Nat
    BY <1>1 DEF T
  <2> QED
    BY <1>2, <2>1, LeastNumber
<1>4. PICK m \in S : t = n - m
  BY <1>3 DEF T
<1>5. \A k \in S : n - m <= n - k
  BY <1>3, <1>4 DEF T
<1> QED
  BY <1>5

\* What an insertion behind the first k elements makes of a sequence.
LEMMA InsertAtElements ==
    ASSUME NEW S, NEW s \in Seq(S), NEW t \in S, NEW k \in 0..Len(s)
    PROVE  /\ InsertAt(s, k + 1, t) \in Seq(S) /\ Len(InsertAt(s, k + 1, t)) = Len(s) + 1
           /\ \A i \in 1..(Len(s) + 1) :
                InsertAt(s, k + 1, t)[i] = IF i <= k THEN s[i] ELSE IF i = k + 1 THEN t ELSE s[i - 1]
<1> DEFINE n == Len(s)
           a == SubSeq(s, 1, k)
           b == SubSeq(s, k + 1, n)
<1>1. n \in Nat /\ k \in Nat /\ k <= n /\ (k + 1) - 1 = k /\ \A i \in 1..n : s[i] \in S
  BY LenProperties, ElementOfSeq
<1>2. a \in Seq(S) /\ Len(a) = k /\ \A i \in 1..k : a[i] = s[i]
  <2>1. \A i \in 1..k : s[i] \in S
    BY <1>1
  <2>2. /\ SubSeq(s, 1, k) \in Seq(S)
        /\ Len(SubSeq(s, 1, k)) = IF 1 <= k THEN k - 1 + 1 ELSE 0
        /\ \A i \in 1..(k - 1 + 1) : SubSeq(s, 1, k)[i] = s[1 + i - 1]
    <3> HIDE DEF n
    <3> QED
      BY <1>1, <2>1, SubSeqProperties
  <2>3. \A i \in 1..k : 1 + i - 1 = i /\ i \in 1..(k - 1 + 1)
    BY <1>1
  <2> QED
    BY <1>1, <2>2, <2>3
<1>3. b \in Seq(S) /\ Len(b) = n - k /\ \A i \in 1..(n - k) : b[i] = s[k + i]
  <2>1. \A i \in (k + 1)..n : s[i] \in S
    BY <1>1
  <2>2. /\ SubSeq(s, k + 1, n) \in Seq(S)
        /\ Len(SubSeq(s, k + 1, n)) = IF k + 1 <= n THEN n - (k + 1) + 1 ELSE 0
        /\ \A i \in 1..(n - (k + 1) + 1) : SubSeq(s, k + 1, n)[i] = s[(k + 1) + i - 1]
    <3> HIDE DEF n
    <3> QED
      BY <1>1, <2>1, SubSeqProperties
  <2> HIDE DEF n
  <2>3. \A i \in 1..(n - k) : (k + 1) + i - 1 = k + i /\ i \in 1..(n - (k + 1) + 1)
    BY <1>1
  <2> QED
    BY <1>1, <2>2, <2>3
<1>4. InsertAt(s, k + 1, t) = (a \o <<t>>) \o b
  BY <1>1 DEF InsertAt
<1> HIDE DEF n, a, b
<1>5. <<t>> \in Seq(S) /\ Len(<<t>>) = 1 /\ <<t>>[1] = t
  OBVIOUS
<1>6. /\ a \o <<t>> \in Seq(S) /\ Len(a \o <<t>>) = k + 1
      /\ \A i \in 1..(k + 1) : (a \o <<t>>)[i] = IF i <= k THEN s[i] ELSE t
  <2>1. /\ a \o <<t>> \in Seq(S) /\ Len(a \o <<t>>) = Len(a) + Len(<<t>>)
        /\ \A i \in 1..(Len(a) + Len(<<t>>)) :
             (a \o <<t>>)[i] = IF i <= Len(a) THEN a[i] ELSE <<t>>[i - Len(a)]
    BY <1>2, <1>5, ConcatProperties
  <2>2. \A i \in 1..(k + 1) : (i <= k => i \in 1..k) /\ (~(i <= k) => i - k = 1)
    BY <1>1
  <2> QED
    BY <1>1, <1>2, <1>5, <2>1, <2>2
<1> DEFINE c == a \o <<t>>
<1> HIDE DEF c
<1>7. /\ c \o b \in Seq(S) /\ Len(c \o b) = (k + 1) + (n - k)
      /\ \A i \in 1..((k + 1) + (n - k)) : (c \o b)[i] = IF i <= k + 1 THEN c[i] ELSE b[i - (k + 1)]
  <2>1. c \in Seq(S) /\ Len(c) = k + 1
    BY <1>6 DEF c
  <2>2. /\ c \o b \in Seq(S) /\ Len(c \o b) = Len(c) + Len(b)
        /\ \A i \in 1..(Len(c) + Len(b)) : (c \o b)[i] = IF i <= Len(c) THEN c[i] ELSE b[i - Len(c)]
    BY <1>3, <2>1, ConcatProperties
  <2>3. Len(c) = k + 1 /\ Len(b) = n - k
    BY <1>3, <2>1
  <2> QED
    BY <2>2, <2>3
<1>8. ASSUME NEW i \in 1..(n + 1)
      PROVE  (c \o b)[i] = IF i <= k THEN s[i] ELSE IF i = k + 1 THEN t ELSE s[i - 1]
  <2>1. i \in 1..((k + 1) + (n - k))
    BY <1>1
  <2>2. CASE i <= k + 1
    <3>1. i \in 1..(k + 1) /\ (i <= k \/ i = k + 1) /\ ~(k + 1 <= k)
      BY <1>1, <2>2
    <3> QED
      BY <1>6, <1>7, <2>1, <2>2, <3>1 DEF c
  <2>3. CASE ~(i <= k + 1)
    <3>1. i - (k + 1) \in 1..(n - k) /\ k + (i - (k + 1)) = i - 1 /\ ~(i <= k) /\ i # k + 1
      BY <1>1, <2>3
    <3> QED
      BY <1>3, <1>7, <2>1, <2>3, <3>1
  <2> QED
    BY <2>2, <2>3
<1>9. (k + 1) + (n - k) = n + 1
  BY <1>1
<1> DEFINE u == InsertAt(s, k + 1, t)
<1>10. u = c \o b
  BY <1>4 DEF c
<1> HIDE DEF u
<1>11. /\ u \in Seq(S) /\ Len(u) = n + 1
       /\ \A i \in 1..(n + 1) : u[i] = IF i <= k THEN s[i] ELSE IF i = k + 1 THEN t ELSE s[i - 1]
  BY <1>7, <1>8, <1>9, <1>10
<1> QED
  BY <1>11 DEF u, n

\* Where a result stops going down: behind the last that it is not better than.
LEMMA PlaceExists ==
    ASSUME NEW r, NEW t, NEW s, Len(s) \in Nat
    PROVE  \E i \in 0..Len(s) : /\ i # 0 => ~Better(r, t, s[i])
                                /\ \A j \in (i + 1)..Len(s) : Better(r, t, s[j])
<1> DEFINE n == Len(s)
           T == {i \in 0..n : i # 0 => ~Better(r, t, s[i])}
<1>1. 0 \in T
  OBVIOUS
<1> HIDE DEF n
<1>2. PICK m \in T : \A k \in T : k <= m
  <2>1. T \in SUBSET (0..n) /\ n \in Nat
    BY DEF n
  <2> HIDE DEF T
  <2> QED
    BY <1>1, <2>1, GreatestNumber
<1>3. ASSUME NEW j \in (m + 1)..n
      PROVE  Better(r, t, s[j])
  <2>1. j \in 0..n /\ ~(j <= m) /\ j # 0
    BY <1>2 DEF n
  <2> QED
    BY <1>2, <2>1
<1> QED
  BY <1>2, <1>3 DEF n

\* u is s with t behind its first k elements, where the insertion sort puts it.
InsertedAt(r, s, t, k, u) ==
    /\ k # 0 => ~Better(r, t, s[k])
    /\ \A j \in (k + 1)..Len(s) : Better(r, t, s[j])
    /\ Len(u) = Len(s) + 1
    /\ \A i \in 1..(Len(s) + 1) :
         u[i] = IF i <= k THEN s[i] ELSE IF i = k + 1 THEN t ELSE s[i - 1]

\* What one round of the insertion sort makes of the sorted results.
LEMMA InsertedElements ==
    ASSUME NEW r, NEW S, NEW s \in Seq(S), NEW t \in S
    PROVE  /\ Inserted(r, s, t) \in Seq(S)
           /\ \E k \in 0..Len(s) : InsertedAt(r, s, t, k, Inserted(r, s, t))
<1> DEFINE Place(i) == /\ i # 0 => ~Better(r, t, s[i])
                       /\ \A j \in (i + 1)..Len(s) : Better(r, t, s[j])
           k == CHOOSE i \in 0..Len(s) : Place(i)
<1>1. \E i \in 0..Len(s) : Place(i)
  BY LenProperties, PlaceExists
<1>2. k \in 0..Len(s) /\ Place(k)
  <2> HIDE DEF Place
  <2> QED
    BY <1>1
<1>3. Inserted(r, s, t) = InsertAt(s, k + 1, t)
  BY DEF Inserted
<1> HIDE DEF k
<1>4. /\ InsertAt(s, k + 1, t) \in Seq(S) /\ Len(InsertAt(s, k + 1, t)) = Len(s) + 1
      /\ \A i \in 1..(Len(s) + 1) :
           InsertAt(s, k + 1, t)[i] = IF i <= k THEN s[i] ELSE IF i = k + 1 THEN t ELSE s[i - 1]
  BY <1>2, InsertAtElements
<1>5. InsertedAt(r, s, t, k, Inserted(r, s, t))
  BY <1>2, <1>3, <1>4 DEF InsertedAt
<1> QED
  BY <1>2, <1>3, <1>4, <1>5

\* f is what the recursive function in Ranked(r, s) is: the first 0, 1, ... n results, sorted.
SortTable(r, s, n, f) ==
    f = [m \in 0..n |-> IF m = 0 THEN <<>> ELSE Inserted(r, f[m - 1], s[m])]

\* There is such a table for every n: a table for m is continued by one insertion.
LEMMA SortTableExists ==
    ASSUME NEW r, NEW s, NEW n \in Nat
    PROVE  \E f : SortTable(r, s, n, f)
<1> DEFINE S == {m \in Nat : \E f : SortTable(r, s, m, f)}
<1>1. 0 \in S
  <2> DEFINE f == [k \in 0..0 |-> <<>>]
  <2>1. SortTable(r, s, 0, f)
    BY DEF SortTable
  <2> QED
    BY <2>1
<1>2. ASSUME NEW m \in S
      PROVE  m + 1 \in S
  <2>1. PICK f : SortTable(r, s, m, f)
    OBVIOUS
  <2> DEFINE g == [k \in 0..(m + 1) |-> IF k = m + 1 THEN Inserted(r, f[m], s[m + 1]) ELSE f[k]]
             h == [k \in 0..(m + 1) |-> IF k = 0 THEN <<>> ELSE Inserted(r, g[k - 1], s[k])]
  <2>2. \A k \in 0..m : f[k] = IF k = 0 THEN <<>> ELSE Inserted(r, f[k - 1], s[k])
    BY <2>1 DEF SortTable
  <2>3. ASSUME NEW k \in 0..(m + 1)
        PROVE  g[k] = h[k]
    <3>1. CASE k = m + 1
      <4>1. k # 0 /\ k - 1 = m /\ m \in 0..(m + 1) /\ m # m + 1
        BY <3>1
      <4>2. g[k] = Inserted(r, f[m], s[m + 1]) /\ g[k - 1] = f[m]
        BY <3>1, <4>1
      <4> QED
        BY <3>1, <4>1, <4>2
    <3>2. CASE k # m + 1
      <4>1. k \in 0..m /\ (k # 0 => k - 1 \in 0..(m + 1) /\ k - 1 # m + 1)
        BY <3>2
      <4>2. g[k] = f[k] /\ (k # 0 => g[k - 1] = f[k - 1])
        BY <3>2, <4>1
      <4> QED
        BY <2>2, <4>1, <4>2
    <3> QED
      BY <3>1, <3>2
  <2>4. g = h
    BY <2>3
  <2>5. SortTable(r, s, m + 1, g)
    BY <2>4 DEF SortTable
  <2> QED
    BY <2>5
<1> HIDE DEF S
<1>3. S = Nat
  <2>1. S \in SUBSET Nat
    BY DEF S
  <2> QED
    BY <1>1, <1>2, <2>1, AllNumbers
<1> QED
  BY <1>3 DEF S

\* Ranked reads its answer off such a table.
LEMMA RankedUnfolds ==
    ASSUME NEW r, NEW s, Len(s) \in Nat
    PROVE  \E f : SortTable(r, s, Len(s), f) /\ Ranked(r, s) = f[Len(s)]
<1> DEFINE F == CHOOSE f : SortTable(r, s, Len(s), f)
<1>1. SortTable(r, s, Len(s), F)
  BY SortTableExists
<1>2. Ranked(r, s) = F[Len(s)]
  BY DEF Ranked, SortTable
<1> QED
  BY <1>1, <1>2

\* The scores put the tasks of a request in an order.
LEMMA BetterOrder ==
    ASSUME NEW r \in Requests, score[r] \in [Tasks(r) -> Nat],
           NEW a \in Tasks(r), NEW b \in Tasks(r), NEW c \in Tasks(r)
    PROVE  /\ Better(r, a, b) => ~Better(r, b, a)
           /\ ~Better(r, b, a) /\ ~Better(r, c, b) => ~Better(r, c, a)
<1>1. score[r][a] \in Nat /\ score[r][b] \in Nat /\ score[r][c] \in Nat
  OBVIOUS
<1> QED
  BY <1>1 DEF Better

\* A ranking, one without repetition, and what it ranks.
Ordered(r, s)   == \A i, j \in DOMAIN s : i < j => ~Better(r, s[j], s[i])
Distinct(s)     == \A i, j \in DOMAIN s : s[i] = s[j] => i = j
Elements(s)     == {s[i] : i \in DOMAIN s}

\* An insertion adds one element, and keeps what is distinct and in order so.
LEMMA InsertedKeeps ==
    ASSUME NEW r \in Requests, score[r] \in [Tasks(r) -> Nat],
           NEW s \in Seq(Tasks(r)), NEW t \in Tasks(r),
           Ordered(r, s), Distinct(s), t \notin Elements(s)
    PROVE  LET u == Inserted(r, s, t) IN
           Ordered(r, u) /\ Distinct(u) /\ Elements(u) = Elements(s) \cup {t}
<1> DEFINE n == Len(s)
           u == Inserted(r, s, t)
<1>0. PICK k \in 0..n : InsertedAt(r, s, t, k, u)
  BY InsertedElements
<1>1. /\ k # 0 => ~Better(r, t, s[k])
      /\ \A j \in (k + 1)..n : Better(r, t, s[j])
      /\ u \in Seq(Tasks(r)) /\ Len(u) = n + 1
      /\ \A i \in 1..(n + 1) : u[i] = IF i <= k THEN s[i] ELSE IF i = k + 1 THEN t ELSE s[i - 1]
  BY <1>0, InsertedElements DEF InsertedAt
<1>2. n \in Nat /\ DOMAIN s = 1..n /\ DOMAIN u = 1..(n + 1) /\ \A i \in 1..n : s[i] \in Tasks(r)
  BY <1>1, LenProperties, ElementOfSeq
<1> HIDE DEF n, u
<1>3. k \in Nat /\ k <= n
  BY <1>2
<1> DEFINE old(i) == IF i <= k THEN i ELSE i - 1
<1>4. \A i \in 1..(n + 1) : i # k + 1 => old(i) \in 1..n /\ u[i] = s[old(i)] /\ u[i] \in Tasks(r)
  <2> TAKE i \in 1..(n + 1)
  <2>1. CASE i <= k
    BY <1>1, <1>2, <1>3, <2>1
  <2>2. CASE ~(i <= k)
    BY <1>1, <1>2, <1>3, <2>2
  <2> QED
    BY <2>1, <2>2
<1>5. u[k + 1] = t /\ k + 1 \in 1..(n + 1)
  <2>1. k + 1 \in 1..(n + 1) /\ ~(k + 1 <= k)
    BY <1>2, <1>3
  <2> QED
    BY <1>1, <2>1
<1>6. \A i, j \in 1..(n + 1) : i # k + 1 /\ j # k + 1 /\ i < j => old(i) < old(j)
  BY <1>2, <1>3
<1>7. \A i \in 1..n : \E j \in 1..(n + 1) : j # k + 1 /\ old(j) = i
  <2> TAKE i \in 1..n
  <2>1. CASE i <= k
    <3>1. i \in 1..(n + 1) /\ i # k + 1 /\ old(i) = i
      BY <1>2, <1>3, <2>1
    <3> QED
      BY <3>1
  <2>2. CASE ~(i <= k)
    <3>1. i + 1 \in 1..(n + 1) /\ i + 1 # k + 1 /\ ~(i + 1 <= k) /\ (i + 1) - 1 = i
      BY <1>2, <1>3, <2>2
    <3> QED
      BY <3>1
  <2> QED
    BY <2>1, <2>2
<1>8. Elements(u) = Elements(s) \cup {t}
  <2>1. \A x \in Elements(u) : x \in Elements(s) \cup {t}
    BY <1>2, <1>4, <1>5 DEF Elements
  <2>2. ASSUME NEW x \in Elements(s)
        PROVE  x \in Elements(u)
    <3>1. PICK i \in 1..n : x = s[i]
      BY <1>2 DEF Elements
    <3>2. PICK j \in 1..(n + 1) : j # k + 1 /\ old(j) = i
      BY <1>7
    <3>3. u[j] = s[old(j)]
      BY <1>4, <3>2
    <3> HIDE DEF old
    <3> QED
      BY <1>2, <3>1, <3>2, <3>3 DEF Elements
  <2>3. t \in Elements(u)
    BY <1>2, <1>5 DEF Elements
  <2> QED
    BY <2>1, <2>2, <2>3
<1>9. \A i \in 1..n : s[i] # t
  BY <1>2 DEF Elements
<1>10. Distinct(u)
  <2> SUFFICES ASSUME NEW i \in 1..(n + 1), NEW j \in 1..(n + 1), i < j, u[i] = u[j]
               PROVE  FALSE
    BY <1>2 DEF Distinct
  <2>1. i # k + 1 /\ j # k + 1
    BY <1>4, <1>5, <1>9
  <2>2. old(i) = old(j)
    BY <1>2, <1>4, <2>1 DEF Distinct
  <2>3. old(i) < old(j) /\ old(i) \in Nat /\ old(j) \in Nat
    BY <1>2, <1>4, <1>6, <2>1
  <2> HIDE DEF old
  <2> QED
    BY <2>2, <2>3
<1>11. ASSUME NEW i \in 1..(n + 1), NEW j \in 1..(n + 1), i < j
       PROVE  ~Better(r, u[j], u[i])
  <2>1. CASE i # k + 1 /\ j # k + 1
    <3>1. old(i) \in 1..n /\ old(j) \in 1..n /\ old(i) < old(j) /\ u[i] = s[old(i)] /\ u[j] = s[old(j)]
      BY <1>4, <1>6, <1>11, <2>1
    <3> HIDE DEF old
    <3> QED
      BY <1>2, <3>1 DEF Ordered
  <2>2. CASE i = k + 1
    <3>1. j # k + 1 /\ j - 1 \in (k + 1)..n /\ ~(j <= k) /\ j - 1 \in 1..n
      BY <1>2, <1>3, <1>11, <2>2
    <3>2. u[j] = s[j - 1] /\ Better(r, t, s[j - 1]) /\ s[j - 1] \in Tasks(r) /\ u[i] = t
      BY <1>1, <1>2, <1>4, <1>5, <2>2, <3>1
    <3> QED
      BY <3>2, BetterOrder
  <2>3. CASE j = k + 1
    <3>1. i <= k /\ i \in 1..n /\ k \in 1..n /\ k # 0 /\ (i < k \/ i = k)
      BY <1>2, <1>3, <1>11, <2>3
    <3>2. u[i] = s[i] /\ u[j] = t /\ ~Better(r, t, s[k]) /\ s[i] \in Tasks(r) /\ s[k] \in Tasks(r)
      BY <1>1, <1>2, <1>5, <2>3, <3>1
    <3>3. CASE i = k
      BY <3>2, <3>3
    <3>4. CASE i < k
      <4>1. ~Better(r, s[k], s[i])
        BY <1>2, <3>1, <3>4 DEF Ordered
      <4> QED
        BY <3>2, <4>1, BetterOrder
    <3> QED
      BY <3>1, <3>3, <3>4
  <2> QED
    BY <2>1, <2>2, <2>3
<1>12. Ordered(r, u)
  BY <1>2, <1>11 DEF Ordered
<1> QED
  BY <1>8, <1>10, <1>12 DEF u

\* Sorting rearranges numbers into numbers.
LEMMA RankedType ==
    ASSUME NEW r, NEW S, NEW s \in Seq(S)
    PROVE  Ranked(r, s) \in Seq(S)
<1> DEFINE n == Len(s)
<1>0. n \in Nat /\ \A i \in 1..n : s[i] \in S
  BY LenProperties, ElementOfSeq
<1>1. PICK f : SortTable(r, s, n, f) /\ Ranked(r, s) = f[n]
  BY <1>0, RankedUnfolds
<1>2. \A m \in 0..n : f[m] = IF m = 0 THEN <<>> ELSE Inserted(r, f[m - 1], s[m])
  BY <1>1 DEF SortTable
<1> HIDE DEF n
<1> DEFINE T == {m \in Nat : m <= n => f[m] \in Seq(S)}
<1>3. 0 \in T
  <2>1. f[0] = <<>>
    BY <1>0, <1>2
  <2> QED
    BY <2>1, EmptySeq
<1>4. ASSUME NEW m \in T
      PROVE  m + 1 \in T
  <2> SUFFICES ASSUME m + 1 <= n
               PROVE  f[m + 1] \in Seq(S)
    OBVIOUS
  <2>1. m \in Nat /\ m <= n /\ m + 1 \in 0..n /\ m + 1 \in 1..n /\ m + 1 # 0 /\ (m + 1) - 1 = m
    BY <1>0
  <2>2. f[m + 1] = Inserted(r, f[m], s[m + 1]) /\ f[m] \in Seq(S) /\ s[m + 1] \in S
    BY <1>0, <1>2, <2>1
  <2> QED
    BY <2>2, InsertedElements
<1> HIDE DEF T
<1>5. T = Nat
  <2>1. T \in SUBSET Nat
    BY DEF T
  <2> QED
    BY <1>3, <1>4, <2>1, AllNumbers
<1> QED
  BY <1>0, <1>1, <1>5 DEF T

\* Sorting distinct tasks ranks just those tasks.
LEMMA RankedRanks ==
    ASSUME NEW r \in Requests, score[r] \in [Tasks(r) -> Nat],
           NEW s \in Seq(Tasks(r)), Distinct(s)
    PROVE  /\ Ordered(r, Ranked(r, s)) /\ Distinct(Ranked(r, s))
           /\ Elements(Ranked(r, s)) = Elements(s)
<1> DEFINE n == Len(s)
           First(m) == {s[i] : i \in 1..m}
<1>0. n \in Nat /\ DOMAIN s = 1..n /\ \A i \in 1..n : s[i] \in Tasks(r)
  BY LenProperties, ElementOfSeq
<1>1. PICK f : SortTable(r, s, n, f) /\ Ranked(r, s) = f[n]
  BY <1>0, RankedUnfolds
<1>2. \A m \in 0..n : f[m] = IF m = 0 THEN <<>> ELSE Inserted(r, f[m - 1], s[m])
  BY <1>1 DEF SortTable
<1> HIDE DEF n
<1> DEFINE T == {m \in Nat : m <= n =>
                   /\ f[m] \in Seq(Tasks(r)) /\ Ordered(r, f[m]) /\ Distinct(f[m])
                   /\ Elements(f[m]) = First(m)}
<1>3. 0 \in T
  <2>1. f[0] = <<>> /\ DOMAIN <<>> = {} /\ 1..0 = {}
    BY <1>0, <1>2
  <2>2. <<>> \in Seq(Tasks(r)) /\ Ordered(r, <<>>) /\ Distinct(<<>>)
    BY <2>1, EmptySeq DEF Ordered, Distinct
  <2>3. Elements(<<>>) = {} /\ First(0) = {}
    BY <2>1 DEF Elements
  <2> HIDE DEF First
  <2> QED
    BY <2>1, <2>2, <2>3
<1>4. ASSUME NEW m \in T
      PROVE  m + 1 \in T
  <2> SUFFICES ASSUME m + 1 <= n
               PROVE  /\ f[m + 1] \in Seq(Tasks(r)) /\ Ordered(r, f[m + 1]) /\ Distinct(f[m + 1])
                      /\ Elements(f[m + 1]) = First(m + 1)
    OBVIOUS
  <2>1. m \in Nat /\ m <= n /\ m + 1 \in 0..n /\ m + 1 \in 1..n /\ m + 1 # 0 /\ (m + 1) - 1 = m
    BY <1>0
  <2>2. f[m + 1] = Inserted(r, f[m], s[m + 1]) /\ s[m + 1] \in Tasks(r)
    BY <1>0, <1>2, <2>1
  <2>3. f[m] \in Seq(Tasks(r)) /\ Ordered(r, f[m]) /\ Distinct(f[m]) /\ Elements(f[m]) = First(m)
    BY <2>1
  <2>4. s[m + 1] \notin First(m)
    <3> SUFFICES ASSUME NEW i \in 1..m, s[i] = s[m + 1]
                 PROVE  FALSE
      OBVIOUS
    <3>1. i \in 1..n /\ i # m + 1
      BY <1>0, <2>1
    <3> QED
      BY <1>0, <2>1, <3>1 DEF Distinct
  <2>5. First(m + 1) = First(m) \cup {s[m + 1]}
    <3>1. \A i : i \in 1..(m + 1) <=> i \in 1..m \/ i = m + 1
      BY <2>1
    <3> QED
      BY <3>1
  <2> HIDE DEF First
  <2>6. f[m + 1] \in Seq(Tasks(r))
    BY <2>2, <2>3, InsertedElements
  <2>7. /\ Ordered(r, f[m + 1]) /\ Distinct(f[m + 1])
        /\ Elements(f[m + 1]) = Elements(f[m]) \cup {s[m + 1]}
    BY <2>2, <2>3, <2>4, InsertedKeeps
  <2> QED
    BY <2>3, <2>5, <2>6, <2>7
<1> HIDE DEF T
<1>5. T = Nat
  <2>1. T \in SUBSET Nat
    BY DEF T
  <2> QED
    BY <1>3, <1>4, <2>1, AllNumbers
<1>6. Ordered(r, f[n]) /\ Distinct(f[n]) /\ Elements(f[n]) = First(n)
  <2>1. n \in T /\ n <= n
    BY <1>0, <1>5
  <2> HIDE DEF First
  <2> QED
    BY <2>1 DEF T
<1> QED
  BY <1>0, <1>1, <1>6 DEF Elements

-----------------------------------------------------------------------------
(* Answers and limits.                                                     *)

LimitInv ==
    /\ Len(queue) <= RequestCap
    /\ \A r \in Requests : sent[r] - taken[r] <= TaskCap[SideOf[r]]

AnswerInv ==
    /\ score \in Scorings /\ answer \in [Requests -> Seq(Nat) \cup {NoAnswer}]
    /\ \A r \in Requests : stage[r] \in {"new", "sending"} => answer[r] = NoAnswer
    /\ \A i \in DOMAIN queue : answer[queue[i]] = NoAnswer
    /\ ~Selecting => stage[serving] \notin {"new", "sending"} /\ answer[serving] = NoAnswer

LEMMA InitLimitInv == Init => LimitInv
<1> SUFFICES ASSUME Init
             PROVE  LimitInv
  OBVIOUS
<1>1. Len(queue) = 0 /\ RequestCap \in Nat /\ \A r \in Requests : TaskCap[SideOf[r]] \in Nat
  BY EmptySeq, PoolAssumption, RequestsAssumption DEF Init
<1> QED
  BY <1>1 DEF Init, LimitInv

LEMMA NextLimitInv == TypesOK /\ LimitInv /\ [Next]_vars => LimitInv'
<1> SUFFICES ASSUME TypesOK, LimitInv, [Next]_vars
             PROVE  LimitInv'
  OBVIOUS
<1> USE DEF TypesOK
<1>0. /\ RequestCap \in Nat /\ \A r \in Requests : TaskCap[SideOf[r]] \in Nat
      /\ \A r \in Requests : sent[r] \in Nat /\ taken[r] \in Nat
  BY PoolAssumption, RequestsAssumption DEF PoolTypeOK
<1>1. ASSUME UNCHANGED <<queue, sent, taken>>
      PROVE  LimitInv'
  BY <1>1 DEF LimitInv
<1>2. ASSUME NEW r \in Requests, Send(r)
      PROVE  LimitInv'
  <2>1. Len(queue') = Len(queue) + 1 /\ Len(queue) \in Nat
    BY <1>2, AppendProperties, LenProperties DEF Send, LoopTypeOK
  <2>2. Len(queue') <= RequestCap
    BY <1>0, <1>2, <2>1 DEF Send
  <2> QED
    BY <1>2, <2>2 DEF Send, pool, LimitInv
<1>3. CASE Serve
  <2>1. Len(queue') = Len(queue) - 1 /\ Len(queue) \in Nat
    BY <1>3, HeadTailProperties, LenProperties DEF Serve, LoopTypeOK
  <2>2. Len(queue') <= RequestCap
    BY <1>0, <2>1 DEF LimitInv
  <2> QED
    BY <1>3, <2>2 DEF Serve, LimitInv
<1>4. ASSUME NEW r \in Requests, Dispatch(r)
      PROVE  LimitInv'
  <2>1. ASSUME NEW q \in Requests
        PROVE  sent'[q] - taken'[q] <= TaskCap[SideOf[q]]
    <3>1. CASE q = r
      <4>1. sent'[q] = sent[q] + 1 /\ taken'[q] = taken[q] /\ sent[q] - taken[q] < TaskCap[SideOf[q]]
        BY <1>4, <3>1 DEF Dispatch, PoolTypeOK
      <4> QED
        BY <1>0, <4>1
    <3>2. CASE q # r
      BY <1>4, <3>2 DEF Dispatch, LimitInv, PoolTypeOK
    <3> QED
      BY <3>1, <3>2
  <2> QED
    BY <1>4, <2>1 DEF Dispatch, handlers, LimitInv
<1>5. ASSUME NEW w \in Workers, Take(w)
      PROVE  LimitInv'
  <2>1. ASSUME NEW q \in Requests
        PROVE  sent'[q] - taken'[q] <= TaskCap[SideOf[q]]
    <3>1. CASE q = serving
      <4>1. taken'[q] = taken[q] + 1 /\ sent'[q] = sent[q]
        BY <1>5, <3>1 DEF Take, PoolTypeOK
      <4>2. sent[q] - taken[q] <= TaskCap[SideOf[q]]
        BY DEF LimitInv
      <4> QED
        BY <1>0, <4>1, <4>2
    <3>2. CASE q # serving
      BY <1>5, <3>2 DEF Take, LimitInv, PoolTypeOK
    <3> QED
      BY <3>1, <3>2
  <2> QED
    BY <1>5, <2>1 DEF Take, handlers, LimitInv
<1>6. ASSUME NEW r \in Requests, Call(r) \/ Receive(r) \/ GiveUp(r) \/ StopDispatching(r)
      PROVE  LimitInv'
  BY <1>1, <1>6 DEF Call, Receive, GiveUp, StopDispatching, handlers, pool
<1>7. ASSUME NEW w \in Workers, Quit(w) \/ Deliver(w) \/ Drop(w)
      PROVE  LimitInv'
  BY <1>1, <1>7 DEF Quit, Deliver, Drop, handlers
<1>8. CASE Return \/ Deadline \/ CloseResults \/ UNCHANGED vars
  BY <1>1, <1>8 DEF Return, Deadline, CloseResults, vars, handlers, pool
<1> QED
  BY <1>2, <1>3, <1>4, <1>5, <1>6, <1>7, <1>8 DEF Next, Handler, Dispatcher, Worker

LEMMA InitAnswerInv == Init => AnswerInv
BY DEF Init, AnswerInv, Selecting

LEMMA NextAnswerInv == TypesOK /\ QueueInv /\ AnswerInv /\ [Next]_vars => AnswerInv'
<1> SUFFICES ASSUME TypesOK, QueueInv, AnswerInv, [Next]_vars
             PROVE  AnswerInv'
  OBVIOUS
<1> USE DEF TypesOK
<1>0. NoRequest \notin Requests
  BY NamesAssumption
<1>1. ASSUME UNCHANGED <<stage, queue, answer, score, serving>>
      PROVE  AnswerInv'
  BY <1>1 DEF AnswerInv, Selecting
<1>2. ASSUME NEW r \in Requests, Send(r)
      PROVE  AnswerInv'
  <2>1. /\ queue' = Append(queue, r) /\ stage[r] = "sending"
        /\ stage' = [stage EXCEPT ![r] = "waiting"] /\ UNCHANGED <<answer, score, serving>>
    BY <1>2 DEF Send
  <2>2. \A i \in DOMAIN queue' : (i \in DOMAIN queue /\ queue'[i] = queue[i]) \/ queue'[i] = r
    BY <2>1, LenProperties, AppendProperties DEF LoopTypeOK
  <2>3. \A i \in DOMAIN queue' : answer[queue'[i]] = NoAnswer
    BY <2>1, <2>2 DEF AnswerInv
  <2>4. \A q \in Requests : stage'[q] \in {"new", "sending"} => stage[q] \in {"new", "sending"}
    BY <2>1 DEF LoopTypeOK
  <2> QED
    BY <2>1, <2>3, <2>4 DEF AnswerInv, Selecting, LoopTypeOK
<1>3. ASSUME NEW r \in Requests, Call(r) \/ Receive(r) \/ GiveUp(r)
      PROVE  AnswerInv'
  <2>1. /\ UNCHANGED <<queue, answer, score, serving>>
        /\ \A q \in Requests : stage'[q] \in {"new", "sending"} <=> stage[q] \in {"new", "sending"}
    BY <1>3 DEF Call, Receive, GiveUp, LoopTypeOK
  <2> QED
    BY <2>1 DEF AnswerInv, Selecting, LoopTypeOK
<1>4. CASE Serve
  <2>1. /\ queue # <<>> /\ serving' = Head(queue) /\ queue' = Tail(queue)
        /\ UNCHANGED <<stage, answer, score>>
    BY <1>4 DEF Serve
  <2>2. /\ Head(queue) \in Requests /\ Head(queue) = queue[1] /\ 1 \in DOMAIN queue
        /\ \A i \in DOMAIN queue' : i + 1 \in DOMAIN queue /\ queue'[i] = queue[i + 1]
    BY <2>1, QueueParts
  <2>3. stage[queue[1]] \notin {"new", "sending"}
    BY <2>2 DEF QueueInv
  <2> QED
    BY <2>1, <2>2, <2>3 DEF AnswerInv, Selecting
<1>5. CASE Return
  <2>1. /\ serving \in Requests /\ serving' = NoRequest /\ UNCHANGED <<stage, queue, score>>
        /\ answer' = [answer EXCEPT ![serving] = Ranked(serving, results)]
    BY <1>5 DEF Return, LoopTypeOK
  <2>2. Ranked(serving, results) \in Seq(Nat)
    BY RankedType DEF PoolTypeOK
  <2>3. \A i \in DOMAIN queue : queue[i] \in Requests /\ queue[i] # serving
    BY <1>5, QueuedRequests DEF Return, QueueInv, Fresh
  <2>4. ~Selecting
    BY <1>5 DEF Return, Selecting
  <2>5. \A q \in Requests : q # serving => answer'[q] = answer[q]
    BY <2>1 DEF AnswerInv
  <2>6. answer' \in [Requests -> Seq(Nat) \cup {NoAnswer}]
    BY <2>1, <2>2 DEF AnswerInv
  <2>7. \A q \in Requests : stage'[q] \in {"new", "sending"} => answer'[q] = NoAnswer
    BY <2>1, <2>4, <2>5 DEF AnswerInv
  <2>8. \A i \in DOMAIN queue' : answer'[queue'[i]] = NoAnswer
    BY <2>1, <2>3, <2>5 DEF AnswerInv
  <2> QED
    BY <2>1, <2>6, <2>7, <2>8 DEF AnswerInv, Selecting
<1>6. ASSUME NEW r \in Requests, Dispatcher(r)
      PROVE  AnswerInv'
  BY <1>1, <1>6 DEF Dispatcher, Dispatch, StopDispatching, handlers
<1>7. ASSUME NEW w \in Workers, Worker(w)
      PROVE  AnswerInv'
  BY <1>1, <1>7 DEF Worker, Take, Quit, Deliver, Drop, handlers
<1>8. CASE Deadline \/ CloseResults \/ UNCHANGED vars
  BY <1>1, <1>8 DEF Deadline, CloseResults, vars, handlers
<1> QED
  BY <1>2, <1>3, <1>4, <1>5, <1>6, <1>7, <1>8 DEF Next, Handler

\* Queues, channels, counters and answers keep their types and their limits, for any
\* capacities and any number of requests and tasks (RunPipeline1, handleAnalysisRequest).
THEOREM TypeCorrect == Spec => []TypeOK
<1>1. TypesOK /\ LimitInv /\ AnswerInv => TypeOK
  BY DEF TypesOK, LoopTypeOK, PoolTypeOK, LimitInv, AnswerInv, TypeOK
<1> QED
  BY <1>1, InitTypesOK, NextTypesOK, InitQueueInv, NextQueueInv, InitLimitInv, NextLimitInv,
     InitAnswerInv, NextAnswerInv, PTL DEF Spec

-----------------------------------------------------------------------------
(* What the callers are promised.                                          *)

\* The player of AnalysisDesk.
Player == [r \in Requests |->
             CASE stage[r] = "new" -> "idle"
               [] stage[r] \in {"sending", "waiting"} -> "asking"
               [] OTHER -> stage[r]]

LEMMA PlayerOf ==
    ASSUME NEW r \in Requests
    PROVE  /\ stage[r] = "new" => Player[r] = "idle"
           /\ stage[r] \in {"sending", "waiting"} => Player[r] = "asking"
           /\ stage[r] \in {"answered", "gaveUp"} => Player[r] = stage[r]
BY DEF Player

\* One request's stage changes: so does the player of it, and no other.
LEMMA PlayerChanges ==
    ASSUME LoopTypeOK, NEW r \in Requests,
           NEW x \in {"new", "sending", "waiting", "answered", "gaveUp"},
           stage' = [stage EXCEPT ![r] = x]
    PROVE  Player' = [Player EXCEPT ![r] = Player'[r]]
<1>1. \A q \in Requests : q # r => stage'[q] = stage[q]
  BY DEF LoopTypeOK
<1> DEFINE P(at) == CASE at = "new" -> "idle"
                      [] at \in {"sending", "waiting"} -> "asking"
                      [] OTHER -> at
<1>2. /\ Player  = [q \in Requests |-> P(stage[q])]
      /\ Player' = [q \in Requests |-> P(stage'[q])]
  BY DEF Player
<1> HIDE DEF P
<1> QED
  BY <1>1, <1>2

LEMMA InitDesk == Init => Desk!Init
<1> SUFFICES ASSUME Init
             PROVE  Desk!Init
  OBVIOUS
<1>1. Player = [r \in Requests |-> "idle"]
  BY DEF Init, Player
<1> QED
  BY <1>1 DEF Init, Desk!Init, Player

LEMMA ReturnDesk ==
    ASSUME TypesOK, PoolInv, AnswerInv, NothingIsLost, Return
    PROVE  serving \in Requests /\ Desk!Reply(serving)
<1> DEFINE r == serving
           s == Ranked(r, results)
<1>1. /\ r \in Requests /\ r # NoRequest
      /\ answer' = [answer EXCEPT ![r] = s] /\ expired' = [expired EXCEPT ![r] = TRUE]
      /\ stage' = stage
  BY DEF Return, TypesOK, LoopTypeOK
<1>2. stage[r] \in {"waiting", "answered", "gaveUp"} /\ answer[r] = NoAnswer
  BY <1>1 DEF AnswerInv, Selecting, TypesOK, LoopTypeOK
<1>3. Distinct(results) /\ results \in Seq(Tasks(r))
  <2>1. taken[r] \in Nat /\ taken[r] <= TaskCount[SideOf[r]] /\ TaskCount[SideOf[r]] \in Nat
    BY <1>1, CountsAreNaturals DEF TypesOK, PoolTypeOK
  <2>2. 1..taken[r] \subseteq Tasks(r)
    BY <2>1 DEF Tasks
  <2>3. Delivered \subseteq Tasks(r)
    BY <1>1, <2>2 DEF NothingIsLost
  <2>4. Len(results) \in Nat /\ DOMAIN results = 1..Len(results) /\ results \in [1..Len(results) -> Nat]
    BY LenProperties DEF TypesOK, PoolTypeOK
  <2>5. results \in [1..Len(results) -> Tasks(r)]
    BY <2>3, <2>4 DEF Delivered
  <2> QED
    BY <1>1, <2>4, <2>5, SeqDef DEF NothingIsLost, Distinct
<1>4. score[r] \in [Tasks(r) -> Nat]
  BY <1>1, RequestsAssumption DEF AnswerInv, Tasks
<1>5. /\ Ordered(r, s) /\ Distinct(s) /\ Elements(s) = Delivered
  BY <1>1, <1>3, <1>4, RankedRanks DEF Elements, Delivered
<1>6. s \in Seq(Tasks(r)) /\ s \in Seq(Nat)
  BY <1>3, RankedType DEF TypesOK, PoolTypeOK
<1>7. answer'[r] = s /\ answer' = [answer EXCEPT ![r] = answer'[r]] /\ s # NoAnswer
  BY <1>1, <1>6, NamesAssumption DEF AnswerInv
<1> HIDE DEF s
<1>8. Desk!IsRanking(r, s)
  <2>1. Len(s) \in Nat /\ DOMAIN s = 1..Len(s) /\ \A i \in DOMAIN s : s[i] \in Tasks(r)
    BY <1>6, LenProperties, ElementOfSeq
  <2>2. \A i, j \in DOMAIN s : i < j => s[i] # s[j]
    BY <1>5, <2>1 DEF Distinct
  <2>3. \A i, j \in DOMAIN s : i < j => ~Desk!Better(r, s[j], s[i])
    BY <1>5 DEF Ordered, Better, Desk!Better
  <2> QED
    BY <2>1, <2>2, <2>3 DEF Desk!IsRanking, Desk!Tasks, Tasks
<1>9. ~expired[r] => Desk!IsComplete(r, s)
  <2> SUFFICES ASSUME ~expired[r]
               PROVE  Desk!IsComplete(r, s)
    OBVIOUS
  <2>1. Elements(s) = Tasks(r)
    BY <1>5, ReturnIsComplete
  <2> QED
    BY <2>1 DEF Desk!IsComplete, Desk!Tasks, Tasks, Elements
<1>10. Player[r] # "idle" /\ Player' = Player
  <2>1. Player' = Player
    BY <1>1 DEF Player
  <2> QED
    BY <1>1, <1>2, <2>1, PlayerOf
<1> QED
  BY <1>1, <1>2, <1>7, <1>8, <1>9, <1>10 DEF Desk!Reply, Player

LEMMA NextDesk ==
    TypesOK /\ QueueInv /\ PoolInv /\ AnswerInv /\ NothingIsLost /\ [Next]_vars
      => [Desk!Next]_<<Player, answer, expired, score>>
<1> SUFFICES ASSUME TypesOK, QueueInv, PoolInv, AnswerInv, NothingIsLost, [Next]_vars
             PROVE  Desk!Next \/ UNCHANGED <<Player, answer, expired, score>>
  OBVIOUS
<1> USE DEF TypesOK
<1>1. ASSUME NEW r \in Requests, Call(r)
      PROVE  Desk!Next
  <2>1. /\ stage[r] = "new" /\ stage' = [stage EXCEPT ![r] = "sending"]
        /\ UNCHANGED <<answer, expired, score>>
    BY <1>1 DEF Call
  <2>2. stage'[r] = "sending"
    BY <2>1 DEF LoopTypeOK
  <2>3. Player[r] = "idle" /\ Player'[r] = "asking"
    BY <2>1, <2>2 DEF Player
  <2>4. Player' = [Player EXCEPT ![r] = "asking"]
    BY <2>1, <2>3, PlayerChanges
  <2>5. Desk!Ask(r)
    BY <2>1, <2>3, <2>4 DEF Desk!Ask, Player
  <2> QED
    BY <2>1, <2>5 DEF Desk!Next
<1>2. ASSUME NEW r \in Requests, Send(r)
      PROVE  UNCHANGED <<Player, answer, expired, score>>
  <2>1. /\ stage[r] = "sending" /\ stage' = [stage EXCEPT ![r] = "waiting"]
        /\ UNCHANGED <<answer, expired, score>>
    BY <1>2 DEF Send
  <2>2. stage'[r] = "waiting" /\ \A q \in Requests : q # r => stage'[q] = stage[q]
    BY <2>1 DEF LoopTypeOK
  <2>3. Player' = Player
    BY <2>1, <2>2 DEF Player
  <2> QED
    BY <2>1, <2>3
<1>3. ASSUME NEW r \in Requests, Receive(r)
      PROVE  Desk!Next
  <2>1. /\ stage[r] = "waiting" /\ stage' = [stage EXCEPT ![r] = "answered"]
        /\ answer[r] # NoAnswer /\ UNCHANGED <<answer, expired, score>>
    BY <1>3 DEF Receive
  <2>2. stage'[r] = "answered"
    BY <2>1 DEF LoopTypeOK
  <2>3. Player[r] = "asking" /\ Player'[r] = "answered"
    BY <2>1, <2>2 DEF Player
  <2>4. Player' = [Player EXCEPT ![r] = "answered"]
    BY <2>1, <2>3, PlayerChanges
  <2>5. Desk!Receive(r)
    BY <2>1, <2>3, <2>4 DEF Desk!Receive, Player
  <2> QED
    BY <2>1, <2>5 DEF Desk!Next
<1>4. ASSUME NEW r \in Requests, GiveUp(r)
      PROVE  Desk!Next
  <2>1. /\ stage[r] = "waiting" /\ stage' = [stage EXCEPT ![r] = "gaveUp"]
        /\ UNCHANGED <<answer, expired, score>>
    BY <1>4 DEF GiveUp
  <2>2. stage'[r] = "gaveUp"
    BY <2>1 DEF LoopTypeOK
  <2>3. Player[r] = "asking" /\ Player'[r] = "gaveUp"
    BY <2>1, <2>2 DEF Player
  <2>4. Player' = [Player EXCEPT ![r] = "gaveUp"]
    BY <2>1, <2>3, PlayerChanges
  <2>5. Desk!GiveUp(r)
    BY <2>1, <2>3, <2>4 DEF Desk!GiveUp, Player
  <2> QED
    BY <2>1, <2>5 DEF Desk!Next
<1>5. CASE Return
  BY <1>5, ReturnDesk DEF Desk!Next, Return
<1>6. CASE Deadline
  <2>1. /\ serving \in Requests /\ ~Selecting /\ ~expired[serving]
        /\ expired' = [expired EXCEPT ![serving] = TRUE] /\ UNCHANGED <<stage, answer, score>>
    BY <1>6 DEF Deadline, Selecting, handlers, LoopTypeOK
  <2>2. Player[serving] # "idle" /\ Player' = Player
    <3>1. stage[serving] \in {"waiting", "answered", "gaveUp"}
      BY <2>1 DEF AnswerInv, LoopTypeOK
    <3> QED
      BY <2>1, <3>1 DEF Player
  <2>3. Desk!Deadline(serving)
    BY <2>1, <2>2 DEF Desk!Deadline, Player
  <2> QED
    BY <2>1, <2>3 DEF Desk!Next
<1>7. ASSUME NEW r \in Requests, Dispatcher(r)
      PROVE  UNCHANGED <<Player, answer, expired, score>>
  BY <1>7 DEF Dispatcher, Dispatch, StopDispatching, handlers, Player
<1>8. ASSUME NEW w \in Workers, Worker(w)
      PROVE  UNCHANGED <<Player, answer, expired, score>>
  BY <1>8 DEF Worker, Take, Quit, Deliver, Drop, handlers, Player
<1>9. CASE Serve \/ CloseResults \/ UNCHANGED vars
  BY <1>9 DEF Serve, CloseResults, vars, handlers, Player
<1> QED
  BY <1>1, <1>2, <1>3, <1>4, <1>5, <1>6, <1>7, <1>8, <1>9 DEF Next, Handler

\* The pipelines and their handlers keep what AnalysisDesk promises: one ranking at most
\* for each request, of distinct tasks of it in order, and of all of them in time.
THEOREM DeskCorrect == Spec => DeskSpec
<1>1. Init => NothingIsLost
  BY DEF Init, NothingIsLost
<1>2. TypesOK /\ QueueInv /\ PoolInv /\ AnswerInv /\ NothingIsLost /\ [Next]_vars
        => [Desk!Next]_<<[r \in Requests |->
                 CASE stage[r] = "new" -> "idle"
                   [] stage[r] \in {"sending", "waiting"} -> "asking"
                   [] OTHER -> stage[r]], answer, expired, score>>
  BY NextDesk DEF Player
<1> QED
  BY <1>1, <1>2, InitTypesOK, NextTypesOK, InitQueueInv, NextQueueInv, InitPoolInv, NextPoolInv,
     InitAnswerInv, NextAnswerInv, NextLosesNothing, InitDesk, PTL DEF Spec, DeskSpec, Desk!Spec

=============================================================================
