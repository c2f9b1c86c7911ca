------------------------- MODULE CoordinatorProofs -------------------------
(***************************************************************************)
(* What is proved of Coordinator, for any number of players, orders and    *)
(* turns: its types, what waits in the queue, what a forced turn costs, and *)
(* that it implements OrderBook.                                           *)
(***************************************************************************)
EXTENDS Coordinator, SequenceTheorems, FiniteSetTheorems, TLAPS

-----------------------------------------------------------------------------
(* Queues of orders.                                                       *)

\* The empty queue has no orders in it (pendingOrders = nil).
LEMMA EmptyQueue == <<>> \in Seq(Requests) /\ Len(<<>>) = 0 /\ RangeOf(<<>>) = {}
BY EmptySeq DEF RangeOf

\* The orders of a queue, by their places in it.
LEMMA QueueRange ==
    ASSUME NEW q \in Seq(Requests)
    PROVE  /\ Len(q) \in Nat /\ DOMAIN q = 1..Len(q)
           /\ RangeOf(q) = {q[i] : i \in 1..Len(q)} /\ RangeOf(q) \subseteq Requests
BY LenProperties, ElementOfSeq DEF RangeOf

\* append adds one order to those in the queue (handleOrder).
LEMMA AppendRange ==
    ASSUME NEW q \in Seq(Requests), NEW r \in Requests
    PROVE  /\ Append(q, r) \in Seq(Requests) /\ Len(Append(q, r)) = Len(q) + 1
           /\ \A i \in 1..Len(q) : Append(q, r)[i] = q[i]
           /\ Append(q, r)[Len(q) + 1] = r
           /\ RangeOf(Append(q, r)) = RangeOf(q) \cup {r}
<1>1. /\ Append(q, r) \in Seq(Requests) /\ Len(Append(q, r)) = Len(q) + 1
      /\ \A i \in 1..Len(q) : Append(q, r)[i] = q[i]
      /\ Append(q, r)[Len(q) + 1] = r
  BY AppendProperties
<1>2. Len(q) \in Nat /\ 1..(Len(q) + 1) = 1..Len(q) \cup {Len(q) + 1}
  BY QueueRange
<1>3. /\ RangeOf(q) = {q[i] : i \in 1..Len(q)}
      /\ RangeOf(Append(q, r)) = {Append(q, r)[i] : i \in 1..(Len(q) + 1)}
  BY <1>1, QueueRange
<1> QED
  BY <1>1, <1>2, <1>3

-----------------------------------------------------------------------------
(* Type correctness, which is inductive.                                   *)

LEMMA InitTypeOK == Init => TypeOK
<1> SUFFICES ASSUME Init
             PROVE  TypeOK
  OBVIOUS
<1>1. pending \in Seq(Requests) /\ taken \in Seq(Requests)
  BY EmptyQueue DEF Init
<1>2. votes \in [Players -> Nat \cup {NoTurn}]
  BY DEF Init, NoVotes
<1> QED
  BY <1>1, <1>2 DEF Init, TypeOK

LEMMA KeptType ==
    ASSUME TypeOK
    PROVE  Kept \subseteq RangeOf(taken) /\ RangeOf(taken) \subseteq Requests
BY QueueRange DEF Kept, FreshOrders, RangeOf, TypeOK

LEMMA HandlersTypeOK ==
    ASSUME TypeOK, NEW r \in Requests, CheckTurn(r) \/ QueueOrder(r)
    PROVE  TypeOK'
<1>1. CASE CheckTurn(r)
  BY <1>1 DEF CheckTurn, TypeOK, ballot, run
<1>2. CASE QueueOrder(r)
  <2>1. pending' \in Seq(Requests)
    <3>1. pending' \in {pending, Append(pending, r)}
      BY <1>2 DEF QueueOrder
    <3>2. pending \in Seq(Requests) /\ Append(pending, r) \in Seq(Requests)
      BY AppendRange DEF TypeOK
    <3> QED
      BY <3>1, <3>2
  <2>2. call' \in [Requests -> {"new", "checked", "accepted", "refused"}]
    BY <1>2 DEF QueueOrder, TypeOK
  <2> QED
    BY <1>2, <2>1, <2>2 DEF QueueOrder, TypeOK, ballot, run
<1> QED
  BY <1>1, <1>2

LEMMA VoteTypeOK ==
    ASSUME TypeOK, NEW p \in Players, NEW t \in VotedTurns, Vote(p, t)
    PROVE  TypeOK'
<1>1. t \in Nat
  BY BoundsAssumption DEF VotedTurns
<1>2. votes' \in [Players -> Nat \cup {NoTurn}] /\ force' \in BOOLEAN
  BY <1>1 DEF Vote, TypeOK, NoVotes
<1>3. others' \in [Players -> Nat] /\ forced' \in Nat
  BY DEF Vote, HeardBy, TypeOK
<1> QED
  BY <1>2, <1>3 DEF Vote, TypeOK, handlers, run

LEMMA NextTypeOK == TypeOK /\ [Next]_vars => TypeOK'
<1> SUFFICES ASSUME TypeOK, [Next]_vars
             PROVE  TypeOK'
  OBVIOUS
<1>1. CASE GameStart
  BY <1>1 DEF GameStart, TypeOK, handlers, ballot, run
<1>2. CASE TickFires
  BY <1>2 DEF TickFires, TypeOK, handlers, ballot, run
<1>3. CASE OnTick \/ OnForce
  <2>1. /\ loop = "select" /\ pending' = <<>>
        /\ (taken' = taken /\ loop' = loop) \/ (taken' = pending /\ loop' = "turn")
        /\ UNCHANGED <<turn, over, call, stamp, votes, applied, starts, others>>
    BY <1>3 DEF OnTick, OnForce, TakeOrders, handlers
  <2>2. tick' \in BOOLEAN /\ force' \in BOOLEAN
    BY <1>3 DEF OnTick, OnForce, TypeOK
  <2>3. forced' \in Nat
    BY <1>3 DEF OnTick, OnForce, TypeOK
  <2>4. pending' \in Seq(Requests) /\ taken' \in Seq(Requests)
    BY <2>1, EmptyQueue DEF TypeOK
  <2>5. loop' \in {"select", "turn"} /\ (loop' = "select" => taken' = <<>>)
    BY <2>1 DEF TypeOK
  <2> QED
    BY <2>1, <2>2, <2>3, <2>4, <2>5 DEF TypeOK
<1>4. CASE RunTurn
  <2>1. taken' \in Seq(Requests) /\ taken' = <<>>
    BY <1>4, EmptyQueue DEF RunTurn
  <2>2. applied' \in SUBSET Requests
    BY <1>4, KeptType DEF RunTurn, TypeOK
  <2>3. over' \in BOOLEAN
    <3>1. over' \in (IF turn >= MaxTurns THEN {TRUE} ELSE BOOLEAN)
      BY <1>4 DEF RunTurn
    <3> QED
      BY <3>1, Zenon
  <2>4. turn' \in Nat
    BY <1>4 DEF RunTurn, TypeOK
  <2>5. loop' = "select" /\ UNCHANGED <<pending, call, stamp, votes, force, tick, starts, forced, others>>
    BY <1>4 DEF RunTurn, handlers, ballot
  <2> QED
    BY <2>1, <2>2, <2>3, <2>4, <2>5 DEF TypeOK
<1>5. CASE UNCHANGED vars
  BY <1>5 DEF vars, TypeOK
<1> QED
  BY <1>1, <1>2, <1>3, <1>4, <1>5, HandlersTypeOK, VoteTypeOK DEF Next, Serve

\* Type correctness of the coordinator (Coordinator).
THEOREM TypeCorrect == Spec => []TypeOK
BY InitTypeOK, NextTypeOK, PTL DEF Spec

-----------------------------------------------------------------------------
(* Where each order is: waiting, in work, or applied, and in one of these  *)
(* places only; a turn is in work only while the game is on.               *)

OrdersInv ==
    /\ \A r \in RangeOf(pending) \cup RangeOf(taken) \cup applied : call[r] = "accepted"
    /\ RangeOf(pending) \cap RangeOf(taken) = {}
    /\ applied \cap (RangeOf(pending) \cup RangeOf(taken)) = {}
    /\ loop = "turn" => ~over

LEMMA InitOrdersInv == Init => OrdersInv
BY EmptyQueue DEF Init, OrdersInv

LEMMA QueueOrdersInv ==
    ASSUME TypeOK, OrdersInv, NEW r \in Requests, QueueOrder(r)
    PROVE  OrdersInv'
<1>1. call[r] = "checked" /\ UNCHANGED <<taken, applied, loop, over>>
  BY DEF QueueOrder, run
<1>2. CASE Duplicate(r)
  <2>1. pending' = pending /\ call' = [call EXCEPT ![r] = "refused"]
    BY <1>2 DEF QueueOrder
  <2> QED
    BY <1>1, <2>1 DEF OrdersInv, TypeOK
<1>3. CASE ~Duplicate(r)
  <2>1. RangeOf(pending') = RangeOf(pending) \cup {r} /\ call' = [call EXCEPT ![r] = "accepted"]
    <3>1. pending' = Append(pending, r) /\ call' = [call EXCEPT ![r] = "accepted"]
      BY <1>3 DEF QueueOrder
    <3>2. pending \in Seq(Requests)
      BY DEF TypeOK
    <3> QED
      BY <3>1, <3>2, AppendRange
  <2> QED
    BY <1>1, <2>1 DEF OrdersInv, TypeOK
<1> QED
  BY <1>2, <1>3

LEMMA NextOrdersInv == TypeOK /\ OrdersInv /\ [Next]_vars => OrdersInv'
<1> SUFFICES ASSUME TypeOK, OrdersInv, [Next]_vars
             PROVE  OrdersInv'
  OBVIOUS
<1>1. ASSUME NEW r \in Requests, CheckTurn(r)
      PROVE  OrdersInv'
  BY <1>1 DEF CheckTurn, OrdersInv, TypeOK, run
<1>2. ASSUME NEW p \in Players, NEW t \in VotedTurns, Vote(p, t)
      PROVE  OrdersInv'
  BY <1>2 DEF Vote, OrdersInv, handlers, run
<1>3. CASE GameStart \/ TickFires \/ UNCHANGED vars
  BY <1>3 DEF GameStart, TickFires, vars, OrdersInv, handlers, run
<1>4. CASE OnTick \/ OnForce
  <2>1. loop = "select" /\ taken = <<>> /\ pending' = <<>> /\ UNCHANGED <<over, call, applied>>
    BY <1>4 DEF OnTick, OnForce, TakeOrders, TypeOK, handlers
  <2>2. (taken' = taken /\ loop' = loop) \/ (~over /\ taken' = pending /\ loop' = "turn")
    BY <1>4 DEF OnTick, OnForce, TakeOrders
  <2> QED
    BY <2>1, <2>2, EmptyQueue DEF OrdersInv
<1>5. CASE RunTurn
  <2>1. taken' = <<>> /\ applied' = applied \cup Kept /\ loop' = "select"
        /\ UNCHANGED <<pending, call>>
    BY <1>5 DEF RunTurn, handlers
  <2> QED
    BY <2>1, EmptyQueue, KeptType DEF OrdersInv
<1> QED
  BY <1>1, <1>2, <1>3, <1>4, <1>5, QueueOrdersInv DEF Next, Serve

LEMMA OrdersInvariance == Spec => [](TypeOK /\ OrdersInv)
BY InitTypeOK, NextTypeOK, InitOrdersInv, NextOrdersInv, PTL DEF Spec

-----------------------------------------------------------------------------
(* Two orders of a unit for one turn never wait together.                  *)

LEMMA NextNoDuplicate ==
    TypeOK /\ OrdersInv /\ NoDuplicatePending /\ [Next]_vars => NoDuplicatePending'
<1> SUFFICES ASSUME TypeOK, OrdersInv, NoDuplicatePending, [Next]_vars
             PROVE  NoDuplicatePending'
  OBVIOUS
<1>1. ASSUME NEW r \in Requests, CheckTurn(r)
      PROVE  NoDuplicatePending'
  <2>1. r \notin RangeOf(pending) /\ pending' = pending /\ stamp' = [stamp EXCEPT ![r] = turn]
    BY <1>1 DEF CheckTurn, OrdersInv
  <2>2. \A i \in DOMAIN pending : stamp'[pending[i]] = stamp[pending[i]]
    BY <2>1, QueueRange DEF RangeOf, TypeOK
  <2> QED
    BY <2>1, <2>2 DEF NoDuplicatePending
<1>2. ASSUME NEW r \in Requests, QueueOrder(r)
      PROVE  NoDuplicatePending'
  <2>1. CASE Duplicate(r)
    BY <1>2, <2>1 DEF QueueOrder, NoDuplicatePending
  <2>2. CASE ~Duplicate(r)
    <3>1. /\ Len(pending) \in Nat /\ DOMAIN pending = 1..Len(pending)
          /\ DOMAIN pending' = 1..(Len(pending) + 1)
          /\ \A i \in 1..Len(pending) : pending'[i] = pending[i]
          /\ pending'[Len(pending) + 1] = r /\ stamp' = stamp
      <4>1. pending' = Append(pending, r) /\ stamp' = stamp
        BY <1>2, <2>2 DEF QueueOrder
      <4>2. pending \in Seq(Requests)
        BY DEF TypeOK
      <4>3. pending' \in Seq(Requests)
        BY <4>1, <4>2, AppendRange
      <4> QED
        BY <4>1, <4>2, <4>3, AppendRange, QueueRange
    <3>2. \A i \in 1..Len(pending) : ~(UnitOf[pending[i]] = UnitOf[r] /\ stamp[pending[i]] = stamp[r])
      BY <2>2, <3>1 DEF Duplicate, RangeOf
    <3> QED
      BY <3>1, <3>2 DEF NoDuplicatePending
  <2> QED
    BY <2>1, <2>2
<1>3. ASSUME NEW p \in Players, NEW t \in VotedTurns, Vote(p, t)
      PROVE  NoDuplicatePending'
  BY <1>3 DEF Vote, NoDuplicatePending, handlers
<1>4. CASE GameStart \/ TickFires \/ RunTurn \/ UNCHANGED vars
  BY <1>4 DEF GameStart, TickFires, RunTurn, vars, NoDuplicatePending, handlers
<1>5. CASE OnTick \/ OnForce
  BY <1>5 DEF OnTick, OnForce, TakeOrders, NoDuplicatePending
<1> QED
  BY <1>1, <1>2, <1>3, <1>4, <1>5 DEF Next, Serve

\* However many handlers pass the turn check at once, two orders of one unit for
\* one turn never wait together (handleOrder).
THEOREM QueueCorrect == Spec => []NoDuplicatePending
<1>1. Init => NoDuplicatePending
  BY DEF Init, NoDuplicatePending
<1> QED
  BY <1>1, OrdersInvariance, NextNoDuplicate, PTL DEF Spec

-----------------------------------------------------------------------------
(* Votes.                                                                  *)

\* An agreement has the vote of somebody other than p (the count in handleFastForward).
LEMMA TwoAgree ==
    ASSUME NEW v, NEW t, NEW p \in Players, Agreed(v, t)
    PROVE  \E q \in Players : q # p /\ v[q] = t
<1> DEFINE S == {x \in Players : v[x] = t}
<1>1. IsFiniteSet({p}) /\ Cardinality({p}) = 1
  BY FS_Singleton
<1>2. ASSUME S \subseteq {p}
      PROVE  Cardinality(S) <= 1 /\ Cardinality(S) \in Nat
  BY <1>1, <1>2, FS_Subset, FS_CardinalityType
<1>3. Cardinality(S) >= 2
  BY DEF Agreed
<1> HIDE DEF S
<1>4. ~(S \subseteq {p})
  BY <1>2, <1>3
<1> QED
  BY <1>4 DEF S

\* Somebody other than p has a vote on the map.
VoteBeside(p) == \E q \in Players : q # p /\ votes[q] # NoTurn

One(b) == IF b THEN 1 ELSE 0

\* The votes p has seen others cast pay for the turns that were forced, for the token
\* that waits, and for one more if another vote is on the map.
VotesInv == \A p \in Players : forced + One(force) + One(VoteBeside(p)) <= others[p]

LEMMA VoteVotesInv ==
    ASSUME TypeOK, VotesInv, NEW x \in Players, NEW t \in VotedTurns, Vote(x, t)
    PROVE  VotesInv'
<1> DEFINE cast == [votes EXCEPT ![x] = t]
<1> SUFFICES ASSUME NEW p \in Players
             PROVE  forced' + One(force') + One(VoteBeside(p)') <= others'[p]
  BY DEF VotesInv
<1>1. /\ forced' = forced /\ forced \in Nat /\ others[p] \in Nat
      /\ others'[p] = IF p = x THEN others[p] ELSE others[p] + 1
      /\ forced + One(force) + One(VoteBeside(p)) <= others[p]
  BY DEF Vote, HeardBy, VotesInv, TypeOK
<1>2. \A b \in BOOLEAN : One(b) \in {0, 1}
  BY DEF One
<1>3. CASE votes' = NoVotes /\ force' = force
  <2>1. ~VoteBeside(p)'
    BY <1>3 DEF VoteBeside, NoVotes
  <2> QED
    BY <1>1, <1>3, <2>1 DEF One
<1>4. CASE Agreed(cast, t) /\ votes' = NoVotes /\ force'
  <2>1. ~VoteBeside(p)'
    BY <1>4 DEF VoteBeside, NoVotes
  <2>2. p = x => VoteBeside(p)
    <3>1. ASSUME p = x
          PROVE  VoteBeside(p)
      <4>1. PICK q \in Players : q # p /\ cast[q] = t
        BY <1>4, TwoAgree
      <4>2. t # NoTurn
        BY BoundsAssumption, NoTurnAssumption DEF VotedTurns
      <4> QED
        BY <3>1, <4>1, <4>2 DEF VoteBeside, TypeOK
    <3> QED
      BY <3>1
  <2> QED
    BY <1>1, <1>4, <2>1, <2>2 DEF One
<1>5. CASE votes' = cast /\ force' = force
  <2>1. p = x => (VoteBeside(p)' <=> VoteBeside(p))
    BY <1>5 DEF VoteBeside, TypeOK
  <2> QED
    BY <1>1, <1>5, <2>1 DEF One
<1> QED
  BY <1>3, <1>4, <1>5 DEF Vote

LEMMA NextVotesInv == TypeOK /\ VotesInv /\ [Next]_vars => VotesInv'
<1> SUFFICES ASSUME TypeOK, VotesInv, [Next]_vars
             PROVE  VotesInv'
  OBVIOUS
<1>1. ASSUME NEW r \in Requests, CheckTurn(r) \/ QueueOrder(r)
      PROVE  VotesInv'
  BY <1>1 DEF CheckTurn, QueueOrder, ballot, VotesInv, VoteBeside
<1>2. CASE GameStart \/ TickFires \/ RunTurn \/ UNCHANGED vars
  BY <1>2 DEF GameStart, TickFires, RunTurn, vars, ballot, VotesInv, VoteBeside
<1>3. CASE OnTick
  BY <1>3 DEF OnTick, TakeOrders, VotesInv, VoteBeside
<1>4. CASE OnForce
  <2> SUFFICES ASSUME NEW p \in Players
               PROVE  forced' + One(force') + One(VoteBeside(p)') <= others'[p]
    BY DEF VotesInv
  <2>1. /\ force = TRUE /\ force' = FALSE /\ forced' \in {forced, forced + 1}
        /\ UNCHANGED <<votes, others>>
    BY <1>4 DEF OnForce, TakeOrders
  <2>2. VoteBeside(p)' <=> VoteBeside(p)
    BY <2>1 DEF VoteBeside
  <2>3. forced + 1 + One(VoteBeside(p)) <= others[p] /\ forced \in Nat /\ others[p] \in Nat
    BY <2>1 DEF VotesInv, One, TypeOK
  <2> QED
    BY <2>1, <2>2, <2>3 DEF One
<1> QED
  BY <1>1, <1>2, <1>3, <1>4, VoteVotesInv DEF Next, Serve

\* With any number of players, every forced turn has cost votes of at least two
\* (handleFastForward, the select loop).
THEOREM VotesCorrect == Spec => []NobodyForcesAlone
<1>1. Init => VotesInv
  BY DEF Init, NoVotes, VotesInv, VoteBeside, One
<1>2. TypeOK /\ VotesInv => NobodyForcesAlone
  <2> SUFFICES ASSUME TypeOK, VotesInv, NEW p \in Players
               PROVE  forced <= others[p]
    BY DEF NobodyForcesAlone
  <2>1. One(force) \in {0, 1} /\ One(VoteBeside(p)) \in {0, 1}
    BY DEF One
  <2> QED
    BY <2>1 DEF TypeOK, VotesInv
<1> QED
  BY <1>1, <1>2, InitTypeOK, NextTypeOK, NextVotesInv, PTL DEF Spec

-----------------------------------------------------------------------------
(* The coordinator implements OrderBook.                                   *)

LEMMA InitBook == Init => Book!Init
BY EmptyQueue DEF Init, Book!Init, Fate

\* A handler's two steps: the second one may accept the order.
LEMMA HandlerBook ==
    ASSUME TypeOK, OrdersInv, NEW r \in Requests, CheckTurn(r) \/ QueueOrder(r)
    PROVE  UNCHANGED <<Fate, over>> \/ Book!Accept(r)
<1>1. CASE CheckTurn(r) \/ Duplicate(r)
  <2>1. /\ call[r] \in {"new", "checked"}
        /\ \A q \in Requests \ {r} : call'[q] = call[q]
        /\ call'[r] \in {"checked", "refused"}
        /\ UNCHANGED <<pending, taken, applied, over>>
    BY <1>1 DEF CheckTurn, QueueOrder, TypeOK, run
  <2>2. r \notin applied
    BY <2>1 DEF OrdersInv
  <2>3. Fate' = Fate
    BY <2>1, <2>2 DEF Fate
  <2> QED
    BY <2>1, <2>3
<1>2. CASE QueueOrder(r) /\ ~Duplicate(r)
  <2>1. /\ call[r] = "checked" /\ call' = [call EXCEPT ![r] = "accepted"]
        /\ RangeOf(pending') = RangeOf(pending) \cup {r}
        /\ UNCHANGED <<taken, applied, over>>
    <3>1. /\ call[r] = "checked" /\ call' = [call EXCEPT ![r] = "accepted"]
          /\ pending' = Append(pending, r) /\ UNCHANGED <<taken, applied, over>>
      BY <1>2 DEF QueueOrder, run
    <3>2. pending \in Seq(Requests)
      BY DEF TypeOK
    <3> QED
      BY <3>1, <3>2, AppendRange
  <2>2. r \notin applied
    BY <2>1 DEF OrdersInv
  <2>3. Fate[r] = "open"
    BY <2>1, <2>2 DEF Fate
  <2>4. Fate' = [Fate EXCEPT ![r] = "accepted"]
    BY <2>1, <2>2 DEF Fate, TypeOK
  <2> QED
    BY <2>1, <2>3, <2>4 DEF Book!Accept
<1> QED
  BY <1>1, <1>2

\* Taking the orders changes nothing while the game is on, and drops them after.
LEMMA TakeBook ==
    ASSUME TypeOK, OrdersInv, TakeOrders
    PROVE  UNCHANGED <<Fate, over>> \/ Book!Discard(RangeOf(pending))
<1>1. /\ taken = <<>> /\ pending' = <<>> /\ RangeOf(taken) = {} /\ RangeOf(pending') = {}
      /\ UNCHANGED <<call, applied, over>>
  BY EmptyQueue DEF TakeOrders, TypeOK, handlers
<1>2. CASE ~over
  BY <1>1, <1>2 DEF TakeOrders, Fate
<1>3. CASE over
  <2>1. taken' = taken /\ \A r \in RangeOf(pending) : Fate[r] = "accepted"
    BY <1>3, QueueRange DEF TakeOrders, Fate, OrdersInv, TypeOK
  <2>2. Fate' = [r \in Requests |-> IF r \in RangeOf(pending) THEN "dropped" ELSE Fate[r]]
    BY <1>1, <2>1, QueueRange DEF Fate, OrdersInv, TypeOK
  <2> QED
    BY <1>1, <1>3, <2>1, <2>2 DEF Book!Discard
<1> QED
  BY <1>2, <1>3

\* A turn applies the orders it keeps, one of each unit, and drops the others.
LEMMA TurnBook ==
    ASSUME TypeOK, OrdersInv, RunTurn
    PROVE  Book!EndTurn(Kept, RangeOf(taken) \ Kept)
<1>1. /\ ~over /\ taken' = <<>> /\ RangeOf(taken') = {} /\ applied' = applied \cup Kept
      /\ over' \in BOOLEAN /\ UNCHANGED <<pending, call>>
  BY EmptyQueue DEF RunTurn, OrdersInv, handlers
<1>2. Book!OnePerUnit(Kept)
  <2> SUFFICES ASSUME NEW i \in FreshOrders, NEW j \in FreshOrders,
                      \A k \in FreshOrders : k < i => UnitOf[taken[k]] # UnitOf[taken[i]],
                      \A k \in FreshOrders : k < j => UnitOf[taken[k]] # UnitOf[taken[j]],
                      UnitOf[taken[i]] = UnitOf[taken[j]]
               PROVE  i = j
    BY DEF Book!OnePerUnit, Kept
  <2>1. i \in Nat /\ j \in Nat
    BY QueueRange DEF FreshOrders, TypeOK
  <2> QED
    BY <2>1
<1>3. \A r \in RangeOf(taken) : r \in Requests /\ Fate[r] = "accepted"
  BY KeptType DEF Fate, OrdersInv
<1>4. Fate' = [r \in Requests |-> IF r \in Kept THEN "applied"
                                  ELSE IF r \in RangeOf(taken) \ Kept THEN "dropped"
                                  ELSE Fate[r]]
  BY <1>1, KeptType DEF Fate, OrdersInv
<1> QED
  BY <1>1, <1>2, <1>3, <1>4, KeptType DEF Book!EndTurn

LEMMA NextBook ==
    TypeOK /\ OrdersInv /\ [Next]_vars => [Book!Next]_<<Fate, over>>
<1> SUFFICES ASSUME TypeOK, OrdersInv, [Next]_vars
             PROVE  Book!Next \/ UNCHANGED <<Fate, over>>
  OBVIOUS
<1>1. ASSUME NEW p \in Players, NEW t \in VotedTurns, Vote(p, t)
      PROVE  UNCHANGED <<Fate, over>>
  BY <1>1 DEF Vote, Fate, handlers, run
<1>2. CASE GameStart \/ TickFires \/ UNCHANGED vars
  BY <1>2 DEF GameStart, TickFires, vars, Fate, handlers, run
<1>3. CASE OnTick \/ OnForce
  <2>1. RangeOf(pending) \in SUBSET Requests
    BY QueueRange DEF TypeOK
  <2> QED
    BY <1>3, <2>1, TakeBook DEF OnTick, OnForce, Book!Next
<1>4. CASE RunTurn
  <2>1. Kept \in SUBSET Requests /\ RangeOf(taken) \ Kept \in SUBSET Requests
    BY KeptType
  <2> QED
    BY <1>4, <2>1, TurnBook DEF Book!Next
<1>5. ASSUME NEW r \in Requests, CheckTurn(r) \/ QueueOrder(r)
      PROVE  Book!Next \/ UNCHANGED <<Fate, over>>
  BY <1>5, HandlerBook DEF Book!Next
<1> QED
  BY <1>1, <1>2, <1>3, <1>4, <1>5 DEF Next, Serve

\* The server keeps the promise of OrderBook, for any number of orders, units
\* and turns (handleOrder, processTurnTick, dedupeOrdersByUnit).
THEOREM BookCorrect == Spec => OrderBookSpec
BY InitBook, NextBook, OrdersInvariance, PTL DEF Spec, OrderBookSpec, Book!Spec

=============================================================================
