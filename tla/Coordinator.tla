---------------------------- MODULE Coordinator ----------------------------
(***************************************************************************)
(* The instance that runs the game (package api, INSTANCE_ID go-1): HTTP   *)
(* handlers in goroutines of their own collect orders and fast-forward     *)
(* votes, and the select loop takes the orders and runs a turn whenever    *)
(* the ticker or the fast-forward channel says so. A turn is one step      *)
(* here (it holds the cache's write lock); TurnEngine shows what it does.  *)
(***************************************************************************)
EXTENDS Naturals, Sequences, FiniteSets

CONSTANTS
    Players,    \* the player ids that vote
    Requests,   \* the calls of /order
    UnitOf,     \* the unit each of them is about
    NoTurn,     \* no vote
    MaxTurns,   \* GameConfig.MaxTurns
    MaxLate,    \* bound: how many turns behind a vote may be
    MaxStarts,  \* bound: calls of /game/start
    MaxVotes    \* bound: how many votes each player may see others cast

ASSUME BoundsAssumption ==
    MaxTurns \in Nat /\ MaxLate \in Nat /\ MaxStarts \in Nat /\ MaxVotes \in Nat
ASSUME NoTurnAssumption == NoTurn \notin Nat
ASSUME PlayersAssumption == IsFiniteSet(Players)

VARIABLES
    turn, over, \* of the world state: Turn and GameOver
    pending,    \* pendingOrders: the requests waiting, in arrival order
    call,       \* where the handler of each request is
    stamp,      \* the turn each order was submitted for
    votes,      \* fastForwardVotes
    tick,       \* the ticker's channel holds a tick
    force,      \* forceTurnCh holds its one token
    loop,       \* the select loop waits, or is in processTurnTick
    taken,      \* the orders processTurnTick works on
    applied,    \* history: the orders applied to the world
    starts,     \* calls of /game/start so far
    forced,     \* history: how many turns forceTurnCh has begun
    others      \* history: how many votes other players have cast, for each player

handlers == <<call, stamp>>
ballot   == <<votes, force, forced, others>>
run      == <<loop, taken, applied>>
vars     == <<turn, over, pending, call, stamp, votes, tick, force, loop, taken,
              applied, starts, forced, others>>

RangeOf(s) == {s[i] : i \in DOMAIN s}

TypeOK ==
    /\ turn \in Nat /\ over \in BOOLEAN /\ starts \in Nat
    /\ pending \in Seq(Requests) /\ taken \in Seq(Requests)
    /\ call \in [Requests -> {"new", "checked", "accepted", "refused"}]
    /\ stamp \in [Requests -> Nat]
    /\ votes \in [Players -> Nat \cup {NoTurn}]
    /\ tick \in BOOLEAN /\ force \in BOOLEAN
    /\ forced \in Nat /\ others \in [Players -> Nat]
    /\ loop \in {"select", "turn"}
    /\ applied \in SUBSET Requests
    /\ loop = "select" => taken = <<>>

NoVotes == [p \in Players |-> NoTurn]

Init ==
    /\ turn = 0 /\ over = FALSE /\ starts = 0
    /\ pending = <<>> /\ taken = <<>> /\ applied = {}
    /\ call = [r \in Requests |-> "new"] /\ stamp = [r \in Requests |-> 0]
    /\ votes = NoVotes /\ tick = FALSE /\ force = FALSE
    /\ forced = 0 /\ others = [p \in Players |-> 0]
    /\ loop = "select"

-----------------------------------------------------------------------------
(* The handlers.                                                           *)

\* handleOrder compares the order's turn with a snapshot's (an order for another
\* turn changes nothing) ...
CheckTurn(r) ==
    /\ call[r] = "new"
    /\ call' = [call EXCEPT ![r] = "checked"] /\ stamp' = [stamp EXCEPT ![r] = turn]
    /\ UNCHANGED <<turn, over, pending, ballot, tick, run, starts>>

Duplicate(r) == \E q \in RangeOf(pending) : UnitOf[q] = UnitOf[r] /\ stamp[q] = stamp[r]

\* Mutant of QueueOrder: the order is queued without looking for a duplicate.
QueueAnyOrder(r) ==
    /\ call[r] = "checked"
    /\ pending' = Append(pending, r) /\ call' = [call EXCEPT ![r] = "accepted"]
    /\ UNCHANGED <<turn, over, stamp, ballot, tick, run, starts>>

\* ... and later, under orderMu, queues it unless its unit already has one.
QueueOrder(r) ==
    /\ call[r] = "checked"
    /\ IF Duplicate(r)
       THEN call' = [call EXCEPT ![r] = "refused"] /\ UNCHANGED pending
       ELSE pending' = Append(pending, r) /\ call' = [call EXCEPT ![r] = "accepted"]
    /\ UNCHANGED <<turn, over, stamp, ballot, tick, run, starts>>

Agreed(v, t) == Cardinality({p \in Players : v[p] = t}) >= 2

\* Everybody but p hears of its vote.
HeardBy(p) ==
    /\ \A q \in Players \ {p} : others[q] < MaxVotes
    /\ others' = [q \in Players |-> IF q = p THEN others[q] ELSE others[q] + 1]

\* Mutant of Vote: the votes that forced a turn stay on the map.
VoteForEver(p, t) ==
    LET cast == [votes EXCEPT ![p] = t] IN
    /\ IF turn > t THEN votes' = NoVotes /\ UNCHANGED force
       ELSE IF Agreed(cast, t) THEN votes' = cast /\ force' = TRUE
       ELSE votes' = cast /\ UNCHANGED force
    /\ HeardBy(p)
    /\ UNCHANGED <<turn, over, pending, handlers, tick, run, starts, forced>>

\* handleFastForward, in its critical section: a late vote clears the map; the
\* second vote for a turn clears it too and fills forceTurnCh if it is empty. The
\* token does not say which turn it is for, so a tick taken first leaves it to end
\* the next turn.
Vote(p, t) ==
    LET cast == [votes EXCEPT ![p] = t] IN
    /\ IF turn > t THEN votes' = NoVotes /\ UNCHANGED force
       ELSE IF Agreed(cast, t) THEN votes' = NoVotes /\ force' = TRUE
       ELSE votes' = cast /\ UNCHANGED force
    /\ HeardBy(p)
    /\ UNCHANGED <<turn, over, pending, handlers, tick, run, starts, forced>>

\* handleGameStart: every player calls it on joining.
GameStart ==
    /\ starts < MaxStarts /\ starts' = starts + 1 /\ turn' = 1
    /\ UNCHANGED <<over, pending, handlers, ballot, tick, run>>

-----------------------------------------------------------------------------
(* The select loop.                                                        *)

TickFires ==
    /\ ~tick /\ tick' = TRUE
    /\ UNCHANGED <<turn, over, pending, handlers, ballot, run, starts>>

\* Mutant of TakeOrders: when the game is over the orders stay where they are.
TakeOrdersOfGame ==
    /\ loop = "select"
    /\ IF over THEN UNCHANGED <<pending, taken, loop>>
       ELSE pending' = <<>> /\ taken' = pending /\ loop' = "turn"
    /\ UNCHANGED <<turn, over, handlers, votes, applied, starts, others>>

\* processTurnTick takes all orders, and returns if the game is over.
TakeOrders ==
    /\ loop = "select" /\ pending' = <<>>
    /\ IF over THEN UNCHANGED <<taken, loop>>
       ELSE taken' = pending /\ loop' = "turn"
    /\ UNCHANGED <<turn, over, handlers, votes, applied, starts, others>>

OnTick == tick /\ TakeOrders /\ tick' = FALSE /\ UNCHANGED <<force, forced>>

\* Reset restarts the ticker; a tick already in its channel stays there (Go 1.22).
OnForce ==
    /\ force /\ TakeOrders /\ force' = FALSE /\ UNCHANGED tick
    /\ forced' = IF over THEN forced ELSE forced + 1

FreshOrders == {i \in DOMAIN taken : stamp[taken[i]] \in {0, turn}}

\* Mutant of Kept: ProcessTurn applies every order of the turn.
KeptAll == {taken[i] : i \in FreshOrders}

\* ProcessTurn applies the first order of each unit.
Kept == {taken[i] : i \in {k \in FreshOrders :
           \A j \in FreshOrders : j < k => UnitOf[taken[j]] # UnitOf[taken[k]]}}

\* Mutant of RunTurn: the orders stay on the table.
RunTurnTwice ==
    /\ loop = "turn"
    /\ applied' = applied \cup Kept
    /\ turn' = turn + 1 /\ over' \in (IF turn >= MaxTurns THEN {TRUE} ELSE BOOLEAN)
    /\ loop' = "select"
    /\ UNCHANGED <<taken, pending, handlers, ballot, tick, starts>>

\* ProcessTurn: the turn advances, and the game may end, at MaxTurns it does.
RunTurn ==
    /\ loop = "turn"
    /\ applied' = applied \cup Kept
    /\ turn' = turn + 1 /\ over' \in (IF turn >= MaxTurns THEN {TRUE} ELSE BOOLEAN)
    /\ taken' = <<>> /\ loop' = "select"
    /\ UNCHANGED <<pending, handlers, ballot, tick, starts>>

\* A client votes for the turn it was last shown: an earlier one when the vote is
\* late, a later one when the game has been started again since.
VotedTurns == {n \in 0..MaxTurns + 1 : turn <= n + MaxLate /\ (n <= turn \/ starts > 0)}

Serve == TickFires \/ OnTick \/ OnForce \/ RunTurn

Next ==
    \/ \E r \in Requests : CheckTurn(r) \/ QueueOrder(r)
    \/ \E p \in Players, t \in VotedTurns : Vote(p, t)
    \/ GameStart
    \/ Serve

Spec == Init /\ [][Next]_vars

\* The ticker never stops and the select loop never waits while a case is ready.
FairSpec == Spec /\ WF_vars(Serve)

-----------------------------------------------------------------------------

\* Two orders of one unit for one turn never wait together, although any number
\* of handlers pass the turn check at once (handleOrder looks for the duplicate
\* and appends under one lock).
NoDuplicatePending ==
    \A i, j \in DOMAIN pending :
      UnitOf[pending[i]] = UnitOf[pending[j]] /\ stamp[pending[i]] = stamp[pending[j]] => i = j

\* Nobody forces turns alone: no more turns are forced than the other players have
\* cast votes, whichever player is left out of the count. Every forced turn has cost
\* the votes of two players, and none of these is counted again, although another
\* vote for the turn may come while it is being run (handleFastForward, which clears
\* the map when it fills forceTurnCh, and the one token that channel has room for).
NobodyForcesAlone == \A p \in Players : forced <= others[p]

\* An accepted order does not wait for ever, not even when the game is over
\* (processTurnTick empties the queue before it looks at GameOver).
OrdersAreSettled ==
    \A r \in Requests : r \in RangeOf(pending) ~> r \notin RangeOf(pending) \cup RangeOf(taken)

\* What became of each call of /order.
Fate == [r \in Requests |->
           IF r \in applied THEN "applied"
           ELSE IF call[r] # "accepted" THEN "open"
           ELSE IF r \in RangeOf(pending) \cup RangeOf(taken) THEN "accepted"
           ELSE "dropped"]

Book == INSTANCE OrderBook WITH fate <- Fate

\* The server keeps the promise of OrderBook: no order is applied twice, no unit
\* gets two orders in a turn (an order for turn 0 and one for turn 1 may meet
\* when the game is started late), and none is applied after the end.
OrderBookSpec == Book!Spec

=============================================================================
