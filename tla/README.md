# Ring of the Middle Earth: a TLA+ model of the game server

This directory holds TLA+ modules, TLC configurations and TLAPS proofs for the
Go game server of the repository (`src/option-b`). The server runs a two-player,
turn-based game: three instances behind nginx, one of which (`go-1`, the
coordinator) collects orders and fast-forward votes, runs a turn whenever a
ticker or a vote says so, and pushes the new world state to its own clients and
to the other instances.

`PROJECT.json` maps each definition to the lines it stands for. Run
`tlc -config MCRoad_block.cfg MCRoad` to check a run and `tlapm RingProofs.tla`
to check the proofs of a module.

## 1. Inventory

| Component | State | Operations | Talks to |
|---|---|---|---|
| Turn engine, `internal/engine` | none of its own; `ProcessTurn` works on the cache | ten order types in steps 2-8 and 13; automatic moves, combat, timers, detection, control, outcome | called by the select loop under the cache's write lock |
| World state, `internal/cache` | turn, units, paths, regions, ring bearer, dark view, game over and winner | `Update` (write lock), `Snapshot` (read lock, deep copy) | everybody |
| Combat, `internal/combat` | none | strengths with terrain, fortification and leadership | the engine |
| Detection, `internal/detection` | none | Nazgul within range of the ring bearer | the engine, step 12 |
| Map graph, `internal/graph` | adjacency, read-only; distances and a heap during a search | neighbours, path between, BFS, Dijkstra | engine, detection, pipelines |
| Configuration, `internal/config` | read-only maps; section, block and fields while it reads | two hand-written parsers, line by line | `main` |
| Order and vote coordination, `internal/api` | `pendingOrders`, `fastForwardVotes`, `forceTurnCh`, the ticker | `/order`, `/game/fast-forward`, `/game/start`, the select loop's `processTurnTick` | HTTP handlers and the select loop share them under two mutexes |
| Event streams, `internal/api` | a map player -> channel for each side, `newConnectionCh`, `disconnectCh` | `/events`, register, unregister, broadcast | one handler goroutine per connection, and the select loop |
| Peer synchronisation, `internal/api` | each instance's cache | `broadcastWorldState`, `notifyPeers`, `/internal/broadcast` | HTTP between instances, 3 s timeout, no retry |
| State views, `internal/api` | none | what each side may see, which orders a unit is offered | `/game/state`, `/events`, `/orders/available` |
| Analyses, `internal/pipeline` | two worker pools, their channels, a deadline of 2 s; a request queue in `internal/api` | route risk, interception | run inside the select loop, asked for by two handlers that wait 3 s |
| Event router, `internal/router` | routing table | route an event to light, dark or both | built by `main`, its loop is never run |
| Kafka emitter, `internal/kafka` | a mock producer | produce | unused by the game's own path |
| Stream topologies, `kafka/streams` | stores | validate and enrich orders | not deployed |
| Browser client, `ui/` | the last state shown | the calls of a player | all HTTP end points |

What makes the code hard to get right, and what the models are aimed at:

* **A turn is thirteen steps over shared fields.** A path's status, window and
  blocker are written in steps 3, 6 and 9 and by the revert between 2 and 3; a
  unit's status, region, strength and wait in 2, 4, 7, 8 and 11. Timers start in
  one step and run down in a later one of the same turn. Attack groups are
  resolved in the order Go iterates two maps.
* **Handlers run beside the select loop.** `handleOrder` checks the turn on a
  snapshot and appends later under another lock; votes are read and cleared
  while the ticker ends turns; a token in `forceTurnCh` carries no turn.
* **Channels with little room.** Connections and disconnections come through two
  channels that `select` reads in any order; the loop sends to buffers their
  handlers may have stopped reading.
* **Broadcasts overtake each other.** Each one is a goroutine; a post may fail or
  be given up after 3 seconds while it is still on its way; peers overwrite what
  they have. On one instance, `/game/start` and `/internal/broadcast` broadcast
  beside the select loop.
* **An analysis stops the select loop** while a dispatcher, four workers and a
  closer pass tasks and results through channels, all of them ready to leave at a
  deadline.
* **One player must not see one unit.** The ring bearer's position is kept apart
  from everything else by hand, in each step and in each projection.
* **Hand-written parsers and searches.** The parsers cut lines at commas and
  braces; Dijkstra leaves overtaken items in its heap.

What makes each part correct: *engine* - the parts of a unit's and a path's
record agree after every step, windows have their length, hidden information
stays hidden and exposure is reported, an outcome follows from the position,
every game ends; *coordination* - an order is settled once, no unit acts twice
in a turn, nobody forces turns alone, nothing waits for ever; *streams* - no
double close, no handler stuck, every connection settled; *peers* - no instance
ahead of the coordinator, every snapshot delivered where it can be, agreement
when broadcasts do not overlap; *views* - before it is told, the dark side is shown
nothing that depends on where the ring bearer is (section 4 has two exceptions),
the winning order is offered when it can win; *analyses* - no task lost or done twice in time, every request
answered, nothing left running; *configuration and graph* - blocks do not mix,
distances are least. The hazards behind them, each at its line, are
in `PROJECT.json`.

## 2. The modules

```
WorldConfig --> Combat --> TurnEngine --> MCWorld ----------> MCRoad, MCWar, MCRing
                               |                                              |
                               +--> StateViews --> Secrecy -------------------+
                               +--> TurnEngineProofs --> RoadProofs
TurnEngineProofs, Secrecy --> RingProofs
Coordinator  --> MCCoordinator, CoordinatorProofs   (implements OrderBook)
SSEHub       --> MCSSEHub, SSEHubProofs
PeerSync     --> MCPeerSync, PeerSyncProofs
Analysis     --> MCAnalysis, AnalysisProofs         (implements AnalysisDesk)
ConfigLoader ----------+
MapGraph --> RouteRisk +--> Startup --> MCStartup, StartupProofs
```

**WorldConfig** is the read-only data: `UnitConfig` has the fields the rules read,
`PathFrom`/`PathTo` the map, with named assumptions. They say what
`config/units.conf` and `config/map.conf` satisfy: one ring bearer, at most one
Shadow Maia whose home is Isengard, no path from a region to itself, at most one
path between two regions, a wait of at least one turn for units that respawn.
`Within` is `BFSDistance` as a bounded recursive function.

**Combat** is the formula of `combat.go`. A group is a set instead of a slice;
the difference shows only in which defenders a pool of damage reaches first,
which depends on map iteration and is `HitGroups`' free choice.

**TurnEngine** is `ProcessTurn`. `pc` is the step that is due and `live` the
orders it has still to apply. Each step that changes something, and each order a
step applies, is one action; steps 2-6 take their orders step by step in arrival
order (`Due`), step 8 picks attack groups target by target in any order
(`GroupDue`). Between turns, `SubmitOrder` is what `/order` lets through, with
orders up to `MaxLate` turns old, and `GameStart` sets the turn to 1, as
`handleGameStart` does at any time between turns. A turn runs under one write
lock, so nothing else interleaves with its steps; splitting it lets the
properties speak of the states between them. Three facts of the code shape the
model: the ring bearer's public region is `""` and its true region is kept
apart; strengths that include the leaders' bonus are what a battle writes back;
and a region taken without defenders skips everything a won battle does. Names
are opaque, and events and log lines are left out.

**StateViews** adds what the server shows. `BuildStateForSide` and `GameState` are
the two projections, `AvailableOrders` the offers. They need two things `TurnEngine`
has no use for: the second copy of the ring bearer's route (`ringRoute`), from
which the offers are made, and whether a line of the log, which every state
carries in full, names a route of the ring bearer (`routeLogged`). `RouteBearer`
and `AdvanceBearer` are the engine's actions with these; every other step leaves
both alone.

**Secrecy** compares each play with one in which the ring bearer stays at home,
by a substitution: `AtHome` is `StateViews` with the ring bearer's route, place and
exposure replaced and its orders giving it no route. What the dark side is shown
must be equal in both, and each step of the one a step of the other. The three
views of `StateViews` are compared; the orders offered for a unit may differ in
one thing, `DESTROY_RING` for the ring bearer.
`HomeAssumption` says that home is not Mount Doom, as in `units.conf`.

**Coordinator** is the same server one level up: a turn is one step, and the
goroutines around it are what matters. `CheckTurn` and `QueueOrder` are the two
halves of `handleOrder`; `Vote` is the critical section of `handleFastForward`;
`OnTick`/`OnForce` are the two cases of the select that run a turn, each taking
all pending orders first; `RunTurn` applies what `ProcessTurn` would keep. `tick`
and `force` are the two one-place channels. Whether a turn ends the game is free
before `MaxTurns` and certain at it. The unlocked read of the turn in
`handleFastForward` is covered by the interleaving of `Vote` and `RunTurn`: it
returns the turn of before or of after. `forced` and `others` are history
variables: how many turns `forceTurnCh` has begun, and for each player how many
votes the others have cast. They guard nothing of the code; `MaxVotes` bounds the
votes of a run.

**OrderBook** is the promise: an order is accepted, then applied or dropped
once; a turn applies at most one order per unit; after the end none is applied.
`Coordinator` implements it through `Fate`, a function of the queue, the orders
in work and a history of what was applied.

**SSEHub** is one instance's streams: a stage for each connection's handler, the
map, the two channels, a counter for each buffer, and `panic`, since a send on a
closed channel or a second close ends the process. The
select loop broadcasts, and any number of HTTP handlers beside it (`Handlers`).
Each takes a snapshot (`fresh` while it is the
newest), then serves the sides it has `left`, one at a time, as `holder` of the
lock, the map's entries one by one (`todo`). A panic in a handler's broadcast is
recovered by `net/http` and the lock released by its `defer`, so the process goes
on with the rest unserved; one in the loop ends it. Of the contents of a channel
the model keeps whether its last state is the newest (`behind`), and as a history
variable whom the newest did not reach (`missed`). The light and the dark map are
one map here: a player id belongs to one side.

**PeerSync** is the way of a state through the instances. A state is a number,
one more with every change. The coordinator's loop and each call of
`/game/start` change the cache, take a snapshot and publish it; `posts` are the
goroutines of `notifyPeers`, each with the address it is at and what became of
its request at every peer. A post may fail (`Unreachable`) or be given up
(`TimesOut`) and still arrive. `calm` is a history variable: no change of the
world met an unfinished or failed post so far.

**Analysis** is both pipelines and the way to them. A handler queues its request
(`Send`, which has no timeout) and waits (`Receive` or `GiveUp`); the select loop
takes one (`Serve`), and until `Return` the loop does nothing else. In between,
`Dispatch`, `Take`, `Quit`, `Deliver`, `Drop` and `CloseResults` are the goroutines,
and `Deadline` may fall at any point. A task is its number; `score` is chosen at
the start and stands for the formula. `Ranked` is the insertion sort at the end of a
pipeline, a result at a time (`Inserted`). A dispatcher may outlive its pipeline, as
in the code. **AnalysisDesk** is what a caller is promised.

**ConfigLoader** reads a file line by line. A line is a record of what the parsers
tell apart: whether it opens or closes a block, its fields, whether a comma stands
before the brace. `BraceSticks` says when the closing brace stays on the last value
and `ValueOf` what the conversions make of it then. `Written` reads the same file
by its brackets, for the properties; `LayoutAssumption` says what a file is. **MapGraph** is adjacency, BFS as bounded
recursive functions, and Dijkstra as a state machine whose heap is a set of items
of which any least one may be popped. **RouteRisk** has the two formulas.
**Startup** composes them as `main` does: a file is loaded, the graph is that of
the loaded paths, then searches run one after another.

## 3. The runs

| Run | What it asks | World and bounds |
|---|---|---|
| `MCRoad_block` | type; a block standing after step 3 has its blocker at the path; windows between turns are in range; nobody crosses a block; surveillance never drops | 3 paths, 5 units (a blocker, a guard who fortifies, Gandalf who reopens and attacks, Saruman, the ring bearer who walks), 10 orders, 2 a turn, 4 turns by way of a start in the middle |
| `MCWar_battle` | the parts of a unit's record agree; destruction is final; strength is gained only by returning or from leaders | 3 regions, leaders on both sides, an indestructible and a respawning unit, Saruman, fortification, a ring bearer deployed in the open; 4 turns |
| `MCRing_quest` | exposure is reported the same turn; hidden turns stay hidden; unseen moves tell the dark side nothing but the offer of `DESTROY_RING`; the outcome is earned; the Ring's destruction is offered; one order per unit and turn; every game ends | two paths to Mount Doom, a Nazgul that walks, an orc that searches, Sauron at home, 1 hidden turn; orders one turn late, one start in the middle, 2 turns |
| `MCCoordinator_orders` | type; no two orders of a unit wait for one turn; nobody forces turns alone; accepted orders leave the queue; the server implements `OrderBook` | 2 calls about one unit, 2 voters with 2 votes each, 3 turns, votes one turn late, one late start |
| `MCSSEHub_streams` | no channel closed twice; no handler stuck; every connection settled; a client without the newest state was overlooked for a known reason | 2 connections of one player, all capacities 1, the loop and one handler broadcast |
| `MCPeerSync_news` | nobody ahead; every peer served; calm peers agree | 3 instances, 2 states, one lost and one late post, one `/game/start` |
| `MCAnalysis_pool` | type; no task lost or done twice; `resultCh` closed last; complete unless late; every request answered; dispatchers end; callers see what `AnalysisDesk` promises | one request a side, 3 tasks for the dark one, channels of 1 and 2, 2 workers, a queue of 1 |
| `MCStartup_load` | blocks with plain layouts are loaded as written; distances are least; risk has the terms of its comment, with Nazgul counted between the bounds its readings share; interception scores are earned by walks; settled regions stay settled; searches end | a map of 7 paths in 27 layouts (a triangle, two parallel paths, a path apart), 12 files of units |

Why these bounds are enough to be interesting. Every timer in these worlds lasts
three turns or less, so four turns see each one start, run and end, and see a
path reopened, fall back to BLOCKED and be reverted. In `MCRoad_block` the blocker
may leave, or fall when Gandalf attacks along a path he has reopened, so that the
revert meets both kinds of absence; the Nazgul's wait and the guard's fortification
run there as well as in `MCWar_battle`. Two orders a turn let two
units meet; more units with orders in one turn add commuting steps. The quest is
two paths long and ends in its second turn, the first that is not hidden; a third
turn comes with the start in the middle. One connection that replaces another is
enough for the wrong order of the two channels, with one entry of room so that
they are full all the time; the runs for `MCSSEHub_panic` and `MCSSEHub_deaf` add
a third connection of another player to be served. Two states are two broadcasts,
enough for one to overtake the other. In `MCCoordinator_orders` an order for turn
0 and one for turn 1 meet after the late start, which is how the engine's own
`dedupeOrdersByUnit` can have something to do: turn 0 stands for "the current
turn". In `MCAnalysis_pool` the dispatcher has to wait for room, two workers race
for tasks and for the end, and the second request waits behind the first. The map
of `MCStartup_load` has a detour cheaper than the straight way in the layouts that
keep the costs, and costs of zero in those that lose them.

The deadlock check is off where a bound stops the model (the engine, the peers,
the analyses once every request is answered, the loader of units.conf once its
file is read) and for the streams, where every client may be gone.

Every property has a mutant in `PROJECT.json`, a small bug in one definition that
makes TLC find it violated.

### Fairness

* `TurnEngine!FairSpec`: weak fairness of `Tick`. The ticker of `Run` fires for
  ever and `ProcessTurn` waits for nothing; nothing is assumed about players.
* `Coordinator!FairSpec`: weak fairness of the ticker and the select loop. No
  handler is assumed to be called, or to get on.
* `StateViews!FairViewSpec`: as `TurnEngine!FairSpec`.
* `SSEHub!FairSpec`: Go's select picks at random among the cases that are ready,
  so a case that is ready again and again is taken (strong fairness of
  `Register` and `Unregister`); goroutines that wait for a channel or for the
  mutex queue in order (`Join`, `Leave`, and the start of a broadcast); a
  broadcast in progress goes on. Nothing is assumed about clients: nobody has to
  read.
* `PeerSync!FairSpec`: what has been begun goes on; no assumption that posts
  succeed, or that turns are run.
* `Analysis!FairSpec`: strong fairness of `Serve` and `Send` for the same reasons;
  every goroutine of a pipeline gets on; a handler that waits is answered or gives
  up. Nothing is assumed about the deadline.
* `Startup!FairSpec`: the loop of Dijkstra goes on.

## 4. Where the code and its words differ

Each of these is a run in which TLC finds the counterexample.

* `MCSSEHub_panic`: an event is at worst dropped (`api.go:252`). If select
  handles the end of a connection before its beginning, the map keeps a closed
  channel and the next broadcast panics.
* `MCSSEHub_deaf`: "all SSE clients receive updates" (`api.go:8`).
  `unregisterClient` deletes the player's entry without comparing channels, so
  the end of an old connection silences the new one.
* `MCPeerSync_sync`: "so all 3 Go instances stay in sync"
  (`architecture.md:247`). Two broadcasts may arrive in the wrong order with
  nothing lost, and the older one stays until the next change.
* `MCStartup_values`: "LoadMapConfig parses map.conf" (`config.go:303`). The parser
  leaves the closing brace on the last value of a line such as `map.conf:31`,
  `Atoi` fails on `1 }` and its error is ignored (`config.go:389`, `412`): every
  threat and every path cost of the file is loaded as 0.

The models show further behaviour a reader of the code should know of; no run is
about it.

*Engine.* "Attackers each lose 1 strength" when the defenders hold
(`engine.go:713`), but the strength written back includes the leader's bonus
(`engine.go:716`), so an attacker led by +1 loses nothing and one led by more
grows; `StrengthFromLeaders` bounds it. A block on a corrupted path replaces the
corruption and is reverted to OPEN later, although `demo_test.go:184` calls it a
permanent change. Isengard taken without a battle leaves Saruman active.
`DEPLOY_NAZGUL` gives the ring bearer a public region. A Saruman who was disabled
keeps his region, and `BLOCK_PATH` does not ask for an active unit.

*Coordination.* A turn is forced "when both players have voted for this turn"
(`api.go:577`), but if a tick is waiting as well, the tick ends the turn that was
voted for and the token of `api.go:589` ends the next one. What does hold is that
every forced turn has cost votes of two players (`NobodyForcesAlone`). An order checked just
before the end of a turn is queued after it, answered "accepted" and dropped by the
engine. A late vote clears the votes just cast for the current turn.

*Views.* "Dark Side NEVER receives true region" (`api.go:424`) holds of the fields
of the state (`UnseenMovesTellNothing`), but not of everything the server tells.
The log goes to both sides (`api.go:411`), is never emptied, and
`applyAssignRoute` writes the ring bearer's route into it (`engine.go:233`); the
same route given by `REDIRECT_UNIT` is not written. And `/orders/available` never
asks which side the caller is on (`api.go:730-744`), while `availableOrders` reads
the true region and the route (`api.go:885-896`): whoever asks for the orders of the
ring bearer sees `DESTROY_RING` among them when it is at Mount Doom or its next path
touches it. The property compares the answers too and allows this one
difference, so it shows that the two are all there is.

*Streams.* `/game/start` broadcasts a snapshot of its own, which may be older than
the one of a turn that was broadcast meanwhile.

*Configuration.* In units.conf a value before `},` keeps the brace too: the
`canFortify=true` of `units.conf:46` is loaded as false and the cooldowns of lines
53 and 89 as 0; a list over three lines (86-88) keeps what is on the first.

*Analyses.* "Count Nazgul within 2 graph hops of any region in the route"
(`pipeline.go:75`). The code counts pairs of a region the route's paths lead to and a
region with Nazgul one or two hops from it: the region the route starts from is left
out, so is a Nazgul that stands in the region itself, and two Nazgul in one region
are one. `TestPipeline1_NazgulProximityAddsToScore` (`pipeline1_test.go:105-110`)
takes the route's first region in and expects a proximity of 2 and a total of 7; the
code comes to 1 and 5, and the assertion `rr.RiskScore < 4` does not show the
difference. Since the three disagree, `RiskIsExplained` does not say which is meant:
it holds the code to the other terms of the formula and to a count of Nazgul between
what all of them count and what any pair of regions allows.

## 5. The proofs

*The engine.* `TurnEngineProofs`, `RoadProofs` and `RingProofs` prove, for every
configuration that satisfies the assumptions of `WorldConfig`, every menu of orders
and every bound:

* `TypeCorrect`, `LifecycleCorrect`, `TimersCorrect`, from the inductive
  invariant `IInv`;
* `OrdersCorrect`, `SurveillanceCorrect`, `BlocksCorrect`, `MovementCorrect` and
  `StrengthCorrect`, on orders, paths, movement and battles;
* `ExposureCorrect`, `HiddenCorrect`, `OutcomeCorrect`, from `RingInv` and
  `OutcomeInv`, and `DestructionCorrect`;
* `OfferCorrect` and `SecrecyCorrect`, on what the two sides are shown, and
  `ViewsKeepTurns`, which carries the theorems on `Spec` over to `ViewSpec`.

The type invariant is not inductive: timers are natural numbers and are
decremented, so a timer of 0 on a path that is TEMPORARILY_OPEN would leave the
type. `IInv` therefore says what range each timer has *at each step of the turn*:
`UnitsOK`, `PathsOK` and `RegionsOK` take `pc` as a parameter and allow the full
window only between the step that starts it and the step that decrements it.
Lifecycle needs the same: after a battle a wait may be the whole of
`respawnTurns`, after step 11 it is one less. Steps that only move `pc` forward
are covered by `UnitsLater`, `PathsLater` and `RegionsLater`, which say that the
windows only shrink. `RingOK`, `GameOK` and `QueueOK` are plain typing, with
`live` inside the domain of `orders`.

The battle is where the work is: `StruckOK`, `PlacedOK`, `DisabledOK` and
`FoughtOK` say of one unit's snapshot that damage, moving in, the leader's bonus
and the fall of Saruman preserve it, and `AttackWonIInv` puts them together unit
by unit. `AfterHit` being positive for indestructible units is what lets
`SnapshotOK` exclude their death.

`RoadProofs`. While a turn runs, the orders it has still to apply are among those
it accepted (`AcceptedInv`), so `OrdersCorrect` follows from what `Accepted` lets
through. `BlocksInv` is stronger than `BlocksStandAfterStep3`: the blocker of a
BLOCKED path is at the path from the beginning of step 3 on, because the revert
before it leaves no path blocked by a unit that is elsewhere, and step 3 moves nobody
(`Step3KeepsUnits`).
`PathChanges` lists what a step may do to one path, and surveillance goes down in
none of the cases. For movement each way a unit can change its region is taken in
turn - routes, reinforcing, deploying, moving in after a battle, returning - and
shown to keep `MovesFreely`. For `StrengthCorrect`, a set of leaders gives no less
bonus than a subset of it (`LeaderBonusGrows`), so the leaders of an attack group
give no more than all of their side.

For the ring bearer, `RingInv` ties `exposed`, the dark view, the turn and `pc`:
exposure can be true only after step 7, and after step 12 it is in the view.
`OutcomeInv` adds that nothing moves once there is a winner (`AfterTheEnd`): only
the queue and the clock of `/game/start` change then.

`OfferCorrect` needs to know that the offers are made from a true copy:
the two copies of the ring bearer's route stay equal (`CopyInv`). `SecrecyCorrect` is noninterference
for the states and the offers (`ViewsAtHome`, `OffersAtHome`), and its proof is an unwinding: for
each action, if the dark side has been told nothing, the same action is a step of
the play in which the ring bearer is at home (`SubmitAtHome`, `OrderAtHome`,
`AdvanceAtHome`, `GroupAtHome` ... `FinishAtHome`). Under each lies the same fact
about the operators the action is built from, `SameRights`, `SameGroups`,
`SamePower`, `SameWound`: none of them reads the three fields in which the plays
differ. It is used that nobody but its own order can give the ring bearer a route
and that its public region is no region.

*The server.* `CoordinatorProofs`: `TypeCorrect`, `QueueCorrect` (no two orders of a
unit wait for one turn), `VotesCorrect`, and `BookCorrect`,
the refinement of `OrderBook`. The invariant `OrdersInv` says where each order can be -
in the queue, in work, or applied - and that it is in one of them only; with it each step
of the server is a step of the book or a stutter. `VotesInv` keeps the account for
`VotesCorrect`: a standing vote and a token are votes already cast that no forced turn
has used, and clearing the map is what stops a vote from being counted for two
turns. Assumed: the players are finitely many.

`SSEHubProofs`: `TypeCorrect`, `CloseCorrect`, `StaleCorrect`. `EndsOnce` says that the
end of a connection waits in `disconnectCh` once at most, and only while its channel
is not closed, which is why none is closed twice. `StaleInv` says of each client that does not have
the newest state that it is already known to be missed, or that a sender still has
it to serve (`Coming`). Assumed: the handlers have names of their own, so that the
select loop is none of them.

`PeerSyncProofs`: `TypeCorrect`, `AheadCorrect`, `CalmCorrect`. `AheadInv` bounds
every snapshot held, posted or stored by the coordinator's state. `CalmInv` says that
while everything is calm at most one writer or one post is under way, that it has the
newest state, and that every address it has passed is done; when none is under way,
every peer has that state. Assumed: `PeerAddrs` names
every peer.

`AnalysisProofs`: `ClosedCorrect`, `NothingLostCorrect`, `CompleteCorrect`, from
`QueueInv` (a request waits once, and its pipeline has not begun) and `PoolInv` (a closed
channel means every worker has gone; before the deadline a dispatcher ends only when
all is sent and a worker leaves only when all is taken). `TypeCorrect` adds the limits
of the channels (`LimitInv`) and what a handler can have been given (`AnswerInv`).
`DeskCorrect` is the refinement of `AnalysisDesk`, and with it the insertion sort:
`Inserted` puts a result where the ones before it are no worse, so that the list stays
sorted and keeps its elements (`InsertedKeeps`), and n insertions rank the first n
results (`RankedRanks`). Assumed: there is at least one worker and every channel has
room for one.

*The start.* `StartupProofs`: `LoaderCorrect`, `SettledCorrect`, `DijkstraCorrect`,
`DistancesCorrect`, `InterceptsCorrect`, `RiskCorrect`. `LayoutAssumption` states what
both files have in common with every file the parsers are meant for: blocks end and do
not nest, no key is set twice in one, and each has an id of its own. Nothing is assumed of
braces, commas and lists. `BlockInv` follows the parser line by line: inside a block `cur`
is what it makes of the lines so far and of nothing else (`ReadFrom`), and a block that is
over is in `loaded` under its id, where no later block can reach it - not even one whose id
is garbled. `LoaderInv` says that what is
loaded has natural numbers for costs, whatever the layout, since the files write
naturals and a failed conversion gives 0. `SearchInv` is Dijkstra's invariant: no item
of the heap is cheaper than its region, a settled region - one whose item has been
popped - is not dearer than any item, and all its edges have been looked at. `TreeInv`
says that every cost is that of a walk, and that this walk has no more edges than
regions have been popped so far. A walk is a sequence of regions with its running
costs, so "least" is a statement about all of them; the induction along a walk looks
at the first region whose cost is too high, which exists because a set of naturals has
a least element (`LeastNumber`). `DijkstraCorrect` says so of all walks.
`DistancesCorrect` is the property of the run, over the walks that the recursive
`Walks` lists: these are walks (`WalksAreWalks`), and the bound on their length loses
no region because of what `TreeInv` says of it. `InterceptsCorrect` follows for the
score of a Nazgul, if no route is longer than the number that stands for
"unreachable" (`LengthAssumption`). `RiskCorrect` takes the sum of the loop apart into
surveillance and counts (`LoopSum`) and shows that two rounds of the breadth-first search
find what is one or two hops away (`TwoHops`); that many pairs are within the bounds of
`NazgulCounts` is a matter of subsets of a finite set (`CountAllowed`). The sum of threats is the same fold on
both sides and is not looked into.

Recursive functions over 0..n (`Walks`, `Ranked`, `Total`) are reasoned about without an
induction theorem: the set of numbers up to which a table with the right values
exists has 0 and the successor of each member, so it has all of them (`AllNumbers`,
`TableExists`, `SortTableExists`, `SumTableExists`), and the `CHOOSE` behind the definition then picks
that table. This does not work for the folds of the library over sets.

*Only model-checked*: liveness (`GameEnds`, `OrdersAreSettled`, `HandlersReturn`,
`ConnectionsAreSettled`, `EveryPeerIsServed`, `RequestsAreServed`, `DispatchersEnd`,
`SearchEnds`), which is out of the prover's reach. Every invariant and every action
property of the passing runs is proved. What the folds inside
`Power` and `ThreatOf` add up to is not: no proof needs more of a battle than the outcome
of the comparison. The type invariants of `SSEHub` and `PeerSync` are only proved.

## 6. Not modelled

* *Events and the wording of the log*: of the log only what the views need. The
  ring bearer's events go to the side they are about and carry what the state
  carries.
* *Event router*: built by `main`, its loop is never run. *Kafka emitter*: a mock;
  the emitter in use writes to the clients' channels, which `SSEHub` has.
* *Stream topologies*: not deployed by `docker-compose.yml`. `topology1.go:108` marks
  a unit as seen before the later rules have accepted its order, which a model
  of the two would be about.
* *The turn limits of units.conf*: three lines of the parser outside any block.
* *Restart*: nothing is persisted and no code handles one. A crashed coordinator
  is the outcome of `MCSSEHub_panic`; the model ends there.
* *`/internal/ring`*: no instance registers it, so the posts to it always fail.
* *`ValidateOrder`* of the engine: called by tests only.
* *nginx, Docker, the browser*: the models take from them who calls what.

## 7. Plan

1. The two topologies as operators over batches of orders, against the rules the
   engine applies.
2. Composition of `SSEHub` and `PeerSync`: the state a client of a peer was shown
   last against the coordinator's.
3. Abstract specifications of the life of a unit and of a path, each with
   `TurnEngine` shown to implement it.
4. Proofs: that `HitGroups` and `Power` compute the strengths `combat.go` describes,
   once their sums are recursive functions over an order of the units.
