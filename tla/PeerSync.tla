------------------------------ MODULE PeerSync ------------------------------
(***************************************************************************)
(* How the world state travels (package api): the coordinator changes its  *)
(* cache, shows a snapshot to its own clients and starts a goroutine that  *)
(* posts the snapshot to the other instances, one after the other; each of *)
(* them replaces its cache by it and shows it to its clients. A state is a *)
(* number here, one more with every turn and every start of the game.      *)
(***************************************************************************)
EXTENDS Naturals, Sequences

CONSTANTS
    Instances, Coordinator, \* INSTANCE_ID: go-1 is the coordinator
    PeerAddrs,   \* the other instances in the order they are called
    Starts,      \* bound: the calls of /game/start
    MaxStates,   \* bound: the last state of the world
    MaxLost,     \* bound: posts to an instance that cannot be reached
    MaxTimeouts  \* bound: posts that outlast the 3 seconds of httpClient

ASSUME InstancesAssumption ==
    /\ Coordinator \in Instances
    /\ PeerAddrs \in Seq(Instances \ {Coordinator})
    /\ \A p \in Instances \ {Coordinator} : \E i \in 1..Len(PeerAddrs) : PeerAddrs[i] = p
    /\ Starts \cap Instances = {}
ASSUME BoundsAssumption == MaxStates \in Nat /\ MaxLost \in Nat /\ MaxTimeouts \in Nat

VARIABLES
    cache,    \* the state each instance holds
    shown,    \* the state each instance's clients were sent last
    writer,   \* where each select loop and each handler of /game/start is
    held,     \* the snapshot it has taken
    posts,    \* the notifyPeers goroutines: snapshot, next address, fate at each peer
    lost, late, \* how many posts failed and how many timed out
    calm      \* history: no change of the world met an unfinished or failed post

vars == <<cache, shown, writer, held, posts, lost, late, calm>>

Writers == Instances \cup Starts
Peers   == Instances \ {Coordinator}
Home(w) == IF w \in Instances THEN w ELSE Coordinator

Stages == {"todo", "sent", "stored", "done", "lost"}
Posts  == [state : 0..MaxStates, at : 1..(Len(PeerAddrs) + 1), stage : [Peers -> Stages]]

TypeOK ==
    /\ cache \in [Instances -> 0..MaxStates] /\ shown \in [Instances -> 0..MaxStates]
    /\ writer \in [Writers -> {"idle", "updated", "snapped", "returned"}]
    /\ held \in [Writers -> 0..MaxStates]
    /\ posts \in Seq(Posts)
    /\ lost \in 0..MaxLost /\ late \in 0..MaxTimeouts /\ calm \in BOOLEAN

Init ==
    /\ cache = [i \in Instances |-> 0] /\ shown = [i \in Instances |-> 0]
    /\ writer = [w \in Writers |-> "idle"] /\ held = [w \in Writers |-> 0]
    /\ posts = <<>> /\ lost = 0 /\ late = 0 /\ calm = TRUE

-----------------------------------------------------------------------------
(* The coordinator.                                                        *)

Finished(k) == posts[k].at > Len(PeerAddrs)
Resting     == /\ \A k \in DOMAIN posts : Finished(k)
               /\ \A w \in Writers : writer[w] \in {"idle", "returned"}

\* Mutant of TakesTurns: every instance runs turns when its ticker fires.
TakesTurnsEverywhere == Instances

\* The ticker of every instance fires, the coordinator's alone does something.
TakesTurns == {Coordinator}

\* ProcessTurn, or Turn = 1, under the cache's write lock.
Update(w) ==
    /\ w \in TakesTurns \cup Starts /\ writer[w] = "idle" /\ cache[Home(w)] < MaxStates
    /\ cache' = [cache EXCEPT ![Home(w)] = @ + 1]
    /\ writer' = [writer EXCEPT ![w] = "updated"]
    /\ calm' = (calm /\ Resting)
    /\ UNCHANGED <<shown, held, posts, lost, late>>

\* Mutant of TakeSnapshot: the snapshot of before the turn is broadcast.
TakeSnapshotEarly(w) ==
    /\ writer[w] = "updated" /\ held' = [held EXCEPT ![w] = cache[Home(w)] - 1]
    /\ writer' = [writer EXCEPT ![w] = "snapped"]
    /\ UNCHANGED <<cache, shown, posts, lost, late, calm>>

TakeSnapshot(w) ==
    /\ writer[w] = "updated" /\ held' = [held EXCEPT ![w] = cache[Home(w)]]
    /\ writer' = [writer EXCEPT ![w] = "snapped"]
    /\ UNCHANGED <<cache, shown, posts, lost, late, calm>>

\* broadcastWorldState: the own clients, and a goroutine for the peers.
Publish(w) ==
    /\ writer[w] = "snapped" /\ shown' = [shown EXCEPT ![Home(w)] = held[w]]
    /\ posts' = Append(posts, [state |-> held[w], at |-> 1, stage |-> [p \in Peers |-> "todo"]])
    /\ writer' = [writer EXCEPT ![w] = IF w \in Starts THEN "returned" ELSE "idle"]
    /\ UNCHANGED <<cache, held, lost, late, calm>>

-----------------------------------------------------------------------------
(* A notifyPeers goroutine, and the handler of its request at the peer.    *)

Addressee(k) == PeerAddrs[posts[k].at]
FateAt(k, p) == posts[k].stage[p]
Mark(k, p, s) == posts' = [posts EXCEPT ![k].stage[p] = s]

Post(k) ==
    /\ ~Finished(k) /\ FateAt(k, Addressee(k)) = "todo"
    /\ Mark(k, Addressee(k), "sent")
    /\ UNCHANGED <<cache, shown, writer, held, lost, late, calm>>

\* Mutant of Unreachable: the goroutine returns.
UnreachableReturns(k) ==
    /\ ~Finished(k) /\ FateAt(k, Addressee(k)) = "todo" /\ lost < MaxLost
    /\ posts' = [posts EXCEPT ![k].stage[Addressee(k)] = "lost", ![k].at = Len(PeerAddrs) + 1]
    /\ lost' = lost + 1 /\ calm' = FALSE
    /\ UNCHANGED <<cache, shown, writer, held, late>>

\* The call fails: it is logged, and the next peer's turn. Nothing is retried.
Unreachable(k) ==
    /\ ~Finished(k) /\ FateAt(k, Addressee(k)) = "todo" /\ lost < MaxLost
    /\ posts' = [posts EXCEPT ![k].stage[Addressee(k)] = "lost", ![k].at = @ + 1]
    /\ lost' = lost + 1 /\ calm' = FALSE
    /\ UNCHANGED <<cache, shown, writer, held, late>>

Answered(k) ==
    /\ ~Finished(k) /\ FateAt(k, Addressee(k)) = "done"
    /\ posts' = [posts EXCEPT ![k].at = @ + 1]
    /\ UNCHANGED <<cache, shown, writer, held, lost, late, calm>>

\* The goroutine waits no longer; the request it has sent is still on its way.
TimesOut(k) ==
    /\ ~Finished(k) /\ FateAt(k, Addressee(k)) \in {"sent", "stored"} /\ late < MaxTimeouts
    /\ posts' = [posts EXCEPT ![k].at = @ + 1]
    /\ late' = late + 1 /\ calm' = FALSE
    /\ UNCHANGED <<cache, shown, writer, held, lost>>

\* handleInternalBroadcast replaces the peer's cache, whatever it held ...
Store(k, p) ==
    /\ FateAt(k, p) = "sent"
    /\ cache' = [cache EXCEPT ![p] = posts[k].state] /\ Mark(k, p, "stored")
    /\ UNCHANGED <<shown, writer, held, lost, late, calm>>

\* ... and passes the snapshot on to the peer's clients.
Show(k, p) ==
    /\ FateAt(k, p) = "stored"
    /\ shown' = [shown EXCEPT ![p] = posts[k].state] /\ Mark(k, p, "done")
    /\ UNCHANGED <<cache, writer, held, lost, late, calm>>

Deliver == \/ \E w \in Writers : TakeSnapshot(w) \/ Publish(w)
           \/ \E k \in DOMAIN posts : \/ Post(k) \/ Answered(k)
                                      \/ \E p \in Peers : Store(k, p) \/ Show(k, p)

Next == \/ \E w \in Writers : Update(w)
        \/ \E k \in DOMAIN posts : Unreachable(k) \/ TimesOut(k)
        \/ Deliver

Spec == Init /\ [][Next]_vars

\* What has been begun goes on: a handler finishes and a request arrives, or fails.
FairSpec == Spec /\ WF_vars(Deliver)

-----------------------------------------------------------------------------

\* An instance never holds or shows a state the coordinator has not reached:
\* only one of them runs turns (INSTANCE_ID in Run).
NobodyIsAhead ==
    \A i \in Instances : cache[i] <= cache[Coordinator] /\ shown[i] <= cache[Coordinator]

\* Every snapshot reaches every peer it could be sent to, another one being
\* slow or unreachable notwithstanding (notifyPeers goes on after an error).
EveryPeerIsServed ==
    \A k \in 1..MaxStates : \A p \in Peers :
      Len(posts) >= k ~> Len(posts) >= k /\ FateAt(k, p) \in {"done", "lost"}

\* While the world never changes before the last broadcast is through, and none
\* fails, all instances hold and show the same state between two changes
\* (processTurnTick takes the snapshot after the turn, handleInternalBroadcast
\* shows what it stores).
CalmPeersAgree ==
    calm /\ Resting => \A i \in Instances : cache[i] = cache[Coordinator] /\ shown[i] = cache[i]

-----------------------------------------------------------------------------
(* What the documentation says and the code does not do.                   *)

\* architecture.md: "so all 3 Go instances stay in sync"; two goroutines may
\* post two states in the wrong order, and the last one stays.
PeersStayInSync == <>[](\A p \in Peers : cache[p] = cache[Coordinator])

=============================================================================
