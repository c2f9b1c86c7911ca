------------------------------- MODULE SSEHub -------------------------------
(***************************************************************************)
(* The event streams of one instance (package api): each connection to     *)
(* /events has a handler goroutine and a buffered channel, and the select  *)
(* loop keeps the map from players to channels, told of connections and    *)
(* disconnections through two more channels. The light and the dark map    *)
(* are one map here: a player id belongs to one side. The state of the     *)
(* world is broadcast by the select loop after a turn and by HTTP handlers *)
(* (/game/start, and /internal/broadcast on a peer), which share the mutex *)
(* mu and nothing else. Of the states themselves it only counts which of   *)
(* them is the newest.                                                     *)
(***************************************************************************)
EXTENDS Naturals, Sequences

CONSTANTS
    Players,  \* the player ids of the clients
    Conns,    \* bound: the connections they make, each used once
    PlayerOf, \* the player of each connection
    SideOf,   \* the side of each player
    Handlers, \* the HTTP handlers that broadcast, /game/start or /internal/broadcast
    NoConn,   \* no channel in the map
    QueueCap, \* capacity of newConnectionCh and disconnectCh, 10 in the code
    BufCap    \* capacity of a connection's channel, 32 in the code

ASSUME CapsAssumption == QueueCap \in Nat \ {0} /\ BufCap \in Nat \ {0}
ASSUME ConnsAssumption ==
    /\ PlayerOf \in [Conns -> Players] /\ NoConn \notin Conns
    /\ SideOf \in [Players -> {"light", "dark"}]
ASSUME HandlersAssumption == "loop" \notin Handlers /\ "nobody" \notin Handlers

VARIABLES
    stage,   \* where the handler of each connection is
    clients, \* lightClients and darkClients: player -> channel
    newQ,    \* newConnectionCh
    discQ,   \* disconnectCh
    buf,     \* how many events wait in the channel of each connection
    closed,  \* the channels that have been closed
    holder,  \* who broadcasts, with mu locked
    todo,    \* the players whose channels it has still to serve
    left,    \* the sides each sender has still to broadcast its snapshot to
    fresh,   \* the senders whose snapshot is the newest state
    behind,  \* the clients whose last state, shown or in their channel, is not
    missed,  \* history: those of them the newest state did not reach, or left again
    panic    \* why the process died

registry  == <<clients, closed>>
queues    == <<newQ, discQ>>
broadcast == <<holder, todo, left, fresh>>
view      == <<behind, missed>>
vars      == <<stage, registry, queues, buf, broadcast, view, panic>>

Senders == {"loop"} \cup Handlers
Sides   == {"light", "dark"}

\* The clients that are there, registered or not yet.
Watching == {c \in Conns : stage[c] \in {"joining", "open"}}

TypeOK ==
    /\ stage \in [Conns -> {"new", "joining", "open", "leaving", "gone"}]
    /\ clients \in [Players -> Conns \cup {NoConn}]
    /\ \A p \in Players : clients[p] # NoConn => PlayerOf[clients[p]] = p
    /\ newQ \in Seq(Conns) /\ Len(newQ) <= QueueCap
    /\ discQ \in Seq(Conns) /\ Len(discQ) <= QueueCap
    /\ buf \in [Conns -> 0..BufCap]
    /\ closed \in SUBSET Conns
    /\ todo \in SUBSET Players /\ \A p \in todo : clients[p] # NoConn
    /\ holder \in Senders \cup {"nobody"} /\ (holder = "nobody" <=> todo = {})
    /\ left \in [Senders -> SUBSET Sides] /\ fresh \in SUBSET Senders
    /\ behind \in SUBSET Conns /\ missed \in SUBSET Conns
    /\ panic \in {"none", "send", "close"}

Init ==
    /\ stage = [c \in Conns |-> "new"] /\ clients = [p \in Players |-> NoConn]
    /\ newQ = <<>> /\ discQ = <<>> /\ buf = [c \in Conns |-> 0]
    /\ closed = {} /\ panic = "none"
    /\ holder = "nobody" /\ todo = {}
    /\ left = [s \in Senders |-> {}] /\ fresh = {}
    /\ behind = {} /\ missed = {}

Alive == panic = "none"

-----------------------------------------------------------------------------
(* The handler of a connection, handleSSE.                                 *)

\* The current state is written, then the connection is announced ...
Connect(c) ==
    /\ Alive /\ stage[c] = "new" /\ stage' = [stage EXCEPT ![c] = "joining"]
    /\ UNCHANGED <<registry, queues, buf, broadcast, view, panic>>

\* ... which waits for room, whatever the client does meanwhile.
Join(c) ==
    /\ Alive /\ stage[c] = "joining" /\ Len(newQ) < QueueCap
    /\ newQ' = Append(newQ, c) /\ stage' = [stage EXCEPT ![c] = "open"]
    /\ UNCHANGED <<registry, discQ, buf, broadcast, view, panic>>

Read(c) ==
    /\ Alive /\ stage[c] = "open" /\ buf[c] > 0 /\ buf' = [buf EXCEPT ![c] = @ - 1]
    /\ UNCHANGED <<stage, registry, queues, broadcast, view, panic>>

\* The client is gone, or its connection broke: the handler returns ...
HangUp(c) ==
    /\ Alive /\ stage[c] = "open" /\ stage' = [stage EXCEPT ![c] = "leaving"]
    /\ behind' = behind \ {c} /\ missed' = missed \ {c}
    /\ UNCHANGED <<registry, queues, buf, broadcast, panic>>

\* Mutant of Leave: the end is not announced when nobody listens just then.
LeaveSilently(c) ==
    /\ Alive /\ stage[c] = "leaving" /\ stage' = [stage EXCEPT ![c] = "gone"]
    /\ discQ' = IF Len(discQ) < QueueCap THEN Append(discQ, c) ELSE discQ
    /\ UNCHANGED <<registry, newQ, buf, broadcast, view, panic>>

\* ... by way of its deferred send.
Leave(c) ==
    /\ Alive /\ stage[c] = "leaving" /\ Len(discQ) < QueueCap
    /\ discQ' = Append(discQ, c) /\ stage' = [stage EXCEPT ![c] = "gone"]
    /\ UNCHANGED <<registry, newQ, buf, broadcast, view, panic>>

-----------------------------------------------------------------------------
(* The select loop; it takes one of the cases that are ready.              *)

Selecting == Alive /\ left["loop"] = {} /\ holder = "nobody"

\* Mutant of Register: the channel that is replaced is closed.
RegisterClosing ==
    /\ Selecting /\ newQ # <<>>
    /\ LET c == Head(newQ) IN
         /\ clients' = [clients EXCEPT ![PlayerOf[c]] = c]
         /\ closed' = closed \cup ({clients[PlayerOf[c]]} \ {NoConn})
    /\ newQ' = Tail(newQ)
    /\ UNCHANGED <<stage, discQ, buf, broadcast, view, panic>>

\* registerClient.
Register ==
    /\ Selecting /\ newQ # <<>>
    /\ LET c == Head(newQ) IN clients' = [clients EXCEPT ![PlayerOf[c]] = c]
    /\ newQ' = Tail(newQ)
    /\ UNCHANGED <<stage, discQ, buf, closed, broadcast, view, panic>>

\* unregisterClient forgets the player, whichever connection it had, and closes
\* the channel of this one; closing a closed channel panics.
Unregister ==
    /\ Selecting /\ discQ # <<>>
    /\ LET c == Head(discQ) IN
         /\ clients' = [clients EXCEPT ![PlayerOf[c]] = NoConn]
         /\ closed' = closed \cup {c}
         /\ panic' = IF c \in closed THEN "close" ELSE panic
    /\ discQ' = Tail(discQ)
    /\ UNCHANGED <<stage, newQ, buf, broadcast, view>>

-----------------------------------------------------------------------------
(* Broadcasts.                                                             *)

\* Mutant of Change: the snapshot is taken before the turn is run.
ChangeAfterSnapshot(s) ==
    /\ Alive /\ left[s] = {} /\ holder # s
    /\ left' = [left EXCEPT ![s] = Sides] /\ fresh' = {}
    /\ behind' = Watching /\ missed' = {}
    /\ UNCHANGED <<stage, registry, queues, buf, holder, todo, panic>>

\* The world changes, by processTurnTick, handleGameStart or, on a peer,
\* handleInternalBroadcast, and the sender takes a snapshot for both sides. What
\* another sender still has in hand is old now.
Change(s) ==
    /\ Alive /\ left[s] = {} /\ holder # s
    /\ left' = [left EXCEPT ![s] = Sides] /\ fresh' = {s}
    /\ behind' = Watching /\ missed' = {}
    /\ UNCHANGED <<stage, registry, queues, buf, holder, todo, panic>>

\* broadcastToClients for the light side, then for the dark: mu is locked. A
\* client that is not on the map misses what is sent now.
Broadcast(s) ==
    LET side == IF "light" \in left[s] THEN "light" ELSE "dark"
        of   == {p \in Players : SideOf[p] = side}
    IN  /\ Alive /\ holder = "nobody" /\ left[s] # {}
        /\ left' = [left EXCEPT ![s] = @ \ {side}]
        /\ todo' = {p \in of : clients[p] # NoConn}
        /\ holder' = IF todo' = {} THEN "nobody" ELSE s
        /\ missed' = missed \cup {c \in Watching : PlayerOf[c] \in of /\ clients[PlayerOf[c]] # c}
        /\ UNCHANGED <<stage, registry, queues, buf, fresh, behind, panic>>

\* Mutant of Deliver: the send has no default case.
DeliverBlocking(p) ==
    LET c == clients[p] IN
    /\ Alive /\ p \in todo /\ c \notin closed /\ buf[c] < BufCap
    /\ buf' = [buf EXCEPT ![c] = @ + 1] /\ todo' = todo \ {p}
    /\ holder' = IF todo' = {} THEN "nobody" ELSE holder
    /\ UNCHANGED <<stage, registry, queues, left, fresh, view, panic>>

\* One client after the other, in any order; a full channel is skipped.
Deliver(p) ==
    LET c == clients[p] IN
    /\ Alive /\ p \in todo /\ c \notin closed
    /\ todo' = todo \ {p} /\ holder' = IF todo' = {} THEN "nobody" ELSE holder
    /\ \/ /\ buf[c] = BufCap
          /\ missed' = missed \cup ({c} \cap Watching) /\ UNCHANGED <<buf, behind>>
       \/ /\ buf[c] < BufCap /\ buf' = [buf EXCEPT ![c] = @ + 1]
          /\ IF holder \in fresh
             THEN behind' = behind \ {c} /\ UNCHANGED missed
             ELSE /\ behind' = behind \cup ({c} \cap Watching)
                  /\ missed' = missed \cup (({c} \cap Watching) \ behind)
    /\ UNCHANGED <<stage, registry, queues, left, fresh, panic>>

\* A send on a closed channel panics. In the select loop that is the end of the
\* process; net/http recovers a handler, whose broadcast ends there.
SendOnClosed(p) ==
    /\ Alive /\ p \in todo /\ clients[p] \in closed
    /\ IF holder = "loop"
       THEN panic' = "send" /\ UNCHANGED <<broadcast, view>>
       ELSE /\ todo' = {} /\ holder' = "nobody"
            /\ left' = [left EXCEPT ![holder] = {}]
            /\ missed' = missed \cup {c \in Watching : PlayerOf[c] \in todo
                                                       \/ SideOf[PlayerOf[c]] \in left[holder]}
            /\ UNCHANGED <<fresh, behind, panic>>
    /\ UNCHANGED <<stage, registry, queues, buf>>

Handler(c) == Connect(c) \/ Join(c) \/ Read(c) \/ HangUp(c) \/ Leave(c)

Sending == \/ \E s \in Senders : Change(s) \/ Broadcast(s)
           \/ \E p \in Players : Deliver(p) \/ SendOnClosed(p)

Next == Register \/ Unregister \/ Sending \/ \E c \in Conns : Handler(c)

Spec == Init /\ [][Next]_vars

\* select takes each case that is ready again and again, senders wait for a
\* channel in the order they came, mu is given to everyone who waits for it, and
\* a broadcast serves every client.
FairSpec ==
    /\ Spec
    /\ SF_vars(Register) /\ SF_vars(Unregister)
    /\ \A s \in Senders : SF_vars(Broadcast(s))
    /\ \A p \in Players : WF_vars(Deliver(p) \/ SendOnClosed(p))
    /\ \A c \in Conns : SF_vars(Join(c)) /\ SF_vars(Leave(c))

-----------------------------------------------------------------------------

\* No channel is closed twice, however often a player reconnects and in whatever
\* order the two channels are read (unregisterClient is the only one to close).
ChannelsCloseOnce == panic # "close"

\* A client that went away is let go: its handler does not wait for ever to tell
\* the select loop, although the loop sends to a channel nobody reads any more
\* (the default case of broadcastToClients).
HandlersReturn ==
    \A c \in Conns : stage[c] = "leaving" ~> stage[c] = "gone" \/ ~Alive

\* A connection that is announced is taken up, and its channel closed once it
\* has ended, whichever comes first (registerClient, unregisterClient).
ConnectionsAreSettled ==
    \A c \in Conns : stage[c] = "gone" ~> (c \in closed /\ \A i \in DOMAIN newQ : newQ[i] # c)
                                          \/ ~Alive

\* When no broadcast is under way, a client that does not have the newest state in
\* front of it or in its channel was overlooked for one of these reasons only: it
\* was not on the map when its side was served (its first state is older than its
\* registration), its channel was full, an older snapshot of another sender came
\* after the newest, or a broadcast broke off. Whoever is registered in time and
\* reads gets every turn (handleSSE, broadcastWorldState, broadcastToClients).
StaleForAReason ==
    holder = "nobody" /\ (\A s \in Senders : left[s] = {}) => behind \subseteq missed

-----------------------------------------------------------------------------
(* What comments say and the code does not do.                             *)

\* api.go: "drop if slow consumer" is all that may happen to an event; the
\* channel of a connection whose end was handled before its beginning is closed.
SendsDoNotPanic == panic # "send"

\* api.go: "all SSE clients receive updates"; the end of a player's old
\* connection takes the new one off the map.
NobodyIsDeaf ==
    \A c \in Conns : stage[c] = "open" /\ (\A i \in DOMAIN newQ : newQ[i] # c) =>
      clients[PlayerOf[c]] # NoConn

=============================================================================
