---------------------------- MODULE SSEHubProofs ----------------------------
(***************************************************************************)
(* What is proved of SSEHub, for any number of players, connections and    *)
(* reconnections and for channels of any size.                             *)
(***************************************************************************)
EXTENDS SSEHub, SequenceTheorems, TLAPS

LEMMA InitTypeOK == Init => TypeOK
BY CapsAssumption, ConnsAssumption DEF Init, TypeOK, Senders, Sides

\* What the head and the rest of a queue of connections are (Go's receive).
LEMMA ReceiveType ==
    ASSUME NEW q \in Seq(Conns), q # <<>>
    PROVE  /\ Head(q) \in Conns /\ Tail(q) \in Seq(Conns)
           /\ Len(q) \in Nat \ {0} /\ Len(Tail(q)) = Len(q) - 1
           /\ Head(q) = q[1]
           /\ \A i \in 1..Len(Tail(q)) : i + 1 \in 1..Len(q) /\ Tail(q)[i] = q[i + 1]
BY HeadTailProperties, EmptySeq, LenProperties

\* What a queue of connections is after a send.
LEMMA SendType ==
    ASSUME NEW q \in Seq(Conns), NEW c \in Conns
    PROVE  /\ Append(q, c) \in Seq(Conns) /\ Len(Append(q, c)) = Len(q) + 1
           /\ Len(q) \in Nat
           /\ \A i \in 1..Len(q) : Append(q, c)[i] = q[i]
           /\ Append(q, c)[Len(q) + 1] = c
BY AppendProperties, LenProperties

-----------------------------------------------------------------------------
(* Type correctness, which is inductive.                                   *)

LEMMA HandlerTypeOK ==
    ASSUME TypeOK, NEW c \in Conns, Handler(c)
    PROVE  TypeOK'
<1>1. CASE Connect(c)
  BY <1>1 DEF Connect, TypeOK, registry, queues, broadcast, view
<1>2. CASE Join(c)
  <2>1. /\ newQ' \in Seq(Conns) /\ Len(newQ') <= QueueCap
    BY <1>2, SendType, CapsAssumption DEF Join, TypeOK
  <2> QED
    BY <1>2, <2>1 DEF Join, TypeOK, registry, queues, broadcast, view
<1>3. CASE Read(c)
  BY <1>3, CapsAssumption DEF Read, TypeOK, registry, queues, broadcast, view
<1>4. CASE HangUp(c)
  BY <1>4 DEF HangUp, TypeOK, registry, queues, broadcast, view
<1>5. CASE Leave(c)
  <2>1. /\ discQ' \in Seq(Conns) /\ Len(discQ') <= QueueCap
    BY <1>5, SendType, CapsAssumption DEF Leave, TypeOK
  <2> QED
    BY <1>5, <2>1 DEF Leave, TypeOK, registry, queues, broadcast, view
<1> QED
  BY <1>1, <1>2, <1>3, <1>4, <1>5 DEF Handler

LEMMA RegistryTypeOK ==
    ASSUME TypeOK, Register \/ Unregister
    PROVE  TypeOK'
<1>1. CASE Register
  <2>1. /\ Head(newQ) \in Conns /\ newQ' \in Seq(Conns) /\ Len(newQ') <= QueueCap
    BY <1>1, ReceiveType, CapsAssumption DEF Register, TypeOK
  <2>2. todo = {}
    BY <1>1 DEF Register, Selecting, TypeOK
  <2>3. /\ clients' \in [Players -> Conns \cup {NoConn}]
        /\ \A p \in Players : clients'[p] # NoConn => PlayerOf[clients'[p]] = p
    BY <1>1, <2>1, ConnsAssumption DEF Register, TypeOK
  <2> QED
    BY <1>1, <2>1, <2>2, <2>3 DEF Register, TypeOK, broadcast, view
<1>2. CASE Unregister
  <2>1. /\ Head(discQ) \in Conns /\ discQ' \in Seq(Conns) /\ Len(discQ') <= QueueCap
    BY <1>2, ReceiveType, CapsAssumption DEF Unregister, TypeOK
  <2>2. todo = {}
    BY <1>2 DEF Unregister, Selecting, TypeOK
  <2>3. /\ clients' \in [Players -> Conns \cup {NoConn}]
        /\ \A p \in Players : clients'[p] # NoConn => PlayerOf[clients'[p]] = p
    BY <1>2, <2>1, ConnsAssumption DEF Unregister, TypeOK
  <2> QED
    BY <1>2, <2>1, <2>2, <2>3 DEF Unregister, TypeOK, broadcast, view
<1> QED
  BY <1>1, <1>2

LEMMA SendingTypeOK ==
    ASSUME TypeOK, Sending
    PROVE  TypeOK'
<1>1. ASSUME NEW s \in Senders, Change(s)
      PROVE  TypeOK'
  BY <1>1 DEF Change, TypeOK, registry, queues, Watching, Sides, Senders
<1>2. ASSUME NEW s \in Senders, Broadcast(s)
      PROVE  TypeOK'
  BY <1>2, HandlersAssumption DEF Broadcast, TypeOK, registry, queues, Watching, Sides, Senders
<1>3. ASSUME NEW p \in Players, Deliver(p)
      PROVE  TypeOK'
  <2>1. clients[p] \in Conns /\ p \in todo
    BY <1>3 DEF Deliver, TypeOK
  <2>2. buf' \in [Conns -> 0..BufCap]
    <3>1. buf \in [Conns -> 0..BufCap] /\ BufCap \in Nat
      BY CapsAssumption DEF TypeOK
    <3>2. buf' = buf \/ (buf[clients[p]] < BufCap
                         /\ buf' = [buf EXCEPT ![clients[p]] = @ + 1])
      BY <1>3 DEF Deliver
    <3> QED
      BY <2>1, <3>1, <3>2
  <2>3. behind' \in SUBSET Conns /\ missed' \in SUBSET Conns
    BY <1>3 DEF Deliver, TypeOK, Watching
  <2>4. /\ todo' = todo \ {p} /\ holder' = IF todo' = {} THEN "nobody" ELSE holder
        /\ UNCHANGED <<stage, clients, closed, newQ, discQ, left, fresh, panic>>
    BY <1>3 DEF Deliver, registry, queues
  <2> QED
    BY <2>1, <2>2, <2>3, <2>4 DEF TypeOK
<1>4. ASSUME NEW p \in Players, SendOnClosed(p)
      PROVE  TypeOK'
  <2>1. /\ p \in todo /\ UNCHANGED <<stage, clients, closed, newQ, discQ, buf>>
    BY <1>4 DEF SendOnClosed, registry, queues
  <2>2. CASE holder = "loop"
    BY <1>4, <2>1, <2>2 DEF SendOnClosed, TypeOK, broadcast, view
  <2>3. CASE holder # "loop"
    <3>1. /\ todo' = {} /\ holder' = "nobody" /\ left' = [left EXCEPT ![holder] = {}]
          /\ missed' \in SUBSET Conns /\ UNCHANGED <<fresh, behind, panic>>
      BY <1>4, <2>3 DEF SendOnClosed, TypeOK, Watching
    <3>2. left' \in [Senders -> SUBSET Sides]
      BY <3>1 DEF TypeOK
    <3> QED
      BY <2>1, <3>1, <3>2 DEF TypeOK
  <2> QED
    BY <2>2, <2>3
<1> QED
  BY <1>1, <1>2, <1>3, <1>4 DEF Sending

LEMMA NextTypeOK == TypeOK /\ [Next]_vars => TypeOK'
<1>1. CASE UNCHANGED vars
  BY <1>1 DEF vars, registry, queues, broadcast, view, TypeOK, Watching
<1> QED
  BY <1>1, HandlerTypeOK, RegistryTypeOK, SendingTypeOK DEF Next

\* Type correctness of the hub (SSEHub).
THEOREM TypeCorrect == Spec => []TypeOK
BY InitTypeOK, NextTypeOK, PTL DEF Spec

-----------------------------------------------------------------------------
(* No channel is closed twice: a connection's end is announced by its      *)
(* handler's last step alone, so it is in disconnectCh once, and never     *)
(* after its channel has been closed.                                      *)

EndsOnce ==
    /\ \A i, j \in 1..Len(discQ) : discQ[i] = discQ[j] => i = j
    /\ \A i \in 1..Len(discQ) : stage[discQ[i]] = "gone" /\ discQ[i] \notin closed
    /\ \A c \in closed : stage[c] = "gone"
    /\ ChannelsCloseOnce

LEMMA InitEndsOnce == Init => EndsOnce
BY DEF Init, EndsOnce, ChannelsCloseOnce

\* Only Leave writes to disconnectCh, and it is a handler's last step.
LEMMA LeaveEndsOnce ==
    ASSUME TypeOK, EndsOnce, NEW c \in Conns, Leave(c)
    PROVE  EndsOnce'
<1>1. /\ Len(discQ') = Len(discQ) + 1 /\ Len(discQ) \in Nat
      /\ \A i \in 1..Len(discQ) : discQ'[i] = discQ[i] /\ discQ[i] \in Conns
      /\ discQ'[Len(discQ) + 1] = c
  BY SendType, ElementOfSeq DEF Leave, TypeOK
<1>2. /\ stage[c] = "leaving" /\ stage' = [stage EXCEPT ![c] = "gone"]
      /\ closed' = closed /\ panic' = panic
  BY DEF Leave, registry
<1>3. \A i \in 1..Len(discQ) : discQ[i] # c
  BY <1>2 DEF EndsOnce
<1>4. c \notin closed
  BY <1>2 DEF EndsOnce
<1>5. \A i, j \in 1..Len(discQ') : discQ'[i] = discQ'[j] => i = j
  BY <1>1, <1>3 DEF EndsOnce
<1>6. \A i \in 1..Len(discQ') : stage'[discQ'[i]] = "gone" /\ discQ'[i] \notin closed'
  <2> TAKE i \in 1..Len(discQ')
  <2>1. CASE i \in 1..Len(discQ)
    BY <1>1, <1>2, <2>1 DEF EndsOnce, TypeOK
  <2>2. CASE i = Len(discQ) + 1
    BY <1>1, <1>2, <1>4, <2>2 DEF TypeOK
  <2> QED
    BY <1>1, <2>1, <2>2
<1>7. \A d \in closed' : stage'[d] = "gone"
  BY <1>2 DEF EndsOnce, TypeOK
<1> QED
  BY <1>2, <1>5, <1>6, <1>7 DEF EndsOnce, ChannelsCloseOnce

\* The other steps of a handler leave ended connections alone.
LEMMA HandlerEndsOnce ==
    ASSUME TypeOK, EndsOnce, NEW c \in Conns, Handler(c)
    PROVE  EndsOnce'
<1>1. ASSUME NEW d \in Conns, stage[d] = "gone", ~Leave(c)
      PROVE  stage'[d] = "gone"
  BY <1>1 DEF Handler, Connect, Join, Read, HangUp, TypeOK
<1>2. ASSUME ~Leave(c)
      PROVE  discQ' = discQ /\ closed' = closed /\ panic' = panic
  BY <1>2 DEF Handler, Connect, Join, Read, HangUp, registry, queues
<1>3. \A i \in 1..Len(discQ) : discQ[i] \in Conns
  BY ElementOfSeq DEF TypeOK
<1>4. ASSUME ~Leave(c)
      PROVE  EndsOnce'
  <2>1. \A i \in 1..Len(discQ') : stage'[discQ'[i]] = "gone" /\ discQ'[i] \notin closed'
    BY <1>1, <1>2, <1>3, <1>4 DEF EndsOnce
  <2>2. \A d \in closed' : stage'[d] = "gone"
    BY <1>1, <1>2, <1>4 DEF EndsOnce, TypeOK
  <2> QED
    BY <1>2, <1>4, <2>1, <2>2 DEF EndsOnce, ChannelsCloseOnce
<1> QED
  BY <1>4, LeaveEndsOnce

LEMMA UnregisterEndsOnce ==
    ASSUME TypeOK, EndsOnce, Unregister
    PROVE  EndsOnce'
<1> DEFINE c == Head(discQ)
<1>1. /\ Len(discQ) \in Nat \ {0} /\ Len(discQ') = Len(discQ) - 1 /\ c = discQ[1]
      /\ \A i \in 1..Len(discQ') : i + 1 \in 1..Len(discQ) /\ discQ'[i] = discQ[i + 1]
  BY ReceiveType DEF Unregister, TypeOK
<1>2. /\ closed' = closed \cup {c} /\ stage' = stage
      /\ panic' = IF c \in closed THEN "close" ELSE panic
  BY DEF Unregister
<1>3. c \notin closed /\ stage[c] = "gone"
  BY <1>1 DEF EndsOnce
<1>4. \A i \in 1..Len(discQ') : discQ'[i] # c
  BY <1>1 DEF EndsOnce
<1>5. \A i, j \in 1..Len(discQ') : discQ'[i] = discQ'[j] => i = j
  BY <1>1 DEF EndsOnce
<1> QED
  BY <1>1, <1>2, <1>3, <1>4, <1>5 DEF EndsOnce, ChannelsCloseOnce

LEMMA NextEndsOnce == TypeOK /\ EndsOnce /\ [Next]_vars => EndsOnce'
<1> SUFFICES ASSUME TypeOK, EndsOnce, [Next]_vars
             PROVE  EndsOnce'
  OBVIOUS
<1>1. CASE Sending
  <2>1. UNCHANGED <<stage, discQ, closed>>
    BY <1>1 DEF Sending, Change, Broadcast, Deliver, SendOnClosed, registry, queues
  <2>2. panic' \in {panic, "send"}
    BY <1>1 DEF Sending, Change, Broadcast, Deliver, SendOnClosed
  <2> QED
    BY <2>1, <2>2 DEF EndsOnce, ChannelsCloseOnce
<1>2. CASE Register
  BY <1>2 DEF Register, EndsOnce, ChannelsCloseOnce
<1>3. CASE UNCHANGED vars
  BY <1>3 DEF vars, registry, queues, EndsOnce, ChannelsCloseOnce
<1> QED
  BY <1>1, <1>2, <1>3, HandlerEndsOnce, UnregisterEndsOnce DEF Next

\* No channel is closed twice, whatever the order in which the loop takes
\* connections and disconnections (unregisterClient).
THEOREM CloseCorrect == Spec => []ChannelsCloseOnce
<1>1. EndsOnce => ChannelsCloseOnce
  BY DEF EndsOnce
<1> QED
  BY <1>1, InitTypeOK, NextTypeOK, InitEndsOnce, NextEndsOnce, PTL DEF Spec

-----------------------------------------------------------------------------
(* Who is behind and was not overlooked has the newest state still coming: *)
(* a sender that holds it has not begun with its side, or is at it.        *)

Coming(c) ==
    \E s \in fresh :
      \/ SideOf[PlayerOf[c]] \in left[s]
      \/ holder = s /\ clients[PlayerOf[c]] = c /\ PlayerOf[c] \in todo

StaleInv == behind \subseteq Watching /\ \A c \in behind \ missed : Coming(c)

LEMMA InitStaleInv == Init => StaleInv
BY DEF Init, StaleInv

\* The world changes: the sender has both sides before it.
LEMMA ChangeStaleInv ==
    ASSUME TypeOK, StaleInv, NEW s \in Senders, Change(s)
    PROVE  StaleInv'
<1>1. /\ behind' = Watching /\ fresh' = {s} /\ left'[s] = Sides /\ stage' = stage
  BY DEF Change, TypeOK
<1>2. \A c \in Conns : SideOf[PlayerOf[c]] \in Sides
  BY ConnsAssumption DEF Sides
<1> QED
  BY <1>1, <1>2 DEF StaleInv, Coming, Watching

\* A side is begun with: its clients are on the list now, or overlooked.
LEMMA BroadcastStaleInv ==
    ASSUME TypeOK, StaleInv, NEW s \in Senders, Broadcast(s)
    PROVE  StaleInv'
<1> DEFINE side == IF "light" \in left[s] THEN "light" ELSE "dark"
           of   == {p \in Players : SideOf[p] = side}
<1>1. /\ holder = "nobody" /\ left' = [left EXCEPT ![s] = @ \ {side}]
      /\ todo' = {p \in of : clients[p] # NoConn}
      /\ holder' = IF todo' = {} THEN "nobody" ELSE s
      /\ missed' = missed \cup {c \in Watching : PlayerOf[c] \in of /\ clients[PlayerOf[c]] # c}
      /\ UNCHANGED <<stage, clients, fresh, behind>>
  BY DEF Broadcast, registry
<1>2. ASSUME NEW c \in behind' \ missed'
      PROVE  Coming(c)'
  <2>1. c \in behind \ missed /\ c \in Watching /\ c \in Conns /\ PlayerOf[c] \in Players
    BY <1>1, <1>2, ConnsAssumption DEF StaleInv, Watching
  <2>2. PICK t \in fresh : SideOf[PlayerOf[c]] \in left[t]
    <3>1. "nobody" \notin fresh
      BY HandlersAssumption DEF TypeOK, Senders
    <3> QED
      BY <1>1, <2>1, <3>1 DEF StaleInv, Coming
  <2>3. CASE t = s /\ SideOf[PlayerOf[c]] = side
    <3>1. PlayerOf[c] \in of /\ clients[PlayerOf[c]] = c
      BY <1>1, <1>2, <2>1, <2>3
    <3>2. PlayerOf[c] \in todo' /\ holder' = s
      BY <1>1, <2>1, <3>1, ConnsAssumption
    <3> QED
      BY <1>1, <2>2, <2>3, <3>1, <3>2 DEF Coming
  <2>4. CASE ~(t = s /\ SideOf[PlayerOf[c]] = side)
    BY <1>1, <2>2, <2>4 DEF Coming, TypeOK
  <2> QED
    BY <2>3, <2>4
<1> QED
  BY <1>1, <1>2 DEF StaleInv, Watching

\* A client is served, and overlooked when its channel is full or the state old.
LEMMA DeliverStaleInv ==
    ASSUME TypeOK, StaleInv, NEW p \in Players, Deliver(p)
    PROVE  StaleInv'
<1> DEFINE d == clients[p]
<1>1. /\ p \in todo /\ todo' = todo \ {p}
      /\ holder' = IF todo' = {} THEN "nobody" ELSE holder
      /\ UNCHANGED <<stage, clients, left, fresh>>
  BY DEF Deliver, registry
<1>2. behind' \subseteq Watching'
  BY <1>1 DEF Deliver, StaleInv, Watching
<1>3. ASSUME NEW c \in behind' \ missed'
      PROVE  c \in behind \ missed /\ (c # d \/ holder \notin fresh)
  BY <1>3 DEF Deliver, StaleInv
<1>4. ASSUME NEW c \in behind' \ missed'
      PROVE  Coming(c)'
  <2>1. PICK s \in fresh : \/ SideOf[PlayerOf[c]] \in left[s]
                           \/ holder = s /\ clients[PlayerOf[c]] = c /\ PlayerOf[c] \in todo
    BY <1>3, <1>4 DEF StaleInv, Coming
  <2>2. CASE SideOf[PlayerOf[c]] \in left[s]
    BY <1>1, <2>1, <2>2 DEF Coming
  <2>3. CASE holder = s /\ clients[PlayerOf[c]] = c /\ PlayerOf[c] \in todo
    <3>1. PlayerOf[c] # p
      BY <1>3, <1>4, <2>1, <2>3
    <3> QED
      BY <1>1, <2>1, <2>3, <3>1 DEF Coming
  <2> QED
    BY <2>1, <2>2, <2>3
<1> QED
  BY <1>2, <1>4 DEF StaleInv

\* A broadcast that breaks off overlooks everybody it had still to serve.
LEMMA BrokenStaleInv ==
    ASSUME TypeOK, StaleInv, NEW p \in Players, SendOnClosed(p)
    PROVE  StaleInv'
<1>1. CASE holder = "loop"
  BY <1>1 DEF SendOnClosed, StaleInv, Coming, Watching, broadcast, view, registry
<1>2. CASE holder # "loop"
  <2>1. /\ p \in todo /\ todo' = {} /\ left' = [left EXCEPT ![holder] = {}]
        /\ missed' = missed \cup {c \in Watching : PlayerOf[c] \in todo
                                                   \/ SideOf[PlayerOf[c]] \in left[holder]}
        /\ UNCHANGED <<stage, clients, fresh, behind>>
    BY <1>2 DEF SendOnClosed, registry
  <2>2. ASSUME NEW c \in behind' \ missed'
        PROVE  Coming(c)'
    <3>1. c \in behind \ missed /\ c \in Watching
      BY <2>1, <2>2 DEF StaleInv
    <3>2. PlayerOf[c] \notin todo /\ SideOf[PlayerOf[c]] \notin left[holder]
      BY <2>1, <2>2, <3>1
    <3>3. PICK s \in fresh : SideOf[PlayerOf[c]] \in left[s]
      BY <3>1, <3>2 DEF StaleInv, Coming
    <3>4. s # holder /\ s \in Senders
      BY <3>2, <3>3 DEF TypeOK
    <3> QED
      BY <2>1, <3>3, <3>4 DEF Coming, TypeOK
  <2> QED
    BY <2>1, <2>2 DEF StaleInv, Watching
<1> QED
  BY <1>1, <1>2

\* No broadcast is under way when the loop touches the map, and a handler only
\* takes its own connection out of the account.
LEMMA NextStaleInv == TypeOK /\ StaleInv /\ [Next]_vars => StaleInv'
<1> SUFFICES ASSUME TypeOK, StaleInv, [Next]_vars
             PROVE  StaleInv'
  OBVIOUS
<1>1. CASE Register \/ Unregister
  <2>1. /\ holder = "nobody" /\ UNCHANGED <<stage, left, fresh, behind, missed, holder>>
    BY <1>1 DEF Register, Unregister, Selecting, broadcast, view
  <2>2. "nobody" \notin fresh
    BY HandlersAssumption DEF TypeOK, Senders
  <2> QED
    BY <2>1, <2>2 DEF StaleInv, Coming, Watching
<1>2. ASSUME NEW c \in Conns, Handler(c)
      PROVE  StaleInv'
  <2>1. UNCHANGED <<clients, holder, todo, left, fresh>>
    BY <1>2 DEF Handler, Connect, Join, Read, HangUp, Leave, registry, broadcast
  <2>2. behind' \subseteq Watching' /\ behind' \ missed' \subseteq behind \ missed
    <3>1. CASE HangUp(c)
      BY <3>1 DEF HangUp, StaleInv, Watching, TypeOK
    <3>2. CASE ~HangUp(c)
      BY <1>2, <3>2 DEF Handler, Connect, Join, Read, Leave, StaleInv, Watching, TypeOK, view
    <3> QED
      BY <3>1, <3>2
  <2> QED
    BY <2>1, <2>2 DEF StaleInv, Coming
<1>3. CASE Sending
  BY <1>3, ChangeStaleInv, BroadcastStaleInv, DeliverStaleInv, BrokenStaleInv DEF Sending
<1>4. CASE UNCHANGED vars
  BY <1>4 DEF vars, registry, broadcast, view, StaleInv, Coming, Watching
<1> QED
  BY <1>1, <1>2, <1>3, <1>4 DEF Next

\* A client without the newest state was overlooked for a reason, for any number of
\* clients and of handlers that broadcast beside the loop (StaleForAReason).
THEOREM StaleCorrect == Spec => []StaleForAReason
<1>1. TypeOK /\ StaleInv => StaleForAReason
  BY DEF StaleInv, Coming, StaleForAReason, TypeOK, Senders
<1> QED
  BY <1>1, InitTypeOK, NextTypeOK, InitStaleInv, NextStaleInv, PTL DEF Spec

=============================================================================
