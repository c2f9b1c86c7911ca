--------------------------- MODULE PeerSyncProofs ---------------------------
(***************************************************************************)
(* What is proved of PeerSync, for any number of instances, broadcasts and *)
(* lost or late posts.                                                     *)
(***************************************************************************)
EXTENDS PeerSync, SequenceTheorems, TLAPS

-----------------------------------------------------------------------------
(* The goroutines of notifyPeers.                                          *)

\* A post that is not finished is for one of the peers (peerAddrs).
LEMMA AddresseeType ==
    ASSUME TypeOK, NEW k \in DOMAIN posts
    PROVE  /\ posts[k] \in Posts /\ Len(PeerAddrs) \in Nat
           /\ ~Finished(k) => posts[k].at \in 1..Len(PeerAddrs) /\ Addressee(k) \in Peers
<1>1. posts[k] \in Posts
  BY LenProperties, ElementOfSeq DEF TypeOK
<1>2. PeerAddrs \in Seq(Peers)
  BY InstancesAssumption DEF Peers
<1>3. Len(PeerAddrs) \in Nat
  BY <1>2, LenProperties
<1>4. \A i \in 1..Len(PeerAddrs) : PeerAddrs[i] \in Peers
  BY <1>2, ElementOfSeq
<1> QED
  BY <1>1, <1>3, <1>4 DEF Finished, Addressee, Posts

\* Changing one of the posts leaves the others as they are.
LEMMA ChangePost ==
    ASSUME TypeOK, NEW k \in DOMAIN posts, NEW x \in Posts, posts' = [posts EXCEPT ![k] = x]
    PROVE  /\ posts' \in Seq(Posts) /\ DOMAIN posts' = DOMAIN posts /\ posts'[k] = x
           /\ \A j \in DOMAIN posts : j # k => posts'[j] = posts[j]
BY LenProperties, ExceptSeq DEF TypeOK

\* What Mark does to the fate of a post at a peer.
LEMMA MarkPost ==
    ASSUME TypeOK, NEW k \in DOMAIN posts, NEW p \in Peers, NEW s \in Stages, Mark(k, p, s)
    PROVE  /\ posts' \in Seq(Posts) /\ DOMAIN posts' = DOMAIN posts
           /\ \A j \in DOMAIN posts :
                /\ posts'[j].state = posts[j].state /\ posts'[j].at = posts[j].at
                /\ \A q \in Peers : posts'[j].stage[q] =
                     IF j = k /\ q = p THEN s ELSE posts[j].stage[q]
<1> DEFINE x == [posts[k] EXCEPT !.stage[p] = s]
<1>1. posts[k] \in Posts
  BY AddresseeType
<1>2. /\ x \in Posts /\ x.state = posts[k].state /\ x.at = posts[k].at
      /\ \A q \in Peers : x.stage[q] = IF q = p THEN s ELSE posts[k].stage[q]
  BY <1>1 DEF Posts
<1>3. posts' = [posts EXCEPT ![k] = x]
  BY DEF Mark
<1> HIDE DEF x
<1> QED
  BY <1>2, <1>3, ChangePost

\* What happens when a goroutine goes on to the next address.
LEMMA MoveOn ==
    ASSUME TypeOK, NEW k \in DOMAIN posts, ~Finished(k), posts' = [posts EXCEPT ![k].at = @ + 1]
    PROVE  /\ posts' \in Seq(Posts) /\ DOMAIN posts' = DOMAIN posts
           /\ \A j \in DOMAIN posts :
                /\ posts'[j].state = posts[j].state /\ posts'[j].stage = posts[j].stage
                /\ posts'[j].at = IF j = k THEN posts[j].at + 1 ELSE posts[j].at
<1> DEFINE x == [posts[k] EXCEPT !.at = @ + 1]
<1>1. posts[k] \in Posts /\ posts[k].at \in 1..Len(PeerAddrs) /\ Len(PeerAddrs) \in Nat
  BY AddresseeType
<1>2. x \in Posts /\ x.state = posts[k].state /\ x.stage = posts[k].stage /\ x.at = posts[k].at + 1
  BY <1>1 DEF Posts
<1>3. posts' = [posts EXCEPT ![k] = x]
  OBVIOUS
<1> HIDE DEF x
<1> QED
  BY <1>2, <1>3, ChangePost

\* A post that fails: lost for its addressee, and on to the next.
LEMMA LosePost ==
    ASSUME TypeOK, NEW k \in DOMAIN posts, Unreachable(k)
    PROVE  /\ posts' \in Seq(Posts) /\ DOMAIN posts' = DOMAIN posts
           /\ \A j \in DOMAIN posts : posts'[j].state = posts[j].state
<1> DEFINE y == [posts[k] EXCEPT !.stage[Addressee(k)] = "lost"]
            x == [y EXCEPT !.at = posts[k].at + 1]
<1>1. /\ posts[k] \in Posts /\ posts[k].at \in 1..Len(PeerAddrs) /\ Len(PeerAddrs) \in Nat
      /\ Addressee(k) \in Peers
  BY AddresseeType DEF Unreachable
<1>2. y \in Posts /\ y.state = posts[k].state /\ y.at = posts[k].at
  BY <1>1 DEF Posts, Stages
<1>3. posts' = [posts EXCEPT ![k] = x]
  BY <1>1 DEF Unreachable, Posts
<1> HIDE DEF y
<1>4. x \in Posts /\ x.state = posts[k].state
  BY <1>1, <1>2 DEF Posts
<1> HIDE DEF x
<1> QED
  BY <1>3, <1>4, ChangePost

\* A new broadcast: one more goroutine, at the first address.
LEMMA NewPost ==
    ASSUME TypeOK, NEW w \in Writers, Publish(w)
    PROVE  /\ posts' \in Seq(Posts) /\ Len(posts) \in Nat /\ DOMAIN posts = 1..Len(posts)
           /\ DOMAIN posts' = 1..(Len(posts) + 1)
           /\ \A j \in DOMAIN posts : posts'[j] = posts[j]
           /\ LET x == posts'[Len(posts) + 1] IN
                x.state = held[w] /\ x.at = 1 /\ \A p \in Peers : x.stage[p] = "todo"
<1> DEFINE x == [state |-> held[w], at |-> 1, stage |-> [p \in Peers |-> "todo"]]
<1>1. Len(PeerAddrs) \in Nat
  BY InstancesAssumption, LenProperties
<1>2. x \in Posts /\ x.state = held[w] /\ x.at = 1 /\ \A p \in Peers : x.stage[p] = "todo"
  BY <1>1 DEF Posts, Stages, TypeOK
<1>3. posts' = Append(posts, x) /\ posts \in Seq(Posts)
  BY DEF Publish, TypeOK
<1> HIDE DEF x
<1> QED
  BY <1>2, <1>3, AppendProperties, LenProperties

-----------------------------------------------------------------------------
(* Type correctness, which is inductive.                                   *)

LEMMA InitTypeOK == Init => TypeOK
BY BoundsAssumption, EmptySeq DEF Init, TypeOK

LEMMA HomeType ==
    ASSUME NEW w \in Writers
    PROVE  Home(w) \in Instances
BY InstancesAssumption DEF Home

LEMMA WriterTypeOK ==
    ASSUME TypeOK, NEW w \in Writers, Update(w) \/ TakeSnapshot(w) \/ Publish(w)
    PROVE  TypeOK'
<1>1. CASE Update(w)
  <2>1. cache' \in [Instances -> 0..MaxStates]
    BY <1>1, HomeType, BoundsAssumption DEF Update, TypeOK
  <2>2. calm' \in BOOLEAN
    BY <1>1, Zenon DEF Update
  <2> QED
    BY <1>1, <2>1, <2>2 DEF Update, TypeOK
<1>2. CASE TakeSnapshot(w)
  BY <1>2, HomeType DEF TakeSnapshot, TypeOK
<1>3. CASE Publish(w)
  <2>1. posts' \in Seq(Posts)
    BY <1>3, NewPost
  <2> QED
    BY <1>3, <2>1, HomeType DEF Publish, TypeOK
<1> QED
  BY <1>1, <1>2, <1>3

LEMMA PostTypeOK ==
    ASSUME TypeOK, NEW k \in DOMAIN posts,
           Post(k) \/ Unreachable(k) \/ Answered(k) \/ TimesOut(k)
    PROVE  TypeOK'
<1>1. posts' \in Seq(Posts)
  <2>1. CASE Post(k)
    BY <2>1, MarkPost, AddresseeType DEF Post, Stages
  <2>2. CASE Unreachable(k)
    BY <2>2, LosePost
  <2>3. CASE Answered(k) \/ TimesOut(k)
    BY <2>3, MoveOn DEF Answered, TimesOut
  <2> QED
    BY <2>1, <2>2, <2>3
<1>2. /\ lost' \in 0..MaxLost /\ late' \in 0..MaxTimeouts
      /\ UNCHANGED <<cache, shown, writer, held>>
  BY BoundsAssumption DEF Post, Unreachable, Answered, TimesOut, TypeOK
<1>3. calm' \in {calm, FALSE}
  BY DEF Post, Unreachable, Answered, TimesOut
<1> QED
  BY <1>1, <1>2, <1>3 DEF TypeOK

LEMMA PeerTypeOK ==
    ASSUME TypeOK, NEW k \in DOMAIN posts, NEW p \in Peers, Store(k, p) \/ Show(k, p)
    PROVE  TypeOK'
<1>1. posts' \in Seq(Posts) /\ posts[k].state \in 0..MaxStates
  BY MarkPost, AddresseeType DEF Store, Show, Stages, Posts
<1> QED
  BY <1>1 DEF Store, Show, TypeOK, Peers

LEMMA NextTypeOK == TypeOK /\ [Next]_vars => TypeOK'
<1>1. CASE UNCHANGED vars
  BY <1>1 DEF vars, TypeOK
<1> QED
  BY <1>1, WriterTypeOK, PostTypeOK, PeerTypeOK DEF Next, Deliver

\* Type correctness of the instances and the posts (PeerSync).
THEOREM TypeCorrect == Spec => []TypeOK
BY InitTypeOK, NextTypeOK, PTL DEF Spec

-----------------------------------------------------------------------------
(* Nobody is ahead: no copy of a state is of a later one than the          *)
(* coordinator's, wherever it is on its way.                               *)

AheadInv ==
    /\ NobodyIsAhead
    /\ \A w \in Writers : held[w] <= cache[Coordinator]
    /\ \A k \in DOMAIN posts : posts[k].state <= cache[Coordinator]

LEMMA InitAheadInv == Init => AheadInv
BY InstancesAssumption DEF Init, AheadInv, NobodyIsAhead

\* Only the coordinator's cache is changed by a turn or a start of the game.
LEMMA HomeOfTurns ==
    ASSUME NEW w \in TakesTurns \cup Starts
    PROVE  Home(w) = Coordinator
BY InstancesAssumption DEF TakesTurns, Home

LEMMA NextAheadInv == TypeOK /\ AheadInv /\ [Next]_vars => AheadInv'
<1> SUFFICES ASSUME TypeOK, AheadInv, [Next]_vars
             PROVE  AheadInv'
  OBVIOUS
<1> USE InstancesAssumption
<1>1. ASSUME NEW w \in Writers, Update(w)
      PROVE  AheadInv'
  <2>1. /\ cache' = [cache EXCEPT ![Coordinator] = @ + 1]
        /\ UNCHANGED <<shown, held, posts>>
    BY <1>1, HomeOfTurns DEF Update
  <2>2. \A i \in Instances : cache[i] \in Nat /\ shown[i] \in Nat
    BY BoundsAssumption DEF TypeOK
  <2>3. \A w2 \in Writers : held[w2] \in Nat
    BY BoundsAssumption DEF TypeOK
  <2>4. \A k \in DOMAIN posts : posts[k].state \in Nat
    BY BoundsAssumption, AddresseeType DEF Posts
  <2> QED
    BY <2>1, <2>2, <2>3, <2>4 DEF AheadInv, NobodyIsAhead, TypeOK
<1>2. ASSUME NEW w \in Writers, TakeSnapshot(w)
      PROVE  AheadInv'
  BY <1>2, HomeType DEF TakeSnapshot, AheadInv, NobodyIsAhead, TypeOK
<1>3. ASSUME NEW w \in Writers, Publish(w)
      PROVE  AheadInv'
  <2>1. \A k \in DOMAIN posts' : posts'[k].state <= cache[Coordinator]
    <3> TAKE k \in DOMAIN posts'
    <3>1. k \in DOMAIN posts \/ k = Len(posts) + 1
      BY <1>3, NewPost
    <3>2. CASE k \in DOMAIN posts
      BY <1>3, <3>2, NewPost DEF AheadInv
    <3>3. CASE k = Len(posts) + 1
      BY <1>3, <3>3, NewPost DEF AheadInv
    <3> QED
      BY <3>1, <3>2, <3>3
  <2> QED
    BY <1>3, <2>1, HomeType DEF Publish, AheadInv, NobodyIsAhead, TypeOK
<1>4. ASSUME NEW k \in DOMAIN posts, Post(k) \/ Unreachable(k) \/ Answered(k) \/ TimesOut(k)
      PROVE  AheadInv'
  <2>1. UNCHANGED <<cache, shown, held>>
    BY <1>4 DEF Post, Unreachable, Answered, TimesOut
  <2>2. /\ DOMAIN posts' = DOMAIN posts
        /\ \A j \in DOMAIN posts : posts'[j].state = posts[j].state
    <3>1. CASE Post(k)
      BY <3>1, MarkPost, AddresseeType DEF Post, Stages
    <3>2. CASE Unreachable(k)
      BY <3>2, LosePost
    <3>3. CASE Answered(k) \/ TimesOut(k)
      BY <3>3, MoveOn DEF Answered, TimesOut
    <3> QED
      BY <1>4, <3>1, <3>2, <3>3
  <2> QED
    BY <2>1, <2>2 DEF AheadInv, NobodyIsAhead
<1>5. ASSUME NEW k \in DOMAIN posts, NEW p \in Peers, Store(k, p) \/ Show(k, p)
      PROVE  AheadInv'
  <2>1. /\ DOMAIN posts' = DOMAIN posts
        /\ \A j \in DOMAIN posts : posts'[j].state = posts[j].state
    BY <1>5, MarkPost DEF Store, Show, Stages
  <2> QED
    BY <1>5, <2>1 DEF Store, Show, AheadInv, NobodyIsAhead, Peers, TypeOK
<1>6. CASE UNCHANGED vars
  BY <1>6 DEF vars, AheadInv, NobodyIsAhead
<1> QED
  BY <1>1, <1>2, <1>3, <1>4, <1>5, <1>6 DEF Next, Deliver

\* No instance holds or shows a state the coordinator has not reached, however
\* posts are lost, late or overtaken (INSTANCE_ID in Run, notifyPeers).
THEOREM AheadCorrect == Spec => []NobodyIsAhead
<1>1. AheadInv => NobodyIsAhead
  BY DEF AheadInv
<1> QED
  BY <1>1, InitTypeOK, NextTypeOK, InitAheadInv, NextAheadInv, PTL DEF Spec

-----------------------------------------------------------------------------
(* Calm peers agree. While everything has been calm, one writer or one     *)
(* post is busy at most; what it carries is the newest state, and who does *)
(* not have that state yet is still to be sent it.                         *)

Busy(w) == writer[w] \in {"updated", "snapped"}

CalmInv ==
    /\ \A w \in Writers : Busy(w) => w \in TakesTurns \cup Starts
    /\ calm =>
        /\ \A k \in DOMAIN posts : \A i \in 1..Len(PeerAddrs) :
             i < posts[k].at => posts[k].stage[PeerAddrs[i]] = "done"
        /\ \A v, w \in Writers : Busy(v) /\ Busy(w) => v = w
        /\ \A j, k \in DOMAIN posts : ~Finished(j) /\ ~Finished(k) => j = k
        /\ \A w \in Writers, k \in DOMAIN posts : ~(Busy(w) /\ ~Finished(k))
        /\ \A w \in Writers : writer[w] = "snapped" => held[w] = cache[Coordinator]
        /\ \A k \in DOMAIN posts : ~Finished(k) => posts[k].state = cache[Coordinator]
        /\ (\A w \in Writers : ~Busy(w)) =>
             /\ shown[Coordinator] = cache[Coordinator]
             /\ \A p \in Peers :
                  /\ \/ cache[p] = cache[Coordinator]
                     \/ \E k \in DOMAIN posts : FateAt(k, p) \in {"todo", "sent"}
                  /\ \/ shown[p] = cache[Coordinator]
                     \/ \E k \in DOMAIN posts : FateAt(k, p) \in {"todo", "sent", "stored"}

LEMMA InitCalmInv == Init => CalmInv
BY InstancesAssumption DEF Init, CalmInv, Busy, Writers, Peers

\* A post that still has something to do at a peer is not finished: its goroutine
\* goes on only when a peer has answered, and every peer is among its addresses.
LEMMA CalmPending ==
    ASSUME TypeOK, CalmInv, calm, NEW k \in DOMAIN posts, NEW p \in Peers, FateAt(k, p) # "done"
    PROVE  ~Finished(k)
<1>1. PICK i \in 1..Len(PeerAddrs) : PeerAddrs[i] = p
  BY InstancesAssumption DEF Peers
<1>2. ~(i < posts[k].at)
  BY <1>1 DEF CalmInv, FateAt
<1> QED
  BY <1>1, <1>2, AddresseeType DEF Finished, Posts

LEMMA CalmImplies == TypeOK /\ CalmInv => CalmPeersAgree
<1> SUFFICES ASSUME TypeOK, CalmInv, calm, Resting, NEW i \in Instances
             PROVE  cache[i] = cache[Coordinator] /\ shown[i] = cache[i]
  BY DEF CalmPeersAgree
<1>1. \A w \in Writers : ~Busy(w)
  BY DEF Resting, Busy
<1>2. \A k \in DOMAIN posts, p \in Peers : FateAt(k, p) = "done"
  BY CalmPending DEF Resting
<1> QED
  BY <1>1, <1>2 DEF CalmInv, Peers

LEMMA UpdateCalmInv ==
    ASSUME TypeOK, CalmInv, NEW w \in Writers, Update(w)
    PROVE  CalmInv'
<1>1. /\ w \in TakesTurns \cup Starts /\ writer' = [writer EXCEPT ![w] = "updated"]
      /\ posts' = posts /\ calm' = (calm /\ Resting)
  BY DEF Update
<1>2. \A v \in Writers : Busy(v)' => v \in TakesTurns \cup Starts
  BY <1>1 DEF CalmInv, Busy, TypeOK
<1>3. ASSUME calm, Resting
      PROVE  CalmInv'
  <2>1. \A v \in Writers : Busy(v)' => v = w
    BY <1>1, <1>3 DEF Resting, Busy, TypeOK
  <2>2. Busy(w)' /\ \A v \in Writers : writer'[v] # "snapped"
    BY <1>1, <1>3 DEF Resting, Busy, TypeOK
  <2>3. \A k \in DOMAIN posts' : Finished(k)'
    BY <1>1, <1>3 DEF Resting, Finished
  <2>4. \A k \in DOMAIN posts' : \A i \in 1..Len(PeerAddrs) :
          i < posts'[k].at => posts'[k].stage[PeerAddrs[i]] = "done"
    BY <1>1, <1>3 DEF CalmInv
  <2> QED
    BY <1>2, <2>1, <2>2, <2>3, <2>4 DEF CalmInv, TakesTurns
<1> QED
  BY <1>1, <1>2, <1>3 DEF CalmInv, TakesTurns

LEMMA SnapshotCalmInv ==
    ASSUME TypeOK, CalmInv, NEW w \in Writers, TakeSnapshot(w)
    PROVE  CalmInv'
<1>1. /\ writer[w] = "updated" /\ writer' = [writer EXCEPT ![w] = "snapped"]
      /\ held' = [held EXCEPT ![w] = cache[Home(w)]]
      /\ UNCHANGED <<cache, shown, posts, calm>>
  BY DEF TakeSnapshot
<1>2. Busy(w) /\ \A v \in Writers : Busy(v)' <=> Busy(v)
  BY <1>1 DEF Busy, TypeOK
<1>3. held'[w] = cache[Coordinator]
  BY <1>1, <1>2, HomeOfTurns DEF CalmInv, TypeOK
<1>4. \A v \in Writers : v # w => held'[v] = held[v] /\ writer'[v] = writer[v]
  BY <1>1 DEF TypeOK
<1>5. \A k \in DOMAIN posts : (Finished(k)' <=> Finished(k)) /\ \A p \in Peers : FateAt(k, p)' = FateAt(k, p)
  BY <1>1 DEF Finished, FateAt
<1>6. ASSUME calm
      PROVE  \A v \in Writers : writer'[v] = "snapped" => held'[v] = cache'[Coordinator]
  BY <1>1, <1>3, <1>4, <1>6 DEF CalmInv
<1> QED
  BY <1>1, <1>2, <1>5, <1>6 DEF CalmInv, TakesTurns

LEMMA PublishCalmInv ==
    ASSUME TypeOK, CalmInv, NEW w \in Writers, Publish(w)
    PROVE  CalmInv'
<1> DEFINE n == Len(posts) + 1
<1>1. /\ writer[w] = "snapped" /\ writer' = [writer EXCEPT ![w] = IF w \in Starts THEN "returned" ELSE "idle"]
      /\ shown' = [shown EXCEPT ![Home(w)] = held[w]] /\ UNCHANGED <<cache, held, calm>>
  BY DEF Publish
<1>2. /\ Len(posts) \in Nat /\ n \in Nat /\ n \notin DOMAIN posts /\ DOMAIN posts' = DOMAIN posts \cup {n}
      /\ \A j \in DOMAIN posts : posts'[j] = posts[j]
      /\ posts'[n].state = held[w] /\ posts'[n].at = 1
      /\ \A p \in Peers : posts'[n].stage[p] = "todo"
  <2>1. DOMAIN posts = 1..Len(posts) /\ DOMAIN posts' = 1..n /\ Len(posts) \in Nat
    BY NewPost
  <2>2. n \in Nat /\ n \notin DOMAIN posts /\ DOMAIN posts' = DOMAIN posts \cup {n}
    BY <2>1
  <2>3. /\ \A j \in DOMAIN posts : posts'[j] = posts[j]
        /\ posts'[n].state = held[w] /\ posts'[n].at = 1
        /\ \A p \in Peers : posts'[n].stage[p] = "todo"
    BY NewPost
  <2> QED
    BY <2>1, <2>2, <2>3
<1> HIDE DEF n
<1>3. /\ Busy(w) /\ ~Busy(w)' /\ \A v \in Writers : v # w => writer'[v] = writer[v]
      /\ \A v \in Writers : Busy(v)' => Busy(v)
  BY <1>1 DEF Busy, TypeOK
<1>4. \A v \in Writers : Busy(v)' => v \in TakesTurns \cup Starts
  BY <1>3 DEF CalmInv
<1>5. ASSUME calm
      PROVE  CalmInv'
  <2>1. \A k \in DOMAIN posts : Finished(k) /\ Finished(k)'
    BY <1>2, <1>3, <1>5 DEF CalmInv, Finished
  <2>2. \A v \in Writers : ~Busy(v)'
    BY <1>3, <1>5 DEF CalmInv
  <2>3. held[w] = cache[Coordinator] /\ Home(w) = Coordinator
    BY <1>1, <1>3, <1>5, HomeOfTurns DEF CalmInv
  <2>4. \A k \in DOMAIN posts' : \A i \in 1..Len(PeerAddrs) :
          i < posts'[k].at => posts'[k].stage[PeerAddrs[i]] = "done"
    BY <1>2, <1>5 DEF CalmInv
  <2>5. shown'[Coordinator] = cache[Coordinator]
    BY <1>1, <2>3, InstancesAssumption DEF TypeOK
  <2>6. \A p \in Peers : posts'[n].stage[p] = "todo"
    BY <1>2
  <2>7. \A k \in DOMAIN posts' : ~Finished(k)' => k = n /\ posts'[k].state = cache'[Coordinator]
    BY <1>1, <1>2, <2>1, <2>3
  <2>8. \A v \in Writers : writer'[v] # "snapped"
    BY <2>2 DEF Busy
  <2>9. n \in DOMAIN posts'
    BY <1>2
  <2>10. cache' = cache
    BY <1>1
  <2>11. \A p \in Peers : /\ \E k \in DOMAIN posts' : FateAt(k, p)' \in {"todo", "sent"}
                         /\ \E k \in DOMAIN posts' : FateAt(k, p)' \in {"todo", "sent", "stored"}
    BY <2>6, <2>9 DEF FateAt
  <2> QED
    BY <2>2, <2>4, <2>5, <2>7, <2>8, <2>10, <2>11 DEF CalmInv
<1> QED
  BY <1>1, <1>4, <1>5 DEF CalmInv, TakesTurns

\* A request is sent, stored or shown: the post's fate at one peer changes.
LEMMA MarkCalmInv ==
    ASSUME TypeOK, CalmInv, NEW k \in DOMAIN posts, NEW p \in Peers,
           (Post(k) /\ p = Addressee(k)) \/ Store(k, p) \/ Show(k, p)
    PROVE  CalmInv'
<1> DEFINE s == IF Post(k) /\ p = Addressee(k) THEN "sent"
                ELSE IF Store(k, p) THEN "stored" ELSE "done"
<1>1. /\ Mark(k, p, s) /\ s \in Stages /\ UNCHANGED <<writer, held, calm>>
      /\ FateAt(k, p) # "done"
      /\ s = "sent"   => FateAt(k, p) = "todo" /\ UNCHANGED <<cache, shown>>
      /\ s = "stored" => FateAt(k, p) = "sent" /\ shown' = shown
                         /\ cache' = [cache EXCEPT ![p] = posts[k].state]
      /\ s = "done"   => FateAt(k, p) = "stored" /\ cache' = cache
                         /\ shown' = [shown EXCEPT ![p] = posts[k].state]
  BY DEF Post, Store, Show, Stages
<1> HIDE DEF s
<1>2. /\ DOMAIN posts' = DOMAIN posts
      /\ \A j \in DOMAIN posts :
           /\ posts'[j].state = posts[j].state /\ posts'[j].at = posts[j].at
           /\ \A q \in Peers : posts'[j].stage[q] =
                IF j = k /\ q = p THEN s ELSE posts[j].stage[q]
  BY <1>1, MarkPost
<1>3. \A j \in DOMAIN posts : Finished(j)' <=> Finished(j)
  BY <1>2 DEF Finished
<1>4. \A v \in Writers : Busy(v)' <=> Busy(v)
  BY <1>1 DEF Busy
<1>5. p \in Instances /\ p # Coordinator
  BY DEF Peers
<1>6. cache'[Coordinator] = cache[Coordinator] /\ shown'[Coordinator] = shown[Coordinator]
  <2>1. s \in {"sent", "stored", "done"}
    BY DEF s
  <2>2. cache \in [Instances -> 0..MaxStates] /\ shown \in [Instances -> 0..MaxStates]
    BY DEF TypeOK
  <2>6. Coordinator \in Instances
    BY InstancesAssumption
  <2>3. CASE s = "sent"
    BY <1>1, <2>3
  <2>4. CASE s = "stored"
    BY <1>1, <1>5, <2>2, <2>6, <2>4
  <2>5. CASE s = "done"
    BY <1>1, <1>5, <2>2, <2>6, <2>5
  <2> QED
    BY <2>1, <2>3, <2>4, <2>5
<1>7. ASSUME calm
      PROVE  CalmInv'
  <2>1. ~Finished(k) /\ posts[k].state = cache[Coordinator] /\ \A v \in Writers : ~Busy(v)
    BY <1>1, <1>7, CalmPending DEF CalmInv
  <2>2. \A j \in DOMAIN posts' : \A i \in 1..Len(PeerAddrs) :
          i < posts'[j].at => posts'[j].stage[PeerAddrs[i]] = "done"
    <3> SUFFICES ASSUME NEW j \in DOMAIN posts, NEW i \in 1..Len(PeerAddrs), i < posts[j].at
                 PROVE  posts'[j].stage[PeerAddrs[i]] = "done"
      BY <1>2
    <3>1. posts[j].stage[PeerAddrs[i]] = "done"
      BY <1>7 DEF CalmInv
    <3>2. PeerAddrs[i] \in Peers
      BY InstancesAssumption, ElementOfSeq DEF Peers
    <3> QED
      BY <1>1, <1>2, <3>1, <3>2 DEF FateAt
  <2>3. ASSUME NEW q \in Peers
        PROVE  /\ \/ cache'[q] = cache[Coordinator]
                  \/ \E j \in DOMAIN posts' : FateAt(j, q)' \in {"todo", "sent"}
               /\ \/ shown'[q] = cache[Coordinator]
                  \/ \E j \in DOMAIN posts' : FateAt(j, q)' \in {"todo", "sent", "stored"}
    <3>1. /\ \/ cache[q] = cache[Coordinator]
             \/ \E j \in DOMAIN posts : FateAt(j, q) \in {"todo", "sent"}
          /\ \/ shown[q] = cache[Coordinator]
             \/ \E j \in DOMAIN posts : FateAt(j, q) \in {"todo", "sent", "stored"}
      BY <1>7, <2>1 DEF CalmInv
    <3>2. \A j \in DOMAIN posts : FateAt(j, q) # "done" => j = k
      BY <1>7, <2>1, CalmPending DEF CalmInv
    <3>3. CASE q # p
      <4>1. cache'[q] = cache[q] /\ shown'[q] = shown[q]
        <5>1. s \in {"sent", "stored", "done"}
          BY DEF s
        <5> QED
          BY <1>1, <3>3, <5>1 DEF TypeOK, Peers
      <4>2. \A j \in DOMAIN posts : FateAt(j, q)' = FateAt(j, q)
        BY <1>2, <3>3 DEF FateAt
      <4> QED
        BY <1>2, <3>1, <4>1, <4>2
    <3>4. CASE q = p
      <4>1. FateAt(k, q)' = s
        BY <1>2, <3>4 DEF FateAt
      <4>2. CASE s = "sent"
        BY <1>2, <4>1, <4>2
      <4>3. CASE s = "stored"
        BY <1>1, <1>2, <1>5, <2>1, <3>4, <4>1, <4>3 DEF TypeOK
      <4>4. CASE s = "done"
        <5>1. cache[q] = cache[Coordinator]
          BY <1>1, <3>1, <3>2, <3>4, <4>4
        <5> QED
          BY <1>1, <1>5, <2>1, <3>4, <4>4, <5>1 DEF TypeOK
      <4> QED
        BY <1>1, <4>2, <4>3, <4>4 DEF s
    <3> QED
      BY <3>3, <3>4
  <2> QED
    BY <1>1, <1>2, <1>3, <1>4, <1>6, <1>7, <2>1, <2>2, <2>3 DEF CalmInv, TakesTurns
<1> QED
  BY <1>1, <1>4, <1>7 DEF CalmInv, TakesTurns

\* A peer has answered, and the goroutine goes on to the next address.
LEMMA AnsweredCalmInv ==
    ASSUME TypeOK, CalmInv, NEW k \in DOMAIN posts, Answered(k)
    PROVE  CalmInv'
<1>1. /\ DOMAIN posts' = DOMAIN posts
      /\ \A j \in DOMAIN posts :
           /\ posts'[j].state = posts[j].state /\ posts'[j].stage = posts[j].stage
           /\ posts'[j].at = IF j = k THEN posts[j].at + 1 ELSE posts[j].at
      /\ UNCHANGED <<cache, shown, writer, held, calm>>
  BY MoveOn DEF Answered
<1>2. posts[k].at \in 1..Len(PeerAddrs) /\ Len(PeerAddrs) \in Nat
      /\ posts[k].stage[PeerAddrs[posts[k].at]] = "done"
  BY AddresseeType DEF Answered, FateAt, Addressee
<1>3. \A v \in Writers : Busy(v)' <=> Busy(v)
  BY <1>1 DEF Busy
<1>4. \A j \in DOMAIN posts : posts[j].at \in Nat
  BY AddresseeType DEF Posts
<1>5. \A j \in DOMAIN posts : ~Finished(j)' => ~Finished(j)
  BY <1>1, <1>2, <1>4 DEF Finished
<1>6. \A j \in DOMAIN posts, p \in Peers : FateAt(j, p)' = FateAt(j, p)
  BY <1>1 DEF FateAt
<1>7. ASSUME calm
      PROVE  \A j \in DOMAIN posts' : \A i \in 1..Len(PeerAddrs) :
               i < posts'[j].at => posts'[j].stage[PeerAddrs[i]] = "done"
  <2> SUFFICES ASSUME NEW j \in DOMAIN posts, NEW i \in 1..Len(PeerAddrs), i < posts'[j].at
               PROVE  posts[j].stage[PeerAddrs[i]] = "done"
    BY <1>1
  <2>1. CASE i < posts[j].at
    BY <1>7, <2>1 DEF CalmInv
  <2>2. CASE ~(i < posts[j].at)
    BY <1>1, <1>2, <1>4, <2>2
  <2> QED
    BY <2>1, <2>2
<1> QED
  BY <1>1, <1>3, <1>5, <1>6, <1>7 DEF CalmInv, TakesTurns

LEMMA NextCalmInv == TypeOK /\ CalmInv /\ [Next]_vars => CalmInv'
<1> SUFFICES ASSUME TypeOK, CalmInv, [Next]_vars
             PROVE  CalmInv'
  OBVIOUS
<1>1. ASSUME NEW k \in DOMAIN posts, Unreachable(k) \/ TimesOut(k)
      PROVE  CalmInv'
  BY <1>1 DEF Unreachable, TimesOut, CalmInv, Busy, TakesTurns
<1>2. ASSUME NEW k \in DOMAIN posts, Post(k)
      PROVE  CalmInv'
  BY <1>2, AddresseeType, MarkCalmInv DEF Post
<1>3. CASE UNCHANGED vars
  BY <1>3 DEF vars, CalmInv, Busy, Finished, FateAt, TakesTurns
<1> QED
  BY <1>1, <1>2, <1>3, UpdateCalmInv, SnapshotCalmInv, PublishCalmInv, MarkCalmInv,
     AnsweredCalmInv DEF Next, Deliver

\* As long as no change of the world meets an unfinished or failed broadcast, all
\* instances hold and show the same state between two changes (CalmPeersAgree).
THEOREM CalmCorrect == Spec => []CalmPeersAgree
BY InitTypeOK, NextTypeOK, InitCalmInv, NextCalmInv, CalmImplies, PTL DEF Spec

=============================================================================
