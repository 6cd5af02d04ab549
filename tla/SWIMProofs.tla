----------------------------- MODULE SWIMProofs -----------------------------
(***************************************************************************)
(* Proofs about the nodes of a cluster and their network: SWIM's types, and *)
(* that knowledge of a member only ever gets worse, for any number of nodes *)
(* and over either transport; the pool of connections and the calls made    *)
(* through it.                                                              *)
(***************************************************************************)
EXTENDS SWIM, Transport, TLAPS, NatFacts, SequenceTheorems

(* What views and messages are made of *)

Rec == Member \cup {Unknown}

\* Nobody ever gossips a death.
News == [node : Node, state : {"alive", "suspected"}, inc : Nat]

Queue == {q \in Seq(News) : Len(q) <= QueueCap}

Views == [members : [Node -> Rec], queue : Queue]

\* From record a to record b without a step back, and without a death.
Later(a, b) ==
    /\ b = a \/ a = Unknown \/ (b \in Member /\ Supersedes(b, a))
    /\ b.state = "dead" => a.state = "dead"

GoesOn(v, w) == w \in Views /\ \A m \in Node : Later(v.members[m], w.members[m])

LEMMA StatePriorities ==
    Priority("alive") = 0 /\ Priority("suspected") = 1 /\ Priority("dead") = 2
  BY DEF Priority

LEMMA MemberFields ==
    ASSUME NEW r \in Rec
    PROVE  /\ r.inc \in Nat /\ (r = Unknown <=> r.state = "none")
           /\ r # Unknown => r \in Member /\ r.state \in State /\ Priority(r.state) \in 0..2
  <1>1. CASE r = Unknown
    BY <1>1 DEF Unknown
  <1>2. CASE r \in Member
    <2>1. r.inc \in Nat /\ r.state \in State
      BY <1>2 DEF Member
    <2>2. Priority(r.state) \in 0..2 /\ r.state # "none"
      BY <2>1, StatePriorities DEF State
    <2>3. r # Unknown
      BY <2>2 DEF Unknown
    <2>4. QED
      BY <1>2, <2>1, <2>2, <2>3
  <1>3. QED
    BY <1>1, <1>2 DEF Rec

LEMMA LaterTransitive ==
    ASSUME NEW a \in Rec, NEW b \in Rec, NEW c \in Rec, Later(a, b), Later(b, c)
    PROVE  Later(a, c)
  <1>1. c.state = "dead" => a.state = "dead"
    BY DEF Later
  <1>2. CASE a = Unknown \/ b = a \/ c = b
    BY <1>1, <1>2 DEF Later
  <1>3. CASE ~(a = Unknown \/ b = a \/ c = b)
    <2>1. b \in Member /\ Supersedes(b, a)
      BY <1>3 DEF Later
    <2>2. b # Unknown
      <3>1. b.state \in State
        BY <2>1 DEF Member
      <3>2. QED
        BY <3>1 DEF State, Unknown
    <2>3. c \in Member /\ Supersedes(c, b)
      BY <1>3, <2>2 DEF Later
    <2>4. /\ a.inc \in Nat /\ b.inc \in Nat /\ c.inc \in Nat
          /\ Priority(a.state) \in 0..2 /\ Priority(b.state) \in 0..2 /\ Priority(c.state) \in 0..2
      <3>1. c # Unknown
        <4>1. c.state \in State
          BY <2>3 DEF Member
        <4>2. QED
          BY <4>1 DEF State, Unknown
      <3>2. QED
        BY <1>3, <2>2, <3>1, MemberFields
    <2>5. Supersedes(c, a)
      BY <2>1, <2>3, <2>4 DEF Supersedes
    <2>6. QED
      BY <1>1, <2>3, <2>5 DEF Later
  <1>4. QED
    BY <1>2, <1>3

LEMMA LaterReflexive == \A a : Later(a, a)
  BY DEF Later

LEMMA GoesOnTransitive ==
    ASSUME NEW v \in Views, NEW w, NEW x, GoesOn(v, w), GoesOn(w, x)
    PROVE  GoesOn(v, x)
  <1>1. w \in Views /\ x \in Views
    BY DEF GoesOn
  <1>2. ASSUME NEW m \in Node PROVE Later(v.members[m], x.members[m])
    <2>1. v.members[m] \in Rec /\ w.members[m] \in Rec /\ x.members[m] \in Rec
      BY <1>1 DEF Views
    <2>2. Later(v.members[m], w.members[m]) /\ Later(w.members[m], x.members[m])
      BY DEF GoesOn
    <2>3. QED
      BY <2>1, <2>2, LaterTransitive
  <1>3. QED
    BY <1>1, <1>2 DEF GoesOn

LEMMA GoesOnReflexive == ASSUME NEW v \in Views PROVE GoesOn(v, v)
  BY LaterReflexive DEF GoesOn

-----------------------------------------------------------------------------
(* The member list *)

LEMMA QueueKept ==
    ASSUME NEW q \in Queue, NEW u \in News, SWIMAssumption
    PROVE  QueueUpdate(q, u) \in Queue
  <1>1. q \in Seq(News) /\ Len(q) \in Nat /\ Len(q) <= QueueCap /\ QueueCap \in Nat \ {0}
    BY LenProperties DEF Queue, SWIMAssumption
  <1>2. CASE Len(q) = QueueCap
    <2>1. q # <<>>
      BY <1>1, <1>2
    <2>2. PICK t : t = Tail(q)
      OBVIOUS
    <2>3. t \in Seq(News) /\ Len(t) = Len(q) - 1
      BY <1>1, <2>1, <2>2, HeadTailProperties
    <2>4. Append(t, u) \in Seq(News) /\ Len(Append(t, u)) = Len(t) + 1
      BY <2>3, AppendProperties
    <2>5. QED
      BY <1>1, <1>2, <2>2, <2>3, <2>4 DEF QueueUpdate, Queue
  <1>3. CASE Len(q) # QueueCap
    <2>1. Append(q, u) \in Seq(News) /\ Len(Append(q, u)) = Len(q) + 1
      BY <1>1, AppendProperties
    <2>2. QED
      BY <1>1, <1>3, <2>1 DEF QueueUpdate, Queue
  <1>4. QED
    BY <1>2, <1>3

\* One record of a view replaced.
LEMMA ViewWith ==
    ASSUME NEW v \in Views, NEW m \in Node, NEW r \in Rec, Later(v.members[m], r),
           NEW q \in Queue, NEW w, w = [members |-> [v.members EXCEPT ![m] = r], queue |-> q]
    PROVE  GoesOn(v, w)
  <1>1. v.members \in [Node -> Rec]
    BY DEF Views
  <1>2. w.members \in [Node -> Rec] /\ \A x \in Node : w.members[x] = IF x = m THEN r ELSE v.members[x]
    BY <1>1
  <1>3. w \in Views
    BY <1>2 DEF Views
  <1>4. QED
    BY <1>2, <1>3, LaterReflexive DEF GoesOn

LEMMA ApplyKeeps ==
    ASSUME NEW v \in Views, NEW u \in News, SWIMAssumption
    PROVE  GoesOn(v, ApplyUpdate(v, u))
  <1>1. PICK old, new : old = v.members[u.node] /\ new = [state |-> u.state, inc |-> u.inc]
    OBVIOUS
  <1>2. /\ u.node \in Node /\ old \in Rec /\ v.queue \in Queue
        /\ new \in Member /\ new.state # "dead"
    BY <1>1 DEF Views, News, Member, State
  <1>3. CASE old = Unknown \/ Supersedes(new, old)
    <2>1. PICK q : q = IF old.state # new.state THEN QueueUpdate(v.queue, u) ELSE v.queue
      OBVIOUS
    <2>2. q \in Queue
      BY <1>2, <2>1, QueueKept
    <2>3. ApplyUpdate(v, u) = [members |-> [v.members EXCEPT ![u.node] = new], queue |-> q]
      BY <1>1, <1>3, <2>1 DEF ApplyUpdate
    <2>4. Later(old, new) /\ new \in Rec
      BY <1>2, <1>3 DEF Later, Rec
    <2>5. QED
      BY <1>1, <1>2, <2>2, <2>3, <2>4, ViewWith
  <1>4. CASE ~(old = Unknown \/ Supersedes(new, old))
    <2>1. ApplyUpdate(v, u) = v
      BY <1>1, <1>4 DEF ApplyUpdate
    <2>2. QED
      BY <2>1, GoesOnReflexive
  <1>5. QED
    BY <1>3, <1>4

LEMMA SuspectKeeps ==
    ASSUME NEW v \in Views, NEW m \in Node
    PROVE  GoesOn(v, SuspectMember(v, m))
  <1>1. PICK old, new : old = v.members[m] /\ new = [state |-> "suspected", inc |-> old.inc]
    OBVIOUS
  <1>2. v.members \in [Node -> Rec] /\ old \in Rec /\ v.queue \in Queue
        /\ v = [members |-> v.members, queue |-> v.queue]
    BY <1>1 DEF Views
  <1>3. CASE old.state = "alive"
    <2>1. old \in Member /\ old.inc \in Nat /\ old = [state |-> old.state, inc |-> old.inc]
      BY <1>2, <1>3 DEF Rec, Member, Unknown
    <2>2. new \in Member /\ new \in Rec /\ [old EXCEPT !.state = "suspected"] = new
      BY <1>1, <2>1 DEF Member, State, Rec
    <2>3. Supersedes(new, old)
      BY <1>1, <1>3, <2>1, StatePriorities DEF Supersedes
    <2>4. Later(old, new)
      BY <1>1, <2>2, <2>3 DEF Later
    <2>5. SuspectMember(v, m) = [members |-> [v.members EXCEPT ![m] = new], queue |-> v.queue]
      BY <1>1, <1>2, <1>3, <2>2 DEF SuspectMember
    <2>6. QED
      BY <1>1, <1>2, <2>2, <2>4, <2>5, ViewWith
  <1>4. CASE old.state # "alive"
    <2>1. SuspectMember(v, m) = v
      BY <1>1, <1>4 DEF SuspectMember
    <2>2. QED
      BY <2>1, GoesOnReflexive
  <1>5. QED
    BY <1>3, <1>4

LEMMA RefuteKeeps ==
    ASSUME NEW v \in Views, NEW n \in Node
    PROVE  GoesOn(v, RefuteSuspicion(v, n))
  <1>1. PICK old, new : old = v.members[n] /\ new = [state |-> "alive", inc |-> old.inc + 1]
    OBVIOUS
  <1>2. v.members \in [Node -> Rec] /\ old \in Rec /\ v.queue \in Queue
        /\ v = [members |-> v.members, queue |-> v.queue]
    BY <1>1 DEF Views
  <1>3. CASE old.state = "suspected"
    <2>1. old.inc \in Nat
      BY <1>2, MemberFields
    <2>2. new \in Member /\ new \in Rec
      BY <1>1, <2>1 DEF Member, State, Rec
    <2>3. Supersedes(new, old)
      BY <1>1, <2>1 DEF Supersedes
    <2>4. Later(old, new)
      BY <1>1, <2>2, <2>3 DEF Later
    <2>5. RefuteSuspicion(v, n) = [members |-> [v.members EXCEPT ![n] = new], queue |-> v.queue]
      BY <1>1, <1>2, <1>3 DEF RefuteSuspicion
    <2>6. QED
      BY <1>1, <1>2, <2>2, <2>4, <2>5, ViewWith
  <1>4. CASE old.state # "suspected"
    <2>1. RefuteSuspicion(v, n) = v
      BY <1>1, <1>4 DEF RefuteSuspicion
    <2>2. QED
      BY <2>1, GoesOnReflexive
  <1>5. QED
    BY <1>3, <1>4

\* One piggybacked update, as Gossip takes it.
TakenBy(n, w, u) == IF u.node = n THEN RefuteSuspicion(w, n) ELSE ApplyUpdate(w, u)

LEMMA TakenKeeps ==
    ASSUME NEW n \in Node, NEW v \in Views, NEW w, GoesOn(v, w), NEW u \in News, SWIMAssumption
    PROVE  GoesOn(v, TakenBy(n, w, u))
  <1>1. w \in Views
    BY DEF GoesOn
  <1>2. GoesOn(w, RefuteSuspicion(w, n)) /\ GoesOn(w, ApplyUpdate(w, u))
    BY <1>1, ApplyKeeps, RefuteKeeps
  <1>3. GoesOn(w, TakenBy(n, w, u))
    BY <1>2 DEF TakenBy
  <1>4. QED
    BY <1>3, GoesOnTransitive

\* Any number of updates, one after the other.
LEMMA GossipKeeps ==
    ASSUME NEW n \in Node, NEW v \in Views, NEW updates \in Seq(News), SWIMAssumption
    PROVE  GoesOn(v, Gossip(n, v, updates))
  <1>1. PICK L : L = Len(updates)
    OBVIOUS
  <1>2. L \in Nat /\ \A k \in 1..L : updates[k] \in News
    BY <1>1, LenProperties, ElementOfSeq
  <1>3. PICK S : S = {w \in Views : GoesOn(v, w)}
    OBVIOUS
  <1>4. v \in S
    BY <1>3, GoesOnReflexive
  <1>5. ASSUME NEW w \in S, NEW k \in 1..L PROVE TakenBy(n, w, updates[k]) \in S
    <2>1. GoesOn(v, w) /\ updates[k] \in News
      BY <1>2, <1>3
    <2>2. GoesOn(v, TakenBy(n, w, updates[k]))
      BY <2>1, TakenKeeps
    <2>3. QED
      BY <1>3, <2>2 DEF GoesOn
  <1>6. PICK F : F = [x \in S \X (1..L) |-> TakenBy(n, x[1], updates[x[2]])]
    OBVIOUS
  <1>7. \A w \in S, k \in 1..L : F[<<w, k>>] = TakenBy(n, w, updates[k])
    BY <1>6
  <1>8. \A w \in S, k \in 1..L : F[<<w, k>>] \in S
    BY <1>5, <1>7
  <1>9. PICK g : Iterates(g, v, F, L) /\ \A k \in 0..L : g[k] \in S
    BY <1>2, <1>4, <1>8, IterationExists
  <1>10. g = [k \in 0..L |-> IF k = 0 THEN v ELSE TakenBy(n, g[k - 1], updates[k])]
    <2>1. g = [k \in 0..L |-> g[k]] /\ g[0] = v
      BY <1>9 DEF Iterates
    <2>2. ASSUME NEW k \in 0..L, k # 0 PROVE g[k] = TakenBy(n, g[k - 1], updates[k])
      <3>1. k \in 1..L /\ k - 1 \in 0..L
        BY <1>2, <2>2
      <3>2. g[k] = F[<<g[k - 1], k>>] /\ g[k - 1] \in S
        BY <1>9, <3>1 DEF Iterates
      <3>3. QED
        BY <1>7, <3>1, <3>2
    <2>3. QED
      BY <2>1, <2>2
  <1>11. PICK h : h = CHOOSE f : f = [k \in 0..Len(updates) |->
                                         IF k = 0 THEN v
                                         ELSE IF updates[k].node = n THEN RefuteSuspicion(f[k - 1], n)
                                         ELSE ApplyUpdate(f[k - 1], updates[k])]
    OBVIOUS
  <1>12. Gossip(n, v, updates) = h[L]
    BY <1>1, <1>11 DEF Gossip
  <1>13. h = [k \in 0..L |-> IF k = 0 THEN v ELSE TakenBy(n, h[k - 1], updates[k])]
    <2>1. g = [k \in 0..Len(updates) |->
                  IF k = 0 THEN v
                  ELSE IF updates[k].node = n THEN RefuteSuspicion(g[k - 1], n)
                  ELSE ApplyUpdate(g[k - 1], updates[k])]
      BY <1>1, <1>10 DEF TakenBy
    <2>2. h = [k \in 0..Len(updates) |->
                  IF k = 0 THEN v
                  ELSE IF updates[k].node = n THEN RefuteSuspicion(h[k - 1], n)
                  ELSE ApplyUpdate(h[k - 1], updates[k])]
      BY <1>11, <2>1, Zenon
    <2>3. QED
      BY <1>1, <2>2 DEF TakenBy
  <1>14. PICK T : T = {k \in Nat : k <= L => h[k] \in S}
    OBVIOUS
  <1>15. 0 \in T
    <2>1. 0 \in 0..L
      BY <1>2
    <2>2. h[0] = v
      BY <1>13, <2>1
    <2>3. QED
      BY <1>4, <1>14, <2>2
  <1>16. ASSUME NEW k \in Nat, k \in T PROVE k + 1 \in T
    <2>1. SUFFICES ASSUME k + 1 <= L PROVE h[k + 1] \in S
      BY <1>14
    <2>2. k + 1 \in 0..L /\ k + 1 # 0 /\ (k + 1) - 1 = k /\ k + 1 \in 1..L /\ k <= L
      BY <1>2, <2>1
    <2>3. h[k] \in S
      BY <1>14, <1>16, <2>2
    <2>4. h[k + 1] = TakenBy(n, h[(k + 1) - 1], updates[k + 1])
      BY <1>13, <2>2
    <2>5. h[k + 1] = TakenBy(n, h[k], updates[k + 1])
      BY <2>2, <2>4
    <2>6. QED
      BY <1>5, <2>2, <2>3, <2>5
  <1>17. L \in T
    BY <1>2, <1>15, <1>16, SetInduction
  <1>18. h[L] \in S
    BY <1>2, <1>14, <1>17
  <1>19. QED
    BY <1>3, <1>12, <1>18

LEMMA HeartbeatKeeps ==
    ASSUME NEW n, NEW v \in Views, NEW m \in Node, SWIMAssumption
    PROVE  GoesOn(v, Heartbeat(n, v, m))
  <1>1. Alive(m) \in News
    BY DEF Alive, News
  <1>2. QED
    BY <1>1, ApplyKeeps, GoesOnReflexive DEF Heartbeat

LEMMA RecentKept ==
    ASSUME NEW v \in Views, SWIMAssumption
    PROVE  RecentUpdates(v) \in Seq(News)
  <1>1. v.queue \in Seq(News) /\ Len(v.queue) \in Nat /\ GossipFanout \in Nat
    BY LenProperties DEF Views, Queue, SWIMAssumption
  <1>2. PICK q, k : q = v.queue /\ k = IF Len(v.queue) < GossipFanout THEN Len(v.queue) ELSE GossipFanout
    OBVIOUS
  <1>3. q \in Seq(News) /\ k \in 0..Len(q)
    BY <1>1, <1>2
  <1>4. SubSeq(q, 1, k) \in Seq(News)
    <2>1. \A i \in 1..k : i \in 1..Len(q)
      BY <1>1, <1>2, <1>3
    <2>2. QED
      BY <1>3, <2>1, SubSeqProperties
  <1>5. QED
    BY <1>2, <1>4 DEF RecentUpdates

-----------------------------------------------------------------------------
(* The network *)

Message ==
    [type : {"Ping", "PingAck", "PingReq", "PingReqAck"}, from : Node, to : Node, target : Node,
     tag : {"join", "probe", "help", "none"}, updates : Seq(News)]

LEMMA SentKept ==
    ASSUME NEW base, base \subseteq Message, NEW ms, ms \subseteq Message
    PROVE  Sent(base, ms) \subseteq Message
  BY DEF Sent

LEMMA AnsweredKept ==
    ASSUME NEW base, base \subseteq Message, NEW m, NEW ms, ms \subseteq Message
    PROVE  Answered(base, m, ms) \subseteq Message
  BY SentKept DEF Answered

LEMMA ClosedKept ==
    ASSUME NEW base, base \subseteq Message, NEW n, NEW tag
    PROVE  Closed(base, n, tag) \subseteq Message
  <1>1. ASSUME NEW m \in base PROVE [m EXCEPT !.tag = "none"] \in Message
    <2>1. m \in Message
      OBVIOUS
    <2>2. QED
      BY <2>1 DEF Message
  <1>2. QED
    BY <1>1 DEF Closed

LEMMA PingSent ==
    ASSUME NEW n \in Node, NEW m \in Node, NEW tag \in {"join", "probe", "help"}, NEW v \in Views,
           SWIMAssumption
    PROVE  Ping(n, m, tag, v) \in Message
  BY RecentKept DEF Ping, Message

LEMMA AckSent ==
    ASSUME NEW n \in Node, NEW m \in Message, NEW updates \in Seq(News)
    PROVE  PingAck(n, m, updates) \in Message /\ PingReqAck(n, m, updates) \in Message
  BY DEF PingAck, PingReqAck, Message

LEMMA ReqSent ==
    ASSUME NEW n \in Node, NEW h \in Node, NEW m \in Node, NEW v \in Views, SWIMAssumption
    PROVE  PingReq(n, h, m, v) \in Message
  <1>1. PICK us : us = IF Transport = "grpc" THEN <<>> ELSE RecentUpdates(v)
    OBVIOUS
  <1>2. us \in Seq(News)
    <2>1. <<>> \in Seq(News)
      OBVIOUS
    <2>2. QED
      BY <1>1, <2>1, RecentKept
  <1>3. QED
    BY <1>1, <1>2 DEF PingReq, Message

-----------------------------------------------------------------------------
(* The invariant, and what a step may do to the records *)

Probes == {Idle} \cup [stage : {"direct", "indirect"}, target : Node, waiting : SUBSET Node]

\* Only a seed that is left can be waited for.
Joins == {j \in [left : Seq(Node), pinging : BOOLEAN] : j.pinging = TRUE => j.left # <<>>}

ListTypes == members \in [Node -> [Node -> Rec]] /\ recentUpdates \in [Node -> Queue]

TimerTypes == timers \in [Node -> SUBSET Node]

PhiTypes == phi \in [Node -> [Node -> {"none", "low", "high"}]]

ProbeTypes == probe \in [Node -> Probes]

JoinTypes == join \in [Node -> Joins]

MsgTypes == msgs \subseteq Message

SWIMTypes ==
    up \subseteq Node /\ ListTypes /\ TimerTypes /\ PhiTypes /\ ProbeTypes /\ JoinTypes /\ MsgTypes

\* A record goes on, or its timer declares it dead, or it is collected, or its
\* holder stops.
MembersStep ==
    \A a, b \in Node :
        \/ Later(members[a][b], members'[a][b])
        \/ /\ members[a][b].state = "suspected"
           /\ members'[a][b] = [state |-> "dead", inc |-> members[a][b].inc]
        \/ members[a][b].state = "dead" /\ members'[a][b] = Unknown
        \/ a \notin up' /\ members'[a][b] = Unknown

LEMMA ViewTyped == ASSUME ListTypes, NEW n \in Node PROVE View(n) \in Views
  <1>1. members[n] \in [Node -> Rec] /\ recentUpdates[n] \in Queue
    BY DEF ListTypes
  <1>2. QED
    BY <1>1 DEF View, Views

\* A node takes a view that goes on from its own.
LEMMA TakeView ==
    ASSUME ListTypes, NEW n \in Node, NEW w, GoesOn(View(n), w), SetView(n, w)
    PROVE  ListTypes' /\ MembersStep
  <1>1. w \in Views /\ w.members \in [Node -> Rec] /\ w.queue \in Queue
    BY DEF GoesOn, Views
  <1>2. members \in [Node -> [Node -> Rec]] /\ recentUpdates \in [Node -> Queue]
    BY DEF ListTypes
  <1>3. /\ members' = [members EXCEPT ![n] = w.members]
        /\ recentUpdates' = [recentUpdates EXCEPT ![n] = w.queue]
    BY DEF SetView
  <1>4. members' \in [Node -> [Node -> Rec]] /\ recentUpdates' \in [Node -> Queue]
    BY <1>1, <1>2, <1>3
  <1>5. ListTypes'
    BY <1>4 DEF ListTypes
  <1>6. ASSUME NEW a \in Node, NEW b \in Node PROVE Later(members[a][b], members'[a][b])
    <2>1. CASE a = n
      <3>1. members'[a][b] = w.members[b]
        BY <1>2, <1>3, <2>1
      <3>2. Later(members[n][b], w.members[b])
        BY DEF GoesOn, View
      <3>3. QED
        BY <2>1, <3>1, <3>2
    <2>2. CASE a # n
      <3>1. members'[a][b] = members[a][b]
        BY <1>2, <1>3, <2>2
      <3>2. QED
        BY <3>1 DEF Later
    <2>3. QED
      BY <2>1, <2>2
  <1>7. QED
    BY <1>5, <1>6 DEF MembersStep

LEMMA KeepLists == ASSUME ListTypes, UNCHANGED listVars PROVE ListTypes' /\ MembersStep
  <1>1. members' = members /\ recentUpdates' = recentUpdates
    BY DEF listVars
  <1>2. QED
    BY <1>1, LaterReflexive DEF ListTypes, MembersStep

LEMMA JoinSeedStep ==
    ASSUME SWIMAssumption, SWIMTypes, NEW n \in Node, JoinSeed(n)
    PROVE  SWIMTypes' /\ MembersStep
  <1>1. PICK seed, v0 : seed = Head(join[n].left) /\ v0 = View(n)
    OBVIOUS
  <1>2. PICK v : v = ApplyUpdate(v0, Alive(seed))
    OBVIOUS
  <1>3. /\ SetView(n, v) /\ join[n].left # <<>>
        /\ join' = [join EXCEPT ![n].pinging = TRUE]
        /\ msgs' = Sent(msgs, {Ping(n, seed, "join", v)})
        /\ UNCHANGED <<up, timers, phi, probe>>
    BY <1>1, <1>2 DEF JoinSeed
  <1>4. join[n] \in Joins /\ join[n].left \in Seq(Node)
    BY DEF SWIMTypes, JoinTypes, Joins
  <1>5. seed \in Node
    <2>1. PICK s : s = join[n].left
      OBVIOUS
    <2>2. s \in Seq(Node) /\ s # <<>>
      BY <1>3, <1>4, <2>1
    <2>3. QED
      BY <1>1, <2>1, <2>2, HeadTailProperties
  <1>6. GoesOn(v0, v)
    <2>1. Alive(seed) \in News
      BY <1>5 DEF Alive, News
    <2>2. v0 \in Views
      BY <1>1, ViewTyped DEF SWIMTypes
    <2>3. QED
      BY <1>2, <2>1, <2>2, ApplyKeeps
  <1>7. ListTypes' /\ MembersStep
    BY <1>1, <1>3, <1>6, TakeView DEF SWIMTypes
  <1>8. JoinTypes'
    <2>1. join \in [Node -> Joins]
      BY DEF SWIMTypes, JoinTypes
    <2>2. PICK j : j = [join[n] EXCEPT !.pinging = TRUE]
      OBVIOUS
    <2>3. j \in Joins
      BY <1>3, <1>4, <2>2 DEF Joins
    <2>4. join' = [join EXCEPT ![n] = j]
      BY <1>3, <2>2
    <2>5. QED
      BY <2>1, <2>3, <2>4 DEF JoinTypes
  <1>9. MsgTypes'
    <2>1. v \in Views
      BY <1>6 DEF GoesOn
    <2>2. Ping(n, seed, "join", v) \in Message
      BY <1>5, <2>1, PingSent
    <2>3. QED
      BY <1>3, <2>2, SentKept DEF SWIMTypes, MsgTypes
  <1>10. QED
    BY <1>3, <1>7, <1>8, <1>9 DEF SWIMTypes, TimerTypes, PhiTypes, ProbeTypes

LEMMA JoinTimeoutStep ==
    ASSUME SWIMAssumption, SWIMTypes, NEW n \in Node, JoinTimeout(n)
    PROVE  SWIMTypes' /\ MembersStep
  <1>1. /\ join[n].pinging = TRUE
        /\ join' = [join EXCEPT ![n] = [left |-> Tail(join[n].left), pinging |-> FALSE]]
        /\ msgs' = Closed(msgs, n, "join")
        /\ UNCHANGED <<up, listVars, timers, phi, probe>>
    <2>1. join[n].pinging \in BOOLEAN
      BY DEF SWIMTypes, JoinTypes, Joins
    <2>2. QED
      BY <2>1 DEF JoinTimeout
  <1>2. JoinTypes'
    <2>1. join \in [Node -> Joins]
      BY DEF SWIMTypes, JoinTypes
    <2>2. PICK s : s = join[n].left
      OBVIOUS
    <2>3. s \in Seq(Node) /\ s # <<>>
      BY <1>1, <2>1, <2>2 DEF Joins
    <2>4. PICK t : t = Tail(s)
      OBVIOUS
    <2>5. t \in Seq(Node)
      BY <2>3, <2>4, HeadTailProperties
    <2>6. [left |-> t, pinging |-> FALSE] \in Joins
      BY <2>5 DEF Joins
    <2>7. join' = [join EXCEPT ![n] = [left |-> t, pinging |-> FALSE]]
      BY <1>1, <2>2, <2>4
    <2>8. QED
      BY <2>1, <2>6, <2>7 DEF JoinTypes
  <1>3. MsgTypes'
    BY <1>1, ClosedKept DEF SWIMTypes, MsgTypes
  <1>4. ListTypes' /\ MembersStep
    BY <1>1, KeepLists DEF SWIMTypes
  <1>5. QED
    BY <1>1, <1>2, <1>3, <1>4 DEF SWIMTypes, TimerTypes, PhiTypes, ProbeTypes

LEMMA ProbeStep ==
    ASSUME SWIMAssumption, SWIMTypes, NEW n \in Node, NEW m \in Node, Probe(n, m)
    PROVE  SWIMTypes' /\ MembersStep
  <1>1. PICK v0 : v0 = View(n)
    OBVIOUS
  <1>2. /\ probe' = [probe EXCEPT ![n] = [stage |-> "direct", target |-> m, waiting |-> {}]]
        /\ msgs' = Sent(msgs, {Ping(n, m, "probe", v0)})
        /\ UNCHANGED <<up, listVars, timers, phi, join>>
    BY <1>1 DEF Probe
  <1>3. ProbeTypes'
    BY <1>2 DEF SWIMTypes, ProbeTypes, Probes
  <1>4. MsgTypes'
    <2>1. v0 \in Views
      BY <1>1, ViewTyped DEF SWIMTypes
    <2>2. Ping(n, m, "probe", v0) \in Message
      BY <2>1, PingSent
    <2>3. QED
      BY <1>2, <2>2, SentKept DEF SWIMTypes, MsgTypes
  <1>5. ListTypes' /\ MembersStep
    BY <1>2, KeepLists DEF SWIMTypes
  <1>6. QED
    BY <1>2, <1>3, <1>4, <1>5 DEF SWIMTypes, TimerTypes, PhiTypes, JoinTypes

\* A suspicion: the view after SuspectMember, and a timer.
LEMMA SuspectStep ==
    ASSUME ListTypes, TimerTypes, NEW n \in Node, NEW v, GoesOn(View(n), v), NEW m \in Node,
           SuspectNode(n, v, m)
    PROVE  ListTypes' /\ TimerTypes' /\ MembersStep
  <1>1. PICK v0, w : v0 = View(n) /\ w = SuspectMember(v, m)
    OBVIOUS
  <1>2. v \in Views /\ v0 \in Views /\ GoesOn(v0, v)
    BY <1>1, ViewTyped DEF GoesOn
  <1>3. GoesOn(v0, w)
    BY <1>1, <1>2, SuspectKeeps, GoesOnTransitive
  <1>4. SetView(n, w) /\ timers' = [timers EXCEPT ![n] = timers[n] \cup {m}]
    BY <1>1 DEF SuspectNode
  <1>5. ListTypes' /\ MembersStep
    BY <1>1, <1>3, <1>4, TakeView
  <1>6. TimerTypes'
    BY <1>4 DEF TimerTypes
  <1>7. QED
    BY <1>5, <1>6

LEMMA TargetTyped ==
    ASSUME ProbeTypes, NEW n \in Node, probe[n] # Idle
    PROVE  /\ probe[n].target \in Node /\ probe[n].waiting \subseteq Node
           /\ probe[n] \in [stage : {"direct", "indirect"}, target : Node, waiting : SUBSET Node]
  <1>1. probe[n] \in [stage : {"direct", "indirect"}, target : Node, waiting : SUBSET Node]
    BY DEF ProbeTypes, Probes
  <1>2. QED
    BY <1>1

LEMMA ProbeEnds ==
    ASSUME ProbeTypes, NEW n \in Node, probe' = [probe EXCEPT ![n] = Idle]
    PROVE  ProbeTypes'
  BY DEF ProbeTypes, Probes

LEMMA PingTimeoutStep ==
    ASSUME SWIMAssumption, SWIMTypes, NEW n \in Node, PingTimeout(n)
    PROVE  SWIMTypes' /\ MembersStep
  <1>1. PICK m, v0 : m = probe[n].target /\ v0 = View(n)
    OBVIOUS
  <1>2. m \in Node
    <2>1. probe[n].stage = "direct"
      BY DEF PingTimeout
    <2>2. probe[n] # Idle
      BY <2>1 DEF Idle
    <2>3. QED
      BY <1>1, <2>2, TargetTyped DEF SWIMTypes
  <1>3. v0 \in Views
    BY <1>1, ViewTyped DEF SWIMTypes
  <1>4. UNCHANGED <<up, phi, join>>
    BY DEF PingTimeout
  <1>5. Closed(msgs, n, "probe") \subseteq Message
    BY ClosedKept DEF SWIMTypes, MsgTypes
  <1>6. CASE /\ SuspectNode(n, View(n), m)
             /\ probe' = [probe EXCEPT ![n] = Idle]
             /\ msgs' = Closed(msgs, n, "probe")
    <2>1. SuspectNode(n, v0, m) /\ GoesOn(View(n), v0)
      BY <1>1, <1>3, <1>6, GoesOnReflexive DEF SuspectNode
    <2>2. ListTypes' /\ TimerTypes' /\ MembersStep
      BY <1>2, <2>1, SuspectStep DEF SWIMTypes
    <2>3. ProbeTypes' /\ MsgTypes'
      BY <1>5, <1>6, ProbeEnds DEF SWIMTypes, MsgTypes
    <2>4. QED
      BY <1>4, <2>2, <2>3 DEF SWIMTypes, PhiTypes, JoinTypes
  <1>7. CASE \E hs \in SUBSET Helpers(n, m) :
               /\ probe' = [probe EXCEPT ![n] = [stage |-> "indirect", target |-> m, waiting |-> hs]]
               /\ msgs' = Sent(Closed(msgs, n, "probe"), {PingReq(n, h, m, View(n)) : h \in hs})
               /\ UNCHANGED <<listVars, timers>>
    <2>1. PICK hs \in SUBSET Helpers(n, m) :
               /\ probe' = [probe EXCEPT ![n] = [stage |-> "indirect", target |-> m, waiting |-> hs]]
               /\ msgs' = Sent(Closed(msgs, n, "probe"), {PingReq(n, h, m, View(n)) : h \in hs})
               /\ UNCHANGED <<listVars, timers>>
      BY <1>7
    <2>2. hs \subseteq Node
      BY DEF Helpers
    <2>3. {PingReq(n, h, m, v0) : h \in hs} \subseteq Message
      <3>1. ASSUME NEW h \in hs PROVE PingReq(n, h, m, v0) \in Message
        <4>1. h \in Node
          BY <2>2
        <4>2. QED
          BY <1>2, <1>3, <4>1, ReqSent
      <3>2. QED
        BY <3>1
    <2>4. MsgTypes'
      BY <1>1, <1>5, <2>1, <2>3, SentKept DEF MsgTypes
    <2>5. ProbeTypes'
      <3>1. [stage |-> "indirect", target |-> m, waiting |-> hs] \in Probes
        BY <1>2, <2>2 DEF Probes
      <3>2. QED
        BY <2>1, <3>1 DEF SWIMTypes, ProbeTypes
    <2>6. ListTypes' /\ MembersStep
      BY <2>1, KeepLists DEF SWIMTypes
    <2>7. QED
      BY <1>4, <2>1, <2>4, <2>5, <2>6 DEF SWIMTypes, TimerTypes, PhiTypes, JoinTypes
  <1>8. \/ /\ SuspectNode(n, View(n), m)
           /\ probe' = [probe EXCEPT ![n] = Idle]
           /\ msgs' = Closed(msgs, n, "probe")
        \/ \E hs \in SUBSET Helpers(n, m) :
               /\ probe' = [probe EXCEPT ![n] = [stage |-> "indirect", target |-> m, waiting |-> hs]]
               /\ msgs' = Sent(Closed(msgs, n, "probe"), {PingReq(n, h, m, View(n)) : h \in hs})
               /\ UNCHANGED <<listVars, timers>>
    <2>1. CASE /\ SuspectNode(n, View(n), probe[n].target)
               /\ probe' = [probe EXCEPT ![n] = Idle]
               /\ msgs' = Closed(msgs, n, "probe")
      BY <1>1, <2>1
    <2>2. ASSUME NEW hs \in SUBSET Helpers(n, probe[n].target),
                 probe' = [probe EXCEPT ![n] = [stage |-> "indirect", target |-> probe[n].target,
                                                waiting |-> hs]],
                 msgs' = Sent(Closed(msgs, n, "probe"),
                              {PingReq(n, h, probe[n].target, View(n)) : h \in hs}),
                 UNCHANGED <<listVars, timers>>
          PROVE  \E hx \in SUBSET Helpers(n, m) :
               /\ probe' = [probe EXCEPT ![n] = [stage |-> "indirect", target |-> m, waiting |-> hx]]
               /\ msgs' = Sent(Closed(msgs, n, "probe"), {PingReq(n, h, m, View(n)) : h \in hx})
               /\ UNCHANGED <<listVars, timers>>
      <3>1. /\ hs \in SUBSET Helpers(n, m)
            /\ probe' = [probe EXCEPT ![n] = [stage |-> "indirect", target |-> m, waiting |-> hs]]
            /\ msgs' = Sent(Closed(msgs, n, "probe"), {PingReq(n, h, m, View(n)) : h \in hs})
        BY <1>1, <2>2
      <3>2. QED
        BY <2>2, <3>1
    <2>3. QED
      BY <2>1, <2>2, Zenon DEF PingTimeout
  <1>9. QED
    BY <1>6, <1>7, <1>8

LEMMA IndirectTimeoutStep ==
    ASSUME SWIMAssumption, SWIMTypes, NEW n \in Node, IndirectTimeout(n)
    PROVE  SWIMTypes' /\ MembersStep
  <1>1. PICK m, v0 : m = probe[n].target /\ v0 = View(n)
    OBVIOUS
  <1>2. /\ probe[n].stage = "indirect"
        /\ SuspectNode(n, v0, m)
        /\ probe' = [probe EXCEPT ![n] = Idle]
        /\ msgs' = Closed(msgs, n, "probe")
        /\ UNCHANGED <<up, phi, join>>
    BY <1>1 DEF IndirectTimeout, SuspectNode
  <1>3. m \in Node
    <2>1. probe[n] # Idle
      BY <1>2 DEF Idle
    <2>2. QED
      BY <1>1, <2>1, TargetTyped DEF SWIMTypes
  <1>4. GoesOn(View(n), v0)
    BY <1>1, ViewTyped, GoesOnReflexive DEF SWIMTypes
  <1>5. ListTypes' /\ TimerTypes' /\ MembersStep
    BY <1>2, <1>3, <1>4, SuspectStep DEF SWIMTypes
  <1>6. ProbeTypes' /\ MsgTypes'
    BY <1>2, ProbeEnds, ClosedKept DEF SWIMTypes, MsgTypes
  <1>7. QED
    BY <1>2, <1>5, <1>6 DEF SWIMTypes, PhiTypes, JoinTypes

\* What a message is made of, and the view after its gossip.
LEMMA Received ==
    ASSUME SWIMAssumption, ListTypes, MsgTypes, NEW m \in msgs
    PROVE  /\ m \in Message /\ m.from \in Node /\ m.to \in Node /\ m.target \in Node
           /\ View(m.to) \in Views
           /\ GoesOn(View(m.to), Gossip(m.to, View(m.to), m.updates))
           /\ \A h \in Node :
                GoesOn(View(m.to), Heartbeat(m.to, Gossip(m.to, View(m.to), m.updates), h))
  <1>1. m \in Message
    BY DEF MsgTypes
  <1>2. m.from \in Node /\ m.to \in Node /\ m.target \in Node /\ m.updates \in Seq(News)
    BY <1>1 DEF Message
  <1>3. PICK n, v0, us : n = m.to /\ v0 = View(n) /\ us = m.updates
    OBVIOUS
  <1>4. v0 \in Views
    BY <1>2, <1>3, ViewTyped
  <1>5. PICK v : v = Gossip(n, v0, us)
    OBVIOUS
  <1>6. GoesOn(v0, v)
    BY <1>2, <1>3, <1>4, <1>5, GossipKeeps
  <1>7. ASSUME NEW h \in Node PROVE GoesOn(v0, Heartbeat(n, v, h))
    <2>1. v \in Views
      BY <1>6 DEF GoesOn
    <2>2. GoesOn(v, Heartbeat(n, v, h))
      BY <2>1, HeartbeatKeeps
    <2>3. QED
      BY <1>4, <1>6, <2>2, GoesOnTransitive
  <1>8. QED
    BY <1>1, <1>2, <1>3, <1>4, <1>5, <1>6, <1>7

LEMMA PhiKept ==
    ASSUME PhiTypes, NEW n \in Node, NEW m \in Node, SetPhi(n, m)
    PROVE  PhiTypes'
  <1>1. phi \in [Node -> [Node -> {"none", "low", "high"}]]
    BY DEF PhiTypes
  <1>2. phi' = [phi EXCEPT ![n][m] = "low"] \/ phi' = phi
    BY DEF SetPhi
  <1>3. phi' \in [Node -> [Node -> {"none", "low", "high"}]]
    BY <1>1, <1>2
  <1>4. QED
    BY <1>3 DEF PhiTypes

LEMMA HandlePingStep ==
    ASSUME SWIMAssumption, SWIMTypes, NEW m \in msgs, HandlePing(m.to, m)
    PROVE  SWIMTypes' /\ MembersStep
  <1>1. PICK n, v0 : n = m.to /\ v0 = View(m.to)
    OBVIOUS
  <1>2. PICK v : v = Heartbeat(m.to, Gossip(m.to, View(m.to), m.updates), m.from)
    OBVIOUS
  <1>3. n \in Node /\ m \in Message /\ m.from \in Node /\ v0 \in Views /\ GoesOn(v0, v)
    BY <1>1, <1>2, Received DEF SWIMTypes
  <1>4. SetView(n, v) /\ SetPhi(n, m.from) /\ UNCHANGED <<up, timers, probe, join>>
    BY <1>1, <1>2 DEF HandlePing
  <1>5. PICK w \in {v, v0} : msgs' = Answered(msgs \ {m}, m, {PingAck(n, m, RecentUpdates(w))})
    <2>1. PICK w \in {v} \cup (IF Transport = "grpc" THEN {View(m.to)} ELSE {}) :
            msgs' = Answered(msgs \ {m}, m, {PingAck(m.to, m, RecentUpdates(w))})
      BY <1>2, Zenon DEF HandlePing
    <2>2. w \in {v, v0}
      BY <1>1, <2>1
    <2>3. QED
      BY <1>1, <2>1, <2>2
  <1>6. ListTypes' /\ MembersStep
    BY <1>1, <1>3, <1>4, TakeView DEF SWIMTypes
  <1>7. PhiTypes'
    BY <1>3, <1>4, PhiKept DEF SWIMTypes
  <1>8. MsgTypes'
    <2>1. w \in Views
      BY <1>3, <1>5 DEF GoesOn
    <2>2. RecentUpdates(w) \in Seq(News)
      BY <2>1, RecentKept
    <2>3. PingAck(n, m, RecentUpdates(w)) \in Message
      BY <1>3, <2>2, AckSent
    <2>4. msgs \ {m} \subseteq Message /\ {PingAck(n, m, RecentUpdates(w))} \subseteq Message
      BY <2>3 DEF SWIMTypes, MsgTypes
    <2>5. Answered(msgs \ {m}, m, {PingAck(n, m, RecentUpdates(w))}) \subseteq Message
      BY <2>4, AnsweredKept
    <2>6. QED
      BY <1>5, <2>5 DEF MsgTypes
  <1>9. QED
    BY <1>4, <1>6, <1>7, <1>8 DEF SWIMTypes, TimerTypes, ProbeTypes, JoinTypes

LEMMA JoinEnds ==
    ASSUME JoinTypes, NEW n \in Node,
           join' = [join EXCEPT ![n] = [left |-> <<>>, pinging |-> FALSE]]
    PROVE  JoinTypes'
  <1>1. [left |-> <<>>, pinging |-> FALSE] \in Joins
    BY DEF Joins
  <1>2. QED
    BY <1>1 DEF JoinTypes

LEMMA HandlePingAckStep ==
    ASSUME SWIMAssumption, SWIMTypes, NEW m \in msgs, HandlePingAck(m.to, m)
    PROVE  SWIMTypes' /\ MembersStep
  <1>1. PICK n, v0 : n = m.to /\ v0 = View(m.to)
    OBVIOUS
  <1>2. PICK v : v = Heartbeat(m.to, Gossip(m.to, View(m.to), m.updates), m.from)
    OBVIOUS
  <1>3. n \in Node /\ m.from \in Node /\ GoesOn(v0, v)
    BY <1>1, <1>2, Received DEF SWIMTypes
  <1>4. /\ SetView(n, v) /\ SetPhi(n, m.from)
        /\ probe' = [probe EXCEPT ![n] = Idle] \/ probe' = probe
        /\ join' = [join EXCEPT ![n] = [left |-> <<>>, pinging |-> FALSE]] \/ join' = join
        /\ msgs' = msgs \ {m}
        /\ UNCHANGED <<up, timers>>
    BY <1>1, <1>2 DEF HandlePingAck
  <1>5. ListTypes' /\ MembersStep
    BY <1>1, <1>3, <1>4, TakeView DEF SWIMTypes
  <1>6. PhiTypes'
    BY <1>3, <1>4, PhiKept DEF SWIMTypes
  <1>7. ProbeTypes'
    <2>1. CASE probe' = [probe EXCEPT ![n] = Idle]
      BY <1>3, <2>1, ProbeEnds DEF SWIMTypes
    <2>2. CASE probe' = probe
      BY <2>2 DEF SWIMTypes, ProbeTypes
    <2>3. QED
      BY <1>4, <2>1, <2>2
  <1>8. JoinTypes'
    <2>1. CASE join' = [join EXCEPT ![n] = [left |-> <<>>, pinging |-> FALSE]]
      BY <1>3, <2>1, JoinEnds DEF SWIMTypes
    <2>2. CASE join' = join
      BY <2>2 DEF SWIMTypes, JoinTypes
    <2>3. QED
      BY <1>4, <2>1, <2>2
  <1>9. MsgTypes'
    BY <1>4 DEF SWIMTypes, MsgTypes
  <1>10. QED
    BY <1>4, <1>5, <1>6, <1>7, <1>8, <1>9 DEF SWIMTypes, TimerTypes

LEMMA HandlePingReqStep ==
    ASSUME SWIMAssumption, SWIMTypes, NEW m \in msgs, HandlePingReq(m.to, m)
    PROVE  SWIMTypes' /\ MembersStep
  <1>1. PICK n, v0 : n = m.to /\ v0 = View(m.to)
    OBVIOUS
  <1>2. PICK v : v = Gossip(m.to, View(m.to), m.updates)
    OBVIOUS
  <1>3. PICK ping, us : ping = Ping(n, m.target, "help", v) /\ us = RecentUpdates(v)
    OBVIOUS
  <1>4. n \in Node /\ m \in Message /\ m.target \in Node /\ GoesOn(v0, v) /\ v \in Views
    BY <1>1, <1>2, Received DEF SWIMTypes, GoesOn
  <1>5. /\ SetView(n, v) /\ UNCHANGED <<up, timers, phi, probe, join>>
        /\ msgs' = IF Transport = "grpc"
                   THEN Answered(Sent(msgs \ {m}, {ping, [ping EXCEPT !.updates = <<>>]}), m,
                                 {PingReqAck(n, m, us)})
                   ELSE Sent(msgs \ {m},
                             {ping, PingReqAck(n, m, Append(us, Suspected(m.target)))})
    BY <1>1, <1>2, <1>3 DEF HandlePingReq
  <1>6. ListTypes' /\ MembersStep
    BY <1>1, <1>4, <1>5, TakeView DEF SWIMTypes
  <1>7. us \in Seq(News) /\ Append(us, Suspected(m.target)) \in Seq(News)
    <2>1. us \in Seq(News)
      BY <1>3, <1>4, RecentKept
    <2>2. Suspected(m.target) \in News
      BY <1>4 DEF Suspected, News
    <2>3. QED
      BY <2>1, <2>2, AppendProperties
  <1>8. ping \in Message /\ [ping EXCEPT !.updates = <<>>] \in Message
    <2>1. ping \in Message
      BY <1>3, <1>4, PingSent
    <2>2. <<>> \in Seq(News)
      OBVIOUS
    <2>3. QED
      BY <2>1, <2>2 DEF Message
  <1>9. PICK plain, no : plain = PingReqAck(n, m, us)
                         /\ no = PingReqAck(n, m, Append(us, Suspected(m.target)))
    OBVIOUS
  <1>10. plain \in Message /\ no \in Message /\ msgs \ {m} \subseteq Message
    BY <1>4, <1>7, <1>9, AckSent DEF SWIMTypes, MsgTypes
  <1>11. MsgTypes'
    <2>1. CASE Transport = "grpc"
      <3>1. PICK base : base = Sent(msgs \ {m}, {ping, [ping EXCEPT !.updates = <<>>]})
        OBVIOUS
      <3>2. base \subseteq Message
        BY <1>8, <1>10, <3>1, SentKept
      <3>3. Answered(base, m, {plain}) \subseteq Message
        BY <1>10, <3>2, AnsweredKept
      <3>4. QED
        BY <1>5, <1>9, <2>1, <3>1, <3>3 DEF MsgTypes
    <2>2. CASE Transport # "grpc"
      <3>1. Sent(msgs \ {m}, {ping, no}) \subseteq Message
        BY <1>8, <1>10, SentKept
      <3>2. QED
        BY <1>5, <1>9, <2>2, <3>1 DEF MsgTypes
    <2>3. QED
      BY <2>1, <2>2
  <1>12. QED
    BY <1>5, <1>6, <1>11 DEF SWIMTypes, TimerTypes, PhiTypes, ProbeTypes, JoinTypes

LEMMA HandlePingReqAckStep ==
    ASSUME SWIMAssumption, SWIMTypes, NEW m \in msgs, HandlePingReqAck(m.to, m)
    PROVE  SWIMTypes' /\ MembersStep
  <1>1. PICK n, v0 : n = m.to /\ v0 = View(m.to)
    OBVIOUS
  <1>2. PICK v : v = Gossip(m.to, View(m.to), m.updates)
    OBVIOUS
  <1>3. PICK w, left : w = Heartbeat(m.to, v, m.target) /\ left = probe[m.to].waiting \ {m.from}
    OBVIOUS
  <1>4. n \in Node /\ m.target \in Node /\ GoesOn(v0, v) /\ GoesOn(v0, w)
    BY <1>1, <1>2, <1>3, Received DEF SWIMTypes
  <1>5. msgs \ {m} \subseteq Message /\ Closed(msgs \ {m}, n, "probe") \subseteq Message
    <2>1. msgs \ {m} \subseteq Message
      BY DEF SWIMTypes, MsgTypes
    <2>2. QED
      BY <2>1, ClosedKept
  <1>6. UNCHANGED <<up, join>>
    BY DEF HandlePingReqAck
  <1>7. CASE SetView(n, v) /\ msgs' = msgs \ {m} /\ UNCHANGED <<timers, phi, probe>>
    <2>1. ListTypes' /\ MembersStep
      BY <1>1, <1>4, <1>7, TakeView DEF SWIMTypes
    <2>2. MsgTypes'
      BY <1>5, <1>7 DEF MsgTypes
    <2>3. QED
      BY <1>6, <1>7, <2>1, <2>2 DEF SWIMTypes, TimerTypes, PhiTypes, ProbeTypes, JoinTypes
  <1>8. CASE /\ SetView(n, w) /\ SetPhi(n, m.target)
             /\ probe' = [probe EXCEPT ![n] = Idle]
             /\ msgs' = Closed(msgs \ {m}, n, "probe")
             /\ UNCHANGED timers
    <2>1. ListTypes' /\ MembersStep
      BY <1>1, <1>4, <1>8, TakeView DEF SWIMTypes
    <2>2. MsgTypes'
      BY <1>5, <1>8 DEF MsgTypes
    <2>3. PhiTypes' /\ ProbeTypes'
      BY <1>4, <1>8, PhiKept, ProbeEnds DEF SWIMTypes
    <2>4. QED
      BY <1>6, <1>8, <2>1, <2>2, <2>3 DEF SWIMTypes, TimerTypes, JoinTypes
  <1>9. CASE /\ left # {} /\ SetView(n, v)
             /\ probe' = [probe EXCEPT ![n].waiting = left]
             /\ msgs' = msgs \ {m}
             /\ UNCHANGED <<timers, phi>>
    <2>1. ListTypes' /\ MembersStep
      BY <1>1, <1>4, <1>9, TakeView DEF SWIMTypes
    <2>2. MsgTypes'
      BY <1>5, <1>9 DEF MsgTypes
    <2>3. probe[n] # Idle
      BY <1>1, <1>3, <1>9 DEF Idle
    <2>4. ProbeTypes'
      <3>1. /\ probe[n] \in [stage : {"direct", "indirect"}, target : Node, waiting : SUBSET Node]
            /\ left \subseteq Node
        BY <1>1, <1>3, <1>4, <2>3, TargetTyped DEF SWIMTypes
      <3>2. PICK p : p = [probe[n] EXCEPT !.waiting = left]
        OBVIOUS
      <3>3. p \in Probes
        BY <3>1, <3>2 DEF Probes
      <3>4. probe' = [probe EXCEPT ![n] = p]
        BY <1>9, <3>2
      <3>5. QED
        BY <3>3, <3>4 DEF SWIMTypes, ProbeTypes
    <2>5. QED
      BY <1>6, <1>9, <2>1, <2>2, <2>4 DEF SWIMTypes, TimerTypes, PhiTypes, JoinTypes
  <1>10. CASE /\ SuspectNode(n, v, m.target)
              /\ probe' = [probe EXCEPT ![n] = Idle]
              /\ msgs' = Closed(msgs \ {m}, n, "probe")
              /\ UNCHANGED phi
    <2>1. ListTypes' /\ TimerTypes' /\ MembersStep
      BY <1>1, <1>4, <1>10, SuspectStep DEF SWIMTypes
    <2>2. MsgTypes' /\ ProbeTypes'
      BY <1>4, <1>5, <1>10, ProbeEnds DEF SWIMTypes, MsgTypes
    <2>3. QED
      BY <1>6, <1>10, <2>1, <2>2 DEF SWIMTypes, PhiTypes, JoinTypes
  <1>11. QED
    <2>1. \/ SetView(n, v) /\ msgs' = msgs \ {m} /\ UNCHANGED <<timers, phi, probe>>
          \/ /\ SetView(n, w) /\ SetPhi(n, m.target)
             /\ probe' = [probe EXCEPT ![n] = Idle]
             /\ msgs' = Closed(msgs \ {m}, n, "probe")
             /\ UNCHANGED timers
          \/ /\ left # {} /\ SetView(n, v)
             /\ probe' = [probe EXCEPT ![n].waiting = left]
             /\ msgs' = msgs \ {m}
             /\ UNCHANGED <<timers, phi>>
          \/ /\ SuspectNode(n, v, m.target)
             /\ probe' = [probe EXCEPT ![n] = Idle]
             /\ msgs' = Closed(msgs \ {m}, n, "probe")
             /\ UNCHANGED phi
      BY <1>1, <1>2, <1>3 DEF HandlePingReqAck
    <2>2. QED
      BY <1>7, <1>8, <1>9, <1>10, <2>1

LEMMA PhiCheckStep ==
    ASSUME SWIMAssumption, SWIMTypes, NEW n \in Node, NEW m \in Node, PhiCheck(n, m)
    PROVE  SWIMTypes' /\ MembersStep
  <1>1. PICK v0 : v0 = View(n)
    OBVIOUS
  <1>2. SuspectNode(n, v0, m) /\ UNCHANGED <<up, phi, probe, join, msgs>>
    BY <1>1 DEF PhiCheck, SuspectNode
  <1>3. GoesOn(View(n), v0)
    BY <1>1, ViewTyped, GoesOnReflexive DEF SWIMTypes
  <1>4. ListTypes' /\ TimerTypes' /\ MembersStep
    BY <1>2, <1>3, SuspectStep DEF SWIMTypes
  <1>5. QED
    BY <1>2, <1>4 DEF SWIMTypes, PhiTypes, ProbeTypes, JoinTypes, MsgTypes

LEMMA SilenceStep ==
    ASSUME SWIMAssumption, SWIMTypes, NEW n \in Node, NEW m \in Node, Silence(n, m)
    PROVE  SWIMTypes' /\ MembersStep
  <1>1. /\ phi' = [phi EXCEPT ![n][m] = "high"]
        /\ UNCHANGED <<up, listVars, timers, probe, join, msgs>>
    BY DEF Silence
  <1>2. PhiTypes'
    <2>1. phi \in [Node -> [Node -> {"none", "low", "high"}]]
      BY DEF SWIMTypes, PhiTypes
    <2>2. phi' \in [Node -> [Node -> {"none", "low", "high"}]]
      BY <1>1, <2>1
    <2>3. QED
      BY <2>2 DEF PhiTypes
  <1>3. ListTypes' /\ MembersStep
    BY <1>1, KeepLists DEF SWIMTypes
  <1>4. QED
    BY <1>1, <1>2, <1>3 DEF SWIMTypes, TimerTypes, ProbeTypes, JoinTypes, MsgTypes

\* One record set by hand, and no update queued.
LEMMA RecordSet ==
    ASSUME ListTypes, NEW n \in Node, NEW m \in Node, NEW r \in Rec,
           members' = [members EXCEPT ![n] = [members[n] EXCEPT ![m] = r]],
           recentUpdates' = recentUpdates,
           \/ members[n][m].state = "suspected" /\ r = [state |-> "dead", inc |-> members[n][m].inc]
           \/ members[n][m].state = "dead" /\ r = Unknown
    PROVE  ListTypes' /\ MembersStep
  <1>1. members \in [Node -> [Node -> Rec]]
    BY DEF ListTypes
  <1>2. [members[n] EXCEPT ![m] = r] \in [Node -> Rec]
    BY <1>1
  <1>3. members' \in [Node -> [Node -> Rec]]
    BY <1>1, <1>2
  <1>4. ASSUME NEW a \in Node, NEW b \in Node
        PROVE  members'[a][b] = IF a = n /\ b = m THEN r ELSE members[a][b]
    BY <1>1
  <1>5. ListTypes'
    BY <1>3 DEF ListTypes
  <1>6. MembersStep
    BY <1>4, LaterReflexive DEF MembersStep
  <1>7. QED
    BY <1>5, <1>6

LEMMA StateSet ==
    ASSUME NEW r \in Member, NEW s
    PROVE  [r EXCEPT !.state = s] = [state |-> s, inc |-> r.inc]
  BY DEF Member

LEMMA TimerFiresStep ==
    ASSUME SWIMAssumption, SWIMTypes, NEW n \in Node, NEW m \in Node, TimerFires(n, m)
    PROVE  SWIMTypes' /\ MembersStep
  <1>1. /\ timers' = [timers EXCEPT ![n] = timers[n] \ {m}]
        /\ IF members[n][m].state = "suspected" THEN Declared(n, m) ELSE UNCHANGED members
        /\ UNCHANGED <<up, recentUpdates, phi, probe, join, msgs>>
    BY DEF TimerFires
  <1>2. TimerTypes'
    BY <1>1 DEF SWIMTypes, TimerTypes
  <1>3. ListTypes' /\ MembersStep
    <2>1. CASE members[n][m].state = "suspected"
      <3>1. members \in [Node -> [Node -> Rec]]
        BY DEF SWIMTypes, ListTypes
      <3>2. members[n][m] \in Rec
        BY <3>1
      <3>3. PICK old, r : old = members[n][m] /\ r = [state |-> "dead", inc |-> old.inc]
        OBVIOUS
      <3>4. old \in Member /\ old = [state |-> old.state, inc |-> old.inc]
        BY <2>1, <3>2, <3>3 DEF Rec, Member, Unknown
      <3>5. r \in Rec /\ [old EXCEPT !.state = "dead"] = r
        <4>1. old.inc \in Nat
          BY <3>4 DEF Member
        <4>2. r \in Member
          BY <3>3, <4>1 DEF Member, State
        <4>3. [old EXCEPT !.state = "dead"] = r
          BY <3>3, <3>4, StateSet
        <4>4. QED
          BY <4>2, <4>3 DEF Rec
      <3>6. members' = [members EXCEPT ![n] = [members[n] EXCEPT ![m] = r]]
        BY <1>1, <2>1, <3>3, <3>5 DEF Declared
      <3>7. QED
        BY <1>1, <2>1, <3>3, <3>5, <3>6, RecordSet DEF SWIMTypes
    <2>2. CASE members[n][m].state # "suspected"
      BY <1>1, <2>2, KeepLists DEF SWIMTypes, listVars
    <2>3. QED
      BY <2>1, <2>2
  <1>4. QED
    BY <1>1, <1>2, <1>3 DEF SWIMTypes, PhiTypes, ProbeTypes, JoinTypes, MsgTypes

LEMMA GCStep ==
    ASSUME SWIMAssumption, SWIMTypes, NEW n \in Node, NEW m \in Node, GC(n, m)
    PROVE  SWIMTypes' /\ MembersStep
  <1>1. /\ members[n][m].state = "dead"
        /\ members' = [members EXCEPT ![n] = [members[n] EXCEPT ![m] = Unknown]]
        /\ UNCHANGED <<up, recentUpdates, timers, phi, probe, join, msgs>>
    BY DEF GC
  <1>2. Unknown \in Rec
    BY DEF Rec
  <1>3. ListTypes' /\ MembersStep
    BY <1>1, <1>2, RecordSet DEF SWIMTypes
  <1>4. QED
    BY <1>1, <1>3 DEF SWIMTypes, TimerTypes, PhiTypes, ProbeTypes, JoinTypes, MsgTypes

LEMMA CrashStep ==
    ASSUME SWIMAssumption, SWIMTypes, NEW n \in Node, Crash(n)
    PROVE  SWIMTypes' /\ MembersStep
  <1>1. /\ up' = up \ {n}
        /\ members' = [members EXCEPT ![n] = [m \in Node |-> Unknown]]
        /\ recentUpdates' = [recentUpdates EXCEPT ![n] = <<>>]
        /\ timers' = [timers EXCEPT ![n] = {}]
        /\ phi' = [phi EXCEPT ![n] = [m \in Node |-> "none"]]
        /\ probe' = [probe EXCEPT ![n] = Idle]
        /\ join' = [join EXCEPT ![n] = [left |-> <<>>, pinging |-> FALSE]]
        /\ msgs' = {m \in msgs : m.to # n}
    BY DEF Crash, SetView
  <1>2. members \in [Node -> [Node -> Rec]] /\ recentUpdates \in [Node -> Queue]
    BY DEF SWIMTypes, ListTypes
  <1>3. <<>> \in Queue
    <2>1. Len(<<>>) <= QueueCap
      BY DEF SWIMAssumption
    <2>2. QED
      BY <2>1 DEF Queue
  <1>4. [m \in Node |-> Unknown] \in [Node -> Rec]
    BY DEF Rec
  <1>5. ListTypes'
    BY <1>1, <1>2, <1>3, <1>4 DEF ListTypes
  <1>6. MembersStep
    <2>1. ASSUME NEW a \in Node, NEW b \in Node
          PROVE  Later(members[a][b], members'[a][b]) \/ (a \notin up' /\ members'[a][b] = Unknown)
      <3>1. CASE a = n
        BY <1>1, <1>2, <3>1
      <3>2. CASE a # n
        BY <1>1, <1>2, <3>2, LaterReflexive
      <3>3. QED
        BY <3>1, <3>2
    <2>2. QED
      BY <2>1 DEF MembersStep
  <1>7. TimerTypes' /\ PhiTypes'
    BY <1>1 DEF SWIMTypes, TimerTypes, PhiTypes
  <1>8. ProbeTypes' /\ JoinTypes'
    BY <1>1, ProbeEnds, JoinEnds DEF SWIMTypes
  <1>9. MsgTypes' /\ up' \subseteq Node
    BY <1>1 DEF SWIMTypes, MsgTypes
  <1>10. QED
    BY <1>5, <1>6, <1>7, <1>8, <1>9 DEF SWIMTypes

LEMMA LoseStep ==
    ASSUME SWIMTypes, NEW m \in msgs, Lose(m)
    PROVE  SWIMTypes' /\ MembersStep
  <1>1. msgs' = msgs \ {m} /\ UNCHANGED <<up, listVars, timers, phi, probe, join>>
    BY DEF Lose
  <1>2. ListTypes' /\ MembersStep
    BY <1>1, KeepLists DEF SWIMTypes
  <1>3. QED
    BY <1>1, <1>2 DEF SWIMTypes, TimerTypes, PhiTypes, ProbeTypes, JoinTypes, MsgTypes

-----------------------------------------------------------------------------
(* The theorems *)

LEMMA InitTyped == ASSUME SWIMAssumption, Init PROVE SWIMTypes
  <1>1. ListTypes
    <2>1. Unknown \in Rec /\ [state |-> "alive", inc |-> 1] \in Rec
      BY DEF Rec, Member, State
    <2>2. <<>> \in Queue
      <3>1. Len(<<>>) <= QueueCap
        BY DEF SWIMAssumption
      <3>2. QED
        BY <3>1 DEF Queue
    <2>3. QED
      BY <2>1, <2>2 DEF Init, ListTypes
  <1>2. JoinTypes
    <2>1. ASSUME NEW n \in Node PROVE [left |-> Seeds[n], pinging |-> FALSE] \in Joins
      <3>1. Seeds[n] \in Seq(Node)
        BY DEF SWIMAssumption
      <3>2. QED
        BY <3>1 DEF Joins
    <2>2. QED
      BY <2>1 DEF Init, JoinTypes
  <1>3. TimerTypes /\ PhiTypes /\ ProbeTypes /\ MsgTypes /\ up \subseteq Node
    BY DEF Init, TimerTypes, PhiTypes, ProbeTypes, Probes, MsgTypes
  <1>4. QED
    BY <1>1, <1>2, <1>3 DEF SWIMTypes

LEMMA NextStep == ASSUME SWIMAssumption, SWIMTypes, [Next]_vars PROVE SWIMTypes' /\ MembersStep
  <1>1. CASE UNCHANGED vars
    <2>1. UNCHANGED <<up, listVars, timers, phi, probe, join, msgs>>
      BY <1>1 DEF vars
    <2>2. ListTypes' /\ MembersStep
      BY <2>1, KeepLists DEF SWIMTypes
    <2>3. QED
      BY <2>1, <2>2 DEF SWIMTypes, TimerTypes, PhiTypes, ProbeTypes, JoinTypes, MsgTypes
  <1>2. ASSUME NEW n \in Node,
               JoinSeed(n) \/ JoinTimeout(n) \/ PingTimeout(n) \/ IndirectTimeout(n) \/ Crash(n)
        PROVE  SWIMTypes' /\ MembersStep
    BY <1>2, JoinSeedStep, JoinTimeoutStep, PingTimeoutStep, IndirectTimeoutStep, CrashStep
  <1>3. ASSUME NEW n \in Node, NEW m \in Node,
               Probe(n, m) \/ Silence(n, m) \/ PhiCheck(n, m) \/ TimerFires(n, m) \/ GC(n, m)
        PROVE  SWIMTypes' /\ MembersStep
    BY <1>3, ProbeStep, SilenceStep, PhiCheckStep, TimerFiresStep, GCStep
  <1>4. ASSUME NEW m \in msgs,
               \/ HandlePing(m.to, m) \/ HandlePingAck(m.to, m)
               \/ HandlePingReq(m.to, m) \/ HandlePingReqAck(m.to, m) \/ Lose(m)
        PROVE  SWIMTypes' /\ MembersStep
    BY <1>4, HandlePingStep, HandlePingAckStep, HandlePingReqStep, HandlePingReqAckStep, LoseStep
  <1>5. QED
    BY <1>1, <1>2, <1>3, <1>4 DEF Next

LEMMA TypesInvariant == Spec => []SWIMTypes
  <1>1. Init => SWIMTypes
    BY InitTyped, SWIMAssumption
  <1>2. SWIMTypes /\ [Next]_vars => SWIMTypes'
    BY NextStep, SWIMAssumption
  <1>3. QED
    BY <1>1, <1>2, PTL DEF Spec

\* Types of the membership protocol, whatever arrives in whatever order: a record is
\* unknown or a member's, no queue of updates (MemberList.recentUpdates) outgrows its
\* cap, and the protocol loop is in one of its stages, with a target unless idle.
THEOREM SWIMTypeCorrect == Spec => []TypeOK
  <1>1. SWIMAssumption /\ SWIMTypes => TypeOK
    <2>1. SUFFICES ASSUME SWIMAssumption, SWIMTypes PROVE TypeOK
      OBVIOUS
    <2>2. ASSUME NEW n \in Node, NEW m \in Node
          PROVE  /\ members[n][m] = Unknown \/ members[n][m] \in Member
                 /\ phi[n][m] \in {"none", "low", "high"}
      <3>1. members[n][m] \in Rec
        BY <2>1 DEF SWIMTypes, ListTypes
      <3>2. phi[n][m] \in {"none", "low", "high"}
        BY <2>1 DEF SWIMTypes, PhiTypes
      <3>3. QED
        BY <3>1, <3>2 DEF Rec
    <2>3. ASSUME NEW n \in Node
          PROVE  /\ recentUpdates[n] \in Seq(Update) /\ Len(recentUpdates[n]) <= QueueCap
                 /\ timers[n] \subseteq Node
                 /\ probe[n].stage \in {"idle", "direct", "indirect"}
                 /\ (probe[n].stage = "idle") <=> (probe[n] = Idle)
      <3>1. recentUpdates[n] \in Seq(News) /\ Len(recentUpdates[n]) <= QueueCap
        <4>1. recentUpdates[n] \in Queue
          BY <2>1 DEF SWIMTypes, ListTypes
        <4>2. QED
          BY <4>1 DEF Queue
      <3>2. News \subseteq Update
        BY DEF News, Update, State
      <3>3. recentUpdates[n] \in Seq(Update)
        BY <3>1, <3>2
      <3>4. timers[n] \subseteq Node
        BY <2>1 DEF SWIMTypes, TimerTypes
      <3>5. probe[n] \in Probes
        BY <2>1 DEF SWIMTypes, ProbeTypes
      <3>6. /\ probe[n].stage \in {"idle", "direct", "indirect"}
            /\ (probe[n].stage = "idle") <=> (probe[n] = Idle)
        BY <3>5 DEF Probes, Idle
      <3>7. QED
        BY <3>1, <3>3, <3>4, <3>6
    <2>4. QED
      BY <2>1, <2>2, <2>3 DEF TypeOK, SWIMTypes
  <1>2. QED
    BY <1>1, SWIMAssumption, TypesInvariant, PTL

\* No node goes back on what it knows of another, over either transport and whatever
\* is lost, late or reordered: a record (MemberList.members) changes only to one that
\* supersedes it, until it is collected or its holder stops.
THEOREM KnowledgeOnlyWorsens == Spec => ViewsOnlyWorsen
  <1>1. ASSUME SWIMAssumption, SWIMTypes, [Next]_vars
        PROVE  \A n \in up', m \in Node :
                  \/ members'[n][m] = members[n][m]
                  \/ members[n][m] = Unknown
                  \/ members[n][m].state = "dead" /\ members'[n][m] = Unknown
                  \/ members'[n][m] # Unknown /\ Supersedes(members'[n][m], members[n][m])
    <2>1. SWIMTypes' /\ MembersStep
      BY <1>1, NextStep
    <2>2. SUFFICES ASSUME NEW n \in up', NEW m \in Node
                   PROVE  \/ members'[n][m] = members[n][m]
                          \/ members[n][m] = Unknown
                          \/ members[n][m].state = "dead" /\ members'[n][m] = Unknown
                          \/ members'[n][m] # Unknown /\ Supersedes(members'[n][m], members[n][m])
      OBVIOUS
    <2>3. n \in Node
      BY <2>1 DEF SWIMTypes
    <2>4. PICK old, new : old = members[n][m] /\ new = members'[n][m]
      OBVIOUS
    <2>5. old \in Rec
      BY <1>1, <2>3, <2>4 DEF SWIMTypes, ListTypes
    <2>6. CASE Later(old, new)
      <3>1. new \in Member => new # Unknown
        BY DEF Member, State, Unknown
      <3>2. QED
        BY <2>4, <2>6, <3>1 DEF Later
    <2>7. CASE old.state = "suspected" /\ new = [state |-> "dead", inc |-> old.inc]
      <3>1. Supersedes(new, old)
        BY <2>7, StatePriorities DEF Supersedes
      <3>2. new # Unknown
        BY <2>7 DEF Unknown
      <3>3. QED
        BY <2>4, <3>1, <3>2
    <2>8. CASE old.state = "dead" /\ new = Unknown
      BY <2>4, <2>8
    <2>9. QED
      BY <2>1, <2>3, <2>4, <2>6, <2>7, <2>8 DEF MembersStep
  <1>2. QED
    BY <1>1, SWIMAssumption, TypesInvariant, PTL DEF Spec, ViewsOnlyWorsen

\* No death without a suspicion: a record turns dead only where its holder had it as
\* suspected, whichever timer of SuspectNode fires and whatever gossip says.
THEOREM DeathsFollowSuspicions == Spec => DeadOnlyAfterSuspicion
  <1>1. ASSUME SWIMAssumption, SWIMTypes, [Next]_vars
        PROVE  \A n, m \in Node :
                  members'[n][m].state = "dead" => members[n][m].state \in {"suspected", "dead"}
    <2>1. MembersStep
      BY <1>1, NextStep
    <2>2. Unknown.state # "dead"
      BY DEF Unknown
    <2>3. QED
      BY <2>1, <2>2 DEF MembersStep, Later
  <1>2. QED
    BY <1>1, SWIMAssumption, TypesInvariant, PTL DEF Spec, DeadOnlyAfterSuspicion

-----------------------------------------------------------------------------
(* ConnectionPool and the interceptors *)

\* A connection belongs to one peer, and a peer that is dialled has none.
PoolInv ==
    /\ dials \in Nat /\ dialing \subseteq Peer
    /\ peers \in [Peer -> Nat] /\ \A p \in Peer : peers[p] <= dials
    /\ \A p \in dialing : peers[p] = 0
    /\ \A p, q \in Peer : peers[p] = peers[q] /\ peers[p] # 0 => p = q
    /\ OpenIsPooled

\* Every step keeps PoolInv.
LEMMA PoolInvNext ==
    ASSUME PoolInv, [TransportNext]_transportVars
    PROVE  PoolInv'
<1>1. ASSUME NEW p \in Peer, AddPeer(p) PROVE PoolInv'
  BY <1>1 DEF AddPeer, PoolInv, OpenIsPooled
<1>2. ASSUME NEW p \in Peer, DialSucceeds(p) PROVE PoolInv'
  <2>1. PICK d \in Nat : d = dials + 1
    BY DEF PoolInv
  <2>2. /\ peers' = [peers EXCEPT ![p] = d] /\ open' = open \cup {d} /\ dials' = d /\ dialing' = {} /\ peers[p] = 0
    BY <1>2, <2>1 DEF DialSucceeds, PoolInv
  <2>3. /\ peers' \in [Peer -> Nat] /\ peers'[p] = d
        /\ \A q \in Peer : q # p => peers'[q] = peers[q]
        /\ \A q \in Peer : peers[q] \in Nat /\ peers[q] < d
    BY <2>1, <2>2 DEF PoolInv
  <2>4. \A q \in Peer : peers'[q] <= d
    BY <2>1, <2>3
  <2>5. \A q, r \in Peer : peers'[q] = peers'[r] /\ peers'[q] # 0 => q = r
    <3>1. \A q, r \in Peer : peers[q] = peers[r] /\ peers[q] # 0 => q = r
      BY DEF PoolInv
    <3>2. \A q \in Peer : peers[q] # d
      BY <2>1, <2>3
    <3>3. QED
      BY <2>3, <3>1, <3>2
  <2>6. OpenIsPooled'
    <3>1. \A c : c \in open <=> \E q \in Peer : peers[q] # 0 /\ c = peers[q]
      BY DEF PoolInv, OpenIsPooled
    <3>2. d # 0
      BY <2>1 DEF PoolInv
    <3>3. \A c : c \in open' <=> \E q \in Peer : peers'[q] # 0 /\ c = peers'[q]
      BY <2>2, <2>3, <3>1, <3>2
    <3>4. QED
      BY <3>3 DEF OpenIsPooled
  <2>7. QED
    BY <2>1, <2>2, <2>3, <2>4, <2>5, <2>6 DEF PoolInv
<1>3. ASSUME NEW p \in Peer, DialTimesOut(p) PROVE PoolInv'
  BY <1>3 DEF DialTimesOut, PoolInv, OpenIsPooled
<1>4. ASSUME NEW p \in Peer, RemovePeer(p) PROVE PoolInv'
  <2>1. /\ peers' = [peers EXCEPT ![p] = 0] /\ open' = open \ {peers[p]} /\ UNCHANGED <<dials, dialing>>
        /\ peers[p] # 0 /\ dialing = {}
    BY <1>4 DEF RemovePeer
  <2>2. /\ peers' \in [Peer -> Nat] /\ peers'[p] = 0
        /\ \A q \in Peer : q # p => peers'[q] = peers[q]
    BY <2>1 DEF PoolInv
  <2>3. \A q, r \in Peer : peers[q] = peers[r] /\ peers[q] # 0 => q = r
    BY DEF PoolInv
  <2>4. OpenIsPooled'
    <3>1. \A c : c \in open <=> \E q \in Peer : peers[q] # 0 /\ c = peers[q]
      BY DEF PoolInv, OpenIsPooled
    <3>2. \A c : c \in open' <=> \E q \in Peer : peers'[q] # 0 /\ c = peers'[q]
      BY <2>1, <2>2, <2>3, <3>1
    <3>3. QED
      BY <3>2 DEF OpenIsPooled
  <2>5. \A q \in Peer : peers'[q] <= dials
    BY <2>2 DEF PoolInv
  <2>6. QED
    BY <2>1, <2>2, <2>3, <2>4, <2>5 DEF PoolInv
<1>5. CASE ClosePool
  <2>1. /\ peers' = [p \in Peer |-> 0] /\ open' = open \ {peers[p] : p \in Peer} /\ UNCHANGED <<dials, dialing>>
        /\ dialing = {}
    BY <1>5 DEF ClosePool
  <2>2. open' = {} /\ \A p \in Peer : peers'[p] = 0
    BY <2>1 DEF PoolInv, OpenIsPooled
  <2>3. OpenIsPooled'
    BY <2>2 DEF OpenIsPooled
  <2>4. QED
    BY <2>1, <2>2, <2>3 DEF PoolInv
<1>6. ASSUME UNCHANGED poolState PROVE PoolInv'
  BY <1>6 DEF poolState, PoolInv, OpenIsPooled
<1>7. QED
  BY <1>1, <1>2, <1>3, <1>4, <1>5, <1>6
     DEF TransportNext, SetRule, SendBegins, GetPeer, AttemptFails, HandlerRuns, HandlerPanics, Reply, MapRace,
         Retry, transportVars, poolState

Calling == [pc : {"idle", "waiting", "dropped", "calling", "backoff", "served", "done", "failed"},
            peer : Peer \cup {CHOOSE p \in Peer : TRUE}, conn : Nat, attempts : Nat]

\* Where a call is, and how often its handler has run and its reply was lost.
Accounted(pc, n, m) ==
    /\ pc \in {"idle", "waiting", "dropped", "calling", "backoff"} => n = m
    /\ pc \in {"served", "done"} => n = m + 1
    /\ pc = "failed" => n = m \/ n = m + 1

\* A handler that ran is accounted for: by a reply that was lost, one that arrived, or one
\* under way.
CallInv ==
    /\ sender \in [Sender -> Calling] /\ executed \in [Sender -> Nat] /\ lost \in [Sender -> Nat]
    /\ recording \subseteq {s \in Sender : sender[s].pc = "served"}
    /\ \A s \in Sender : sender[s].pc # "idle" => Peer # {}
    /\ \A s \in Sender : Accounted(sender[s].pc, executed[s], lost[s])

\* A call that fails is tried again, or is over.
LEMMA FailedIs ==
    ASSUME CallInv, NEW s \in Sender, NEW code, Failed(s, code)
    PROVE  /\ sender' \in [Sender -> Calling] /\ sender'[s].pc \in {"backoff", "failed"}
           /\ code # "Unavailable" => sender'[s].pc = "failed"
           /\ \A q \in Sender : q # s => sender'[q] = sender[q]
<1>1. sender \in [Sender -> Calling]
  BY DEF CallInv
<1>2. PICK old \in Calling : old = sender[s]
  BY <1>1
<1>3. PICK k \in Nat : k = old.attempts + 1
  BY <1>2 DEF Calling
<1>4. PICK pc \in {"backoff", "failed"} :
         pc = IF code = "Unavailable" /\ sender[s].attempts + 1 < MaxAttempts THEN "backoff" ELSE "failed"
  OBVIOUS
<1>5. PICK new : new = [old EXCEPT !.attempts = k, !.pc = pc]
  OBVIOUS
<1>6. new \in Calling /\ new.pc = pc
  BY <1>2, <1>3, <1>4, <1>5 DEF Calling
<1>7. sender' = [sender EXCEPT ![s] = new]
  BY <1>1, <1>2, <1>3, <1>4, <1>5 DEF Failed
<1>8. QED
  BY <1>1, <1>4, <1>6, <1>7

\* A call goes on to its next place.
LEMMA SetPcIs ==
    ASSUME CallInv, NEW s \in Sender,
           NEW pc \in {"idle", "waiting", "dropped", "calling", "backoff", "served", "done", "failed"}, SetPc(s, pc)
    PROVE  /\ sender' \in [Sender -> Calling] /\ sender'[s].pc = pc
           /\ \A q \in Sender : q # s => sender'[q] = sender[q]
<1>1. sender \in [Sender -> Calling]
  BY DEF CallInv
<1>2. PICK old \in Calling : old = sender[s]
  BY <1>1
<1>3. PICK new : new = [old EXCEPT !.pc = pc]
  OBVIOUS
<1>4. new \in Calling /\ new.pc = pc
  BY <1>2, <1>3 DEF Calling
<1>5. sender' = [sender EXCEPT ![s] = new]
  BY <1>1, <1>2, <1>3 DEF SetPc
<1>6. QED
  BY <1>1, <1>4, <1>5

\* A step of one call keeps CallInv if it keeps that call accounted for.
LEMMA OneCallMoves ==
    ASSUME CallInv, NEW s \in Sender, Peer # {}, sender' \in [Sender -> Calling],
           \A q \in Sender : q # s => sender'[q] = sender[q] /\ executed'[q] = executed[q] /\ lost'[q] = lost[q],
           executed' \in [Sender -> Nat], lost' \in [Sender -> Nat],
           recording' \ {s} \subseteq recording, s \in recording' => sender'[s].pc = "served",
           Accounted(sender'[s].pc, executed'[s], lost'[s])
    PROVE  CallInv'
<1>1. recording' \subseteq {q \in Sender : sender'[q].pc = "served"}
  BY DEF CallInv
<1>2. \A q \in Sender : Accounted(sender'[q].pc, executed'[q], lost'[q])
  BY DEF CallInv
<1>3. QED
  BY <1>1, <1>2 DEF CallInv

\* Every step keeps CallInv.
LEMMA CallInvNext ==
    ASSUME PoolInv, CallInv, [TransportNext]_transportVars
    PROVE  CallInv'
<1>0. /\ sender \in [Sender -> Calling] /\ executed \in [Sender -> Nat] /\ lost \in [Sender -> Nat]
      /\ recording \subseteq {s \in Sender : sender[s].pc = "served"}
      /\ \A s \in Sender : sender[s].pc # "idle" => Peer # {}
      /\ \A s \in Sender : Accounted(sender[s].pc, executed[s], lost[s]) /\ executed[s] \in Nat /\ lost[s] \in Nat
  BY DEF CallInv
<1>1. ASSUME NEW s \in Sender, NEW p \in Peer, SendBegins(s, p) PROVE CallInv'
  <2>1. PICK old \in Calling : old = sender[s] /\ old.pc = "idle"
    BY <1>0, <1>1 DEF SendBegins
  <2>2. PICK new : new = [old EXCEPT !.pc = "waiting", !.peer = p]
    OBVIOUS
  <2>3. new \in Calling /\ new.pc = "waiting"
    BY <2>1, <2>2 DEF Calling
  <2>4. sender' = [sender EXCEPT ![s] = new] /\ UNCHANGED <<recording, executed, lost>>
    BY <1>0, <1>1, <2>1, <2>2 DEF SendBegins
  <2>5. s \notin recording
    BY <1>0, <2>1
  <2>6. Accounted("waiting", executed[s], lost[s])
    BY <1>0, <2>1 DEF Accounted
  <2>7. QED
    BY <1>0, <2>3, <2>4, <2>5, <2>6, OneCallMoves
<1>2. ASSUME NEW s \in Sender, GetPeer(s) PROVE CallInv'
  <2>1. PICK old \in Calling : old = sender[s] /\ old.pc = "waiting"
    BY <1>0, <1>2 DEF GetPeer
  <2>2. PICK pc \in {"dropped", "calling"} : pc = IF peers[sender[s].peer] = 0 THEN "dropped" ELSE "calling"
    OBVIOUS
  <2>3. PICK k : k = peers[sender[s].peer]
    OBVIOUS
  <2>4. PICK new : new = [old EXCEPT !.pc = pc, !.conn = k]
    OBVIOUS
  <2>5. k \in Nat
    BY <1>0, <2>1, <2>3 DEF Calling, PoolInv
  <2>6. new \in Calling /\ new.pc = pc
    BY <2>1, <2>2, <2>4, <2>5 DEF Calling
  <2>7. sender' = [sender EXCEPT ![s] = new] /\ UNCHANGED <<recording, executed, lost>>
    BY <1>0, <1>2, <2>1, <2>2, <2>3, <2>4 DEF GetPeer
  <2>8. s \notin recording
    BY <1>0, <2>1
  <2>9. Accounted(pc, executed[s], lost[s])
    BY <1>0, <2>1, <2>2 DEF Accounted
  <2>10. Peer # {}
    BY <1>0, <2>1
  <2>11. sender' \in [Sender -> Calling] /\ sender'[s] = new /\ \A q \in Sender : q # s => sender'[q] = sender[q]
    BY <1>0, <2>6, <2>7
  <2>12. QED
    BY <1>0, <2>6, <2>7, <2>8, <2>9, <2>10, <2>11, OneCallMoves
<1>3. ASSUME NEW s \in Sender, AttemptFails(s) PROVE CallInv'
  <2>1. PICK code : Failed(s, code) /\ sender[s].pc = "calling" /\ UNCHANGED <<recording, executed, lost>>
    BY <1>3 DEF AttemptFails
  <2>2. /\ sender' \in [Sender -> Calling] /\ sender'[s].pc \in {"backoff", "failed"}
        /\ \A q \in Sender : q # s => sender'[q] = sender[q]
    BY <2>1, FailedIs
  <2>3. s \notin recording
    BY <1>0, <2>1
  <2>4. Accounted(sender'[s].pc, executed[s], lost[s])
    BY <1>0, <2>1, <2>2 DEF Accounted
  <2>5. QED
    BY <1>0, <2>1, <2>2, <2>3, <2>4, OneCallMoves
<1>4. ASSUME NEW s \in Sender, HandlerRuns(s) PROVE CallInv'
  <2>1. /\ SetPc(s, "served") /\ sender[s].pc = "calling" /\ recording' = recording \cup {s} /\ lost' = lost
        /\ executed' = [executed EXCEPT ![s] = @ + 1]
    BY <1>4 DEF HandlerRuns
  <2>2. /\ sender' \in [Sender -> Calling] /\ sender'[s].pc = "served"
        /\ \A q \in Sender : q # s => sender'[q] = sender[q]
    BY <2>1, SetPcIs
  <2>3. /\ executed' \in [Sender -> Nat] /\ executed'[s] = executed[s] + 1
        /\ \A q \in Sender : q # s => executed'[q] = executed[q]
    BY <1>0, <2>1
  <2>4. Accounted(sender'[s].pc, executed'[s], lost'[s])
    BY <1>0, <2>1, <2>2, <2>3 DEF Accounted
  <2>5. QED
    BY <1>0, <2>1, <2>2, <2>3, <2>4, OneCallMoves
<1>5. ASSUME NEW s \in Sender, HandlerPanics(s) PROVE CallInv'
  <2>1. /\ Failed(s, "Internal") /\ sender[s].pc = "calling" /\ recording' = recording /\ lost' = lost
        /\ executed' = [executed EXCEPT ![s] = @ + 1]
    BY <1>5 DEF HandlerPanics
  <2>2. /\ sender' \in [Sender -> Calling] /\ sender'[s].pc = "failed"
        /\ \A q \in Sender : q # s => sender'[q] = sender[q]
    BY <2>1, FailedIs
  <2>3. /\ executed' \in [Sender -> Nat] /\ executed'[s] = executed[s] + 1
        /\ \A q \in Sender : q # s => executed'[q] = executed[q]
    BY <1>0, <2>1
  <2>4. Accounted(sender'[s].pc, executed'[s], lost'[s])
    BY <1>0, <2>1, <2>2, <2>3 DEF Accounted
  <2>5. s \notin recording
    BY <1>0, <2>1
  <2>6. QED
    BY <1>0, <2>1, <2>2, <2>3, <2>4, <2>5, OneCallMoves
<1>6. ASSUME NEW s \in Sender, Reply(s) PROVE CallInv'
  <2>1. sender[s].pc = "served" /\ recording' = recording \ {s} /\ executed' = executed
    BY <1>6 DEF Reply
  <2>2. CASE SetPc(s, "done") /\ UNCHANGED lost
    <3>1. /\ sender' \in [Sender -> Calling] /\ sender'[s].pc = "done"
          /\ \A q \in Sender : q # s => sender'[q] = sender[q]
      BY <2>2, SetPcIs
    <3>2. Accounted(sender'[s].pc, executed'[s], lost'[s])
      BY <1>0, <2>1, <2>2, <3>1 DEF Accounted
    <3>3. QED
      BY <1>0, <2>1, <2>2, <3>1, <3>2, OneCallMoves
  <2>3. CASE Failed(s, "Unavailable") /\ lost' = [lost EXCEPT ![s] = @ + 1]
    <3>1. /\ sender' \in [Sender -> Calling] /\ sender'[s].pc \in {"backoff", "failed"}
          /\ \A q \in Sender : q # s => sender'[q] = sender[q]
      BY <2>3, FailedIs
    <3>2. /\ lost' \in [Sender -> Nat] /\ lost'[s] = lost[s] + 1
          /\ \A q \in Sender : q # s => lost'[q] = lost[q]
      BY <1>0, <2>3
    <3>3. Accounted(sender'[s].pc, executed'[s], lost'[s])
      BY <1>0, <2>1, <3>1, <3>2 DEF Accounted
    <3>4. QED
      BY <1>0, <2>1, <3>1, <3>2, <3>3, OneCallMoves
  <2>4. QED
    BY <1>6, <2>2, <2>3 DEF Reply
<1>7. ASSUME NEW s \in Sender, Retry(s) PROVE CallInv'
  <2>1. sender[s].pc = "backoff" /\ UNCHANGED <<recording, executed, lost>>
    BY <1>7 DEF Retry
  <2>2. PICK pc \in {"calling", "failed"} : SetPc(s, pc)
    BY <1>7 DEF Retry
  <2>3. /\ sender' \in [Sender -> Calling] /\ sender'[s].pc = pc
        /\ \A q \in Sender : q # s => sender'[q] = sender[q]
    BY <2>2, SetPcIs
  <2>4. Accounted(sender'[s].pc, executed[s], lost[s])
    BY <1>0, <2>1, <2>2, <2>3 DEF Accounted
  <2>5. s \notin recording
    BY <1>0, <2>1
  <2>6. QED
    BY <1>0, <2>1, <2>3, <2>4, <2>5, OneCallMoves
<1>8. CASE MapRace
  <2>1. /\ recording' = {} /\ executed' = executed
        /\ lost' = [s \in Sender |-> IF s \in recording THEN lost[s] + 1 ELSE lost[s]]
    BY <1>8 DEF MapRace
  <2>2. lost' \in [Sender -> Nat]
    BY <1>0, <2>1
  <2>3. ASSUME NEW s \in Sender
        PROVE  /\ sender'[s] \in Calling /\ (sender'[s].pc # "idle" => Peer # {})
               /\ Accounted(sender'[s].pc, executed'[s], lost'[s])
    <3>1. CASE s \notin recording
      <4>1. sender'[s] = sender[s] /\ lost'[s] = lost[s]
        BY <1>8, <2>1, <3>1 DEF MapRace
      <4>2. QED
        BY <1>0, <2>1, <4>1
    <3>2. CASE s \in recording
      <4>1. PICK old \in Calling : old = sender[s] /\ old.pc = "served"
        BY <1>0, <3>2
      <4>2. PICK k \in Nat : k = old.attempts + 1
        BY <4>1 DEF Calling
      <4>3. PICK pc \in {"backoff", "failed"} :
               pc = IF sender[s].attempts + 1 < MaxAttempts THEN "backoff" ELSE "failed"
        OBVIOUS
      <4>4. sender'[s] = [old EXCEPT !.attempts = k, !.pc = pc]
        BY <1>8, <3>2, <4>1, <4>2, <4>3 DEF MapRace
      <4>5. sender'[s] \in Calling /\ sender'[s].pc = pc
        BY <4>1, <4>2, <4>3, <4>4 DEF Calling
      <4>6. lost'[s] = lost[s] + 1 /\ executed[s] = lost[s] + 1
        BY <1>0, <2>1, <3>2, <4>1 DEF Accounted
      <4>7. QED
        BY <1>0, <2>1, <4>1, <4>3, <4>5, <4>6 DEF Accounted
    <3>3. QED
      BY <3>1, <3>2
  <2>4. sender' \in [Sender -> Calling]
    <3>1. PICK f : sender' = [s \in Sender |-> f[s]]
      <4>1. sender' = [s \in Sender |-> sender'[s]]
        BY <1>8 DEF MapRace
      <4>2. QED
        BY <4>1
    <3>2. QED
      BY <2>3, <3>1
  <2>5. QED
    BY <1>0, <2>1, <2>2, <2>3, <2>4 DEF CallInv
<1>9. ASSUME UNCHANGED callState PROVE CallInv'
  BY <1>9 DEF callState, CallInv
<1>10. QED
  BY <1>1, <1>2, <1>3, <1>4, <1>5, <1>6, <1>7, <1>8, <1>9
     DEF TransportNext, AddPeer, DialSucceeds, DialTimesOut, RemovePeer, ClosePool, SetRule, callState, transportVars

\* For any number of peers and callers the open connections are the ones in the pool,
\* however members join and leave while others dial, and a handler runs again for a call
\* only where a reply of it was lost (ConnectionPool, RetryInterceptor).
THEOREM TransportSafe == TransportSpec => [](OpenIsPooled /\ RepeatedOnlyIfLost)
<1>1. TransportInit => PoolInv /\ CallInv
  <2>1. ASSUME TransportInit PROVE PoolInv
    BY <2>1 DEF TransportInit, PoolInv, OpenIsPooled
  <2>2. ASSUME TransportInit PROVE CallInv
    <3>1. sender \in [Sender -> Calling] /\ \A s \in Sender : sender[s].pc = "idle"
      BY <2>2 DEF TransportInit, Calling
    <3>2. QED
      BY <2>2, <3>1 DEF TransportInit, CallInv, Accounted
  <2>3. QED
    BY <2>1, <2>2
<1>2. (PoolInv /\ CallInv) /\ [TransportNext]_transportVars => (PoolInv /\ CallInv)'
  BY PoolInvNext, CallInvNext
<1>3. PoolInv /\ CallInv => OpenIsPooled /\ RepeatedOnlyIfLost
  <2>1. ASSUME CallInv, NEW s \in Sender
        PROVE  executed[s] <= lost[s] + 1 /\ (sender[s].pc = "done" => executed[s] = lost[s] + 1)
    BY <2>1 DEF CallInv, Accounted, Calling
  <2>2. QED
    BY <2>1 DEF PoolInv, RepeatedOnlyIfLost
<1>4. QED
  BY <1>1, <1>2, <1>3, PTL DEF TransportSpec
=============================================================================
