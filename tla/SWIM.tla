-------------------------------- MODULE SWIM --------------------------------
(***************************************************************************)
(* Cluster membership: pkg/membership (swim.go, memberlist.go, phi_accrual.go)*)
(* over its two transports.                                                 *)
(*                                                                         *)
(* A node probes one member at a time: a ping, then pings through helpers,  *)
(* then it suspects the member and starts a timer that declares it dead.    *)
(* Messages carry the updates at the head of the sender's queue.  A sequence*)
(* number only says whether the sender still waits for the answer, so a     *)
(* message has a tag for who waits, and loses it when the wait is over.     *)
(*                                                                         *)
(* Time is left out: timeouts and phi transitions may happen whenever they  *)
(* are possible at all.  Nothing in the code makes a member leave, and no   *)
(* callback of the member list changes the state of SWIM.                   *)
(***************************************************************************)
EXTENDS Integers, Sequences, FiniteSets

CONSTANTS
    Node,
    Seeds,               \* the seed list of each node
    Transport,           \* "mem" or "grpc"
    IndirectPingCount,
    GossipFanout,        \* updates in a message
    QueueCap,            \* length of recentUpdates
    Nobody,              \* no probe target
    MaxSilences,         \* bound: times phi rises above the threshold
    Mortal,              \* bound: the nodes that may stop for good
    Watcher,             \* bound: the nodes whose loops run; the others join and answer
    MaxMsgs              \* bound: messages in flight; a further one is dropped

ASSUME SWIMAssumption ==
    /\ IsFiniteSet(Node) /\ Nobody \notin Node
    /\ Seeds \in [Node -> Seq(Node)]
    /\ Transport \in {"mem", "grpc"}
    /\ IndirectPingCount \in Nat /\ GossipFanout \in Nat /\ QueueCap \in Nat \ {0}
    /\ Mortal \subseteq Node /\ Watcher \subseteq Node /\ MaxMsgs \in Nat /\ MaxSilences \in Nat

VARIABLES
    up,             \* the nodes that run
    members,        \* MemberList.members: each node's record of each node
    recentUpdates,  \* MemberList.recentUpdates
    timers,         \* SWIM.suspicionTimers
    phi,            \* PhiAccrualDetector: "none" never heard, "low" or "high" suspicion
    probe,          \* where the protocol loop is
    join,           \* JoinCluster: the seeds left to try, and whether one is being pinged
    msgs,
    silences        \* times phi has risen so far

listVars == <<members, recentUpdates>>
vars == <<up, listVars, timers, phi, probe, join, msgs, silences>>

State == {"alive", "suspected", "dead"}

Member == [state : State, inc : Nat]

\* No record of a node.
Unknown == [state |-> "none", inc |-> 0]

Update == [node : Node, state : State, inc : Nat]

Idle == [stage |-> "idle", target |-> Nobody, waiting |-> {}]

-----------------------------------------------------------------------------
(* The member list: a view is a node's records and its queue of updates. *)

View(n) == [members |-> members[n], queue |-> recentUpdates[n]]

Priority(s) == CASE s = "alive" -> 0 [] s = "suspected" -> 1 [] s = "dead" -> 2

Supersedes(a, b) ==
    \/ a.inc > b.inc
    \/ a.inc = b.inc /\ Priority(a.state) > Priority(b.state)

\* Mutant: the queue is never cut.
QueueUpdateMutant(q, u) == Append(q, u)

\* A full queue loses its oldest update.
QueueUpdate(q, u) == IF Len(q) = QueueCap THEN Append(Tail(q), u) ELSE Append(q, u)

\* Mutant: the last update heard wins.
ApplyUpdateMutant(v, u) ==
    LET old == v.members[u.node]
        new == [state |-> u.state, inc |-> u.inc]
    IN  IF old = new THEN v
        ELSE [members |-> [v.members EXCEPT ![u.node] = new],
              queue   |-> QueueUpdate(v.queue, u)]

\* A first record, or one that supersedes the old; it is queued for gossip when
\* the state is another.
ApplyUpdate(v, u) ==
    LET old == v.members[u.node]
        new == [state |-> u.state, inc |-> u.inc]
    IN  IF old = Unknown \/ Supersedes(new, old)
        THEN [members |-> [v.members EXCEPT ![u.node] = new],
              queue   |-> IF old.state # new.state THEN QueueUpdate(v.queue, u) ELSE v.queue]
        ELSE v

\* The record is changed first, so the ApplyUpdate that follows finds nothing to
\* supersede and queues nothing.
SuspectMember(v, m) ==
    IF v.members[m].state = "alive" THEN [v EXCEPT !.members[m].state = "suspected"] ELSE v

\* A node refutes when its own record says suspected.
RefuteSuspicion(v, n) ==
    IF v.members[n].state = "suspected"
    THEN [v EXCEPT !.members[n] = [state |-> "alive", inc |-> @.inc + 1]]
    ELSE v

\* handleMessage: the piggybacked updates, one after the other.
Gossip(n, v, updates) ==
    LET Taken(w, u) == IF u.node = n THEN RefuteSuspicion(w, n) ELSE ApplyUpdate(w, u)
        after[k \in 0 .. Len(updates)] == IF k = 0 THEN v ELSE Taken(after[k - 1], updates[k])
    IN  after[Len(updates)]

\* The oldest of the queue.
RecentUpdates(v) ==
    SubSeq(v.queue, 1, IF Len(v.queue) < GossipFanout THEN Len(v.queue) ELSE GossipFanout)

Alive(m) == [node |-> m, state |-> "alive", inc |-> 0]

Suspected(m) == [node |-> m, state |-> "suspected", inc |-> 0]

\* A heartbeat brings phi down; OnAlive then reports the node alive.
Heartbeat(n, v, m) == IF phi[n][m] = "high" THEN ApplyUpdate(v, Alive(m)) ELSE v

SetView(n, v) ==
    /\ members' = [members EXCEPT ![n] = v.members]
    /\ recentUpdates' = [recentUpdates EXCEPT ![n] = v.queue]

\* Only a watcher's detector can ever raise phi again.
SetPhi(n, m) == phi' = IF n \in Watcher THEN [phi EXCEPT ![n][m] = "low"] ELSE phi

-----------------------------------------------------------------------------
(* Messages *)

Ping(n, m, tag, v) ==
    [type |-> "Ping", from |-> n, to |-> m, target |-> m, tag |-> tag,
     updates |-> RecentUpdates(v)]

PingAck(n, m, updates) ==
    [type |-> "PingAck", from |-> n, to |-> m.from, target |-> n, tag |-> m.tag,
     updates |-> updates]

\* A PingReqRequest has no room for updates.
PingReq(n, h, m, v) ==
    [type |-> "PingReq", from |-> n, to |-> h, target |-> m, tag |-> "probe",
     updates |-> IF Transport = "grpc" THEN <<>> ELSE RecentUpdates(v)]

PingReqAck(n, m, updates) ==
    [type |-> "PingReqAck", from |-> n, to |-> m.from, target |-> m.target, tag |-> m.tag,
     updates |-> updates]

\* The network after sending ms: what a stopped node or a full buffer cannot take
\* is dropped.
Sent(base, ms) ==
    LET all == base \cup {m \in ms : m.to \in up}
    IN  IF Cardinality(all) <= MaxMsgs THEN all ELSE base

\* n waits no longer for the answers it asked for under tag.  In memory they still
\* arrive; over gRPC a call that is given up has no answer.
Closed(base, n, tag) ==
    LET Request(m) == m.tag = tag /\ m.from = n /\ m.type \in {"Ping", "PingReq"}
        Answer(m)  == m.tag = tag /\ m.to = n /\ m.type \in {"PingAck", "PingReqAck"}
        Untag(m)   == [m EXCEPT !.tag = "none"]
    IN  {m \in base : ~Request(m) /\ ~Answer(m)}
        \cup {Untag(m) : m \in {r \in base : Request(r)}}
        \cup (IF Transport = "mem" THEN {Untag(m) : m \in {r \in base : Answer(r)}} ELSE {})

\* An answer, unless the call it belongs to was given up.
Answered(base, m, ms) ==
    IF Transport = "grpc" /\ m.tag = "none" THEN base ELSE Sent(base, ms)

-----------------------------------------------------------------------------
Init ==
    /\ up = Node
    /\ members = [n \in Node |-> [m \in Node |->
                    IF m = n THEN [state |-> "alive", inc |-> 1] ELSE Unknown]]
    /\ recentUpdates = [n \in Node |-> <<>>]
    /\ timers = [n \in Node |-> {}]
    /\ phi = [n \in Node |-> [m \in Node |-> "none"]]
    /\ probe = [n \in Node |-> Idle]
    /\ join = [n \in Node |-> [left |-> Seeds[n], pinging |-> FALSE]]
    /\ msgs = {}
    /\ silences = 0

-----------------------------------------------------------------------------
(* Joining *)

JoinSeed(n) ==
    LET seed == Head(join[n].left)
        v    == ApplyUpdate(View(n), Alive(seed))
    IN  /\ n \in up
        /\ join[n].left # <<>> /\ ~join[n].pinging
        /\ SetView(n, v)
        /\ join' = [join EXCEPT ![n].pinging = TRUE]
        /\ msgs' = Sent(msgs, {Ping(n, seed, "join", v)})
        /\ UNCHANGED <<up, timers, phi, probe, silences>>

JoinTimeout(n) ==
    /\ n \in up
    /\ join[n].pinging
    /\ join' = [join EXCEPT ![n] = [left |-> Tail(@.left), pinging |-> FALSE]]
    /\ msgs' = Closed(msgs, n, "join")
    /\ UNCHANGED <<up, listVars, timers, phi, probe, silences>>

-----------------------------------------------------------------------------
(* Probing *)

Probe(n, m) ==
    /\ n \in up \cap Watcher
    /\ probe[n] = Idle
    /\ m # n /\ members[n][m].state = "alive"
    /\ probe' = [probe EXCEPT ![n] = [stage |-> "direct", target |-> m, waiting |-> {}]]
    /\ msgs' = Sent(msgs, {Ping(n, m, "probe", View(n))})
    /\ UNCHANGED <<up, listVars, timers, phi, join, silences>>

\* The timer is started even when the node is not, or no longer, known as alive.
SuspectNode(n, v, m) ==
    /\ SetView(n, SuspectMember(v, m))
    /\ timers' = [timers EXCEPT ![n] = @ \cup {m}]

Helpers(n, m) == {h \in Node \ {n, m} : members[n][h].state = "alive"}

\* No answer, or the ping could not even be sent: indirectProbe.
PingTimeout(n) ==
    LET m == probe[n].target IN
    /\ n \in up
    /\ probe[n].stage = "direct"
    /\ \/ /\ Helpers(n, m) = {}
          /\ SuspectNode(n, View(n), m)
          /\ probe' = [probe EXCEPT ![n] = Idle]
          /\ msgs' = Closed(msgs, n, "probe")
       \/ \E hs \in SUBSET Helpers(n, m) :
            /\ hs # {}
            /\ \/ Cardinality(hs) = IndirectPingCount
               \/ hs = Helpers(n, m) /\ Cardinality(hs) < IndirectPingCount
            /\ probe' = [probe EXCEPT ![n] = [stage |-> "indirect", target |-> m, waiting |-> hs]]
            /\ msgs' = Sent(Closed(msgs, n, "probe"), {PingReq(n, h, m, View(n)) : h \in hs})
            /\ UNCHANGED <<listVars, timers>>
    /\ UNCHANGED <<up, phi, join, silences>>

\* Mutant: silent helpers decide nothing.
IndirectTimeoutMutant(n) ==
    /\ n \in up
    /\ probe[n].stage = "indirect"
    /\ probe' = [probe EXCEPT ![n] = Idle]
    /\ msgs' = Closed(msgs, n, "probe")
    /\ UNCHANGED <<up, listVars, timers, phi, join, silences>>

IndirectTimeout(n) ==
    /\ n \in up
    /\ probe[n].stage = "indirect"
    /\ SuspectNode(n, View(n), probe[n].target)
    /\ probe' = [probe EXCEPT ![n] = Idle]
    /\ msgs' = Closed(msgs, n, "probe")
    /\ UNCHANGED <<up, phi, join, silences>>

-----------------------------------------------------------------------------
(* The receive loop: the gossip of a message first, then its handler. *)

\* Over gRPC the service handler takes the updates of the answer while the receive
\* loop applies those of the ping.
HandlePing(n, m) ==
    LET v == Heartbeat(n, Gossip(n, View(n), m.updates), m.from) IN
    /\ n \in up /\ m.to = n /\ m.type = "Ping"
    /\ SetView(n, v)
    /\ SetPhi(n, m.from)
    /\ \E w \in {v} \cup (IF Transport = "grpc" THEN {View(n)} ELSE {}) :
         msgs' = Answered(msgs \ {m}, m, {PingAck(n, m, RecentUpdates(w))})
    /\ UNCHANGED <<up, timers, probe, join, silences>>

HandlePingAck(n, m) ==
    /\ n \in up /\ m.to = n /\ m.type = "PingAck"
    /\ SetView(n, Heartbeat(n, Gossip(n, View(n), m.updates), m.from))
    /\ SetPhi(n, m.from)
    /\ probe' = IF m.tag = "probe" THEN [probe EXCEPT ![n] = Idle] ELSE probe
    /\ join' = IF m.tag = "join" THEN [join EXCEPT ![n] = [left |-> <<>>, pinging |-> FALSE]]
               ELSE join
    /\ msgs' = msgs \ {m}
    /\ UNCHANGED <<up, timers, silences>>

\* The helper pings the target.  In memory its receive loop waits for an answer that
\* only the receive loop could take, and so reports the target suspected.  Over gRPC
\* the service handler pings as well, and its answer says in a field that the client
\* does not read whether the target was reached.
HandlePingReq(n, m) ==
    LET v    == Gossip(n, View(n), m.updates)
        ping == Ping(n, m.target, "help", v)
    IN  /\ n \in up /\ m.to = n /\ m.type = "PingReq"
        /\ SetView(n, v)
        /\ msgs' = IF Transport = "grpc"
                   THEN Answered(Sent(msgs \ {m}, {ping, [ping EXCEPT !.updates = <<>>]}), m,
                                 {PingReqAck(n, m, RecentUpdates(v))})
                   ELSE Sent(msgs \ {m},
                             {ping, PingReqAck(n, m, Append(RecentUpdates(v), Suspected(m.target)))})
        /\ UNCHANGED <<up, timers, phi, probe, join, silences>>

\* A suspicion of the target among the updates is how a helper says no.
Reached(m) == \A i \in DOMAIN m.updates :
                ~(m.updates[i].node = m.target /\ m.updates[i].state = "suspected")

\* The first helper that reached the target settles it, the last that did not too.
HandlePingReqAck(n, m) ==
    LET v    == Gossip(n, View(n), m.updates)
        left == probe[n].waiting \ {m.from}
    IN  /\ n \in up /\ m.to = n /\ m.type = "PingReqAck"
        /\ \/ /\ m.tag = "none"
              /\ SetView(n, v)
              /\ msgs' = msgs \ {m}
              /\ UNCHANGED <<timers, phi, probe>>
           \/ /\ m.tag = "probe" /\ Reached(m)
              /\ SetView(n, Heartbeat(n, v, m.target))
              /\ SetPhi(n, m.target)
              /\ probe' = [probe EXCEPT ![n] = Idle]
              /\ msgs' = Closed(msgs \ {m}, n, "probe")
              /\ UNCHANGED timers
           \/ /\ m.tag = "probe" /\ ~Reached(m) /\ left # {}
              /\ SetView(n, v)
              /\ probe' = [probe EXCEPT ![n].waiting = left]
              /\ msgs' = msgs \ {m}
              /\ UNCHANGED <<timers, phi>>
           \/ /\ m.tag = "probe" /\ ~Reached(m) /\ left = {}
              /\ SuspectNode(n, v, m.target)
              /\ probe' = [probe EXCEPT ![n] = Idle]
              /\ msgs' = Closed(msgs \ {m}, n, "probe")
              /\ UNCHANGED phi
        /\ UNCHANGED <<up, join, silences>>

-----------------------------------------------------------------------------
(* The failure detector, the suspicion timers and the collection of the dead *)

\* Time without a heartbeat raises phi above the threshold.
Silence(n, m) ==
    /\ n \in up \cap Watcher
    /\ phi[n][m] = "low"
    /\ silences < MaxSilences /\ silences' = silences + 1
    /\ phi' = [phi EXCEPT ![n][m] = "high"]
    /\ UNCHANGED <<up, listVars, timers, probe, join, msgs>>

PhiCheck(n, m) ==
    /\ n \in up
    /\ phi[n][m] = "high"
    /\ SuspectNode(n, View(n), m)
    /\ UNCHANGED <<up, phi, probe, join, msgs, silences>>

Declared(n, m) == members' = [members EXCEPT ![n][m].state = "dead"]

\* Mutant: the timer does not look whether its node is still suspected.
TimerFiresMutant(n, m) ==
    /\ n \in up
    /\ m \in timers[n]
    /\ timers' = [timers EXCEPT ![n] = @ \ {m}]
    /\ IF members[n][m] # Unknown THEN Declared(n, m) ELSE UNCHANGED members
    /\ UNCHANGED <<up, recentUpdates, phi, probe, join, msgs, silences>>

\* The timer's function looks at the record and calls ConfirmDead; in between the
\* record can only become dead.  As for suspicion, nothing is queued.
TimerFires(n, m) ==
    /\ n \in up
    /\ m \in timers[n]
    /\ timers' = [timers EXCEPT ![n] = @ \ {m}]
    /\ IF members[n][m].state = "suspected" THEN Declared(n, m) ELSE UNCHANGED members
    /\ UNCHANGED <<up, recentUpdates, phi, probe, join, msgs, silences>>

\* A record is collected minutes after its last update.
GC(n, m) ==
    /\ n \in up
    /\ m # n /\ members[n][m].state = "dead"
    /\ members' = [members EXCEPT ![n][m] = Unknown]
    /\ UNCHANGED <<up, recentUpdates, timers, phi, probe, join, msgs, silences>>

-----------------------------------------------------------------------------
(* Failures *)

\* A process stops for good; what was sent to it is lost.
Crash(n) ==
    /\ n \in up \cap Mortal
    /\ up' = up \ {n}
    /\ SetView(n, [members |-> [m \in Node |-> Unknown], queue |-> <<>>])
    /\ timers' = [timers EXCEPT ![n] = {}]
    /\ phi' = [phi EXCEPT ![n] = [m \in Node |-> "none"]]
    /\ probe' = [probe EXCEPT ![n] = Idle]
    /\ join' = [join EXCEPT ![n] = [left |-> <<>>, pinging |-> FALSE]]
    /\ msgs' = {m \in msgs : m.to # n}
    /\ UNCHANGED silences

Lose(m) ==
    /\ msgs' = msgs \ {m}
    /\ UNCHANGED <<up, listVars, timers, phi, probe, join, silences>>

-----------------------------------------------------------------------------
Next ==
    \/ \E n \in Node : JoinSeed(n) \/ JoinTimeout(n) \/ PingTimeout(n)
                         \/ IndirectTimeout(n) \/ Crash(n)
    \/ \E n, m \in Node : Probe(n, m) \/ Silence(n, m) \/ PhiCheck(n, m)
                            \/ TimerFires(n, m) \/ GC(n, m)
    \/ \E m \in msgs : HandlePing(m.to, m) \/ HandlePingAck(m.to, m)
                         \/ HandlePingReq(m.to, m) \/ HandlePingReqAck(m.to, m) \/ Lose(m)

Spec == Init /\ [][Next]_vars

\* The protocol loop of a watcher ticks forever and each probe ends within its
\* timeouts; a member that stays eligible is picked at random again and again.
FairSpec ==
    /\ Spec
    /\ \A n \in Watcher :
         /\ WF_vars(PingTimeout(n)) /\ WF_vars(IndirectTimeout(n))
         /\ \A m \in Mortal \ {n} : SF_vars(Probe(n, m))

-----------------------------------------------------------------------------
(* Properties *)

\* Every variable stays in its domain, and a probe is in one of its three stages.
TypeOK ==
    /\ up \subseteq Node
    /\ \A n, m \in Node :
         /\ members[n][m] = Unknown \/ members[n][m] \in Member
         /\ phi[n][m] \in {"none", "low", "high"}
    /\ \A n \in Node :
         /\ recentUpdates[n] \in Seq(Update) /\ Len(recentUpdates[n]) <= QueueCap
         /\ timers[n] \subseteq Node
         /\ probe[n].stage \in {"idle", "direct", "indirect"}
         /\ (probe[n].stage = "idle") <=> (probe[n] = Idle)

\* No node goes back on what it knows of another: until the record is collected, a
\* step keeps a record (members, ApplyUpdate, SuspectNode, ConfirmDead), gives it a
\* higher incarnation, or makes its state more severe.
ViewsOnlyWorsen ==
    [][\A n \in up', m \in Node :
         \/ members'[n][m] = members[n][m]
         \/ members[n][m] = Unknown
         \/ members[n][m].state = "dead" /\ members'[n][m] = Unknown
         \/ members'[n][m] # Unknown /\ Supersedes(members'[n][m], members[n][m])]_vars

\* A node never declares dead a member it holds for alive, whatever suspicion timer
\* is still running from before the member was forgotten and came back.
DeadOnlyAfterSuspicion ==
    [][\A n, m \in Node :
         members'[n][m].state = "dead" => members[n][m].state \in {"suspected", "dead"}]_vars

\* A node that stops does not stay alive in the view of a node that keeps probing:
\* suspicion follows a ping and indirect pings without an answer.
DeadNoticed ==
    \A n \in Watcher, m \in Mortal :
        m \notin up ~> n \notin up \/ members[n][m].state # "alive"
=============================================================================
