-------------------------------- MODULE Raft --------------------------------
(***************************************************************************)
(* The Raft group of Hermes: pkg/raft (raft.go, log.go, state.go) run by    *)
(* the single goroutine of pkg/raft/node.go, over either of its transports. *)
(*                                                                         *)
(* RaftNode.run alternates "take the Ready and process it" with "take one   *)
(* tick, proposal or message and step it", so one action here is one input  *)
(* together with the processing of the Ready it produces: the messages are  *)
(* handed to the transport and the newly committed entries are applied.     *)
(*                                                                         *)
(* Ticks are abstracted: an election timeout may fire at any moment on a    *)
(* follower or a candidate, a heartbeat at any moment on a leader.          *)
(* Nothing in the repository sends MsgPreVote, MsgSnapshot, MsgTimeoutNow   *)
(* or MsgReadIndex to a RaftNode, so their cases have no action, and the    *)
(* log never has a snapshot prefix.                                         *)
(***************************************************************************)
EXTENDS Integers, Sequences, FiniteSets

CONSTANTS
    Server,            \* node identifiers
    Peers,             \* Config.Peers of every node
    Value,             \* client commands; each is proposed at most once
    Noop,              \* the entry a new leader appends
    Nil,               \* the empty node name
    MaxEntriesToSend,  \* Config.MaxEntriesToSend
    Transport,         \* "mem" (raft.MemTransport) or "grpc" (hermesRaftTransport)
    MaxTerm,           \* bound: no election beyond this term
    MaxMsgs,           \* bound: messages in flight
    MaxRestarts        \* bound: process restarts

ASSUME ServerAssumption == IsFiniteSet(Server) /\ Nil \notin Server
ASSUME PeersAssumption == Peers \in [Server -> SUBSET Server]
                          /\ \A n \in Server : n \notin Peers[n]
ASSUME ValueAssumption == Noop \notin Value
ASSUME TransportAssumption == Transport \in {"mem", "grpc"}
ASSUME BoundAssumption == /\ MaxEntriesToSend \in Nat
                          /\ MaxTerm \in Nat
                          /\ MaxMsgs \in Nat
                          /\ MaxRestarts \in Nat

VARIABLES
    term, vote, state, lead,          \* Raft.term, .vote, .state, .lead
    votes,                            \* peers whose vote this candidate holds
    log, committed,                   \* RaftLog.entries (sentinel dropped), .committed
    applied,                          \* entries handed to the state machine, in order
    nextIndex, matchIndex, pstate,    \* Progress of every group member, set up by
                                      \* becomeLeader and used by a leader only
    msgs,                             \* messages in flight
    restarts,                         \* restarts so far
    acked,                            \* values whose Propose returned nil
    ballots, elected, chosen          \* history: votes cast, elections won, entries
                                      \* a leader found committed by counting

serverVars == <<term, vote, state, lead>>
logVars    == <<log, committed, applied>>
leaderVars == <<nextIndex, matchIndex, pstate>>
history    == <<ballots, elected, chosen>>
vars == <<serverVars, votes, logVars, leaderVars, msgs, restarts, acked, history>>

Entry  == [index : Nat, term : Nat, cmd : Value \cup {Noop}]
Ballot == [voter : Server, term : Nat, cand : Server]
Win    == [term : Nat, node : Server]

-----------------------------------------------------------------------------
(* RaftLog *)

LastIndex(l) == Len(l)

Term(l, i) == IF i \in 1..Len(l) THEN l[i].term ELSE 0

LastTerm(l) == Term(l, LastIndex(l))

MinOf(a, b) == IF a <= b THEN a ELSE b

MaxOf(a, b) == IF a >= b THEN a ELSE b

\* entries[lo:hi), clipped to the log
Entries(l, lo, hi) == SubSeq(l, lo, MinOf(hi - 1, LastIndex(l)))

\* Mutant: keeps its own conflicting entries and adds what lies beyond them.
AppendEntriesMutant(l, entries) ==
    LET fresh == {i \in 1..Len(entries) : entries[i].index > LastIndex(l)}
    IN  IF fresh = {} THEN l
        ELSE LET i == CHOOSE i \in fresh : \A j \in fresh : i <= j
             IN  l \o SubSeq(entries, i, Len(entries))

\* The first entry that is beyond the log or whose term differs cuts the log;
\* it and its successors are appended.  Entries already present change nothing.
AppendEntries(l, entries) ==
    LET fresh == {i \in 1..Len(entries) :
                    \/ entries[i].index > LastIndex(l)
                    \/ Term(l, entries[i].index) # entries[i].term}
    IN  IF fresh = {}
        THEN l
        ELSE LET i == CHOOSE i \in fresh : \A j \in fresh : i <= j
             IN  SubSeq(l, 1, MinOf(entries[i].index - 1, LastIndex(l)))
                   \o SubSeq(entries, i, Len(entries))

AppendOne(l, t, cmd) ==
    Append(l, [index |-> LastIndex(l) + 1, term |-> t, cmd |-> cmd])

CommitTo(l, old, new) == MaxOf(old, MinOf(new, LastIndex(l)))

IsUpToDate(l, lastIndex, lastTerm) ==
    \/ lastTerm > LastTerm(l)
    \/ lastTerm = LastTerm(l) /\ lastIndex >= LastIndex(l)

\* The nodes whose progress n keeps as a leader.
Group(n) == Peers[n] \cup {n}

\* Mutants: the count is off by one entry, either way.
CommitCountEarly(n, match, i) == 1 + Cardinality({p \in Group(n) : match[p] + 1 >= i})

CommitCountLate(n, match, i) == 1 + Cardinality({p \in Group(n) : match[p] > i})

\* The group includes the node itself; the count starts at 1 all the same.
CommitCount(n, match, i) == 1 + Cardinality({p \in Group(n) : match[p] >= i})

\* Mutant: half of the group is taken for a majority.
CommitMajorityMutant(n) == (Cardinality(Group(n)) + 1) \div 2

CommitMajority(n) == (Cardinality(Group(n)) + 1) \div 2 + 1

MaybeCommit(n, l, match, old, t) ==
    LET ready == {i \in (old + 1)..LastIndex(l) :
                    /\ CommitCount(n, match, i) >= CommitMajority(n)
                    /\ Term(l, i) = t}
    IN  IF ready = {} THEN old ELSE CHOOSE i \in ready : \A j \in ready : j <= i

\* The entries up to c, when the count moved the commit index there from old.
NewlyChosen(l, old, c) == IF c > old THEN {l[i] : i \in 1..c} ELSE {}

-----------------------------------------------------------------------------
(* Messages and the two transports *)

VoteMsg(n, p, t, l) ==
    [type |-> "Vote", from |-> n, to |-> p, term |-> t,
     lastIndex |-> LastIndex(l), lastTerm |-> LastTerm(l)]

VoteRspMsg(n, p, t, granted) ==
    [type |-> "VoteRsp", from |-> n, to |-> p, term |-> t, granted |-> granted]

HeartbeatMsg(n, p, t, c) ==
    [type |-> "Heartbeat", from |-> n, to |-> p, term |-> t, commit |-> c]

HeartbeatRspMsg(n, p, t) ==
    [type |-> "HeartbeatRsp", from |-> n, to |-> p, term |-> t]

\* Mutant: the entry before the previous one is named.
AppendMsgMutant(n, p, t, next, l, c) ==
    [type |-> "Append", from |-> n, to |-> p, term |-> t,
     prevIndex |-> next - 2, prevTerm |-> Term(l, next - 2),
     entries |-> Entries(l, next, next + MaxEntriesToSend), commit |-> c]

AppendMsg(n, p, t, next, l, c) ==
    [type |-> "Append", from |-> n, to |-> p, term |-> t,
     prevIndex |-> next - 1, prevTerm |-> Term(l, next - 1),
     entries |-> Entries(l, next, next + MaxEntriesToSend), commit |-> c]

AppendRspMsg(n, p, t, index, reject, conflict) ==
    [type |-> "AppendRsp", from |-> n, to |-> p, term |-> t,
     index |-> index, reject |-> reject, conflict |-> conflict]

ProposeMsg(n, p, t, v) ==
    [type |-> "Propose", from |-> n, to |-> p, term |-> t, cmd |-> v]

\* What reaches the peer when Raft sends m.  The in-memory transport delivers
\* the message; the gRPC one maps it to one of two RPCs, which have no room for
\* some fields, and has no RPC for the rest.  Answers of one node to one peer
\* share a slot of the pending map, so an answer can be delivered as the answer
\* to the other RPC; the receiver then ignores it, as if it were lost.
OnWire(m) ==
    IF Transport = "mem" THEN {m}
    ELSE CASE m.type = "Heartbeat" -> {AppendMsg(m.from, m.to, m.term, 1, <<>>, m.commit)}
           [] m.type = "Vote"      -> {VoteMsg(m.from, m.to, m.term, <<>>)}
           [] m.type = "AppendRsp" -> {AppendRspMsg(m.from, m.to, m.term, 0, FALSE, m.conflict)}
           [] m.type \in {"Append", "VoteRsp"} -> {m}
           [] m.type \in {"HeartbeatRsp", "Propose"} -> {}

\* The network after m is taken from it and out is sent.  Identical messages in
\* flight coincide, which is the loss of one of them.
Exchange(taken, out) ==
    /\ msgs' = (msgs \ taken) \cup UNION {OnWire(m) : m \in out}
    /\ Cardinality(msgs') <= MaxMsgs

-----------------------------------------------------------------------------
Init ==
    /\ term = [n \in Server |-> 0]
    /\ vote = [n \in Server |-> Nil]
    /\ state = [n \in Server |-> "Follower"]
    /\ lead = [n \in Server |-> Nil]
    /\ votes = [n \in Server |-> {}]
    /\ log = [n \in Server |-> <<>>]
    /\ committed = [n \in Server |-> 0]
    /\ applied = [n \in Server |-> <<>>]
    /\ nextIndex = [n \in Server |-> [p \in Server |-> 1]]
    /\ matchIndex = [n \in Server |-> [p \in Server |-> 0]]
    /\ pstate = [n \in Server |-> [p \in Server |-> "Probe"]]
    /\ msgs = {}
    /\ restarts = 0
    /\ acked = {}
    /\ ballots = {}
    /\ elected = {}
    /\ chosen = {}

-----------------------------------------------------------------------------
(* Elections *)

HasQuorum(n, granted) == Cardinality(granted) * 2 > 1 + Cardinality(Peers[n])

\* The leader's own progress keeps the index before the no-op until the next
\* proposal.  The no-op itself is first sent in answer to a heartbeat response.
BecomeLeader(n, t) ==
    LET last == LastIndex(log[n]) IN
    /\ state' = [state EXCEPT ![n] = "Leader"]
    /\ lead' = [lead EXCEPT ![n] = n]
    /\ nextIndex' = [nextIndex EXCEPT ![n] = [p \in Server |-> last + 1]]
    /\ matchIndex' = [matchIndex EXCEPT ![n] =
                        [p \in Server |-> IF p = n THEN last ELSE 0]]
    /\ pstate' = [pstate EXCEPT ![n] =
                    [p \in Server |-> IF p = n THEN "Replicate" ELSE "Probe"]]
    /\ log' = [log EXCEPT ![n] = AppendOne(@, t, Noop)]
    /\ elected' = elected \cup {[term |-> t, node |-> n]}

\* tickElection fires: campaign.  A node without peers wins on the spot.
Timeout(n) ==
    /\ state[n] # "Leader"
    /\ term[n] < MaxTerm
    /\ term' = [term EXCEPT ![n] = @ + 1]
    /\ vote' = [vote EXCEPT ![n] = n]
    /\ votes' = [votes EXCEPT ![n] = {n}]
    /\ ballots' = ballots \cup {[voter |-> n, term |-> term[n] + 1, cand |-> n]}
    /\ \/ /\ Peers[n] = {}
          /\ BecomeLeader(n, term[n] + 1)
          /\ UNCHANGED msgs
       \/ /\ Peers[n] # {}
          /\ state' = [state EXCEPT ![n] = "Candidate"]
          /\ lead' = [lead EXCEPT ![n] = Nil]
          /\ Exchange({}, {VoteMsg(n, p, term[n] + 1, log[n]) : p \in Peers[n]})
          /\ UNCHANGED <<log, leaderVars, elected>>
    /\ UNCHANGED <<committed, applied, restarts, acked, chosen>>

\* Mutant: an earlier vote in the same term is forgotten.
CanVoteMutant(n, cand) == lead[n] = Nil \/ vote[n] = cand

\* A node may vote if it has neither voted nor heard of a leader, or if its last
\* vote went to this same candidate.  Neither is forgotten when the request
\* carries a higher term.
CanVote(n, cand) == (vote[n] = Nil /\ lead[n] = Nil) \/ vote[n] = cand

GrantVote(n, m) ==
    /\ m.type = "Vote" /\ m.to = n /\ m.term >= term[n]
    /\ CanVote(n, m.from)
    /\ IsUpToDate(log[n], m.lastIndex, m.lastTerm)
    /\ vote' = [vote EXCEPT ![n] = m.from]
    /\ term' = [term EXCEPT ![n] = m.term]
    /\ ballots' = ballots \cup {[voter |-> n, term |-> m.term, cand |-> m.from]}
    /\ Exchange({m}, {VoteRspMsg(n, m.from, m.term, TRUE)})
    /\ UNCHANGED <<state, lead, votes, logVars, leaderVars, restarts, acked, elected, chosen>>

RejectVote(n, m) ==
    /\ m.type = "Vote" /\ m.to = n /\ m.term >= term[n]
    /\ ~(CanVote(n, m.from) /\ IsUpToDate(log[n], m.lastIndex, m.lastTerm))
    /\ Exchange({m}, {VoteRspMsg(n, m.from, term[n], FALSE)})
    /\ UNCHANGED <<serverVars, votes, logVars, leaderVars, restarts, acked, history>>

HandleVoteGranted(n, m) ==
    /\ m.type = "VoteRsp" /\ m.to = n /\ m.term = term[n] /\ m.granted
    /\ state[n] = "Candidate"
    /\ LET granted == votes[n] \cup {m.from} IN
       /\ votes' = [votes EXCEPT ![n] = granted]
       /\ IF HasQuorum(n, granted)
          THEN /\ BecomeLeader(n, term[n])
               /\ Exchange({m}, {HeartbeatMsg(n, p, term[n], committed[n]) : p \in Peers[n]})
          ELSE /\ Exchange({m}, {})
               /\ UNCHANGED <<state, lead, log, leaderVars, elected>>
    /\ UNCHANGED <<term, vote, committed, applied, restarts, acked, ballots, chosen>>

HandleVoteDenied(n, m) ==
    /\ m.type = "VoteRsp" /\ m.to = n /\ m.term = term[n] /\ ~m.granted
    /\ state[n] = "Candidate"
    /\ votes' = [votes EXCEPT ![n] = @ \ {m.from}]
    /\ Exchange({m}, {})
    /\ UNCHANGED <<serverVars, logVars, leaderVars, restarts, acked, history>>

-----------------------------------------------------------------------------
(* Replication: leader to follower *)

\* A heartbeat or an append of the node's term or a later one makes the node a
\* follower of the sender; only a leader of the same term takes no notice.
FollowSender(n, m) ==
    /\ m.to = n /\ m.term >= term[n]
    /\ ~(state[n] = "Leader" /\ m.term = term[n])
    /\ term' = [term EXCEPT ![n] = m.term]
    /\ vote' = [vote EXCEPT ![n] = IF m.term > term[n] THEN Nil ELSE @]
    /\ state' = [state EXCEPT ![n] = "Follower"]
    /\ lead' = [lead EXCEPT ![n] = m.from]

\* The log becomes l, the commit index c, and what is newly committed is applied.
Ready(n, l, c) ==
    /\ log' = [log EXCEPT ![n] = l]
    /\ committed' = [committed EXCEPT ![n] = c]
    /\ applied' = [applied EXCEPT ![n] = @ \o Entries(l, Len(@) + 1, c + 1)]

HeartbeatTimeout(n) ==
    /\ state[n] = "Leader"
    /\ Exchange({}, {HeartbeatMsg(n, p, term[n], committed[n]) : p \in Peers[n]})
    /\ UNCHANGED <<serverVars, votes, logVars, leaderVars, restarts, acked, history>>

HandleHeartbeat(n, m) ==
    /\ m.type = "Heartbeat"
    /\ FollowSender(n, m)
    /\ Ready(n, log[n], CommitTo(log[n], committed[n], m.commit))
    /\ Exchange({m}, {HeartbeatRspMsg(n, m.from, m.term)})
    /\ UNCHANGED <<votes, leaderVars, restarts, acked, history>>

LogConsistencyCheck(l, prevIndex, prevTerm) ==
    prevIndex = 0 \/ Term(l, prevIndex) = prevTerm

\* The first index of the run of entries that have the rejected entry's term.
FindConflict(l, rejected) ==
    IF Term(l, rejected) = 0
    THEN LastIndex(l)
    ELSE CHOOSE i \in 1..rejected :
            /\ \A j \in i..rejected : Term(l, j) = Term(l, rejected)
            /\ Term(l, i - 1) # Term(l, rejected)

\* Mutant: the early return for what is already committed is missing.
BehindCommitMutant(n, m) == FALSE

BehindCommit(n, m) == m.prevIndex < committed[n]

HandleAppendBehindCommit(n, m) ==
    /\ m.type = "Append"
    /\ FollowSender(n, m)
    /\ BehindCommit(n, m)
    /\ Exchange({m}, {AppendRspMsg(n, m.from, m.term, committed[n], FALSE, 0)})
    /\ UNCHANGED <<votes, logVars, leaderVars, restarts, acked, history>>

HandleAppendReject(n, m) ==
    /\ m.type = "Append"
    /\ FollowSender(n, m)
    /\ ~BehindCommit(n, m)
    /\ ~LogConsistencyCheck(log[n], m.prevIndex, m.prevTerm)
    /\ Exchange({m}, {AppendRspMsg(n, m.from, m.term, 0, TRUE,
                                   FindConflict(log[n], m.prevIndex))})
    /\ UNCHANGED <<votes, logVars, leaderVars, restarts, acked, history>>

HandleAppendAccept(n, m) ==
    /\ m.type = "Append"
    /\ FollowSender(n, m)
    /\ ~BehindCommit(n, m)
    /\ LogConsistencyCheck(log[n], m.prevIndex, m.prevTerm)
    /\ LET l == AppendEntries(log[n], m.entries) IN
       /\ Ready(n, l, CommitTo(l, committed[n], m.commit))
       /\ Exchange({m}, {AppendRspMsg(n, m.from, m.term, LastIndex(l), FALSE, 0)})
    /\ UNCHANGED <<votes, leaderVars, restarts, acked, history>>

-----------------------------------------------------------------------------
(* Replication: the leader's side *)

HandleHeartbeatRsp(n, m) ==
    /\ m.type = "HeartbeatRsp" /\ m.to = n /\ m.term = term[n]
    /\ state[n] = "Leader"
    /\ m.from \in Peers[n]
    /\ Exchange({m}, IF matchIndex[n][m.from] < LastIndex(log[n])
                     THEN {AppendMsg(n, m.from, term[n], nextIndex[n][m.from],
                                     log[n], committed[n])}
                     ELSE {})
    /\ UNCHANGED <<serverVars, votes, logVars, leaderVars, restarts, acked, history>>

\* Progress.MaybeUpdate advances, then BecomeReplicate, then the commit rule.
HandleAppendSuccess(n, m) ==
    /\ m.type = "AppendRsp" /\ m.to = n /\ m.term = term[n] /\ ~m.reject
    /\ state[n] = "Leader"
    /\ m.from \in Peers[n]
    /\ m.index > matchIndex[n][m.from]
    /\ LET p     == m.from
           match == [matchIndex[n] EXCEPT ![p] = m.index]
           next  == IF pstate[n][p] = "Replicate"
                    THEN MaxOf(nextIndex[n][p], m.index + 1)
                    ELSE m.index + 1
           c     == MaybeCommit(n, log[n], match, committed[n], term[n])
       IN  /\ matchIndex' = [matchIndex EXCEPT ![n] = match]
           /\ nextIndex' = [nextIndex EXCEPT ![n][p] = next]
           /\ pstate' = [pstate EXCEPT ![n][p] = "Replicate"]
           /\ Ready(n, log[n], c)
           /\ chosen' = chosen \cup NewlyChosen(log[n], committed[n], c)
           /\ Exchange({m}, IF m.index < LastIndex(log[n])
                            THEN {AppendMsg(n, p, term[n], next, log[n], c)}
                            ELSE {})
    /\ UNCHANGED <<serverVars, votes, restarts, acked, ballots, elected>>

\* Progress.MaybeDecrTo: the next index after a rejection, or the old one.
MaybeDecrTo(n, p, rejected, conflict) ==
    IF pstate[n][p] = "Replicate" THEN matchIndex[n][p] + 1
    ELSE IF rejected # nextIndex[n][p] - 1 THEN nextIndex[n][p]
    ELSE MinOf(nextIndex[n][p], MaxOf(conflict, 1))

HandleAppendRejected(n, m) ==
    /\ m.type = "AppendRsp" /\ m.to = n /\ m.term = term[n] /\ m.reject
    /\ state[n] = "Leader"
    /\ m.from \in Peers[n]
    /\ LET p    == m.from
           next == MaybeDecrTo(n, p, m.index, m.conflict)
           resend == pstate[n][p] = "Replicate" \/ next < nextIndex[n][p]
       IN  /\ nextIndex' = [nextIndex EXCEPT ![n][p] = next]
           /\ pstate' = [pstate EXCEPT ![n][p] = "Probe"]
           /\ Exchange({m}, IF resend
                            THEN {AppendMsg(n, p, term[n], next, log[n], committed[n])}
                            ELSE {})
    /\ UNCHANGED <<serverVars, votes, logVars, matchIndex, restarts, acked, history>>

-----------------------------------------------------------------------------
(* Proposals *)

\* The leader appends, updates its own progress, sends the entries with the
\* commit index it has, and only then tries to commit.
HandleProposal(n, v, taken) ==
    /\ state[n] = "Leader"
    /\ LET l     == AppendOne(log[n], term[n], v)
           match == [matchIndex[n] EXCEPT ![n] = MaxOf(@, LastIndex(l))]
           c     == MaybeCommit(n, l, match, committed[n], term[n])
       IN  /\ matchIndex' = [matchIndex EXCEPT ![n] = match]
           /\ nextIndex' = [nextIndex EXCEPT ![n][n] = MaxOf(@, LastIndex(l) + 1)]
           /\ Ready(n, l, c)
           /\ chosen' = chosen \cup NewlyChosen(l, committed[n], c)
           /\ Exchange(taken, {AppendMsg(n, p, term[n], nextIndex[n][p], l, committed[n])
                                 : p \in Peers[n]})
    /\ UNCHANGED <<serverVars, votes, pstate, restarts, ballots, elected>>

\* RaftNode.Propose on the leader: returns nil once the entry is in its log.
ProposeAtLeader(n, v) ==
    /\ v \notin acked
    /\ HandleProposal(n, v, {})
    /\ acked' = acked \cup {v}

\* RaftNode.Propose on a follower that knows a leader: returns nil once the
\* proposal is handed to the transport.
ProposeAtFollower(n, v) ==
    /\ v \notin acked
    /\ state[n] = "Follower" /\ lead[n] # Nil
    /\ Exchange({}, {ProposeMsg(n, lead[n], term[n], v)})
    /\ acked' = acked \cup {v}
    /\ UNCHANGED <<serverVars, votes, logVars, leaderVars, restarts, history>>

\* A forwarded proposal of the leader's term.
HandleForwardedProposal(n, m) ==
    /\ m.type = "Propose" /\ m.to = n /\ m.term = term[n]
    /\ HandleProposal(n, m.cmd, {m})
    /\ UNCHANGED acked

\* A forwarded proposal that reaches a follower goes on to the leader it knows.
ForwardProposal(n, m) ==
    /\ m.type = "Propose" /\ m.to = n /\ m.term = term[n]
    /\ state[n] = "Follower" /\ lead[n] # Nil
    /\ Exchange({m}, {[m EXCEPT !.to = lead[n]]})
    /\ UNCHANGED <<serverVars, votes, logVars, leaderVars, restarts, acked, history>>

\* A forwarded proposal of a higher term: Step first makes the node a follower
\* of the proposer, and the follower then forwards it back there.
ForwardHigherTermProposal(n, m) ==
    /\ m.type = "Propose" /\ m.to = n /\ m.term > term[n]
    /\ term' = [term EXCEPT ![n] = m.term]
    /\ vote' = [vote EXCEPT ![n] = Nil]
    /\ state' = [state EXCEPT ![n] = "Follower"]
    /\ lead' = [lead EXCEPT ![n] = m.from]
    /\ Exchange({m}, {[m EXCEPT !.to = m.from]})
    /\ UNCHANGED <<votes, logVars, leaderVars, restarts, acked, history>>

-----------------------------------------------------------------------------
(* Messages without effect, the network, the process *)

\* Step makes the node a follower on any response of a higher term, and a
\* follower does nothing more with it.  Only a node that lost its term in a
\* restart can meet one.
HandleHigherTermRsp(n, m) ==
    /\ m.type \in {"VoteRsp", "AppendRsp", "HeartbeatRsp"}
    /\ m.to = n /\ m.term > term[n]
    /\ term' = [term EXCEPT ![n] = m.term]
    /\ vote' = [vote EXCEPT ![n] = Nil]
    /\ state' = [state EXCEPT ![n] = "Follower"]
    /\ lead' = [lead EXCEPT ![n] = IF m.type = "VoteRsp" THEN Nil ELSE m.from]
    /\ Exchange({m}, {})
    /\ UNCHANGED <<votes, logVars, leaderVars, restarts, acked, history>>

\* Step drops a message of an older term without an answer, and the current
\* step function has no case for, or nothing to do about, these.
NoEffect(n, m) ==
    \/ m.term < term[n]
    \/ /\ m.term = term[n]
       /\ \/ m.type \in {"Heartbeat", "Append"} /\ state[n] = "Leader"
          \/ m.type = "VoteRsp" /\ state[n] # "Candidate"
          \/ m.type \in {"AppendRsp", "HeartbeatRsp"}
                /\ (state[n] # "Leader" \/ m.from \notin Peers[n])
          \/ /\ m.type = "AppendRsp" /\ ~m.reject
             /\ state[n] = "Leader" /\ m.from \in Peers[n]
             /\ m.index <= matchIndex[n][m.from]
          \/ m.type = "Propose" /\ state[n] = "Candidate"
          \/ m.type = "Propose" /\ state[n] = "Follower" /\ lead[n] = Nil

Ignore(n, m) ==
    /\ m.to = n
    /\ NoEffect(n, m)
    /\ Exchange({m}, {})
    /\ UNCHANGED <<serverVars, votes, logVars, leaderVars, restarts, acked, history>>

\* A partition, a full channel or a failed RPC.
Lose(m) ==
    /\ Exchange({m}, {})
    /\ UNCHANGED <<serverVars, votes, logVars, leaderVars, restarts, acked, history>>

\* Mutant: the commit index outlives the log.
RestartMutant(n) ==
    /\ restarts < MaxRestarts
    /\ restarts' = restarts + 1
    /\ term' = [term EXCEPT ![n] = 0]
    /\ vote' = [vote EXCEPT ![n] = Nil]
    /\ state' = [state EXCEPT ![n] = "Follower"]
    /\ lead' = [lead EXCEPT ![n] = Nil]
    /\ votes' = [votes EXCEPT ![n] = {}]
    /\ log' = [log EXCEPT ![n] = <<>>]
    /\ applied' = [applied EXCEPT ![n] = <<>>]
    /\ UNCHANGED <<committed, leaderVars, msgs, acked, history>>

\* The process dies and NewRaft starts it again: RaftNode.wal and .hardState
\* are fields of the process, and nothing reads them back.
\* applied restarts with the log: it is what this incarnation has applied.
Restart(n) ==
    /\ restarts < MaxRestarts
    /\ restarts' = restarts + 1
    /\ term' = [term EXCEPT ![n] = 0]
    /\ vote' = [vote EXCEPT ![n] = Nil]
    /\ state' = [state EXCEPT ![n] = "Follower"]
    /\ lead' = [lead EXCEPT ![n] = Nil]
    /\ votes' = [votes EXCEPT ![n] = {}]
    /\ log' = [log EXCEPT ![n] = <<>>]
    /\ committed' = [committed EXCEPT ![n] = 0]
    /\ applied' = [applied EXCEPT ![n] = <<>>]
    /\ UNCHANGED <<leaderVars, msgs, acked, history>>

-----------------------------------------------------------------------------
Deliver(n, m) ==
    \/ GrantVote(n, m)
    \/ RejectVote(n, m)
    \/ HandleVoteGranted(n, m)
    \/ HandleVoteDenied(n, m)
    \/ HandleHeartbeat(n, m)
    \/ HandleAppendBehindCommit(n, m)
    \/ HandleAppendReject(n, m)
    \/ HandleAppendAccept(n, m)
    \/ HandleHeartbeatRsp(n, m)
    \/ HandleAppendSuccess(n, m)
    \/ HandleAppendRejected(n, m)
    \/ HandleForwardedProposal(n, m)
    \/ ForwardProposal(n, m)
    \/ ForwardHigherTermProposal(n, m)
    \/ HandleHigherTermRsp(n, m)
    \/ Ignore(n, m)

Next ==
    \/ \E n \in Server :
         \/ Timeout(n)
         \/ HeartbeatTimeout(n)
         \/ Restart(n)
         \/ \E v \in Value : ProposeAtLeader(n, v) \/ ProposeAtFollower(n, v)
         \/ \E m \in msgs : Deliver(n, m)
    \/ \E m \in msgs : Lose(m)

Spec == Init /\ [][Next]_vars

\* A timely, reliable network and a steady process: nothing is lost, nobody
\* restarts, and a tick (at least 50ms apart) comes after the messages in flight
\* have been handled.  run() serves its channels for ever and the ticker never
\* stops, hence the fairness of deliveries and of the leader's heartbeat.
Quiet == msgs = {}

TimelyTimeout(n) == Quiet /\ Timeout(n)

TimelyHeartbeat(n) == Quiet /\ HeartbeatTimeout(n)

DeliverTo(n) == \E m \in msgs : Deliver(n, m)

TimelyNext ==
    \E n \in Server :
        \/ TimelyTimeout(n)
        \/ TimelyHeartbeat(n)
        \/ \E v \in Value : ProposeAtLeader(n, v) \/ ProposeAtFollower(n, v)
        \/ DeliverTo(n)

TimelySpec ==
    /\ Init /\ [][TimelyNext]_vars
    /\ \A n \in Server : WF_vars(TimelyHeartbeat(n)) /\ WF_vars(DeliverTo(n))

-----------------------------------------------------------------------------
(* Properties *)

VoteMessage == [type : {"Vote"}, from : Server, to : Server, term : Nat,
                lastIndex : Nat, lastTerm : Nat]
VoteRspMessage == [type : {"VoteRsp"}, from : Server, to : Server, term : Nat,
                   granted : BOOLEAN]
HeartbeatMessage == [type : {"Heartbeat"}, from : Server, to : Server, term : Nat,
                     commit : Nat]
HeartbeatRspMessage == [type : {"HeartbeatRsp"}, from : Server, to : Server, term : Nat]
AppendMessage == [type : {"Append"}, from : Server, to : Server, term : Nat,
                  prevIndex : Nat, prevTerm : Nat, entries : Seq(Entry), commit : Nat]
AppendRspMessage == [type : {"AppendRsp"}, from : Server, to : Server, term : Nat,
                     index : Nat, reject : BOOLEAN, conflict : Nat]
ProposeMessage == [type : {"Propose"}, from : Server, to : Server, term : Nat, cmd : Value]

Message == VoteMessage \cup VoteRspMessage \cup HeartbeatMessage \cup HeartbeatRspMessage
             \cup AppendMessage \cup AppendRspMessage \cup ProposeMessage

\* Every variable has the shape its Go type gives it.
TypeOK ==
    /\ term \in [Server -> Nat]
    /\ vote \in [Server -> Server \cup {Nil}]
    /\ state \in [Server -> {"Follower", "Candidate", "Leader"}]
    /\ lead \in [Server -> Server \cup {Nil}]
    /\ votes \in [Server -> SUBSET Server]
    /\ log \in [Server -> Seq(Entry)]
    /\ committed \in [Server -> Nat]
    /\ applied \in [Server -> Seq(Entry)]
    /\ nextIndex \in [Server -> [Server -> Nat \ {0}]]
    /\ matchIndex \in [Server -> [Server -> Nat]]
    /\ pstate \in [Server -> [Server -> {"Probe", "Replicate"}]]
    /\ msgs \subseteq Message
    /\ restarts \in 0..MaxRestarts
    /\ acked \subseteq Value
    /\ ballots \subseteq Ballot
    /\ elected \subseteq Win
    /\ chosen \subseteq Entry

\* Each term has at most one leader, over the whole history of elections.
ElectionSafety ==
    \A a, b \in elected : a.term = b.term => a.node = b.node

\* Two logs that agree on the term of an entry agree on everything up to it.
LogMatching ==
    \A a, b \in Server : \A i \in 1..MinOf(Len(log[a]), Len(log[b])) :
        log[a][i].term = log[b][i].term => SubSeq(log[a], 1, i) = SubSeq(log[b], 1, i)

\* What a node applied is what its log holds up to its commit index: an applied
\* entry is never truncated or rewritten, and none is skipped or applied twice.
AppliedIsCommittedPrefix ==
    \A n \in Server :
        /\ committed[n] <= Len(log[n])
        /\ Len(applied[n]) = committed[n]
        /\ \A i \in 1..committed[n] : applied[n][i] = log[n][i]

\* An entry that a leader found committed by counting is in the log of every
\* leader of a later term, at the same place.
LeaderCompleteness ==
    \A n \in Server, e \in chosen :
        state[n] = "Leader" /\ term[n] > e.term
            => e.index <= Len(log[n]) /\ log[n][e.index] = e

\* ... and a majority of the nodes holds it, and goes on holding it.
ChosenOnMajority ==
    \A e \in chosen :
        LET holders == {n \in Server : e.index <= Len(log[n]) /\ log[n][e.index] = e}
        IN  Cardinality(holders) * 2 > Cardinality(Server)

\* No two nodes apply different entries at the same index.
StateMachineSafety ==
    \A a, b \in Server : \A i \in 1..MinOf(Len(applied[a]), Len(applied[b])) :
        applied[a][i] = applied[b][i]

\* Under a stable leader what it appends is applied by every node.
ProposalIsApplied ==
    \A n \in Server, v \in Value :
        (state[n] = "Leader" /\ \E i \in 1..Len(log[n]) : log[n][i].cmd = v)
            ~> (\A p \in Server : \E i \in 1..Len(applied[p]) : applied[p][i].cmd = v)
=============================================================================
