------------------------------ MODULE KVServer ------------------------------
(***************************************************************************)
(* The key-value service of HermesNode (pkg/server/node.go) for one key,    *)
(* with ReadIndexTracker and LeaderLease of pkg/consistency and the loop    *)
(* of RaftNode (pkg/raft/node.go) as the service meets it.                  *)
(*                                                                         *)
(* Consensus itself is Raft.tla.  Here it is what it promises: `chosen' is  *)
(* the sequence of committed commands, `leader' the leader of the highest   *)
(* term, `log' what a leader has appended beyond `chosen'.  A deposed       *)
(* leader believes it leads until it hears otherwise.                       *)
(*                                                                         *)
(* A call that is refused (no leader, rate limit, open breaker, empty key)  *)
(* changes nothing and is no step.  The handlers of the gRPC and the HTTP   *)
(* interface pass calls through.                                            *)
(***************************************************************************)
EXTENDS Naturals, Sequences

CONSTANTS
    Server, NoServer,
    Read,             \* calls of Get
    MaxCommands,      \* bound: calls of Put and Delete
    MaxElections      \* bound: elections of a behaviour

ASSUME ServerAssumption ==
    NoServer \notin Server /\ MaxCommands \in Nat /\ MaxElections \in Nat

VARIABLES
    chosen, leader, elections,
    log,              \* commands appended by a leader and not yet committed
    lead,             \* Raft's lead; a server is in state Leader when it is itself
    commitIndex, appliedIndex,
    store,            \* the key in the server's engine: a command, 0 when it is not there
    proposeCh,        \* proposals that wait for the Raft loop
    proposed,         \* the number of commands so far
    acked,            \* those whose caller was told they are done, by whom and when
    leaderChangeCh,   \* buffered channel of capacity one
    lease,            \* the lease has not expired
    get               \* the calls of Get

raftSide == <<chosen, leader, elections, log, lead, commitIndex, appliedIndex, store>>
writeSide == <<proposeCh, proposed, acked>>
leaseSide == <<leaderChangeCh, lease>>
serverVars == <<raftSide, writeSide, leaseSide, get>>

NoGet == [pc |-> "new", at |-> NoServer, index |-> 0, settled |-> FALSE, start |-> 0, value |-> 0]

ServerInit ==
    /\ chosen = <<>> /\ leader = NoServer /\ elections = 0
    /\ log = [n \in Server |-> <<>>]
    /\ lead = [n \in Server |-> NoServer]
    /\ commitIndex = [n \in Server |-> 0]
    /\ appliedIndex = [n \in Server |-> 0]
    /\ store = [n \in Server |-> 0]
    /\ proposeCh = [n \in Server |-> <<>>]
    /\ proposed = 0
    /\ acked = {}
    /\ leaderChangeCh = [n \in Server |-> <<>>]
    /\ lease = [n \in Server |-> FALSE]
    /\ get = [r \in Read |-> NoGet]

IsLeader(n) == lead[n] = n

\* A command, put or delete, is known by its number, and so is what it leaves in the key.
ValueAfter(i) == IF i = 0 THEN 0 ELSE chosen[i]

-----------------------------------------------------------------------------
(* Consensus, seen from the service *)

\* The Raft loop reports a new leader; the report is dropped when one still waits.
SetLead(n, m) ==
    /\ lead[n] # m
    /\ lead' = [lead EXCEPT ![n] = m]
    /\ leaderChangeCh' = [leaderChangeCh EXCEPT ![n] = IF @ = <<>> THEN <<m>> ELSE @]

\* The new leader has everything that is committed, and what reached it of the rest.
Elect(n) ==
    /\ elections < MaxElections
    /\ elections' = elections + 1
    /\ leader' = n
    /\ SetLead(n, n)
    /\ \E m \in Server : \E k \in 0 .. Len(log[m]) :
           log' = [log EXCEPT ![n] = SubSeq(log[m], 1, k)]
    /\ UNCHANGED <<chosen, commitIndex, appliedIndex, store, writeSide, lease, get>>

\* A server hears of the leader.
Hear(n) ==
    /\ SetLead(n, leader)
    /\ UNCHANGED <<chosen, leader, elections, log, commitIndex, appliedIndex, store, writeSide, lease, get>>

\* Mutant: what is behind the committed commands in the leader's log is overwritten too.
CommitMutant(n) ==
    /\ n = leader /\ IsLeader(n)
    /\ \E k \in 0 .. Len(log[n]) :
         /\ chosen' = chosen \o SubSeq(log[n], 1, k)
         /\ commitIndex[n] < Len(chosen')
         /\ commitIndex' = [commitIndex EXCEPT ![n] = Len(chosen')]
         /\ log' = [m \in Server |-> <<>>]
    /\ UNCHANGED <<leader, elections, lead, appliedIndex, store, writeSide, leaseSide, get>>

\* The leader commits; what deposed leaders have appended is overwritten from there on.
Commit(n) ==
    /\ n = leader /\ IsLeader(n)
    /\ \E k \in 0 .. Len(log[n]) :
         /\ chosen' = chosen \o SubSeq(log[n], 1, k)
         /\ commitIndex[n] < Len(chosen')
         /\ commitIndex' = [commitIndex EXCEPT ![n] = Len(chosen')]
         /\ log' = [m \in Server |-> IF m = n THEN SubSeq(log[n], k + 1, Len(log[n])) ELSE <<>>]
    /\ UNCHANGED <<leader, elections, lead, appliedIndex, store, writeSide, leaseSide, get>>

FollowerCommits(n) ==
    /\ ~IsLeader(n) /\ commitIndex[n] < Len(chosen)
    /\ commitIndex' = [commitIndex EXCEPT ![n] = @ + 1]
    /\ UNCHANGED <<chosen, leader, elections, log, lead, appliedIndex, store, writeSide, leaseSide, get>>

\* applyEntries and hermesStateMachine.Apply.
Applies(n) ==
    /\ appliedIndex[n] < commitIndex[n]
    /\ appliedIndex' = [appliedIndex EXCEPT ![n] = @ + 1]
    /\ store' = [store EXCEPT ![n] = ValueAfter(appliedIndex'[n])]
    /\ UNCHANGED <<chosen, leader, elections, log, lead, commitIndex, writeSide, leaseSide, get>>

-----------------------------------------------------------------------------
(* Put and Delete *)

\* The server believes it is the leader and hands the encoded command to the Raft loop.
Put(n) ==
    /\ IsLeader(n) /\ proposed < MaxCommands
    /\ proposed' = proposed + 1
    /\ proposeCh' = [proposeCh EXCEPT ![n] = Append(@, proposed')]
    /\ UNCHANGED <<raftSide, acked, leaseSide, get>>

\* The Raft loop takes a proposal and answers.  A server that is no leader any more
\* refuses it, or forwards it to the leader it knows of and reports success; the
\* transport does not carry it.
Propose(n) ==
    /\ proposeCh[n] # <<>>
    /\ proposeCh' = [proposeCh EXCEPT ![n] = Tail(@)]
    /\ log' = [log EXCEPT ![n] = IF IsLeader(n) THEN Append(@, Head(proposeCh[n])) ELSE @]
    /\ \/ acked' = acked \cup {[id |-> Head(proposeCh[n]), by |-> n, reign |-> elections]}
       \/ ~IsLeader(n) /\ UNCHANGED acked
    /\ UNCHANGED <<chosen, leader, elections, lead, commitIndex, appliedIndex, store, proposed, leaseSide, get>>

-----------------------------------------------------------------------------
(* The lease *)

\* runBackgroundLoops takes a report: the lease is renewed or ended.
OnLeaderChange(n) ==
    /\ leaderChangeCh[n] # <<>>
    /\ leaderChangeCh' = [leaderChangeCh EXCEPT ![n] = Tail(@)]
    /\ lease' = [lease EXCEPT ![n] = (Head(leaderChangeCh[n]) = n)]
    /\ UNCHANGED <<raftSide, writeSide, get>>

LeaseExpires(n) ==
    /\ lease[n]
    /\ lease' = [lease EXCEPT ![n] = FALSE]
    /\ UNCHANGED <<raftSide, writeSide, leaderChangeCh, get>>

-----------------------------------------------------------------------------
(* Get *)

\* Leader, or lease valid.
GetBegins(r, n) ==
    /\ get[r].pc = "new"
    /\ IsLeader(n) \/ lease[n]
    /\ get' = [get EXCEPT ![r] = [NoGet EXCEPT !.pc = "entered", !.at = n, !.start = Len(chosen),
                  !.settled = (n = leader /\ IsLeader(n) /\ commitIndex[n] = Len(chosen))]]
    /\ UNCHANGED <<raftSide, writeSide, leaseSide>>

\* Mutant: takes the applied index for the commit index.
IndexToReadMutant(n) == appliedIndex[n]

IndexToRead(n) == commitIndex[n]

\* Asks again whether the server is leader, and takes the commit index if it is.
\* RequestRead returns it when the tracker has answered (see ReadIndex).
TakeIndex(r) ==
    LET n == get[r].at
    IN  /\ get[r].pc = "entered" /\ IsLeader(n)
        /\ get' = [get EXCEPT ![r].pc = "reading", ![r].index = IndexToRead(n)]
        /\ UNCHANGED <<raftSide, writeSide, leaseSide>>

\* Is no leader any more, or never was: reads at once.
SkipReadIndex(r) ==
    /\ get[r].pc = "entered" /\ ~IsLeader(get[r].at)
    /\ get' = [get EXCEPT ![r].pc = "reading", ![r].settled = FALSE]
    /\ UNCHANGED <<raftSide, writeSide, leaseSide>>

\* Reads the engine; also when the index is not applied after five milliseconds.
GetReads(r) ==
    LET n == get[r].at
    IN  /\ get[r].pc = "reading"
        /\ get' = [get EXCEPT ![r].pc = "done", ![r].value = store[n], ![r].index = 0,
                              ![r].settled = @ /\ appliedIndex[n] >= get[r].index]
        /\ UNCHANGED <<raftSide, writeSide, leaseSide>>

ServerNext ==
    \/ \E n \in Server :
         \/ Elect(n) \/ Hear(n) \/ Commit(n) \/ FollowerCommits(n) \/ Applies(n)
         \/ Put(n) \/ Propose(n) \/ OnLeaderChange(n) \/ LeaseExpires(n)
         \/ \E r \in Read : GetBegins(r, n)
    \/ \E r \in Read : TakeIndex(r) \/ SkipReadIndex(r) \/ GetReads(r)

ServerSpec == ServerInit /\ [][ServerNext]_serverVars

-----------------------------------------------------------------------------
\* A read returns the key as it was after some committed command: never what a leader
\* has appended only, never a mixture, whoever serves it.  A read that a settled leader
\* serves in time sees all that was committed when it began, whatever is elected,
\* committed and applied meanwhile.  Settled: it leads, has committed in its term and
\* stays leader while Get asks for the index; in time: the index was applied when the
\* engine was read (Apply, applyEntries, Get, RequestRead).
ReadsAreCommitted ==
    \A r \in Read : get[r].pc = "done" =>
        \E i \in (IF get[r].settled THEN get[r].start ELSE 0) .. Len(chosen) :
            get[r].value = ValueAfter(i)

\* Put returns before any follower has the command.  What it does promise: a write that
\* the leader acknowledged is committed or in its log, until another leader is elected,
\* however proposals, commits and deposed leaders interleave (Propose, RaftNode.run).
AckedUnlessDeposed ==
    \A a \in acked : a.by = leader /\ a.reign = elections =>
        \E i \in DOMAIN (chosen \o log[leader]) : (chosen \o log[leader])[i] = a.id
=============================================================================
