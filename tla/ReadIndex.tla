----------------------------- MODULE ReadIndex -----------------------------
(***************************************************************************)
(* ReadIndexTracker of pkg/consistency/readindex.go as the server wires it  *)
(* (startConsistency in pkg/server/node.go): sendHeartbeat reads the commit *)
(* index of Raft and calls ConfirmLeadership with it, in a goroutine of its *)
(* own, while Raft commits and other reads come and go.                     *)
(***************************************************************************)
EXTENDS Naturals

CONSTANTS
    ReadCall,         \* calls of RequestRead
    MaxCommit         \* bound: highest commit index

ASSUME ReadIndexAssumption == MaxCommit \in Nat

VARIABLES
    raftCommit,       \* Status().CommitIndex
    request,          \* the calls: "new", "asked", "pending", "answered" or "cancelled", and the index
    beat              \* the sendHeartbeat goroutine a call has started

readIndexVars == <<raftCommit, request, beat>>

ReadIndexInit ==
    /\ raftCommit = 0
    /\ request = [r \in ReadCall |-> [pc |-> "new", index |-> 0]]
    /\ beat = [r \in ReadCall |-> [pc |-> "none", index |-> 0]]

RaftCommits ==
    /\ raftCommit < MaxCommit
    /\ raftCommit' = raftCommit + 1
    /\ UNCHANGED <<request, beat>>

\* Get reads Status().CommitIndex, the argument of RequestRead.
AskIndex(r) ==
    /\ request[r].pc = "new"
    /\ request' = [request EXCEPT ![r] = [pc |-> "asked", index |-> raftCommit]]
    /\ UNCHANGED <<raftCommit, beat>>

PendingReads == {r \in ReadCall : request[r].pc = "pending"}

\* The first pending request starts the goroutine, the others wait for it.
StartsBeat(r) == PendingReads = {}

RequestRead(r) ==
    /\ request[r].pc = "asked"
    /\ request' = [request EXCEPT ![r].pc = "pending"]
    /\ beat' = [beat EXCEPT ![r].pc = IF StartsBeat(r) THEN "started" ELSE "none"]
    /\ UNCHANGED raftCommit

SendHeartbeat(r) ==
    /\ beat[r].pc = "started"
    /\ beat' = [beat EXCEPT ![r] = [pc |-> "confirming", index |-> raftCommit]]
    /\ UNCHANGED <<raftCommit, request>>

\* Mutant: a request at the confirmed index itself goes on waiting.
ServedMutant(r, maxCommitIndex) == request[r].index < maxCommitIndex

Served(r, maxCommitIndex) == request[r].index <= maxCommitIndex

ConfirmLeadership(r) ==
    LET toNotify == {q \in PendingReads : Served(q, beat[r].index)}
    IN  /\ beat[r].pc = "confirming"
        /\ beat' = [beat EXCEPT ![r] = [pc |-> "done", index |-> 0]]
        /\ request' = [q \in ReadCall |->
              IF q \in toNotify THEN [request[q] EXCEPT !.pc = "answered"] ELSE request[q]]
        /\ UNCHANGED raftCommit

\* The caller's context ends before the answer comes.
ReadCancelled(r) ==
    /\ request[r].pc = "pending"
    /\ request' = [request EXCEPT ![r].pc = "cancelled"]
    /\ UNCHANGED <<raftCommit, beat>>

ReadIndexNext ==
    \/ RaftCommits
    \/ \E r \in ReadCall :
         \/ AskIndex(r) \/ RequestRead(r) \/ ReadCancelled(r)
         \/ SendHeartbeat(r) \/ ConfirmLeadership(r)

\* Goroutines that can run do run; no caller's context need ever end.
ReadIndexFairness ==
    \A r \in ReadCall :
        /\ WF_readIndexVars(RequestRead(r))
        /\ WF_readIndexVars(SendHeartbeat(r)) /\ WF_readIndexVars(ConfirmLeadership(r))

ReadIndexSpec == ReadIndexInit /\ [][ReadIndexNext]_readIndexVars /\ ReadIndexFairness

-----------------------------------------------------------------------------
\* Only the first pending read starts a heartbeat, and one that joins with a higher index
\* than the heartbeat has read is not served by it.
\* A read that has started the heartbeat itself is answered (or its caller gives up),
\* whatever is committed and whoever else comes and goes meanwhile.
StarterIsAnswered ==
    \A r \in ReadCall : request[r].pc = "pending" /\ beat[r].pc # "none" ~> request[r].pc # "pending"
=============================================================================
