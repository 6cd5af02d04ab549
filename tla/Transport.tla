----------------------------- MODULE Transport -----------------------------
(***************************************************************************)
(* The RPC transport of pkg/transport: a node's ConnectionPool (client.go)  *)
(* and unary calls through it, with the interceptors of the client (retry)  *)
(* and of the server (recovery, metrics; interceptors.go) and with the      *)
(* rules of NetworkSimulator (network_simulator.go).                        *)
(*                                                                         *)
(* AddPeer dials with the pool's lock held; everybody who asks for a peer,  *)
(* the Raft loop among them, waits meanwhile.  gRPC and the network are     *)
(* external: an attempt may be lost before or after the handler has run.    *)
(* MetricsCollector writes a map without a lock: two calls that do so at    *)
(* the same time may end the process, which Go does not let a handler       *)
(* recover from.                                                            *)
(***************************************************************************)
EXTENDS Naturals, FiniteSets

CONSTANTS
    Peer,
    Sender,           \* callers, one call each
    MaxAttempts,      \* RetryInterceptor(3)
    MaxDials          \* bound: connections that are opened

ASSUME TransportAssumption == MaxAttempts \in Nat \ {0} /\ MaxDials \in Nat

VARIABLES
    dialing,          \* the peer AddPeer dials with the lock held, in a set; {} when the lock is free
    dials,
    peers,            \* ConnectionPool.peers: the number of the connection, 0 for none
    open,             \* connections that are open
    rule,             \* NetworkSimulator: "none" or "partition" for each peer
    sender,           \* the calls
    recording,        \* calls that are writing the metrics of the server
    serverUp,
    executed, lost    \* history: runs of the handler for a call, and replies of them that were lost

transportVars == <<dialing, dials, peers, open, rule, sender, recording, serverUp, executed, lost>>
poolState == <<dialing, dials, peers, open>>
callState == <<sender, recording, serverUp, executed, lost>>

TransportInit ==
    /\ dialing = {} /\ dials = 0
    /\ peers = [p \in Peer |-> 0]
    /\ open = {}
    /\ rule = [p \in Peer |-> "none"]
    /\ sender = [s \in Sender |-> [pc |-> "idle", peer |-> CHOOSE p \in Peer : TRUE, conn |-> 0, attempts |-> 0]]
    /\ recording = {} /\ serverUp = TRUE
    /\ executed = [s \in Sender |-> 0]
    /\ lost = [s \in Sender |-> 0]

-----------------------------------------------------------------------------
(* The pool *)

AddPeer(p) ==
    /\ dialing = {} /\ dials < MaxDials
    /\ peers[p] = 0
    /\ dialing' = {p}
    /\ UNCHANGED <<dials, peers, open, rule, callState>>

DialSucceeds(p) ==
    /\ p \in dialing
    /\ dialing' = {}
    /\ dials' = dials + 1
    /\ peers' = [peers EXCEPT ![p] = dials']
    /\ open' = open \cup {dials'}
    /\ UNCHANGED <<rule, callState>>

\* Mutant: dials without a timeout.
DialTimesOutMutant(p) == FALSE /\ UNCHANGED transportVars

DialTimesOut(p) ==
    /\ p \in dialing
    /\ dialing' = {}
    /\ UNCHANGED <<dials, peers, open, rule, callState>>

RemovePeer(p) ==
    /\ dialing = {} /\ peers[p] # 0
    /\ peers' = [peers EXCEPT ![p] = 0]
    /\ open' = open \ {peers[p]}
    /\ UNCHANGED <<dialing, dials, rule, callState>>

ClosePool ==
    /\ dialing = {} /\ \E p \in Peer : peers[p] # 0
    /\ peers' = [p \in Peer |-> 0]
    /\ open' = open \ {peers[p] : p \in Peer}
    /\ UNCHANGED <<dialing, dials, rule, callState>>

\* SetRule and Partition; HealPartition and ClearAll set "none".  Other rules lose or delay
\* some messages, as the network may do anyway, and lift a partition.
SetRule(p, r) ==
    /\ rule[p] # r
    /\ rule' = [rule EXCEPT ![p] = r]
    /\ UNCHANGED <<poolState, callState>>

-----------------------------------------------------------------------------
(* A call *)

SetPc(s, pc) == sender' = [sender EXCEPT ![s].pc = pc]

SendBegins(s, p) ==
    /\ sender[s].pc = "idle"
    /\ sender' = [sender EXCEPT ![s].pc = "waiting", ![s].peer = p]
    /\ UNCHANGED <<poolState, rule, recording, serverUp, executed, lost>>

\* GetPeer, when the lock is free.  A message to an unknown peer is dropped.
GetPeer(s) ==
    /\ sender[s].pc = "waiting" /\ dialing = {}
    /\ sender' = [sender EXCEPT ![s].pc = IF peers[sender[s].peer] = 0 THEN "dropped" ELSE "calling",
                                ![s].conn = peers[sender[s].peer]]
    /\ UNCHANGED <<poolState, rule, recording, serverUp, executed, lost>>

\* RetryInterceptor: only Unavailable and ResourceExhausted are tried again.
Failed(s, code) ==
    sender' = [sender EXCEPT ![s].attempts = @ + 1,
                             ![s].pc = IF code = "Unavailable" /\ sender[s].attempts + 1 < MaxAttempts
                                       THEN "backoff" ELSE "failed"]

\* The connection was closed, or the network or its simulator loses the request.
AttemptFails(s) ==
    /\ sender[s].pc = "calling"
    /\ Failed(s, IF sender[s].conn \in open THEN "Unavailable" ELSE "Canceled")
    /\ UNCHANGED <<poolState, rule, recording, serverUp, executed, lost>>

Delivered(s) ==
    sender[s].conn \in open /\ serverUp /\ rule[sender[s].peer] # "partition"

\* The handler runs and returns; its metrics are written next.
HandlerRuns(s) ==
    /\ sender[s].pc = "calling" /\ Delivered(s)
    /\ executed' = [executed EXCEPT ![s] = @ + 1]
    /\ recording' = recording \cup {s}
    /\ SetPc(s, "served")
    /\ UNCHANGED <<poolState, rule, serverUp, lost>>

\* The handler panics: past the metrics, up to RecoveryInterceptor.
HandlerPanics(s) ==
    /\ sender[s].pc = "calling" /\ Delivered(s)
    /\ executed' = [executed EXCEPT ![s] = @ + 1]
    /\ Failed(s, "Internal")
    /\ UNCHANGED <<poolState, rule, recording, serverUp, lost>>

\* The metrics are written, and the reply arrives or is lost.
Reply(s) ==
    /\ sender[s].pc = "served" /\ s \in recording
    /\ recording' = recording \ {s}
    /\ \/ SetPc(s, "done") /\ UNCHANGED lost
       \/ Failed(s, "Unavailable") /\ lost' = [lost EXCEPT ![s] = @ + 1]
    /\ UNCHANGED <<poolState, rule, serverUp, executed>>

\* Two calls write the map of the metrics at the same time.
MapRace ==
    /\ Cardinality(recording) > 1
    /\ serverUp' = FALSE
    /\ recording' = {}
    /\ lost' = [s \in Sender |-> IF s \in recording THEN lost[s] + 1 ELSE lost[s]]
    /\ sender' = [s \in Sender |->
          IF s \notin recording THEN sender[s]
          ELSE [sender[s] EXCEPT !.attempts = @ + 1,
                                 !.pc = IF sender[s].attempts + 1 < MaxAttempts THEN "backoff" ELSE "failed"]]
    /\ UNCHANGED <<poolState, rule, executed>>

\* The backoff is over, or the caller's deadline.
Retry(s) ==
    /\ sender[s].pc = "backoff"
    /\ SetPc(s, "calling") \/ SetPc(s, "failed")
    /\ UNCHANGED <<poolState, rule, recording, serverUp, executed, lost>>

TransportNext ==
    \/ \E p \in Peer :
         \/ AddPeer(p) \/ DialSucceeds(p) \/ DialTimesOut(p) \/ RemovePeer(p)
         \/ \E r \in {"none", "partition"} : SetRule(p, r)
         \/ \E s \in Sender : SendBegins(s, p)
    \/ ClosePool \/ MapRace
    \/ \E s \in Sender :
         \/ GetPeer(s) \/ AttemptFails(s) \/ HandlerRuns(s) \/ HandlerPanics(s) \/ Reply(s) \/ Retry(s)

\* Dials end by their timeout, goroutines that can run do run, and the lock is handed to
\* whoever waits for it.
TransportFairness ==
    /\ \A p \in Peer : WF_transportVars(DialTimesOut(p))
    /\ \A s \in Sender :
         /\ SF_transportVars(GetPeer(s))
         /\ WF_transportVars(AttemptFails(s)) /\ WF_transportVars(Reply(s)) /\ WF_transportVars(Retry(s))

TransportSpec == TransportInit /\ [][TransportNext]_transportVars /\ TransportFairness

-----------------------------------------------------------------------------
\* The open connections are the ones in the pool: none is opened twice for a peer or
\* left behind, however members join and leave while others dial (AddPeer, RemovePeer,
\* Close).
OpenIsPooled == open = {peers[p] : p \in {q \in Peer : peers[q] # 0}}

\* The handler runs again for a call only where a reply was lost: an answer, good or
\* bad, ends the call (RetryInterceptor).
RepeatedOnlyIfLost ==
    \A s \in Sender :
        /\ executed[s] <= lost[s] + 1
        /\ sender[s].pc = "done" => executed[s] = lost[s] + 1

\* Whoever sends comes to an end, though others dial peers that do not answer, with the
\* lock of the pool held (AddPeer, GetPeer, RetryInterceptor).
SendsEnd ==
    \A s \in Sender : sender[s].pc = "waiting" ~> sender[s].pc \in {"done", "failed", "dropped"}

\* What a node may expect of the transport: no connection is left behind, no call is
\* carried out again without need, and nobody waits for ever.
TransportIsSound == []OpenIsPooled /\ []RepeatedOnlyIfLost /\ SendsEnd
=============================================================================
