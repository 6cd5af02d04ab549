--------------------------- MODULE NodeLifecycle ---------------------------
(***************************************************************************)
(* Start and Stop of HermesNode (pkg/server/node.go) with the gRPC server   *)
(* (pkg/transport/server.go) and its interceptors, and the loop of RaftNode *)
(* (pkg/raft/node.go) as far as it answers proposals and applies entries.   *)
(*                                                                         *)
(* The server accepts calls before the parts they use exist: such a call    *)
(* panics, and RecoveryInterceptor turns that into an error.  Stop runs     *)
(* while calls are inside.                                                  *)
(***************************************************************************)
EXTENDS Naturals, Sequences

CONSTANTS Call       \* calls that arrive over gRPC

\* The order of Start.  The gRPC server listens from its own step on.
Boot == <<"observability", "storage", "grpc", "membership", "raftTrans", "raftNode",
          "shardMap", "consistency", "rateLimiting", "ready">>

\* What a handler uses without looking whether it is there.
Uses(kind) ==
    CASE kind = "put"  -> {"raftNode", "rateLimiting"}
      [] kind = "get"  -> {"raftNode", "consistency"}
      [] kind = "raft" -> {"raftNode"}
      [] OTHER         -> {}

VARIABLES
    booted,          \* steps of Start that are done
    startFailed,     \* Start has returned an error
    stop,            \* how far Stop is
    loop,            \* the Raft loop: "none", "idle", "applying" or "gone"
    engineOpen,
    proposals,       \* proposeCh
    call             \* the calls: pc, kind, and whether the node was ready and not stopping

lifecycleVars == <<booted, startFailed, stop, loop, engineOpen, proposals, call>>

LifecycleInit ==
    /\ booted = 0 /\ startFailed = FALSE
    /\ stop = "no"
    /\ loop = "none"
    /\ engineOpen = FALSE
    /\ proposals = {}
    /\ call = [c \in Call |-> [pc |-> "new", kind |-> "none", ready |-> FALSE]]

IsUp(part) == \E i \in 1 .. booted : Boot[i] = part

Ready == IsUp("ready")

\* A step of Start.  The engine is opened by "storage", the loop started by "raftNode".
StartStep ==
    /\ booted < Len(Boot) /\ ~startFailed
    /\ booted' = booted + 1
    /\ engineOpen' = IF Boot[booted'] = "storage" THEN TRUE ELSE engineOpen
    /\ loop' = IF Boot[booted'] = "raftNode" THEN "idle" ELSE loop
    /\ UNCHANGED <<startFailed, stop, proposals, call>>

\* Opening the storage or listening fails: Start returns, and stops nothing of what runs.
StartFails ==
    /\ booted < Len(Boot) /\ ~startFailed
    /\ Boot[booted + 1] \in {"storage", "grpc"}
    /\ startFailed' = TRUE
    /\ UNCHANGED <<booted, stop, loop, engineOpen, proposals, call>>

Accepting == IsUp("grpc") /\ stop \in {"no", "cancelled"}

Arrive(c, kind) ==
    /\ Accepting /\ call[c].pc = "new"
    /\ call' = [call EXCEPT ![c] = [pc |-> "inside", kind |-> kind, ready |-> Ready /\ stop = "no"]]
    /\ UNCHANGED <<booted, startFailed, stop, loop, engineOpen, proposals>>

\* The handler goes on: it panics, is refused by the test of raftTrans, hands its
\* proposal to the Raft loop, or ends.
Handle(c) ==
    /\ call[c].pc = "inside"
    /\ \/ /\ call[c].kind = "raft" /\ ~IsUp("raftTrans")
          /\ call' = [call EXCEPT ![c].pc = "ended"]
          /\ UNCHANGED proposals
       \/ /\ call[c].kind # "raft" \/ IsUp("raftTrans")
          /\ \E part \in Uses(call[c].kind) : ~IsUp(part)
          /\ call' = [call EXCEPT ![c].pc = "panicked"]
          /\ UNCHANGED proposals
       \/ /\ \A part \in Uses(call[c].kind) : IsUp(part)
          /\ IF call[c].kind = "put" /\ loop # "gone"
             THEN /\ call' = [call EXCEPT ![c].pc = "proposed"]
                  /\ proposals' = proposals \cup {c}
             ELSE /\ call' = [call EXCEPT ![c].pc = "ended"]
                  /\ UNCHANGED proposals
    /\ UNCHANGED <<booted, startFailed, stop, loop, engineOpen>>

\* RecoveryInterceptor
Recovered(c) ==
    /\ call[c].pc = "panicked"
    /\ call' = [call EXCEPT ![c].pc = "ended"]
    /\ UNCHANGED <<booted, startFailed, stop, loop, engineOpen, proposals>>

\* The Raft loop takes a proposal, applies what that commits, and answers.
LoopTakes(c) ==
    /\ loop = "idle" /\ c \in proposals
    /\ proposals' = proposals \ {c}
    /\ loop' = "applying"
    /\ call' = [call EXCEPT ![c].pc = IF @ = "proposed" THEN "answered" ELSE @]
    /\ UNCHANGED <<booted, startFailed, stop, engineOpen>>

LoopApplied ==
    /\ loop = "applying"
    /\ loop' = "idle"
    /\ UNCHANGED <<booted, startFailed, stop, engineOpen, proposals, call>>

ProposeReturns(c) ==
    /\ call[c].pc = "answered"
    /\ call' = [call EXCEPT ![c].pc = "ended"]
    /\ UNCHANGED <<booted, startFailed, stop, loop, engineOpen, proposals>>

\* Mutant: a proposal waits for its answer, however long it takes.
TimesOutMutant(c) == FALSE /\ UNCHANGED lifecycleVars

\* TimeoutInterceptor gave the call a deadline; Propose looks at it and not at stopCh.
TimesOut(c) ==
    /\ call[c].pc = "proposed"
    /\ call' = [call EXCEPT ![c].pc = "ended"]
    /\ UNCHANGED <<booted, startFailed, stop, loop, engineOpen, proposals>>

-----------------------------------------------------------------------------
(* Stop, for a node that has started *)

StopsFrom(from, to) == stop = from /\ stop' = to

StopBegins ==
    /\ Ready /\ StopsFrom("no", "cancelled")
    /\ UNCHANGED <<booted, startFailed, loop, engineOpen, proposals, call>>

\* grpcServer.Stop: no call is accepted any more; waits for the calls that are inside.
GrpcStops ==
    /\ StopsFrom("cancelled", "draining")
    /\ UNCHANGED <<booted, startFailed, loop, engineOpen, proposals, call>>

Drained == \A c \in Call : call[c].pc \in {"new", "ended"}

GracefulStop ==
    /\ Drained /\ StopsFrom("draining", "drained")
    /\ UNCHANGED <<booted, startFailed, loop, engineOpen, proposals, call>>

\* After thirty seconds the server stops without waiting for the calls.
ForcedStop ==
    /\ StopsFrom("draining", "drained")
    /\ UNCHANGED <<booted, startFailed, loop, engineOpen, proposals, call>>

\* RaftNode.Stop returns when the loop has: it finishes what it is at.
RaftStops ==
    /\ loop = "idle" /\ StopsFrom("drained", "raftStopped")
    /\ loop' = "gone"
    /\ UNCHANGED <<booted, startFailed, engineOpen, proposals, call>>

\* Membership, connections and then the engine.
EngineCloses ==
    /\ StopsFrom("raftStopped", "stopped")
    /\ engineOpen' = FALSE
    /\ UNCHANGED <<booted, startFailed, loop, proposals, call>>

LifecycleNext ==
    \/ StartStep \/ StartFails
    \/ \E c \in Call :
         \/ \E kind \in {"put", "get", "raft", "ping"} : Arrive(c, kind)
         \/ Handle(c) \/ Recovered(c) \/ LoopTakes(c) \/ ProposeReturns(c) \/ TimesOut(c)
    \/ LoopApplied
    \/ StopBegins \/ GrpcStops \/ GracefulStop \/ ForcedStop \/ RaftStops \/ EngineCloses

\* Goroutines that can run do run, and deadlines pass.
LifecycleFairness ==
    /\ \A c \in Call : WF_lifecycleVars(Handle(c)) /\ WF_lifecycleVars(Recovered(c))
                       /\ WF_lifecycleVars(ProposeReturns(c)) /\ WF_lifecycleVars(TimesOut(c))
    /\ WF_lifecycleVars(LoopApplied) /\ WF_lifecycleVars(GrpcStops) /\ WF_lifecycleVars(ForcedStop)
    /\ SF_lifecycleVars(RaftStops) /\ WF_lifecycleVars(EngineCloses)

LifecycleSpec == LifecycleInit /\ [][LifecycleNext]_lifecycleVars /\ LifecycleFairness

-----------------------------------------------------------------------------
\* A call that arrives after WaitReady has returned and before Stop finds everything it
\* uses: only calls that come too early panic (Start, close(n.ready)).
ReadyMeansServed == \A c \in Call : call[c].pc = "panicked" => ~call[c].ready

\* The Raft loop never applies an entry to an engine that is closed or not yet open, also
\* when Stop gives up on calls that are still inside (Stop, startRaft).
AppliesToOpenEngine == loop = "applying" => engineOpen

\* Every call ends, in spite of proposals that the loop leaves unanswered when it stops,
\* and so does Stop (TimeoutInterceptor, Propose, Stop).
CallsAndStopEnd ==
    /\ \A c \in Call : call[c].pc # "new" ~> call[c].pc = "ended"
    /\ stop # "no" ~> stop = "stopped"

\* What a call or the Raft loop uses exists while it is used, from Start to Stop, and both
\* come to their end.
LifecycleIsSound == []ReadyMeansServed /\ []AppliesToOpenEngine /\ CallsAndStopEnd
=============================================================================
