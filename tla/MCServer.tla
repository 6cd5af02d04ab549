------------------------------ MODULE MCServer ------------------------------
(***************************************************************************)
(* The calls a server node makes and answers, for model checking: the       *)
(* tracker of linearizable reads, the circuit breaker, start and stop, and  *)
(* the transport.  Each has something that must eventually happen.  `part'  *)
(* says which of them this behaviour exercises, the others stay in their    *)
(* initial states.                                                          *)
(***************************************************************************)
EXTENDS ReadIndex, CircuitBreaker, NodeLifecycle, Transport

VARIABLE part

MCServerVars == <<part, readIndexVars, breakerVars, lifecycleVars, transportVars>>

MCServerInit ==
    /\ part \in {"readindex", "breaker", "lifecycle", "transport"}
    /\ ReadIndexInit /\ BreakerInit /\ LifecycleInit /\ TransportInit

MCServerNext ==
    /\ UNCHANGED part
    /\ IF part = "readindex" THEN ReadIndexNext ELSE UNCHANGED readIndexVars
    /\ IF part = "breaker" THEN BreakerNext ELSE UNCHANGED breakerVars
    /\ IF part = "lifecycle" THEN LifecycleNext ELSE UNCHANGED lifecycleVars
    /\ IF part = "transport" THEN TransportNext ELSE UNCHANGED transportVars

\* No fair action of a part is enabled in its initial state.
MCServerSpec ==
    /\ MCServerInit /\ [][MCServerNext]_MCServerVars
    /\ ReadIndexFairness /\ BreakerFairness /\ LifecycleFairness /\ TransportFairness
=============================================================================
