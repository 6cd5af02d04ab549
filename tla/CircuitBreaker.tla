--------------------------- MODULE CircuitBreaker ---------------------------
(***************************************************************************)
(* CircuitBreaker of pkg/ratelimit/limiter.go as Put uses it                *)
(* (pkg/server/node.go): a caller asks Allow, may return without a result   *)
(* because the node is not leader, or reports Success or Failure, possibly  *)
(* long after the breaker has changed its state.                            *)
(*                                                                         *)
(* totalRequests matters by its value while the circuit is closed and by    *)
(* its parity otherwise, so it is kept modulo 2 then; successes are counted *)
(* where they are looked at.                                                *)
(***************************************************************************)
EXTENDS Naturals

CONSTANTS
    Caller,
    MinSample,          \* 10 in the code
    SuccessThreshold,   \* 5 in the code
    MaxRequests         \* bound: requests counted while the circuit is closed

ASSUME BreakerAssumption ==
    MinSample \in Nat /\ SuccessThreshold \in Nat \ {0} /\ MaxRequests \in Nat

VARIABLES
    circuit,            \* "closed", "open" or "half-open"
    failures, successes, totalRequests,
    cooled,             \* the cooldown since openedAt is over
    inFlight,           \* callers that were let through and have not come back
    healthy             \* from now on the node is leader and proposals succeed

breakerVars == <<circuit, failures, successes, totalRequests, cooled, inFlight, healthy>>

BreakerInit ==
    /\ circuit = "closed"
    /\ failures = 0 /\ successes = 0 /\ totalRequests = 0
    /\ cooled = FALSE
    /\ inFlight = {}
    /\ healthy = FALSE

AllowClosed(c) ==
    /\ circuit = "closed" /\ totalRequests < MaxRequests
    /\ totalRequests' = totalRequests + 1
    /\ inFlight' = inFlight \cup {c}
    /\ UNCHANGED <<circuit, failures, successes, cooled, healthy>>

\* The first request after the cooldown is let through.
AllowOpen(c) ==
    /\ circuit = "open" /\ cooled
    /\ circuit' = "half-open"
    /\ successes' = 0 /\ failures' = 0
    /\ totalRequests' = (totalRequests + 1) % 2
    /\ inFlight' = inFlight \cup {c}
    /\ UNCHANGED <<cooled, healthy>>

\* Mutant: only requests that are let through are counted.
AllowHalfOpenMutant(c) ==
    /\ circuit = "half-open" /\ totalRequests = 1
    /\ totalRequests' = 0
    /\ inFlight' = inFlight \cup {c}
    /\ UNCHANGED <<circuit, failures, successes, cooled, healthy>>

\* Every other request is let through; all are counted.
AllowHalfOpen(c) ==
    /\ circuit = "half-open"
    /\ totalRequests' = (totalRequests + 1) % 2
    /\ inFlight' = IF totalRequests' = 0 THEN inFlight \cup {c} ELSE inFlight
    /\ UNCHANGED <<circuit, failures, successes, cooled, healthy>>

Allow(c) == c \notin inFlight /\ (AllowClosed(c) \/ AllowOpen(c) \/ AllowHalfOpen(c))

\* Not leader: Put returns and reports nothing.
NoReport(c) ==
    /\ c \in inFlight /\ ~healthy
    /\ inFlight' = inFlight \ {c}
    /\ UNCHANGED <<circuit, failures, successes, totalRequests, cooled, healthy>>

Success(c) ==
    /\ c \in inFlight
    /\ inFlight' = inFlight \ {c}
    /\ IF circuit = "half-open" /\ successes + 1 >= SuccessThreshold
       THEN /\ circuit' = "closed"
            /\ successes' = 0 /\ failures' = 0 /\ totalRequests' = 0
       ELSE /\ successes' = IF circuit = "half-open" THEN successes + 1 ELSE successes
            /\ UNCHANGED <<circuit, failures, totalRequests>>
    /\ UNCHANGED <<cooled, healthy>>

Opens == circuit' = "open" /\ cooled' = FALSE /\ totalRequests' = totalRequests % 2

Failure(c) ==
    /\ c \in inFlight /\ ~healthy
    /\ inFlight' = inFlight \ {c}
    /\ failures' = IF circuit = "closed" THEN failures + 1 ELSE failures
    /\ CASE circuit = "closed" /\ totalRequests > MinSample /\ 2 * failures' >= totalRequests -> Opens
         [] circuit = "half-open" -> Opens
         [] OTHER -> UNCHANGED <<circuit, cooled, totalRequests>>
    /\ UNCHANGED <<successes, healthy>>

Cooldown ==
    /\ circuit = "open" /\ ~cooled
    /\ cooled' = TRUE
    /\ UNCHANGED <<circuit, failures, successes, totalRequests, inFlight, healthy>>

\* External: what made the proposals fail is over.
Recovers ==
    /\ ~healthy
    /\ healthy' = TRUE
    /\ UNCHANGED <<circuit, failures, successes, totalRequests, cooled, inFlight>>

BreakerNext ==
    \/ \E c \in Caller : Allow(c) \/ NoReport(c) \/ Success(c) \/ Failure(c)
    \/ Cooldown \/ Recovers

\* Callers keep calling while the circuit is not closed, calls end, time passes.
BreakerFairness ==
    /\ \A c \in Caller : WF_breakerVars(circuit # "closed" /\ Allow(c)) /\ WF_breakerVars(Success(c))
    /\ WF_breakerVars(Cooldown)

BreakerSpec == BreakerInit /\ [][BreakerNext]_breakerVars /\ BreakerFairness

-----------------------------------------------------------------------------
\* Once proposals succeed again, the circuit closes and stays closed, whatever results
\* of earlier periods still come in and in whatever state they meet the breaker
\* (Allow, Success, Failure).
BreakerRecovers == healthy ~> [](circuit = "closed")
=============================================================================
