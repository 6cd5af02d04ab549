---------------------------- MODULE RateLimiters ----------------------------
(***************************************************************************)
(* The limiters of pkg/ratelimit/limiter.go, in which time is counted in    *)
(* ticks.                                                                   *)
(*                                                                         *)
(* TokenBucket and DistributedRateLimiter: one bucket for each node of the  *)
(* cluster, with a share of the global limit.  A bucket gains Rate tokens   *)
(* in a tick and holds at most Capacity.  Every call holds its mutex.       *)
(*                                                                         *)
(* SlidingWindowCounter: Window ticks in a window; the weighted count of    *)
(* the previous window is kept as a fraction with denominator Window.       *)
(***************************************************************************)
EXTENDS Integers, FiniteSetsExt

CONSTANTS
    Limiter,          \* nodes with a bucket
    Capacity, Rate,
    MaxTime           \* bound: ticks

ASSUME BucketAssumption ==
    IsFiniteSet(Limiter) /\ Capacity \in Nat /\ Rate \in Nat /\ MaxTime \in Nat

VARIABLES
    clock,
    tokens, lastTime,
    localLimit, peerRates,     \* what gossip says of the peers
    admitted          \* history: tokens given out in each tick

bucketVars == <<clock, tokens, lastTime, localLimit, peerRates, admitted>>

GlobalLimit == Capacity * Cardinality(Limiter)

BucketInit ==
    /\ clock = 0
    /\ tokens = [n \in Limiter |-> Capacity]
    /\ lastTime = [n \in Limiter |-> 0]
    /\ localLimit = [n \in Limiter |-> Capacity]
    /\ peerRates = [n \in Limiter |-> [p \in Limiter |-> 0]]
    /\ admitted = [n \in Limiter |-> [t \in 0 .. MaxTime |-> 0]]

TimePasses ==
    /\ clock < MaxTime
    /\ clock' = clock + 1
    /\ UNCHANGED <<tokens, lastTime, localLimit, peerRates, admitted>>

\* Mutant: a bucket that was idle fills beyond its capacity.
RefilledMutant(n) == tokens[n] + (clock - lastTime[n]) * Rate

Refilled(n) == Min({Capacity, tokens[n] + (clock - lastTime[n]) * Rate})

\* Allow(cost): refills, and takes the tokens if they are there.  Wait is a loop of such calls.
AllowCost(n, cost) ==
    LET taken == IF Refilled(n) >= cost THEN cost ELSE 0
    IN  /\ tokens' = [tokens EXCEPT ![n] = Refilled(n) - taken]
        /\ lastTime' = [lastTime EXCEPT ![n] = clock]
        /\ admitted' = [admitted EXCEPT ![n][clock] = @ + taken]
        /\ UNCHANGED <<clock, localLimit, peerRates>>

\* AllowN(k): as many as there are, at most k.
AllowN(n, k) ==
    LET taken == Min({k, Refilled(n)})
    IN  /\ tokens' = [tokens EXCEPT ![n] = Refilled(n) - taken]
        /\ lastTime' = [lastTime EXCEPT ![n] = clock]
        /\ admitted' = [admitted EXCEPT ![n][clock] = @ + taken]
        /\ UNCHANGED <<clock, localLimit, peerRates>>

\* CurrentRate of a peer arrives.  The limit is recomputed within its bounds, a tenth of the
\* global limit (in whole tokens) and the global limit; the bucket
\* is left as it is.
UpdatePeerRate(n, p) ==
    LET rates == [peerRates[n] EXCEPT ![p] = localLimit[p] - tokens[p]]
        total == SumFunctionOnSet(rates, Limiter \ {n})
    IN  /\ n # p
        /\ peerRates' = [peerRates EXCEPT ![n] = rates]
        /\ localLimit' = [localLimit EXCEPT ![n] =
              Min({GlobalLimit, Max({GlobalLimit \div 10, GlobalLimit - total})})]
        /\ UNCHANGED <<clock, tokens, lastTime, admitted>>

BucketNext ==
    \/ TimePasses
    \/ \E n \in Limiter :
         \/ AllowCost(n, 1)
         \/ \E k \in 1 .. 2 : AllowN(n, k)
         \/ \E p \in Limiter : UpdatePeerRate(n, p)

BucketSpec == BucketInit /\ [][BucketNext]_bucketVars

-----------------------------------------------------------------------------
Given(n, from, to) == SumFunctionOnSet(admitted[n], from .. to)

\* In every stretch of time, wherever it begins, the cluster admits at most the burst
\* and what the rate allows, however calls, idle times and gossip are mixed (Allow,
\* AllowN, UpdatePeerRate).
WindowIsBounded ==
    \A from \in 0 .. clock : \A to \in from .. clock :
        SumFunction([n \in Limiter |-> Given(n, from, to)])
            <= Cardinality(Limiter) * (Capacity + Rate * (to - from))

-----------------------------------------------------------------------------
(* The sliding window *)

CONSTANTS
    Limit, Window,
    MaxTicks          \* bound: ticks

ASSUME WindowAssumption == Limit \in Nat /\ Window \in Nat \ {0} /\ MaxTicks \in Nat

VARIABLES
    now, currCount, prevCount, windowStart,
    passed            \* history: requests let through in each tick

windowVars == <<now, currCount, prevCount, windowStart, passed>>

WindowInit ==
    /\ now = 0
    /\ currCount = 0 /\ prevCount = 0 /\ windowStart = 0
    /\ passed = [t \in 0 .. MaxTicks |-> 0]

WindowTick ==
    /\ now < MaxTicks
    /\ now' = now + 1
    /\ UNCHANGED <<currCount, prevCount, windowStart, passed>>

\* After two windows without a request the previous count is stale too.
Previous(elapsed) ==
    CASE elapsed >= 2 * Window -> 0
      [] elapsed >= Window /\ elapsed < 2 * Window -> currCount
      [] OTHER -> prevCount

\* prev * (1 - elapsed / Window) + curr, rounded down
Estimated(prev, curr, elapsed) == (prev * (Window - elapsed) + curr * Window) \div Window

AllowRequest ==
    LET elapsed == now - windowStart
        curr == IF elapsed >= Window THEN 0 ELSE currCount
        start == windowStart + (elapsed \div Window) * Window
        allowed == Estimated(Previous(elapsed), curr, now - start) + 1 <= Limit
    IN  /\ prevCount' = Previous(elapsed)
        /\ windowStart' = start
        /\ currCount' = IF allowed THEN curr + 1 ELSE curr
        /\ passed' = IF allowed THEN [passed EXCEPT ![now] = @ + 1] ELSE passed
        /\ UNCHANGED now

WindowNext == WindowTick \/ AllowRequest

WindowSpec == WindowInit /\ [][WindowNext]_windowVars

-----------------------------------------------------------------------------
PassedIn(from, to) == SumFunctionOnSet(passed, from .. to)

\* The counter is an approximation: any Window ticks in a row let at most twice the
\* limit through, wherever they begin (Allow).
AtMostTwice ==
    \A from \in 0 .. now : PassedIn(from, Min({now, from + Window - 1})) <= 2 * Limit

-----------------------------------------------------------------------------
\* No limiter of limiter.go lets more through, in any stretch of time, than it promises.
RatesAreBounded == WindowIsBounded /\ AtMostTwice
=============================================================================
