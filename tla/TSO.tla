-------------------------------- MODULE TSO --------------------------------
(***************************************************************************)
(* TimestampOracle of pkg/txn/tso.go.  The hybrid logical clock below it    *)
(* answers something higher at every call.  GetTimestamp looks at the batch *)
(* and allocates a new one in two sections of the mutex: several callers    *)
(* may find the batch empty.                                                *)
(***************************************************************************)
EXTENDS Naturals, FiniteSetsExt

CONSTANTS
    Caller,
    BatchSize,      \* 100 in the code
    MaxHLC          \* bound: highest answer of the clock

ASSUME TSOAssumption == BatchSize \in Nat \ {0} /\ MaxHLC \in Nat

VARIABLES
    tsoHLC,         \* the clock's last answer
    lastSaved, batchBase, batchRemaining,
    tsoCall,        \* "idle", or the call waits to allocate
    issued,         \* history: timestamps that GetTimestamp has returned
    repeated,       \* history: one was returned twice
    batchFloor      \* history: highest timestamp of earlier batches

tsoVars == <<tsoHLC, lastSaved, batchBase, batchRemaining, tsoCall, issued, repeated, batchFloor>>

TSOInit ==
    /\ tsoHLC = 0
    /\ lastSaved = 0 /\ batchBase = 0 /\ batchRemaining = 0
    /\ tsoCall = [c \in Caller |-> "idle"]
    /\ issued = {}
    /\ repeated = FALSE
    /\ batchFloor = 0

Issue(ts) ==
    /\ issued' = issued \cup {ts}
    /\ repeated' = (repeated \/ ts \in issued)

\* The fast path: a batch is handed out from its end.
GetTimestamp(c) ==
    /\ tsoCall[c] = "idle"
    /\ IF batchRemaining > 0
       THEN /\ Issue(batchBase + batchRemaining - 1)
            /\ batchRemaining' = batchRemaining - 1
            /\ UNCHANGED tsoCall
       ELSE /\ tsoCall' = [tsoCall EXCEPT ![c] = "empty"]
            /\ UNCHANGED <<batchRemaining, issued, repeated>>
    /\ UNCHANGED <<tsoHLC, lastSaved, batchBase, batchFloor>>

\* Mutant: only the first timestamp of the batch is remembered.
AllocateBatchMutant(c, now) ==
    /\ tsoCall[c] = "empty"
    /\ tsoHLC < now /\ tsoHLC' = now
    /\ batchBase' = IF now <= lastSaved THEN lastSaved + 1 ELSE now
    /\ batchRemaining' = BatchSize - 1
    /\ lastSaved' = batchBase'
    /\ batchFloor' = Max(issued \cup {0})
    /\ Issue(batchBase' + BatchSize - 1)
    /\ tsoCall' = [tsoCall EXCEPT ![c] = "idle"]

\* Does not look again whether there is a batch by now; what is left of it is lost.
AllocateBatch(c, now) ==
    /\ tsoCall[c] = "empty"
    /\ tsoHLC < now /\ tsoHLC' = now
    /\ batchBase' = IF now <= lastSaved THEN lastSaved + 1 ELSE now
    /\ batchRemaining' = BatchSize - 1
    /\ lastSaved' = batchBase' + BatchSize - 1
    /\ batchFloor' = Max(issued \cup {0})
    /\ Issue(batchBase' + BatchSize - 1)
    /\ tsoCall' = [tsoCall EXCEPT ![c] = "idle"]

\* GetStartTimestamp goes past the oracle, to the clock itself.
GetStartTimestamp(now) ==
    /\ tsoHLC < now /\ tsoHLC' = now
    /\ UNCHANGED <<lastSaved, batchBase, batchRemaining, tsoCall, issued, repeated, batchFloor>>

\* Persist saves nothing, and Recover only ever raises lastSaved.
Recover(p) ==
    /\ lastSaved' = IF p > lastSaved THEN p ELSE lastSaved
    /\ UNCHANGED <<tsoHLC, batchBase, batchRemaining, tsoCall, issued, repeated, batchFloor>>

TSONext ==
    \/ \E c \in Caller : GetTimestamp(c) \/ \E now \in 1 .. MaxHLC : AllocateBatch(c, now)
    \/ \E now \in 1 .. MaxHLC : GetStartTimestamp(now) \/ Recover(now)

TSOSpec == TSOInit /\ [][TSONext]_tsoVars

-----------------------------------------------------------------------------
\* No timestamp is returned twice, and what is left of a batch lies above everything
\* earlier batches gave out, also when two callers allocate at the same time and when
\* the clock lags behind the batches (GetTimestamp, allocateBatch).
TimestampsAreNew ==
    /\ ~repeated
    /\ batchRemaining > 0 => batchBase > batchFloor
=============================================================================
