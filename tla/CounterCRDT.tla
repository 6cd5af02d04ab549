----------------------------- MODULE CounterCRDT -----------------------------
(***************************************************************************)
(* GCounter and PNCounter of pkg/consistency/crdt.go.  A PNCounter is two   *)
(* GCounters, each with its own mutex, and its Merge merges them one after  *)
(* the other: the other replica may count in between.                       *)
(***************************************************************************)
EXTENDS Integers, FiniteSetsExt

CONSTANTS
    Replica,
    MaxCounts        \* bound: calls of Increment and Decrement of a replica

ASSUME CounterAssumption == IsFiniteSet(Replica) /\ MaxCounts \in Nat

Sign == {"pos", "neg"}

VARIABLES
    counts,          \* GCounter.counts of both counters of each replica
    merging,         \* the replica whose negative counter is yet to be merged, or itself
    known            \* history: the calls whose effect has reached a replica, each with its amount

counterVars == <<counts, merging, known>>

CounterInit ==
    /\ counts = [r \in Replica |-> [s \in Sign |-> [n \in Replica |-> 0]]]
    /\ merging = [r \in Replica |-> r]
    /\ known = [r \in Replica |-> {}]

\* Increment(n) of the replica's positive or negative counter.
Increment(r, s, n) ==
    LET mine == {u \in known[r] : u.by = r}
    IN  /\ Cardinality(mine) < MaxCounts
        /\ counts' = [counts EXCEPT ![r][s][r] = @ + n]
        /\ known' = [known EXCEPT ![r] = @ \cup {[by |-> r, call |-> Cardinality(mine), sign |-> s, n |-> n]}]
        /\ UNCHANGED merging

\* Mutant: adds the counts up.
GMergedMutant(mine, other) == [n \in Replica |-> mine[n] + other[n]]

GMerged(mine, other) == [n \in Replica |-> Max({mine[n], other[n]})]

GMerge(r, o, s) ==
    /\ counts' = [counts EXCEPT ![r][s] = GMerged(counts[r][s], counts[o][s])]
    /\ known' = [known EXCEPT ![r] = @ \cup {u \in known[o] : u.sign = s}]

\* Merge: the positive counter first.
MergePositive(r, o) ==
    /\ merging[r] = r /\ o # r
    /\ GMerge(r, o, "pos")
    /\ merging' = [merging EXCEPT ![r] = o]

MergeNegative(r) ==
    /\ merging[r] # r
    /\ GMerge(r, merging[r], "neg")
    /\ merging' = [merging EXCEPT ![r] = r]

\* GCounter.Value and PNCounter.Value
GValue(r, s) == SumFunctionOnSet(counts[r][s], Replica)
PNValue(r) == GValue(r, "pos") - GValue(r, "neg")

CounterNext ==
    \E r \in Replica :
        \/ \E s \in Sign, n \in 1 .. 2 : Increment(r, s, n)
        \/ \E o \in Replica : MergePositive(r, o)
        \/ MergeNegative(r)

CounterSpec == CounterInit /\ [][CounterNext]_counterVars

-----------------------------------------------------------------------------
\* A replica's value counts every call that has reached it exactly once, by whatever
\* ways it came and however merges and counts interleave; so replicas that know the
\* same calls agree (Increment, Decrement, Merge, Value).
CountsEachOnce ==
    \A r \in Replica :
        PNValue(r) = SumFunction([u \in known[r] |-> IF u.sign = "pos" THEN u.n ELSE -u.n])
=============================================================================
