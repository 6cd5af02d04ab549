------------------------------- MODULE Query -------------------------------
(***************************************************************************)
(* QueryPlanner and ScatterGather of pkg/query: a query is sent to the      *)
(* shards that may have its keys, which answer in any order, fail, or       *)
(* answer too late.                                                         *)
(*                                                                         *)
(* A string is a sequence of bytes; as the end of a range "" stands for no  *)
(* end.  The shards are external: a shard returns the entries of its range  *)
(* that lie in the range of its sub-query.  Filter is nil.                  *)
(***************************************************************************)
EXTENDS Integers, Sequences, FiniteSetsExt, Functions

CONSTANTS
    SplitKeys,   \* the start keys of all shards but the first: each shard ends where the next starts
    StoredKeys,  \* keys that may be stored
    QueryKeys,   \* start keys, end keys and prefixes of queries
    QueryLimits,
    QueryValues

VARIABLES
    dataset,     \* the value of each key that is stored
    query,       \* the query, with its shards
    answers,     \* what has come from each shard: "pending", "ok" or "err"
    outcome      \* "idle", "waiting", "done" or "timeout"

queryVars == <<dataset, query, answers, outcome>>

\* The order of Go strings.
Before(a, b) ==
    \E d \in DOMAIN b : /\ d <= Len(a) + 1
                        /\ \A i \in 1 .. d - 1 : a[i] = b[i]
                        /\ d <= Len(a) => a[d] < b[d]

NotAfter(a, b) == a = b \/ Before(a, b)

HasPrefix(s, prefix) == Len(prefix) <= Len(s) /\ SubSeq(s, 1, Len(prefix)) = prefix

\* [startKey, endKey)
InRange(key, startKey, endKey) == NotAfter(startKey, key) /\ (endKey = <<>> \/ Before(key, endKey))

ASSUME QueryAssumption ==
    /\ StoredKeys \subseteq Seq(Nat) \ {<<>>} /\ IsFiniteSet(StoredKeys)
    /\ QueryKeys \subseteq Seq(Nat) /\ QueryLimits \subseteq Nat /\ QueryValues \subseteq Int
    /\ SplitKeys \in Seq(Seq(Nat))
    /\ \A i \in DOMAIN SplitKeys : SplitKeys[i] # <<>>
    /\ \A i, j \in DOMAIN SplitKeys : i < j => Before(SplitKeys[i], SplitKeys[j])

ShardCount == Len(SplitKeys) + 1
StartKey(i) == IF i = 1 THEN <<>> ELSE SplitKeys[i - 1]
EndKey(i) == IF i = ShardCount THEN <<>> ELSE SplitKeys[i]

\* Mutant: the last shard has an end.
OutsideRangeMutant(q, i) ==
    \/ q.start # <<>> /\ NotAfter(EndKey(i), q.start)
    \/ q.end # <<>> /\ StartKey(i) # <<>> /\ NotAfter(q.end, StartKey(i))

OutsideRange(q, i) ==
    \/ q.start # <<>> /\ EndKey(i) # <<>> /\ NotAfter(EndKey(i), q.start)
    \/ q.end # <<>> /\ StartKey(i) # <<>> /\ NotAfter(q.end, StartKey(i))

OutsidePrefix(p, i) ==
    \/ EndKey(i) # <<>> /\ Before(EndKey(i), p)
    \/ /\ StartKey(i) # <<>> /\ Before(p, StartKey(i)) /\ ~HasPrefix(StartKey(i), p)
       /\ ~HasPrefix(p, SubSeq(StartKey(i), 1, Min({Len(p), Len(StartKey(i))})))

PruneShards(q) ==
    {i \in 1 .. ShardCount : ~OutsideRange(q, i) /\ (q.prefix # <<>> => ~OutsidePrefix(q.prefix, i))}

MaxStr(a, b) == IF Before(b, a) THEN a ELSE b
MinStr(a, b) == CASE a = <<>> -> b [] b = <<>> -> a [] a # <<>> /\ b # <<>> /\ Before(a, b) -> a [] OTHER -> b

\* The first entries of a set of keys, all of them if there is no limit.
FirstOf(keys, limit) ==
    IF limit = 0 THEN keys
    ELSE {k \in keys : Cardinality({j \in keys : Before(j, k)}) < limit}

\* The keys of shard i that its sub-query asks for, without the limit that Plan pushes down.
Asked(q, i) ==
    {k \in DOMAIN dataset : /\ InRange(k, StartKey(i), EndKey(i))
                          /\ InRange(k, MaxStr(q.start, StartKey(i)), MinStr(q.end, EndKey(i)))}

\* ExecuteShard, with the zero values of a ShardResult for what it has not computed.
ShardResult(q, i) ==
    LET keys == FirstOf(Asked(q, i), q.limit)
        values == {dataset[k] : k \in keys}
    IN  [entries |-> keys, count |-> Cardinality(keys),
         sum |-> SumFunctionOnSet(dataset, keys),
         min |-> IF keys = {} THEN 0 ELSE Min(values),
         max |-> Max(values \cup {0})]

Answered(status) == {i \in query.shards : answers[i] = status}

PartialResult == Answered("err") # {}

MergedCount == SumFunction([i \in Answered("ok") |-> ShardResult(query, i).count])

MergedSum == SumFunction([i \in Answered("ok") |-> ShardResult(query, i).sum])

MergedMin == IF Answered("ok") = {} THEN 0 ELSE Min({ShardResult(query, i).min : i \in Answered("ok")})

MergedMax == Max({ShardResult(query, i).max : i \in Answered("ok")} \cup {0})

\* The entries of all shards, sorted and cut off; their order is that of their keys.
MergedEntries == FirstOf(UNION {ShardResult(query, i).entries : i \in Answered("ok")}, query.limit)

-----------------------------------------------------------------------------
Queries ==
    [start : QueryKeys, end : QueryKeys, prefix : {<<>>}, limit : QueryLimits]
        \cup [start : {<<>>}, end : {<<>>}, prefix : QueryKeys, limit : {0}]

QueryInit ==
    /\ dataset = <<>>
    /\ query = [start |-> <<>>, end |-> <<>>, prefix |-> <<>>, limit |-> 0, shards |-> {}]
    /\ answers = [i \in 1 .. ShardCount |-> "pending"]
    /\ outcome = "idle"

\* Execute up to the loop; with no shard to ask, the result is empty.
Execute(q) ==
    /\ outcome = "idle"
    /\ \E keys \in SUBSET StoredKeys : \E data \in [keys -> QueryValues] : dataset' = data
    /\ query' = [start |-> q.start, end |-> q.end, prefix |-> q.prefix, limit |-> q.limit,
                 shards |-> PruneShards(q)]
    /\ outcome' = IF PruneShards(q) = {} THEN "done" ELSE "waiting"
    /\ UNCHANGED answers

\* A result comes out of the channel; the last one is followed by merge.
Collect(i, status) ==
    /\ outcome = "waiting" /\ i \in Answered("pending")
    /\ answers' = [answers EXCEPT ![i] = status]
    /\ outcome' = IF Answered("pending") = {i} THEN "done" ELSE "waiting"
    /\ UNCHANGED <<dataset, query>>

QueryTimeout ==
    /\ outcome = "waiting"
    /\ outcome' = "timeout"
    /\ UNCHANGED <<dataset, query, answers>>

QueryNext ==
    \/ \E q \in Queries : Execute(q)
    \/ \E i \in 1 .. ShardCount, status \in {"ok", "err"} : Collect(i, status)
    \/ QueryTimeout

QuerySpec == QueryInit /\ [][QueryNext]_queryVars

-----------------------------------------------------------------------------
Wanted == {k \in DOMAIN dataset : InRange(k, query.start, query.end)}

\* A scan of a range that is not marked as partial returns exactly the first entries of
\* the range, although shards were left out (pruneShards) and each was told the limit; a
\* partial one returns no key that is outside the range.
ScanIsExact ==
    outcome = "done" /\ query.prefix = <<>> =>
        IF PartialResult THEN MergedEntries \subseteq Wanted ELSE MergedEntries = FirstOf(Wanted, query.limit)

\* No shard with a key of the prefix is left out (pruneShards): a result that is not
\* partial has them all.  It may have others too, because Plan does not pass the prefix on.
PrefixIsCovered ==
    outcome = "done" /\ query.prefix # <<>> /\ ~PartialResult =>
        {k \in DOMAIN dataset : HasPrefix(k, query.prefix)} \subseteq MergedEntries

\* Aggregates computed by the shards and merged in any order are those of the whole range.
\* The minimum needs an entry in each shard that was asked, and the maximum a value that
\* is not negative: merge cannot tell a zero from nothing.
AggregatesAgree ==
    outcome = "done" /\ query.prefix = <<>> /\ query.limit = 0 /\ ~PartialResult =>
        /\ MergedCount = Cardinality(Wanted)
        /\ MergedSum = SumFunctionOnSet(dataset, Wanted)
        /\ (\A i \in query.shards : Asked(query, i) # {}) /\ Wanted # {}
               => MergedMin = Min({dataset[k] : k \in Wanted})
        /\ (\E k \in Wanted : dataset[k] >= 0) => MergedMax = Max({dataset[k] : k \in Wanted})

\* Distribution does not show in the result: scans, prefixes and aggregates are those of
\* one store, unless the result is marked as partial.
ResultsAreExact == ScanIsExact /\ PrefixIsCovered /\ AggregatesAgree
=============================================================================
