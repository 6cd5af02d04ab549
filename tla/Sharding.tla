------------------------------ MODULE Sharding ------------------------------
(***************************************************************************)
(* ShardMap, Router and Rebalancer of pkg/partition.  Splits and merges are *)
(* found by the rebalancer and carried out later, when the map may look     *)
(* different; the router caches leaders and clears the cache in a goroutine *)
(* that a split starts.                                                     *)
(*                                                                         *)
(* A key is a number: 0 is "", b + 1 the one-byte string b.  As the end of  *)
(* a range, "" is Top.  The statistics of shards are inputs, so every       *)
(* split and every merge that evaluate may ask for is possible.  Versions,  *)
(* Raft groups and the target of a request are not read by this code.       *)
(***************************************************************************)
EXTENDS Naturals, Sequences, FiniteSets

CONSTANTS
    NodeCount,             \* nodes are 1 .. NodeCount, 0 is none
    FirstByte, ByteRange,  \* 33 and 93 in the code: where the split points are
    NumShards,             \* shards at the start
    MaxShards,             \* bound: shards that are ever made
    MaxActions,            \* bound: actions of the rebalancer that wait at the same time
    Request,               \* requests of clients
    MaxRetries

ASSUME ShardingAssumption ==
    /\ NodeCount \in Nat \ {0} /\ FirstByte \in Nat /\ ByteRange \in Nat /\ NumShards \in Nat \ {0}
    /\ MaxShards \in Nat /\ NumShards <= MaxShards /\ MaxRetries \in Nat

VARIABLES
    made,             \* the shard descriptors, in the order they were made
    shards,           \* ShardMap.shards: positions in `made', by start key
    shardsByID,       \* a position in `made' for each id, 0 for none
    actions,          \* what the rebalancer has asked for so far
    leaderCache,      \* Router: a node for each id, 0 for none
    clears,           \* callbacks of splits that have not run yet
    request,
    collided,         \* history: a shard was given the id that another is known by
    lastHint, overlap \* history: the last redirect of an id; two of them at the same time

shardMapVars == <<made, shards, shardsByID>>
routerVars == <<leaderCache, clears, request, lastHint, overlap>>
shardingVars == <<shardMapVars, actions, routerVars, collided>>

ID == 0 .. MaxShards - 1
Top == FirstByte + ByteRange + 2

SplitPoint(i) == 1 + FirstByte + (ByteRange * i) \div NumShards

\* What Initialize makes, with the first node of assignReplicas.
FirstShard(i) ==
    [id |-> i,
     start |-> IF i = 0 THEN 0 ELSE SplitPoint(i),
     end |-> IF i = NumShards - 1 THEN Top ELSE SplitPoint(i + 1),
     leader |-> 0, replica |-> (i % NodeCount) + 1]

ShardingInit ==
    /\ made = <<>> /\ shards = <<>> /\ shardsByID = [id \in ID |-> 0]
    /\ actions = {}
    /\ leaderCache = [id \in ID |-> 0] /\ clears = 0
    /\ request = [r \in Request |-> [pc |-> "new", shard |-> 1, hint |-> 0, attempt |-> 0]]
    /\ collided = FALSE
    /\ lastHint = [id \in ID |-> 0]
    /\ overlap = [id \in ID |-> FALSE]

\* The server calls it once, when it starts.
Initialize ==
    /\ made = <<>>
    /\ made' = [i \in 1 .. NumShards |-> FirstShard(i - 1)]
    /\ shards' = [i \in 1 .. NumShards |-> i]
    /\ shardsByID' = [id \in ID |-> IF id < NumShards THEN id + 1 ELSE 0]
    /\ UNCHANGED <<actions, routerVars, collided>>

ContainsKey(d, key) == d.start <= key /\ key < d.end

\* sort.Search(StartKey > key) - 1, the position where a key is looked for.
IndexOf(key) ==
    LET below == {i \in DOMAIN shards : made[shards[i]].start <= key}
    IN  IF below = {} THEN 1 ELSE CHOOSE i \in below : \A j \in below : j <= i

\* A position in `made', 0 for an error.
Lookup(key) ==
    IF shards # <<>> /\ ContainsKey(made[shards[IndexOf(key)]], key) THEN shards[IndexOf(key)] ELSE 0

Beyond(d, endKey) == endKey # Top /\ d.start >= endKey

LookupRange(startKey, endKey) ==
    LET first == IndexOf(startKey)
    IN  {shards[i] : i \in {j \in first .. Len(shards) :
            \A k \in first .. j : ~Beyond(made[shards[k]], endKey)}}

-----------------------------------------------------------------------------
(* The rebalancer *)

\* The byte in the middle; a range without an end is not split.
FindSplitKey(d) ==
    CASE d.end = Top -> 0
      [] d.end # Top /\ d.start = 0 -> (d.end - 1) \div 2 + 1
      [] OTHER -> ((d.start - 1) + (d.end - 1)) \div 2 + 1

Asks(a) ==
    /\ Cardinality(actions) < MaxActions
    /\ actions' = actions \cup {a}

EvaluateSplit(i) ==
    LET d == made[shards[i]]
    IN  /\ FindSplitKey(d) # 0
        /\ Asks([type |-> "split", id |-> d.id, arg |-> FindSplitKey(d)])
        /\ UNCHANGED <<shardMapVars, routerVars, collided>>

EvaluateMerge(i) ==
    /\ i < Len(shards)
    /\ Asks([type |-> "merge", id |-> made[shards[i]].id, arg |-> made[shards[i + 1]].id])
    /\ UNCHANGED <<shardMapVars, routerVars, collided>>

-----------------------------------------------------------------------------
(* Whoever calls PendingActions carries them out *)

\* What was asked for at one tick is asked for again at the next, as long as the
\* statistics say so: an action may be there once more.
TakeAction(a) == actions' \in {actions, actions \ {a}}

\* Split and Merge return an error for what does not fit any more, or nobody carries it out.
Rejected(a) ==
    /\ actions' = actions \ {a}
    /\ UNCHANGED <<shardMapVars, routerVars, collided>>

\* The ids that an action stands for when it is carried out.
Names(a) == IF a.type = "split" THEN {a.id} ELSE {a.id, a.arg}

\* Insertion keeps the order of shards with the same start key, as sort.Slice does for
\* up to twelve of them.
Split(a) ==
    LET original == shardsByID[a.id]
        newID == Len(shards)
        new == [id |-> newID, start |-> a.arg, end |-> made[original].end, leader |-> 0,
                replica |-> (newID % NodeCount) + 1]
    IN  /\ a.type = "split" /\ Len(made) < MaxShards
        /\ original # 0 /\ ContainsKey(made[original], a.arg)
        /\ made' = Append([made EXCEPT ![original].end = a.arg], new)
        /\ shards' = LET before == Cardinality({i \in DOMAIN shards : made[shards[i]].start <= a.arg})
                     IN  SubSeq(shards, 1, before) \o <<Len(made) + 1>>
                            \o SubSeq(shards, before + 1, Len(shards))
        /\ shardsByID' = [shardsByID EXCEPT ![newID] = Len(made) + 1]
        /\ clears' = clears + 1
        /\ collided' = (collided \/ shardsByID[newID] # 0 \/ newID \in UNION {Names(b) : b \in actions})
        /\ lastHint' = [lastHint EXCEPT ![newID] = 0]
        /\ TakeAction(a)
        /\ UNCHANGED <<leaderCache, request, overlap>>

\* Mutant: does not look whether the shards are still neighbours.
AdjacentMutant(s1, s2) == TRUE

\* The end of the last shard and the start of the first are both "".
Adjacent(s1, s2) ==
    made[s1].end = made[s2].start \/ (made[s1].end = Top /\ made[s2].start = 0)

\* The sequence without some of its elements.
Without(s, gone) ==
    LET kept[i \in 0 .. Len(s)] ==
            IF i = 0 THEN <<>> ELSE IF s[i] \in gone THEN kept[i - 1] ELSE Append(kept[i - 1], s[i])
    IN  kept[Len(s)]

Merge(a) ==
    LET s1 == shardsByID[a.id]
        s2 == shardsByID[a.arg]
    IN  /\ a.type = "merge"
        /\ s1 # 0 /\ s2 # 0 /\ Adjacent(s1, s2)
        /\ made' = [made EXCEPT ![s1].end = made[s2].end]
        /\ shardsByID' = [shardsByID EXCEPT ![a.arg] = 0]
        /\ shards' = Without(shards, {s \in DOMAIN made : made[s].id = a.arg})
        /\ TakeAction(a)
        /\ UNCHANGED <<routerVars, collided>>

-----------------------------------------------------------------------------
(* The router *)

\* The callback of a split.
ClearCache ==
    /\ clears > 0
    /\ clears' = clears - 1
    /\ leaderCache' = [id \in ID |-> 0]
    /\ UNCHANGED <<shardMapVars, actions, request, collided, lastHint, overlap>>

\* The request keeps the descriptor, whatever becomes of the shard.
Route(r, key) ==
    /\ request[r].pc = "new" /\ Lookup(key) # 0
    /\ request' = [request EXCEPT ![r].pc = "routed", ![r].shard = Lookup(key)]
    /\ UNCHANGED <<shardMapVars, actions, leaderCache, clears, collided, lastHint, overlap>>

ResolveLeader(s) ==
    CASE leaderCache[made[s].id] # 0 -> leaderCache[made[s].id]
      [] leaderCache[made[s].id] = 0 /\ made[s].leader # 0 -> made[s].leader
      [] OTHER -> made[s].replica

Redirecting(id) == {r \in Request : request[r].pc = "redirecting" /\ made[request[r].shard].id = id}

\* HandleNotLeader with a hint: first the cache, then, after that lock is released, the map.
HandleNotLeader(r, hint) ==
    LET id == made[request[r].shard].id
    IN  /\ request[r].pc = "routed" /\ request[r].attempt < MaxRetries
        /\ leaderCache' = [leaderCache EXCEPT ![id] = hint]
        /\ request' = [request EXCEPT ![r].pc = "redirecting", ![r].hint = hint]
        /\ lastHint' = [lastHint EXCEPT ![id] = hint]
        /\ overlap' = [overlap EXCEPT ![id] = Redirecting(id) # {}]
        /\ UNCHANGED <<shardMapVars, actions, clears, collided>>

UpdateLeader(id, node) ==
    made' = IF shardsByID[id] = 0 THEN made ELSE [made EXCEPT ![shardsByID[id]].leader = node]

Redirected(r) ==
    /\ request[r].pc = "redirecting"
    /\ UpdateLeader(made[request[r].shard].id, request[r].hint)
    /\ request' = [request EXCEPT ![r].pc = "routed", ![r].hint = 0, ![r].attempt = @ + 1]
    /\ UNCHANGED <<shards, shardsByID, actions, leaderCache, clears, collided, lastHint, overlap>>

\* A node that knows no leader: the request is tried again with no target.
NoHint(r) ==
    /\ request[r].pc = "routed" /\ request[r].attempt < MaxRetries
    /\ request' = [request EXCEPT ![r].attempt = @ + 1]
    /\ UNCHANGED <<shardMapVars, actions, leaderCache, clears, collided, lastHint, overlap>>

ShardingNext ==
    \/ Initialize
    \/ \E i \in DOMAIN shards : EvaluateSplit(i) \/ EvaluateMerge(i)
    \/ \E a \in actions : Split(a) \/ Merge(a) \/ Rejected(a)
    \/ ClearCache
    \/ \E r \in Request :
         \/ \E key \in 0 .. Top - 1 : Route(r, key)
         \/ \E hint \in 1 .. NodeCount : HandleNotLeader(r, hint)
         \/ Redirected(r) \/ NoHint(r)

ShardingSpec == ShardingInit /\ [][ShardingNext]_shardingVars

-----------------------------------------------------------------------------
\* Every key has one shard and Lookup finds it, however stale the splits and merges are
\* that are carried out, as long as no shard was given an id that another has in the map
\* or in an action that waits (Split numbers shards by their count, which a merge lowers).
KeysAreCovered ==
    shards # <<>> /\ ~collided => \A key \in 0 .. Top - 1 :
        LET found == Lookup(key)
        IN  found # 0 /\ \A i \in DOMAIN shards : ContainsKey(made[shards[i]], key) <=> found = shards[i]

\* A scan asks every shard that has a key of its range (LookupRange, RouteRange).
RangeIsCovered ==
    shards # <<>> /\ ~collided =>
        LET found == [key \in 0 .. Top - 1 |-> Lookup(key)]
        IN  \A startKey \in 0 .. Top - 1 : \A endKey \in startKey + 1 .. Top :
                {found[key] : key \in startKey .. endKey - 1} \subseteq LookupRange(startKey, endKey)

\* After a redirect has come to its end, requests for the shard go where its hint said,
\* also when a split has the cache cleared at any moment, unless two redirects of the
\* shard overlapped (HandleNotLeader writes cache and map one after the other).
RedirectIsKept ==
    ~collided => \A i \in DOMAIN shards :
        LET id == made[shards[i]].id
        IN  lastHint[id] # 0 /\ Redirecting(id) = {} /\ ~overlap[id]
                => ResolveLeader(shards[i]) = lastHint[id]

\* Routing is right: a key, a range and a redirected request each find their shard.
RoutesAreRight == KeysAreCovered /\ RangeIsCovered /\ RedirectIsKept
=============================================================================
