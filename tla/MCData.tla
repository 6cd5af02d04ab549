------------------------------- MODULE MCData -------------------------------
(***************************************************************************)
(* What clients see, for model checking: reads and writes of the key-value  *)
(* service, clocks, replicated data types, the lock service, the history    *)
(* checkers, the rate limiters, and how data is placed, stored, queried,    *)
(* streamed and recorded.  They share no state: `part' says which of them   *)
(* this behaviour exercises, the others stay in their initial states.       *)
(***************************************************************************)
EXTENDS LogicalClocks, SetCRDT, DistLock, Checkers,
        KVServer, RateLimiters, Sharding, HashRing, SSTable, Query, ChangeFeed, Snapshot

MCSplitKeys == << <<1, 2>>, <<2>> >>
MCStoredKeys == { <<1>>, <<1, 1>>, <<1, 2>>, <<2, 1>> }
MCQueryKeys == { <<>>, <<1>>, <<1, 2>>, <<2>> }
MCQueryValues == {-1, 1}

VARIABLE part

MCDataVars ==
    <<part, hlcVars, clockVars, counterVars, registerVars, setVars, distLockVars, checkerVars,
      serverVars, bucketVars, windowVars, shardingVars, ringVars, sstableVars, queryVars,
      changeFeedVars, snapshotVars>>

MCDataInit ==
    /\ part \in {"hlc", "clocks", "counters", "registers", "sets", "lock", "checkers",
                "kv", "bucket", "window", "sharding", "ring", "table", "query", "feed", "snapshot"}
    /\ HLCInit /\ ClockInit /\ CounterInit /\ RegisterInit /\ SetInit /\ DistLockInit /\ CheckerInit
    /\ ServerInit /\ BucketInit /\ WindowInit /\ ShardingInit /\ HashRingInit
    /\ SSTableInit /\ QueryInit /\ ChangeFeedInit /\ SnapshotInit

MCDataNext ==
    /\ UNCHANGED part
    /\ IF part = "hlc" THEN HLCNext ELSE UNCHANGED hlcVars
    /\ IF part = "clocks" THEN ClockNext ELSE UNCHANGED clockVars
    /\ IF part = "counters" THEN CounterNext ELSE UNCHANGED counterVars
    /\ IF part = "registers" THEN RegisterNext ELSE UNCHANGED registerVars
    /\ IF part = "sets" THEN SetNext ELSE UNCHANGED setVars
    /\ IF part = "lock" THEN DistLockNext ELSE UNCHANGED distLockVars
    /\ IF part = "checkers" THEN CheckerNext ELSE UNCHANGED checkerVars
    /\ IF part = "kv" THEN ServerNext ELSE UNCHANGED serverVars
    /\ IF part = "bucket" THEN BucketNext ELSE UNCHANGED bucketVars
    /\ IF part = "window" THEN WindowNext ELSE UNCHANGED windowVars
    /\ IF part = "sharding" THEN ShardingNext ELSE UNCHANGED shardingVars
    /\ IF part = "ring" THEN HashRingNext ELSE UNCHANGED ringVars
    /\ IF part = "table" THEN SSTableNext ELSE UNCHANGED sstableVars
    /\ IF part = "query" THEN QueryNext ELSE UNCHANGED queryVars
    /\ IF part = "feed" THEN ChangeFeedNext ELSE UNCHANGED changeFeedVars
    /\ IF part = "snapshot" THEN SnapshotNext ELSE UNCHANGED snapshotVars

MCDataSpec == MCDataInit /\ [][MCDataNext]_MCDataVars
=============================================================================
