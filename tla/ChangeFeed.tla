----------------------------- MODULE ChangeFeed -----------------------------
(***************************************************************************)
(* ChangeFeed of pkg/cdc with a FanOutSink: entries of the write-ahead log  *)
(* are filtered, numbered, batched, published to several sinks one after    *)
(* the other, and the number of the last event is saved as the checkpoint   *)
(* from which the next feed starts.                                         *)
(*                                                                         *)
(* The log is a sequence whose positions are the versions; an entry says    *)
(* whether its key has the feed's prefix.  A sink keeps what it got.        *)
(***************************************************************************)
EXTENDS Naturals, Sequences, FiniteSets

CONSTANTS
    SinkCount,       \* the sinks are 1 .. SinkCount, in the order of FanOutSink
    BatchSize,
    MaxVersion,      \* bound: entries of the log
    MaxFeeds,        \* bound: feeds that are made or started
    MaxFailures      \* bound: calls of a sink that fail

ASSUME ChangeFeedAssumption == SinkCount \in Nat \ {0} /\ BatchSize \in Nat \ {0} /\ MaxFailures \in Nat

VARIABLES
    entries,         \* external: the log
    startAt, next,   \* ChangeFeedConfig.StartAt; the version the stream delivers next
    running, lastEventID, batch,
    received,        \* versions that each sink got, in order
    checkpoint,      \* what each sink saved
    failures, feeds, \* how often a call failed, how many feeds were started
    restarted        \* history: Start was called a second time on the same feed

feedVars == <<startAt, next, running, lastEventID, batch>>
sinkVars == <<received, checkpoint, failures>>
changeFeedVars == <<entries, feedVars, sinkVars, feeds, restarted>>

SinkID == 1 .. SinkCount

ChangeFeedInit ==
    /\ entries = <<>>
    /\ startAt = 0 /\ next = 1
    /\ running = FALSE
    /\ lastEventID = 0 /\ batch = <<>>
    /\ received = [s \in SinkID |-> <<>>]
    /\ checkpoint = [s \in SinkID |-> 0]
    /\ failures = 0 /\ feeds = 0
    /\ restarted = FALSE

\* A write of the store.
WriteEntry(matches) ==
    /\ Len(entries) < MaxVersion
    /\ entries' = Append(entries, matches)
    /\ UNCHANGED <<feedVars, sinkVars, feeds, restarted>>

\* Start, and run up to its loop: the batch is a local variable, the numbering is not.
StartFeed ==
    /\ ~running /\ feeds < MaxFeeds
    /\ running' = TRUE
    /\ next' = IF startAt = 0 THEN 1 ELSE startAt
    /\ batch' = <<>>
    /\ feeds' = feeds + 1
    /\ restarted' = (restarted \/ lastEventID > 0)
    /\ UNCHANGED <<entries, startAt, lastEventID, sinkVars>>

Versions(events) == [i \in DOMAIN events |-> events[i].version]

\* FanOutSink.Publish when sink `failing' takes only the first `taken' events.
PublishedUpTo(events, failing, taken) ==
    [s \in SinkID |->
        CASE s < failing -> received[s] \o Versions(events)
          [] s = failing -> received[s] \o SubSeq(Versions(events), 1, taken)
          [] OTHER -> received[s]]

PublishFails(events) ==
    /\ failures < MaxFailures
    /\ failures' = failures + 1
    /\ \E s \in SinkID, taken \in 0 .. Len(events) - 1 : received' = PublishedUpTo(events, s, taken)
    /\ UNCHANGED checkpoint

\* FanOutSink.Checkpoint: an error, which is only printed, leaves the later sinks as they are.
Checkpoints(id) ==
    \E saved \in 0 .. SinkCount :
        /\ saved < SinkCount => failures < MaxFailures
        /\ failures' = IF saved < SinkCount THEN failures + 1 ELSE failures
        /\ checkpoint' = [s \in SinkID |-> IF s <= saved THEN id ELSE checkpoint[s]]

\* Mutant: drops a batch that could not be published.
FlushMutant(events) ==
    \/ events = <<>> /\ UNCHANGED sinkVars /\ batch' = events
    \/ events # <<>> /\ PublishFails(events) /\ batch' = <<>>
    \/ /\ events # <<>>
       /\ received' = PublishedUpTo(events, SinkCount + 1, 0)
       /\ Checkpoints(events[Len(events)].id)
       /\ batch' = <<>>

\* The closure flush of run.
Flush(events) ==
    \/ events = <<>> /\ UNCHANGED sinkVars /\ batch' = events
    \/ events # <<>> /\ PublishFails(events) /\ batch' = events
    \/ /\ events # <<>>
       /\ received' = PublishedUpTo(events, SinkCount + 1, 0)
       /\ Checkpoints(events[Len(events)].id)
       /\ batch' = <<>>

\* The stream has an entry: skip it, or number it and flush a full batch.
ReadEntry ==
    /\ running /\ next <= Len(entries)
    /\ next' = next + 1
    /\ IF entries[next]
       THEN LET events == Append(batch, [id |-> lastEventID + 1, version |-> next])
            IN  /\ lastEventID' = lastEventID + 1
                /\ IF Len(events) >= BatchSize THEN Flush(events) ELSE batch' = events /\ UNCHANGED sinkVars
       ELSE UNCHANGED <<lastEventID, batch, sinkVars>>
    /\ UNCHANGED <<entries, startAt, running, feeds, restarted>>

FlushTick ==
    /\ running
    /\ Flush(batch)
    /\ UNCHANGED <<entries, startAt, next, running, lastEventID, feeds, restarted>>

\* Stop has cancelled the context, or the stream ended: one more flush, whose result is not looked at.
EndFeed ==
    /\ running
    /\ Flush(batch)
    /\ running' = FALSE
    /\ UNCHANGED <<entries, startAt, next, lastEventID, feeds, restarted>>

\* The process is gone, at any moment, and a feed is made from the checkpoint of one of
\* the sinks.
Resume(s) ==
    /\ feeds < MaxFeeds
    /\ startAt' = checkpoint[s]
    /\ running' = FALSE
    /\ next' = 1 /\ lastEventID' = 0 /\ batch' = <<>>
    /\ UNCHANGED <<entries, sinkVars, feeds, restarted>>

ChangeFeedNext ==
    \/ \E matches \in BOOLEAN : WriteEntry(matches)
    \/ StartFeed \/ ReadEntry \/ FlushTick \/ EndFeed
    \/ \E s \in SinkID : Resume(s)

ChangeFeedSpec == ChangeFeedInit /\ [][ChangeFeedNext]_changeFeedVars

-----------------------------------------------------------------------------
Got(s, v) == \E i \in DOMAIN received[s] : received[s][i] = v

\* A sink may see events again, but never one before all earlier ones: whatever fails or
\* crashes between publishing and the checkpoint, no event is skipped (flush keeps a
\* batch that was not published, and starts again at its beginning).
NothingSkipped ==
    ~restarted =>
        \A s \in SinkID, v \in DOMAIN entries :
            Got(s, v) => \A u \in 1 .. v - 1 : entries[u] => Got(s, u)

\* What lies before a checkpoint was delivered to every sink, so that a feed that starts
\* there misses nothing.  The checkpoint is the number of an event and is used as a
\* version; the numbers fall behind the versions, never the other way around, unless Start
\* is called again on the same feed, which reads from the beginning and numbers on.
CheckpointIsSafe ==
    ~restarted =>
        \A s, t \in SinkID : \A v \in 1 .. checkpoint[s] : v \in DOMAIN entries /\ (entries[v] => Got(t, v))

\* At least once and in order: nothing is skipped while a feed runs, nor by a feed that
\* starts from the checkpoint of an earlier one.
FeedIsComplete == NothingSkipped /\ CheckpointIsSafe
=============================================================================
