-------------------------------- MODULE WAL --------------------------------
(***************************************************************************)
(* The write-ahead log of the storage engine: pkg/storage/wal.              *)
(*                                                                         *)
(* Writers append to the active segment under WAL.mu and wait; a timer      *)
(* starts flushPendingSync, which takes the waiting writers under WAL.mu,   *)
(* calls Segment.Sync outside of it and answers them all.  writeRecord does *)
(* not take Segment.mu, so it may run between the fsync and the reset of    *)
(* syncNeeded.  Several flushes may be under way; Segment.mu orders them.   *)
(*                                                                         *)
(* The actions are the log's part of a step of the storage engine, which    *)
(* composes them (module Engine).  A segment's header record is left out:   *)
(* recovery and replay skip it.  Checkpoint and WriteSync have no caller.   *)
(***************************************************************************)
EXTENDS Integers, Sequences, FiniteSets

CONSTANTS
    Writer,        \* goroutines that write
    Key,
    SegmentSize,   \* data records a segment has room for
    Torn,          \* what is left of a record that was cut off by a power failure
    MaxSeq         \* bound: sequence numbers

ASSUME WALAssumption == /\ IsFiniteSet(Writer)
                        /\ SegmentSize \in Nat \ {0}
                        /\ MaxSeq \in Nat

VARIABLES
    disk,                     \* segment files: their records and how many are fsynced
    active, size, sealed,     \* id and fill of WAL.active, length of WAL.sealed
    syncNeeded,               \* WAL.active.syncNeeded
    nextSeq,
    pendingSync, syncTimer,   \* writers to be answered by the next flush; its timer
    grabbed,                  \* flushes that took their writers and not yet Segment.mu
    syncing,                  \* the writers of the flush that holds Segment.mu
    writer, entry,            \* what each writer is doing, and the record it wrote
    acked,                    \* history: records whose Write returned
    raced                     \* history: a write came between an fsync and its reset of syncNeeded

logVars   == <<disk, active, size, sealed, syncNeeded, nextSeq>>
groupVars == <<pendingSync, syncTimer, grabbed, syncing>>
walVars   == <<logVars, groupVars, writer, entry, acked, raced>>

Record == [seq : Nat, key : Key]

File == [recs : Seq(Record \cup {Torn}), durable : Nat]

NoEntry == [seq |-> 0]

-----------------------------------------------------------------------------
(* Writing *)

\* The file grown by one record.
Grown(f, rec) == [f EXCEPT !.recs = Append(@, rec)]

Fsynced(f) == [f EXCEPT !.durable = Len(f.recs)]

\* Files with id present: a segment is opened for appending to what is there.
WithSegment(files, id) ==
    [i \in DOMAIN files \cup {id} |->
        IF i \in DOMAIN files THEN files[i] ELSE [recs |-> <<>>, durable |-> 0]]

\* The active segment is fsynced, if syncNeeded says so, and sealed; the next one
\* is numbered by the count of sealed segments.
RotateSegment(rec) ==
    LET id    == sealed + 2
        files == WithSegment([disk EXCEPT ![active] = IF syncNeeded THEN Fsynced(@) ELSE @], id)
    IN  /\ syncing = {}
        /\ disk' = [files EXCEPT ![id] = Grown(@, rec)]
        /\ active' = id
        /\ sealed' = sealed + 1
        /\ size' = 1

Write(w, k) ==
    LET rec == [seq |-> nextSeq, key |-> k] IN
    /\ writer[w] = "idle"
    /\ nextSeq <= MaxSeq
    /\ nextSeq' = nextSeq + 1
    /\ \/ /\ size < SegmentSize
          /\ disk' = [disk EXCEPT ![active] = Grown(@, rec)]
          /\ size' = size + 1
          /\ UNCHANGED <<active, sealed>>
       \/ /\ size >= SegmentSize
          /\ RotateSegment(rec)
    /\ syncNeeded' = TRUE
    /\ pendingSync' = pendingSync \cup {w}
    /\ syncTimer' = IF syncTimer = "nil" THEN "armed" ELSE syncTimer
    /\ writer' = [writer EXCEPT ![w] = "waiting"]
    /\ entry' = [entry EXCEPT ![w] = rec]
    /\ raced' = (raced \/ syncing # {})
    /\ UNCHANGED <<grabbed, syncing, acked>>

-----------------------------------------------------------------------------
(* Group commit *)

\* Mutant: the timer variable is not cleared, so no write arms a timer again.
FlushPendingSyncMutant ==
    /\ syncTimer = "armed"
    /\ syncTimer' = "spent"
    /\ pendingSync' = {}
    /\ grabbed' = grabbed \cup {pendingSync}
    /\ UNCHANGED <<logVars, syncing, writer, entry, acked, raced>>

\* The timer fires: the waiting writers are taken.
FlushPendingSync ==
    /\ syncTimer = "armed"
    /\ syncTimer' = "nil"
    /\ pendingSync' = {}
    /\ grabbed' = grabbed \cup {pendingSync}
    /\ UNCHANGED <<logVars, syncing, writer, entry, acked, raced>>

\* Every writer of the flush gets its answer, and Write returns.
Notify(waiting) ==
    /\ writer' = [w \in Writer |-> IF w \in waiting THEN "logged" ELSE writer[w]]
    /\ acked' = acked \cup {entry[w] : w \in waiting}

\* Segment.Sync finds nothing to do: syncNeeded is not set, or the segment that
\* the flush took for the active one has been sealed meanwhile.
SyncClean(waiting) ==
    /\ waiting \in grabbed
    /\ syncing = {}
    /\ \/ ~syncNeeded
       \/ \A w \in waiting : \A i \in 1..Len(disk[active].recs) : disk[active].recs[i] # entry[w]
    /\ grabbed' = grabbed \ {waiting}
    /\ Notify(waiting)
    /\ UNCHANGED <<logVars, pendingSync, syncTimer, syncing, entry, raced>>

\* Mutant: the flag is read the wrong way round and nothing is fsynced.
SyncFileMutant(waiting) ==
    /\ waiting \in grabbed
    /\ syncing = {}
    /\ syncNeeded
    /\ grabbed' = grabbed \ {waiting}
    /\ syncing' = waiting
    /\ UNCHANGED <<logVars, pendingSync, syncTimer, writer, entry, acked, raced>>

\* Segment.Sync takes Segment.mu and fsyncs the file.
SyncFile(waiting) ==
    /\ waiting \in grabbed
    /\ syncing = {}
    /\ syncNeeded
    /\ disk' = [disk EXCEPT ![active] = Fsynced(@)]
    /\ grabbed' = grabbed \ {waiting}
    /\ syncing' = waiting
    /\ UNCHANGED <<active, size, sealed, syncNeeded, nextSeq, pendingSync, syncTimer,
                   writer, entry, acked, raced>>

\* It resets syncNeeded and releases Segment.mu; the writers are answered.
SyncDone ==
    /\ syncing # {}
    /\ syncNeeded' = FALSE
    /\ syncing' = {}
    /\ Notify(syncing)
    /\ UNCHANGED <<disk, active, size, sealed, nextSeq, pendingSync, syncTimer, grabbed, entry,
                   raced>>

GroupCommit ==
    \/ FlushPendingSync
    \/ \E waiting \in grabbed : SyncClean(waiting) \/ SyncFile(waiting)
    \/ SyncDone

-----------------------------------------------------------------------------
(* Recovery *)

TornAt(f) == {i \in 1..Len(f.recs) : f.recs[i] = Torn}

\* Segment.ReadAll stops at a record it cannot decode.
ReadAll(f) ==
    IF TornAt(f) = {} THEN f.recs
    ELSE SubSeq(f.recs, 1, (CHOOSE i \in TornAt(f) : \A j \in TornAt(f) : i <= j) - 1)

\* More bytes behind a torn record: they are taken for the rest of it, and its
\* checksum does not match - or its length is nonsense and reading just stops.
Garbled(f) == \E i \in TornAt(f) : i < Len(f.recs)

\* What recovery reads back.
Recovered == UNION {{ReadAll(disk[i])[j] : j \in 1..Len(ReadAll(disk[i]))} : i \in DOMAIN disk}

MaxSeqOf(recs) == IF recs = {} THEN 0
                  ELSE (CHOOSE r \in recs : \A s \in recs : s.seq <= r.seq).seq

\* recover() counts the records of all segments, closes them, and a segment
\* named by the next sequence number becomes the active one.
OpenLog ==
    LET next == MaxSeqOf(Recovered) + 1 IN
    /\ nextSeq' = next
    /\ disk' = WithSegment(disk, next)
    /\ active' = next
    /\ size' = 0
    /\ sealed' = 0
    /\ syncNeeded' = TRUE

\* The group commit and the writers of a process that is gone, or not yet there.
NoWriters ==
    /\ pendingSync' = {}
    /\ syncTimer' = "nil"
    /\ grabbed' = {}
    /\ syncing' = {}
    /\ writer' = [w \in Writer |-> "idle"]
    /\ entry' = [w \in Writer |-> NoEntry]

\* What a power failure can leave of a file: of the records that are not fsynced
\* the first few, and the next one perhaps in part.
Remains(f) ==
    {[recs |-> SubSeq(f.recs, 1, n), durable |-> n] : n \in f.durable..Len(f.recs)}
        \cup {[recs |-> Append(SubSeq(f.recs, 1, n), Torn), durable |-> n + 1] :
                n \in f.durable..(Len(f.recs) - 1)}

PowerLoss ==
    disk' \in {d \in [DOMAIN disk -> UNION {Remains(disk[i]) : i \in DOMAIN disk}] :
                  \A i \in DOMAIN disk : d[i] \in Remains(disk[i])}

\* Segment.Close fsyncs what is left.
CloseLog == disk' = [disk EXCEPT ![active] = IF syncNeeded THEN Fsynced(@) ELSE @]

-----------------------------------------------------------------------------
WALInit ==
    /\ disk = [i \in {} |-> [recs |-> <<>>, durable |-> 0]]
    /\ active = 0 /\ size = 0 /\ sealed = 0
    /\ syncNeeded = FALSE
    /\ nextSeq = 1
    /\ pendingSync = {} /\ syncTimer = "nil" /\ grabbed = {} /\ syncing = {}
    /\ writer = [w \in Writer |-> "idle"]
    /\ entry = [w \in Writer |-> NoEntry]
    /\ acked = {}
    /\ raced = FALSE

WALTypeOK ==
    /\ DOMAIN disk \subseteq Nat
    /\ \A i \in DOMAIN disk : disk[i] \in File /\ disk[i].durable <= Len(disk[i].recs)
    /\ active \in Nat /\ size \in 0..SegmentSize /\ sealed \in Nat
    /\ syncNeeded \in BOOLEAN
    /\ nextSeq \in Nat
    /\ pendingSync \subseteq Writer
    /\ syncTimer \in {"nil", "armed"}
    /\ grabbed \subseteq SUBSET Writer
    /\ syncing \subseteq Writer
    /\ writer \in [Writer -> {"idle", "waiting", "logged", "handoff"}]
    /\ entry \in [Writer -> Record \cup {NoEntry}]
    /\ acked \subseteq Record
    /\ raced \in BOOLEAN
=============================================================================
