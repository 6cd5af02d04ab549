------------------------------- MODULE Engine -------------------------------
(***************************************************************************)
(* The storage engine: pkg/storage/engine.go over the write-ahead log of    *)
(* module WAL, the memtable and the SSTables.                               *)
(*                                                                         *)
(* A put is logged (Write and the group commit), inserted under Engine.mu,  *)
(* and, when that filled the memtable, the frozen table is offered to the   *)
(* flush worker after the lock is released.  The worker writes an SSTable   *)
(* and then replaces the frozen table by it under the lock.                 *)
(*                                                                         *)
(* A value is identified with the sequence number of its put, and so is a   *)
(* tombstone: a delete takes the same path.  Tables are functions from keys *)
(* to entries, as the skip list keeps one entry per key.  The levels *)
(* below 0 stay empty: compact() panics on its first key (a bloom filter    *)
(* for 0 expected keys has 0 bits, and Add takes a remainder by that).      *)
(***************************************************************************)
EXTENDS WAL

CONSTANTS
    MemTableSize,       \* keys that fill a memtable
    FlushCap,           \* capacity of flushCh
    MaxLevel0SSTables,
    MaxDowns,           \* bound: crashes, panics and shutdowns
    MaxPowerLosses      \* bound: power fails only while fewer downs than this occurred

ASSUME EngineAssumption == /\ MemTableSize \in Nat \ {0}
                           /\ FlushCap \in Nat \ {0}
                           /\ MaxLevel0SSTables \in Nat \ {0}
                           /\ MaxDowns \in Nat
                           /\ MaxPowerLosses \in Nat

VARIABLES
    status,       \* "down", "open", or "refused": Open failed on a corrupt log
    memTable,
    immutable,    \* frozen memtables, oldest first
    toFlush,      \* the table each writer has yet to offer to the flush worker
    flushCh,
    flushing,     \* the table the flush worker is writing
    level0,       \* SSTables, oldest first, and whether their key range is known
    compactCh,    \* a compaction of level 0 is requested
    downs,
    latest,       \* history: the last entry inserted for each key,
    fresh         \* ... and the keys inserted since Open

engineVars == <<status, memTable, immutable, toFlush, flushCh, flushing, level0,
                compactCh, downs, latest, fresh>>
vars == <<walVars, engineVars>>

EmptyTable == [k \in Key |-> NoEntry]

Table == [Key -> Record \cup {NoEntry}]

KeysOf(t) == {k \in Key : t[k] # NoEntry}

-----------------------------------------------------------------------------
(* Reads *)

\* The reader opened for a lookup loads filter and index but no key range, and
\* its own MightContain then excludes every key.
ReaderMightContain(k) == FALSE

ReadFromSSTable(sst, k) ==
    IF sst.ranged /\ k \in KeysOf(sst.table) /\ ReaderMightContain(k)
    THEN sst.table[k]
    ELSE NoEntry

\* The newest of the tables that has the key.
FirstIn(tables, k) ==
    LET having == {i \in 1..Len(tables) : tables[i][k] # NoEntry}
    IN  IF having = {} THEN NoEntry
        ELSE tables[CHOOSE i \in having : \A j \in having : j <= i][k]

\* Memtable, frozen tables, SSTables, each from the newest to the oldest.
Get(k) ==
    IF memTable[k] # NoEntry THEN memTable[k]
    ELSE IF FirstIn(immutable, k) # NoEntry THEN FirstIn(immutable, k)
    ELSE LET having == {i \in 1..Len(level0) : ReadFromSSTable(level0[i], k) # NoEntry}
         IN  IF having = {} THEN NoEntry
             ELSE level0[CHOOSE i \in having : \A j \in having : j <= i].table[k]

-----------------------------------------------------------------------------
(* Writes *)

\* putWithTimestamp up to the WAL; Delete does the same.
PutLogged(w, k) ==
    /\ status = "open"
    /\ Write(w, k)
    /\ UNCHANGED engineVars

GroupCommitStep ==
    /\ status = "open"
    /\ GroupCommit
    /\ UNCHANGED engineVars

\* Mutant: the full memtable is handed over without being kept for readers.
FreezeMutant(w, t) ==
    /\ memTable' = EmptyTable
    /\ toFlush' = [toFlush EXCEPT ![w] = t]
    /\ writer' = [writer EXCEPT ![w] = "handoff"]
    /\ UNCHANGED immutable

\* A full memtable is frozen and replaced.
Freeze(w, t) ==
    /\ immutable' = Append(immutable, t)
    /\ memTable' = EmptyTable
    /\ toFlush' = [toFlush EXCEPT ![w] = t]
    /\ writer' = [writer EXCEPT ![w] = "handoff"]

\* ... under Engine.mu.  An overwritten key does not grow the memtable.
PutInserted(w) ==
    LET e == entry[w]
        t == [memTable EXCEPT ![e.key] = e]
    IN  /\ status = "open"
        /\ writer[w] = "logged"
        /\ \/ /\ Cardinality(KeysOf(t)) >= MemTableSize
              /\ Freeze(w, t)
           \/ /\ Cardinality(KeysOf(t)) < MemTableSize
              /\ memTable' = t
              /\ writer' = [writer EXCEPT ![w] = "idle"]
              /\ UNCHANGED <<immutable, toFlush>>
        /\ latest' = [latest EXCEPT ![e.key] = e]
        /\ fresh' = fresh \cup {e.key}
        /\ entry' = [entry EXCEPT ![w] = NoEntry]
        /\ UNCHANGED <<logVars, groupVars, acked, raced, status, flushCh, flushing,
                       level0, compactCh, downs>>

\* Mutant: a full channel takes one more table.
OfferFlushMutant(w) ==
    /\ status = "open"
    /\ writer[w] = "handoff"
    /\ flushCh' = Append(flushCh, toFlush[w])
    /\ toFlush' = [toFlush EXCEPT ![w] = EmptyTable]
    /\ writer' = [writer EXCEPT ![w] = "idle"]
    /\ UNCHANGED <<logVars, groupVars, entry, acked, raced, status, memTable, immutable,
                   flushing, level0, compactCh, downs, latest, fresh>>

\* The frozen table is offered to the flush worker; when its channel is full
\* the table just stays frozen ("write stall").
OfferFlush(w) ==
    /\ status = "open"
    /\ writer[w] = "handoff"
    /\ \/ /\ Len(flushCh) < FlushCap
          /\ flushCh' = Append(flushCh, toFlush[w])
       \/ /\ Len(flushCh) >= FlushCap
          /\ UNCHANGED flushCh
    /\ toFlush' = [toFlush EXCEPT ![w] = EmptyTable]
    /\ writer' = [writer EXCEPT ![w] = "idle"]
    /\ UNCHANGED <<logVars, groupVars, entry, acked, raced, status, memTable, immutable, flushing,
                   level0, compactCh, downs, latest, fresh>>

-----------------------------------------------------------------------------
(* Background workers *)

StartFlush ==
    /\ status = "open"
    /\ flushing = EmptyTable /\ flushCh # <<>>
    /\ flushing' = Head(flushCh)
    /\ flushCh' = Tail(flushCh)
    /\ UNCHANGED <<walVars, status, memTable, immutable, toFlush, level0, compactCh, downs,
                   latest, fresh>>

\* The list without the first of its tables that is t.
Without(tables, t) ==
    LET at == {i \in 1..Len(tables) : tables[i] = t}
        i  == CHOOSE i \in at : \A j \in at : i <= j
    IN  IF at = {} THEN tables
        ELSE SubSeq(tables, 1, i - 1) \o SubSeq(tables, i + 1, Len(tables))

\* The SSTable is complete: it replaces the frozen table under Engine.mu.
FinishFlush ==
    /\ status = "open"
    /\ flushing # EmptyTable
    /\ level0' = Append(level0, [table |-> flushing, ranged |-> TRUE])
    /\ immutable' = Without(immutable, flushing)
    /\ compactCh' = (compactCh \/ Len(level0') >= MaxLevel0SSTables)
    /\ flushing' = EmptyTable
    /\ UNCHANGED <<walVars, status, memTable, toFlush, flushCh, downs, latest, fresh>>

\* The files that the next Open finds: one the worker was writing may or may not
\* be complete.
FilesLeft ==
    \E done \in BOOLEAN :
        level0' = IF done /\ flushing # EmptyTable
                  THEN Append(level0, [table |-> flushing, ranged |-> FALSE])
                  ELSE level0

\* Everything in memory is gone.
ProcessGone ==
    /\ status' = "down"
    /\ downs < MaxDowns
    /\ downs' = downs + 1
    /\ NoWriters
    /\ memTable' = EmptyTable
    /\ immutable' = <<>>
    /\ toFlush' = [w \in Writer |-> EmptyTable]
    /\ flushCh' = <<>>
    /\ flushing' = EmptyTable
    /\ compactCh' = FALSE
    /\ fresh' = {}
    /\ active' = 0 /\ size' = 0 /\ sealed' = 0 /\ syncNeeded' = FALSE /\ nextSeq' = 1
    /\ UNCHANGED <<acked, raced, latest>>

\* compact() reaches bloom.Add, which panics; the sources are still there.
CompactPanic ==
    /\ status = "open"
    /\ compactCh
    /\ ProcessGone
    /\ FilesLeft
    /\ UNCHANGED disk

Crash ==
    /\ status = "open"
    /\ downs < MaxPowerLosses
    /\ ProcessGone
    /\ FilesLeft
    /\ PowerLoss

\* Engine.Close, after Raft, the only writer, has stopped: the workers finish
\* what they are doing, the memtable is flushed and the log closed.
Close ==
    /\ status = "open"
    /\ \A w \in Writer : writer[w] = "idle"
    /\ flushing = EmptyTable
    /\ ProcessGone
    /\ level0' = IF KeysOf(memTable) # {}
                 THEN Append(level0, [table |-> memTable, ranged |-> TRUE])
                 ELSE level0
    /\ CloseLog

\* OpenReader knows no key range.
LoadSSTables == [i \in 1..Len(level0) |-> [level0[i] EXCEPT !.ranged = FALSE]]

\* replayWAL reads the sealed segments and the active one of this process: the
\* segment that Open has just created or reopened.
Replayed ==
    LET recs == ReadAll(WithSegment(disk, MaxSeqOf(Recovered) + 1)[MaxSeqOf(Recovered) + 1])
    IN  [k \in Key |->
            LET mine == {i \in 1..Len(recs) : recs[i].key = k}
            IN  IF mine = {} THEN NoEntry
                ELSE recs[CHOOSE i \in mine : \A j \in mine : j <= i]]

Open ==
    /\ status = "down"
    /\ status' = "open"
    /\ OpenLog
    /\ NoWriters
    /\ level0' = LoadSSTables
    /\ memTable' = Replayed
    /\ UNCHANGED <<acked, raced, immutable, toFlush, flushCh, flushing, compactCh, downs, latest,
                   fresh>>

\* A garbled segment may be reported as corrupt, and Open fails.
OpenRefused ==
    /\ status = "down"
    /\ \E i \in DOMAIN disk : Garbled(disk[i])
    /\ status' = "refused"
    /\ UNCHANGED <<walVars, memTable, immutable, toFlush, flushCh, flushing, level0,
                   compactCh, downs, latest, fresh>>

-----------------------------------------------------------------------------
Init ==
    /\ WALInit
    /\ status = "down"
    /\ memTable = EmptyTable
    /\ immutable = <<>>
    /\ toFlush = [w \in Writer |-> EmptyTable]
    /\ flushCh = <<>>
    /\ flushing = EmptyTable
    /\ level0 = <<>>
    /\ compactCh = FALSE
    /\ downs = 0
    /\ latest = EmptyTable
    /\ fresh = {}

Next ==
    \/ \E w \in Writer :
         \/ \E k \in Key : PutLogged(w, k)
         \/ PutInserted(w)
         \/ OfferFlush(w)
    \/ GroupCommitStep
    \/ StartFlush
    \/ FinishFlush
    \/ CompactPanic
    \/ Crash
    \/ Close
    \/ Open
    \/ OpenRefused

Spec == Init /\ [][Next]_vars

-----------------------------------------------------------------------------
(* Properties *)

\* Every variable has the shape its Go type gives it, channels their capacity.
TypeOK ==
    /\ WALTypeOK
    /\ status \in {"down", "open", "refused"}
    /\ memTable \in Table
    /\ \A i \in 1..Len(immutable) : immutable[i] \in Table
    /\ toFlush \in [Writer -> Table]
    /\ Len(flushCh) <= FlushCap
    /\ \A i \in 1..Len(flushCh) : flushCh[i] \in Table
    /\ flushing \in Table
    /\ \A i \in 1..Len(level0) : level0[i] \in [table : Table, ranged : BOOLEAN]
    /\ compactCh \in BOOLEAN
    /\ downs \in 0..MaxDowns
    /\ latest \in Table
    /\ fresh \subseteq Key

\* A record whose Write returned is on disk, fsynced, through every crash, panic and
\* shutdown, with one exception: a write between the fsync of another and its reset of
\* syncNeeded (flushPendingSync, Segment.Sync, writeRecord, rotateSegment, Segment.Close).
AckedOnDiskUnlessRaced ==
    raced \/ \A r \in acked :
        \E i \in DOMAIN disk : \E j \in 1..disk[i].durable : disk[i].recs[j] = r

\* The last entry of a key is in the memtable or in a frozen table.
Unflushed(k) ==
    memTable[k] = latest[k] \/ \E i \in 1..Len(immutable) : immutable[i][k] = latest[k]

\* The hand-over from memtable to frozen table to SSTable loses nothing: since the engine
\* was opened, the last entry of every key is in one of them, and until it is flushed
\* Get finds it before all older ones (putWithTimestamp, flushMemTable, getAtTimestamp).
NothingDropped ==
    /\ \A k \in Key : Unflushed(k) => Get(k) = latest[k]
    /\ \A k \in fresh :
        Unflushed(k) \/ \E i \in 1..Len(level0) : level0[i].table[k] = latest[k]

\* Get returns the last entry written.
GetReturnsLatest ==
    \A k \in Key : status = "open" => Get(k) = latest[k]

\* No wake-up is lost: a writer that waits for the group commit is in the batch of
\* an armed timer, of a flush that waits for Segment.mu, or of the one that holds
\* it (WAL.Write arms the timer only when syncTimer is nil).
WaiterIsServed ==
    \A w \in Writer : writer[w] = "waiting" =>
        \/ w \in pendingSync /\ syncTimer = "armed"
        \/ w \in UNION grabbed
        \/ w \in syncing
=============================================================================
