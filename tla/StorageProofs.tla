--------------------------- MODULE StorageProofs ---------------------------
(***************************************************************************)
(* Proofs about the write-ahead log, the storage engine, and the tables that *)
(* hold its entries in memory and in files.                                  *)
(***************************************************************************)
EXTENDS Engine, SSTable, TLAPS, NatFacts, FiniteSetTheorems, SequenceTheorems

-----------------------------------------------------------------------------
(* The inductive invariant *)

SST == [table : Table, ranged : BOOLEAN]

\* A segment file: what can be read in it was numbered from its own name on.
GoodFile(f, i) ==
    /\ f \in File
    /\ f.durable <= Len(f.recs)
    /\ \A j \in 1..Len(f.recs) :
          f.recs[j] # Torn => f.recs[j] \in Record /\ i <= f.recs[j].seq /\ f.recs[j].seq <= MaxSeq

FilesInv ==
    /\ DOMAIN disk \subseteq Nat
    /\ \A i \in DOMAIN disk : GoodFile(disk[i], i)

CountersInv ==
    /\ active \in Nat /\ size \in 0..SegmentSize /\ sealed \in Nat
    /\ nextSeq \in Nat
    /\ syncNeeded \in BOOLEAN
    /\ status = "open" => /\ active \in DOMAIN disk
                          /\ active <= nextSeq
                          /\ sealed + size + 1 <= nextSeq

Waiting == {w \in Writer : writer[w] = "waiting"}
Busy == {w \in Writer : writer[w] \in {"waiting", "logged"}}

\* Every writer that a flush will answer waits, and waits for one flush.
GroupsInv ==
    /\ pendingSync \subseteq Waiting
    /\ syncTimer \in {"nil", "armed"}
    /\ syncing \subseteq Waiting
    /\ pendingSync \cap syncing = {}
    /\ \A g \in grabbed : g \subseteq Waiting /\ g \cap pendingSync = {} /\ g \cap syncing = {}
    /\ \A g, h \in grabbed : g = h \/ g \cap h = {}

\* A writer whose record is not inserted yet has the only copy of it in memory.
WritersInv ==
    /\ writer \in [Writer -> {"idle", "waiting", "logged", "handoff"}]
    /\ entry \in [Writer -> Record \cup {NoEntry}]
    /\ \A w \in Busy : entry[w] \in Record /\ entry[w].seq < nextSeq
    /\ \A v, w \in Busy : v = w \/ entry[v] # entry[w]
    /\ acked \subseteq Record
    /\ raced \in BOOLEAN

\* A table with entries that were numbered already and are with no writer any more.
Inserted(t) ==
    /\ t \in Table
    /\ \A k \in Key : t[k] # NoEntry => t[k].seq < nextSeq /\ \A w \in Busy : t[k] # entry[w]

TablesInv ==
    /\ Inserted(memTable)
    /\ immutable \in Seq(Table)
    /\ \A i \in 1..Len(immutable) : Inserted(immutable[i])
    /\ toFlush \in [Writer -> Table]
    /\ flushCh \in Seq(Table) /\ Len(flushCh) <= FlushCap
    /\ flushing \in Table
    /\ level0 \in Seq(SST)
    /\ compactCh \in BOOLEAN
    /\ downs \in 0..MaxDowns
    /\ latest \in Table
    /\ fresh \subseteq Key

\* No process, nothing in memory.
StatusInv ==
    /\ status \in {"down", "open", "refused"}
    /\ status # "open" => /\ writer = [w \in Writer |-> "idle"]
                          /\ pendingSync = {} /\ grabbed = {} /\ syncing = {}
                          /\ memTable = EmptyTable /\ immutable = <<>> /\ fresh = {}

StorageInv ==
    FilesInv /\ CountersInv /\ GroupsInv /\ WritersInv /\ TablesInv /\ StatusInv

\* Unless a write has raced with an fsync: syncNeeded is reset only when all of the
\* active segment is fsynced, and the record of a waiting writer is in the active
\* segment if it is not fsynced.
OnDisk(r) == \E i \in DOMAIN disk : \E j \in 1..disk[i].durable : disk[i].recs[j] = r

InActive(r) == \E j \in 1..Len(disk[active].recs) : disk[active].recs[j] = r

ActiveSynced == disk[active].durable = Len(disk[active].recs)

DurabilityInv ==
    raced \/
        /\ \A r \in acked : OnDisk(r)
        /\ status = "open" => /\ ~syncNeeded => ActiveSynced
                              /\ syncing # {} => ActiveSynced
                              /\ \A w \in Waiting : OnDisk(entry[w]) \/ InActive(entry[w])

\* Among the tables in memory, none that is newer than a key's last entry has an older one.
NewestFirst ==
    \A k \in Key :
        /\ memTable[k] = NoEntry \/ memTable[k] = latest[k]
        /\ \A i \in 1..Len(immutable) :
              /\ latest[k] = NoEntry => immutable[i][k] = NoEntry
              /\ immutable[i][k] = latest[k] =>
                    \A j \in i..Len(immutable) :
                        immutable[j][k] = NoEntry \/ immutable[j][k] = latest[k]

Kept ==
    \A k \in fresh :
        Unflushed(k) \/ \E i \in 1..Len(level0) : level0[i].table[k] = latest[k]

ReadsInv == NewestFirst /\ Kept

-----------------------------------------------------------------------------
(* Files *)

LEMMA NoEntryIsNoRecord == NoEntry \notin Record
  <1>1. ASSUME NEW r \in Record PROVE "key" \in DOMAIN r
    BY DEF Record
  <1>2. "key" \notin DOMAIN NoEntry
    BY DEF NoEntry
  <1>3. QED
    BY <1>1, <1>2

\* What writing and fsyncing do to a file.
LEMMA FileSteps ==
    ASSUME NEW i \in Nat, NEW f, GoodFile(f, i), NEW rec \in Record,
           i <= rec.seq, rec.seq <= MaxSeq
    PROVE  /\ GoodFile(Grown(f, rec), i)
           /\ Grown(f, rec).durable = f.durable
           /\ Len(Grown(f, rec).recs) = Len(f.recs) + 1
           /\ \A j \in 1..Len(f.recs) : Grown(f, rec).recs[j] = f.recs[j]
           /\ Grown(f, rec).recs[Len(f.recs) + 1] = rec
  <1> DEFINE g == Grown(f, rec)
  <1>1. f \in File /\ f.recs \in Seq(Record \cup {Torn}) /\ f.durable \in Nat
    BY DEF GoodFile, File
  <1>2. g = [recs |-> Append(f.recs, rec), durable |-> f.durable]
    <2>1. PICK a : a = Append(f.recs, rec)
      OBVIOUS
    <2>2. [f EXCEPT !.recs = a] = [recs |-> a, durable |-> f.durable]
      BY <1>1 DEF File
    <2>3. QED
      BY <2>1, <2>2 DEF Grown
  <1>3. /\ Append(f.recs, rec) \in Seq(Record \cup {Torn})
        /\ Len(Append(f.recs, rec)) = Len(f.recs) + 1
        /\ \A j \in 1..Len(f.recs) : Append(f.recs, rec)[j] = f.recs[j]
        /\ Append(f.recs, rec)[Len(f.recs) + 1] = rec
    BY <1>1, AppendProperties
  <1>4. Len(f.recs) \in Nat
    BY <1>1, LenProperties
  <1>5. GoodFile(g, i)
    <2>1. g \in File
      BY <1>1, <1>2, <1>3 DEF File
    <2>2. g.durable <= Len(g.recs)
      BY <1>1, <1>2, <1>3, <1>4 DEF GoodFile
    <2>3. ASSUME NEW j \in 1..Len(g.recs), g.recs[j] # Torn
          PROVE  g.recs[j] \in Record /\ i <= g.recs[j].seq /\ g.recs[j].seq <= MaxSeq
      BY <2>3, <1>2, <1>3, <1>4 DEF GoodFile
    <2>4. QED
      BY <2>1, <2>2, <2>3 DEF GoodFile
  <1>6. QED
    BY <1>2, <1>3, <1>5

LEMMA FsyncedFile ==
    ASSUME NEW i \in Nat, NEW f, GoodFile(f, i)
    PROVE  /\ GoodFile(Fsynced(f), i)
           /\ Fsynced(f).recs = f.recs
           /\ Fsynced(f).durable = Len(f.recs)
  <1>1. f \in File /\ f.recs \in Seq(Record \cup {Torn}) /\ f.durable \in Nat
    BY DEF GoodFile, File
  <1>2. Fsynced(f) = [recs |-> f.recs, durable |-> Len(f.recs)]
    BY <1>1 DEF Fsynced, File
  <1>3. Len(f.recs) \in Nat
    BY <1>1, LenProperties
  <1>4. Fsynced(f) \in File
    BY <1>1, <1>2, <1>3 DEF File
  <1>5. QED
    BY <1>2, <1>3, <1>4 DEF GoodFile

LEMMA NewFile ==
    ASSUME NEW i \in Nat
    PROVE  GoodFile([recs |-> <<>>, durable |-> 0], i)
  <1>1. <<>> \in Seq(Record \cup {Torn}) /\ Len(<<>>) = 0
    OBVIOUS
  <1>2. QED
    BY <1>1 DEF GoodFile, File

\* What is fsynced survives.
Keeps(f, g) ==
    /\ f.durable <= g.durable
    /\ \A j \in 1..f.durable : g.recs[j] = f.recs[j]

LEMMA RemainingFile ==
    ASSUME NEW i \in Nat, NEW f, GoodFile(f, i), NEW g \in Remains(f)
    PROVE  GoodFile(g, i) /\ Keeps(f, g)
  <1> DEFINE R == Record \cup {Torn}
             cut(n) == SubSeq(f.recs, 1, n)
  <1>1. f.recs \in Seq(R) /\ f.durable \in Nat /\ f.durable <= Len(f.recs) /\ Len(f.recs) \in Nat
    BY LenProperties DEF GoodFile, File
  <1>2. ASSUME NEW n \in f.durable..Len(f.recs)
        PROVE  /\ n \in Nat
               /\ cut(n) \in Seq(R) /\ Len(cut(n)) = n
               /\ \A j \in 1..n : cut(n)[j] = f.recs[j]
    <2>1. n \in Nat /\ n <= Len(f.recs)
      BY <1>1
    <2>2. \A j \in 1..n : f.recs[j] \in R
      BY <1>1, <2>1, ElementOfSeq
    <2>3. cut(n) = [j \in 1..n |-> f.recs[j]]
      BY <1>1, <2>1
    <2>4. QED
      BY <2>1, <2>2, <2>3, <1>1
  <1> HIDE DEF cut
  <1>3. CASE \E n \in f.durable..Len(f.recs) : g = [recs |-> cut(n), durable |-> n]
    <2>1. PICK n \in f.durable..Len(f.recs) : g = [recs |-> cut(n), durable |-> n]
      BY <1>3
    <2>2. n <= Len(f.recs) /\ f.durable <= n
      BY <1>1, <1>2
    <2>3. g \in File
      BY <1>2, <2>1 DEF File
    <2>4. g.recs = cut(n) /\ g.durable = n /\ Len(g.recs) = n
      BY <2>1, <1>2
    <2>5. \A j \in 1..n : g.recs[j] = f.recs[j] /\ j \in 1..Len(f.recs)
      BY <1>1, <1>2, <2>2, <2>4
    <2>6. GoodFile(g, i)
      BY <1>2, <2>3, <2>4, <2>5 DEF GoodFile
    <2>7. Keeps(f, g)
      BY <1>1, <1>2, <2>2, <2>4, <2>5 DEF Keeps
    <2>8. QED
      BY <2>6, <2>7
  <1>4. CASE \E n \in f.durable..(Len(f.recs) - 1) :
                g = [recs |-> Append(cut(n), Torn), durable |-> n + 1]
    <2>1. PICK n \in f.durable..(Len(f.recs) - 1) :
                g = [recs |-> Append(cut(n), Torn), durable |-> n + 1]
      BY <1>4
    <2>2. n \in f.durable..Len(f.recs) /\ n \in Nat /\ n <= Len(f.recs) /\ f.durable <= n
      BY <1>1
    <2>3. /\ Append(cut(n), Torn) \in Seq(R)
          /\ Len(Append(cut(n), Torn)) = n + 1
          /\ \A j \in 1..n : Append(cut(n), Torn)[j] = cut(n)[j]
          /\ Append(cut(n), Torn)[n + 1] = Torn
      BY <1>2, <2>2, AppendProperties
    <2>4. g \in File
      BY <2>1, <2>2, <2>3 DEF File
    <2>5. g.recs = Append(cut(n), Torn) /\ g.durable = n + 1 /\ Len(g.recs) = n + 1
      BY <2>1, <2>3
    <2>6. \A j \in 1..n : g.recs[j] = f.recs[j] /\ j \in 1..Len(f.recs)
      BY <1>1, <1>2, <2>2, <2>3, <2>5
    <2>7. \A j \in 1..Len(g.recs) : g.recs[j] # Torn => j \in 1..n
      BY <2>2, <2>3, <2>5
    <2>8. GoodFile(g, i)
      BY <2>2, <2>4, <2>5, <2>6, <2>7 DEF GoodFile
    <2>9. Keeps(f, g)
      BY <1>1, <2>2, <2>5, <2>6 DEF Keeps
    <2>10. QED
      BY <2>8, <2>9
  <1>5. QED
    BY <1>3, <1>4 DEF Remains, cut

LEMMA KeepsItself == ASSUME NEW i \in Nat, NEW f, GoodFile(f, i) PROVE Keeps(f, f)
  BY DEF GoodFile, File, Keeps

-----------------------------------------------------------------------------
(* Recovery *)

LEMMA ReadAllFacts ==
    ASSUME NEW i \in Nat, NEW f, GoodFile(f, i)
    PROVE  /\ Len(ReadAll(f)) \in Nat
           /\ \A j \in 1..Len(ReadAll(f)) :
                 ReadAll(f)[j] \in Record /\ i <= ReadAll(f)[j].seq /\ ReadAll(f)[j].seq <= MaxSeq
  <1>1. f.recs \in Seq(Record \cup {Torn}) /\ Len(f.recs) \in Nat
    BY LenProperties DEF GoodFile, File
  <1>2. CASE TornAt(f) = {}
    BY <1>1, <1>2 DEF ReadAll, TornAt, GoodFile
  <1>3. CASE TornAt(f) # {}
    <2> DEFINE T == TornAt(f)
    <2>1. T \in SUBSET Nat /\ T \subseteq 1..Len(f.recs)
      BY <1>1 DEF TornAt
    <2>2. \E m \in T : \A j \in T : m <= j
      BY <1>3, <2>1, NatMin
    <2>3. PICK m : m = CHOOSE i_1 \in T : \A j \in T : i_1 <= j
      OBVIOUS
    <2>4. m \in T /\ \A j \in T : m <= j
      BY <2>2, <2>3
    <2>5. m - 1 \in Nat /\ m \in Nat /\ m - 1 <= Len(f.recs)
      BY <1>1, <2>1, <2>4
    <2>6. \A j \in 1..m - 1 : j \in 1..Len(f.recs) /\ j \notin T
      BY <1>1, <2>4, <2>5
    <2>7. ReadAll(f) = SubSeq(f.recs, 1, m - 1)
      BY <1>3, <2>3 DEF ReadAll
    <2>8. SubSeq(f.recs, 1, m - 1) = [j \in 1..m - 1 |-> f.recs[j]]
      BY <1>1, <2>5
    <2>9. Len(ReadAll(f)) = m - 1
      BY <2>5, <2>7, <2>8
    <2>10. \A j \in 1..m - 1 : ReadAll(f)[j] = f.recs[j] /\ f.recs[j] # Torn
      BY <2>6, <2>7, <2>8 DEF TornAt
    <2>11. QED
      BY <2>5, <2>6, <2>9, <2>10 DEF GoodFile
  <1>4. QED
    BY <1>2, <1>3

LEMMA RecoveredFacts ==
    ASSUME FilesInv, WALAssumption
    PROVE  /\ MaxSeqOf(Recovered) \in Nat
           /\ \A r \in Recovered : r \in Record /\ r.seq <= MaxSeqOf(Recovered)
  <1>1. \A r \in Recovered : r \in Record /\ r.seq \in 0..MaxSeq
    <2>1. ASSUME NEW i \in DOMAIN disk, NEW j \in 1..Len(ReadAll(disk[i]))
          PROVE  ReadAll(disk[i])[j] \in Record /\ ReadAll(disk[i])[j].seq \in 0..MaxSeq
      <3>1. i \in Nat /\ GoodFile(disk[i], i)
        BY DEF FilesInv
      <3>2. ReadAll(disk[i])[j] \in Record /\ ReadAll(disk[i])[j].seq <= MaxSeq
        BY <3>1, ReadAllFacts
      <3>3. QED
        BY <3>2 DEF Record, WALAssumption
    <2>2. QED
      BY <2>1 DEF Recovered
  <1>2. CASE Recovered = {}
    BY <1>2 DEF MaxSeqOf
  <1>3. CASE Recovered # {}
    <2> DEFINE S == {r.seq : r \in Recovered}
    <2>1. S \in SUBSET (0..MaxSeq) /\ S # {}
      BY <1>1, <1>3
    <2>2. MaxSeq \in Nat
      BY DEF WALAssumption
    <2>3. PICK x \in S : \A y \in S : y <= x
      BY <2>1, <2>2, NatMax
    <2>4. \E r \in Recovered : \A s \in Recovered : s.seq <= r.seq
      BY <2>3
    <2>5. PICK m : m = CHOOSE r \in Recovered : \A s \in Recovered : s.seq <= r.seq
      OBVIOUS
    <2>6. m \in Recovered /\ \A s \in Recovered : s.seq <= m.seq
      BY <2>4, <2>5
    <2>7. MaxSeqOf(Recovered) = m.seq
      BY <1>3, <2>5 DEF MaxSeqOf
    <2>8. QED
      BY <1>1, <2>6, <2>7
  <1>4. QED
    BY <1>2, <1>3

\* The segment that Open replays is named beyond every record that can be read, so
\* there is nothing in it.
LEMMA NothingReplayed ==
    ASSUME FilesInv, WALAssumption
    PROVE  Replayed = EmptyTable
  <1>1. PICK n : n = MaxSeqOf(Recovered) + 1
    OBVIOUS
  <1>2. n \in Nat /\ \A r \in Recovered : r \in Record /\ r.seq < n
    <2>1. MaxSeqOf(Recovered) \in Nat
      BY RecoveredFacts
    <2>2. ASSUME NEW r \in Recovered PROVE r \in Record /\ r.seq < n
      <3>1. r \in Record /\ r.seq <= MaxSeqOf(Recovered)
        BY RecoveredFacts
      <3>2. r.seq \in Nat
        BY <3>1 DEF Record
      <3>3. QED
        BY <1>1, <2>1, <3>1, <3>2
    <2>3. QED
      BY <1>1, <2>1, <2>2
  <1>3. PICK f : f = WithSegment(disk, n)[n]
    OBVIOUS
  <1>4. GoodFile(f, n)
    BY <1>2, <1>3, NewFile DEF WithSegment, FilesInv
  <1>5. \A j \in 1..Len(ReadAll(f)) : FALSE
    <2>1. SUFFICES ASSUME NEW j \in 1..Len(ReadAll(f)) PROVE FALSE
      OBVIOUS
    <2>2. ReadAll(f)[j] \in Record /\ n <= ReadAll(f)[j].seq
      BY <1>2, <1>4, ReadAllFacts
    <2>3. CASE n \in DOMAIN disk
      <3>1. f = disk[n]
        BY <1>3, <2>3 DEF WithSegment
      <3>2. ReadAll(f)[j] \in Recovered
        BY <3>1, <2>3 DEF Recovered
      <3>3. QED
        BY <1>2, <2>2, <3>2 DEF Record
    <2>4. CASE n \notin DOMAIN disk
      <3>1. f = [recs |-> <<>>, durable |-> 0]
        BY <1>3, <2>4 DEF WithSegment
      <3>2. f.recs = <<>>
        BY <3>1
      <3>3. TornAt(f) = {}
        BY <3>2 DEF TornAt
      <3>4. QED
        BY <3>2, <3>3 DEF ReadAll
    <2>5. QED
      BY <2>3, <2>4
  <1>6. \A k \in Key : {i \in 1..Len(ReadAll(f)) : ReadAll(f)[i].key = k} = {}
    BY <1>5
  <1>7. QED
    BY <1>1, <1>3, <1>6 DEF Replayed, EmptyTable

-----------------------------------------------------------------------------
(* The files *)

\* Every step leaves good files, and what was fsynced stays.
LEMMA DiskStep ==
    ASSUME StorageInv, Next, WALAssumption
    PROVE  /\ FilesInv'
           /\ \A i \in DOMAIN disk : i \in DOMAIN disk' /\ Keeps(disk[i], disk'[i])
  <1> DEFINE Goal(d) == /\ DOMAIN d \subseteq Nat
                        /\ \A i \in DOMAIN d : GoodFile(d[i], i)
                        /\ \A i \in DOMAIN disk : i \in DOMAIN d /\ Keeps(disk[i], d[i])
  <1>1. Goal(disk)
    BY KeepsItself DEF StorageInv, FilesInv
  <1>2. ASSUME NEW d, Goal(d), NEW i \in DOMAIN d, NEW g, GoodFile(g, i),
               i \in DOMAIN disk => Keeps(disk[i], g)
        PROVE  Goal([d EXCEPT ![i] = g])
    BY <1>2
  <1>3. ASSUME NEW d, Goal(d), NEW i \in Nat
        PROVE  Goal(WithSegment(d, i)) /\ i \in DOMAIN WithSegment(d, i)
    <2>1. GoodFile([recs |-> <<>>, durable |-> 0], i)
      BY NewFile
    <2>2. QED
      BY <1>3, <2>1 DEF WithSegment
  <1>4. ASSUME NEW d, Goal(d), NEW i \in DOMAIN d
        PROVE  /\ GoodFile(Fsynced(d[i]), i)
               /\ i \in DOMAIN disk => Keeps(disk[i], Fsynced(d[i]))
    <2>1. GoodFile(d[i], i) /\ i \in Nat
      BY <1>4
    <2>2. /\ GoodFile(Fsynced(d[i]), i) /\ Fsynced(d[i]).recs = d[i].recs
          /\ Fsynced(d[i]).durable = Len(d[i].recs)
      BY <2>1, FsyncedFile
    <2>3. ASSUME i \in DOMAIN disk PROVE Keeps(disk[i], Fsynced(d[i]))
      <3>1. Keeps(disk[i], d[i]) /\ GoodFile(disk[i], i)
        BY <1>1, <1>4, <2>3
      <3>2. /\ disk[i].durable \in Nat /\ d[i].durable \in Nat /\ Len(d[i].recs) \in Nat
            /\ d[i].durable <= Len(d[i].recs)
        BY <2>1, <3>1, LenProperties DEF GoodFile, File
      <3>3. QED
        BY <2>2, <3>1, <3>2 DEF Keeps
    <2>4. QED
      BY <2>2, <2>3
  <1>5. ASSUME NEW d, Goal(d), NEW i \in DOMAIN d, NEW rec \in Record,
               i <= rec.seq, rec.seq <= MaxSeq
        PROVE  /\ GoodFile(Grown(d[i], rec), i)
               /\ i \in DOMAIN disk => Keeps(disk[i], Grown(d[i], rec))
    <2>1. GoodFile(d[i], i) /\ i \in Nat
      BY <1>5
    <2>2. /\ GoodFile(Grown(d[i], rec), i) /\ Grown(d[i], rec).durable = d[i].durable
          /\ \A j \in 1..Len(d[i].recs) : Grown(d[i], rec).recs[j] = d[i].recs[j]
      BY <1>5, <2>1, FileSteps
    <2>3. ASSUME i \in DOMAIN disk PROVE Keeps(disk[i], Grown(d[i], rec))
      <3>1. Keeps(disk[i], d[i]) /\ GoodFile(disk[i], i)
        BY <1>1, <1>5, <2>3
      <3>2. /\ disk[i].durable \in Nat /\ d[i].durable \in Nat /\ Len(d[i].recs) \in Nat
            /\ d[i].durable <= Len(d[i].recs)
        BY <2>1, <3>1, LenProperties DEF GoodFile, File
      <3>3. QED
        BY <2>2, <3>1, <3>2 DEF Keeps
    <2>4. QED
      BY <2>2, <2>3
  <1>6. SUFFICES Goal(disk')
    BY DEF FilesInv
  <1> HIDE DEF Goal
  <1>7. ASSUME NEW w \in Writer, NEW k \in Key, PutLogged(w, k) PROVE Goal(disk')
    <2> DEFINE rec == [seq |-> nextSeq, key |-> k]
    <2>1. /\ nextSeq \in Nat /\ active \in Nat /\ sealed \in Nat /\ size \in Nat
          /\ SegmentSize \in Nat \ {0} /\ status = "open"
      BY <1>7 DEF PutLogged, StorageInv, CountersInv, WALAssumption
    <2>2. /\ rec \in Record /\ rec.seq = nextSeq /\ nextSeq <= MaxSeq /\ active <= nextSeq
          /\ active \in DOMAIN disk /\ sealed + size + 1 <= nextSeq
      BY <1>7, <2>1 DEF PutLogged, Write, StorageInv, CountersInv, Record
    <2>3. Write(w, k)
      BY <1>7 DEF PutLogged
    <2> HIDE DEF rec
    <2>4. CASE size < SegmentSize /\ disk' = [disk EXCEPT ![active] = Grown(@, rec)]
      <3>1. disk' = [disk EXCEPT ![active] = Grown(disk[active], rec)]
        BY <2>4
      <3>2. /\ GoodFile(Grown(disk[active], rec), active)
            /\ Keeps(disk[active], Grown(disk[active], rec))
        BY <1>1, <1>5, <2>2
      <3>3. QED
        BY <1>1, <1>2, <2>2, <3>1, <3>2
    <2>5. CASE size >= SegmentSize /\ RotateSegment(rec)
      <3>1. PICK id : id = sealed + 2
        OBVIOUS
      <3>2. id \in Nat /\ id <= nextSeq
        BY <2>1, <2>2, <2>5, <3>1
      <3>3. PICK d : d = [disk EXCEPT ![active] = IF syncNeeded THEN Fsynced(@) ELSE @]
        OBVIOUS
      <3>4. Goal(d)
        <4>1. CASE syncNeeded
          <5>1. d = [disk EXCEPT ![active] = Fsynced(disk[active])]
            BY <3>3, <4>1
          <5>2. QED
            BY <1>1, <1>2, <1>4, <2>2, <5>1
        <4>2. CASE ~syncNeeded
          <5>1. d = [disk EXCEPT ![active] = disk[active]]
            BY <3>3, <4>2
          <5>2. GoodFile(disk[active], active) /\ Keeps(disk[active], disk[active])
            BY <1>1, <2>2 DEF Goal
          <5>3. QED
            BY <1>1, <1>2, <2>2, <5>1, <5>2
        <4>3. QED
          BY <4>1, <4>2
      <3>5. PICK e : e = WithSegment(d, id)
        OBVIOUS
      <3>6. Goal(e) /\ id \in DOMAIN e
        BY <1>3, <3>2, <3>4, <3>5
      <3>7. disk' = [e EXCEPT ![id] = Grown(e[id], rec)]
        BY <2>5, <3>1, <3>3, <3>5 DEF RotateSegment
      <3>8. /\ GoodFile(Grown(e[id], rec), id)
            /\ id \in DOMAIN disk => Keeps(disk[id], Grown(e[id], rec))
        BY <1>5, <2>2, <3>2, <3>6
      <3>9. QED
        BY <1>2, <3>6, <3>7, <3>8
    <2>6. QED
      BY <2>3, <2>4, <2>5 DEF Write, rec
  <1>8. CASE GroupCommitStep
    <2>1. CASE UNCHANGED disk
      BY <1>1, <2>1
    <2>2. ASSUME NEW waiting \in grabbed, SyncFile(waiting) PROVE Goal(disk')
      <3>1. active \in DOMAIN disk
        BY <1>8 DEF GroupCommitStep, StorageInv, CountersInv
      <3>2. disk' = [disk EXCEPT ![active] = Fsynced(disk[active])]
        BY <2>2 DEF SyncFile
      <3>3. QED
        BY <1>1, <1>2, <1>4, <3>1, <3>2
    <2>3. QED
      BY <1>8, <2>1, <2>2 DEF GroupCommitStep, GroupCommit, FlushPendingSync, SyncClean, SyncDone, logVars
  <1>9. CASE Crash
    <2>1. /\ DOMAIN disk' = DOMAIN disk
          /\ \A i \in DOMAIN disk : disk'[i] \in Remains(disk[i])
      BY <1>9 DEF Crash, PowerLoss
    <2>2. \A i \in DOMAIN disk : i \in Nat /\ GoodFile(disk[i], i)
      BY DEF StorageInv, FilesInv
    <2>3. \A i \in DOMAIN disk : GoodFile(disk'[i], i) /\ Keeps(disk[i], disk'[i])
      BY <2>1, <2>2, RemainingFile
    <2>4. QED
      BY <2>1, <2>2, <2>3 DEF Goal
  <1>10. CASE Close
    <2>1. active \in DOMAIN disk
      BY <1>10 DEF Close, StorageInv, CountersInv
    <2>2. disk' = [disk EXCEPT ![active] = IF syncNeeded THEN Fsynced(disk[active]) ELSE disk[active]]
      BY <1>10 DEF Close, CloseLog
    <2>3. CASE syncNeeded
      <3>1. disk' = [disk EXCEPT ![active] = Fsynced(disk[active])]
        BY <2>2, <2>3
      <3>2. QED
        BY <1>1, <1>2, <1>4, <2>1, <3>1
    <2>4. CASE ~syncNeeded
      <3>1. disk' = [disk EXCEPT ![active] = disk[active]]
        BY <2>2, <2>4
      <3>2. GoodFile(disk[active], active) /\ Keeps(disk[active], disk[active])
        BY <1>1, <2>1 DEF Goal
      <3>3. QED
        BY <1>1, <1>2, <2>1, <3>1, <3>2
    <2>5. QED
      BY <2>3, <2>4
  <1>11. CASE Open
    <2>1. PICK n : n = MaxSeqOf(Recovered) + 1
      OBVIOUS
    <2>2. n \in Nat
      BY <2>1, RecoveredFacts DEF StorageInv
    <2>3. disk' = WithSegment(disk, n)
      BY <1>11, <2>1 DEF Open, OpenLog
    <2>4. QED
      BY <1>1, <1>3, <2>2, <2>3
  <1>12. CASE UNCHANGED disk
    BY <1>1, <1>12
  <1>13. QED
    <2>1. ASSUME NEW w \in Writer, PutInserted(w) \/ OfferFlush(w) PROVE UNCHANGED disk
      BY <2>1 DEF PutInserted, OfferFlush, logVars
    <2>2. StartFlush \/ FinishFlush \/ CompactPanic \/ OpenRefused => UNCHANGED disk
      BY DEF StartFlush, FinishFlush, CompactPanic, OpenRefused, walVars, logVars
    <2>3. QED
      BY <1>7, <1>8, <1>9, <1>10, <1>11, <1>12, <2>1, <2>2 DEF Next

-----------------------------------------------------------------------------
(* The invariant is inductive *)

LEMMA EmptyTableIsInserted == EmptyTable \in Table /\ Inserted(EmptyTable)
  BY DEF EmptyTable, Table, Inserted

LEMMA StorageInit ==
    ASSUME Init, WALAssumption, EngineAssumption
    PROVE  StorageInv
  <1> USE DEF Init, WALInit
  <1>1. FilesInv
    BY DEF FilesInv
  <1>2. CountersInv
    <2>1. size \in 0..SegmentSize /\ active \in Nat /\ sealed \in Nat /\ nextSeq \in Nat
      BY DEF WALAssumption
    <2>2. syncNeeded \in BOOLEAN
      OBVIOUS
    <2>3. status # "open"
      OBVIOUS
    <2>4. QED
      BY <2>1, <2>2, <2>3 DEF CountersInv
  <1>3. GroupsInv
    BY DEF GroupsInv
  <1>4. WritersInv
    BY DEF WritersInv, Busy
  <1>5. TablesInv
    <2>1. Inserted(memTable) /\ EmptyTable \in Table
      BY EmptyTableIsInserted
    <2>2. immutable \in Seq(Table) /\ flushCh \in Seq(Table) /\ level0 \in Seq(SST)
      OBVIOUS
    <2>3. Len(flushCh) <= FlushCap /\ Len(immutable) = 0
      BY DEF EngineAssumption
    <2>4. downs \in 0..MaxDowns
      BY DEF EngineAssumption
    <2>5. compactCh \in BOOLEAN /\ fresh \subseteq Key
      OBVIOUS
    <2>6. toFlush \in [Writer -> Table] /\ flushing \in Table /\ latest \in Table
      BY <2>1
    <2>7. \A i \in 1..Len(immutable) : Inserted(immutable[i])
      BY <2>3
    <2> HIDE DEF Init, WALInit
    <2>8. QED
      BY <2>1, <2>2, <2>3, <2>4, <2>5, <2>6, <2>7 DEF TablesInv
  <1>6. StatusInv
    BY DEF StatusInv
  <1>7. QED
    BY <1>1, <1>2, <1>3, <1>4, <1>5, <1>6 DEF StorageInv

\* A step that leaves writers and numbers alone leaves tables inserted.
LEMMA StillInserted ==
    ASSUME NEW t, Inserted(t), nextSeq \in Nat, nextSeq' \in Nat, nextSeq <= nextSeq',
           \A w \in Writer : writer'[w] \in {"waiting", "logged"} =>
               \/ writer[w] \in {"waiting", "logged"} /\ entry'[w] = entry[w]
               \/ entry'[w] \in Record /\ nextSeq <= entry'[w].seq
    PROVE  Inserted(t)'
  <1>1. t \in Table
    BY DEF Inserted
  <1>2. ASSUME NEW k \in Key, t[k] # NoEntry
        PROVE  t[k].seq < nextSeq' /\ \A w \in Busy' : t[k] # entry'[w]
    <2>1. t[k] \in Record /\ t[k].seq \in Nat
      BY <1>1, <1>2 DEF Table, Record
    <2>2. t[k].seq < nextSeq /\ \A w \in Busy : t[k] # entry[w]
      BY <1>2 DEF Inserted
    <2>3. ASSUME NEW w \in Busy' PROVE t[k] # entry'[w]
      <3>1. w \in Writer /\ writer'[w] \in {"waiting", "logged"}
        BY DEF Busy
      <3>2. CASE writer[w] \in {"waiting", "logged"} /\ entry'[w] = entry[w]
        BY <2>2, <3>1, <3>2 DEF Busy
      <3>3. CASE entry'[w] \in Record /\ nextSeq <= entry'[w].seq
        BY <2>1, <2>2, <3>3 DEF Record
      <3>4. QED
        BY <3>1, <3>2, <3>3
    <2>4. QED
      BY <2>1, <2>2, <2>3
  <1>3. QED
    BY <1>1, <1>2 DEF Inserted

LEMMA WriteStep ==
    ASSUME StorageInv, NEW w \in Writer, NEW k \in Key, PutLogged(w, k), FilesInv',
           WALAssumption, EngineAssumption
    PROVE  StorageInv'
  <1> DEFINE rec == [seq |-> nextSeq, key |-> k]
  <1>1. Write(w, k) /\ status = "open" /\ UNCHANGED engineVars
    BY DEF PutLogged
  <1>2. /\ nextSeq \in Nat /\ nextSeq' = nextSeq + 1 /\ writer[w] = "idle"
        /\ writer' = [writer EXCEPT ![w] = "waiting"]
        /\ entry' = [entry EXCEPT ![w] = rec]
        /\ writer \in [Writer -> {"idle", "waiting", "logged", "handoff"}]
        /\ entry \in [Writer -> Record \cup {NoEntry}]
    BY <1>1 DEF Write, StorageInv, CountersInv, WritersInv
  <1>3. rec \in Record /\ rec.seq = nextSeq
    BY <1>2 DEF Record
  <1> HIDE DEF rec
  <1>4. Busy' = Busy \cup {w} /\ w \notin Busy /\ Waiting' = Waiting \cup {w} /\ w \notin Waiting
    BY <1>2 DEF Busy, Waiting
  <1>5. \A v \in Busy : entry'[v] = entry[v]
    BY <1>2, <1>4
  <1>6. entry'[w] = rec
    BY <1>2
  <1>7. CountersInv'
    <2>1. /\ active \in Nat /\ size \in 0..SegmentSize /\ sealed \in Nat /\ active \in DOMAIN disk
          /\ active <= nextSeq /\ sealed + size + 1 <= nextSeq /\ SegmentSize \in Nat \ {0}
      BY <1>1 DEF StorageInv, CountersInv, WALAssumption
    <2>2. syncNeeded' \in BOOLEAN
      BY <1>1 DEF Write
    <2>3. CASE size < SegmentSize /\ size' = size + 1 /\ UNCHANGED <<active, sealed>>
               /\ disk' = [disk EXCEPT ![active] = Grown(@, rec)]
      BY <1>2, <2>1, <2>2, <2>3 DEF CountersInv
    <2>4. CASE size >= SegmentSize /\ RotateSegment(rec)
      <3>1. active' = sealed + 2 /\ sealed' = sealed + 1 /\ size' = 1
        BY <2>4 DEF RotateSegment
      <3>2. sealed + 2 \in DOMAIN disk'
        BY <2>4 DEF RotateSegment, WithSegment
      <3>3. QED
        BY <1>2, <2>1, <2>2, <2>4, <3>1, <3>2 DEF CountersInv
    <2>5. QED
      BY <1>1, <2>3, <2>4 DEF Write, rec
  <1>8. GroupsInv'
    BY <1>1, <1>4 DEF GroupsInv, StorageInv, Write
  <1>9. WritersInv'
    <2>1. /\ writer' \in [Writer -> {"idle", "waiting", "logged", "handoff"}]
          /\ entry' \in [Writer -> Record \cup {NoEntry}]
      BY <1>2, <1>3
    <2>2. \A v \in Busy : entry[v] \in Record /\ entry[v].seq < nextSeq
      BY DEF StorageInv, WritersInv
    <2>3. \A v \in Busy' : entry'[v] \in Record /\ entry'[v].seq < nextSeq'
      <3>1. ASSUME NEW v \in Busy PROVE entry[v].seq < nextSeq'
        BY <1>2, <2>2 DEF Record
      <3>2. rec.seq < nextSeq'
        BY <1>2, <1>3
      <3>3. QED
        BY <1>3, <1>4, <1>5, <1>6, <2>2, <3>1, <3>2
    <2>4. \A v \in Busy : entry[v] # rec
      BY <1>2, <1>3, <2>2 DEF Record
    <2>5. \A u, v \in Busy' : u = v \/ entry'[u] # entry'[v]
      BY <1>4, <1>5, <1>6, <2>4 DEF StorageInv, WritersInv
    <2>6. acked' \subseteq Record /\ raced' \in BOOLEAN
      BY <1>1 DEF Write, StorageInv, WritersInv
    <2>7. QED
      BY <2>1, <2>3, <2>5, <2>6 DEF WritersInv
  <1>10. TablesInv'
    <2>1. \A v \in Writer : writer'[v] \in {"waiting", "logged"} =>
               \/ writer[v] \in {"waiting", "logged"} /\ entry'[v] = entry[v]
               \/ entry'[v] \in Record /\ nextSeq <= entry'[v].seq
      BY <1>2, <1>3
    <2>2. ASSUME NEW t, Inserted(t) PROVE Inserted(t)'
      <3>1. nextSeq' \in Nat /\ nextSeq <= nextSeq'
        BY <1>2
      <3>2. QED
        BY <1>2, <2>1, <2>2, <3>1, StillInserted
    <2>3. UNCHANGED <<memTable, immutable, toFlush, flushCh, flushing, level0, compactCh, downs, latest, fresh>>
      BY <1>1 DEF engineVars
    <2>4. Inserted(memTable) /\ \A i \in 1..Len(immutable) : Inserted(immutable[i])
      BY DEF StorageInv, TablesInv
    <2>5. Inserted(memTable)'
      <3>1. PICK t : t = memTable
        OBVIOUS
      <3>2. Inserted(t)'
        BY <2>2, <2>4, <3>1
      <3>3. QED
        BY <2>3, <3>1, <3>2
    <2>6. \A i \in 1..Len(immutable) : Inserted(immutable[i])'
      <3>1. SUFFICES ASSUME NEW i \in 1..Len(immutable) PROVE Inserted(immutable[i])'
        OBVIOUS
      <3>2. PICK t : t = immutable[i]
        OBVIOUS
      <3>3. Inserted(t)'
        BY <2>2, <2>4, <3>2
      <3>4. QED
        BY <2>3, <3>2, <3>3
    <2>7. QED
      BY <2>3, <2>5, <2>6 DEF TablesInv, StorageInv
  <1>11. StatusInv'
    BY <1>1 DEF StatusInv, engineVars
  <1>12. QED
    BY <1>7, <1>8, <1>9, <1>10, <1>11 DEF StorageInv

\* The tables stay inserted when a step leaves numbers alone and gives no writer a new record.
LEMMA SameTables ==
    ASSUME TablesInv, nextSeq \in Nat, nextSeq' = nextSeq,
           \A w \in Writer : writer'[w] \in {"waiting", "logged"} =>
               writer[w] \in {"waiting", "logged"} /\ entry'[w] = entry[w]
    PROVE  /\ UNCHANGED memTable => Inserted(memTable)'
           /\ UNCHANGED immutable => \A i \in 1..Len(immutable) : Inserted(immutable[i])'
  <1>1. ASSUME NEW t, Inserted(t) PROVE Inserted(t)'
    BY <1>1, StillInserted
  <1>2. ASSUME UNCHANGED memTable PROVE Inserted(memTable)'
    <2>1. PICK t : t = memTable
      OBVIOUS
    <2>2. Inserted(t)'
      BY <1>1, <2>1 DEF TablesInv
    <2>3. QED
      BY <1>2, <2>1, <2>2
  <1>3. ASSUME UNCHANGED immutable, NEW i \in 1..Len(immutable) PROVE Inserted(immutable[i])'
    <2>1. PICK t : t = immutable[i]
      OBVIOUS
    <2>2. Inserted(t)'
      BY <1>1, <2>1 DEF TablesInv
    <2>3. QED
      BY <1>3, <2>1, <2>2
  <1>4. QED
    BY <1>2, <1>3

\* A flush answers its writers: they leave their group, with the records they had.
LEMMA NotifyStep ==
    ASSUME StorageInv, NEW waiting, waiting \subseteq Waiting, Notify(waiting), entry' = entry,
           nextSeq' = nextSeq
    PROVE  /\ Waiting' = Waiting \ waiting
           /\ Busy' = Busy
           /\ acked' \subseteq Record
           /\ writer' \in [Writer -> {"idle", "waiting", "logged", "handoff"}]
  <1>1. writer \in [Writer -> {"idle", "waiting", "logged", "handoff"}]
    BY DEF StorageInv, WritersInv
  <1>2. writer' = [w \in Writer |-> IF w \in waiting THEN "logged" ELSE writer[w]]
    BY DEF Notify
  <1>3. waiting \subseteq Writer /\ \A w \in waiting : writer[w] = "waiting"
    BY DEF Waiting
  <1>4. \A w \in waiting : entry[w] \in Record
    BY <1>3 DEF StorageInv, WritersInv, Busy
  <1>5. acked' \subseteq Record
    BY <1>4 DEF Notify, StorageInv, WritersInv
  <1>6. Waiting' = Waiting \ waiting /\ Busy' = Busy
    BY <1>1, <1>2, <1>3 DEF Waiting, Busy
  <1>7. QED
    BY <1>1, <1>2, <1>5, <1>6

LEMMA GroupCommitKeeps ==
    ASSUME StorageInv, GroupCommitStep, FilesInv', WALAssumption, EngineAssumption
    PROVE  StorageInv'
  <1>1. status = "open" /\ GroupCommit /\ UNCHANGED engineVars
    BY DEF GroupCommitStep
  <1>2. UNCHANGED <<status, memTable, immutable, toFlush, flushCh, flushing, level0, compactCh,
                    downs, latest, fresh>>
    BY <1>1 DEF engineVars
  <1>3. /\ UNCHANGED <<active, size, sealed, nextSeq, entry, raced>>
        /\ syncNeeded' \in BOOLEAN
        /\ DOMAIN disk' = DOMAIN disk
    BY <1>1 DEF GroupCommit, FlushPendingSync, SyncClean, SyncFile, SyncDone, logVars,
                StorageInv, CountersInv
  <1>4. CountersInv'
    BY <1>2, <1>3 DEF StorageInv, CountersInv
  <1>5. /\ GroupsInv'
        /\ Busy' = Busy
        /\ acked' \subseteq Record
        /\ writer' \in [Writer -> {"idle", "waiting", "logged", "handoff"}]
    <2>1. /\ GroupsInv
          /\ acked \subseteq Record
          /\ writer \in [Writer -> {"idle", "waiting", "logged", "handoff"}]
      BY DEF StorageInv, WritersInv
    <2>2. CASE FlushPendingSync
      <3>1. UNCHANGED <<writer, syncing, acked>> /\ Waiting' = Waiting /\ Busy' = Busy
        BY <2>2 DEF FlushPendingSync, Waiting, Busy
      <3>2. pendingSync' = {} /\ syncTimer' = "nil" /\ grabbed' = grabbed \cup {pendingSync}
        BY <2>2 DEF FlushPendingSync
      <3>3. GroupsInv'
        BY <2>1, <3>1, <3>2 DEF GroupsInv
      <3>4. QED
        BY <2>1, <3>1, <3>3
    <2>3. ASSUME NEW waiting \in grabbed, SyncClean(waiting)
          PROVE  /\ GroupsInv'
                 /\ Busy' = Busy
                 /\ acked' \subseteq Record
                 /\ writer' \in [Writer -> {"idle", "waiting", "logged", "handoff"}]
      <3>1. /\ grabbed' = grabbed \ {waiting} /\ Notify(waiting)
            /\ UNCHANGED <<pendingSync, syncTimer, syncing>>
        BY <2>3 DEF SyncClean
      <3>2. waiting \subseteq Waiting
        BY <2>1 DEF GroupsInv
      <3>3. /\ Waiting' = Waiting \ waiting /\ Busy' = Busy /\ acked' \subseteq Record
            /\ writer' \in [Writer -> {"idle", "waiting", "logged", "handoff"}]
        BY <1>3, <3>1, <3>2, NotifyStep
      <3>4. GroupsInv'
        BY <2>1, <3>1, <3>3 DEF GroupsInv
      <3>5. QED
        BY <3>3, <3>4
    <2>4. ASSUME NEW waiting \in grabbed, SyncFile(waiting)
          PROVE  /\ GroupsInv'
                 /\ Busy' = Busy
                 /\ acked' \subseteq Record
                 /\ writer' \in [Writer -> {"idle", "waiting", "logged", "handoff"}]
      <3>1. /\ UNCHANGED <<writer, pendingSync, syncTimer, acked>>
            /\ Waiting' = Waiting /\ Busy' = Busy
        BY <2>4 DEF SyncFile, Waiting, Busy
      <3>2. syncing = {} /\ syncing' = waiting /\ grabbed' = grabbed \ {waiting}
        BY <2>4 DEF SyncFile
      <3>3. GroupsInv'
        BY <2>1, <3>1, <3>2 DEF GroupsInv
      <3>4. QED
        BY <2>1, <3>1, <3>3
    <2>5. CASE SyncDone
      <3>1. Notify(syncing) /\ syncing' = {} /\ UNCHANGED <<pendingSync, syncTimer, grabbed>>
        BY <2>5 DEF SyncDone
      <3>2. syncing \subseteq Waiting
        BY <2>1 DEF GroupsInv
      <3>3. /\ Waiting' = Waiting \ syncing /\ Busy' = Busy /\ acked' \subseteq Record
            /\ writer' \in [Writer -> {"idle", "waiting", "logged", "handoff"}]
        BY <1>3, <3>1, <3>2, NotifyStep
      <3>4. GroupsInv'
        BY <2>1, <3>1, <3>3 DEF GroupsInv
      <3>5. QED
        BY <3>3, <3>4
    <2>6. QED
      BY <1>1, <2>2, <2>3, <2>4, <2>5 DEF GroupCommit
  <1>6. WritersInv'
    BY <1>3, <1>5 DEF StorageInv, WritersInv
  <1>7. TablesInv'
    <2>1. \A w \in Writer : writer'[w] \in {"waiting", "logged"} =>
               writer[w] \in {"waiting", "logged"} /\ entry'[w] = entry[w]
      BY <1>3, <1>5 DEF Busy
    <2>2. Inserted(memTable)' /\ \A i \in 1..Len(immutable) : Inserted(immutable[i])'
      BY <1>2, <1>3, <2>1, SameTables DEF StorageInv, CountersInv
    <2>3. QED
      BY <1>2, <2>2 DEF StorageInv, TablesInv
  <1>8. StatusInv'
    BY <1>1, <1>2 DEF StorageInv, StatusInv
  <1>9. QED
    BY <1>4, <1>5, <1>6, <1>7, <1>8 DEF StorageInv

LEMMA InsertStep ==
    ASSUME StorageInv, NEW w \in Writer, PutInserted(w), FilesInv', WALAssumption, EngineAssumption
    PROVE  StorageInv'
  <1> DEFINE e == entry[w]
             t == [memTable EXCEPT ![e.key] = e]
  <1>1. /\ status = "open" /\ writer[w] = "logged"
        /\ latest' = [latest EXCEPT ![e.key] = e]
        /\ fresh' = fresh \cup {e.key}
        /\ entry' = [entry EXCEPT ![w] = NoEntry]
        /\ UNCHANGED <<disk, active, size, sealed, syncNeeded, nextSeq>>
        /\ UNCHANGED <<pendingSync, syncTimer, grabbed, syncing>>
        /\ UNCHANGED <<acked, raced, status, flushCh, flushing, level0, compactCh, downs>>
    BY DEF PutInserted, logVars, groupVars
  <1>2. /\ writer \in [Writer -> {"idle", "waiting", "logged", "handoff"}]
        /\ entry \in [Writer -> Record \cup {NoEntry}]
        /\ e \in Record /\ e.key \in Key /\ e.seq < nextSeq /\ w \in Busy
        /\ nextSeq \in Nat
    BY <1>1 DEF StorageInv, WritersInv, Busy, Record, CountersInv
  <1>3. \/ /\ immutable' = Append(immutable, t) /\ memTable' = EmptyTable
           /\ toFlush' = [toFlush EXCEPT ![w] = t] /\ writer' = [writer EXCEPT ![w] = "handoff"]
        \/ /\ memTable' = t /\ writer' = [writer EXCEPT ![w] = "idle"]
           /\ UNCHANGED <<immutable, toFlush>>
    BY DEF PutInserted, Freeze
  <1>4. /\ Busy' = Busy \ {w} /\ Waiting' = Waiting
        /\ writer' \in [Writer -> {"idle", "waiting", "logged", "handoff"}]
    BY <1>1, <1>2, <1>3 DEF Busy, Waiting
  <1>5. CountersInv'
    BY <1>1 DEF StorageInv, CountersInv
  <1>6. GroupsInv'
    BY <1>1, <1>4 DEF StorageInv, GroupsInv
  <1>7. \A v \in Busy' : entry'[v] = entry[v] /\ v \in Busy /\ entry[v] # e
    BY <1>1, <1>2, <1>4 DEF StorageInv, WritersInv, Busy
  <1>8. WritersInv'
    <2>1. entry' \in [Writer -> Record \cup {NoEntry}]
      BY <1>1, <1>2
    <2>2. \A v \in Busy' : entry'[v] \in Record /\ entry'[v].seq < nextSeq'
      BY <1>1, <1>7 DEF StorageInv, WritersInv
    <2>3. \A u, v \in Busy' : u = v \/ entry'[u] # entry'[v]
      BY <1>7 DEF StorageInv, WritersInv
    <2>4. acked' \subseteq Record /\ raced' \in BOOLEAN
      BY <1>1 DEF StorageInv, WritersInv
    <2>5. QED
      BY <1>4, <2>1, <2>2, <2>3, <2>4 DEF WritersInv
  <1>9. TablesInv'
    <2> HIDE DEF e
    <2>1. /\ Inserted(memTable) /\ memTable \in Table /\ immutable \in Seq(Table)
          /\ toFlush \in [Writer -> Table] /\ latest \in Table /\ fresh \subseteq Key
          /\ TablesInv
      BY DEF StorageInv, TablesInv, Inserted
    <2>2. t \in Table
      BY <1>2, <2>1 DEF Table
    <2>3. \A v \in Writer : writer'[v] \in {"waiting", "logged"} =>
               writer[v] \in {"waiting", "logged"} /\ entry'[v] = entry[v]
      BY <1>7 DEF Busy
    <2>4. PICK T : T = t
      OBVIOUS
    <2>5. Inserted(T)'
      <3>1. T \in Table
        BY <2>2, <2>4
      <3>2. ASSUME NEW k \in Key, T[k] # NoEntry
            PROVE  T[k].seq < nextSeq' /\ \A v \in Busy' : T[k] # entry'[v]
        <4>1. CASE k = e.key
          BY <1>1, <1>2, <1>7, <2>1, <2>4, <4>1 DEF Table
        <4>2. CASE k # e.key
          BY <1>1, <1>2, <1>7, <2>1, <2>4, <3>2, <4>2 DEF Table, Inserted
        <4>3. QED
          BY <4>1, <4>2
      <3>3. QED
        BY <3>1, <3>2 DEF Inserted
    <2>6. UNCHANGED immutable => \A i \in 1..Len(immutable) : Inserted(immutable[i])'
      BY <1>1, <1>2, <2>1, <2>3, SameTables
    <2>7. \A i \in 1..Len(immutable) : Inserted(immutable[i]) /\ immutable[i] \in Table
      BY <2>1 DEF TablesInv, Inserted
    <2>8. ASSUME NEW i \in 1..Len(immutable), NEW x, x = immutable[i] PROVE Inserted(x)'
      BY <1>1, <1>2, <2>3, <2>7, <2>8, StillInserted
    <2>9. /\ latest' \in Table /\ fresh' \subseteq Key
      BY <1>1, <1>2, <2>1 DEF Table
    <2>10. CASE /\ immutable' = Append(immutable, t) /\ memTable' = EmptyTable
                /\ toFlush' = [toFlush EXCEPT ![w] = t]
      <3>1. /\ immutable' \in Seq(Table) /\ Len(immutable') = Len(immutable) + 1
            /\ \A i \in 1..Len(immutable) : immutable'[i] = immutable[i]
            /\ immutable'[Len(immutable) + 1] = T
        BY <2>1, <2>2, <2>4, <2>10, AppendProperties
      <3>2. toFlush' \in [Writer -> Table]
        BY <2>1, <2>2, <2>10
      <3>3. Inserted(memTable)'
        <4>1. EmptyTable \in Table /\ \A k \in Key : EmptyTable[k] = NoEntry
          BY EmptyTableIsInserted DEF EmptyTable
        <4>2. QED
          BY <2>10, <4>1 DEF Inserted
      <3>4. Len(immutable) \in Nat
        BY <2>1, LenProperties
      <3>5. ASSUME NEW i \in 1..Len(immutable') PROVE Inserted(immutable[i])'
        <4>1. CASE i \in 1..Len(immutable)
          <5>1. PICK x : x = immutable[i]
            OBVIOUS
          <5>2. Inserted(x)'
            BY <2>8, <4>1, <5>1
          <5>3. immutable'[i] = x
            BY <3>1, <4>1, <5>1
          <5>4. QED
            BY <5>2, <5>3
        <4>2. CASE i = Len(immutable) + 1
          BY <2>5, <3>1, <4>2
        <4>3. QED
          BY <3>1, <3>4, <4>1, <4>2
      <3>6. QED
        BY <1>1, <2>1, <2>9, <3>1, <3>2, <3>3, <3>5 DEF TablesInv
    <2>11. CASE memTable' = t /\ UNCHANGED <<immutable, toFlush>>
      <3>1. Inserted(memTable)'
        BY <2>4, <2>5, <2>11
      <3>2. QED
        BY <1>1, <2>1, <2>6, <2>9, <2>11, <3>1 DEF TablesInv
    <2>12. QED
      BY <1>3, <2>10, <2>11
  <1>10. StatusInv'
    BY <1>1 DEF StorageInv, StatusInv
  <1>11. QED
    BY <1>5, <1>6, <1>8, <1>9, <1>10 DEF StorageInv

LEMMA OfferStep ==
    ASSUME StorageInv, NEW w \in Writer, OfferFlush(w), FilesInv', EngineAssumption
    PROVE  StorageInv'
  <1>1. /\ status = "open" /\ writer[w] = "handoff"
        /\ \/ flushCh' = Append(flushCh, toFlush[w]) /\ Len(flushCh) < FlushCap
           \/ flushCh' = flushCh
        /\ toFlush' = [toFlush EXCEPT ![w] = EmptyTable]
        /\ writer' = [writer EXCEPT ![w] = "idle"]
        /\ UNCHANGED <<disk, active, size, sealed, syncNeeded, nextSeq>>
        /\ UNCHANGED <<pendingSync, syncTimer, grabbed, syncing>>
        /\ UNCHANGED <<entry, acked, raced, status, memTable, immutable, flushing, level0,
                       compactCh, downs, latest, fresh>>
    BY DEF OfferFlush, logVars, groupVars
  <1>2. /\ writer \in [Writer -> {"idle", "waiting", "logged", "handoff"}]
        /\ nextSeq \in Nat
    BY DEF StorageInv, WritersInv, CountersInv
  <1>3. /\ Busy' = Busy /\ Waiting' = Waiting
        /\ writer' \in [Writer -> {"idle", "waiting", "logged", "handoff"}]
    BY <1>1, <1>2 DEF Busy, Waiting
  <1>4. CountersInv'
    BY <1>1 DEF StorageInv, CountersInv
  <1>5. GroupsInv'
    BY <1>1, <1>3 DEF StorageInv, GroupsInv
  <1>6. WritersInv'
    BY <1>1, <1>3 DEF StorageInv, WritersInv
  <1>7. TablesInv'
    <2>1. TablesInv
      BY DEF StorageInv
    <2>2. \A v \in Writer : writer'[v] \in {"waiting", "logged"} =>
               writer[v] \in {"waiting", "logged"} /\ entry'[v] = entry[v]
      BY <1>1, <1>3 DEF Busy
    <2>3. Inserted(memTable)' /\ \A i \in 1..Len(immutable) : Inserted(immutable[i])'
      BY <1>1, <1>2, <2>1, <2>2, SameTables
    <2>4. toFlush' \in [Writer -> Table]
      BY <1>1, <2>1, EmptyTableIsInserted DEF TablesInv
    <2>5. flushCh' \in Seq(Table) /\ Len(flushCh') <= FlushCap
      <3>1. flushCh \in Seq(Table) /\ Len(flushCh) <= FlushCap /\ toFlush[w] \in Table /\ FlushCap \in Nat
        BY <2>1 DEF TablesInv, EngineAssumption
      <3>2. Len(flushCh) \in Nat
        BY <3>1, LenProperties
      <3>3. CASE flushCh' = Append(flushCh, toFlush[w]) /\ Len(flushCh) < FlushCap
        <4>1. flushCh' \in Seq(Table) /\ Len(flushCh') = Len(flushCh) + 1
          BY <3>1, <3>3, AppendProperties
        <4>2. QED
          BY <3>1, <3>2, <3>3, <4>1
      <3>4. QED
        BY <1>1, <3>1, <3>3
    <2>6. QED
      BY <1>1, <2>1, <2>3, <2>4, <2>5 DEF TablesInv
  <1>8. StatusInv'
    BY <1>1 DEF StorageInv, StatusInv
  <1>9. QED
    BY <1>4, <1>5, <1>6, <1>7, <1>8 DEF StorageInv

\* What is left of a list of tables when one of them is taken out.
LEMMA WithoutFacts ==
    ASSUME NEW tables \in Seq(Table), NEW t
    PROVE  \/ Without(tables, t) = tables /\ \A j \in 1..Len(tables) : tables[j] # t
           \/ \E m \in 1..Len(tables) :
                /\ tables[m] = t
                /\ Without(tables, t) \in Seq(Table)
                /\ Len(Without(tables, t)) = Len(tables) - 1
                /\ \A j \in 1..Len(tables) - 1 :
                      Without(tables, t)[j] = IF j < m THEN tables[j] ELSE tables[j + 1]
  <1> DEFINE at == {i \in 1..Len(tables) : tables[i] = t}
  <1>1. Len(tables) \in Nat
    BY LenProperties
  <1>2. CASE at = {}
    BY <1>2 DEF Without
  <1>3. CASE at # {}
    <2>1. at \in SUBSET Nat
      BY <1>1
    <2>2. \E m \in at : \A j \in at : m <= j
      BY <1>3, <2>1, NatMin
    <2>3. PICK m : m = CHOOSE i \in at : \A j \in at : i <= j
      OBVIOUS
    <2>4. m \in at
      BY <2>2, <2>3
    <2>5. m \in 1..Len(tables) /\ tables[m] = t /\ m \in Nat
      BY <2>4, <1>1
    <2>6. Without(tables, t) = SubSeq(tables, 1, m - 1) \o SubSeq(tables, m + 1, Len(tables))
      BY <1>3, <2>3 DEF Without
    <2> HIDE DEF at
    <2>7. PICK a, b : a = SubSeq(tables, 1, m - 1) /\ b = SubSeq(tables, m + 1, Len(tables))
      OBVIOUS
    <2>8. \A j \in 1..Len(tables) : tables[j] \in Table
      BY ElementOfSeq
    <2>9. a = [j \in 1..m - 1 |-> tables[j]] /\ a \in Seq(Table) /\ Len(a) = m - 1
      <3>1. a = [j \in 1..m - 1 |-> tables[j]]
        BY <1>1, <2>5, <2>7
      <3>2. \A j \in 1..m - 1 : tables[j] \in Table
        BY <1>1, <2>5, <2>8
      <3>3. m - 1 \in Nat
        BY <1>1, <2>5
      <3>4. QED
        BY <3>1, <3>2, <3>3
    <2>10. b = [j \in 1..Len(tables) - m |-> tables[j + m]] /\ b \in Seq(Table) /\ Len(b) = Len(tables) - m
      <3>1. Len(tables) - m \in Nat
        BY <1>1, <2>5
      <3>2. b = [j \in 1..Len(tables) - m |-> tables[j + m]]
        <4>1. b = [j \in 1..(1 + Len(tables) - (m + 1)) |-> tables[(m + 1) + j - 1]]
          BY <1>1, <2>5, <2>7
        <4>2. 1 + Len(tables) - (m + 1) = Len(tables) - m
          BY <1>1, <2>5
        <4>3. \A j \in 1..Len(tables) - m : (m + 1) + j - 1 = j + m
          BY <1>1, <2>5
        <4>4. QED
          BY <4>1, <4>2, <4>3
      <3>3. \A j \in 1..Len(tables) - m : j + m \in 1..Len(tables)
        BY <1>1, <2>5
      <3>4. QED
        BY <2>8, <3>1, <3>2, <3>3
    <2>11. /\ a \o b \in Seq(Table) /\ Len(a \o b) = Len(a) + Len(b)
           /\ \A j \in 1..Len(a) + Len(b) :
                 (a \o b)[j] = IF j <= Len(a) THEN a[j] ELSE b[j - Len(a)]
      <3>1. a \in Seq(Table) /\ b \in Seq(Table)
        BY <2>9, <2>10
      <3>2. QED
        BY <3>1, ConcatProperties
    <2>12. Len(a) + Len(b) = Len(tables) - 1
      BY <1>1, <2>5, <2>9, <2>10
    <2>13. ASSUME NEW j \in 1..Len(tables) - 1
           PROVE  (a \o b)[j] = IF j < m THEN tables[j] ELSE tables[j + 1]
      <3>1. CASE j < m
        <4>1. j <= Len(a) /\ j \in 1..m - 1
          BY <1>1, <2>5, <2>9, <3>1
        <4>2. QED
          BY <2>9, <2>11, <2>12, <3>1, <4>1
      <3>2. CASE ~(j < m)
        <4>1. ~(j <= Len(a)) /\ j - Len(a) \in 1..Len(tables) - m /\ (j - Len(a)) + m = j + 1
          BY <1>1, <2>5, <2>9, <3>2
        <4>2. b[j - Len(a)] = tables[j + 1]
          BY <2>10, <4>1
        <4>3. QED
          BY <2>11, <2>12, <3>2, <4>1, <4>2
      <3>3. QED
        BY <3>1, <3>2
    <2>14. QED
      BY <2>5, <2>6, <2>7, <2>11, <2>12, <2>13
  <1>4. QED
    BY <1>2, <1>3

LEMMA FlushSteps ==
    ASSUME StorageInv, StartFlush \/ FinishFlush, FilesInv', EngineAssumption
    PROVE  StorageInv'
  <1>1. /\ status = "open" /\ UNCHANGED <<status, memTable, toFlush, downs, latest, fresh>>
        /\ UNCHANGED <<disk, active, size, sealed, syncNeeded, nextSeq>>
        /\ UNCHANGED <<pendingSync, syncTimer, grabbed, syncing, writer, entry, acked, raced>>
    BY DEF StartFlush, FinishFlush, walVars, logVars, groupVars
  <1>2. TablesInv /\ nextSeq \in Nat /\ Busy' = Busy /\ Waiting' = Waiting
    BY <1>1 DEF StorageInv, CountersInv, Busy, Waiting
  <1>3. CountersInv' /\ GroupsInv' /\ WritersInv' /\ StatusInv'
    <2>1. CountersInv'
      BY <1>1 DEF StorageInv, CountersInv
    <2>2. GroupsInv'
      BY <1>1, <1>2 DEF StorageInv, GroupsInv
    <2>3. WritersInv'
      BY <1>1, <1>2 DEF StorageInv, WritersInv
    <2>4. StatusInv'
      BY <1>1 DEF StorageInv, StatusInv
    <2>5. QED
      BY <2>1, <2>2, <2>3, <2>4
  <1>4. ASSUME NEW t PROVE Inserted(t)' <=> Inserted(t)
    BY <1>1, <1>2 DEF Inserted
  <1>5. Inserted(memTable)'
    <2>1. PICK t : t = memTable
      OBVIOUS
    <2>2. Inserted(t)'
      BY <1>2, <1>4, <2>1 DEF TablesInv
    <2>3. QED
      BY <1>1, <2>1, <2>2
  <1>6. TablesInv'
    <2>1. CASE StartFlush
      <3>1. /\ flushCh # <<>> /\ flushing' = Head(flushCh) /\ flushCh' = Tail(flushCh)
            /\ UNCHANGED <<immutable, level0, compactCh>>
        BY <2>1 DEF StartFlush
      <3>2. flushCh \in Seq(Table) /\ Len(flushCh) <= FlushCap /\ FlushCap \in Nat
        BY <1>2 DEF TablesInv, EngineAssumption
      <3>3. /\ Head(flushCh) \in Table /\ Tail(flushCh) \in Seq(Table)
            /\ Len(Tail(flushCh)) = Len(flushCh) - 1 /\ Len(flushCh) \in Nat
        BY <3>1, <3>2, HeadTailProperties, LenProperties
      <3>4. Len(flushCh') <= FlushCap
        BY <3>1, <3>2, <3>3
      <3>5. \A i \in 1..Len(immutable) : Inserted(immutable[i])'
        <4>1. SUFFICES ASSUME NEW i \in 1..Len(immutable) PROVE Inserted(immutable[i])'
          OBVIOUS
        <4>2. PICK t : t = immutable[i]
          OBVIOUS
        <4>3. Inserted(t)'
          BY <1>2, <1>4, <4>2 DEF TablesInv
        <4>4. QED
          BY <3>1, <4>2, <4>3
      <3>6. QED
        BY <1>1, <1>2, <1>5, <3>1, <3>3, <3>4, <3>5 DEF TablesInv
    <2>2. CASE FinishFlush
      <3>1. /\ level0' = Append(level0, [table |-> flushing, ranged |-> TRUE])
            /\ immutable' = Without(immutable, flushing)
            /\ compactCh' \in BOOLEAN /\ flushing' = EmptyTable /\ UNCHANGED flushCh
        BY <2>2 DEF FinishFlush
      <3>2. /\ level0 \in Seq(SST) /\ flushing \in Table /\ immutable \in Seq(Table)
            /\ EmptyTable \in Table
        BY <1>2, EmptyTableIsInserted DEF TablesInv
      <3>3. [table |-> flushing, ranged |-> TRUE] \in SST
        BY <3>2 DEF SST
      <3>4. level0' \in Seq(SST)
        BY <3>1, <3>2, <3>3, AppendProperties
      <3>5. /\ immutable' \in Seq(Table)
            /\ \A i \in 1..Len(immutable') : \E j \in 1..Len(immutable) : immutable'[i] = immutable[j]
        <4>1. Len(immutable) \in Nat
          BY <3>2, LenProperties
        <4>2. CASE immutable' = immutable
          BY <3>2, <4>2
        <4>3. CASE \E m \in 1..Len(immutable) :
                /\ immutable' \in Seq(Table)
                /\ Len(immutable') = Len(immutable) - 1
                /\ \A j \in 1..Len(immutable) - 1 :
                      immutable'[j] = IF j < m THEN immutable[j] ELSE immutable[j + 1]
          <5>1. \A j \in 1..Len(immutable) - 1 : j \in 1..Len(immutable) /\ j + 1 \in 1..Len(immutable)
            BY <4>1
          <5>2. QED
            BY <4>3, <5>1
        <4>4. PICK t : t = flushing
          OBVIOUS
        <4>5. immutable' = Without(immutable, t)
          BY <3>1, <4>4
        <4>6. \/ immutable' = immutable
              \/ \E m \in 1..Len(immutable) :
                   /\ immutable' \in Seq(Table)
                   /\ Len(immutable') = Len(immutable) - 1
                   /\ \A j \in 1..Len(immutable) - 1 :
                         immutable'[j] = IF j < m THEN immutable[j] ELSE immutable[j + 1]
          <5>1. \/ Without(immutable, t) = immutable /\ \A j \in 1..Len(immutable) : immutable[j] # t
                \/ \E m \in 1..Len(immutable) :
                     /\ immutable[m] = t
                     /\ Without(immutable, t) \in Seq(Table)
                     /\ Len(Without(immutable, t)) = Len(immutable) - 1
                     /\ \A j \in 1..Len(immutable) - 1 :
                           Without(immutable, t)[j] = IF j < m THEN immutable[j] ELSE immutable[j + 1]
            BY <3>2, WithoutFacts
          <5>2. QED
            BY <4>5, <5>1
        <4>7. QED
          BY <4>2, <4>3, <4>6
      <3>6. \A i \in 1..Len(immutable') : Inserted(immutable[i])'
        <4>1. SUFFICES ASSUME NEW i \in 1..Len(immutable') PROVE Inserted(immutable[i])'
          OBVIOUS
        <4>2. PICK t : t = immutable'[i]
          OBVIOUS
        <4>3. Inserted(t)'
          BY <1>2, <1>4, <3>5, <4>2 DEF TablesInv
        <4>4. QED
          BY <4>2, <4>3
      <3>7. QED
        BY <1>1, <1>2, <1>5, <3>1, <3>2, <3>4, <3>5, <3>6 DEF TablesInv
    <2>3. QED
      BY <2>1, <2>2
  <1>7. QED
    BY <1>3, <1>6 DEF StorageInv

\* With no writers, no tables and nothing numbered, only the files and the SSTables matter.
LEMMA FreshProcess ==
    ASSUME StorageInv, FilesInv', NoWriters, level0' \in Seq(SST),
           memTable' = EmptyTable, immutable' = <<>>, fresh' = {},
           toFlush' \in [Writer -> Table], flushCh' \in Seq(Table), Len(flushCh') <= FlushCap,
           flushing' \in Table, compactCh' \in BOOLEAN, downs' \in 0..MaxDowns,
           UNCHANGED <<acked, raced, latest>>,
           status' \in {"down", "open", "refused"}, CountersInv'
    PROVE  StorageInv'
  <1>1. Waiting' = {} /\ Busy' = {}
    BY DEF NoWriters, Waiting, Busy
  <1>2. GroupsInv'
    BY DEF NoWriters, GroupsInv
  <1>3. WritersInv'
    BY <1>1 DEF StorageInv, WritersInv, NoWriters
  <1>4. Inserted(memTable)'
    <2>1. EmptyTable \in Table /\ \A k \in Key : EmptyTable[k] = NoEntry
      BY EmptyTableIsInserted DEF EmptyTable
    <2>2. QED
      BY <2>1 DEF Inserted
  <1>5. immutable' \in Seq(Table) /\ \A i \in 1..Len(immutable') : Inserted(immutable[i])'
    OBVIOUS
  <1>6. TablesInv'
    BY <1>4, <1>5 DEF StorageInv, TablesInv
  <1>7. StatusInv'
    BY DEF NoWriters, StatusInv
  <1>8. QED
    BY <1>2, <1>3, <1>6, <1>7 DEF StorageInv

LEMMA GoneStep ==
    ASSUME StorageInv, CompactPanic \/ Crash \/ Close, FilesInv', WALAssumption, EngineAssumption
    PROVE  StorageInv'
  <1>1. ProcessGone
    BY DEF CompactPanic, Crash, Close
  <1>2. /\ level0 \in Seq(SST) /\ flushing \in Table /\ memTable \in Table /\ EmptyTable \in Table
        /\ downs \in 0..MaxDowns
    BY EmptyTableIsInserted DEF StorageInv, TablesInv, Inserted
  <1>3. ASSUME NEW t \in Table, NEW b \in BOOLEAN
        PROVE  Append(level0, [table |-> t, ranged |-> b]) \in Seq(SST)
    <2>1. [table |-> t, ranged |-> b] \in SST
      BY DEF SST
    <2>2. QED
      BY <1>2, <2>1, AppendProperties
  <1>4. level0' \in Seq(SST)
    <2>1. CASE FilesLeft
      BY <1>2, <1>3, <2>1 DEF FilesLeft
    <2>2. CASE Close
      BY <1>2, <1>3, <2>2 DEF Close
    <2>3. QED
      BY <2>1, <2>2 DEF CompactPanic, Crash
  <1>5. status' = "down" /\ CountersInv'
    <2>1. /\ active' = 0 /\ size' = 0 /\ sealed' = 0 /\ syncNeeded' = FALSE /\ nextSeq' = 1
          /\ status' = "down"
      BY <1>1 DEF ProcessGone
    <2>2. size' \in 0..SegmentSize
      BY <2>1 DEF WALAssumption
    <2>3. syncNeeded' \in BOOLEAN
      BY <2>1
    <2>4. QED
      BY <2>1, <2>2, <2>3 DEF CountersInv
  <1>6. downs' \in 0..MaxDowns
    BY <1>1, <1>2 DEF ProcessGone, EngineAssumption
  <1>7. /\ toFlush' \in [Writer -> Table] /\ flushCh' = <<>> /\ flushing' \in Table
        /\ compactCh' = FALSE /\ memTable' = EmptyTable /\ immutable' = <<>> /\ fresh' = {}
        /\ NoWriters /\ UNCHANGED <<acked, raced, latest>>
    BY <1>1, <1>2 DEF ProcessGone
  <1>8. flushCh' \in Seq(Table) /\ Len(flushCh') <= FlushCap
    BY <1>7 DEF EngineAssumption
  <1>9. QED
    BY <1>4, <1>5, <1>6, <1>7, <1>8, FreshProcess

LEMMA OpenStep ==
    ASSUME StorageInv, Open, FilesInv', WALAssumption, EngineAssumption
    PROVE  StorageInv'
  <1>1. /\ status = "down" /\ status' = "open" /\ OpenLog /\ NoWriters /\ level0' = LoadSSTables
        /\ memTable' = Replayed
        /\ UNCHANGED <<acked, raced, immutable, toFlush, flushCh, flushing, compactCh, downs, latest,
                       fresh>>
    BY DEF Open
  <1>2. memTable' = EmptyTable /\ immutable' = <<>> /\ fresh' = {}
    BY <1>1, NothingReplayed DEF StorageInv, StatusInv
  <1>3. level0' \in Seq(SST)
    <2>1. level0 \in Seq(SST) /\ Len(level0) \in Nat
      BY LenProperties DEF StorageInv, TablesInv
    <2>2. ASSUME NEW i \in 1..Len(level0) PROVE [level0[i] EXCEPT !.ranged = FALSE] \in SST
      <3>1. level0[i] \in SST
        BY <2>1, ElementOfSeq
      <3>2. QED
        BY <3>1 DEF SST
    <2>3. QED
      BY <1>1, <2>1, <2>2, IsASeq DEF LoadSSTables
  <1>4. CountersInv'
    <2>1. PICK n : n = MaxSeqOf(Recovered) + 1
      OBVIOUS
    <2>2. MaxSeqOf(Recovered) \in Nat
      BY RecoveredFacts DEF StorageInv
    <2>3. n \in Nat /\ 1 <= n
      BY <2>1, <2>2
    <2>4. /\ nextSeq' = n /\ disk' = WithSegment(disk, n) /\ active' = n /\ size' = 0
          /\ sealed' = 0 /\ syncNeeded' = TRUE
      BY <1>1, <2>1 DEF OpenLog
    <2>5. n \in DOMAIN disk'
      BY <2>4 DEF WithSegment
    <2>6. size' \in 0..SegmentSize
      BY <2>4 DEF WALAssumption
    <2>7. syncNeeded' \in BOOLEAN
      BY <2>4
    <2>8. sealed' + size' + 1 <= nextSeq' /\ active' <= nextSeq'
      BY <2>3, <2>4
    <2>9. QED
      BY <2>3, <2>4, <2>5, <2>6, <2>7, <2>8 DEF CountersInv
  <1>5. /\ toFlush' \in [Writer -> Table] /\ flushCh' \in Seq(Table) /\ Len(flushCh') <= FlushCap
        /\ flushing' \in Table /\ compactCh' \in BOOLEAN /\ downs' \in 0..MaxDowns
    BY <1>1 DEF StorageInv, TablesInv
  <1>6. QED
    BY <1>1, <1>2, <1>3, <1>4, <1>5, FreshProcess

LEMMA RefusedStep ==
    ASSUME StorageInv, OpenRefused \/ UNCHANGED vars
    PROVE  StorageInv'
  <1>1. /\ status' = status \/ (status = "down" /\ status' = "refused")
        /\ UNCHANGED <<disk, active, size, sealed, syncNeeded, nextSeq>>
        /\ UNCHANGED <<pendingSync, syncTimer, grabbed, syncing, writer, entry, acked, raced>>
        /\ UNCHANGED <<memTable, immutable, toFlush, flushCh, flushing, level0, compactCh, downs,
                       latest, fresh>>
    <2>1. CASE OpenRefused
      BY <2>1 DEF OpenRefused, walVars, logVars, groupVars
    <2>2. CASE UNCHANGED vars
      BY <2>2 DEF vars, walVars, logVars, groupVars, engineVars
    <2>3. QED
      BY <2>1, <2>2
  <1>2. FilesInv' /\ CountersInv'
    BY <1>1 DEF StorageInv, FilesInv, CountersInv
  <1>3. Busy' = Busy /\ Waiting' = Waiting
    BY <1>1 DEF Busy, Waiting
  <1>4. GroupsInv' /\ WritersInv'
    BY <1>1, <1>3 DEF StorageInv, GroupsInv, WritersInv
  <1>5. TablesInv'
    BY <1>1, <1>3 DEF StorageInv, TablesInv, Inserted
  <1>6. StatusInv'
    BY <1>1 DEF StorageInv, StatusInv
  <1>7. QED
    BY <1>2, <1>4, <1>5, <1>6 DEF StorageInv

\* The invariant that the theorems below rest on.
LEMMA StorageInvariant ==
    ASSUME WALAssumption, EngineAssumption
    PROVE  Spec => []StorageInv
  <1>1. Init => StorageInv
    BY StorageInit
  <1>2. StorageInv /\ [Next]_vars => StorageInv'
    <2>1. SUFFICES ASSUME StorageInv, [Next]_vars PROVE StorageInv'
      OBVIOUS
    <2>2. CASE UNCHANGED vars
      BY <2>1, <2>2, RefusedStep
    <2>3. CASE Next
      <3>1. FilesInv'
        BY <2>1, <2>3, DiskStep
      <3>2. ASSUME NEW w \in Writer, NEW k \in Key, PutLogged(w, k) PROVE StorageInv'
        BY <2>1, <3>1, <3>2, WriteStep
      <3>3. ASSUME NEW w \in Writer, PutInserted(w) PROVE StorageInv'
        BY <2>1, <3>1, <3>3, InsertStep
      <3>4. ASSUME NEW w \in Writer, OfferFlush(w) PROVE StorageInv'
        BY <2>1, <3>1, <3>4, OfferStep
      <3>5. CASE GroupCommitStep
        BY <2>1, <3>1, <3>5, GroupCommitKeeps
      <3>6. CASE StartFlush \/ FinishFlush
        BY <2>1, <3>1, <3>6, FlushSteps
      <3>7. CASE CompactPanic \/ Crash \/ Close
        BY <2>1, <3>1, <3>7, GoneStep
      <3>8. CASE Open
        BY <2>1, <3>1, <3>8, OpenStep
      <3>9. CASE OpenRefused
        BY <2>1, <3>9, RefusedStep
      <3>10. QED
        BY <2>3, <3>2, <3>3, <3>4, <3>5, <3>6, <3>7, <3>8, <3>9 DEF Next
    <2>4. QED
      BY <2>1, <2>2, <2>3
  <1>3. QED
    BY <1>1, <1>2, PTL DEF Spec

-----------------------------------------------------------------------------
(* The theorems *)

\* Whatever is written, flushed, lost to a power failure and recovered, every variable
\* keeps the shape its Go type gives it: the flush channel never holds more than its
\* capacity, a segment never more than its size, and no number of records fsynced is
\* beyond the end of its file.
THEOREM StorageTypes == Spec => []TypeOK
  <1>1. StorageInv => TypeOK
    <2>1. SUFFICES ASSUME StorageInv PROVE TypeOK
      OBVIOUS
    <2>2. WALTypeOK
      <3>1. DOMAIN disk \subseteq Nat
            /\ \A i \in DOMAIN disk : disk[i] \in File /\ disk[i].durable <= Len(disk[i].recs)
        BY <2>1 DEF StorageInv, FilesInv, GoodFile
      <3>2. /\ active \in Nat /\ size \in 0..SegmentSize /\ sealed \in Nat
            /\ syncNeeded \in BOOLEAN /\ nextSeq \in Nat
        BY <2>1 DEF StorageInv, CountersInv
      <3>3. /\ pendingSync \subseteq Writer /\ syncTimer \in {"nil", "armed"}
            /\ grabbed \subseteq SUBSET Writer /\ syncing \subseteq Writer
        BY <2>1 DEF StorageInv, GroupsInv, Waiting
      <3>4. /\ writer \in [Writer -> {"idle", "waiting", "logged", "handoff"}]
            /\ entry \in [Writer -> Record \cup {NoEntry}]
            /\ acked \subseteq Record /\ raced \in BOOLEAN
        BY <2>1 DEF StorageInv, WritersInv
      <3>5. QED
        BY <3>1, <3>2, <3>3, <3>4 DEF WALTypeOK
    <2>3. /\ \A i \in 1..Len(immutable) : immutable[i] \in Table
          /\ \A i \in 1..Len(flushCh) : flushCh[i] \in Table
          /\ \A i \in 1..Len(level0) : level0[i] \in SST
      BY <2>1, ElementOfSeq DEF StorageInv, TablesInv
    <2>4. /\ memTable \in Table /\ toFlush \in [Writer -> Table] /\ Len(flushCh) <= FlushCap
          /\ flushing \in Table /\ compactCh \in BOOLEAN /\ downs \in 0..MaxDowns
          /\ latest \in Table /\ fresh \subseteq Key
      BY <2>1 DEF StorageInv, TablesInv, Inserted
    <2>5. status \in {"down", "open", "refused"}
      BY <2>1 DEF StorageInv, StatusInv
    <2>6. QED
      BY <2>2, <2>3, <2>4, <2>5 DEF TypeOK, SST
  <1>2. Spec => []StorageInv
    BY StorageInvariant, WALAssumption, EngineAssumption
  <1>3. QED
    BY <1>1, <1>2, PTL

\* The group commit forgets no writer, with any number of them and of flushes under way.
THEOREM WaitersServed == Spec => []WaiterIsServed
  <1> DEFINE I == WaiterIsServed
  <1>1. Init => I
    BY DEF Init, WALInit, WaiterIsServed
  <1>2. StorageInv /\ I /\ [Next]_vars => I'
    <2>1. SUFFICES ASSUME StorageInv, I, [Next]_vars PROVE I'
      OBVIOUS
    <2>2. writer \in [Writer -> {"idle", "waiting", "logged", "handoff"}] /\ syncTimer \in {"nil", "armed"}
      BY <2>1 DEF StorageInv, WritersInv, GroupsInv
    <2>3. CASE UNCHANGED vars
      BY <2>1, <2>3 DEF WaiterIsServed, vars, walVars, groupVars
    <2>4. ASSUME NEW w \in Writer, NEW k \in Key, PutLogged(w, k) PROVE I'
      <3>1. /\ pendingSync' = pendingSync \cup {w} /\ syncTimer' = "armed"
            /\ writer' = [writer EXCEPT ![w] = "waiting"] /\ UNCHANGED <<grabbed, syncing>>
        BY <2>2, <2>4 DEF PutLogged, Write
      <3>2. QED
        BY <2>1, <2>2, <3>1 DEF WaiterIsServed
    <2>5. ASSUME NEW w \in Writer, PutInserted(w) \/ OfferFlush(w) PROVE I'
      <3>1. /\ UNCHANGED <<pendingSync, syncTimer, grabbed, syncing>>
            /\ \/ writer' = [writer EXCEPT ![w] = "idle"]
               \/ writer' = [writer EXCEPT ![w] = "handoff"]
        BY <2>5 DEF PutInserted, Freeze, OfferFlush, groupVars
      <3>2. QED
        BY <2>1, <2>2, <3>1 DEF WaiterIsServed
    <2>6. CASE GroupCommitStep
      <3>1. CASE FlushPendingSync
        BY <2>1, <3>1 DEF FlushPendingSync, WaiterIsServed
      <3>2. ASSUME NEW waiting \in grabbed, SyncClean(waiting) PROVE I'
        <4>1. /\ UNCHANGED <<pendingSync, syncTimer, syncing>> /\ grabbed' = grabbed \ {waiting}
              /\ writer' = [w \in Writer |-> IF w \in waiting THEN "logged" ELSE writer[w]]
          BY <3>2 DEF SyncClean, Notify
        <4>2. QED
          BY <2>1, <4>1 DEF WaiterIsServed
      <3>3. ASSUME NEW waiting \in grabbed, SyncFile(waiting) PROVE I'
        <4>1. /\ UNCHANGED <<pendingSync, syncTimer, writer>> /\ grabbed' = grabbed \ {waiting}
              /\ syncing = {} /\ syncing' = waiting
          BY <3>3 DEF SyncFile
        <4>2. QED
          BY <2>1, <4>1 DEF WaiterIsServed
      <3>4. CASE SyncDone
        <4>1. /\ UNCHANGED <<pendingSync, syncTimer, grabbed>>
              /\ writer' = [w \in Writer |-> IF w \in syncing THEN "logged" ELSE writer[w]]
          BY <3>4 DEF SyncDone, Notify
        <4>2. QED
          BY <2>1, <4>1 DEF WaiterIsServed
      <3>5. QED
        BY <2>6, <3>1, <3>2, <3>3, <3>4 DEF GroupCommitStep, GroupCommit
    <2>7. CASE StartFlush \/ FinishFlush \/ OpenRefused
      BY <2>1, <2>7 DEF StartFlush, FinishFlush, OpenRefused, WaiterIsServed, walVars, groupVars
    <2>8. CASE CompactPanic \/ Crash \/ Close \/ Open
      BY <2>8 DEF CompactPanic, Crash, Close, Open, ProcessGone, NoWriters, WaiterIsServed
    <2>9. QED
      BY <2>1, <2>3, <2>4, <2>5, <2>6, <2>7, <2>8 DEF Next
  <1>3. Spec => []StorageInv
    BY StorageInvariant, WALAssumption, EngineAssumption
  <1>4. QED
    BY <1>1, <1>2, <1>3, PTL DEF Spec

\* What was fsynced stays on disk.
LEMMA StaysOnDisk ==
    ASSUME FilesInv, FilesInv', NEW r, OnDisk(r),
           \A i \in DOMAIN disk : i \in DOMAIN disk' /\ Keeps(disk[i], disk'[i])
    PROVE  OnDisk(r)'
  <1>0. PICK i \in DOMAIN disk : \E j \in 1..disk[i].durable : disk[i].recs[j] = r
    BY DEF OnDisk
  <1>1. PICK j \in 1..disk[i].durable : disk[i].recs[j] = r
    BY <1>0
  <1>2. /\ i \in DOMAIN disk' /\ disk[i].durable <= disk'[i].durable
        /\ disk'[i].recs[j] = r
    BY <1>1 DEF Keeps
  <1>3. disk[i].durable \in Nat /\ disk'[i].durable \in Nat
    BY <1>2 DEF FilesInv, GoodFile, File
  <1>4. j \in 1..disk'[i].durable
    BY <1>2, <1>3
  <1>5. QED
    BY <1>2, <1>4 DEF OnDisk

LEMMA InSyncedIsOnDisk ==
    ASSUME NEW r, InActive(r), ActiveSynced, active \in DOMAIN disk
    PROVE  OnDisk(r)
  BY DEF InActive, ActiveSynced, OnDisk

\* A write, without a race: its record goes to the active segment, and a segment that is
\* sealed is fsynced.
LEMMA WriteIsDurable ==
    ASSUME StorageInv, DurabilityInv, NEW w \in Writer, NEW k \in Key, PutLogged(w, k), ~raced',
           FilesInv', \A i \in DOMAIN disk : i \in DOMAIN disk' /\ Keeps(disk[i], disk'[i]),
           WALAssumption
    PROVE  DurabilityInv'
  <1>0. PICK rec : rec = [seq |-> nextSeq, key |-> k]
    OBVIOUS
  <1>1. /\ Write(w, k) /\ status = "open" /\ status' = "open" /\ raced' = (raced \/ syncing # {})
        /\ syncNeeded' = TRUE /\ syncing' = syncing /\ acked' = acked
        /\ writer' = [writer EXCEPT ![w] = "waiting"] /\ entry' = [entry EXCEPT ![w] = rec]
    BY <1>0 DEF PutLogged, Write, engineVars
  <1>2. ~raced /\ syncing = {} /\ syncing' = {} /\ ~(~syncNeeded')
    BY <1>1
  <1>3. /\ \A r \in acked : OnDisk(r)
        /\ ~syncNeeded => ActiveSynced
        /\ \A v \in Waiting : OnDisk(entry[v]) \/ InActive(entry[v])
    BY <1>1, <1>2 DEF DurabilityInv
  <1>4. /\ writer \in [Writer -> {"idle", "waiting", "logged", "handoff"}]
        /\ entry \in [Writer -> Record \cup {NoEntry}]
        /\ active \in DOMAIN disk /\ nextSeq \in Nat /\ active \in Nat
        /\ active <= nextSeq /\ nextSeq <= MaxSeq /\ sealed \in Nat /\ size \in Nat
        /\ sealed + size + 1 <= nextSeq /\ SegmentSize \in Nat \ {0}
        /\ GoodFile(disk[active], active) /\ FilesInv
    BY <1>1 DEF StorageInv, WritersInv, CountersInv, FilesInv, Write, WALAssumption
  <1>5. rec \in Record /\ rec.seq = nextSeq
    BY <1>0, <1>4 DEF Record
  <1>6. \A r \in acked' : OnDisk(r)'
    <2>1. SUFFICES ASSUME NEW r \in acked PROVE OnDisk(r)'
      BY <1>1
    <2>2. QED
      BY <1>3, <1>4, StaysOnDisk
  <1>7. /\ InActive(rec)'
        /\ \A r : InActive(r) => OnDisk(r)' \/ InActive(r)'
    <2>1. CASE size < SegmentSize /\ disk' = [disk EXCEPT ![active] = Grown(@, rec)] /\ UNCHANGED active
      <3>1. disk'[active] = Grown(disk[active], rec)
        BY <1>4, <2>1
      <3>2. /\ Len(disk'[active].recs) = Len(disk[active].recs) + 1
            /\ \A j \in 1..Len(disk[active].recs) : disk'[active].recs[j] = disk[active].recs[j]
            /\ disk'[active].recs[Len(disk[active].recs) + 1] = rec
        BY <1>4, <1>5, <3>1, FileSteps
      <3>3. Len(disk[active].recs) \in Nat
        BY <1>4, LenProperties DEF GoodFile, File
      <3>4. Len(disk[active].recs) + 1 \in 1..Len(disk'[active].recs)
            /\ \A j \in 1..Len(disk[active].recs) : j \in 1..Len(disk'[active].recs)
        BY <3>2, <3>3
      <3>5. active' = active
        BY <2>1
      <3>6. QED
        BY <3>2, <3>4, <3>5 DEF InActive
    <2>2. CASE size >= SegmentSize /\ RotateSegment(rec)
      <3>1. PICK id : id = sealed + 2
        OBVIOUS
      <3>2. PICK d : d = [disk EXCEPT ![active] = IF syncNeeded THEN Fsynced(@) ELSE @]
        OBVIOUS
      <3>3. PICK e : e = WithSegment(d, id)
        OBVIOUS
      <3>4. disk' = [e EXCEPT ![id] = Grown(e[id], rec)] /\ active' = id
        BY <2>2, <3>1, <3>2, <3>3 DEF RotateSegment
      <3>5. id \in Nat /\ id <= nextSeq /\ id \in DOMAIN e
        BY <1>4, <2>2, <3>1, <3>3 DEF WithSegment
      <3>6. /\ DOMAIN d = DOMAIN disk
            /\ \A i \in DOMAIN disk : i # active => d[i] = disk[i]
            /\ d[active] = IF syncNeeded THEN Fsynced(disk[active]) ELSE disk[active]
        BY <1>4, <3>2
      <3>7. /\ d[active].recs = disk[active].recs
            /\ d[active].durable = Len(disk[active].recs)
            /\ GoodFile(d[active], active)
        <4>1. CASE syncNeeded
          BY <1>4, <3>6, <4>1, FsyncedFile
        <4>2. CASE ~syncNeeded
          BY <1>3, <1>4, <3>6, <4>2 DEF ActiveSynced
        <4>3. QED
          BY <4>1, <4>2
      <3>8. GoodFile(e[id], id)
        <4>1. CASE id \in DOMAIN d
          BY <1>4, <3>3, <3>6, <3>7, <4>1 DEF WithSegment, FilesInv
        <4>2. CASE id \notin DOMAIN d
          BY <3>3, <3>5, <4>2, NewFile DEF WithSegment
        <4>3. QED
          BY <4>1, <4>2
      <3>9. /\ GoodFile(Grown(e[id], rec), id)
            /\ Grown(e[id], rec).durable = e[id].durable
            /\ Len(Grown(e[id], rec).recs) = Len(e[id].recs) + 1
            /\ \A j \in 1..Len(e[id].recs) : Grown(e[id], rec).recs[j] = e[id].recs[j]
            /\ Grown(e[id], rec).recs[Len(e[id].recs) + 1] = rec
        BY <1>4, <1>5, <3>5, <3>8, FileSteps
      <3>10. Len(e[id].recs) \in Nat
        BY <3>8, LenProperties DEF GoodFile, File
      <3>11. disk'[id] = Grown(e[id], rec)
        BY <3>4, <3>5
      <3>12. InActive(rec)'
        <4>1. Len(e[id].recs) + 1 \in 1..Len(disk'[id].recs)
          BY <3>9, <3>10, <3>11
        <4>2. disk'[id].recs[Len(e[id].recs) + 1] = rec
          BY <3>9, <3>11
        <4>3. QED
          BY <3>4, <4>1, <4>2 DEF InActive
      <3>13. ASSUME NEW r, InActive(r) PROVE OnDisk(r)'
        <4>1. PICK j \in 1..Len(disk[active].recs) : disk[active].recs[j] = r
          BY <3>13 DEF InActive
        <4>2. active \in DOMAIN e /\ e[active] = d[active] /\ active \in DOMAIN disk'
          BY <1>4, <3>3, <3>4, <3>6 DEF WithSegment
        <4>3. CASE active # id
          <5>1. disk'[active] = d[active]
            BY <3>4, <4>2, <4>3
          <5>2. j \in 1..disk'[active].durable /\ disk'[active].recs[j] = r
            BY <3>7, <4>1, <5>1
          <5>3. QED
            BY <4>2, <5>2 DEF OnDisk
        <4>4. CASE active = id
          <5>1. disk'[active].durable = d[active].durable /\ disk'[active].recs[j] = d[active].recs[j]
            BY <3>7, <3>9, <3>11, <4>1, <4>2, <4>4
          <5>2. j \in 1..disk'[active].durable /\ disk'[active].recs[j] = r
            BY <3>7, <4>1, <5>1
          <5>3. QED
            BY <4>2, <5>2 DEF OnDisk
        <4>5. QED
          BY <4>3, <4>4
      <3>14. QED
        BY <3>12, <3>13
    <2>3. QED
      BY <1>0, <1>1, <2>1, <2>2 DEF Write
  <1>8. ASSUME NEW v \in Waiting' PROVE (OnDisk(entry[v]) \/ InActive(entry[v]))'
    <2>1. PICK r : r = entry'[v]
      OBVIOUS
    <2>2. v \in Writer /\ writer'[v] = "waiting"
      BY DEF Waiting
    <2>3. OnDisk(r)' \/ InActive(r)'
      <3>1. CASE v = w
        BY <1>1, <1>4, <1>7, <2>1, <3>1
      <3>2. CASE v # w
        <4>1. v \in Waiting /\ entry[v] = r
          BY <1>1, <1>4, <2>1, <2>2, <3>2 DEF Waiting
        <4>2. CASE OnDisk(r)
          BY <1>4, <4>2, StaysOnDisk
        <4>3. CASE InActive(r)
          BY <1>7, <4>3
        <4>4. QED
          BY <1>3, <4>1, <4>2, <4>3
      <3>3. QED
        BY <3>1, <3>2
    <2>4. QED
      BY <2>1, <2>3
  <1>9. QED
    BY <1>1, <1>2, <1>6, <1>8 DEF DurabilityInv

LEMMA SyncIsDurable ==
    ASSUME StorageInv, DurabilityInv, GroupCommitStep, ~raced', FilesInv',
           \A i \in DOMAIN disk : i \in DOMAIN disk' /\ Keeps(disk[i], disk'[i])
    PROVE  DurabilityInv'
  <1>1. /\ status = "open" /\ status' = "open" /\ GroupCommit /\ active \in DOMAIN disk
        /\ GoodFile(disk[active], active) /\ active \in Nat /\ FilesInv
    BY DEF GroupCommitStep, engineVars, StorageInv, CountersInv, FilesInv
  <1>2. UNCHANGED <<active, entry, raced>>
    BY <1>1 DEF GroupCommit, FlushPendingSync, SyncClean, SyncFile, SyncDone, logVars
  <1>3. /\ \A r \in acked : OnDisk(r)
        /\ ~syncNeeded => ActiveSynced
        /\ syncing # {} => ActiveSynced
        /\ \A w \in Waiting : OnDisk(entry[w]) \/ InActive(entry[w])
    BY <1>1, <1>2 DEF DurabilityInv
  <1>4. CASE FlushPendingSync
    <2>1. UNCHANGED <<disk, syncNeeded, syncing, writer, acked>>
      BY <1>4 DEF FlushPendingSync, logVars
    <2>2. QED
      BY <1>2, <1>3, <2>1 DEF DurabilityInv, OnDisk, InActive, ActiveSynced, Waiting
  <1>5. ASSUME NEW waiting \in grabbed, SyncClean(waiting) PROVE DurabilityInv'
    <2>1. /\ UNCHANGED <<disk, syncNeeded, syncing>> /\ Notify(waiting)
          /\ \/ ~syncNeeded
             \/ \A w \in waiting : ~InActive(entry[w])
      BY <1>5 DEF SyncClean, logVars, InActive
    <2>2. waiting \subseteq Waiting
      BY DEF StorageInv, GroupsInv
    <2>3. \A w \in waiting : OnDisk(entry[w])
      BY <1>1, <1>3, <2>1, <2>2, InSyncedIsOnDisk
    <2>4. acked' = acked \cup {entry[w] : w \in waiting} /\ Waiting' \subseteq Waiting
      BY <2>1, <2>2 DEF Notify, Waiting
    <2>5. \A r \in acked' : OnDisk(r)
      BY <1>3, <2>3, <2>4
    <2>6. QED
      BY <1>2, <1>3, <2>1, <2>4, <2>5 DEF DurabilityInv, OnDisk, InActive, ActiveSynced
  <1>6. ASSUME NEW waiting \in grabbed, SyncFile(waiting) PROVE DurabilityInv'
    <2>1. UNCHANGED <<writer, acked, syncNeeded>> /\ disk' = [disk EXCEPT ![active] = Fsynced(@)]
      BY <1>6 DEF SyncFile
    <2>2. disk'[active] = Fsynced(disk[active])
      BY <1>1, <2>1
    <2>3. disk'[active].recs = disk[active].recs /\ disk'[active].durable = Len(disk[active].recs)
      BY <1>1, <2>2, FsyncedFile
    <2>4. ActiveSynced'
      BY <1>2, <2>3 DEF ActiveSynced
    <2>5. \A r : OnDisk(r) => OnDisk(r)'
      BY <1>1, StaysOnDisk
    <2>6. \A r : InActive(r) => InActive(r)'
      BY <1>2, <2>3 DEF InActive
    <2>7. ASSUME NEW w \in Waiting' PROVE (OnDisk(entry[w]) \/ InActive(entry[w]))'
      <3>1. PICK r : r = entry[w]
        OBVIOUS
      <3>2. OnDisk(r) \/ InActive(r)
        BY <1>3, <2>1, <3>1 DEF Waiting
      <3>3. OnDisk(r)' \/ InActive(r)'
        BY <2>5, <2>6, <3>2
      <3>4. QED
        BY <1>2, <3>1, <3>3
    <2>8. \A r \in acked' : OnDisk(r)'
      BY <1>3, <2>1, <2>5
    <2>9. QED
      BY <2>4, <2>7, <2>8 DEF DurabilityInv
  <1>7. CASE SyncDone
    <2>1. UNCHANGED disk /\ syncing # {} /\ syncing' = {} /\ Notify(syncing)
      BY <1>7 DEF SyncDone
    <2>2. syncing \subseteq Waiting
      BY DEF StorageInv, GroupsInv
    <2>3. ActiveSynced
      BY <1>3, <2>1
    <2>4. \A w \in syncing : OnDisk(entry[w])
      BY <1>1, <1>3, <2>2, <2>3, InSyncedIsOnDisk
    <2>5. acked' = acked \cup {entry[w] : w \in syncing} /\ Waiting' \subseteq Waiting
      BY <2>1, <2>2 DEF Notify, Waiting
    <2>6. \A r \in acked' : OnDisk(r)
      BY <1>3, <2>4, <2>5
    <2>7. QED
      BY <1>2, <1>3, <2>1, <2>3, <2>5, <2>6 DEF DurabilityInv, OnDisk, InActive, ActiveSynced
  <1>8. QED
    BY <1>1, <1>4, <1>5, <1>6, <1>7 DEF GroupCommit

LEMMA DurabilityStep ==
    ASSUME StorageInv, StorageInv', DurabilityInv, [Next]_vars, WALAssumption
    PROVE  DurabilityInv'
  <1>1. CASE raced'
    BY <1>1 DEF DurabilityInv
  <1>2. CASE ~raced' /\ UNCHANGED <<disk, active, syncNeeded, syncing, acked, raced>>
             /\ (status' = "open" => status = "open")
             /\ \A w \in Waiting' : w \in Waiting /\ entry'[w] = entry[w]
    BY <1>2 DEF DurabilityInv, OnDisk, InActive, ActiveSynced
  <1>3. CASE ~raced' /\ Next
    <2>1. /\ FilesInv /\ FilesInv'
          /\ \A i \in DOMAIN disk : i \in DOMAIN disk' /\ Keeps(disk[i], disk'[i])
      BY <1>3, DiskStep DEF StorageInv
    <2>2. ASSUME NEW w \in Writer, NEW k \in Key, PutLogged(w, k) PROVE DurabilityInv'
      BY <1>3, <2>1, <2>2, WriteIsDurable
    <2>3. CASE GroupCommitStep
      BY <1>3, <2>1, <2>3, SyncIsDurable
    <2>4. ASSUME NEW w \in Writer, PutInserted(w) \/ OfferFlush(w) PROVE DurabilityInv'
      <3>1. UNCHANGED <<disk, active, syncNeeded, syncing, acked, raced, status>>
        BY <2>4 DEF PutInserted, OfferFlush, logVars, groupVars
      <3>2. /\ writer[w] # "waiting"
            /\ \/ writer' = [writer EXCEPT ![w] = "idle"]
               \/ writer' = [writer EXCEPT ![w] = "handoff"]
            /\ entry' = entry \/ entry' = [entry EXCEPT ![w] = NoEntry]
        BY <2>4 DEF PutInserted, OfferFlush, Freeze
      <3>3. writer \in [Writer -> {"idle", "waiting", "logged", "handoff"}]
            /\ entry \in [Writer -> Record \cup {NoEntry}]
        BY DEF StorageInv, WritersInv
      <3>4. \A v \in Waiting' : v \in Waiting /\ entry'[v] = entry[v]
        BY <3>2, <3>3 DEF Waiting
      <3>5. QED
        BY <1>2, <1>3, <3>1, <3>4
    <2>5. CASE StartFlush \/ FinishFlush \/ OpenRefused
      <3>1. /\ UNCHANGED <<disk, active, syncNeeded, syncing, acked, raced, writer, entry>>
            /\ status' = "open" => status = "open"
        BY <2>5 DEF StartFlush, FinishFlush, OpenRefused, walVars, logVars, groupVars
      <3>2. QED
        BY <1>2, <1>3, <3>1 DEF Waiting
    <2>6. CASE CompactPanic \/ Crash \/ Close \/ Open
      <3>1. NoWriters /\ UNCHANGED <<acked, raced>> /\ status' = "open" => syncNeeded' = TRUE
        BY <2>6 DEF CompactPanic, Crash, Close, Open, ProcessGone, OpenLog
      <3>2. NoWriters /\ UNCHANGED <<acked, raced>>
        BY <2>6 DEF CompactPanic, Crash, Close, Open, ProcessGone
      <3>3. Waiting' = {} /\ syncing' = {}
        BY <3>2 DEF NoWriters, Waiting
      <3>4. \A r \in acked' : OnDisk(r)'
        <4>1. SUFFICES ASSUME NEW r \in acked PROVE OnDisk(r)'
          BY <3>2
        <4>2. OnDisk(r)
          BY <1>3, <3>2 DEF DurabilityInv
        <4>3. QED
          BY <2>1, <4>2, StaysOnDisk
      <3>5. status' = "open" => ~(~syncNeeded')
        BY <3>1, <3>2
      <3>6. QED
        BY <3>3, <3>4, <3>5 DEF DurabilityInv
    <2>7. QED
      BY <1>3, <2>2, <2>3, <2>4, <2>5, <2>6 DEF Next
  <1>4. CASE ~raced' /\ UNCHANGED vars
    BY <1>2, <1>4 DEF vars, walVars, logVars, groupVars, engineVars, Waiting
  <1>5. QED
    BY <1>1, <1>3, <1>4

\* A record whose Write returned is on disk and fsynced, through power failures, panics,
\* shutdowns and rotations, with any number of concurrent writers and flushes - unless a
\* write came between an fsync and the reset of syncNeeded: that race is the only way to
\* lose an acknowledged record.
THEOREM AckedIsDurable == Spec => []AckedOnDiskUnlessRaced
  <1>1. Init => DurabilityInv
    BY DEF Init, WALInit, DurabilityInv
  <1>2. StorageInv /\ StorageInv' /\ DurabilityInv /\ [Next]_vars => DurabilityInv'
    BY DurabilityStep, WALAssumption
  <1>3. DurabilityInv => AckedOnDiskUnlessRaced
    BY DEF DurabilityInv, AckedOnDiskUnlessRaced, OnDisk
  <1>4. Spec => []StorageInv
    BY StorageInvariant, WALAssumption, EngineAssumption
  <1>5. QED
    BY <1>1, <1>2, <1>3, <1>4, PTL DEF Spec

-----------------------------------------------------------------------------
(* The way of an entry from the memtable to an SSTable *)

LEMMA InsertIsRead ==
    ASSUME StorageInv, ReadsInv, NEW w \in Writer, PutInserted(w)
    PROVE  ReadsInv'
  <1>1. PICK e : e = entry[w]
    OBVIOUS
  <1>2. PICK t : t = [memTable EXCEPT ![e.key] = e]
    OBVIOUS
  <1>3. /\ \/ /\ immutable' = Append(immutable, t) /\ memTable' = EmptyTable
           \/ /\ memTable' = t /\ UNCHANGED immutable
        /\ writer[w] = "logged"
        /\ latest' = [latest EXCEPT ![e.key] = e]
        /\ fresh' = fresh \cup {e.key} /\ UNCHANGED level0
    BY <1>1, <1>2 DEF PutInserted, Freeze
  <1>4. /\ e \in Record /\ e.key \in Key /\ w \in Busy /\ e # NoEntry
        /\ memTable \in Table /\ latest \in Table /\ immutable \in Seq(Table)
        /\ Len(immutable) \in Nat /\ TablesInv
    BY <1>1, <1>3, NoEntryIsNoRecord, LenProperties
       DEF StorageInv, WritersInv, Busy, Record, TablesInv, Inserted
  <1>5. \A k \in Key : t[k] = IF k = e.key THEN e ELSE memTable[k]
    BY <1>2, <1>4 DEF Table
  <1>6. \A k \in Key : latest'[k] = IF k = e.key THEN e ELSE latest[k]
    BY <1>3, <1>4 DEF Table
  <1>7. \A i \in 1..Len(immutable) : immutable[i][e.key] # e
    BY <1>1, <1>4 DEF TablesInv, Inserted
  <1>8. \A k \in Key : t[k] = NoEntry \/ t[k] = latest'[k]
    BY <1>5, <1>6 DEF ReadsInv, NewestFirst
  <1>9. CASE memTable' = t /\ UNCHANGED immutable
    <2>1. ASSUME NEW k \in Key, NEW i \in 1..Len(immutable)
          PROVE  /\ latest'[k] = NoEntry => immutable[i][k] = NoEntry
                 /\ immutable[i][k] = latest'[k] =>
                       \A j \in i..Len(immutable) :
                          immutable[j][k] = NoEntry \/ immutable[j][k] = latest'[k]
      BY <1>4, <1>6, <1>7 DEF ReadsInv, NewestFirst
    <2>2. NewestFirst'
      BY <1>8, <1>9, <2>1 DEF NewestFirst
    <2>3. ASSUME NEW k \in fresh'
          PROVE  Unflushed(k)' \/ \E i \in 1..Len(level0') : level0'[i].table[k] = latest'[k]
      <3>0. k \in Key
        BY <1>3, <1>4 DEF TablesInv
      <3>1. CASE k = e.key
        BY <1>5, <1>6, <1>9, <3>0, <3>1 DEF Unflushed
      <3>2. CASE k # e.key
        BY <1>3, <1>5, <1>6, <1>9, <3>0, <3>2 DEF Unflushed, ReadsInv, Kept
      <3>3. QED
        BY <3>1, <3>2
    <2>4. QED
      BY <2>2, <2>3 DEF ReadsInv, Kept
  <1>10. CASE immutable' = Append(immutable, t) /\ memTable' = EmptyTable
    <2>1. t \in Table
      BY <1>2, <1>4 DEF Table
    <2>2. /\ Len(immutable') = Len(immutable) + 1
          /\ \A i \in 1..Len(immutable) : immutable'[i] = immutable[i]
          /\ immutable'[Len(immutable) + 1] = t
      BY <1>4, <1>10, <2>1, AppendProperties
    <2>3. \A k \in Key : memTable'[k] = NoEntry
      BY <1>10 DEF EmptyTable
    <2>4. \A i \in 1..Len(immutable') : i \in 1..Len(immutable) \/ i = Len(immutable) + 1
      BY <1>4, <2>2
    <2>5. ASSUME NEW k \in Key, NEW i \in 1..Len(immutable')
          PROVE  /\ latest'[k] = NoEntry => immutable'[i][k] = NoEntry
                 /\ immutable'[i][k] = latest'[k] =>
                       \A j \in i..Len(immutable') :
                          immutable'[j][k] = NoEntry \/ immutable'[j][k] = latest'[k]
      <3>1. latest'[k] = NoEntry => immutable'[i][k] = NoEntry
        <4>1. CASE i \in 1..Len(immutable)
          BY <1>4, <1>6, <2>2, <4>1 DEF ReadsInv, NewestFirst
        <4>2. CASE i = Len(immutable) + 1
          BY <1>8, <2>2, <4>2
        <4>3. QED
          BY <2>4, <4>1, <4>2
      <3>2. ASSUME immutable'[i][k] = latest'[k], NEW j \in i..Len(immutable')
            PROVE  immutable'[j][k] = NoEntry \/ immutable'[j][k] = latest'[k]
        <4>1. CASE j = Len(immutable) + 1
          BY <1>8, <2>2, <4>1
        <4>2. CASE j # Len(immutable) + 1
          <5>1. i \in 1..Len(immutable) /\ j \in i..Len(immutable) /\ j \in 1..Len(immutable)
            BY <1>4, <2>2, <4>2
          <5>2. immutable'[i] = immutable[i] /\ immutable'[j] = immutable[j]
            BY <2>2, <5>1
          <5>3. k # e.key /\ latest'[k] = latest[k]
            BY <1>6, <1>7, <3>2, <5>1, <5>2
          <5>4. QED
            BY <3>2, <5>1, <5>2, <5>3 DEF ReadsInv, NewestFirst
        <4>3. QED
          BY <4>1, <4>2
      <3>3. QED
        BY <3>1, <3>2
    <2>6. NewestFirst'
      BY <2>3, <2>5 DEF NewestFirst
    <2>7. Len(immutable) + 1 \in 1..Len(immutable')
          /\ \A i \in 1..Len(immutable) : i \in 1..Len(immutable')
      BY <1>4, <2>2
    <2>8. ASSUME NEW k \in fresh'
          PROVE  Unflushed(k)' \/ \E i \in 1..Len(level0') : level0'[i].table[k] = latest'[k]
      <3>0. k \in Key
        BY <1>3, <1>4 DEF TablesInv
      <3>1. CASE t[k] = latest'[k]
        BY <2>2, <2>7, <3>1 DEF Unflushed
      <3>2. CASE t[k] # latest'[k]
        <4>1. k # e.key /\ latest'[k] = latest[k] /\ t[k] = memTable[k] /\ k \in fresh
          BY <1>3, <1>5, <1>6, <3>0, <3>2
        <4>2. \/ \E i \in 1..Len(immutable) : immutable[i][k] = latest[k]
              \/ \E i \in 1..Len(level0) : level0[i].table[k] = latest[k]
          BY <3>2, <4>1 DEF ReadsInv, Kept, Unflushed
        <4>3. QED
          BY <1>3, <2>2, <2>7, <4>1, <4>2 DEF Unflushed
      <3>3. QED
        BY <3>1, <3>2
    <2>9. QED
      BY <2>6, <2>8 DEF ReadsInv, Kept
  <1>11. QED
    BY <1>3, <1>9, <1>10

LEMMA FinishIsRead ==
    ASSUME StorageInv, ReadsInv, FinishFlush
    PROVE  ReadsInv'
  <1>1. PICK t : t = flushing
    OBVIOUS
  <1>2. /\ level0' = Append(level0, [table |-> t, ranged |-> TRUE])
        /\ immutable' = Without(immutable, t)
        /\ UNCHANGED <<memTable, latest, fresh>>
    BY <1>1 DEF FinishFlush
  <1>3. /\ immutable \in Seq(Table) /\ Len(immutable) \in Nat /\ level0 \in Seq(SST)
        /\ Len(level0) \in Nat /\ t \in Table /\ fresh \subseteq Key
    BY <1>1, LenProperties DEF StorageInv, TablesInv
  <1>4. \/ Without(immutable, t) = immutable /\ \A j \in 1..Len(immutable) : immutable[j] # t
        \/ \E m \in 1..Len(immutable) :
             /\ immutable[m] = t
             /\ Without(immutable, t) \in Seq(Table)
             /\ Len(Without(immutable, t)) = Len(immutable) - 1
             /\ \A j \in 1..Len(immutable) - 1 :
                   Without(immutable, t)[j] = IF j < m THEN immutable[j] ELSE immutable[j + 1]
    BY <1>3, WithoutFacts
  <1>5. /\ Len(level0') = Len(level0) + 1
        /\ \A i \in 1..Len(level0) : level0'[i] = level0[i]
        /\ level0'[Len(level0) + 1].table = t
    <2>1. [table |-> t, ranged |-> TRUE] \in SST
      BY <1>3 DEF SST
    <2>2. QED
      BY <1>2, <1>3, <2>1, AppendProperties
  <1>6. Len(level0) + 1 \in 1..Len(level0') /\ \A i \in 1..Len(level0) : i \in 1..Len(level0')
    BY <1>3, <1>5
  <1>7. ASSUME NEW k \in Key, \E i \in 1..Len(level0) : level0[i].table[k] = latest[k]
        PROVE  \E i \in 1..Len(level0') : level0'[i].table[k] = latest'[k]
    BY <1>2, <1>5, <1>6, <1>7
  <1>8. CASE immutable' = immutable
    <2>1. NewestFirst'
      BY <1>2, <1>8 DEF ReadsInv, NewestFirst
    <2>2. Kept'
      BY <1>2, <1>3, <1>7, <1>8 DEF ReadsInv, Kept, Unflushed
    <2>3. QED
      BY <2>1, <2>2 DEF ReadsInv
  <1>9. ASSUME NEW m \in 1..Len(immutable), immutable[m] = t, Len(immutable') = Len(immutable) - 1,
               \A j \in 1..Len(immutable) - 1 :
                   immutable'[j] = IF j < m THEN immutable[j] ELSE immutable[j + 1]
        PROVE  ReadsInv'
    <2> DEFINE old(j) == IF j < m THEN j ELSE j + 1
    <2>1. \A j \in 1..Len(immutable') : old(j) \in 1..Len(immutable) /\ immutable'[j] = immutable[old(j)]
      BY <1>3, <1>9
    <2>2. \A i \in 1..Len(immutable') : \A j \in i..Len(immutable') :
             old(j) \in old(i)..Len(immutable) /\ j \in 1..Len(immutable')
      BY <1>3, <1>9
    <2>3. \A i \in 1..Len(immutable) : i = m \/ \E j \in 1..Len(immutable') : i = old(j)
      <3>1. SUFFICES ASSUME NEW i \in 1..Len(immutable), i # m
                     PROVE  \E j \in 1..Len(immutable') : i = old(j)
        OBVIOUS
      <3>2. CASE i < m
        <4>1. i \in 1..Len(immutable') /\ i = old(i)
          BY <1>3, <1>9, <3>2
        <4>2. QED
          BY <4>1
      <3>3. CASE ~(i < m)
        <4>1. i - 1 \in 1..Len(immutable') /\ i = old(i - 1)
          BY <1>3, <1>9, <3>1, <3>3
        <4>2. QED
          BY <4>1
      <3>4. QED
        BY <3>2, <3>3
    <2> HIDE DEF old
    <2>4. NewestFirst'
      <3>1. SUFFICES ASSUME NEW k \in Key
                     PROVE  /\ memTable[k] = NoEntry \/ memTable[k] = latest[k]
                            /\ \A i \in 1..Len(immutable') :
                                  /\ latest[k] = NoEntry => immutable'[i][k] = NoEntry
                                  /\ immutable'[i][k] = latest[k] =>
                                        \A j \in i..Len(immutable') :
                                            immutable'[j][k] = NoEntry \/ immutable'[j][k] = latest[k]
        BY <1>2 DEF NewestFirst
      <3>2. /\ memTable[k] = NoEntry \/ memTable[k] = latest[k]
            /\ \A i \in 1..Len(immutable) :
                 /\ latest[k] = NoEntry => immutable[i][k] = NoEntry
                 /\ immutable[i][k] = latest[k] =>
                      \A j \in i..Len(immutable) :
                          immutable[j][k] = NoEntry \/ immutable[j][k] = latest[k]
        BY DEF ReadsInv, NewestFirst
      <3>3. ASSUME NEW i \in 1..Len(immutable')
            PROVE  /\ latest[k] = NoEntry => immutable'[i][k] = NoEntry
                   /\ immutable'[i][k] = latest[k] =>
                         \A j \in i..Len(immutable') :
                             immutable'[j][k] = NoEntry \/ immutable'[j][k] = latest[k]
        <4>1. old(i) \in 1..Len(immutable) /\ immutable'[i] = immutable[old(i)]
          BY <2>1
        <4>2. latest[k] = NoEntry => immutable'[i][k] = NoEntry
          BY <3>2, <4>1
        <4>3. ASSUME immutable'[i][k] = latest[k], NEW j \in i..Len(immutable')
              PROVE  immutable'[j][k] = NoEntry \/ immutable'[j][k] = latest[k]
          <5>1. old(j) \in old(i)..Len(immutable) /\ immutable'[j] = immutable[old(j)]
            BY <2>1, <2>2
          <5>2. immutable[old(j)][k] = NoEntry \/ immutable[old(j)][k] = latest[k]
            BY <3>2, <4>1, <4>3, <5>1
          <5>3. QED
            BY <5>1, <5>2
        <4>4. QED
          BY <4>2, <4>3
      <3>4. QED
        BY <3>2, <3>3
    <2>5. ASSUME NEW k \in fresh'
          PROVE  Unflushed(k)' \/ \E i \in 1..Len(level0') : level0'[i].table[k] = latest'[k]
      <3>1. k \in fresh /\ k \in Key /\ latest'[k] = latest[k] /\ memTable'[k] = memTable[k]
        BY <1>2, <1>3
      <3>2. CASE memTable[k] = latest[k]
        BY <3>1, <3>2 DEF Unflushed
      <3>3. CASE \E i \in 1..Len(level0) : level0[i].table[k] = latest[k]
        BY <1>7, <3>1, <3>3
      <3>4. ASSUME NEW i \in 1..Len(immutable), immutable[i][k] = latest[k]
            PROVE  Unflushed(k)' \/ \E l \in 1..Len(level0') : level0'[l].table[k] = latest'[k]
        <4>1. CASE i = m
          BY <1>5, <1>6, <1>9, <3>1, <3>4, <4>1
        <4>2. CASE i # m
          BY <2>1, <2>3, <3>1, <3>4, <4>2 DEF Unflushed
        <4>3. QED
          BY <4>1, <4>2
      <3>5. QED
        BY <3>1, <3>2, <3>3, <3>4 DEF ReadsInv, Kept, Unflushed
    <2>6. QED
      BY <2>4, <2>5 DEF ReadsInv, Kept
  <1>10. QED
    <2>1. \/ immutable' = immutable
          \/ \E m \in 1..Len(immutable) :
               /\ immutable[m] = t
               /\ Len(immutable') = Len(immutable) - 1
               /\ \A j \in 1..Len(immutable) - 1 :
                     immutable'[j] = IF j < m THEN immutable[j] ELSE immutable[j + 1]
      BY <1>2, <1>4
    <2>2. QED
      BY <1>8, <1>9, <2>1

LEMMA ReadsStep ==
    ASSUME StorageInv, StorageInv', ReadsInv, [Next]_vars, WALAssumption
    PROVE  ReadsInv'
  <1>1. CASE UNCHANGED <<memTable, immutable, level0, latest, fresh>>
    BY <1>1 DEF ReadsInv, NewestFirst, Kept, Unflushed
  <1>2. CASE memTable' = EmptyTable /\ immutable' = <<>> /\ fresh' = {}
    <2>1. Len(immutable') = 0
      BY <1>2
    <2>2. \A k \in Key : memTable'[k] = NoEntry
      BY <1>2 DEF EmptyTable
    <2>3. QED
      BY <1>2, <2>1, <2>2 DEF ReadsInv, NewestFirst, Kept
  <1>3. ASSUME NEW w \in Writer, NEW k \in Key, PutLogged(w, k) PROVE ReadsInv'
    BY <1>1, <1>3 DEF PutLogged, engineVars
  <1>4. ASSUME NEW w \in Writer, PutInserted(w) PROVE ReadsInv'
    BY <1>4, InsertIsRead
  <1>5. ASSUME NEW w \in Writer, OfferFlush(w) PROVE ReadsInv'
    BY <1>1, <1>5 DEF OfferFlush
  <1>6. CASE FinishFlush
    BY <1>6, FinishIsRead
  <1>7. CASE GroupCommitStep \/ StartFlush \/ OpenRefused
    BY <1>1, <1>7 DEF GroupCommitStep, engineVars, StartFlush, OpenRefused
  <1>8. CASE CompactPanic \/ Crash \/ Close
    BY <1>2, <1>8 DEF CompactPanic, Crash, Close, ProcessGone
  <1>9. CASE Open
    <2>1. memTable' = EmptyTable
      BY <1>9, NothingReplayed DEF Open, StorageInv
    <2>2. immutable' = <<>> /\ fresh' = {}
      BY <1>9 DEF Open, StorageInv, StatusInv
    <2>3. QED
      BY <1>2, <2>1, <2>2
  <1>10. CASE UNCHANGED vars
    BY <1>1, <1>10 DEF vars, engineVars
  <1>11. QED
    BY <1>3, <1>4, <1>5, <1>6, <1>7, <1>8, <1>9, <1>10 DEF Next

\* Get looks in the memtable and then in the frozen tables; SSTables give nothing.
LEMMA GetFindsUnflushed ==
    ASSUME StorageInv, NewestFirst, NEW k \in Key, Unflushed(k)
    PROVE  Get(k) = latest[k]
  <1>1. \A i \in 1..Len(level0) : ReadFromSSTable(level0[i], k) = NoEntry
    BY DEF ReadFromSSTable, ReaderMightContain
  <1>2. {i \in 1..Len(level0) : ReadFromSSTable(level0[i], k) # NoEntry} = {}
    BY <1>1
  <1>3. Get(k) = IF memTable[k] # NoEntry THEN memTable[k] ELSE FirstIn(immutable, k)
    BY <1>2 DEF Get
  <1> DEFINE having == {i \in 1..Len(immutable) : immutable[i][k] # NoEntry}
  <1>4. Len(immutable) \in Nat
    BY LenProperties DEF StorageInv, TablesInv
  <1>5. CASE memTable[k] # NoEntry
    BY <1>3, <1>5 DEF NewestFirst
  <1>6. CASE memTable[k] = NoEntry /\ having = {}
    <2>1. FirstIn(immutable, k) = NoEntry
      BY <1>6 DEF FirstIn
    <2>2. latest[k] = NoEntry
      BY <1>6 DEF Unflushed
    <2>3. QED
      BY <1>3, <1>6, <2>1, <2>2
  <1>7. CASE memTable[k] = NoEntry /\ having # {}
    <2>1. latest[k] # NoEntry
      BY <1>7 DEF NewestFirst
    <2>2. PICK i \in 1..Len(immutable) : immutable[i][k] = latest[k]
      BY <1>7, <2>1 DEF Unflushed
    <2>3. having \in SUBSET (0..Len(immutable))
      BY <1>4
    <2>4. \E x \in having : \A y \in having : y <= x
      BY <1>4, <1>7, <2>3, NatMax
    <2>5. PICK m : m = CHOOSE x \in having : \A y \in having : y <= x
      OBVIOUS
    <2>6. m \in having /\ \A y \in having : y <= m
      BY <2>4, <2>5
    <2>7. FirstIn(immutable, k) = immutable[m][k]
      BY <1>7, <2>5 DEF FirstIn
    <2>8. i <= m /\ m \in i..Len(immutable) /\ immutable[m][k] # NoEntry
      BY <1>4, <2>1, <2>2, <2>6
    <2>9. immutable[m][k] = latest[k]
      BY <2>2, <2>8 DEF NewestFirst
    <2>10. QED
      BY <1>3, <1>7, <2>7, <2>9
  <1>8. QED
    BY <1>5, <1>6, <1>7

\* The hand-over from memtable to frozen table to SSTable loses nothing, with any number
\* of concurrent writers, tables and keys, whether or not the flush channel is full.
THEOREM NothingIsDropped == Spec => []NothingDropped
  <1>1. Init => ReadsInv
    <2>1. ASSUME Init PROVE Len(immutable) = 0 /\ fresh = {} /\ \A k \in Key : memTable[k] = NoEntry
      BY <2>1 DEF Init, EmptyTable
    <2>2. QED
      BY <2>1 DEF ReadsInv, NewestFirst, Kept
  <1>2. StorageInv /\ StorageInv' /\ ReadsInv /\ [Next]_vars => ReadsInv'
    BY ReadsStep, WALAssumption
  <1>3. StorageInv /\ ReadsInv => NothingDropped
    BY GetFindsUnflushed DEF ReadsInv, Kept, NothingDropped
  <1>4. Spec => []StorageInv
    BY StorageInvariant, WALAssumption, EngineAssumption
  <1>5. QED
    BY <1>1, <1>2, <1>3, <1>4, PTL DEF Spec

-----------------------------------------------------------------------------
(* SkipList *)

\* One level of the list, f, links the nodes of L in ascending order.
Chain(f, L) ==
    /\ L \subseteq ListKey
    /\ f \in [0 .. MaxKey -> Nat]
    /\ \A n \in L \cup {0} : /\ f[n] > n /\ f[n] \in L \cup {Nil}
                             /\ \A m \in L : m > n => f[n] <= m
    /\ \A n \in ListKey \ L : f[n] = Nil

\* The last of them before a key.
IsBefore(p, L, key) ==
    /\ p \in L \cup {0} /\ p < key
    /\ \A m \in L : m < key => m <= p

\* What WalkTo computes for each node.
IsWalk(walk, f, key) == walk = [n \in 0 .. MaxKey |-> IF f[n] < key THEN walk[f[n]] ELSE n]

LEMMA BeforeExists ==
    ASSUME NEW L \in SUBSET ListKey, NEW key \in ListKey
    PROVE  \E p : IsBefore(p, L, key)
<1>1. key \in Nat /\ 0 < key /\ MaxKey \in Nat
  BY SkipListAssumption DEF ListKey
<1>2. PICK T : T = {m \in L \cup {0} : m < key}
  OBVIOUS
<1>3. T \in SUBSET (0 .. MaxKey) /\ T # {}
  <2>1. 0 \in T
    BY <1>1, <1>2
  <2>2. ASSUME NEW m \in T PROVE m \in 0 .. MaxKey
    BY <1>1, <1>2 DEF ListKey
  <2>3. QED
    BY <2>1, <2>2
<1>4. PICK p \in T : \A m \in T : m <= p
  BY <1>1, <1>3, NatMax
<1>5. QED
  BY <1>2, <1>4 DEF IsBefore

\* Two of them are the same.
LEMMA BeforeUnique ==
    ASSUME NEW L \in SUBSET ListKey, NEW key \in ListKey, NEW p, NEW q, IsBefore(p, L, key), IsBefore(q, L, key)
    PROVE  p = q /\ p \in 0 .. MaxKey
<1>1. p \in Nat /\ q \in Nat /\ p \in 0 .. MaxKey
  BY SkipListAssumption DEF IsBefore, ListKey
<1>2. p <= q /\ q <= p
  BY <1>1 DEF IsBefore, ListKey
<1>3. QED
  BY <1>1, <1>2

\* Walking along a level ends at the last node before the key.
LEMMA WalkEnds ==
    ASSUME NEW L, NEW f, Chain(f, L), NEW key \in ListKey, NEW walk, IsWalk(walk, f, key),
           NEW from \in L \cup {0}, from < key
    PROVE  IsBefore(walk[from], L, key)
<1>1. /\ MaxKey \in Nat /\ key \in 1 .. MaxKey /\ key \in Nat /\ key <= MaxKey /\ Nil = MaxKey + 1
      /\ \A n \in L \cup {0} : n \in 0 .. MaxKey /\ n \in Nat
  BY SkipListAssumption DEF Chain, ListKey, Nil
<1>2. PICK T : T = {n \in L \cup {0} : n < key /\ ~IsBefore(walk[n], L, key)}
  OBVIOUS
<1>3. SUFFICES ASSUME T # {} PROVE FALSE
  BY <1>2
<1>4. T \in SUBSET (0 .. MaxKey)
  BY <1>1, <1>2
<1>5. PICK x \in T : \A y \in T : y <= x
  BY <1>1, <1>3, <1>4, NatMax
<1>6. x \in L \cup {0} /\ x < key /\ ~IsBefore(walk[x], L, key) /\ x \in 0 .. MaxKey /\ x \in Nat
  BY <1>1, <1>2
<1>7. f[x] > x /\ f[x] \in L \cup {Nil} /\ f[x] \in Nat /\ \A m \in L : m > x => f[x] <= m
  BY <1>1, <1>6 DEF Chain
<1>8. CASE f[x] < key
  <2>1. f[x] \in L /\ walk[x] = walk[f[x]]
    BY <1>1, <1>6, <1>7, <1>8 DEF IsWalk
  <2>2. f[x] \notin T
    BY <1>5, <1>6, <1>7
  <2>3. IsBefore(walk[f[x]], L, key)
    BY <1>2, <1>8, <2>1, <2>2
  <2>4. QED
    BY <1>6, <2>1, <2>3
<1>9. CASE ~(f[x] < key)
  <2>1. walk[x] = x
    BY <1>6, <1>9 DEF IsWalk
  <2>2. ASSUME NEW m \in L, m < key PROVE m <= x
    <3>1. m \in Nat /\ ~(m > x)
      BY <1>1, <1>7, <1>9, <2>2
    <3>2. QED
      BY <1>6, <3>1
  <2>3. QED
    BY <1>6, <2>1, <2>2 DEF IsBefore
<1>10. QED
  BY <1>8, <1>9

\* The walk is defined.
LEMMA WalkExists ==
    ASSUME NEW L, NEW f, Chain(f, L), NEW key \in ListKey
    PROVE  \E walk : IsWalk(walk, f, key)
<1>1. /\ MaxKey \in Nat /\ key \in Nat /\ key <= MaxKey /\ Nil = MaxKey + 1 /\ 0 < key
      /\ \A n \in L \cup {0} : n \in 0 .. MaxKey /\ n \in Nat
  BY SkipListAssumption DEF Chain, ListKey, Nil
<1>2. PICK p : IsBefore(p, L, key)
  BY BeforeExists DEF Chain
<1>3. p \in L \cup {0} /\ p < key /\ p \in Nat /\ \A m \in L : m < key => m <= p
  BY <1>1, <1>2 DEF IsBefore
<1>4. PICK w : w = [n \in 0 .. MaxKey |-> IF f[n] < key THEN p ELSE n]
  OBVIOUS
<1>5. ASSUME NEW n \in 0 .. MaxKey PROVE w[n] = IF f[n] < key THEN w[f[n]] ELSE n
  <2>1. CASE ~(f[n] < key)
    BY <1>4, <2>1
  <2>2. CASE f[n] < key
    <3>1. n \in L \cup {0}
      <4>1. n \in ListKey \ L => f[n] = Nil
        BY DEF Chain
      <4>2. n = 0 \/ n \in ListKey
        BY <1>1 DEF ListKey
      <4>3. QED
        BY <1>1, <2>2, <4>1, <4>2
    <3>2. f[n] \in L /\ f[n] \in Nat
      BY <1>1, <2>2, <3>1 DEF Chain
    <3>3. PICK m \in L : m = f[n] /\ m \in 0 .. MaxKey /\ m \in Nat
      BY <1>1, <3>2
    <3>4. f[m] \in Nat /\ f[m] > m /\ \A k \in L : k > m => f[m] <= k
      BY <3>3 DEF Chain
    <3>5. w[m] = p
      <4>1. CASE f[m] < key
        BY <1>4, <3>3, <4>1
      <4>2. CASE ~(f[m] < key)
        <5>1. w[m] = m /\ m <= p
          BY <1>3, <1>4, <2>2, <3>3, <4>2
        <5>2. ~(p > m)
          <6>1. ASSUME p > m PROVE FALSE
            <7>1. p \in L
              BY <1>3, <3>3, <6>1
            <7>2. f[m] <= p
              BY <3>4, <6>1, <7>1
            <7>3. QED
              BY <1>1, <1>3, <3>4, <4>2, <7>2
          <6>2. QED
            BY <6>1
        <5>3. QED
          BY <1>3, <3>3, <5>1, <5>2
      <4>3. QED
        BY <4>1, <4>2
    <3>6. QED
      BY <1>4, <2>2, <3>3, <3>5
  <2>3. QED
    BY <2>1, <2>2
<1>6. w = [n \in 0 .. MaxKey |-> IF f[n] < key THEN w[f[n]] ELSE n]
  <2>1. w = [n \in 0 .. MaxKey |-> w[n]]
    BY <1>4
  <2>2. QED
    BY <1>5, <2>1
<1>7. QED
  BY <1>6 DEF IsWalk

\* The level of each node that there is, 0 for a key that was not put.
Nodes(lv, i) == {k \in ListKey : lv[k] >= i}

LevelOf(i) == [n \in 0 .. MaxKey |-> forward[n][i]]

\* The levels are chains, each within the one below, and the lowest has what was put.
ListInv(lv) ==
    /\ lv \in [ListKey -> 0 .. MaxLevel]
    /\ forward \in [0 .. MaxKey -> [1 .. MaxLevel -> Nat]]
    /\ \A i \in 1 .. MaxLevel : Chain(LevelOf(i), Nodes(lv, i))
    /\ listLevel \in 1 .. MaxLevel /\ \A k \in ListKey : lv[k] <= listLevel
    /\ nodeEntries \in [ListKey -> 0 .. MaxValue]
    /\ contents \in [ListKey -> Nat]
    /\ \A k \in ListKey : /\ lv[k] = 0 => contents[k] = Absent
                          /\ lv[k] # 0 => contents[k] = nodeEntries[k]

\* Searching one level, from a node of it.
LEMMA WalkToFinds ==
    ASSUME NEW lv, ListInv(lv), NEW i \in 1 .. MaxLevel, NEW key \in ListKey,
           NEW from \in Nodes(lv, i) \cup {0}, from < key
    PROVE  IsBefore(WalkTo(from, i, key), Nodes(lv, i), key)
<1>1. PICK f : f = LevelOf(i) /\ Chain(f, Nodes(lv, i))
  BY DEF ListInv
<1>2. PICK walk : walk = CHOOSE w : w = [n \in 0 .. MaxKey |-> IF forward[n][i] < key THEN w[forward[n][i]] ELSE n]
  OBVIOUS
<1>3. \A w : w = [n \in 0 .. MaxKey |-> IF forward[n][i] < key THEN w[forward[n][i]] ELSE n] <=> IsWalk(w, f, key)
  <2>1. \A n \in 0 .. MaxKey : f[n] = forward[n][i]
    BY <1>1 DEF LevelOf
  <2>2. \A w : [n \in 0 .. MaxKey |-> IF forward[n][i] < key THEN w[forward[n][i]] ELSE n]
               = [n \in 0 .. MaxKey |-> IF f[n] < key THEN w[f[n]] ELSE n]
    BY <2>1
  <2>3. QED
    BY <2>2 DEF IsWalk
<1>4. PICK v : IsWalk(v, f, key)
  BY <1>1, WalkExists
<1>5. IsWalk(walk, f, key)
  BY <1>2, <1>3, <1>4
<1>6. WalkTo(from, i, key) = walk[from]
  BY <1>2 DEF WalkTo, HeadNode
<1>7. QED
  BY <1>1, <1>5, <1>6, WalkEnds

\* What Predecessors computes for each level.
IsUpdate(update, key) ==
    update = [i \in 1 .. MaxLevel |->
                IF i > listLevel THEN HeadNode
                ELSE WalkTo(IF i = listLevel THEN HeadNode ELSE update[i + 1], i, key)]

\* The search from the top ends, at each level, at the last node before the key.
LEMMA PredecessorsAre ==
    ASSUME NEW lv, ListInv(lv), NEW key \in ListKey
    PROVE  \A i \in 1 .. MaxLevel : IsBefore(Predecessors(key)[i], Nodes(lv, i), key)
<1>1. /\ MaxKey \in Nat /\ MaxLevel \in Nat /\ listLevel \in 1 .. MaxLevel /\ listLevel \in Nat
      /\ key \in Nat /\ 0 < key
  BY SkipListAssumption DEF ListInv, ListKey
<1>2. \A i : Nodes(lv, i) \in SUBSET ListKey
  BY DEF Nodes
<1>3. \A k \in ListKey : lv[k] <= listLevel /\ lv[k] \in Nat
  BY <1>1 DEF ListInv
<1>4. ASSUME NEW i \in 1 .. MaxLevel, i > listLevel PROVE IsBefore(HeadNode, Nodes(lv, i), key)
  <2>1. \A k \in ListKey : ~(lv[k] >= i)
    BY <1>1, <1>3, <1>4
  <2>2. Nodes(lv, i) = {}
    BY <2>1 DEF Nodes
  <2>3. QED
    BY <1>1, <2>2 DEF IsBefore, HeadNode
<1>5. ASSUME NEW i \in 1 .. MaxLevel, ~(i > listLevel), NEW u,
             i # listLevel => IsBefore(u[i + 1], Nodes(lv, i + 1), key)
      PROVE  IsBefore(WalkTo(IF i = listLevel THEN HeadNode ELSE u[i + 1], i, key), Nodes(lv, i), key)
  <2>1. PICK from : from = IF i = listLevel THEN HeadNode ELSE u[i + 1]
    OBVIOUS
  <2>2. from \in Nodes(lv, i) \cup {0} /\ from < key
    <3>1. CASE i = listLevel
      BY <1>1, <2>1, <3>1 DEF HeadNode
    <3>2. CASE i # listLevel
      <4>1. from \in Nodes(lv, i + 1) \cup {0} /\ from < key
        BY <1>5, <2>1, <3>2 DEF IsBefore
      <4>2. Nodes(lv, i + 1) \subseteq Nodes(lv, i)
        <5>1. \A k \in ListKey : lv[k] >= i + 1 => lv[k] >= i
          BY <1>3
        <5>2. QED
          BY <5>1 DEF Nodes
      <4>3. QED
        BY <4>1, <4>2
    <3>3. QED
      BY <3>1, <3>2
  <2>3. IsBefore(WalkTo(from, i, key), Nodes(lv, i), key)
    BY <2>2, WalkToFinds
  <2>4. QED
    BY <2>1, <2>3
<1>6. PICK b : b = [i \in 1 .. MaxLevel |-> CHOOSE p : IsBefore(p, Nodes(lv, i), key)]
  OBVIOUS
<1>7. \A i \in 1 .. MaxLevel : IsBefore(b[i], Nodes(lv, i), key)
  BY <1>2, <1>6, BeforeExists
<1>8. IsUpdate(b, key)
  <2>1. ASSUME NEW i \in 1 .. MaxLevel
        PROVE  b[i] = IF i > listLevel THEN HeadNode
                      ELSE WalkTo(IF i = listLevel THEN HeadNode ELSE b[i + 1], i, key)
    <3>1. CASE i > listLevel
      BY <1>2, <1>4, <1>7, <3>1, BeforeUnique
    <3>2. CASE ~(i > listLevel)
      <4>1. i # listLevel => i + 1 \in 1 .. MaxLevel
        BY <1>1, <3>2
      <4>2. i # listLevel => IsBefore(b[i + 1], Nodes(lv, i + 1), key)
        BY <1>7, <4>1
      <4>3. IsBefore(WalkTo(IF i = listLevel THEN HeadNode ELSE b[i + 1], i, key), Nodes(lv, i), key)
        BY <1>5, <3>2, <4>2
      <4>4. PICK w : w = WalkTo(IF i = listLevel THEN HeadNode ELSE b[i + 1], i, key)
        OBVIOUS
      <4>5. IsBefore(w, Nodes(lv, i), key)
        BY <4>3, <4>4
      <4>6. b[i] = w
        BY <1>2, <1>7, <4>5, BeforeUnique
      <4>7. QED
        BY <3>2, <4>4, <4>6
    <3>3. QED
      BY <3>1, <3>2
  <2>2. b = [i \in 1 .. MaxLevel |-> b[i]]
    BY <1>6
  <2>3. QED
    BY <2>1, <2>2 DEF IsUpdate
<1>9. PICK u : u = Predecessors(key)
  OBVIOUS
<1>10. IsUpdate(u, key)
  <2>1. u = CHOOSE w : w = [i \in 1 .. MaxLevel |->
                IF i > listLevel THEN HeadNode
                ELSE WalkTo(IF i = listLevel THEN HeadNode ELSE w[i + 1], i, key)]
    BY <1>9 DEF Predecessors
  <2>2. QED
    BY <1>8, <2>1 DEF IsUpdate
<1>11. \A i \in 1 .. MaxLevel : IsBefore(u[i], Nodes(lv, i), key)
  <2>1. PICK T : T = {i \in 1 .. MaxLevel : ~IsBefore(u[i], Nodes(lv, i), key)}
    OBVIOUS
  <2>2. SUFFICES ASSUME T # {} PROVE FALSE
    BY <2>1
  <2>3. T \in SUBSET (0 .. MaxLevel)
    BY <1>1, <2>1
  <2>4. PICK x \in T : \A y \in T : y <= x
    BY <1>1, <2>2, <2>3, NatMax
  <2>5. x \in 1 .. MaxLevel /\ ~IsBefore(u[x], Nodes(lv, x), key)
    BY <2>1
  <2>6. CASE x > listLevel
    <3>1. u[x] = HeadNode
      BY <1>10, <2>5, <2>6 DEF IsUpdate
    <3>2. QED
      BY <1>4, <2>5, <2>6, <3>1
  <2>7. CASE ~(x > listLevel)
    <3>1. u[x] = WalkTo(IF x = listLevel THEN HeadNode ELSE u[x + 1], x, key)
      BY <1>10, <2>5, <2>7 DEF IsUpdate
    <3>2. x # listLevel => x + 1 \in 1 .. MaxLevel /\ x + 1 \notin T
      BY <1>1, <2>4, <2>5, <2>7
    <3>3. x # listLevel => IsBefore(u[x + 1], Nodes(lv, x + 1), key)
      BY <2>1, <3>2
    <3>4. QED
      BY <1>5, <2>5, <2>7, <3>1, <3>3
  <2>8. QED
    BY <2>6, <2>7
<1>12. QED
  BY <1>9, <1>11

\* Behind the last node before a key is the first that is not before it.
LEMMA BehindBefore ==
    ASSUME NEW L, NEW f, Chain(f, L), NEW key \in ListKey, NEW p, IsBefore(p, L, key)
    PROVE  /\ f[p] \in L \cup {Nil} /\ f[p] \in Nat /\ f[p] >= key /\ p \in 0 .. MaxKey
           /\ \A m \in L : m >= key => f[p] <= m
<1>1. /\ MaxKey \in Nat /\ key \in Nat /\ key <= MaxKey /\ Nil = MaxKey + 1
      /\ \A n \in L \cup {0} : n \in 0 .. MaxKey /\ n \in Nat
  BY SkipListAssumption DEF Chain, ListKey, Nil
<1>2. p \in L \cup {0} /\ p < key /\ p \in Nat /\ p \in 0 .. MaxKey /\ \A m \in L : m < key => m <= p
  BY <1>1 DEF IsBefore
<1>3. f[p] > p /\ f[p] \in L \cup {Nil} /\ f[p] \in Nat /\ \A m \in L : m > p => f[p] <= m
  BY <1>2 DEF Chain
<1>4. f[p] >= key
  <2>1. CASE f[p] = Nil
    BY <1>1, <2>1
  <2>2. CASE f[p] \in L
    BY <1>1, <1>2, <1>3, <2>2
  <2>3. QED
    BY <1>3, <2>1, <2>2
<1>5. \A m \in L : m >= key => f[p] <= m
  BY <1>1, <1>2, <1>3
<1>6. QED
  BY <1>2, <1>3, <1>4, <1>5

\* A new node between two neighbours of a level.
LEMMA LinkKeepsChain ==
    ASSUME NEW L, NEW f, Chain(f, L), NEW key \in ListKey, key \notin L, NEW p, IsBefore(p, L, key),
           NEW g, g = [n \in 0 .. MaxKey |-> IF n = key THEN f[p] ELSE IF n = p THEN key ELSE f[n]]
    PROVE  Chain(g, L \cup {key})
<1>1. /\ MaxKey \in Nat /\ key \in Nat /\ key <= MaxKey /\ Nil = MaxKey + 1 /\ key \in 0 .. MaxKey /\ key # 0
      /\ \A n \in L \cup {0} : n \in 0 .. MaxKey /\ n \in Nat
      /\ L \subseteq ListKey /\ \A n \in 0 .. MaxKey : f[n] \in Nat
  BY SkipListAssumption DEF Chain, ListKey, Nil
<1>2. p \in L \cup {0} /\ p < key /\ p \in Nat /\ p # key /\ p \in 0 .. MaxKey /\ \A m \in L : m < key => m <= p
  BY <1>1 DEF IsBefore
<1>3. f[p] \in L \cup {Nil} /\ f[p] \in Nat /\ f[p] >= key /\ \A m \in L : m >= key => f[p] <= m
  BY BehindBefore
<1>4. g[key] = f[p] /\ g[p] = key /\ \A n \in 0 .. MaxKey : n # key /\ n # p => g[n] = f[n]
  BY <1>1, <1>2
<1>5. g \in [0 .. MaxKey -> Nat]
  BY <1>1, <1>3
<1>6. ASSUME NEW n \in L \cup {key} \cup {0}
      PROVE  /\ g[n] > n /\ g[n] \in L \cup {key} \cup {Nil}
             /\ \A m \in L \cup {key} : m > n => g[n] <= m
  <2>1. CASE n = key
    <3>1. f[p] # key
      BY <1>1, <1>3
    <3>2. \A m \in L : m > key => f[p] <= m
      BY <1>1, <1>3
    <3>3. QED
      BY <1>1, <1>3, <1>4, <2>1, <3>1, <3>2
  <2>2. CASE n = p
    <3>1. ASSUME NEW m \in L, m > p PROVE key <= m
      <4>1. m \in Nat /\ ~(m < key)
        BY <1>1, <1>2, <3>1
      <4>2. QED
        BY <1>1, <4>1
    <3>2. QED
      BY <1>1, <1>2, <1>4, <2>2, <3>1
  <2>3. CASE n # key /\ n # p
    <3>1. n \in L \cup {0} /\ n \in 0 .. MaxKey /\ n \in Nat /\ g[n] = f[n]
      BY <1>1, <1>4, <2>3
    <3>2. f[n] > n /\ f[n] \in L \cup {Nil} /\ f[n] \in Nat /\ \A m \in L : m > n => f[n] <= m
      BY <3>1 DEF Chain
    <3>3. ASSUME key > n PROVE f[n] <= key
      <4>1. n <= p
        BY <1>2, <3>1, <3>3
      <4>2. n < p /\ p \in L
        BY <1>2, <2>3, <3>1, <4>1
      <4>3. f[n] <= p
        BY <3>2, <4>2
      <4>4. QED
        BY <1>1, <1>2, <3>2, <4>3
    <3>4. QED
      BY <3>1, <3>2, <3>3
  <2>4. QED
    BY <2>1, <2>2, <2>3
<1>7. ASSUME NEW n \in ListKey \ (L \cup {key}) PROVE g[n] = Nil
  <2>1. n \in 0 .. MaxKey /\ n # key /\ n # p
    BY <1>1, <1>2 DEF ListKey
  <2>2. QED
    BY <1>4, <2>1 DEF Chain
<1>8. QED
  BY <1>1, <1>5, <1>6, <1>7 DEF Chain

\* The search finds a key where it is, or the next one.
LEMMA NextNodeIs ==
    ASSUME NEW lv, ListInv(lv), NEW key \in ListKey
    PROVE  /\ NextNode(key) \in Nodes(lv, 1) \cup {Nil} /\ NextNode(key) \in Nat /\ NextNode(key) >= key
           /\ \A m \in Nodes(lv, 1) : m >= key => NextNode(key) <= m
           /\ NextNode(key) = key <=> lv[key] # 0
<1>1. 1 \in 1 .. MaxLevel /\ MaxKey \in Nat /\ key \in Nat /\ key <= MaxKey /\ Nil = MaxKey + 1
  BY SkipListAssumption DEF ListKey, Nil
<1>2. PICK p : p = Predecessors(key)[1]
  OBVIOUS
<1>3. IsBefore(p, Nodes(lv, 1), key)
  BY <1>1, <1>2, PredecessorsAre
<1>4. PICK f : f = LevelOf(1) /\ Chain(f, Nodes(lv, 1))
  BY <1>1 DEF ListInv
<1>5. /\ f[p] \in Nodes(lv, 1) \cup {Nil} /\ f[p] \in Nat /\ f[p] >= key /\ p \in 0 .. MaxKey
      /\ \A m \in Nodes(lv, 1) : m >= key => f[p] <= m
  BY <1>3, <1>4, BehindBefore
<1>6. NextNode(key) = f[p]
  BY <1>2, <1>4, <1>5 DEF NextNode, LevelOf
<1>7. lv[key] \in Nat /\ (key \in Nodes(lv, 1) <=> lv[key] # 0)
  <2>1. lv[key] \in Nat
    BY SkipListAssumption DEF ListInv
  <2>2. QED
    BY <2>1 DEF Nodes
<1>8. f[p] = key <=> key \in Nodes(lv, 1)
  BY <1>1, <1>5
<1>9. QED
  BY <1>5, <1>6, <1>7, <1>8

\* Put and Delete keep the levels in order.
LEMMA InsertKeepsList ==
    ASSUME NEW lv, ListInv(lv), NEW key \in ListKey, NEW value \in 0 .. MaxValue, NEW newLevel \in 1 .. MaxLevel,
           Insert(key, value, newLevel)
    PROVE  \E lv2 : ListInv(lv2)'
<1>1. /\ nodeEntries' = [nodeEntries EXCEPT ![key] = value] /\ contents' = [contents EXCEPT ![key] = value]
  BY DEF Insert
<1>2. /\ nodeEntries \in [ListKey -> 0 .. MaxValue] /\ contents \in [ListKey -> Nat] /\ lv \in [ListKey -> 0 .. MaxLevel]
      /\ \A k \in ListKey : /\ lv[k] = 0 => contents[k] = Absent
                            /\ lv[k] # 0 => contents[k] = nodeEntries[k]
      /\ listLevel \in 1 .. MaxLevel /\ \A k \in ListKey : lv[k] <= listLevel /\ lv[k] \in 0 .. MaxLevel
      /\ forward \in [0 .. MaxKey -> [1 .. MaxLevel -> Nat]]
  BY DEF ListInv
<1>3. MaxValue \in Nat /\ MaxLevel \in Nat /\ value \in Nat
  BY SkipListAssumption
<1>4. /\ nodeEntries' \in [ListKey -> 0 .. MaxValue] /\ contents' \in [ListKey -> Nat]
      /\ nodeEntries'[key] = value /\ contents'[key] = value
      /\ \A k \in ListKey : k # key => nodeEntries'[k] = nodeEntries[k] /\ contents'[k] = contents[k]
  BY <1>1, <1>2, <1>3
<1>5. CASE NextNode(key) = key
  <2>1. UNCHANGED <<forward, listLevel>> /\ lv[key] # 0
    BY <1>5, NextNodeIs DEF Insert
  <2>2. \A i \in 1 .. MaxLevel : LevelOf(i)' = LevelOf(i)
    BY <2>1 DEF LevelOf
  <2>3. \A i \in 1 .. MaxLevel : Chain(LevelOf(i), Nodes(lv, i))
    BY DEF ListInv
  <2>4. \A k \in ListKey : /\ lv[k] = 0 => contents'[k] = Absent
                           /\ lv[k] # 0 => contents'[k] = nodeEntries'[k]
    BY <1>2, <1>4, <2>1
  <2>5. \A i \in 1 .. MaxLevel : Chain(LevelOf(i)', Nodes(lv, i))
    BY <2>2, <2>3
  <2>6. ListInv(lv)'
    BY <1>2, <1>4, <2>1, <2>4, <2>5 DEF ListInv
  <2>7. QED
    BY <2>6
<1>6. CASE NextNode(key) # key
  <2>1. /\ forward' = Linked(key, newLevel) /\ lv[key] = 0
        /\ listLevel' = IF newLevel > listLevel THEN newLevel ELSE listLevel
    BY <1>6, NextNodeIs DEF Insert
  <2>2. PICK lv2 : lv2 = [lv EXCEPT ![key] = newLevel]
    OBVIOUS
  <2>3. /\ lv2 \in [ListKey -> 0 .. MaxLevel] /\ lv2[key] = newLevel /\ newLevel # 0 /\ newLevel \in Nat
        /\ \A k \in ListKey : k # key => lv2[k] = lv[k]
    BY <1>2, <1>3, <2>2
  <2>4. PICK u : u = Predecessors(key)
    OBVIOUS
  <2>5. \A i \in 1 .. MaxLevel : IsBefore(u[i], Nodes(lv, i), key)
    BY <2>4, PredecessorsAre
  <2>6. \A n \in 0 .. MaxKey, i \in 1 .. MaxLevel :
           /\ ~(i <= newLevel) => forward'[n][i] = forward[n][i]
           /\ i <= newLevel /\ n = key => forward'[n][i] = forward[u[i]][i]
           /\ i <= newLevel /\ n # key /\ n = u[i] => forward'[n][i] = key
           /\ i <= newLevel /\ n # key /\ n # u[i] => forward'[n][i] = forward[n][i]
    BY <2>1, <2>4 DEF Linked, HeadNode
  <2>7. ASSUME NEW i \in 1 .. MaxLevel PROVE Chain(LevelOf(i)', Nodes(lv2, i))
    <3>1. PICK f, L, g : f = LevelOf(i) /\ L = Nodes(lv, i) /\ g = LevelOf(i)' /\ Chain(f, L)
      BY DEF ListInv
    <3>2. (\A n \in 0 .. MaxKey : f[n] = forward[n][i]) /\ (\A n \in 0 .. MaxKey : g[n] = forward'[n][i])
          /\ g = [n \in 0 .. MaxKey |-> g[n]] /\ f = [n \in 0 .. MaxKey |-> f[n]]
      BY <3>1 DEF LevelOf
    <3>3. i \in Nat /\ \A k \in ListKey : lv[k] \in Nat
      BY <1>2, <1>3
    <3>4. CASE i <= newLevel
      <4>1. u[i] \in 0 .. MaxKey /\ IsBefore(u[i], L, key)
        BY <2>5, <3>1, BehindBefore
      <4>2. \A n \in 0 .. MaxKey : g[n] = IF n = key THEN f[u[i]] ELSE IF n = u[i] THEN key ELSE f[n]
        BY <2>6, <3>2, <3>4, <4>1
      <4>3. g = [n \in 0 .. MaxKey |-> IF n = key THEN f[u[i]] ELSE IF n = u[i] THEN key ELSE f[n]]
        BY <3>2, <4>2
      <4>4. key \notin L /\ Nodes(lv2, i) = L \cup {key}
        <5>1. ~(lv[key] >= i) /\ lv2[key] >= i
          BY <2>1, <2>3, <3>3, <3>4
        <5>2. QED
          BY <2>3, <3>1, <5>1 DEF Nodes
      <4>5. Chain(g, L \cup {key})
        BY <3>1, <4>1, <4>3, <4>4, LinkKeepsChain
      <4>6. QED
        BY <3>1, <4>4, <4>5
    <3>5. CASE ~(i <= newLevel)
      <4>1. g = f
        BY <2>6, <3>2, <3>5
      <4>2. Nodes(lv2, i) = L
        <5>1. ~(lv[key] >= i) /\ ~(lv2[key] >= i)
          BY <2>1, <2>3, <3>3, <3>5
        <5>2. QED
          BY <2>3, <3>1, <5>1 DEF Nodes
      <4>3. QED
        BY <3>1, <4>1, <4>2
    <3>6. QED
      BY <3>4, <3>5
  <2>8. forward' \in [0 .. MaxKey -> [1 .. MaxLevel -> Nat]]
    <3>1. \A n \in 0 .. MaxKey, i \in 1 .. MaxLevel : forward'[n][i] \in Nat
      <4>1. ASSUME NEW n \in 0 .. MaxKey, NEW i \in 1 .. MaxLevel PROVE forward'[n][i] \in Nat
        <5>1. PICK g : g = LevelOf(i)' /\ g \in [0 .. MaxKey -> Nat]
          BY <2>7 DEF Chain
        <5>2. g[n] = forward'[n][i]
          BY <5>1 DEF LevelOf
        <5>3. QED
          BY <5>1, <5>2
      <4>2. QED
        BY <4>1
    <3>2. forward' = [n \in 0 .. MaxKey |-> [i \in 1 .. MaxLevel |-> forward'[n][i]]]
      BY <2>1 DEF Linked, HeadNode
    <3>3. QED
      BY <3>1, <3>2
  <2>9. listLevel' \in 1 .. MaxLevel /\ \A k \in ListKey : lv2[k] <= listLevel'
    <3>1. listLevel \in Nat /\ newLevel \in Nat /\ \A k \in ListKey : lv[k] \in Nat
      BY <1>2, <1>3
    <3>2. listLevel' \in Nat /\ listLevel <= listLevel' /\ newLevel <= listLevel' /\ listLevel' \in 1 .. MaxLevel
      BY <1>2, <2>1, <3>1
    <3>3. ASSUME NEW k \in ListKey PROVE lv2[k] <= listLevel'
      <4>1. lv[k] <= listLevel /\ lv[k] \in Nat
        BY <1>2, <3>1
      <4>2. k # key => lv2[k] = lv[k]
        BY <2>3
      <4>3. k = key => lv2[k] = newLevel
        BY <2>3
      <4>4. QED
        BY <3>1, <3>2, <4>1, <4>2, <4>3
    <3>4. QED
      BY <3>2, <3>3
  <2>10. \A k \in ListKey : /\ lv2[k] = 0 => contents'[k] = Absent
                            /\ lv2[k] # 0 => contents'[k] = nodeEntries'[k]
    BY <1>2, <1>4, <2>3
  <2>11. ListInv(lv2)'
    BY <1>4, <2>3, <2>7, <2>8, <2>9, <2>10 DEF ListInv
  <2>12. QED
    BY <2>11
<1>7. QED
  BY <1>5, <1>6

\* What Scanned computes for each node.
IsRest(rest, f) == rest = [n \in 0 .. Nil |-> IF n = Nil THEN <<>> ELSE <<n>> \o rest[f[n]]]

\* The numbers of a set, in ascending order.
Ascending(s, S) ==
    /\ s \in Seq(Nat) /\ {s[i] : i \in 1 .. Len(s)} = S
    /\ \A i, j \in 1 .. Len(s) : i < j => s[i] < s[j]

LEMMA FirstKeepsAscending ==
    ASSUME NEW s, NEW S, Ascending(s, S), NEW n \in Nat, \A m \in S : n < m
    PROVE  Ascending(<<n>> \o s, S \cup {n})
<1>1. PICK k \in Nat : k = Len(s)
  BY DEF Ascending
<1>2. PICK t : t = <<n>> \o s
  OBVIOUS
<1>3. s \in Seq(Nat) /\ \A i \in 1 .. k : s[i] \in Nat /\ s[i] \in S
  BY <1>1 DEF Ascending
<1>4. t \in Seq(Nat) /\ Len(t) = k + 1 /\ t[1] = n /\ \A i \in 1 .. k : t[i + 1] = s[i]
  BY <1>1, <1>2, <1>3
<1>5. ASSUME NEW i \in 1 .. k + 1, i # 1 PROVE i - 1 \in 1 .. k /\ t[i] = s[i - 1]
  <2>1. i - 1 \in 1 .. k /\ (i - 1) + 1 = i
    BY <1>5
  <2>2. QED
    BY <1>4, <2>1
<1>6. {t[i] : i \in 1 .. k + 1} = S \cup {n}
  <2>1. ASSUME NEW x \in S PROVE \E i \in 1 .. k + 1 : t[i] = x
    <3>1. PICK i \in 1 .. k : s[i] = x
      BY <1>1 DEF Ascending
    <3>2. i + 1 \in 1 .. k + 1 /\ t[i + 1] = x
      BY <1>4, <3>1
    <3>3. QED
      BY <3>2
  <2>2. ASSUME NEW i \in 1 .. k + 1 PROVE t[i] \in S \cup {n}
    BY <1>3, <1>4, <1>5
  <2>3. 1 \in 1 .. k + 1
    OBVIOUS
  <2>4. QED
    BY <1>4, <2>1, <2>2, <2>3
<1>7. ASSUME NEW i \in 1 .. k + 1, NEW j \in 1 .. k + 1, i < j PROVE t[i] < t[j]
  <2>1. j # 1
    BY <1>7
  <2>2. CASE i = 1
    BY <1>3, <1>4, <1>5, <2>1, <2>2
  <2>3. CASE i # 1
    <3>1. i - 1 \in 1 .. k /\ j - 1 \in 1 .. k /\ i - 1 < j - 1 /\ t[i] = s[i - 1] /\ t[j] = s[j - 1]
      BY <1>5, <1>7, <2>1, <2>3
    <3>2. s[i - 1] < s[j - 1]
      BY <1>1, <3>1 DEF Ascending
    <3>3. QED
      BY <3>1, <3>2
  <2>4. QED
    BY <2>2, <2>3
<1>8. \A i, j \in 1 .. k + 1 : i < j => t[i] < t[j]
  BY <1>7
<1>9. QED
  BY <1>2, <1>4, <1>6, <1>8, ZenonT(40) DEF Ascending

\* The scan is defined.
LEMMA RestExists ==
    ASSUME NEW L, NEW f, Chain(f, L)
    PROVE  \E rest : IsRest(rest, f)
<1>0. Nil \in Nat /\ Nil = MaxKey + 1 /\ MaxKey \in Nat
  BY SkipListAssumption DEF Nil
<1>1. PICK z \in Nat : z = Nil /\ z = MaxKey + 1 /\ MaxKey \in Nat
  BY <1>0
<1>2. ASSUME NEW n \in 0 .. MaxKey PROVE f[n] \in Nat /\ f[n] > n /\ f[n] <= z
  <2>1. n \in L \cup {0} \/ n \in ListKey \ L
    BY <1>1 DEF ListKey
  <2>2. CASE n \in L \cup {0}
    <3>1. f[n] \in Nat /\ f[n] > n /\ (f[n] \in ListKey \/ f[n] = z)
      BY <1>1, <2>2 DEF Chain
    <3>2. QED
      BY <1>1, <3>1 DEF ListKey
  <2>3. CASE n \in ListKey \ L
    <3>1. f[n] = z
      BY <1>1, <2>3 DEF Chain
    <3>2. QED
      BY <1>1, <3>1
  <2>4. QED
    BY <2>1, <2>2, <2>3
<1>3. PICK T : T = {m \in Nat : m <= z =>
                      \E r : r = [n \in z - m .. z |-> IF n = z THEN <<>> ELSE <<n>> \o r[f[n]]]}
  OBVIOUS
<1>4. 0 \in T
  <2>1. PICK r : r = [n \in z - 0 .. z |-> <<>>]
    OBVIOUS
  <2>2. \A n \in z - 0 .. z : n = z
    OBVIOUS
  <2>3. r = [n \in z - 0 .. z |-> IF n = z THEN <<>> ELSE <<n>> \o r[f[n]]]
    BY <2>1, <2>2
  <2>4. QED
    BY <1>3, <2>3
<1>5. ASSUME NEW m \in Nat, m \in T PROVE m + 1 \in T
  <2>1. SUFFICES ASSUME m + 1 <= z
                 PROVE  \E r : r = [n \in z - (m + 1) .. z |-> IF n = z THEN <<>> ELSE <<n>> \o r[f[n]]]
    BY <1>3
  <2>2. PICK r : r = [n \in z - m .. z |-> IF n = z THEN <<>> ELSE <<n>> \o r[f[n]]]
    BY <1>3, <1>5, <2>1
  <2>3. PICK q : q = [n \in z - (m + 1) .. z |-> IF n \in z - m .. z THEN r[n] ELSE <<n>> \o r[f[n]]]
    OBVIOUS
  <2>4. ASSUME NEW n \in z - (m + 1) .. z PROVE q[n] = IF n = z THEN <<>> ELSE <<n>> \o q[f[n]]
    <3>1. n \in 0 .. z
      BY <2>1
    <3>2. CASE n = z
      BY <2>2, <2>3, <3>2
    <3>3. CASE n # z
      <4>1. n \in 0 .. MaxKey
        BY <1>1, <3>1, <3>3
      <4>2. f[n] \in z - m .. z /\ f[n] \in z - (m + 1) .. z
        BY <1>2, <2>1, <4>1
      <4>3. q[f[n]] = r[f[n]]
        BY <2>3, <4>2
      <4>4. CASE n \in z - m .. z
        BY <2>2, <2>3, <3>3, <4>3, <4>4
      <4>5. CASE n \notin z - m .. z
        BY <2>3, <3>3, <4>3, <4>5
      <4>6. QED
        BY <4>4, <4>5
    <3>4. QED
      BY <3>2, <3>3
  <2>5. q = [n \in z - (m + 1) .. z |-> IF n = z THEN <<>> ELSE <<n>> \o q[f[n]]]
    <3>1. q = [n \in z - (m + 1) .. z |-> q[n]]
      BY <2>3
    <3>2. QED
      BY <2>4, <3>1
  <2>6. QED
    BY <2>5
<1>6. z \in T
  BY <1>4, <1>5, SetInduction
<1>7. PICK r : r = [n \in z - z .. z |-> IF n = z THEN <<>> ELSE <<n>> \o r[f[n]]]
  BY <1>3, <1>6, SMTT(30)
<1>8. z - z .. z = 0 .. Nil
  BY <1>1
<1>9. IsRest(r, f)
  BY <1>1, <1>7, <1>8 DEF IsRest
<1>10. QED
  BY <1>9

\* From a node on, the scan meets the nodes of the level in order.
LEMMA RestIs ==
    ASSUME NEW L, NEW f, Chain(f, L), NEW rest, IsRest(rest, f), NEW n \in L \cup {Nil}
    PROVE  Ascending(rest[n], {m \in L : m >= n})
<1>a. Nil \in Nat /\ Nil = MaxKey + 1 /\ MaxKey \in Nat
  BY SkipListAssumption DEF Nil
<1>b. \A m \in L : m \in 0 .. MaxKey /\ m \in Nat /\ m < Nil
  <2>1. L \subseteq ListKey
    BY DEF Chain
  <2>2. QED
    BY <1>a, <2>1 DEF ListKey
<1>1. PICK z \in Nat : /\ z = Nil /\ z = MaxKey + 1 /\ MaxKey \in Nat
                       /\ \A m \in L : m \in 0 .. MaxKey /\ m \in Nat /\ m < z
  BY <1>a, <1>b
<1>2. PICK T : T = {x \in L \cup {z} : ~Ascending(rest[x], {m \in L : m >= x})}
  OBVIOUS
<1>3. SUFFICES ASSUME T # {} PROVE FALSE
  BY <1>1, <1>2
<1>4. T \in SUBSET (0 .. z)
  BY <1>1, <1>2
<1>5. PICK x \in T : \A y \in T : y <= x
  BY <1>3, <1>4, NatMax
<1>6. x \in L \cup {z} /\ x \in Nat /\ x \in 0 .. z /\ ~Ascending(rest[x], {m \in L : m >= x})
  BY <1>1, <1>2
<1>7. CASE x = z
  <2>1. rest[x] = <<>>
    BY <1>1, <1>7 DEF IsRest
  <2>2. {m \in L : m >= x} = {}
    BY <1>1, <1>7
  <2>3. Ascending(<<>>, {})
    BY DEF Ascending
  <2>4. QED
    BY <1>6, <2>1, <2>2, <2>3
<1>8. CASE x \in L
  <2>1. PICK y : y = f[x]
    OBVIOUS
  <2>2. y \in Nat /\ y > x /\ y \in L \cup {z} /\ \A m \in L : m > x => y <= m
    BY <1>1, <1>8, <2>1 DEF Chain
  <2>3. y \notin T
    BY <1>5, <1>6, <2>2
  <2>4. Ascending(rest[y], {m \in L : m >= y})
    BY <1>2, <2>2, <2>3
  <2>5. rest[x] = <<x>> \o rest[y]
    <3>1. x \in 0 .. Nil /\ x # Nil
      BY <1>1, <1>6, <1>8
    <3>2. \A n1 \in 0 .. Nil : rest[n1] = IF n1 = Nil THEN <<>> ELSE <<n1>> \o rest[f[n1]]
      BY Zenon DEF IsRest
    <3>3. QED
      BY <2>1, <3>1, <3>2
  <2>6. PICK S : S = {m \in L : m >= y}
    OBVIOUS
  <2>7. \A m \in S : x < m
    BY <1>1, <1>6, <2>2, <2>6
  <2>8. {m \in L : m >= x} = S \cup {x}
    <3>1. ASSUME NEW m \in L, m >= x PROVE m = x \/ m >= y
      BY <1>1, <1>6, <2>2, <3>1
    <3>2. \A m \in S : m \in L /\ m >= x
      BY <1>1, <1>6, <2>6, <2>7
    <3>3. x >= x
      BY <1>6
    <3>4. QED
      BY <1>8, <2>6, <3>1, <3>2, <3>3
  <2>9. Ascending(<<x>> \o rest[y], S \cup {x})
    BY <1>6, <2>4, <2>6, <2>7, FirstKeepsAscending
  <2>10. QED
    BY <1>6, <2>5, <2>8, <2>9
<1>9. QED
  BY <1>6, <1>7, <1>8

\* Scan meets the keys that were put, from its start on.
LEMMA ScannedIs ==
    ASSUME NEW lv, ListInv(lv), NEW key \in ListKey
    PROVE  Ascending(Scanned(key), {k \in Nodes(lv, 1) : k >= key})
<1>1. PICK f : f = LevelOf(1) /\ Chain(f, Nodes(lv, 1))
  BY SkipListAssumption DEF ListInv
<1>2. PICK rest : rest = CHOOSE r : r = [n \in 0 .. Nil |-> IF n = Nil THEN <<>> ELSE <<n>> \o r[forward[n][1]]]
  OBVIOUS
<1>3. \A r : r = [n \in 0 .. Nil |-> IF n = Nil THEN <<>> ELSE <<n>> \o r[forward[n][1]]] <=> IsRest(r, f)
  <2>1. \A n \in 0 .. Nil : n # Nil => f[n] = forward[n][1]
    BY <1>1, SkipListAssumption DEF LevelOf, Nil
  <2>2. \A r : [n \in 0 .. Nil |-> IF n = Nil THEN <<>> ELSE <<n>> \o r[forward[n][1]]]
               = [n \in 0 .. Nil |-> IF n = Nil THEN <<>> ELSE <<n>> \o r[f[n]]]
    BY <2>1
  <2>3. QED
    BY <2>2 DEF IsRest
<1>4. IsRest(rest, f)
  BY <1>1, <1>2, <1>3, RestExists
<1>5. PICK x \in Nodes(lv, 1) \cup {Nil} : /\ x = NextNode(key) /\ x \in Nat /\ x >= key
                                           /\ \A m \in Nodes(lv, 1) : m >= key => x <= m
  BY NextNodeIs
<1>6. Scanned(key) = rest[x]
  BY <1>2, <1>5 DEF Scanned, HeadNode
<1>7. Ascending(rest[x], {m \in Nodes(lv, 1) : m >= x})
  BY <1>1, <1>4, RestIs
<1>8. \A m \in Nodes(lv, 1) : m >= x <=> m >= key
  <2>1. \A m \in Nodes(lv, 1) : m \in Nat /\ key \in Nat
    BY SkipListAssumption DEF Nodes, ListKey
  <2>2. QED
    BY <1>5, <2>1
<1>9. {m \in Nodes(lv, 1) : m >= x} = {k \in Nodes(lv, 1) : k >= key}
  BY <1>8
<1>10. QED
  BY <1>6, <1>7, <1>9

\* The keys that were put are the nodes of the lowest level.
LEMMA PutIsNode ==
    ASSUME NEW lv, ListInv(lv), NEW k \in ListKey
    PROVE  /\ contents[k] # Absent <=> lv[k] # 0
           /\ k \in Nodes(lv, 1) <=> lv[k] # 0
           /\ lv[k] # 0 => contents[k] = nodeEntries[k]
<1>1. MaxValue \in Nat /\ MaxLevel \in Nat /\ lv[k] \in Nat /\ nodeEntries[k] \in 0 .. MaxValue
  BY SkipListAssumption DEF ListInv
<1>2. nodeEntries[k] # Absent
  BY <1>1 DEF Absent
<1>3. QED
  BY <1>1, <1>2 DEF ListInv, Nodes

\* Get and Scan find what was put.
LEMMA ListFinds ==
    ASSUME NEW lv, ListInv(lv)
    PROVE  FindsWhatWasPut
<1>1. ASSUME NEW key \in ListKey PROVE GetKey(key) = contents[key]
  <2>1. NextNode(key) = key <=> lv[key] # 0
    BY NextNodeIs
  <2>2. QED
    BY <2>1, PutIsNode DEF GetKey, ListInv
<1>2. ASSUME NEW key \in ListKey, NEW found, found = Scanned(key)
      PROVE  /\ {found[i] : i \in DOMAIN found} = {k \in ListKey : k >= key /\ contents[k] # Absent}
             /\ \A i, j \in DOMAIN found : i < j => found[i] < found[j]
  <2>1. Ascending(found, {k \in Nodes(lv, 1) : k >= key})
    BY <1>2, ScannedIs
  <2>2. {k \in Nodes(lv, 1) : k >= key} = {k \in ListKey : k >= key /\ contents[k] # Absent}
    <3>1. \A k \in ListKey : k \in Nodes(lv, 1) <=> contents[k] # Absent
      BY PutIsNode
    <3>2. Nodes(lv, 1) \subseteq ListKey
      BY DEF Nodes
    <3>3. QED
      BY <3>1, <3>2
  <2>3. DOMAIN found = 1 .. Len(found)
    BY <2>1 DEF Ascending
  <2>4. QED
    BY <2>1, <2>2, <2>3 DEF Ascending
<1>3. QED
  BY <1>1, <1>2 DEF FindsWhatWasPut

-----------------------------------------------------------------------------
(* SSTable *)

\* The elements of a sequence behind its a-th, up to its b-th.
Stretch(s, a, b) == [i \in 1 .. b - a |-> s[a + i]]

LEMMA StretchIs ==
    ASSUME NEW V, NEW s \in Seq(V), NEW a \in Nat, NEW b \in Nat, a <= b, b <= Len(s)
    PROVE  /\ Stretch(s, a, b) \in Seq(V) /\ Len(Stretch(s, a, b)) = b - a
           /\ \A i \in 1 .. b - a : Stretch(s, a, b)[i] = s[a + i]
<1>1. PICK t : t = Stretch(s, a, b)
  OBVIOUS
<1>2. PICK n \in Nat : n = b - a
  OBVIOUS
<1>3. \A i \in 1 .. n : a + i \in 1 .. Len(s)
  BY <1>2
<1>4. t \in [1 .. n -> V]
  BY <1>1, <1>2, <1>3 DEF Stretch
<1>5. t \in Seq(V) /\ Len(t) = n
  BY ONLY <1>4
<1>6. \A i \in 1 .. n : t[i] = s[a + i]
  BY <1>1, <1>2 DEF Stretch
<1>7. QED
  BY <1>1, <1>2, <1>5, <1>6

\* Sequences are equal when their lengths and elements are.
LEMMA SameSeq ==
    ASSUME NEW V, NEW s \in Seq(V), NEW t \in Seq(V), Len(s) = Len(t), \A i \in 1 .. Len(s) : s[i] = t[i]
    PROVE  s = t
OBVIOUS

LEMMA StretchEmpty ==
    ASSUME NEW V, NEW s \in Seq(V), NEW a \in Nat, NEW b \in Nat, a <= b, b <= Len(s)
    PROVE  Stretch(s, a, b) = <<>> <=> a = b
<1>1. Stretch(s, a, b) \in Seq(V) /\ Len(Stretch(s, a, b)) = b - a
  BY StretchIs
<1>2. \A t \in Seq(V) : t = <<>> <=> Len(t) = 0
  BY EmptySeq
<1>3. QED
  BY <1>1, <1>2

LEMMA StretchAppend ==
    ASSUME NEW V, NEW s \in Seq(V), NEW a \in Nat, NEW b \in Nat, a <= b, b < Len(s)
    PROVE  Append(Stretch(s, a, b), s[b + 1]) = Stretch(s, a, b + 1)
<1>1. b + 1 \in 1 .. Len(s) /\ b + 1 \in Nat /\ a <= b + 1 /\ b + 1 <= Len(s) /\ b <= Len(s)
  OBVIOUS
<1>2. PICK t : t = Stretch(s, a, b)
  OBVIOUS
<1>3. PICK u : u = Stretch(s, a, b + 1)
  OBVIOUS
<1>4. t \in Seq(V) /\ Len(t) = b - a /\ \A i \in 1 .. b - a : t[i] = s[a + i]
  BY <1>1, <1>2, StretchIs
<1>5. u \in Seq(V) /\ Len(u) = (b + 1) - a /\ \A i \in 1 .. (b + 1) - a : u[i] = s[a + i]
  BY <1>1, <1>3, StretchIs
<1>6. PICK w : w = Append(t, s[b + 1])
  OBVIOUS
<1>7. /\ w \in Seq(V) /\ Len(w) = (b + 1) - a /\ w[(b + 1) - a] = s[b + 1]
      /\ \A i \in 1 .. b - a : w[i] = t[i]
  BY <1>1, <1>4, <1>6
<1>8. ASSUME NEW i \in 1 .. (b + 1) - a PROVE w[i] = u[i]
  <2>1. CASE i = (b + 1) - a
    <3>1. a + i = b + 1
      BY <2>1
    <3>2. QED
      BY <1>5, <1>7, <2>1, <3>1
  <2>2. CASE i # (b + 1) - a
    <3>1. i \in 1 .. b - a
      BY <2>2
    <3>2. QED
      BY <1>4, <1>5, <1>7, <3>1
  <2>3. QED
    BY <2>1, <2>2
<1>9. w = u
  BY <1>5, <1>7, <1>8, SameSeq
<1>10. QED
  BY <1>2, <1>3, <1>6, <1>9

LEMMA StretchTail ==
    ASSUME NEW V, NEW s \in Seq(V), NEW a \in Nat, NEW b \in Nat, a < b, b <= Len(s)
    PROVE  /\ Head(Stretch(s, a, b)) = s[a + 1]
           /\ Tail(Stretch(s, a, b)) = Stretch(s, a + 1, b)
<1>1. a + 1 \in Nat /\ a <= b /\ a + 1 <= b
  OBVIOUS
<1>2. PICK t : t = Stretch(s, a, b)
  OBVIOUS
<1>3. PICK u : u = Stretch(s, a + 1, b)
  OBVIOUS
<1>4. t \in Seq(V) /\ Len(t) = b - a /\ \A i \in 1 .. b - a : t[i] = s[a + i]
  BY <1>1, <1>2, StretchIs
<1>5. u \in Seq(V) /\ Len(u) = b - (a + 1) /\ \A i \in 1 .. b - (a + 1) : u[i] = s[(a + 1) + i]
  BY <1>1, <1>3, StretchIs
<1>6. t # <<>>
  BY <1>4
<1>7. PICK w : w = Tail(t)
  OBVIOUS
<1>8. w \in Seq(V) /\ Len(w) = b - (a + 1) /\ \A i \in 1 .. b - (a + 1) : w[i] = t[i + 1]
  BY <1>1, <1>4, <1>6, <1>7
<1>9. ASSUME NEW i \in 1 .. b - (a + 1) PROVE w[i] = u[i]
  <2>1. i + 1 \in 1 .. b - a /\ a + (i + 1) = (a + 1) + i
    OBVIOUS
  <2>2. QED
    BY <1>4, <1>5, <1>8, <2>1
<1>10. w = u
  BY <1>5, <1>8, <1>9, SameSeq
<1>11. Head(t) = s[a + 1]
  BY <1>4, <1>6
<1>12. QED
  BY <1>2, <1>3, <1>7, <1>10, <1>11

LEMMA StretchJoin ==
    ASSUME NEW V, NEW s \in Seq(V), NEW a \in Nat, NEW b \in Nat, NEW c \in Nat, a <= b, b <= c, c <= Len(s)
    PROVE  Stretch(s, a, b) \o Stretch(s, b, c) = Stretch(s, a, c)
<1>0. a <= c /\ b <= Len(s)
  OBVIOUS
<1>1. PICK t : t = Stretch(s, a, b)
  OBVIOUS
<1>2. PICK u : u = Stretch(s, b, c)
  OBVIOUS
<1>3. PICK w : w = Stretch(s, a, c)
  OBVIOUS
<1>4. t \in Seq(V) /\ Len(t) = b - a /\ \A i \in 1 .. b - a : t[i] = s[a + i]
  BY <1>0, <1>1, StretchIs
<1>5. u \in Seq(V) /\ Len(u) = c - b /\ \A i \in 1 .. c - b : u[i] = s[b + i]
  BY <1>2, StretchIs
<1>6. w \in Seq(V) /\ Len(w) = c - a /\ \A i \in 1 .. c - a : w[i] = s[a + i]
  BY <1>0, <1>3, StretchIs
<1>7. PICK x : x = t \o u
  OBVIOUS
<1>8. /\ x \in Seq(V) /\ Len(x) = c - a
      /\ \A i \in 1 .. b - a : x[i] = t[i]
      /\ \A i \in 1 .. c - b : x[(b - a) + i] = u[i]
  <2>1. x \in Seq(V) /\ Len(x) = (b - a) + (c - b) /\ \A i \in 1 .. b - a : x[i] = t[i]
    <3>1. /\ x \in Seq(V) /\ Len(x) = Len(t) + Len(u)
          /\ \A i \in 1 .. Len(t) + Len(u) : x[i] = IF i <= Len(t) THEN t[i] ELSE u[i - Len(t)]
      BY <1>4, <1>5, <1>7, ConcatProperties
    <3>2. PICK n \in Nat : n = b - a
      OBVIOUS
    <3>3. PICK m \in Nat : m = c - b
      OBVIOUS
    <3>4. \A i \in 1 .. n : i \in 1 .. n + m /\ i <= n
      OBVIOUS
    <3>5. QED
      BY <1>4, <1>5, <3>1, <3>2, <3>3, <3>4
  <2>2. ASSUME NEW i \in 1 .. c - b PROVE x[(b - a) + i] = u[i]
    <3>1. PICK n \in Nat : n = b - a
      OBVIOUS
    <3>2. n + i \in n + 1 .. n + Len(u) /\ (n + i) - n = i
      BY <1>5, <3>1
    <3>3. \A l \in 1 .. Len(t) + Len(u) : x[l] = IF l <= Len(t) THEN t[l] ELSE u[l - Len(t)]
      BY <1>4, <1>5, <1>7, ConcatProperties
    <3>4. Len(t) = n /\ Len(u) \in Nat /\ n + i \in 1 .. n + Len(u) /\ ~ (n + i <= n)
      BY <1>4, <1>5, <3>1, <3>2
    <3>5. x[n + i] = u[(n + i) - n]
      BY <3>3, <3>4
    <3>6. QED
      BY <3>1, <3>2, <3>5
  <2>3. (b - a) + (c - b) = c - a
    OBVIOUS
  <2>4. QED
    BY <2>1, <2>2, <2>3
<1>9. ASSUME NEW i \in 1 .. c - a PROVE x[i] = w[i]
  <2>1. CASE i <= b - a
    <3>1. i \in 1 .. b - a
      BY <2>1
    <3>2. x[i] = t[i] /\ t[i] = s[a + i] /\ w[i] = s[a + i]
      BY <1>4, <1>6, <1>8, <3>1, Zenon
    <3>3. QED
      BY <3>2
  <2>2. CASE i > b - a
    <3>1. PICK j \in 1 .. c - b : i = (b - a) + j
      <4>1. i - (b - a) \in 1 .. c - b /\ i = (b - a) + (i - (b - a))
        BY <2>2
      <4>2. QED
        BY <4>1
    <3>2. b + j = a + i
      BY <3>1
    <3>3. x[i] = u[j] /\ u[j] = s[b + j] /\ w[i] = s[a + i]
      BY <1>5, <1>6, <1>8, <3>1
    <3>4. QED
      BY <3>2, <3>3
  <2>3. QED
    BY <2>1, <2>2
<1>10. x = w
  BY <1>6, <1>8, <1>9, SameSeq
<1>11. QED
  BY <1>1, <1>2, <1>3, <1>7, <1>10

LEMMA StretchAll ==
    ASSUME NEW V, NEW s \in Seq(V)
    PROVE  Stretch(s, 0, Len(s)) = s
<1>1. PICK t : t = Stretch(s, 0, Len(s))
  OBVIOUS
<1>2. t \in Seq(V) /\ Len(t) = Len(s) - 0 /\ \A i \in 1 .. Len(s) - 0 : t[i] = s[0 + i]
  <2>1. PICK n \in Nat : n = Len(s)
    OBVIOUS
  <2>2. 0 \in Nat /\ 0 <= n /\ n <= Len(s) /\ t = Stretch(s, 0, n)
    BY <1>1, <2>1
  <2>3. t \in Seq(V) /\ Len(t) = n - 0 /\ \A i \in 1 .. n - 0 : t[i] = s[0 + i]
    BY <2>2, StretchIs
  <2>4. QED
    BY <2>1, <2>3
<1>3. \A i \in 1 .. Len(t) : t[i] = s[i]
  BY <1>2
<1>4. QED
  BY <1>1, <1>2, <1>3, SameSeq

\* What the table's entries are made of.
TableEntry == [key : Nat, value : Nat]

\* The keys of the frozen list in their order, with their entries.
KeysInv(ks, es) ==
    /\ ks = Scanned(1)
    /\ es \in Seq(TableEntry) /\ Len(es) = Len(ks)
    /\ \A i \in 1 .. Len(ks) : es[i].key = ks[i] /\ es[i].value = nodeEntries[ks[i]]

\* The blocks that are written: block i has the entries behind the cut[i]-th up to the
\* cut[i + 1]-th.
BlocksInv(es, cut, c) ==
    /\ c \in 0 .. Len(es)
    /\ index \in Seq([key : Nat, offset : Nat]) /\ offset \in Nat
    /\ cut \in [1 .. Len(index) + 1 -> Nat] /\ cut[1] = 0
    /\ \A i \in 1 .. Len(index) + 1 : cut[i] <= c
    /\ \A i, j \in 1 .. Len(index) + 1 : i < j => cut[i] < cut[j]
    /\ \A i \in 1 .. Len(index) :
          /\ index[i].key = es[cut[i] + 1].key
          /\ index[i].offset \in DOMAIN file /\ index[i].offset < offset
          /\ file[index[i].offset] = Stretch(es, cut[i], cut[i + 1])

\* The block that is being filled.
BufferInv(es, cut, c) ==
    /\ blockBuf = Stretch(es, cut[Len(index) + 1], c)
    /\ blockBuf # <<>> => blockOffset = offset

\* Filter and key range of what was added.
FilterInv(ks, c) ==
    /\ hash128 \in [ListKey -> Nat \X Nat]
    /\ minKey \in Nat /\ maxKey \in Nat
    /\ minKey = 0 => c = 0
    /\ \A j \in 1 .. c : /\ Bits(hash128[ks[j]]) \subseteq bitset
                         /\ minKey <= ks[j] /\ ks[j] <= maxKey

WriterInv(ks, es, cut, c) ==
    /\ KeysInv(ks, es)
    /\ toAdd = Stretch(ks, c, Len(ks))
    /\ BlocksInv(es, cut, c)
    /\ BufferInv(es, cut, c)
    /\ FilterInv(ks, c)
    /\ finished => c = Len(ks) /\ cut[Len(index) + 1] = c

\* Nothing is written before the list is frozen.
NotStarted ==
    /\ toAdd = <<>> /\ blockBuf = <<>> /\ index = <<>>
    /\ offset = 0 /\ minKey = 0 /\ maxKey = 0
    /\ hash128 \in [ListKey -> Nat \X Nat]
    /\ ~finished

ListAndFileInv ==
    /\ \E lv : ListInv(lv)
    /\ ~frozen => NotStarted
    /\ frozen => \E ks, es, cut, c : WriterInv(ks, es, cut, c)

\* The size of a block is a number.
LEMMA BufferSizeIsNat ==
    ASSUME NEW buf \in Seq(TableEntry)
    PROVE  BufferSize(buf) \in Nat
<1>1. PICK n \in Nat : n = Len(buf)
  OBVIOUS
<1>2. PICK F : F = [p \in Nat \X (1 .. n) |-> p[1] + EncodedSize(buf[p[2]])]
  OBVIOUS
<1>3. ASSUME NEW k \in 1 .. n PROVE EncodedSize(buf[k]) \in Nat
  <2>1. buf[k] \in TableEntry
    BY <1>1
  <2>2. buf[k].value \in Nat
    BY <2>1 DEF TableEntry
  <2>3. QED
    BY <2>2 DEF EncodedSize
<1>4. \A s \in Nat, k \in 1 .. n : F[<<s, k>>] = s + EncodedSize(buf[k]) /\ F[<<s, k>>] \in Nat
  BY <1>2, <1>3
<1>5. PICK g : Iterates(g, 0, F, n) /\ \A k \in 0 .. n : g[k] \in Nat
  BY <1>4, IterationExists
<1>6. \A h : h = [i \in 0 .. Len(buf) |-> IF i = 0 THEN 0 ELSE h[i - 1] + EncodedSize(buf[i])]
             => \A i \in 0 .. n : h[i] = IF i = 0 THEN 0 ELSE h[i - 1] + EncodedSize(buf[i])
  BY <1>1
<1>7. g = [i \in 0 .. Len(buf) |-> IF i = 0 THEN 0 ELSE g[i - 1] + EncodedSize(buf[i])]
  <2>1. g = [k \in 0 .. n |-> g[k]] /\ g[0] = 0 /\ \A k \in 1 .. n : g[k] = F[<<g[k - 1], k>>]
    BY <1>5 DEF Iterates
  <2>2. ASSUME NEW k \in 0 .. n PROVE g[k] = IF k = 0 THEN 0 ELSE g[k - 1] + EncodedSize(buf[k])
    <3>1. CASE k = 0
      BY <2>1, <3>1
    <3>2. CASE k # 0
      <4>1. k \in 1 .. n /\ k - 1 \in 0 .. n
        BY <3>2
      <4>2. g[k] = g[k - 1] + EncodedSize(buf[k])
        BY <1>4, <1>5, <2>1, <4>1
      <4>3. QED
        BY <3>2, <4>2
    <3>3. QED
      BY <3>1, <3>2
  <2>3. QED
    BY <1>1, <2>1, <2>2
<1>8. PICK total : /\ total = CHOOSE h : h = [i \in 0 .. Len(buf) |-> IF i = 0 THEN 0 ELSE h[i - 1] + EncodedSize(buf[i])]
                   /\ \A i \in 0 .. n : total[i] = IF i = 0 THEN 0 ELSE total[i - 1] + EncodedSize(buf[i])
  BY <1>6, <1>7
<1>9. PICK T : T = {m \in Nat : m <= n => total[m] \in Nat}
  OBVIOUS
<1>10. 0 \in T
  BY <1>8, <1>9
<1>11. ASSUME NEW m \in Nat, m \in T PROVE m + 1 \in T
  <2>1. SUFFICES ASSUME m + 1 <= n PROVE total[m + 1] \in Nat
    BY <1>9
  <2>2. m + 1 \in 0 .. n /\ m + 1 \in 1 .. n /\ m + 1 # 0 /\ (m + 1) - 1 = m /\ total[m] \in Nat
    BY <1>9, <1>11, <2>1
  <2>3. total[m + 1] = total[m] + EncodedSize(buf[m + 1])
    BY <1>8, <2>2
  <2>4. QED
    BY <1>3, <2>2, <2>3
<1>12. n \in T
  BY <1>10, <1>11, SetInduction
<1>13. total[n] \in Nat
  BY <1>9, <1>12
<1>14. QED
  BY <1>1, <1>8, <1>13 DEF BufferSize

\* A block that is written stays with the entries it had.
LEMMA FlushKeepsBlocks ==
    ASSUME NEW es, es \in Seq(TableEntry), NEW cut, NEW c, BlocksInv(es, cut, c), BufferInv(es, cut, c),
           blockBuf # <<>>, FlushBlock(TRUE)
    PROVE  \E cut2 : BlocksInv(es, cut2, c)' /\ cut2[Len(index') + 1] = c
<1>1. PICK n \in Nat : n = Len(index)
  BY DEF BlocksInv
<1>0. c \in Nat /\ c <= Len(es) /\ Len(es) \in Nat
  <2>1. c \in 0 .. Len(es) /\ Len(es) \in Nat
    BY DEF BlocksInv
  <2>2. QED
    BY <2>1
<1>2. /\ offset \in Nat
      /\ index \in Seq([key : Nat, offset : Nat])
      /\ cut \in [1 .. n + 1 -> Nat] /\ cut[1] = 0
      /\ \A i \in 1 .. n + 1 : cut[i] <= c /\ cut[i] \in Nat
      /\ \A i, j \in 1 .. n + 1 : i < j => cut[i] < cut[j]
  BY <1>1 DEF BlocksInv
<1>3. \A i \in 1 .. n : /\ index[i].key = es[cut[i] + 1].key
                        /\ index[i].offset \in DOMAIN file /\ index[i].offset < offset
                        /\ file[index[i].offset] = Stretch(es, cut[i], cut[i + 1])
  BY <1>1 DEF BlocksInv
<1>4. PICK a \in Nat : a = cut[n + 1] /\ a <= c
  <2>1. n + 1 \in 1 .. n + 1
    OBVIOUS
  <2>2. QED
    BY <1>2, <2>1
<1>5. blockBuf = Stretch(es, a, c) /\ blockOffset = offset
  BY <1>1, <1>4 DEF BufferInv
<1>6. a < c
  BY <1>0, <1>4, <1>5, StretchEmpty
<1>7. blockBuf \in Seq(TableEntry) /\ blockBuf[1] = es[a + 1] /\ es[a + 1] \in TableEntry
  <2>1. blockBuf \in Seq(TableEntry) /\ \A i \in 1 .. c - a : blockBuf[i] = es[a + i]
    <3>1. /\ Stretch(es, a, c) \in Seq(TableEntry) /\ Len(Stretch(es, a, c)) = c - a
          /\ \A i \in 1 .. c - a : Stretch(es, a, c)[i] = es[a + i]
      <4>1. es \in Seq(TableEntry) /\ a \in Nat /\ c \in Nat /\ a <= c /\ c <= Len(es)
        BY <1>0, <1>4
      <4>2. QED
        BY ONLY <4>1, StretchIs
    <3>2. QED
      BY <1>5, <3>1
  <2>2. 1 \in 1 .. c - a /\ a + 1 \in 1 .. Len(es)
    BY <1>0, <1>6
  <2>3. QED
    BY <2>1, <2>2
<1>8. BufferSize(blockBuf) \in Nat
  BY <1>7, BufferSizeIsNat
<1>9. PICK r : r = [key |-> blockBuf[1].key, offset |-> blockOffset]
  OBVIOUS
<1>10. r \in [key : Nat, offset : Nat] /\ r.key = es[a + 1].key /\ r.offset = offset
  BY <1>2, <1>5, <1>7, <1>9 DEF TableEntry
<1>11. /\ file' = [o \in DOMAIN file \cup {offset} |-> IF o = offset THEN blockBuf ELSE file[o]]
       /\ index' = Append(index, r)
       /\ offset' = offset + 1 + BufferSize(blockBuf)
  BY <1>9 DEF FlushBlock
<1>12. /\ index' \in Seq([key : Nat, offset : Nat]) /\ Len(index') = n + 1 /\ index'[n + 1] = r
       /\ \A i \in 1 .. n : index'[i] = index[i]
  BY <1>1, <1>2, <1>10, <1>11, AppendProperties
<1>13. offset' \in Nat /\ offset < offset'
  BY <1>2, <1>8, <1>11
<1>14. PICK cut2 : cut2 = [i \in 1 .. (n + 1) + 1 |-> IF i = (n + 1) + 1 THEN c ELSE cut[i]]
  OBVIOUS
<1>15. \A i \in 1 .. (n + 1) + 1 : i = (n + 1) + 1 \/ i \in 1 .. n + 1
  OBVIOUS
<1>16. /\ cut2[(n + 1) + 1] = c /\ \A i \in 1 .. n + 1 : cut2[i] = cut[i] /\ i # (n + 1) + 1
  BY <1>14
<1>17. cut2 \in [1 .. (n + 1) + 1 -> Nat] /\ cut2[1] = 0
  BY <1>0, <1>2, <1>14, <1>15, <1>16
<1>18. \A i \in 1 .. (n + 1) + 1 : cut2[i] <= c
  BY <1>0, <1>2, <1>15, <1>16
<1>19. ASSUME NEW i \in 1 .. (n + 1) + 1, NEW j \in 1 .. (n + 1) + 1, i < j PROVE cut2[i] < cut2[j]
  <2>1. i \in 1 .. n + 1
    BY <1>19
  <2>2. CASE j \in 1 .. n + 1
    BY <1>2, <1>16, <1>19, <2>1, <2>2
  <2>3. CASE j = (n + 1) + 1
    <3>1. cut[i] <= a
      <4>1. n + 1 \in 1 .. n + 1 /\ (i = n + 1 \/ i < n + 1)
        BY <2>1
      <4>2. cut[i] \in Nat /\ (i < n + 1 => cut[i] < a)
        BY <1>2, <1>4, <2>1, <4>1
      <4>3. QED
        BY <1>4, <4>1, <4>2
    <3>2. QED
      BY <1>0, <1>2, <1>6, <1>16, <2>1, <2>3, <3>1
  <2>4. QED
    BY <1>15, <2>2, <2>3
<1>20. ASSUME NEW i \in 1 .. n + 1
       PROVE  /\ index'[i].key = es[cut2[i] + 1].key
              /\ index'[i].offset \in DOMAIN file' /\ index'[i].offset < offset'
              /\ file'[index'[i].offset] = Stretch(es, cut2[i], cut2[i + 1])
  <2>1. CASE i = n + 1
    <3>1. n + 1 \in 1 .. n + 1 /\ cut2[i] = a /\ cut2[i + 1] = c /\ index'[i] = r
      BY <1>4, <1>12, <1>16, <2>1
    <3>2. offset \in DOMAIN file' /\ file'[offset] = blockBuf
      BY <1>11
    <3>3. QED
      BY <1>5, <1>10, <1>13, <3>1, <3>2
  <2>2. CASE i # n + 1
    <3>1. i \in 1 .. n /\ i + 1 \in 1 .. n + 1 /\ i \in 1 .. n + 1
      BY <2>2
    <3>2. cut2[i] = cut[i] /\ cut2[i + 1] = cut[i + 1] /\ index'[i] = index[i]
      BY <1>12, <1>16, <3>1
    <3>3. index[i].offset \in Nat
      <4>1. index[i] \in [key : Nat, offset : Nat]
        BY <1>1, <1>2, <3>1, ElementOfSeq
      <4>2. QED
        BY <4>1
    <3>4. index[i].offset \in DOMAIN file /\ index[i].offset < offset /\ index[i].offset # offset
      <4>1. PICK o \in Nat : o = index[i].offset
        BY <3>3
      <4>2. o \in DOMAIN file /\ o < offset
        BY <1>3, <3>1, <4>1
      <4>3. o # offset
        BY <1>2, <4>2
      <4>4. QED
        BY <4>1, <4>2, <4>3
    <3>5. index[i].offset \in DOMAIN file' /\ file'[index[i].offset] = file[index[i].offset]
      BY <1>11, <3>4
    <3>6. index[i].offset < offset'
      <4>1. PICK o \in Nat : o = index[i].offset
        BY <3>3
      <4>2. o < offset
        BY <3>4, <4>1
      <4>3. o < offset'
        BY <1>2, <1>13, <4>2
      <4>4. QED
        BY <4>1, <4>3
    <3>7. QED
      BY <1>3, <3>1, <3>2, <3>5, <3>6
  <2>3. QED
    BY <2>1, <2>2
<1>21. BlocksInv(es, cut2, c)'
  <2>1. c \in 0 .. Len(es)
    BY <1>0
  <2>2. QED
    BY <1>12, <1>13, <1>17, <1>18, <1>19, <1>20, <2>1 DEF BlocksInv
<1>22. QED
  BY <1>12, <1>16, <1>21

\* The frozen list is scanned as before.
LEMMA KeysStay ==
    ASSUME NEW ks, NEW es, KeysInv(ks, es), UNCHANGED <<forward, listLevel, nodeEntries>>
    PROVE  KeysInv(ks, es)'
<1>1. Scanned(1)' = Scanned(1)
  BY DEF Scanned, NextNode, Predecessors, WalkTo
<1>2. QED
  BY <1>1 DEF KeysInv

\* More may have been added than is written.
LEMMA MoreIsAdded ==
    ASSUME NEW es, NEW cut, NEW c, BlocksInv(es, cut, c), NEW d \in 0 .. Len(es), c <= d
    PROVE  BlocksInv(es, cut, d)
<1>1. Len(es) \in Nat /\ c \in Nat /\ d \in Nat
  <2>1. c \in 0 .. Len(es)
    BY DEF BlocksInv
  <2>2. QED
    BY <2>1
<1>2. \A i \in 1 .. Len(index) + 1 : cut[i] \in Nat /\ cut[i] <= c
  BY DEF BlocksInv
<1>3. \A i \in 1 .. Len(index) + 1 : cut[i] <= d
  BY <1>1, <1>2
<1>4. QED
  BY <1>3 DEF BlocksInv

\* The filter and the range take a key in and keep the others.
LEMMA FilterStep ==
    ASSUME NEW ks, NEW S \in SUBSET ListKey, Ascending(ks, S), NEW c \in Nat, c < Len(ks), FilterInv(ks, c),
           NEW k, k = ks[c + 1], NEW h \in Nat \X Nat,
           bitset' = bitset \cup Bits(h), hash128' = [hash128 EXCEPT ![k] = h],
           minKey' = IF minKey = 0 \/ k < minKey THEN k ELSE minKey,
           maxKey' = IF k > maxKey THEN k ELSE maxKey
    PROVE  FilterInv(ks, c + 1)'
<1>1. PICK n \in Nat : n = Len(ks)
  BY DEF Ascending
<1>2. /\ \A i \in 1 .. n : ks[i] \in S /\ ks[i] \in Nat
      /\ \A i, j \in 1 .. n : i < j => ks[i] < ks[j]
  BY <1>1 DEF Ascending
<1>3. c + 1 \in 1 .. n /\ \A j \in 1 .. c : j \in 1 .. n /\ j < c + 1
  BY <1>1
<1>4. k \in ListKey /\ k \in Nat /\ k # 0 /\ \A j \in 1 .. c : ks[j] # k /\ ks[j] \in ListKey /\ ks[j] \in Nat
  <2>1. \A x \in ListKey : x \in Nat /\ x # 0
    BY SkipListAssumption DEF ListKey
  <2>2. \A j \in 1 .. c : ks[j] < k /\ ks[j] \in Nat /\ ks[j] \in ListKey
    BY <1>2, <1>3
  <2>3. QED
    BY <1>2, <1>3, <2>1, <2>2
<1>5. /\ hash128 \in [ListKey -> Nat \X Nat] /\ minKey \in Nat /\ maxKey \in Nat /\ (minKey = 0 => c = 0)
      /\ \A j \in 1 .. c : Bits(hash128[ks[j]]) \subseteq bitset /\ minKey <= ks[j] /\ ks[j] <= maxKey
  BY DEF FilterInv
<1>6. /\ hash128' \in [ListKey -> Nat \X Nat] /\ hash128'[k] = h
      /\ \A j \in 1 .. c : hash128'[ks[j]] = hash128[ks[j]]
  BY <1>4, <1>5
<1>7. minKey' \in Nat /\ maxKey' \in Nat /\ minKey' # 0 /\ minKey' <= k /\ k <= maxKey' /\ maxKey <= maxKey'
  BY <1>4, <1>5
<1>8. \A j \in 1 .. c : minKey' <= ks[j] /\ ks[j] <= maxKey'
  <2>1. ASSUME NEW j \in 1 .. c PROVE minKey' <= minKey
    <3>1. minKey # 0
      BY <1>5
    <3>2. QED
      BY <1>4, <1>5, <3>1
  <2>2. ASSUME NEW j \in 1 .. c PROVE minKey' <= ks[j] /\ ks[j] <= maxKey'
    <3>1. minKey' <= minKey /\ minKey <= ks[j] /\ ks[j] <= maxKey /\ ks[j] \in Nat
      BY <1>4, <1>5, <2>1
    <3>2. QED
      BY <1>5, <1>7, <3>1, SMTT(30)
  <2>3. QED
    BY <2>2
<1>9. ASSUME NEW j \in 1 .. c + 1
      PROVE  Bits(hash128'[ks[j]]) \subseteq bitset' /\ minKey' <= ks[j] /\ ks[j] <= maxKey'
  <2>1. CASE j = c + 1
    <3>1. Bits(hash128'[ks[j]]) = Bits(h) /\ ks[j] = k
      BY <1>6, <2>1
    <3>2. QED
      BY <1>7, <3>1
  <2>2. CASE j # c + 1
    <3>1. j \in 1 .. c
      BY <2>2
    <3>2. Bits(hash128'[ks[j]]) = Bits(hash128[ks[j]])
      BY <1>6, <3>1
    <3>3. Bits(hash128'[ks[j]]) \subseteq bitset'
      BY <1>5, <3>1, <3>2
    <3>4. QED
      BY <1>8, <3>1, <3>3
  <2>3. QED
    BY <2>1, <2>2
<1>10. QED
  BY <1>6, <1>7, <1>9 DEF FilterInv

\* Add: the entry is added to the block, or begins the next one.
LEMMA AddKeepsWriter ==
    ASSUME NEW ks, NEW S \in SUBSET ListKey, Ascending(ks, S), NEW es, NEW cut, NEW c, WriterInv(ks, es, cut, c),
           NEW h \in Nat \X Nat, AddEntry(h)
    PROVE  \E cut2 : WriterInv(ks, es, cut2, c + 1)'
<1>1. PICK n \in Nat : n = Len(ks) /\ n = Len(es) /\ c \in 0 .. n
  BY DEF Ascending, WriterInv, KeysInv, BlocksInv
<1>2. ks \in Seq(Nat) /\ es \in Seq(TableEntry) /\ \A i \in 1 .. n : es[i].key = ks[i] /\ es[i].value = nodeEntries[ks[i]]
  BY <1>1 DEF Ascending, WriterInv, KeysInv
<1>3. c \in Nat /\ c < n
  <2>1. c \in Nat /\ c <= n
    BY <1>1
  <2>2. toAdd = Stretch(ks, c, n) /\ toAdd # <<>>
    BY <1>1 DEF WriterInv, AddEntry
  <2>3. c # n
    <3>1. ks \in Seq(Nat) /\ c \in Nat /\ n \in Nat /\ c <= n /\ n <= Len(ks)
      BY <1>1, <1>2, <2>1
    <3>2. Stretch(ks, c, n) = <<>> <=> c = n
      BY ONLY <3>1, StretchEmpty
    <3>3. QED
      BY <2>2, <3>2
  <2>4. QED
    BY <1>1, <2>1, <2>3
<1>4. Head(toAdd) = ks[c + 1] /\ Tail(toAdd) = Stretch(ks, c + 1, n)
  <2>1. toAdd = Stretch(ks, c, n)
    BY <1>1 DEF WriterInv
  <2>2. ks \in Seq(Nat) /\ c \in Nat /\ n \in Nat /\ c < n /\ n <= Len(ks)
    BY <1>1, <1>2, <1>3
  <2>3. Head(Stretch(ks, c, n)) = ks[c + 1] /\ Tail(Stretch(ks, c, n)) = Stretch(ks, c + 1, n)
    BY ONLY <2>2, StretchTail
  <2>4. QED
    BY <2>1, <2>3
<1>5. c + 1 \in 1 .. n /\ c + 1 \in Nat /\ c + 1 \in 0 .. n /\ c <= c + 1
  BY <1>3
<1>6. PICK e : e = [key |-> Head(toAdd), value |-> nodeEntries[Head(toAdd)]]
  OBVIOUS
<1>7. e = es[c + 1] /\ e.key = ks[c + 1]
  <2>1. es[c + 1] \in TableEntry /\ es[c + 1].key = ks[c + 1] /\ es[c + 1].value = nodeEntries[ks[c + 1]]
    BY <1>1, <1>2, <1>5, ElementOfSeq
  <2>2. e = [key |-> ks[c + 1], value |-> nodeEntries[ks[c + 1]]]
    BY <1>4, <1>6
  <2>3. es[c + 1] = [key |-> es[c + 1].key, value |-> es[c + 1].value]
    BY <2>1 DEF TableEntry
  <2>4. QED
    BY <2>1, <2>2, <2>3
<1>8. PICK full \in BOOLEAN :
         /\ FlushBlock(full) /\ (full => blockBuf # <<>>)
         /\ blockOffset' = IF full \/ blockBuf = <<>> THEN offset' ELSE blockOffset
         /\ blockBuf' = IF full THEN <<e>> ELSE Append(blockBuf, e)
  BY <1>6 DEF AddEntry
<1>9. /\ toAdd' = Tail(toAdd) /\ UNCHANGED <<forward, listLevel, nodeEntries, finished>>
      /\ bitset' = bitset \cup Bits(h) /\ hash128' = [hash128 EXCEPT ![e.key] = h]
      /\ minKey' = IF minKey = 0 \/ e.key < minKey THEN e.key ELSE minKey
      /\ maxKey' = IF e.key > maxKey THEN e.key ELSE maxKey
  BY <1>6 DEF AddEntry, listVars
<1>10. KeysInv(ks, es)'
  BY <1>9, KeysStay DEF WriterInv
<1>11. FilterInv(ks, c + 1)'
  <2>1. FilterInv(ks, c) /\ c < Len(ks)
    BY <1>1, <1>3 DEF WriterInv
  <2>2. QED
    BY <1>3, <1>7, <1>9, <2>1, FilterStep
<1>12. ~finished'
  BY <1>1, <1>3, <1>9 DEF WriterInv
<1>13. toAdd' = Stretch(ks, c + 1, Len(ks))
  BY <1>1, <1>4, <1>9
<1>14. PICK a \in Nat : a = cut[Len(index) + 1] /\ a <= c
  <2>1. Len(index) \in Nat /\ Len(index) + 1 \in 1 .. Len(index) + 1
    BY DEF WriterInv, BlocksInv
  <2>2. QED
    BY <2>1 DEF WriterInv, BlocksInv
<1>15. blockBuf = Stretch(es, a, c) /\ (blockBuf # <<>> => blockOffset = offset)
  BY <1>14 DEF WriterInv, BufferInv
<1>16. \E cut2 : BlocksInv(es, cut2, c + 1)' /\ BufferInv(es, cut2, c + 1)'
  <2>1. CASE full
    <3>1. FlushBlock(TRUE) /\ blockBuf # <<>>
      BY <1>8, <2>1
    <3>2. PICK cut2 : BlocksInv(es, cut2, c)' /\ cut2[Len(index') + 1] = c
      BY <1>2, <3>1, FlushKeepsBlocks DEF WriterInv
    <3>3. BlocksInv(es, cut2, c + 1)'
      <4>1. c + 1 \in 0 .. Len(es)
        BY <1>1, <1>5
      <4>2. QED
        <5>1. \A i \in 1 .. Len(index') + 1 : cut2[i] \in Nat /\ cut2[i] <= c
          BY <3>2 DEF BlocksInv
        <5>2. \A i \in 1 .. Len(index') + 1 : cut2[i] <= c + 1
          BY <1>3, <5>1
        <5>3. QED
          BY <3>2, <4>1, <5>2 DEF BlocksInv
    <3>4. <<e>> = Stretch(es, c, c + 1)
      <4>1. \A i \in 1 .. (c + 1) - c : i = 1
        BY <1>3
      <4>2. (c + 1) - c = 1
        BY <1>3
      <4>3. QED
        BY <1>7, <4>1, <4>2 DEF Stretch
    <3>5. BufferInv(es, cut2, c + 1)'
      BY <1>8, <2>1, <3>2, <3>4 DEF BufferInv
    <3>6. QED
      BY <3>3, <3>5
  <2>2. CASE ~full
    <3>1. UNCHANGED <<file, index, offset>>
      BY <1>8, <2>2 DEF FlushBlock
    <3>2. BlocksInv(es, cut, c + 1)'
      <4>1. BlocksInv(es, cut, c) /\ c + 1 \in 0 .. Len(es)
        BY <1>1, <1>5 DEF WriterInv
      <4>2. BlocksInv(es, cut, c + 1)
        BY <1>5, <4>1, MoreIsAdded
      <4>3. QED
        BY <3>1, <4>2 DEF BlocksInv
    <3>3. Append(blockBuf, e) = Stretch(es, a, c + 1)
      <4>1. es \in Seq(TableEntry) /\ a \in Nat /\ c \in Nat /\ a <= c /\ c < Len(es)
        BY <1>1, <1>2, <1>3, <1>14
      <4>2. Append(Stretch(es, a, c), es[c + 1]) = Stretch(es, a, c + 1)
        BY ONLY <4>1, StretchAppend
      <4>3. QED
        BY <1>7, <1>15, <4>2
    <3>4. blockOffset' = offset'
      BY <1>8, <1>15, <2>2, <3>1
    <3>5. BufferInv(es, cut, c + 1)'
      BY <1>8, <1>14, <2>2, <3>1, <3>3, <3>4 DEF BufferInv
    <3>6. QED
      BY <3>2, <3>5
  <2>3. QED
    BY <2>1, <2>2
<1>17. QED
  BY <1>10, <1>11, <1>12, <1>13, <1>16 DEF WriterInv

\* Finish: the last block is written.
LEMMA FinishKeepsWriter ==
    ASSUME NEW ks, NEW S \in SUBSET ListKey, Ascending(ks, S), NEW es, NEW cut, NEW c, WriterInv(ks, es, cut, c),
           FinishTable
    PROVE  \E cut2 : WriterInv(ks, es, cut2, c)'
<1>1. PICK n \in Nat : n = Len(ks) /\ n = Len(es) /\ c \in 0 .. n
  BY DEF Ascending, WriterInv, KeysInv, BlocksInv
<1>2. ks \in Seq(Nat) /\ es \in Seq(TableEntry) /\ c \in Nat /\ c <= n
  BY <1>1 DEF Ascending, WriterInv, KeysInv
<1>3. c = n
  <2>1. toAdd = Stretch(ks, c, n) /\ toAdd = <<>>
    BY <1>1 DEF WriterInv, FinishTable
  <2>2. ks \in Seq(Nat) /\ c \in Nat /\ n \in Nat /\ c <= n /\ n <= Len(ks)
    BY <1>1, <1>2
  <2>3. Stretch(ks, c, n) = <<>> <=> c = n
    BY ONLY <2>2, StretchEmpty
  <2>4. QED
    BY <2>1, <2>3
<1>4. /\ FlushBlock(TRUE) /\ blockBuf' = <<>> /\ finished' = TRUE
      /\ UNCHANGED <<forward, listLevel, nodeEntries, toAdd, bitset, hash128, minKey, maxKey>>
  BY DEF FinishTable, listVars
<1>5. KeysInv(ks, es)'
  BY <1>4, KeysStay DEF WriterInv
<1>6. FilterInv(ks, c)'
  <2>1. FilterInv(ks, c)
    BY DEF WriterInv
  <2>2. QED
    BY <1>4, <2>1 DEF FilterInv
<1>7. toAdd' = Stretch(ks, c, Len(ks))
  BY <1>4 DEF WriterInv
<1>8. PICK a \in Nat : a = cut[Len(index) + 1] /\ a <= c
  <2>1. Len(index) \in Nat /\ Len(index) + 1 \in 1 .. Len(index) + 1
    BY DEF WriterInv, BlocksInv
  <2>2. QED
    BY <2>1 DEF WriterInv, BlocksInv
<1>9. \E cut2 : BlocksInv(es, cut2, c)' /\ cut2[Len(index') + 1] = c
  <2>1. CASE blockBuf # <<>>
    BY <1>2, <1>4, <2>1, FlushKeepsBlocks DEF WriterInv
  <2>2. CASE blockBuf = <<>>
    <3>1. UNCHANGED <<file, index, offset>>
      BY <1>4, <2>2 DEF FlushBlock
    <3>2. a = c
      <4>1. es \in Seq(TableEntry) /\ a \in Nat /\ c \in Nat /\ a <= c /\ c <= Len(es)
        BY <1>1, <1>2, <1>8
      <4>2. Stretch(es, a, c) = <<>> <=> a = c
        BY ONLY <4>1, StretchEmpty
      <4>3. QED
        BY <1>8, <2>2, <4>2 DEF WriterInv, BufferInv
    <3>3. BlocksInv(es, cut, c)'
      BY <3>1 DEF WriterInv, BlocksInv
    <3>4. QED
      BY <1>8, <3>1, <3>2, <3>3
  <2>3. QED
    BY <2>1, <2>2
<1>10. PICK cut2 : BlocksInv(es, cut2, c)' /\ cut2[Len(index') + 1] = c
  BY <1>9
<1>11. BufferInv(es, cut2, c)'
  <2>1. es \in Seq(TableEntry) /\ c \in Nat /\ c <= c /\ c <= Len(es)
    BY <1>1, <1>2
  <2>2. Stretch(es, c, c) = <<>>
    BY ONLY <2>1, StretchEmpty
  <2>3. QED
    BY <1>4, <1>10, <2>2 DEF BufferInv
<1>12. QED
  BY <1>1, <1>3, <1>5, <1>6, <1>7, <1>10, <1>11 DEF WriterInv

\* A writer that has nothing yet.
LEMMA StartMakesWriter ==
    ASSUME NEW lv, ListInv(lv), NotStarted, StartTable
    PROVE  \E ks, es, cut, c : WriterInv(ks, es, cut, c)'
<1>1. PICK ks : ks = Scanned(1)
  OBVIOUS
<1>2. Ascending(ks, {k \in Nodes(lv, 1) : k >= 1})
  <2>1. 1 \in ListKey
    BY SkipListAssumption DEF ListKey
  <2>2. QED
    BY <1>1, <2>1, ScannedIs
<1>3. PICK n \in Nat : n = Len(ks)
  BY <1>2 DEF Ascending
<1>4. ks \in Seq(Nat) /\ \A i \in 1 .. n : ks[i] \in ListKey /\ ks[i] \in Nat
  <2>1. \A i \in 1 .. n : ks[i] \in Nodes(lv, 1)
    BY <1>2, <1>3 DEF Ascending
  <2>2. QED
    BY <1>2, <2>1, <1>3 DEF Ascending, Nodes
<1>5. \A k \in ListKey : nodeEntries[k] \in Nat
  BY SkipListAssumption DEF ListInv
<1>6. PICK es : es = [i \in 1 .. n |-> [key |-> ks[i], value |-> nodeEntries[ks[i]]]]
  OBVIOUS
<1>7. es \in [1 .. n -> TableEntry]
  BY <1>4, <1>5, <1>6 DEF TableEntry
<1>8. es \in Seq(TableEntry) /\ Len(es) = n
  BY ONLY <1>7
<1>9. \A i \in 1 .. n : es[i].key = ks[i] /\ es[i].value = nodeEntries[ks[i]]
  BY <1>6
<1>10. UNCHANGED <<forward, listLevel, nodeEntries, offset, blockOffset, blockBuf, file, index, bitset, hash128,
                   minKey, maxKey, finished>> /\ toAdd' = ks
  BY <1>1 DEF StartTable
<1>11. KeysInv(ks, es)'
  <2>1. KeysInv(ks, es)
    BY <1>1, <1>3, <1>8, <1>9 DEF KeysInv
  <2>2. QED
    BY <1>10, <2>1, KeysStay
<1>12. PICK cut : cut = [i \in 1 .. 1 |-> 0]
  OBVIOUS
<1>13. 0 \in 0 .. Len(es) /\ 1 \in 1 .. 1 /\ (\A i \in 1 .. 1 : i = 1) /\ 1 .. 0 = {} /\ 0 + 1 = 1
  BY <1>8
<1>14. index' = <<>> /\ index' \in Seq([key : Nat, offset : Nat]) /\ Len(index') = 0
  BY <1>10 DEF NotStarted
<1>15. BlocksInv(es, cut, 0)'
  <2>1. cut \in [1 .. Len(index') + 1 -> Nat] /\ cut[1] = 0 /\ \A i \in 1 .. Len(index') + 1 : i = 1 /\ cut[i] = 0
    BY <1>12, <1>13, <1>14
  <2>2. \A i, j \in 1 .. Len(index') + 1 : ~ (i < j)
    BY <2>1
  <2>3. offset' \in Nat
    BY <1>10 DEF NotStarted
  <2>4. QED
    BY <1>13, <1>14, <2>1, <2>2, <2>3 DEF BlocksInv
<1>16. BufferInv(es, cut, 0)'
  <2>1. es \in Seq(TableEntry) /\ 0 \in Nat /\ 0 <= 0 /\ 0 <= Len(es)
    BY <1>8
  <2>2. Stretch(es, 0, 0) = <<>>
    BY ONLY <2>1, StretchEmpty
  <2>3. blockBuf' = <<>> /\ cut[Len(index') + 1] = 0
    BY <1>10, <1>12, <1>13, <1>14 DEF NotStarted
  <2>4. QED
    BY <2>2, <2>3 DEF BufferInv
<1>17. FilterInv(ks, 0)'
  BY <1>10, <1>13 DEF NotStarted, FilterInv
<1>18. toAdd' = Stretch(ks, 0, Len(ks))
  BY <1>4, <1>10, StretchAll
<1>19. ~finished'
  BY <1>10 DEF NotStarted
<1>20. WriterInv(ks, es, cut, 0)'
  BY <1>11, <1>15, <1>16, <1>17, <1>18, <1>19 DEF WriterInv
<1>21. QED
  BY <1>20

\* An index leads to the block of a key.
LEMMA WriterFinds ==
    ASSUME NEW ks, NEW S \in SUBSET ListKey, Ascending(ks, S), NEW es, NEW cut, NEW c, WriterInv(ks, es, cut, c),
           finished, NEW key \in S
    PROVE  MightContain(key) /\ Find(key) = {nodeEntries[key]}
<1>1. PICK n \in Nat : n = Len(ks) /\ n = Len(es)
  BY DEF Ascending, WriterInv, KeysInv
<1>2. c = n /\ es \in Seq(TableEntry)
  BY <1>1 DEF WriterInv, KeysInv
<1>3. PICK m \in Nat : m = Len(index)
  BY DEF WriterInv, BlocksInv
<1>4. /\ \A i \in 1 .. n : ks[i] \in Nat
      /\ \A i, j \in 1 .. n : i < j => ks[i] < ks[j]
  <2>1. ks \in Seq(Nat) /\ \A i, j \in 1 .. Len(ks) : i < j => ks[i] < ks[j]
    BY DEF Ascending
  <2>2. \A i \in 1 .. n : ks[i] \in Nat
    BY <1>1, <2>1, ElementOfSeq
  <2>3. QED
    BY <1>1, <2>1, <2>2
<1>5. PICK j \in 1 .. n : ks[j] = key
  <2>1. key \in {ks[i] : i \in 1 .. Len(ks)}
    BY DEF Ascending
  <2>2. QED
    BY <1>1, <2>1
<1>6. MightContain(key)
  BY <1>2, <1>5 DEF WriterInv, FilterInv, MightContain, FilterContains
<1>7. /\ \A i \in 1 .. m + 1 : cut[i] \in Nat /\ cut[i] <= n
      /\ \A i, l \in 1 .. m + 1 : i < l => cut[i] < cut[l]
      /\ cut[1] = 0 /\ cut[m + 1] = n
  BY <1>1, <1>2, <1>3 DEF WriterInv, BlocksInv
<1>8. \A i \in 1 .. m : /\ index[i].key = es[cut[i] + 1].key
                        /\ index[i].offset \in DOMAIN file
                        /\ file[index[i].offset] = Stretch(es, cut[i], cut[i + 1])
  BY <1>3 DEF WriterInv, BlocksInv
<1>9. \A i \in 1 .. n : es[i].key = ks[i] /\ es[i].value = nodeEntries[ks[i]]
  BY <1>1 DEF WriterInv, KeysInv
<1>10. ASSUME NEW i \in 1 .. m PROVE /\ index[i].key <= key <=> cut[i] < j
                                     /\ i + 1 \in 1 .. m + 1 /\ i \in 1 .. m + 1 /\ cut[i] < cut[i + 1]
  <2>1. i + 1 \in 1 .. m + 1 /\ i \in 1 .. m + 1 /\ i < i + 1
    OBVIOUS
  <2>2. cut[i] < cut[i + 1] /\ cut[i + 1] <= n /\ cut[i] \in Nat /\ cut[i + 1] \in Nat
    BY <1>7, <2>1
  <2>3. PICK x \in 1 .. n : x = cut[i] + 1
    BY <2>2
  <2>4. index[i].key = ks[x]
    BY <1>8, <1>9, <2>3
  <2>5. ks[x] <= ks[j] <=> x <= j
    <3>1. x < j \/ x = j \/ j < x
      OBVIOUS
    <3>2. (x < j => ks[x] < ks[j]) /\ (j < x => ks[j] < ks[x]) /\ ks[x] \in Nat /\ ks[j] \in Nat
      BY <1>4
    <3>3. QED
      BY <3>1, <3>2
  <2>6. QED
    BY <1>5, <2>1, <2>2, <2>3, <2>4, <2>5
<1>11. PICK T : T = {i \in 1 .. m : cut[i] < j}
  OBVIOUS
<1>12. 1 \in T
  <2>1. m # 0
    BY <1>7
  <2>2. QED
    BY <1>7, <1>11, <2>1
<1>13. PICK b \in T : \A i \in T : i <= b
  <2>1. T \in SUBSET (0 .. m)
    BY <1>11
  <2>2. QED
    BY <1>12, <2>1, NatMax
<1>14. b \in 1 .. m /\ cut[b] < j
  BY <1>11
<1>15. j <= cut[b + 1]
  <2>1. CASE b = m
    BY <1>7, <2>1
  <2>2. CASE b # m
    <3>1. b + 1 \in 1 .. m /\ ~ (b + 1 <= b) /\ b + 1 \in 1 .. m + 1
      BY <1>14, <2>2
    <3>2. b + 1 \notin T
      BY <1>13, <3>1
    <3>3. ~ (cut[b + 1] < j) /\ cut[b + 1] \in Nat
      BY <1>7, <1>11, <3>1, <3>2
    <3>4. QED
      BY <3>3
  <2>3. QED
    BY <2>1, <2>2
<1>16. {i \in DOMAIN index : index[i].key <= key} = 1 .. b
  <2>1. DOMAIN index = 1 .. m
    BY <1>3 DEF WriterInv, BlocksInv
  <2>2. ASSUME NEW i \in 1 .. m, index[i].key <= key PROVE i \in 1 .. b
    <3>1. i \in T
      BY <1>10, <1>11, <2>2
    <3>2. QED
      BY <1>13, <1>14, <3>1
  <2>3. ASSUME NEW i \in 1 .. b PROVE i \in 1 .. m /\ index[i].key <= key
    <3>1. i \in 1 .. m /\ i \in 1 .. m + 1 /\ b \in 1 .. m + 1 /\ (i = b \/ i < b)
      BY <1>14
    <3>2. cut[i] < j
      <4>1. i < b => cut[i] < cut[b]
        BY <1>7, <3>1
      <4>2. cut[i] \in Nat /\ cut[b] \in Nat
        BY <1>7, <3>1
      <4>3. QED
        BY <1>14, <3>1, <4>1, <4>2
    <3>3. QED
      BY <1>10, <3>1, <3>2
  <2>4. QED
    BY <2>1, <2>2, <2>3
<1>17. FindBlock(key) = b
  <2>1. Cardinality(1 .. b) = b
    <3>1. b \in Nat /\ b >= 1 /\ b \in Int /\ 1 \in Int
      BY <1>14
    <3>2. Cardinality(1 .. b) = IF 1 > b THEN 0 ELSE b - 1 + 1
      BY <3>1, FS_Interval
    <3>3. QED
      BY <3>1, <3>2
  <2>2. QED
    BY <1>16, <2>1 DEF FindBlock
<1>18. PICK block : block = Stretch(es, cut[b], cut[b + 1])
  OBVIOUS
<1>19. ReadBlock(index[b].offset) = block
  BY <1>8, <1>14, <1>18 DEF ReadBlock
<1>20. PICK x \in Nat : x = cut[b]
  BY <1>7, <1>10, <1>14
<1>21. PICK y \in Nat : y = cut[b + 1]
  BY <1>7, <1>10, <1>14
<1>22. x < j /\ j <= y /\ y <= n
  BY <1>7, <1>10, <1>14, <1>15, <1>20, <1>21
<1>23. /\ block \in Seq(TableEntry) /\ Len(block) = y - x
       /\ \A i \in 1 .. y - x : block[i] = es[x + i]
  <2>1. es \in Seq(TableEntry) /\ x <= y /\ y <= Len(es)
    BY <1>1, <1>2, <1>22
  <2>2. block = Stretch(es, x, y)
    BY <1>18, <1>20, <1>21
  <2>3. QED
    BY ONLY <2>1, <2>2, x \in Nat, y \in Nat, StretchIs
<1>24. DOMAIN block = 1 .. y - x
  BY <1>23
<1>25. j - x \in 1 .. y - x /\ x + (j - x) = j
  BY <1>22
<1>26. block[j - x].key = key /\ block[j - x].value = nodeEntries[key]
  BY <1>5, <1>9, <1>23, <1>25
<1>27. ASSUME NEW i \in 1 .. y - x, block[i].key = key PROVE i = j - x
  <2>1. PICK l \in 1 .. n : l = x + i
    BY <1>22
  <2>2. ks[l] = ks[j]
    BY <1>5, <1>9, <1>23, <1>27, <2>1
  <2>3. l = j
    <3>1. l < j \/ l = j \/ j < l
      OBVIOUS
    <3>2. (l < j => ks[l] < ks[j]) /\ (j < l => ks[j] < ks[l]) /\ ks[l] \in Nat /\ ks[j] \in Nat
      BY <1>4
    <3>3. QED
      BY <2>2, <3>1, <3>2
  <2>4. QED
    BY <2>1, <2>3
<1>28. {i \in DOMAIN block : block[i].key = key} = {j - x}
  BY <1>24, <1>25, <1>26, <1>27
<1>29. SearchBlock(block, key) = {nodeEntries[key]}
  BY <1>26, <1>28 DEF SearchBlock
<1>30. b # 0
  BY <1>14
<1>31. QED
  BY <1>6, <1>17, <1>19, <1>29, <1>30 DEF Find

\* The blocks follow one another without a gap.
LEMMA WriterIterates ==
    ASSUME NEW ks, NEW S \in SUBSET ListKey, Ascending(ks, S), NEW es, NEW cut, NEW c, WriterInv(ks, es, cut, c),
           finished
    PROVE  Iterated = es
<1>1. PICK n \in Nat : n = Len(ks) /\ n = Len(es)
  BY DEF Ascending, WriterInv, KeysInv
<1>2. c = n /\ es \in Seq(TableEntry)
  BY <1>1 DEF WriterInv, KeysInv
<1>3. PICK m \in Nat : m = Len(index)
  BY DEF WriterInv, BlocksInv
<1>4. /\ \A i \in 1 .. m + 1 : cut[i] \in Nat /\ cut[i] <= n
      /\ \A i, l \in 1 .. m + 1 : i < l => cut[i] < cut[l]
      /\ cut[1] = 0 /\ cut[m + 1] = n
  BY <1>1, <1>2, <1>3 DEF WriterInv, BlocksInv
<1>5. \A i \in 1 .. m : ReadBlock(index[i].offset) = Stretch(es, cut[i], cut[i + 1])
  BY <1>3 DEF WriterInv, BlocksInv, ReadBlock
<1>6. PICK q : q = [i \in 0 .. m |-> Stretch(es, 0, cut[i + 1])]
  OBVIOUS
<1>7. ASSUME NEW i \in 1 .. m PROVE q[i] = q[i - 1] \o ReadBlock(index[i].offset)
  <2>1. /\ i - 1 \in 0 .. m /\ i \in 0 .. m /\ (i - 1) + 1 = i /\ i \in 1 .. m + 1 /\ i + 1 \in 1 .. m + 1
        /\ i < i + 1
    OBVIOUS
  <2>2. PICK x \in Nat : x = cut[i]
    BY <1>4, <2>1
  <2>3. PICK y \in Nat : y = cut[i + 1]
    BY <1>4, <2>1
  <2>4. x < y /\ y <= n
    BY <1>4, <2>1, <2>2, <2>3
  <2>5. es \in Seq(TableEntry) /\ 0 \in Nat /\ x \in Nat /\ y \in Nat /\ 0 <= x /\ x <= y /\ y <= Len(es)
    BY <1>1, <1>2, <2>4
  <2>6. Stretch(es, 0, x) \o Stretch(es, x, y) = Stretch(es, 0, y)
    BY ONLY <2>5, StretchJoin
  <2>7. q[i] = Stretch(es, 0, y) /\ q[i - 1] = Stretch(es, 0, x)
    BY <1>6, <2>1, <2>2, <2>3
  <2>8. QED
    BY <1>5, <2>2, <2>3, <2>6, <2>7
<1>8. q[0] = <<>>
  <2>1. es \in Seq(TableEntry) /\ 0 \in Nat /\ 0 <= 0 /\ 0 <= Len(es)
    BY <1>1, <1>2
  <2>2. Stretch(es, 0, 0) = <<>>
    BY ONLY <2>1, StretchEmpty
  <2>3. 0 \in 0 .. m /\ 0 + 1 = 1
    OBVIOUS
  <2>4. QED
    BY <1>4, <1>6, <2>2, <2>3
<1>9. q = [i \in 0 .. Len(index) |-> IF i = 0 THEN <<>> ELSE q[i - 1] \o ReadBlock(index[i].offset)]
  <2>1. q = [i \in 0 .. m |-> q[i]]
    BY <1>6
  <2>2. ASSUME NEW i \in 0 .. m PROVE q[i] = IF i = 0 THEN <<>> ELSE q[i - 1] \o ReadBlock(index[i].offset)
    <3>1. i = 0 \/ i \in 1 .. m
      OBVIOUS
    <3>2. QED
      BY <1>7, <1>8, <3>1
  <2>3. QED
    BY <1>3, <2>1, <2>2
<1>10. PICK upTo : upTo = CHOOSE f : f = [i \in 0 .. Len(index) |->
                                            IF i = 0 THEN <<>> ELSE f[i - 1] \o ReadBlock(index[i].offset)]
  OBVIOUS
<1>11. upTo = [i \in 0 .. Len(index) |-> IF i = 0 THEN <<>> ELSE upTo[i - 1] \o ReadBlock(index[i].offset)]
  BY <1>9, <1>10
<1>12. \A i \in 0 .. m : upTo[i] = IF i = 0 THEN <<>> ELSE upTo[i - 1] \o ReadBlock(index[i].offset)
  BY <1>3, <1>11
<1>13. PICK T : T = {i \in Nat : i <= m => upTo[i] = q[i]}
  OBVIOUS
<1>14. 0 \in T
  BY <1>8, <1>12, <1>13
<1>15. ASSUME NEW i \in Nat, i \in T PROVE i + 1 \in T
  <2>1. SUFFICES ASSUME i + 1 <= m PROVE upTo[i + 1] = q[i + 1]
    BY <1>13
  <2>2. i + 1 \in 0 .. m /\ i + 1 \in 1 .. m /\ i + 1 # 0 /\ (i + 1) - 1 = i /\ upTo[i] = q[i]
    BY <1>13, <1>15, <2>1
  <2>3. upTo[i + 1] = upTo[i] \o ReadBlock(index[i + 1].offset)
    BY <1>12, <2>2
  <2>4. q[i + 1] = q[i] \o ReadBlock(index[i + 1].offset)
    BY <1>7, <2>2
  <2>5. QED
    BY <2>2, <2>3, <2>4
<1>16. m \in T
  BY <1>14, <1>15, SetInduction
<1>17. upTo[m] = q[m]
  BY <1>13, <1>16
<1>18. q[m] = es
  <2>1. m \in 0 .. m
    OBVIOUS
  <2>2. q[m] = Stretch(es, 0, Len(es))
    BY <1>1, <1>4, <1>6, <2>1
  <2>3. QED
    BY <1>2, <2>2, StretchAll
<1>19. QED
  BY <1>3, <1>10, <1>17, <1>18 DEF Iterated

\* The invariant is what TablesAreFaithful needs.
LEMMA TablesInvImplies == ListAndFileInv => TablesAreFaithful
<1>1. SUFFICES ASSUME ListAndFileInv PROVE TablesAreFaithful
  OBVIOUS
<1>2. PICK lv : ListInv(lv)
  BY <1>1 DEF ListAndFileInv
<1>3. FindsWhatWasPut
  BY <1>2, ListFinds
<1>4. ASSUME finished PROVE /\ \A key \in ListKey : contents[key] # Absent => MightContain(key) /\ Find(key) = {contents[key]}
                            /\ Iterated = [i \in DOMAIN Scanned(1) |-> [key |-> Scanned(1)[i], value |-> nodeEntries[Scanned(1)[i]]]]
  <2>1. frozen
    BY <1>1, <1>4 DEF ListAndFileInv, NotStarted
  <2>2. PICK ks, es, cut, c : WriterInv(ks, es, cut, c)
    BY <1>1, <2>1 DEF ListAndFileInv
  <2>3. ks = Scanned(1)
    BY <2>2 DEF WriterInv, KeysInv
  <2>4. PICK S : S = {k \in Nodes(lv, 1) : k >= 1}
    OBVIOUS
  <2>5. Ascending(ks, S) /\ S \in SUBSET ListKey
    <3>1. 1 \in ListKey
      BY SkipListAssumption DEF ListKey
    <3>2. QED
      BY <1>2, <2>3, <2>4, <3>1, ScannedIs DEF Nodes
  <2>6. ASSUME NEW key \in ListKey, contents[key] # Absent PROVE MightContain(key) /\ Find(key) = {contents[key]}
    <3>1. key \in Nodes(lv, 1) /\ contents[key] = nodeEntries[key]
      BY <1>2, <2>6, PutIsNode
    <3>2. key >= 1
      BY SkipListAssumption DEF ListKey
    <3>3. key \in S
      BY <2>4, <3>1, <3>2
    <3>4. MightContain(key) /\ Find(key) = {nodeEntries[key]}
      BY <1>4, <2>2, <2>5, <3>3, WriterFinds
    <3>5. QED
      BY <3>1, <3>4
  <2>7. Iterated = es
    BY <1>4, <2>2, <2>5, WriterIterates
  <2>8. es = [i \in DOMAIN ks |-> [key |-> ks[i], value |-> nodeEntries[ks[i]]]]
    <3>1. PICK n \in Nat : n = Len(ks) /\ n = Len(es)
      BY <2>2, <2>5 DEF Ascending, WriterInv, KeysInv
    <3>2. /\ DOMAIN ks = 1 .. n /\ es \in Seq(TableEntry) /\ DOMAIN es = 1 .. n
          /\ \A i \in 1 .. n : es[i].key = ks[i] /\ es[i].value = nodeEntries[ks[i]]
      BY <2>2, <2>5, <3>1 DEF Ascending, WriterInv, KeysInv
    <3>3. es = [i \in 1 .. n |-> es[i]]
      BY <3>2
    <3>4. ASSUME NEW i \in 1 .. n PROVE es[i] = [key |-> ks[i], value |-> nodeEntries[ks[i]]]
      <4>1. es[i] \in TableEntry
        BY <3>1, <3>2, ElementOfSeq
      <4>2. es[i] = [key |-> es[i].key, value |-> es[i].value]
        BY <4>1 DEF TableEntry
      <4>3. QED
        BY <3>2, <4>2
    <3>5. QED
      BY <3>2, <3>3, <3>4
  <2>9. QED
    BY <2>3, <2>6, <2>7, <2>8
<1>5. QED
  BY <1>3, <1>4 DEF TablesAreFaithful, FlushedIsFound, FlushedIsIterated

LEMMA TablesInitially == SSTableInit => ListAndFileInv
<1>1. SUFFICES ASSUME SSTableInit PROVE ListAndFileInv
  OBVIOUS
<1>2. PICK lv : lv = [k \in ListKey |-> 0]
  OBVIOUS
<1>3. MaxKey \in Nat /\ MaxLevel \in Nat /\ 1 \in 1 .. MaxLevel /\ MaxValue \in Nat /\ Nil \in Nat /\ Nil > 0
      /\ Absent \in Nat /\ 0 \in 0 .. MaxValue
  BY SkipListAssumption DEF Nil, Absent
<1>4. ASSUME NEW i \in 1 .. MaxLevel PROVE Chain(LevelOf(i), Nodes(lv, i))
  <2>1. Nodes(lv, i) = {}
    BY <1>2 DEF Nodes
  <2>2. LevelOf(i) = [n \in 0 .. MaxKey |-> Nil]
    BY <1>1 DEF SSTableInit, SkipListInit, LevelOf, HeadNode
  <2>3. 0 \in 0 .. MaxKey /\ ListKey \subseteq 0 .. MaxKey
    BY <1>3 DEF ListKey
  <2>4. QED
    BY <1>3, <2>1, <2>2, <2>3 DEF Chain
<1>5. ListInv(lv)
  <2>1. lv \in [ListKey -> 0 .. MaxLevel] /\ \A k \in ListKey : lv[k] = 0 /\ lv[k] <= 1
    BY <1>2, <1>3
  <2>2. forward \in [0 .. MaxKey -> [1 .. MaxLevel -> Nat]]
    BY <1>1, <1>3 DEF SSTableInit, SkipListInit, HeadNode
  <2>3. /\ listLevel = 1 /\ nodeEntries \in [ListKey -> 0 .. MaxValue] /\ contents \in [ListKey -> Nat]
        /\ \A k \in ListKey : contents[k] = Absent
    BY <1>1, <1>3 DEF SSTableInit, SkipListInit
  <2>4. QED
    BY <1>3, <1>4, <2>1, <2>2, <2>3 DEF ListInv
<1>6. NotStarted /\ ~frozen
  BY <1>1 DEF SSTableInit, SkipListInit, NotStarted
<1>7. QED
  BY <1>5, <1>6 DEF ListAndFileInv

LEMMA TablesStep == ListAndFileInv /\ [SSTableNext]_sstableVars => ListAndFileInv'
<1>1. SUFFICES ASSUME ListAndFileInv, [SSTableNext]_sstableVars PROVE ListAndFileInv'
  OBVIOUS
<1>2. PICK lv : ListInv(lv)
  BY <1>1 DEF ListAndFileInv
<1>3. ASSUME UNCHANGED <<forward, listLevel, nodeEntries, contents>> PROVE ListInv(lv)'
  BY <1>2, <1>3 DEF ListInv, LevelOf
<1>4. CASE SkipListNext /\ UNCHANGED writerVars
  <2>1. PICK key \in ListKey, newLevel \in 1 .. MaxLevel, value \in 0 .. MaxValue :
           ~frozen /\ Insert(key, value, newLevel)
    BY <1>4, SkipListAssumption DEF SkipListNext, PutKey, DeleteKey
  <2>2. \E lv2 : ListInv(lv2)'
    BY <1>2, <2>1, InsertKeepsList
  <2>3. ~frozen' /\ NotStarted'
    BY <1>1, <1>4, <2>1 DEF Insert, ListAndFileInv, NotStarted, writerVars
  <2>4. QED
    BY <2>2, <2>3 DEF ListAndFileInv
<1>5. CASE StartTable
  <2>1. frozen' /\ ListInv(lv)'
    BY <1>3, <1>5 DEF StartTable
  <2>2. NotStarted
    BY <1>1, <1>5 DEF ListAndFileInv, StartTable
  <2>3. \E ks, es, cut, c : WriterInv(ks, es, cut, c)'
    BY <1>2, <1>5, <2>2, StartMakesWriter
  <2>4. QED
    BY <2>1, <2>3 DEF ListAndFileInv
<1>6. ASSUME NEW ks, NEW es, NEW cut, NEW c, WriterInv(ks, es, cut, c)
      PROVE  Ascending(ks, {k \in Nodes(lv, 1) : k >= 1}) /\ {k \in Nodes(lv, 1) : k >= 1} \in SUBSET ListKey
  <2>1. 1 \in ListKey
    BY SkipListAssumption DEF ListKey
  <2>2. QED
    BY <1>2, <1>6, <2>1, ScannedIs DEF Nodes, WriterInv, KeysInv
<1>7. CASE FinishTable
  <2>1. frozen' /\ frozen /\ ListInv(lv)'
    BY <1>3, <1>7 DEF FinishTable, listVars
  <2>2. PICK ks, es, cut, c : WriterInv(ks, es, cut, c)
    BY <1>1, <2>1 DEF ListAndFileInv
  <2>3. \E cut2 : WriterInv(ks, es, cut2, c)'
    BY <1>6, <1>7, <2>2, FinishKeepsWriter
  <2>4. QED
    BY <2>1, <2>3 DEF ListAndFileInv
<1>8. CASE \E h1, h2 \in 0 .. FilterBits - 1 : AddEntry(<<h1, h2>>)
  <2>1. PICK h \in Nat \X Nat : AddEntry(h)
    BY <1>8, SSTableAssumption
  <2>2. frozen
    BY <1>1, <2>1 DEF ListAndFileInv, NotStarted, AddEntry
  <2>3. frozen' /\ ListInv(lv)'
    BY <1>3, <2>1, <2>2 DEF AddEntry, listVars
  <2>4. PICK ks, es, cut, c : WriterInv(ks, es, cut, c)
    BY <1>1, <2>2 DEF ListAndFileInv
  <2>5. \E cut2 : WriterInv(ks, es, cut2, c + 1)'
    BY <1>6, <2>1, <2>4, AddKeepsWriter
  <2>6. QED
    BY <2>3, <2>5 DEF ListAndFileInv
<1>9. CASE UNCHANGED sstableVars
  <2>1. ListInv(lv)' /\ frozen' = frozen
    BY <1>3, <1>9 DEF sstableVars, listVars
  <2>2. UNCHANGED <<forward, listLevel, nodeEntries, toAdd, offset, blockOffset, blockBuf, file, index, bitset,
                    hash128, minKey, maxKey, finished>>
    BY <1>9 DEF sstableVars, listVars, writerVars
  <2>3. ~frozen => NotStarted'
    BY <1>1, <2>2 DEF ListAndFileInv, NotStarted
  <2>4. ASSUME NEW ks, NEW es, NEW cut, NEW c, WriterInv(ks, es, cut, c) PROVE WriterInv(ks, es, cut, c)'
    <3>1. KeysInv(ks, es)'
      BY <2>2, <2>4, KeysStay DEF WriterInv
    <3>2. QED
      BY <2>2, <2>4, <3>1 DEF WriterInv, BlocksInv, BufferInv, FilterInv
  <2>5. QED
    BY <1>1, <2>1, <2>3, <2>4 DEF ListAndFileInv
<1>10. QED
  BY <1>1, <1>4, <1>5, <1>7, <1>8, <1>9 DEF SSTableNext

\* For any number of keys, levels, values and filter bits and any size of block: Get and
\* Scan of the skip list return what was put, and a flushed table has every entry once
\* and in order, behind a range, a filter and an index that lead to it (SkipList and the
\* writer and reader of pkg/storage/sstable).
THEOREM TablesFaithful == SSTableSpec => []TablesAreFaithful
<1>1. SSTableInit => ListAndFileInv
  BY TablesInitially
<1>2. ListAndFileInv /\ [SSTableNext]_sstableVars => ListAndFileInv'
  BY TablesStep
<1>3. ListAndFileInv => TablesAreFaithful
  BY TablesInvImplies
<1>4. QED
  BY <1>1, <1>2, <1>3, PTL DEF SSTableSpec
=============================================================================
