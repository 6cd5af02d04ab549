------------------------------- MODULE SSTable -------------------------------
(***************************************************************************)
(* Writer, Reader and SSTableIterator of pkg/storage/sstable with the Bloom *)
(* filter of pkg/storage/bloom: a frozen skip list is written in blocks and *)
(* found again through key range, filter and block index.                   *)
(*                                                                         *)
(* Sizes are in units of a block header; the file is the function from the  *)
(* offset of each block to its entries.  What hash128 returns for a key is  *)
(* chosen when the key is added.  A failed write or fsync abandons the file *)
(* (Engine).                                                                *)
(***************************************************************************)
EXTENDS SkipList, FiniteSets

CONSTANTS
    BlockSize,          \* bytes of entries in a block
    FilterBits, HashCount   \* BloomFilter.m and k

ASSUME SSTableAssumption == BlockSize \in Nat \ {0} /\ FilterBits \in Nat \ {0} /\ HashCount \in Nat \ {0}

VARIABLES
    toAdd,              \* keys of table.All() that are still to be added
    offset, blockOffset, blockBuf,
    file,               \* the blocks that are written, with their offsets
    index,              \* a sequence of [key, offset]
    bitset, hash128,
    minKey, maxKey,     \* 0 is ""
    finished

writerVars == <<toAdd, offset, blockOffset, blockBuf, file, index, bitset, hash128, minKey, maxKey, finished>>
sstableVars == <<listVars, writerVars>>

SSTableInit ==
    /\ SkipListInit
    /\ toAdd = <<>>
    /\ offset = 0 /\ blockOffset = 0 /\ blockBuf = <<>>
    /\ file = <<>> /\ index = <<>>
    /\ bitset = {} /\ hash128 = [k \in ListKey |-> <<0, 0>>]
    /\ minKey = 0 /\ maxKey = 0
    /\ finished = FALSE

\* flushMemTable: NewWriter, for a table that is not empty.
StartTable ==
    /\ ~frozen /\ Scanned(1) # <<>>
    /\ frozen' = TRUE
    /\ toAdd' = Scanned(1)
    /\ UNCHANGED <<forward, listLevel, nodeEntries, contents, offset, blockOffset, blockBuf, file, index,
                   bitset, hash128, minKey, maxKey, finished>>

\* An entry with an empty value has size 1.
EncodedSize(e) == 1 + e.value

BufferSize(buf) ==
    LET size[i \in 0 .. Len(buf)] == IF i = 0 THEN 0 ELSE size[i - 1] + EncodedSize(buf[i])
    IN  size[Len(buf)]

\* The Bloom filter.
Bits(h) == {(h[1] + i * h[2]) % FilterBits : i \in 0 .. HashCount - 1}

FilterContains(h) == Bits(h) \subseteq bitset

\* flushBlock: the block with its header goes behind what is written, its first key to the index.
FlushBlock(flush) ==
    IF flush /\ blockBuf # <<>>
    THEN /\ file' = [o \in DOMAIN file \cup {offset} |-> IF o = offset THEN blockBuf ELSE file[o]]
         /\ index' = Append(index, [key |-> blockBuf[1].key, offset |-> blockOffset])
         /\ offset' = offset + 1 + BufferSize(blockBuf)
    ELSE UNCHANGED <<file, index, offset>>

\* Writer.Add
AddEntry(h) ==
    LET e == [key |-> Head(toAdd), value |-> nodeEntries[Head(toAdd)]]
        full == BufferSize(blockBuf) + EncodedSize(e) > BlockSize /\ blockBuf # <<>>
    IN  /\ toAdd # <<>> /\ toAdd' = Tail(toAdd)
        /\ FlushBlock(full)
        /\ blockOffset' = IF full \/ blockBuf = <<>> THEN offset' ELSE blockOffset
        /\ blockBuf' = IF full THEN <<e>> ELSE Append(blockBuf, e)
        /\ bitset' = bitset \cup Bits(h)
        /\ hash128' = [hash128 EXCEPT ![e.key] = h]
        /\ minKey' = IF minKey = 0 \/ e.key < minKey THEN e.key ELSE minKey
        /\ maxKey' = IF e.key > maxKey THEN e.key ELSE maxKey
        /\ UNCHANGED <<listVars, finished>>

\* Finish: the last block, then index, filter and footer.
FinishTable ==
    /\ frozen /\ toAdd = <<>> /\ ~finished
    /\ FlushBlock(TRUE)
    /\ blockBuf' = <<>>
    /\ finished' = TRUE
    /\ UNCHANGED <<listVars, toAdd, blockOffset, bitset, hash128, minKey, maxKey>>

\* The meta data that Finish returns; loadMeta reads filter and index back, but no range.
MightContain(key) == minKey <= key /\ key <= maxKey /\ FilterContains(hash128[key])

\* Mutant: a key that begins a block is looked for in the block before.
FindBlockMutant(key) == Cardinality({i \in DOMAIN index : index[i].key < key})

\* The last block that begins at or before the key, 0 if there is none.
FindBlock(key) == Cardinality({i \in DOMAIN index : index[i].key <= key})

\* readBlock fails its checksum for an offset at which no block begins.
ReadBlock(o) == IF o \in DOMAIN file THEN file[o] ELSE <<>>

SearchBlock(block, key) == {block[i].value : i \in {j \in DOMAIN block : block[j].key = key}}

\* Reader.Get behind the key range: the values found, none or one.
Find(key) == IF FindBlock(key) = 0 THEN {} ELSE SearchBlock(ReadBlock(index[FindBlock(key)].offset), key)

\* SSTableIterator: the entries of the blocks, in the order of the index.
Iterated ==
    LET upTo[i \in 0 .. Len(index)] == IF i = 0 THEN <<>> ELSE upTo[i - 1] \o ReadBlock(index[i].offset)
    IN  upTo[Len(index)]

SSTableNext ==
    \/ SkipListNext /\ UNCHANGED writerVars
    \/ StartTable \/ FinishTable
    \/ \E h1, h2 \in 0 .. FilterBits - 1 : AddEntry(<<h1, h2>>)

SSTableSpec == SSTableInit /\ [][SSTableNext]_sstableVars

-----------------------------------------------------------------------------
\* A flushed table has every key of the skip list: the range and the filter of Finish let
\* it through, and the index leads to the block that has its last entry, a tombstone too,
\* wherever the entries filled a block or were larger than one.
FlushedIsFound ==
    finished => \A key \in ListKey :
        contents[key] # Absent => MightContain(key) /\ Find(key) = {contents[key]}

\* The iterator, which Scan and compaction use, returns the entries of the skip list in
\* their order.
FlushedIsIterated ==
    finished => Iterated = [i \in DOMAIN Scanned(1) |-> [key |-> Scanned(1)[i], value |-> nodeEntries[Scanned(1)[i]]]]

\* Nothing is lost between a put and the flushed table: skip list, file and iterator agree.
TablesAreFaithful == FindsWhatWasPut /\ FlushedIsFound /\ FlushedIsIterated
=============================================================================
