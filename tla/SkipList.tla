------------------------------ MODULE SkipList ------------------------------
(***************************************************************************)
(* SkipList of pkg/storage/memtable, the table that writes go to.  The      *)
(* engine holds its lock for writing around Put and Delete and for reading  *)
(* around Get, so that no call sees the moment at which Delete has let the  *)
(* lock of the list go.                                                     *)
(*                                                                         *)
(* Keys are numbers and name their nodes: 0 is the head, Nil no node.  A    *)
(* value is a number, and 0 is the value of a tombstone.                    *)
(***************************************************************************)
EXTENDS Naturals, Sequences

CONSTANTS
    MaxKey,      \* keys are 1 .. MaxKey
    MaxLevel,    \* maxLevel, 12 in the code
    MaxValue     \* values are 1 .. MaxValue

ASSUME SkipListAssumption == MaxKey \in Nat \ {0} /\ MaxLevel \in Nat \ {0} /\ MaxValue \in Nat \ {0}

VARIABLES
    forward,     \* forward[n][i]: the node behind n at level i
    listLevel,   \* SkipList.level
    nodeEntries, \* the entry of each node: its value, 0 for a tombstone
    frozen,      \* the table was frozen and is not written to any more
    contents     \* history: the last value that was put, Absent for a key not written

listVars == <<forward, listLevel, nodeEntries, frozen, contents>>

ListKey == 1 .. MaxKey
HeadNode == 0
Nil == MaxKey + 1
Absent == MaxValue + 1

SkipListInit ==
    /\ forward = [n \in HeadNode .. MaxKey |-> [i \in 1 .. MaxLevel |-> Nil]]
    /\ listLevel = 1
    /\ nodeEntries = [k \in ListKey |-> 0]
    /\ frozen = FALSE
    /\ contents = [k \in ListKey |-> Absent]

\* The last node before a key at one level, from a node on.
WalkTo(from, i, key) ==
    LET walk[n \in HeadNode .. MaxKey] == IF forward[n][i] < key THEN walk[forward[n][i]] ELSE n
    IN  walk[from]

\* `update': the last nodes before a key at each level, found from the top; the head above the top.
Predecessors(key) ==
    LET update[i \in 1 .. MaxLevel] ==
            IF i > listLevel THEN HeadNode
            ELSE WalkTo(IF i = listLevel THEN HeadNode ELSE update[i + 1], i, key)
    IN  update

NextNode(key) == forward[Predecessors(key)[1]][1]

\* A new node takes its place between its neighbours at each of its levels.
Linked(key, newLevel) ==
    [n \in HeadNode .. MaxKey |-> [i \in 1 .. MaxLevel |->
        CASE i <= newLevel /\ n = key -> forward[Predecessors(key)[i]][i]
          [] i <= newLevel /\ n # key /\ Predecessors(key)[i] = n -> key
          [] OTHER -> forward[n][i]]]

\* Put, with the level that randomLevel returns for a new node.
Insert(key, value, newLevel) ==
    /\ nodeEntries' = [nodeEntries EXCEPT ![key] = value]
    /\ IF NextNode(key) = key
       THEN UNCHANGED <<forward, listLevel>>
       ELSE /\ forward' = Linked(key, newLevel)
            /\ listLevel' = IF newLevel > listLevel THEN newLevel ELSE listLevel
    /\ contents' = [contents EXCEPT ![key] = value]
    /\ UNCHANGED frozen

PutKey(key, value, newLevel) ==
    /\ ~frozen
    /\ Insert(key, value, newLevel)

\* Delete replaces the entry, or puts an empty one and then makes it a tombstone.
DeleteKey(key, newLevel) ==
    /\ ~frozen
    /\ Insert(key, 0, newLevel)

GetKey(key) == IF NextNode(key) = key THEN nodeEntries[key] ELSE Absent

\* The nodes in the order in which Scan meets them, from a key on.
Scanned(startKey) ==
    LET rest[n \in HeadNode .. Nil] == IF n = Nil THEN <<>> ELSE <<n>> \o rest[forward[n][1]]
    IN  rest[NextNode(startKey)]

SkipListNext ==
    \E key \in ListKey, newLevel \in 1 .. MaxLevel :
        (\E value \in 1 .. MaxValue : PutKey(key, value, newLevel)) \/ DeleteKey(key, newLevel)

-----------------------------------------------------------------------------
\* Whatever levels the nodes have and in whatever order the keys came, Get returns the
\* last entry of each key and Scan meets the keys from its start on, once and in order.
FindsWhatWasPut ==
    \A key \in ListKey :
        /\ GetKey(key) = contents[key]
        /\ LET found == Scanned(key)
           IN  /\ {found[i] : i \in DOMAIN found} = {k \in ListKey : k >= key /\ contents[k] # Absent}
               /\ \A i, j \in DOMAIN found : i < j => found[i] < found[j]
=============================================================================
