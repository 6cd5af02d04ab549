------------------------------ MODULE HashRing ------------------------------
(***************************************************************************)
(* ConsistentHashRing of pkg/partition: nodes come and go, keys are found   *)
(* clockwise.                                                               *)
(*                                                                         *)
(* What hashKey returns for the virtual nodes of a node is chosen when the  *)
(* node is added for the first time and kept.  The index of a virtual node  *)
(* is not read, so that its positions are taken in ascending order.         *)
(***************************************************************************)
EXTENDS Naturals, Sequences, FiniteSets, TLC

CONSTANTS
    RingNode,
    VirtualNodes,   \* virtual nodes of each node, 150 in the code
    RingSize        \* positions of the ring, 2^32 in the code

VARIABLES
    position,       \* what hashKey returns for the virtual nodes of a node, <<>> if not known
    vnodes,         \* ConsistentHashRing.vnodes
    nodeMap         \* the physical nodes

ringVars == <<position, vnodes, nodeMap>>

HashRingInit ==
    /\ position = [n \in RingNode |-> <<>>]
    /\ vnodes = <<>>
    /\ nodeMap = {}

Positions ==
    {p \in [1 .. VirtualNodes -> 0 .. RingSize - 1] : \A i \in 2 .. VirtualNodes : p[i - 1] <= p[i]}

VirtualNodesOf(n, p) == [i \in 1 .. VirtualNodes |-> [hash |-> p[i], node |-> n]]

\* sort.Slice is not stable: each call may order the nodes that share a position as it likes.
SortedByHash(s, tie) ==
    SortSeq(s, LAMBDA a, b : a.hash < b.hash \/ (a.hash = b.hash /\ tie[a.node] < tie[b.node]))

AddNode(n) ==
    /\ n \notin nodeMap
    /\ \E p \in (IF position[n] = <<>> THEN Positions ELSE {position[n]}),
          tie \in {t \in [RingNode -> 1 .. Cardinality(RingNode)] : \A a, b \in RingNode : t[a] = t[b] => a = b} :
         /\ position' = [position EXCEPT ![n] = p]
         /\ vnodes' = SortedByHash(vnodes \o VirtualNodesOf(n, p), tie)
    /\ nodeMap' = nodeMap \cup {n}

\* Mutant: takes only one virtual node out.
RemoveNodeMutant(n) ==
    LET first == CHOOSE i \in DOMAIN vnodes : vnodes[i].node = n
    IN  /\ n \in nodeMap
        /\ vnodes' = SubSeq(vnodes, 1, first - 1) \o SubSeq(vnodes, first + 1, Len(vnodes))
        /\ nodeMap' = nodeMap \ {n}
        /\ UNCHANGED position

RemoveNode(n) ==
    /\ n \in nodeMap
    /\ vnodes' = SelectSeq(vnodes, LAMBDA v : v.node # n)
    /\ nodeMap' = nodeMap \ {n}
    /\ UNCHANGED position

\* The first virtual node at or behind a position, or the first of all.
SearchRing(ring, hash) ==
    LET behind == {i \in DOMAIN ring : ring[i].hash >= hash}
    IN  IF behind = {} THEN 1 ELSE CHOOSE i \in behind : \A j \in behind : i <= j

\* The distinct nodes of the ring from a key's position on, as many as there are.
GetNodes(ring, hash) ==
    LET start == SearchRing(ring, hash)
        walk == SubSeq(ring, start, Len(ring)) \o SubSeq(ring, 1, start - 1)
        first == SelectSeq([i \in DOMAIN walk |-> i],
                           LAMBDA i : \A j \in 1 .. i - 1 : walk[j].node # walk[i].node)
    IN  [i \in DOMAIN first |-> walk[first[i]].node]

HashRingNext == \E n \in RingNode : AddNode(n) \/ RemoveNode(n)

HashRingSpec == HashRingInit /\ [][HashRingNext]_ringVars

-----------------------------------------------------------------------------
\* Virtual nodes of two nodes at the same position: their order may change with each call.
Collision ==
    \E m, n \in RingNode :
        m # n /\ \E i \in DOMAIN position[m], j \in DOMAIN position[n] : position[m][i] = position[n][j]

\* When a node comes or goes, nothing changes between the other nodes: the replicas of
\* each key (GetNodes), in their order, are the ones from before without the node that
\* left, or get the new node and keep the order of the rest.
RingChangesAreLocal ==
    [][nodeMap' # nodeMap /\ ~Collision' =>
         \A hash \in 0 .. RingSize - 1 :
             SelectSeq(GetNodes(vnodes, hash), LAMBDA n : n \in nodeMap')
                 = SelectSeq(GetNodes(vnodes', hash), LAMBDA n : n \in nodeMap)]_ringVars
=============================================================================
