------------------------------- MODULE MCRaft -------------------------------
(***************************************************************************)
(* Instances of Raft for TLC: three nodes.                             *)
(***************************************************************************)
EXTENDS Raft, TLC

CONSTANTS s1, s2, s3

\* The static cluster of the demo and the tests: everybody knows everybody.
Others == [n \in Server |-> Server \ {n}]

\* Servers: startRaft takes the members alive at that moment.  JoinCluster stops
\* at the first seed that answers and a seed does not learn of the node that
\* joins, so the first server has no peer and every other one has the first.
Seeded == [n \in Server |-> {s1} \ {n}]

Symmetry == Permutations(Server)
=============================================================================
