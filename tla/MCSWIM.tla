------------------------------- MODULE MCSWIM -------------------------------
(* Three nodes, of which one is given the other two as its seeds. *)
EXTENDS SWIM

CONSTANTS n1, n2, n3

StarSeeds == [n \in Node |-> IF n = n1 THEN <<n2, n3>> ELSE <<>>]
=============================================================================
