----------------------------- MODULE MCStorage -----------------------------
(***************************************************************************)
(* Instances of the storage engine for TLC.                                 *)
(***************************************************************************)
EXTENDS Engine

CONSTANTS w1, w2, k1, k2
=============================================================================
