--------------------------- MODULE AtomicCommit ---------------------------
(***************************************************************************)
(* What a commit coordinator promises for one transaction: a decision is    *)
(* made once, to commit only if every participant voted for it, and every   *)
(* participant is told that decision and no other.                          *)
(***************************************************************************)
CONSTANT Shard

VARIABLES
    votes,      \* "none", "commit" or "abort" of each participant
    decision,   \* "none", "commit" or "abort"
    told        \* the decisions each participant was told

acVars == <<votes, decision, told>>

ACInit ==
    /\ votes = [p \in Shard |-> "none"]
    /\ decision = "none"
    /\ told = [p \in Shard |-> {}]

CastVote(p) ==
    /\ votes[p] = "none"
    /\ \E v \in {"commit", "abort"} : votes' = [votes EXCEPT ![p] = v]
    /\ UNCHANGED <<decision, told>>

Decide(d) ==
    /\ decision = "none"
    /\ d = "commit" => \A p \in Shard : votes[p] = "commit"
    /\ decision' = d
    /\ UNCHANGED <<votes, told>>

Tell(p) ==
    /\ decision # "none"
    /\ told' = [told EXCEPT ![p] = {decision}]
    /\ UNCHANGED <<votes, decision>>

ACNext ==
    \/ \E p \in Shard : CastVote(p) \/ Tell(p)
    \/ \E d \in {"commit", "abort"} : Decide(d)

ACSpec == ACInit /\ [][ACNext]_acVars
=============================================================================
