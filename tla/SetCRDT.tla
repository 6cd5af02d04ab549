------------------------------ MODULE SetCRDT ------------------------------
(***************************************************************************)
(* ORSet of pkg/consistency/crdt.go.  Every replica numbers its tags from   *)
(* one; the number does not name the replica.                               *)
(***************************************************************************)
EXTENDS CounterCRDT, RegisterCRDT

CONSTANTS
    Site,            \* replicas
    Element,
    MaxAdds          \* bound: calls of Add of a replica

ASSUME SetAssumption == MaxAdds \in Nat

Tag == 1 .. MaxAdds

VARIABLES
    nextTag,
    elements,        \* "none", "there" or "removed" for each replica, element and tag
    added,           \* history: the adds that have reached a replica
    cancelled        \* history: the adds that a Remove has seen, where it has reached

setVars == <<nextTag, elements, added, cancelled>>

SetInit ==
    /\ nextTag = [r \in Site |-> 0]
    /\ elements = [r \in Site |-> [e \in Element |-> [t \in Tag |-> "none"]]]
    /\ added = [r \in Site |-> {}]
    /\ cancelled = [r \in Site |-> {}]

SetContains(r, e) == \E t \in Tag : elements[r][e][t] = "there"

Add(r, e) ==
    /\ nextTag[r] < MaxAdds
    /\ nextTag' = [nextTag EXCEPT ![r] = @ + 1]
    /\ elements' = [elements EXCEPT ![r][e][nextTag'[r]] = "there"]
    /\ added' = [added EXCEPT ![r] = @ \cup {<<r, e, nextTag'[r]>>}]
    /\ UNCHANGED cancelled

Remove(r, e) ==
    /\ \E t \in Tag : elements[r][e][t] # "none"
    /\ elements' = [elements EXCEPT ![r][e] = [t \in Tag |-> IF @[t] = "none" THEN "none" ELSE "removed"]]
    /\ cancelled' = [cancelled EXCEPT ![r] = @ \cup {a \in added[r] : a[2] = e}]
    /\ UNCHANGED <<nextTag, added>>

\* Removed if either side has removed it.
MergedTag(mine, other) ==
    IF other = "none" THEN mine
    ELSE IF mine = "none" THEN other
    ELSE IF mine = "removed" \/ other = "removed" THEN "removed" ELSE "there"

MergeSet(r, o) ==
    /\ r # o
    /\ elements' = [elements EXCEPT ![r] =
          [e \in Element |-> [t \in Tag |-> MergedTag(@[e][t], elements[o][e][t])]]]
    /\ added' = [added EXCEPT ![r] = @ \cup added[o]]
    /\ cancelled' = [cancelled EXCEPT ![r] = @ \cup cancelled[o]]
    /\ UNCHANGED nextTag

SetNext ==
    \E r \in Site :
        \/ \E e \in Element : Add(r, e) \/ Remove(r, e)
        \/ \E o \in Site : MergeSet(r, o)

SetSpec == SetInit /\ [][SetNext]_setVars

-----------------------------------------------------------------------------
\* Nothing that was removed comes back by itself: an element is at a replica only if
\* one of the adds the replica knows of was seen by none of the removes it knows of,
\* in spite of tags that several replicas use (Add, Remove, Merge).
RemovedUnlessAdded ==
    \A r \in Site, e \in Element :
        SetContains(r, e) => \E a \in added[r] \ cancelled[r] : a[2] = e

\* A replica of a counter, a register or a set is what the updates it knows of make it,
\* whatever merges brought them: replicas that know the same updates agree (crdt.go).
ReplicasAgree == CountsEachOnce /\ LastWriteWins /\ RemovedUnlessAdded
=============================================================================
