---------------------------- MODULE RegisterCRDT ----------------------------
(***************************************************************************)
(* LWWRegister of pkg/consistency/crdt.go.  A register is written by SetAt, *)
(* with timestamps of skewed clocks, and by Set, whose time.Now is taken to *)
(* be above every timestamp used so far.  Node ids are ordered numbers; the *)
(* empty writer id of a new register is below all of them.                  *)
(***************************************************************************)
EXTENDS Naturals, FiniteSetsExt

CONSTANTS
    Nodes,          \* nodes are 1 .. Nodes
    MaxStamp,       \* bound: highest timestamp
    MaxWrites       \* bound: writes of a behaviour

ASSUME RegisterAssumption == Nodes \in Nat /\ MaxStamp \in Nat /\ MaxWrites \in Nat

RegNode == 1 .. Nodes

VARIABLES
    register,       \* timestamp, writer and value of each node's register
    stored          \* history: the writes that have reached a register
registerVars == <<register, stored>>

Unset == [ts |-> 0, writer |-> 0, value |-> 0]

RegisterInit ==
    /\ register = [n \in RegNode |-> Unset]
    /\ stored = [n \in RegNode |-> {}]

AllWrites == UNION {stored[n] : n \in RegNode}

\* The value of a write is its number.
Store(n, ts) ==
    LET w == [ts |-> ts, writer |-> n, value |-> Cardinality(AllWrites) + 1]
    IN  /\ Cardinality(AllWrites) < MaxWrites
        /\ register' = [register EXCEPT ![n] = w]
        /\ stored' = [stored EXCEPT ![n] = @ \cup {w}]

\* An older write is ignored.
SetAt(n, ts) ==
    /\ ts > register[n].ts \/ (ts = register[n].ts /\ n > register[n].writer)
    /\ Store(n, ts)

\* Set does not look at the timestamp that is there.
SetNow(n) ==
    LET now == Max({w.ts : w \in AllWrites} \cup {0}) + 1
    IN  now <= MaxStamp /\ Store(n, now)

MergeRegister(n, o) ==
    /\ n # o
    /\ register' = [register EXCEPT ![n] =
          IF register[o].ts > @.ts THEN register[o]
          ELSE IF register[o].ts = @.ts /\ register[o].writer > @.writer
          THEN [@ EXCEPT !.value = register[o].value, !.writer = register[o].writer]
          ELSE @]
    /\ stored' = [stored EXCEPT ![n] = @ \cup stored[o]]

RegisterNext ==
    \E n \in RegNode :
        \/ \E ts \in 1 .. MaxStamp : SetAt(n, ts)
        \/ SetNow(n)
        \/ \E o \in RegNode : MergeRegister(n, o)

RegisterSpec == RegisterInit /\ [][RegisterNext]_registerVars

-----------------------------------------------------------------------------
\* A register holds the last of the writes that have reached it, by timestamp and then
\* by writer: registers that know the same writes agree, whatever the order of merges
\* (Set, SetAt, Merge).
LastWriteWins ==
    \A n \in RegNode : stored[n] # {} =>
        /\ register[n] \in stored[n]
        /\ \A w \in stored[n] : w # register[n] =>
              \/ w.ts < register[n].ts
              \/ w.ts = register[n].ts /\ w.writer < register[n].writer
=============================================================================
