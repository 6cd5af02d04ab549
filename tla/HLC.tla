-------------------------------- MODULE HLC --------------------------------
(***************************************************************************)
(* The hybrid logical clock of pkg/clock/hlc.go.  A call holds the clock's  *)
(* mutex.  The wall clock is read anew in every call and may stand still or *)
(* step back; a message may carry any timestamp some node has returned.     *)
(* The logical counter is a uint16: here it has CounterRange values.        *)
(***************************************************************************)
EXTENDS Naturals, FiniteSetsExt

CONSTANTS
    HLCNode,
    CounterRange,     \* 2^16 in the code
    MaxSkew,          \* MaxClockSkew
    MaxWall           \* bound: highest reading of a wall clock

ASSUME HLCAssumption ==
    /\ CounterRange \in Nat \ {0} /\ MaxSkew \in Nat /\ MaxWall \in Nat

VARIABLES
    hlcL, hlcC,       \* l and c of each node
    hlcSent,          \* timestamps that were returned, as messages may carry them
    hlcLast,          \* history: the node's last answer
    hlcBefore,        \* history: highest timestamp the node knew before that call
    hlcTop,           \* history: highest reading of the node's wall clock
    hlcWrapped        \* history: the counter has gone round at the node

hlcVars == <<hlcL, hlcC, hlcSent, hlcLast, hlcBefore, hlcTop, hlcWrapped>>

Pack(l, c) == l * CounterRange + c
PhysicalOf(ts) == ts \div CounterRange
LogicalOf(ts) == ts % CounterRange

HLCInit ==
    /\ hlcL = [n \in HLCNode |-> 0]
    /\ hlcC = [n \in HLCNode |-> 0]
    /\ hlcSent = {}
    /\ hlcLast = [n \in HLCNode |-> 0]
    /\ hlcBefore = [n \in HLCNode |-> 0]
    /\ hlcTop = [n \in HLCNode |-> 0]
    /\ hlcWrapped = [n \in HLCNode |-> FALSE]

\* The clock of n becomes l and c and is returned; `known' is what n knew before.
HLCReturns(n, l, c, wraps, wall, known) ==
    /\ hlcL' = [hlcL EXCEPT ![n] = l]
    /\ hlcC' = [hlcC EXCEPT ![n] = c % CounterRange]
    /\ hlcLast' = [hlcLast EXCEPT ![n] = Pack(l, c % CounterRange)]
    /\ hlcBefore' = [hlcBefore EXCEPT ![n] = known]
    /\ hlcSent' = hlcSent \cup {Pack(l, c % CounterRange)}
    /\ hlcTop' = [hlcTop EXCEPT ![n] = Max({@, wall})]
    /\ hlcWrapped' = [hlcWrapped EXCEPT ![n] = @ \/ wraps]

\* The counter is compared with its maximum after it was incremented, in 16 bits: it
\* is never above, and goes round without l being moved.
Now(n, wall) ==
    LET l == Max({wall, hlcL[n]})
        c == IF l = hlcL[n] THEN hlcC[n] + 1 ELSE 0
    IN  HLCReturns(n, l, c, c = CounterRange, wall, hlcLast[n])

MergedCounter(n, msg, l) ==
    CASE l = hlcL[n] /\ l = PhysicalOf(msg) -> Max({hlcC[n], LogicalOf(msg)}) + 1
      [] l = hlcL[n] /\ l # PhysicalOf(msg) -> hlcC[n] + 1
      [] l # hlcL[n] /\ l = PhysicalOf(msg) -> LogicalOf(msg) + 1
      [] OTHER -> 0

WithinSkew(n, msg, wall) == PhysicalOf(msg) <= wall + MaxSkew

\* A timestamp too far in the future is refused, and the clock stays as it is.
Update(n, msg, wall) ==
    /\ WithinSkew(n, msg, wall)
    /\ LET l == Max({wall, hlcL[n], PhysicalOf(msg)})
           c == MergedCounter(n, msg, l)
       IN  HLCReturns(n, l, c, c = CounterRange, wall, Max({hlcLast[n], msg}))

HLCNext ==
    \E n \in HLCNode, wall \in 1 .. MaxWall :
        \/ Now(n, wall)
        \/ \E msg \in hlcSent : Update(n, msg, wall)

HLCSpec == HLCInit /\ [][HLCNext]_hlcVars

-----------------------------------------------------------------------------
\* Every answer is above all earlier answers of the node and above the message it was
\* given, however wall clocks differ and step back, until the node's counter goes
\* round within one millisecond (Now and Update; TestHLC_Monotonic and
\* TestHLC_CausalOrdering state it without the exception).
HLCAdvances ==
    \A n \in HLCNode : hlcLast[n] > 0 /\ ~hlcWrapped[n] => hlcLast[n] > hlcBefore[n]

\* The clock is never further ahead of the node's own wall clock than MaxClockSkew:
\* no chain of messages drags it away (Update refuses what is too far ahead).
SkewIsBounded ==
    \A n \in HLCNode : hlcL[n] <= hlcTop[n] + MaxSkew
=============================================================================
