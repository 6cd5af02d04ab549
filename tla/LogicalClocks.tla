--------------------------- MODULE LogicalClocks ---------------------------
(***************************************************************************)
(* LamportClock and VectorClock of pkg/clock, driven by the same events.    *)
(*                                                                         *)
(* The Lamport clock is lock-free: Receive loads the counter, computes, and *)
(* stores with compare-and-swap, and other goroutines of the process tick   *)
(* in between.  The vector clock does each operation under its mutex.       *)
(*                                                                         *)
(* The module also says what all clocks of the package promise together.    *)
(***************************************************************************)
EXTENDS HLC

CONSTANTS
    Proc,
    MaxEvents       \* bound: events of a behaviour

ASSUME ClockAssumption == MaxEvents \in Nat

VARIABLES
    counter,        \* LamportClock.counter of each process
    vector,         \* VectorClock.vector of each process; 0 stands for no entry
    receiving,      \* a Receive under way: the message and the value it has loaded
    events          \* history: what happened, with its causal past

clockVars == <<counter, vector, receiving, events>>

NoReceive == [msg |-> 0, loaded |-> 0]

ClockInit ==
    /\ counter = [p \in Proc |-> 0]
    /\ vector = [p \in Proc |-> [q \in Proc |-> 0]]
    /\ receiving = [p \in Proc |-> NoReceive]
    /\ events = {}

NextEvent == Cardinality(events) + 1

\* Events are numbered; an event's past is that of its process and of its message.
PastOf(p) == UNION {e.past \cup {e.id} : e \in {f \in events : f.proc = p}}

Happens(p, lamport, vec, past) ==
    /\ NextEvent <= MaxEvents
    /\ counter' = [counter EXCEPT ![p] = lamport]
    /\ vector' = [vector EXCEPT ![p] = vec]
    /\ events' = events \cup {[id |-> NextEvent, proc |-> p, lamport |-> lamport, vec |-> vec, past |-> past]}

\* Tick and Send do the same; any event's timestamps may be sent.
Tick(p) ==
    /\ Happens(p, counter[p] + 1, [vector[p] EXCEPT ![p] = @ + 1], PastOf(p))
    /\ UNCHANGED receiving

\* Receive loads the counter.
ReceiveLoads(p) ==
    /\ receiving[p] = NoReceive
    /\ \E e \in events : receiving' = [receiving EXCEPT ![p] = [msg |-> e.id, loaded |-> counter[p]]]
    /\ UNCHANGED <<counter, vector, events>>

\* Mutant: stores without looking whether the counter has moved.
SwapsMutant(p) == receiving[p] # NoReceive

\* CompareAndSwap succeeds.
Swaps(p) == receiving[p] # NoReceive /\ counter[p] = receiving[p].loaded

VectorReceive(p, vec) ==
    [q \in Proc |-> Max({vec[q], vector[p][q]}) + IF q = p THEN 1 ELSE 0]

ReceiveSwaps(p) ==
    /\ Swaps(p)
    /\ \E e \in events :
         /\ e.id = receiving[p].msg
         /\ Happens(p,
                    IF receiving[p].loaded >= e.lamport THEN receiving[p].loaded + 1 ELSE e.lamport + 1,
                    VectorReceive(p, e.vec),
                    PastOf(p) \cup e.past \cup {e.id})
    /\ receiving' = [receiving EXCEPT ![p] = NoReceive]

\* CompareAndSwap fails: the loop goes round.
ReceiveReloads(p) ==
    /\ receiving[p] # NoReceive /\ counter[p] # receiving[p].loaded
    /\ receiving' = [receiving EXCEPT ![p].loaded = counter[p]]
    /\ UNCHANGED <<counter, vector, events>>

ClockNext == \E p \in Proc : Tick(p) \/ ReceiveLoads(p) \/ ReceiveSwaps(p) \/ ReceiveReloads(p)

ClockSpec == ClockInit /\ [][ClockNext]_clockVars

\* Compare
Compare(a, b) ==
    LET aLessInSome == \E q \in Proc : a[q] < b[q]
        bLessInSome == \E q \in Proc : b[q] < a[q]
    IN  CASE aLessInSome /\ bLessInSome   -> "concurrent"
          [] ~aLessInSome /\ ~bLessInSome -> "equal"
          [] aLessInSome /\ ~bLessInSome  -> "before"
          [] OTHER                        -> "after"

-----------------------------------------------------------------------------
\* Comparing vector clocks tells exactly what happened before what, and two different
\* events never have equal vectors (VectorClock.Receive, Tick, Compare).
VectorsTellCausality ==
    \A e, f \in events :
        Compare(e.vec, f.vec) = CASE e.id = f.id      -> "equal"
                                  [] e.id \in f.past  -> "before"
                                  [] f.id \in e.past  -> "after"
                                  [] OTHER            -> "concurrent"

\* Lamport time grows along every causal chain, also when Receive races with Tick in
\* one process, and a process never gives two events the same time.
LamportFollowsCausality ==
    \A e, f \in events :
        /\ e.id \in f.past => e.lamport < f.lamport
        /\ e.proc = f.proc /\ e # f => e.lamport # f.lamport

\* Every clock of pkg/clock orders what depends on each other: the hybrid clock within
\* its skew, the vector clock exactly, the Lamport clock in spite of racing goroutines.
ClocksFollowCausality ==
    HLCAdvances /\ SkewIsBounded /\ VectorsTellCausality /\ LamportFollowsCausality
=============================================================================
