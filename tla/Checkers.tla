------------------------------ MODULE Checkers ------------------------------
(***************************************************************************)
(* The checkers of client histories: LinearizabilityChecker of              *)
(* pkg/consistency/linearizability.go and the durability check of           *)
(* JepsenChecker, pkg/chaos/jepsen_checker.go, for the history of one key.  *)
(* (Histories are checked key by key.)                                      *)
(*                                                                         *)
(* The history is what one writer and any number of readers record of a     *)
(* store that may answer a read with anything.  Time is counted in calls.   *)
(***************************************************************************)
EXTENDS Naturals, Sequences, FiniteSetsExt

CONSTANTS
    Reader,
    Writer,
    MaxOps          \* bound: recorded operations

ASSUME CheckerAssumption == Writer \notin Reader /\ MaxOps \in Nat

VARIABLES
    history,        \* LinearizabilityChecker.history; end is 0 until the operation completes
    checkTime,
    completions     \* JepsenChecker.ops: the completed operations in the order of Record

checkerVars == <<history, checkTime, completions>>

CheckerInit ==
    /\ history = <<>>
    /\ checkTime = 0
    /\ completions = <<>>

\* 0 stands for nil: the key does not exist.  The i-th operation, if a put, writes i.
ReadValue == 0 .. MaxOps

OpenOps(c) == {i \in DOMAIN history : history[i].client = c /\ history[i].end = 0}

Invoke(c) ==
    /\ Len(history) < MaxOps /\ OpenOps(c) = {}
    /\ checkTime' = checkTime + 1
    /\ history' = Append(history, [client |-> c, type |-> IF c = Writer THEN "put" ELSE "get",
                                   value |-> Len(history) + 1, start |-> checkTime', end |-> 0])
    /\ UNCHANGED completions

Complete(c, v) ==
    \E i \in OpenOps(c) :
        LET op == [history[i] EXCEPT !.end = checkTime + 1, !.value = IF c = Writer THEN @ ELSE v]
        IN  /\ checkTime' = checkTime + 1
            /\ history' = [history EXCEPT ![i] = op]
            /\ completions' = Append(completions, op)

\* A call fails: both checkers leave it out, whether it has taken effect or not.
Fail(c) ==
    \E i \in OpenOps(c) :
        /\ checkTime' = checkTime + 1
        /\ history' = [history EXCEPT ![i].end = checkTime', ![i].type = "failed"]
        /\ UNCHANGED completions

CheckerNext ==
    \E c \in Reader \cup {Writer} :
        Invoke(c) \/ Fail(c) \/ \E v \in ReadValue : v <= Len(history) /\ Complete(c, v)

CheckerSpec == CheckerInit /\ [][CheckerNext]_checkerVars

-----------------------------------------------------------------------------
Completed == {history[i] : i \in {j \in DOMAIN history : history[j].end # 0}}

\* Mutant: only puts that began before the get count as concurrent with it.
HasConcurrentPutMutant(op) ==
    \E other \in Completed :
        other.type = "put" /\ other.start < op.start /\ other.end > op.start

HasConcurrentPut(op) ==
    \E other \in Completed :
        other.type = "put" /\ other.start < op.end /\ other.end > op.start

PutsEndedAt(t) == {op \in Completed : op.type = "put" /\ op.end = t}

\* checkKeyLinearization replays the completed operations in the order of their ends,
\* with the value of the last put as the state, and excuses what overlaps a put.
CheckKeyLinearization ==
    LET currentValue[t \in 0 .. checkTime] ==
            IF t = 0 THEN 0
            ELSE IF PutsEndedAt(t) = {} THEN currentValue[t - 1] ELSE (CHOOSE op \in PutsEndedAt(t) : TRUE).value
    IN  \A op \in Completed :
            op.type = "get" => op.value = currentValue[op.end] \/ HasConcurrentPut(op)

SeesLastWrite(write, read) == write.end < read.start => read.value # 0

\* checkDurability takes the operations in the order they were recorded.
CheckDurability ==
    \A i \in DOMAIN completions :
        LET writes == {j \in 1 .. i - 1 : completions[j].type = "put"}
        IN  completions[i].type = "get" /\ writes # {}
                => SeesLastWrite(completions[Max(writes)], completions[i])

\* The puts that had ended when the read began, and those it overlaps.
EndedBefore(op) == {p \in Completed : p.type = "put" /\ p.end < op.start}
Overlapping(op) == {p \in Completed : p.type = "put" /\ p.end > op.start /\ p.start < op.end}

\* With one writer the linearizability checker rejects a history exactly when a read
\* that overlaps no put returned something else than the last put before it.
RejectsExactly ==
    CheckKeyLinearization <=>
        \A op \in Completed : op.type = "get" /\ Overlapping(op) = {} =>
            IF EndedBefore(op) = {} THEN op.value = 0
            ELSE \E p \in EndedBefore(op) : /\ op.value = p.value
                                            /\ \A q \in EndedBefore(op) : q.end <= p.end

\* The durability check raises no false alarm: if every read returns a value of the
\* register at some moment of the read, nothing is reported as lost.
NoFalseAlarm ==
    (\A op \in Completed : op.type = "get" =>
        \/ op.value \in {p.value : p \in Overlapping(op)}
        \/ IF EndedBefore(op) = {} THEN op.value = 0
           ELSE \E p \in EndedBefore(op) : /\ op.value = p.value
                                           /\ \A q \in EndedBefore(op) : q.end <= p.end)
    => CheckDurability

\* Both checkers are right about a history of one writer: see their parts.
VerdictsAreRight == RejectsExactly /\ NoFalseAlarm
=============================================================================
