-------------------------------- MODULE SSI --------------------------------
(***************************************************************************)
(* SSIDetector of pkg/txn/ssi.go: the conflict detector of serializable     *)
(* transactions.                                                            *)
(*                                                                         *)
(* Every method holds the detector's mutex: a call is one action.  A client *)
(* registers its transaction, records what it reads and writes, asks        *)
(* CheckConflict and then, in a call of its own, commits or aborts; other   *)
(* clients may do anything in between.  Start times, read and commit        *)
(* timestamps come from one clock that ticks at every use.                  *)
(***************************************************************************)
EXTENDS Naturals

CONSTANTS SSITxn, SSIKey, NoConflict

ASSUME SSIAssumption == NoConflict \notin SSITxn

VARIABLES
    ssiStatus,      \* the client's transaction
    ssiStart,       \* Transaction.StartTime and ReadTimestamp
    ssiClock,
    activeTxns,
    rwSets,         \* readWriteSets: "none", "read" or "written" of each key
    committedTxns,  \* transactions with a committedTxnInfo
    commitTs,       \* CommitTs, and the keys of the info, of each
    refusedBy       \* history: the conflict CheckConflict reported, and its status then

ssiVars == <<ssiStatus, ssiStart, ssiClock, activeTxns, rwSets, committedTxns, commitTs, refusedBy>>

NoRW == [k \in SSIKey |-> "none"]

SSIInit ==
    /\ ssiStatus = [t \in SSITxn |-> "new"]
    /\ ssiStart = [t \in SSITxn |-> 0]
    /\ ssiClock = 0
    /\ activeTxns = {}
    /\ rwSets = [t \in SSITxn |-> NoRW]
    /\ committedTxns = {}
    /\ commitTs = [t \in SSITxn |-> [at |-> 0, keys |-> NoRW]]
    /\ refusedBy = [t \in SSITxn |-> [txn |-> NoConflict, was |-> "new"]]

RegisterTxn(t) ==
    /\ ssiStatus[t] = "new"
    /\ ssiStatus' = [ssiStatus EXCEPT ![t] = "running"]
    /\ ssiClock' = ssiClock + 1
    /\ ssiStart' = [ssiStart EXCEPT ![t] = ssiClock']
    /\ activeTxns' = activeTxns \cup {t}
    /\ rwSets' = [rwSets EXCEPT ![t] = NoRW]
    /\ UNCHANGED <<committedTxns, commitTs, refusedBy>>

\* The entry is replaced: a write of the same key is forgotten.
RecordRead(t, k) ==
    /\ ssiStatus[t] = "running"
    /\ rwSets' = [rwSets EXCEPT ![t][k] = "read"]
    /\ UNCHANGED <<ssiStatus, ssiStart, ssiClock, activeTxns, committedTxns, commitTs, refusedBy>>

RecordWrite(t, k) ==
    /\ ssiStatus[t] = "running"
    /\ rwSets' = [rwSets EXCEPT ![t][k] = "written"]
    /\ UNCHANGED <<ssiStatus, ssiStart, ssiClock, activeTxns, committedTxns, commitTs, refusedBy>>

\* Committed transactions that read what t writes and wrote what t reads, if t began
\* after their commit.
RWCycle(t) ==
    {c \in committedTxns \ {t} :
        /\ \E k \in SSIKey : rwSets[t][k] = "written" /\ commitTs[c].keys[k] = "read"
        /\ \E k \in SSIKey : rwSets[t][k] = "read" /\ commitTs[c].keys[k] = "written"
        /\ ssiStart[t] > commitTs[c].at}

\* Mutant: the age of the two transactions does not matter.
WriteWriteMutant(t) ==
    {o \in activeTxns \ {t} :
        \E k \in SSIKey : rwSets[t][k] = "written" /\ rwSets[o][k] = "written"}

\* Active transactions that began before t and wrote a key that t wrote.
WriteWrite(t) ==
    {o \in activeTxns \ {t} :
        /\ \E k \in SSIKey : rwSets[t][k] = "written" /\ rwSets[o][k] = "written"
        /\ ssiStart[t] > ssiStart[o]}

\* The first conflict found in the map is reported, the committed ones first.
CheckConflict(t) ==
    /\ ssiStatus[t] = "running"
    /\ LET conflicts == IF RWCycle(t) # {} THEN RWCycle(t) ELSE WriteWrite(t)
       IN  IF conflicts = {}
           THEN /\ ssiStatus' = [ssiStatus EXCEPT ![t] = "checked"]
                /\ UNCHANGED refusedBy
           ELSE \E c \in conflicts :
                /\ ssiStatus' = [ssiStatus EXCEPT ![t] = "refused"]
                /\ refusedBy' = [refusedBy EXCEPT ![t] = [txn |-> c, was |-> ssiStatus[c]]]
    /\ UNCHANGED <<ssiStart, ssiClock, activeTxns, rwSets, committedTxns, commitTs>>

\* The read and write sets stay where they are.
SSICommit(t) ==
    /\ ssiStatus[t] = "checked"
    /\ ssiStatus' = [ssiStatus EXCEPT ![t] = "committed"]
    /\ ssiClock' = ssiClock + 1
    /\ committedTxns' = committedTxns \cup {t}
    /\ commitTs' = [commitTs EXCEPT ![t] = [at |-> ssiClock', keys |-> rwSets[t]]]
    /\ activeTxns' = activeTxns \ {t}
    /\ UNCHANGED <<ssiStart, rwSets, refusedBy>>

SSIAbort(t) ==
    /\ ssiStatus[t] \in {"running", "checked", "refused"}
    /\ ssiStatus' = [ssiStatus EXCEPT ![t] = "aborted"]
    /\ activeTxns' = activeTxns \ {t}
    /\ rwSets' = [rwSets EXCEPT ![t] = NoRW]
    /\ UNCHANGED <<ssiStart, ssiClock, committedTxns, commitTs, refusedBy>>

\* gcLoop: the info is five minutes old.
SSIForget(t) ==
    /\ t \in committedTxns
    /\ committedTxns' = committedTxns \ {t}
    /\ UNCHANGED <<ssiStatus, ssiStart, ssiClock, activeTxns, rwSets, commitTs, refusedBy>>

SSINext ==
    \E t \in SSITxn :
        \/ RegisterTxn(t) \/ CheckConflict(t) \/ SSICommit(t) \/ SSIAbort(t) \/ SSIForget(t)
        \/ \E k \in SSIKey : RecordRead(t, k) \/ RecordWrite(t, k)

SSISpec == SSIInit /\ [][SSINext]_ssiVars

-----------------------------------------------------------------------------
\* A transaction is refused only for one that began before it and has not given up, so
\* that two of them never refuse each other and the oldest one that runs is not refused
\* for a running one (CheckConflict compares start times in one branch and a commit
\* timestamp in the other; Abort takes its writes out of the way at once).
RefusedByAnElder ==
    \A t \in SSITxn :
        LET refusal == refusedBy[t]
        IN  refusal.txn # NoConflict =>
                ssiStart[refusal.txn] < ssiStart[t] /\ refusal.was # "aborted"
=============================================================================
