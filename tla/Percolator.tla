----------------------------- MODULE Percolator -----------------------------
(***************************************************************************)
(* One transaction of the Percolator client: pkg/txn/percolator.go.         *)
(*                                                                         *)
(* The storage calls are placeholders that succeed, so a transaction is its *)
(* own bookkeeping: write set, primary key, prewritten keys and the         *)
(* goroutine that commits the secondary keys after Commit has returned.     *)
(* The client calls the methods one after the other, in any order.          *)
(***************************************************************************)
EXTENDS Naturals, FiniteSets

CONSTANTS
    PercKey,
    NoKey,
    MaxCalls       \* bound: calls of Set, Delete, Prewrite, Commit and Abort

ASSUME PercAssumption == NoKey \notin PercKey /\ MaxCalls \in Nat

VARIABLES
    writeSet, readSet, primary,
    secondaries,      \* SecondaryKeys
    prewritten,       \* prewriteSuccess
    percState,        \* Transaction.State
    percCall,         \* where the client is: between calls, or inside one
    todo,             \* keys the call has yet to prewrite
    behind,           \* keys the goroutines started by Commit have yet to commit
    visible,          \* keys that were committed in storage
    promised,         \* history: keys that were prewritten when a Commit succeeded
    calls

percVars == <<writeSet, readSet, primary, secondaries, prewritten, percState, percCall,
              todo, behind, visible, promised, calls>>

PercInit ==
    /\ writeSet = {} /\ readSet = {} /\ primary = NoKey /\ secondaries = {}
    /\ prewritten = {} /\ percState = "active" /\ percCall = "idle"
    /\ todo = {} /\ behind = {} /\ visible = {} /\ promised = {} /\ calls = 0

Called == percCall = "idle" /\ calls < MaxCalls /\ calls' = calls + 1

\* Set and Delete: the first key written is the primary one.
PercWrite(k) ==
    /\ Called
    /\ writeSet' = writeSet \cup {k}
    /\ primary' = IF primary = NoKey THEN k ELSE primary
    /\ UNCHANGED <<readSet, secondaries, prewritten, percState, percCall, todo, behind,
                   visible, promised>>

\* A key the transaction has written is answered from the write set.
PercRead(k) ==
    /\ percCall = "idle" /\ k \notin writeSet
    /\ readSet' = readSet \cup {k}
    /\ UNCHANGED <<writeSet, primary, secondaries, prewritten, percState, percCall, todo,
                   behind, visible, promised, calls>>

\* Mutant: the secondary keys are not remembered for Commit.
PrewriteBeginsMutant ==
    /\ Called
    /\ primary # NoKey
    /\ todo' = writeSet \ {primary}
    /\ percCall' = "prewriting"
    /\ UNCHANGED <<writeSet, readSet, primary, secondaries, prewritten, percState, behind,
                   visible, promised>>

PrewriteBegins ==
    /\ Called
    /\ primary # NoKey
    /\ secondaries' = writeSet \ {primary}
    /\ todo' = writeSet \ {primary}
    /\ percCall' = "prewriting"
    /\ UNCHANGED <<writeSet, readSet, primary, prewritten, percState, behind,
                   visible, promised>>

PrewriteSecondary(k) ==
    /\ percCall = "prewriting" /\ k \in todo
    /\ todo' = todo \ {k}
    /\ prewritten' = prewritten \cup {k}
    /\ UNCHANGED <<writeSet, readSet, primary, secondaries, percState, percCall, behind,
                   visible, promised, calls>>

PrewritePrimary ==
    /\ percCall = "prewriting" /\ todo = {}
    /\ prewritten' = prewritten \cup {primary}
    /\ percCall' = "idle"
    /\ UNCHANGED <<writeSet, readSet, primary, secondaries, percState, todo, behind,
                   visible, promised, calls>>

\* Commit and the key that decides; the secondaries are left to a goroutine.
CommitPrimary ==
    /\ Called
    /\ primary \in prewritten
    /\ visible' = visible \cup {primary}
    /\ behind' = behind \cup secondaries
    /\ promised' = promised \cup prewritten
    /\ percState' = "committed"
    /\ UNCHANGED <<writeSet, readSet, primary, secondaries, prewritten, percCall, todo>>

CommitSecondary(k) ==
    /\ k \in behind
    /\ behind' = behind \ {k}
    /\ visible' = visible \cup {k}
    /\ UNCHANGED <<writeSet, readSet, primary, secondaries, prewritten, percState, percCall,
                   todo, promised, calls>>

\* Abort with its Cleanup: the marks of the written keys go, whatever happened before.
PercAbort ==
    /\ Called
    /\ prewritten' = prewritten \ writeSet
    /\ percState' = "aborted"
    /\ UNCHANGED <<writeSet, readSet, primary, secondaries, percCall, todo, behind, visible, promised>>

PercNext ==
    \/ \E k \in PercKey : \/ PercWrite(k) \/ PercRead(k) \/ PrewriteSecondary(k)
                          \/ CommitSecondary(k)
    \/ PrewriteBegins \/ PrewritePrimary \/ CommitPrimary \/ PercAbort

\* Started calls and goroutines run on.
PercFairness ==
    /\ WF_percVars(PrewritePrimary)
    /\ \A k \in PercKey : WF_percVars(PrewriteSecondary(k)) /\ WF_percVars(CommitSecondary(k))

PercSpec == PercInit /\ [][PercNext]_percVars

-----------------------------------------------------------------------------
\* A transaction becomes visible at its primary key: no secondary is committed before
\* the primary, in whatever order Prewrite, Commit and Abort are called and the
\* goroutine of an earlier Commit still runs.
PrimaryDecides ==
    (visible # {} \/ behind # {}) => primary \in visible

\* Commit does not wait for the secondaries, and yet every key that was prewritten
\* when it started becomes visible, after the primary: Prewrite has remembered it, and
\* no later call takes it from the goroutine.
CommittedBecomesVisible ==
    /\ []PrimaryDecides
    /\ \A k \in PercKey : k \in promised ~> k \in visible
=============================================================================
