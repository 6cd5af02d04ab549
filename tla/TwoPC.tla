------------------------------- MODULE TwoPC -------------------------------
(***************************************************************************)
(* TwoPCCoordinator of pkg/txn/twopc.go: one transaction of the             *)
(* coordinator; transactions share nothing but the counter of their ids.    *)
(*                                                                         *)
(* Prepare, Commit and Abort are calls that release the transaction's mutex *)
(* while they wait for their goroutines, so each is several actions.  The   *)
(* persistence callbacks are nil: nothing sets them.  The client prepares   *)
(* and then commits, or aborts when Prepare did not return true.  With      *)
(* Impatient another goroutine may also call Abort in the meantime.         *)
(***************************************************************************)
EXTENDS Naturals

CONSTANTS
    Participant,
    Impatient      \* whether Abort is also called while another call is under way

ASSUME TwoPCAssumption == Impatient \in BOOLEAN

VARIABLES
    txnState,      \* TwoPCTransaction.State
    verdict,       \* what the participants answer: sendPrepare decides by TxnID % 7
    prepareCall, commitCall, abortCall,  \* how far the calls are
    voteCh,        \* participants whose vote was sent
    toldOf         \* the decisions each participant was told

twoPCVars == <<txnState, verdict, prepareCall, commitCall, abortCall, voteCh, toldOf>>

\* Begin
TwoPCInit ==
    /\ txnState = "init"
    /\ verdict \in {"commit", "abort"}
    /\ prepareCall = "idle"
    /\ commitCall = "idle"
    /\ abortCall = "idle"
    /\ voteCh = {}
    /\ toldOf = [p \in Participant |-> {}]

Prepare ==
    /\ prepareCall = "idle"
    /\ IF txnState = "init"
       THEN txnState' = "preparing" /\ prepareCall' = "collecting"
       ELSE prepareCall' = "refused" /\ UNCHANGED txnState
    /\ UNCHANGED <<verdict, commitCall, abortCall, voteCh, toldOf>>

\* A goroutine started by Prepare; it votes even if Prepare has given up.
SendPrepare(p) ==
    /\ prepareCall \notin {"idle", "refused"} /\ p \notin voteCh
    /\ voteCh' = voteCh \cup {p}
    /\ UNCHANGED <<txnState, verdict, prepareCall, commitCall, abortCall, toldOf>>

\* Mutant: the votes are counted, not looked at.
PrepareReturnsMutant ==
    /\ prepareCall = "collecting" /\ voteCh = Participant
    /\ txnState' = "prepared"
    /\ prepareCall' = "true"
    /\ UNCHANGED <<verdict, commitCall, abortCall, voteCh, toldOf>>

\* The state becomes PREPARED whatever the votes are and whatever it was.
PrepareReturns ==
    /\ prepareCall = "collecting" /\ voteCh = Participant
    /\ txnState' = "prepared"
    /\ prepareCall' = IF verdict = "commit" THEN "true" ELSE "false"
    /\ UNCHANGED <<verdict, commitCall, abortCall, voteCh, toldOf>>

\* ctx is done, or prepareTimeout is over.
PrepareGivesUp ==
    /\ prepareCall = "collecting"
    /\ prepareCall' = "failed"
    /\ UNCHANGED <<txnState, verdict, commitCall, abortCall, voteCh, toldOf>>

Commit ==
    /\ prepareCall = "true" /\ commitCall = "idle"
    /\ IF txnState = "prepared"
       THEN txnState' = "committing" /\ commitCall' = "sending"
       ELSE commitCall' = "failed" /\ UNCHANGED txnState
    /\ UNCHANGED <<verdict, prepareCall, abortCall, voteCh, toldOf>>

\* A goroutine started by Commit.
SendCommit(p) ==
    /\ commitCall \in {"sending", "returned"} /\ "commit" \notin toldOf[p]
    /\ toldOf' = [toldOf EXCEPT ![p] = @ \cup {"commit"}]
    /\ UNCHANGED <<txnState, verdict, prepareCall, commitCall, abortCall, voteCh>>

\* All have acknowledged; one that has not within commitTimeout is waited for no longer.
CommitReturns ==
    /\ commitCall = "sending"
    /\ commitCall' = "returned"
    /\ txnState' = "committed"
    /\ UNCHANGED <<verdict, prepareCall, abortCall, voteCh, toldOf>>

\* ctx is done: the transaction stays COMMITTING.
CommitCancelled ==
    /\ commitCall = "sending"
    /\ commitCall' = "returned"
    /\ UNCHANGED <<txnState, verdict, prepareCall, abortCall, voteCh, toldOf>>

Abort ==
    /\ abortCall = "idle"
    /\ Impatient \/ prepareCall \in {"false", "failed", "refused"}
    /\ IF txnState \in {"committed", "aborted"}
       THEN abortCall' = "failed" /\ UNCHANGED txnState
       ELSE txnState' = "aborting" /\ abortCall' = "sending"
    /\ UNCHANGED <<verdict, prepareCall, commitCall, voteCh, toldOf>>

SendAbort(p) ==
    /\ abortCall = "sending" /\ "abort" \notin toldOf[p]
    /\ toldOf' = [toldOf EXCEPT ![p] = @ \cup {"abort"}]
    /\ UNCHANGED <<txnState, verdict, prepareCall, commitCall, abortCall, voteCh>>

AbortReturns ==
    /\ abortCall = "sending" /\ \A p \in Participant : "abort" \in toldOf[p]
    /\ abortCall' = "returned"
    /\ txnState' = "aborted"
    /\ UNCHANGED <<verdict, prepareCall, commitCall, voteCh, toldOf>>

TwoPCNext ==
    \/ Prepare \/ PrepareReturns \/ PrepareGivesUp
    \/ Commit \/ CommitReturns \/ CommitCancelled
    \/ Abort \/ AbortReturns
    \/ \E p \in Participant : SendPrepare(p) \/ SendCommit(p) \/ SendAbort(p)

\* Goroutines that were started run; a client that was answered goes on.
TwoPCFairness ==
    /\ WF_twoPCVars(PrepareReturns \/ PrepareGivesUp) /\ WF_twoPCVars(Commit)
    /\ WF_twoPCVars(Abort) /\ WF_twoPCVars(AbortReturns)
    /\ \A p \in Participant : /\ WF_twoPCVars(SendPrepare(p))
                              /\ WF_twoPCVars(SendCommit(p))
                              /\ WF_twoPCVars(SendAbort(p))

TwoPCSpec == TwoPCInit /\ [][TwoPCNext]_twoPCVars

-----------------------------------------------------------------------------
\* What was decided is what the first of Commit and Abort to start has decided.
AC == INSTANCE AtomicCommit WITH
    Shard    <- Participant,
    votes    <- [p \in Participant |-> IF p \in voteCh THEN verdict ELSE "none"],
    decision <- IF commitCall \in {"sending", "returned"} THEN "commit"
                ELSE IF abortCall \in {"sending", "returned"} THEN "abort" ELSE "none",
    told     <- toldOf

\* No participant is left without the outcome: once the client has asked for a
\* decision by preparing, everybody is told one.
EverybodyIsTold ==
    prepareCall # "idle" ~> \A p \in Participant : toldOf[p] # {}

\* A client that waits for Prepare gets an atomic commit: no commit without all votes, no
\* participant told two things, and every participant told one (Prepare, Commit, Abort,
\* sendCommit, sendAbort, with votes and messages that outlive the calls that wait for
\* them).
TwoPCIsAtomic == AC!ACSpec /\ EverybodyIsTold
=============================================================================
