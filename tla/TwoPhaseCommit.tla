--------------------------- MODULE TwoPhaseCommit ---------------------------
(***************************************************************************)
(* TwoPhaseCommitCoordinator of pkg/txn/two_phase_commit.go, one            *)
(* transaction.  Unlike TwoPCCoordinator it keeps the votes and a decision, *)
(* has no guard on the state in Prepare and Abort, sends the commit in the  *)
(* background, and forgets finished transactions.                           *)
(*                                                                         *)
(* The participants are placeholders (sendPrepare stands for a gRPC call):  *)
(* they may answer whatever the signature allows.  The client does what the *)
(* package's demo does: prepare, then commit on true and abort otherwise.   *)
(***************************************************************************)
EXTENDS Naturals

CONSTANT Branch     \* participants

VARIABLES
    tpcState,       \* Txn.State, or "forgotten" after Cleanup
    tpcVotes,       \* TwoPhaseCommitState.Votes
    tpcPrepared, tpcCommitted, tpcDecision,
    tpcAnswers,     \* answers in voteCh that Prepare has not taken
    tpcWaiting,     \* participants Prepare still waits for
    tpcAllCommit,   \* Prepare's allCommit, and the result of a call that returned
    tpcCall,        \* the client's place
    tpcTold         \* the decisions each participant was told

tpcVars == <<tpcState, tpcVotes, tpcPrepared, tpcCommitted, tpcDecision, tpcAnswers,
             tpcWaiting, tpcAllCommit, tpcCall, tpcTold>>

\* What a participant may answer to a prepare request.
Answer == {"commit", "abort", "error"}

TPCInit ==
    /\ tpcState = "active"
    /\ tpcVotes = [p \in Branch |-> "none"]
    /\ tpcPrepared = FALSE
    /\ tpcCommitted = FALSE
    /\ tpcDecision = "commit"          \* the zero value of Vote
    /\ tpcAnswers = [p \in Branch |-> "none"]
    /\ tpcWaiting = {}
    /\ tpcAllCommit = TRUE
    /\ tpcCall = "begun"
    /\ tpcTold = [p \in Branch |-> {}]

TPCPrepare ==
    /\ tpcCall = "begun"
    /\ tpcCall' = "preparing"
    /\ tpcState' = "preparing"
    /\ tpcWaiting' = Branch
    /\ tpcAllCommit' = TRUE
    /\ UNCHANGED <<tpcVotes, tpcPrepared, tpcCommitted, tpcDecision, tpcAnswers, tpcTold>>

\* The goroutine of one participant.
TPCSendPrepare(p) ==
    /\ tpcCall = "preparing" /\ p \in tpcWaiting /\ tpcAnswers[p] = "none"
    /\ \E a \in Answer : tpcAnswers' = [tpcAnswers EXCEPT ![p] = a]
    /\ UNCHANGED <<tpcState, tpcVotes, tpcPrepared, tpcCommitted, tpcDecision, tpcWaiting,
                   tpcAllCommit, tpcCall, tpcTold>>

\* Mutant: an error is skipped.
CollectMutant(p) ==
    /\ p \in tpcWaiting /\ tpcAnswers[p] # "none"
    /\ tpcWaiting' = tpcWaiting \ {p}
    /\ tpcVotes' = [tpcVotes EXCEPT ![p] = IF tpcAnswers[p] = "error" THEN @ ELSE tpcAnswers[p]]
    /\ tpcAllCommit' = (tpcAllCommit /\ tpcAnswers[p] # "abort")
    /\ UNCHANGED <<tpcState, tpcPrepared, tpcCommitted, tpcDecision, tpcAnswers, tpcCall, tpcTold>>

\* Prepare takes one answer; an error counts against the commit but is no vote.
Collect(p) ==
    /\ p \in tpcWaiting /\ tpcAnswers[p] # "none"
    /\ tpcWaiting' = tpcWaiting \ {p}
    /\ tpcVotes' = [tpcVotes EXCEPT ![p] = IF tpcAnswers[p] = "error" THEN @ ELSE tpcAnswers[p]]
    /\ tpcAllCommit' = (tpcAllCommit /\ tpcAnswers[p] = "commit")
    /\ UNCHANGED <<tpcState, tpcPrepared, tpcCommitted, tpcDecision, tpcAnswers, tpcCall, tpcTold>>

TPCPrepareReturns ==
    /\ tpcCall = "preparing" /\ tpcWaiting = {}
    /\ tpcPrepared' = TRUE
    /\ tpcDecision' = IF tpcAllCommit THEN "commit" ELSE "abort"
    /\ tpcCall' = "prepared"
    /\ UNCHANGED <<tpcState, tpcVotes, tpcCommitted, tpcAnswers, tpcWaiting, tpcAllCommit, tpcTold>>

\* Commit starts its goroutines and is done: it does not wait for them.  Between the
\* two sections under the mutex nothing that the client does can happen.
TPCCommit ==
    /\ tpcCall = "prepared" /\ tpcAllCommit
    /\ tpcPrepared
    /\ tpcState' = "committed"
    /\ tpcCommitted' = TRUE
    /\ tpcCall' = "committed"
    /\ UNCHANGED <<tpcVotes, tpcPrepared, tpcDecision, tpcAnswers, tpcWaiting, tpcAllCommit, tpcTold>>

TPCSendCommit(p) ==
    /\ tpcCall = "committed" /\ tpcTold[p] = {}
    /\ tpcTold' = [tpcTold EXCEPT ![p] = @ \cup {"commit"}]
    /\ UNCHANGED <<tpcState, tpcVotes, tpcPrepared, tpcCommitted, tpcDecision, tpcAnswers,
                   tpcWaiting, tpcAllCommit, tpcCall>>

\* The state is ABORTED from the start of the call, before anybody is told.
TPCAbort ==
    /\ tpcCall = "prepared" /\ ~tpcAllCommit
    /\ tpcState' = "aborted"
    /\ tpcCall' = "aborting"
    /\ UNCHANGED <<tpcVotes, tpcPrepared, tpcCommitted, tpcDecision, tpcAnswers, tpcWaiting,
                   tpcAllCommit, tpcTold>>

TPCSendAbort(p) ==
    /\ tpcCall = "aborting" /\ tpcTold[p] = {}
    /\ tpcTold' = [tpcTold EXCEPT ![p] = @ \cup {"abort"}]
    /\ UNCHANGED <<tpcState, tpcVotes, tpcPrepared, tpcCommitted, tpcDecision, tpcAnswers,
                   tpcWaiting, tpcAllCommit, tpcCall>>

TPCAbortReturns ==
    /\ tpcCall = "aborting" /\ \A p \in Branch : tpcTold[p] # {}
    /\ tpcCall' = "aborted"
    /\ tpcState' = IF tpcState = "forgotten" THEN tpcState ELSE "aborted"
    /\ UNCHANGED <<tpcVotes, tpcPrepared, tpcCommitted, tpcDecision, tpcAnswers, tpcWaiting,
                   tpcAllCommit, tpcTold>>

\* Five minutes after its start a finished transaction is dropped from the map.
Cleanup ==
    /\ tpcState # "forgotten"
    /\ tpcCommitted \/ tpcState = "aborted"
    /\ tpcState' = "forgotten"
    /\ UNCHANGED <<tpcVotes, tpcPrepared, tpcCommitted, tpcDecision, tpcAnswers, tpcWaiting,
                   tpcAllCommit, tpcCall, tpcTold>>

TPCNext ==
    \/ TPCPrepare \/ TPCPrepareReturns \/ TPCCommit \/ TPCAbort \/ TPCAbortReturns \/ Cleanup
    \/ \E p \in Branch : \/ TPCSendPrepare(p) \/ Collect(p)
                         \/ TPCSendCommit(p) \/ TPCSendAbort(p)

TPCSpec == TPCInit /\ [][TPCNext]_tpcVars

-----------------------------------------------------------------------------
\* The decision is made when the call that announces it starts.
TPCAC == INSTANCE AtomicCommit WITH
    Shard    <- Branch,
    votes    <- [p \in Branch |-> IF tpcAnswers[p] = "error" THEN "abort" ELSE tpcAnswers[p]],
    decision <- IF tpcCall = "committed" THEN "commit"
                ELSE IF tpcCall \in {"aborting", "aborted"} THEN "abort" ELSE "none",
    told     <- tpcTold

\* A transaction is forgotten only when its outcome is known and agrees with the
\* recorded decision, which is the only record of it (Cleanup, Prepare, Commit, Abort).
ForgottenIsDecided ==
    tpcState = "forgotten" =>
        /\ tpcPrepared
        /\ tpcCall \in {"committed", "aborting", "aborted"}
        /\ (tpcDecision = "commit") <=> tpcCommitted

\* The coordinator implements atomic commit: a participant that cannot be reached
\* counts as a refusal, though it is not recorded as a vote, nobody is told two things by
\* the goroutines of Commit, and nothing undecided is forgotten.
TPCIsAtomic == TPCAC!ACSpec /\ []ForgottenIsDecided
=============================================================================
