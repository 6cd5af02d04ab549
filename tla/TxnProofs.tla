----------------------------- MODULE TxnProofs -----------------------------
(***************************************************************************)
(* Theorems about the transaction package, for every set of keys,           *)
(* transactions, participants and callers, and about the checkers of client *)
(* histories.                                                               *)
(***************************************************************************)
EXTENDS LockManager, TwoPC, TwoPhaseCommit, SSI, TSO, Saga, Percolator, Checkers,
        NatFacts, SequenceTheorems, TLAPS

-----------------------------------------------------------------------------
(* The lock table *)

\* Every call on the lock table keeps its two maps in agreement.
LEMMA MapsAgreeStep == MapsAgree /\ [LockNext]_lockVars => MapsAgree'
<1> SUFFICES ASSUME MapsAgree, [LockNext]_lockVars
             PROVE  MapsAgree'
  OBVIOUS
<1> USE LockAssumption DEF MapsAgree, Expiry, Free
<1>1. ASSUME NEW k \in LockKey, NEW t \in LockTxn, NEW e \in {"never", "ahead"},
             TryLockFree(k, t, e)
      PROVE  MapsAgree'
  BY <1>1 DEF TryLockFree, Take
<1>2. ASSUME NEW k \in LockKey, NEW t \in LockTxn, NEW e \in {"never", "ahead"},
             Steal(k, t, e)
      PROVE  MapsAgree'
  <2>1. locks[k].txn \in LockTxn /\ locks[k].txn # t
    BY <1>2 DEF Steal, HasConflict
  <2>2. QED
    BY <1>2, <2>1 DEF Steal, Take
<1>3. ASSUME NEW t \in LockTxn, Unlock(t)
      PROVE  MapsAgree'
  BY <1>3 DEF Unlock
<1>4. ASSUME NEW k \in LockKey, NEW t \in LockTxn, UnlockKey(k, t)
      PROVE  MapsAgree'
  BY <1>4 DEF UnlockKey
<1>5. ASSUME NEW k \in LockKey, LockExpires(k)
      PROVE  MapsAgree'
  BY <1>5 DEF LockExpires
<1>6. CASE UNCHANGED lockVars
  BY <1>6 DEF lockVars
<1>7. QED
  BY <1>1, <1>2, <1>3, <1>4, <1>5, <1>6 DEF LockNext, TryLock

\* The lock of a key that has not expired stays with its owner, except by the owner's
\* own call.
LEMMA LockKeptStep ==
    ASSUME MapsAgree, [LockNext]_lockVars,
           NEW k \in LockKey, NEW t \in LockTxn,
           locks[k].txn = t, ~Expired(k), locks'[k].txn # t
    PROVE  UnlockKey(k, t) \/ (Unlock(t) /\ locks'[k] = Free)
<1> USE LockAssumption DEF MapsAgree
<1>1. ASSUME NEW j \in LockKey, NEW u \in LockTxn, NEW e \in {"never", "ahead"},
             TryLock(j, u, e)
      PROVE  FALSE
  <2>1. CASE j = k
    BY <1>1, <2>1 DEF TryLock, TryLockFree, Steal, Take, Free, Expired
  <2>2. CASE j # k
    BY <1>1, <2>2 DEF TryLock, TryLockFree, Steal, Take
  <2>3. QED
    BY <2>1, <2>2
<1>2. ASSUME NEW u \in LockTxn, Unlock(u)
      PROVE  Unlock(t) /\ locks'[k] = Free
  <2>1. k \in txnLocks[u]
    BY <1>2 DEF Unlock
  <2>2. u = t
    BY <2>1
  <2>3. QED
    BY <1>2, <2>1, <2>2 DEF Unlock
<1>3. ASSUME NEW j \in LockKey, NEW u \in LockTxn, UnlockKey(j, u)
      PROVE  UnlockKey(k, t)
  <2>1. j = k
    BY <1>3 DEF UnlockKey
  <2>2. QED
    BY <1>3, <2>1 DEF UnlockKey
<1>4. ASSUME NEW j \in LockKey, LockExpires(j)
      PROVE  FALSE
  BY <1>4 DEF LockExpires
<1>5. CASE UNCHANGED lockVars
  BY <1>5 DEF lockVars
<1>6. QED
  BY <1>1, <1>2, <1>3, <1>4, <1>5 DEF LockNext

\* Both maps of the lock table agree at all times, and a lock that has not expired is
\* lost only by a call of its owner (TryLock, Unlock, UnlockKey).
THEOREM LockTableSound == LockSpec => LockTableIsSound
<1>1. LockInit => MapsAgree
  BY LockAssumption DEF LockInit, MapsAgree, Free, Expiry
<1>2. MapsAgree /\ [LockNext]_lockVars => MapsAgree'
  BY MapsAgreeStep
<1> DEFINE Kept ==
      \A k \in LockKey, t \in LockTxn :
         locks[k].txn = t /\ ~Expired(k) /\ locks'[k].txn # t
            => \/ UnlockKey(k, t)
               \/ Unlock(t) /\ locks'[k] = Free
<1>3. MapsAgree /\ [LockNext]_lockVars => [Kept]_lockVars
  BY LockKeptStep
<1>4. QED
  BY <1>1, <1>2, <1>3, PTL DEF LockSpec, LockTableIsSound, LockIsKept

-----------------------------------------------------------------------------
(* TwoPhaseCommitCoordinator *)

\* The calls that announce a decision.
TPCAnnouncing == {"committed", "aborting", "aborted"}

\* What holds between the steps of a transaction: Prepare has taken the answers of the
\* participants it no longer waits for, its running result is their conjunction, the
\* decision is recorded when it returns, and only the announced decision was told.
TPCInv ==
    /\ tpcAnswers \in [Branch -> Answer \cup {"none"}]
    /\ tpcWaiting \in SUBSET Branch
    /\ tpcTold \in [Branch -> SUBSET {"commit", "abort"}]
    /\ tpcCall \in {"begun", "preparing", "prepared"} \cup TPCAnnouncing
    /\ tpcCall = "begun" => tpcAnswers = [p \in Branch |-> "none"]
    /\ tpcWaiting # {} => tpcCall = "preparing"
    /\ tpcCall # "begun" => \A p \in Branch \ tpcWaiting : tpcAnswers[p] # "none"
    /\ tpcAllCommit => \A p \in Branch \ tpcWaiting :
                          tpcCall # "begun" => tpcAnswers[p] = "commit"
    /\ tpcCall \notin TPCAnnouncing => \A p \in Branch : tpcTold[p] = {}
    /\ tpcCall = "committed" => \A p \in Branch : tpcTold[p] \subseteq {"commit"}
    /\ tpcCall \in {"aborting", "aborted"} => \A p \in Branch : tpcTold[p] \subseteq {"abort"}
    /\ tpcCall \in {"prepared"} \cup TPCAnnouncing =>
          tpcPrepared /\ (tpcDecision = "commit" <=> tpcAllCommit)
    /\ tpcCall = "committed" => tpcAllCommit
    /\ tpcCall \in {"aborting", "aborted"} => ~tpcAllCommit
    /\ tpcCommitted <=> tpcCall = "committed"
    /\ tpcState \in {"aborted", "forgotten"} => tpcCall \in TPCAnnouncing

\* The actions of the coordinator, of its goroutines and of its clean-up keep TPCInv.
LEMMA TPCInvStep == TPCInv /\ [TPCNext]_tpcVars => TPCInv'
<1> SUFFICES ASSUME TPCInv, [TPCNext]_tpcVars
             PROVE  TPCInv'
  OBVIOUS
<1> USE DEF TPCInv, TPCAnnouncing, Answer
<1>1. CASE TPCPrepare
  BY <1>1 DEF TPCPrepare
<1>2. CASE TPCPrepareReturns
  BY <1>2 DEF TPCPrepareReturns
<1>3. CASE TPCCommit
  BY <1>3 DEF TPCCommit
<1>4. CASE TPCAbort
  BY <1>4 DEF TPCAbort
<1>5. CASE TPCAbortReturns
  BY <1>5 DEF TPCAbortReturns
<1>6. CASE Cleanup
  BY <1>6 DEF Cleanup
<1>7. ASSUME NEW p \in Branch, TPCSendPrepare(p)
      PROVE  TPCInv'
  BY <1>7 DEF TPCSendPrepare
<1>8. ASSUME NEW p \in Branch, Collect(p)
      PROVE  TPCInv'
  BY <1>8 DEF Collect
<1>9. ASSUME NEW p \in Branch, TPCSendCommit(p)
      PROVE  TPCInv'
  BY <1>9 DEF TPCSendCommit
<1>10. ASSUME NEW p \in Branch, TPCSendAbort(p)
       PROVE  TPCInv'
  BY <1>10 DEF TPCSendAbort
<1>11. CASE UNCHANGED tpcVars
  BY <1>11 DEF tpcVars
<1>12. QED
  BY <1>1, <1>2, <1>3, <1>4, <1>5, <1>6, <1>7, <1>8, <1>9, <1>10, <1>11 DEF TPCNext

\* Every step of the coordinator is a step of atomic commit, or changes nothing that it
\* speaks of.
LEMMA TPCStepRefines == TPCInv /\ TPCInv' /\ [TPCNext]_tpcVars => [TPCAC!ACNext]_TPCAC!acVars
<1> SUFFICES ASSUME TPCInv, TPCInv', [TPCNext]_tpcVars
             PROVE  [TPCAC!ACNext]_TPCAC!acVars
  OBVIOUS
<1> USE DEF TPCInv, TPCAnnouncing, Answer
<1>1. ASSUME UNCHANGED <<tpcAnswers, tpcCall, tpcTold>>
      PROVE  UNCHANGED TPCAC!acVars
  BY <1>1 DEF TPCAC!acVars
<1>2. CASE TPCPrepare \/ TPCPrepareReturns
  BY <1>2 DEF TPCPrepare, TPCPrepareReturns, TPCAC!acVars
<1>3. CASE TPCCommit
  <2>1. TPCAC!Decide("commit")
    BY <1>3 DEF TPCCommit, TPCAC!Decide
  <2>2. QED
    BY <2>1 DEF TPCAC!ACNext
<1>4. CASE TPCAbort
  <2>1. TPCAC!Decide("abort")
    BY <1>4 DEF TPCAbort, TPCAC!Decide
  <2>2. QED
    BY <2>1 DEF TPCAC!ACNext
<1>5. CASE TPCAbortReturns
  BY <1>5 DEF TPCAbortReturns, TPCAC!acVars
<1>6. CASE Cleanup
  BY <1>1, <1>6 DEF Cleanup
<1>7. ASSUME NEW p \in Branch, TPCSendPrepare(p)
      PROVE  TPCAC!CastVote(p)
  <2>1. PICK a \in Answer : tpcAnswers' = [tpcAnswers EXCEPT ![p] = a]
    BY <1>7 DEF TPCSendPrepare
  <2> DEFINE v == IF a = "error" THEN "abort" ELSE a
  <2>2. v \in {"commit", "abort"}
    BY <2>1
  <2>3. [q \in Branch |-> IF tpcAnswers'[q] = "error" THEN "abort" ELSE tpcAnswers'[q]]
          = [[q \in Branch |-> IF tpcAnswers[q] = "error" THEN "abort" ELSE tpcAnswers[q]]
                EXCEPT ![p] = v]
    BY <2>1
  <2>4. QED
    BY <1>7, <2>2, <2>3 DEF TPCSendPrepare, TPCAC!CastVote
<1>8. ASSUME NEW p \in Branch, Collect(p)
      PROVE  UNCHANGED TPCAC!acVars
  BY <1>1, <1>8 DEF Collect
<1>9. ASSUME NEW p \in Branch, TPCSendCommit(p)
      PROVE  TPCAC!Tell(p)
  BY <1>9 DEF TPCSendCommit, TPCAC!Tell
<1>10. ASSUME NEW p \in Branch, TPCSendAbort(p)
       PROVE  TPCAC!Tell(p)
  BY <1>10 DEF TPCSendAbort, TPCAC!Tell
<1>11. CASE UNCHANGED tpcVars
  BY <1>1, <1>11 DEF tpcVars
<1>12. QED
  BY <1>2, <1>3, <1>4, <1>5, <1>6, <1>7, <1>8, <1>9, <1>10, <1>11 DEF TPCNext, TPCAC!ACNext

\* TwoPhaseCommitCoordinator implements atomic commit, and Cleanup forgets only a
\* transaction whose recorded decision is its outcome.
THEOREM TPCAtomic == TPCSpec => TPCIsAtomic
<1>1. TPCInit => TPCInv
  BY DEF TPCInit, TPCInv, TPCAnnouncing, Answer
<1>2. TPCInv /\ [TPCNext]_tpcVars => TPCInv'
  BY TPCInvStep
<1>3. TPCInit => TPCAC!ACInit
  BY DEF TPCInit, TPCAC!ACInit
<1>4. TPCInv /\ TPCInv' /\ [TPCNext]_tpcVars => [TPCAC!ACNext]_TPCAC!acVars
  BY TPCStepRefines
<1>5. TPCInv => ForgottenIsDecided
  BY DEF TPCInv, TPCAnnouncing, ForgottenIsDecided
<1>6. QED
  BY <1>1, <1>2, <1>3, <1>4, <1>5, PTL DEF TPCSpec, TPCIsAtomic, TPCAC!ACSpec

-----------------------------------------------------------------------------
(* TwoPCCoordinator *)

\* With a client that waits for Prepare, Commit follows only a Prepare that returned true,
\* Abort only one that did not, and only what the call under way decided was told.
TwoPCInv ==
    /\ verdict \in {"commit", "abort"}
    /\ voteCh \in SUBSET Participant
    /\ toldOf \in [Participant -> SUBSET {"commit", "abort"}]
    /\ prepareCall \in {"idle", "refused", "collecting", "true", "false", "failed"}
    /\ prepareCall = "true" => verdict = "commit" /\ voteCh = Participant
    /\ commitCall # "idle" => prepareCall = "true"
    /\ abortCall # "idle" => prepareCall \in {"false", "failed", "refused"}
    /\ \A p \in Participant : /\ "commit" \in toldOf[p] => commitCall \in {"sending", "returned"}
                              /\ "abort" \in toldOf[p] => abortCall \in {"sending", "returned"}

\* No step of a call or of a goroutine that outlives its call disturbs TwoPCInv.
LEMMA TwoPCInvStep ==
    ASSUME ~Impatient, TwoPCInv, [TwoPCNext]_twoPCVars
    PROVE  TwoPCInv'
<1> USE DEF TwoPCInv
<1>1. CASE Prepare
  BY <1>1 DEF Prepare
<1>2. CASE PrepareReturns
  BY <1>2 DEF PrepareReturns
<1>3. CASE PrepareGivesUp
  BY <1>3 DEF PrepareGivesUp
<1>4. CASE Commit
  BY <1>4 DEF Commit
<1>5. CASE CommitReturns \/ CommitCancelled
  BY <1>5 DEF CommitReturns, CommitCancelled
<1>6. CASE Abort
  BY <1>6 DEF Abort
<1>7. CASE AbortReturns
  BY <1>7 DEF AbortReturns
<1>8. ASSUME NEW p \in Participant, SendPrepare(p)
      PROVE  TwoPCInv'
  BY <1>8 DEF SendPrepare
<1>9. ASSUME NEW p \in Participant, SendCommit(p)
      PROVE  TwoPCInv'
  BY <1>9 DEF SendCommit
<1>10. ASSUME NEW p \in Participant, SendAbort(p)
       PROVE  TwoPCInv'
  BY <1>10 DEF SendAbort
<1>11. CASE UNCHANGED twoPCVars
  BY <1>11 DEF twoPCVars
<1>12. QED
  BY <1>1, <1>2, <1>3, <1>4, <1>5, <1>6, <1>7, <1>8, <1>9, <1>10, <1>11 DEF TwoPCNext

\* Every step of the coordinator is a step of atomic commit, or changes nothing that it
\* speaks of.
LEMMA TwoPCStepRefines ==
    ASSUME ~Impatient, TwoPCInv, [TwoPCNext]_twoPCVars
    PROVE  [AC!ACNext]_AC!acVars
<1> USE DEF TwoPCInv
<1>1. ASSUME UNCHANGED <<verdict, voteCh, commitCall, abortCall, toldOf>>
      PROVE  UNCHANGED AC!acVars
  BY <1>1 DEF AC!acVars
<1>2. CASE Prepare \/ PrepareReturns \/ PrepareGivesUp
  BY <1>1, <1>2 DEF Prepare, PrepareReturns, PrepareGivesUp
<1>3. CASE Commit
  <2>1. CASE txnState = "prepared"
    <3>1. AC!Decide("commit")
      BY <1>3, <2>1 DEF Commit, AC!Decide
    <3>2. QED
      BY <3>1 DEF AC!ACNext
  <2>2. CASE txnState # "prepared"
    BY <1>3, <2>2 DEF Commit, AC!acVars
  <2>3. QED
    BY <2>1, <2>2
<1>4. CASE CommitReturns \/ CommitCancelled
  BY <1>4 DEF CommitReturns, CommitCancelled, AC!acVars
<1>5. CASE Abort
  <2>1. CASE txnState \in {"committed", "aborted"}
    BY <1>5, <2>1 DEF Abort, AC!acVars
  <2>2. CASE txnState \notin {"committed", "aborted"}
    <3>1. AC!Decide("abort")
      BY <1>5, <2>2 DEF Abort, AC!Decide
    <3>2. QED
      BY <3>1 DEF AC!ACNext
  <2>3. QED
    BY <2>1, <2>2
<1>6. CASE AbortReturns
  BY <1>6 DEF AbortReturns, AC!acVars
<1>7. ASSUME NEW p \in Participant, SendPrepare(p)
      PROVE  AC!CastVote(p)
  <2>1. [q \in Participant |-> IF q \in voteCh' THEN verdict ELSE "none"]
          = [[q \in Participant |-> IF q \in voteCh THEN verdict ELSE "none"] EXCEPT ![p] = verdict]
    BY <1>7 DEF SendPrepare
  <2>2. QED
    BY <1>7, <2>1 DEF SendPrepare, AC!CastVote
<1>8. ASSUME NEW p \in Participant, SendCommit(p)
      PROVE  AC!Tell(p)
  <2>1. toldOf[p] = {}
    BY <1>8 DEF SendCommit
  <2>2. QED
    BY <1>8, <2>1 DEF SendCommit, AC!Tell
<1>9. ASSUME NEW p \in Participant, SendAbort(p)
      PROVE  AC!Tell(p)
  <2>1. toldOf[p] = {} /\ commitCall \notin {"sending", "returned"}
    BY <1>9 DEF SendAbort
  <2>2. QED
    BY <1>9, <2>1 DEF SendAbort, AC!Tell
<1>10. CASE UNCHANGED twoPCVars
  BY <1>1, <1>10 DEF twoPCVars
<1>11. QED
  BY <1>2, <1>3, <1>4, <1>5, <1>6, <1>7, <1>8, <1>9, <1>10 DEF TwoPCNext, AC!ACNext

\* Unless Abort is called while another call is under way, TwoPCCoordinator implements
\* atomic commit: it commits only with every vote, and no participant is told two things
\* by the goroutines of Commit and Abort.
THEOREM TwoPCAtomic == ~Impatient /\ TwoPCSpec => AC!ACSpec
<1> SUFFICES ASSUME ~Impatient
             PROVE  TwoPCSpec => AC!ACSpec
  OBVIOUS
<1>1. TwoPCInit => TwoPCInv
  BY DEF TwoPCInit, TwoPCInv
<1>2. TwoPCInv /\ [TwoPCNext]_twoPCVars => TwoPCInv'
  BY TwoPCInvStep
<1>3. TwoPCInit => AC!ACInit
  BY DEF TwoPCInit, AC!ACInit
<1>4. TwoPCInv /\ [TwoPCNext]_twoPCVars => [AC!ACNext]_AC!acVars
  BY TwoPCStepRefines
<1>5. QED
  BY <1>1, <1>2, <1>3, <1>4, PTL DEF TwoPCSpec, AC!ACSpec

-----------------------------------------------------------------------------
(* SSIDetector *)

SSIStatus == {"new", "running", "checked", "refused", "committed", "aborted"}

\* The detector's maps agree with what the clients did: a start time is fixed once it is
\* given, only registered transactions that have not ended are active, a committed one
\* carries a commit timestamp later than its start, and a refusal names two registered
\* transactions, the refuser the elder.
SSIInv ==
    /\ ssiStatus \in [SSITxn -> SSIStatus]
    /\ ssiStart \in [SSITxn -> Nat]
    /\ ssiClock \in Nat
    /\ activeTxns \in SUBSET SSITxn
    /\ committedTxns \in SUBSET SSITxn
    /\ commitTs \in [SSITxn -> [at : Nat, keys : [SSIKey -> {"none", "read", "written"}]]]
    /\ rwSets \in [SSITxn -> [SSIKey -> {"none", "read", "written"}]]
    /\ refusedBy \in [SSITxn -> [txn : SSITxn \cup {NoConflict}, was : SSIStatus]]
    /\ \A t \in SSITxn : ssiStart[t] <= ssiClock
    /\ \A t \in activeTxns : ssiStatus[t] \in {"running", "checked", "refused"}
    /\ \A t \in committedTxns : ssiStatus[t] = "committed" /\ ssiStart[t] < commitTs[t].at
    /\ \A t \in SSITxn :
          refusedBy[t].txn # NoConflict =>
              /\ ssiStatus[t] # "new" /\ ssiStatus[refusedBy[t].txn] # "new"
              /\ ssiStart[refusedBy[t].txn] < ssiStart[t]
              /\ refusedBy[t].was # "aborted"

\* A transaction CheckConflict reports began before the one it refuses and has not given up.
LEMMA ConflictIsElder ==
    ASSUME SSIInv, NEW t \in SSITxn, NEW c \in RWCycle(t) \cup WriteWrite(t)
    PROVE  c \in SSITxn /\ ssiStart[c] < ssiStart[t] /\ ssiStatus[c] \notin {"new", "aborted"}
<1>1. CASE c \in RWCycle(t)
  <2>1. c \in committedTxns /\ ssiStart[t] > commitTs[c].at
    BY <1>1 DEF RWCycle
  <2>2. c \in SSITxn /\ commitTs[c].at \in Nat /\ ssiStart[c] \in Nat /\ ssiStart[t] \in Nat
    BY <2>1 DEF SSIInv
  <2>3. QED
    BY <2>1, <2>2 DEF SSIInv
<1>2. CASE c \in WriteWrite(t)
  BY <1>2 DEF WriteWrite, SSIInv
<1>3. QED
  BY <1>1, <1>2

\* Every call on the detector, of whichever client, keeps SSIInv.
LEMMA SSIInvStep == SSIInv /\ [SSINext]_ssiVars => SSIInv'
<1> SUFFICES ASSUME SSIInv, [SSINext]_ssiVars
             PROVE  SSIInv'
  OBVIOUS
<1> USE SSIAssumption DEF SSIInv, SSIStatus, NoRW
<1>1. ASSUME NEW t \in SSITxn, RegisterTxn(t)
      PROVE  SSIInv'
  BY <1>1 DEF RegisterTxn
<1>2. ASSUME NEW t \in SSITxn, NEW k \in SSIKey, RecordRead(t, k) \/ RecordWrite(t, k)
      PROVE  SSIInv'
  <2>1. PICK a \in {"read", "written"} : rwSets' = [rwSets EXCEPT ![t][k] = a]
    BY <1>2 DEF RecordRead, RecordWrite
  <2>2. rwSets' \in [SSITxn -> [SSIKey -> {"none", "read", "written"}]]
    BY <2>1
  <2>3. UNCHANGED <<ssiStatus, ssiStart, ssiClock, activeTxns, committedTxns, commitTs, refusedBy>>
    BY <1>2 DEF RecordRead, RecordWrite
  <2>4. QED
    BY <2>2, <2>3
<1>3. ASSUME NEW t \in SSITxn, CheckConflict(t)
      PROVE  SSIInv'
  <2>1. CASE /\ ssiStatus' = [ssiStatus EXCEPT ![t] = "checked"]
             /\ UNCHANGED refusedBy
    BY <1>3, <2>1 DEF CheckConflict
  <2>2. ASSUME NEW c \in RWCycle(t) \cup WriteWrite(t),
               ssiStatus' = [ssiStatus EXCEPT ![t] = "refused"],
               refusedBy' = [refusedBy EXCEPT ![t] = [txn |-> c, was |-> ssiStatus[c]]]
        PROVE  SSIInv'
    <3>1. c \in SSITxn /\ ssiStart[c] < ssiStart[t] /\ ssiStatus[c] \notin {"new", "aborted"}
      BY ConflictIsElder
    <3>2. QED
      BY <1>3, <2>2, <3>1 DEF CheckConflict
  <2>3. QED
    BY <1>3, <2>1, <2>2 DEF CheckConflict
<1>4. ASSUME NEW t \in SSITxn, SSICommit(t)
      PROVE  SSIInv'
  BY <1>4 DEF SSICommit
<1>5. ASSUME NEW t \in SSITxn, SSIAbort(t)
      PROVE  SSIInv'
  BY <1>5 DEF SSIAbort
<1>6. ASSUME NEW t \in SSITxn, SSIForget(t)
      PROVE  SSIInv'
  BY <1>6 DEF SSIForget
<1>7. CASE UNCHANGED ssiVars
  BY <1>7 DEF ssiVars
<1>8. QED
  BY <1>1, <1>2, <1>3, <1>4, <1>5, <1>6, <1>7 DEF SSINext

\* However the calls of the clients interleave, CheckConflict refuses a transaction only
\* for one that began before it and had not given up.
THEOREM RefusalsGoByAge == SSISpec => []RefusedByAnElder
<1>1. SSIInit => SSIInv
  BY SSIAssumption DEF SSIInit, SSIInv, SSIStatus, NoRW
<1>2. SSIInv /\ [SSINext]_ssiVars => SSIInv'
  BY SSIInvStep
<1>3. SSIInv => RefusedByAnElder
  BY DEF SSIInv, RefusedByAnElder
<1>4. QED
  BY <1>1, <1>2, <1>3, PTL DEF SSISpec

-----------------------------------------------------------------------------
(* TimestampOracle *)

\* Nothing was issued above lastSaved or among what is left of the batch, which lies
\* below lastSaved and above everything of earlier batches.
TSOInv ==
    /\ lastSaved \in Nat /\ batchBase \in Nat /\ batchRemaining \in Nat /\ batchFloor \in Nat
    /\ issued \in SUBSET Nat
    /\ \A ts \in issued : ts <= lastSaved
    /\ \A ts \in issued : ~(batchBase <= ts /\ ts < batchBase + batchRemaining)
    /\ batchRemaining > 0 => /\ batchBase + batchRemaining <= lastSaved + 1
                             /\ batchBase > batchFloor
    /\ ~repeated

\* The highest timestamp issued so far is a natural number up to lastSaved.
LEMMA HighestIssued ==
    ASSUME TSOInv
    PROVE  Max(issued \cup {0}) \in 0..lastSaved
<1> DEFINE T == issued \cup {0}
<1>1. lastSaved \in Nat /\ T \in SUBSET (0..lastSaved) /\ T # {}
  BY DEF TSOInv
<1>2. \E x \in T : \A y \in T : y <= x
  BY <1>1, NatMax
<1>3. \A x, y \in T : y <= x <=> x >= y
  BY <1>1
<1>4. \E x \in T : \A y \in T : x >= y
  BY <1>2, <1>3
<1>5. Max(T) \in T
  BY <1>4 DEF Max
<1>6. QED
  BY <1>1, <1>5

\* Handing out a timestamp, allocating a batch, also when two callers do so at once, and
\* a recovery keep TSOInv.
LEMMA TSOInvStep == TSOInv /\ [TSONext]_tsoVars => TSOInv'
<1> SUFFICES ASSUME TSOInv, [TSONext]_tsoVars
             PROVE  TSOInv'
  OBVIOUS
<1> USE TSOAssumption DEF TSOInv
<1>1. ASSUME NEW c \in Caller, GetTimestamp(c)
      PROVE  TSOInv'
  <2>1. CASE batchRemaining > 0
    <3> DEFINE ts == batchBase + batchRemaining - 1
    <3>1. ts \in Nat /\ ts \notin issued /\ ts <= lastSaved
      BY <2>1
    <3>2. ~repeated'
      BY <1>1, <2>1, <3>1 DEF GetTimestamp, Issue
    <3>3. issued' = issued \cup {ts} /\ batchRemaining' = batchRemaining - 1
      BY <1>1, <2>1 DEF GetTimestamp, Issue
    <3>4. UNCHANGED <<lastSaved, batchBase, batchFloor>>
      BY <1>1 DEF GetTimestamp
    <3>5. QED
      BY <2>1, <3>1, <3>2, <3>3, <3>4
  <2>2. CASE ~(batchRemaining > 0)
    BY <1>1, <2>2 DEF GetTimestamp
  <2>3. QED
    BY <2>1, <2>2
<1>2. ASSUME NEW c \in Caller, NEW now \in 1..MaxHLC, AllocateBatch(c, now)
      PROVE  TSOInv'
  <2>1. batchFloor' \in 0..lastSaved
    BY <1>2, HighestIssued DEF AllocateBatch
  <2>2. batchBase' \in Nat /\ batchBase' > lastSaved
    BY <1>2 DEF AllocateBatch
  <2> DEFINE last == batchBase' + BatchSize - 1
  <2>3. last \in Nat /\ last > lastSaved /\ batchBase' + (BatchSize - 1) = last
    <3>1. ASSUME NEW base \in Nat, NEW size \in Nat \ {0}, NEW saved \in Nat, base > saved
          PROVE  /\ base + size - 1 \in Nat /\ base + size - 1 > saved
                 /\ base + (size - 1) = base + size - 1
      BY <3>1
    <3>2. QED
      BY <2>2, <3>1
  <2>4. last \notin issued
    BY <2>3
  <2>5. ~repeated'
    BY <1>2, <2>4 DEF AllocateBatch, Issue
  <2>6. lastSaved' = last /\ batchRemaining' = BatchSize - 1 /\ issued' = issued \cup {last}
    BY <1>2 DEF AllocateBatch, Issue
  <2> HIDE DEF last
  <2>7. \A ts \in issued' : ts \in Nat /\ ts <= last /\ ~(batchBase' <= ts /\ ts < last)
    BY <2>2, <2>3, <2>6
  <2>8. batchRemaining' \in Nat
    BY <2>6
  <2>9. batchBase' + batchRemaining' = last /\ last <= lastSaved' + 1 /\ batchBase' > batchFloor'
    <3>1. batchBase' + batchRemaining' = last /\ last <= lastSaved' + 1
      BY <2>3, <2>6
    <3>2. batchFloor' <= lastSaved /\ batchFloor' \in Nat /\ lastSaved \in Nat
      BY <2>1
    <3>3. batchBase' > batchFloor'
      BY <2>2, <3>2
    <3>4. QED
      BY <3>1, <3>3
  <2>10. /\ lastSaved' \in Nat /\ batchFloor' \in Nat
         /\ issued' \in SUBSET Nat
    BY <2>1, <2>3, <2>6
  <2>11. QED
    BY <2>2, <2>5, <2>6, <2>7, <2>8, <2>9, <2>10
<1>3. ASSUME NEW now \in 1..MaxHLC, GetStartTimestamp(now)
      PROVE  TSOInv'
  BY <1>3 DEF GetStartTimestamp
<1>4. ASSUME NEW p \in 1..MaxHLC, Recover(p)
      PROVE  TSOInv'
  BY <1>4 DEF Recover
<1>5. CASE UNCHANGED tsoVars
  BY <1>5 DEF tsoVars
<1>6. QED
  BY <1>1, <1>2, <1>3, <1>4, <1>5 DEF TSONext

\* The oracle never returns a timestamp twice, and what is left of a batch lies above
\* everything earlier batches gave out (GetTimestamp, allocateBatch).
THEOREM TimestampsNew == TSOSpec => []TimestampsAreNew
<1>1. TSOInit => TSOInv
  BY DEF TSOInit, TSOInv
<1>2. TSOInv /\ [TSONext]_tsoVars => TSOInv'
  BY TSOInvStep
<1>3. TSOInv => TimestampsAreNew
  BY DEF TSOInv, TimestampsAreNew
<1>4. QED
  BY <1>1, <1>2, <1>3, PTL DEF TSOSpec

-----------------------------------------------------------------------------
(* SagaOrchestrator *)

\* What is in effect is a prefix of the steps on the way forward; on the way back, of the
\* steps that can be compensated the ones that are left are a prefix too.
SagaInv ==
    /\ currentStep \in 0 .. Steps /\ inEffect \subseteq 1 .. Steps
    /\ sagaState \in {"pending", "running"} => currentStep > 0 /\ inEffect = 1 .. currentStep - 1 /\ ~stuck
    /\ sagaState = "compensating" =>
          ~stuck /\ inEffect \cap Compensable = (1 .. currentStep) \cap Compensable
    /\ AllOrNothing

LEMMA SagaInvInit == SagaInit => SagaInv
BY SagaAssumption DEF SagaInit, SagaInv, AllOrNothing

\* Every step of the orchestrator keeps SagaInv.
LEMMA SagaInvNext ==
    ASSUME SagaInv, [SagaNext]_sagaVars
    PROVE  SagaInv'
<1>0. Steps \in Nat \ {0} /\ Compensable \subseteq 1 .. Steps
  BY SagaAssumption
<1>1. CASE Execute
  BY <1>0, <1>1 DEF Execute, SagaInv, AllOrNothing
<1>2. CASE StepSucceeds
  <2>1. /\ currentStep \in 1 .. Steps /\ inEffect = 1 .. currentStep - 1 /\ ~stuck
        /\ inEffect' = inEffect \cup {currentStep} /\ stuck' = stuck
    BY <1>2 DEF StepSucceeds, SagaInv
  <2>2. inEffect' = 1 .. currentStep
    BY <1>0, <2>1
  <2>3. CASE currentStep = Steps
    BY <1>0, <1>2, <2>1, <2>2, <2>3 DEF StepSucceeds, SagaInv, AllOrNothing
  <2>4. CASE currentStep # Steps
    <3>1. currentStep' = currentStep + 1 /\ sagaState' = "running" /\ (currentStep + 1) - 1 = currentStep
          /\ currentStep + 1 \in 0 .. Steps
      BY <1>0, <1>2, <2>1, <2>4 DEF StepSucceeds
    <3>2. inEffect' = 1 .. currentStep' - 1 /\ inEffect' \subseteq 1 .. Steps
      BY <1>0, <2>1, <2>2, <3>1
    <3>3. QED
      BY <2>1, <3>1, <3>2 DEF SagaInv, AllOrNothing
  <2>5. QED
    BY <2>3, <2>4
<1>3. CASE StepFails
  <2>1. /\ currentStep \in 1 .. Steps /\ inEffect = 1 .. currentStep - 1 /\ ~stuck
        /\ UNCHANGED <<inEffect, stuck>>
    BY <1>3 DEF StepFails, SagaInv
  <2>2. CASE UNCHANGED <<sagaState, currentStep>>
    BY <2>1, <2>2 DEF SagaInv, AllOrNothing
  <2>3. CASE GiveUp
    <3>1. sagaState' = "compensating" /\ currentStep' = currentStep - 1 /\ currentStep - 1 \in 0 .. Steps
      BY <1>0, <2>1, <2>3 DEF GiveUp
    <3>2. inEffect' = 1 .. currentStep' /\ inEffect' \subseteq 1 .. Steps
      BY <1>0, <2>1, <3>1
    <3>3. QED
      BY <2>1, <3>1, <3>2 DEF SagaInv, AllOrNothing
  <2>4. QED
    BY <1>3, <2>2, <2>3 DEF StepFails
<1>4. CASE CompensateStep
  <2>1. /\ currentStep \in 1 .. Steps /\ sagaState' = "compensating" /\ ~stuck /\ ~stuck'
        /\ inEffect \subseteq 1 .. Steps
        /\ inEffect \cap Compensable = (1 .. currentStep) \cap Compensable
        /\ inEffect' = IF currentStep \in Compensable THEN inEffect \ {currentStep} ELSE inEffect
        /\ currentStep' = currentStep - 1
    BY <1>0, <1>4 DEF CompensateStep, SagaInv
  <2>2. currentStep' \in 0 .. Steps /\ inEffect' \subseteq 1 .. Steps
    BY <1>0, <2>1
  <2>3. \A k : k \in 1 .. currentStep - 1 <=> k \in 1 .. currentStep /\ k # currentStep
    BY <1>0, <2>1
  <2>4. \A k : k \in inEffect' \cap Compensable <=> k \in inEffect \cap Compensable /\ k # currentStep
    BY <2>1
  <2>5. inEffect' \cap Compensable = (1 .. currentStep') \cap Compensable
    BY <2>1, <2>3, <2>4
  <2>6. QED
    BY <2>1, <2>2, <2>5 DEF SagaInv, AllOrNothing
<1>5. CASE CompensationFails
  BY <1>5 DEF CompensationFails, SagaInv, AllOrNothing
<1>6. CASE SagaFails
  <2>1. (1 .. 0) \cap Compensable = {}
    OBVIOUS
  <2>2. QED
    BY <1>6, <2>1 DEF SagaFails, SagaInv, AllOrNothing
<1>7. CASE Cancel
  BY <1>7 DEF Cancel, SagaInv, AllOrNothing
<1>8. CASE UNCHANGED sagaVars
  BY <1>8 DEF sagaVars, SagaInv, AllOrNothing
<1>9. QED
  BY <1>1, <1>2, <1>3, <1>4, <1>5, <1>6, <1>7, <1>8 DEF SagaNext

\* Whatever fails, is retried or cancelled, a saga of any number of steps ends with all of
\* it in effect, nothing that could be compensated, or a prefix where a compensation failed.
THEOREM SagaAllOrNothing == SagaSpec => []AllOrNothing
<1>1. SagaInv => AllOrNothing
  BY DEF SagaInv
<1>2. SagaInv /\ [SagaNext]_sagaVars => SagaInv'
  BY SagaInvNext
<1>3. QED
  BY <1>1, <1>2, SagaInvInit, PTL DEF SagaSpec

-----------------------------------------------------------------------------
(* Transaction of the Percolator client *)

\* Commit has left the keys it promised to the goroutine, unless they are there already.
PromisedIsUnderWay == promised \subseteq visible \cup behind

\* The primary key is the first and stays; what is or will be prewritten is known to Commit.
PercInv ==
    /\ writeSet \subseteq PercKey /\ primary \in PercKey \cup {NoKey}
    /\ secondaries \subseteq writeSet \ {primary}
    /\ todo \subseteq secondaries /\ prewritten \subseteq secondaries \cup {primary} /\ prewritten \subseteq PercKey
    /\ percCall = "prewriting" => primary # NoKey
    /\ primary = NoKey => writeSet = {} /\ visible = {} /\ behind = {}
    /\ PrimaryDecides /\ PromisedIsUnderWay

\* Every call of the client and every step of a goroutine keeps PercInv.
LEMMA PercInvNext ==
    ASSUME PercInv, [PercNext]_percVars
    PROVE  PercInv'
<1>0. NoKey \notin PercKey
  BY PercAssumption
<1>1. ASSUME NEW k \in PercKey, PercWrite(k) PROVE PercInv'
  BY <1>0, <1>1 DEF PercWrite, Called, PercInv, PrimaryDecides, PromisedIsUnderWay
<1>2. ASSUME NEW k \in PercKey, PercRead(k) PROVE PercInv'
  BY <1>2 DEF PercRead, PercInv, PrimaryDecides, PromisedIsUnderWay
<1>3. ASSUME NEW k \in PercKey, PrewriteSecondary(k) PROVE PercInv'
  BY <1>3 DEF PrewriteSecondary, PercInv, PrimaryDecides, PromisedIsUnderWay
<1>4. ASSUME NEW k \in PercKey, CommitSecondary(k) PROVE PercInv'
  BY <1>4 DEF CommitSecondary, PercInv, PrimaryDecides, PromisedIsUnderWay
<1>5. CASE PrewriteBegins
  BY <1>5 DEF PrewriteBegins, Called, PercInv, PrimaryDecides, PromisedIsUnderWay
<1>6. CASE PrewritePrimary
  BY <1>6 DEF PrewritePrimary, PercInv, PrimaryDecides, PromisedIsUnderWay
<1>7. CASE CommitPrimary
  BY <1>0, <1>7 DEF CommitPrimary, Called, PercInv, PrimaryDecides, PromisedIsUnderWay
<1>8. CASE PercAbort
  BY <1>8 DEF PercAbort, Called, PercInv, PrimaryDecides, PromisedIsUnderWay
<1>9. CASE UNCHANGED percVars
  BY <1>9 DEF percVars, PercInv, PrimaryDecides, PromisedIsUnderWay
<1>10. QED
  BY <1>1, <1>2, <1>3, <1>4, <1>5, <1>6, <1>7, <1>8, <1>9 DEF PercNext

\* In whatever order Set, Prewrite, Commit and Abort are called, no secondary key is visible
\* before the primary one, and each key that was prewritten when a Commit succeeded is
\* visible or left to a goroutine that will commit it.
THEOREM CommitIsCarriedOut == PercSpec => [](PrimaryDecides /\ PromisedIsUnderWay)
<1>1. PercInit => PercInv
  BY DEF PercInit, PercInv, PrimaryDecides, PromisedIsUnderWay
<1>2. PercInv => PrimaryDecides /\ PromisedIsUnderWay
  BY DEF PercInv
<1>3. PercInv /\ [PercNext]_percVars => PercInv'
  BY PercInvNext
<1>4. QED
  BY <1>1, <1>2, <1>3, PTL DEF PercSpec

-----------------------------------------------------------------------------
(* Checkers *)

CheckedOp == [client : Reader \cup {Writer}, type : {"put", "get", "failed"}, value : Nat, start : Nat, end : Nat]

\* Every invocation and every end has a moment of its own, and puts write no nil.
TimesInv ==
    /\ checkTime \in Nat
    /\ history \in Seq(CheckedOp)
    /\ \A i \in DOMAIN history :
          /\ history[i].start <= checkTime /\ history[i].end <= checkTime
          /\ history[i].start # 0
          /\ history[i].end # 0 => history[i].start < history[i].end
          /\ history[i].type = "put" => history[i].value # 0 /\ history[i].client = Writer
    /\ \A i, j \in DOMAIN history :
          /\ history[i].start # history[j].end
          /\ history[i].end # 0 /\ history[i].end = history[j].end => i = j

\* What was recorded is part of the history.
RecordedInv == completions \in Seq(CheckedOp) /\ \A i \in DOMAIN completions : completions[i] \in Completed

CheckerInv == TimesInv /\ RecordedInv

\* What is true of a completed operation.
LEMMA CompletedOps ==
    ASSUME TimesInv
    PROVE  /\ \A op \in Completed : /\ op \in CheckedOp /\ op.end # 0 /\ op.end <= checkTime
                                    /\ op.start < op.end /\ (op.type = "put" => op.value # 0)
           /\ \A op, p \in Completed : op.start # p.end /\ (op.end = p.end => op = p)
<1>1. ASSUME NEW op \in Completed PROVE \E i \in DOMAIN history : op = history[i] /\ history[i].end # 0
  BY DEF Completed
<1>2. ASSUME NEW i \in DOMAIN history PROVE history[i] \in CheckedOp
  BY ElementOfSeq DEF TimesInv
<1>3. ASSUME NEW op \in Completed
      PROVE  /\ op \in CheckedOp /\ op.end # 0 /\ op.end <= checkTime
             /\ op.start < op.end /\ (op.type = "put" => op.value # 0)
  <2>1. PICK i \in DOMAIN history : op = history[i] /\ history[i].end # 0
    BY <1>1
  <2>2. QED
    BY <1>2, <2>1 DEF TimesInv
<1>4. ASSUME NEW op \in Completed, NEW p \in Completed PROVE op.start # p.end /\ (op.end = p.end => op = p)
  <2>1. PICK i \in DOMAIN history : op = history[i] /\ history[i].end # 0
    BY <1>1
  <2>2. PICK j \in DOMAIN history : p = history[j] /\ history[j].end # 0
    BY <1>1
  <2>3. QED
    BY <2>1, <2>2 DEF TimesInv
<1>5. QED
  BY <1>3, <1>4

\* The value that the replay has at a moment: that of the last put that ended by then.
IsCurrent(v, t) ==
    LET puts == {op \in Completed : op.type = "put" /\ op.end <= t}
    IN  IF puts = {} THEN v = 0 ELSE \E p \in puts : v = p.value /\ \A q \in puts : q.end <= p.end

IsReplay(cv) ==
    cv = [t \in 0 .. checkTime |->
             IF t = 0 THEN 0
             ELSE IF PutsEndedAt(t) = {} THEN cv[t - 1] ELSE (CHOOSE op \in PutsEndedAt(t) : TRUE).value]

LEMMA ReplayExists ==
    ASSUME TimesInv
    PROVE  \E cv : IsReplay(cv)
<1>1. PICK n \in Nat : n = checkTime
  BY DEF TimesInv
<1>2. PICK F : F = [p \in Nat \X (1 .. n) |->
                      IF PutsEndedAt(p[2]) = {} THEN p[1] ELSE (CHOOSE op \in PutsEndedAt(p[2]) : TRUE).value]
  OBVIOUS
<1>3. ASSUME NEW s \in Nat, NEW k \in 1 .. n
      PROVE  F[<<s, k>>] = IF PutsEndedAt(k) = {} THEN s ELSE (CHOOSE op \in PutsEndedAt(k) : TRUE).value
  <2>1. PICK p : p = <<s, k>> /\ p \in Nat \X (1 .. n) /\ p[1] = s /\ p[2] = k
    <3>1. <<s, k>> \in Nat \X (1 .. n) /\ <<s, k>>[1] = s /\ <<s, k>>[2] = k
      OBVIOUS
    <3>2. QED
      BY <3>1, Zenon
  <2>2. F[p] = IF PutsEndedAt(p[2]) = {} THEN p[1] ELSE (CHOOSE op \in PutsEndedAt(p[2]) : TRUE).value
    BY <1>2, <2>1
  <2>3. QED
    BY <2>1, <2>2
<1>4. ASSUME NEW s \in Nat, NEW k \in 1 .. n PROVE F[<<s, k>>] \in Nat
  <2>1. CASE PutsEndedAt(k) = {}
    BY <1>3, <2>1
  <2>2. CASE PutsEndedAt(k) # {}
    <3>1. PICK op : op = CHOOSE o \in PutsEndedAt(k) : TRUE
      OBVIOUS
    <3>2. op \in PutsEndedAt(k)
      BY <2>2, <3>1
    <3>3. op \in CheckedOp
      BY <3>2, CompletedOps DEF PutsEndedAt
    <3>4. QED
      BY <1>3, <2>2, <3>1, <3>3 DEF CheckedOp
  <2>3. QED
    BY <2>1, <2>2
<1>5. PICK g : Iterates(g, 0, F, n) /\ \A k \in 0 .. n : g[k] \in Nat
  BY <1>4, IterationExists
<1>6. ASSUME NEW t \in 0 .. n
      PROVE  g[t] = IF t = 0 THEN 0
                    ELSE IF PutsEndedAt(t) = {} THEN g[t - 1] ELSE (CHOOSE op \in PutsEndedAt(t) : TRUE).value
  <2>1. CASE t = 0
    BY <1>5, <2>1 DEF Iterates
  <2>2. CASE t # 0
    <3>1. t \in 1 .. n /\ t - 1 \in 0 .. n
      BY <2>2
    <3>2. g[t] = F[<<g[t - 1], t>>] /\ g[t - 1] \in Nat
      BY <1>5, <3>1 DEF Iterates
    <3>3. QED
      BY <1>3, <2>2, <3>1, <3>2
  <2>3. QED
    BY <2>1, <2>2
<1>7. g = [k \in 0 .. n |-> g[k]]
  BY <1>5 DEF Iterates
<1>8. IsReplay(g)
  BY <1>1, <1>6, <1>7 DEF IsReplay
<1>9. QED
  BY <1>8

LEMMA ReplayIs ==
    ASSUME TimesInv, NEW cv, IsReplay(cv), NEW t \in 0 .. checkTime
    PROVE  IsCurrent(cv[t], t)
<1>1. PICK n \in Nat : n = checkTime
  BY DEF TimesInv
<1>2. \A k \in 0 .. n : cv[k] = IF k = 0 THEN 0
                                ELSE IF PutsEndedAt(k) = {} THEN cv[k - 1] ELSE (CHOOSE op \in PutsEndedAt(k) : TRUE).value
  BY <1>1, Zenon DEF IsReplay
<1>3. PICK T : T = {k \in Nat : k <= n => IsCurrent(cv[k], k)}
  OBVIOUS
<1>4. \A op \in Completed : op.end \in Nat /\ op.end # 0
  BY CompletedOps DEF CheckedOp
<1>5. 0 \in T
  <2>1. {op \in Completed : op.type = "put" /\ op.end <= 0} = {}
    BY <1>4
  <2>2. cv[0] = 0
    BY <1>2
  <2>3. QED
    BY <1>3, <2>1, <2>2 DEF IsCurrent
<1>6. ASSUME NEW k \in Nat, k \in T PROVE k + 1 \in T
  <2>1. SUFFICES ASSUME k + 1 <= n PROVE IsCurrent(cv[k + 1], k + 1)
    BY <1>3
  <2>2. IsCurrent(cv[k], k) /\ k + 1 \in 0 .. n /\ k + 1 # 0 /\ (k + 1) - 1 = k
    BY <1>3, <1>6, <2>1
  <2>3. PICK A : A = {op \in Completed : op.type = "put" /\ op.end <= k}
    OBVIOUS
  <2>4. PICK B : B = {op \in Completed : op.type = "put" /\ op.end <= k + 1}
    OBVIOUS
  <2>5. \A op \in Completed : op.end <= k + 1 <=> (op.end <= k \/ op.end = k + 1)
    BY <1>4
  <2>6. B = A \cup PutsEndedAt(k + 1)
    BY <2>3, <2>4, <2>5 DEF PutsEndedAt
  <2>7. CASE PutsEndedAt(k + 1) = {}
    <3>1. A = B /\ cv[k + 1] = cv[k]
      BY <1>2, <2>2, <2>6, <2>7
    <3>2. QED
      BY <2>2, <2>3, <2>4, <3>1 DEF IsCurrent
  <2>8. CASE PutsEndedAt(k + 1) # {}
    <3>1. PICK p : p = CHOOSE o \in PutsEndedAt(k + 1) : TRUE
      OBVIOUS
    <3>2. p \in PutsEndedAt(k + 1)
      BY <2>8, <3>1
    <3>3. cv[k + 1] = p.value
      BY <1>2, <2>2, <2>8, <3>1
    <3>4. p \in B /\ p.end = k + 1 /\ B # {}
      BY <2>6, <3>2 DEF PutsEndedAt
    <3>5. \A q \in B : q.end <= p.end
      BY <2>4, <3>4
    <3>6. QED
      BY <2>4, <3>3, <3>4, <3>5 DEF IsCurrent
  <2>9. QED
    BY <2>7, <2>8
<1>7. \A k \in Nat : k \in T
  BY <1>5, <1>6, SetInduction
<1>8. QED
  BY <1>1, <1>3, <1>7

\* The linearizability checker rejects a history exactly for a stale read.
LEMMA ChecksExactly ==
    ASSUME TimesInv
    PROVE  RejectsExactly
<1>1. PICK cv : cv = CHOOSE f : f = [t \in 0 .. checkTime |->
             IF t = 0 THEN 0
             ELSE IF PutsEndedAt(t) = {} THEN f[t - 1] ELSE (CHOOSE op \in PutsEndedAt(t) : TRUE).value]
  OBVIOUS
<1>2. IsReplay(cv)
  BY <1>1, ReplayExists DEF IsReplay
<1>3. CheckKeyLinearization <=> \A op \in Completed : op.type = "get" => op.value = cv[op.end] \/ HasConcurrentPut(op)
  BY <1>1 DEF CheckKeyLinearization
<1>4. \A op \in Completed : HasConcurrentPut(op) <=> Overlapping(op) # {}
  BY DEF HasConcurrentPut, Overlapping
<1>5. ASSUME NEW op \in Completed, op.type = "get", Overlapping(op) = {}
      PROVE  op.value = cv[op.end] <=>
                IF EndedBefore(op) = {} THEN op.value = 0
                ELSE \E p \in EndedBefore(op) : op.value = p.value /\ \A q \in EndedBefore(op) : q.end <= p.end
  <2>1. op.end \in Nat /\ op.start \in Nat /\ op.start < op.end /\ op.end <= checkTime /\ checkTime \in Nat
    BY CompletedOps DEF CheckedOp, TimesInv
  <2>2. PICK P : P = {p \in Completed : p.type = "put" /\ p.end <= op.end}
    OBVIOUS
  <2>3. ASSUME NEW p \in Completed, p.type = "put" PROVE p.end <= op.end <=> p.end < op.start
    <3>1. p.end \in Nat /\ p.start \in Nat /\ p.start < p.end /\ op.start # p.end /\ (op.end = p.end => op = p)
      BY CompletedOps DEF CheckedOp
    <3>2. op.end # p.end
      BY <1>5, <2>3, <3>1
    <3>3. ~ (p.end > op.start /\ p.start < op.end)
      BY <1>5, <2>3 DEF Overlapping
    <3>4. QED
      BY <2>1, <3>1, <3>2, <3>3
  <2>4. P = EndedBefore(op)
    BY <2>2, <2>3 DEF EndedBefore
  <2>5. op.end \in 0 .. checkTime
    BY <2>1
  <2>6. IsCurrent(cv[op.end], op.end)
    BY <1>2, <2>5, ReplayIs
  <2>7. PICK v : v = cv[op.end]
    OBVIOUS
  <2>8. CASE P = {}
    <3>1. v = 0
      BY <2>2, <2>6, <2>7, <2>8 DEF IsCurrent
    <3>2. QED
      BY <2>4, <2>7, <2>8, <3>1
  <2>9. CASE P # {}
    <3>1. PICK p \in P : v = p.value /\ \A q \in P : q.end <= p.end
      BY <2>2, <2>6, <2>7, <2>9 DEF IsCurrent
    <3>2. ASSUME NEW o \in P, \A q \in P : q.end <= o.end PROVE o = p
      <4>1. o.end <= p.end /\ p.end <= o.end /\ o \in Completed /\ p \in Completed
        BY <2>2, <3>1, <3>2
      <4>2. o.end \in Nat /\ p.end \in Nat /\ (o.end = p.end => o = p)
        BY <4>1, CompletedOps DEF CheckedOp
      <4>3. QED
        BY <4>1, <4>2
    <3>3. op.value = v <=> \E o \in P : op.value = o.value /\ \A q \in P : q.end <= o.end
      BY <3>1, <3>2
    <3>4. QED
      BY <2>4, <2>7, <2>9, <3>3
  <2>10. QED
    BY <2>8, <2>9
<1>6. QED
  BY <1>3, <1>4, <1>5 DEF RejectsExactly

\* The durability check raises no false alarm.
LEMMA NeverFalselyAlarmed ==
    ASSUME TimesInv, RecordedInv
    PROVE  NoFalseAlarm
<1>1. SUFFICES ASSUME \A op \in Completed : op.type = "get" =>
                         \/ op.value \in {p.value : p \in Overlapping(op)}
                         \/ IF EndedBefore(op) = {} THEN op.value = 0
                            ELSE \E p \in EndedBefore(op) : /\ op.value = p.value
                                                            /\ \A q \in EndedBefore(op) : q.end <= p.end,
                      NEW i \in DOMAIN completions, completions[i].type = "get",
                      NEW writes, writes = {j \in 1 .. i - 1 : completions[j].type = "put"}, writes # {}
               PROVE  SeesLastWrite(completions[Max(writes)], completions[i])
  BY DEF NoFalseAlarm, CheckDurability
<1>2. i \in Nat /\ i \in 1 .. Len(completions) /\ Len(completions) \in Nat
  BY DEF RecordedInv
<1>3. PICK m \in writes : \A j \in writes : j <= m
  <2>1. writes \in SUBSET (0 .. i)
    BY <1>1, <1>2
  <2>2. QED
    BY <1>1, <1>2, <2>1, NatMax
<1>4. PICK w : w = Max(writes)
  OBVIOUS
<1>5. w \in writes
  BY <1>3, <1>4 DEF Max
<1>6. w \in DOMAIN completions /\ completions[w].type = "put"
  BY <1>1, <1>2, <1>5 DEF RecordedInv
<1>7. PICK p \in Completed : p = completions[w] /\ p.type = "put"
  BY <1>6 DEF RecordedInv
<1>8. PICK op \in Completed : op = completions[i] /\ op.type = "get"
  BY <1>1 DEF RecordedInv
<1>9. ASSUME p.end < op.start PROVE op.value # 0
  <2>1. \A q \in Completed : q.type = "put" => q.value # 0
    BY CompletedOps
  <2>2. EndedBefore(op) # {}
    BY <1>7, <1>9 DEF EndedBefore
  <2>3. \/ \E q \in Overlapping(op) : op.value = q.value
        \/ \E q \in EndedBefore(op) : op.value = q.value
    BY <1>1, <1>8, <2>2
  <2>4. QED
    BY <2>1, <2>3 DEF Overlapping, EndedBefore
<1>10. QED
  BY <1>4, <1>7, <1>8, <1>9 DEF SeesLastWrite

\* No step reuses a moment.
LEMMA TimesStep ==
    ASSUME TimesInv, RecordedInv, [CheckerNext]_checkerVars
    PROVE  TimesInv' /\ RecordedInv'
<1>1. PICK n \in Nat : n = Len(history) /\ DOMAIN history = 1 .. n
  BY DEF TimesInv
<1>2. PICK now \in Nat : now = checkTime
  BY DEF TimesInv
<1>3. ASSUME NEW i \in 1 .. n
      PROVE  /\ history[i] \in CheckedOp /\ history[i].start \in Nat /\ history[i].end \in Nat /\ history[i].value \in Nat
             /\ history[i].type \in {"put", "get", "failed"} /\ history[i].client \in Reader \cup {Writer}
             /\ history[i].start <= now /\ history[i].end <= now /\ history[i].start # 0
             /\ history[i].end # 0 => history[i].start < history[i].end
             /\ history[i].type = "put" => history[i].value # 0 /\ history[i].client = Writer
  <2>1. history[i] \in CheckedOp
    BY <1>1, ElementOfSeq DEF TimesInv
  <2>2. QED
    BY <1>1, <1>2, <2>1 DEF TimesInv, CheckedOp
<1>4. \A i, j \in 1 .. n : /\ history[i].start # history[j].end
                           /\ history[i].end # 0 /\ history[i].end = history[j].end => i = j
  BY <1>1 DEF TimesInv
<1>5. ASSUME NEW c \in Reader \cup {Writer}, Invoke(c) PROVE TimesInv' /\ RecordedInv'
  <2>1. PICK op : op = [client |-> c, type |-> IF c = Writer THEN "put" ELSE "get",
                        value |-> n + 1, start |-> now + 1, end |-> 0]
    OBVIOUS
  <2>2. /\ op \in CheckedOp /\ op.start = now + 1 /\ op.end = 0 /\ op.value = n + 1 /\ op.value # 0
        /\ op.type = "put" => op.client = Writer
    BY <2>1 DEF CheckedOp
  <2>3. history' = Append(history, op) /\ checkTime' = now + 1 /\ completions' = completions
    BY <1>1, <1>2, <1>5, <2>1 DEF Invoke
  <2>4. /\ history' \in Seq(CheckedOp) /\ Len(history') = n + 1 /\ DOMAIN history' = 1 .. n + 1
        /\ history'[n + 1] = op /\ \A i \in 1 .. n : history'[i] = history[i]
    BY <1>1, <2>2, <2>3, AppendProperties DEF TimesInv
  <2>5. \A i \in 1 .. n + 1 : i = n + 1 \/ i \in 1 .. n
    OBVIOUS
  <2>6. \A i \in 1 .. n + 1 :
          /\ history'[i].start <= now + 1 /\ history'[i].end <= now + 1
          /\ history'[i].start # 0
          /\ history'[i].end # 0 => history'[i].start < history'[i].end
          /\ history'[i].type = "put" => history'[i].value # 0 /\ history'[i].client = Writer
    BY <1>3, <2>2, <2>4, <2>5
  <2>7. ASSUME NEW i \in 1 .. n + 1, NEW j \in 1 .. n + 1
        PROVE  /\ history'[i].start # history'[j].end
               /\ history'[i].end # 0 /\ history'[i].end = history'[j].end => i = j
    <3>1. CASE i = n + 1 /\ j = n + 1
      BY <2>2, <2>4, <3>1
    <3>2. CASE i = n + 1 /\ j \in 1 .. n
      BY <1>3, <2>2, <2>4, <3>2
    <3>3. CASE i \in 1 .. n /\ j = n + 1
      BY <1>3, <2>2, <2>4, <3>3
    <3>4. CASE i \in 1 .. n /\ j \in 1 .. n
      BY <1>4, <2>4, <3>4
    <3>5. QED
      BY <2>5, <3>1, <3>2, <3>3, <3>4
  <2>8. TimesInv'
    BY <2>3, <2>4, <2>6, <2>7 DEF TimesInv
  <2>9. ASSUME NEW o \in Completed PROVE o \in Completed'
    <3>1. PICK i \in 1 .. n : o = history[i] /\ history[i].end # 0
      BY <1>1 DEF Completed
    <3>2. i \in DOMAIN history' /\ history'[i] = o
      BY <2>4, <3>1
    <3>3. QED
      BY <3>1, <3>2 DEF Completed
  <2>10. RecordedInv'
    BY <2>3, <2>9 DEF RecordedInv
  <2>11. QED
    BY <2>8, <2>10
\* One operation ends now.
<1>6. ASSUME NEW k \in 1 .. n, history[k].end = 0, NEW op \in CheckedOp,
             op.start = history[k].start, op.end = now + 1, op.type = "put" => op.value # 0 /\ op.client = Writer,
             checkTime' = now + 1, history' = [history EXCEPT ![k] = op],
             completions' = completions \/ completions' = Append(completions, op)
      PROVE  TimesInv' /\ RecordedInv'
  <2>1. history \in [1 .. n -> CheckedOp]
    BY <1>1 DEF TimesInv
  <2>2. history' \in [1 .. n -> CheckedOp] /\ history'[k] = op /\ \A i \in 1 .. n : i # k => history'[i] = history[i]
    BY <1>6, <2>1
  <2>3. history' \in Seq(CheckedOp) /\ DOMAIN history' = 1 .. n
    BY ONLY <2>2
  <2>4. ASSUME NEW i \in 1 .. n
        PROVE  /\ history'[i].start <= now + 1 /\ history'[i].end <= now + 1
               /\ history'[i].start # 0
               /\ history'[i].end # 0 => history'[i].start < history'[i].end
               /\ history'[i].type = "put" => history'[i].value # 0 /\ history'[i].client = Writer
    <3>1. CASE i = k
      BY <1>3, <1>6, <2>2, <3>1
    <3>2. CASE i # k
      BY <1>3, <2>2, <3>2
    <3>3. QED
      BY <3>1, <3>2
  <2>5. ASSUME NEW i \in 1 .. n, NEW j \in 1 .. n
        PROVE  /\ history'[i].start # history'[j].end
               /\ history'[i].end # 0 /\ history'[i].end = history'[j].end => i = j
    <3>1. CASE i = k /\ j = k
      BY <1>3, <1>6, <2>2, <3>1
    <3>2. CASE i = k /\ j # k
      BY <1>3, <1>4, <1>6, <2>2, <3>2
    <3>3. CASE i # k /\ j = k
      BY <1>3, <1>4, <1>6, <2>2, <3>3
    <3>4. CASE i # k /\ j # k
      BY <1>4, <2>2, <3>4
    <3>5. QED
      BY <3>1, <3>2, <3>3, <3>4
  <2>6. TimesInv'
    BY <1>6, <2>3, <2>4, <2>5 DEF TimesInv
  <2>7. ASSUME NEW o \in Completed PROVE o \in Completed'
    <3>1. PICK i \in 1 .. n : o = history[i] /\ history[i].end # 0
      BY <1>1 DEF Completed
    <3>2. i \in DOMAIN history' /\ history'[i] = o
      BY <1>6, <2>2, <2>3, <3>1
    <3>3. QED
      BY <3>1, <3>2 DEF Completed
  <2>8. op \in Completed'
    BY <1>6, <2>2, <2>3 DEF Completed
  <2>9. RecordedInv'
    <3>1. CASE completions' = completions
      BY <2>7, <3>1 DEF RecordedInv
    <3>2. CASE completions' = Append(completions, op)
      <4>1. PICK m \in Nat : m = Len(completions)
        BY DEF RecordedInv
      <4>2. /\ completions' \in Seq(CheckedOp) /\ DOMAIN completions' = 1 .. m + 1 /\ completions'[m + 1] = op
            /\ \A i \in 1 .. m : completions'[i] = completions[i]
        BY <3>2, <4>1, AppendProperties DEF RecordedInv
      <4>3. \A i \in 1 .. m : completions[i] \in Completed
        BY <4>1 DEF RecordedInv
      <4>4. \A i \in 1 .. m + 1 : i = m + 1 \/ i \in 1 .. m
        OBVIOUS
      <4>5. \A i \in 1 .. m + 1 : completions'[i] \in Completed'
        BY <2>7, <2>8, <4>2, <4>3, <4>4
      <4>6. QED
        BY <4>2, <4>5 DEF RecordedInv
    <3>3. QED
      BY <1>6, <3>1, <3>2
  <2>10. QED
    BY <2>6, <2>9
<1>7. ASSUME NEW c \in Reader \cup {Writer}, NEW v \in ReadValue, Complete(c, v) PROVE TimesInv' /\ RecordedInv'
  <2>1. PICK k \in OpenOps(c) :
          /\ checkTime' = checkTime + 1
          /\ history' = [history EXCEPT ![k] = [history[k] EXCEPT !.end = checkTime + 1, !.value = IF c = Writer THEN @ ELSE v]]
          /\ completions' = Append(completions, [history[k] EXCEPT !.end = checkTime + 1, !.value = IF c = Writer THEN @ ELSE v])
    BY <1>7 DEF Complete
  <2>2. k \in 1 .. n /\ history[k].end = 0 /\ history[k].client = c
    BY <1>1 DEF OpenOps
  <2>3. PICK op : op = [history[k] EXCEPT !.end = checkTime + 1, !.value = IF c = Writer THEN @ ELSE v]
    OBVIOUS
  <2>4. v \in Nat
    BY CheckerAssumption DEF ReadValue
  <2>5. op = [client |-> history[k].client, type |-> history[k].type,
              value |-> IF c = Writer THEN history[k].value ELSE v, start |-> history[k].start, end |-> now + 1]
    <3>1. history[k] \in [client : Reader \cup {Writer}, type : {"put", "get", "failed"}, value : Nat, start : Nat, end : Nat]
      BY <1>3, <2>2 DEF CheckedOp
    <3>2. QED
      BY <1>2, <2>3, <3>1
  <2>6. op \in CheckedOp
    BY <1>3, <2>2, <2>4, <2>5 DEF CheckedOp
  <2>7. op.type = "put" => op.value # 0 /\ op.client = Writer
    BY <1>3, <2>2, <2>5
  <2>8. op.start = history[k].start /\ op.end = now + 1
    BY <2>5
  <2>9. checkTime' = now + 1 /\ history' = [history EXCEPT ![k] = op] /\ completions' = Append(completions, op)
    BY <1>2, <2>1, <2>3
  <2>10. QED
    BY <1>6, <2>2, <2>6, <2>7, <2>8, <2>9
<1>8. ASSUME NEW c \in Reader \cup {Writer}, Fail(c) PROVE TimesInv' /\ RecordedInv'
  <2>1. PICK k \in OpenOps(c) :
          /\ checkTime' = checkTime + 1
          /\ history' = [history EXCEPT ![k].end = checkTime', ![k].type = "failed"]
          /\ UNCHANGED completions
    BY <1>8 DEF Fail
  <2>2. k \in 1 .. n /\ history[k].end = 0
    BY <1>1 DEF OpenOps
  <2>3. PICK op : op = [client |-> history[k].client, type |-> "failed", value |-> history[k].value,
                        start |-> history[k].start, end |-> now + 1]
    OBVIOUS
  <2>4. history' = [history EXCEPT ![k] = op]
    <3>1. history[k] \in [client : Reader \cup {Writer}, type : {"put", "get", "failed"}, value : Nat, start : Nat, end : Nat]
      BY <1>3, <2>2 DEF CheckedOp
    <3>2. op = [history[k] EXCEPT !.end = now + 1, !.type = "failed"]
      <4>1. PICK o : o = [history[k] EXCEPT !.end = now + 1, !.type = "failed"]
        OBVIOUS
      <4>2. o = [client |-> history[k].client, type |-> "failed", value |-> history[k].value,
                 start |-> history[k].start, end |-> now + 1]
        BY <3>1, <4>1
      <4>3. QED
        BY <2>3, <4>1, <4>2
    <3>3. history \in [1 .. n -> CheckedOp]
      BY <1>1 DEF TimesInv
    <3>4. [history EXCEPT ![k].end = checkTime', ![k].type = "failed"] = [history EXCEPT ![k] = op]
      BY <1>2, <2>1, <2>2, <3>2, <3>3
    <3>5. QED
      BY <2>1, <3>4
  <2>5. /\ op \in CheckedOp /\ op.start = history[k].start /\ op.end = now + 1
        /\ op.type = "put" => op.value # 0 /\ op.client = Writer
    BY <1>3, <2>2, <2>3 DEF CheckedOp
  <2>6. checkTime' = now + 1 /\ completions' = completions
    BY <1>2, <2>1
  <2>7. QED
    BY <1>6, <2>2, <2>4, <2>5, <2>6
<1>9. CASE UNCHANGED checkerVars
  BY <1>9 DEF checkerVars, TimesInv, RecordedInv, Completed
<1>10. QED
  BY <1>5, <1>7, <1>8, <1>9 DEF CheckerNext

\* Whatever a store answers, and however operations overlap or fail, the linearizability
\* checker rejects a history of a key exactly for a read that overlaps no put and is
\* stale, and the durability check raises no false alarm, for any number of readers and
\* operations (checkKeyLinearization, checkDurability).
THEOREM VerdictsRight == CheckerSpec => []VerdictsAreRight
<1>1. CheckerInit => CheckerInv
  <2>1. SUFFICES ASSUME CheckerInit PROVE CheckerInv
    OBVIOUS
  <2>2. history = <<>> /\ completions = <<>> /\ checkTime = 0
    BY <2>1 DEF CheckerInit
  <2>3. /\ history \in Seq(CheckedOp) /\ DOMAIN history = {}
        /\ completions \in Seq(CheckedOp) /\ DOMAIN completions = {}
    BY <2>2
  <2>4. QED
    BY <2>2, <2>3 DEF CheckerInv, TimesInv, RecordedInv
<1>2. CheckerInv /\ [CheckerNext]_checkerVars => CheckerInv'
  BY TimesStep DEF CheckerInv
<1>3. CheckerInv => VerdictsAreRight
  BY ChecksExactly, NeverFalselyAlarmed DEF CheckerInv, VerdictsAreRight
<1>4. QED
  BY <1>1, <1>2, <1>3, PTL DEF CheckerSpec
=============================================================================
