------------------------------- MODULE MCTxn -------------------------------
(***************************************************************************)
(* The transaction package for model checking.  Its parts share no state    *)
(* and do not call one another: `part' says which of them this behaviour    *)
(* exercises, the others stay in their initial states.                      *)
(***************************************************************************)
EXTENDS LockManager, TwoPC, TwoPhaseCommit, Percolator, SSI, Saga, TSO

VARIABLE part

MCTxnVars == <<part, lockVars, twoPCVars, tpcVars, percVars, ssiVars, sagaVars, tsoVars>>

MCTxnInit ==
    /\ part \in {"locks", "twopc", "tpc", "percolator", "ssi", "saga", "tso"}
    /\ LockInit /\ TwoPCInit /\ TPCInit /\ PercInit /\ SSIInit /\ SagaInit /\ TSOInit

MCTxnNext ==
    /\ UNCHANGED part
    /\ IF part = "locks" THEN LockNext ELSE UNCHANGED lockVars
    /\ IF part = "twopc" THEN TwoPCNext ELSE UNCHANGED twoPCVars
    /\ IF part = "tpc" THEN TPCNext ELSE UNCHANGED tpcVars
    /\ IF part = "percolator" THEN PercNext ELSE UNCHANGED percVars
    /\ IF part = "ssi" THEN SSINext ELSE UNCHANGED ssiVars
    /\ IF part = "saga" THEN SagaNext ELSE UNCHANGED sagaVars
    /\ IF part = "tso" THEN TSONext ELSE UNCHANGED tsoVars

MCTxnSpec ==
    /\ MCTxnInit /\ [][MCTxnNext]_MCTxnVars
    /\ TwoPCFairness /\ PercFairness /\ SagaFairness
=============================================================================
