-------------------------------- MODULE Saga --------------------------------
(***************************************************************************)
(* One saga of SagaOrchestrator, pkg/txn/saga.go: steps that are executed   *)
(* in order and retried, and compensated in reverse order when one fails.   *)
(* A step's functions are the client's: each call may succeed or fail.      *)
(***************************************************************************)
EXTENDS Naturals

CONSTANTS
    Steps,           \* number of steps
    RetryCount,      \* retries of a step
    Compensable      \* steps with a Compensate function

ASSUME SagaAssumption ==
    /\ Steps \in Nat \ {0} /\ RetryCount \in Nat /\ Compensable \subseteq 1 .. Steps

VARIABLES
    sagaState,       \* SagaExecution.State
    currentStep,     \* the step being executed or compensated, 0 when none is left
    attempt,         \* executeStepWithRetry's counter
    sagaCancelled,   \* ctx is done
    inEffect,        \* steps whose Execute succeeded and whose Compensate did not
    stuck            \* a compensation failed

sagaVars == <<sagaState, currentStep, attempt, sagaCancelled, inEffect, stuck>>

SagaInit ==
    /\ sagaState = "pending"
    /\ currentStep = 1
    /\ attempt = 0
    /\ sagaCancelled = FALSE
    /\ inEffect = {}
    /\ stuck = FALSE

Execute ==
    /\ sagaState = "pending"
    /\ sagaState' = "running"
    /\ UNCHANGED <<currentStep, attempt, sagaCancelled, inEffect, stuck>>

StepSucceeds ==
    /\ sagaState = "running"
    /\ inEffect' = inEffect \cup {currentStep}
    /\ attempt' = 0
    /\ IF currentStep = Steps
       THEN sagaState' = "completed" /\ UNCHANGED currentStep
       ELSE currentStep' = currentStep + 1 /\ UNCHANGED sagaState
    /\ UNCHANGED <<sagaCancelled, stuck>>

\* Mutant: the compensation begins one step too early.
GiveUpMutant ==
    /\ sagaState' = "compensating"
    /\ currentStep' = IF currentStep > 1 THEN currentStep - 2 ELSE 0

\* The failed step itself is not compensated.
GiveUp ==
    /\ sagaState' = "compensating"
    /\ currentStep' = currentStep - 1

\* An attempt fails: it is retried after a delay, unless ctx is done meanwhile.
StepFails ==
    /\ sagaState = "running"
    /\ IF attempt < RetryCount /\ ~sagaCancelled
       THEN attempt' = attempt + 1 /\ UNCHANGED <<sagaState, currentStep>>
       ELSE GiveUp /\ UNCHANGED attempt
    /\ UNCHANGED <<sagaCancelled, inEffect, stuck>>

Cancel ==
    /\ ~sagaCancelled
    /\ sagaCancelled' = TRUE
    /\ UNCHANGED <<sagaState, currentStep, attempt, inEffect, stuck>>

\* Compensation does not listen to ctx.
CompensateStep ==
    /\ sagaState = "compensating" /\ currentStep > 0
    /\ inEffect' = IF currentStep \in Compensable THEN inEffect \ {currentStep} ELSE inEffect
    /\ currentStep' = currentStep - 1
    /\ UNCHANGED <<sagaState, attempt, sagaCancelled, stuck>>

\* The rest is left as it is.
CompensationFails ==
    /\ sagaState = "compensating" /\ currentStep \in Compensable
    /\ sagaState' = "failed"
    /\ stuck' = TRUE
    /\ UNCHANGED <<currentStep, attempt, sagaCancelled, inEffect>>

SagaFails ==
    /\ sagaState = "compensating" /\ currentStep = 0
    /\ sagaState' = "failed"
    /\ UNCHANGED <<currentStep, attempt, sagaCancelled, inEffect, stuck>>

SagaNext ==
    \/ Execute \/ StepSucceeds \/ StepFails \/ Cancel
    \/ CompensateStep \/ CompensationFails \/ SagaFails

\* The orchestrator's goroutine runs.
SagaFairness ==
    WF_sagaVars(StepSucceeds \/ StepFails \/ CompensateStep \/ CompensationFails \/ SagaFails)

SagaSpec == SagaInit /\ [][SagaNext]_sagaVars

-----------------------------------------------------------------------------
\* Whatever steps failed, were retried or cancelled, a saga ends in one of three ways:
\* everything is in effect, nothing that has a compensation is, or a compensation
\* failed and what is left is a prefix of the steps (Execute, compensate).
AllOrNothing ==
    /\ sagaState = "completed" => inEffect = 1 .. Steps
    /\ sagaState = "failed" /\ ~stuck => inEffect \cap Compensable = {}
    /\ sagaState = "failed" /\ stuck =>
          inEffect \cap Compensable = (1 .. currentStep) \cap Compensable

\* A saga that was started ends, since retries are bounded, and ends in one of these ways.
SagaEnds ==
    sagaState = "running" ~> sagaState \in {"completed", "failed"} /\ AllOrNothing
=============================================================================
