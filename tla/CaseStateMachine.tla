-------------------------- MODULE CaseStateMachine --------------------------
(***************************************************************************)
(* The lifecycle of a recovery case: the statuses a RecoveryCase row may   *)
(* hold and the transitions CaseStateMachine.transition_to accepts.  A     *)
(* transition that is not listed raises StateTransitionError; the callers  *)
(* that model one test CanTransition and say what they do with the error.  *)
(***************************************************************************)

CaseStatus ==
    {"OPEN", "RISK_ASSESSED", "PENDING_APPROVAL", "RECOVERED", "FAILED", "CLOSED"}

ALLOWED_TRANSITIONS ==
    [ OPEN             |-> {"RISK_ASSESSED", "RECOVERED", "CLOSED"},
      RISK_ASSESSED    |-> {"PENDING_APPROVAL", "RECOVERED", "FAILED", "CLOSED"},
      PENDING_APPROVAL |-> {"RECOVERED", "FAILED", "CLOSED"},
      RECOVERED        |-> {},
      FAILED           |-> {},
      CLOSED           |-> {} ]

\* The statuses the execution preflight and the agent gateway refuse to act on.
TerminalStatus == {"RECOVERED", "FAILED", "CLOSED"}

CanTransition(from, to) == to \in ALLOWED_TRANSITIONS[from]

=============================================================================
