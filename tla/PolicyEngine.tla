---------------------------- MODULE PolicyEngine ----------------------------
(***************************************************************************)
(* The deterministic safety gate of ARIV and the vocabulary it shares with *)
(* the decision cycle: recovery actions, failure categories, domains,      *)
(* policy verdicts.  Evaluate is PolicyEngine.evaluate; every path to the  *)
(* provider (decision cycle, preflight, tool gateway) calls it.            *)
(***************************************************************************)

RecoveryAction ==
    {"RETRY_NOW", "RETRY_LATER", "REQUEST_PAYMENT_METHOD_UPDATE",
     "GENERATE_PAYMENT_LINK", "SEND_REMINDER", "ESCALATE_TO_HUMAN", "WAIT",
     "STOP_RECOVERY"}

FailureCategory ==
    {"TRANSIENT_TECHNICAL", "CUSTOMER_ACTION_REQUIRED", "PAYMENT_METHOD_PROBLEM",
     "PROVIDER_DEGRADATION", "MERCHANT_CONFIGURATION", "RISK_OR_FRAUD",
     "NON_RETRIABLE", "UNKNOWN"}

RecoveryDomain == {"B2C", "B2B", "EMPLOYEE", "PLATFORM", "PARTNER"}
PolicyStatus   == {"APPROVED", "REJECTED", "NEEDS_REVIEW"}
AutonomyLevel  == {"FULL_AUTO", "HUMAN_APPROVAL", "SUGGESTION_ONLY"}
RouteStatus    == {"NONE", "OPERATIONAL", "DEGRADED", "CRITICAL"}

Retries == {"RETRY_NOW", "RETRY_LATER"}

Verdict(status, autonomy) == [status |-> status, autonomy |-> autonomy]

\* The conditions under which evaluate rejects an action, whatever their order.
Forbidden(action, domain, category, route) ==
    \/ category = "NON_RETRIABLE" /\ action \in Retries
    \/ domain = "EMPLOYEE" /\ action = "GENERATE_PAYMENT_LINK"
    \/ /\ route \in {"DEGRADED", "CRITICAL"}
       /\ action = "RETRY_NOW"
       /\ domain # "B2B"          \* the B2B rule is met first

Evaluate(action, domain, category, route) ==
    IF Forbidden(action, domain, category, route)
    THEN Verdict("REJECTED", "SUGGESTION_ONLY")
    ELSE IF domain = "B2B" /\ action \in Retries
    THEN Verdict("NEEDS_REVIEW", "HUMAN_APPROVAL")
    ELSE Verdict("APPROVED", "FULL_AUTO")

=============================================================================
