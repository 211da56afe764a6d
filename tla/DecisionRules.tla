---------------------------- MODULE DecisionRules ----------------------------
(***************************************************************************)
(* The deterministic part of a decision: how a provider error becomes a    *)
(* failure category, which actions are candidates, and which candidate the *)
(* ranking by expected net recovery and the policy gate select.            *)
(***************************************************************************)
EXTENDS Integers, Sequences, FiniteSets, PolicyEngine

-----------------------------------------------------------------------------
(* Classification of the error of a failed payment.                        *)

\* The texts looked for in an error_reason ("timeout" stands for "declined by
\* bank" as well, "funds" for "insufficient" and "balance"); "" is a null.
Keyword == {"timeout", "expired", "authentication", "authentication failed", "funds"}
ErrorReason == SUBSET Keyword \cup {{""}}
ErrorCode   == {"REQUEST_OR_GATEWAY", "AUTHENTICATION_FAILED", "NON_RETRIABLE", "OTHER", ""}

Class(category, retryability) == [category |-> category, retryability |-> retryability]
Transient == Class("TRANSIENT_TECHNICAL", "IMMEDIATE_RETRY_POSSIBLE")
Final     == Class("NON_RETRIABLE", "BLOCKED")
Customer  == Class("CUSTOMER_ACTION_REQUIRED", "REQUIRES_NEW_METHOD")

\* A null that is lowered to lower case raises; the cycle ends there.
Unclassifiable(code, reason) ==
    \/ code = ""
    \/ reason = {""} /\ code # "AUTHENTICATION_FAILED"

\* What the customer can mend.
Returnable == {"authentication", "authentication failed", "funds"}
GatewayClass(reason) ==
    CASE "timeout" \in reason        -> Transient
      [] "timeout" \notin reason /\ "expired" \in reason -> Final
      [] {"timeout", "expired"} \cap reason = {} /\ Returnable \cap reason # {}
                                     -> Customer
      [] OTHER                       -> Class("UNKNOWN", "LATER_RETRY_POSSIBLE")

Classify(code, reason) ==
    CASE code = "REQUEST_OR_GATEWAY" -> GatewayClass(reason)
      [] code = "AUTHENTICATION_FAILED" \/ "authentication failed" \in reason -> Customer
      [] code = "NON_RETRIABLE" \/ "expired" \in reason -> Final
      [] OTHER                       -> Class("UNKNOWN", "BLOCKED")

\* DeterministicBaseline.decide.
BaselineOf(domain, class) ==
    LET category == class.category
        retry    == class.retryability
    IN
    CASE category = "TRANSIENT_TECHNICAL" /\ retry = "LATER_RETRY_POSSIBLE" -> "RETRY_LATER"
      [] category = "TRANSIENT_TECHNICAL" /\ retry = "IMMEDIATE_RETRY_POSSIBLE" -> "RETRY_NOW"
      [] category = "UNKNOWN" /\ (domain = "B2B" \/ retry # "BLOCKED") -> "ESCALATE_TO_HUMAN"
      [] category = "CUSTOMER_ACTION_REQUIRED" /\ retry # "BLOCKED" -> "GENERATE_PAYMENT_LINK"
      [] category = "PAYMENT_METHOD_PROBLEM" /\ retry # "BLOCKED" ->
             "REQUEST_PAYMENT_METHOD_UPDATE"
      [] OTHER -> "STOP_RECOVERY"

-----------------------------------------------------------------------------
(* Health of a payment route from the failures seen in the window.         *)

\* Every signal the engine records is a failure, so the rate is 1 and only the
\* sample count decides.
RouteHealth(failures) ==
    IF failures >= 5 THEN "CRITICAL" ELSE IF failures >= 3 THEN "DEGRADED" ELSE "OPERATIONAL"

-----------------------------------------------------------------------------
(* Candidates.  A context is                                               *)
(*   [domain, class, baseline, route, amount, history]                     *)
(* where amount is in major units and history the precedents found: at     *)
(* most five, so only five of one action make an empirical rate.  An answer*)
(* is the sequence of distinct actions of the language model, the          *)
(* recommended one first, and is empty when it is unusable.                *)

MaxCandidates == 5
StandardPool == <<"GENERATE_PAYMENT_LINK", "SEND_REMINDER", "REQUEST_PAYMENT_METHOD_UPDATE",
                  "RETRY_LATER", "STOP_RECOVERY">>

\* Mutant: the health of the route is left to the policy engine.
EligibleByCase(action, ctx) ==
    /\ ~(ctx.class.category = "NON_RETRIABLE" /\ action \in Retries)
    /\ ~(ctx.domain = "EMPLOYEE" /\ action = "GENERATE_PAYMENT_LINK")
Eligible(action, ctx) ==
    /\ ~(ctx.class.category = "NON_RETRIABLE" /\ action \in Retries)
    /\ ~(ctx.domain = "EMPLOYEE" /\ action = "GENERATE_PAYMENT_LINK")
    /\ ~(ctx.route \in {"DEGRADED", "CRITICAL"} /\ action = "RETRY_NOW")

Proposed(answer, ctx) == IF answer = <<>> THEN <<ctx.baseline>> ELSE answer
Offered(answer, ctx)  == Proposed(answer, ctx) \o <<ctx.baseline>> \o StandardPool

\* The place of an action in a list.
Place(list, action) ==
    CHOOSE i \in DOMAIN list : list[i] = action /\ \A j \in 1..(i - 1) : list[j] # action

Candidates(answer, ctx) ==
    LET list == Offered(answer, ctx)
        eligible == {list[i] : i \in {i \in DOMAIN list : Eligible(list[i], ctx)}}
    IN {a \in eligible :
            Cardinality({b \in eligible : Place(list, b) < Place(list, a)}) < MaxCandidates}

-----------------------------------------------------------------------------
(* Ranking and selection.                                                  *)

MinHistory == 5
Prior == 3 \* of 5
NoHistory == [action |-> "WAIT", count |-> 0, recovered |-> 0]
\* The probability of recovery, in fifths.
Probability(action, history) ==
    IF history.action = action /\ history.count >= MinHistory THEN history.recovered ELSE Prior

OperationalCost == 10
RiskPenalty     == 5
\* Expected net recovery, in fifths of a major unit.
NetRecovery(action, ctx) ==
    Probability(action, ctx.history) * ctx.amount - 5 * (OperationalCost + RiskPenalty)

Tier == [GENERATE_PAYMENT_LINK |-> 1, REQUEST_PAYMENT_METHOD_UPDATE |-> 2, SEND_REMINDER |-> 3,
         RETRY_LATER |-> 4, WAIT |-> 5, RETRY_NOW |-> 5, ESCALATE_TO_HUMAN |-> 6,
         STOP_RECOVERY |-> 7]
\* Mutant: the baseline has no place of its own.
TierOnly(action, ctx) == Tier[action]
TiePriority(action, ctx) == IF action = ctx.baseline THEN 0 ELSE Tier[action]

\* The sort is stable: the last word is the order of the candidates.
RanksBefore(a, b, list, ctx) ==
    \/ NetRecovery(a, ctx) > NetRecovery(b, ctx)
    \/ /\ NetRecovery(a, ctx) = NetRecovery(b, ctx)
       /\ \/ TiePriority(a, ctx) < TiePriority(b, ctx)
          \/ /\ TiePriority(a, ctx) = TiePriority(b, ctx)
             /\ Place(list, a) < Place(list, b)

FirstOf(actions, list, ctx) ==
    CHOOSE a \in actions : \A b \in actions \ {a} : RanksBefore(a, b, list, ctx)

VerdictOn(action, ctx) == Evaluate(action, ctx.domain, ctx.class.category, ctx.route)

\* The first candidate the policy lets pass; without one, STOP_RECOVERY is
\* approved.
Decide(answer, ctx) ==
    LET admitted == {a \in Candidates(answer, ctx) : VerdictOn(a, ctx).status # "REJECTED"}
        action == IF admitted = {} THEN "STOP_RECOVERY"
                  ELSE FirstOf(admitted, Offered(answer, ctx), ctx)
    IN [action |-> action,
        verdict |-> IF admitted = {} THEN Verdict("APPROVED", "FULL_AUTO")
                    ELSE VerdictOn(action, ctx)]

=============================================================================
