--------------------------- MODULE RecoveryOutcomes ---------------------------
(***************************************************************************)
(* How a provider result becomes a RecoveryOutcome and a RecoveryOutcome a *)
(* RecoveryMeasurement (services/recovery.py).  Amounts are in minor units.*)
(***************************************************************************)
EXTENDS Integers

LOCAL D == INSTANCE DecisionRules

OutcomeStatus  == {"RECOVERED", "PARTIALLY_RECOVERED", "FAILED", "UNKNOWN"}
RecoverySource == {"ACTION_ATTRIBUTED", "ORGANIC_RECOVERY", "BASELINE_RECOVERY", "UNKNOWN_ATTRIBUTION"}
Recovered      == {"RECOVERED", "PARTIALLY_RECOVERED"}

\* NO_RECOVERY cannot come out: an amount of 0 is a partial recovery first.
StatusOf(result, amount, total) ==
    CASE result = "SUCCEEDED" /\ amount < total    -> "PARTIALLY_RECOVERED"
      [] result = "SUCCEEDED" /\ ~(amount < total) -> "RECOVERED"
      [] result = "FAILED"                         -> "FAILED"
      [] OTHER                                     -> "UNKNOWN"

\* Mutant: the window is not looked at.
SourceWhenever(status, attempted, since, window) ==
    IF status \in Recovered /\ attempted THEN "ACTION_ATTRIBUTED"
    ELSE IF status \in Recovered THEN "ORGANIC_RECOVERY" ELSE "UNKNOWN_ATTRIBUTION"
\* attempted: there is an Action; since: the time from its creation to the
\* recovery.
SourceOf(status, attempted, since, window) ==
    LET organic == ~attempted \/ since < 0 IN
    CASE status \notin Recovered                           -> "UNKNOWN_ATTRIBUTION"
      [] status \in Recovered /\ organic                  -> "ORGANIC_RECOVERY"
      [] status \in Recovered /\ ~organic /\ since > window -> "UNKNOWN_ATTRIBUTION"
      [] OTHER                                             -> "ACTION_ATTRIBUTED"

\* What counts as recovered: the amount of the event when it states one, else
\* that of the case, and nothing for a result that is no success.
Unstated == -1
AmountOf(result, stated, total) ==
    IF result # "SUCCEEDED" THEN 0 ELSE IF stated = Unstated THEN total ELSE stated

-----------------------------------------------------------------------------
(* Measurement.                                                            *)

Protected == {"NON_RETRIABLE", "RISK_OR_FRAUD"}
\* assign_experiment: the hash of the case decides whether an active experiment
\* holds it out, except for the categories that are never held out.
Variant(category, held) ==
    IF held /\ category \notin Protected THEN "CONTROL" ELSE "TREATMENT"

\* get_deterministic_baseline takes 5% of an amount that its callers give in
\* major units, and the measurement stores the result as minor units.
Baseline(domain, class, total) ==
    IF D!BaselineOf(domain, class) = "STOP_RECOVERY" THEN 0 ELSE total \div 2000

AtLeastZero(n) == IF n < 0 THEN 0 ELSE n

Measure(amount, variant, baseline) ==
    [treatment |-> IF variant = "CONTROL" THEN 0 ELSE amount,
     control |-> IF variant = "CONTROL" THEN amount ELSE 0,
     incremental |-> IF variant = "CONTROL" THEN 0 ELSE AtLeastZero(amount - baseline)]

=============================================================================
