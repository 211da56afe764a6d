--------------------------- MODULE RecoveryReports ---------------------------
(***************************************************************************)
(* What the recovery API, the dashboard and the agent say about the cases  *)
(* of a tenant, from the rows they read: cases as [status, stage], Actions *)
(* as [case, status], RecoveryOutcomes and RecoveryMeasurements.           *)
(***************************************************************************)
EXTENDS Integers, FiniteSets, FiniteSetsExt, CaseStateMachine, RecoveryOutcomes

TotalOf(set, amount(_)) == MapThenSumSet(amount, set)
OutcomesOf(c, outcomes) == {o \in outcomes : o.case = c}
Paid(outcomes)          == {o \in outcomes : o.status \in Recovered}

-----------------------------------------------------------------------------
(* Tenant-wide figures: GET /v1/recovery/metrics and the dashboard.        *)

Revenue(outcomes) == TotalOf(Paid(outcomes), LAMBDA o : o.amount)
Waiting(cases)    == {c \in DOMAIN cases : cases[c].stage = "WAITING_FOR_PAYMENT"}

Metrics(cases, totals, outcomes, measurements) ==
    LET total(c) == totals[c]
    IN [payments    |-> Cardinality(Paid(outcomes)),
        revenue     |-> Revenue(outcomes),
        attributed  |-> Cardinality({o \in Paid(outcomes) : o.source = "ACTION_ATTRIBUTED"}),
        atRisk      |-> TotalOf(DOMAIN cases, total),
        waiting     |-> TotalOf(Waiting(cases), total),
        treatment   |-> TotalOf(measurements, LAMBDA m : m.treatment),
        control     |-> TotalOf(measurements, LAMBDA m : m.control),
        incremental |-> TotalOf(measurements, LAMBDA m : m.incremental)]

\* The funnel of the dashboard: every case that is not closed is eligible,
\* every Action that is not cancelled makes its case an actioned one.
Funnel(cases, totals, actions, outcomes) ==
    LET total(c) == totals[c]
        eligible == {c \in DOMAIN cases : cases[c].status \notin {"CLOSED", "FAILED"}}
        actioned == {actions[a].case : a \in {a \in DOMAIN actions :
                                                 actions[a].status # "CANCELLED"}}
    IN <<TotalOf(DOMAIN cases, total), TotalOf(eligible, total), TotalOf(actioned, total),
         Revenue(outcomes)>>

-----------------------------------------------------------------------------
(* One case: GET /v1/recovery/cases/{id}, .../outcome, .../full.           *)

\* scalar_one_or_none raises when a case has several outcomes.
Answerable(c, outcomes) == Cardinality(OutcomesOf(c, outcomes)) < 2

-----------------------------------------------------------------------------
(* The agent.  A question is the set of intents its words match; it names  *)
(* a case (target), comes from the page of a case (target again), or is    *)
(* about the workspace.                                                    *)

Workspace == "workspace"
Intents == {"greeting", "metrics", "execute", "now", "link", "amount", "rejected", "health",
            "preview", "pending"}

\* A greeting is none when the words ask for the figures or for a link; it may
\* still precede "run recovery" and most other requests.
Questions == {q \in SUBSET Intents : "greeting" \in q => q \cap {"metrics", "link"} = {}}

Order == <<"greeting", "metrics", "empty", "execute", "now", "details", "link", "amount",
           "rejected", "health", "preview", "pending", "default">>

\* The branches whose condition holds; the first of them answers.
Matching(q, target, cases) ==
    (IF target = Workspace THEN q ELSE (q \ {"now"}) \cup {"details"})
      \cup {"default"}
      \cup IF cases = {} /\ "health" \notin q THEN {"empty"} ELSE {}

Branch(q, target, cases) ==
    LET matching == Matching(q, target, cases)
        first == CHOOSE i \in DOMAIN Order :
                     /\ Order[i] \in matching
                     /\ \A j \in 1..(i - 1) : Order[j] \notin matching
    IN Order[first]

\* A request of the workspace is for the first case that is open, if there is
\* one, and else for the first of all.
Defaults(cases) ==
    LET open == {c \in DOMAIN cases : cases[c].status \notin {"RECOVERED", "FAILED", "CLOSED"}}
    IN IF open = {} THEN DOMAIN cases ELSE open

\* The questions that cannot be answered.  The branch of a case, and that of a
\* request for a recovered one, read the outcome of the case; an exception
\* becomes an OPERATIONAL_ERROR event.
Failing(target, about, cases, outcomes) ==
    IF Answerable(about, outcomes) THEN {}
    ELSE {q \in Questions :
              LET branch == Branch(q, target, DOMAIN cases) IN
              branch = "details" \/ (branch = "execute" /\ cases[about].status = "RECOVERED")}

=============================================================================
