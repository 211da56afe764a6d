--------------------------- MODULE PaymentOutcomes ---------------------------
(***************************************************************************)
(* From a payment to the figures on the dashboard: the events of a payment *)
(* are handled by concurrent sessions (_handle_payment_success_event), an  *)
(* outcome and a measurement are recorded (RecoveryService), and the API   *)
(* and the agent report them.                                              *)
(*                                                                         *)
(* Links come from the Actions of the decision cycle (Own), from those the *)
(* agent makes (Asked), and from requests whose link was made and whose    *)
(* Action was rolled back (Ghosts).  A link's notes name its case and its  *)
(* Action.  Executors appear by what they read first and what they commit: *)
(* ExecutionOutbox and ToolGateway have their statements.                  *)
(***************************************************************************)
EXTENDS RowLocks, RecoveryReports

CONSTANTS Cases, Own, Asked, Ghosts,
          CaseOf,     \* the case of each link
          Total,      \* the amount of each case
          LinkAmount, \* the amount of each link
          Facts,      \* domain and classification of each case
          Held,       \* cases whose hash is above the allocation of the active experiment
          Payments, Kinds,
          Events,     \* which kinds of event the provider sends of which payment
          Window, MaxTime, MaxFaults,  \* bounds: time, failed sessions
          NoAction

Actions == Own \cup Asked
Links   == Actions \cup Ghosts

ASSUME OutcomeAssumption ==
    /\ Own \cap Asked = {} /\ Actions \cap Ghosts = {}
    /\ CaseOf \in [Links -> Cases] /\ Total \in [Cases -> Nat]
    /\ LinkAmount \in [Links -> Nat \ {0}]
    /\ \A a \in Own : Total[CaseOf[a]] \in {0, LinkAmount[a]}
    /\ Held \subseteq Cases
    /\ IsFiniteSet(Actions) /\ IsFiniteSet(Payments)
    /\ Events \subseteq Payments \X Kinds
    /\ NoTx \notin Events \cup Links /\ NoAction \notin Links \cup Cases
    /\ Links \cap Events = {}
    /\ Window \in Nat /\ MaxTime \in Nat /\ MaxFaults \in Nat

VARIABLES
    case,         \* RecoveryCase rows: [status, stage, version]
    act,          \* Action rows: [status, at]
    links,        \* the links at the provider
    paid,         \* the payments: [link, at, own]
    outcomes,     \* committed RecoveryOutcomes
    measurements, \* committed RecoveryMeasurements
    exec,         \* what the executor of an own Action has loaded
    ev,           \* where the session of an event is
    seen,         \* what it has loaded: [case, row, action, status]
    draft,        \* the outcome and measurement it has written
    now, faults

rows   == <<case, act>>
tables == <<outcomes, measurements>>
events == <<ev, seen, draft>>
vars   == <<rows, links, paid, tables, exec, events, now, faults>>

NoDraft == [outcome |-> {}, measurement |-> {}]
Nothing == [case |-> NoAction, row |-> NoAction, action |-> NoAction, status |-> "NONE"]
\* An executor that is not at work remembers no row.
Ended(pc) == [pc |-> pc, version |-> 0]
Unpaid  == [link |-> NoAction, at |-> 0, own |-> TRUE]

Init ==
    /\ case = [c \in Cases |-> Unlocked([status |-> "RISK_ASSESSED", stage |-> "NONE",
                                         version |-> 0])]
    /\ act = [a \in Actions |-> Unlocked([status |-> IF a \in Own THEN "AUTHORIZED" ELSE "NONE",
                                          at |-> 0])]
    /\ links = {} /\ paid = [p \in Payments |-> Unpaid]
    /\ outcomes = {} /\ measurements = {}
    /\ exec = [a \in Own |-> Ended("idle")]
    /\ ev = [e \in Events |-> "due"]
    /\ seen = [e \in Events |-> Nothing]
    /\ draft = [e \in Events |-> NoDraft]
    /\ now = 0 /\ faults = 0

-----------------------------------------------------------------------------
(* Links and payments.                                                     *)

WithLink(row) == [row EXCEPT !.stage = "WAITING_FOR_PAYMENT", !.version = @ + 1]
PaidRow(row) == [row EXCEPT !.status = "RECOVERED", !.version = @ + 1]
OutcomeOf(a) == {o \in outcomes : o.action = a}

\* The row that record_outcome inserts for a result.
OutcomeFor(id, c, a, result, stated) ==
    LET amount == AmountOf(result, stated, Total[c])
        status == StatusOf(result, amount, Total[c])
    IN [id |-> id, case |-> c, action |-> a, status |-> status, amount |-> amount,
        source |-> SourceOf(status, a # NoAction,
                            IF a = NoAction THEN 0 ELSE now - act[a].val.at, Window)]

\* A measurement has the identity of the session that made it.
NewMeasurement(id, o) ==
    LET fact == Facts[o.case]
        variant == Variant(fact.class.category, o.case \in Held)
        figures == Measure(o.amount, variant, Baseline(fact.domain, fact.class, Total[o.case]))
    IN [id |-> id, outcome |-> o.id, variant |-> variant, treatment |-> figures.treatment,
        control |-> figures.control, incremental |-> figures.incremental]

Measured(o) == \E m \in measurements : m.outcome = o.id

\* record_outcome of an executor, whose result states no amount.
ExecOutcome(a, result) ==
    IF OutcomeOf(a) = {} THEN OutcomeFor(a, CaseOf[a], a, result, Unstated)
    ELSE CHOOSE o \in OutcomeOf(a) : TRUE

\* The preflight of an own Action's executor.  A case that is closed or an
\* Action that somebody else has concluded refuses it, whatever the status of
\* the Action then was, and so does the kill switch.
ExecLoad(a) ==
    LET row == case[CaseOf[a]].val
        open == act[a].val.status = "AUTHORIZED" /\ row.status \notin TerminalStatus
    IN
    /\ exec[a].pc = "idle"
    /\ \/ /\ open
          /\ exec' = [exec EXCEPT ![a] = [pc |-> "loaded", version |-> row.version]]
          /\ UNCHANGED act
       \/ /\ Free(act[a], a)
          /\ act' = [act EXCEPT ![a] = Unlocked([@.val EXCEPT
                        !.status = IF open THEN "CANCELLED" ELSE "SUPERSEDED"])]
          /\ exec' = [exec EXCEPT ![a] = Ended("done")]
    /\ UNCHANGED <<case, links, paid, tables, events, now, faults>>

\* Mutant: the version of the row is not compared.
UnwrittenAlways(a) == TRUE
\* Nobody wrote the row of the case since the executor read it.
Unwritten(a) == case[CaseOf[a]].val.version = exec[a].version

LinkIsPaid(a) ==
    a \in links /\ \E p \in Payments : paid[p] # Unpaid /\ paid[p].own /\ paid[p].link = a

\* The provider makes the link, or finds the one of an earlier try, which is
\* not paid yet.  The row of the case is written if nobody else wrote it since,
\* and otherwise the executor rolls back.
ExecLink(a) ==
    LET c == CaseOf[a] IN
    /\ exec[a].pc = "loaded" /\ ~LinkIsPaid(a)
    /\ Free(act[a], a) /\ Free(case[c], a)
    /\ links' = links \cup {a}
    /\ IF Unwritten(a)
       THEN /\ case' = [case EXCEPT ![c] = Unlocked(WithLink(@.val))]
            /\ act' = [act EXCEPT ![a] = Unlocked([@.val EXCEPT !.status = "SUCCEEDED"])]
       ELSE UNCHANGED rows
    /\ exec' = [exec EXCEPT ![a] = Ended(IF Unwritten(a) THEN "done" ELSE "idle")]
    /\ UNCHANGED <<paid, tables, events, now, faults>>

\* The link of an earlier try has been paid meanwhile: the executor itself
\* records the recovery, and its measurement unless that fails (which is only
\* logged).  The stage is left as it was.
ExecPaid(a) ==
    LET c == CaseOf[a]
        o == ExecOutcome(a, "SUCCEEDED")
    IN
    /\ exec[a].pc = "loaded" /\ LinkIsPaid(a)
    /\ Free(act[a], a) /\ Free(case[c], a)
    /\ \/ /\ Unwritten(a)
          /\ case' = [case EXCEPT ![c] = Unlocked(PaidRow(@.val))]
          /\ act' = [act EXCEPT ![a] = Unlocked([@.val EXCEPT !.status = "SUCCEEDED"])]
          /\ outcomes' = outcomes \cup {o}
          /\ exec' = [exec EXCEPT ![a] = Ended("done")]
          /\ \/ /\ measurements' = measurements \cup
                        (IF Measured(o) THEN {} ELSE {NewMeasurement(a, o)})
                /\ UNCHANGED faults
             \/ /\ faults < MaxFaults /\ faults' = faults + 1
                /\ UNCHANGED measurements
       \/ /\ ~Unwritten(a)
          /\ exec' = [exec EXCEPT ![a] = Ended("idle")]
          /\ UNCHANGED <<rows, tables, faults>>
    /\ UNCHANGED <<links, paid, events, now>>

\* No link, or an ambiguous answer after which there may be one.
ExecNoLink(a) ==
    /\ exec[a].pc = "loaded"
    /\ Free(act[a], a)
    /\ \E result \in {"FAILED", "UNKNOWN"} :
          /\ act' = [act EXCEPT ![a] = Unlocked([@.val EXCEPT !.status = result])]
          /\ outcomes' = outcomes \cup {ExecOutcome(a, result)}
          /\ IF result = "UNKNOWN" THEN links' \in {links, links \cup {a}} ELSE UNCHANGED links
    /\ exec' = [exec EXCEPT ![a] = Ended("done")]
    /\ UNCHANGED <<case, paid, measurements, events, now, faults>>

\* What the tool gateway checks before it makes a link.
MayMakeLink(c) ==
    /\ case[c].val.status \notin TerminalStatus
    /\ case[c].val.stage = "NONE"

AskLink(s) ==
    LET c == CaseOf[s] IN
    /\ s \in Asked /\ act[s].val.status = "NONE"
    /\ MayMakeLink(c) /\ Free(case[c], s)
    /\ act' = [act EXCEPT ![s] = Unlocked([status |-> "SUCCEEDED", at |-> now])]
    /\ case' = [case EXCEPT ![c] = Unlocked(WithLink(@.val))]
    /\ links' = links \cup {s}
    /\ UNCHANGED <<paid, tables, exec, events, now, faults>>

\* A link whose Action is rolled back.
LoseAction(g) ==
    /\ g \in Ghosts \ links
    /\ MayMakeLink(CaseOf[g])
    /\ links' = links \cup {g}
    /\ UNCHANGED <<rows, paid, tables, exec, events, now, faults>>

\* A link is paid once.  A payment to the account of another tenant may carry
\* the notes of a link too.
Pay(p) ==
    /\ paid[p] = Unpaid
    /\ \E l \in links, own \in BOOLEAN :
          /\ own => \A q \in Payments : paid[q].link = l => ~paid[q].own
          /\ paid' = [paid EXCEPT ![p] = [link |-> l, at |-> now, own |-> own]]
    /\ UNCHANGED <<rows, links, tables, exec, events, now, faults>>

Tick ==
    /\ now < MaxTime
    /\ now' = now + 1
    /\ UNCHANGED <<rows, links, paid, tables, exec, events, faults>>

-----------------------------------------------------------------------------
(* The session of an event.                                                *)

Committed(a) == act[a].val.status # "NONE"
LatestOf(c)  == {a \in Actions : /\ CaseOf[a] = c /\ Committed(a)
                                 /\ \A b \in Actions : CaseOf[b] = c /\ Committed(b) =>
                                        \/ act[b].val.at < act[a].val.at
                                        \/ act[b].val.at = act[a].val.at /\ b \notin Asked \ {a}}

\* Mutant: a link whose Action was rolled back is resolved to none.
ActionNoted(l) == IF l \in Actions /\ Committed(l) THEN l ELSE NoAction
\* The Action of a link's notes, else the latest of the case.  (The attempt that
\* names a link as its provider_request_id is looked for in between: the attempt
\* of an Action names the link whose notes name the Action, and a ghost's is
\* rolled back with its Action.)
ActionFor(l) ==
    IF l \in Actions /\ Committed(l) THEN l
    ELSE IF LatestOf(CaseOf[l]) = {} THEN NoAction
    ELSE CHOOSE a \in LatestOf(CaseOf[l]) : TRUE

\* Mutant: the tenant of the case is not compared.
BelongsAlways(p) == TRUE
Belongs(p) == paid[p].own

\* A confirmed event is resolved to a case and an Action; one of another
\* tenant, or a payment event without notes, to nothing.
Load(e) ==
    LET l == paid[e[1]].link
        c == CaseOf[l]
        a == ActionFor(l)
    IN
    /\ ev[e] = "due" /\ paid[e[1]] # Unpaid
    /\ \/ /\ Belongs(e[1])
          /\ seen' = [seen EXCEPT ![e] =
                 [case |-> c, row |-> case[c].val, action |-> a,
                  status |-> IF a = NoAction THEN "NONE" ELSE act[a].val.status]]
          /\ ev' = [ev EXCEPT ![e] = "loaded"]
       \/ /\ ~Belongs(e[1]) \/ e[2] # "payment_link.paid"
          /\ ev' = [ev EXCEPT ![e] = "done"]
          /\ UNCHANGED seen
    /\ UNCHANGED <<rows, links, paid, tables, exec, draft, now, faults>>

UpdatesCase(e)   == seen[e].row.status # "RECOVERED"
UpdatesAction(e) == seen[e].action # NoAction /\ seen[e].status # "SUCCEEDED"
Fresh(e) == UpdatesCase(e) => case[seen[e].case].val.version = seen[e].row.version

MayWrite(e) ==
    /\ UpdatesCase(e) => Free(case[seen[e].case], e)
    /\ UpdatesAction(e) => Free(act[seen[e].action], e)

RecoveredRow(row) ==
    [row EXCEPT !.status = "RECOVERED", !.stage = "RECOVERED", !.version = @ + 1]
WriteRows(e) ==
    LET c == seen[e].case
        a == seen[e].action
    IN
    /\ case' = IF UpdatesCase(e)
               THEN [case EXCEPT ![c] = Write(@, e, RecoveredRow(@.val))]
               ELSE case
    /\ act' = IF UpdatesAction(e)
              THEN [act EXCEPT ![a] = Write(@, e, [@.val EXCEPT !.status = "SUCCEEDED"])]
              ELSE act

\* record_outcome: the outcome of the Action, if there is one, is returned as
\* it is.
\* Mutant: an outcome is always inserted.
EarlierNever(e) == {}
Earlier(e) == IF seen[e].action = NoAction THEN {} ELSE OutcomeOf(seen[e].action)

NewOutcome(e) ==
    OutcomeFor(e, seen[e].case, seen[e].action, "SUCCEEDED", LinkAmount[paid[e[1]].link])

\* The flush writes the rows, then the outcome is looked for and written.
\* Several earlier outcomes raise.
Record(e) ==
    /\ ev[e] = "loaded" /\ MayWrite(e) /\ Fresh(e)
    /\ Cardinality(Earlier(e)) < 2
    /\ WriteRows(e)
    /\ LET outcome == IF Earlier(e) = {} THEN NewOutcome(e)
                      ELSE CHOOSE o \in Earlier(e) : TRUE
       IN draft' = [draft EXCEPT ![e] =
              [outcome |-> {outcome},
               measurement |-> IF Measured(outcome) THEN {} ELSE {NewMeasurement(e, outcome)}]]
    /\ ev' = [ev EXCEPT ![e] = "recorded"]
    /\ UNCHANGED <<links, paid, tables, exec, seen, now, faults>>

\* A measurement that fails is only logged.
MeasureFails(e) ==
    /\ ev[e] = "recorded" /\ draft[e].measurement # {} /\ faults < MaxFaults
    /\ draft' = [draft EXCEPT ![e].measurement = {}]
    /\ faults' = faults + 1
    /\ UNCHANGED <<rows, links, paid, tables, exec, ev, seen, now>>

\* Mutant: no index backs the look-up of create_measurement.
CollidesNever(e) == FALSE
\* Two measurements of one outcome meet the unique index.
Collides(e) == \E o \in draft[e].outcome : draft[e].measurement # {} /\ Measured(o)

Over(e, end) ==
    /\ ev' = [ev EXCEPT ![e] = end]
    /\ seen' = [seen EXCEPT ![e] = Nothing]
    /\ draft' = [draft EXCEPT ![e] = NoDraft]

Commit(e) ==
    /\ ev[e] = "recorded" /\ ~Collides(e)
    /\ outcomes' = outcomes \cup draft[e].outcome
    /\ measurements' = measurements \cup draft[e].measurement
    /\ case' = Publish(case, e) /\ act' = Publish(act, e)
    /\ Over(e, "done")
    /\ UNCHANGED <<links, paid, exec, now, faults>>

\* Mutant: the session goes back to the pool with its transaction open.
UndoNothing(e) == UNCHANGED rows
Undo(e) == case' = Discard(case, e) /\ act' = Discard(act, e)

\* The transaction fails at the flush (a stale row, several earlier outcomes),
\* at the commit (a conflict), or with its process: what it wrote is rolled back
\* and the event is not tried again.
Lose(e) ==
    /\ \/ /\ ev[e] = "loaded" /\ MayWrite(e)
          /\ ~Fresh(e) \/ Cardinality(Earlier(e)) > 1
          /\ UNCHANGED faults
       \/ ev[e] = "recorded" /\ Collides(e) /\ UNCHANGED faults
       \/ ev[e] = "recorded" /\ faults < MaxFaults /\ faults' = faults + 1
    /\ Undo(e)
    /\ Over(e, "lost")
    /\ UNCHANGED <<links, paid, tables, exec, now>>

Next ==
    \/ \E a \in Own : ExecLoad(a) \/ ExecLink(a) \/ ExecPaid(a) \/ ExecNoLink(a)
    \/ \E s \in Asked : AskLink(s)
    \/ \E g \in Ghosts : LoseAction(g)
    \/ \E p \in Payments : Pay(p)
    \/ \E e \in Events : Load(e) \/ Record(e) \/ MeasureFails(e) \/ Commit(e) \/ Lose(e)
    \/ Tick

Spec == Init /\ [][Next]_vars

-----------------------------------------------------------------------------
(* Properties.                                                             *)

Row == [status : CaseStatus, stage : {"NONE", "WAITING_FOR_PAYMENT", "RECOVERED"},
        version : Nat]

\* Every row has a value of its columns; a session holds rows only between its
\* flush and its end.
TypeOK ==
    /\ \A c \in Cases : case[c].val \in Row /\ case[c].new \in Row
    /\ \A a \in Actions : act[a].val.status \in {"NONE", "AUTHORIZED", "SUCCEEDED", "FAILED",
                                                 "UNKNOWN", "CANCELLED", "SUPERSEDED"}
    /\ \A o \in outcomes : o.status \in OutcomeStatus /\ o.source \in RecoverySource
    /\ links \subseteq Links /\ now \in 0..MaxTime /\ faults \in 0..MaxFaults
    /\ \A e \in Events :
          /\ ev[e] \in {"due", "loaded", "recorded", "done", "lost"}
          /\ (\E c \in Cases : case[c].by = e) \/ (\E a \in Actions : act[a].by = e) =>
                ev[e] = "recorded"

\* The case has an Action from the start, and one payment reached its tenant.
PaymentsOf(c) == {p \in Payments : paid[p] # Unpaid /\ paid[p].own /\ CaseOf[paid[p].link] = c}
Ordinary(c)   == (\E a \in Own : CaseOf[a] = c) /\ Cardinality(PaymentsOf(c)) < 2

\* However many events name the payment of a case, and whichever of their
\* sessions come first, an Action has one outcome (the early return of
\* record_outcome, which no index backs).
OneOutcomePerAction ==
    \A o1, o2 \in outcomes :
        Ordinary(o1.case) /\ o1.action = o2.action /\ o1.action # NoAction => o1 = o2

\* Such a case is never credited with more than was paid through its link, and
\* on the dashboard it narrows from at risk over eligible and actioned to
\* recovered, unless the payment was larger than the case (the amount of a link
\* the agent asks for is not bounded by it).
RevenueIsPaid ==
    \A c \in Cases : Ordinary(c) =>
        LET known  == OutcomesOf(c, outcomes)
            made   == {a \in Actions : CaseOf[a] = c /\ Committed(a)}
            stages == Funnel([d \in {c} |-> case[d].val], Total,
                             [a \in made |-> [case |-> c, status |-> act[a].val.status]], known)
        IN /\ Revenue(known) <= TotalOf(PaymentsOf(c), LAMBDA p : LinkAmount[paid[p].link])
           /\ (\A p \in PaymentsOf(c) : LinkAmount[paid[p].link] <= Total[c])
                => \A n \in 1..3 : stages[n] >= stages[n + 1]

\* The case and its outcome agree after every commit: a case is RECOVERED only
\* with an outcome, a recovery is recorded only with its case, and a recovered
\* case that is still reported as waiting for its payment is one that its
\* executor found paid (an executor that read the case before its recovery does
\* not put it back).
RecoveredHasOutcome ==
    \A c \in Cases :
        LET known == OutcomesOf(c, outcomes) IN
        /\ case[c].val.status = "RECOVERED" => known # {}
        /\ Paid(known) # {} => case[c].val.status = "RECOVERED"
        /\ c \in Waiting([d \in Cases |-> case[d].val]) /\ Paid(known) # {} =>
              \E o \in Paid(known) : o.id \in Own

\* No recovery is measured twice, although each session looks for a measurement
\* and inserts its own later, and a measurement that failed is made by whichever
\* session comes next: the measured figures never exceed the recorded ones.
MeasuredIsRecovered ==
    LET figures == Metrics([c \in Cases |-> case[c].val], Total, outcomes, measurements) IN
    /\ \A m1, m2 \in measurements : m1.outcome = m2.outcome => m1 = m2
    /\ figures.treatment + figures.control <= figures.revenue

\* A recovery is credited to an Action only when a payment that settles it came
\* at most the attribution window after it.
Settles(p, o) == IF o.id \in Events THEN p = o.id[1]
                 ELSE paid[p] # Unpaid /\ paid[p].own /\ paid[p].link = o.id
AttributionIsTimely ==
    \A o \in outcomes : o.source = "ACTION_ATTRIBUTED" =>
        \E p \in Payments :
            Settles(p, o) /\ paid[p].at - act[o.action].val.at <= Window

\* A case with one Action can always be reported, whatever the agent is asked,
\* on the page of the case or as the case a request of the workspace falls back
\* to: however many links of it were made and paid, the events of all of them
\* and its executor left one outcome, which is what the API and the agent read.
CaseIsAnswered ==
    LET cases == [c \in Cases |-> case[c].val] IN
    \A c \in Cases : Cardinality({a \in Actions : CaseOf[a] = c /\ Committed(a)}) = 1 =>
        /\ Failing(c, c, cases, outcomes) = {}
        /\ c \in Defaults(cases) => Failing(Workspace, c, cases, outcomes) = {}

\* What record_outcome says of itself: one outcome for a provider resource.
OneOutcomePerPayment ==
    \A o1, o2 \in outcomes :
        o1.id \in Events /\ o2.id \in Events /\ o1.id[1] = o2.id[1] => o1 = o2

=============================================================================
