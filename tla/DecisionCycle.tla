---------------------------- MODULE DecisionCycle ----------------------------
(***************************************************************************)
(* The decision cycles of failed payments (services/decision_engine.py),   *)
(* run by the background tasks of one web process.  They share a buffer of *)
(* failure signals that lives in the memory of the process: a cycle adds   *)
(* its own failure and reads the health of its route in one go, waits for  *)
(* the memory search and the language model, decides from what it had      *)
(* read, and commits case, decision and status in one transaction.  The    *)
(* buffer is not part of that transaction and is lost with the process.    *)
(***************************************************************************)
EXTENDS DecisionRules, CaseStateMachine

CONSTANTS Cycles,
          Failures(_), \* the payments a cycle may be about:
                       \* [tenant, amount, code, reason]
          Answers(_),  \* what the language model may answer it
          Histories(_),\* the precedents it may find
          Window,      \* ticks in the rolling window
          MaxTime,     \* bound: ticks
          MaxRestarts  \* bound: restarts of the process

VARIABLES
    pc,
    failure,  \* the failed payment of the cycle
    route,    \* the route health the cycle read
    decision, \* [answer, history, action, verdict] of a cycle that has decided
    case,     \* the committed case: [status, action], Absent before
    queued,   \* the cycles whose Action is in the execution outbox
    signals,  \* the buffer of the process
    now,
    lives,    \* restarts so far
    log       \* observer: every signal, in order, with the life it belongs to

process == <<pc, failure, route, decision>>
vars == <<process, case, queued, signals, now, lives, log>>

CONSTANT Absent

\* Amounts are counts of money, answers name actions of the vocabulary, and no
\* more precedents are recovered than found.
ASSUME DecisionAssumption ==
    /\ Window \in Nat
    /\ Absent \notin RecoveryAction
    /\ \A c \in Cycles :
         /\ \A f \in Failures(c) : f.amount \in Nat
         /\ \A answer \in Answers(c) : answer \in Seq(RecoveryAction)
         /\ \A h \in Histories(c) :
              h.action \in RecoveryAction /\ h.count \in Nat /\ h.recovered \in 0..h.count

NoDecision == [answer |-> <<>>, history |-> NoHistory, action |-> Absent, verdict |-> Absent]

\* Of an amount above 50 000 the ingestion makes a B2B case.
DomainOf(f) == IF f.amount > 50000 THEN "B2B" ELSE "B2C"
\* The case's context has no payment method, so a route is tenant and domain.
RouteOf(f)  == <<f.tenant, DomainOf(f)>>

ClassOf(f) == Classify(f.code, f.reason)
Context(f, health, history) ==
    [domain |-> DomainOf(f), class |-> ClassOf(f), baseline |-> BaselineOf(DomainOf(f), ClassOf(f)),
     route |-> health, amount |-> f.amount, history |-> history]

Init ==
    /\ pc = [c \in Cycles |-> "idle"]
    /\ failure = [c \in Cycles |-> Absent]
    /\ route = [c \in Cycles |-> "NONE"]
    /\ decision = [c \in Cycles |-> NoDecision]
    /\ case = [c \in Cycles |-> Absent]
    /\ queued = {}
    /\ signals = {} /\ log = <<>>
    /\ now = 0 /\ lives = 0

\* Mutant: the cut-off is the window itself, exclusive.
RecordedWithinWindow(c, f) ==
    {s \in signals \cup {[cycle |-> c, route |-> RouteOf(f), at |-> now]} :
        s.at > now - Window}
\* record_signal: the cut-off is two windows before the new signal.
Recorded(c, f) ==
    {s \in signals \cup {[cycle |-> c, route |-> RouteOf(f), at |-> now]} :
        s.at >= now - 2 * Window}
\* analyze_route_health.
HealthIn(buffer, r) ==
    RouteHealth(Cardinality({s \in buffer : s.route = r /\ s.at >= now - Window}))

\* Mutant: the health is read before the failure is recorded.
SenseFirst(c) ==
    /\ pc[c] = "idle"
    /\ \E f \in Failures(c) :
         /\ ~Unclassifiable(f.code, f.reason)
         /\ failure' = [failure EXCEPT ![c] = f]
         /\ route' = [route EXCEPT ![c] = HealthIn(signals, RouteOf(f))]
         /\ signals' = Recorded(c, f)
         /\ log' = Append(log, [cycle |-> c, route |-> RouteOf(f), at |-> now, life |-> lives])
         /\ pc' = [pc EXCEPT ![c] = "sensed"]
    /\ UNCHANGED <<decision, case, queued, now, lives>>
\* The failed payment is classified; its case and its signal are made.
Sense(c) ==
    /\ pc[c] = "idle"
    /\ \E f \in Failures(c) :
         /\ ~Unclassifiable(f.code, f.reason)
         /\ failure' = [failure EXCEPT ![c] = f]
         /\ signals' = Recorded(c, f)
         /\ route' = [route EXCEPT ![c] = HealthIn(Recorded(c, f), RouteOf(f))]
         /\ log' = Append(log, [cycle |-> c, route |-> RouteOf(f), at |-> now, life |-> lives])
         /\ pc' = [pc EXCEPT ![c] = "sensed"]
    /\ UNCHANGED <<decision, case, queued, now, lives>>

\* A null error code or reason raises: the event stays unprocessed.
CannotClassify(c) ==
    /\ pc[c] = "idle"
    /\ \E f \in Failures(c) : Unclassifiable(f.code, f.reason)
    /\ pc' = [pc EXCEPT ![c] = "lost"]
    /\ UNCHANGED <<failure, route, decision, case, queued, signals, now, lives, log>>

\* Memory and language model have answered, each possibly with nothing.
MakeDecision(c) ==
    /\ pc[c] = "sensed"
    /\ \E answer \in Answers(c), history \in Histories(c) :
         LET d == Decide(answer, Context(failure[c], route[c], history)) IN
         decision' = [decision EXCEPT ![c] =
             [answer |-> answer, history |-> history, action |-> d.action, verdict |-> d.verdict]]
    /\ pc' = [pc EXCEPT ![c] = "decided"]
    /\ UNCHANGED <<failure, route, case, queued, signals, now, lives, log>>

Reviewed(verdict) == verdict.status = "NEEDS_REVIEW" \/ verdict.autonomy = "HUMAN_APPROVAL"
IsQueued(d) == ~Reviewed(d.verdict) /\ d.action # "STOP_RECOVERY"

\* The case takes its status and an automatic action its place in the outbox;
\* ExecutionOutbox goes on from there.
Commit(c) ==
    /\ pc[c] = "decided"
    /\ case' = [case EXCEPT ![c] =
           [status |-> IF Reviewed(decision[c].verdict) THEN "PENDING_APPROVAL"
                       ELSE "RISK_ASSESSED",
            action |-> decision[c].action]]
    /\ queued' = IF IsQueued(decision[c]) THEN queued \cup {c} ELSE queued
    /\ decision' = [decision EXCEPT ![c] = NoDecision]
    /\ pc' = [pc EXCEPT ![c] = "done"]
    /\ UNCHANGED <<failure, route, signals, now, lives, log>>

\* Any statement of the transaction may fail: all is rolled back but the
\* signal, and the event is not processed again.
Fail(c) ==
    /\ pc[c] \in {"sensed", "decided"}
    /\ pc' = [pc EXCEPT ![c] = "lost"]
    /\ decision' = [decision EXCEPT ![c] = NoDecision]
    /\ UNCHANGED <<failure, route, case, queued, signals, now, lives, log>>

Tick ==
    /\ now < MaxTime
    /\ now' = now + 1
    /\ UNCHANGED <<process, case, queued, signals, lives, log>>

\* The process restarts: what ran is lost, and so is the buffer.
Restart ==
    /\ lives < MaxRestarts
    /\ lives' = lives + 1
    /\ signals' = {}
    /\ pc' = [c \in Cycles |-> IF pc[c] \in {"sensed", "decided"} THEN "lost" ELSE pc[c]]
    /\ decision' = [c \in Cycles |-> NoDecision]
    /\ UNCHANGED <<failure, route, case, queued, now, log>>

Next ==
    \/ \E c \in Cycles : Sense(c) \/ CannotClassify(c) \/ MakeDecision(c) \/ Commit(c) \/ Fail(c)
    \/ Tick \/ Restart

Spec == Init /\ [][Next]_vars

-----------------------------------------------------------------------------

\* Forgetting old signals never shows: the health a cycle reads is that of all
\* failures of its tenant and domain in the window before it, since the process
\* was started.
HealthCountsTheWindow ==
    \A i \in DOMAIN log :
        LET Same(j) == /\ log[j].route = log[i].route /\ log[j].life = log[i].life
                       /\ log[j].at >= log[i].at - Window
        IN route[log[i].cycle] = RouteHealth(Cardinality({j \in 1..i : Same(j)}))

\* The action a cycle has decided or committed.
Chosen(c) ==
    IF case[c] # Absent THEN case[c].action ELSE decision[c].action

\* Of the failures of one B2C route in one window at most two are retried at
\* once, however the cycles interleave and whatever the model recommends: the
\* third finds the route degraded.  A restart starts the count anew.
AtMostTwoRetriesAtOnce ==
    \A S \in SUBSET {i \in DOMAIN log :
                        /\ Chosen(log[i].cycle) = "RETRY_NOW"
                        /\ DomainOf(failure[log[i].cycle]) = "B2C"} :
        (\A i, j \in S : /\ log[i].route = log[j].route /\ log[i].life = log[j].life
                         /\ log[i].at - log[j].at <= Window)
            => Cardinality(S) <= 2

\* The candidates are chosen by the rules of the policy engine, written a second
\* time: the policy never rejects one, so the safe fallback is never taken.
CandidatesPassPolicy ==
    \A c \in Cycles : pc[c] = "decided" =>
        LET ctx == Context(failure[c], route[c], decision[c].history) IN
        \A a \in Candidates(decision[c].answer, ctx) : VerdictOn(a, ctx).status # "REJECTED"

\* Without five precedents of one action the model's answer is advice only: an
\* eligible baseline is what is decided, unless five other actions displace it
\* from the candidates.
BaselineUnlessDisplaced ==
    \A c \in Cycles : pc[c] = "decided" =>
        LET d   == decision[c]
            ctx == Context(failure[c], route[c], d.history)
        IN d.history.count < MinHistory /\ Len(d.answer) < MaxCandidates /\ Eligible(ctx.baseline, ctx)
               => d.action = ctx.baseline

=============================================================================
