-------------------------- MODULE PaymentOutcomesInv --------------------------
(***************************************************************************)
(* Why the sessions of one payment leave one outcome: which rows a session *)
(* holds between its flush and its end, what the version it has loaded is  *)
(* worth, and which Action its payment is resolved to; and what the rows   *)
(* it leaves say of amounts.  Nothing of it is written down in the code,   *)
(* and record_outcome and the reports rely on all of it.                   *)
(***************************************************************************)
EXTENDS PaymentOutcomes

ActStatus == {"NONE", "AUTHORIZED", "SUCCEEDED", "FAILED", "UNKNOWN", "CANCELLED", "SUPERSEDED"}
ActRow    == [status : ActStatus, at : Nat]
Lockable(T) == [val : T, new : T, by : Events \cup {NoTx}]
OutcomeRow  == [id : Events \cup Own, case : Cases, action : Actions \cup {NoAction},
                status : OutcomeStatus, amount : Nat, source : RecoverySource]
MeasurementRow == {NewMeasurement(i, o) : i \in Events \cup Own, o \in OutcomeRow}
Draft == [outcome : SUBSET OutcomeRow, measurement : SUBSET MeasurementRow]

\* A session that has loaded its event and is not over.
Active(e) == ev[e] \in {"loaded", "recorded"}

Types ==
    /\ case \in [Cases -> Lockable(Row)]
    /\ act \in [Actions -> Lockable(ActRow)]
    /\ links \subseteq Links
    /\ paid \in [Payments -> {Unpaid} \cup [link : Links, at : 0..now, own : BOOLEAN]]
    /\ outcomes \subseteq OutcomeRow
    /\ exec \in [Own -> [pc : {"idle", "loaded", "done"}, version : Nat]]
    /\ ev \in [Events -> {"due", "loaded", "recorded", "done", "lost"}]
    /\ seen \in [Events -> {Nothing} \cup [case : Cases, row : Row, action : Actions \cup {NoAction},
                                         status : ActStatus]]
    /\ draft \in [Events -> Draft]
    /\ now \in 0..MaxTime /\ faults \in 0..MaxFaults

\* An active session has resolved a payment of its tenant to its case, and to an
\* Action of the case or none.
Resolved(e) ==
    LET p == paid[e[1]]
        s == seen[e]
    IN /\ p # Unpaid /\ p.own /\ s # Nothing
       /\ s.case = CaseOf[p.link]
       /\ s.action # NoAction => CaseOf[s.action] = s.case /\ Committed(s.action)

Resolution ==
    /\ \A a \in Own : Committed(a)
    /\ \A e \in Events : Active(e) => Resolved(e)

\* A row is held by the session that has flushed it, which has written what it
\* will commit.
Locks ==
    /\ \A c \in Cases, e \in Events :
          case[c].by = e <=> ev[e] = "recorded" /\ UpdatesCase(e) /\ seen[e].case = c
    /\ \A a \in Actions, e \in Events :
          act[a].by = e <=> ev[e] = "recorded" /\ UpdatesAction(e) /\ seen[e].action = a
    /\ \A c \in Cases : case[c].by # NoTx =>
          /\ case[c].new.status = "RECOVERED" /\ case[c].new.stage = "RECOVERED"
          /\ case[c].new.version > case[c].val.version
          /\ seen[case[c].by].row = case[c].val
    /\ \A a \in Actions : act[a].by # NoTx =>
          act[a].new.status = "SUCCEEDED" /\ act[a].new.at = act[a].val.at

\* A version says which row it was.
Versions ==
    /\ \A e \in Events : Active(e) =>
          LET row == case[seen[e].case].val IN
          /\ seen[e].row.version <= row.version
          /\ seen[e].row.version = row.version => seen[e].row = row
          /\ seen[e].row.status = "RECOVERED" => row.status = "RECOVERED"
    /\ \A a \in Own : exec[a].pc = "loaded" =>
          LET row == case[CaseOf[a]].val IN
          /\ exec[a].version <= row.version
          /\ exec[a].version = row.version => row.status \notin TerminalStatus

\* A recovery that the executor of an Action has recorded.
ExecRecovered(c) == \E o \in outcomes : o.id \in Own /\ o.case = c /\ o.status \in Recovered

\* Cases are only ever recovered; the stage of a recovered one says so too,
\* unless its executor recovered it.  An Action that is asked for leaves its case
\* in a stage that permits no other, and is the latest.
Stages ==
    /\ \A c \in Cases :
          /\ case[c].val.status \in {"RISK_ASSESSED", "RECOVERED"}
          /\ case[c].val.status = "RECOVERED" =>
                case[c].val.stage = "RECOVERED" \/ ExecRecovered(c)
    /\ \A s \in Asked : Committed(s) =>
          /\ case[CaseOf[s]].val.stage # "NONE"
          /\ \A t \in Asked : Committed(t) /\ CaseOf[t] = CaseOf[s] => t = s
    /\ \A a \in Own : act[a].val.at = 0

\* While its version lasts, and for ever when the case was recovered, the Action
\* a session has loaded is the one the payment resolves to.
StillResolves ==
    \A e \in Events : Active(e) =>
        \/ seen[e].row.version < case[seen[e].case].val.version /\ UpdatesCase(e)
        \/ seen[e].action = ActionFor(paid[e[1]].link)

\* An outcome of an event is that of a recovered case, one of an executor says
\* that nothing was recovered or is that of a paid link, and a draft is an
\* outcome of one or the other.
Origins ==
    /\ \A o \in outcomes :
          /\ o.id \in Events => ev[o.id] = "done" /\ case[o.case].val.status = "RECOVERED"
          /\ o.id \notin Events =>
                /\ o.id = o.action /\ exec[o.id].pc = "done"
                /\ o.status \notin Recovered => o.amount = 0
                /\ o.status \in Recovered =>
                      /\ case[o.case].val.status = "RECOVERED"
                      /\ o.amount = Total[o.case] /\ LinkIsPaid(o.id)
          /\ o.action # NoAction => CaseOf[o.action] = o.case /\ Committed(o.action)
    /\ \A e \in Events : ev[e] = "recorded" =>
          \E o \in draft[e].outcome :
              /\ draft[e].outcome = {o}
              /\ o.action = seen[e].action /\ o.case = seen[e].case
              /\ o \in outcomes \/ o.id = e
    /\ \A e \in Events : ev[e] # "recorded" => draft[e] = NoDraft

\* A recovered case has a payment and an outcome.
RecoveredHasSome ==
    \A c \in Cases : case[c].val.status = "RECOVERED" =>
        OutcomesOf(c, outcomes) # {} /\ PaymentsOf(c) # {}

\* An executor that may still record a failure has not succeeded, unless the
\* outcome is there already.
SucceededDone ==
    /\ \A a \in Own : act[a].val.status = "SUCCEEDED" =>
          exec[a].pc = "done" \/ OutcomeOf(a) # {}
    /\ \A e \in Events : Active(e) /\ seen[e].action \in Own /\ seen[e].status = "SUCCEEDED" =>
          exec[seen[e].action].pc = "done" \/ OutcomeOf(seen[e].action) # {}

Discipline ==
    /\ Types
    /\ Resolution
    /\ Locks
    /\ Versions
    /\ Stages
    /\ StillResolves
    /\ Origins
    /\ RecoveredHasSome
    /\ SucceededDone

-----------------------------------------------------------------------------
(* Cases whose payments all resolve to one Action.                         *)

\* The case has one Action.
Sole(c) == \E a \in Actions : /\ CaseOf[a] = c /\ Committed(a)
                              /\ \A b \in Actions : CaseOf[b] = c /\ Committed(b) => b = a
Clear(c) == Ordinary(c) \/ Sole(c)

\* Whoever comes after the recovery of such a case finds the outcome, and whoever
\* is about to insert one holds the case.
OneEach ==
    /\ \A c \in Cases : Clear(c) /\ case[c].val.status = "RECOVERED" =>
          \A p \in PaymentsOf(c) : OutcomeOf(ActionFor(paid[p].link)) # {}
    /\ \A e \in Events : ev[e] = "recorded" /\ Clear(seen[e].case) =>
          \/ draft[e].outcome \subseteq outcomes
          \/ UpdatesCase(e) /\ OutcomeOf(seen[e].action) = {}
    /\ \A o1, o2 \in outcomes :
          Clear(o1.case) /\ o1.action = o2.action /\ o1.action # NoAction => o1 = o2
    /\ \A o \in outcomes : Sole(o.case) => o.action # NoAction

-----------------------------------------------------------------------------
(* Amounts.                                                                *)

\* An outcome of an event is a recovery, in the amount of a payment of its case.
Amounts ==
    \A o \in outcomes \cup UNION {draft[e].outcome : e \in Events} : o.id \in Events =>
        /\ o.status \in Recovered
        /\ o.id[1] \in PaymentsOf(o.case)
        /\ o.amount = LinkAmount[paid[o.id[1]].link]

\* Its Action is the one the payment resolves to; that Action, and one that a
\* session has found concluded, is not cancelled any more.
Executed(a) == act[a].val.status \notin {"NONE", "AUTHORIZED", "CANCELLED"}
Credited ==
    /\ \A o \in outcomes : o.id \in Events =>
          /\ o.action = ActionFor(paid[o.id[1]].link)
          /\ o.action # NoAction => Executed(o.action)
    /\ \A o \in outcomes : o.id \in Own /\ o.status \in Recovered => Executed(o.id)
    /\ \A e \in Events :
          Active(e) /\ seen[e].action # NoAction /\ ~UpdatesAction(e) => Executed(seen[e].action)

\* What is measured is an outcome, no outcome is measured twice, and nothing else
\* has the name of an outcome.
Measures ==
    /\ IsFiniteSet(outcomes) /\ IsFiniteSet(measurements)
    /\ \A m \in measurements :
          \E o \in outcomes, i \in Events \cup Own : m = NewMeasurement(i, o)
    /\ \A m1, m2 \in measurements : m1.outcome = m2.outcome => m1 = m2
    /\ \A o1, o2 \in outcomes : o1.id = o2.id => o1 = o2
    /\ \A e \in Events : \A m \in draft[e].measurement :
          \E o \in draft[e].outcome : m = NewMeasurement(e, o)
    /\ \A e \in Events : IsFiniteSet(draft[e].measurement)

-----------------------------------------------------------------------------

\* The attribution of outcomes, committed or drafted, keeps to the window.
Attribution ==
    \A o \in outcomes \cup UNION {draft[e].outcome : e \in Events} :
        o.source = "ACTION_ATTRIBUTED" =>
            /\ o.action \in Actions /\ Committed(o.action)
            /\ \E p \in Payments :
                  /\ paid[p] # Unpaid /\ Settles(p, o)
                  /\ paid[p].at - act[o.action].val.at <= Window

=============================================================================
