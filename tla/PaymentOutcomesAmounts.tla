------------------------ MODULE PaymentOutcomesAmounts ------------------------
(***************************************************************************)
(* The figures of PaymentOutcomes: Amounts, Credited and Measures of       *)
(* PaymentOutcomesInv are inductive, and from them a case is credited with *)
(* what was paid, and what is measured is a part of what is recovered.     *)
(***************************************************************************)
EXTENDS PaymentOutcomesProofs

-----------------------------------------------------------------------------
(* The amount of an outcome and the Action it is credited to. *)

InAmount(o) == o.id \in Events =>
    /\ o.status \in Recovered
    /\ o.id[1] \in PaymentsOf(o.case)
    /\ o.amount = LinkAmount[paid[o.id[1]].link]

\* An outcome keeps the amount of its payment.
LEMMA NextAmounts ==
    ASSUME Types, Resolution, Locks, Versions, Origins, Amounts, [Next]_vars
    PROVE  Amounts'
  <1>1. /\ \A o \in outcomes : InAmount(o)
        /\ \A e \in Events : \A o \in draft[e].outcome : InAmount(o)
    BY DEF Amounts, InAmount
  <1>2. ASSUME NEW o, InAmount(o) PROVE InAmount(o)'
    BY <1>2, PaidKept DEF InAmount, PaymentsOf
  <1>3. ASSUME NEW e \in Events, Record(e) PROVE InAmount(Drafted(e))
    <2>1. CASE Earlier(e) # {}
      BY <1>1, <1>3, <2>1, RecordDraft DEF Earlier, OutcomeOf
    <2>2. CASE Earlier(e) = {}
      <3> DEFINE o == NewOutcome(e)
                 stated == LinkAmount[paid[e[1]].link]
                 amount == AmountOf("SUCCEEDED", stated, Total[seen[e].case])
      <3>1. Drafted(e) = o
        BY <1>3, <2>2, RecordDraft
      <3>2. /\ o.id = e /\ o.case = seen[e].case /\ o.amount = amount
            /\ o.status = StatusOf("SUCCEEDED", amount, Total[seen[e].case])
        BY DEF NewOutcome, OutcomeFor
      <3>3. /\ paid[e[1]] # Unpaid /\ paid[e[1]].own /\ e[1] \in Payments
            /\ CaseOf[paid[e[1]].link] = seen[e].case
            /\ paid[e[1]].link \in Links
        BY <1>3, ActiveTypes DEF Record, Active, Resolution, Resolved
      <3>4. stated > 0
        BY <3>3, OutcomeAssumption
      <3>5. amount = stated
        BY <3>4 DEF AmountOf, Unstated
      <3>6. StatusOf("SUCCEEDED", amount, Total[seen[e].case]) \in Recovered
        BY DEF StatusOf, Recovered
      <3> HIDE DEF o, amount
      <3>7. QED
        BY <3>1, <3>2, <3>3, <3>5, <3>6 DEF InAmount, PaymentsOf
    <2>3. QED
      BY <2>1, <2>2
  <1>4. ASSUME NEW o \in outcomes' PROVE InAmount(o)'
    <2>1. CASE o \in outcomes
      BY <1>1, <1>2, <2>1
    <2>2. ASSUME NEW e \in Events, Drafts(e, o) PROVE InAmount(o)'
      BY <1>1, <1>2, <2>2 DEF Drafts
    <2>3. ASSUME NEW a \in Own, Failed(a, o) \/ FoundPaid(a, o) PROVE InAmount(o)'
      <3>1. o.id = a
        BY <2>3, PaidOutcomeFields DEF Failed, FoundPaid
      <3>2. QED
        BY <3>1, Parts DEF InAmount
    <2>4. QED
      BY <2>1, <2>2, <2>3, OutcomesGrow
  <1>5. ASSUME NEW e \in Events, NEW o \in draft'[e].outcome PROVE InAmount(o)'
    <2>1. CASE draft'[e].outcome = draft[e].outcome
      BY <1>1, <1>2, <1>5, <2>1
    <2>2. CASE Record(e) /\ draft'[e].outcome = {Drafted(e)}
      BY <1>2, <1>3, <1>5, <2>2
    <2>3. CASE draft'[e] = NoDraft
      BY <1>5, <2>3 DEF NoDraft
    <2>4. QED
      BY <2>1, <2>2, <2>3, SessionMoves
  <1>6. QED
    BY <1>4, <1>5 DEF Amounts, InAmount

\* An Action that has been executed is not cancelled afterwards.
LEMMA ExecutedKept ==
    ASSUME Types, Resolution, Locks, Versions, [Next]_vars, NEW b \in Actions, Executed(b)
    PROVE  Executed(b)'
  <1>1. ASSUME NEW a \in Own, ExecStep(a) PROVE Executed(b)'
    <2>1. CASE act'[b] = act[b]
      BY <2>1 DEF Executed
    <2>2. CASE b = a /\ act'[b] # act[b]
      <3>1. act[a] \in Lockable(ActRow) /\ act[a].val \in ActRow /\ a \in Actions
        BY <2>2, RowTypes DEF Types
      <3>2. act[a].val.status # "AUTHORIZED"
        BY <2>2 DEF Executed
      <3>3. act'[a].val.status \in {"SUPERSEDED", "SUCCEEDED", "FAILED", "UNKNOWN"}
        <4>1. CASE ExecLoad(a)
          BY <2>2, <3>1, <3>2, <4>1, RowTypes DEF ExecLoad, Types, Unlocked, ActRow
        <4>2. CASE ExecLink(a)
          BY <2>2, <3>1, <4>2, RowTypes DEF ExecLink, Types, Unlocked, ActRow, rows
        <4>3. CASE ExecNoLink(a)
          BY <2>2, <3>1, <4>3, RowTypes DEF ExecNoLink, Types, Unlocked, ActRow
        <4>4. CASE ExecPaid(a)
          BY <2>2, <3>1, <4>4, RowTypes DEF ExecPaid, Types, Unlocked, ActRow, rows
        <4>5. QED
          BY <1>1, <4>1, <4>2, <4>3, <4>4 DEF ExecStep
      <3>4. QED
        BY <2>2, <3>3 DEF Executed
    <2>3. QED
      BY <1>1, <2>1, <2>2, ExecRows
  <1>2. ASSUME NEW s \in Asked, AskLink(s) PROVE Executed(b)'
    BY <1>2, AskRows DEF Executed
  <1>3. ASSUME NEW e \in Events, EventStep(e) PROVE Executed(b)'
    <2>1. act[b].by = e => act[b].new.status = "SUCCEEDED"
      BY Parts DEF Locks
    <2>2. QED
      BY <1>3, <2>1, EventRows DEF Executed
  <1>4. QED
    BY <1>1, <1>2, <1>3, StepKinds, MoneyFrame DEF Executed, vars, rows

\* What a session commits is credited to the Action its payment resolves to, which
\* it has found or made successful.
LEMMA CommitCredits ==
    ASSUME Discipline, Credited, [Next]_vars,
           NEW e \in Events, Commit(e), NEW o \in draft[e].outcome, o \notin outcomes
    PROVE  /\ o.id = e /\ o.case = seen[e].case
           /\ o.action = ActionFor(paid[o.id[1]].link)'
           /\ o.action # NoAction => Executed(o.action)'
  <1> USE DEF Discipline
  <1>1. ev[e] = "recorded" /\ Active(e)
    BY DEF Commit, Active
  <1>2. o.id = e /\ o.action = seen[e].action /\ o.case = seen[e].case
    BY <1>1 DEF Origins
  <1>3. /\ e[1] \in Payments /\ paid[e[1]].link \in Links
        /\ seen[e].action \in Actions \cup {NoAction} /\ paid' = paid
        /\ seen[e].case \in Cases /\ seen[e].row \in Row
    BY <1>1, ActiveTypes DEF Commit
  <1>4. seen[e].action = ActionFor(paid[e[1]].link)
    <2>1. seen[e].row.version \in Nat
      BY <1>3 DEF Row
    <2>2. QED
      BY <1>1, <2>1, FlushedVersion DEF StillResolves
  <1>5. ActionFor(paid[e[1]].link)' = ActionFor(paid[e[1]].link)
    <2>1. \A b \in Actions : (Committed(b)' <=> Committed(b)) /\ act'[b].val.at = act[b].val.at
      BY ActionsKept DEF EventStep
    <2>2. \A l \in Links : ActionFor(l)' = ActionFor(l)
      BY <2>1, ResolutionKept
    <2>3. QED
      BY <1>3, <2>2
  <1>6. ASSUME o.action # NoAction PROVE Executed(o.action)'
    <2>1. CASE UpdatesAction(e)
      <3>1. act[o.action].by = e /\ act[o.action].new.status = "SUCCEEDED" /\ o.action \in Actions
        BY <1>1, <1>2, <1>3, <1>6, <2>1, Parts DEF Locks
      <3>2. act'[o.action].val = act[o.action].new
        BY <3>1 DEF Commit, Publish, Unlocked, Types
      <3>3. QED
        BY <3>1, <3>2 DEF Executed
    <2>2. CASE ~UpdatesAction(e)
      BY <1>1, <1>2, <1>3, <1>6, <2>2, ExecutedKept DEF Credited
    <2>3. QED
      BY <2>1, <2>2
  <1>7. QED
    BY <1>2, <1>3, <1>4, <1>5, <1>6

\* What is committed stays credited: after its recovery no other Action comes to a
\* case.
LEMMA NextCredited ==
    ASSUME Discipline, Amounts, Credited, [Next]_vars
    PROVE  Credited'
  <1> USE DEF Discipline
  <1>1. ASSUME NEW o \in outcomes', o.id \in Events
        PROVE  /\ o.action = ActionFor(paid[o.id[1]].link)'
               /\ o.action # NoAction => Executed(o.action)'
    <2>1. CASE o \in outcomes
      <3>1. /\ o.case \in Cases /\ o.action \in Actions \cup {NoAction}
            /\ case[o.case].val.status = "RECOVERED"
        BY <1>1, <2>1 DEF Types, OutcomeRow, Origins
      <3>2. o.id[1] \in PaymentsOf(o.case)
        BY <1>1, <2>1 DEF Amounts
      <3>3. paid[o.id[1]].link \in Links /\ CaseOf[paid[o.id[1]].link] = o.case
        BY <3>2 DEF PaymentsOf, Types
      <3>4. ~\E s \in Asked : AskLink(s) /\ CaseOf[s] = o.case
        BY <3>1, AskFindsOpenCase
      <3>5. /\ paid'[o.id[1]] = paid[o.id[1]]
            /\ \A l \in Links : CaseOf[l] = o.case => ActionFor(l)' = ActionFor(l)
        BY <3>1, <3>2, <3>4, ClearKept
      <3>6. ActionFor(paid[o.id[1]].link)' = ActionFor(paid[o.id[1]].link)
        BY <3>3, <3>5
      <3>7. QED
        BY <1>1, <2>1, <3>1, <3>6, ExecutedKept DEF Credited
    <2>2. ASSUME NEW e \in Events, Drafts(e, o), o \notin outcomes
          PROVE  /\ o.action = ActionFor(paid[o.id[1]].link)'
                 /\ o.action # NoAction => Executed(o.action)'
      BY <2>2, CommitCredits DEF Drafts
    <2>3. \A a \in Own : ~Failed(a, o) /\ ~FoundPaid(a, o)
      BY <1>1, Parts, PaidOutcomeFields DEF Failed, FoundPaid
    <2>4. QED
      BY <2>1, <2>2, <2>3, OutcomesGrow
  <1>2. ASSUME NEW e \in Events, Active(e)', seen'[e].action # NoAction, ~UpdatesAction(e)'
        PROVE  Executed(seen[e].action)'
    <2>1. CASE Active(e) /\ seen'[e] = seen[e]
      BY <1>2, <2>1, ActiveTypes, ExecutedKept DEF Credited, UpdatesAction
    <2>2. ASSUME Load(e), seen'[e].action = ActionFor(paid[e[1]].link),
                 seen'[e].status = IF ActionFor(paid[e[1]].link) = NoAction THEN "NONE"
                                   ELSE act[ActionFor(paid[e[1]].link)].val.status
          PROVE  Executed(seen[e].action)'
      <3>1. seen'[e].status = "SUCCEEDED" /\ act' = act
        BY <1>2, <2>2 DEF UpdatesAction, Load, rows
      <3>2. act'[seen'[e].action].val.status = "SUCCEEDED"
        BY <1>2, <2>2, <3>1
      <3>3. QED
        BY <3>2 DEF Executed
    <2>3. QED
      BY <1>2, <2>1, <2>2, SessionMoves DEF Active
  <1>3. ASSUME NEW o \in outcomes', o.id \in Own, o.status \in Recovered
        PROVE  Executed(o.id)'
    <2>1. CASE o \in outcomes
      BY <1>3, <2>1, ExecutedKept, Parts DEF Credited
    <2>2. ASSUME NEW e \in Events, Drafts(e, o), o \notin outcomes PROVE FALSE
      BY <1>3, <2>2, CommitCredits, Parts DEF Drafts
    <2>3. ASSUME NEW a \in Own, FoundPaid(a, o) PROVE Executed(o.id)'
      <3>1. o.id = a /\ act'[a].val.status = "SUCCEEDED"
        BY <2>3, PaidStep, PaidOutcomeFields DEF FoundPaid
      <3>2. QED
        BY <3>1 DEF Executed
    <2>4. \A a \in Own : ~Failed(a, o)
      BY <1>3 DEF Failed, Recovered
    <2>5. QED
      BY <2>1, <2>2, <2>3, <2>4, OutcomesGrow
  <1>4. QED
    BY <1>1, <1>2, <1>3 DEF Credited

-----------------------------------------------------------------------------
(* What is measured. *)

\* An outcome that is new has a name no other has.
LEMMA NewNames ==
    ASSUME Discipline, [Next]_vars, NEW o \in outcomes' \ outcomes
    PROVE  /\ outcomes' = outcomes \cup {o}
           /\ \A q \in outcomes : q.id # o.id
  <1> USE DEF Discipline
  <1>1. ASSUME NEW a \in Own, Failed(a, o) \/ FoundPaid(a, o)
        PROVE  outcomes' = outcomes \cup {o} /\ \A q \in outcomes : q.id # o.id
    <2>1. o.id = a /\ OutcomeOf(a) = {} /\ outcomes' = outcomes \cup {o}
      BY <1>1, PaidStep, PaidOutcomeFields DEF Failed, FoundPaid
    <2>2. \A q \in outcomes : q.id = a => q.action = a
      BY Parts DEF Origins
    <2>3. QED
      BY <2>1, <2>2 DEF OutcomeOf
  <1>2. ASSUME NEW e \in Events, Drafts(e, o)
        PROVE  outcomes' = outcomes \cup {o} /\ \A q \in outcomes : q.id # o.id
    <2>1. ev[e] = "recorded" /\ o \in draft[e].outcome
            /\ outcomes' = outcomes \cup draft[e].outcome
      BY <1>2 DEF Drafts, Commit
    <2>2. draft[e].outcome = {o} /\ o.id = e
      BY <1>2, <2>1 DEF Origins
    <2>3. \A q \in outcomes : q.id = e => ev[e] = "done"
      BY DEF Origins
    <2>4. QED
      BY <1>2, <2>1, <2>2, <2>3
  <1>3. QED
    BY <1>1, <1>2, OutcomesGrow

\* A measurement is committed with its outcome or after it, unless there is one: its
\* session looked for it, or meets the unique index.
LEMMA MeasurementsGrow ==
    ASSUME Discipline, Measures, [Next]_vars
    PROVE  \/ measurements' = measurements
           \/ \E i \in Events \cup Own : \E o \in outcomes' :
                 ~Measured(o) /\ measurements' = measurements \cup {NewMeasurement(i, o)}
  <1> USE DEF Discipline
  <1> DEFINE Goal == \/ measurements' = measurements
                     \/ \E i \in Events \cup Own : \E o \in outcomes' :
                           /\ ~Measured(o)
                           /\ measurements' = measurements \cup {NewMeasurement(i, o)}
  <1>1. ASSUME NEW a \in Own, ExecPaid(a), Unwritten(a) PROVE Goal
    <2>1. ExecOutcome(a, "SUCCEEDED") = PaidOutcome(a) /\ PaidOutcome(a) \in outcomes'
      BY <1>1, PaidStep DEF ExecOutcome, PaidOutcome
    <2>2. \/ measurements' = measurements \cup
                 (IF Measured(PaidOutcome(a)) THEN {} ELSE {NewMeasurement(a, PaidOutcome(a))})
          \/ measurements' = measurements
      BY <1>1, <2>1 DEF ExecPaid
    <2>3. QED
      BY <2>1, <2>2
  <1>2. ASSUME NEW a \in Own, ExecStep(a), ~(ExecPaid(a) /\ Unwritten(a)) PROVE Goal
    BY <1>2 DEF ExecStep, ExecLoad, ExecLink, ExecPaid, ExecNoLink, tables
  <1>3. ASSUME NEW e \in Events, Commit(e) PROVE Goal
    <2>1. /\ ev[e] = "recorded" /\ ~Collides(e) /\ outcomes' = outcomes \cup draft[e].outcome
          /\ measurements' = measurements \cup draft[e].measurement
      BY <1>3 DEF Commit
    <2>2. PICK o \in draft[e].outcome : draft[e].outcome = {o}
      BY <2>1 DEF Origins
    <2>3. \A m \in draft[e].measurement : m = NewMeasurement(e, o)
      BY <2>2 DEF Measures
    <2>4. CASE draft[e].measurement = {}
      BY <2>1, <2>4
    <2>5. CASE draft[e].measurement # {}
      <3>1. ~Measured(o) /\ o \in outcomes'
        BY <2>1, <2>2, <2>5 DEF Collides
      <3>2. draft[e].measurement = {NewMeasurement(e, o)}
        BY <2>3, <2>5
      <3>3. QED
        BY <2>1, <3>1, <3>2
    <2>6. QED
      BY <2>4, <2>5
  <1>4. ASSUME NEW e \in Events, EventStep(e), ~Commit(e) PROVE Goal
    BY <1>4 DEF EventStep, Load, Record, MeasureFails, Lose, tables
  <1>5. QED
    BY <1>1, <1>2, <1>3, <1>4, StepKinds, AskRows, MoneyFrame DEF vars, tables

LEMMA NextMeasures ==
    ASSUME Discipline, Measures, [Next]_vars
    PROVE  Measures'
  <1> USE DEF Discipline
  <1>1. IsFiniteSet(outcomes')
    <2>1. CASE outcomes' = outcomes
      BY <2>1 DEF Measures
    <2>2. CASE outcomes' # outcomes
      <3>1. PICK o \in outcomes' \ outcomes : TRUE
        BY <2>2, OutcomesGrow
      <3>2. QED
        BY <3>1, NewNames, FS_AddElement DEF Measures
    <2>3. QED
      BY <2>1, <2>2
  <1>2. \A o1, o2 \in outcomes' : o1.id = o2.id => o1 = o2
    <2> SUFFICES ASSUME NEW o1 \in outcomes', NEW o2 \in outcomes', o1.id = o2.id
                 PROVE  o1 = o2
      OBVIOUS
    <2>1. CASE o1 \in outcomes /\ o2 \in outcomes
      BY <2>1 DEF Measures
    <2>2. CASE o1 \notin outcomes
      BY <2>2, NewNames
    <2>3. CASE o2 \notin outcomes
      BY <2>3, NewNames
    <2>4. QED
      BY <2>1, <2>2, <2>3
  <1>3. IsFiniteSet(measurements')
    BY MeasurementsGrow, FS_AddElement DEF Measures
  <1>4. ASSUME NEW m \in measurements'
        PROVE  \E o \in outcomes', i \in Events \cup Own : m = NewMeasurement(i, o)
    <2>1. CASE m \in measurements
      BY <2>1, OutcomesGrow DEF Measures
    <2>2. CASE m \notin measurements
      BY <2>2, MeasurementsGrow
    <2>3. QED
      BY <2>1, <2>2
  <1>5. ASSUME NEW m1 \in measurements', NEW m2 \in measurements', m1.outcome = m2.outcome
        PROVE  m1 = m2
    <2>1. ASSUME NEW i \in Events \cup Own, NEW o \in outcomes', ~Measured(o),
                 measurements' = measurements \cup {NewMeasurement(i, o)}
          PROVE  m1 = m2
      <3>1. NewMeasurement(i, o).outcome = o.id
        BY DEF NewMeasurement
      <3>2. \A m \in measurements : m.outcome # o.id
        BY <2>1 DEF Measured
      <3>3. QED
        BY <1>5, <2>1, <3>1, <3>2 DEF Measures
    <2>2. QED
      BY <1>5, <2>1, MeasurementsGrow DEF Measures
  <1>6. ASSUME NEW e \in Events
        PROVE  /\ \A m \in draft'[e].measurement :
                     \E o \in draft'[e].outcome : m = NewMeasurement(e, o)
               /\ IsFiniteSet(draft'[e].measurement)
    <2>1. CASE draft'[e] = draft[e]
      BY <2>1 DEF Measures
    <2>2. CASE draft'[e] = NoDraft
      BY <2>2, FS_EmptySet DEF NoDraft
    <2>3. CASE MeasureFails(e)
      <3>1. draft'[e].measurement = {}
        BY <2>3 DEF MeasureFails, Types, Draft
      <3>2. QED
        BY <3>1, FS_EmptySet
    <2>4. CASE Record(e)
      <3> DEFINE o == Drafted(e)
      <3>1. /\ draft'[e].outcome = {o}
            /\ draft'[e].measurement = {} \/ draft'[e].measurement = {NewMeasurement(e, o)}
        BY <2>4, RecordDraft DEF Types
      <3> HIDE DEF o
      <3>2. IsFiniteSet({NewMeasurement(e, o)})
        BY FS_Singleton
      <3>3. QED
        BY <3>1, <3>2, FS_EmptySet
    <2>5. QED
      BY <2>1, <2>2, <2>3, <2>4, SessionMoves
  <1>7. QED
    BY <1>1, <1>2, <1>3, <1>4, <1>5, <1>6 DEF Measures

-----------------------------------------------------------------------------
(* The three together. *)

Money == Amounts /\ Credited /\ Measures

LEMMA InitMoney == Init => Amounts /\ Credited /\ Measures
  <1> SUFFICES ASSUME Init PROVE Amounts /\ Credited /\ Measures
    OBVIOUS
  <1>1. /\ outcomes = {} /\ measurements = {}
        /\ \A e \in Events : /\ ~Active(e)
                             /\ draft[e].outcome = {} /\ draft[e].measurement = {}
    BY DEF Init, Active, NoDraft
  <1>2. IsFiniteSet(outcomes) /\ IsFiniteSet(measurements)
        /\ \A e \in Events : IsFiniteSet(draft[e].measurement)
    BY <1>1, FS_EmptySet
  <1>3. QED
    BY <1>1, <1>2 DEF Amounts, Credited, Measures

LEMMA MoneyInductive == Discipline /\ Money /\ [Next]_vars => Money'
  BY NextAmounts, NextCredited, NextMeasures DEF Discipline, Money

\* Every outcome and every measurement, committed or drafted, keeps its amount, its
\* Action and its name: what the figures of the reports rest on.
THEOREM MoneyHolds == Spec => []Money
  <1>1. Init => Money
    BY InitMoney DEF Money
  <1>2. QED
    BY <1>1, MoneyInductive, DisciplineHolds, PTL DEF Spec

-----------------------------------------------------------------------------
(* Sums.  The folds of the community modules are sums over a function that *)
(* exists and does not depend on the order of the elements, by induction   *)
(* over the subsets of a finite set.                                       *)

\* A set of subsets that contains each whose proper subsets it contains has all.
LEMMA SubsetInduction ==
    ASSUME NEW S, IsFiniteSet(S), NEW G \in SUBSET SUBSET S,
           \A T \in SUBSET S : (\A U \in SUBSET T : U # T => U \in G) => T \in G
    PROVE  G = SUBSET S
  <1> DEFINE B == (SUBSET S) \ G
             R == StrictSubsetOrdering(S)
  <1>1. IsWellFoundedOn(R, SUBSET S)
    BY FS_StrictSubsetOrderingWellFounded, FS_FiniteSubsetsOfFinite
  <1>2. ASSUME B # {} PROVE FALSE
    <2>1. PICK T \in B : \A U \in B : ~ (<<U, T>> \in R)
      <3>1. B \subseteq SUBSET S
        OBVIOUS
      <3> HIDE DEF B, R
      <3>2. QED
        BY <1>1, <1>2, <3>1, WFMin
    <2>2. ASSUME NEW U \in SUBSET T, U # T PROVE U \in G
      <3>1. U \in SUBSET S /\ T \in SUBSET S
        OBVIOUS
      <3>2. <<U, T>> \in R
        BY <2>2, <3>1 DEF StrictSubsetOrdering
      <3>3. QED
        BY <2>1, <3>1, <3>2
    <2>3. T \in G
      BY <2>2
    <2>4. QED
      BY <2>3
  <1>3. QED
    BY <1>2

\* A set of numbers that contains 0 and every successor has all.
LEMMA NatSetInduction ==
    ASSUME NEW G \in SUBSET Nat, 0 \in G, \A n \in G : n + 1 \in G
    PROVE  G = Nat
  <1> DEFINE B == Nat \ G
             R == OpToRel(<, Nat)
  <1>1. ASSUME B # {} PROVE FALSE
    <2>1. PICK n \in B : \A m \in B : ~ (<<m, n>> \in R)
      <3>1. B \subseteq Nat
        OBVIOUS
      <3>2. IsWellFoundedOn(R, Nat)
        BY NatLessThanWellFounded
      <3> HIDE DEF B, R
      <3>3. QED
        BY <1>1, <3>1, <3>2, WFMin
    <2>2. n # 0 /\ n \in Nat
      OBVIOUS
    <2>3. n - 1 \in Nat /\ n - 1 < n /\ (n - 1) + 1 = n
      BY <2>2
    <2>4. <<n - 1, n>> \in R
      BY <2>2, <2>3 DEF OpToRel
    <2>5. n - 1 \in G
      BY <2>1, <2>3, <2>4
    <2>6. QED
      BY <2>3, <2>5
  <1>2. QED
    BY <1>1

\* it[T] is the sum of F over T, by the element CHOOSE takes first.
First(T) == CHOOSE x \in T : TRUE
Rest(T)  == T \ {First(T)}
Summing(it, F, S) == it = [T \in SUBSET S |-> IF T = {} THEN 0 ELSE F[First(T)] + it[Rest(T)]]

\* The same for the subsets with at most n elements.
Small(S, n) == {T \in SUBSET S : Cardinality(T) <= n}
SumsSmall(g, F, S, n) ==
    \A T \in Small(S, n) : g[T] = IF T = {} THEN 0 ELSE F[First(T)] + g[Rest(T)]

\* What First and Rest do to a finite set.
LEMMA RestIsSmaller ==
    ASSUME NEW S, IsFiniteSet(S), NEW T \in SUBSET S
    PROVE  /\ IsFiniteSet(T) /\ Cardinality(T) \in Nat
           /\ Cardinality(T) <= Cardinality(S) /\ Cardinality(S) \in Nat
           /\ T # {} => /\ First(T) \in T /\ Rest(T) \in SUBSET S
                        /\ Rest(T) \in SUBSET T /\ Rest(T) # T
                        /\ Cardinality(Rest(T)) = Cardinality(T) - 1
           /\ Cardinality(T) = 0 => T = {}
  <1>1. IsFiniteSet(T) /\ Cardinality(T) <= Cardinality(S)
    BY FS_Subset
  <1>2. Cardinality(T) \in Nat /\ Cardinality(S) \in Nat
    BY <1>1, FS_CardinalityType
  <1>3. ASSUME T # {} PROVE First(T) \in T
    BY <1>3 DEF First
  <1>4. ASSUME T # {} PROVE Cardinality(Rest(T)) = Cardinality(T) - 1
    <2> DEFINE x == First(T)
    <2>1. x \in T
      BY <1>3, <1>4
    <2> HIDE DEF x
    <2>2. Cardinality(T \ {x}) = Cardinality(T) - 1
      BY <1>1, <2>1, FS_RemoveElement
    <2>3. QED
      BY <2>2 DEF Rest, x
  <1>5. Cardinality(T) = 0 => T = {}
    BY <1>1, FS_EmptySet
  <1>6. QED
    BY <1>1, <1>2, <1>3, <1>4, <1>5 DEF Rest

\* There is such a function: for larger and larger subsets.
LEMMA SummingExists ==
    ASSUME NEW S, IsFiniteSet(S), NEW F
    PROVE  \E it : Summing(it, F, S)
  <1> DEFINE G == {n \in Nat : \E g : SumsSmall(g, F, S, n)}
  <1>1. 0 \in G
    <2> DEFINE g == [T \in SUBSET S |-> 0]
    <2>1. \A T \in Small(S, 0) : T = {} /\ T \in SUBSET S
      BY RestIsSmaller DEF Small
    <2>2. SumsSmall(g, F, S, 0)
      BY <2>1 DEF SumsSmall
    <2>3. QED
      BY <2>2
  <1>2. ASSUME NEW n \in G PROVE n + 1 \in G
    <2>1. PICK g : SumsSmall(g, F, S, n)
      OBVIOUS
    <2> DEFINE h == [T \in SUBSET S |-> IF T = {} THEN 0 ELSE F[First(T)] + g[Rest(T)]]
    <2>2. ASSUME NEW T \in Small(S, n) PROVE h[T] = g[T]
      <3>1. T \in SUBSET S
        BY DEF Small
      <3>2. h[T] = IF T = {} THEN 0 ELSE F[First(T)] + g[Rest(T)]
        BY <3>1
      <3>3. QED
        BY <2>1, <3>2 DEF SumsSmall
    <2>3. ASSUME NEW T \in Small(S, n + 1), T # {} PROVE Rest(T) \in Small(S, n)
      BY <2>3, RestIsSmaller DEF Small
    <2>4. ASSUME NEW T \in Small(S, n + 1)
          PROVE  h[T] = IF T = {} THEN 0 ELSE F[First(T)] + h[Rest(T)]
      <3>1. h[T] = IF T = {} THEN 0 ELSE F[First(T)] + g[Rest(T)]
        BY DEF Small
      <3>2. CASE T = {}
        BY <3>1, <3>2
      <3>3. CASE T # {}
        <4>1. h[Rest(T)] = g[Rest(T)]
          BY <2>2, <2>3, <3>3
        <4> HIDE DEF h
        <4>2. QED
          BY <3>1, <3>3, <4>1
      <3>4. QED
        BY <3>2, <3>3
    <2>5. SumsSmall(h, F, S, n + 1)
      <3> HIDE DEF h
      <3>1. QED
        BY <2>4 DEF SumsSmall
    <2>6. \E f : SumsSmall(f, F, S, n + 1)
      <3> HIDE DEF h
      <3>1. QED
        BY <2>5
    <2>7. QED
      BY <2>6
  <1>3. G = Nat
    <2>1. G \in SUBSET Nat
      OBVIOUS
    <2> HIDE DEF G
    <2>2. QED
      BY <1>1, <1>2, <2>1, NatSetInduction
  <1>4. PICK g : SumsSmall(g, F, S, Cardinality(S))
    <2>1. Cardinality(S) \in G
      BY <1>3, FS_CardinalityType
    <2>2. QED
      BY <2>1
  <1> DEFINE it == [T \in SUBSET S |-> g[T]]
  <1>5. \A T \in SUBSET S : T \in Small(S, Cardinality(S))
    BY RestIsSmaller DEF Small
  <1>6. ASSUME NEW T \in SUBSET S
        PROVE  it[T] = IF T = {} THEN 0 ELSE F[First(T)] + it[Rest(T)]
    <2>1. g[T] = IF T = {} THEN 0 ELSE F[First(T)] + g[Rest(T)]
      BY <1>4, <1>5 DEF SumsSmall
    <2>2. T # {} => it[Rest(T)] = g[Rest(T)]
      BY RestIsSmaller
    <2>3. QED
      BY <2>1, <2>2
  <1>7. it = [T \in SUBSET S |-> IF T = {} THEN 0 ELSE F[First(T)] + it[Rest(T)]]
    <2> DEFINE b == [T \in SUBSET S |-> IF T = {} THEN 0 ELSE F[First(T)] + it[Rest(T)]]
    <2>1. \A T \in SUBSET S : it[T] = b[T]
      BY <1>6
    <2>2. it = b
      BY <2>1
    <2>3. QED
      BY <2>2
  <1>8. QED
    <2> HIDE DEF it
    <2>1. QED
      BY <1>7 DEF Summing

\* Such a sum does not depend on the order.
LEMMA SumStep ==
    ASSUME NEW S, IsFiniteSet(S), NEW F, NEW it, Summing(it, F, S), \A x \in S : F[x] \in Nat
    PROVE  /\ it[{}] = 0
           /\ \A T \in SUBSET S : it[T] \in Nat
           /\ \A T \in SUBSET S : \A x \in T : it[T] = F[x] + it[T \ {x}]
  <1>1. ASSUME NEW T \in SUBSET S, T # {}
        PROVE  /\ First(T) \in T /\ it[T] = F[First(T)] + it[T \ {First(T)}]
               /\ F[First(T)] \in Nat
    <2>1. First(T) \in T
      BY <1>1 DEF First
    <2>2. it[T] = F[First(T)] + it[Rest(T)]
      BY <1>1 DEF Summing
    <2>3. QED
      BY <2>1, <2>2 DEF Rest
  <1>2. it[{}] = 0
    <2>1. {} \in SUBSET S
      OBVIOUS
    <2>2. QED
      BY <2>1 DEF Summing
  <1>3. \A T \in SUBSET S : it[T] \in Nat
    <2> DEFINE G == {T \in SUBSET S : it[T] \in Nat}
    <2>1. ASSUME NEW T \in SUBSET S, \A U \in SUBSET T : U # T => U \in G PROVE T \in G
      <3>1. CASE T = {}
        BY <1>2, <3>1
      <3>2. CASE T # {}
        <4> DEFINE x == First(T)
        <4>1. x \in T /\ it[T] = F[x] + it[T \ {x}] /\ F[x] \in Nat
          BY <1>1, <3>2
        <4> HIDE DEF x
        <4>2. T \ {x} \in G
          BY <2>1, <4>1
        <4>3. QED
          BY <4>1, <4>2
      <3>3. QED
        BY <3>1, <3>2
    <2>2. G \in SUBSET SUBSET S
      OBVIOUS
    <2>3. G = SUBSET S
      <3>1. \A T \in SUBSET S : (\A U \in SUBSET T : U # T => U \in G) => T \in G
        BY <2>1
      <3> HIDE DEF G
      <3>2. QED
        BY <2>2, <3>1, SubsetInduction
    <2>4. QED
      BY <2>3
  <1>4. \A T \in SUBSET S : \A x \in T : it[T] = F[x] + it[T \ {x}]
    <2> DEFINE G == {T \in SUBSET S : \A x \in T : it[T] = F[x] + it[T \ {x}]}
    <2>1. ASSUME NEW T \in SUBSET S, \A U \in SUBSET T : U # T => U \in G PROVE T \in G
      <3>1. ASSUME NEW x \in T PROVE it[T] = F[x] + it[T \ {x}]
        <4> DEFINE y == First(T)
        <4>1. y \in T /\ it[T] = F[y] + it[T \ {y}]
          BY <1>1
        <4> HIDE DEF y
        <4>2. CASE x # y
          <5>1. T \ {y} \in G /\ T \ {x} \in G
            <6>1. /\ T \ {y} \in SUBSET T /\ T \ {y} # T
                  /\ T \ {x} \in SUBSET T /\ T \ {x} # T
              BY <4>1
            <6> HIDE DEF G
            <6>2. QED
              BY <2>1, <6>1
          <5>2. /\ it[T \ {y}] = F[x] + it[(T \ {y}) \ {x}]
                /\ it[T \ {x}] = F[y] + it[(T \ {x}) \ {y}]
            BY <4>1, <4>2, <5>1
          <5>3. (T \ {y}) \ {x} = (T \ {x}) \ {y}
            OBVIOUS
          <5>4. it[(T \ {y}) \ {x}] \in Nat /\ F[x] \in Nat /\ F[y] \in Nat
            BY <1>3, <4>1
          <5>5. /\ it[T \ {y}] = F[x] + it[(T \ {y}) \ {x}]
                /\ it[T \ {x}] = F[y] + it[(T \ {y}) \ {x}]
            BY <5>2, <5>3
          <5> DEFINE w == it[(T \ {y}) \ {x}]
          <5>6. it[T] = F[y] + (F[x] + w) /\ it[T \ {x}] = F[y] + w
            BY <4>1, <5>5
          <5>7. F[y] + (F[x] + w) = F[x] + (F[y] + w)
            <6>1. w \in Nat
              BY <5>4
            <6> HIDE DEF w
            <6>2. QED
              BY <5>4, <6>1
          <5>8. QED
            BY <5>6, <5>7
        <4>3. QED
          BY <4>1, <4>2
      <3>2. QED
        BY <3>1
    <2>2. G \in SUBSET SUBSET S
      OBVIOUS
    <2>3. G = SUBSET S
      <3>1. \A T \in SUBSET S : (\A U \in SUBSET T : U # T => U \in G) => T \in G
        BY <2>1
      <3> HIDE DEF G
      <3>2. QED
        BY <2>2, <3>1, SubsetInduction
    <2>4. QED
      BY <2>3
  <1>5. QED
    BY <1>2, <1>3, <1>4

\* The sum r of a function over a set, as the folds of the community modules
\* compute it.
IsSum(r, F, S) == \E it : Summing(it, F, S) /\ r = it[S]

\* The sums of the reports: amounts of outcomes, of payments, of the two groups of
\* measurements, and of cases.
LEMMA AmountSum ==
    ASSUME NEW S, IsFiniteSet(S), NEW F, \A x \in S : F[x] = x.amount
    PROVE  IsSum(TotalOf(S, LAMBDA o : o.amount), F, S)
  <1> DEFINE P(it) == it = [s \in SUBSET S |->
                             IF s = {} THEN 0
                             ELSE (CHOOSE x \in s : TRUE).amount + it[s \ {CHOOSE x \in s : TRUE}]]
  <1>1. ASSUME NEW it PROVE P(it) <=> Summing(it, F, S)
    <2>1. \A s \in SUBSET S : s # {} => F[First(s)] = (CHOOSE x \in s : TRUE).amount
      BY DEF First
    <2>2. QED
      BY <2>1 DEF Summing, First, Rest
  <1>2. P(CHOOSE it : P(it))
    <2>1. PICK it : Summing(it, F, S)
      BY SummingExists
    <2> HIDE DEF P
    <2>2. P(it)
      BY <1>1, <2>1
    <2>3. QED
      BY <2>2
  <1>3. TotalOf(S, LAMBDA o : o.amount) = (CHOOSE it : P(it))[S]
    BY DEF TotalOf, MapThenSumSet, MapThenFoldSet
  <1>4. QED
    <2> HIDE DEF P
    <2>1. QED
      BY <1>1, <1>2, <1>3 DEF IsSum

LEMMA LinkSum ==
    ASSUME NEW S, IsFiniteSet(S), NEW F, \A x \in S : F[x] = LinkAmount[paid[x].link]
    PROVE  IsSum(TotalOf(S, LAMBDA p : LinkAmount[paid[p].link]), F, S)
  <1> DEFINE P(it) == it = [s \in SUBSET S |->
                             IF s = {} THEN 0
                             ELSE LinkAmount[paid[(CHOOSE x \in s : TRUE)].link]
                                    + it[s \ {CHOOSE x \in s : TRUE}]]
  <1>1. ASSUME NEW it PROVE P(it) <=> Summing(it, F, S)
    <2>1. \A s \in SUBSET S : s # {} =>
              F[First(s)] = LinkAmount[paid[(CHOOSE x \in s : TRUE)].link]
      BY DEF First
    <2>2. QED
      BY <2>1 DEF Summing, First, Rest
  <1>2. P(CHOOSE it : P(it))
    <2>1. PICK it : Summing(it, F, S)
      BY SummingExists
    <2> HIDE DEF P
    <2>2. P(it)
      BY <1>1, <2>1
    <2>3. QED
      BY <2>2
  <1>3. TotalOf(S, LAMBDA p : LinkAmount[paid[p].link]) = (CHOOSE it : P(it))[S]
    BY DEF TotalOf, MapThenSumSet, MapThenFoldSet
  <1>4. QED
    <2> HIDE DEF P
    <2>1. QED
      BY <1>1, <1>2, <1>3 DEF IsSum

LEMMA TreatmentSum ==
    ASSUME NEW S, IsFiniteSet(S), NEW F, \A x \in S : F[x] = x.treatment
    PROVE  IsSum(TotalOf(S, LAMBDA m : m.treatment), F, S)
  <1> DEFINE P(it) == it = [s \in SUBSET S |->
                             IF s = {} THEN 0
                             ELSE (CHOOSE x \in s : TRUE).treatment
                                    + it[s \ {CHOOSE x \in s : TRUE}]]
  <1>1. ASSUME NEW it PROVE P(it) <=> Summing(it, F, S)
    <2>1. \A s \in SUBSET S : s # {} => F[First(s)] = (CHOOSE x \in s : TRUE).treatment
      BY DEF First
    <2>2. QED
      BY <2>1 DEF Summing, First, Rest
  <1>2. P(CHOOSE it : P(it))
    <2>1. PICK it : Summing(it, F, S)
      BY SummingExists
    <2> HIDE DEF P
    <2>2. P(it)
      BY <1>1, <2>1
    <2>3. QED
      BY <2>2
  <1>3. TotalOf(S, LAMBDA m : m.treatment) = (CHOOSE it : P(it))[S]
    BY DEF TotalOf, MapThenSumSet, MapThenFoldSet
  <1>4. QED
    <2> HIDE DEF P
    <2>1. QED
      BY <1>1, <1>2, <1>3 DEF IsSum

LEMMA ControlSum ==
    ASSUME NEW S, IsFiniteSet(S), NEW F, \A x \in S : F[x] = x.control
    PROVE  IsSum(TotalOf(S, LAMBDA m : m.control), F, S)
  <1> DEFINE P(it) == it = [s \in SUBSET S |->
                             IF s = {} THEN 0
                             ELSE (CHOOSE x \in s : TRUE).control + it[s \ {CHOOSE x \in s : TRUE}]]
  <1>1. ASSUME NEW it PROVE P(it) <=> Summing(it, F, S)
    <2>1. \A s \in SUBSET S : s # {} => F[First(s)] = (CHOOSE x \in s : TRUE).control
      BY DEF First
    <2>2. QED
      BY <2>1 DEF Summing, First, Rest
  <1>2. P(CHOOSE it : P(it))
    <2>1. PICK it : Summing(it, F, S)
      BY SummingExists
    <2> HIDE DEF P
    <2>2. P(it)
      BY <1>1, <2>1
    <2>3. QED
      BY <2>2
  <1>3. TotalOf(S, LAMBDA m : m.control) = (CHOOSE it : P(it))[S]
    BY DEF TotalOf, MapThenSumSet, MapThenFoldSet
  <1>4. QED
    <2> HIDE DEF P
    <2>1. QED
      BY <1>1, <1>2, <1>3 DEF IsSum

LEMMA TotalSum ==
    ASSUME NEW S, IsFiniteSet(S), NEW F, \A x \in S : F[x] = Total[x]
    PROVE  IsSum(TotalOf(S, LAMBDA c : Total[c]), F, S)
  <1> DEFINE P(it) == it = [s \in SUBSET S |->
                             IF s = {} THEN 0
                             ELSE Total[(CHOOSE x \in s : TRUE)] + it[s \ {CHOOSE x \in s : TRUE}]]
  <1>1. ASSUME NEW it PROVE P(it) <=> Summing(it, F, S)
    <2>1. \A s \in SUBSET S : s # {} => F[First(s)] = Total[(CHOOSE x \in s : TRUE)]
      BY DEF First
    <2>2. QED
      BY <2>1 DEF Summing, First, Rest
  <1>2. P(CHOOSE it : P(it))
    <2>1. PICK it : Summing(it, F, S)
      BY SummingExists
    <2> HIDE DEF P
    <2>2. P(it)
      BY <1>1, <2>1
    <2>3. QED
      BY <2>2
  <1>3. TotalOf(S, LAMBDA c : Total[c]) = (CHOOSE it : P(it))[S]
    BY DEF TotalOf, MapThenSumSet, MapThenFoldSet
  <1>4. QED
    <2> HIDE DEF P
    <2>1. QED
      BY <1>1, <1>2, <1>3 DEF IsSum

\* The sum of no element, and of one.
LEMMA SumOfFew ==
    ASSUME NEW S, IsFiniteSet(S), NEW F, NEW r, IsSum(r, F, S), \A x \in S : F[x] \in Nat
    PROVE  /\ r \in Nat
           /\ S = {} => r = 0
           /\ \A x : S = {x} => r = F[x]
  <1>1. PICK it : Summing(it, F, S) /\ r = it[S]
    BY DEF IsSum
  <1>2. r \in Nat /\ it[{}] = 0 /\ \A x \in S : it[S] = F[x] + it[S \ {x}]
    <2>1. /\ it[{}] = 0
          /\ \A T \in SUBSET S : it[T] \in Nat
          /\ \A T \in SUBSET S : \A x \in T : it[T] = F[x] + it[T \ {x}]
      BY <1>1, SumStep
    <2>2. S \in SUBSET S
      OBVIOUS
    <2>3. QED
      BY <1>1, <2>1, <2>2
  <1>3. ASSUME NEW x, S = {x} PROVE r = F[x]
    <2>1. S \ {x} = {} /\ x \in S
      BY <1>3
    <2>2. it[S] = F[x] + it[S \ {x}]
      BY <1>2, <2>1
    <2>3. it[S \ {x}] = 0 /\ F[x] \in Nat
      BY <1>2, <2>1
    <2>4. QED
      BY <1>1, <2>2, <2>3
  <1>4. QED
    BY <1>1, <1>2, <1>3

-----------------------------------------------------------------------------
(* The revenue of a case. *)

\* A payment that an outcome is the recovery of.
RecoveryOf(o, p) ==
    /\ o.action = ActionFor(paid[p].link)
    /\ o.amount \in Nat /\ LinkAmount[paid[p].link] \in Nat
    /\ o.amount <= LinkAmount[paid[p].link]

LEMMA RecoveryHasPayment ==
    ASSUME Discipline, Amounts, Credited, NEW c \in Cases,
           NEW o \in Paid(OutcomesOf(c, outcomes))
    PROVE  /\ o \in outcomes /\ o.case = c
           /\ \E p \in PaymentsOf(c) : RecoveryOf(o, p)
           /\ o.action \in Actions => act[o.action].val.status # "CANCELLED"
  <1> USE DEF Discipline
  <1>1. o \in outcomes /\ o.case = c /\ o.status \in Recovered /\ o.amount \in Nat
    BY DEF Paid, OutcomesOf, Types, OutcomeRow
  <1>2. \A p \in PaymentsOf(c) : LinkAmount[paid[p].link] \in Nat
    BY OutcomeAssumption DEF PaymentsOf, Types
  <1>3. CASE o.id \in Events
    <2>1. o.id[1] \in PaymentsOf(c) /\ o.amount = LinkAmount[paid[o.id[1]].link]
      BY <1>1, <1>3 DEF Amounts
    <2>2. o.action = ActionFor(paid[o.id[1]].link)
      BY <1>1, <1>3 DEF Credited
    <2>3. o.action \in Actions => act[o.action].val.status # "CANCELLED"
      BY <1>1, <1>3, Parts DEF Credited, Executed
    <2>4. RecoveryOf(o, o.id[1])
      BY <1>2, <2>1, <2>2 DEF RecoveryOf
    <2>5. QED
      BY <1>1, <2>1, <2>3, <2>4
  <1>4. CASE o.id \notin Events
    <2>1. o.id \in Own /\ o.id = o.action /\ o.amount = Total[c] /\ LinkIsPaid(o.id)
      BY <1>1, <1>4 DEF Origins, Types, OutcomeRow
    <2>2. CaseOf[o.id] = c
      BY <1>1, <2>1, Parts DEF Origins
    <2>3. PICK p \in Payments : paid[p] # Unpaid /\ paid[p].own /\ paid[p].link = o.id
      BY <2>1 DEF LinkIsPaid
    <2>4. p \in PaymentsOf(c)
      BY <2>2, <2>3 DEF PaymentsOf
    <2>5. ActionFor(o.id) = o.id
      BY <2>1, Parts DEF ActionFor, Resolution
    <2>6. Total[c] \in {0, LinkAmount[o.id]}
      BY <2>1, <2>2, OutcomeAssumption
    <2>7. o.amount <= LinkAmount[paid[p].link]
      BY <1>2, <2>1, <2>3, <2>4, <2>6
    <2>8. RecoveryOf(o, p)
      BY <1>1, <1>2, <2>1, <2>3, <2>4, <2>5, <2>7 DEF RecoveryOf
    <2>9. act[o.action].val.status # "CANCELLED"
      BY <1>1, <2>1 DEF Credited, Executed
    <2>10. QED
      BY <1>1, <2>4, <2>8, <2>9
  <1>5. QED
    BY <1>3, <1>4

\* An ordinary case has at most one recovery, not more than its payment and
\* credited to an Action that counts as one.
LEMMA OneRecovery ==
    ASSUME Discipline, OneEach, Amounts, Credited, NEW c \in Cases, Ordinary(c),
           NEW o \in Paid(OutcomesOf(c, outcomes))
    PROVE  /\ Paid(OutcomesOf(c, outcomes)) = {o}
           /\ \E p : PaymentsOf(c) = {p} /\ RecoveryOf(o, p)
           /\ o.action \in Actions /\ CaseOf[o.action] = c /\ Committed(o.action)
           /\ act[o.action].val.status # "CANCELLED"
  <1> USE DEF Discipline
  <1>1. ASSUME NEW q \in Paid(OutcomesOf(c, outcomes))
        PROVE  /\ q \in outcomes /\ q.case = c
               /\ q.action \in Actions /\ CaseOf[q.action] = c /\ Committed(q.action)
               /\ \A p \in PaymentsOf(c) : q.action = ActionFor(paid[p].link)
    <2>1. PICK p \in PaymentsOf(c) : RecoveryOf(q, p)
      BY RecoveryHasPayment
    <2>2. paid[p].link \in Links /\ CaseOf[paid[p].link] = c
      BY DEF PaymentsOf, Types
    <2>3. q.action \in Actions /\ CaseOf[q.action] = c /\ Committed(q.action)
      BY <2>1, <2>2, ClearResolves DEF Clear, RecoveryOf
    <2>4. \A r \in PaymentsOf(c) : q.action = ActionFor(paid[r].link)
      BY <2>1, PaymentsAgree DEF Clear, RecoveryOf
    <2>5. QED
      BY <2>3, <2>4, RecoveryHasPayment
  <1>2. ASSUME NEW q \in Paid(OutcomesOf(c, outcomes)) PROVE q = o
    <2>1. PICK p \in PaymentsOf(c) : RecoveryOf(o, p)
      BY RecoveryHasPayment
    <2>2. q.action = o.action /\ q.action # NoAction
      BY <1>1, <2>1, Parts
    <2>3. QED
      BY <1>1, <2>2 DEF OneEach, Clear
  <1>3. PICK p \in PaymentsOf(c) : RecoveryOf(o, p)
    BY RecoveryHasPayment
  <1>4. ASSUME NEW r \in PaymentsOf(c) PROVE r = p
    <2>1. IsFiniteSet(PaymentsOf(c)) /\ Cardinality(PaymentsOf(c)) < 2
      BY PaymentsFinite DEF Ordinary
    <2>2. QED
      BY <2>1, AtMostOne
  <1>5. PaymentsOf(c) = {p}
    BY <1>4
  <1>6. QED
    BY <1>1, <1>2, <1>3, <1>5, RecoveryHasPayment

\* What the funnel adds up.
LEMMA FunnelSums ==
    ASSUME NEW cases, NEW actions, NEW known
    PROVE  LET eligible == {c \in DOMAIN cases : cases[c].status \notin {"CLOSED", "FAILED"}}
               actioned == {actions[a].case : a \in {a \in DOMAIN actions :
                                                        actions[a].status # "CANCELLED"}}
           IN Funnel(cases, Total, actions, known)
                = <<TotalOf(DOMAIN cases, LAMBDA c : Total[c]),
                    TotalOf(eligible, LAMBDA c : Total[c]),
                    TotalOf(actioned, LAMBDA c : Total[c]), Revenue(known)>>
  BY DEF Funnel

\* The total of one case, or of none.
LEMMA FewTotals ==
    ASSUME NEW c \in Cases, NEW S \in SUBSET {c}
    PROVE  /\ S = {} => TotalOf(S, LAMBDA d : Total[d]) = 0
           /\ S = {c} => TotalOf(S, LAMBDA d : Total[d]) = Total[c]
           /\ Total[c] \in Nat
  <1> DEFINE F == [d \in S |-> Total[d]]
             r == TotalOf(S, LAMBDA d : Total[d])
  <1>1. IsFiniteSet(S)
    BY FS_Singleton, FS_Subset
  <1>2. \A d \in S : F[d] = Total[d]
    OBVIOUS
  <1>3. \A d \in S : F[d] \in Nat
    BY OutcomeAssumption
  <1>4. IsSum(r, F, S)
    <2> HIDE DEF F
    <2>1. QED
      BY <1>1, <1>2, TotalSum
  <1>5. (S = {} => r = 0) /\ \A x : S = {x} => r = F[x]
    <2> HIDE DEF F, r
    <2>1. QED
      BY <1>1, <1>3, <1>4, SumOfFew
  <1>6. S = {c} => F[c] = Total[c]
    OBVIOUS
  <1>7. QED
    <2> HIDE DEF F
    <2>1. QED
      BY <1>5, <1>6, OutcomeAssumption

\* The revenue of one recovery, or of none.
LEMMA RecoveredAmount ==
    ASSUME NEW known, IsFiniteSet(known), \A o \in known : o.amount \in Nat
    PROVE  /\ Revenue(known) \in Nat
           /\ Paid(known) = {} => Revenue(known) = 0
           /\ \A o : Paid(known) = {o} => Revenue(known) = o.amount
  <1> DEFINE S == Paid(known)
             F == [o \in S |-> o.amount]
  <1>1. IsFiniteSet(S)
    <2>1. S \in SUBSET known
      BY DEF Paid
    <2> HIDE DEF S
    <2>2. QED
      BY <2>1, FS_Subset
  <1>2. \A o \in S : F[o] = o.amount
    OBVIOUS
  <1>3. \A o \in S : F[o] \in Nat
    BY DEF Paid
  <1>4. IsSum(TotalOf(S, LAMBDA o : o.amount), F, S)
    <2> HIDE DEF F, S
    <2>1. QED
      BY <1>1, <1>2, AmountSum
  <1>5. IsSum(Revenue(known), F, S)
    BY <1>4 DEF Revenue
  <1>6. Revenue(known) \in Nat /\ (S = {} => Revenue(known) = 0)
        /\ \A x : S = {x} => Revenue(known) = F[x]
    <2> HIDE DEF F, S
    <2>1. QED
      BY <1>1, <1>3, <1>5, SumOfFew
  <1>7. QED
    <2>1. \A o : S = {o} => F[o] = o.amount
      BY <1>2
    <2> HIDE DEF F
    <2>2. QED
      BY <1>6, <2>1

\* What one payment paid.
LEMMA PaidAmount ==
    ASSUME Types, NEW c \in Cases
    PROVE  /\ TotalOf(PaymentsOf(c), LAMBDA p : LinkAmount[paid[p].link]) \in Nat
           /\ \A p : PaymentsOf(c) = {p} =>
                 TotalOf(PaymentsOf(c), LAMBDA q : LinkAmount[paid[q].link])
                     = LinkAmount[paid[p].link]
  <1> DEFINE S == PaymentsOf(c)
             F == [p \in S |-> LinkAmount[paid[p].link]]
             r == TotalOf(S, LAMBDA p : LinkAmount[paid[p].link])
  <1>1. IsFiniteSet(S)
    BY PaymentsFinite
  <1>2. \A p \in S : F[p] = LinkAmount[paid[p].link]
    OBVIOUS
  <1>3. \A p \in S : F[p] \in Nat
    BY OutcomeAssumption DEF PaymentsOf, Types
  <1>4. IsSum(r, F, S)
    <2> HIDE DEF F, S
    <2>1. QED
      BY <1>1, <1>2, LinkSum
  <1>5. r \in Nat /\ \A x : S = {x} => r = F[x]
    <2> HIDE DEF F, r, S
    <2>1. QED
      BY <1>1, <1>3, <1>4, SumOfFew
  <1>6. \A p : S = {p} => F[p] = LinkAmount[paid[p].link]
    BY <1>2
  <1>7. QED
    <2> HIDE DEF F
    <2>1. QED
      BY <1>5, <1>6

\* Revenue and funnel of an ordinary case.
LEMMA RevenueOfCase ==
    ASSUME Discipline, OneEach, Amounts, Credited, Measures, NEW c \in Cases, Ordinary(c)
    PROVE  LET known  == OutcomesOf(c, outcomes)
               made   == {a \in Actions : CaseOf[a] = c /\ Committed(a)}
               stages == Funnel([d \in {c} |-> case[d].val], Total,
                                [a \in made |-> [case |-> c, status |-> act[a].val.status]], known)
           IN /\ Revenue(known) <= TotalOf(PaymentsOf(c), LAMBDA p : LinkAmount[paid[p].link])
              /\ (\A p \in PaymentsOf(c) : LinkAmount[paid[p].link] <= Total[c])
                   => \A n \in 1..3 : stages[n] >= stages[n + 1]
  <1> DEFINE known  == OutcomesOf(c, outcomes)
             made   == {a \in Actions : CaseOf[a] = c /\ Committed(a)}
             cases  == [d \in {c} |-> case[d].val]
             actions == [a \in made |-> [case |-> c, status |-> act[a].val.status]]
             stages == Funnel(cases, Total, actions, known)
             eligible == {d \in DOMAIN cases : cases[d].status \notin {"CLOSED", "FAILED"}}
             actioned == {actions[a].case : a \in {a \in DOMAIN actions :
                                                        actions[a].status # "CANCELLED"}}
             total(S) == TotalOf(S, LAMBDA d : Total[d])
             paidUp == TotalOf(PaymentsOf(c), LAMBDA p : LinkAmount[paid[p].link])
  <1>1. IsFiniteSet(known) /\ \A o \in known : o.amount \in Nat
    <2>1. known \in SUBSET outcomes
      BY DEF OutcomesOf
    <2>2. \A o \in outcomes : o.amount \in Nat
      BY DEF Discipline, Types, OutcomeRow
    <2> HIDE DEF known
    <2>3. QED
      BY <2>1, <2>2, FS_Subset DEF Measures
  <1>2. /\ Revenue(known) \in Nat
        /\ Paid(known) = {} => Revenue(known) = 0
        /\ \A o : Paid(known) = {o} => Revenue(known) = o.amount
    <2> HIDE DEF known
    <2>1. QED
      BY <1>1, RecoveredAmount
  <1>3. paidUp \in Nat /\ \A p : PaymentsOf(c) = {p} => paidUp = LinkAmount[paid[p].link]
    BY PaidAmount DEF Discipline
  <1>4. \A o \in Paid(known) :
            /\ Paid(known) = {o} /\ \E p : PaymentsOf(c) = {p} /\ RecoveryOf(o, p)
            /\ o.action \in made /\ act[o.action].val.status # "CANCELLED"
    BY OneRecovery
  <1>5. DOMAIN cases = {c} /\ eligible = {c}
    <2>1. cases[c].status \in {"RISK_ASSESSED", "RECOVERED"}
      BY DEF Discipline, Stages
    <2>2. QED
      BY <2>1
  <1>6. actioned \in SUBSET {c}
    OBVIOUS
  <1>7. Paid(known) # {} => actioned = {c}
    <2>1. ASSUME NEW o \in Paid(known) PROVE actioned = {c}
      <3>1. actions[o.action].case = c /\ actions[o.action].status # "CANCELLED"
            /\ o.action \in DOMAIN actions
        BY <1>4
      <3>2. c \in actioned
        BY <3>1
      <3> HIDE DEF actioned
      <3>3. QED
        BY <1>6, <3>2
    <2>2. QED
      BY <2>1
  <1>8. stages = <<total(DOMAIN cases), total(eligible), total(actioned), Revenue(known)>>
    BY FunnelSums
  <1>9. /\ total({c}) = Total[c] /\ Total[c] \in Nat
        /\ total(actioned) \in {0, Total[c]}
        /\ actioned = {c} => total(actioned) = Total[c]
    <2>1. actioned = {} \/ actioned = {c}
      <3> HIDE DEF actioned
      <3>1. QED
        BY <1>6
    <2>2. {c} \in SUBSET {c}
      OBVIOUS
    <2> HIDE DEF actioned
    <2>3. QED
      BY <1>6, <2>1, <2>2, FewTotals
  <1>10. Revenue(known) <= paidUp
    <2>1. CASE Paid(known) = {}
      BY <1>2, <1>3, <2>1
    <2>2. CASE Paid(known) # {}
      <3>1. PICK o \in Paid(known) : TRUE
        BY <2>2
      <3>2. Revenue(known) = o.amount
        BY <1>2, <1>4, <3>1
      <3>3. PICK p : PaymentsOf(c) = {p} /\ RecoveryOf(o, p)
        BY <1>4, <3>1
      <3>4. paidUp = LinkAmount[paid[p].link]
        BY <1>3, <3>3
      <3> HIDE DEF known, paidUp
      <3>5. QED
        BY <3>2, <3>3, <3>4 DEF RecoveryOf
    <2>3. QED
      BY <2>1, <2>2
  <1>11. ASSUME \A p \in PaymentsOf(c) : LinkAmount[paid[p].link] <= Total[c]
         PROVE  Revenue(known) <= total(actioned)
    <2>1. CASE Paid(known) = {}
      <3> HIDE DEF actioned, known
      <3>1. QED
        BY <1>2, <1>9, <2>1
    <2>2. CASE Paid(known) # {}
      <3>1. PICK o \in Paid(known) : TRUE
        BY <2>2
      <3>2. Revenue(known) = o.amount /\ o.amount <= Total[c]
        <4>1. Revenue(known) = o.amount
          BY <1>2, <1>4, <3>1
        <4>2. PICK p : PaymentsOf(c) = {p} /\ RecoveryOf(o, p)
          BY <1>4, <3>1
        <4>3. LinkAmount[paid[p].link] <= Total[c] /\ Total[c] \in Nat
          BY <1>11, <4>2, OutcomeAssumption
        <4>4. o.amount <= Total[c]
          BY <4>2, <4>3 DEF RecoveryOf
        <4>5. QED
          BY <4>1, <4>4
      <3>3. total(actioned) = Total[c]
        <4> HIDE DEF actioned
        <4>1. QED
          BY <1>7, <1>9, <2>2
      <3> HIDE DEF actioned, known
      <3>4. QED
        BY <3>2, <3>3
    <2>3. QED
      BY <2>1, <2>2
  <1>12. ASSUME \A p \in PaymentsOf(c) : LinkAmount[paid[p].link] <= Total[c],
                NEW n \in 1..3
         PROVE  stages[n] >= stages[n + 1]
    <2>1. stages = <<Total[c], Total[c], total(actioned), Revenue(known)>>
      <3> HIDE DEF actioned, known, stages
      <3>1. QED
        BY <1>5, <1>8, <1>9
    <2>2. Revenue(known) <= total(actioned) /\ total(actioned) <= Total[c]
      <3>1. total(actioned) <= Total[c]
        <4> HIDE DEF actioned, known
        <4>1. QED
          BY <1>9
      <3>2. QED
        BY <1>11, <1>12, <3>1
    <2> HIDE DEF stages
    <2> DEFINE s3 == total(actioned)
               s4 == Revenue(known)
    <2>3. s3 \in Nat /\ s4 \in Nat /\ Total[c] \in Nat
      <3> HIDE DEF actioned, known
      <3>1. QED
        BY <1>2, <1>9
    <2>4. stages = <<Total[c], Total[c], s3, s4>> /\ s4 <= s3 /\ s3 <= Total[c]
      BY <2>1, <2>2
    <2> HIDE DEF s3, s4
    <2>5. n = 1 \/ n = 2 \/ n = 3
      OBVIOUS
    <2>6. QED
      BY <2>3, <2>4, <2>5
  <1>13. QED
    BY <1>10, <1>12

\* RevenueIsPaid: an ordinary case is never credited with more than was paid
\* through its link, and on the dashboard it narrows from at risk over eligible and
\* actioned to recovered, unless the payment was larger than the case.
THEOREM RevenueIsThatOfPayments == Spec => []RevenueIsPaid
  <1>1. Discipline /\ OneEach /\ Money => RevenueIsPaid
    BY RevenueOfCase DEF RevenueIsPaid, Money
  <1>2. QED
    BY <1>1, OneEachHolds, DisciplineHolds, MoneyHolds, PTL

-----------------------------------------------------------------------------
(* The measured amounts. *)

\* A measurement is that of its outcome and puts its amount in one of two groups.
LEMMA MeasurementFields ==
    ASSUME NEW o, o.amount \in Nat, o.case \in Cases, NEW i, NEW m, m = NewMeasurement(i, o)
    PROVE  /\ m.outcome = o.id
           /\ m.treatment \in Nat /\ m.control \in Nat /\ m.treatment + m.control = o.amount
  <1> DEFINE variant == Variant(Facts[o.case].class.category, o.case \in Held)
             baseline == Baseline(Facts[o.case].domain, Facts[o.case].class, Total[o.case])
             figures == Measure(o.amount, variant, baseline)
  <1>1. m = [id |-> i, outcome |-> o.id, variant |-> variant,
             treatment |-> figures.treatment, control |-> figures.control,
             incremental |-> figures.incremental]
    BY DEF NewMeasurement
  <1>2. m.outcome = o.id
    BY <1>1
  <1>3. /\ m.treatment = IF variant = "CONTROL" THEN 0 ELSE o.amount
        /\ m.control = IF variant = "CONTROL" THEN o.amount ELSE 0
    <2> HIDE DEF variant, baseline
    <2>1. QED
      BY <1>1 DEF Measure
  <1> HIDE DEF variant, baseline
  <1>4. QED
    BY <1>2, <1>3

\* The recoveries that no measurement of T is about.
Unmeasured(T) == {o \in Paid(outcomes) : \A m \in T : m.outcome # o.id}

\* Every measurement takes one recovery away from those that are not measured, or
\* has no amount.
LEMMA OneUnmeasuredLess ==
    ASSUME Types, Origins, Amounts, Measures,
           NEW T \in SUBSET measurements, NEW m \in T
    PROVE  \E o \in outcomes :
              /\ \E i : m = NewMeasurement(i, o)
              /\ o.amount \in Nat /\ o.case \in Cases
              /\ \/ /\ o \in Unmeasured(T \ {m})
                    /\ Unmeasured(T) = Unmeasured(T \ {m}) \ {o}
                 \/ Unmeasured(T) = Unmeasured(T \ {m}) /\ o.amount = 0
  <1>1. PICK o \in outcomes : \E i : m = NewMeasurement(i, o)
    BY DEF Measures
  <1>2. o \in OutcomeRow /\ o.amount \in Nat /\ o.case \in Cases
    BY DEF Types, OutcomeRow
  <1>3. m.outcome = o.id
    BY <1>1, <1>2, MeasurementFields
  <1>4. ASSUME NEW n \in T \ {m} PROVE n.outcome # o.id
    BY <1>3, <1>4 DEF Measures
  <1>5. ASSUME NEW q \in outcomes, q # o PROVE m.outcome # q.id
    BY <1>3, <1>5 DEF Measures
  <1>6. CASE o \in Paid(outcomes)
    <2>1. o \in Unmeasured(T \ {m})
      BY <1>4, <1>6 DEF Unmeasured
    <2>2. \A q \in Paid(outcomes) : q \in outcomes
      BY DEF Paid
    <2>3. Unmeasured(T) = Unmeasured(T \ {m}) \ {o}
      BY <1>3, <1>5, <2>2 DEF Unmeasured
    <2>4. QED
      BY <1>1, <1>2, <2>1, <2>3
  <1>7. CASE o \notin Paid(outcomes)
    <2>1. o.status \notin Recovered
      BY <1>7 DEF Paid
    <2>2. o.amount = 0
      BY <2>1 DEF Amounts, Origins
    <2>3. \A q \in Paid(outcomes) : q \in outcomes /\ q # o
      BY <1>7 DEF Paid
    <2>4. Unmeasured(T) = Unmeasured(T \ {m})
      BY <1>5, <2>3 DEF Unmeasured
    <2>5. QED
      BY <1>1, <1>2, <2>2, <2>4
  <1>8. QED
    BY <1>6, <1>7

\* Over any set of measurements, what the two groups add up to and what is not
\* measured make the revenue.
LEMMA GroupsAddUp ==
    ASSUME Types, Origins, Amounts, Measures
    PROVE  /\ TotalOf(measurements, LAMBDA m : m.treatment) \in Nat
           /\ TotalOf(measurements, LAMBDA m : m.control) \in Nat
           /\ Revenue(outcomes) \in Nat
           /\ TotalOf(measurements, LAMBDA m : m.treatment)
                + TotalOf(measurements, LAMBDA m : m.control) <= Revenue(outcomes)
  <1> DEFINE M == measurements
             O == Paid(outcomes)
             treatment == TotalOf(measurements, LAMBDA m : m.treatment)
             control   == TotalOf(measurements, LAMBDA m : m.control)
             Ft == [m \in M |-> m.treatment]
             Fc == [m \in M |-> m.control]
             Fa == [o \in O |-> o.amount]
  <1>1. IsFiniteSet(M) /\ IsFiniteSet(O)
    <2>1. O \in SUBSET outcomes
      BY DEF Paid
    <2> HIDE DEF O
    <2>2. QED
      BY <2>1, FS_Subset DEF Measures
  <1>2. \A o \in outcomes : o.amount \in Nat /\ o.case \in Cases
    BY DEF Types, OutcomeRow
  <1>3. \A m \in M : m.treatment \in Nat /\ m.control \in Nat
    BY <1>2, MeasurementFields DEF Measures
  <1>4. /\ \A m \in M : Ft[m] = m.treatment /\ Fc[m] = m.control
        /\ \A o \in O : Fa[o] = o.amount
    OBVIOUS
  <1>5. (\A m \in M : Ft[m] \in Nat /\ Fc[m] \in Nat) /\ (\A o \in O : Fa[o] \in Nat)
    BY <1>2, <1>3 DEF Paid
  <1>6. IsSum(treatment, Ft, M) /\ IsSum(control, Fc, M) /\ IsSum(Revenue(outcomes), Fa, O)
    <2>1. IsSum(treatment, Ft, M)
      <3> HIDE DEF Ft
      <3>1. QED
        BY <1>1, <1>4, TreatmentSum
    <2>2. IsSum(control, Fc, M)
      <3> HIDE DEF Fc
      <3>1. QED
        BY <1>1, <1>4, ControlSum
    <2>3. IsSum(TotalOf(O, LAMBDA o : o.amount), Fa, O)
      <3> HIDE DEF Fa, O
      <3>1. QED
        BY <1>1, <1>4, AmountSum
    <2>4. Revenue(outcomes) = TotalOf(O, LAMBDA o : o.amount)
      BY DEF Revenue
    <2> HIDE DEF Ft, Fc, Fa, O, treatment, control
    <2>5. QED
      BY <2>1, <2>2, <2>3, <2>4
  <1>7. PICK tr : Summing(tr, Ft, M) /\ treatment = tr[M]
    BY <1>6 DEF IsSum
  <1>8. PICK co : Summing(co, Fc, M) /\ control = co[M]
    BY <1>6 DEF IsSum
  <1>9. PICK am : Summing(am, Fa, O) /\ Revenue(outcomes) = am[O]
    BY <1>6 DEF IsSum
  <1>10. /\ tr[{}] = 0 /\ \A T \in SUBSET M : tr[T] \in Nat
         /\ \A T \in SUBSET M : \A m \in T : tr[T] = Ft[m] + tr[T \ {m}]
    <2> HIDE DEF Ft
    <2>1. QED
      BY <1>1, <1>5, <1>7, SumStep
  <1>11. /\ co[{}] = 0 /\ \A T \in SUBSET M : co[T] \in Nat
         /\ \A T \in SUBSET M : \A m \in T : co[T] = Fc[m] + co[T \ {m}]
    <2> HIDE DEF Fc
    <2>1. QED
      BY <1>1, <1>5, <1>8, SumStep
  <1>12. /\ \A T \in SUBSET O : am[T] \in Nat
         /\ \A T \in SUBSET O : \A o \in T : am[T] = Fa[o] + am[T \ {o}]
    <2> HIDE DEF Fa, O
    <2>1. QED
      BY <1>1, <1>5, <1>9, SumStep
  <1> DEFINE Holds(T) == tr[T] + co[T] + am[Unmeasured(T)] = am[O]
             G == {T \in SUBSET M : Holds(T)}
  <1>13. ASSUME NEW T \in SUBSET M, \A U \in SUBSET T : U # T => U \in G
         PROVE  T \in G
    <2>1. CASE T = {}
      <3>1. Unmeasured(T) = O
        BY <2>1 DEF Unmeasured
      <3>2. tr[T] = 0 /\ co[T] = 0 /\ am[O] \in Nat
        BY <1>10, <1>11, <1>12, <2>1
      <3> HIDE DEF O
      <3>3. Holds(T)
        BY <3>1, <3>2
      <3>4. QED
        BY <3>3
    <2>2. CASE T # {}
      <3>1. PICK m \in T : TRUE
        BY <2>2
      <3>2. PICK o \in outcomes :
              /\ \E i : m = NewMeasurement(i, o)
              /\ o.amount \in Nat /\ o.case \in Cases
              /\ \/ /\ o \in Unmeasured(T \ {m})
                    /\ Unmeasured(T) = Unmeasured(T \ {m}) \ {o}
                 \/ Unmeasured(T) = Unmeasured(T \ {m}) /\ o.amount = 0
        BY <3>1, OneUnmeasuredLess
      <3> DEFINE t == tr[T \ {m}]
                 c == co[T \ {m}]
                 u == am[Unmeasured(T)]
                 v == am[Unmeasured(T \ {m})]
      <3>3. t + c + v = am[O]
        <4>1. T \ {m} \in SUBSET T /\ T \ {m} # T
          BY <3>1
        <4>2. T \ {m} \in G
          <5> HIDE DEF G
          <5>1. QED
            BY <1>13, <4>1
        <4>3. QED
          BY <4>2
      <3>4. tr[T] = m.treatment + t /\ co[T] = m.control + c
        BY <1>4, <1>10, <1>11, <3>1
      <3>5. /\ m.treatment \in Nat /\ m.control \in Nat
            /\ m.treatment + m.control = o.amount
        BY <3>2, MeasurementFields
      <3>6. v = o.amount + u
        <4>1. Unmeasured(T) \in SUBSET O /\ Unmeasured(T \ {m}) \in SUBSET O
          BY DEF Unmeasured
        <4>2. am[Unmeasured(T)] \in Nat
          BY <1>12, <4>1
        <4>3. CASE o \in Unmeasured(T \ {m}) /\ Unmeasured(T) = Unmeasured(T \ {m}) \ {o}
          <5>1. o \in O /\ Fa[o] = o.amount
            BY <1>4, <4>1, <4>3
          <5>2. am[Unmeasured(T \ {m})] = Fa[o] + am[Unmeasured(T \ {m}) \ {o}]
            BY <1>12, <4>1, <4>3
          <5>3. QED
            BY <4>3, <5>1, <5>2
        <4>4. CASE Unmeasured(T) = Unmeasured(T \ {m}) /\ o.amount = 0
          BY <4>2, <4>4
        <4>5. QED
          BY <3>2, <4>3, <4>4
      <3>7. t \in Nat /\ c \in Nat /\ u \in Nat
        <4>1. T \ {m} \in SUBSET M /\ Unmeasured(T) \in SUBSET O
          BY DEF Unmeasured
        <4> HIDE DEF M, O
        <4>2. QED
          BY <1>10, <1>11, <1>12, <4>1
      <3> HIDE DEF t, c, v, u
      <3>8. (m.treatment + t) + (m.control + c) + u = am[O]
        BY <3>2, <3>3, <3>5, <3>6, <3>7
      <3>9. Holds(T)
        BY <3>4, <3>8 DEF u
      <3>10. QED
        BY <3>9
    <2>3. QED
      BY <2>1, <2>2
  <1>14. M \in G
    <2>1. G \in SUBSET SUBSET M
      OBVIOUS
    <2>2. G = SUBSET M
      <3>1. \A T \in SUBSET M : (\A U \in SUBSET T : U # T => U \in G) => T \in G
        BY <1>13
      <3> HIDE DEF G, M
      <3>2. QED
        BY <1>1, <2>1, <3>1, SubsetInduction
    <2> HIDE DEF G
    <2>3. QED
      BY <2>2
  <1>15. tr[M] + co[M] + am[Unmeasured(M)] = am[O]
    BY <1>14
  <1>16. tr[M] \in Nat /\ co[M] \in Nat /\ am[Unmeasured(M)] \in Nat /\ am[O] \in Nat
    <2>1. Unmeasured(M) \in SUBSET O /\ M \in SUBSET M /\ O \in SUBSET O
      BY DEF Unmeasured
    <2> HIDE DEF M, O
    <2>2. QED
      BY <1>10, <1>11, <1>12, <2>1
  <1> HIDE DEF M, O, treatment, control
  <1>17. treatment \in Nat /\ control \in Nat /\ Revenue(outcomes) \in Nat
         /\ treatment + control <= Revenue(outcomes)
    BY <1>7, <1>8, <1>9, <1>15, <1>16
  <1>18. QED
    BY <1>17 DEF treatment, control

\* MeasuredIsRecovered: no recovery is measured twice, whichever of the sessions
\* that look for a measurement and make one comes first, and so the figures of the
\* two groups never exceed the revenue.
THEOREM MeasurementsAreOfRecoveries == Spec => []MeasuredIsRecovered
  <1>1. Discipline /\ Money => MeasuredIsRecovered
    <2> SUFFICES ASSUME Discipline, Money PROVE MeasuredIsRecovered
      OBVIOUS
    <2>1. Types /\ Origins /\ Amounts /\ Measures
      BY DEF Discipline, Money
    <2>2. \A m1, m2 \in measurements : m1.outcome = m2.outcome => m1 = m2
      BY <2>1 DEF Measures
    <2> DEFINE figures == Metrics([c \in Cases |-> case[c].val], Total, outcomes, measurements)
    <2>3. /\ figures.treatment = TotalOf(measurements, LAMBDA m : m.treatment)
          /\ figures.control = TotalOf(measurements, LAMBDA m : m.control)
          /\ figures.revenue = Revenue(outcomes)
      BY DEF Metrics
    <2>4. figures.treatment + figures.control <= figures.revenue
      <3> HIDE DEF figures
      <3>1. QED
        BY <2>1, <2>3, GroupsAddUp
    <2>5. QED
      BY <2>2, <2>4 DEF MeasuredIsRecovered
  <1>2. QED
    BY <1>1, DisciplineHolds, MoneyHolds, PTL

=============================================================================
