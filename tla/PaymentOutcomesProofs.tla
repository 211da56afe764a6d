------------------------- MODULE PaymentOutcomesProofs -------------------------
(***************************************************************************)
(* The discipline of PaymentOutcomesInv is inductive, and from it: every   *)
(* recovered case has its outcome, the sessions of one payment leave one,  *)
(* and a credited Action is within the attribution window.                 *)
(***************************************************************************)
EXTENDS PaymentOutcomesInv, FiniteSetTheorems, TLAPS

-----------------------------------------------------------------------------
(* Types. *)

\* What _derive_status, _derive_source and the amount of an outcome come to.
LEMMA OutcomeTypes ==
    /\ \A result, amount, total : StatusOf(result, amount, total) \in OutcomeStatus
    /\ \A status, attempted, since, window :
           SourceOf(status, attempted, since, window) \in RecoverySource
    /\ \A result, stated \in Nat \cup {Unstated}, total \in Nat :
           AmountOf(result, stated, total) \in Nat
  <1>1. \A result, amount, total : StatusOf(result, amount, total) \in OutcomeStatus
    BY DEF StatusOf, OutcomeStatus
  <1>2. \A status, attempted, since, window :
           SourceOf(status, attempted, since, window) \in RecoverySource
    BY DEF SourceOf, RecoverySource
  <1>3. \A result, stated \in Nat \cup {Unstated}, total \in Nat :
           AmountOf(result, stated, total) \in Nat
    BY DEF AmountOf
  <1>4. QED
    BY <1>1, <1>2, <1>3

LEMMA InitTypes == Init => Types
  BY OutcomeAssumption
     DEF Init, Types, Unlocked, Lockable, Row, ActRow, ActStatus, Draft, NoDraft, Nothing, Unpaid,
         CaseStatus, Ended

LEMMA Parts ==
    /\ \A e \in Events : e[1] \in Payments
    /\ \A a \in Actions : CaseOf[a] \in Cases
    /\ \A l \in Links : CaseOf[l] \in Cases
    /\ Own \subseteq Actions /\ Asked \subseteq Actions /\ Actions \subseteq Links
    /\ NoTx \notin Events /\ NoTx \notin Actions /\ NoAction \notin Links
    /\ NoAction \notin Actions /\ Actions \cap Events = {}
  BY OutcomeAssumption DEF Actions, Links

\* Rows and what is written into them.
LEMMA RowTypes ==
    /\ \A row \in Row : /\ WithLink(row) \in Row
                        /\ WithLink(row).status = row.status
                        /\ WithLink(row).stage = "WAITING_FOR_PAYMENT"
                        /\ WithLink(row).version = row.version + 1
    /\ \A row \in Row : /\ PaidRow(row) \in Row
                        /\ PaidRow(row).status = "RECOVERED"
                        /\ PaidRow(row).stage = row.stage
                        /\ PaidRow(row).version = row.version + 1
    /\ \A row \in Row : Unlocked(row) \in Lockable(Row)
    /\ \A row \in ActRow : Unlocked(row) \in Lockable(ActRow)
    /\ \A row \in ActRow, status \in ActStatus :
           /\ [row EXCEPT !.status = status] \in ActRow
           /\ [row EXCEPT !.status = status].status = status
           /\ [row EXCEPT !.status = status].at = row.at
    /\ \A row \in Lockable(Row) : row.val \in Row /\ row.new \in Row
    /\ \A row \in Lockable(ActRow) : row.val \in ActRow /\ row.new \in ActRow
  <1>1. \A row \in Row : /\ WithLink(row) \in Row
                         /\ WithLink(row).status = row.status
                         /\ WithLink(row).stage = "WAITING_FOR_PAYMENT"
                         /\ WithLink(row).version = row.version + 1
    <2> SUFFICES ASSUME NEW row \in Row
                 PROVE  /\ WithLink(row) \in Row
                        /\ WithLink(row).status = row.status
                        /\ WithLink(row).stage = "WAITING_FOR_PAYMENT"
                        /\ WithLink(row).version = row.version + 1
      OBVIOUS
    <2> DEFINE staged == [row EXCEPT !.stage = "WAITING_FOR_PAYMENT"]
    <2>1. staged \in Row /\ staged.version + 1 \in Nat
      BY DEF Row
    <2>2. WithLink(row) = [staged EXCEPT !.version = staged.version + 1]
      BY DEF Row, WithLink
    <2>3. WithLink(row) \in Row
      <3> HIDE DEF staged
      <3> QED
        BY <2>1, <2>2 DEF Row
    <2>4. QED
      BY <2>3 DEF Row, WithLink
  <1>2. /\ \A row \in Row : Unlocked(row) \in Lockable(Row)
        /\ \A row \in ActRow : Unlocked(row) \in Lockable(ActRow)
        /\ \A row \in Lockable(Row) : row.val \in Row /\ row.new \in Row
        /\ \A row \in Lockable(ActRow) : row.val \in ActRow /\ row.new \in ActRow
    BY DEF Unlocked, Lockable
  <1>3. \A row \in ActRow, status \in ActStatus :
           /\ [row EXCEPT !.status = status] \in ActRow
           /\ [row EXCEPT !.status = status].status = status
           /\ [row EXCEPT !.status = status].at = row.at
    BY DEF ActRow
  <1>4. \A row \in Row : /\ PaidRow(row) \in Row
                         /\ PaidRow(row).status = "RECOVERED"
                         /\ PaidRow(row).stage = row.stage
                         /\ PaidRow(row).version = row.version + 1
    <2> SUFFICES ASSUME NEW row \in Row
                 PROVE  /\ PaidRow(row) \in Row
                        /\ PaidRow(row).status = "RECOVERED"
                        /\ PaidRow(row).stage = row.stage
                        /\ PaidRow(row).version = row.version + 1
      OBVIOUS
    <2> DEFINE won == [row EXCEPT !.status = "RECOVERED"]
    <2>1. won \in Row /\ won.version + 1 \in Nat
      BY DEF Row, CaseStatus
    <2>2. PaidRow(row) = [won EXCEPT !.version = won.version + 1]
      BY DEF Row, PaidRow
    <2>3. PaidRow(row) \in Row
      <3> HIDE DEF won
      <3> QED
        BY <2>1, <2>2 DEF Row
    <2>4. QED
      BY <2>3 DEF Row, PaidRow
  <1>5. QED
    BY <1>1, <1>2, <1>3, <1>4

\* What the executor records.
LEMMA ExecOutcomeTypes ==
    ASSUME Types, NEW a \in Own, NEW result \in {"FAILED", "UNKNOWN", "SUCCEEDED"}
    PROVE  /\ ExecOutcome(a, result) \in OutcomeRow
           /\ OutcomeOf(a) = {} => ExecOutcome(a, result) =
                                     OutcomeFor(a, CaseOf[a], a, result, Unstated)
           /\ OutcomeOf(a) # {} => ExecOutcome(a, result) \in OutcomeOf(a)
  <1>1. a \in Actions /\ CaseOf[a] \in Cases /\ Total[CaseOf[a]] \in Nat
    BY Parts, OutcomeAssumption
  <1>2. AmountOf(result, Unstated, Total[CaseOf[a]]) \in Nat
    BY <1>1 DEF AmountOf
  <1>3. OutcomeFor(a, CaseOf[a], a, result, Unstated) \in OutcomeRow
    BY <1>1, <1>2, OutcomeTypes DEF OutcomeFor, OutcomeRow
  <1>4. OutcomeOf(a) \subseteq OutcomeRow
    BY DEF OutcomeOf, Types
  <1>5. QED
    BY <1>3, <1>4 DEF ExecOutcome

LEMMA ExecTypes ==
    ASSUME Types, NEW a \in Own, ExecLoad(a) \/ ExecLink(a) \/ ExecPaid(a) \/ ExecNoLink(a)
    PROVE  Types'
  <1> DEFINE c == CaseOf[a]
  <1>1. /\ a \in Actions /\ a \in Links /\ c \in Cases
        /\ act[a].val \in ActRow /\ case[c].val \in Row
    BY Parts, RowTypes DEF Types
  <1>2. \A status \in ActStatus :
            [act EXCEPT ![a] = Unlocked([@.val EXCEPT !.status = status])]
                \in [Actions -> Lockable(ActRow)]
    BY <1>1, RowTypes DEF Types
  <1>3. CASE ExecLoad(a)
    <2>1. act' \in [Actions -> Lockable(ActRow)]
      BY <1>2, <1>3 DEF ExecLoad, ActStatus, Types
    <2>2. exec' \in [Own -> [pc : {"idle", "loaded", "done"}, version : Nat]]
      BY <1>1, <1>3 DEF ExecLoad, Types, Row, Ended
    <2>3. QED
      BY <1>3, <2>1, <2>2 DEF ExecLoad, Types, tables, events
  <1>4. CASE ExecLink(a)
    <2>1. act' \in [Actions -> Lockable(ActRow)]
      BY <1>2, <1>4 DEF ExecLink, ActStatus, Types, rows
    <2>2. [case EXCEPT ![c] = Unlocked(WithLink(@.val))] \in [Cases -> Lockable(Row)]
      BY <1>1, RowTypes DEF Types
    <2>3. case' \in [Cases -> Lockable(Row)]
      BY <1>4, <2>2 DEF ExecLink, Types, rows
    <2>4. exec' \in [Own -> [pc : {"idle", "loaded", "done"}, version : Nat]]
      BY <1>4 DEF ExecLink, Types, Ended
    <2>5. links' \subseteq Links
      BY <1>1, <1>4 DEF ExecLink, Types
    <2>6. QED
      BY <1>4, <2>1, <2>3, <2>4, <2>5 DEF ExecLink, Types, tables, events
  <1>5. CASE ExecNoLink(a)
    <2>1. PICK result \in {"FAILED", "UNKNOWN"} :
              /\ act' = [act EXCEPT ![a] = Unlocked([@.val EXCEPT !.status = result])]
              /\ outcomes' = outcomes \cup {ExecOutcome(a, result)}
              /\ IF result = "UNKNOWN" THEN links' \in {links, links \cup {a}} ELSE UNCHANGED links
      BY <1>5 DEF ExecNoLink
    <2>2. outcomes' \subseteq OutcomeRow
      BY <2>1, ExecOutcomeTypes DEF Types
    <2>3. act' \in [Actions -> Lockable(ActRow)]
      BY <1>2, <2>1 DEF ActStatus
    <2>4. exec' \in [Own -> [pc : {"idle", "loaded", "done"}, version : Nat]]
      BY <1>5 DEF ExecNoLink, Types, Ended
    <2>5. links' \subseteq Links
      BY <1>1, <2>1 DEF Types
    <2>6. QED
      BY <1>5, <2>2, <2>3, <2>4, <2>5 DEF ExecNoLink, Types, events
  <1>6. CASE ExecPaid(a)
    <2>1. CASE Unwritten(a)
      <3>1. act' \in [Actions -> Lockable(ActRow)]
        BY <1>2, <1>6, <2>1 DEF ExecPaid, ActStatus
      <3>2. [case EXCEPT ![c] = Unlocked(PaidRow(@.val))] \in [Cases -> Lockable(Row)]
        BY <1>1, RowTypes DEF Types
      <3>3. case' \in [Cases -> Lockable(Row)]
        BY <1>6, <2>1, <3>2 DEF ExecPaid
      <3>4. outcomes' \subseteq OutcomeRow
        BY <1>6, <2>1, ExecOutcomeTypes DEF ExecPaid, Types
      <3>5. exec' \in [Own -> [pc : {"idle", "loaded", "done"}, version : Nat]]
        BY <1>6, <2>1 DEF ExecPaid, Types, Ended
      <3>6. faults' \in 0..MaxFaults
        BY <1>6, <2>1, OutcomeAssumption DEF ExecPaid, Types
      <3>7. UNCHANGED <<links, paid, ev, seen, draft, now>>
        BY <1>6 DEF ExecPaid, events
      <3>8. QED
        BY <3>1, <3>3, <3>4, <3>5, <3>6, <3>7 DEF Types
    <2>2. CASE ~Unwritten(a)
      <3>1. exec' \in [Own -> [pc : {"idle", "loaded", "done"}, version : Nat]]
        BY <1>6, <2>2 DEF ExecPaid, Types, Ended
      <3>2. UNCHANGED <<case, act, outcomes, links, paid, ev, seen, draft, now, faults>>
        BY <1>6, <2>2 DEF ExecPaid, rows, tables, events
      <3>3. QED
        BY <3>1, <3>2 DEF Types
    <2>3. QED
      BY <2>1, <2>2
  <1>7. QED
    BY <1>3, <1>4, <1>5, <1>6

LEMMA LinkTypes ==
    ASSUME Types,
           \/ \E s \in Asked : AskLink(s)
           \/ \E g \in Ghosts : LoseAction(g)
           \/ \E p \in Payments : Pay(p)
           \/ Tick
    PROVE  Types'
  <1> USE DEF Types
  <1>1. ASSUME NEW s \in Asked, AskLink(s) PROVE Types'
    <2> DEFINE c == CaseOf[s]
    <2>1. s \in Actions /\ s \in Links /\ c \in Cases /\ case[c].val \in Row /\ now \in Nat
      BY Parts, RowTypes, OutcomeAssumption
    <2>2. [status |-> "SUCCEEDED", at |-> now] \in ActRow
      BY <2>1 DEF ActRow, ActStatus
    <2>3. act' \in [Actions -> Lockable(ActRow)] /\ case' \in [Cases -> Lockable(Row)]
      BY <1>1, <2>1, <2>2, RowTypes DEF AskLink
    <2>4. QED
      BY <1>1, <2>1, <2>3 DEF AskLink, tables, events
  <1>2. ASSUME NEW g \in Ghosts, LoseAction(g) PROVE Types'
    BY <1>2 DEF LoseAction, rows, tables, events, Links
  <1>3. ASSUME NEW p \in Payments, Pay(p) PROVE Types'
    BY <1>3, OutcomeAssumption DEF Pay, rows, tables, events
  <1>4. CASE Tick
    BY <1>4, OutcomeAssumption DEF Tick, rows, tables, events
  <1>5. QED
    BY <1>1, <1>2, <1>3, <1>4

\* What is known of the event of an active session.
LEMMA ActiveTypes ==
    ASSUME Types, Resolution, NEW e \in Events, Active(e)
    PROVE  /\ e[1] \in Payments /\ paid[e[1]].link \in Links /\ paid[e[1]].at \in 0..now
           /\ paid[e[1]] # Unpaid /\ paid[e[1]].own
           /\ seen[e] \in [case : Cases, row : Row, action : Actions \cup {NoAction},
                           status : ActStatus]
           /\ seen[e].case \in Cases /\ seen[e].row \in Row
           /\ seen[e].action \in Actions \cup {NoAction} /\ seen[e].status \in ActStatus
  <1>1. e[1] \in Payments /\ paid[e[1]] # Unpaid /\ paid[e[1]].own /\ seen[e] # Nothing
    BY Parts DEF Resolution, Resolved
  <1>2. /\ paid[e[1]] \in {Unpaid} \cup [link : Links, at : 0..now, own : BOOLEAN]
        /\ seen[e] \in {Nothing} \cup [case : Cases, row : Row, action : Actions \cup {NoAction},
                                      status : ActStatus]
    BY <1>1 DEF Types
  <1>3. QED
    BY <1>1, <1>2

\* The Action a payment is resolved to.
LEMMA ResolvedTypes ==
    ASSUME NEW l \in Links
    PROVE  /\ ActionFor(l) \in Actions \cup {NoAction}
           /\ ActionFor(l) # NoAction =>
                 CaseOf[ActionFor(l)] = CaseOf[l] /\ Committed(ActionFor(l))
  BY DEF ActionFor, LatestOf

LEMMA NewOutcomeTypes ==
    ASSUME Types, Resolution, NEW e \in Events, Active(e)
    PROVE  NewOutcome(e) \in OutcomeRow
  <1>1. /\ LinkAmount[paid[e[1]].link] \in Nat /\ Total[seen[e].case] \in Nat
        /\ seen[e].case \in Cases /\ seen[e].action \in Actions \cup {NoAction}
    BY ActiveTypes, OutcomeAssumption
  <1>2. AmountOf("SUCCEEDED", LinkAmount[paid[e[1]].link], Total[seen[e].case]) \in Nat
    BY <1>1 DEF AmountOf
  <1>3. QED
    BY <1>1, <1>2, OutcomeTypes DEF NewOutcome, OutcomeFor, OutcomeRow

\* The row a confirmation writes.
LEMMA RecoveredRowTypes ==
    ASSUME NEW row \in Row
    PROVE  /\ RecoveredRow(row) \in Row
           /\ RecoveredRow(row).status = "RECOVERED" /\ RecoveredRow(row).stage = "RECOVERED"
           /\ RecoveredRow(row).version = row.version + 1
           /\ RecoveredRow(row).version > row.version
  <1> DEFINE paidUp == [row EXCEPT !.status = "RECOVERED"]
             closed == [paidUp EXCEPT !.stage = "RECOVERED"]
  <1>1. closed \in Row /\ closed.version + 1 \in Nat
    <2>1. paidUp \in Row
      BY DEF Row, CaseStatus
    <2>2. QED
      <3> HIDE DEF paidUp
      <3> QED
        BY <2>1 DEF Row
  <1>2. RecoveredRow(row) = [closed EXCEPT !.version = closed.version + 1]
    BY DEF Row, RecoveredRow
  <1>3. RecoveredRow(row) \in Row
    <2> HIDE DEF closed
    <2> QED
      BY <1>1, <1>2 DEF Row
  <1>4. QED
    BY <1>3 DEF Row, RecoveredRow

\* What a session drafts.
Drafted(e) == IF Earlier(e) = {} THEN NewOutcome(e) ELSE CHOOSE o \in Earlier(e) : TRUE

LEMMA RecordDraft ==
    ASSUME Types, Resolution, NEW e \in Events, Record(e)
    PROVE  /\ Drafted(e) \in OutcomeRow
           /\ draft' = [draft EXCEPT ![e] =
                  [outcome |-> {Drafted(e)},
                   measurement |-> IF Measured(Drafted(e)) THEN {}
                                   ELSE {NewMeasurement(e, Drafted(e))}]]
           /\ Earlier(e) = {} => Drafted(e) = NewOutcome(e)
           /\ Earlier(e) # {} => Drafted(e) \in Earlier(e)
  <1>1. Active(e)
    BY DEF Record, Active
  <1>2. NewOutcome(e) \in OutcomeRow
    BY <1>1, NewOutcomeTypes
  <1>3. Earlier(e) \subseteq OutcomeRow
    BY DEF Earlier, OutcomeOf, Types
  <1>4. QED
    BY <1>2, <1>3 DEF Drafted, Record

LEMMA EventTypes ==
    ASSUME Types, Resolution, NEW e \in Events,
           Load(e) \/ Record(e) \/ MeasureFails(e) \/ Commit(e) \/ Lose(e)
    PROVE  Types'
  <1>1. CASE Load(e)
    <2>1. CASE ev' = [ev EXCEPT ![e] = "loaded"]
      <3> DEFINE l == paid[e[1]].link
      <3>1. l \in Links /\ CaseOf[l] \in Cases
        BY <1>1, Parts DEF Load, Types
      <3>2. case[CaseOf[l]].val \in Row
        BY <3>1, RowTypes DEF Types
      <3>3. /\ ActionFor(l) \in Actions \cup {NoAction}
            /\ ActionFor(l) \in Actions => act[ActionFor(l)].val.status \in ActStatus
        BY <3>1, ResolvedTypes, RowTypes DEF Types, ActRow
      <3> DEFINE found == [case |-> CaseOf[l], row |-> case[CaseOf[l]].val, action |-> ActionFor(l),
                           status |-> IF ActionFor(l) = NoAction THEN "NONE"
                                      ELSE act[ActionFor(l)].val.status]
      <3>4. found \in [case : Cases, row : Row, action : Actions \cup {NoAction},
                       status : ActStatus]
        BY <3>1, <3>2, <3>3 DEF ActStatus
      <3>5. seen' = [seen EXCEPT ![e] = found] \/ seen' = seen
        BY <1>1 DEF Load
      <3> HIDE DEF found
      <3>6. seen' \in [Events -> {Nothing} \cup [case : Cases, row : Row,
                                               action : Actions \cup {NoAction},
                                               status : ActStatus]]
        BY <3>4, <3>5 DEF Types
      <3>7. ev' \in [Events -> {"due", "loaded", "recorded", "done", "lost"}]
        BY <2>1 DEF Types
      <3>8. UNCHANGED <<case, act, links, paid, outcomes, exec, draft, now, faults>>
        BY <1>1 DEF Load, rows, tables
      <3>9. QED
        BY <3>6, <3>7, <3>8 DEF Types
    <2>2. CASE ev' = [ev EXCEPT ![e] = "done"] /\ UNCHANGED seen
      BY <1>1, <2>2 DEF Load, Types, rows, tables
    <2>3. QED
      BY <1>1, <2>1, <2>2 DEF Load
  <1>2. CASE Record(e)
    <2>1. /\ seen[e].case \in Cases /\ seen[e].action \in Actions \cup {NoAction}
          /\ case[seen[e].case].val \in Row
          /\ seen[e].action # NoAction => act[seen[e].action].val \in ActRow
      BY <1>2, ActiveTypes, RowTypes DEF Record, Active, Types
    <2>2. case' \in [Cases -> Lockable(Row)]
      <3>1. RecoveredRow(case[seen[e].case].val) \in Row
        BY <2>1, RecoveredRowTypes
      <3>2. QED
        <4>1. UpdatesCase(e) =>
                  case' = [case EXCEPT ![seen[e].case] =
                               [val |-> case[seen[e].case].val,
                                new |-> RecoveredRow(case[seen[e].case].val), by |-> e]]
          <5>1. UpdatesCase(e) =>
                    case' = [case EXCEPT ![seen[e].case] = Write(@, e, RecoveredRow(@.val))]
            BY <1>2 DEF Record, WriteRows
          <5>2. QED
            BY <2>1, <5>1 DEF Write, Types
        <4>2. ~UpdatesCase(e) => case' = case
          BY <1>2 DEF Record, WriteRows
        <4>3. QED
          BY <2>1, <3>1, <4>1, <4>2 DEF Types, Lockable
    <2>3. act' \in [Actions -> Lockable(ActRow)]
      <3>1. UpdatesAction(e) =>
                [act[seen[e].action].val EXCEPT !.status = "SUCCEEDED"] \in ActRow
        BY <2>1, RowTypes DEF UpdatesAction, ActStatus
      <3>2. QED
        BY <1>2, <2>1, <3>1 DEF Record, WriteRows, Write, Types, Lockable, UpdatesAction
    <2>4. draft' \in [Events -> Draft]
      <3>1. Drafted(e) \in OutcomeRow
        BY <1>2, RecordDraft
      <3>2. NewMeasurement(e, Drafted(e)) \in MeasurementRow
        BY <3>1 DEF MeasurementRow
      <3> DEFINE new == [outcome |-> {Drafted(e)},
                         measurement |-> IF Measured(Drafted(e)) THEN {}
                                         ELSE {NewMeasurement(e, Drafted(e))}]
      <3>3. new \in Draft
        BY <3>1, <3>2 DEF Draft
      <3>4. draft' = [draft EXCEPT ![e] = new]
        BY <1>2, RecordDraft
      <3> HIDE DEF new
      <3>5. QED
        BY <3>3, <3>4 DEF Types
    <2>5. QED
      BY <1>2, <2>2, <2>3, <2>4 DEF Record, Types, tables
  <1>3. CASE MeasureFails(e)
    <2>1. draft' \in [Events -> Draft]
      <3> DEFINE new == [draft[e] EXCEPT !.measurement = {}]
      <3>1. new \in Draft
        BY DEF Types, Draft
      <3>2. draft' = [draft EXCEPT ![e] = new]
        BY <1>3 DEF MeasureFails
      <3> HIDE DEF new
      <3>3. QED
        BY <3>1, <3>2 DEF Types
    <2>2. faults' \in 0..MaxFaults
      BY <1>3, OutcomeAssumption DEF MeasureFails, Types
    <2>3. QED
      BY <1>3, <2>1, <2>2 DEF MeasureFails, Types, rows, tables
  <1>4. CASE Commit(e)
    <2>1. draft[e].outcome \subseteq OutcomeRow
      BY DEF Types, Draft
    <2>2. case' \in [Cases -> Lockable(Row)] /\ act' \in [Actions -> Lockable(ActRow)]
      BY <1>4, RowTypes DEF Commit, Publish, Types
    <2>3. QED
      BY <1>4, <2>1, <2>2 DEF Commit, Over, NoDraft, Draft, Types
  <1>5. CASE Lose(e)
    <2>1. case' \in [Cases -> Lockable(Row)] /\ act' \in [Actions -> Lockable(ActRow)]
      BY <1>5, RowTypes DEF Lose, Undo, Discard, Types
    <2>2. faults' \in 0..MaxFaults
      BY <1>5, OutcomeAssumption DEF Lose, Types
    <2>3. QED
      BY <1>5, <2>1, <2>2 DEF Lose, Over, NoDraft, Draft, Types, tables
  <1>6. QED
    BY <1>1, <1>2, <1>3, <1>4, <1>5

LEMMA NextTypes ==
    ASSUME Types, Resolution, [Next]_vars
    PROVE  Types'
  <1>1. CASE UNCHANGED vars
    BY <1>1 DEF vars, rows, tables, events, Types
  <1>2. QED
    BY <1>1, ExecTypes, LinkTypes, EventTypes DEF Next

-----------------------------------------------------------------------------
(* What a step does to the rows. *)

ExecStep(a)  == ExecLoad(a) \/ ExecLink(a) \/ ExecPaid(a) \/ ExecNoLink(a)
MoneyStep    == \/ \E g \in Ghosts : LoseAction(g)
                \/ \E p \in Payments : Pay(p)
                \/ Tick
EventStep(e) == Load(e) \/ Record(e) \/ MeasureFails(e) \/ Commit(e) \/ Lose(e)

LEMMA StepKinds ==
    ASSUME [Next]_vars
    PROVE  \/ \E a \in Own : ExecStep(a)
           \/ \E s \in Asked : AskLink(s)
           \/ MoneyStep
           \/ \E e \in Events : EventStep(e)
           \/ UNCHANGED vars
  BY DEF Next, ExecStep, MoneyStep, EventStep

LEMMA MoneyFrame ==
    ASSUME Types, MoneyStep
    PROVE  /\ UNCHANGED <<case, act, outcomes, measurements, exec, ev, seen, draft>>
           /\ \A p \in Payments : paid[p] # Unpaid => paid'[p] = paid[p]
  BY DEF MoneyStep, LoseAction, Pay, Tick, rows, tables, events, Types

\* An executor writes its Action when nobody holds it, and its case when nobody
\* has written it since it was read.
LEMMA ExecRows ==
    ASSUME Types, Resolution, Versions, NEW a \in Own, ExecStep(a)
    PROVE  /\ a \in Actions /\ CaseOf[a] \in Cases
           /\ \A b \in Actions :
                 \/ act'[b] = act[b]
                 \/ /\ b = a /\ act[b].by = NoTx /\ act'[b].by = NoTx
                    /\ act'[b].val.at = act[b].val.at
                    /\ act'[b].val.status \notin {"NONE", "AUTHORIZED"}
           /\ \A c \in Cases :
                 \/ case'[c] = case[c]
                 \/ /\ c = CaseOf[a] /\ case[c].by = NoTx /\ case'[c].by = NoTx
                    /\ case[c].val.status \notin TerminalStatus
                    /\ \/ case'[c].val = WithLink(case[c].val)
                       \/ ExecPaid(a) /\ Unwritten(a) /\ case'[c].val = PaidRow(case[c].val)
           /\ UNCHANGED <<paid, ev, seen, draft, now>>
           /\ ExecPaid(a) \/ UNCHANGED measurements
  <1>1. a \in Actions /\ CaseOf[a] \in Cases /\ act[a].val \in ActRow
    BY Parts, RowTypes DEF Types
  <1>2. Free(act[a], a) => act[a].by = NoTx
    BY <1>1, Parts DEF Free, Types, Lockable
  <1>3. Free(case[CaseOf[a]], a) => case[CaseOf[a]].by = NoTx
    BY <1>1, Parts DEF Free, Types, Lockable
  <1>4. ASSUME NEW status \in ActStatus \ {"NONE", "AUTHORIZED"}, Free(act[a], a),
               act' = [act EXCEPT ![a] = Unlocked([@.val EXCEPT !.status = status])]
        PROVE  \A b \in Actions :
                 \/ act'[b] = act[b]
                 \/ /\ b = a /\ act[b].by = NoTx /\ act'[b].by = NoTx
                    /\ act'[b].val.at = act[b].val.at
                    /\ act'[b].val.status \notin {"NONE", "AUTHORIZED"}
    BY <1>1, <1>2, <1>4, RowTypes DEF Types, Unlocked
  <1>5. CASE ExecLoad(a)
    BY <1>1, <1>4, <1>5 DEF ExecLoad, tables, events, ActStatus
  <1>6. CASE ExecLink(a)
    <2>1. CASE Unwritten(a)
      <3>1. case[CaseOf[a]].val.status \notin TerminalStatus
        BY <1>6, <2>1 DEF ExecLink, Unwritten, Versions
      <3>2. act' = [act EXCEPT ![a] = Unlocked([@.val EXCEPT !.status = "SUCCEEDED"])]
        BY <1>6, <2>1 DEF ExecLink
      <3>3. case' = [case EXCEPT ![CaseOf[a]] = Unlocked(WithLink(@.val))]
        BY <1>6, <2>1 DEF ExecLink
      <3>4. Free(act[a], a) /\ Free(case[CaseOf[a]], a)
        BY <1>6 DEF ExecLink
      <3>5. \A c \in Cases :
                 \/ case'[c] = case[c]
                 \/ /\ c = CaseOf[a] /\ case[c].by = NoTx /\ case'[c].by = NoTx
                    /\ case[c].val.status \notin TerminalStatus
                    /\ case'[c].val = WithLink(case[c].val)
        BY <1>1, <1>3, <3>1, <3>3, <3>4 DEF Types, Unlocked
      <3>6. \A b \in Actions :
                 \/ act'[b] = act[b]
                 \/ /\ b = a /\ act[b].by = NoTx /\ act'[b].by = NoTx
                    /\ act'[b].val.at = act[b].val.at
                    /\ act'[b].val.status \notin {"NONE", "AUTHORIZED"}
        BY <1>4, <3>2, <3>4 DEF ActStatus
      <3>7. QED
        BY <1>1, <1>6, <3>5, <3>6 DEF ExecLink, tables, events
    <2>2. CASE ~Unwritten(a)
      BY <1>1, <1>6, <2>2 DEF ExecLink, rows, tables, events
    <2>3. QED
      BY <2>1, <2>2
  <1>7. CASE ExecNoLink(a)
    BY <1>1, <1>4, <1>7 DEF ExecNoLink, tables, events, ActStatus
  <1>8. CASE ExecPaid(a)
    <2>1. CASE Unwritten(a)
      <3>1. case[CaseOf[a]].val.status \notin TerminalStatus
        BY <1>8, <2>1 DEF ExecPaid, Unwritten, Versions
      <3>2. act' = [act EXCEPT ![a] = Unlocked([@.val EXCEPT !.status = "SUCCEEDED"])]
        BY <1>8, <2>1 DEF ExecPaid
      <3>3. case' = [case EXCEPT ![CaseOf[a]] = Unlocked(PaidRow(@.val))]
        BY <1>8, <2>1 DEF ExecPaid
      <3>4. Free(act[a], a) /\ Free(case[CaseOf[a]], a)
        BY <1>8 DEF ExecPaid
      <3>5. \A c \in Cases :
                 \/ case'[c] = case[c]
                 \/ /\ c = CaseOf[a] /\ case[c].by = NoTx /\ case'[c].by = NoTx
                    /\ case[c].val.status \notin TerminalStatus
                    /\ case'[c].val = PaidRow(case[c].val)
        BY <1>1, <1>3, <3>1, <3>3, <3>4 DEF Types, Unlocked
      <3>6. \A b \in Actions :
                 \/ act'[b] = act[b]
                 \/ /\ b = a /\ act[b].by = NoTx /\ act'[b].by = NoTx
                    /\ act'[b].val.at = act[b].val.at
                    /\ act'[b].val.status \notin {"NONE", "AUTHORIZED"}
        BY <1>4, <3>2, <3>4 DEF ActStatus
      <3>7. UNCHANGED <<paid, ev, seen, draft, now>>
        BY <1>8 DEF ExecPaid, events
      <3>8. QED
        BY <1>1, <1>8, <2>1, <3>5, <3>6, <3>7
    <2>2. CASE ~Unwritten(a)
      BY <1>1, <1>8, <2>2 DEF ExecPaid, rows, tables, events
    <2>3. QED
      BY <2>1, <2>2
  <1>9. QED
    BY <1>5, <1>6, <1>7, <1>8 DEF ExecStep

\* An agent's request writes its new Action and a case that is open and has no
\* link.
LEMMA AskRows ==
    ASSUME Types, NEW s \in Asked, AskLink(s)
    PROVE  /\ s \in Actions /\ CaseOf[s] \in Cases
           /\ \A b \in Actions \ {s} : act'[b] = act[b]
           /\ ~Committed(s) /\ act'[s].by = NoTx /\ act'[s].val.status = "SUCCEEDED"
           /\ \A c \in Cases \ {CaseOf[s]} : case'[c] = case[c]
           /\ case[CaseOf[s]].by = NoTx /\ case'[CaseOf[s]].by = NoTx
           /\ case[CaseOf[s]].val.status \notin TerminalStatus
           /\ case[CaseOf[s]].val.stage = "NONE"
           /\ case'[CaseOf[s]].val = WithLink(case[CaseOf[s]].val)
           /\ UNCHANGED <<paid, outcomes, measurements, exec, ev, seen, draft, now>>
  <1>1. s \in Actions /\ CaseOf[s] \in Cases
    BY Parts
  <1>2. Free(case[CaseOf[s]], s) => case[CaseOf[s]].by = NoTx
    BY <1>1, Parts DEF Free, Types, Lockable
  <1>3. QED
    BY <1>1, <1>2 DEF AskLink, MayMakeLink, Committed, Types, Unlocked, tables, events

\* A session writes under its locks what it will commit, and drops its locks with
\* what it wrote, committed or not.
LEMMA EventRows ==
    ASSUME Types, Resolution, NEW e \in Events, EventStep(e)
    PROVE  /\ \A b \in Actions :
                 \/ act'[b] = act[b]
                 \/ /\ Record(e) /\ UpdatesAction(e) /\ seen[e].action = b
                    /\ act[b].by \in {NoTx, e} /\ act'[b].by = e /\ act'[b].val = act[b].val
                    /\ act'[b].new.status = "SUCCEEDED" /\ act'[b].new.at = act[b].val.at
                 \/ /\ act[b].by = e /\ act'[b].by = NoTx
                    /\ \/ Commit(e) /\ act'[b].val = act[b].new
                       \/ Lose(e) /\ act'[b].val = act[b].val
           /\ \A c \in Cases :
                 \/ case'[c] = case[c]
                 \/ /\ Record(e) /\ UpdatesCase(e) /\ seen[e].case = c
                    /\ case[c].by \in {NoTx, e} /\ case'[c].by = e /\ case'[c].val = case[c].val
                    /\ case'[c].new = RecoveredRow(case[c].val)
                    /\ seen[e].row.version = case[c].val.version
                 \/ /\ case[c].by = e /\ case'[c].by = NoTx
                    /\ \/ Commit(e) /\ case'[c].val = case[c].new
                       \/ Lose(e) /\ case'[c].val = case[c].val
           /\ UNCHANGED <<links, paid, exec, now>>
           /\ \A f \in Events \ {e} : ev'[f] = ev[f] /\ seen'[f] = seen[f] /\ draft'[f] = draft[f]
  <1>1. CASE Load(e)
    BY <1>1 DEF Load, rows, tables, Types
  <1>2. CASE Record(e)
    <2>1. /\ seen[e].case \in Cases /\ seen[e].action \in Actions \cup {NoAction}
          /\ case[seen[e].case].val \in Row
          /\ seen[e].action # NoAction => act[seen[e].action].val \in ActRow
      BY <1>2, ActiveTypes, RowTypes DEF Record, Active, Types
    <2>2. \A b \in Actions :
             \/ act'[b] = act[b]
             \/ /\ Record(e) /\ UpdatesAction(e) /\ seen[e].action = b
                /\ act[b].by \in {NoTx, e} /\ act'[b].by = e /\ act'[b].val = act[b].val
                /\ act'[b].new.status = "SUCCEEDED" /\ act'[b].new.at = act[b].val.at
      <3>1. ~UpdatesAction(e) => act' = act
        BY <1>2 DEF Record, WriteRows
      <3>2. UpdatesAction(e) =>
                act' = [act EXCEPT ![seen[e].action] =
                            Write(@, e, [@.val EXCEPT !.status = "SUCCEEDED"])]
        BY <1>2 DEF Record, WriteRows
      <3>3. UpdatesAction(e) => act[seen[e].action].by \in {NoTx, e}
        BY <1>2 DEF Record, MayWrite, Free
      <3> DEFINE won == [act[seen[e].action].val EXCEPT !.status = "SUCCEEDED"]
      <3>4. CASE UpdatesAction(e)
        <4>1. seen[e].action \in Actions
          BY <2>1, <3>4 DEF UpdatesAction
        <4>2. won.status = "SUCCEEDED" /\ won.at = act[seen[e].action].val.at
          BY <2>1, <4>1, RowTypes, Parts DEF ActStatus
        <4>3. act' = [act EXCEPT ![seen[e].action] =
                         [val |-> act[seen[e].action].val, new |-> won, by |-> e]]
          BY <3>2, <3>4, <4>1 DEF Write, Types
        <4> HIDE DEF won
        <4>4. QED
          BY <1>2, <3>3, <3>4, <4>1, <4>2, <4>3 DEF Types
      <3>5. QED
        BY <3>1, <3>4
    <2>3. \A c \in Cases :
             \/ case'[c] = case[c]
             \/ /\ Record(e) /\ UpdatesCase(e) /\ seen[e].case = c
                /\ case[c].by \in {NoTx, e} /\ case'[c].by = e /\ case'[c].val = case[c].val
                /\ case'[c].new = RecoveredRow(case[c].val)
                /\ seen[e].row.version = case[c].val.version
      <3>1. ~UpdatesCase(e) => case' = case
        BY <1>2 DEF Record, WriteRows
      <3>2. UpdatesCase(e) =>
                case' = [case EXCEPT ![seen[e].case] = Write(@, e, RecoveredRow(@.val))]
        BY <1>2 DEF Record, WriteRows
      <3>3. UpdatesCase(e) => /\ case[seen[e].case].by \in {NoTx, e}
                              /\ seen[e].row.version = case[seen[e].case].val.version
        BY <1>2 DEF Record, MayWrite, Free, Fresh
      <3>4. QED
        BY <1>2, <2>1, <3>1, <3>2, <3>3 DEF Write, Types
    <2>4. QED
      BY <1>2, <2>2, <2>3, RecordDraft DEF Record, Types, tables
  <1>3. CASE MeasureFails(e)
    BY <1>3 DEF MeasureFails, rows, tables, Types
  <1>4. CASE Commit(e)
    BY <1>4 DEF Commit, Publish, Over, Unlocked, Types
  <1>5. CASE Lose(e)
    BY <1>5 DEF Lose, Undo, Discard, Over, Unlocked, Types
  <1>6. QED
    BY <1>1, <1>2, <1>3, <1>4, <1>5 DEF EventStep

\* Only a request for a link makes an Action, and none is ever unmade or redated.
LEMMA ActionsKept ==
    ASSUME Types, Resolution, Locks, Versions,
           (\E a \in Own : ExecStep(a)) \/ MoneyStep \/ (\E e \in Events : EventStep(e))
               \/ UNCHANGED vars
    PROVE  \A b \in Actions : /\ Committed(b)' <=> Committed(b)
                              /\ act'[b].val.at = act[b].val.at
  <1>1. ASSUME NEW a \in Own, ExecStep(a), NEW b \in Actions
        PROVE  (Committed(b)' <=> Committed(b)) /\ act'[b].val.at = act[b].val.at
    BY <1>1, ExecRows DEF Committed, Resolution
  <1>2. CASE MoneyStep
    BY <1>2, MoneyFrame DEF Committed
  <1>3. ASSUME NEW e \in Events, EventStep(e), NEW b \in Actions
        PROVE  (Committed(b)' <=> Committed(b)) /\ act'[b].val.at = act[b].val.at
    <2>1. act[b].by = e => /\ act[b].new.status = "SUCCEEDED" /\ act[b].new.at = act[b].val.at
                           /\ Committed(b)
      BY Parts DEF Locks, Resolution, Resolved, Active, UpdatesAction
    <2>2. QED
      BY <1>3, <2>1, EventRows DEF Committed
  <1>4. CASE UNCHANGED vars
    BY <1>4 DEF vars, rows, Committed
  <1>5. QED
    BY <1>1, <1>2, <1>3, <1>4

\* The Action of a payment depends on those of its case only.
LEMMA ResolutionKept ==
    ASSUME NEW l \in Links,
           \A b \in Actions : CaseOf[b] = CaseOf[l] =>
               (Committed(b)' <=> Committed(b)) /\ act'[b].val.at = act[b].val.at
    PROVE  ActionFor(l)' = ActionFor(l)
  <1>1. LatestOf(CaseOf[l])' = LatestOf(CaseOf[l])
    BY DEF LatestOf
  <1>2. l \in Actions => (Committed(l)' <=> Committed(l))
    OBVIOUS
  <1>3. QED
    BY <1>1, <1>2 DEF ActionFor

\* The executor of an Action of the case finds its link paid.
PaidByExecutor(c) ==
    \E a \in Own : /\ ExecPaid(a) /\ Unwritten(a) /\ CaseOf[a] = c
                  /\ case'[c].val = PaidRow(case[c].val)

\* A row of a case is what it was, or has a later version; a recovered one stays
\* recovered, and no case gets back to having had no link.
LEMMA CaseMoves ==
    ASSUME Types, Resolution, Locks, Versions, Stages, [Next]_vars, NEW c \in Cases
    PROVE  \/ case'[c].val = case[c].val
           \/ /\ case'[c].val.version > case[c].val.version
              /\ case[c].val.status = "RECOVERED" => case'[c].val.status = "RECOVERED"
              /\ case'[c].val.stage = "NONE" => case[c].val.stage = "NONE"
              /\ \/ case'[c].val.status = "RECOVERED" /\ case'[c].val.stage = "RECOVERED"
                 \/ /\ case[c].val.status \notin TerminalStatus
                    /\ \/ case'[c].val = WithLink(case[c].val)
                       \/ PaidByExecutor(c)
  <1>1. case[c].val \in Row /\ case[c].new \in Row
    BY RowTypes DEF Types
  <1>2. /\ WithLink(case[c].val).version > case[c].val.version
        /\ WithLink(case[c].val).status = case[c].val.status
        /\ WithLink(case[c].val).stage # "NONE"
        /\ PaidRow(case[c].val).version > case[c].val.version
        /\ PaidRow(case[c].val).status = "RECOVERED"
        /\ PaidRow(case[c].val).stage = case[c].val.stage
    <2>1. case[c].val.version \in Nat
      BY <1>1 DEF Row
    <2>2. QED
      BY <1>1, <2>1, RowTypes
  <1>3. ASSUME NEW a \in Own, ExecStep(a)
        PROVE  \/ case'[c].val = case[c].val
               \/ /\ case[c].val.status \notin TerminalStatus
                  /\ \/ case'[c].val = WithLink(case[c].val)
                     \/ PaidByExecutor(c) /\ case'[c].val = PaidRow(case[c].val)
    BY <1>3, ExecRows DEF PaidByExecutor
  <1>4. ASSUME NEW s \in Asked, AskLink(s)
        PROVE  \/ case'[c].val = case[c].val
               \/ /\ case[c].val.status \notin TerminalStatus
                  /\ case'[c].val = WithLink(case[c].val)
    BY <1>4, AskRows
  <1>5. ASSUME NEW e \in Events, EventStep(e)
        PROVE  \/ case'[c].val = case[c].val
               \/ /\ case'[c].val.status = "RECOVERED" /\ case'[c].val.stage = "RECOVERED"
                  /\ case'[c].val.version > case[c].val.version
    BY <1>5, EventRows, Parts DEF Locks
  <1>6. CASE MoneyStep
    BY <1>6, MoneyFrame
  <1>7. CASE UNCHANGED vars
    BY <1>7 DEF vars, rows
  <1>8. QED
    BY <1>2, <1>3, <1>4, <1>5, <1>6, <1>7, StepKinds DEF TerminalStatus

\* A session loads, flushes and ends, in that order, and nobody else moves it.
LEMMA SessionMoves ==
    ASSUME Types, Resolution, Versions, [Next]_vars, NEW e \in Events
    PROVE  \/ /\ ev'[e] = ev[e] /\ seen'[e] = seen[e]
              /\ draft'[e] = draft[e] \/ (MeasureFails(e) /\ draft'[e].outcome = draft[e].outcome)
           \/ /\ Load(e) /\ ev[e] = "due" /\ ev'[e] = "loaded" /\ draft'[e] = draft[e]
              /\ LET l == paid[e[1]].link IN
                 /\ seen'[e].case = CaseOf[l] /\ seen'[e].row = case[CaseOf[l]].val
                 /\ seen'[e].action = ActionFor(l)
                 /\ seen'[e].status = IF ActionFor(l) = NoAction THEN "NONE"
                                      ELSE act[ActionFor(l)].val.status
           \/ Load(e) /\ ev[e] = "due" /\ ev'[e] = "done" /\ draft'[e] = draft[e]
           \/ /\ Record(e) /\ ev[e] = "loaded" /\ ev'[e] = "recorded" /\ seen'[e] = seen[e]
              /\ draft'[e].outcome = {Drafted(e)}
           \/ Commit(e) /\ ev[e] = "recorded" /\ ev'[e] = "done" /\ draft'[e] = NoDraft
           \/ Lose(e) /\ Active(e) /\ ev'[e] = "lost" /\ draft'[e] = NoDraft
  <1>1. CASE Load(e)
    <2>1. e \in DOMAIN ev /\ e \in DOMAIN seen
      BY DEF Types
    <2>2. QED
      BY <1>1, <2>1 DEF Load
  <1>2. CASE Record(e)
    BY <1>2, RecordDraft DEF Record, Types
  <1>3. CASE MeasureFails(e)
    BY <1>3 DEF MeasureFails, Types, Draft
  <1>4. CASE Commit(e)
    BY <1>4 DEF Commit, Over, Types
  <1>5. CASE Lose(e)
    BY <1>5 DEF Lose, Over, Types, Active
  <1>6. ASSUME NEW f \in Events, EventStep(f), f # e
        PROVE  ev'[e] = ev[e] /\ seen'[e] = seen[e] /\ draft'[e] = draft[e]
    BY <1>6, EventRows
  <1>7. QED
    BY <1>1, <1>2, <1>3, <1>4, <1>5, <1>6, StepKinds, ExecRows, AskRows, MoneyFrame
       DEF EventStep, vars, events

\* Between its flush and its end a session holds the rows it updates, and no
\* others.
LEMMA SessionLocks ==
    ASSUME Types, Resolution, NEW e \in Events
    PROVE  /\ Record(e) =>
                 /\ \A c \in Cases : UpdatesCase(e) /\ seen[e].case = c => case'[c].by = e
                 /\ \A a \in Actions : UpdatesAction(e) /\ seen[e].action = a => act'[a].by = e
           /\ Commit(e) \/ Lose(e) =>
                 /\ \A c \in Cases : case'[c].by # e
                 /\ \A a \in Actions : act'[a].by # e
  <1>1. Record(e) =>
                 /\ \A c \in Cases : UpdatesCase(e) /\ seen[e].case = c => case'[c].by = e
                 /\ \A a \in Actions : UpdatesAction(e) /\ seen[e].action = a => act'[a].by = e
    BY DEF Record, WriteRows, Write, Types
  <1>2. Commit(e) =>
                 /\ \A c \in Cases : case'[c].by # e
                 /\ \A a \in Actions : act'[a].by # e
    BY Parts DEF Commit, Publish, Unlocked, Types
  <1>3. Lose(e) =>
                 /\ \A c \in Cases : case'[c].by # e
                 /\ \A a \in Actions : act'[a].by # e
    BY Parts DEF Lose, Undo, Discard, Unlocked, Types
  <1>4. QED
    BY <1>1, <1>2, <1>3

-----------------------------------------------------------------------------
(* What a step adds to the outcomes. *)

\* What the executor of a paid link records.
PaidOutcome(a) == OutcomeFor(a, CaseOf[a], a, "SUCCEEDED", Unstated)

LEMMA PaidOutcomeFields ==
    ASSUME Types, NEW a \in Own
    PROVE  LET o == PaidOutcome(a) IN
           /\ o.id = a /\ o.action = a /\ o.case = CaseOf[a]
           /\ o.status = "RECOVERED" /\ o.amount = Total[CaseOf[a]]
           /\ o.source = "ACTION_ATTRIBUTED" => ~(now - act[a].val.at > Window)
           /\ o \in OutcomeRow
  <1> DEFINE total == Total[CaseOf[a]]
             since == now - act[a].val.at
             o == PaidOutcome(a)
  <1>1. a # NoAction /\ total \in Nat
    BY Parts, OutcomeAssumption
  <1>2. AmountOf("SUCCEEDED", Unstated, total) = total
    BY DEF AmountOf
  <1>3. StatusOf("SUCCEEDED", total, total) = "RECOVERED"
    BY <1>1 DEF StatusOf
  <1>4. /\ o.id = a /\ o.action = a /\ o.case = CaseOf[a]
        /\ o.status = "RECOVERED" /\ o.amount = total
        /\ o.source = SourceOf("RECOVERED", TRUE, since, Window)
    BY <1>1, <1>2, <1>3 DEF PaidOutcome, OutcomeFor
  <1>5. SourceOf("RECOVERED", TRUE, since, Window) = "ACTION_ATTRIBUTED" => ~(since > Window)
    <2> HIDE DEF since
    <2> QED
      BY DEF SourceOf, Recovered
  <1>6. o \in OutcomeRow
    <2>1. o = [id |-> a, case |-> CaseOf[a], action |-> a, status |-> "RECOVERED",
               amount |-> total, source |-> SourceOf("RECOVERED", TRUE, since, Window)]
      BY <1>1, <1>2, <1>3 DEF PaidOutcome, OutcomeFor
    <2>2. a \in Actions /\ CaseOf[a] \in Cases
      BY Parts
    <2>3. SourceOf("RECOVERED", TRUE, since, Window) \in RecoverySource
      BY OutcomeTypes
    <2> HIDE DEF o, since, total
    <2>4. QED
      BY <1>1, <2>1, <2>2, <2>3 DEF OutcomeRow, OutcomeStatus
  <1>7. QED
    BY <1>4, <1>5, <1>6

\* The executor that finds its link paid, and its case as it read it, inserts the
\* first outcome of its Action and recovers the case.
LEMMA PaidStep ==
    ASSUME Types, Resolution, Versions, Origins, NEW a \in Own, ExecPaid(a), Unwritten(a)
    PROVE  /\ LinkIsPaid(a) /\ OutcomeOf(a) = {}
           /\ outcomes' = outcomes \cup {PaidOutcome(a)}
           /\ case[CaseOf[a]].by = NoTx /\ case[CaseOf[a]].val.status # "RECOVERED"
           /\ case'[CaseOf[a]].val = PaidRow(case[CaseOf[a]].val)
           /\ case'[CaseOf[a]].val.status = "RECOVERED"
           /\ act'[a].val.status = "SUCCEEDED" /\ exec'[a].pc = "done"
           /\ UNCHANGED <<links, paid, now>>
  <1>1. /\ a \in Actions /\ CaseOf[a] \in Cases /\ act[a].val \in ActRow
        /\ case[CaseOf[a]].val \in Row
    BY Parts, RowTypes DEF Types
  <1>2. exec[a].pc = "loaded" /\ LinkIsPaid(a) /\ Free(case[CaseOf[a]], a)
    BY DEF ExecPaid
  <1>3. case[CaseOf[a]].val.status \notin TerminalStatus
    BY <1>2 DEF Unwritten, Versions
  <1>4. ASSUME NEW o \in OutcomeOf(a) PROVE FALSE
    <2>1. o \in outcomes /\ o.action = a /\ a # NoAction
      BY Parts DEF OutcomeOf
    <2>2. CaseOf[a] = o.case
      BY <2>1 DEF Origins
    <2>3. CASE o.id \in Events
      BY <1>3, <2>1, <2>2, <2>3 DEF Origins, TerminalStatus
    <2>4. CASE o.id \notin Events
      BY <1>2, <2>1, <2>4 DEF Origins
    <2>5. QED
      BY <2>3, <2>4
  <1>5. outcomes' = outcomes \cup {PaidOutcome(a)}
    BY <1>4 DEF ExecPaid, ExecOutcome, PaidOutcome
  <1>6. case[CaseOf[a]].by = NoTx
    BY <1>1, <1>2, Parts DEF Free, Types, Lockable
  <1>7. /\ case' = [case EXCEPT ![CaseOf[a]] = Unlocked(PaidRow(@.val))]
        /\ act' = [act EXCEPT ![a] = Unlocked([@.val EXCEPT !.status = "SUCCEEDED"])]
        /\ exec' = [exec EXCEPT ![a] = Ended("done")]
    BY DEF ExecPaid
  <1>8. /\ case'[CaseOf[a]].val = PaidRow(case[CaseOf[a]].val)
        /\ case'[CaseOf[a]].val.status = "RECOVERED"
    BY <1>1, <1>7, RowTypes DEF Types, Unlocked
  <1>9. act'[a].val.status = "SUCCEEDED"
    BY <1>1, <1>7 DEF Types, Unlocked, ActRow
  <1>10. exec'[a].pc = "done"
    BY <1>7 DEF Types, Ended
  <1>11. UNCHANGED <<links, paid, now>>
    BY DEF ExecPaid
  <1>12. QED
    BY <1>2, <1>3, <1>4, <1>5, <1>6, <1>8, <1>9, <1>10, <1>11 DEF TerminalStatus

\* An outcome is added by an executor without success, by one that finds its link
\* paid, or by the commit of a session.
Failed(a, o) ==
    /\ ExecNoLink(a) /\ OutcomeOf(a) = {} /\ outcomes' = outcomes \cup {o}
    /\ o.id = a /\ o.action = a /\ o.case = CaseOf[a] /\ o.amount = 0
    /\ o.status \in {"FAILED", "UNKNOWN"} /\ o.source = "UNKNOWN_ATTRIBUTION"
    /\ exec'[a].pc = "done"
FoundPaid(a, o) == ExecPaid(a) /\ Unwritten(a) /\ o = PaidOutcome(a)
Drafts(e, o) == Commit(e) /\ o \in draft[e].outcome /\ outcomes' = outcomes \cup draft[e].outcome

LEMMA OutcomesGrow ==
    ASSUME Types, Resolution, Versions, Origins, [Next]_vars
    PROVE  /\ outcomes \subseteq outcomes'
           /\ \A o \in outcomes' \ outcomes :
                 \/ \E a \in Own : Failed(a, o)
                 \/ \E a \in Own : FoundPaid(a, o)
                 \/ \E e \in Events : Drafts(e, o)
  <1> DEFINE Goal == /\ outcomes \subseteq outcomes'
                     /\ \A o \in outcomes' \ outcomes :
                           \/ \E a \in Own : Failed(a, o)
                           \/ \E a \in Own : FoundPaid(a, o)
                           \/ \E e \in Events : Drafts(e, o)
  <1>1. ASSUME NEW a \in Own, ExecNoLink(a) PROVE Goal
    <2>1. PICK result \in {"FAILED", "UNKNOWN"} :
              outcomes' = outcomes \cup {ExecOutcome(a, result)}
      BY <1>1 DEF ExecNoLink
    <2>2. CASE OutcomeOf(a) # {}
      BY <2>1, <2>2, ExecOutcomeTypes DEF OutcomeOf
    <2>3. CASE OutcomeOf(a) = {}
      <3> DEFINE new == OutcomeFor(a, CaseOf[a], a, result, Unstated)
      <3>1. outcomes' = outcomes \cup {new}
        BY <2>1, <2>3 DEF ExecOutcome
      <3>2. AmountOf(result, Unstated, Total[CaseOf[a]]) = 0
        BY DEF AmountOf
      <3>3. StatusOf(result, 0, Total[CaseOf[a]]) = result
        BY DEF StatusOf
      <3>4. /\ new.id = a /\ new.action = a /\ new.case = CaseOf[a] /\ new.amount = 0
            /\ new.status = result
            /\ new.source = SourceOf(result, TRUE, now - act[a].val.at, Window)
        BY <3>2, <3>3, Parts DEF OutcomeFor
      <3>5. new.source = "UNKNOWN_ATTRIBUTION"
        BY <3>4 DEF SourceOf, Recovered
      <3>6. exec'[a].pc = "done"
        BY <1>1 DEF ExecNoLink, Ended, Types
      <3> HIDE DEF new
      <3>7. Failed(a, new)
        BY <1>1, <2>3, <3>1, <3>4, <3>5, <3>6 DEF Failed
      <3>8. QED
        BY <3>1, <3>7
    <2>4. QED
      BY <2>2, <2>3
  <1>2. ASSUME NEW a \in Own, ExecPaid(a) PROVE Goal
    <2>1. CASE Unwritten(a)
      BY <1>2, <2>1, PaidStep DEF FoundPaid
    <2>2. CASE ~Unwritten(a)
      BY <1>2, <2>2 DEF ExecPaid, tables
    <2>3. QED
      BY <2>1, <2>2
  <1>3. ASSUME NEW a \in Own, ExecLoad(a) \/ ExecLink(a) PROVE Goal
    BY <1>3 DEF ExecLoad, ExecLink, tables
  <1>4. ASSUME NEW e \in Events, EventStep(e) PROVE Goal
    BY <1>4 DEF EventStep, Load, Record, MeasureFails, Commit, Lose, tables, Drafts
  <1>5. QED
    BY <1>1, <1>2, <1>3, <1>4, StepKinds, AskRows, MoneyFrame DEF ExecStep, vars, tables

\* No link and no payment is taken back.
LEMMA PaidKept ==
    ASSUME Types, Resolution, Versions, [Next]_vars
    PROVE  /\ \A p \in Payments : paid[p] # Unpaid => paid'[p] = paid[p]
           /\ \A a \in Own : LinkIsPaid(a) => LinkIsPaid(a)'
  <1>1. \A p \in Payments : paid[p] # Unpaid => paid'[p] = paid[p]
    BY StepKinds, ExecRows, AskRows, MoneyFrame, EventRows DEF vars
  <1>2. links \subseteq links'
    <2>1. ASSUME NEW a \in Own, ExecStep(a) PROVE links \subseteq links'
      BY <2>1 DEF ExecStep, ExecLoad, ExecLink, ExecPaid, ExecNoLink
    <2>2. ASSUME NEW s \in Asked, AskLink(s) PROVE links \subseteq links'
      BY <2>2 DEF AskLink
    <2>3. CASE MoneyStep
      BY <2>3 DEF MoneyStep, LoseAction, Pay, Tick
    <2>4. QED
      BY <2>1, <2>2, <2>3, StepKinds, EventRows DEF vars
  <1>3. ASSUME NEW a \in Own, LinkIsPaid(a) PROVE LinkIsPaid(a)'
    BY <1>1, <1>2, <1>3 DEF LinkIsPaid
  <1>4. QED
    BY <1>1, <1>3

\* An executor that is done stays so.
LEMMA ExecDone ==
    ASSUME Types, Resolution, Versions, [Next]_vars, NEW a \in Own, exec[a].pc = "done"
    PROVE  exec'[a] = exec[a]
  <1>1. ASSUME NEW b \in Own, ExecStep(b) PROVE exec'[a] = exec[a]
    BY <1>1 DEF ExecStep, ExecLoad, ExecLink, ExecPaid, ExecNoLink, Types
  <1>2. QED
    BY <1>1, StepKinds, AskRows, MoneyFrame, EventRows DEF vars

-----------------------------------------------------------------------------
(* The discipline of the rows is inductive. *)

LEMMA InitDiscipline == Init => Discipline
  <1> SUFFICES ASSUME Init PROVE Discipline
    OBVIOUS
  <1>1. Types
    BY InitTypes
  <1>2. /\ \A c \in Cases : case[c].by = NoTx /\ case[c].val.status = "RISK_ASSESSED"
        /\ \A a \in Actions : /\ act[a].by = NoTx /\ act[a].val.at = 0
                              /\ act[a].val.status = IF a \in Own THEN "AUTHORIZED" ELSE "NONE"
    BY DEF Init, Unlocked
  <1>3. \A e \in Events : ev[e] = "due" /\ ~Active(e) /\ draft[e] = NoDraft
    BY DEF Init, Active
  <1>4. Resolution
    BY <1>2, <1>3, Parts DEF Resolution, Committed
  <1>5. Locks
    BY <1>2, <1>3, Parts DEF Locks
  <1>6. Versions
    BY <1>3 DEF Init, Versions, Ended
  <1>7. Stages
    BY <1>2, Parts, OutcomeAssumption DEF Stages, Committed
  <1>8. StillResolves
    BY <1>3 DEF StillResolves
  <1>9. Origins
    BY <1>3 DEF Init, Origins
  <1>10. RecoveredHasSome /\ SucceededDone
    BY <1>2, <1>3, Parts DEF RecoveredHasSome, SucceededDone
  <1>11. QED
    BY <1>1, <1>4, <1>5, <1>6, <1>7, <1>8, <1>9, <1>10 DEF Discipline

LEMMA NextResolution ==
    ASSUME Types, Resolution, Locks, Versions, [Next]_vars
    PROVE  Resolution'
  <1>1. \A b \in Actions : Committed(b) => Committed(b)'
    BY ActionsKept, StepKinds, AskRows DEF Committed
  <1>2. \A p \in Payments : paid[p] # Unpaid => paid'[p] = paid[p]
    BY StepKinds, ExecRows, AskRows, MoneyFrame, EventRows DEF vars
  <1>3. ASSUME NEW e \in Events, Active(e), seen'[e] = seen[e] PROVE Resolved(e)'
    <2>1. e[1] \in Payments /\ paid'[e[1]] = paid[e[1]] /\ Resolved(e)
      BY <1>2, <1>3, Parts DEF Resolution, Resolved
    <2>2. seen[e].action # NoAction => Committed(seen[e].action)'
      BY <1>1, <1>3, <2>1, ActiveTypes DEF Resolved
    <2>3. QED
      BY <1>3, <2>1, <2>2 DEF Resolved, Committed
  <1>4. ASSUME NEW e \in Events, Load(e), ev'[e] = "loaded" PROVE Resolved(e)'
    <2> DEFINE l == paid[e[1]].link
    <2>1. e[1] \in Payments /\ paid[e[1]] # Unpaid /\ l \in Links /\ CaseOf[l] \in Cases
      BY <1>4, Parts DEF Load, Types
    <2>2. /\ seen'[e] = [case |-> CaseOf[l], row |-> case[CaseOf[l]].val, action |-> ActionFor(l),
                         status |-> IF ActionFor(l) = NoAction THEN "NONE"
                                    ELSE act[ActionFor(l)].val.status]
          /\ paid[e[1]].own /\ paid' = paid /\ act' = act
      BY <1>4 DEF Load, Belongs, Types, rows
    <2>3. seen'[e] # Nothing
      BY <2>1, <2>2, OutcomeAssumption DEF Nothing
    <2>4. ActionFor(l) # NoAction => CaseOf[ActionFor(l)] = CaseOf[l] /\ Committed(ActionFor(l))
      BY <2>1, ResolvedTypes
    <2>5. QED
      BY <2>1, <2>2, <2>3, <2>4 DEF Resolved, Committed
  <1>5. ASSUME NEW e \in Events, Active(e)'
        PROVE  (Active(e) /\ seen'[e] = seen[e]) \/ (Load(e) /\ ev'[e] = "loaded")
    BY <1>5, SessionMoves DEF Active
  <1>6. \A a \in Own : Committed(a)'
    BY <1>1, Parts DEF Resolution
  <1>7. QED
    BY <1>3, <1>4, <1>5, <1>6 DEF Resolution, Active

LEMMA NextLocks ==
    ASSUME Types, Resolution, Locks, Versions, [Next]_vars
    PROVE  Locks'
  <1> DEFINE Stay(e) == ev'[e] = ev[e] /\ seen'[e] = seen[e]
             Start(e) == Load(e) /\ ev[e] = "due" /\ ev'[e] \in {"loaded", "done"}
             Flush(e) == Record(e) /\ ev[e] = "loaded" /\ ev'[e] = "recorded"
                           /\ seen'[e] = seen[e]
             End(e)   == (Commit(e) \/ Lose(e)) /\ ev'[e] \in {"done", "lost"}
  <1>1. \A e \in Events : Stay(e) \/ Start(e) \/ Flush(e) \/ End(e)
    BY SessionMoves
  <1>2. \A e, f \in Events : f # e /\ (Load(e) \/ Record(e) \/ Commit(e) \/ Lose(e)) => Stay(f)
    BY EventRows DEF EventStep
  <1>3. ASSUME NEW c \in Cases, NEW e \in Events
        PROVE  case'[c].by = e <=> ev'[e] = "recorded" /\ UpdatesCase(e)' /\ seen'[e].case = c
    <2>1. \/ case'[c].by = case[c].by
          \/ case'[c].by = NoTx
          \/ \E f \in Events : /\ Record(f) /\ UpdatesCase(f) /\ seen[f].case = c
                               /\ case[c].by \in {NoTx, f} /\ case'[c].by = f
      BY StepKinds, ExecRows, AskRows, MoneyFrame, EventRows DEF vars, rows
    <2>2. case[c].by = e /\ case'[c].by # e =>
              \/ Commit(e) \/ Lose(e)
      BY StepKinds, ExecRows, AskRows, MoneyFrame, EventRows, Parts DEF vars, rows
    <2>3. case[c].by = e <=> ev[e] = "recorded" /\ UpdatesCase(e) /\ seen[e].case = c
      BY DEF Locks
    <2>4. seen'[e] = seen[e] => (UpdatesCase(e)' <=> UpdatesCase(e))
      BY DEF UpdatesCase
    <2>5. CASE Start(e)
      <3>1. case' = case
        BY <2>5 DEF Load, rows
      <3>2. QED
        BY <2>3, <2>5, <3>1
    <2>6. CASE Flush(e)
      BY <2>1, <2>3, <2>4, <2>6, <1>2, SessionLocks, EventRows, Parts DEF EventStep
    <2>7. CASE End(e)
      BY <2>7, SessionLocks
    <2>8. CASE Stay(e)
      <3>1. Commit(e) \/ Lose(e) => ev'[e] # ev[e]
        BY DEF Commit, Lose, Over, Types
      <3>2. ~Record(e)
        BY <2>8 DEF Record, Types
      <3>3. QED
        BY <2>1, <2>2, <2>3, <2>4, <2>8, <3>1, <3>2, Parts
    <2>9. QED
      BY <1>1, <2>5, <2>6, <2>7, <2>8
  <1>4. ASSUME NEW a \in Actions, NEW e \in Events
        PROVE  act'[a].by = e <=> ev'[e] = "recorded" /\ UpdatesAction(e)' /\ seen'[e].action = a
    <2>1. \/ act'[a].by = act[a].by
          \/ act'[a].by = NoTx
          \/ \E f \in Events : /\ Record(f) /\ UpdatesAction(f) /\ seen[f].action = a
                               /\ act[a].by \in {NoTx, f} /\ act'[a].by = f
      BY StepKinds, ExecRows, AskRows, MoneyFrame, EventRows DEF vars, rows
    <2>2. act[a].by = e /\ act'[a].by # e =>
              \/ Commit(e) \/ Lose(e)
      <3>1. \A s \in Asked : AskLink(s) /\ s = a => act[a].by # e
        BY Parts, AskRows DEF Locks, Resolution, Resolved, Active, UpdatesAction
      <3>2. QED
        BY <3>1, StepKinds, ExecRows, AskRows, MoneyFrame, EventRows, Parts DEF vars, rows
    <2>3. act[a].by = e <=> ev[e] = "recorded" /\ UpdatesAction(e) /\ seen[e].action = a
      BY DEF Locks
    <2>4. seen'[e] = seen[e] => (UpdatesAction(e)' <=> UpdatesAction(e))
      BY DEF UpdatesAction
    <2>5. CASE Start(e)
      <3>1. act' = act
        BY <2>5 DEF Load, rows
      <3>2. QED
        BY <2>3, <2>5, <3>1
    <2>6. CASE Flush(e)
      BY <2>1, <2>3, <2>4, <2>6, <1>2, SessionLocks, EventRows, Parts DEF EventStep
    <2>7. CASE End(e)
      BY <2>7, SessionLocks
    <2>8. CASE Stay(e)
      <3>1. Commit(e) \/ Lose(e) => ev'[e] # ev[e]
        BY DEF Commit, Lose, Over, Types
      <3>2. ~Record(e)
        BY <2>8 DEF Record, Types
      <3>3. QED
        BY <2>1, <2>2, <2>3, <2>4, <2>8, <3>1, <3>2, Parts
    <2>9. QED
      BY <1>1, <2>5, <2>6, <2>7, <2>8
  <1>5. ASSUME NEW c \in Cases, case'[c].by # NoTx
        PROVE  /\ case'[c].new.status = "RECOVERED" /\ case'[c].new.stage = "RECOVERED"
               /\ case'[c].new.version > case'[c].val.version
               /\ seen'[case'[c].by].row = case'[c].val
    <2>1. case[c].val \in Row
      BY RowTypes DEF Types
    <2>2. \/ case'[c] = case[c]
          \/ \E f \in Events : /\ Record(f) /\ UpdatesCase(f) /\ seen[f].case = c
                               /\ case'[c].by = f /\ case'[c].val = case[c].val
                               /\ case'[c].new = RecoveredRow(case[c].val)
                               /\ seen[f].row.version = case[c].val.version
      BY <1>5, StepKinds, ExecRows, AskRows, MoneyFrame, EventRows DEF vars, rows
    <2>3. CASE case'[c] = case[c]
      <3>1. PICK e \in Events : case[c].by = e
        BY <1>5, <2>3 DEF Types, Lockable
      <3>2. ev[e] = "recorded" /\ ev'[e] = "recorded"
        BY <1>3, <2>3, <3>1 DEF Locks
      <3>3. seen'[e] = seen[e]
        BY <1>1, <3>2
      <3>4. QED
        BY <1>5, <2>3, <3>1, <3>3 DEF Locks
    <2>4. ASSUME NEW f \in Events, Record(f), UpdatesCase(f), seen[f].case = c,
                 case'[c].by = f, case'[c].val = case[c].val,
                 case'[c].new = RecoveredRow(case[c].val),
                 seen[f].row.version = case[c].val.version
          PROVE  /\ case'[c].new.status = "RECOVERED" /\ case'[c].new.stage = "RECOVERED"
                 /\ case'[c].new.version > case'[c].val.version
                 /\ seen'[case'[c].by].row = case'[c].val
      <3>1. seen[f].row = case[c].val
        BY <2>4 DEF Versions, Record, Active
      <3>2. seen' = seen
        BY <2>4 DEF Record
      <3>3. QED
        BY <2>1, <2>4, <3>1, <3>2, RecoveredRowTypes
    <2>5. QED
      BY <2>2, <2>3, <2>4
  <1>6. ASSUME NEW a \in Actions, act'[a].by # NoTx
        PROVE  act'[a].new.status = "SUCCEEDED" /\ act'[a].new.at = act'[a].val.at
    <2>1. \/ act'[a] = act[a]
          \/ act'[a].new.status = "SUCCEEDED" /\ act'[a].new.at = act'[a].val.at
      BY <1>6, StepKinds, ExecRows, AskRows, MoneyFrame, EventRows DEF vars, rows
    <2>2. QED
      BY <1>6, <2>1 DEF Locks
  <1>7. QED
    BY <1>3, <1>4, <1>5, <1>6 DEF Locks

\* A session that was active, or one that has just loaded what is there.
LEMMA ActiveMoves ==
    ASSUME Types, Resolution, Versions, [Next]_vars, NEW e \in Events, Active(e)'
    PROVE  \/ Active(e) /\ seen'[e] = seen[e]
           \/ /\ Load(e) /\ UNCHANGED <<case, act, paid, outcomes, exec>>
              /\ paid[e[1]].link \in Links /\ CaseOf[paid[e[1]].link] \in Cases
              /\ seen'[e].case = CaseOf[paid[e[1]].link]
              /\ seen'[e].row = case[CaseOf[paid[e[1]].link]].val
              /\ seen'[e].action = ActionFor(paid[e[1]].link)
              /\ seen'[e].status = IF ActionFor(paid[e[1]].link) = NoAction THEN "NONE"
                                   ELSE act[ActionFor(paid[e[1]].link)].val.status
  BY SessionMoves, Parts DEF Active, Load, rows, tables, Types

LEMMA NextVersions ==
    ASSUME Types, Resolution, Locks, Versions, Stages, [Next]_vars
    PROVE  Versions'
  <1>1. ASSUME NEW e \in Events, Active(e)'
        PROVE  LET row == case'[seen'[e].case].val IN
               /\ seen'[e].row.version <= row.version
               /\ seen'[e].row.version = row.version => seen'[e].row = row
               /\ seen'[e].row.status = "RECOVERED" => row.status = "RECOVERED"
    <2>1. CASE Active(e) /\ seen'[e] = seen[e]
      <3> DEFINE c == seen[e].case
      <3>1. c \in Cases /\ case[c].val \in Row /\ case'[c].val \in Row
        BY <2>1, ActiveTypes, RowTypes, NextTypes DEF Types
      <3>2. /\ case[c].val.version \in Nat /\ case'[c].val.version \in Nat
            /\ seen[e].row.version \in Nat
        BY <2>1, <3>1, ActiveTypes DEF Row
      <3>3. /\ seen[e].row.version <= case[c].val.version
            /\ seen[e].row.version = case[c].val.version => seen[e].row = case[c].val
            /\ seen[e].row.status = "RECOVERED" => case[c].val.status = "RECOVERED"
        BY <2>1 DEF Versions
      <3>4. \/ case'[c].val = case[c].val
            \/ /\ case'[c].val.version > case[c].val.version
               /\ case[c].val.status = "RECOVERED" => case'[c].val.status = "RECOVERED"
        BY <3>1, CaseMoves
      <3>5. QED
        BY <2>1, <3>2, <3>3, <3>4
    <2>2. CASE Load(e) /\ case' = case /\ seen'[e].case \in Cases
                 /\ seen'[e].row = case[seen'[e].case].val
      <3>1. case[seen'[e].case].val \in Row
        BY <2>2, RowTypes DEF Types
      <3>2. QED
        BY <2>2, <3>1 DEF Row
    <2>3. QED
      BY <1>1, <2>1, <2>2, ActiveMoves
  <1>2. ASSUME NEW a \in Own, exec'[a].pc = "loaded"
        PROVE  LET row == case'[CaseOf[a]].val IN
               /\ exec'[a].version <= row.version
               /\ exec'[a].version = row.version => row.status \notin TerminalStatus
    <2> DEFINE c == CaseOf[a]
    <2>1. c \in Cases /\ case[c].val \in Row /\ case'[c].val \in Row
      BY Parts, RowTypes, NextTypes DEF Types
    <2>2. /\ case[c].val.version \in Nat /\ case'[c].val.version \in Nat
          /\ exec[a].version \in Nat
      BY <2>1 DEF Row, Types
    <2>3. \/ exec'[a] = exec[a]
          \/ /\ case' = case /\ exec'[a].version = case[c].val.version
             /\ case[c].val.status \notin TerminalStatus
      <3>1. ASSUME NEW b \in Own, ExecStep(b)
            PROVE  \/ exec'[a] = exec[a]
                   \/ /\ case' = case /\ exec'[a].version = case[c].val.version
                      /\ case[c].val.status \notin TerminalStatus
        <4>1. CASE b # a
          BY <3>1, <4>1 DEF ExecStep, ExecLoad, ExecLink, ExecPaid, ExecNoLink, Types
        <4>2. CASE b = a
          BY <1>2, <3>1, <4>2
             DEF ExecStep, ExecLoad, ExecLink, ExecPaid, ExecNoLink, Types, Ended
        <4>3. QED
          BY <4>1, <4>2
      <3>2. QED
        BY <3>1, StepKinds, AskRows, MoneyFrame, EventRows DEF vars
    <2>4. CASE exec'[a] = exec[a]
      <3>1. /\ exec[a].version <= case[c].val.version
            /\ exec[a].version = case[c].val.version => case[c].val.status \notin TerminalStatus
        BY <1>2, <2>4 DEF Versions
      <3>2. \/ case'[c].val = case[c].val
            \/ case'[c].val.version > case[c].val.version
        BY <2>1, CaseMoves
      <3>3. QED
        BY <2>2, <2>4, <3>1, <3>2
    <2>5. QED
      BY <2>2, <2>3, <2>4
  <1>3. QED
    BY <1>1, <1>2 DEF Versions, Active

LEMMA NextStages ==
    ASSUME Types, Resolution, Locks, Versions, Stages, Origins, [Next]_vars
    PROVE  Stages'
  <1>1. ASSUME NEW c \in Cases
        PROVE  /\ case'[c].val.status \in {"RISK_ASSESSED", "RECOVERED"}
               /\ case'[c].val.status = "RECOVERED" =>
                     case'[c].val.stage = "RECOVERED" \/ ExecRecovered(c)'
               /\ case[c].val.stage # "NONE" => case'[c].val.stage # "NONE"
    <2>1. case[c].val \in Row
      BY RowTypes DEF Types
    <2>2. ExecRecovered(c) => ExecRecovered(c)'
      BY OutcomesGrow DEF ExecRecovered
    <2>3. PaidByExecutor(c) => ExecRecovered(c)' /\ case'[c].val.status = "RECOVERED"
      BY PaidStep, PaidOutcomeFields DEF PaidByExecutor, ExecRecovered, Recovered
    <2>4. QED
      BY <2>1, <2>2, <2>3, CaseMoves, RowTypes DEF Stages, TerminalStatus
  <1>2. ASSUME NEW s \in Asked, Committed(s)'
        PROVE  /\ case'[CaseOf[s]].val.stage # "NONE"
               /\ \A t \in Asked : Committed(t)' /\ CaseOf[t] = CaseOf[s] => t = s
    <2>1. CASE \E t \in Asked : AskLink(t) /\ CaseOf[t] = CaseOf[s]
      <3>1. PICK t \in Asked : AskLink(t) /\ CaseOf[t] = CaseOf[s]
        BY <2>1
      <3>2. \A u \in Asked : CaseOf[u] = CaseOf[s] => ~Committed(u)
        BY <3>1, AskRows, Parts DEF Stages
      <3>3. \A u \in Asked : Committed(u)' /\ CaseOf[u] = CaseOf[s] => u = t
        BY <3>1, <3>2, AskRows, Parts DEF Committed
      <3>4. case'[CaseOf[t]].val.stage # "NONE"
        BY <3>1, AskRows, RowTypes DEF Types
      <3>5. QED
        BY <1>2, <3>1, <3>3, <3>4
    <2>2. CASE ~\E t \in Asked : AskLink(t) /\ CaseOf[t] = CaseOf[s]
      <3>1. \A t \in Asked : CaseOf[t] = CaseOf[s] => (Committed(t)' <=> Committed(t))
        BY <2>2, StepKinds, ActionsKept, AskRows, Parts DEF Committed
      <3>2. QED
        BY <1>1, <1>2, <3>1, Parts DEF Stages
    <2>3. QED
      BY <2>1, <2>2
  <1>3. ASSUME NEW a \in Own PROVE act'[a].val.at = 0
    <2>1. act'[a].val.at = act[a].val.at
      BY StepKinds, ActionsKept, AskRows, Parts, OutcomeAssumption
    <2>2. QED
      BY <2>1 DEF Stages
  <1>4. QED
    BY <1>1, <1>2, <1>3 DEF Stages

LEMMA NextStillResolves ==
    ASSUME Types, Resolution, Locks, Versions, Stages, StillResolves, [Next]_vars
    PROVE  StillResolves'
  <1> SUFFICES ASSUME NEW e \in Events, Active(e)'
               PROVE  \/ /\ seen'[e].row.version < case'[seen'[e].case].val.version
                         /\ UpdatesCase(e)'
                      \/ seen'[e].action = ActionFor(paid[e[1]].link)'
    BY DEF StillResolves
  <1> DEFINE l == paid[e[1]].link
  <1>1. CASE Active(e) /\ seen'[e] = seen[e]
    <2>1. e[1] \in Payments /\ l \in Links /\ paid'[e[1]] = paid[e[1]] /\ seen[e].case = CaseOf[l]
      <3>1. e[1] \in Payments /\ l \in Links /\ seen[e].case = CaseOf[l] /\ paid[e[1]] # Unpaid
        BY <1>1, ActiveTypes DEF Resolution, Resolved
      <3>2. QED
        BY <3>1, StepKinds, ExecRows, AskRows, MoneyFrame, EventRows DEF vars
    <2>2. seen[e].case \in Cases /\ UpdatesCase(e)' = UpdatesCase(e)
      BY <1>1, ActiveTypes DEF UpdatesCase
    <2>3. /\ case[seen[e].case].val \in Row /\ case'[seen[e].case].val \in Row
          /\ seen[e].row \in Row
      BY <1>1, <2>2, ActiveTypes, RowTypes, NextTypes DEF Types
    <2>4. /\ case[seen[e].case].val.version \in Nat /\ case'[seen[e].case].val.version \in Nat
          /\ seen[e].row.version \in Nat
      BY <2>3 DEF Row
    <2>5. /\ seen[e].row.version <= case[seen[e].case].val.version
          /\ seen[e].row.status = "RECOVERED" => case[seen[e].case].val.status = "RECOVERED"
      BY <1>1 DEF Versions
    <2>6. CASE \E s \in Asked : AskLink(s) /\ CaseOf[s] = CaseOf[l]
      <3>1. /\ case[seen[e].case].val.status \notin TerminalStatus
            /\ case'[seen[e].case].val = WithLink(case[seen[e].case].val)
        BY <2>1, <2>6, AskRows
      <3>2. case'[seen[e].case].val.version = case[seen[e].case].val.version + 1
        BY <2>3, <3>1, RowTypes
      <3>3. QED
        BY <1>1, <2>2, <2>4, <2>5, <3>1, <3>2 DEF UpdatesCase, TerminalStatus
    <2>7. CASE ~\E s \in Asked : AskLink(s) /\ CaseOf[s] = CaseOf[l]
      <3>1. \A b \in Actions : CaseOf[b] = CaseOf[l] =>
                (Committed(b)' <=> Committed(b)) /\ act'[b].val.at = act[b].val.at
        BY <2>7, StepKinds, ActionsKept, AskRows, Parts DEF Committed
      <3>2. ActionFor(l)' = ActionFor(l)
        BY <2>1, <3>1, ResolutionKept
      <3>3. ActionFor(paid[e[1]].link)' = ActionFor(l)
        BY <2>1, <3>2 DEF ActionFor, LatestOf
      <3>4. \/ case'[seen[e].case].val = case[seen[e].case].val
            \/ case'[seen[e].case].val.version > case[seen[e].case].val.version
        BY <2>2, CaseMoves
      <3>5. QED
        BY <1>1, <2>2, <2>4, <2>5, <3>3, <3>4 DEF StillResolves
    <2>8. QED
      BY <2>6, <2>7
  <1>2. CASE /\ Load(e) /\ act' = act /\ paid' = paid
             /\ seen'[e].action = ActionFor(paid[e[1]].link)
    <2>1. ActionFor(paid[e[1]].link)' = ActionFor(paid[e[1]].link)
      BY <1>2 DEF ActionFor, LatestOf, Committed
    <2>2. QED
      BY <1>2, <2>1
  <1>3. QED
    BY <1>1, <1>2, ActiveMoves

-----------------------------------------------------------------------------
(* Where outcomes come from. *)

\* A session that commits a new outcome leaves its case recovered.
LEMMA CommitRecovers ==
    ASSUME Types, Resolution, Locks, Versions, NEW e \in Events, Commit(e)
    PROVE  /\ seen[e].case \in Cases /\ case'[seen[e].case].val.status = "RECOVERED"
  <1>1. ev[e] = "recorded" /\ Active(e) /\ seen[e].case \in Cases
    BY ActiveTypes DEF Commit, Active
  <1>2. CASE UpdatesCase(e)
    <2>1. case[seen[e].case].by = e
      BY <1>1, <1>2 DEF Locks
    <2>2. case'[seen[e].case] = Unlocked(case[seen[e].case].new)
      BY <1>1, <2>1 DEF Commit, Publish, Types
    <2>3. QED
      BY <1>1, <2>1, <2>2, Parts DEF Locks, Unlocked
  <1>3. CASE ~UpdatesCase(e)
    <2>1. case[seen[e].case].val.status = "RECOVERED"
      BY <1>1, <1>3 DEF UpdatesCase, Versions
    <2>2. CASE case[seen[e].case].by = e
      BY <1>1, <1>3, <2>2 DEF Locks
    <2>3. CASE case[seen[e].case].by # e
      BY <1>1, <2>1, <2>3 DEF Commit, Publish, Types
    <2>4. QED
      BY <2>2, <2>3
  <1>4. QED
    BY <1>1, <1>2, <1>3

\* The outcome of an executor or of a session, apart.
FromRecord(o) ==
    /\ o.id \in Events => ev[o.id] = "done" /\ case[o.case].val.status = "RECOVERED"
    /\ o.id \notin Events =>
          /\ o.id = o.action /\ exec[o.id].pc = "done"
          /\ o.status \notin Recovered => o.amount = 0
          /\ o.status \in Recovered =>
                /\ case[o.case].val.status = "RECOVERED"
                /\ o.amount = Total[o.case] /\ LinkIsPaid(o.id)
    /\ o.action # NoAction => CaseOf[o.action] = o.case /\ Committed(o.action)
FromDraft(e) ==
    \E o \in draft[e].outcome :
        /\ draft[e].outcome = {o}
        /\ o.action = seen[e].action /\ o.case = seen[e].case
        /\ o \in outcomes \/ o.id = e

LEMMA NextOrigins ==
    ASSUME Types, Resolution, Locks, Versions, Stages, Origins, [Next]_vars
    PROVE  Origins'
  <1>1. \A b \in Actions : Committed(b) => Committed(b)'
    BY ActionsKept, StepKinds, AskRows DEF Committed
  <1>2. ASSUME NEW o \in outcomes PROVE FromRecord(o)'
    <2>1. /\ o.case \in Cases /\ o.action \in Actions \cup {NoAction} /\ FromRecord(o)
      BY DEF Types, OutcomeRow, Origins, FromRecord
    <2>2. o.id \in Events => ev'[o.id] = "done"
      BY <2>1, SessionMoves DEF FromRecord, Active
    <2>3. case[o.case].val.status = "RECOVERED" => case'[o.case].val.status = "RECOVERED"
      BY <2>1, CaseMoves
    <2>4. o.id \notin Events => /\ exec'[o.id].pc = "done"
                                /\ LinkIsPaid(o.id) => LinkIsPaid(o.id)'
      <3>1. o.id \notin Events => o.id \in Own /\ exec[o.id].pc = "done"
        BY <2>1 DEF Types, OutcomeRow, FromRecord
      <3>2. QED
        BY <3>1, ExecDone, PaidKept
    <2>5. o.action # NoAction => CaseOf[o.action] = o.case /\ Committed(o.action)'
      BY <1>1, <2>1 DEF FromRecord
    <2>6. Committed(o.action)' <=> act'[o.action].val.status # "NONE"
      BY DEF Committed
    <2>7. LinkIsPaid(o.id)' <=> (o.id \in links' /\ \E p \in Payments :
              paid'[p] # Unpaid /\ paid'[p].own /\ paid'[p].link = o.id)
      BY DEF LinkIsPaid
    <2>8. QED
      BY <2>1, <2>2, <2>3, <2>4, <2>5, <2>6, <2>7 DEF FromRecord, Committed, LinkIsPaid
  <1>3. ASSUME NEW o \in outcomes' \ outcomes PROVE FromRecord(o)'
    <2>1. ASSUME NEW a \in Own, Failed(a, o) PROVE FromRecord(o)'
      <3>1. a \notin Events /\ Committed(a)'
        BY <1>1, Parts DEF Resolution
      <3>2. /\ o.id = a /\ o.action = a /\ o.case = CaseOf[a] /\ o.amount = 0
            /\ o.status \notin Recovered /\ exec'[a].pc = "done"
        BY <2>1 DEF Failed, Recovered
      <3>3. QED
        BY <3>1, <3>2 DEF FromRecord, Committed
    <2>2. ASSUME NEW e \in Events, Drafts(e, o) PROVE FromRecord(o)'
      <3>1. /\ ev[e] = "recorded" /\ Active(e) /\ ev'[e] = "done"
        BY <2>2 DEF Drafts, Commit, Active, Over, Types
      <3>2. o.id = e /\ o.action = seen[e].action /\ o.case = seen[e].case
        BY <1>3, <2>2, <3>1 DEF Origins, Drafts
      <3>3. o.action # NoAction => CaseOf[o.action] = o.case /\ Committed(o.action)'
        BY <1>1, <3>1, <3>2, ActiveTypes DEF Resolution, Resolved
      <3>4. case'[o.case].val.status = "RECOVERED"
        BY <2>2, <3>2, CommitRecovers DEF Drafts
      <3>5. QED
        BY <2>2, <3>1, <3>2, <3>3, <3>4 DEF FromRecord, Committed
    <2>3. ASSUME NEW a \in Own, FoundPaid(a, o) PROVE FromRecord(o)'
      <3>1. a \notin Events /\ Committed(a)' /\ ExecPaid(a) /\ Unwritten(a) /\ o = PaidOutcome(a)
        BY <1>1, <2>3, Parts DEF Resolution, FoundPaid
      <3>2. /\ o.id = a /\ o.action = a /\ o.case = CaseOf[a] /\ o.status = "RECOVERED"
            /\ o.amount = Total[CaseOf[a]]
        BY <3>1, PaidOutcomeFields
      <3>3. LinkIsPaid(a)' /\ exec'[a].pc = "done" /\ case'[CaseOf[a]].val.status = "RECOVERED"
        BY <3>1, PaidStep, PaidKept
      <3>4. QED
        BY <3>1, <3>2, <3>3 DEF FromRecord, Committed, Recovered, LinkIsPaid
    <2>4. QED
      BY <1>3, <2>1, <2>2, <2>3, OutcomesGrow
  <1>4. ASSUME NEW e \in Events, ev'[e] = "recorded" PROVE FromDraft(e)'
    <2>1. CASE /\ ev[e] = "recorded" /\ seen'[e] = seen[e]
               /\ draft'[e].outcome = draft[e].outcome
      <3>1. FromDraft(e)
        BY <2>1 DEF Origins, FromDraft
      <3>2. QED
        BY <2>1, <3>1, OutcomesGrow DEF FromDraft
    <2>2. CASE /\ Record(e) /\ seen'[e] = seen[e] /\ draft'[e].outcome = {Drafted(e)}
      <3>1. CASE Earlier(e) = {}
        <4>1. Drafted(e) = NewOutcome(e)
          BY <2>2, <3>1, RecordDraft
        <4>2. NewOutcome(e).id = e /\ NewOutcome(e).action = seen[e].action
                /\ NewOutcome(e).case = seen[e].case
          BY DEF NewOutcome, OutcomeFor
        <4>3. QED
          BY <2>2, <4>1, <4>2 DEF FromDraft
      <3>2. CASE Earlier(e) # {}
        <4>1. /\ Drafted(e) \in outcomes /\ Drafted(e).action = seen[e].action
              /\ seen[e].action # NoAction
          BY <2>2, <3>2, RecordDraft DEF Earlier, OutcomeOf
        <4>2. Drafted(e).case = seen[e].case
          BY <2>2, <4>1 DEF Origins, Resolution, Resolved, Record, Active
        <4>3. QED
          BY <2>2, <4>1, <4>2, OutcomesGrow DEF FromDraft
      <3>3. QED
        BY <3>1, <3>2
    <2>3. QED
      BY <1>4, <2>1, <2>2, SessionMoves
  <1>5. ASSUME NEW e \in Events, ev'[e] # "recorded" PROVE draft'[e] = NoDraft
    <2>1. MeasureFails(e) => ev[e] = "recorded"
      BY DEF MeasureFails
    <2>2. QED
      BY <1>5, <2>1, SessionMoves DEF Origins
  <1>6. \A o \in outcomes' : FromRecord(o)'
    BY <1>2, <1>3
  <1>7. QED
    BY <1>4, <1>5, <1>6 DEF Origins, FromRecord, FromDraft

LEMMA NextRecoveredHasSome ==
    ASSUME Types, Resolution, Locks, Versions, Stages, Origins, RecoveredHasSome, [Next]_vars
    PROVE  RecoveredHasSome'
  <1> SUFFICES ASSUME NEW c \in Cases, case'[c].val.status = "RECOVERED"
               PROVE  OutcomesOf(c, outcomes') # {} /\ PaymentsOf(c)' # {}
    BY DEF RecoveredHasSome
  <1>1. \A p \in Payments : paid[p] # Unpaid => paid'[p] = paid[p]
    BY StepKinds, ExecRows, AskRows, MoneyFrame, EventRows DEF vars
  <1>2. CASE case[c].val.status = "RECOVERED"
    <2>1. OutcomesOf(c, outcomes) # {} /\ PaymentsOf(c) # {}
      BY <1>2 DEF RecoveredHasSome
    <2>2. QED
      BY <1>1, <2>1, OutcomesGrow DEF OutcomesOf, PaymentsOf
  <1>3. ASSUME NEW e \in Events, Commit(e), seen[e].case = c
        PROVE  OutcomesOf(c, outcomes') # {} /\ PaymentsOf(c)' # {}
    <2>1. Active(e) /\ ev[e] = "recorded"
      BY <1>3 DEF Commit, Active
    <2>2. PICK o \in draft[e].outcome : o.case = c
      BY <1>3, <2>1 DEF Origins
    <2>3. o \in outcomes'
      BY <1>3, <2>2 DEF Commit
    <2>4. e[1] \in Payments /\ paid[e[1]] # Unpaid /\ paid[e[1]].own /\ CaseOf[paid[e[1]].link] = c
      BY <1>3, <2>1, Parts DEF Resolution, Resolved
    <2>5. paid'[e[1]] = paid[e[1]]
      BY <1>1, <2>4
    <2>6. e[1] \in PaymentsOf(c)'
      BY <2>4, <2>5 DEF PaymentsOf
    <2>7. QED
      BY <2>2, <2>3, <2>6 DEF OutcomesOf
  <1>4. CASE case[c].val.status # "RECOVERED"
    <2>1. case[c].val \in Row
      BY RowTypes DEF Types
    <2>2. WithLink(case[c].val).status # "RECOVERED"
      BY <1>4, <2>1, RowTypes
    <2>3. \/ \E e \in Events : Commit(e) /\ case[c].by = e
          \/ \E a \in Own : ExecPaid(a) /\ Unwritten(a) /\ CaseOf[a] = c
      BY <1>4, <2>2, StepKinds, ExecRows, AskRows, MoneyFrame, EventRows DEF vars, rows
    <2>4. \A e \in Events : case[c].by = e => seen[e].case = c
      BY DEF Locks
    <2>5. ASSUME NEW a \in Own, ExecPaid(a), Unwritten(a), CaseOf[a] = c
          PROVE  OutcomesOf(c, outcomes') # {} /\ PaymentsOf(c)' # {}
      <3>1. PaidOutcome(a) \in outcomes' /\ PaidOutcome(a).case = c /\ LinkIsPaid(a)
        BY <2>5, PaidStep, PaidOutcomeFields
      <3>2. PICK p \in Payments : paid[p] # Unpaid /\ paid[p].own /\ paid[p].link = a
        BY <3>1 DEF LinkIsPaid
      <3>3. p \in PaymentsOf(c)'
        BY <1>1, <2>5, <3>2 DEF PaymentsOf
      <3>4. QED
        BY <3>1, <3>3 DEF OutcomesOf
    <2>6. QED
      BY <1>3, <2>3, <2>4, <2>5
  <1>5. QED
    BY <1>2, <1>4

LEMMA NextSucceededDone ==
    ASSUME Types, Resolution, Locks, Versions, Origins, SucceededDone, [Next]_vars
    PROVE  SucceededDone'
  <1>1. ASSUME NEW a \in Own, exec[a].pc = "done" \/ OutcomeOf(a) # {}
        PROVE  exec'[a].pc = "done" \/ OutcomeOf(a)' # {}
    <2>1. exec[a].pc = "done" => exec'[a].pc = "done"
      BY ExecDone
    <2>2. QED
      BY <1>1, <2>1, OutcomesGrow DEF OutcomeOf
  <1>2. ASSUME NEW a \in Own, act'[a].val.status = "SUCCEEDED"
        PROVE  exec'[a].pc = "done" \/ OutcomeOf(a)' # {}
    <2>1. a \in Actions /\ act[a].val \in ActRow
      BY Parts, RowTypes DEF Types
    <2>2. CASE act[a].val.status = "SUCCEEDED"
      BY <1>1, <2>2 DEF SucceededDone
    <2>3. ASSUME NEW b \in Own, ExecStep(b), act[a].val.status # "SUCCEEDED"
          PROVE  exec'[a].pc = "done"
      <3>1. b = a
        BY <1>2, <2>1, <2>3, ExecRows
      <3>2. CASE ExecLoad(a)
        <4>1. \/ act' = act
              \/ \E status \in {"CANCELLED", "SUPERSEDED"} :
                    act' = [act EXCEPT ![a] = Unlocked([@.val EXCEPT !.status = status])]
          BY <3>2 DEF ExecLoad
        <4>2. \A status \in {"CANCELLED", "SUPERSEDED"} :
                  [act[a].val EXCEPT !.status = status].status = status
          BY <2>1, RowTypes DEF ActStatus
        <4>3. ASSUME NEW status \in {"CANCELLED", "SUPERSEDED"},
                     act' = [act EXCEPT ![a] = Unlocked([@.val EXCEPT !.status = status])]
              PROVE  act'[a].val.status = status
          <5> DEFINE row == [act[a].val EXCEPT !.status = status]
          <5>1. act'[a] = Unlocked(row)
            BY <2>1, <4>3 DEF Types
          <5>2. row.status = status
            BY <4>2
          <5> HIDE DEF row
          <5>3. QED
            BY <5>1, <5>2 DEF Unlocked
        <4>4. QED
          BY <1>2, <2>3, <4>1, <4>3
      <3>3. CASE ExecLink(a)
        BY <1>2, <2>1, <2>3, <3>3 DEF ExecLink, Types, rows, Ended
      <3>4. CASE ExecNoLink(a)
        BY <3>4 DEF ExecNoLink, Types, Ended
      <3>5. CASE ExecPaid(a)
        BY <1>2, <2>3, <3>5 DEF ExecPaid, Types, rows, Ended
      <3>6. QED
        BY <2>3, <3>1, <3>2, <3>3, <3>4, <3>5 DEF ExecStep
    <2>4. ASSUME NEW e \in Events, EventStep(e), act[a].val.status # "SUCCEEDED"
          PROVE  OutcomeOf(a)' # {}
      <3>1. Commit(e) /\ act[a].by = e
        BY <1>2, <2>1, <2>4, EventRows
      <3>2. ev[e] = "recorded" /\ seen[e].action = a
        BY <2>1, <3>1 DEF Locks
      <3>3. PICK o \in draft[e].outcome : o.action = a
        BY <3>2 DEF Origins
      <3>4. o \in outcomes'
        BY <3>1, <3>3 DEF Commit
      <3>5. QED
        BY <3>3, <3>4 DEF OutcomeOf
    <2>5. ASSUME NEW s \in Asked, AskLink(s) PROVE act'[a] = act[a]
      BY <2>1, <2>5, AskRows, Parts, OutcomeAssumption
    <2>6. QED
      BY <1>2, <2>2, <2>3, <2>4, <2>5, StepKinds, MoneyFrame DEF vars, rows
  <1>3. ASSUME NEW e \in Events, Active(e)', seen'[e].action \in Own,
               seen'[e].status = "SUCCEEDED"
        PROVE  exec'[seen'[e].action].pc = "done" \/ OutcomeOf(seen[e].action)' # {}
    <2> DEFINE a == seen'[e].action
    <2>1. exec[a].pc = "done" \/ \E o \in outcomes : o.action = a
      <3>1. CASE Active(e) /\ seen'[e] = seen[e]
        BY <1>3, <3>1 DEF SucceededDone, OutcomeOf
      <3>2. CASE a # NoAction /\ a = ActionFor(paid[e[1]].link)
                   /\ seen'[e].status = act[a].val.status
        BY <1>3, <3>2 DEF SucceededDone, OutcomeOf
      <3>3. QED
        BY <1>3, <3>1, <3>2, ActiveMoves
    <2>2. OutcomeOf(seen[e].action)' = {o \in outcomes' : o.action = a}
      BY DEF OutcomeOf
    <2>3. \A b \in Own : b = a /\ (exec[b].pc = "done" \/ \E o \in outcomes : o.action = b) =>
              exec'[b].pc = "done" \/ \E o \in outcomes' : o.action = b
      BY <1>1 DEF OutcomeOf
    <2>4. QED
      BY <1>3, <2>1, <2>2, <2>3
  <1>4. QED
    BY <1>2, <1>3 DEF SucceededDone, Active

LEMMA DisciplineInductive == Discipline /\ [Next]_vars => Discipline'
  BY NextTypes, NextResolution, NextLocks, NextVersions, NextStages, NextStillResolves,
     NextOrigins, NextRecoveredHasSome, NextSucceededDone
     DEF Discipline

\* Which rows a session holds between flush and end, what the version it has loaded
\* is worth, and which Action its payment resolves to (PaymentOutcomesInv): what
\* record_outcome relies on without saying so.
THEOREM DisciplineHolds == Spec => []Discipline
  BY InitDiscipline, DisciplineInductive, PTL DEF Spec

\* TypeOK: rows are well formed, and only a session between its flush and its end
\* holds one.
THEOREM TypesHold == Spec => []TypeOK
  <1>1. Discipline => TypeOK
    <2> SUFFICES ASSUME Discipline PROVE TypeOK
      OBVIOUS
    <2>1. \A c \in Cases : case[c].val \in Row /\ case[c].new \in Row
      BY RowTypes DEF Discipline, Types
    <2>2. \A a \in Actions : act[a].val.status \in ActStatus
      BY RowTypes DEF Discipline, Types, ActRow
    <2>3. \A o \in outcomes : o.status \in OutcomeStatus /\ o.source \in RecoverySource
      BY DEF Discipline, Types, OutcomeRow
    <2>4. \A e \in Events :
              (\E c \in Cases : case[c].by = e) \/ (\E a \in Actions : act[a].by = e) =>
                  ev[e] = "recorded"
      BY DEF Discipline, Locks
    <2>5. QED
      BY <2>1, <2>2, <2>3, <2>4 DEF Discipline, Types, TypeOK, ActStatus
  <1>2. QED
    BY <1>1, DisciplineHolds, PTL

\* RecoveredHasOutcome: a case is RECOVERED with an outcome, a recovery is
\* recorded with its case, and a recovered case waits for a payment only when its
\* executor recovered it.
THEOREM RecoveredCasesHaveOutcomes == Spec => []RecoveredHasOutcome
  <1>1. Discipline => RecoveredHasOutcome
    <2> SUFFICES ASSUME Discipline, NEW c \in Cases
                 PROVE  LET known == OutcomesOf(c, outcomes) IN
                        /\ case[c].val.status = "RECOVERED" => known # {}
                        /\ Paid(known) # {} => case[c].val.status = "RECOVERED"
                        /\ c \in Waiting([d \in Cases |-> case[d].val]) /\ Paid(known) # {} =>
                              \E o \in Paid(known) : o.id \in Own
      BY DEF RecoveredHasOutcome
    <2>1. case[c].val.status = "RECOVERED" => OutcomesOf(c, outcomes) # {}
      BY DEF Discipline, RecoveredHasSome
    <2>2. Paid(OutcomesOf(c, outcomes)) # {} => case[c].val.status = "RECOVERED"
      BY DEF Discipline, Origins, Paid, OutcomesOf
    <2>3. c \in Waiting([d \in Cases |-> case[d].val]) /\ case[c].val.status = "RECOVERED" =>
              \E o \in Paid(OutcomesOf(c, outcomes)) : o.id \in Own
      BY DEF Discipline, Stages, Waiting, ExecRecovered, Paid, OutcomesOf
    <2>4. QED
      BY <2>1, <2>2, <2>3
  <1>2. QED
    BY <1>1, DisciplineHolds, PTL

-----------------------------------------------------------------------------
(* The attribution of a recovery. *)

\* A payment that settles an outcome, soon enough after its Action.
InTime(p, o) == paid[p] # Unpaid /\ Settles(p, o) /\ paid[p].at - act[o.action].val.at <= Window
Timely(o) ==
    o.source = "ACTION_ATTRIBUTED" =>
        o.action \in Actions /\ Committed(o.action) /\ \E p \in Payments : InTime(p, o)

\* What is handled in time was paid in time.
LEMMA PaidInTime ==
    ASSUME Types, NEW p \in Payments, paid[p] # Unpaid, NEW a \in Actions,
           ~(now - act[a].val.at > Window)
    PROVE  paid[p].at - act[a].val.at <= Window
  <1>1. paid[p] \in [link : Links, at : 0..now, own : BOOLEAN]
    BY DEF Types
  <1>2. act[a].val.at \in Nat
    BY RowTypes DEF Types, ActRow
  <1>3. now \in Nat /\ Window \in Nat
    BY OutcomeAssumption DEF Types
  <1>4. paid[p].at \in 0..now
    BY <1>1
  <1>5. QED
    BY <1>2, <1>3, <1>4

LEMMA NextAttribution ==
    ASSUME Types, Resolution, Locks, Versions, Origins, Attribution, [Next]_vars
    PROVE  Attribution'
  <1>1. /\ \A o \in outcomes : Timely(o)
        /\ \A e \in Events : \A o \in draft[e].outcome : Timely(o)
    BY DEF Attribution, Timely, InTime
  <1>2. ASSUME NEW o, Timely(o), o.source = "ACTION_ATTRIBUTED"
        PROVE  /\ o.action \in Actions /\ Committed(o.action)'
               /\ \E p \in Payments : InTime(p, o)'
    <2>1. o.action \in Actions /\ Committed(o.action)
      BY <1>2 DEF Timely
    <2>2. PICK p \in Payments : InTime(p, o)
      BY <1>2 DEF Timely
    <2>3. paid'[p] = paid[p]
      BY <2>2, PaidKept DEF InTime
    <2>4. Committed(o.action)' /\ act'[o.action].val.at = act[o.action].val.at
      BY <2>1, StepKinds, ActionsKept, AskRows DEF Committed
    <2>5. InTime(p, o)'
      BY <2>2, <2>3, <2>4 DEF InTime, Settles
    <2>6. QED
      BY <2>1, <2>4, <2>5
  <1>3. ASSUME NEW o, Timely(o) PROVE Timely(o)'
    BY <1>2, <1>3 DEF Timely, Committed, InTime, Settles
  <1>4. ASSUME NEW e \in Events, Record(e) PROVE Timely(Drafted(e))
    <2>1. CASE Earlier(e) # {}
      BY <1>1, <1>4, <2>1, RecordDraft DEF Earlier, OutcomeOf
    <2>2. CASE Earlier(e) = {}
      <3> DEFINE a == seen[e].action
                 o == NewOutcome(e)
                 amount == AmountOf("SUCCEEDED", LinkAmount[paid[e[1]].link],
                                    Total[seen[e].case])
                 status == StatusOf("SUCCEEDED", amount, Total[seen[e].case])
                 since == IF a = NoAction THEN 0 ELSE now - act[a].val.at
      <3>1. Drafted(e) = o
        BY <1>4, <2>2, RecordDraft
      <3>2. o.id = e /\ o.action = a /\ o.source = SourceOf(status, a # NoAction, since, Window)
        BY DEF NewOutcome, OutcomeFor
      <3>3. o.source = "ACTION_ATTRIBUTED" => a # NoAction /\ ~(since > Window)
        <4> HIDE DEF o, since, status, a
        <4> QED
          BY <3>2 DEF SourceOf
      <3>4. /\ e[1] \in Payments /\ paid[e[1]] # Unpaid
            /\ a \in Actions \cup {NoAction} /\ (a # NoAction => Committed(a))
        BY <1>4, ActiveTypes, Parts DEF Record, Active, Resolution, Resolved
      <3>5. a # NoAction /\ ~(since > Window) => paid[e[1]].at - act[a].val.at <= Window
        BY <3>4, PaidInTime
      <3>6. Settles(e[1], o)
        BY <3>2 DEF Settles
      <3> HIDE DEF o, since, status, a
      <3>7. QED
        BY <3>1, <3>2, <3>3, <3>4, <3>5, <3>6 DEF Timely, InTime
    <2>3. QED
      BY <2>1, <2>2
  <1>5. ASSUME NEW a \in Own, NEW o, FoundPaid(a, o) PROVE Timely(o)
    <2>1. ExecPaid(a) /\ Unwritten(a) /\ o = PaidOutcome(a)
      BY <1>5 DEF FoundPaid
    <2>2. /\ a \in Actions /\ Committed(a) /\ o.id = a /\ o.action = a
          /\ o.source = "ACTION_ATTRIBUTED" => ~(now - act[a].val.at > Window)
      BY <2>1, PaidOutcomeFields, Parts DEF Resolution
    <2>3. PICK p \in Payments : paid[p] # Unpaid /\ paid[p].own /\ paid[p].link = a
      BY <2>1, PaidStep DEF LinkIsPaid
    <2>4. Settles(p, o)
      BY <2>2, <2>3, Parts DEF Settles
    <2>5. QED
      BY <2>2, <2>3, <2>4, PaidInTime DEF Timely, InTime
  <1>6. ASSUME NEW o \in outcomes' PROVE Timely(o)'
    <2>1. CASE o \in outcomes
      BY <1>1, <1>3, <2>1
    <2>2. ASSUME NEW a \in Own, Failed(a, o) PROVE Timely(o)'
      BY <2>2 DEF Timely, Failed
    <2>3. ASSUME NEW e \in Events, Drafts(e, o) PROVE Timely(o)'
      BY <1>1, <1>3, <2>3 DEF Drafts
    <2>4. ASSUME NEW a \in Own, FoundPaid(a, o) PROVE Timely(o)'
      BY <1>3, <1>5, <2>4
    <2>5. QED
      BY <2>1, <2>2, <2>3, <2>4, OutcomesGrow
  <1>7. ASSUME NEW e \in Events, NEW o \in draft'[e].outcome PROVE Timely(o)'
    <2>1. CASE draft'[e].outcome = draft[e].outcome
      BY <1>1, <1>3, <1>7, <2>1
    <2>2. CASE Record(e) /\ draft'[e].outcome = {Drafted(e)}
      BY <1>3, <1>4, <1>7, <2>2
    <2>3. CASE draft'[e] = NoDraft
      BY <1>7, <2>3 DEF NoDraft
    <2>4. QED
      BY <2>1, <2>2, <2>3, SessionMoves
  <1>8. QED
    BY <1>6, <1>7 DEF Attribution, Timely, InTime

\* AttributionIsTimely: a recovery is credited to an Action only when a payment
\* that settles it came at most the attribution window after it.
THEOREM CreditIsTimely == Spec => []AttributionIsTimely
  <1>1. Init => Attribution
    BY DEF Init, Attribution, NoDraft
  <1>2. Discipline /\ Attribution /\ [Next]_vars => Attribution'
    BY NextAttribution DEF Discipline
  <1>3. Attribution => AttributionIsTimely
    BY DEF Attribution, AttributionIsTimely
  <1>4. QED
    BY <1>1, <1>2, <1>3, DisciplineHolds, PTL DEF Spec

-----------------------------------------------------------------------------
(* One outcome for an Action. *)

\* Of at most one payment there are no two.
LEMMA AtMostOne ==
    ASSUME NEW S, IsFiniteSet(S), Cardinality(S) < 2, NEW x \in S, NEW y \in S
    PROVE  x = y
  <1> SUFFICES ASSUME x # y PROVE FALSE
    OBVIOUS
  <1>1. IsFiniteSet({x}) /\ Cardinality({x}) = 1
    BY FS_Singleton
  <1>2. Cardinality({x} \cup {y}) = 2
    BY <1>1, FS_AddElement
  <1>3. {x} \cup {y} \in SUBSET S
    OBVIOUS
  <1>4. Cardinality({x} \cup {y}) <= Cardinality(S)
    BY <1>3, FS_Subset
  <1>5. Cardinality(S) \in Nat
    BY FS_CardinalityType
  <1>6. QED
    BY <1>2, <1>4, <1>5

LEMMA PaymentsFinite ==
    ASSUME NEW c
    PROVE  IsFiniteSet(PaymentsOf(c)) /\ IsFiniteSet(PaymentsOf(c)')
  <1>1. PaymentsOf(c) \in SUBSET Payments /\ PaymentsOf(c)' \in SUBSET Payments
    BY DEF PaymentsOf
  <1>2. QED
    BY <1>1, FS_Subset, OutcomeAssumption

\* A case with an Action of its own, or with only one, has a latest one.
LEMMA LatestExists ==
    ASSUME Types, Resolution, Stages, NEW c \in Cases, Clear(c)
    PROVE  LatestOf(c) # {}
  <1>1. \A a \in Own : a \in Actions /\ act[a].val.at = 0
    BY Parts DEF Stages
  <1>2. \A a \in Actions : act[a].val.at \in Nat
    BY RowTypes DEF Types, ActRow
  <1>3. CASE \E s \in Asked : CaseOf[s] = c /\ Committed(s)
    <2>1. PICK s \in Asked : CaseOf[s] = c /\ Committed(s)
      BY <1>3
    <2>2. ASSUME NEW b \in Actions, CaseOf[b] = c, Committed(b)
          PROVE  \/ act[b].val.at < act[s].val.at
                 \/ act[b].val.at = act[s].val.at /\ b \notin Asked \ {s}
      <3>1. CASE b \in Asked
        BY <2>1, <2>2, <3>1 DEF Stages
      <3>2. CASE b \in Own /\ b \notin Asked
        BY <1>1, <1>2, <2>1, <2>2, <3>2, Parts
      <3>3. QED
        BY <3>1, <3>2 DEF Actions
    <2>3. s \in LatestOf(c)
      BY <2>1, <2>2, Parts DEF LatestOf
    <2>4. QED
      BY <2>3
  <1>4. CASE ~\E s \in Asked : CaseOf[s] = c /\ Committed(s)
    <2>1. PICK a \in Own : CaseOf[a] = c
      BY <1>4 DEF Clear, Ordinary, Sole, Actions
    <2>2. \A b \in Actions : CaseOf[b] = c /\ Committed(b) => act[b].val.at = act[a].val.at
      BY <1>1, <1>4, <2>1 DEF Actions
    <2>3. a \in LatestOf(c)
      BY <1>1, <1>4, <2>1, <2>2 DEF LatestOf, Resolution
    <2>4. QED
      BY <2>3
  <1>5. QED
    BY <1>3, <1>4

\* Every link of such a case is resolved to an Action, and to the only one if
\* there is only one.
LEMMA ClearResolves ==
    ASSUME Types, Resolution, Stages, NEW c \in Cases, Clear(c),
           NEW l \in Links, CaseOf[l] = c
    PROVE  /\ ActionFor(l) \in Actions /\ CaseOf[ActionFor(l)] = c /\ Committed(ActionFor(l))
           /\ Sole(c) => \A m \in Links : CaseOf[m] = c => ActionFor(m) = ActionFor(l)
  <1>1. ASSUME NEW m \in Links, CaseOf[m] = c
        PROVE  /\ ActionFor(m) \in Actions /\ CaseOf[ActionFor(m)] = c
               /\ Committed(ActionFor(m))
    <2>1. ActionFor(m) # NoAction
      BY <1>1, LatestExists, Parts DEF ActionFor, LatestOf
    <2>2. QED
      BY <1>1, <2>1, ResolvedTypes
  <1>2. QED
    BY <1>1 DEF Sole

\* All payments of such a case are resolved to one Action.
LEMMA PaymentsAgree ==
    ASSUME Types, Resolution, Stages, NEW c \in Cases, Clear(c),
           NEW p \in PaymentsOf(c), NEW q \in PaymentsOf(c)
    PROVE  /\ ActionFor(paid[p].link) \in Actions
           /\ ActionFor(paid[q].link) = ActionFor(paid[p].link)
  <1>1. \A r \in PaymentsOf(c) : paid[r].link \in Links /\ CaseOf[paid[r].link] = c
    BY DEF PaymentsOf, Types
  <1>2. CASE Sole(c)
    BY <1>1, <1>2, ClearResolves
  <1>3. CASE Ordinary(c)
    <2>1. p = q
      BY <1>3, PaymentsFinite, AtMostOne DEF Ordinary
    <2>2. QED
      BY <1>1, <2>1, ClearResolves
  <1>4. QED
    BY <1>2, <1>3 DEF Clear

\* The Action of a session that holds the case, or has found it recovered.
LEMMA SessionAction ==
    ASSUME Types, Resolution, Locks, Versions, Stages, StillResolves,
           NEW e \in Events, Active(e), Clear(seen[e].case),
           ~UpdatesCase(e) \/ seen[e].row.version = case[seen[e].case].val.version
    PROVE  /\ seen[e].action \in Actions /\ seen[e].action = ActionFor(paid[e[1]].link)
           /\ e[1] \in PaymentsOf(seen[e].case)
  <1>1. /\ seen[e].row \in Row /\ seen[e].case \in Cases /\ paid[e[1]].link \in Links
        /\ e[1] \in Payments /\ paid[e[1]] # Unpaid /\ paid[e[1]].own
        /\ CaseOf[paid[e[1]].link] = seen[e].case
    BY ActiveTypes DEF Resolution, Resolved
  <1>2. seen[e].row.version \in Nat
    BY <1>1 DEF Row
  <1>3. seen[e].action = ActionFor(paid[e[1]].link)
    BY <1>2 DEF StillResolves
  <1>4. ActionFor(paid[e[1]].link) \in Actions
    BY <1>1, ClearResolves
  <1>5. QED
    BY <1>1, <1>3, <1>4 DEF PaymentsOf

\* The case of a session that has flushed is the one it has read, unless it was
\* recovered.
LEMMA FlushedVersion ==
    ASSUME Types, Resolution, Locks, NEW e \in Events, ev[e] = "recorded", UpdatesCase(e)
    PROVE  /\ case[seen[e].case].by = e
           /\ seen[e].row.version = case[seen[e].case].val.version
  <1>1. seen[e].case \in Cases
    BY ActiveTypes DEF Active
  <1>2. QED
    BY <1>1, Parts DEF Locks

\* An agent's request for a link of case c is refused while a session of the case
\* has flushed, and after its recovery.
LEMMA AskFindsOpenCase ==
    ASSUME Types, Resolution, Locks, Versions, Stages, Origins,
           NEW s \in Asked, AskLink(s)
    PROVE  /\ case[CaseOf[s]].val.status # "RECOVERED"
           /\ case'[CaseOf[s]].val.status # "RECOVERED"
           /\ \A e \in Events : ev[e] = "recorded" => seen[e].case # CaseOf[s]
           /\ \A o \in outcomes : o.case = CaseOf[s] => o.action # NoAction
           /\ Sole(CaseOf[s])' => \A o \in outcomes : o.case # CaseOf[s]
  <1> DEFINE c == CaseOf[s]
  <1>1. /\ c \in Cases /\ case[c].val \in Row /\ case[c].by = NoTx
        /\ case[c].val.status \notin TerminalStatus
        /\ case'[c].val = WithLink(case[c].val)
    BY AskRows, RowTypes DEF Types
  <1>2. case[c].val.status # "RECOVERED" /\ case'[c].val.status # "RECOVERED"
    BY <1>1, RowTypes DEF TerminalStatus
  <1>3. ASSUME NEW e \in Events, ev[e] = "recorded", seen[e].case = c PROVE FALSE
    <2>1. CASE UpdatesCase(e)
      BY <1>1, <1>3, <2>1, FlushedVersion, Parts
    <2>2. CASE ~UpdatesCase(e)
      BY <1>2, <1>3, <2>2 DEF UpdatesCase, Versions, Active
    <2>3. QED
      BY <2>1, <2>2
  <1>4. ASSUME NEW o \in outcomes, o.case = c PROVE o.action # NoAction
    <2>1. o.id \notin Events
      BY <1>2, <1>4 DEF Origins
    <2>2. o.id \in Own /\ o.id = o.action
      BY <2>1 DEF Types, OutcomeRow, Origins
    <2>3. QED
      BY <2>2, Parts
  <1>5. ASSUME Sole(c)', NEW o \in outcomes, o.case = c PROVE FALSE
    <2>1. o.action \in Actions /\ CaseOf[o.action] = c /\ Committed(o.action)
      BY <1>4, <1>5 DEF Types, OutcomeRow, Origins
    <2>2. o.action # s /\ Committed(o.action)'
      BY <2>1, AskRows DEF Committed
    <2>3. Committed(s)'
      BY AskRows DEF Committed
    <2>4. QED
      BY <1>5, <2>1, <2>2, <2>3, AskRows DEF Sole
  <1>6. QED
    BY <1>2, <1>3, <1>4, <1>5

\* Nothing but such a request makes a case clear.
LEMMA ClearKept ==
    ASSUME Types, Resolution, Locks, Versions, [Next]_vars, NEW c \in Cases
    PROVE  /\ PaymentsOf(c) \subseteq PaymentsOf(c)'
           /\ \A p \in PaymentsOf(c) : paid'[p] = paid[p]
           /\ Ordinary(c)' => Ordinary(c)
           /\ ~(\E s \in Asked : AskLink(s) /\ CaseOf[s] = c) =>
                 /\ Sole(c)' <=> Sole(c)
                 /\ Clear(c)' => Clear(c)
                 /\ \A l \in Links : CaseOf[l] = c => ActionFor(l)' = ActionFor(l)
  <1>1. \A p \in Payments : paid[p] # Unpaid => paid'[p] = paid[p]
    BY StepKinds, ExecRows, AskRows, MoneyFrame, EventRows DEF vars
  <1>2. PaymentsOf(c) \subseteq PaymentsOf(c)'
    BY <1>1 DEF PaymentsOf
  <1>3. Cardinality(PaymentsOf(c)) <= Cardinality(PaymentsOf(c)')
    BY <1>2, PaymentsFinite, FS_Subset
  <1>4. Ordinary(c)' => Ordinary(c)
    <2>1. Cardinality(PaymentsOf(c)) \in Nat /\ Cardinality(PaymentsOf(c)') \in Nat
      BY PaymentsFinite, FS_CardinalityType
    <2>2. Ordinary(c)' => (\E a \in Own : CaseOf[a] = c) /\ Cardinality(PaymentsOf(c)') < 2
      BY DEF Ordinary
    <2>3. QED
      BY <1>3, <2>1, <2>2 DEF Ordinary
  <1>5. ASSUME ~(\E s \in Asked : AskLink(s) /\ CaseOf[s] = c)
        PROVE  /\ Sole(c)' <=> Sole(c)
               /\ Clear(c)' => Clear(c)
               /\ \A l \in Links : CaseOf[l] = c => ActionFor(l)' = ActionFor(l)
    <2>1. \A b \in Actions : CaseOf[b] = c =>
              (Committed(b)' <=> Committed(b)) /\ act'[b].val.at = act[b].val.at
      BY <1>5, StepKinds, ActionsKept, AskRows, Parts DEF Committed
    <2>2. Sole(c)' <=> Sole(c)
      BY <2>1 DEF Sole
    <2>3. QED
      BY <1>4, <2>1, <2>2, ResolutionKept DEF Clear
  <1>6. QED
    BY <1>1, <1>2, <1>4, <1>5 DEF PaymentsOf

\* Between its flush and its end a session of a clear case that is to insert an
\* outcome is the only one: nobody else adds an outcome of its Action.
LEMMA SoleWriter ==
    ASSUME Discipline, OneEach, [Next]_vars,
           NEW e \in Events, ev[e] = "recorded", ev'[e] = "recorded", seen'[e] = seen[e],
           Clear(seen[e].case), UpdatesCase(e), OutcomeOf(seen[e].action) = {}
    PROVE  OutcomeOf(seen[e].action)' = {}
  <1> DEFINE a == seen[e].action
             c == seen[e].case
  <1> USE DEF Discipline
  <1>1. Active(e) /\ case[c].by = e
    BY FlushedVersion DEF Active
  <1>2. a \in Actions /\ CaseOf[a] = c
    BY <1>1, SessionAction, FlushedVersion, Parts DEF Resolution, Resolved
  <1>3. \A o \in outcomes : o.action # a
    BY DEF OutcomeOf
  <1>4. ASSUME NEW o \in outcomes' \ outcomes, o.action = a PROVE FALSE
    <2>1. ASSUME NEW b \in Own, ExecNoLink(b), b = a PROVE FALSE
      <3>1. act[a].by # e
        BY <1>2, <2>1, Parts DEF ExecNoLink, Free
      <3>2. seen[e].status = "SUCCEEDED"
        BY <1>2, <3>1, Parts DEF Locks, UpdatesAction
      <3>3. exec[a].pc = "done" \/ OutcomeOf(a) # {}
        BY <1>1, <2>1, <3>2 DEF SucceededDone
      <3>4. QED
        BY <2>1, <3>3 DEF ExecNoLink
    <2>2. ASSUME NEW f \in Events, Drafts(f, o) PROVE FALSE
      <3>1. ev[f] = "recorded" /\ ev'[f] = "done" /\ Active(f)
        BY <2>2 DEF Drafts, Commit, Over, Active, Types
      <3>2. f # e /\ seen[f].action = a
        BY <1>4, <2>2, <3>1 DEF Origins, Drafts
      <3>3. seen[f].case = c
        BY <1>2, <3>1, <3>2, Parts DEF Resolution, Resolved
      <3>4. UpdatesCase(f)
        BY <1>4, <2>2, <3>1, <3>3 DEF OneEach, Drafts
      <3>5. case[c].by = f
        BY <3>1, <3>3, <3>4, FlushedVersion
      <3>6. QED
        BY <1>1, <3>2, <3>5
    <2>3. ASSUME NEW b \in Own, FoundPaid(b, o) PROVE FALSE
      <3>1. b = a
        BY <1>4, <2>3, PaidOutcomeFields DEF FoundPaid
      <3>2. case[c].by = NoTx
        BY <1>2, <2>3, <3>1, PaidStep DEF FoundPaid
      <3>3. QED
        BY <1>1, <3>2, Parts
    <2>4. \A b \in Own : Failed(b, o) => ExecNoLink(b) /\ b = a
      BY <1>4 DEF Failed
    <2>5. QED
      BY <1>4, <2>1, <2>2, <2>3, <2>4, OutcomesGrow
  <1>5. OutcomeOf(a)' = {o \in outcomes' : o.action = seen'[e].action}
    BY DEF OutcomeOf
  <1>6. QED
    BY <1>3, <1>4, <1>5

LEMMA NextOneEach1 ==
    ASSUME Discipline, OneEach, [Next]_vars,
           NEW c \in Cases, Clear(c)', case'[c].val.status = "RECOVERED",
           NEW p \in PaymentsOf(c)'
    PROVE  OutcomeOf(ActionFor(paid[p].link))' # {}
  <1> USE DEF Discipline
  <1>1. ~\E s \in Asked : AskLink(s) /\ CaseOf[s] = c
    BY AskFindsOpenCase
  <1>2. /\ Clear(c) /\ (Sole(c)' <=> Sole(c)) /\ (Ordinary(c)' => Ordinary(c))
        /\ PaymentsOf(c) \subseteq PaymentsOf(c)' /\ \A q \in PaymentsOf(c) : paid'[q] = paid[q]
        /\ \A l \in Links : CaseOf[l] = c => ActionFor(l)' = ActionFor(l)
    BY <1>1, ClearKept
  <1>3. p \in Payments /\ paid'[p].link \in Links /\ CaseOf[paid'[p].link] = c
    <2>1. p \in Payments /\ paid'[p] # Unpaid /\ CaseOf[paid'[p].link] = c
      BY DEF PaymentsOf
    <2>2. Types'
      BY NextTypes
    <2>3. QED
      BY <2>1, <2>2 DEF Types
  <1>4. ActionFor(paid[p].link)' = ActionFor(paid'[p].link)
    BY <1>2, <1>3 DEF ActionFor, LatestOf
  <1>5. ASSUME NEW q \in PaymentsOf(c) PROVE ActionFor(paid'[p].link) = ActionFor(paid[q].link)
    <2>1. q \in PaymentsOf(c)' /\ paid[q].link \in Links /\ CaseOf[paid[q].link] = c
            /\ paid'[q] = paid[q]
      BY <1>2, <1>5 DEF PaymentsOf, Types
    <2>2. CASE Sole(c)
      BY <1>2, <1>3, <2>1, <2>2, ClearResolves
    <2>3. CASE Ordinary(c)'
      <3>1. Cardinality(PaymentsOf(c)') < 2
        BY <2>3 DEF Ordinary
      <3>2. p = q
        BY <2>1, <3>1, PaymentsFinite, AtMostOne
      <3>3. QED
        BY <2>1, <3>2
    <2>4. QED
      BY <1>2, <2>2, <2>3 DEF Clear
  <1>6. ASSUME NEW b, OutcomeOf(b) # {}, b = ActionFor(paid'[p].link)
        PROVE  OutcomeOf(ActionFor(paid[p].link))' # {}
    BY <1>4, <1>6, OutcomesGrow DEF OutcomeOf
  <1>7. CASE case[c].val.status = "RECOVERED"
    <2>1. PICK q \in PaymentsOf(c) : TRUE
      BY <1>7 DEF RecoveredHasSome
    <2>2. OutcomeOf(ActionFor(paid[q].link)) # {}
      BY <1>2, <1>7 DEF OneEach
    <2>3. QED
      BY <1>5, <1>6, <2>2
  <1>8. CASE case[c].val.status # "RECOVERED"
    <2>1. case[c].val \in Row
      BY RowTypes DEF Types
    <2>2. WithLink(case[c].val).status # "RECOVERED"
      BY <1>8, <2>1, RowTypes
    <2>3. \/ \E e \in Events : Commit(e) /\ case[c].by = e
          \/ \E a \in Own : ExecPaid(a) /\ Unwritten(a) /\ CaseOf[a] = c
      BY <1>8, <2>2, StepKinds, ExecRows, AskRows, MoneyFrame, EventRows DEF vars, rows
    <2>4. ASSUME NEW e \in Events, Commit(e), case[c].by = e
          PROVE  OutcomeOf(ActionFor(paid[p].link))' # {}
      <3>1. ev[e] = "recorded" /\ Active(e) /\ UpdatesCase(e) /\ seen[e].case = c
        BY <2>4 DEF Locks, Active
      <3>2. seen[e].row.version = case[c].val.version
        BY <3>1, FlushedVersion
      <3>3. /\ seen[e].action \in Actions /\ seen[e].action = ActionFor(paid[e[1]].link)
            /\ e[1] \in PaymentsOf(c)
        BY <1>2, <3>1, <3>2, SessionAction
      <3>4. PICK o \in draft[e].outcome : o.action = seen[e].action
        BY <3>1 DEF Origins
      <3>5. o \in outcomes' /\ o.action = ActionFor(paid'[p].link)
        BY <1>5, <2>4, <3>3, <3>4 DEF Commit
      <3>6. QED
        BY <1>4, <3>5 DEF OutcomeOf
    <2>5. ASSUME NEW a \in Own, ExecPaid(a), Unwritten(a), CaseOf[a] = c
          PROVE  OutcomeOf(ActionFor(paid[p].link))' # {}
      <3>1. PaidOutcome(a) \in outcomes' /\ PaidOutcome(a).action = a /\ LinkIsPaid(a)
        BY <2>5, PaidStep, PaidOutcomeFields
      <3>2. PICK q \in Payments : paid[q] # Unpaid /\ paid[q].own /\ paid[q].link = a
        BY <3>1 DEF LinkIsPaid
      <3>3. q \in PaymentsOf(c)
        BY <2>5, <3>2 DEF PaymentsOf
      <3>4. ActionFor(a) = a
        BY Parts DEF ActionFor, Resolution
      <3>5. a = ActionFor(paid'[p].link)
        BY <1>5, <3>2, <3>3, <3>4
      <3>6. QED
        BY <1>4, <3>1, <3>5 DEF OutcomeOf
    <2>6. QED
      BY <2>3, <2>4, <2>5
  <1>9. QED
    BY <1>7, <1>8

LEMMA NextOneEach2 ==
    ASSUME Discipline, OneEach, [Next]_vars,
           NEW e \in Events, ev'[e] = "recorded", Clear(seen[e].case)'
    PROVE  \/ draft'[e].outcome \subseteq outcomes'
           \/ UpdatesCase(e)' /\ OutcomeOf(seen[e].action)' = {}
  <1> USE DEF Discipline
  <1>1. seen'[e] = seen[e] /\ Active(e)
    BY SessionMoves DEF Active
  <1> DEFINE c == seen[e].case
  <1>2. c \in Cases /\ (UpdatesCase(e)' <=> UpdatesCase(e)) /\ Clear(c)'
    <2>1. c \in Cases /\ (UpdatesCase(e)' <=> UpdatesCase(e))
      BY <1>1, ActiveTypes DEF UpdatesCase
    <2>2. Clear(c)'
      BY DEF Clear, Ordinary, Sole, PaymentsOf
    <2>3. QED
      BY <2>1, <2>2
  <1>3. CASE /\ ev[e] = "recorded" /\ draft'[e].outcome = draft[e].outcome
    <2>1. ~\E s \in Asked : AskLink(s) /\ CaseOf[s] = c
      BY <1>3, AskFindsOpenCase
    <2>2. Clear(c)
      BY <1>1, <1>2, <2>1, ClearKept DEF Clear, Ordinary, Sole, PaymentsOf, Committed
    <2>3. CASE draft[e].outcome \subseteq outcomes
      BY <1>3, <2>3, OutcomesGrow
    <2>4. CASE UpdatesCase(e) /\ OutcomeOf(seen[e].action) = {}
      BY <1>1, <1>2, <1>3, <2>2, <2>4, SoleWriter
    <2>5. QED
      BY <1>3, <2>2, <2>3, <2>4 DEF OneEach
  <1>4. CASE Record(e) /\ draft'[e].outcome = {Drafted(e)}
    <2>1. ~\E s \in Asked : AskLink(s) /\ CaseOf[s] = c
      BY <1>4 DEF Record, AskLink, events, Types
    <2>2. Clear(c)
      BY <1>1, <1>2, <2>1, ClearKept DEF Clear, Ordinary, Sole, PaymentsOf, Committed
    <2>3. outcomes' = outcomes
      BY <1>4 DEF Record, tables
    <2>4. CASE Earlier(e) # {}
      BY <1>4, <2>3, <2>4, RecordDraft DEF Earlier, OutcomeOf
    <2>5. CASE Earlier(e) = {}
      <3>1. ~UpdatesCase(e) \/ seen[e].row.version = case[c].val.version
        BY <1>4 DEF Record, Fresh
      <3>2. /\ seen[e].action \in Actions /\ seen[e].action = ActionFor(paid[e[1]].link)
            /\ e[1] \in PaymentsOf(c)
        BY <1>1, <2>2, <3>1, SessionAction
      <3>3. OutcomeOf(seen[e].action) = {}
        BY <2>5, <3>2, Parts DEF Earlier
      <3>4. UpdatesCase(e)
        <4>1. SUFFICES ASSUME ~UpdatesCase(e) PROVE FALSE
          OBVIOUS
        <4>2. case[c].val.status = "RECOVERED"
          BY <1>1, <4>1 DEF UpdatesCase, Versions
        <4>3. QED
          BY <1>2, <2>2, <3>2, <3>3, <4>2 DEF OneEach
      <3>5. QED
        BY <1>1, <1>2, <2>3, <3>3, <3>4 DEF OutcomeOf
    <2>6. QED
      BY <2>4, <2>5
  <1>5. QED
    BY <1>3, <1>4, SessionMoves

\* What a step adds to the outcomes of an Action of a clear case is new.
LEMMA AddedOutcome ==
    ASSUME Discipline, OneEach, [Next]_vars,
           NEW o \in outcomes' \ outcomes, Clear(o.case)
    PROVE  /\ o.action # NoAction
           /\ OutcomeOf(o.action) = {}
           /\ \A q \in outcomes' \ outcomes : q = o
  <1> USE DEF Discipline
  <1>1. ASSUME NEW a \in Own, Failed(a, o) \/ FoundPaid(a, o)
        PROVE  /\ o.action # NoAction /\ OutcomeOf(o.action) = {}
               /\ \A q \in outcomes' \ outcomes : q = o
    <2>1. o.action = a /\ OutcomeOf(a) = {} /\ outcomes' = outcomes \cup {o}
      BY <1>1, PaidStep, PaidOutcomeFields DEF Failed, FoundPaid
    <2>2. QED
      BY <2>1, Parts
  <1>2. ASSUME NEW e \in Events, Drafts(e, o)
        PROVE  /\ o.action # NoAction /\ OutcomeOf(o.action) = {}
               /\ \A q \in outcomes' \ outcomes : q = o
    <2>1. ev[e] = "recorded" /\ Active(e)
      BY <1>2 DEF Drafts, Commit, Active
    <2>2. draft[e].outcome = {o} /\ o.action = seen[e].action /\ o.case = seen[e].case
      BY <1>2, <2>1 DEF Origins, Drafts
    <2>3. UpdatesCase(e) /\ OutcomeOf(seen[e].action) = {}
      BY <1>2, <2>1, <2>2 DEF OneEach, Drafts
    <2>4. seen[e].row.version = case[seen[e].case].val.version
      BY <2>1, <2>3, FlushedVersion
    <2>5. seen[e].action \in Actions
      BY <2>1, <2>2, <2>4, SessionAction
    <2>6. QED
      BY <1>2, <2>2, <2>3, <2>5, Parts DEF Drafts
  <1>3. QED
    BY <1>1, <1>2, OutcomesGrow

LEMMA NextOneEach3 ==
    ASSUME Discipline, OneEach, [Next]_vars,
           NEW o1 \in outcomes', NEW o2 \in outcomes',
           Clear(o1.case)', o1.action = o2.action, o1.action # NoAction
    PROVE  o1 = o2
  <1> USE DEF Discipline
  <1>1. Types' /\ Origins'
    BY NextTypes, NextOrigins
  <1>2. /\ o1.case \in Cases /\ o2.case \in Cases /\ o1.case = o2.case
    BY <1>1 DEF Types, OutcomeRow, Origins
  <1>3. CASE \E s \in Asked : AskLink(s) /\ CaseOf[s] = o1.case
    <2>1. PICK s \in Asked : AskLink(s) /\ CaseOf[s] = o1.case
      BY <1>3
    <2>2. outcomes' = outcomes /\ paid' = paid
      BY <2>1, AskRows
    <2>3. Sole(o1.case)' \/ Clear(o1.case)
      BY <2>2 DEF Clear, Ordinary, PaymentsOf
    <2>4. ~Sole(o1.case)'
      BY <2>1, <2>2, AskFindsOpenCase
    <2>5. QED
      BY <1>2, <2>2, <2>3, <2>4 DEF OneEach
  <1>4. CASE ~\E s \in Asked : AskLink(s) /\ CaseOf[s] = o1.case
    <2>1. Clear(o1.case) /\ Clear(o2.case)
      BY <1>2, <1>4, ClearKept
    <2>2. o1 \in outcomes /\ o2 \in outcomes => o1 = o2
      BY <2>1 DEF OneEach
    <2>3. QED
      BY <2>1, <2>2, AddedOutcome DEF OutcomeOf
  <1>5. QED
    BY <1>3, <1>4

LEMMA NextOneEach4 ==
    ASSUME Discipline, OneEach, [Next]_vars, NEW o \in outcomes', Sole(o.case)'
    PROVE  o.action # NoAction
  <1> USE DEF Discipline
  <1>1. o.case \in Cases
    BY NextTypes DEF Types, OutcomeRow
  <1>2. CASE \E s \in Asked : AskLink(s) /\ CaseOf[s] = o.case
    BY <1>2, AskFindsOpenCase, AskRows
  <1>3. CASE ~\E s \in Asked : AskLink(s) /\ CaseOf[s] = o.case
    <2>1. Sole(o.case)
      BY <1>1, <1>3, ClearKept
    <2>2. QED
      BY <2>1, AddedOutcome DEF OneEach, Clear
  <1>4. QED
    BY <1>2, <1>3

LEMMA OneEachInductive == Discipline /\ OneEach /\ [Next]_vars => OneEach'
  <1> SUFFICES ASSUME Discipline, OneEach, [Next]_vars PROVE OneEach'
    OBVIOUS
  <1>1. \A c \in Cases : Clear(c)' /\ case'[c].val.status = "RECOVERED" =>
            \A p \in PaymentsOf(c)' : OutcomeOf(ActionFor(paid[p].link))' # {}
    BY NextOneEach1
  <1>2. \A e \in Events : ev'[e] = "recorded" /\ Clear(seen[e].case)' =>
            \/ draft'[e].outcome \subseteq outcomes'
            \/ UpdatesCase(e)' /\ OutcomeOf(seen[e].action)' = {}
    BY NextOneEach2
  <1>3. \A o1, o2 \in outcomes' :
            Clear(o1.case)' /\ o1.action = o2.action /\ o1.action # NoAction => o1 = o2
    BY NextOneEach3
  <1>4. \A o \in outcomes' : Sole(o.case)' => o.action # NoAction
    BY NextOneEach4
  <1>5. QED
    BY <1>1, <1>2, <1>3, <1>4 DEF OneEach

\* For a case whose payments all resolve to one Action, whoever comes after the
\* recovery finds its outcome, and whoever is about to insert one holds the case.
THEOREM OneEachHolds == Spec => []OneEach
  <1>1. Init => OneEach
    <2> SUFFICES ASSUME Init PROVE OneEach
      OBVIOUS
    <2>1. \A c \in Cases : case[c].val.status # "RECOVERED"
      BY DEF Init, Unlocked
    <2>2. outcomes = {} /\ \A e \in Events : ev[e] # "recorded"
      BY DEF Init
    <2>3. QED
      BY <2>1, <2>2 DEF OneEach
  <1>2. QED
    BY <1>1, OneEachInductive, DisciplineHolds, PTL DEF Spec

\* OneOutcomePerAction: however many events name the payment of a case, and
\* whichever of their sessions come first, its Action has one outcome.
THEOREM ActionsHaveOneOutcome == Spec => []OneOutcomePerAction
  <1>1. OneEach => OneOutcomePerAction
    BY DEF OneEach, OneOutcomePerAction, Clear
  <1>2. QED
    BY <1>1, OneEachHolds, PTL

\* CaseIsAnswered: the outcome of a case with one Action is the only one, and no
\* question that reads it fails, on the page of the case or in the workspace.
THEOREM CasesAreAnswered == Spec => []CaseIsAnswered
  <1>1. Discipline /\ OneEach => CaseIsAnswered
    <2> SUFFICES ASSUME Discipline, OneEach, NEW c \in Cases,
                        Cardinality({a \in Actions : CaseOf[a] = c /\ Committed(a)}) = 1
                 PROVE  \A target : Failing(target, c, [d \in Cases |-> case[d].val], outcomes) = {}
      BY DEF CaseIsAnswered
    <2> DEFINE made == {a \in Actions : CaseOf[a] = c /\ Committed(a)}
    <2>1. IsFiniteSet(made)
      <3>1. made \in SUBSET Actions
        OBVIOUS
      <3>2. QED
        BY <3>1, FS_Subset, OutcomeAssumption
    <2>2. PICK a : made = {a}
      <3> HIDE DEF made
      <3>1. Cardinality(made) = 1
        BY DEF made
      <3>2. QED
        BY <2>1, <3>1, FS_Singleton
    <2>3. Sole(c) /\ \A b \in Actions : CaseOf[b] = c /\ Committed(b) => b = a
      BY <2>2 DEF Sole
    <2>4. \A o \in OutcomesOf(c, outcomes) : o.action = a /\ o.action # NoAction
      <3> SUFFICES ASSUME NEW o \in OutcomesOf(c, outcomes)
                   PROVE  o.action = a /\ o.action # NoAction
        OBVIOUS
      <3>1. o \in outcomes /\ o.case = c
        BY DEF OutcomesOf
      <3>2. o.action # NoAction /\ o.action \in Actions
        BY <2>3, <3>1 DEF OneEach, Discipline, Types, OutcomeRow
      <3>3. QED
        BY <2>3, <3>1, <3>2 DEF Discipline, Origins
    <2>5. \A o1, o2 \in OutcomesOf(c, outcomes) : o1 = o2
      BY <2>3, <2>4 DEF OneEach, Clear, OutcomesOf
    <2>6. Cardinality(OutcomesOf(c, outcomes)) < 2
      <3>1. CASE OutcomesOf(c, outcomes) = {}
        BY <3>1, FS_EmptySet
      <3>2. CASE OutcomesOf(c, outcomes) # {}
        <4>1. PICK o : OutcomesOf(c, outcomes) = {o}
          BY <2>5, <3>2
        <4>2. Cardinality({o}) = 1
          BY FS_Singleton
        <4>3. QED
          BY <4>1, <4>2
      <3>3. QED
        BY <3>1, <3>2
    <2>7. QED
      BY <2>6 DEF Failing, Answerable
  <1>2. QED
    BY <1>1, OneEachHolds, DisciplineHolds, PTL

=============================================================================
