----------------------- MODULE ExecutionOutboxProofs -----------------------
(***************************************************************************)
(* Proofs about ExecutionOutbox for every set of Actions and sessions, any *)
(* retry budget, batch size and number of crashes.  Types come first.      *)
(* Then the lock discipline of ExecutionOutboxInv is inductive, and from   *)
(* it: one executor per item, at most one outcome per Action, an outcome   *)
(* for every recovered case, and a recovered case that never changes.      *)
(***************************************************************************)
EXTENDS ExecutionOutboxInv, TLAPS

-----------------------------------------------------------------------------
(* Rows. *)

\* Committing and rolling back keep a table well typed.
LEMMA TablesTyped ==
    ASSUME NEW T, NEW table \in [Actions -> Row(T)], NEW s
    PROVE  /\ Publish(table, s) \in [Actions -> Row(T)]
           /\ Discard(table, s) \in [Actions -> Row(T)]
  BY DEF Publish, Discard, Row, Unlocked

\* What a session reads from, and writes to, a row is of the row's type.
LEMMA RowTyped ==
    ASSUME NEW T, NEW row \in Row(T), NEW s \in Sessions, NEW v \in T
    PROVE  Read(row, s) \in T /\ Write(row, s, v) \in Row(T)
  BY DEF Read, Write, Row

-----------------------------------------------------------------------------
(* Types. *)

\* The initial state is well typed.
LEMMA InitType == Init => TypeOK
  <1> SUFFICES ASSUME Init PROVE TypeOK
    OBVIOUS
  <1>1. NoCase \in CaseRow
    BY DEF NoCase, CaseRow, CaseStatus, RecoveryStage
  <1>2. NoAction \in ActionRow
    BY DEF NoAction, ActionRow, AttemptRows
  <1>3. NoOutbox \in OutboxRow
    BY BoundAssumption DEF NoOutbox, OutboxRow, Tries
  <1>4. NothingSeen \in Loaded
    BY <1>1 DEF NothingSeen, Loaded
  <1>5. QED
    BY <1>1, <1>2, <1>3, <1>4, BoundAssumption
       DEF Init, TypeOK, Row, Unlocked, Tries, Sessions, Label, Answer


\* A session that is past its preflight, or past loading its event, has an
\* Action: what it writes next is about that one.  A blocked one has a verdict,
\* which is a status of Actions.
HasAction ==
    \A s \in Sessions :
        /\ pc[s] \in {"block", "begin", "dispatch", "result", "reconcile", "loaded",
                      "writeCase", "writeAction", "outcome"} => cur[s] \in Actions
        /\ pc[s] = "block" => res[s] \in {"SUPERSEDED", "CANCELLED", "SUCCEEDED"}

TypeInv == TypeOK /\ HasAction

\* The Action's row after its session has written it.
LEMMA SetActionTyped ==
    ASSUME TypeOK, NEW a \in Actions, NEW s \in Sessions, NEW status \in ActionStatus,
           SetAction(a, s, status)
    PROVE  action' \in [Actions -> Row(ActionRow)]
  <1>1. action[a] \in Row(ActionRow) /\ Read(action[a], s) \in ActionRow
    BY DEF TypeOK, Read, Row
  <1>2. [Read(action[a], s) EXCEPT !.status = status] \in ActionRow
    BY <1>1 DEF ActionRow
  <1>3. QED
    BY <1>1, <1>2 DEF TypeOK, SetAction, Write, Row

LEMMA SetExecutedTyped ==
    ASSUME TypeOK, NEW a \in Actions, NEW s \in Sessions,
           NEW status \in ActionStatus \cap ExecutionStatus, SetExecuted(a, s, status)
    PROVE  action' \in [Actions -> Row(ActionRow)]
  <1>1. /\ action[a] \in Row(ActionRow)
        /\ Read(action[a], s) \in ActionRow
        /\ Read(outbox[a], s) \in OutboxRow
    BY RowTyped DEF TypeOK, Read, Row
  <1>2. [status |-> status,
         attempts |-> [Read(action[a], s).attempts EXCEPT ![Read(outbox[a], s).tries] = status]]
            \in ActionRow
    BY <1>1 DEF ActionRow, AttemptRows, OutboxRow
  <1>3. QED
    BY <1>1, <1>2 DEF TypeOK, SetExecuted, Write, Row

LEMMA SetOutboxTyped ==
    ASSUME TypeOK, NEW a \in Actions, NEW s \in Sessions, NEW status \in OutboxStatus,
           SetOutbox(a, s, status)
    PROVE  outbox' \in [Actions -> Row(OutboxRow)]
  <1>1. outbox[a] \in Row(OutboxRow) /\ Read(outbox[a], s) \in OutboxRow
    BY DEF TypeOK, Read, Row
  <1>2. [Read(outbox[a], s) EXCEPT !.status = status] \in OutboxRow
    BY <1>1 DEF OutboxRow
  <1>3. QED
    BY <1>1, <1>2 DEF TypeOK, SetOutbox, Write, Row

LEMMA SetCaseTyped ==
    ASSUME TypeOK, NEW s \in Sessions, cur[s] \in Actions,
           NEW status \in CaseStatus \cup {"ABSENT"},
           NEW stage \in RecoveryStage, SetCase(s, status, stage)
    PROVE  case' \in [Actions -> Row(CaseRow)]
  <1>1. case[cur[s]] \in Row(CaseRow) /\ Read(case[cur[s]], s) \in CaseRow
    BY DEF TypeOK, Read, Row
  <1>2. [status |-> status, stage |-> stage, version |-> Read(case[cur[s]], s).version + 1]
            \in CaseRow
    BY <1>1 DEF CaseRow
  <1>3. QED
    BY <1>1, <1>2 DEF TypeOK, SetCase, Write, Row

LEMMA RecordOutcomeTyped ==
    ASSUME TypeOK, NEW a \in Actions, NEW s \in Sessions, NEW status \in OutcomeStatus,
           RecordOutcome(s, a, status)
    PROVE  inserted' \subseteq Outcome
  BY DEF TypeOK, RecordOutcome, Outcome

LEMMA NextItemTyped ==
    ASSUME TypeInv, NEW s \in Sessions, NextItem(s)
    PROVE  /\ pc' \in [Sessions -> Label]
           /\ todo' \in [Sessions -> SUBSET Actions]
           /\ cur' \in [Sessions -> Actions \cup {NoTx}]
           /\ seen' \in [Sessions -> Loaded]
           /\ res' \in [Sessions -> Answer]
           /\ HasAction'
  BY DEF TypeInv, TypeOK, NextItem, Goto, HasAction, NothingSeen, NoCase, CaseRow, CaseStatus,
         RecoveryStage, Label, Loaded, Answer

LEMMA ForgetTyped ==
    ASSUME TypeInv, NEW s \in Sessions, NEW how \in {"processed", "dropped"},
           Goto(s, Finished(s, how)), Forget(s)
    PROVE  /\ pc' \in [Sessions -> Label]
           /\ todo' \in [Sessions -> SUBSET Actions]
           /\ cur' \in [Sessions -> Actions \cup {NoTx}]
           /\ seen' \in [Sessions -> Loaded]
           /\ res' \in [Sessions -> Answer]
           /\ HasAction'
  BY DEF TypeInv, TypeOK, Forget, Finished, Goto, HasAction, NothingSeen, NoCase, CaseRow,
         CaseStatus, RecoveryStage, Label, Loaded, Answer

\* A rollback keeps the types, whatever ends the session.
LEMMA RollbackTyped ==
    ASSUME TypeInv, NEW s \in Sessions, Rollback(s, "dropped"),
           UNCHANGED <<enabled, provider>>, crashes' \in 0..MaxCrashes
    PROVE  TypeInv'
  <1>1. /\ case' \in [Actions -> Row(CaseRow)]
        /\ action' \in [Actions -> Row(ActionRow)]
        /\ outbox' \in [Actions -> Row(OutboxRow)]
    BY TablesTyped DEF TypeInv, TypeOK, Rollback, Undo
  <1>2. inserted' \subseteq Outcome /\ outcomes' \subseteq Outcome
    BY DEF TypeInv, TypeOK, Rollback, Undo
  <1>3. QED
    BY <1>1, <1>2, ForgetTyped DEF TypeInv, TypeOK, Rollback, provider

\* Every step of every session keeps the types.
LEMMA StepType == TypeInv /\ [Next]_vars => TypeInv'
  <1> SUFFICES ASSUME TypeInv, [Next]_vars PROVE TypeInv'
    OBVIOUS
  <1> USE DEF TypeInv
  <1>1. ASSUME NEW c \in Cycles, Authorize(c) PROVE TypeInv'
    <2> DEFINE a == ActionOf[c]
    <2>1. a \in Actions /\ c \in Sessions
      BY SessionAssumption DEF Sessions
    <2>2. case' \in [Actions -> Row(CaseRow)]
      BY <1>1, <2>1 DEF Authorize, TypeOK, Row, Write, CaseRow, CaseStatus, RecoveryStage
    <2>3. action' \in [Actions -> Row(ActionRow)]
      <3>1. action[a] \in Row(ActionRow) /\ action[a].val \in ActionRow
        BY <2>1 DEF TypeOK, Row
      <3>2. [action[a].val EXCEPT !.status = "AUTHORIZED"] \in ActionRow
        BY <3>1 DEF ActionRow, ActionStatus
      <3>3. QED
        BY <1>1, <2>1, <3>1, <3>2 DEF Authorize, TypeOK, Row, Write
    <2>4. outbox' \in [Actions -> Row(OutboxRow)]
      <3>1. outbox[a] \in Row(OutboxRow) /\ outbox[a].val \in OutboxRow
        BY <2>1 DEF TypeOK, Row
      <3>2. [outbox[a].val EXCEPT !.status = "PENDING"] \in OutboxRow
        BY <3>1 DEF OutboxRow, OutboxStatus
      <3>3. QED
        BY <1>1, <2>1, <3>1, <3>2 DEF Authorize, TypeOK, Row, Write
    <2>5. HasAction' /\ pc' \in [Sessions -> Label] /\ todo' \in [Sessions -> SUBSET Actions]
      BY <1>1, <2>1 DEF Authorize, TypeOK, Goto, HasAction, Label
    <2>6. QED
      BY <1>1, <2>2, <2>3, <2>4, <2>5 DEF Authorize, TypeOK, provider
  <1>2. ASSUME NEW w \in Workers, Claim(w) PROVE TypeInv'
    <2>1. w \in Sessions
      BY DEF Sessions
    <2>2. PICK S \in Batches :
             /\ outbox' = [a \in Actions |-> IF a \in S
                                       THEN Write(outbox[a], w, Claimed(outbox[a].val))
                                       ELSE outbox[a]]
             /\ todo' = [todo EXCEPT ![w] = S]
      BY <1>2 DEF Claim
    <2>3. \A a \in S : outbox[a].val.tries < MaxRetries /\ a \in Actions
      BY DEF Batches, Claimable
    <2>4. \A a \in S : Claimed(outbox[a].val) \in OutboxRow
      BY <2>3, BoundAssumption DEF TypeOK, Row, OutboxRow, OutboxStatus, Claimed, Tries
    <2>5. outbox' \in [Actions -> Row(OutboxRow)]
      BY <2>1, <2>2, <2>4 DEF TypeOK, Row, Write
    <2>6. HasAction' /\ pc' \in [Sessions -> Label] /\ todo' \in [Sessions -> SUBSET Actions]
      BY <1>2, <2>1, <2>2, <2>3 DEF Claim, TypeOK, Goto, HasAction, Label
    <2>7. QED
      BY <1>2, <2>5, <2>6 DEF Claim, TypeOK, provider
  <1>3. ASSUME NEW s \in Executors, Execute(s) PROVE TypeInv'
    <2>1. s \in Sessions
      BY DEF Executors, Sessions
    <2>2. CASE Preflight(s)
      <3>1. PICK a \in todo[s] :
              /\ todo' = [todo EXCEPT ![s] = @ \ {a}]
              /\ cur'  = [cur EXCEPT ![s] = a]
              /\ seen' = [seen EXCEPT ![s] = [case   |-> Read(case[a], s),
                                              action |-> Read(action[a], s).status]]
              /\ res'  = [res EXCEPT ![s] = Verdict(a, s)]
              /\ Goto(s, IF Verdict(a, s) = "VALID" THEN "begin" ELSE "block")
        BY <2>2 DEF Preflight
      <3>2. a \in Actions
        BY <2>1, <3>1 DEF TypeOK
      <3>3. Read(case[a], s) \in CaseRow /\ Read(action[a], s) \in ActionRow
        BY <3>2 DEF TypeOK, Row, Read
      <3>4. seen' \in [Sessions -> Loaded]
        BY <2>1, <3>1, <3>3 DEF TypeOK, Loaded, ActionRow
      <3>5. res' \in [Sessions -> Answer]
        BY <2>1, <3>1 DEF TypeOK, Verdict, Answer
      <3>6. HasAction' /\ pc' \in [Sessions -> Label] /\ cur' \in [Sessions -> Actions \cup {NoTx}]
        BY <2>1, <3>1, <3>2 DEF TypeOK, Goto, HasAction, Label, Verdict
      <3>7. QED
        BY <2>1, <2>2, <3>1, <3>4, <3>5, <3>6 DEF Preflight, TypeOK, tables, provider
    <2>3. CASE Block(s)
      <3>1. cur[s] \in Actions
        BY <2>1, <2>3 DEF Block, HasAction
      <3>2. res[s] \in ActionStatus
        BY <2>1, <2>3 DEF Block, HasAction, ActionStatus
      <3>3. action' \in [Actions -> Row(ActionRow)]
        BY <2>1, <2>3, <3>1, <3>2, SetActionTyped DEF Block
      <3>4. outbox' \in [Actions -> Row(OutboxRow)]
        BY <2>1, <2>3, <3>1, SetOutboxTyped DEF Block, OutboxAfter, OutboxStatus
      <3>5. QED
        BY <2>1, <2>3, <3>3, <3>4, NextItemTyped DEF Block, TypeOK, provider
    <2>4. CASE Begin(s)
      <3>1. cur[s] \in Actions
        BY <2>1, <2>4 DEF Begin, HasAction
      <3>2. action' \in [Actions -> Row(ActionRow)]
        BY <2>1, <2>4, <3>1, SetExecutedTyped DEF Begin, ActionStatus, ExecutionStatus
      <3>3. HasAction' /\ pc' \in [Sessions -> Label]
        BY <2>1, <2>4, <3>1 DEF Begin, TypeOK, Goto, HasAction, Label
      <3>4. QED
        BY <2>4, <3>2, <3>3 DEF Begin, TypeOK, provider
    <2>5. CASE RequestError(s)
      BY <2>1, <2>5, NextItemTyped DEF RequestError, TypeOK, tables, provider
    <2>6. CASE Dispatch(s)
      <3> DEFINE key == IdempotencyKey(cur[s])
      <3>1. cur[s] \in Actions
        BY <2>1, <2>6 DEF Dispatch, HasAction
      <3>2. key \in Keys
        BY <3>1 DEF IdempotencyKey, Keys
      <3>3. /\ links' \subseteq Keys /\ links \subseteq links'
            /\ res' \in [Sessions -> Answer]
            /\ \A t \in Sessions \ {s} : res'[t] = res[t]
        BY <2>1, <2>6, <3>2
           DEF Dispatch, LinkReady, Rejected, Ambiguous, TypeOK, Answer
      <3>4. HasAction' /\ pc' \in [Sessions -> Label]
        BY <2>1, <2>6, <3>1, <3>3 DEF Dispatch, TypeOK, Goto, HasAction, Label
      <3>5. QED
        BY <2>6, <3>3, <3>4 DEF Dispatch, TypeOK, tables
    <2>7. CASE LinkCreated(s)
      <3>1. cur[s] \in Actions
        BY <2>1, <2>7 DEF LinkCreated, HasAction
      <3>2. action' \in [Actions -> Row(ActionRow)]
        BY <2>1, <2>7, <3>1, SetExecutedTyped DEF LinkCreated, ActionStatus, ExecutionStatus
      <3>3. outbox' \in [Actions -> Row(OutboxRow)]
        BY <2>1, <2>7, <3>1, SetOutboxTyped DEF LinkCreated, OutboxStatus
      <3>4. case' \in [Actions -> Row(CaseRow)]
        <4>1. seen[s].case.status \in CaseStatus \cup {"ABSENT"}
          BY <2>1 DEF TypeOK, Loaded, CaseRow
        <4>2. QED
          BY <2>1, <2>7, <3>1, <4>1, SetCaseTyped DEF LinkCreated, RecoveryStage
      <3>5. QED
        BY <2>1, <2>7, <3>2, <3>3, <3>4, NextItemTyped DEF LinkCreated, TypeOK, provider
    <2>8. CASE LinkPaid(s)
      <3>1. cur[s] \in Actions
        BY <2>1, <2>8 DEF LinkPaid, HasAction
      <3>2. action' \in [Actions -> Row(ActionRow)]
        BY <2>1, <2>8, <3>1, SetExecutedTyped DEF LinkPaid, ActionStatus, ExecutionStatus
      <3>3. outbox' \in [Actions -> Row(OutboxRow)]
        BY <2>1, <2>8, <3>1, SetOutboxTyped DEF LinkPaid, OutboxStatus
      <3>4. case' \in [Actions -> Row(CaseRow)]
        <4>1. seen[s].case.stage \in RecoveryStage
          BY <2>1 DEF TypeOK, Loaded, CaseRow
        <4>2. QED
          BY <2>1, <2>8, <3>1, <4>1, SetCaseTyped DEF LinkPaid, CaseStatus
      <3>5. inserted' \subseteq Outcome
        BY <2>1, <2>8, <3>1, RecordOutcomeTyped DEF LinkPaid, OutcomeStatus
      <3>6. QED
        BY <2>1, <2>8, <3>2, <3>3, <3>4, <3>5, NextItemTyped DEF LinkPaid, TypeOK, provider
    <2>9. CASE ExecutionFailed(s)
      <3>1. cur[s] \in Actions
        BY <2>1, <2>9 DEF ExecutionFailed, HasAction
      <3>2. action' \in [Actions -> Row(ActionRow)]
        BY <2>1, <2>9, <3>1, SetExecutedTyped DEF ExecutionFailed, ActionStatus, ExecutionStatus
      <3>3. outbox' \in [Actions -> Row(OutboxRow)]
        BY <2>1, <2>9, <3>1, SetOutboxTyped DEF ExecutionFailed, OutboxStatus, TypeOK
      <3>4. inserted' \subseteq Outcome
        BY <2>1, <2>9, <3>1, RecordOutcomeTyped DEF ExecutionFailed, OutcomeStatus
      <3>5. QED
        BY <2>1, <2>9, <3>2, <3>3, <3>4, NextItemTyped DEF ExecutionFailed, TypeOK, provider
    <2>10. CASE ExecutionUnknown(s)
      <3>1. cur[s] \in Actions
        BY <2>1, <2>10 DEF ExecutionUnknown, HasAction
      <3>2. action' \in [Actions -> Row(ActionRow)]
        BY <2>1, <2>10, <3>1, SetExecutedTyped DEF ExecutionUnknown, ActionStatus, ExecutionStatus
      <3>3. inserted' \subseteq Outcome
        BY <2>1, <2>10, <3>1, RecordOutcomeTyped DEF ExecutionUnknown, OutcomeStatus
      <3>4. CASE NextItem(s)
        BY <2>1, <2>10, <3>2, <3>3, <3>4, NextItemTyped DEF ExecutionUnknown, TypeOK, provider
      <3>5. CASE Goto(s, "reconcile") /\ UNCHANGED <<todo, cur, seen, res>>
        <4>1. HasAction' /\ pc' \in [Sessions -> Label]
          BY <2>1, <3>1, <3>5 DEF TypeOK, Goto, HasAction, Label
        <4>2. QED
          BY <2>10, <3>2, <3>3, <3>5, <4>1 DEF ExecutionUnknown, TypeOK, provider
      <3>6. QED
        BY <2>10, <3>4, <3>5 DEF ExecutionUnknown
    <2>11. CASE Reconcile(s)
      <3>1. cur[s] \in Actions
        BY <2>1, <2>11 DEF Reconcile, HasAction
      <3>2. action' \in [Actions -> Row(ActionRow)]
        BY <2>1, <2>11, <3>1, SetExecutedTyped DEF Reconcile, ActionStatus, ExecutionStatus, TypeOK
      <3>3. outbox' \in [Actions -> Row(OutboxRow)]
        BY <2>1, <2>11, <3>1, SetOutboxTyped DEF Reconcile, OutboxStatus, TypeOK
      <3>4. QED
        BY <2>1, <2>11, <3>2, <3>3, NextItemTyped DEF Reconcile, TypeOK, provider
    <2>12. QED
      BY <1>3, <2>2, <2>3, <2>4, <2>5, <2>6, <2>7, <2>8, <2>9, <2>10, <2>11 DEF Execute
  <1>4. ASSUME NEW h \in Handlers, Deliver(h) \/ Handle(h) PROVE TypeInv'
    <2>1. h \in Sessions /\ ActionOf[h] \in Actions
      BY SessionAssumption DEF Sessions
    <2>2. CASE Deliver(h)
      BY <2>1, <2>2 DEF Deliver, TypeOK, Goto, HasAction, Label, tables, provider
    <2>3. CASE LoadCase(h)
      <3>1. case[ActionOf[h]].val \in CaseRow
        BY <2>1 DEF TypeOK, Row
      <3>2. /\ seen' \in [Sessions -> Loaded]
            /\ cur' \in [Sessions -> Actions \cup {NoTx}]
        <4>1. [case |-> case[ActionOf[h]].val, action |-> "ABSENT"] \in Loaded
          BY <3>1 DEF Loaded
        <4>2. seen \in [Sessions -> Loaded] /\ cur \in [Sessions -> Actions \cup {NoTx}]
          BY DEF TypeOK
        <4>3. QED
          BY <2>1, <2>3, <4>1, <4>2 DEF LoadCase
      <3>3. HasAction' /\ pc' \in [Sessions -> Label]
        BY <2>1, <2>3 DEF LoadCase, TypeOK, Goto, HasAction, Label
      <3>4. QED
        BY <2>3, <3>2, <3>3 DEF LoadCase, TypeOK, tables, provider
    <2>4. CASE LoadAction(h)
      <3>1. cur[h] \in Actions
        BY <2>1, <2>4 DEF LoadAction, HasAction
      <3>2. action[cur[h]].val \in ActionRow
        BY <3>1 DEF TypeOK, Row
      <3>3. seen' \in [Sessions -> Loaded]
        BY <2>1, <2>4, <3>2 DEF LoadAction, TypeOK, Loaded, ActionRow
      <3>4. HasAction' /\ pc' \in [Sessions -> Label]
        BY <2>1, <2>4, <3>1 DEF LoadAction, TypeOK, Goto, HasAction, Label
      <3>5. QED
        BY <2>4, <3>3, <3>4 DEF LoadAction, TypeOK, tables, provider
    <2>5. CASE WriteCase(h)
      <3>1. cur[h] \in Actions
        BY <2>1, <2>5 DEF WriteCase, HasAction
      <3>2. seen[h].case.status \in CaseStatus \cup {"ABSENT"}
        BY <2>1 DEF TypeOK, Loaded, CaseRow
      <3>3. case' \in [Actions -> Row(CaseRow)]
        BY <2>1, <2>5, <3>1, <3>2, SetCaseTyped DEF WriteCase, CaseStatus, RecoveryStage
      <3>4. HasAction' /\ pc' \in [Sessions -> Label]
        BY <2>1, <2>5, <3>1 DEF WriteCase, TypeOK, Goto, HasAction, Label
      <3>5. QED
        BY <2>5, <3>3, <3>4 DEF WriteCase, TypeOK, provider
    <2>6. CASE WriteAction(h)
      <3>1. cur[h] \in Actions
        BY <2>1, <2>6 DEF WriteAction, HasAction
      <3>2. action' \in [Actions -> Row(ActionRow)]
        BY <2>1, <2>6, <3>1, SetActionTyped DEF WriteAction, ActionStatus
      <3>3. HasAction' /\ pc' \in [Sessions -> Label]
        BY <2>1, <2>6, <3>1 DEF WriteAction, TypeOK, Goto, HasAction, Label
      <3>4. QED
        BY <2>6, <3>2, <3>3 DEF WriteAction, TypeOK, provider
    <2>7. CASE WriteOutcome(h)
      <3>1. cur[h] \in Actions
        BY <2>1, <2>7 DEF WriteOutcome, HasAction
      <3>2. inserted' \subseteq Outcome
        BY <2>1, <2>7, <3>1, RecordOutcomeTyped DEF WriteOutcome, OutcomeStatus
      <3>3. HasAction' /\ pc' \in [Sessions -> Label]
        BY <2>1, <2>7, <3>1 DEF WriteOutcome, TypeOK, Goto, HasAction, Label
      <3>4. QED
        BY <2>7, <3>2, <3>3 DEF WriteOutcome, TypeOK, provider
    <2>8. QED
      BY <1>4, <2>2, <2>3, <2>4, <2>5, <2>6, <2>7 DEF Handle
  <1>5. ASSUME NEW s \in Sessions, Finish(s) \/ Crash(s) PROVE TypeInv'
    <2>1. CASE Commit(s)
      <3>1. /\ case' \in [Actions -> Row(CaseRow)]
            /\ action' \in [Actions -> Row(ActionRow)]
            /\ outbox' \in [Actions -> Row(OutboxRow)]
        BY <2>1, TablesTyped DEF TypeOK, Commit, CommitWork
      <3>2. inserted' \subseteq Outcome /\ outcomes' \subseteq Outcome
        BY <2>1 DEF TypeOK, Commit, CommitWork
      <3>3. QED
        BY <2>1, <3>1, <3>2, ForgetTyped DEF TypeOK, Commit, CommitWork, provider
    <2>2. CASE StaleData(s)
      BY <2>2, RollbackTyped DEF StaleData, TypeOK
    <2>3. CASE DeadlockVictim(s)
      BY <2>3, RollbackTyped DEF DeadlockVictim, TypeOK
    <2>4. CASE Crash(s)
      BY <2>4, RollbackTyped, BoundAssumption DEF Crash, TypeOK
    <2>5. QED
      BY <1>5, <2>1, <2>2, <2>3, <2>4 DEF Finish
  <1>6. ASSUME NEW a \in Actions, LeaseExpires(a) PROVE TypeInv'
    <2>1. outbox' \in [Actions -> Row(OutboxRow)]
      <3>1. outbox[a].val \in OutboxRow
        BY DEF TypeOK, Row
      <3>2. [outbox[a].val EXCEPT !.lease = "EXPIRED"] \in OutboxRow
        BY <3>1 DEF OutboxRow
      <3>3. QED
        BY <1>6, <3>2 DEF LeaseExpires, TypeOK, Row, Unlocked
    <2>2. QED
      BY <1>6, <2>1 DEF LeaseExpires, TypeOK, HasAction, provider, sessionVars
  <1>7. ASSUME NEW l \in links, Pay(l) PROVE TypeInv'
    BY <1>7 DEF Pay, TypeOK, HasAction, tables, sessionVars
  <1>8. CASE SetExecutionEnabled
    BY <1>8 DEF SetExecutionEnabled, TypeOK, HasAction, tables, provider, sessionVars
  <1>9. CASE UNCHANGED vars
    BY <1>9 DEF TypeOK, HasAction, vars, tables, provider, sessionVars
  <1>10. QED
    BY <1>1, <1>2, <1>3, <1>4, <1>5, <1>6, <1>7, <1>8, <1>9 DEF Next

\* Type correctness: whatever the interleaving, the rows hold values of the
\* enumerations of app/domain and attempt_count never exceeds max_retries.
THEOREM TypeCorrect == Spec => []TypeOK
  <1>1. Init => TypeInv
    BY InitType DEF Init, TypeInv, HasAction
  <1>2. QED
    BY <1>1, StepType, PTL DEF Spec, TypeInv

-----------------------------------------------------------------------------
(* The lock discipline of ExecutionOutboxInv.                             *)

IInv == TypeInv /\ LockDiscipline /\ RecoveredHasOutcome /\ AtMostOneOutcome

-----------------------------------------------------------------------------
(* What the steps of a session touch. *)

ItemStep(s) ==
    \/ Block(s) \/ Begin(s) \/ RequestError(s) \/ Dispatch(s)
    \/ LinkCreated(s) \/ LinkPaid(s) \/ ExecutionFailed(s) \/ ExecutionUnknown(s)
    \/ Reconcile(s)

HandlerStep(h) == WriteCase(h) \/ WriteAction(h) \/ WriteOutcome(h)

\* Session s leaves a row alone, or writes it under its lock.
Touches(old, new, s) ==
    new = old \/ (Free(old, s) /\ new.val = old.val /\ new.by = s)

\* Nobody else sees it until s commits.
LEMMA ReadKept ==
    ASSUME NEW old, NEW new, NEW s \in Sessions, NEW t \in Sessions, t # s, Touches(old, new, s)
    PROVE  Read(new, t) = Read(old, t) /\ new.val = old.val
  BY SessionAssumption DEF Touches, Read, Free

\* An executor that acts on an item has one.
LEMMA ItemStepAction ==
    ASSUME TypeInv, NEW s \in Executors, ItemStep(s)
    PROVE  s \in Sessions /\ cur[s] \in Actions
  BY DEF TypeInv, ItemStep, HasAction, Executors, Sessions, Block, Begin, RequestError, Dispatch,
         LinkCreated, LinkPaid, ExecutionFailed, ExecutionUnknown, Reconcile

\* It writes the rows of that item only.
LEMMA ItemStepEffect ==
    ASSUME TypeInv, NEW s \in Executors, ItemStep(s)
    PROVE  \A a \in Actions \ {cur[s]} :
                 case'[a] = case[a] /\ action'[a] = action[a] /\ outbox'[a] = outbox[a]
  BY ItemStepAction
     DEF TypeInv, ItemStep, Block, Begin, RequestError, Dispatch, LinkCreated, LinkPaid,
         ExecutionFailed,
         ExecutionUnknown, Reconcile, SetAction, SetExecuted, SetOutbox, SetCase, TypeOK, tables

\* It writes them under its locks, keeps to its own control state, and goes
\* on with the item only while the Action is locked.
LEMMA ItemStepFrame ==
    ASSUME TypeInv, HoldsLocked, CallsLocked, NEW s \in Executors, ItemStep(s)
    PROVE  /\ cur[s] \in Actions
           /\ \A a \in Actions \ {cur[s]} :
                 case'[a] = case[a] /\ action'[a] = action[a] /\ outbox'[a] = outbox[a]
           /\ \A a \in Actions : /\ Touches(case[a], case'[a], s)
                                 /\ Touches(action[a], action'[a], s)
                                 /\ Touches(outbox[a], outbox'[a], s)
                                 /\ outbox'[a] # outbox[a] => outbox[a].by = s
           /\ \A t \in Sessions \ {s} :
                 pc'[t] = pc[t] /\ cur'[t] = cur[t] /\ seen'[t] = seen[t] /\ res'[t] = res[t]
           /\ pc'[s] \in Calling \cup {"next"}
           /\ pc'[s] \in Calling => /\ cur'[s] = cur[s] /\ seen'[s] = seen[s]
                                    /\ action'[cur[s]].by = s
                                    /\ pc[s] \in Calling \cup {"begin"}
           /\ cur'[s] \in {cur[s], NoTx}
           /\ UNCHANGED <<todo, outcomes>>
           /\ inserted \subseteq inserted'
           /\ \A o \in inserted' : o \in inserted \/ (o.by = s /\ o.action = cur[s])
  <1> USE DEF TypeInv, Touches, Free, Calling
  <1>1. s \in Sessions /\ cur[s] \in Actions
    BY ItemStepAction
  <1>2. outbox[cur[s]].by = s
    BY <1>1 DEF HoldsLocked, Holds
  <1>3. CASE Block(s)
    BY <1>1, <1>2, <1>3 DEF Block, SetAction, SetOutbox, NextItem, Write, Goto, TypeOK
  <1>4. CASE Begin(s)
    BY <1>1, <1>4 DEF Begin, SetExecuted, Write, Goto, TypeOK
  <1>5. CASE RequestError(s)
    BY <1>1, <1>5 DEF RequestError, NextItem, Goto, TypeOK, tables
  <1>6. CASE Dispatch(s)
    BY <1>1, <1>6 DEF CallsLocked, Dispatch, LinkReady, Rejected, Ambiguous, Goto, TypeOK, tables
  <1>7. CASE LinkCreated(s)
    BY <1>1, <1>2, <1>7 DEF CallsLocked, LinkCreated, SetExecuted, SetOutbox, SetCase, NextItem,
        Write, Goto, TypeOK
  <1>8. CASE LinkPaid(s)
    BY <1>1, <1>2, <1>8 DEF CallsLocked, LinkPaid, SetExecuted, SetOutbox, SetCase, NextItem,
        RecordOutcome, Write, Goto, TypeOK
  <1>9. CASE ExecutionFailed(s)
    BY <1>1, <1>2, <1>9 DEF CallsLocked, ExecutionFailed, SetExecuted, SetOutbox, NextItem,
        RecordOutcome, Write, Goto, TypeOK
  <1>10. CASE ExecutionUnknown(s)
    BY <1>1, <1>2, <1>10 DEF CallsLocked, ExecutionUnknown, SetExecuted, NextItem, RecordOutcome,
        Write, Goto, TypeOK
  <1>11. CASE Reconcile(s)
    BY <1>1, <1>2, <1>11 DEF CallsLocked, Reconcile, SetExecuted, SetOutbox, NextItem, Write, Goto,
        TypeOK
  <1>12. QED
    BY <1>3, <1>4, <1>5, <1>6, <1>7, <1>8, <1>9, <1>10, <1>11 DEF ItemStep

\* The same for a handler that writes; outbox rows are none of its business.
LEMMA HandlerFrame ==
    ASSUME TypeInv, NEW h \in Handlers, HandlerStep(h)
    PROVE  /\ cur[h] \in Actions
           /\ \A a \in Actions \ {cur[h]} : case'[a] = case[a] /\ action'[a] = action[a]
           /\ \A a \in Actions : /\ Touches(case[a], case'[a], h)
                                 /\ Touches(action[a], action'[a], h)
           /\ \A t \in Sessions \ {h} : pc'[t] = pc[t]
           /\ pc'[h] \in {"writeAction", "outcome", "commit"}
           /\ UNCHANGED <<outbox, outcomes, todo, cur, seen, res>>
           /\ inserted \subseteq inserted'
           /\ \A o \in inserted' : o \in inserted \/ (o.by = h /\ o.action = cur[h])
  <1> USE DEF TypeInv, Touches, Free, Confirming
  <1>1. h \in Sessions /\ cur[h] \in Actions
    BY DEF HandlerStep, HasAction, Sessions, WriteCase, WriteAction, WriteOutcome
  <1>2. CASE WriteCase(h)
    BY <1>1, <1>2 DEF WriteCase, SetCase, Write, Goto, TypeOK
  <1>3. CASE WriteAction(h)
    BY <1>1, <1>3 DEF WriteAction, SetAction, Write, Goto, TypeOK
  <1>4. CASE WriteOutcome(h)
    BY <1>1, <1>4 DEF WriteOutcome, RecordOutcome, Goto, TypeOK
  <1>5. QED
    BY <1>2, <1>3, <1>4 DEF HandlerStep

\* A worker claims rows that nobody has locked and that are not COMPLETED.
LEMMA ClaimFrame ==
    ASSUME TypeInv, NEW w \in Workers, Claim(w)
    PROVE  /\ \A a \in Actions : outbox'[a] = outbox[a] \/ a \in Claimable
           /\ \A a \in Actions :
                 \/ outbox'[a] = outbox[a]
                 \/ outbox[a].by = NoTx /\ outbox[a].val.status # "COMPLETED"
           /\ UNCHANGED <<case, action, outcomes, inserted, cur, seen>>
           /\ \A t \in Sessions \ {w} : pc'[t] = pc[t]
  <1>1. \A a \in Actions : outbox'[a] = outbox[a] \/ a \in Claimable
    BY DEF Claim, Batches
  <1>2. \A a \in Claimable : outbox[a].by = NoTx /\ outbox[a].val.status # "COMPLETED"
    BY DEF Claimable
  <1>3. QED
    BY <1>1, <1>2 DEF Claim, Goto, TypeInv, TypeOK

\* A session that ends publishes or discards what it has written, row by row,
\* and leaves the others where they are.
LEMMA CommitFrame ==
    ASSUME TypeInv, NEW s \in Sessions, Commit(s)
    PROVE  /\ \A a \in Actions :
                 /\ case'[a] = IF case[a].by = s THEN Unlocked(case[a].new) ELSE case[a]
                 /\ action'[a] = IF action[a].by = s THEN Unlocked(action[a].new) ELSE action[a]
                 /\ outbox'[a] = IF outbox[a].by = s THEN Unlocked(outbox[a].new) ELSE outbox[a]
           /\ \A t \in Sessions \ {s} :
                 pc'[t] = pc[t] /\ cur'[t] = cur[t] /\ seen'[t] = seen[t]
           /\ outcomes' = outcomes \cup {o \in inserted : o.by = s}
           /\ inserted' = {o \in inserted : o.by # s}
  BY DEF Commit, CommitWork, Publish, Forget, Goto, TypeInv, TypeOK

LEMMA RollbackFrame ==
    ASSUME TypeInv, NEW s \in Sessions, Rollback(s, "dropped")
    PROVE  /\ \A a \in Actions :
                 /\ case'[a] = IF case[a].by = s THEN Unlocked(case[a].val) ELSE case[a]
                 /\ action'[a] = IF action[a].by = s THEN Unlocked(action[a].val) ELSE action[a]
                 /\ outbox'[a] = IF outbox[a].by = s THEN Unlocked(outbox[a].val) ELSE outbox[a]
           /\ \A t \in Sessions \ {s} :
                 pc'[t] = pc[t] /\ cur'[t] = cur[t] /\ seen'[t] = seen[t]
           /\ outcomes' = outcomes
           /\ inserted' = {o \in inserted : o.by # s}
  BY DEF Rollback, Undo, Discard, Forget, Goto, TypeInv, TypeOK

\* Either way a row that is still locked afterwards has not changed.
LEMMA EndFrame ==
    ASSUME TypeInv, NEW s \in Sessions, Commit(s) \/ Rollback(s, "dropped")
    PROVE  /\ \A a \in Actions :
                 /\ case'[a].by # NoTx => case[a].by # s
                 /\ action'[a].by # NoTx => action[a].by # s
                 /\ case[a].by # s => case'[a] = case[a]
                 /\ action[a].by # s => action'[a] = action[a]
                 /\ outbox[a].by # s => outbox'[a] = outbox[a]
           /\ \A t \in Sessions \ {s} : pc'[t] = pc[t] /\ cur'[t] = cur[t]
           /\ outcomes \subseteq outcomes' /\ \A o \in inserted : o.by # s => o \in inserted'
  <1>1. ASSUME NEW a \in Actions
        PROVE  /\ case'[a].by # NoTx => case[a].by # s
               /\ action'[a].by # NoTx => action[a].by # s
               /\ case[a].by # s => case'[a] = case[a]
               /\ action[a].by # s => action'[a] = action[a]
               /\ outbox[a].by # s => outbox'[a] = outbox[a]
    <2>1. ASSUME Commit(s)
          PROVE  /\ case'[a] = IF case[a].by = s THEN Unlocked(case[a].new) ELSE case[a]
                 /\ action'[a] = IF action[a].by = s THEN Unlocked(action[a].new) ELSE action[a]
                 /\ outbox[a].by # s => outbox'[a] = outbox[a]
      BY <2>1, CommitFrame
    <2>2. ASSUME Rollback(s, "dropped")
          PROVE  /\ case'[a] = IF case[a].by = s THEN Unlocked(case[a].val) ELSE case[a]
                 /\ action'[a] = IF action[a].by = s THEN Unlocked(action[a].val) ELSE action[a]
                 /\ outbox[a].by # s => outbox'[a] = outbox[a]
      BY <2>2, RollbackFrame
    <2>3. QED
      BY <2>1, <2>2 DEF Unlocked
  <1>2. \A t \in Sessions \ {s} : pc'[t] = pc[t] /\ cur'[t] = cur[t]
    BY CommitFrame, RollbackFrame
  <1>3. /\ outcomes' = outcomes \cup {o \in inserted : o.by = s} \/ outcomes' = outcomes
        /\ inserted' = {o \in inserted : o.by # s}
    BY CommitFrame, RollbackFrame
  <1>4. outcomes \subseteq outcomes' /\ \A o \in inserted : o.by # s => o \in inserted'
    BY <1>3
  <1>5. QED
    BY <1>1, <1>2, <1>4

\* After record_outcome an outcome is visible to the session.
LEMMA RecordOutcomeRecords ==
    ASSUME NEW a, NEW s, NEW status, RecordOutcome(s, a, status), outcomes' = outcomes
    PROVE  OutcomesOf(a, s)' # {}
  <1> DEFINE o == [action |-> a, by |-> s, status |-> status]
  <1>1. CASE OutcomesOf(a, s) = {}
    <2>1. o \in inserted'
      BY <1>1 DEF RecordOutcome
    <2>2. o.action = a /\ o.by = s
      OBVIOUS
    <2>3. o \in OutcomesOf(a, s)'
      BY <2>1, <2>2 DEF OutcomesOf
    <2>4. QED
      BY <2>3
  <1>2. CASE OutcomesOf(a, s) # {}
    BY <1>2 DEF RecordOutcome, OutcomesOf
  <1>3. QED
    BY <1>1, <1>2

\* An executor updates its case by the version it has loaded, and to RECOVERED
\* only with an outcome.
LEMMA ItemStepCase ==
    ASSUME TypeInv, NEW s \in Executors, ItemStep(s), NEW a \in Actions, case'[a] # case[a]
    PROVE  /\ a = cur[s] /\ pc[s] = "result" /\ pc'[s] = "next"
           /\ Free(case[a], s) /\ Fresh(s)
           /\ case'[a].by = s /\ case'[a].val = case[a].val
           /\ case'[a].new.version = Read(case[a], s).version + 1
           /\ \/ case'[a].new.status = seen[s].case.status
              \/ case'[a].new.status = "RECOVERED" /\ OutcomesOf(a, s)' # {}
  <1> USE DEF TypeInv
  <1>1. s \in Sessions /\ cur[s] \in Actions
    BY ItemStepAction
  <1>2. CASE LinkCreated(s)
    BY <1>1, <1>2 DEF LinkCreated, SetCase, NextItem, Goto, Write, TypeOK
  <1>3. CASE LinkPaid(s)
    <2>1. a = cur[s]
      BY <1>1, <1>3 DEF LinkPaid, SetCase, TypeOK
    <2>2. OutcomesOf(a, s)' # {}
      BY <1>3, <2>1, RecordOutcomeRecords DEF LinkPaid
    <2>3. QED
      BY <1>1, <1>3, <2>1, <2>2 DEF LinkPaid, SetCase, NextItem, Goto, Write, TypeOK
  <1>4. CASE ~LinkCreated(s) /\ ~LinkPaid(s)
    BY <1>4 DEF ItemStep, Block, Begin, RequestError, Dispatch, ExecutionFailed, ExecutionUnknown,
        Reconcile, tables
  <1>5. QED
    BY <1>2, <1>3, <1>4

\* A handler updates the case of its event by the version it has loaded, to
\* RECOVERED.
LEMMA HandlerCase ==
    ASSUME TypeInv, HandlerLocks, NEW h \in Handlers,
           HandlerStep(h), NEW a \in Actions, case'[a] # case[a]
    PROVE  /\ a = cur[h] /\ pc[h] = "writeCase" /\ pc'[h] \in {"writeAction", "outcome"}
           /\ Free(case[a], h) /\ Fresh(h)
           /\ case'[a].by = h /\ case'[a].val = case[a].val
           /\ case'[a].new.version = Read(case[a], h).version + 1
           /\ case'[a].new.status = "RECOVERED"
  <1> USE DEF TypeInv
  <1>1. h \in Sessions /\ cur[h] \in Actions
    BY HandlerFrame DEF Sessions
  <1>2. CASE WriteCase(h)
    BY <1>1, <1>2 DEF WriteCase, SetCase, Goto, Write, TypeOK, HandlerLocks, HandlerRelies,
        Confirming, CanTransition, ALLOWED_TRANSITIONS
  <1>3. CASE ~WriteCase(h)
    BY <1>3 DEF HandlerStep, WriteAction, WriteOutcome
  <1>5. QED
    BY <1>2, <1>3

\* An executor writes SUCCEEDED with an outbox row that is COMPLETED.
LEMMA ItemStepSucceeded ==
    ASSUME TypeInv, HoldsLocked, NEW s \in Executors, ItemStep(s), NEW a \in Actions,
           action'[a] # action[a] \/ outbox'[a] # outbox[a], action'[a].new.status = "SUCCEEDED"
    PROVE  a = cur[s] /\ outbox'[a].by = s /\ outbox'[a].new.status = "COMPLETED"
  <1> USE DEF TypeInv
  <1>1. s \in Sessions /\ cur[s] \in Actions /\ outbox[cur[s]].by = s
    BY ItemStepAction DEF HoldsLocked, Holds
  <1>a. a = cur[s]
    BY ItemStepEffect
  <1>b. outbox[a] \in Row(OutboxRow) /\ Read(outbox[a], s) \in OutboxRow
    BY DEF TypeOK, Row, Read
  <1>3. CASE Block(s)
    BY <1>1, <1>a, <1>b, <1>3 DEF Block, SetAction, SetOutbox, OutboxAfter, Write, TypeOK, Row,
        OutboxRow, ActionRow
  <1>6. CASE Begin(s)
    BY <1>1, <1>a, <1>6 DEF Begin, SetExecuted, Write, TypeOK
  <1>7. CASE RequestError(s) \/ Dispatch(s)
    BY <1>7 DEF RequestError, Dispatch, tables
  <1>8. CASE LinkCreated(s) \/ LinkPaid(s)
    BY <1>1, <1>a, <1>b, <1>8 DEF LinkCreated, LinkPaid, SetExecuted, SetOutbox, Write, TypeOK,
        OutboxRow
  <1>9. CASE ExecutionFailed(s)
    BY <1>1, <1>a, <1>9 DEF ExecutionFailed, SetExecuted, Write, TypeOK
  <1>10. CASE ExecutionUnknown(s)
    BY <1>1, <1>a, <1>10 DEF ExecutionUnknown, SetExecuted, Write, TypeOK
  <1>11. CASE Reconcile(s)
    BY <1>1, <1>a, <1>b, <1>11 DEF Reconcile, SetExecuted, SetOutbox, Write, TypeOK, OutboxRow
  <1>12. QED
    BY <1>3, <1>6, <1>7, <1>8, <1>9, <1>10, <1>11 DEF ItemStep

\* record_outcome inserts when no outcome is visible, and one row.
LEMMA RecordOutcomeInserts ==
    ASSUME NEW a, NEW s, NEW status, RecordOutcome(s, a, status), NEW o \in inserted',
        o \notin inserted
    PROVE  /\ o.by = s /\ o.action = a
           /\ OutcomesOf(a, s) = {}
           /\ \A p \in inserted' : p.action = a /\ p.by = s => p = o
  BY DEF RecordOutcome, OutcomesOf

\* An executor inserts outcomes of the item whose answer it handles.
LEMMA ItemStepOutcome ==
    ASSUME NEW s \in Executors, ItemStep(s), NEW o \in inserted', o \notin inserted
    PROVE  /\ o.by = s /\ o.action = cur[s] /\ pc[s] = "result"
           /\ OutcomesOf(cur[s], s) = {}
           /\ \A p \in inserted' : p.action = o.action /\ p.by = s => p = o
  <1>1. \/ LinkPaid(s) \/ ExecutionFailed(s) \/ ExecutionUnknown(s)
    BY DEF ItemStep, Block, Begin, RequestError, Dispatch, LinkCreated, Reconcile, tables
  <1>2. pc[s] = "result" /\ \E status \in OutcomeStatus : RecordOutcome(s, cur[s], status)
    BY <1>1 DEF LinkPaid, ExecutionFailed, ExecutionUnknown, OutcomeStatus
  <1>3. QED
    BY <1>2, RecordOutcomeInserts

\* Every step is one of these.
LEMMA StepKinds ==
    ASSUME [Next]_vars
    PROVE  \/ \E c \in Cycles : Authorize(c)
           \/ \E w \in Workers : Claim(w)
           \/ \E s \in Executors : Preflight(s) \/ ItemStep(s)
           \/ \E h \in Handlers : Deliver(h) \/ LoadCase(h) \/ LoadAction(h) \/ HandlerStep(h)
           \/ \E s \in Sessions : Commit(s) \/ Rollback(s, "dropped")
           \/ \E a \in Actions : LeaseExpires(a)
           \/ UNCHANGED <<tables, sessionVars>>
  BY DEF Next, vars, Execute, ItemStep, Handle, HandlerStep, Finish, StaleData, DeadlockVictim,
         Crash, Pay, SetExecutionEnabled

-----------------------------------------------------------------------------
(* Each part of the discipline is kept by every step. *)

\* An item is taken with its outbox row, and the row is given back with it.
LEMMA StepHoldsLocked == IInv /\ [Next]_vars => HoldsLocked'
  <1> SUFFICES ASSUME IInv, [Next]_vars PROVE HoldsLocked'
    OBVIOUS
  <1> USE SessionAssumption DEF IInv, LockDiscipline, TypeInv, HoldsLocked, CallsLocked,
         NotCreatedYet, HasAction, TypeOK, Holds, Sessions, Executors, tables, provider,
         sessionVars
  <1>1. ASSUME NEW c \in Cycles, Authorize(c) PROVE HoldsLocked'
    BY <1>1 DEF Authorize, Write, Goto, Unlocked, NoCase, NoAction, NoOutbox
  <1>2. ASSUME NEW w \in Workers, Claim(w) PROVE HoldsLocked'
    BY <1>2 DEF Claim, Write, Claimed, Goto, Batches, Claimable
  <1>3. ASSUME NEW s \in Executors, Preflight(s) PROVE HoldsLocked'
    BY <1>3 DEF Preflight, Goto, Verdict, TerminalStatus
  <1>4. ASSUME NEW s \in Executors, ItemStep(s) PROVE HoldsLocked'
    BY <1>4, ItemStepFrame DEF Touches, Free
  <1>5. ASSUME NEW h \in Handlers, Deliver(h) PROVE HoldsLocked'
    BY <1>5 DEF Deliver, Goto
  <1>6. ASSUME NEW h \in Handlers, LoadCase(h) PROVE HoldsLocked'
    BY <1>6 DEF LoadCase, Goto
  <1>7. ASSUME NEW h \in Handlers, LoadAction(h) PROVE HoldsLocked'
    BY <1>7 DEF LoadAction, Goto
  <1>8. ASSUME NEW h \in Handlers, HandlerStep(h) PROVE HoldsLocked'
    BY <1>8, HandlerFrame DEF Touches, Free
  <1>9. ASSUME NEW s \in Sessions, Commit(s) PROVE HoldsLocked'
    BY <1>9 DEF Commit, CommitWork, Publish, Unlocked, Forget, Finished, Goto
  <1>10. ASSUME NEW s \in Sessions, Rollback(s, "dropped") PROVE HoldsLocked'
    BY <1>10 DEF Rollback, Undo, Discard, Unlocked, Forget, Finished, Goto
  <1>11. ASSUME NEW a \in Actions, LeaseExpires(a) PROVE HoldsLocked'
    BY <1>11 DEF LeaseExpires, Unlocked, NoOutbox
  <1>12. CASE UNCHANGED <<tables, sessionVars>>
    BY <1>12
  <1>13. QED
    BY <1>1, <1>2, <1>3, <1>4, <1>5, <1>6, <1>7, <1>8, <1>9, <1>10, <1>11, <1>12, StepKinds

\* Begin locks the Action's row; nobody takes it away.
LEMMA StepCallsLocked == IInv /\ [Next]_vars => CallsLocked'
  <1> SUFFICES ASSUME IInv, [Next]_vars PROVE CallsLocked'
    OBVIOUS
  <1> USE SessionAssumption DEF IInv, LockDiscipline, TypeInv, CallsLocked, HoldsLocked,
         NotCreatedYet, HasAction, TypeOK, Calling, Holds, Sessions, Executors, tables,
         provider, sessionVars
  <1>1. ASSUME NEW c \in Cycles, Authorize(c) PROVE CallsLocked'
    BY <1>1 DEF Authorize, Write, Goto, Unlocked, NoCase, NoAction, NoOutbox
  <1>2. ASSUME NEW w \in Workers, Claim(w) PROVE CallsLocked'
    BY <1>2 DEF Claim, Write, Claimed, Goto, Batches, Claimable
  <1>3. ASSUME NEW s \in Executors, Preflight(s) PROVE CallsLocked'
    BY <1>3 DEF Preflight, Goto, Verdict, TerminalStatus
  <1>4. ASSUME NEW s \in Executors, ItemStep(s) PROVE CallsLocked'
    BY <1>4, ItemStepFrame DEF Touches, Free
  <1>5. ASSUME NEW h \in Handlers, Deliver(h) PROVE CallsLocked'
    BY <1>5 DEF Deliver, Goto
  <1>6. ASSUME NEW h \in Handlers, LoadCase(h) PROVE CallsLocked'
    BY <1>6 DEF LoadCase, Goto
  <1>7. ASSUME NEW h \in Handlers, LoadAction(h) PROVE CallsLocked'
    BY <1>7 DEF LoadAction, Goto
  <1>8. ASSUME NEW h \in Handlers, HandlerStep(h) PROVE CallsLocked'
    BY <1>8, HandlerFrame DEF Touches, Free
  <1>9. ASSUME NEW s \in Sessions, Commit(s) PROVE CallsLocked'
    BY <1>9 DEF Commit, CommitWork, Publish, Unlocked, Forget, Finished, Goto
  <1>10. ASSUME NEW s \in Sessions, Rollback(s, "dropped") PROVE CallsLocked'
    BY <1>10 DEF Rollback, Undo, Discard, Unlocked, Forget, Finished, Goto
  <1>11. ASSUME NEW a \in Actions, LeaseExpires(a) PROVE CallsLocked'
    BY <1>11 DEF LeaseExpires, Unlocked, NoOutbox
  <1>12. CASE UNCHANGED <<tables, sessionVars>>
    BY <1>12
  <1>13. QED
    BY <1>1, <1>2, <1>3, <1>4, <1>5, <1>6, <1>7, <1>8, <1>9, <1>10, <1>11, <1>12, StepKinds

\* Rows that are not created yet cannot be loaded, claimed or written.
LEMMA StepNotCreatedYet == IInv /\ [Next]_vars => NotCreatedYet'
  <1> SUFFICES ASSUME IInv, [Next]_vars PROVE NotCreatedYet'
    OBVIOUS
  <1> USE SessionAssumption DEF IInv, LockDiscipline, TypeInv, NotCreatedYet, HoldsLocked,
         CallsLocked, HandlerLocks, HandlerRelies,
         HasAction, TypeOK, Holds, Unlocked, NoCase, NoAction,
         NoOutbox, Sessions, Executors, tables, provider, sessionVars
  <1>1. ASSUME NEW c \in Cycles, Authorize(c) PROVE NotCreatedYet'
    BY <1>1 DEF Authorize, Write, Goto
  <1>2. ASSUME NEW w \in Workers, Claim(w) PROVE NotCreatedYet'
    <2>1. /\ UNCHANGED <<case, action, cur>>
          /\ \A t \in Cycles : pc'[t] = pc[t]
      BY <1>2 DEF Claim, Goto
    <2>2. ASSUME NEW a \in Actions, outbox[a] = Unlocked(NoOutbox) PROVE outbox'[a] = outbox[a]
      <3>1. a \notin Claimable
        BY <2>2 DEF Claimable
      <3>2. QED
        BY <1>2, <3>1 DEF Claim, Batches
    <2>3. QED
      BY <2>1, <2>2
  <1>3. ASSUME NEW s \in Executors, Preflight(s) PROVE NotCreatedYet'
    BY <1>3 DEF Preflight, Goto, Verdict, TerminalStatus
  <1>4. ASSUME NEW s \in Executors, ItemStep(s) PROVE NotCreatedYet'
    <2>1. /\ \A a \in Actions : outbox[a].by # s =>
                 case'[a] = case[a] /\ action'[a] = action[a] /\ outbox'[a] = outbox[a]
          /\ s \in Cycles => pc'[s] # "idle" /\ pc[s] # "idle"
          /\ \A t \in Sessions \ {s} : pc'[t] = pc[t] /\ cur'[t] = cur[t]
      <3>1. cur[s] \in Actions /\ s \in Sessions
        BY <1>4, ItemStepAction
      <3>3. pc[s] \in {"block", "begin", "dispatch", "result", "reconcile"}
        BY <1>4 DEF ItemStep, Block, Begin, RequestError, Dispatch, LinkCreated, LinkPaid,
           ExecutionFailed, ExecutionUnknown, Reconcile
      <3>4. outbox[cur[s]].by = s /\ pc[s] # "idle"
        BY <3>1, <3>3
      <3>2. QED
        BY <1>4, <3>1, <3>4, ItemStepFrame DEF Calling
    <2> SUFFICES ASSUME NEW c \in Cycles, pc'[c] = "idle"
                 PROVE  /\ case'[ActionOf[c]]   = Unlocked(NoCase)
                        /\ action'[ActionOf[c]] = Unlocked(NoAction)
                        /\ outbox'[ActionOf[c]] = Unlocked(NoOutbox)
                        /\ \A h \in Handlers : cur'[h] # ActionOf[c]
      OBVIOUS
    <2>2. c # s /\ c \in Sessions /\ pc[c] = "idle" /\ ActionOf[c] \in Actions
      BY <2>1
    <2>3. /\ outbox[ActionOf[c]] = Unlocked(NoOutbox)
          /\ case[ActionOf[c]] = Unlocked(NoCase) /\ action[ActionOf[c]] = Unlocked(NoAction)
          /\ \A h \in Handlers : cur[h] # ActionOf[c]
      BY <2>2
    <2>4. QED
      BY <2>1, <2>2, <2>3
  <1>5. ASSUME NEW h \in Handlers, Deliver(h) PROVE NotCreatedYet'
    BY <1>5 DEF Deliver, Goto
  <1>6. ASSUME NEW h \in Handlers, LoadCase(h) PROVE NotCreatedYet'
    BY <1>6 DEF LoadCase, Goto
  <1>7. ASSUME NEW h \in Handlers, LoadAction(h) PROVE NotCreatedYet'
    BY <1>7 DEF LoadAction, Goto
  <1>8. ASSUME NEW h \in Handlers, HandlerStep(h) PROVE NotCreatedYet'
    BY <1>8, HandlerFrame DEF Touches, Free, Confirming
  <1>9. ASSUME NEW s \in Sessions, Commit(s) PROVE NotCreatedYet'
    BY <1>9 DEF Commit, CommitWork, Publish, Forget, Finished, Goto
  <1>10. ASSUME NEW s \in Sessions, Rollback(s, "dropped") PROVE NotCreatedYet'
    BY <1>10 DEF Rollback, Undo, Discard, Forget, Finished, Goto
  <1>11. ASSUME NEW a \in Actions, LeaseExpires(a) PROVE NotCreatedYet'
    BY <1>11 DEF LeaseExpires
  <1>12. CASE UNCHANGED <<tables, sessionVars>>
    BY <1>12
  <1>13. QED
    BY <1>1, <1>2, <1>3, <1>4, <1>5, <1>6, <1>7, <1>8, <1>9, <1>10, <1>11, <1>12, StepKinds

\* Cases are written with the status loaded, or as RECOVERED.
LEMMA StepCaseStatuses == IInv /\ [Next]_vars => CaseStatuses'
  <1> SUFFICES ASSUME IInv, [Next]_vars PROVE CaseStatuses'
    OBVIOUS
  <1> USE SessionAssumption DEF IInv, LockDiscipline, TypeInv, CaseStatuses, HoldsLocked,
         CallsLocked, HandlerLocks, HandlerRelies,
         HasAction, TypeOK, SeenOpen, VersionLoaded, Calling,
         Sessions, Executors, tables, provider, sessionVars
  <1>1. ASSUME NEW c \in Cycles, Authorize(c) PROVE CaseStatuses'
    BY <1>1 DEF Authorize, Write, Goto, Unlocked, NoCase, NoAction, NoOutbox
  <1>2. ASSUME NEW w \in Workers, Claim(w) PROVE CaseStatuses'
    BY <1>2 DEF Claim, Write, Claimed, Goto, Batches, Claimable
  <1>3. ASSUME NEW s \in Executors, Preflight(s) PROVE CaseStatuses'
    BY <1>3 DEF Preflight, Goto, Verdict, TerminalStatus
  <1>4. ASSUME NEW s \in Executors, ItemStep(s) PROVE CaseStatuses'
    <2> SUFFICES ASSUME NEW a \in Actions, case'[a] # case[a]
                 PROVE  /\ case'[a].val.status \in {"ABSENT", "RISK_ASSESSED", "RECOVERED"}
                        /\ case'[a].new.status \in {"ABSENT", "RISK_ASSESSED", "RECOVERED"}
      OBVIOUS
    <2>1. /\ a = cur[s] /\ pc[s] = "result" /\ Fresh(s) /\ case'[a].val = case[a].val
          /\ case'[a].new.status = seen[s].case.status \/ case'[a].new.status = "RECOVERED"
      BY <1>4, ItemStepCase
    <2>2. seen[s].case = Read(case[a], s)
      BY <2>1 DEF Fresh
    <2>3. QED
      BY <2>1, <2>2 DEF Read
  <1>5. ASSUME NEW h \in Handlers, Deliver(h) PROVE CaseStatuses'
    BY <1>5 DEF Deliver, Goto
  <1>6. ASSUME NEW h \in Handlers, LoadCase(h) PROVE CaseStatuses'
    BY <1>6 DEF LoadCase, Goto
  <1>7. ASSUME NEW h \in Handlers, LoadAction(h) PROVE CaseStatuses'
    BY <1>7 DEF LoadAction, Goto
  <1>8. ASSUME NEW h \in Handlers, HandlerStep(h) PROVE CaseStatuses'
    BY <1>8, HandlerFrame, HandlerCase DEF Touches, Free
  <1>9. ASSUME NEW s \in Sessions, Commit(s) PROVE CaseStatuses'
    BY <1>9 DEF Commit, CommitWork, Publish, Unlocked, Forget, Finished, Goto
  <1>10. ASSUME NEW s \in Sessions, Rollback(s, "dropped") PROVE CaseStatuses'
    BY <1>10 DEF Rollback, Undo, Discard, Unlocked, Forget, Finished, Goto
  <1>11. ASSUME NEW a \in Actions, LeaseExpires(a) PROVE CaseStatuses'
    BY <1>11 DEF LeaseExpires, Unlocked, NoOutbox
  <1>12. CASE UNCHANGED <<tables, sessionVars>>
    BY <1>12 DEF OutcomesOf, Read
  <1>13. QED
    BY <1>1, <1>2, <1>3, <1>4, <1>5, <1>6, <1>7, <1>8, <1>9, <1>10, <1>11, <1>12, StepKinds

\* The preflight refuses a recovered case.
LEMMA StepSeenOpen == IInv /\ [Next]_vars => SeenOpen'
  <1> SUFFICES ASSUME IInv, [Next]_vars PROVE SeenOpen'
    OBVIOUS
  <1> USE SessionAssumption DEF IInv, LockDiscipline, TypeInv, SeenOpen, CallsLocked, HoldsLocked,
         CaseStatuses, TypeOK, Calling, Sessions, Executors, tables, provider, sessionVars
  <1>1. ASSUME NEW c \in Cycles, Authorize(c) PROVE SeenOpen'
    BY <1>1 DEF Authorize, Write, Goto, Unlocked, NoCase, NoAction, NoOutbox
  <1>2. ASSUME NEW w \in Workers, Claim(w) PROVE SeenOpen'
    BY <1>2 DEF Claim, Write, Claimed, Goto, Batches, Claimable
  <1>3. ASSUME NEW s \in Executors, Preflight(s) PROVE SeenOpen'
    BY <1>3 DEF Preflight, Goto, Verdict, TerminalStatus
  <1>4. ASSUME NEW s \in Executors, ItemStep(s) PROVE SeenOpen'
    BY <1>4, ItemStepFrame DEF Touches, Free
  <1>5. ASSUME NEW h \in Handlers, Deliver(h) PROVE SeenOpen'
    BY <1>5 DEF Deliver, Goto
  <1>6. ASSUME NEW h \in Handlers, LoadCase(h) PROVE SeenOpen'
    BY <1>6 DEF LoadCase, Goto
  <1>7. ASSUME NEW h \in Handlers, LoadAction(h) PROVE SeenOpen'
    BY <1>7 DEF LoadAction, Goto
  <1>8. ASSUME NEW h \in Handlers, HandlerStep(h) PROVE SeenOpen'
    BY <1>8, HandlerFrame DEF Touches, Free, Confirming
  <1>9. ASSUME NEW s \in Sessions, Commit(s) PROVE SeenOpen'
    BY <1>9 DEF Commit, CommitWork, Publish, Unlocked, Forget, Finished, Goto
  <1>10. ASSUME NEW s \in Sessions, Rollback(s, "dropped") PROVE SeenOpen'
    BY <1>10 DEF Rollback, Undo, Discard, Unlocked, Forget, Finished, Goto
  <1>11. ASSUME NEW a \in Actions, LeaseExpires(a) PROVE SeenOpen'
    BY <1>11 DEF LeaseExpires, Unlocked, NoOutbox
  <1>12. CASE UNCHANGED <<tables, sessionVars>>
    BY <1>12
  <1>13. QED
    BY <1>1, <1>2, <1>3, <1>4, <1>5, <1>6, <1>7, <1>8, <1>9, <1>10, <1>11, <1>12, StepKinds

\* Locking a case takes a version that is still the committed one, loaded from
\* a case that was not recovered.
LEMMA StepRecoveredUnlocked == IInv /\ [Next]_vars => RecoveredUnlocked'
  <1> SUFFICES ASSUME IInv, [Next]_vars PROVE RecoveredUnlocked'
    OBVIOUS
  <1> USE SessionAssumption DEF IInv, LockDiscipline, TypeInv, RecoveredUnlocked, NotCreatedYet,
         HoldsLocked, CallsLocked, HandlerLocks, HandlerRelies,
         SeenOpen, VersionLoaded, TypeOK, Calling,
         Confirming, Unlocked, NoCase, Sessions, Executors, tables, provider, sessionVars
  <1>1. ASSUME NEW c \in Cycles, Authorize(c) PROVE RecoveredUnlocked'
    BY <1>1 DEF Authorize, Write, Goto, NoAction, NoOutbox
  <1>2. ASSUME NEW w \in Workers, Claim(w) PROVE RecoveredUnlocked'
    BY <1>2 DEF Claim, Write, Claimed, Goto, Batches, Claimable
  <1>3. ASSUME NEW s \in Executors, Preflight(s) PROVE RecoveredUnlocked'
    BY <1>3 DEF Preflight, Goto, Verdict, TerminalStatus
  <1>4. ASSUME NEW s \in Executors, ItemStep(s) PROVE RecoveredUnlocked'
    BY <1>4, ItemStepFrame, ItemStepCase DEF Touches, Free, Fresh, Read
  <1>5. ASSUME NEW h \in Handlers, Deliver(h) PROVE RecoveredUnlocked'
    BY <1>5 DEF Deliver, Goto
  <1>6. ASSUME NEW h \in Handlers, LoadCase(h) PROVE RecoveredUnlocked'
    BY <1>6 DEF LoadCase, Goto
  <1>7. ASSUME NEW h \in Handlers, LoadAction(h) PROVE RecoveredUnlocked'
    BY <1>7 DEF LoadAction, Goto
  <1>8. ASSUME NEW h \in Handlers, HandlerStep(h) PROVE RecoveredUnlocked'
    BY <1>8, HandlerFrame, HandlerCase DEF Touches, Free, Fresh, Read
  <1>9. ASSUME NEW s \in Sessions, Commit(s) PROVE RecoveredUnlocked'
    BY <1>9 DEF Commit, CommitWork, Publish, Forget, Finished, Goto
  <1>10. ASSUME NEW s \in Sessions, Rollback(s, "dropped") PROVE RecoveredUnlocked'
    BY <1>10 DEF Rollback, Undo, Discard, Forget, Finished, Goto
  <1>11. ASSUME NEW a \in Actions, LeaseExpires(a) PROVE RecoveredUnlocked'
    BY <1>11 DEF LeaseExpires, NoOutbox
  <1>12. CASE UNCHANGED <<tables, sessionVars>>
    BY <1>12
  <1>13. QED
    BY <1>1, <1>2, <1>3, <1>4, <1>5, <1>6, <1>7, <1>8, <1>9, <1>10, <1>11, <1>12, StepKinds

\* A handler locks its case in writeCase and not before.
LEMMA StepHandlerIdle == IInv /\ [Next]_vars => HandlerIdle'
  <1> SUFFICES ASSUME IInv, [Next]_vars PROVE HandlerIdle'
    OBVIOUS
  <1> USE SessionAssumption DEF IInv, LockDiscipline, TypeInv, HandlerIdle, NotCreatedYet,
         HoldsLocked, CallsLocked, HandlerLocks, HandlerRelies,
         TypeOK, Calling, Confirming, Unlocked, NoCase,
         Sessions, Executors, tables, provider, sessionVars
  <1>1. ASSUME NEW c \in Cycles, Authorize(c) PROVE HandlerIdle'
    BY <1>1 DEF Authorize, Write, Goto, NoAction, NoOutbox
  <1>2. ASSUME NEW w \in Workers, Claim(w) PROVE HandlerIdle'
    BY <1>2 DEF Claim, Write, Claimed, Goto, Batches, Claimable
  <1>3. ASSUME NEW s \in Executors, Preflight(s) PROVE HandlerIdle'
    BY <1>3 DEF Preflight, Goto, Verdict, TerminalStatus
  <1>4. ASSUME NEW s \in Executors, ItemStep(s) PROVE HandlerIdle'
    BY <1>4, ItemStepFrame DEF Touches, Free
  <1>5. ASSUME NEW h \in Handlers, Deliver(h) PROVE HandlerIdle'
    BY <1>5 DEF Deliver, Goto
  <1>6. ASSUME NEW h \in Handlers, LoadCase(h) PROVE HandlerIdle'
    BY <1>6 DEF LoadCase, Goto
  <1>7. ASSUME NEW h \in Handlers, LoadAction(h) PROVE HandlerIdle'
    BY <1>7 DEF LoadAction, Goto
  <1>8. ASSUME NEW h \in Handlers, HandlerStep(h) PROVE HandlerIdle'
    BY <1>8, HandlerFrame, HandlerCase DEF Touches, Free
  <1>9. ASSUME NEW s \in Sessions, Commit(s) PROVE HandlerIdle'
    BY <1>9 DEF Commit, CommitWork, Publish, Forget, Finished, Goto
  <1>10. ASSUME NEW s \in Sessions, Rollback(s, "dropped") PROVE HandlerIdle'
    BY <1>10 DEF Rollback, Undo, Discard, Forget, Finished, Goto
  <1>11. ASSUME NEW a \in Actions, LeaseExpires(a) PROVE HandlerIdle'
    BY <1>11 DEF LeaseExpires, NoOutbox
  <1>12. CASE UNCHANGED <<tables, sessionVars>>
    BY <1>12
  <1>13. QED
    BY <1>1, <1>2, <1>3, <1>4, <1>5, <1>6, <1>7, <1>8, <1>9, <1>10, <1>11, <1>12, StepKinds

\* Each write raises the version.
LEMMA StepVersionRaised == IInv /\ [Next]_vars => VersionRaised'
  <1> SUFFICES ASSUME IInv, [Next]_vars PROVE VersionRaised'
    OBVIOUS
  <1> USE SessionAssumption DEF IInv, LockDiscipline, TypeInv, VersionRaised, NotCreatedYet,
         HoldsLocked, CallsLocked, HandlerLocks, HandlerRelies,
         TypeOK, Confirming, Row, CaseRow, Sessions,
         Executors, tables, provider, sessionVars
  <1>1. ASSUME NEW c \in Cycles, Authorize(c) PROVE VersionRaised'
    BY <1>1 DEF Authorize, Write, Goto, Unlocked, NoCase, NoAction, NoOutbox
  <1>2. ASSUME NEW w \in Workers, Claim(w) PROVE VersionRaised'
    BY <1>2 DEF Claim, Write, Claimed, Goto, Batches, Claimable
  <1>3. ASSUME NEW s \in Executors, Preflight(s) PROVE VersionRaised'
    BY <1>3 DEF Preflight, Goto, Verdict, TerminalStatus
  <1>4. ASSUME NEW s \in Executors, ItemStep(s) PROVE VersionRaised'
    <2> SUFFICES ASSUME NEW a \in Actions, case'[a] # case[a]
                 PROVE  case'[a].new.version > case'[a].val.version
      OBVIOUS
    <2>1. /\ case'[a].new.version = Read(case[a], s).version + 1 /\ case'[a].val = case[a].val
          /\ Free(case[a], s)
      BY <1>4, ItemStepCase
    <2>2. case[a].val.version \in Nat /\ case[a].new.version \in Nat
      OBVIOUS
    <2>3. QED
      BY <2>1, <2>2 DEF Read, Free
  <1>5. ASSUME NEW h \in Handlers, Deliver(h) PROVE VersionRaised'
    BY <1>5 DEF Deliver, Goto
  <1>6. ASSUME NEW h \in Handlers, LoadCase(h) PROVE VersionRaised'
    BY <1>6 DEF LoadCase, Goto
  <1>7. ASSUME NEW h \in Handlers, LoadAction(h) PROVE VersionRaised'
    BY <1>7 DEF LoadAction, Goto
  <1>8. ASSUME NEW h \in Handlers, HandlerStep(h) PROVE VersionRaised'
    <2> SUFFICES ASSUME NEW a \in Actions, case'[a] # case[a]
                 PROVE  case'[a].new.version > case'[a].val.version
      OBVIOUS
    <2>1. /\ case'[a].new.version = Read(case[a], h).version + 1 /\ case'[a].val = case[a].val
          /\ Free(case[a], h)
      BY <1>8, HandlerCase
    <2>2. case[a].val.version \in Nat /\ case[a].new.version \in Nat
      OBVIOUS
    <2>3. QED
      BY <2>1, <2>2 DEF Read, Free
  <1>9. ASSUME NEW s \in Sessions, Commit(s) PROVE VersionRaised'
    BY <1>9 DEF Commit, CommitWork, Publish, Unlocked, Forget, Finished, Goto
  <1>10. ASSUME NEW s \in Sessions, Rollback(s, "dropped") PROVE VersionRaised'
    BY <1>10 DEF Rollback, Undo, Discard, Unlocked, Forget, Finished, Goto
  <1>11. ASSUME NEW a \in Actions, LeaseExpires(a) PROVE VersionRaised'
    BY <1>11 DEF LeaseExpires, Unlocked, NoOutbox
  <1>12. CASE UNCHANGED <<tables, sessionVars>>
    BY <1>12
  <1>13. QED
    BY <1>1, <1>2, <1>3, <1>4, <1>5, <1>6, <1>7, <1>8, <1>9, <1>10, <1>11, <1>12, StepKinds

\* What was loaded is there until its version is raised: by the session itself,
\* which is past using it then, or by a commit.
LEMMA StepVersionLoaded == IInv /\ [Next]_vars => VersionLoaded'
  <1> SUFFICES ASSUME IInv, [Next]_vars PROVE VersionLoaded'
    OBVIOUS
  <1> USE SessionAssumption DEF IInv, LockDiscipline, TypeInv, VersionLoaded, VersionRaised,
         NotCreatedYet, HoldsLocked, CallsLocked, HandlerLocks, HandlerRelies,
         HandlerIdle, HasAction, TypeOK,
         Calling, Sessions, Executors, tables, provider, sessionVars
  <1>1. ASSUME NEW c \in Cycles, Authorize(c) PROVE VersionLoaded'
    <2>1. pc' = [pc EXCEPT ![c] = "next"] /\ UNCHANGED <<cur, seen>>
      BY <1>1 DEF Authorize, Goto
    <2>2. ASSUME NEW t \in Sessions, t # c, cur[t] \in Actions PROVE Read(case'[cur[t]],
        t) = Read(case[cur[t]], t)
      BY <1>1, <2>2 DEF Authorize, Read, Write, Unlocked, NoCase
    <2>3. QED
      BY <1>1, <2>1, <2>2 DEF Calling, TypeOK, HasAction
  <1>2. ASSUME NEW w \in Workers, Claim(w) PROVE VersionLoaded'
    BY <1>2 DEF Claim, Write, Claimed, Goto, Batches, Claimable
  <1>3. ASSUME NEW s \in Executors, Preflight(s) PROVE VersionLoaded'
    <2>1. PICK a \in todo[s] : /\ cur'  = [cur EXCEPT ![s] = a]
                               /\ seen' = [seen EXCEPT ![s] = [case   |-> Read(case[a], s),
                                                              action |-> Read(action[a], s).status]]
                               /\ pc' = [pc EXCEPT ![s] = IF Verdict(a, s) = "VALID" THEN "begin" ELSE "block"]
      BY <1>3 DEF Preflight, Goto
    <2>2. a \in Actions /\ Read(case[a], s) \in CaseRow /\ case' = case
      BY <1>3, <2>1 DEF Read, Row, Preflight
    <2>3. Read(case[a], s).version <= Read(case[a], s).version
      BY <2>2 DEF CaseRow
    <2>4. QED
      BY <2>1, <2>2, <2>3 DEF Read
  <1>4. ASSUME NEW s \in Executors, ItemStep(s) PROVE VersionLoaded'
    <2> SUFFICES ASSUME NEW t \in Sessions,
                        pc'[t] \in {"loaded", "writeCase"} \/ (t \in Executors /\ pc'[t] \in Calling \cup {"begin"})
                 PROVE  /\ pc[t] \in {"loaded", "writeCase"} \/ (t \in Executors /\ pc[t] \in Calling \cup {"begin"})
                        /\ Read(case'[cur'[t]], t) = Read(case[cur[t]], t)
                        /\ seen'[t] = seen[t]
      OBVIOUS
    <2>1. cur[s] \in Actions /\ \A a \in Actions : Touches(case[a], case'[a], s)
      BY <1>4, ItemStepFrame
    <2>2. CASE t = s
      <3>1. case'[cur[s]] = case[cur[s]]
        BY <1>4, <2>1, <2>2, ItemStepCase
      <3>2. QED
        BY <1>4, <2>2, <3>1, ItemStepFrame
    <2>3. CASE t # s
      <3>1. pc'[t] = pc[t] /\ cur'[t] = cur[t] /\ seen'[t] = seen[t]
        BY <1>4, <2>3, ItemStepFrame
      <3>2. cur[t] \in Actions
        BY <3>1 DEF HasAction
      <3>3. QED
        BY <2>1, <2>3, <3>1, <3>2, ReadKept
    <2>4. QED
      BY <2>2, <2>3
  <1>5. ASSUME NEW h \in Handlers, Deliver(h) PROVE VersionLoaded'
    BY <1>5 DEF Deliver, Goto
  <1>6. ASSUME NEW h \in Handlers, LoadCase(h) PROVE VersionLoaded'
    <2> SUFFICES ASSUME NEW t \in Sessions,
                        pc'[t] \in {"loaded", "writeCase"} \/ (t \in Executors /\ pc'[t] \in Calling \cup {"begin"})
                 PROVE  LET now == Read(case'[cur'[t]], t) IN
                        /\ seen'[t].case.version <= now.version
                        /\ seen'[t].case.version = now.version => seen'[t].case = now
      OBVIOUS
    <2>1. h \in Sessions /\ ActionOf[h] \in Actions /\ case' = case
      BY <1>6 DEF LoadCase
    <2>2. CASE t = h
      <3>1. cur'[h] = ActionOf[h] /\ seen'[h].case = case[ActionOf[h]].val
        BY <1>6, <2>1, <2>2 DEF LoadCase, Goto
      <3>2. Read(case[ActionOf[h]], h) = case[ActionOf[h]].val
        BY <1>6, <2>1 DEF LoadCase, HandlerIdle, Read
      <3>3. case[ActionOf[h]].val.version \in Nat
        BY <2>1 DEF Row, CaseRow
      <3>4. QED
        BY <2>1, <2>2, <3>1, <3>2, <3>3
    <2>3. CASE t # h
      BY <1>6, <2>1, <2>3 DEF LoadCase, Goto
    <2>4. QED
      BY <2>2, <2>3
  <1>7. ASSUME NEW h \in Handlers, LoadAction(h) PROVE VersionLoaded'
    BY <1>7 DEF LoadAction, Goto
  <1>8. ASSUME NEW h \in Handlers, HandlerStep(h) PROVE VersionLoaded'
    <2> SUFFICES ASSUME NEW t \in Sessions,
                        pc'[t] \in {"loaded", "writeCase"} \/ (t \in Executors /\ pc'[t] \in Calling \cup {"begin"})
                 PROVE  /\ pc[t] \in {"loaded", "writeCase"} \/ (t \in Executors /\ pc[t] \in Calling \cup {"begin"})
                        /\ Read(case'[cur'[t]], t) = Read(case[cur[t]], t)
                        /\ seen'[t] = seen[t]
      OBVIOUS
    <2>1. t # h /\ pc'[t] = pc[t] /\ cur' = cur /\ seen' = seen
      BY <1>8, HandlerFrame
    <2>2. cur[t] \in Actions
      BY <2>1 DEF HasAction
    <2>3. QED
      BY <1>8, <2>1, <2>2, HandlerFrame, ReadKept
  <1>9. ASSUME NEW s \in Sessions, Commit(s) PROVE VersionLoaded'
    <2> SUFFICES ASSUME NEW t \in Sessions,
                        pc'[t] \in {"loaded", "writeCase"} \/ (t \in Executors /\ pc'[t] \in Calling \cup {"begin"})
                 PROVE  LET now == Read(case'[cur'[t]], t) IN
                        /\ seen'[t].case.version <= now.version
                        /\ seen'[t].case.version = now.version => seen'[t].case = now
      OBVIOUS
    <2>1. t # s /\ pc'[t] = pc[t] /\ cur'[t] = cur[t] /\ seen'[t] = seen[t]
      BY <1>9 DEF Commit, CommitWork, Forget, Goto, Finished
    <2>2. cur[t] \in Actions
      BY <2>1 DEF HasAction
    <2>3. CASE case[cur[t]].by = s
      <3>1. Read(case[cur[t]], t) = case[cur[t]].val /\ Read(case'[cur[t]], t) = case[cur[t]].new
        BY <1>9, <2>1, <2>2, <2>3 DEF Commit, CommitWork, Publish, Unlocked, Read
      <3>2. case[cur[t]].new.version > case[cur[t]].val.version
        BY <2>2, <2>3
      <3>3. /\ case[cur[t]].new.version \in Nat /\ case[cur[t]].val.version \in Nat
            /\ seen[t].case.version \in Nat
        BY <2>2 DEF Row, CaseRow, Loaded
      <3>4. seen[t].case.version <= case[cur[t]].val.version
        BY <2>1, <3>1
      <3>5. QED
        BY <2>1, <3>1, <3>2, <3>3, <3>4
    <2>4. CASE case[cur[t]].by # s
      <3>1. case'[cur[t]] = case[cur[t]]
        BY <1>9, <2>2, <2>4 DEF Commit, CommitWork, Publish
      <3>2. QED
        BY <2>1, <3>1
    <2>5. QED
      BY <2>3, <2>4
  <1>10. ASSUME NEW s \in Sessions, Rollback(s, "dropped") PROVE VersionLoaded'
    <2> SUFFICES ASSUME NEW t \in Sessions,
                        pc'[t] \in {"loaded", "writeCase"} \/ (t \in Executors /\ pc'[t] \in Calling \cup {"begin"})
                 PROVE  /\ pc[t] \in {"loaded", "writeCase"} \/ (t \in Executors /\ pc[t] \in Calling \cup {"begin"})
                        /\ Read(case'[cur'[t]], t) = Read(case[cur[t]], t)
                        /\ seen'[t] = seen[t]
      OBVIOUS
    <2>1. t # s /\ pc'[t] = pc[t] /\ cur'[t] = cur[t] /\ seen'[t] = seen[t]
      BY <1>10 DEF Rollback, Forget, Goto, Finished
    <2>2. cur[t] \in Actions
      BY <2>1 DEF HasAction
    <2>3. QED
      BY <1>10, <2>1, <2>2 DEF Rollback, Undo, Discard, Unlocked, Read
  <1>11. ASSUME NEW a \in Actions, LeaseExpires(a) PROVE VersionLoaded'
    BY <1>11 DEF LeaseExpires, Unlocked, NoOutbox
  <1>12. CASE UNCHANGED <<tables, sessionVars>>
    BY <1>12
  <1>13. QED
    BY <1>1, <1>2, <1>3, <1>4, <1>5, <1>6, <1>7, <1>8, <1>9, <1>10, <1>11, <1>12, StepKinds

\* What a handler relies on stays so until its commit.
LEMMA StepHandlerLocks == IInv /\ [Next]_vars => HandlerLocks'
  <1> SUFFICES ASSUME IInv, [Next]_vars PROVE HandlerLocks'
    OBVIOUS
  <1> USE SessionAssumption DEF IInv, LockDiscipline, TypeInv, HandlerLocks, HandlerRelies,
  NotCreatedYet,
         HoldsLocked, CallsLocked, HandlerIdle, RecoveredUnlocked, CaseStatuses, SucceededDone,
         TypeOK, Confirming, Holds, Sessions, Executors, tables, provider, sessionVars
  <1>1. ASSUME NEW c \in Cycles, Authorize(c) PROVE HandlerLocks'
    <2> SUFFICES ASSUME NEW h \in Handlers, pc'[h] \in Confirming
                 PROVE  HandlerRelies(h)'
      OBVIOUS
    <2>1. c \in Sessions /\ c # h /\ h \in Sessions /\ pc[c] = "idle"
      BY <1>1 DEF Authorize
    <2>2. pc'[h] = pc[h] /\ UNCHANGED <<cur, seen>>
      BY <1>1, <2>1 DEF Authorize, Goto
    <2>3. HandlerRelies(h) /\ ActionOf[h] # ActionOf[c]
      BY <2>1, <2>2
    <2>4. /\ case'[ActionOf[h]] = case[ActionOf[h]] /\ action'[ActionOf[h]] = action[ActionOf[h]]
          /\ outbox'[ActionOf[h]] = outbox[ActionOf[h]]
      BY <1>1, <2>3 DEF Authorize
    <2>5. QED
      BY <2>2, <2>3, <2>4
  <1>2. ASSUME NEW w \in Workers, Claim(w) PROVE HandlerLocks'
    <2> SUFFICES ASSUME NEW h \in Handlers, pc'[h] \in Confirming
                 PROVE  HandlerRelies(h)'
      OBVIOUS
    <2>1. pc'[h] = pc[h] /\ UNCHANGED <<case, action, cur, seen>>
      BY <1>2 DEF Claim, Goto
    <2>2. HandlerRelies(h)
      BY <2>1
    <2>3. ASSUME outbox[ActionOf[h]].val.status = "COMPLETED"
          PROVE  outbox'[ActionOf[h]] = outbox[ActionOf[h]]
      <3>1. ActionOf[h] \in Actions /\ ActionOf[h] \notin Claimable
        BY <2>2, <2>3 DEF Claimable
      <3>2. QED
        BY <1>2, <3>1 DEF Claim, Batches
    <2>4. QED
      BY <2>1, <2>2, <2>3
  <1>3. ASSUME NEW s \in Executors, Preflight(s) PROVE HandlerLocks'
    BY <1>3 DEF Preflight, Goto, Verdict, TerminalStatus
  <1>4. ASSUME NEW s \in Executors, ItemStep(s) PROVE HandlerLocks'
    BY <1>4, ItemStepFrame DEF Touches, Free
  <1>5. ASSUME NEW h \in Handlers, Deliver(h) PROVE HandlerLocks'
    BY <1>5 DEF Deliver, Goto
  <1>6. ASSUME NEW h \in Handlers, LoadCase(h) PROVE HandlerLocks'
    BY <1>6 DEF LoadCase, Goto
  <1>7. ASSUME NEW h \in Handlers, LoadAction(h) PROVE HandlerLocks'
    BY <1>7 DEF LoadAction, Goto
  <1>8. ASSUME NEW h \in Handlers, HandlerStep(h) PROVE HandlerLocks'
    <2>1. /\ \A a \in Actions : Touches(case[a], case'[a], h) /\ Touches(action[a], action'[a], h)
          /\ UNCHANGED <<outbox, cur, seen>>
          /\ \A u \in Sessions \ {h} : pc'[u] = pc[u]
          /\ cur[h] \in Actions /\ h \in Sessions
      BY <1>8, HandlerFrame
    <2>2. \A a \in Actions : case'[a].val = case[a].val
      BY <2>1 DEF Touches
    <2>3. ASSUME NEW g \in Handlers, g # h, NEW a \in Actions
          PROVE  /\ case[a].by = g => case'[a] = case[a]
                 /\ action[a].by = g => action'[a] = action[a]
      BY <2>1, <2>3 DEF Touches, Free
    <2>4. \A g \in Handlers : ActionOf[g] \in Actions
      OBVIOUS
    <2>5. CASE WriteCase(h)
      <3>1. /\ pc[h] = "writeCase" /\ cur[h] = ActionOf[h]
            /\ pc'[h] = (IF seen[h].action # "SUCCEEDED" THEN "writeAction" ELSE "outcome")
            /\ UNCHANGED action
        BY <2>1, <2>5 DEF WriteCase, Goto
      <3>2. case'[cur[h]].by = h /\ case'[cur[h]].new.status = "RECOVERED"
        BY <2>1, <2>5, <3>1 DEF WriteCase, SetCase, Write, CanTransition, ALLOWED_TRANSITIONS
      <3>3. QED
        BY <2>1, <2>2, <2>3, <2>4, <3>1, <3>2
    <2>6. CASE WriteAction(h)
      <3>1. /\ pc[h] = "writeAction" /\ pc'[h] = "outcome" /\ cur[h] = ActionOf[h]
            /\ UNCHANGED case
        BY <2>1, <2>6 DEF WriteAction, Goto
      <3>2. action'[cur[h]].by = h
        BY <2>1, <2>6 DEF WriteAction, SetAction, Write
      <3>3. QED
        BY <2>1, <2>3, <2>4, <3>1, <3>2
    <2>7. CASE WriteOutcome(h)
      <3>1. /\ pc[h] = "outcome" /\ pc'[h] = "commit" /\ cur[h] = ActionOf[h]
            /\ UNCHANGED <<case, action>>
        BY <2>1, <2>7 DEF WriteOutcome, Goto
      <3>2. QED
        BY <2>1, <2>4, <3>1
    <2>8. QED
      BY <1>8, <2>5, <2>6, <2>7 DEF HandlerStep
  <1>9. ASSUME NEW s \in Sessions, Commit(s) PROVE HandlerLocks'
    <2> SUFFICES ASSUME NEW h \in Handlers, pc'[h] \in Confirming
                 PROVE  HandlerRelies(h)'
      BY DEF HandlerRelies
    <2>1. h # s /\ h \in Sessions /\ pc'[s] \notin Confirming
      BY <1>9 DEF Commit, CommitWork, Goto, Finished
    <2>2. pc'[h] = pc[h] /\ cur'[h] = cur[h] /\ seen'[h] = seen[h]
      BY <1>9, <2>1, CommitFrame
    <2>3. /\ case[ActionOf[h]].by # s => case'[ActionOf[h]] = case[ActionOf[h]]
          /\ action[ActionOf[h]].by # s => action'[ActionOf[h]] = action[ActionOf[h]]
          /\ outbox[ActionOf[h]].by # s => outbox'[ActionOf[h]] = outbox[ActionOf[h]]
      BY <1>9, EndFrame
    <2>4. HandlerRelies(h)
      BY <2>2 DEF HandlerRelies
    <2>5. case[ActionOf[h]].val.status = "RECOVERED" => case[ActionOf[h]].by # s
      OBVIOUS
    <2>6. QED
      BY <2>1, <2>2, <2>3, <2>4, <2>5 DEF HandlerRelies
  <1>10. ASSUME NEW s \in Sessions, Rollback(s, "dropped") PROVE HandlerLocks'
    <2> SUFFICES ASSUME NEW h \in Handlers, pc'[h] \in Confirming
                 PROVE  HandlerRelies(h)'
      BY DEF HandlerRelies
    <2>1. h # s /\ h \in Sessions /\ pc'[s] \notin Confirming
      BY <1>10 DEF Rollback, Goto, Finished
    <2>2. pc'[h] = pc[h] /\ cur'[h] = cur[h] /\ seen'[h] = seen[h]
      BY <1>10, <2>1, RollbackFrame
    <2>3. /\ case[ActionOf[h]].by # s => case'[ActionOf[h]] = case[ActionOf[h]]
          /\ action[ActionOf[h]].by # s => action'[ActionOf[h]] = action[ActionOf[h]]
          /\ outbox[ActionOf[h]].by # s => outbox'[ActionOf[h]] = outbox[ActionOf[h]]
      BY <1>10, EndFrame
    <2>4. HandlerRelies(h)
      BY <2>2 DEF HandlerRelies
    <2>5. case[ActionOf[h]].val.status = "RECOVERED" => case[ActionOf[h]].by # s
      OBVIOUS
    <2>6. QED
      BY <2>1, <2>2, <2>3, <2>4, <2>5 DEF HandlerRelies
  <1>11. ASSUME NEW a \in Actions, LeaseExpires(a) PROVE HandlerLocks'
    BY <1>11 DEF LeaseExpires, Unlocked, NoOutbox
  <1>12. CASE UNCHANGED <<tables, sessionVars>>
    BY <1>12 DEF OutcomesOf, Read
  <1>13. QED
    BY <1>1, <1>2, <1>3, <1>4, <1>5, <1>6, <1>7, <1>8, <1>9, <1>10, <1>11, <1>12, StepKinds

\* A commit of SUCCEEDED commits what comes with it.
LEMMA StepSucceededDone == IInv /\ [Next]_vars => SucceededDone'
  <1> SUFFICES ASSUME IInv, [Next]_vars PROVE SucceededDone'
    OBVIOUS
  <1> USE SessionAssumption DEF IInv, LockDiscipline, TypeInv, SucceededDone, NotCreatedYet,
         HoldsLocked, CallsLocked, RecoveredUnlocked, SucceededPending, TypeOK, Unlocked,
         NoAction, Row, Holds, Sessions, Executors, tables, provider, sessionVars
  <1>1. ASSUME NEW c \in Cycles, Authorize(c) PROVE SucceededDone'
    BY <1>1 DEF Authorize, Write, Goto, NoCase, NoOutbox
  <1>2. ASSUME NEW w \in Workers, Claim(w) PROVE SucceededDone'
    <2> SUFFICES ASSUME NEW a \in Actions, action[a].val.status = "SUCCEEDED"
                 PROVE  \/ case[a].val.status = "RECOVERED"
                        \/ outbox'[a].val.status = "COMPLETED" /\ outbox'[a].by = NoTx
      BY <1>2, ClaimFrame
    <2>1. \/ case[a].val.status = "RECOVERED"
          \/ outbox[a].val.status = "COMPLETED" /\ outbox[a].by = NoTx
      OBVIOUS
    <2>2. QED
      BY <1>2, <2>1, ClaimFrame
  <1>3. ASSUME NEW s \in Executors, Preflight(s) PROVE SucceededDone'
    BY <1>3 DEF Preflight, Goto, Verdict, TerminalStatus
  <1>4. ASSUME NEW s \in Executors, ItemStep(s) PROVE SucceededDone'
    <2>1. \A a \in Actions : /\ case'[a].val = case[a].val /\ action'[a].val = action[a].val
                             /\ outbox[a].by = NoTx => outbox'[a] = outbox[a]
      BY <1>4, ItemStepFrame DEF Touches
    <2>2. QED
      BY <2>1 DEF SucceededDone
  <1>5. ASSUME NEW h \in Handlers, Deliver(h) PROVE SucceededDone'
    BY <1>5 DEF Deliver, Goto
  <1>6. ASSUME NEW h \in Handlers, LoadCase(h) PROVE SucceededDone'
    BY <1>6 DEF LoadCase, Goto
  <1>7. ASSUME NEW h \in Handlers, LoadAction(h) PROVE SucceededDone'
    BY <1>7 DEF LoadAction, Goto
  <1>8. ASSUME NEW h \in Handlers, HandlerStep(h) PROVE SucceededDone'
    BY <1>8, HandlerFrame DEF Touches, Free
  <1>9. ASSUME NEW s \in Sessions, Commit(s) PROVE SucceededDone'
    BY <1>9 DEF Commit, CommitWork, Publish, Forget, Finished, Goto
  <1>10. ASSUME NEW s \in Sessions, Rollback(s, "dropped") PROVE SucceededDone'
    BY <1>10 DEF Rollback, Undo, Discard, Forget, Finished, Goto
  <1>11. ASSUME NEW a \in Actions, LeaseExpires(a) PROVE SucceededDone'
    BY <1>11 DEF LeaseExpires, NoOutbox
  <1>12. CASE UNCHANGED <<tables, sessionVars>>
    BY <1>12
  <1>13. QED
    BY <1>1, <1>2, <1>3, <1>4, <1>5, <1>6, <1>7, <1>8, <1>9, <1>10, <1>11, <1>12, StepKinds

\* SUCCEEDED is written with a COMPLETED outbox row or a RECOVERED case.
LEMMA StepSucceededPending == IInv /\ [Next]_vars => SucceededPending'
  <1> SUFFICES ASSUME IInv, [Next]_vars PROVE SucceededPending'
    OBVIOUS
  <1> USE SessionAssumption DEF IInv, LockDiscipline, TypeInv, SucceededPending, NotCreatedYet,
         HoldsLocked, CallsLocked, RecoveredUnlocked, HandlerLocks, HandlerRelies,
         HandlerIdle, TypeOK,
         Unlocked, NoAction, Row, Confirming, Sessions, Executors, tables, provider, sessionVars
  <1>1. ASSUME NEW c \in Cycles, Authorize(c) PROVE SucceededPending'
    BY <1>1 DEF Authorize, Write, Goto, NoCase, NoOutbox
  <1>2. ASSUME NEW w \in Workers, Claim(w) PROVE SucceededPending'
    BY <1>2 DEF Claim, Write, Claimed, Goto, Batches, Claimable
  <1>3. ASSUME NEW s \in Executors, Preflight(s) PROVE SucceededPending'
    BY <1>3 DEF Preflight, Goto, Verdict, TerminalStatus
  <1>4. ASSUME NEW s \in Executors, ItemStep(s) PROVE SucceededPending'
    <2> SUFFICES ASSUME NEW a \in Actions, action'[a].new.status = "SUCCEEDED",
        action'[a].by # NoTx,
                        NEW t, t = action'[a].by
                 PROVE  \/ t \in Executors /\ outbox'[a].by = t /\ outbox'[a].new.status = "COMPLETED"
                        \/ /\ t \in Handlers /\ pc'[t] \in {"outcome", "commit"} /\ cur'[t] = a
                           /\ \/ case'[a].val.status = "RECOVERED"
                              \/ case'[a].by = t /\ case'[a].new.status = "RECOVERED"
      OBVIOUS
    <2>1. /\ Touches(case[a], case'[a], s) /\ Touches(action[a], action'[a], s)
          /\ outbox'[a] # outbox[a] => outbox[a].by = s
          /\ \A u \in Sessions \ {s} : pc'[u] = pc[u] /\ cur'[u] = cur[u]
      BY <1>4, ItemStepFrame
    <2>2. CASE action'[a] # action[a]
      BY <1>4, <2>1, <2>2, ItemStepSucceeded DEF Touches
    <2>3. CASE action'[a] = action[a]
      <3>1. CASE t \in Executors /\ outbox[a].by = t /\ outbox[a].new.status = "COMPLETED"
        BY <1>4, <2>1, <2>3, <3>1, ItemStepSucceeded
      <3>2. CASE t \in Handlers
        <4>1. t # s /\ t # NoTx /\ t \in Sessions
          BY <3>2
        <4>2. /\ pc[t] \in {"outcome", "commit"} /\ cur[t] = a
              /\ \/ case[a].val.status = "RECOVERED"
                 \/ case[a].by = t /\ case[a].new.status = "RECOVERED"
          BY <2>3, <3>2, <4>1
        <4>3. QED
          BY <2>1, <3>2, <4>1, <4>2 DEF Touches, Free
      <3>3. QED
        BY <2>3, <3>1, <3>2
    <2>4. QED
      BY <2>2, <2>3
  <1>5. ASSUME NEW h \in Handlers, Deliver(h) PROVE SucceededPending'
    BY <1>5 DEF Deliver, Goto
  <1>6. ASSUME NEW h \in Handlers, LoadCase(h) PROVE SucceededPending'
    BY <1>6 DEF LoadCase, Goto
  <1>7. ASSUME NEW h \in Handlers, LoadAction(h) PROVE SucceededPending'
    BY <1>7 DEF LoadAction, Goto
  <1>8. ASSUME NEW h \in Handlers, HandlerStep(h) PROVE SucceededPending'
    <2> SUFFICES ASSUME NEW a \in Actions, action'[a].new.status = "SUCCEEDED",
        action'[a].by # NoTx,
                        NEW t, t = action'[a].by
                 PROVE  \/ t \in Executors /\ outbox'[a].by = t /\ outbox'[a].new.status = "COMPLETED"
                        \/ /\ t \in Handlers /\ pc'[t] \in {"outcome", "commit"} /\ cur'[t] = a
                           /\ \/ case'[a].val.status = "RECOVERED"
                              \/ case'[a].by = t /\ case'[a].new.status = "RECOVERED"
      OBVIOUS
    <2>1. /\ Touches(case[a], case'[a], h) /\ Touches(action[a], action'[a], h)
          /\ \A u \in Sessions \ {h} : pc'[u] = pc[u]
          /\ UNCHANGED <<cur, outbox>>
          /\ cur[h] \in Actions
          /\ a # cur[h] => action'[a] = action[a] /\ case'[a] = case[a]
      BY <1>8, HandlerFrame
    <2>2. CASE t # h
      BY <2>1, <2>2 DEF Touches, Free
    <2>3. CASE t = h
      <3>1. h \notin Executors /\ h # NoTx /\ h \in Sessions
        OBVIOUS
      <3>2. action'[a] = action[a] => /\ pc[h] \in {"outcome", "commit"} /\ cur[h] = a
                                      /\ \/ case[a].val.status = "RECOVERED"
                                         \/ case[a].by = h /\ case[a].new.status = "RECOVERED"
        <4> SUFFICES ASSUME action'[a] = action[a]
                     PROVE  /\ pc[h] \in {"outcome", "commit"} /\ cur[h] = a
                            /\ \/ case[a].val.status = "RECOVERED"
                               \/ case[a].by = h /\ case[a].new.status = "RECOVERED"
          OBVIOUS
        <4>1. action[a].by = h /\ action[a].new.status = "SUCCEEDED"
          BY <2>3
        <4>2. QED
          BY <3>1, <4>1
      <3>3. CASE WriteCase(h)
        BY <3>2, <3>3 DEF WriteCase
      <3>4. CASE WriteAction(h)
        <4>1. pc[h] = "writeAction" /\ pc'[h] = "outcome" /\ case' = case
          BY <3>1, <3>4 DEF WriteAction, Goto
        <4>2. cur[h] = ActionOf[h]
          BY <4>1
        <4>3. a = cur[h]
          BY <2>1, <3>2, <4>1
        <4>4. QED
          BY <2>1, <2>3, <4>1, <4>2, <4>3
      <3>5. CASE WriteOutcome(h)
        <4>1. pc'[h] = "commit" /\ case' = case /\ action' = action
          BY <3>1, <3>5 DEF WriteOutcome, Goto
        <4>2. QED
          BY <2>1, <2>3, <3>2, <4>1
      <3>6. QED
        BY <1>8, <3>3, <3>4, <3>5 DEF HandlerStep
    <2>4. QED
      BY <2>2, <2>3
  <1>9. ASSUME NEW s \in Sessions, Commit(s) PROVE SucceededPending'
    <2> SUFFICES ASSUME NEW a \in Actions, action'[a].new.status = "SUCCEEDED",
                        action'[a].by # NoTx,
                        NEW t, t = action'[a].by
                 PROVE  \/ t \in Executors /\ outbox'[a].by = t /\ outbox'[a].new.status = "COMPLETED"
                        \/ /\ t \in Handlers /\ pc'[t] \in {"outcome", "commit"} /\ cur'[t] = a
                           /\ \/ case'[a].val.status = "RECOVERED"
                              \/ case'[a].by = t /\ case'[a].new.status = "RECOVERED"
      OBVIOUS
    <2>1. /\ action'[a] = action[a] /\ t # s
          /\ outbox[a].by # s => outbox'[a] = outbox[a]
          /\ case[a].by # s => case'[a] = case[a]
          /\ \A u \in Sessions \ {s} : pc'[u] = pc[u] /\ cur'[u] = cur[u]
      BY <1>9, EndFrame
    <2>2. CASE t \in Executors /\ outbox[a].by = t /\ outbox[a].new.status = "COMPLETED"
      BY <2>1, <2>2
    <2>3. CASE t \in Handlers
      <3>1. /\ pc[t] \in {"outcome", "commit"} /\ cur[t] = a
            /\ \/ case[a].val.status = "RECOVERED"
               \/ case[a].by = t /\ case[a].new.status = "RECOVERED"
        BY <2>1, <2>3
      <3>2. case[a].by # s
        BY <2>1, <3>1
      <3>3. QED
        BY <2>1, <2>3, <3>1, <3>2
    <2>4. QED
      BY <2>1, <2>2, <2>3
  <1>10. ASSUME NEW s \in Sessions, Rollback(s, "dropped") PROVE SucceededPending'
    <2> SUFFICES ASSUME NEW a \in Actions, action'[a].new.status = "SUCCEEDED",
                        action'[a].by # NoTx,
                        NEW t, t = action'[a].by
                 PROVE  \/ t \in Executors /\ outbox'[a].by = t /\ outbox'[a].new.status = "COMPLETED"
                        \/ /\ t \in Handlers /\ pc'[t] \in {"outcome", "commit"} /\ cur'[t] = a
                           /\ \/ case'[a].val.status = "RECOVERED"
                              \/ case'[a].by = t /\ case'[a].new.status = "RECOVERED"
      OBVIOUS
    <2>1. /\ action'[a] = action[a] /\ t # s
          /\ outbox[a].by # s => outbox'[a] = outbox[a]
          /\ case[a].by # s => case'[a] = case[a]
          /\ \A u \in Sessions \ {s} : pc'[u] = pc[u] /\ cur'[u] = cur[u]
      BY <1>10, EndFrame
    <2>2. CASE t \in Executors /\ outbox[a].by = t /\ outbox[a].new.status = "COMPLETED"
      BY <2>1, <2>2
    <2>3. CASE t \in Handlers
      <3>1. /\ pc[t] \in {"outcome", "commit"} /\ cur[t] = a
            /\ \/ case[a].val.status = "RECOVERED"
               \/ case[a].by = t /\ case[a].new.status = "RECOVERED"
        BY <2>1, <2>3
      <3>2. case[a].by # s
        BY <2>1, <3>1
      <3>3. QED
        BY <2>1, <2>3, <3>1, <3>2
    <2>4. QED
      BY <2>1, <2>2, <2>3
  <1>11. ASSUME NEW a \in Actions, LeaseExpires(a) PROVE SucceededPending'
    BY <1>11 DEF LeaseExpires, NoOutbox
  <1>12. CASE UNCHANGED <<tables, sessionVars>>
    BY <1>12
  <1>13. QED
    BY <1>1, <1>2, <1>3, <1>4, <1>5, <1>6, <1>7, <1>8, <1>9, <1>10, <1>11, <1>12, StepKinds

\* Two writers of an outcome of one Action would need the same lock.
LEMMA StepOutcomePending == IInv /\ [Next]_vars => OutcomePending'
  <1> SUFFICES ASSUME IInv, [Next]_vars PROVE OutcomePending'
    OBVIOUS
  <1> USE SessionAssumption DEF IInv, LockDiscipline, TypeInv, OutcomePending, NotCreatedYet,
         HoldsLocked, CallsLocked, HandlerLocks, HandlerRelies,
         RecoveredUnlocked, RecoveredHasOutcome, TypeOK,
         Unlocked, NoAction, Confirming, Outcome, Sessions, Executors, tables, provider,
         sessionVars
  <1>1. ASSUME NEW c \in Cycles, Authorize(c) PROVE OutcomePending'
    BY <1>1 DEF Authorize, Write, Goto, NoCase, NoOutbox
  <1>2. ASSUME NEW w \in Workers, Claim(w) PROVE OutcomePending'
    BY <1>2 DEF Claim, Write, Claimed, Goto, Batches, Claimable
  <1>3. ASSUME NEW s \in Executors, Preflight(s) PROVE OutcomePending'
    BY <1>3 DEF Preflight, Goto, Verdict, TerminalStatus
  <1>4. ASSUME NEW s \in Executors, ItemStep(s) PROVE OutcomePending'
    <2> USE DEF Holds, OutcomesOf, Touches, Free
    <2>1. /\ s \in Sessions /\ s \notin Handlers /\ s # NoTx
          /\ cur[s] \in Actions /\ outbox[cur[s]].by = s
      BY <1>4, ItemStepAction
    <2>2. /\ \A a \in Actions : /\ Touches(action[a], action'[a], s)
                                /\ outbox'[a] # outbox[a] => outbox[a].by = s /\ outbox'[a].by = s
          /\ outcomes' = outcomes /\ inserted \subseteq inserted'
          /\ \A u \in Sessions \ {s} : pc'[u] = pc[u] /\ cur'[u] = cur[u] /\ seen'[u] = seen[u]
      BY <1>4, ItemStepFrame
    <2>3. ASSUME NEW o \in inserted
          PROVE  \/ o.by \in Executors /\ action'[o.action].by = o.by /\ outbox'[o.action].by = o.by
                 \/ /\ o.by \in Handlers /\ pc'[o.by] = "commit" /\ cur'[o.by] = o.action
                    /\ seen'[o.by].case.status # "RECOVERED"
      BY <2>1, <2>2, <2>3
    <2>4. ASSUME NEW o \in inserted', o \notin inserted
          PROVE  /\ o.by = s /\ o.action = cur[s] /\ action[o.action].by = s
                 /\ \A p \in outcomes : p.action # o.action
                 /\ \A p \in inserted' : p.action = o.action => p = o
      <3>1. /\ o.by = s /\ o.action = cur[s] /\ pc[s] = "result"
            /\ \A p \in outcomes : p.action # o.action
            /\ \A p \in inserted' : p.action = o.action /\ p.by = s => p = o
        BY <1>4, <2>4, ItemStepOutcome
      <3>2. action[cur[s]].by = s
        BY <3>1 DEF Calling
      <3>3. ASSUME NEW p \in inserted, p.action = o.action, p.by # s PROVE FALSE
        <4>1. p.by \notin Executors
          BY <3>1, <3>2, <3>3
        <4>2. /\ p.by \in Handlers /\ pc[p.by] = "commit" /\ cur[p.by] = o.action
              /\ seen[p.by].case.status # "RECOVERED"
          BY <3>3, <4>1
        <4>3. CASE seen[p.by].action # "SUCCEEDED"
          BY <2>1, <3>1, <3>2, <3>3, <4>2, <4>3
        <4>4. CASE seen[p.by].action = "SUCCEEDED"
          BY <2>1, <3>1, <4>2, <4>4
        <4>5. QED
          BY <4>3, <4>4
      <3>4. ASSUME NEW p \in inserted', p \notin inserted PROVE p.by = s
        BY <1>4, <3>4, ItemStepOutcome
      <3>5. QED
        BY <3>1, <3>2, <3>3, <3>4
    <2>5. ASSUME NEW o \in inserted, NEW p \in inserted', p.action = o.action PROVE p = o
      <3>1. CASE p \in inserted
        BY <2>5, <3>1
      <3>2. CASE p \notin inserted
        BY <2>2, <2>4, <2>5, <3>2
      <3>3. QED
        BY <3>1, <3>2
    <2>6. \A o \in inserted' : o \notin inserted => action'[o.action].by = s /\ outbox'[o.action].by = s
      BY <2>1, <2>2, <2>4
    <2>7. QED
      BY <2>2, <2>3, <2>4, <2>5, <2>6 DEF OutcomePending
  <1>5. ASSUME NEW h \in Handlers, Deliver(h) PROVE OutcomePending'
    BY <1>5 DEF Deliver, Goto
  <1>6. ASSUME NEW h \in Handlers, LoadCase(h) PROVE OutcomePending'
    BY <1>6 DEF LoadCase, Goto
  <1>7. ASSUME NEW h \in Handlers, LoadAction(h) PROVE OutcomePending'
    BY <1>7 DEF LoadAction, Goto
  <1>8. ASSUME NEW h \in Handlers, HandlerStep(h) PROVE OutcomePending'
    <2> USE DEF Holds, OutcomesOf, Touches, Free
    <2>1. /\ h \in Sessions /\ h \notin Executors /\ h # NoTx /\ cur[h] = ActionOf[h]
          /\ pc[h] \in {"writeCase", "writeAction", "outcome"}
      BY <1>8 DEF HandlerStep, WriteCase, WriteAction, WriteOutcome
    <2>2. /\ \A a \in Actions : Touches(action[a], action'[a], h)
          /\ UNCHANGED <<outbox, outcomes, cur, seen>> /\ inserted \subseteq inserted'
          /\ \A u \in Sessions \ {h} : pc'[u] = pc[u]
      BY <1>8, HandlerFrame
    <2>3. ASSUME NEW o \in inserted
          PROVE  \/ o.by \in Executors /\ action'[o.action].by = o.by /\ outbox'[o.action].by = o.by
                 \/ /\ o.by \in Handlers /\ pc'[o.by] = "commit" /\ cur'[o.by] = o.action
                    /\ seen'[o.by].case.status # "RECOVERED"
      BY <2>1, <2>2, <2>3
    <2>4. ASSUME NEW o \in inserted', o \notin inserted
          PROVE  /\ o.by = h /\ o.action = cur[h] /\ pc[h] = "outcome" /\ pc'[h] = "commit"
                 /\ OutcomesOf(cur[h], h) = {}
                 /\ \A p \in inserted' : p.action = o.action /\ p.by = h => p = o
      <3>1. WriteOutcome(h)
        BY <1>8, <2>4 DEF HandlerStep, WriteCase, WriteAction
      <3>2. pc[h] = "outcome" /\ pc'[h] = "commit" /\ RecordOutcome(h, cur[h], "RECOVERED")
        BY <2>1, <3>1 DEF WriteOutcome, Goto
      <3>3. QED
        BY <2>4, <3>2, RecordOutcomeInserts
    <2>5. ASSUME NEW o \in inserted', o \notin inserted
          PROVE  /\ seen[h].case.status # "RECOVERED"
                 /\ \A p \in outcomes : p.action # o.action
                 /\ \A p \in inserted : p.action # o.action
      <3>1. \A p \in outcomes : p.action # o.action
        BY <2>4, <2>5
      <3>2. seen[h].case.status # "RECOVERED"
        BY <2>1, <2>4, <2>5, <3>1 DEF RecoveredHasOutcome
      <3>3. ASSUME NEW p \in inserted, p.action = o.action PROVE FALSE
        <4>1. p.by # h
          BY <2>1, <2>4, <2>5, <3>3
        <4>2. CASE p.by \in Executors
          BY <2>1, <2>4, <2>5, <3>2, <3>3, <4>1, <4>2
        <4>3. CASE p.by \in Handlers
          BY <2>1, <2>4, <2>5, <3>2, <3>3, <4>1, <4>3
        <4>4. QED
          BY <4>2, <4>3
      <3>4. QED
        BY <3>1, <3>2, <3>3
    <2>6. QED
      BY <2>1, <2>2, <2>3, <2>4, <2>5 DEF OutcomePending
  <1>9. ASSUME NEW s \in Sessions, Commit(s) PROVE OutcomePending'
    BY <1>9 DEF Commit, CommitWork, Publish, Forget, Finished, Goto
  <1>10. ASSUME NEW s \in Sessions, Rollback(s, "dropped") PROVE OutcomePending'
    BY <1>10 DEF Rollback, Undo, Discard, Forget, Finished, Goto
  <1>11. ASSUME NEW a \in Actions, LeaseExpires(a) PROVE OutcomePending'
    BY <1>11 DEF LeaseExpires, NoOutbox
  <1>12. CASE UNCHANGED <<tables, sessionVars>>
    BY <1>12
  <1>13. QED
    BY <1>1, <1>2, <1>3, <1>4, <1>5, <1>6, <1>7, <1>8, <1>9, <1>10, <1>11, <1>12, StepKinds

\* RECOVERED is written together with an outcome.
LEMMA StepRecoveredPending == IInv /\ [Next]_vars => RecoveredPending'
  <1> SUFFICES ASSUME IInv, [Next]_vars PROVE RecoveredPending'
    OBVIOUS
  <1> USE SessionAssumption DEF IInv, LockDiscipline, TypeInv, RecoveredPending, NotCreatedYet,
         HoldsLocked, CallsLocked, HandlerLocks, HandlerRelies,
         SeenOpen, TypeOK, Unlocked, Confirming,
         Outcome, OutcomesOf, Calling, Sessions, Executors, tables, provider, sessionVars
  <1>1. ASSUME NEW c \in Cycles, Authorize(c) PROVE RecoveredPending'
    BY <1>1 DEF Authorize, Write, Goto, NoCase, NoAction, NoOutbox
  <1>2. ASSUME NEW w \in Workers, Claim(w) PROVE RecoveredPending'
    BY <1>2 DEF Claim, Write, Claimed, Goto, Batches, Claimable
  <1>3. ASSUME NEW s \in Executors, Preflight(s) PROVE RecoveredPending'
    BY <1>3 DEF Preflight, Goto, Verdict, TerminalStatus
  <1>4. ASSUME NEW s \in Executors, ItemStep(s) PROVE RecoveredPending'
    <2> SUFFICES ASSUME NEW a \in Actions, case'[a].by # NoTx, case'[a].new.status = "RECOVERED",
                        NEW t, t = case'[a].by
                 PROVE  \/ OutcomesOf(a, t)' # {}
                        \/ t \in Handlers /\ cur'[t] = a /\ pc'[t] \in {"writeAction", "outcome"}
      BY DEF RecoveredPending
    <2>1. /\ UNCHANGED outcomes /\ inserted \subseteq inserted'
          /\ \A u \in Handlers : pc'[u] = pc[u] /\ cur'[u] = cur[u]
      BY <1>4, ItemStepFrame
    <2>2. CASE case'[a] # case[a]
      <3>1. case'[a].by = s /\ OutcomesOf(a, s)' # {}
        BY <1>4, <2>2, ItemStepCase
      <3>2. QED
        BY <3>1
    <2>3. CASE case'[a] = case[a]
      <3>1. \/ OutcomesOf(a, t) # {}
            \/ t \in Handlers /\ cur[t] = a /\ pc[t] \in {"writeAction", "outcome"}
        BY <2>3
      <3>2. QED
        BY <2>1, <3>1
    <2>4. QED
      BY <2>2, <2>3
  <1>5. ASSUME NEW h \in Handlers, Deliver(h) PROVE RecoveredPending'
    BY <1>5 DEF Deliver, Goto
  <1>6. ASSUME NEW h \in Handlers, LoadCase(h) PROVE RecoveredPending'
    BY <1>6 DEF LoadCase, Goto
  <1>7. ASSUME NEW h \in Handlers, LoadAction(h) PROVE RecoveredPending'
    BY <1>7 DEF LoadAction, Goto
  <1>8. ASSUME NEW h \in Handlers, HandlerStep(h) PROVE RecoveredPending'
    <2> SUFFICES ASSUME NEW a \in Actions, case'[a].by # NoTx, case'[a].new.status = "RECOVERED",
                        NEW t, t = case'[a].by
                 PROVE  \/ OutcomesOf(a, t)' # {}
                        \/ t \in Handlers /\ cur'[t] = a /\ pc'[t] \in {"writeAction", "outcome"}
      BY DEF RecoveredPending
    <2>1. /\ Touches(case[a], case'[a], h) /\ UNCHANGED <<cur, outcomes>> /\ inserted \subseteq inserted'
          /\ \A u \in Sessions \ {h} : pc'[u] = pc[u]
      BY <1>8, HandlerFrame
    <2>2. CASE case'[a] # case[a]
      BY <1>8, <2>1, <2>2, HandlerCase
    <2>3. CASE case'[a] = case[a] /\ OutcomesOf(a, t) # {}
      BY <2>1, <2>3
    <2>4. CASE case'[a] = case[a] /\ t \in Handlers /\ cur[t] = a /\ pc[t] \in {"writeAction", "outcome"}
      <3>1. CASE t # h
        BY <2>1, <2>4, <3>1
      <3>2. CASE t = h /\ WriteAction(h)
        BY <2>1, <2>4, <3>2 DEF WriteAction, Goto
      <3>3. CASE t = h /\ WriteOutcome(h)
        BY <2>4, <3>3, RecordOutcomeRecords DEF WriteOutcome
      <3>4. QED
        BY <1>8, <2>4, <3>1, <3>2, <3>3 DEF HandlerStep, WriteCase
    <2>5. QED
      BY <2>2, <2>3, <2>4
  <1>9. ASSUME NEW s \in Sessions, Commit(s) PROVE RecoveredPending'
    <2> SUFFICES ASSUME NEW a \in Actions, case'[a].by # NoTx, case'[a].new.status = "RECOVERED",
                        NEW t, t = case'[a].by
                 PROVE  \/ OutcomesOf(a, t)' # {}
                        \/ t \in Handlers /\ cur'[t] = a /\ pc'[t] \in {"writeAction", "outcome"}
      BY DEF RecoveredPending
    <2>1. /\ case'[a] = case[a] /\ t # s
          /\ outcomes \subseteq outcomes' /\ \A o \in inserted : o.by # s => o \in inserted'
          /\ \A u \in Sessions \ {s} : pc'[u] = pc[u] /\ cur'[u] = cur[u]
      BY <1>9, EndFrame
    <2>2. \/ OutcomesOf(a, t) # {}
          \/ t \in Handlers /\ cur[t] = a /\ pc[t] \in {"writeAction", "outcome"}
      BY <2>1
    <2>3. CASE OutcomesOf(a, t) # {}
      BY <2>1, <2>3
    <2>4. CASE t \in Handlers /\ cur[t] = a /\ pc[t] \in {"writeAction", "outcome"}
      BY <2>1, <2>4
    <2>5. QED
      BY <2>2, <2>3, <2>4
  <1>10. ASSUME NEW s \in Sessions, Rollback(s, "dropped") PROVE RecoveredPending'
    <2> SUFFICES ASSUME NEW a \in Actions, case'[a].by # NoTx, case'[a].new.status = "RECOVERED",
                        NEW t, t = case'[a].by
                 PROVE  \/ OutcomesOf(a, t)' # {}
                        \/ t \in Handlers /\ cur'[t] = a /\ pc'[t] \in {"writeAction", "outcome"}
      BY DEF RecoveredPending
    <2>1. /\ case'[a] = case[a] /\ t # s
          /\ outcomes \subseteq outcomes' /\ \A o \in inserted : o.by # s => o \in inserted'
          /\ \A u \in Sessions \ {s} : pc'[u] = pc[u] /\ cur'[u] = cur[u]
      BY <1>10, EndFrame
    <2>2. \/ OutcomesOf(a, t) # {}
          \/ t \in Handlers /\ cur[t] = a /\ pc[t] \in {"writeAction", "outcome"}
      BY <2>1
    <2>3. CASE OutcomesOf(a, t) # {}
      BY <2>1, <2>3
    <2>4. CASE t \in Handlers /\ cur[t] = a /\ pc[t] \in {"writeAction", "outcome"}
      BY <2>1, <2>4
    <2>5. QED
      BY <2>2, <2>3, <2>4
  <1>11. ASSUME NEW a \in Actions, LeaseExpires(a) PROVE RecoveredPending'
    BY <1>11 DEF LeaseExpires, NoOutbox
  <1>12. CASE UNCHANGED <<tables, sessionVars>>
    BY <1>12 DEF OutcomesOf, Read
  <1>13. QED
    BY <1>1, <1>2, <1>3, <1>4, <1>5, <1>6, <1>7, <1>8, <1>9, <1>10, <1>11, <1>12, StepKinds

\* A commit of RECOVERED finds or commits an outcome.
LEMMA StepRecoveredHasOutcome == IInv /\ [Next]_vars => RecoveredHasOutcome'
  <1> SUFFICES ASSUME IInv, [Next]_vars PROVE RecoveredHasOutcome'
    OBVIOUS
  <1> USE SessionAssumption DEF IInv, LockDiscipline, TypeInv, RecoveredHasOutcome,
         RecoveredPending, NotCreatedYet, HoldsLocked, CallsLocked, HandlerLocks, HandlerRelies,
         TypeOK,
         Sessions, Executors, tables, provider, sessionVars
  <1>1. ASSUME NEW c \in Cycles, Authorize(c) PROVE RecoveredHasOutcome'
    BY <1>1 DEF Authorize, Write, Goto, Unlocked, NoCase, NoAction, NoOutbox, Row
  <1>2. ASSUME NEW w \in Workers, Claim(w) PROVE RecoveredHasOutcome'
    BY <1>2 DEF Claim, Write, Claimed, Goto, Batches, Claimable
  <1>3. ASSUME NEW s \in Executors, Preflight(s) PROVE RecoveredHasOutcome'
    BY <1>3 DEF Preflight, Goto, Verdict, TerminalStatus
  <1>4. ASSUME NEW s \in Executors, ItemStep(s) PROVE RecoveredHasOutcome'
    <2>1. /\ \A a \in Actions : case'[a].val = case[a].val
          /\ outcomes' = outcomes
      BY <1>4, ItemStepFrame DEF Touches
    <2>2. QED
      BY <2>1 DEF RecoveredHasOutcome
  <1>5. ASSUME NEW h \in Handlers, Deliver(h) PROVE RecoveredHasOutcome'
    BY <1>5 DEF Deliver, Goto
  <1>6. ASSUME NEW h \in Handlers, LoadCase(h) PROVE RecoveredHasOutcome'
    BY <1>6 DEF LoadCase, Goto
  <1>7. ASSUME NEW h \in Handlers, LoadAction(h) PROVE RecoveredHasOutcome'
    BY <1>7 DEF LoadAction, Goto
  <1>8. ASSUME NEW h \in Handlers, HandlerStep(h) PROVE RecoveredHasOutcome'
    BY <1>8, HandlerFrame DEF Touches, Free
  <1>9. ASSUME NEW s \in Sessions, Commit(s) PROVE RecoveredHasOutcome'
    <2> SUFFICES ASSUME NEW a \in Actions, case'[a].val.status = "RECOVERED"
                 PROVE  \E o \in outcomes' : o.action = a
      BY DEF RecoveredHasOutcome
    <2>1. outcomes' = outcomes \cup {o \in inserted : o.by = s}
      BY <1>9 DEF Commit, CommitWork
    <2>2. CASE case[a].by = s
      <3>1. case[a].new.status = "RECOVERED" /\ s # NoTx
        BY <1>9, <2>2 DEF Commit, CommitWork, Publish, Unlocked
      <3>2. pc[s] \notin {"writeAction", "outcome"}
        BY <1>9 DEF Commit
      <3>3. OutcomesOf(a, s) # {}
        BY <2>2, <3>1, <3>2
      <3>4. QED
        BY <2>1, <3>3 DEF OutcomesOf
    <2>3. CASE case[a].by # s
      <3>1. case'[a] = case[a]
        BY <1>9, <2>3 DEF Commit, CommitWork, Publish
      <3>2. QED
        BY <2>1, <3>1
    <2>4. QED
      BY <2>2, <2>3
  <1>10. ASSUME NEW s \in Sessions, Rollback(s, "dropped") PROVE RecoveredHasOutcome'
    BY <1>10 DEF Rollback, Undo, Discard, Unlocked, Forget, Finished, Goto
  <1>11. ASSUME NEW a \in Actions, LeaseExpires(a) PROVE RecoveredHasOutcome'
    BY <1>11 DEF LeaseExpires, Unlocked, NoOutbox
  <1>12. CASE UNCHANGED <<tables, sessionVars>>
    BY <1>12
  <1>13. QED
    BY <1>1, <1>2, <1>3, <1>4, <1>5, <1>6, <1>7, <1>8, <1>9, <1>10, <1>11, <1>12, StepKinds

\* A commit adds a pending outcome where none is committed.
LEMMA StepAtMostOneOutcome == IInv /\ [Next]_vars => AtMostOneOutcome'
  <1> SUFFICES ASSUME IInv, [Next]_vars PROVE AtMostOneOutcome'
    OBVIOUS
  <1> USE SessionAssumption DEF IInv, LockDiscipline, TypeInv, AtMostOneOutcome, OutcomePending,
         HoldsLocked, CallsLocked, TypeOK, Outcome, Sessions, Executors, tables, provider,
         sessionVars
  <1>1. ASSUME NEW c \in Cycles, Authorize(c) PROVE AtMostOneOutcome'
    BY <1>1 DEF Authorize, Write, Goto, Unlocked, NoCase, NoAction, NoOutbox
  <1>2. ASSUME NEW w \in Workers, Claim(w) PROVE AtMostOneOutcome'
    BY <1>2 DEF Claim, Write, Claimed, Goto, Batches, Claimable
  <1>3. ASSUME NEW s \in Executors, Preflight(s) PROVE AtMostOneOutcome'
    BY <1>3 DEF Preflight, Goto, Verdict, TerminalStatus
  <1>4. ASSUME NEW s \in Executors, ItemStep(s) PROVE AtMostOneOutcome'
    BY <1>4, ItemStepFrame DEF Touches, Free
  <1>5. ASSUME NEW h \in Handlers, Deliver(h) PROVE AtMostOneOutcome'
    BY <1>5 DEF Deliver, Goto
  <1>6. ASSUME NEW h \in Handlers, LoadCase(h) PROVE AtMostOneOutcome'
    BY <1>6 DEF LoadCase, Goto
  <1>7. ASSUME NEW h \in Handlers, LoadAction(h) PROVE AtMostOneOutcome'
    BY <1>7 DEF LoadAction, Goto
  <1>8. ASSUME NEW h \in Handlers, HandlerStep(h) PROVE AtMostOneOutcome'
    BY <1>8, HandlerFrame DEF Touches, Free
  <1>9. ASSUME NEW s \in Sessions, Commit(s) PROVE AtMostOneOutcome'
    BY <1>9 DEF Commit, CommitWork, Publish, Unlocked, Forget, Finished, Goto
  <1>10. ASSUME NEW s \in Sessions, Rollback(s, "dropped") PROVE AtMostOneOutcome'
    BY <1>10 DEF Rollback, Undo, Discard, Unlocked, Forget, Finished, Goto
  <1>11. ASSUME NEW a \in Actions, LeaseExpires(a) PROVE AtMostOneOutcome'
    BY <1>11 DEF LeaseExpires, Unlocked, NoOutbox
  <1>12. CASE UNCHANGED <<tables, sessionVars>>
    BY <1>12
  <1>13. QED
    BY <1>1, <1>2, <1>3, <1>4, <1>5, <1>6, <1>7, <1>8, <1>9, <1>10, <1>11, <1>12, StepKinds

-----------------------------------------------------------------------------
(* The theorems. *)

\* The discipline holds initially: nothing is created and nobody is active.
LEMMA InitInv == Init => IInv
  <1> SUFFICES ASSUME Init PROVE IInv
    OBVIOUS
  <1>1. TypeInv
    BY InitType DEF Init, TypeInv, HasAction
  <1>2. LockDiscipline
    BY SessionAssumption
       DEF Init, LockDiscipline, HoldsLocked, Holds, CallsLocked, Calling, NotCreatedYet,
           CaseStatuses, VersionRaised, VersionLoaded, SeenOpen, RecoveredUnlocked, HandlerIdle,
           HandlerLocks, Confirming, SucceededDone, SucceededPending, OutcomePending,
           RecoveredPending, Unlocked, NoCase, NoAction, Sessions, Executors
  <1>3. RecoveredHasOutcome /\ AtMostOneOutcome
    BY DEF Init, RecoveredHasOutcome, AtMostOneOutcome, Unlocked, NoCase
  <1>4. QED
    BY <1>1, <1>2, <1>3 DEF IInv

\* Every step keeps it.
LEMMA StepInv == IInv /\ [Next]_vars => IInv'
  <1>1. IInv /\ [Next]_vars => TypeInv'
    BY StepType DEF IInv
  <1>2. IInv /\ [Next]_vars => LockDiscipline'
    BY StepHoldsLocked, StepCallsLocked, StepNotCreatedYet, StepCaseStatuses, StepVersionRaised,
       StepVersionLoaded, StepSeenOpen, StepRecoveredUnlocked, StepHandlerIdle, StepHandlerLocks,
       StepSucceededDone, StepSucceededPending, StepOutcomePending, StepRecoveredPending
       DEF LockDiscipline
  <1>3. QED
    BY <1>1, <1>2, StepRecoveredHasOutcome, StepAtMostOneOutcome DEF IInv

LEMMA Inductive == Spec => []IInv
  BY InitInv, StepInv, PTL DEF Spec

\* Every executor, cycle and handler keeps the lock discipline, wherever
\* sessions are rolled back or lost.
THEOREM Disciplined == Spec => []LockDiscipline
  <1>1. IInv => LockDiscipline
    BY DEF IInv
  <1>2. QED
    BY <1>1, Inductive, PTL

\* Never are two executors at work on one item: the outbox row that each would
\* hold has one holder.
THEOREM ItemsHaveOneExecutor == Spec => []OneExecutor
  <1>1. IInv => OneExecutor
    BY DEF IInv, LockDiscipline, HoldsLocked, OneExecutor
  <1>2. QED
    BY <1>1, Inductive, PTL

\* No interleaving of pollers, cycles and handlers, with rollbacks wherever
\* they fall, commits a second outcome of an Action.
THEOREM ActionsHaveOneOutcome == Spec => []AtMostOneOutcome
  <1>1. IInv => AtMostOneOutcome
    BY DEF IInv
  <1>2. QED
    BY <1>1, Inductive, PTL

\* A case that is committed as RECOVERED has an outcome.
THEOREM RecoveredCasesHaveOutcome == Spec => []RecoveredHasOutcome
  <1>1. IInv => RecoveredHasOutcome
    BY DEF IInv
  <1>2. QED
    BY <1>1, Inductive, PTL

\* The row of a recovered case never changes again: whoever loaded it earlier
\* has an old version, whoever loads it later does not write it.
THEOREM RecoveredCasesAreFinal == Spec => RecoveredIsFinal
  <1>1. IInv /\ [Next]_vars =>
            [\A a \in Actions :
                case[a].val.status = "RECOVERED" => case'[a].val = case[a].val]_vars
    <2> SUFFICES ASSUME IInv, Next, NEW a \in Actions, case[a].val.status = "RECOVERED"
                 PROVE  case'[a].val = case[a].val
      OBVIOUS
    <2> USE SessionAssumption
            DEF IInv, TypeInv, LockDiscipline, NotCreatedYet, RecoveredUnlocked, tables, provider,
                sessionVars
    <2>1. ASSUME NEW c \in Cycles, Authorize(c) PROVE case'[a].val = case[a].val
      BY <2>1 DEF Authorize, Unlocked, NoCase, TypeOK
    <2>2. ASSUME NEW w \in Workers, Claim(w) PROVE case'[a].val = case[a].val
      BY <2>2 DEF Claim
    <2>3. ASSUME NEW s \in Executors, Preflight(s) \/ ItemStep(s) PROVE case'[a].val = case[a].val
      BY <2>3, ItemStepFrame DEF Preflight, Touches
    <2>4. ASSUME NEW h \in Handlers, Deliver(h) \/ LoadCase(h) \/ LoadAction(h) \/ HandlerStep(h)
          PROVE  case'[a].val = case[a].val
      BY <2>4, HandlerFrame DEF Deliver, LoadCase, LoadAction, Touches
    <2>5. ASSUME NEW s \in Sessions, Commit(s) \/ Rollback(s, "dropped")
          PROVE  case'[a].val = case[a].val
      <3>1. case[a].by # s
        BY DEF Sessions
      <3>2. a \in DOMAIN case
        BY DEF TypeOK
      <3>3. case' \in {Publish(case, s), Discard(case, s)}
        BY <2>5 DEF Commit, CommitWork, Rollback, Undo
      <3>4. QED
        BY <3>1, <3>2, <3>3 DEF Publish, Discard
    <2>6. ASSUME NEW b \in Actions, LeaseExpires(b) PROVE case'[a].val = case[a].val
      BY <2>6 DEF LeaseExpires
    <2>7. CASE UNCHANGED <<tables, sessionVars>>
      BY <2>7
    <2>8. QED
      BY <2>1, <2>2, <2>3, <2>4, <2>5, <2>6, <2>7, StepKinds
  <1>2. QED
    BY <1>1, Inductive, PTL DEF Spec, RecoveredIsFinal

=============================================================================
