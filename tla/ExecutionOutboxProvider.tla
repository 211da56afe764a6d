----------------------- MODULE ExecutionOutboxProvider -----------------------
(***************************************************************************)
(* What the rows of an executed Action say is backed by the provider: a    *)
(* recovered case by a payment, a completed item by a link.  No two        *)
(* attempts of an Action carry one number.  And the Action and its outbox  *)
(* row agree after every commit.                                           *)
(***************************************************************************)
EXTENDS ExecutionOutboxProofs

PInv ==
    /\ IInv
    /\ PaymentBehind /\ LinkBehind
    /\ AttemptsCounted
    /\ ItemsOnce /\ ItemsAgreePending

-----------------------------------------------------------------------------
(* Links and payments are never taken back.                                *)

LEMMA ProviderKeeps ==
    ASSUME [Next]_vars
    PROVE  links \subseteq links' /\ paid \subseteq paid'
  BY DEF Next, vars, provider, Authorize, Claim, LeaseExpires, Execute, Preflight, Block, Begin,
         RequestError, Dispatch, LinkReady, Rejected, Ambiguous, LinkCreated, LinkPaid,
         ExecutionFailed, ExecutionUnknown, Reconcile, Deliver, Handle, LoadCase, LoadAction,
         WriteCase, WriteAction, WriteOutcome, Finish, Commit, StaleData, DeadlockVictim, Crash,
         Pay, SetExecutionEnabled

\* A link made, or found paid, is one of the Action that was asked for.
LEMMA DispatchAnswer ==
    ASSUME TypeInv, NEW s \in Executors, Dispatch(s)
    PROVE  /\ cur[s] \in Actions /\ cur'[s] = cur[s] /\ pc'[s] = "result"
           /\ res'[s] \in {"created", "paid"} => \E l \in links' : l.action = cur[s]
           /\ res'[s] = "paid" => \E l \in paid : l.action = cur[s]
           /\ \A t \in Sessions \ {s} : res'[t] = res[t]
           /\ UNCHANGED <<case, action, outbox, outcomes, inserted, paid>>
  <1> DEFINE key == IdempotencyKey(cur[s])
  <1>1. s \in Sessions /\ cur[s] \in Actions /\ key.action = cur[s]
    BY DEF TypeInv, Dispatch, HasAction, Executors, Sessions, IdempotencyKey
  <1>2. res \in [Sessions -> Answer] /\ pc \in [Sessions -> Label]
    BY DEF TypeInv, TypeOK
  <1>3. cur'[s] = cur[s] /\ pc'[s] = "result"
        /\ UNCHANGED <<case, action, outbox, outcomes, inserted, paid>>
    BY <1>1, <1>2 DEF Dispatch, Goto, tables
  <1>4. CASE LinkReady(s, key)
    BY <1>1, <1>2, <1>3, <1>4 DEF LinkReady
  <1>5. CASE Rejected(s, key) \/ Ambiguous(s, key)
    BY <1>1, <1>2, <1>3, <1>5 DEF Rejected, Ambiguous
  <1>6. QED
    BY <1>4, <1>5 DEF Dispatch

-----------------------------------------------------------------------------
(* A payment behind every recovery.                                        *)

\* What an executor writes about a recovery comes from an answer "paid".
LEMMA ItemStepPaid ==
    ASSUME TypeInv, SeenOpen, CallsLocked, NEW s \in Executors, ItemStep(s)
    PROVE  /\ \A a \in Actions : case'[a] # case[a] /\ case'[a].new.status = "RECOVERED" =>
                 a = cur[s] /\ pc[s] = "result" /\ res[s] = "paid"
           /\ \A o \in inserted' : o \notin inserted /\ o.status = "RECOVERED" =>
                 o.action = cur[s] /\ pc[s] = "result" /\ res[s] = "paid"
           /\ pc'[s] = "result" => Dispatch(s)
  <1> USE DEF TypeInv, Calling
  <1>1. s \in Sessions /\ cur[s] \in Actions /\ pc \in [Sessions -> Label]
    BY ItemStepAction DEF TypeOK
  <1>2. CASE LinkPaid(s)
    BY <1>1, <1>2 DEF LinkPaid, SetCase, RecordOutcome, NextItem, Goto, TypeOK
  <1>3. CASE LinkCreated(s)
    <2>1. /\ seen[s].case.status # "RECOVERED"
          /\ inserted' = inserted /\ pc'[s] = "next"
      BY <1>1, <1>3 DEF SeenOpen, LinkCreated, NextItem, Goto
    <2>2. \A a \in Actions : case'[a] # case[a] => case'[a].new.status = seen[s].case.status
      BY <1>1, <1>3 DEF LinkCreated, SetCase, Write, TypeOK
    <2>3. QED
      BY <2>1, <2>2
  <1>4. CASE ExecutionFailed(s) \/ ExecutionUnknown(s)
    BY <1>1, <1>4 DEF ExecutionFailed, ExecutionUnknown, RecordOutcome, NextItem, Goto
  <1>5. CASE Block(s) \/ Begin(s) \/ RequestError(s) \/ Reconcile(s)
    BY <1>1, <1>5 DEF Block, Begin, RequestError, Reconcile, NextItem, Goto, tables
  <1>6. CASE Dispatch(s)
    BY <1>6, DispatchAnswer
  <1>7. QED
    BY <1>2, <1>3, <1>4, <1>5, <1>6 DEF ItemStep

LEMMA StepPaymentBehind == PInv /\ [Next]_vars => PaymentBehind'
  <1> SUFFICES ASSUME PInv, [Next]_vars PROVE PaymentBehind'
    OBVIOUS
  <1>p. \A a : PaidFor(a) => PaidFor(a)'
    BY ProviderKeeps DEF PaidFor
  <1> USE SessionAssumption
      DEF PInv, IInv, LockDiscipline, TypeInv, PaymentBehind, TypeOK, Active, Sessions, Executors,
          tables, provider, sessionVars
  <1>1. ASSUME NEW c \in Cycles, Authorize(c) PROVE PaymentBehind'
    BY <1>1, <1>p DEF Authorize, Write, Goto
  <1>2. ASSUME NEW w \in Workers, Claim(w) PROVE PaymentBehind'
    BY <1>2, <1>p DEF Claim, Goto
  <1>3. ASSUME NEW s \in Executors, Preflight(s) PROVE PaymentBehind'
    BY <1>3, <1>p DEF Preflight, Goto, Verdict
  <1>4. ASSUME NEW s \in Executors, ItemStep(s) PROVE PaymentBehind'
    <2>1. /\ \A a \in Actions : case'[a].val = case[a].val
          /\ outcomes' = outcomes
          /\ \A t \in Sessions \ {s} : pc'[t] = pc[t] /\ cur'[t] = cur[t] /\ res'[t] = res[t]
      BY <1>4, ItemStepFrame DEF Touches
    <2>2. /\ \A a \in Actions : case'[a] # case[a] /\ case'[a].new.status = "RECOVERED" =>
                 PaidFor(a)
          /\ \A o \in inserted' : o \notin inserted /\ o.status = "RECOVERED" => PaidFor(o.action)
      BY <1>4, ItemStepPaid
    <2>3. pc'[s] = "result" /\ res'[s] = "paid" => PaidFor(cur[s])'
      BY <1>4, ItemStepPaid, DispatchAnswer DEF PaidFor
    <2>4. QED
      BY <1>p, <2>1, <2>2, <2>3
  <1>5. ASSUME NEW h \in Handlers, Deliver(h) PROVE PaymentBehind'
    BY <1>5, <1>p DEF Deliver, Goto, PaidFor
  <1>6. ASSUME NEW h \in Handlers, LoadCase(h) PROVE PaymentBehind'
    BY <1>6, <1>p DEF LoadCase, Goto
  <1>7. ASSUME NEW h \in Handlers, LoadAction(h) PROVE PaymentBehind'
    BY <1>7, <1>p DEF LoadAction, Goto
  <1>8. ASSUME NEW h \in Handlers, HandlerStep(h) PROVE PaymentBehind'
    <2>1. Active(h) /\ cur[h] = ActionOf[h]
      BY <1>8 DEF HandlerStep, WriteCase, WriteAction, WriteOutcome, HandlerLocks, HandlerRelies,
         Confirming
    <2>2. PaidFor(cur[h])
      BY <2>1
    <2>3. /\ \A a \in Actions \ {cur[h]} : case'[a] = case[a]
          /\ \A a \in Actions : case'[a].val = case[a].val
          /\ \A o \in inserted' : o \in inserted \/ o.action = cur[h]
          /\ \A t \in Sessions \ {h} : pc'[t] = pc[t]
          /\ UNCHANGED <<outcomes, cur, res>>
      BY <1>8, HandlerFrame DEF Touches
    <2>4. QED
      BY <1>p, <2>1, <2>2, <2>3
  <1>9. ASSUME NEW s \in Sessions, Commit(s) PROVE PaymentBehind'
    BY <1>9, <1>p DEF Commit, CommitWork, Publish, Unlocked, Forget, Finished, Goto
  <1>10. ASSUME NEW s \in Sessions, Rollback(s, "dropped") PROVE PaymentBehind'
    BY <1>10, <1>p DEF Rollback, Undo, Discard, Unlocked, Forget, Finished, Goto
  <1>11. ASSUME NEW a \in Actions, LeaseExpires(a) PROVE PaymentBehind'
    BY <1>11, <1>p DEF LeaseExpires
  <1>12. CASE UNCHANGED <<tables, sessionVars>>
    BY <1>12, <1>p
  <1>13. QED
    BY <1>1, <1>2, <1>3, <1>4, <1>5, <1>6, <1>7, <1>8, <1>9, <1>10, <1>11, <1>12, StepKinds

-----------------------------------------------------------------------------
(* A link behind every completed item.                                     *)

\* The attempts an Action's row shows after it is written: the one that was
\* under way, if any, has a new status, the others stay.
LEMMA ExecutedAttempts ==
    ASSUME TypeInv, NEW s \in Sessions, NEW a \in Actions, NEW status, SetExecuted(a, s, status)
    PROVE  /\ action'[a].val = action[a].val /\ action'[a].by = s
           /\ action'[a].new.attempts =
                 [Read(action[a], s).attempts EXCEPT ![Read(outbox[a], s).tries] = status]
           /\ \A b \in Actions \ {a} : action'[b] = action[b]
           /\ Read(action[a], s).attempts \in AttemptRows
           /\ Read(outbox[a], s).tries \in Tries
  <1>1. action[a] \in Row(ActionRow) /\ outbox[a] \in Row(OutboxRow)
    BY DEF TypeInv, TypeOK
  <1>2. Read(action[a], s).attempts \in AttemptRows /\ Read(outbox[a], s).tries \in Tries
    BY <1>1 DEF Read, Row, ActionRow, OutboxRow
  <1>3. /\ action'[a].val = action[a].val /\ action'[a].by = s
        /\ action'[a].new.attempts =
              [Read(action[a], s).attempts EXCEPT ![Read(outbox[a], s).tries] = status]
        /\ \A b \in Actions \ {a} : action'[b] = action[b]
    BY DEF SetExecuted, Write, TypeInv, TypeOK
  <1>4. QED
    BY <1>2, <1>3 DEF AttemptRows

\* What an executor reads of its item is backed by a link like the committed
\* row.
LEMMA ReadLink ==
    ASSUME LinkBehind, NEW s, NEW a \in Actions, NEW n \in Tries,
           Read(action[a], s).attempts[n] = "SUCCEEDED"
    PROVE  LinkFor(a)
  BY DEF LinkBehind, Read

\* An executor writes SUCCEEDED or COMPLETED with an answer that names a link.
LEMMA ItemStepLink ==
    ASSUME TypeInv, LinkBehind, HoldsLocked, NEW s \in Executors, ItemStep(s)
    PROVE  /\ \A a \in Actions :
                 outbox'[a] # outbox[a] /\ outbox'[a].new.status = "COMPLETED" => LinkFor(a)
           /\ \A a \in Actions, n \in Tries :
                 action'[a] # action[a] /\ action'[a].new.attempts[n] = "SUCCEEDED" => LinkFor(a)
           /\ pc'[s] = "result" => Dispatch(s)
           /\ pc'[s] # "block"
  <1> USE DEF TypeInv
  <1>1. s \in Sessions /\ cur[s] \in Actions /\ pc \in [Sessions -> Label]
    BY ItemStepAction DEF TypeOK
  <1> DEFINE a == cur[s]
  <1>2. \A b \in Actions \ {a} : action'[b] = action[b] /\ outbox'[b] = outbox[b]
    BY ItemStepEffect
  <1>3. outbox[a] \in Row(OutboxRow) /\ Read(outbox[a], s) \in OutboxRow
    BY <1>1 DEF TypeOK, Row, Read
  <1>4. CASE LinkFor(a) /\ ~Dispatch(s)
    <2>1. pc'[s] \notin {"result", "block"}
      BY <1>1, <1>4 DEF ItemStep, Block, Begin, RequestError, LinkCreated, LinkPaid,
         ExecutionFailed, ExecutionUnknown, Reconcile, NextItem, Goto
    <2>2. QED
      BY <1>2, <1>4, <2>1
  <1>5. CASE Dispatch(s)
    <2>1. UNCHANGED <<action, outbox>> /\ pc'[s] = "result"
      BY <1>5, DispatchAnswer
    <2>2. QED
      BY <1>5, <2>1
  <1>6. CASE ~LinkFor(a) /\ ~Dispatch(s)
    <2>1. ~LinkCreated(s) /\ ~LinkPaid(s)
      BY <1>6 DEF LinkBehind, LinkCreated, LinkPaid
    <2>2. CASE Block(s)
      <3>1. res[s] # "SUCCEEDED" /\ pc'[s] = "next"
        BY <1>1, <1>6, <2>2 DEF LinkBehind, Block, NextItem, Goto
      <3>2. outbox'[a].new.status = "FAILED"
        BY <1>1, <1>3, <2>2, <3>1 DEF Block, SetOutbox, Write, OutboxAfter, TypeOK, OutboxRow
      <3>3. action'[a].new.attempts = Read(action[a], s).attempts
        BY <1>1, <2>2 DEF Block, SetAction, Write, TypeOK, Row, ActionRow, Read
      <3>4. QED
        BY <1>2, <1>6, <3>1, <3>2, <3>3, ReadLink
    <2>3. CASE \/ Begin(s) \/ ExecutionFailed(s) \/ ExecutionUnknown(s)
               \/ Reconcile(s) /\ (SetExecuted(a, s, "FAILED") \/ UNCHANGED <<action, outbox>>)
      <3>1. /\ \/ \E status \in {"EXECUTING", "FAILED", "UNKNOWN"} : SetExecuted(a, s, status)
               \/ UNCHANGED <<action, outbox>>
            /\ pc'[s] \notin {"result", "block"}
        BY <1>1, <2>3 DEF Begin, ExecutionFailed, ExecutionUnknown, Reconcile, NextItem, Goto
      <3>2. ASSUME NEW n \in Tries, action'[a] # action[a],
                   action'[a].new.attempts[n] = "SUCCEEDED"
            PROVE  LinkFor(a)
        <4>1. PICK status \in {"EXECUTING", "FAILED", "UNKNOWN"} : SetExecuted(a, s, status)
          BY <3>1, <3>2
        <4>2. /\ action'[a].new.attempts =
                    [Read(action[a], s).attempts EXCEPT ![Read(outbox[a], s).tries] = status]
              /\ Read(action[a], s).attempts \in AttemptRows
          BY <1>1, <4>1, ExecutedAttempts
        <4>3. Read(action[a], s).attempts[n] = "SUCCEEDED"
          BY <3>2, <4>2 DEF AttemptRows
        <4>4. QED
          BY <1>1, <4>3, ReadLink
      <3>3. outbox'[a] = outbox[a] \/ outbox'[a].new.status \in {"FAILED", "DEAD_LETTERED"}
        <4>1. CASE ExecutionFailed(s)
          BY <1>1, <1>3, <4>1 DEF ExecutionFailed, SetOutbox, Write, TypeOK, OutboxRow
        <4>2. CASE Begin(s) \/ ExecutionUnknown(s)
          BY <4>2 DEF Begin, ExecutionUnknown
        <4>3. CASE Reconcile(s) /\ (SetExecuted(a, s, "FAILED") \/ UNCHANGED <<action, outbox>>)
          <5>1. ~(\E l \in links : l.action = a)
            BY <1>6 DEF LinkFor
          <5>2. SetOutbox(a, s, "FAILED") \/ UNCHANGED <<action, outbox>>
            BY <4>3, <5>1 DEF Reconcile
          <5>3. QED
            BY <1>1, <1>3, <5>2 DEF SetOutbox, Write, TypeOK, OutboxRow
        <4>4. QED
          BY <2>3, <4>1, <4>2, <4>3
      <3>4. QED
        BY <1>2, <3>1, <3>2, <3>3
    <2>4. CASE RequestError(s)
      BY <1>1, <2>4 DEF RequestError, NextItem, Goto, tables
    <2>5. CASE Reconcile(s)
      BY <1>6, <2>3, <2>5 DEF Reconcile, LinkFor
    <2>6. QED
      BY <1>6, <2>1, <2>2, <2>3, <2>4, <2>5 DEF ItemStep
  <1>7. QED
    BY <1>4, <1>5, <1>6

\* A handler leaves the attempts as they are.
LEMMA HandlerKeepsAttempts ==
    ASSUME TypeInv, NEW h \in Handlers, HandlerStep(h), NEW a \in Actions
    PROVE  \/ action'[a] = action[a]
           \/ /\ action'[a].new.attempts = Read(action[a], h).attempts
              /\ action'[a].by = h /\ Free(action[a], h)
  <1>1. action[a] \in Row(ActionRow) /\ action \in [Actions -> Row(ActionRow)]
    BY DEF TypeInv, TypeOK
  <1>2. Read(action[a], h) \in ActionRow
    BY <1>1 DEF Read, Row
  <1>3. CASE WriteAction(h)
    <2>1. [Read(action[a], h) EXCEPT !.status = "SUCCEEDED"].attempts = Read(action[a], h).attempts
      BY <1>2 DEF ActionRow
    <2>2. QED
      BY <1>1, <1>3, <2>1 DEF WriteAction, SetAction, Write
  <1>4. CASE WriteCase(h) \/ WriteOutcome(h)
    BY <1>4 DEF WriteCase, WriteOutcome
  <1>5. QED
    BY <1>3, <1>4 DEF HandlerStep

LEMMA StepLinkBehind == PInv /\ [Next]_vars => LinkBehind'
  <1> SUFFICES ASSUME PInv, [Next]_vars PROVE LinkBehind'
    OBVIOUS
  <1>p. \A a : LinkFor(a) => LinkFor(a)'
    BY ProviderKeeps DEF LinkFor
  <1> USE SessionAssumption
      DEF PInv, IInv, LockDiscipline, TypeInv, LinkBehind, TypeOK, Sessions, Executors, tables,
          provider, sessionVars
  <1>1. ASSUME NEW c \in Cycles, Authorize(c) PROVE LinkBehind'
    BY <1>1, <1>p DEF Authorize, Write, Goto, Row, ActionRow, OutboxRow
  <1>2. ASSUME NEW w \in Workers, Claim(w) PROVE LinkBehind'
    BY <1>2, <1>p DEF Claim, Goto, Write, Claimed, Batches, Claimable
  <1>3. ASSUME NEW s \in Executors, Preflight(s) PROVE LinkBehind'
    <2>1. PICK a \in Actions : /\ cur' = [cur EXCEPT ![s] = a]
                               /\ res' = [res EXCEPT ![s] = Verdict(a, s)]
      BY <1>3 DEF Preflight
    <2>2. Verdict(a, s) = "SUCCEEDED" =>
             \E n \in Tries : Read(action[a], s).attempts[n] = "SUCCEEDED"
      BY DEF Verdict
    <2>3. Verdict(a, s) = "SUCCEEDED" => LinkFor(a)
      BY <2>2, ReadLink
    <2>4. pc'[s] \in {"begin", "block"} /\ \A t \in Sessions \ {s} : pc'[t] = pc[t]
      BY <1>3 DEF Preflight, Goto
    <2>5. UNCHANGED <<action, outbox>>
      BY <1>3 DEF Preflight
    <2>6. QED
      BY <1>p, <2>1, <2>3, <2>4, <2>5
  <1>4. ASSUME NEW s \in Executors, ItemStep(s) PROVE LinkBehind'
    <2>1. /\ \A a \in Actions : action'[a].val = action[a].val /\ outbox'[a].val = outbox[a].val
          /\ \A t \in Sessions \ {s} : pc'[t] = pc[t] /\ cur'[t] = cur[t] /\ res'[t] = res[t]
      BY <1>4, ItemStepFrame DEF Touches
    <2>2. /\ \A a \in Actions :
                 outbox'[a] # outbox[a] /\ outbox'[a].new.status = "COMPLETED" => LinkFor(a)
          /\ \A a \in Actions, n \in Tries :
                 action'[a] # action[a] /\ action'[a].new.attempts[n] = "SUCCEEDED" => LinkFor(a)
          /\ pc'[s] # "block"
      BY <1>4, ItemStepLink
    <2>3. pc'[s] = "result" /\ res'[s] \in {"created", "paid"} => LinkFor(cur[s])'
      BY <1>4, ItemStepLink, DispatchAnswer DEF LinkFor
    <2>4. QED
      BY <1>p, <2>1, <2>2, <2>3
  <1>5. ASSUME NEW h \in Handlers, Deliver(h) PROVE LinkBehind'
    BY <1>5, <1>p DEF Deliver, Goto
  <1>6. ASSUME NEW h \in Handlers, LoadCase(h) PROVE LinkBehind'
    BY <1>6, <1>p DEF LoadCase, Goto
  <1>7. ASSUME NEW h \in Handlers, LoadAction(h) PROVE LinkBehind'
    BY <1>7, <1>p DEF LoadAction, Goto
  <1>8. ASSUME NEW h \in Handlers, HandlerStep(h) PROVE LinkBehind'
    <2>1. /\ \A a \in Actions : action'[a].val = action[a].val
          /\ \A t \in Sessions \ {h} : pc'[t] = pc[t]
          /\ UNCHANGED <<outbox, cur, res>>
      BY <1>8, HandlerFrame DEF Touches
    <2>2. \A a \in Actions : \/ action'[a] = action[a]
                             \/ action'[a].new.attempts = Read(action[a], h).attempts
      BY <1>8, HandlerKeepsAttempts
    <2>3. QED
      BY <1>p, <2>1, <2>2, ReadLink
  <1>9. ASSUME NEW s \in Sessions, Commit(s) PROVE LinkBehind'
    BY <1>9, <1>p DEF Commit, CommitWork, Publish, Unlocked, Forget, Finished, Goto
  <1>10. ASSUME NEW s \in Sessions, Rollback(s, "dropped") PROVE LinkBehind'
    BY <1>10, <1>p DEF Rollback, Undo, Discard, Unlocked, Forget, Finished, Goto
  <1>11. ASSUME NEW a \in Actions, LeaseExpires(a) PROVE LinkBehind'
    BY <1>11, <1>p DEF LeaseExpires, Unlocked, Row, OutboxRow
  <1>12. CASE UNCHANGED <<tables, sessionVars>>
    BY <1>12, <1>p
  <1>13. QED
    BY <1>1, <1>2, <1>3, <1>4, <1>5, <1>6, <1>7, <1>8, <1>9, <1>10, <1>11, <1>12, StepKinds

-----------------------------------------------------------------------------
(* The numbers of attempts.                                                *)

\* The outbox row of an executor's item keeps its count, and is not deleted.
LEMMA ItemStepCount ==
    ASSUME TypeInv, HoldsLocked, NEW s \in Executors, ItemStep(s), NEW a \in Actions
    PROVE  /\ outbox'[a].val = outbox[a].val /\ outbox'[a].by = outbox[a].by
           /\ outbox'[a].new.tries = outbox[a].new.tries
           /\ outbox'[a].new.status = outbox[a].new.status \/ outbox'[a].new.status # "ABSENT"
  <1> USE DEF TypeInv
  <1>1. s \in Sessions /\ cur[s] \in Actions /\ outbox[cur[s]].by = s
    BY ItemStepAction DEF HoldsLocked, Holds
  <1>2. CASE a # cur[s] \/ outbox' = outbox
    BY <1>2, ItemStepEffect
  <1>3. ASSUME a = cur[s], NEW status \in OutboxStatus, SetOutbox(cur[s], s, status)
        PROVE  /\ outbox'[a].val = outbox[a].val /\ outbox'[a].by = outbox[a].by
               /\ outbox'[a].new.tries = outbox[a].new.tries
               /\ outbox'[a].new.status # "ABSENT"
    <2>1. outbox[a].new \in OutboxRow /\ Read(outbox[a], s) = outbox[a].new
      BY <1>1, <1>3 DEF TypeOK, Row, Read
    <2>2. outbox'[a] = Write(outbox[a], s, [outbox[a].new EXCEPT !.status = status])
      BY <1>3, <2>1 DEF SetOutbox, TypeOK
    <2>3. QED
      BY <1>1, <1>3, <2>1, <2>2 DEF Write, OutboxRow, OutboxStatus
  <1>4. outbox' = outbox \/ \E status \in OutboxStatus : SetOutbox(cur[s], s, status)
    BY DEF ItemStep, Block, Begin, RequestError, Dispatch, LinkCreated, LinkPaid, ExecutionFailed,
           ExecutionUnknown, Reconcile, OutboxAfter, OutboxStatus, tables
  <1>5. QED
    BY <1>2, <1>3, <1>4

\* An executor writes the status of the attempt the outbox row counts, or no
\* attempt at all.
LEMMA ItemStepAttempts ==
    ASSUME TypeInv, HoldsLocked, CallsLocked, NEW s \in Executors, ItemStep(s), NEW a \in Actions,
           action'[a] # action[a], NEW n \in Tries, n > outbox[a].new.tries
    PROVE  /\ action'[a].by = s /\ Free(action[a], s) /\ outbox[a].by = s
           /\ action'[a].new.attempts[n] = Read(action[a], s).attempts[n]
  <1> USE DEF TypeInv
  <1>1. s \in Sessions /\ cur[s] \in Actions /\ outbox[cur[s]].by = s
    BY ItemStepAction DEF HoldsLocked, Holds
  <1>2. a = cur[s] /\ action'[a].by = s /\ Free(action[a], s)
    BY ItemStepEffect, ItemStepFrame DEF Touches
  <1>3. /\ outbox[a].new \in OutboxRow /\ Read(outbox[a], s) = outbox[a].new
        /\ Read(action[a], s) \in ActionRow
    BY <1>1, <1>2 DEF TypeOK, Row, Read
  <1>4. CASE Block(s)
    BY <1>1, <1>2, <1>3, <1>4 DEF Block, SetAction, Write, TypeOK, ActionRow
  <1>5. CASE \E status \in ExecutionStatus : SetExecuted(cur[s], s, status)
    <2>1. PICK status \in ExecutionStatus : SetExecuted(cur[s], s, status)
      BY <1>5
    <2>2. /\ action'[a].new.attempts =
                [Read(action[a], s).attempts EXCEPT ![Read(outbox[a], s).tries] = status]
          /\ Read(action[a], s).attempts \in AttemptRows
      BY <1>1, <1>2, <2>1, ExecutedAttempts
    <2>3. n # Read(outbox[a], s).tries
      BY <1>3 DEF OutboxRow, Tries
    <2>4. QED
      BY <1>1, <1>2, <2>2, <2>3 DEF AttemptRows
  <1>6. Block(s) \/ (\E status \in ExecutionStatus : SetExecuted(cur[s], s, status))
    BY DEF ItemStep, Begin, RequestError, Dispatch, LinkCreated, LinkPaid, ExecutionFailed,
           ExecutionUnknown, Reconcile, ExecutionStatus, tables
  <1>7. QED
    BY <1>4, <1>5, <1>6

\* A rollback takes back the attempts that were never committed.
LEMMA RollbackNumbered ==
    ASSUME TypeInv, NEW s \in Sessions, Rollback(s, "dropped"), NEW a \in Actions, Numbered(a)
    PROVE  Numbered(a)'
  <1>1. /\ action'[a] = IF action[a].by = s THEN Unlocked(action[a].val) ELSE action[a]
        /\ outbox'[a] = IF outbox[a].by = s THEN Unlocked(outbox[a].val) ELSE outbox[a]
    BY RollbackFrame
  <1>2. NoTx \notin Executors \cup Handlers
    BY SessionAssumption DEF Sessions, Executors
  <1>3. CASE outbox[a].by = s
    <2>1. /\ outbox'[a].val = outbox[a].val /\ outbox'[a].by = NoTx
          /\ action'[a].val = action[a].val
          /\ action'[a] = action[a] \/ action'[a].by = NoTx
          /\ action'[a].by \notin Executors
      BY <1>1, <1>2, <1>3 DEF Unlocked, Numbered
    <2>2. QED
      BY <1>2, <2>1 DEF Numbered, Executors
  <1>4. CASE outbox[a].by # s
    <2>1. /\ outbox'[a] = outbox[a] /\ action'[a].val = action[a].val
          /\ action'[a] = action[a] \/ action'[a].by = NoTx
      BY <1>1, <1>4 DEF Unlocked
    <2>2. QED
      BY <1>2, <2>1 DEF Numbered
  <1>5. QED
    BY <1>3, <1>4

LEMMA StepAttemptsCounted == PInv /\ [Next]_vars => AttemptsCounted'
  <1> SUFFICES ASSUME PInv, [Next]_vars PROVE AttemptsCounted'
    OBVIOUS
  <1> USE SessionAssumption
      DEF PInv, IInv, LockDiscipline, TypeInv, AttemptsCounted, Numbered, Sessions, Executors,
          tables, provider, sessionVars
  <1>t. \A a \in Actions : /\ outbox[a].val.tries \in Nat /\ outbox[a].new.tries \in Nat
                           /\ action[a].by \in Sessions \cup {NoTx}
                           /\ outbox[a].by \in Sessions \cup {NoTx}
    BY BoundAssumption DEF TypeOK, Row, OutboxRow, Tries
  <1>1. ASSUME NEW c \in Cycles, Authorize(c) PROVE AttemptsCounted'
    <2>1. /\ ActionOf[c] \in Actions
          /\ action[ActionOf[c]] = Unlocked(NoAction) /\ outbox[ActionOf[c]] = Unlocked(NoOutbox)
      BY <1>1 DEF Authorize, NotCreatedYet
    <2>2. QED
      BY <1>1, <2>1 DEF Authorize, Write, Unlocked, NoAction, NoOutbox, TypeOK
  <1>2. ASSUME NEW w \in Workers, Claim(w) PROVE AttemptsCounted'
    BY <1>2, <1>t DEF Claim, Write, Claimed, Batches, Claimable
  <1>3. ASSUME NEW s \in Executors, Preflight(s) PROVE AttemptsCounted'
    BY <1>3 DEF Preflight
  <1>4. ASSUME NEW s \in Executors, ItemStep(s) PROVE AttemptsCounted'
    <2>1. ASSUME NEW a \in Actions
          PROVE  /\ outbox'[a].val = outbox[a].val /\ outbox'[a].by = outbox[a].by
                 /\ outbox'[a].new.tries = outbox[a].new.tries
                 /\ outbox'[a].new.status = outbox[a].new.status \/ outbox'[a].new.status # "ABSENT"
                 /\ action'[a].val = action[a].val
                 /\ action'[a] # action[a] => action'[a].by = s /\ outbox[a].by = s
      BY <1>4, ItemStepCount, ItemStepFrame, ItemStepEffect DEF Touches, HoldsLocked, Holds
    <2>2. ASSUME NEW a \in Actions, action'[a] # action[a], NEW n \in Tries,
                 n > outbox[a].new.tries
          PROVE  action'[a].new.attempts[n] = "NONE"
      <3>1. /\ Free(action[a], s) /\ outbox[a].by = s
            /\ action'[a].new.attempts[n] = Read(action[a], s).attempts[n]
        BY <1>4, <2>2, ItemStepAttempts
      <3>2. n > outbox[a].val.tries \/ outbox[a].val.status = "ABSENT"
        BY <1>t, <2>2, <3>1 DEF Tries
      <3>3. QED
        BY <2>2, <3>1, <3>2 DEF Free, Read
    <2>3. QED
      BY <2>1, <2>2
  <1>5. ASSUME NEW h \in Handlers, Deliver(h) PROVE AttemptsCounted'
    BY <1>5 DEF Deliver
  <1>6. ASSUME NEW h \in Handlers, LoadCase(h) PROVE AttemptsCounted'
    BY <1>6 DEF LoadCase
  <1>7. ASSUME NEW h \in Handlers, LoadAction(h) PROVE AttemptsCounted'
    BY <1>7 DEF LoadAction
  <1>8. ASSUME NEW h \in Handlers, HandlerStep(h) PROVE AttemptsCounted'
    <2>1. UNCHANGED outbox /\ \A a \in Actions : action'[a].val = action[a].val
      BY <1>8, HandlerFrame DEF Touches
    <2>2. \A a \in Actions : \/ action'[a] = action[a]
                             \/ /\ action'[a].new.attempts = Read(action[a], h).attempts
                                /\ action'[a].by = h /\ Free(action[a], h)
      BY <1>8, HandlerKeepsAttempts
    <2>3. \A a \in Actions :
             Free(action[a], h) => Read(action[a], h).attempts = action[a].val.attempts
      BY DEF Free, Read
    <2>4. QED
      BY <2>1, <2>2, <2>3
  <1>9. ASSUME NEW s \in Sessions, Commit(s) PROVE AttemptsCounted'
    <2>1. action' = Publish(action, s) /\ outbox' = Publish(outbox, s)
      BY <1>9 DEF Commit, CommitWork
    <2> SUFFICES ASSUME NEW a \in Actions
                 PROVE  Numbered(a)'
      BY DEF AttemptsCounted
    <2>2. /\ action'[a] = IF action[a].by = s THEN Unlocked(action[a].new) ELSE action[a]
          /\ outbox'[a] = IF outbox[a].by = s THEN Unlocked(outbox[a].new) ELSE outbox[a]
      BY <2>1 DEF Publish, TypeOK
    <2>3. CASE outbox[a].by = s
      <3>1. \A n \in Tries : n > outbox[a].new.tries =>
               /\ action[a].val.attempts[n] = "NONE"
               /\ action[a].by = s => action[a].new.attempts[n] = "NONE"
        BY <1>t, <2>3 DEF Tries
      <3>2. QED
        BY <2>2, <2>3, <3>1 DEF Unlocked
    <2>4. CASE outbox[a].by # s
      BY <2>2, <2>4 DEF Unlocked
    <2>5. QED
      BY <2>3, <2>4
  <1>10. ASSUME NEW s \in Sessions, Rollback(s, "dropped") PROVE AttemptsCounted'
    BY <1>10, RollbackNumbered
  <1>11. ASSUME NEW a \in Actions, LeaseExpires(a) PROVE AttemptsCounted'
    BY <1>11 DEF LeaseExpires, Unlocked, TypeOK, Row, OutboxRow
  <1>12. CASE UNCHANGED <<tables, sessionVars>>
    BY <1>12
  <1>13. QED
    BY <1>1, <1>2, <1>3, <1>4, <1>5, <1>6, <1>7, <1>8, <1>9, <1>10, <1>11, <1>12, StepKinds

-----------------------------------------------------------------------------
(* The Action and its outbox row.                                          *)

\* What the two rows of an item hold after its executor has written them.
LEMMA StatusWritten ==
    ASSUME TypeInv, NEW s \in Sessions, NEW a \in Actions, NEW status
    PROVE  /\ SetAction(a, s, status) \/ SetExecuted(a, s, status) =>
                 action'[a].by = s /\ action'[a].new.status = status
           /\ SetOutbox(a, s, status) => outbox'[a].new.status = status
  <1>1. /\ action[a] \in Row(ActionRow) /\ Read(action[a], s) \in ActionRow
        /\ outbox[a] \in Row(OutboxRow) /\ Read(outbox[a], s) \in OutboxRow
    BY DEF TypeInv, TypeOK, Row, Read
  <1>2. ASSUME SetAction(a, s, status)
        PROVE  action'[a].by = s /\ action'[a].new.status = status
    <2>1. action'[a] = Write(action[a], s, [Read(action[a], s) EXCEPT !.status = status])
      BY <1>2 DEF SetAction, TypeInv, TypeOK
    <2>2. QED
      BY <1>1, <2>1 DEF Write, ActionRow
  <1>3. ASSUME SetExecuted(a, s, status)
        PROVE  action'[a].by = s /\ action'[a].new.status = status
    BY <1>3 DEF SetExecuted, Write, TypeInv, TypeOK
  <1>4. ASSUME SetOutbox(a, s, status) PROVE outbox'[a].new.status = status
    <2>1. outbox'[a] = Write(outbox[a], s, [Read(outbox[a], s) EXCEPT !.status = status])
      BY <1>4 DEF SetOutbox, TypeInv, TypeOK
    <2>2. QED
      BY <1>1, <2>1 DEF Write, OutboxRow
  <1>5. QED
    BY <1>2, <1>3, <1>4

\* Whatever an executor does next with its item, it has written the Action, and
\* the two rows agree; it leaves the outbox row alone until it is done.
LEMMA ItemStepAgree ==
    ASSUME TypeInv, HoldsLocked, CallsLocked, ItemsOnce, ItemsAgreePending,
           NEW s \in Executors, ItemStep(s)
    PROVE  /\ action'[cur[s]].by = s
           /\ Agree(action'[cur[s]].new.status, outbox'[cur[s]].new)
           /\ \/ pc'[s] = "next" /\ cur'[s] = NoTx
              \/ pc'[s] \in Calling /\ cur'[s] = cur[s] /\ outbox' = outbox
  <1> USE DEF TypeInv, Calling
  <1> DEFINE a == cur[s]
  <1>1. s \in Sessions /\ a \in Actions /\ outbox[a].by = s
    BY ItemStepAction DEF HoldsLocked, Holds
  <1>2. outbox[a].new.status # "COMPLETED"
    BY <1>1 DEF ItemsOnce, Holds
  <1>3. action[a].by = s => Agree(action[a].new.status, outbox[a].new)
    BY <1>1 DEF ItemsAgreePending, AgreePending
  <1>4. /\ NextItem(s) => pc'[s] = "next" /\ cur'[s] = NoTx
        /\ \A label : Goto(s, label) => pc'[s] = label
    BY <1>1 DEF NextItem, Goto, TypeOK
  <1>5. ASSUME NEW status, SetAction(a, s, status) \/ SetExecuted(a, s, status),
               status # "AUTHORIZED", outbox'[a].new.status = "COMPLETED" => status = "SUCCEEDED"
        PROVE  action'[a].by = s /\ Agree(action'[a].new.status, outbox'[a].new)
    BY <1>1, <1>5, StatusWritten DEF Agree
  <1>6. CASE Block(s)
    <2>1. res[s] \in {"SUPERSEDED", "CANCELLED", "SUCCEEDED"}
      BY <1>1, <1>6 DEF Block, HasAction
    <2>2. outbox'[a].new.status = OutboxAfter(res[s])
      BY <1>1, <1>6, StatusWritten DEF Block
    <2>3. QED
      BY <1>4, <1>5, <1>6, <2>1, <2>2 DEF Block, OutboxAfter
  <1>7. CASE Begin(s)
    BY <1>2, <1>4, <1>5, <1>7 DEF Begin
  <1>8. CASE RequestError(s)
    BY <1>1, <1>3, <1>4, <1>8 DEF RequestError, CallsLocked, tables
  <1>9. CASE Dispatch(s)
    <2>1. action[a].by = s /\ UNCHANGED <<action, outbox>>
      BY <1>9 DEF Dispatch, CallsLocked, tables
    <2>2. QED
      BY <1>3, <1>9, <2>1, DispatchAnswer
  <1>10. CASE LinkCreated(s)
    BY <1>4, <1>5, <1>10 DEF LinkCreated
  <1>11. CASE LinkPaid(s)
    BY <1>4, <1>5, <1>11 DEF LinkPaid
  <1>12. CASE ExecutionFailed(s)
    <2>1. outbox'[a].new.status # "COMPLETED"
      BY <1>1, <1>2, <1>12, StatusWritten DEF ExecutionFailed
    <2>2. QED
      BY <1>4, <1>5, <1>12, <2>1 DEF ExecutionFailed
  <1>13. CASE ExecutionUnknown(s)
    <2>1. NextItem(s) \/ (Goto(s, "reconcile") /\ cur' = cur)
      BY <1>13 DEF ExecutionUnknown
    <2>2. SetExecuted(a, s, "UNKNOWN") /\ outbox' = outbox
      BY <1>13 DEF ExecutionUnknown
    <2>3. QED
      BY <1>2, <1>4, <1>5, <2>1, <2>2
  <1>14. CASE Reconcile(s)
    <2>1. CASE SetExecuted(a, s, "SUCCEEDED")
      BY <1>4, <1>5, <1>14, <2>1 DEF Reconcile
    <2>2. CASE SetExecuted(a, s, "FAILED") /\ SetOutbox(a, s, "FAILED")
      BY <1>1, <1>4, <1>5, <1>14, <2>2, StatusWritten DEF Reconcile
    <2>3. CASE UNCHANGED <<action, outbox>>
      BY <1>1, <1>3, <1>4, <1>14, <2>3 DEF Reconcile, CallsLocked
    <2>4. QED
      BY <1>14, <2>1, <2>2, <2>3 DEF Reconcile
  <1>15. QED
    BY <1>6, <1>7, <1>8, <1>9, <1>10, <1>11, <1>12, <1>13, <1>14 DEF ItemStep

\* A session that ends gives up its items.
LEMMA EndForgets ==
    ASSUME TypeInv, NEW s \in Sessions, Commit(s) \/ Rollback(s, "dropped")
    PROVE  /\ \A t \in Sessions \ {s} : pc'[t] = pc[t] /\ cur'[t] = cur[t] /\ todo'[t] = todo[t]
           /\ todo'[s] = {} /\ cur'[s] = NoTx /\ pc'[s] \in {"idle", "processed", "dropped"}
  BY DEF Commit, CommitWork, Rollback, Forget, Finished, Goto, TypeInv, TypeOK

LEMMA StepItemsOnce == PInv /\ [Next]_vars => ItemsOnce'
  <1> SUFFICES ASSUME PInv, [Next]_vars PROVE ItemsOnce'
    OBVIOUS
  <1> USE SessionAssumption
      DEF PInv, IInv, LockDiscipline, TypeInv, ItemsOnce, HoldsLocked, Holds, TypeOK, Sessions,
          Executors, tables, provider, sessionVars
  <1>1. ASSUME NEW c \in Cycles, Authorize(c) PROVE ItemsOnce'
    <2>1. /\ pc' = [pc EXCEPT ![c] = "next"] /\ UNCHANGED cur /\ cur[c] = NoTx
          /\ todo'[c] \subseteq {ActionOf[c]} /\ \A s \in Sessions \ {c} : todo'[s] = todo[s]
      BY <1>1 DEF Authorize, Goto
    <2>2. /\ outbox'[ActionOf[c]].new.status = "PENDING"
          /\ \A a \in Actions \ {ActionOf[c]} : outbox'[a] = outbox[a]
      <3>1. outbox[ActionOf[c]].val \in OutboxRow
        BY DEF Row
      <3>2. QED
        BY <1>1, <3>1 DEF Authorize, Write, OutboxRow
    <2>3. QED
      BY <2>1, <2>2
  <1>2. ASSUME NEW w \in Workers, Claim(w) PROVE ItemsOnce'
    BY <1>2 DEF Claim, Goto, Write, Claimed, Batches, Claimable
  <1>3. ASSUME NEW s \in Executors, Preflight(s) PROVE ItemsOnce'
    BY <1>3 DEF Preflight, Goto
  <1>4. ASSUME NEW s \in Executors, ItemStep(s) PROVE ItemsOnce'
    <2>1. /\ cur[s] \in Actions
          /\ \A a \in Actions \ {cur[s]} : outbox'[a] = outbox[a]
          /\ \A t \in Sessions \ {s} : pc'[t] = pc[t] /\ cur'[t] = cur[t]
          /\ todo' = todo
      BY <1>4, ItemStepFrame
    <2>2. \/ pc'[s] = "next" /\ cur'[s] = NoTx
          \/ pc'[s] \in Calling /\ cur'[s] = cur[s] /\ outbox' = outbox
      BY <1>4, ItemStepAgree
    <2>3. ASSUME NEW t \in Executors, NEW a \in Actions, Holds(t, a)'
          PROVE  outbox'[a].new.status # "COMPLETED"
      <3>1. CASE t # s
        <4>1. Holds(t, a)
          BY <2>1, <2>3, <3>1
        <4>2. a # cur[s]
          BY <2>1, <3>1, <4>1
        <4>3. QED
          BY <2>1, <4>1, <4>2
      <3>2. CASE t = s
        BY <2>1, <2>2, <2>3, <3>2
      <3>3. QED
        BY <3>1, <3>2
    <2>4. QED
      BY <2>1, <2>2, <2>3 DEF Calling
  <1>5. ASSUME NEW h \in Handlers, Deliver(h) PROVE ItemsOnce'
    BY <1>5 DEF Deliver, Goto
  <1>6. ASSUME NEW h \in Handlers, LoadCase(h) PROVE ItemsOnce'
    BY <1>6 DEF LoadCase, Goto
  <1>7. ASSUME NEW h \in Handlers, LoadAction(h) PROVE ItemsOnce'
    BY <1>7 DEF LoadAction, Goto
  <1>8. ASSUME NEW h \in Handlers, HandlerStep(h) PROVE ItemsOnce'
    BY <1>8, HandlerFrame
  <1>9. ASSUME NEW s \in Sessions, Commit(s) \/ Rollback(s, "dropped") PROVE ItemsOnce'
    <2>1. /\ \A t \in Sessions \ {s} : pc'[t] = pc[t] /\ cur'[t] = cur[t] /\ todo'[t] = todo[t]
          /\ todo'[s] = {} /\ cur'[s] = NoTx /\ pc'[s] \in {"idle", "processed", "dropped"}
      BY <1>9, EndForgets
    <2>2. \A a \in Actions : outbox[a].by # s => outbox'[a] = outbox[a]
      BY <1>9, EndFrame
    <2>3. QED
      BY <2>1, <2>2
  <1>10. ASSUME NEW a \in Actions, LeaseExpires(a) PROVE ItemsOnce'
    <2>1. outbox'[a].new.status = "CLAIMED" /\ \A b \in Actions \ {a} : outbox'[b] = outbox[b]
      <3>1. outbox[a].val \in OutboxRow
        BY DEF Row
      <3>2. QED
        BY <1>10, <3>1 DEF LeaseExpires, Unlocked, OutboxRow
    <2>2. QED
      BY <1>10, <2>1 DEF LeaseExpires
  <1>11. CASE UNCHANGED <<tables, sessionVars>>
    BY <1>11
  <1>12. QED
    BY <1>1, <1>2, <1>3, <1>4, <1>5, <1>6, <1>7, <1>8, <1>9, <1>10, <1>11, StepKinds

\* A commit publishes both rows of an item, or the Action that a confirmation has
\* written; a rollback takes back what the one session has written.
LEMMA CommitAgrees ==
    ASSUME TypeInv, ItemsOnce, NEW s \in Sessions, Commit(s), NEW a \in Actions, AgreePending(a)
    PROVE  AgreePending(a)'
  <1>1. /\ action'[a] = IF action[a].by = s THEN Unlocked(action[a].new) ELSE action[a]
        /\ outbox'[a] = IF outbox[a].by = s THEN Unlocked(outbox[a].new) ELSE outbox[a]
    BY CommitFrame
  <1>2. \A t \in Executors \ {s} : Holds(t, a) => Holds(t, a)'
    BY EndForgets DEF Holds, Executors, Sessions
  <1>3. s # NoTx /\ (s \in Executors \/ s \in Handlers) /\ Executors \cap Handlers = {}
    BY SessionAssumption DEF Sessions, Executors
  <1>4. s \in Executors => ~Holds(s, a)
    <2>1. a # NoTx
      BY SessionAssumption
    <2>2. QED
      BY <2>1 DEF Commit, ItemsOnce, Holds
  <1>5. CASE outbox[a].by = s
    <2>1. action[a].by = s /\ Agree(action[a].new.status, outbox[a].new)
      BY <1>3, <1>4, <1>5 DEF AgreePending
    <2>2. QED
      BY <1>1, <1>5, <2>1, SessionAssumption DEF AgreePending, Unlocked, Executors, Sessions
  <1>6. CASE outbox[a].by # s /\ action[a].by = s
    <2>1. s \in Handlers /\ action[a].new.status = "SUCCEEDED"
      BY <1>3, <1>6 DEF AgreePending
    <2>2. /\ outbox'[a] = outbox[a]
          /\ action'[a].val.status = "SUCCEEDED" /\ action'[a].by = NoTx
      BY <1>1, <1>6, <2>1 DEF Unlocked
    <2>3. NoTx \notin Executors \cup Handlers
      BY SessionAssumption DEF Executors, Sessions
    <2>4. QED
      BY <1>2, <1>6, <2>2, <2>3 DEF AgreePending, Agree
  <1>7. CASE outbox[a].by # s /\ action[a].by # s
    BY <1>1, <1>2, <1>7 DEF AgreePending
  <1>8. QED
    BY <1>5, <1>6, <1>7

LEMMA RollbackAgrees ==
    ASSUME TypeInv, NEW s \in Sessions, Rollback(s, "dropped"), NEW a \in Actions,
           AgreePending(a)
    PROVE  AgreePending(a)'
  <1>1. /\ action'[a] = IF action[a].by = s THEN Unlocked(action[a].val) ELSE action[a]
        /\ outbox'[a] = IF outbox[a].by = s THEN Unlocked(outbox[a].val) ELSE outbox[a]
    BY RollbackFrame
  <1>2. \A t \in Executors \ {s} : Holds(t, a) => Holds(t, a)'
    BY EndForgets DEF Holds, Executors, Sessions
  <1>3. NoTx \notin Executors \cup Handlers /\ Executors \cap Handlers = {}
        /\ (s \in Executors \/ s \in Handlers)
    BY SessionAssumption DEF Sessions, Executors
  <1>4. CASE outbox[a].by = s
    <2>1. outbox'[a].val = outbox[a].val /\ outbox'[a].by = NoTx
      BY <1>1, <1>4 DEF Unlocked
    <2>2. action[a].by \notin Executors \ {s}
      BY <1>4 DEF AgreePending
    <2>3. /\ action'[a].val = action[a].val
          /\ action'[a] = action[a] \/ action'[a].by = NoTx
          /\ action'[a].by \notin Executors
      BY <1>1, <1>3, <2>2 DEF Unlocked
    <2>4. QED
      BY <1>3, <2>1, <2>3 DEF AgreePending
  <1>5. CASE outbox[a].by # s /\ action[a].by = s
    <2>1. /\ outbox'[a] = outbox[a]
          /\ action'[a].val = action[a].val /\ action'[a].by = NoTx
      BY <1>1, <1>5 DEF Unlocked
    <2>2. QED
      BY <1>2, <1>3, <1>5, <2>1 DEF AgreePending
  <1>6. CASE outbox[a].by # s /\ action[a].by # s
    BY <1>1, <1>2, <1>6 DEF AgreePending
  <1>7. QED
    BY <1>4, <1>5, <1>6

LEMMA StepItemsAgreePending == PInv /\ [Next]_vars => ItemsAgreePending'
  <1> SUFFICES ASSUME PInv, [Next]_vars PROVE ItemsAgreePending'
    OBVIOUS
  <1> USE SessionAssumption
      DEF PInv, IInv, LockDiscipline, TypeInv, ItemsAgreePending, AgreePending, Agree, Holds,
          TypeOK, Sessions, Executors, tables, provider, sessionVars
  <1>1. ASSUME NEW c \in Cycles, Authorize(c) PROVE ItemsAgreePending'
    <2> DEFINE a == ActionOf[c]
    <2>1. a \in Actions /\ action[a] = Unlocked(NoAction) /\ outbox[a] = Unlocked(NoOutbox)
      BY <1>1 DEF Authorize, NotCreatedYet
    <2>2. /\ action'[a].val = NoAction /\ action'[a].by = c /\ action'[a].new.status = "AUTHORIZED"
          /\ outbox'[a].val = NoOutbox /\ outbox'[a].by = c
          /\ outbox'[a].new.status = "PENDING" /\ outbox'[a].new.tries = 0
      BY <1>1, <2>1 DEF Authorize, Write, Unlocked, NoAction, NoOutbox
    <2>3. /\ \A b \in Actions \ {a} : action'[b] = action[b] /\ outbox'[b] = outbox[b]
          /\ cur' = cur /\ \A s \in Sessions \ {c} : todo'[s] = todo[s]
          /\ cur[c] = NoTx
      BY <1>1 DEF Authorize, ItemsOnce
    <2>4. \A b \in Actions \ {a} : outbox[b].by = c => action[b].by = c
      BY <1>1 DEF Authorize, ItemsOnce
    <2>5. QED
      BY <2>1, <2>2, <2>3, <2>4 DEF NoAction, NoOutbox
  <1>2. ASSUME NEW w \in Workers, Claim(w) PROVE ItemsAgreePending'
    <2>1. PICK S \in Batches :
             /\ outbox' = [a \in Actions |-> IF a \in S
                                            THEN Write(outbox[a], w, Claimed(outbox[a].val))
                                            ELSE outbox[a]]
             /\ todo' = [todo EXCEPT ![w] = S]
      BY <1>2 DEF Claim
    <2>2. \A a \in S : outbox[a].by = NoTx /\ outbox[a].val.status # "COMPLETED"
      BY DEF Batches, Claimable
    <2>3. UNCHANGED <<action, cur>> /\ todo[w] = {} /\ cur[w] = NoTx
      BY <1>2 DEF Claim, ItemsOnce
    <2>4. ASSUME NEW a \in S
          PROVE  /\ outbox'[a].val = outbox[a].val /\ outbox'[a].by = w
                 /\ action[a].by \notin Executors /\ Holds(w, a)'
      BY <2>1, <2>2, <2>4 DEF Write, Batches, Claimable
    <2>5. ASSUME NEW a \in Actions \ S
          PROVE  /\ outbox'[a] = outbox[a]
                 /\ \A s \in Executors : Holds(s, a) => Holds(s, a)'
      BY <2>1, <2>3
    <2>6. QED
      BY <2>2, <2>3, <2>4, <2>5
  <1>3. ASSUME NEW s \in Executors, Preflight(s) PROVE ItemsAgreePending'
    BY <1>3 DEF Preflight, ItemsOnce
  <1>4. ASSUME NEW s \in Executors, ItemStep(s) PROVE ItemsAgreePending'
    <2> DEFINE a == cur[s]
    <2>1. /\ a \in Actions
          /\ \A b \in Actions \ {a} : action'[b] = action[b] /\ outbox'[b] = outbox[b]
          /\ \A t \in Sessions \ {s} : cur'[t] = cur[t]
          /\ todo' = todo /\ action'[a].val = action[a].val
      BY <1>4, ItemStepFrame DEF Touches
    <2>2. /\ action'[a].by = s /\ Agree(action'[a].new.status, outbox'[a].new)
          /\ outbox'[a].val = outbox[a].val /\ outbox'[a].by = s
      BY <1>4, <2>1, ItemStepAgree, ItemStepCount DEF HoldsLocked
    <2>3. outbox[a].val.status # "COMPLETED"
      BY <1>4, <2>1 DEF HoldsLocked
    <2>4. QED
      BY <2>1, <2>2, <2>3
  <1>5. ASSUME NEW h \in Handlers, Deliver(h) PROVE ItemsAgreePending'
    BY <1>5 DEF Deliver
  <1>6. ASSUME NEW h \in Handlers, LoadCase(h) PROVE ItemsAgreePending'
    BY <1>6 DEF LoadCase
  <1>7. ASSUME NEW h \in Handlers, LoadAction(h) PROVE ItemsAgreePending'
    BY <1>7 DEF LoadAction
  <1>8. ASSUME NEW h \in Handlers, HandlerStep(h) PROVE ItemsAgreePending'
    <2>1. /\ UNCHANGED <<outbox, todo, cur>>
          /\ \A a \in Actions : Touches(action[a], action'[a], h)
      BY <1>8, HandlerFrame
    <2>2. /\ cur[h] \in Actions
          /\ \A a \in Actions \ {cur[h]} : action'[a] = action[a]
          /\ UNCHANGED action \/ SetAction(cur[h], h, "SUCCEEDED")
      BY <1>8, HandlerFrame DEF HandlerStep, WriteCase, WriteAction, WriteOutcome
    <2>3. \A a \in Actions : action'[a] = action[a] \/ action'[a].new.status = "SUCCEEDED"
      BY <2>2, StatusWritten
    <2>4. QED
      BY <2>1, <2>3 DEF Touches, Free
  <1>9. ASSUME NEW s \in Sessions, Commit(s) PROVE ItemsAgreePending'
    BY <1>9, CommitAgrees
  <1>10. ASSUME NEW s \in Sessions, Rollback(s, "dropped") PROVE ItemsAgreePending'
    BY <1>10, RollbackAgrees
  <1>11. ASSUME NEW a \in Actions, LeaseExpires(a) PROVE ItemsAgreePending'
    <2>1. /\ outbox'[a].by = NoTx /\ outbox'[a].val.status = "CLAIMED"
          /\ \A b \in Actions \ {a} : outbox'[b] = outbox[b]
      <3>1. outbox[a].val \in OutboxRow
        BY DEF Row
      <3>2. QED
        BY <1>11, <3>1 DEF LeaseExpires, Unlocked, OutboxRow
    <2>2. QED
      BY <1>11, <2>1 DEF LeaseExpires
  <1>12. CASE UNCHANGED <<tables, sessionVars>>
    BY <1>12
  <1>13. QED
    BY <1>1, <1>2, <1>3, <1>4, <1>5, <1>6, <1>7, <1>8, <1>9, <1>10, <1>11, <1>12, StepKinds

-----------------------------------------------------------------------------
(* The theorems.                                                           *)

LEMMA ProviderInductive == Spec => []PInv
  <1>1. Init => PInv
    <2> SUFFICES ASSUME Init PROVE PInv
      OBVIOUS
    <2>1. PaymentBehind /\ LinkBehind /\ AttemptsCounted
      BY SessionAssumption
         DEF Init, PaymentBehind, LinkBehind, AttemptsCounted, Numbered, Active, Unlocked,
             NoCase, NoAction, NoOutbox, Sessions, Executors
    <2>2. ItemsOnce /\ ItemsAgreePending
      BY SessionAssumption
         DEF Init, ItemsOnce, ItemsAgreePending, AgreePending, Agree, Holds, Unlocked, NoAction,
             NoOutbox, Sessions, Executors
    <2>3. QED
      BY <2>1, <2>2, InitInv DEF PInv
  <1>2. PInv /\ [Next]_vars => PInv'
    <2>1. PInv /\ [Next]_vars => IInv'
      BY StepInv DEF PInv
    <2>2. QED
      BY <2>1, StepPaymentBehind, StepLinkBehind, StepAttemptsCounted, StepItemsOnce,
         StepItemsAgreePending DEF PInv
  <1>3. QED
    BY <1>1, <1>2, PTL DEF Spec

\* Nothing says that a case is recovered, neither its row nor an outcome, unless
\* the provider has confirmed a payment of its Action's link.
THEOREM RecoveriesArePaid == Spec => []RecoveredIsPaid
  <1>1. PInv => RecoveredIsPaid
    BY DEF PInv, PaymentBehind, PaidFor, RecoveredIsPaid
  <1>2. QED
    BY <1>1, ProviderInductive, PTL

\* No outbox row is COMPLETED by an ambiguous answer, a rejection or a blocked
\* preflight alone: the Action has a link.
THEOREM CompletedItemsHaveLinks == Spec => []CompletedHasLink
  <1>1. PInv => CompletedHasLink
    BY DEF PInv, LinkBehind, LinkFor, CompletedHasLink
  <1>2. QED
    BY <1>1, ProviderInductive, PTL

\* The unique index on (action_id, attempt_number) never fails a batch: attempt
\* numbers come from a counter that only the holder of the row advances.
THEOREM AttemptNumbersAreFree == Spec => []AttemptNumberFree
  <1>1. PInv => AttemptNumberFree
    <2> SUFFICES ASSUME PInv, NEW s \in Executors, pc[s] = "begin"
                 PROVE  action[cur[s]].val.attempts[Read(outbox[cur[s]], s).tries] = "NONE"
      BY DEF AttemptNumberFree
    <2>1. cur[s] \in Actions /\ s \in Sessions
      BY DEF PInv, IInv, TypeInv, HasAction, Executors, Sessions
    <2>2. outbox[cur[s]].by = s
      BY <2>1 DEF PInv, IInv, LockDiscipline, HoldsLocked, Holds
    <2>3. /\ Read(outbox[cur[s]], s) = outbox[cur[s]].new
          /\ outbox[cur[s]].new.tries \in Tries /\ outbox[cur[s]].val.tries \in Tries
      BY <2>1, <2>2 DEF PInv, IInv, TypeInv, TypeOK, Row, OutboxRow, Read
    <2>4. \/ outbox[cur[s]].new.tries > outbox[cur[s]].val.tries
          \/ outbox[cur[s]].val.status = "ABSENT"
      BY <2>1, <2>2, <2>3, BoundAssumption DEF PInv, AttemptsCounted, Numbered, Executors, Tries
    <2>5. QED
      BY <2>1, <2>3, <2>4 DEF PInv, AttemptsCounted, Numbered
  <1>2. QED
    BY <1>1, ProviderInductive, PTL

\* No interleaving of executors and confirmations, rolled back or lost wherever,
\* leaves an Action that waits without a row that will be claimed with its whole
\* budget, completes a row whose Action did not succeed, or leaves an Action that
\* succeeded to be executed again.
THEOREM ItemsAlwaysAgree == Spec => []ItemsAgree
  <1>1. PInv => ItemsAgree
    BY DEF PInv, IInv, LockDiscipline, SucceededDone, ItemsAgreePending, AgreePending, Agree,
           ItemsAgree
  <1>2. QED
    BY <1>1, ProviderInductive, PTL

=============================================================================
