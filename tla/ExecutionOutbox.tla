--------------------------- MODULE ExecutionOutbox ---------------------------
(***************************************************************************)
(* Governed execution of an authorized recovery action.  Three kinds of    *)
(* database session work on the same rows:                                 *)
(*                                                                         *)
(*   - a decision cycle (one per payment.failed event) creates the case,   *)
(*     the Action and its ExecutionOutbox row and, when the process has a  *)
(*     provider adapter, executes it inside the same transaction;          *)
(*   - an execution poller claims a batch of outbox rows and executes them *)
(*     one after the other in a single transaction;                        *)
(*   - a webhook task handles one confirmed payment event.                 *)
(*                                                                         *)
(* A session's writes are visible to others when it commits.  PostgreSQL   *)
(* holds the lock of a written row until then, so a second writer waits;   *)
(* the outbox query skips locked rows; two sessions that wait for each     *)
(* other are a deadlock, of which one is aborted.  The case row has an     *)
(* optimistic version column: an UPDATE whose version is no longer the one *)
(* the session loaded raises StaleDataError.  No other row has one.        *)
(*                                                                         *)
(* A payment.failed event creates one case and at most one Action, so the  *)
(* rows of a case, its Action, its attempts and its outbox entry are all   *)
(* indexed by the Action.                                                  *)
(***************************************************************************)
EXTENDS Integers, FiniteSets, CaseStateMachine, RowLocks

CONSTANTS
    Actions,       \* authorized recovery actions, one per case
    Executable,    \* those whose checks on rows that never change pass: policy
                   \* status, autonomy, revalidation, stopping rule, capability
    Malformed,     \* those whose payload cannot be made into a provider request
    Workers,       \* execution pollers
    Cycles,        \* decision cycles, each for the Action it creates
    Handlers,      \* webhook tasks, each for one stored payment event
    ActionOf,      \* the Action of a cycle or of a handler's event
    WebHasAdapter, \* whether a web process has provider credentials; both are
                   \* possible while processes of two configurations run
    MaxRetries,    \* ExecutionOutbox.max_retries
    BatchSize,     \* ExecutionWorker.batch_size
    MaxCrashes     \* bound: sessions lost to a restart or a dropped connection

Sessions  == Workers \cup Cycles \cup Handlers
Executors == Workers \cup Cycles

ASSUME SessionAssumption ==
    /\ Workers \cap Cycles = {}
    /\ Workers \cap Handlers = {}
    /\ Cycles \cap Handlers = {}
    /\ NoTx \notin Sessions \cup Actions
    /\ \A s \in Cycles \cup Handlers : ActionOf[s] \in Actions
    /\ \A c, d \in Cycles : ActionOf[c] = ActionOf[d] => c = d

ASSUME BoundAssumption ==
    /\ Executable \subseteq Actions
    /\ Malformed \subseteq Actions
    /\ WebHasAdapter \subseteq BOOLEAN
    /\ MaxRetries \in Nat \ {0}
    /\ BatchSize \in Nat \ {0}
    /\ MaxCrashes \in Nat

VARIABLES
    case,     \* RecoveryCase rows: [status, stage, version]
    action,   \* Action rows with their ExecutionAttempts: [status, attempts]
    outbox,   \* ExecutionOutbox rows: [status, tries, lease]
    outcomes, \* committed RecoveryOutcome rows: [action, by, status]
    inserted, \* RecoveryOutcome rows not committed yet
    enabled,  \* the execution_enabled setting
    links,    \* payment links that exist at the provider, by idempotency key
    paid,     \* the links a customer has paid
    pc,       \* where each session is
    todo,     \* claimed items a session has not executed yet
    cur,      \* the Action a session is executing
    seen,     \* the case and the action status a session loaded
    res,      \* the normalised answer of the provider
    crashes

tables      == <<case, action, outbox, outcomes, inserted>>
provider    == <<links, paid>>
sessionVars == <<pc, todo, cur, seen, res>>
vars        == <<tables, enabled, provider, sessionVars, crashes>>

-----------------------------------------------------------------------------
\* A row: the committed value, the value its holder has written, the holder.
Row(T) == [val : T, new : T, by : Sessions \cup {NoTx}]

ActionStatus    == {"AUTHORIZED", "EXECUTING", "SUCCEEDED", "FAILED", "UNKNOWN",
                    "CANCELLED", "SUPERSEDED"}
OutboxStatus    == {"PENDING", "CLAIMED", "COMPLETED", "FAILED", "DEAD_LETTERED"}
ExecutionStatus == {"EXECUTING", "SUCCEEDED", "FAILED", "UNKNOWN"}
OutcomeStatus   == {"RECOVERED", "FAILED", "UNKNOWN"}
RecoveryStage   == {"NONE", "WAITING_FOR_PAYMENT", "RECOVERED"}

Tries    == 0..MaxRetries
CaseRow  == [status : CaseStatus \cup {"ABSENT"}, stage : RecoveryStage, version : Nat]
AttemptRows == [Tries -> ExecutionStatus \cup {"NONE"}]
ActionRow   == [status : ActionStatus \cup {"ABSENT"}, attempts : AttemptRows]
OutboxRow   == [status : OutboxStatus \cup {"ABSENT"}, tries : Tries,
                lease : {"NONE", "HELD", "EXPIRED"}]
Outcome     == [action : Actions, by : Sessions, status : OutcomeStatus]
Loaded      == [case : CaseRow, action : ActionStatus \cup {"ABSENT"}]
\* Where a session can be, and what it holds in res: a verdict of the preflight
\* or an answer of the provider.
Label  == {"idle", "stored", "loaded", "next", "block", "begin", "dispatch", "result",
           "reconcile", "writeCase", "writeAction", "outcome", "commit", "processed",
           "dropped"}
Answer == {"NONE", "VALID", "SUPERSEDED", "CANCELLED", "SUCCEEDED",
           "created", "paid", "rejected", "throttled", "timeout", "ambiguous"}

NoCase   == [status |-> "ABSENT", stage |-> "NONE", version |-> 0]
NoAction == [status |-> "ABSENT", attempts |-> [n \in Tries |-> "NONE"]]
NoOutbox == [status |-> "ABSENT", tries |-> 0, lease |-> "NONE"]
NothingSeen == [case |-> NoCase, action |-> "ABSENT"]

\* The idempotency key of create_payment_link is the Action's identity, whatever
\* the attempt; the provider keeps links by it.
IdempotencyKey(a) == [action |-> a]
Keys == [action : Actions]

Init ==
    /\ case     = [a \in Actions |-> Unlocked(NoCase)]
    /\ action   = [a \in Actions |-> Unlocked(NoAction)]
    /\ outbox   = [a \in Actions |-> Unlocked(NoOutbox)]
    /\ outcomes = {}
    /\ inserted = {}
    /\ enabled \in BOOLEAN
    /\ links    = {}
    /\ paid     = {}
    /\ pc       = [s \in Sessions |-> "idle"]
    /\ todo     = [s \in Sessions |-> {}]
    /\ cur      = [s \in Sessions |-> NoTx]
    /\ seen     = [s \in Sessions |-> NothingSeen]
    /\ res      = [s \in Sessions |-> "NONE"]
    /\ crashes  = 0

Goto(s, label) == pc' = [pc EXCEPT ![s] = label]

\* A session that is over: a poller starts its next sweep, the task of an
\* event is never run again.
Finished(s, how) == IF s \in Workers THEN "idle" ELSE how

Forget(s) ==
    /\ todo' = [todo EXCEPT ![s] = {}]
    /\ cur'  = [cur EXCEPT ![s] = NoTx]
    /\ seen' = [seen EXCEPT ![s] = NothingSeen]
    /\ res'  = [res EXCEPT ![s] = "NONE"]

\* Mutant: claims are committed in a transaction of their own.
UndoKeepsClaims(s) ==
    /\ case'     = Discard(case, s)
    /\ action'   = Discard(action, s)
    /\ outbox'   = Publish(outbox, s)
    /\ inserted' = {o \in inserted : o.by # s}
\* Mutant: the failed session is left open and keeps its row locks.
UndoNothing(s) == UNCHANGED <<case, action, outbox, inserted>>
Undo(s) ==
    /\ case'     = Discard(case, s)
    /\ action'   = Discard(action, s)
    /\ outbox'   = Discard(outbox, s)
    /\ inserted' = {o \in inserted : o.by # s}

Rollback(s, how) ==
    /\ Undo(s)
    /\ Goto(s, Finished(s, how))
    /\ Forget(s)
    /\ UNCHANGED outcomes

CommitWork(s) ==
    /\ case'     = Publish(case, s)
    /\ action'   = Publish(action, s)
    /\ outbox'   = Publish(outbox, s)
    /\ outcomes' = outcomes \cup {o \in inserted : o.by = s}
    /\ inserted' = {o \in inserted : o.by # s}
    /\ Goto(s, Finished(s, "processed"))
    /\ Forget(s)

-----------------------------------------------------------------------------
(* Creating and claiming work. *)

\* The payment.failed task: case (flushed OPEN, then RISK_ASSESSED: version 2),
\* approved FULL_AUTO decision, Action and outbox row, none of them committed.
\* With an adapter the same session goes on to execute the item, whose attempt
\* count is still 0.
Authorize(c) ==
    LET a == ActionOf[c] IN
    /\ pc[c] = "idle"
    /\ case'   = [case EXCEPT ![a] = Write(@, c,
                    [status |-> "RISK_ASSESSED", stage |-> "NONE", version |-> 2])]
    /\ action' = [action EXCEPT ![a] = Write(@, c, [@.val EXCEPT !.status = "AUTHORIZED"])]
    /\ outbox' = [outbox EXCEPT ![a] = Write(@, c, [@.val EXCEPT !.status = "PENDING"])]
    /\ \E adapter \in WebHasAdapter :
          todo' = [todo EXCEPT ![c] = IF adapter THEN {a} ELSE {}]
    /\ Goto(c, "next")
    /\ UNCHANGED <<outcomes, inserted, enabled, provider, cur, seen, res, crashes>>

\* Mutant: the query locks nothing and skips nothing.
ClaimableUnlocked ==
    { a \in Actions :
        LET o == outbox[a].val IN
        /\ o.status = "PENDING" \/ (o.status = "CLAIMED" /\ o.lease = "EXPIRED")
        /\ o.tries < MaxRetries }
\* Mutant: the budget is compared with <=.
ClaimableOnceMore ==
    { a \in Actions :
        LET o == outbox[a].val IN
        /\ outbox[a].by = NoTx
        /\ o.status = "PENDING" \/ (o.status = "CLAIMED" /\ o.lease = "EXPIRED")
        /\ o.tries <= MaxRetries }
Claimable ==
    { a \in Actions :
        LET o == outbox[a].val IN
        /\ outbox[a].by = NoTx            \* FOR UPDATE SKIP LOCKED
        /\ o.status = "PENDING" \/ (o.status = "CLAIMED" /\ o.lease = "EXPIRED")
        /\ o.tries < MaxRetries }

\* The oldest BatchSize claimable rows; which ones are oldest is left open.
Batches ==
    { S \in SUBSET Claimable :
        /\ S # {}
        /\ Cardinality(S) <= BatchSize
        /\ Cardinality(S) = BatchSize \/ S = Claimable }

\* Mutant: the attempt is counted when it ends, not when it is claimed.
ClaimedUncounted(o) == [status |-> "CLAIMED", lease |-> "HELD", tries |-> o.tries]
Claimed(o) == [status |-> "CLAIMED", lease |-> "HELD", tries |-> o.tries + 1]

Claim(w) ==
    /\ pc[w] = "idle"
    /\ \E S \in Batches :
        /\ outbox' = [a \in Actions |-> IF a \in S
                                       THEN Write(outbox[a], w, Claimed(outbox[a].val))
                                       ELSE outbox[a]]
        /\ todo' = [todo EXCEPT ![w] = S]
    /\ Goto(w, "next")
    /\ UNCHANGED <<case, action, outcomes, inserted, enabled, provider, cur, seen, res,
                   crashes>>

\* now() passes lease_expires_at.
LeaseExpires(a) ==
    /\ outbox[a].by = NoTx
    /\ outbox[a].val.status = "CLAIMED" /\ outbox[a].val.lease = "HELD"
    /\ outbox' = [outbox EXCEPT ![a] = Unlocked([@.val EXCEPT !.lease = "EXPIRED"])]
    /\ UNCHANGED <<case, action, outcomes, inserted, enabled, provider, sessionVars, crashes>>

-----------------------------------------------------------------------------
(* Executing one item: process_outbox_item. *)

\* ExecutionPreflightValidator.validate: the first check that fails decides
\* the status the Action is given.  The checks on rows that never change are
\* one (Executable); the attempt count cannot exceed the budget (Tries).
Verdict(a, s) ==
    LET x == Read(action[a], s) IN
    IF \/ Read(case[a], s).status \in TerminalStatus
       \/ x.status \notin {"AUTHORIZED", "EXECUTING"}
    THEN "SUPERSEDED"
    ELSE IF a \notin Executable \/ ~enabled THEN "CANCELLED"
    ELSE IF \E n \in Tries : x.attempts[n] = "SUCCEEDED" THEN "SUCCEEDED"
    ELSE "VALID"

Preflight(s) ==
    /\ pc[s] = "next"
    /\ \E a \in todo[s] :
        /\ todo' = [todo EXCEPT ![s] = @ \ {a}]
        /\ cur'  = [cur EXCEPT ![s] = a]
        /\ seen' = [seen EXCEPT ![s] = [case   |-> Read(case[a], s),
                                        action |-> Read(action[a], s).status]]
        /\ res'  = [res EXCEPT ![s] = Verdict(a, s)]
        /\ Goto(s, IF Verdict(a, s) = "VALID" THEN "begin" ELSE "block")
    /\ UNCHANGED <<tables, enabled, provider, crashes>>

NextItem(s) ==
    /\ Goto(s, "next")
    /\ cur'  = [cur EXCEPT ![s] = NoTx]
    /\ seen' = [seen EXCEPT ![s] = NothingSeen]
    /\ res'  = [res EXCEPT ![s] = "NONE"]
    /\ UNCHANGED todo

SetAction(a, s, status) ==
    action' = [action EXCEPT ![a] = Write(@, s, [Read(@, s) EXCEPT !.status = status])]
\* The Action and the attempt that is under way end in the same status.
SetExecuted(a, s, status) ==
    LET n == Read(outbox[a], s).tries IN
    action' = [action EXCEPT ![a] = Write(@, s, [status   |-> status,
                        attempts |-> [Read(@, s).attempts EXCEPT ![n] = status]])]
SetOutbox(a, s, status) ==
    outbox' = [outbox EXCEPT ![a] = Write(@, s, [Read(@, s) EXCEPT !.status = status])]

\* Mutant: work that somebody else has finished counts as completed.
OutboxAfterAny(verdict) == IF verdict # "CANCELLED" THEN "COMPLETED" ELSE "FAILED"
OutboxAfter(verdict) == IF verdict = "SUCCEEDED" THEN "COMPLETED" ELSE "FAILED"

Block(s) ==
    LET a == cur[s] IN
    /\ pc[s] = "block"
    /\ Free(action[a], s)
    /\ SetAction(a, s, res[s])
    /\ SetOutbox(a, s, OutboxAfter(res[s]))
    /\ NextItem(s)
    /\ UNCHANGED <<case, outcomes, inserted, enabled, provider, crashes>>

\* The ExecutionAttempt is inserted and the Action is EXECUTING before the call.
Begin(s) ==
    LET a == cur[s] IN
    /\ pc[s] = "begin"
    /\ Free(action[a], s)
    /\ SetExecuted(a, s, "EXECUTING")
    /\ Goto(s, "dispatch")
    /\ UNCHANGED <<case, outbox, outcomes, inserted, enabled, provider, todo, cur, seen, res,
                   crashes>>

\* Building the request raises; the caller logs it and goes on with the batch.
RequestError(s) ==
    /\ pc[s] = "dispatch"
    /\ cur[s] \in Malformed
    /\ NextItem(s)
    /\ UNCHANGED <<tables, enabled, provider, crashes>>

\* Mutant: a link that was made counts as a payment.
LinkReadyIsPaid(s, key) ==
    /\ links' = links \cup {key}
    /\ res' = [res EXCEPT ![s] = "paid"]
\* The provider makes the link of the key, or finds the one it has made before.
LinkReady(s, key) ==
    /\ links' = links \cup {key}
    /\ res' = [res EXCEPT ![s] = IF key \in paid THEN "paid" ELSE "created"]

\* A deterministic rejection, or 429.
Rejected(s, key) ==
    /\ res' \in {[res EXCEPT ![s] = answer] : answer \in {"rejected", "throttled"}}
    /\ UNCHANGED links

\* A timeout (no request id), or a 5xx or unreadable answer that has one: the
\* link may exist.
Ambiguous(s, key) ==
    /\ res' \in {[res EXCEPT ![s] = answer] : answer \in {"timeout", "ambiguous"}}
    /\ links' \in {links, links \cup {key}}

Dispatch(s) ==
    LET key == IdempotencyKey(cur[s]) IN
    /\ pc[s] = "dispatch"
    /\ cur[s] \notin Malformed
    /\ \/ LinkReady(s, key)
       \/ Rejected(s, key)
       \/ Ambiguous(s, key)
    /\ Goto(s, "result")
    /\ UNCHANGED <<tables, enabled, paid, todo, cur, seen, crashes>>

-----------------------------------------------------------------------------
(* Outcomes and the provider's answer. *)

OutcomesOf(a, s) == {o \in outcomes : o.action = a}
                        \cup {o \in inserted : o.action = a /\ o.by = s}

\* Mutant: every call inserts a row.
InsertOutcome(s, a, status) ==
    inserted' = inserted \cup {[action |-> a, by |-> s, status |-> status]}
\* record_outcome returns the outcome of the Action if one is visible, whatever
\* its status, and inserts one otherwise.
RecordOutcome(s, a, status) ==
    inserted' = inserted \cup
        {o \in {[action |-> a, by |-> s, status |-> status]} : OutcomesOf(a, s) = {}}

Unchecked(s) == TRUE \* Mutant: the case has no version column.
\* The UPDATE of the case row by the version this session loaded finds it.
Fresh(s) == Read(case[cur[s]], s).version = seen[s].case.version
SetCase(s, status, stage) ==
    case' = [case EXCEPT ![cur[s]] =
        Write(@, s, [status |-> status, stage |-> stage, version |-> Read(@, s).version + 1])]

UpdatesCase(s) == \/ pc[s] = "writeCase"
                  \/ pc[s] = "result" /\ res[s] \in {"created", "paid"}

\* The link exists and waits for the customer.
LinkCreated(s) ==
    LET a == cur[s] IN
    /\ pc[s] = "result" /\ res[s] = "created"
    /\ Free(case[a], s) /\ Fresh(s)
    /\ SetExecuted(a, s, "SUCCEEDED")
    /\ SetOutbox(a, s, "COMPLETED")
    /\ SetCase(s, seen[s].case.status, "WAITING_FOR_PAYMENT")
    /\ NextItem(s)
    /\ UNCHANGED <<outcomes, inserted, enabled, provider, crashes>>

\* The link of an earlier, rolled back, attempt is paid already.  The stage is
\* not touched on this path.
LinkPaid(s) ==
    LET a == cur[s] IN
    /\ pc[s] = "result" /\ res[s] = "paid"
    /\ Free(case[a], s) /\ Fresh(s)
    /\ SetExecuted(a, s, "SUCCEEDED")
    /\ SetOutbox(a, s, "COMPLETED")
    /\ SetCase(s, "RECOVERED", seen[s].case.stage)
    /\ RecordOutcome(s, a, "RECOVERED")
    /\ NextItem(s)
    /\ UNCHANGED <<outcomes, enabled, provider, crashes>>

\* A rejection is final (FAILED, or DEAD_LETTERED with the last attempt).  A
\* throttled request may be retried: its outbox row keeps its status while the
\* budget lasts.
ExecutionFailed(s) ==
    LET a     == cur[s]
        spent == Read(outbox[a], s).tries >= MaxRetries
    IN
    /\ pc[s] = "result" /\ res[s] \in {"rejected", "throttled"}
    /\ SetExecuted(a, s, "FAILED")
    /\ IF spent THEN SetOutbox(a, s, "DEAD_LETTERED")
       ELSE IF res[s] = "rejected" THEN SetOutbox(a, s, "FAILED")
       ELSE UNCHANGED outbox
    /\ RecordOutcome(s, a, "FAILED")
    /\ NextItem(s)
    /\ UNCHANGED <<case, outcomes, enabled, provider, crashes>>

\* Reconciliation follows at once when the answer carried a request id.
ExecutionUnknown(s) ==
    LET a == cur[s] IN
    /\ pc[s] = "result" /\ res[s] \in {"timeout", "ambiguous"}
    /\ SetExecuted(a, s, "UNKNOWN")
    /\ RecordOutcome(s, a, "UNKNOWN")
    /\ \/ /\ res[s] = "timeout"
          /\ NextItem(s)
       \/ /\ res[s] = "ambiguous"
          /\ Goto(s, "reconcile")
          /\ UNCHANGED <<todo, cur, seen, res>>
    /\ UNCHANGED <<case, outbox, outcomes, enabled, provider, crashes>>

\* The provider is asked for a link by that request id.  It can only report a
\* link that exists; not finding it, or not answering, is always possible.
Reconcile(s) ==
    LET a == cur[s] IN
    /\ pc[s] = "reconcile"
    /\ \/ /\ \E l \in links : l.action = a
          /\ SetExecuted(a, s, "SUCCEEDED")
          /\ SetOutbox(a, s, "COMPLETED")
       \/ /\ SetExecuted(a, s, "FAILED")
          /\ SetOutbox(a, s, "FAILED")
       \/ UNCHANGED <<action, outbox>>
    /\ NextItem(s)
    /\ UNCHANGED <<case, outcomes, inserted, enabled, provider, crashes>>

-----------------------------------------------------------------------------
(* A confirmed payment event: _handle_payment_success_event. *)

\* The customer pays a link; the provider reports it.  Intake stores each
\* event once and schedules its task (modelled in WebhookIntake).
Pay(l) ==
    /\ l \in links \ paid
    /\ paid' = paid \cup {l}
    /\ UNCHANGED <<tables, enabled, links, sessionVars, crashes>>

Deliver(h) ==
    /\ pc[h] = "idle"
    /\ \E l \in paid : l.action = ActionOf[h]
    /\ Goto(h, "stored")
    /\ UNCHANGED <<tables, enabled, provider, todo, cur, seen, res, crashes>>

\* The event's case is read first, its Action later; what is to be written is
\* decided from the two.  An event that maps to no committed case is marked
\* processed.
LoadCase(h) ==
    LET c == case[ActionOf[h]].val IN
    /\ pc[h] = "stored"
    /\ \/ /\ c.status = "ABSENT"
          /\ Goto(h, "processed")
          /\ UNCHANGED <<cur, seen>>
       \/ /\ c.status # "ABSENT"
          /\ Goto(h, "loaded")
          /\ cur'  = [cur EXCEPT ![h] = ActionOf[h]]
          /\ seen' = [seen EXCEPT ![h] = [case |-> c, action |-> "ABSENT"]]
    /\ UNCHANGED <<tables, enabled, provider, todo, res, crashes>>

LoadAction(h) ==
    LET x == action[cur[h]].val.status IN
    /\ pc[h] = "loaded"
    /\ seen' = [seen EXCEPT ![h] = [@ EXCEPT !.action = x]]
    /\ Goto(h, IF seen[h].case.status # "RECOVERED" THEN "writeCase"
               ELSE IF x # "SUCCEEDED" THEN "writeAction" ELSE "outcome")
    /\ UNCHANGED <<tables, enabled, provider, todo, cur, res, crashes>>

\* The flush writes the case first, then the Action.  A transition that is not
\* allowed is logged and leaves the status; the stage is set all the same.
WriteCase(h) ==
    /\ pc[h] = "writeCase"
    /\ Free(case[cur[h]], h) /\ Fresh(h)
    /\ SetCase(h, IF CanTransition(seen[h].case.status, "RECOVERED")
                  THEN "RECOVERED" ELSE seen[h].case.status, "RECOVERED")
    /\ Goto(h, IF seen[h].action # "SUCCEEDED" THEN "writeAction" ELSE "outcome")
    /\ UNCHANGED <<action, outbox, outcomes, inserted, enabled, provider, todo, cur, seen, res,
                   crashes>>

WriteAction(h) ==
    /\ pc[h] = "writeAction"
    /\ Free(action[cur[h]], h)
    /\ SetAction(cur[h], h, "SUCCEEDED")
    /\ Goto(h, "outcome")
    /\ UNCHANGED <<case, outbox, outcomes, inserted, enabled, provider, todo, cur, seen, res,
                   crashes>>

\* Mutant: a failure of record_outcome is logged and passed over.
WriteOutcomeOrNot(h) ==
    /\ pc[h] = "outcome"
    /\ RecordOutcome(h, cur[h], "RECOVERED") \/ UNCHANGED inserted
    /\ Goto(h, "commit")
    /\ UNCHANGED <<case, action, outbox, outcomes, enabled, provider, todo, cur, seen, res,
                   crashes>>
WriteOutcome(h) ==
    /\ pc[h] = "outcome"
    /\ RecordOutcome(h, cur[h], "RECOVERED")
    /\ Goto(h, "commit")
    /\ UNCHANGED <<case, action, outbox, outcomes, enabled, provider, todo, cur, seen, res,
                   crashes>>

-----------------------------------------------------------------------------
(* The end of a transaction. *)

Commit(s) ==
    /\ \/ pc[s] = "next" /\ todo[s] = {}
       \/ pc[s] = "commit"
    /\ CommitWork(s)
    /\ UNCHANGED <<enabled, provider, crashes>>

\* StaleDataError.  The whole session is rolled back: a poller's batch with
\* every item it has dispatched, or the one event.
StaleData(s) ==
    /\ UpdatesCase(s)
    /\ Free(case[cur[s]], s) /\ ~Fresh(s)
    /\ Rollback(s, "dropped")
    /\ UNCHANGED <<enabled, provider, crashes>>

\* The session whose row lock s waits for.
AwaitedBy(s) ==
    IF UpdatesCase(s) THEN case[cur[s]].by
    ELSE IF pc[s] \in {"begin", "block", "writeAction"} THEN action[cur[s]].by
    ELSE NoTx

\* PostgreSQL aborts one of two sessions that wait for each other.
DeadlockVictim(s) ==
    /\ \E t \in Sessions \ {s} : AwaitedBy(s) = t /\ AwaitedBy(t) = s
    /\ Rollback(s, "dropped")
    /\ UNCHANGED <<enabled, provider, crashes>>

Active(s) == pc[s] \notin {"idle", "processed", "dropped"}

\* A restart, or a lost database connection.
Crash(s) ==
    /\ Active(s)
    /\ crashes < MaxCrashes
    /\ crashes' = crashes + 1
    /\ Rollback(s, "dropped")
    /\ UNCHANGED <<enabled, provider>>

\* An operator flips execution_enabled.
SetExecutionEnabled ==
    /\ enabled' = ~enabled
    /\ UNCHANGED <<tables, provider, sessionVars, crashes>>

Execute(s) ==
    \/ Preflight(s) \/ Block(s) \/ Begin(s) \/ RequestError(s) \/ Dispatch(s)
    \/ LinkCreated(s) \/ LinkPaid(s) \/ ExecutionFailed(s) \/ ExecutionUnknown(s)
    \/ Reconcile(s)
Handle(h) ==
    LoadCase(h) \/ LoadAction(h) \/ WriteCase(h) \/ WriteAction(h) \/ WriteOutcome(h)
Finish(s) == Commit(s) \/ StaleData(s) \/ DeadlockVictim(s)

Next ==
    \/ \E c \in Cycles : Authorize(c)
    \/ \E w \in Workers : Claim(w)
    \/ \E s \in Executors : Execute(s)
    \/ \E h \in Handlers : Deliver(h) \/ Handle(h)
    \/ \E s \in Sessions : Finish(s) \/ Crash(s)
    \/ \E a \in Actions : LeaseExpires(a)
    \/ \E l \in links : Pay(l)
    \/ SetExecutionEnabled

Spec == Init /\ [][Next]_vars

\* A running process goes on with its session, the pollers sweep every few
\* seconds and time passes.  A webhook task that waits for a row lock is in
\* PostgreSQL's queue and is next when the lock is released: strong fairness.
\* Nothing says that a customer pays, an event arrives or a session crashes.
Fairness ==
    /\ \A w \in Workers : WF_vars(Claim(w))
    /\ \A s \in Executors : WF_vars(Execute(s))
    /\ \A h \in Handlers : SF_vars(Handle(h))
    /\ \A s \in Sessions : WF_vars(Finish(s))
    /\ \A a \in Actions : WF_vars(LeaseExpires(a))

FairSpec == Spec /\ Fairness

-----------------------------------------------------------------------------
(* What the code promises. *)

\* The shape of every table, session and provider record: the columns hold the
\* values of the enumerations in app/domain, attempt_count stays within
\* max_retries.
TypeOK ==
    /\ case \in [Actions -> Row(CaseRow)]
    /\ action \in [Actions -> Row(ActionRow)]
    /\ outbox \in [Actions -> Row(OutboxRow)]
    /\ outcomes \subseteq Outcome
    /\ inserted \subseteq Outcome
    /\ enabled \in BOOLEAN
    /\ links \subseteq Keys
    /\ paid \subseteq links
    /\ pc \in [Sessions -> Label]
    /\ todo \in [Sessions -> SUBSET Actions]
    /\ cur \in [Sessions -> Actions \cup {NoTx}]
    /\ seen \in [Sessions -> Loaded]
    /\ res \in [Sessions -> Answer]
    /\ crashes \in 0..MaxCrashes

\* An item is in the hands of one executor at a time, from the claim (or the
\* creation) to the end of its transaction: FOR UPDATE SKIP LOCKED and the
\* invisible rows of a cycle keep the others away.
Holds(s, a) == a \in todo[s] \/ cur[s] = a
OneExecutor ==
    \A s, t \in Executors : \A a \in Actions : Holds(s, a) /\ Holds(t, a) => s = t

\* An Action and its outbox row agree after every commit, whichever of two
\* executors and a confirmation has written one of them last.  An Action that
\* waits for its execution has a row that a poller will claim with the whole
\* budget, whatever was executed and lost before; a COMPLETED row is that of an
\* Action that succeeded; and an Action that succeeded is not executed again: its
\* row is COMPLETED, or the preflight finds its case RECOVERED.
ItemsAgree ==
    \A a \in Actions :
        LET row    == outbox[a].val
            status == action[a].val.status
        IN /\ status = "AUTHORIZED" => row.status = "PENDING" /\ row.tries = 0
           /\ row.status = "COMPLETED" => status = "SUCCEEDED"
           /\ status = "SUCCEEDED" =>
                 row.status = "COMPLETED" \/ case[a].val.status = "RECOVERED"

\* An Action has at most one committed RecoveryOutcome although no unique
\* constraint says so: the row locks and the case version order the writers.
\* With two, record_outcome's scalar_one_or_none would raise for ever.
AtMostOneOutcome == \A o, p \in outcomes : o.action = p.action => o = p

\* A case is RECOVERED, and an outcome says so, only when the provider has
\* confirmed a payment; a link that was merely created recovers nothing.
RecoveredIsPaid ==
    \A a \in Actions :
        \/ case[a].val.status = "RECOVERED"
        \/ \E o \in outcomes : o.action = a /\ o.status = "RECOVERED"
        => \E l \in paid : l.action = a

\* The transaction that commits a case as RECOVERED leaves an outcome of its
\* Action behind, its own or an earlier one.
RecoveredHasOutcome ==
    \A a \in Actions :
        case[a].val.status = "RECOVERED" => \E o \in outcomes : o.action = a

\* A committed COMPLETED outbox row belongs to a link that exists: an ambiguous
\* answer alone never completes the item.
CompletedHasLink ==
    \A a \in Actions :
        outbox[a].val.status = "COMPLETED" => \E l \in links : l.action = a

\* The attempt a session is about to insert has a number no committed attempt
\* of the Action has, so the unique index never fails the batch.
AttemptNumberFree ==
    \A s \in Executors :
        pc[s] = "begin" =>
            action[cur[s]].val.attempts[Read(outbox[cur[s]], s).tries] = "NONE"

\* Once a case is committed as RECOVERED its row never changes again, whatever
\* the sessions had loaded before: no stale WAITING_FOR_PAYMENT, no second
\* confirmation.
RecoveredIsFinal ==
    [][\A a \in Actions :
        case[a].val.status = "RECOVERED" => case'[a].val = case[a].val]_vars

\* A poller that keeps running takes every committed Action with a well-formed
\* payload out of AUTHORIZED: the outbox row survives restarts, rollbacks and
\* deadlocks of the sessions that claim it.
AuthorizedIsExecuted ==
    \A a \in Actions \ Malformed :
        action[a].val.status = "AUTHORIZED" ~> action[a].val.status # "AUTHORIZED"

\* Every session comes to an end, however the row locks and the deadlocks
\* between pollers and webhook tasks fall.
SessionEnds == \A s \in Sessions : Active(s) ~> ~Active(s)

-----------------------------------------------------------------------------
(* What a comment or a test says and the code does not keep. *)

\* worker.py: an item left PENDING because the provider returned UNKNOWN "is
\* claimed and reconciled by a durable consumer".
UnknownIsReconciled ==
    \A a \in Actions :
        action[a].val.status = "UNKNOWN" ~> action[a].val.status \in {"SUCCEEDED", "FAILED"}

=============================================================================
