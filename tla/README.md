# Formal models of ARIV

ARIV reacts to failed payments: a `payment.failed` webhook opens a recovery
case, a decision engine proposes an action, a policy approves it, and a
governed executor calls the payment provider (Razorpay) and waits for the
customer to pay. This directory models the part of the backend
(`src/app`) whose correctness depends on the order in which several database
sessions, the provider and failures act, and the rules those sessions follow;
the models are checked with TLC on small instances and the main theorems are
proved with TLAPS.

## The system's parts

| Part | Source (under `src/app`) | State | Operations |
|---|---|---|---|
| Webhook intake | `api/webhooks/razorpay.py`, `core/idempotency.py`, first half of `services/ingestion.py` | Redis keys, `provider_events`, tenants, in-process background tasks | receive, deduplicate, store, answer, process |
| Decision cycle | `services/decision_engine.py`, `services/systemic_intelligence.py` | case, decision, the route buffer of the process | sense, decide, commit, authorize |
| Rules | `services/policy.py`, `classification.py`, `baseline.py`, `candidate_generator.py`, `economic_optimizer.py`, `probability_provider.py`, `decision_authority.py` | none | pure functions |
| Execution outbox and worker | `services/outbox.py`, `services/execution_worker.py`, `worker.py` | Action, attempts, outbox row, case, outcome | claim, preflight, call, record |
| Reconciliation | `services/reconciliation.py` | Action, attempt, outbox row | ask the provider about an UNKNOWN result |
| Provider adapter | `infrastructure/adapters/razorpay.py` | none (the provider's links) | create, fetch, cancel; normalise the answer |
| Tool gateway and agent | `services/mcp_gateway.py`, `services/mcp_tools.py`, `api/mcp.py`, `api/agent.py` | case, Action, links | check a request, make a link, record it, answer |
| Payment confirmation | `services/ingestion.py` `_handle_payment_success_event` | case, Action, outcome | resolve, decide, write, commit |
| Outcomes and measurements | `services/recovery.py` | outcomes, measurements, experiments | record, attribute, measure |
| Reports | `services/dashboard.py`, `api/recovery.py`, questions to `api/agent.py` | none | sum, count, look up |
| Execution control | `services/execution_control.py` | the `execution_enabled` setting | read, set |
| Case state machine | `domain/state_machine.py`, `domain/recovery_case.py` | `status`, `version` | transition |
| Knowledge outbox | `services/qdrant_indexer.py`, `main.py` | knowledge rows, the Qdrant collection | trigger, drain, index |
| Presentation | `activity`, `telegram`, `health`, frontend | none of their own | best effort |

How they interact: everything shares one PostgreSQL database. An HTTP request,
a background task of a webhook, the execution poller and the knowledge drain
loop each have a session of their own, so they meet only through row locks,
the version column of the case row, unique indexes, and what another session
has committed. The decision cycles of one process also share a buffer in its
memory. The provider is called from inside a transaction; its side effects are
not undone by a rollback.

The hard behaviours are therefore: a call that succeeded and whose transaction
did not; a row that was read and has changed before it is written; two sessions
that lock rows in opposite orders; several items that share one transaction;
several sources of payment links for one case; several events of one payment; a
background task or a buffer that exists only in memory. PROJECT.json lists
them, each at its line, with the properties that cover it.

What makes each part correct: the executor calls the provider for an Action
under one idempotency key, one executor at a time, never for a terminal case;
a confirmed payment makes its case RECOVERED exactly once, with one outcome,
for good; what is reported as recovered was paid; no link is recorded or told
of that does not exist; execution that is turned off stays off; no authorized
Action is forgotten; a stored event has at most one effect; an accepted event
is durable; the language model advises and does not decide; a row marked
COMPLETED in the knowledge outbox is in the index; retries stay within their
budget.

## Modules

| Module | Models | Used by |
|---|---|---|
| `CaseStateMachine` | case statuses, transition table, terminal statuses | all case models |
| `RowLocks` | a table's rows under READ COMMITTED | all models with sessions |
| `PolicyEngine`, `ProviderAnswers` | policy verdicts; answers of the adapter | `DecisionRules`, `ToolGateway` |
| `ExecutionOutbox` | outbox, worker, poller, confirmation | |
| `KnowledgeOutbox` | from measurements to the vector index | |
| `WebhookIntake` | from a delivery to the commit of its handling | |
| `ToolGateway`, `LinkRegister` | gateway and agent over one case; what a case promises about its link | |
| `DecisionRules`, `DecisionCycle` | the rules of a decision; interleaved cycles | |
| `RecoveryOutcomes`, `RecoveryReports`, `PaymentOutcomes` | outcome and measurement rules; reports; from payments to reports | |
| `MC*` | values for TLC | runs |
| `*Inv` | what of a model's invariants is not a property of its own: lock disciplines, amounts | proofs |
| `*Proofs`, `ExecutionOutboxProvider`, `PaymentOutcomesAmounts` | theorems | |

`RowLocks` holds a row as PostgreSQL's READ COMMITTED shows it: the committed
value, the value its writer has written, and the writer. It is the external
semantics the session models rely on: a writer waits for the holder of a row
(`Free`), a reader sees its own writes and what is committed (`Read`), COMMIT
and ROLLBACK end all locks of a session (`Publish`, `Discard`). Foreign-key
locks do not conflict with the updates of this code and are left out.

`ExecutionOutbox` is the core. Sessions are decision cycles, pollers and
webhook tasks; the rows of a case, its Action, its attempts and its outbox
entry are indexed by the Action, as one `payment.failed` event creates one of
each. `pc` says where a session is between two awaits; `todo`, `cur`, `seen`
and `res` are the local variables of `poll_once`, `process_outbox_item` and the
handler. The actions correspond to the code as follows.

| Action | Code |
|---|---|
| `Authorize` | the decision cycle up to `create_authorized_action`, uncommitted |
| `Claim`, `LeaseExpires` | `claim_pending_items`: the query with `SKIP LOCKED`, the limit, the lease |
| `Preflight`, `Block` | `ExecutionPreflightValidator.validate` and the branch for a refusal |
| `Begin`, `RequestError`, `Dispatch` | the attempt row, an invalid request, the provider's answer |
| `LinkCreated`, `LinkPaid`, `ExecutionFailed`, `ExecutionUnknown`, `Reconcile` | what each answer writes |
| `Pay`, `Deliver` | a customer pays; the event's task starts |
| `LoadCase`, `LoadAction`, `WriteCase`, `WriteAction`, `WriteOutcome` | `_handle_payment_success_event`, one action per await that reads or writes |
| `Commit`, `StaleData`, `DeadlockVictim`, `Crash` | the ends of a session |
| `SetExecutionEnabled` | an operator changes the switch |

Simplifications, and why they lose nothing the properties see:

- The checks of the preflight on rows that never change after the decision
  (policy status, autonomy, revalidation, stopping rule, capability) are the
  constant `Executable`. The check of the attempt count against the budget
  cannot fail there, as `attempt_count` only grows at a claim that requires
  it to be below the budget.
- The preflight reads the case and the Action in one step. Both are read
  again, by version and under the row lock, when they are written.
- PARTIALLY_RECOVERED is one with RECOVERED; `PaymentOutcomes` has the amounts.
  QUEUED, PROPOSED, and the case statuses FAILED and CLOSED are never assigned
  by the modelled code.
- The Action's expiry, alerts, audit and activity rows, and the link's URL are
  left out: nothing modelled reads them.
- `Malformed` are Actions whose payload fails the validation of the provider
  request (`domain/provider.py:94-115`). Their item stays CLAIMED.
- After a `StaleDataError` inside `poll_once` the later items of the batch fail
  on the aborted transaction and the commit fails, so the whole batch is
  rolled back at once (`StaleData`).

`ExecutionOutboxInv` states the lock discipline, `MCExecutionOutbox` gives TLC
its values; `ExecutionOutboxProofs` and `ExecutionOutboxProvider` hold the proofs.

`KnowledgeOutbox` is the queue from committed measurements to the vector index.
Its sessions are creators, the triggers they start, and the drainer of each
process. `row` is the knowledge row with its lock, `vectors` the points in the
index, `release` the `KNOWLEDGE_INDEX_VERSION` of the code a process runs.

| Action | Code (`services/qdrant_indexer.py` unless said) |
|---|---|
| `Create`, `CreateFails` | `create_outbox_entry` and `create_task` in `recovery.py`, before the commit; the rollback of the handler |
| `Sweep` | `claim_pending_items`: query, order, limit, `_needs_processing`, the claim |
| `Trigger` | `process_outbox_item_safe`: one row, by measurement, `SKIP LOCKED` |
| `Index` (`Indexed`, `IndexingFails`) | `process_item`: the upsert with an id made from the measurement, success, failure with or without the point |
| `Commit` | `_knowledge_drain_loop` in `main.py` and the trigger's own commit |
| `Restart` | a process ends with all its sessions and starts again, perhaps with another release |

- A claim, the calls of the index and their results are one transaction, so no
  row is ever committed as CLAIMED and leases never decide anything; the model
  lets a CLAIMED row be taken up at once.
- A sweep that claims nothing closes its session without a commit; the effect
  is that of an empty transaction.
- `attempt_count`, `max_retries` and the index version are numbers; what is
  indexed (text, embedding, similarity) is not modelled.

`KnowledgeOutboxProofs` holds its proofs.

`WebhookIntake` is the way of an event from the HTTP request to the commit of
its handling. A request and its background task go by one name. `redis` are the
keys that are set, `stored` says which request inserted an event's row,
`tenants` which account each tenant is bound to, `effects` what handled events
have committed.

| Action | Code |
|---|---|
| `Receive` | a delivery passes signature and JSON checks (`razorpay_webhook`) |
| `CheckKey`, `KeyExpires` | `acquire_redis_lock`; also an outage, or an answer that is lost after the key was set |
| `Persist`, `PersistFails` | `persist_event_pg`: inserted, duplicate, failed with or without the row |
| `Accept` | `add_task` and the 200 |
| `FindTenant`, `Bootstrap` | the two queries of `resolve_tenant`, each with what it does next |
| `Handle`, `HandleFails` | the rest of `process_provider_event` and its commit; an exception or a restart |
| `Crash` | the process of a request stops |
| `Provision`, `BindDemo` | an operator maps an account; `_bootstrap_demo_tenant` |

- What `Handle` commits is one effect. The two handlers use the task's session
  and do not commit it themselves before `process_provider_event` does, which
  is why one step is enough; inside, `ExecutionOutbox` takes the handling apart.
- A process that stops takes all its requests and tasks with it; here each may
  stop by itself, which allows more.
- `BindDemo` is one step, although it is two queries and a commit: one process
  starts at a time.

`ToolGateway` is the gateway over one recovery case. Sessions are requests of
the agent (`Asks`), `tools/call` requests (`Calls`) and pollers with the
outbox entry of the case's own decision (`Queued`). A request has one database
session that `get_db_session` never commits; only a link with a `short_url`
brings the gateway to commit. `row` is the case row with its version, `seen`
what a session loaded first and keeps, `links` the links the provider has,
`committed` whose Action is committed. The case objects in the model are those
the decision cycle, the ingestion and the demo seed can leave behind (`Cases`).

| Action | Code (`services/mcp_gateway.py` unless said) |
|---|---|
| `Ask` | the agent's request for a recovery up to the gateway's check of the adapter (`api/agent.py`, BRANCH 1) |
| `CallCreate`, `CallFetch`, `CallCancel` | `api/mcp.py` and `invoke`: registration, input, tenant and case, adapter; a fetch; a cancel, which always fails |
| `Gate` | terminal status, existing link, policy, kill switch, preview |
| `Preflight` | the worker's preflight inside the request's session |
| `QueuedPreflight` | the poller's preflight, which reads everything anew |
| `Dispatch` | `create_payment_link` with every result of `ProviderAnswers` |
| `NotExecuted`, `Reconcile` | the worker's branches for FAILED and UNKNOWN |
| `WriteLink`, `Stale`, `Commit`, `LeaveUncommitted`, `TellSuccess` | the write of the case, the version check, the commit, the answer |
| `Toggle`, `Confirm`, `Crash` | an operator, a payment, a lost session |

- An answer is kept as success, failure or anything else; no property tells
  the error codes apart.
- Every request makes its own Action, so the session names the Action, its
  idempotency key and its link.
- The audit rows and activity events are left out: a request that does not
  commit loses them (below).

`LinkRegister` says what a case promises about its link, and `LinkPromise` that
the gateway implements it: `link` is the url of the committed row, `register`
and `told` are observers, `closed` is the status RECOVERED.

`ProviderAnswers` is a table: what the adapter makes of each thing that can
happen to a request, for its four calls, and which of them may have had an
effect.

`DecisionRules` holds the pure functions of a decision as operators:
`Classify`, `BaselineOf`, `RouteHealth`, `Eligible` and `Candidates`,
`NetRecovery` with the tie order, and `Decide`, which takes the first candidate
that `PolicyEngine!Evaluate` does not reject. Amounts are in fifths of a major
unit, as a probability is a prior of 3/5 or a share of five precedents: the
search returns five at most, and fewer than five count for nothing. Error texts
are sets of the words that are looked for.

`DecisionCycle` interleaves the cycles of one web process.

| Action | Code (`services/decision_engine.py` unless said) |
|---|---|
| `Sense`, `CannotClassify` | classification and the synchronous part of the cycle: `record_signal`, `analyze_route_health`; a null code or reason raises |
| `MakeDecision` | after the awaits: candidates, ranking, policy |
| `Commit`, `Fail` | case, decision and outbox row in the task's transaction; its rollback |
| `Tick`, `Restart` | time; the process ends and its buffer with it |

The memory search and the language model answer anything (`Histories`,
`Answers`), including nothing. The case is created in the same transaction, so
a cycle that fails leaves a stored event and a signal and nothing else.

`RecoveryOutcomes` holds `record_outcome`, `create_measurement` and
`assign_experiment` as operators; `RecoveryReports` the figures of the
dashboard, the recovery API and the branch the agent takes for a question;
`PaymentOutcomes` composes them with the sessions that handle payments. A case
may get links from its own Actions, from the agent, and from requests that were
rolled back (`Ghosts`).

| Action | Code |
|---|---|
| `ExecLoad`, `ExecLink`, `ExecPaid`, `ExecNoLink` | the executor of an own Action: what it reads first and what it commits for a link that is made, one that is found paid, and none (`ExecutionOutbox` has its statements) |
| `AskLink`, `LoseAction` | a request of the gateway that commits, and one that does not (`ToolGateway` has its steps) |
| `Pay` | a customer pays a link, or pays another tenant with its notes |
| `Load` | `_handle_payment_success_event` up to the tenant comparisons: case and Action from the notes, else the latest Action (`ActionFor`) |
| `Record` | the flush of case and Action, the lookup of an earlier outcome, outcome and measurement |
| `MeasureFails` | the exception that is only logged |
| `Commit`, `Lose` | commit; stale version, several earlier outcomes, unique index on the measurement, any other failure |

- What the knowledge outbox does with a measurement is in `KnowledgeOutbox`.
- A session holds the rows it has to change from its flush to its end; a row it
  has nothing to change in is not locked, which decides what two payments of
  one case can do (below).
- Experiments: one active experiment whose allocation holds out `Held`.
- A measurement has the identity of the session that inserted it, so a second
  one of an outcome is a second row, and only the unique index (`Collides`)
  keeps it out.
- The look-up of an Action by the `provider_request_id` of its attempts
  (`ingestion.py:169-182`) is not a step of its own: the attempt of an Action
  names the link whose notes name that Action, and a ghost's attempt is rolled
  back with its Action.
- Executors wrap `record_outcome` and `create_measurement` in a try that logs
  (`execution_worker.py:450-480`). A measurement may fail there (`ExecPaid`).
  `record_outcome` may not: several outcomes of its Action cannot be, as
  `AtMostOneOutcome` says, and an error of the database ends the whole
  transaction, which is a rollback of the item.
- A link of the decision cycle asks for the amount of its case, or the case has
  none (`OutcomeAssumption`).

## Runs

| Run | Question | Result |
|---|---|---|
| `exec_rows` | what may happen to the rows of one Action: cycles that execute inline or leave it to the pollers, two pollers, two confirmations, two crashes, every answer of the provider | Action and outbox row agree after every commit, one outcome; RECOVERED has an outcome and a payment and is final; COMPLETED has a link |
| `exec_batch` | what two Actions in one poller's transaction do to each other, when one of them cannot be turned into a request | one executor per item, the attempt number is free, types and the budget |
| `exec_live` | do the pollers get there | every well-formed Action leaves AUTHORIZED, every session ends |
| `know_queue` | two measurements, two processes, two releases, a restart | committed rows agree with index and budget; one indexer per row; every recorded measurement is indexed or dead-lettered |
| `intake_effects` | three deliveries of two events of two accounts, two faults, an empty database, the demo bootstrap | one effect per event, accepted once, in a tenant of its account |
| `intake_live` | mapped accounts, no fault, Redis as it likes | every delivered event of a handled kind is processed |
| `gate_requests` | the agent, a `tools/call` and the queued entry want a link for one case, with a payment, a lost session and a flip of the switch | recorded links exist, one request commits, a refusal made nothing, the switch holds, the gateway implements `LinkRegister`, every request is answered |
| `decisions` | three failures decided by interleaving cycles, with time and a restart | the health read is that of the window, two retries at once at most, candidates pass the policy, the model's answer is advice |
| `outcomes` | two payments with three events between them, links of three origins, a link its executor finds paid, an event that fails, another tenant's payment | one outcome per Action, reported revenue was paid, case and outcome agree, no recovery is measured twice, attribution is timely, a case with one Action can be reported however many of its links are paid |

The other runs each refute one sentence of a comment, a document or an answer;
the sentence and the code at odds with it are quoted in PROJECT.json
("findings").

| Run | The sentence | What happens |
|---|---|---|
| `exec_unknown` | an UNKNOWN result is reconciled by the worker | the preflight of the next claim refuses the item and supersedes it |
| `gate_duplicate` | the safety rules prevent duplicate links | the agent's link is recorded while the case's own Action is queued, and the poller replaces it by a second one |
| `outcomes_twice` | `record_outcome` is idempotent per payment | two events of a payment without an Action insert two outcomes, and the revenue counts twice |

### Further disagreements

Seen while modelling, present in the models unless said, and not given runs of
their own. Where a property is named, it is the one that still holds around
them.

Execution and confirmation:

- The kill switch is read in the preflight (`execution_worker.py:191-198`), an
  insert and an awaited alert before the call; `execution_control.py:17-19` asks
  for a check at the moment of mutation. `KillSwitchHolds` allows for a call
  past its last check.
- The provider is called before the Action is committed
  (`decision_engine.py:338-363`, `ingestion.py:443`); `outbox.py:43-44` says that
  no authorized action is lost.
- A `StaleDataError` drops a confirmation (`ingestion.py:446-450`) and says that
  a concurrent task has advanced the case; the other task may have been a
  poller, and the case then stays unrecovered.
- A payment confirmed after an ambiguous answer finds the outcome UNKNOWN and
  keeps it (`recovery.py:56-63`), while `ingestion.py:119` says it is marked
  RECOVERED. `RecoveredHasOutcome` therefore asks for an outcome, not for its
  status; on the dashboard such a payment counts 0.
- An Action that has succeeded while its outbox row was claimable is set to
  SUPERSEDED by the next claim: check 7 of the preflight
  (`execution_worker.py:117-123`) comes before check 13 (187-189), which is
  meant for it. `RecoveredIsFinal` holds, and `ItemsAgree` says that the case is then
  RECOVERED.

Outcomes and reports:

- Two links of one case may both be paid. The events of the second payment can
  find case and Action already as they want them, take no lock and both insert
  an outcome; several outcomes of a case make `scalar_one_or_none` raise in the
  dashboard, the API and the agent. `OneOutcomePerAction` and `RevenueIsPaid` are
  therefore stated for cases with one payment, and `CaseIsAnswered` for cases
  with one Action, to which all their payments resolve.
- An executor that finds the link of an earlier try paid makes its case
  RECOVERED and leaves the stage alone (`execution_worker.py:428-434`). If it was
  WAITING_FOR_PAYMENT, the dashboard (`dashboard.py:270`) and the agent
  (`agent.py:858`) count the recovered case as one that waits.
  `RecoveredHasOutcome` allows exactly this.
- `assign_experiment` is called only when an outcome is measured
  (`recovery.py:247`): a CONTROL case was treated like every other.
- The baseline is 5% of an amount in major units, stored as minor units
  (`baseline.py:69`): a hundred times too small. No property is about
  the incremental estimate.
- "Organic before the action" compares with the time of handling, not of
  payment; NO_RECOVERY (`recovery.py:83`) is behind a condition that takes its
  cases first.
- The dashboard's AT RISK (`dashboard.py:227`, "not yet verified as recovered")
  sums all cases; eligible is every case that is not closed. Its queries see
  different states of the database, which the model does not show: it reads one.
- The amount of a link the agent is asked for is not bounded by that of its case
  (`mcp_gateway.py:586`). A case paid through a larger one recovers more than
  was at risk, and the dashboard's funnel widens; `RevenueIsPaid` says that it
  narrows for every other ordinary case.
- The agent calls every RECOVERED case "fully attributed" (`agent.py:1044`).

Gateway and agent:

- A request whose answer is no link is rolled back with its Action, although
  the link may exist; its audit row, which the docstring of
  `_record_audit_and_return` says is persisted, goes with it.
- `razorpay_cancel_payment_link` builds its request with `payment_link_id`
  (`mcp_gateway.py:720`), a field the request class does not have, and always
  raises.
- The recorded `payment_link_id` is the id of the request
  (`mcp_gateway.py:649-650`), so a fetch with the link's id is refused.
- The agent makes a payment link whatever action the decision proposes, if the
  policy approved it.
- The preflight of a request sees the case and the decision of the gate; only
  the kill switch is read again. It runs 16 checks, not the 18 of its docstring
  (`execution_worker.py:82`).

Decisions:

- Ties are broken "insertion-order-independent" (`economic_optimizer.py:131-132`),
  but WAIT and RETRY_NOW share a tier (21-22) and a stable sort leaves their
  order to the language model.
- Only failures are recorded as signals, so the failure rate is always 1 and
  route health is a count. A route is a tenant and a domain, as the case's
  context has no payment method.
- The fallback STOP_RECOVERY of an empty ranking and the branch for a REJECTED
  decision cannot be reached (`CandidatesPassPolicy`).

Intake and knowledge:

- The Redis key of an event survives a failed insert
  (`webhooks/razorpay.py:94-97`) and answers the redelivery as a duplicate, while
  `docs/DEPLOYMENT_RENDER.md:118-119` says that an event is acknowledged only
  after its row is committed.
- Two first events may each find no tenant and create two
  (`ingestion.py:56-57`, 78).
- The LIMIT of the drain's query comes before its filter
  (`qdrant_indexer.py:125-150`): completed rows can fill every batch and a
  PENDING row is never taken. `PendingIsSettled` holds when a batch can hold all
  rows.
- A knowledge row that was indexed by its last attempt is never re-drained into
  the next release's collection (`qdrant_indexer.py:48`, against 29-30), and
  while two releases run the older one re-drains what the newer has indexed
  (`!=` at 55, against 44-45). `CompletedIsIndexed` holds.
- A trigger that starts late makes one attempt for a dead-lettered row
  (`qdrant_indexer.py:226-238`, against 9); `TypeOK` says one at most.
- `_bootstrap_demo_tenant` picks its tenant by a name that bootstrapped tenants
  of real accounts also have (`main.py:104`, against 99) and rebinds it;
  `EffectInMappedTenant` says that nothing else does.

### Bounds

In `ExecutionOutbox` one Action with two pollers, a cycle and two confirmations
is enough for every pair of sessions to meet on one set of rows, and the rows of
different Actions meet only in a poller's transaction, which `exec_batch` adds.
`MaxRetries` of 2 or 3 leaves room for a failure, a retry and the last attempt;
two crashes allow one before and one after a link exists.
`WebHasAdapter = {TRUE, FALSE}` lets a cycle be of either configuration.

In `KnowledgeOutbox` two measurements make the order of the batch matter,
`BatchSize` 1 or 2 makes it full or not, two releases suffice as a process
compares its own with the one that is stored, and one restart lets the two run
side by side. In `WebhookIntake` two deliveries of one event race each other,
the third races them for the tenant; two faults let a failed insert be followed
by a failed task.

In `ToolGateway` one session of each kind meets each other kind on the row, and
the proofs are about any number; five kinds of case are those the gate tells
apart; one flip of the switch in either direction, one lost session.

In `DecisionCycle` the third failure on a route is the one that finds it
degraded; a window of one tick in a time of three lets signals fall out of the
window and out of the buffer; one of the three cycles takes every kind of
failure, answer and precedents, the others timeouts without a usable answer,
which makes them interchangeable.

In `PaymentOutcomes` one case has a link of each origin (the cycle's, the
agent's, one of a request that was rolled back) and the other only a link of the
last kind, so two payments let a case be paid once, twice through links that
resolve to one Action or to two, or by another tenant. `Events` says which events
the provider sends: two of the first payment, which race each other, and one of
the second, so that sessions of one and of two payments meet. A window of no
ticks and one tick make a payment timely or late, and one fault lets a session be
lost or a measurement fail. The two payments differ in their events, so the run
uses no symmetry; it has 1.9 million distinct states.

`MaxCrashes`, `MaxRestarts`, `MaxFaults`, `MaxToggles` and `MaxTime` bound what
the environment may do and nothing the code does. All other bounds are values
the code is configured with. The interchangeable cycles and the redeliveries of
one event are symmetric, in runs without liveness properties.

Deliveries, measurements, Actions, requests and payments are finite, so every
model comes to rest when all sessions are over; the runs that can reach such a
state turn the deadlock check off and say so. `SessionEnds`, `RequestEnds` and
the other liveness properties are what rule out a standstill before that.

### Fairness

The pollers and the drainers sweep at an interval whatever the last sweep did
(`worker.py`, `main.py`), and a process that runs goes on with the sessions and
background tasks it has: weak fairness of those steps, and of the steps of a
gateway session once it has started. A confirmation that waits for a row lock
stands in PostgreSQL's queue and is next when the lock is released: strong
fairness of its steps (`Handle`). A gateway session needs weak fairness only, as
each of the finitely many others holds the row once. A lease runs out as time
passes. Nothing is assumed about customers, deliveries, callers, the answers of
provider or index, or the absence of crashes, except in `intake_live`: a task
that fails is never run again (`docs/DEPLOYMENT_RENDER.md` says so too), so the
run has no faults. `PendingIsSettled` holds when a batch can hold all rows, as
said above. `DecisionCycle` and `PaymentOutcomes` state no liveness: a cycle or
a confirmation that fails is not repeated by anything.

## What is proved

Every safety property a run checks is also a theorem, for all sets of Actions,
sessions, measurements, releases, events, accounts, cycles, links and payments
and for any number of crashes. None of it assumes fairness. The assumptions are
those the modules name, and TLC evaluates each of them: session kinds are
disjoint, a session creates its own rows, a budget is a positive number
(`SessionAssumption`, `BoundAssumption`, `IntakeAssumption`,
`GatewayAssumption`); amounts are natural numbers, answers of the language model
are lists of actions of the vocabulary, and a history has no more recoveries
than attempts (`DecisionAssumption`); every link
has one case and, as `domain/provider.py:99` requires, a positive amount
(`OutcomeAssumption`).

*Execution outbox.* `TypeCorrect` includes that `attempt_count` stays within
`max_retries`: the count is raised at a claim which requires it to be smaller.
The other properties are not inductive: that an Action has one
outcome depends on who holds the Action's row lock, on what a session loaded
before it waited for that lock, and on the version it compares. `LockDiscipline`
(`ExecutionOutboxInv`) says which session holds which row where, what a loaded
version is worth, and what a transaction that is about to commit leaves behind;
it is proved inductive, action by action and conjunct by conjunct. From it follow
`ItemsHaveOneExecutor`, `ActionsHaveOneOutcome`, `RecoveredCasesHaveOutcome`
and, as an action property, `RecoveredCasesAreFinal`.

`ExecutionOutboxProvider` adds what the rows owe to the provider. `PaymentBehind`:
whoever has written RECOVERED, or is about to, has an event or an answer with
the payment of that Action in hand. `LinkBehind`: an item is COMPLETED, or held by
a session that will complete it, only after a link of its Action.
`AttemptsCounted`: no attempt has a number beyond the item's count, which rises
with every claim, and only who holds the item writes attempts. They give
`RecoveriesArePaid`, `CompletedItemsHaveLinks` and `AttemptNumbersAreFree`; each
needs `LockDiscipline`, because the write happens several steps after the fact
it relies on. `ItemsAlwaysAgree` compares two rows that different sessions write
at different times, so it is proved with what every open transaction would leave
behind if it committed next (`ItemsAgreePending`): a session that has claimed an
item or changed its Action holds the row that makes the other agree. That the
provider makes one link per idempotency key, and that the key is the Action's
(`execution_worker.py:387`), is how links are modelled and not a result.

*Knowledge outbox.* The invariant is `TypeOK` with `QueueDiscipline`: a claimed
row is locked by the session that has it, what is committed or about to be
agrees with the index and the budget (`Rests`), and only the trigger of a row,
which runs once, takes it beyond its budget. It gives `TypeCorrect`,
`RowsHaveOneIndexer`, `CompletedRowsAreIndexed`, `IndexedIsRecorded` and
`RowsAlwaysRest`.

*Webhook intake.* `TypeCorrect`, and `EventsHaveOneEffect` and
`AcceptedEventsAreStored`, which rest on `OneTask`: only the request that
inserted a row has a task for it, and the unique index never gives the row away;
Redis plays no part. `EffectsAreInTheirTenant` rests on `TenantFits` and
`OwnUnbound`: a resolved task holds a tenant that is bound to its event's account
or has become the demo tenant, or one of its own, which is not committed and
which no other task can have found.

*Tool gateway.* That one request commits depends on the version column. The
inductive invariant has these parts: the version a session has seen is at most
that of the row, and a session whose version is current has seen the committed
row (`SeenFits`); what it has seen after the gate is an open case, for a
request one without a link (`SeenOpen`); the row lock is held exactly by the
session that has written it, and what it has written is what it saw with its
own link and the next version (`RowHeld`); a request that is committed has left
its link on record, after which no session that saw the case without one can
pass the version check (`OneCommitted`). From it follow `RecordedLinksExist`,
`OneRequestCommits`, `FailuresMadeNothing`, `SwitchStops`, `RecoveredCasesStay`
and the refinement `GatewayKeepsPromise`: every step of the gateway is a
`Record`, `Tell` or `Close` of `LinkRegister`, or a stutter.

*Decision cycle.* `CandidatesPass` is a fact about the rules alone: a rule of the
candidates that admits an action is one under which the policy allows or
revalidates it, for every context. `BaselineStands` follows the ranking: the
baseline loses only to a candidate with a greater net value, or with the same
one and a better place in the tie-break. `HealthIsThatOfTheWindow` is about the
buffer: entries are only added at the present time, an eviction takes what is
older than two windows, so all failures of the last window are in it
(`Buffered`), each cycle has one entry (`Logged`), and the health a cycle reads
is that of the number of entries then in the window (`Counted`).
`RetriesAreLimited` puts them together: a third failure of a route in one window
reads DEGRADED, under which RETRY_NOW is no candidate (`Decided`, `Healthy`), so
the cycles that retry at once map one to one to the first two entries of the
window.

*Payments and outcomes.* That an Action has one outcome rests on no index but on
what a session holds when it looks for one. `Discipline` (`PaymentOutcomesInv`)
says which rows a session holds between flush and end (`Locks`), that an equal
version means an unchanged row (`Versions`), that an agent's Action shuts out
the next (`Stages`), that a session that may still write its case has loaded the
Action its payment resolves to (`StillResolves`), and where an outcome comes
from (`Origins`). It gives `TypesHold` and `RecoveredCasesHaveOutcomes`, and with
`Attribution` `CreditIsTimely`. `OneEach` adds, for cases all payments of which
resolve to one Action, that whoever comes after the recovery finds its outcome
and whoever is about to insert one holds the case; it gives
`ActionsHaveOneOutcome` and `CasesAreAnswered`.

`PaymentOutcomesAmounts` has the figures. `Amounts`: an outcome of an event has
the amount of the link that was paid; `Credited`: its Action is the one the
payment resolves to, and one that cannot be cancelled any more, which is what
makes its case an actioned one; `Measures`: a measurement is that of an outcome,
no two are of the same one, and no two outcomes have one id. That no outcome is
measured twice rests on the unique index for the sessions of events and, for an
executor, on the row of the case, which it holds from its look-up to its commit.
The sums of the reports are folds, which are chosen functions; `SummingExists`
constructs one by induction over subsets, and `SumStep` shows that it does not
depend on the order. `RevenueIsThatOfPayments`
then needs sums of at most one element, `MeasurementsAreOfRecoveries` an
induction over sets of measurements: what the two groups add up to and what is
not measured make the revenue.

Only model-checked are the liveness properties (`AuthorizedIsExecuted`,
`SessionEnds`, `PendingIsSettled`, `DeliveredIsProcessed`, `RequestEnds`):
fairness and ENABLED are beyond the prover. Induction is done over sets of
subsets and of numbers, as the induction theorems that take an operator cannot
be used. No module uses RECURSIVE. The three refuted sentences are shown by TLC's
counterexamples.

## What is not modelled

- The temporal layer and the alternative estimators (`temporal_*.py`,
  `wait_ev.py`, `route_aware_probability.py`, `estimator.py`) and
  `recovery_learning.py`: no part of the running system calls them, only
  benchmarks and tests; they are stateless floating point arithmetic.
- Wording, layout, explanations and confidence figures of the agent and the
  dashboard; what the read-only tools return; embedding and similarity; prompt
  and parsing of the language model.
- Telegram, activity and audit rows: best effort, read by nothing modelled.
- Money and value types, configuration, signature checks: values without state.
- Scripts, benchmarks, migrations and the frontend are not part of the running
  system.
- PostgreSQL, Redis, Qdrant, Razorpay and the event loop are modelled only as
  far as the code relies on them.

## Plan

Done: the execution core, the knowledge outbox, the intake, the gateway, the
decision cycle, payments, outcomes and reports, and the proofs of every safety
property the runs check. Next are abstract specifications, each with a
refinement mapping: a work queue that hands each item out under a budget
(`KnowledgeOutbox` and, with its leases, `ExecutionOutbox`), and a ledger with one
confirmed recovery per case (`ExecutionOutbox`, `PaymentOutcomes`).
