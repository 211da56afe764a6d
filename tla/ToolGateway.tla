----------------------------- MODULE ToolGateway -----------------------------
(***************************************************************************)
(* The tool gateway (services/mcp_gateway.py) over one recovery case: what *)
(* happens to the case, its Actions and the payment links at the provider  *)
(* when several sessions want a link for it at the same time.              *)
(*                                                                         *)
(*   - Asks:   "recover this case", asked of the agent (api/agent.py);     *)
(*   - Calls:  tools/call requests over JSON-RPC (api/mcp.py);             *)
(*   - Queued: the outbox entry of the case's own decision, executed by a  *)
(*             poller (ExecutionOutbox models pollers in full).            *)
(*                                                                         *)
(* A request runs in one database session that get_db_session never        *)
(* commits: the gateway's only commit follows a link with a short_url, and *)
(* all else a request wrote is rolled back.  The session keeps the case    *)
(* object it loaded first, and later queries do not refresh it; only the   *)
(* kill switch is read anew.  Every request makes an Action of its own, so *)
(* an idempotency key, and the link made under it, has the session's name. *)
(***************************************************************************)
EXTENDS Integers, FiniteSets, CaseStateMachine, RowLocks, PolicyEngine, ProviderAnswers

CONSTANTS Asks, Calls, Queued,
          NoLink,
          HasAdapter,  \* whether the web process has provider credentials
          MaxToggles,  \* bound: flips of the kill switch
          MaxCrashes   \* bound: sessions lost

Requests == Asks \cup Calls
Sessions == Requests \cup Queued

ASSUME GatewayAssumption ==
    /\ Asks \cap Calls = {} /\ Requests \cap Queued = {}
    /\ NoTx \notin Sessions /\ NoLink \notin Sessions
    /\ HasAdapter \subseteq BOOLEAN /\ HasAdapter # {}
    /\ MaxToggles \in Nat /\ MaxCrashes \in Nat

VARIABLES
    row,       \* the RecoveryCase row: [status, stage, url, version]
    facts,     \* its latest DecisionRecord and its domain
    enabled,   \* the execution_enabled setting
    links,     \* the links that exist at the provider
    committed, \* the sessions whose Action is committed
    pc,
    seen,      \* the case as the session loaded it
    ans,       \* the adapter's result
    reply,     \* the kind of the ToolResult
    register,  \* observer: every link that has been on record
    told,      \* observer: the links a requester was told of
    inFlight,  \* observer: who was past its last check when execution was disabled
    toggles, crashes

observer == <<register, told, inFlight>>
session  == <<pc, seen, ans, reply>>
bounds   == <<toggles, crashes>>
vars     == <<row, facts, enabled, links, committed, session, observer, bounds>>

Label == {"idle", "gate", "preflight", "dispatch", "result", "reconcile", "written",
          "answer", "done", "lost"}
Stage   == {"NONE", "WAITING_FOR_PAYMENT", "RECOVERED"}
CaseRow == [status : CaseStatus, stage : Stage, url : Sessions \cup {NoLink},
            version : Nat]
NoAnswer == [status |-> "UNKNOWN", safety |-> "UNKNOWN_RETRY_RISK", id |-> FALSE,
             url |-> FALSE]
Answer  == [status : OutcomeStatus, safety : RetrySafety, id : BOOLEAN, url : BOOLEAN]
\* Of an answer only its kind is kept: a success, a failed execution, or
\* anything else (a refusal, a preview, a read).
Failures == {"FAILED", "UNKNOWN", "ERROR"}
Kind(r) == IF r = "SUCCEEDED" THEN "SUCCESS" ELSE IF r \in Failures THEN "FAILURE"
           ELSE "OTHER"
Reply   == {"NONE", "SUCCESS", "FAILURE", "OTHER"}

\* A case without a decision is still OPEN, one whose decision needs a review
\* waits for approval; the cases with a REJECTED decision are those of the demo
\* seed, which are FAILED.  Versions are counted from here.
Facts == [decision : PolicyStatus \cup {"NONE"}, proposed : RecoveryAction,
          domain : RecoveryDomain]
NewCase(f) ==
    [status  |-> CASE f.decision = "NONE" -> "OPEN"
                   [] f.decision = "NEEDS_REVIEW" -> "PENDING_APPROVAL"
                   [] f.decision = "REJECTED" -> "FAILED"
                   [] OTHER -> "RISK_ASSESSED",
     stage |-> "NONE", url |-> NoLink, version |-> 0]

CONSTANT Cases \* the facts of the cases considered
ASSUME CasesAssumption == Cases \subseteq Facts /\ Cases # {}

Init ==
    /\ facts \in Cases
    /\ row = Unlocked(NewCase(facts))
    /\ enabled \in BOOLEAN
    /\ links = {} /\ committed = {}
    /\ pc      = [s \in Sessions |-> "idle"]
    /\ seen    = [s \in Sessions |-> NewCase(facts)]
    /\ ans     = [s \in Sessions |-> NoAnswer]
    /\ reply   = [s \in Sessions |-> "NONE"]
    /\ register = {} /\ told = {} /\ inFlight = {}
    /\ toggles = 0 /\ crashes = 0

Goto(s, label) == pc' = [pc EXCEPT ![s] = label]

\* A session that is over keeps nothing it had loaded.
Forget(s) ==
    /\ seen'    = [seen EXCEPT ![s] = NewCase(facts)]
    /\ ans'     = [ans EXCEPT ![s] = NoAnswer]
Keep == UNCHANGED <<seen, ans>>

\* The end of a request: its answer, and the link the answer names.
End(s, r) == Goto(s, "done") /\ reply' = [reply EXCEPT ![s] = Kind(r)] /\ Forget(s)
Tell(l) == told' = told \cup ({l} \ {NoLink})

-----------------------------------------------------------------------------
(* A request comes in. *)

\* Mutant: the condition on the status is the wrong way round.
WaitingWhenRecovered(c) == c.status = "RECOVERED" /\ c.url # NoLink
Waiting(c) == c.stage = "WAITING_FOR_PAYMENT" \/ c.url # NoLink

\* The agent loads the case and its decision and answers by itself where no
\* execution is needed (BRANCH 1); the gateway it then calls needs an adapter.
AgentAnswer(c, adapter) ==
    IF c.status = "RECOVERED" THEN "ALREADY_RECOVERED"
    ELSE IF Waiting(c) THEN "WAITING"
    ELSE IF facts.decision = "NONE" THEN "NO_INTELLIGENCE"
    ELSE IF facts.decision = "REJECTED" THEN "POLICY_REJECTED"
    ELSE IF ~adapter THEN "TOOL_NOT_PERMITTED"
    ELSE "NONE"

Load(s) == seen' = [seen EXCEPT ![s] = row.val]

Ask(s) ==
    /\ pc[s] = "idle"
    /\ \E adapter \in HasAdapter :
         LET r == AgentAnswer(row.val, adapter) IN
         \/ /\ r # "NONE"
            /\ End(s, r)
            /\ Tell(IF r = "WAITING" THEN row.val.url ELSE NoLink)
         \/ /\ r = "NONE"
            /\ Load(s)
            /\ Goto(s, "gate")
            /\ UNCHANGED <<reply, told, ans>>
    /\ UNCHANGED <<row, facts, enabled, links, committed, register, inFlight, bounds>>

\* invoke, up to the branch on the tool: the first check that fails decides.
Admission(known, valid, owned, adapter) ==
    IF ~known THEN "TOOL_NOT_FOUND"
    ELSE IF ~valid THEN "INVALID_TOOL_INPUT"
    ELSE IF ~owned THEN "TENANT_FORBIDDEN"
    ELSE IF ~adapter THEN "TOOL_NOT_PERMITTED"
    ELSE "NONE"

\* A tools/call of razorpay_create_payment_link.
CallCreate(s) ==
    /\ pc[s] = "idle"
    /\ \E known, valid, owned \in BOOLEAN, adapter \in HasAdapter :
         LET r == Admission(known, valid, owned, adapter) IN
         \/ /\ r # "NONE"
            /\ End(s, r)
         \/ /\ r = "NONE"
            /\ Load(s)
            /\ Goto(s, "gate")
            /\ UNCHANGED <<reply, ans>>
    /\ UNCHANGED <<row, facts, enabled, links, committed, observer, bounds>>

\* razorpay_fetch_payment_link for this case.  The payment_link_id on record may
\* be another one: a link's id, or the id of the request that made it.
FetchAnswer(recorded, adapter, h) ==
    IF ~(recorded /\ adapter) THEN Admission(TRUE, TRUE, recorded, adapter)
    ELSE IF Raises(h) THEN "ERROR"
    ELSE IF FetchPaymentLink(h).status = "SUCCEEDED" THEN "SUCCEEDED" ELSE "PROVIDER_ERROR"

CallFetch(s) ==
    /\ pc[s] = "idle"
    /\ \E recorded \in BOOLEAN, adapter \in HasAdapter, h \in Happening :
         End(s, FetchAnswer(recorded, adapter, h))
    /\ UNCHANGED <<row, facts, enabled, links, committed, observer, bounds>>

\* razorpay_cancel_payment_link: the request is built with a field its class
\* does not have, which raises before the provider is called.
CallCancel(s) ==
    /\ pc[s] = "idle"
    /\ \E dry \in BOOLEAN :
         End(s, IF ~enabled THEN "EXECUTION_DISABLED" ELSE IF dry THEN "PREVIEW" ELSE "ERROR")
    /\ UNCHANGED <<row, facts, enabled, links, committed, observer, bounds>>

-----------------------------------------------------------------------------
(* _execute_financial_tool for razorpay_create_payment_link. *)

LinkAllowed ==
    /\ facts.decision = "APPROVED"
    /\ Evaluate("GENERATE_PAYMENT_LINK", facts.domain, "UNKNOWN", "NONE").status = "APPROVED"

GateAnswer(s, preview) ==
    IF seen[s].status \in TerminalStatus THEN "IDEMPOTENCY_CONFLICT"
    ELSE IF Waiting(seen[s]) THEN "IDEMPOTENT_HIT"
    ELSE IF ~LinkAllowed THEN "POLICY_REJECTED"
    ELSE IF ~enabled THEN "EXECUTION_DISABLED"
    ELSE IF preview THEN "PREVIEW"
    ELSE "NONE"

\* Only a tools/call can ask for a preview.
Gate(s) ==
    /\ pc[s] = "gate"
    /\ \E preview \in BOOLEAN :
         LET r == GateAnswer(s, preview) IN
         /\ preview => s \in Calls
         /\ \/ /\ r # "NONE"
               /\ End(s, r)
               /\ Tell(IF r = "IDEMPOTENT_HIT" THEN seen[s].url ELSE NoLink)
            \/ /\ r = "NONE"
               /\ Goto(s, "preflight")
               /\ Keep
               /\ UNCHANGED <<reply, told>>
    /\ UNCHANGED <<row, facts, enabled, links, committed, register, inFlight, bounds>>

\* Mutant: a request that passed the gate is not checked again.
PreflightOnce(s) ==
    /\ pc[s] = "preflight"
    /\ Goto(s, "dispatch")
    /\ UNCHANGED <<row, facts, enabled, links, committed, seen, ans, reply,
                   observer, bounds>>
\* The preflight of process_outbox_item, inside the request's session: case and
\* decision are the objects already loaded, so only the kill switch can differ.
Preflight(s) ==
    /\ pc[s] = "preflight"
    /\ \/ enabled /\ Goto(s, "dispatch") /\ Keep /\ UNCHANGED reply
       \/ ~enabled /\ End(s, "CANCELLED")
    /\ UNCHANGED <<row, facts, enabled, links, committed, observer, bounds>>

\* The poller's preflight of the queued entry: everything is read now.  A
\* refused entry is committed as CANCELLED or SUPERSEDED.
QueuedPreflight(s) ==
    /\ pc[s] = "idle"
    /\ facts.proposed = "GENERATE_PAYMENT_LINK" /\ LinkAllowed \* or it is not queued
    /\ \/ /\ enabled /\ row.val.status \notin TerminalStatus
          /\ Load(s)
          /\ Goto(s, "dispatch")
          /\ UNCHANGED <<reply, committed, ans>>
       \/ /\ ~enabled \/ row.val.status \in TerminalStatus
          /\ End(s, "CANCELLED")
          /\ committed' = committed \cup {s}
    /\ UNCHANGED <<row, facts, enabled, links, observer, bounds>>

\* create_payment_link; an accepted request may lack its short_url.
Dispatch(s) ==
    /\ pc[s] = "dispatch"
    /\ \E h \in Happening, u \in BOOLEAN :
         LET x == CreatePaymentLink(h) IN
         /\ u => h = "ok"
         /\ links' \in {IF made THEN links \cup {s} ELSE links : made \in Effect(h)}
         /\ ans' = [ans EXCEPT ![s] =
                [status |-> x.status, safety |-> x.safety, id |-> x.id, url |-> u]]
    /\ Goto(s, "result")
    /\ UNCHANGED <<row, facts, enabled, committed, seen, reply, observer, bounds>>

\* The answer has the status of an Action that is rolled back when the request
\* is over; a poller commits its Action in whatever status.
Conclude(s, status) ==
    /\ End(s, status)
    /\ committed' = IF s \in Queued THEN committed \cup {s} ELSE committed

\* Mutant: an answer without a request id waits for a reconciliation that has
\* nothing to ask for.
NotExecutedWaits(s) ==
    /\ pc[s] = "result" /\ ans[s].status = "FAILED"
    /\ Conclude(s, "FAILED")
    /\ UNCHANGED <<row, facts, enabled, links, observer, bounds>>
\* An answer that leaves the case alone.  Reconciliation follows an ambiguous
\* one that has a request id.
NotExecuted(s) ==
    /\ pc[s] = "result"
    /\ \/ /\ ans[s].status = "FAILED" \/ (ans[s].status = "UNKNOWN" /\ ~ans[s].id)
          /\ Conclude(s, ans[s].status)
       \/ /\ ans[s].status = "UNKNOWN" /\ ans[s].id
          /\ Goto(s, "reconcile")
          /\ Keep
          /\ UNCHANGED <<reply, committed>>
    /\ UNCHANGED <<row, facts, enabled, links, observer, bounds>>

\* The provider is asked for a link by the request id.  A link that is found
\* makes the Action SUCCEEDED; its short_url is not taken over.
Reconcile(s) ==
    /\ pc[s] = "reconcile"
    /\ \E h \in Happening :
         /\ h = "ok" => s \in links
         /\ Conclude(s, IF ~Raises(h) THEN FetchPaymentLink(h).status
                        ELSE IF s \in Queued THEN "UNKNOWN" ELSE "ERROR")
    /\ UNCHANGED <<row, facts, enabled, links, observer, bounds>>

-----------------------------------------------------------------------------
(* The link exists: the worker, then the gateway, write the case. *)

UnversionedFresh(s) == TRUE \* Mutant: the case has no version column.
Fresh(s) == row.val.version = seen[s].version

\* Mutant: the stage is named by a word the other readers do not know.
WithStage(s) ==
    [status |-> seen[s].status, stage |-> "PAID", url |-> s,
     version |-> seen[s].version + 1]
WithLink(s) ==
    [status |-> seen[s].status, stage |-> "WAITING_FOR_PAYMENT",
     url |-> IF ans[s].url THEN s ELSE seen[s].url,
     version |-> seen[s].version + 1]

\* The worker's write and, in the same transaction, the gateway's, which puts
\* the attempt's provider_request_id in place of the link's id.
WriteLink(s) ==
    /\ pc[s] = "result" /\ ans[s].status = "SUCCEEDED"
    /\ Free(row, s) /\ Fresh(s)
    /\ row' = Write(row, s, WithLink(s))
    /\ Goto(s, "written")
    /\ UNCHANGED <<facts, enabled, links, committed, seen, ans, reply, observer,
                   bounds>>

\* Somebody else has written the case since it was loaded: StaleDataError.  A
\* poller's entry is claimed again later, with the same Action and key.
Stale(s) ==
    /\ pc[s] = "result" /\ ans[s].status = "SUCCEEDED"
    /\ Free(row, s) /\ ~Fresh(s)
    /\ \/ s \in Queued /\ Goto(s, "idle") /\ Forget(s) /\ UNCHANGED reply
       \/ s \in Requests /\ End(s, "ERROR")
    /\ UNCHANGED <<row, facts, enabled, links, committed, observer, bounds>>

\* A request commits when it has a url to record; otherwise it answers
\* SUCCEEDED and its session is closed uncommitted.
Commits(s) == s \in Queued \/ ans[s].url
\* Mutant: the case is committed in a session of its own, without the Action.
CommitCaseAlone(s) ==
    /\ pc[s] = "written" /\ Commits(s)
    /\ row' = Unlocked(row.new)
    /\ register' = register \cup ({row.new.url} \ {NoLink})
    /\ \/ s \in Queued /\ End(s, "SUCCEEDED")
       \/ s \in Requests /\ Goto(s, "answer") /\ Forget(s) /\ UNCHANGED reply
    /\ UNCHANGED <<facts, enabled, links, committed, told, inFlight, bounds>>
Commit(s) ==
    /\ pc[s] = "written" /\ Commits(s)
    /\ row' = Unlocked(row.new)
    /\ register' = register \cup ({row.new.url} \ {NoLink})
    /\ committed' = committed \cup {s}
    /\ \/ s \in Queued /\ End(s, "SUCCEEDED")
       \/ s \in Requests /\ Goto(s, "answer") /\ Forget(s) /\ UNCHANGED reply
    /\ UNCHANGED <<facts, enabled, links, told, inFlight, bounds>>

LeaveUncommitted(s) ==
    /\ pc[s] = "written" /\ ~Commits(s)
    /\ row' = Unlocked(row.val)
    /\ End(s, "SUCCEEDED")
    /\ UNCHANGED <<facts, enabled, links, committed, observer, bounds>>

\* After the commit the audit event is flushed, never committed, and the
\* answer names the link.
TellSuccess(s) ==
    /\ pc[s] = "answer"
    /\ End(s, "SUCCEEDED")
    /\ Tell(s)
    /\ UNCHANGED <<row, facts, enabled, links, committed, register, inFlight, bounds>>

-----------------------------------------------------------------------------
(* What happens around the requests. *)

\* An operator flips the switch; calls past their last check cannot be stopped.
Toggle ==
    /\ toggles < MaxToggles
    /\ toggles' = toggles + 1
    /\ enabled' = ~enabled
    /\ inFlight' = IF enabled THEN {s \in Sessions : pc[s] = "dispatch"} ELSE {}
    /\ UNCHANGED <<row, facts, links, committed, session, register, told, crashes>>

\* A customer has paid a link and the event is handled (ExecutionOutbox and
\* PaymentConfirmation): any link of the case names it in its notes.
Confirm ==
    /\ links # {}
    /\ row.by = NoTx /\ CanTransition(row.val.status, "RECOVERED")
    /\ row' = Unlocked([row.val EXCEPT !.status = "RECOVERED", !.stage = "RECOVERED",
                                       !.version = @ + 1])
    /\ UNCHANGED <<facts, enabled, links, committed, session, observer, bounds>>

Crash(s) ==
    /\ pc[s] \notin {"idle", "done", "lost"}
    /\ crashes < MaxCrashes
    /\ crashes' = crashes + 1
    /\ row' = IF row.by = s THEN Unlocked(row.val) ELSE row
    /\ Goto(s, IF s \in Queued THEN "idle" ELSE "lost")
    /\ Forget(s)
    /\ UNCHANGED <<facts, enabled, links, committed, reply, observer, toggles>>

Execute(s) ==
    \/ Dispatch(s) \/ NotExecuted(s) \/ Reconcile(s)
    \/ WriteLink(s) \/ Stale(s) \/ Commit(s) \/ LeaveUncommitted(s)
Serve(s) == Gate(s) \/ Preflight(s) \/ TellSuccess(s)

Next ==
    \/ \E s \in Asks : Ask(s)
    \/ \E s \in Calls : CallCreate(s) \/ CallFetch(s) \/ CallCancel(s)
    \/ \E s \in Requests : Serve(s)
    \/ \E s \in Queued : QueuedPreflight(s)
    \/ \E s \in Sessions : Execute(s) \/ Crash(s)
    \/ Toggle \/ Confirm

Spec == Init /\ [][Next]_vars

\* A running process goes on with its sessions.  Weak fairness is enough for
\* one that waits for the row lock: it is held at most once by each of the
\* finitely many others.  Nothing says that anybody asks, pays or polls.
Fairness ==
    /\ \A s \in Requests : WF_vars(Serve(s) \/ Execute(s))
    /\ \A s \in Queued : WF_vars(Execute(s))
FairSpec == Spec /\ Fairness

-----------------------------------------------------------------------------
(* What the gateway promises. *)

\* The columns of the case row, the sessions' places and answers have the
\* values of the enumerations in app/domain and app/interfaces/mcp.py.
TypeOK ==
    /\ row \in [val : CaseRow, new : CaseRow, by : Sessions \cup {NoTx}]
    /\ facts \in Cases /\ enabled \in BOOLEAN
    /\ links \subseteq Sessions
    /\ committed \subseteq Sessions
    /\ pc \in [Sessions -> Label]
    /\ seen \in [Sessions -> CaseRow]
    /\ ans \in [Sessions -> Answer]
    /\ reply \in [Sessions -> Reply]
    /\ register \subseteq Sessions /\ told \subseteq Sessions
    /\ inFlight \subseteq Sessions
    /\ toggles \in 0..MaxToggles /\ crashes \in 0..MaxCrashes

\* A link on record exists at the provider and belongs to a committed Action,
\* although the same transaction that records it may be lost, and the Action of
\* every other answer is thrown away.
RecordedLinkExists ==
    \A l \in register : l \in links /\ l \in committed

\* At most one request over the gateway has its Action committed, however many
\* have passed the idempotency checks: the case's version lets one of them in.
OneCommittedRequest == \A s, t \in committed \cap Requests : s = t

\* The provider's definite refusal is passed on as FAILED, and only a request
\* without effect is called safe to retry: no link exists of it.
FailedRequestMadeNothing ==
    \A s \in Requests :
        pc[s] = "result" /\ (ans[s].status = "FAILED" \/ ans[s].safety = "SAFE_TO_RETRY")
            => s \notin links

\* A link is made while execution is enabled, or by a call that had passed its
\* last check when the switch was turned off.
KillSwitchHolds ==
    [][\A s \in links' \ links : enabled \/ s \in inFlight]_vars

\* A committed RECOVERED case is never written again, whatever a request had
\* loaded before the payment.
RecoveredStays == [][row.val.status = "RECOVERED" => row'.val = row.val]_vars

\* What the case promises about its link (LinkRegister) holds of the committed
\* row: the link on record is replaced by that of the queued action only, and
\* the answers name recorded links.
Promise == INSTANCE LinkRegister
    WITH Links <- Sessions, Own <- Queued, link <- row.val.url,
         closed <- row.val.status = "RECOVERED"
LinkPromise == Promise!Spec

\* Every request that was started gets its answer, or its session is lost.
RequestEnds ==
    \A s \in Requests : pc[s] # "idle" ~> pc[s] \in {"done", "lost"}

-----------------------------------------------------------------------------
(* What a text of the program says and the code does not keep. *)

\* agent.py, in its answer: "PolicyEngine deterministic safety rules prevent
\* generating duplicate links."
NoDuplicateLinks == \A l, m \in register : l = m

=============================================================================
