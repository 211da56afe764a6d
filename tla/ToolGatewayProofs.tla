-------------------------- MODULE ToolGatewayProofs --------------------------
(***************************************************************************)
(* What holds of ToolGateway for every number of requests and queued       *)
(* entries, every kind of case and any number of crashes and switches.     *)
(*                                                                         *)
(* The promises rest on the version column.  A session that writes the     *)
(* case has loaded the version that is committed, hence the very row       *)
(* (SeenFits), and has found it open and, unless it is the queued entry,   *)
(* without a link (SeenOpen); nobody else writes before it commits         *)
(* (RowHeld).  So a request commits only where no other has (OneCommitted).*)
(***************************************************************************)
EXTENDS ToolGateway, TLAPS

Executing == {"preflight", "dispatch", "result", "reconcile", "written"}
Loaded    == Executing \cup {"gate"}

\* The writer of the row is the session that is about to commit it.
RowHeld ==
    /\ \A s \in Sessions : row.by = s <=> pc[s] = "written"
    /\ row.by = NoTx => row.new = row.val

\* A session's copy of the case is old or the committed row.
SeenFits ==
    \A s \in Sessions : pc[s] \in Loaded =>
        /\ seen[s].version <= row.val.version
        /\ seen[s].version = row.val.version => seen[s] = row.val
        /\ seen[s].url \in register \cup {NoLink}

\* The checks before an execution were passed on that copy.
SeenOpen ==
    \A s \in Sessions : pc[s] \in Executing =>
        /\ seen[s].status \notin TerminalStatus
        /\ s \in Requests => ~Waiting(seen[s])

Writing ==
    \A s \in Sessions : pc[s] = "written" =>
        seen[s] = row.val /\ row.new = WithLink(s) /\ ans[s].status = "SUCCEEDED"

\* What is on record, was made, is committed and is told.
OnRecord ==
    /\ row.val.url \in register \cup {NoLink}
    /\ register \subseteq links \cap committed
    /\ told \subseteq register
    /\ \A s \in Sessions : pc[s] = "answer" => s \in register

\* A session commits at its end.
CommittedOver ==
    \A s \in committed : IF s \in Queued THEN pc[s] = "done" ELSE pc[s] \in {"answer", "done", "lost"}

OneCommitted ==
    /\ OneCommittedRequest
    /\ committed \cap Requests # {} => row.val.url # NoLink

\* The links at the provider agree with the answers the sessions have got.
LinkMade ==
    /\ \A s \in Sessions :
         pc[s] \in {"result", "written"} /\ ans[s].status = "SUCCEEDED" => s \in links
    /\ \A s \in Requests : pc[s] \in {"idle", "gate", "preflight", "dispatch"} => s \notin links
    /\ FailedRequestMadeNothing

\* Execution was enabled when a session passed its last check.
PassedEnabled == \A s \in Sessions : pc[s] = "dispatch" => enabled \/ s \in inFlight

Safe ==
    /\ RowHeld /\ SeenFits /\ SeenOpen /\ Writing
    /\ OnRecord /\ CommittedOver /\ OneCommitted /\ LinkMade /\ PassedEnabled
IInv == TypeOK /\ Safe

-----------------------------------------------------------------------------
(* Types of what the actions build. *)

LEMMA NewCaseTyped == \A f \in Cases : NewCase(f) \in CaseRow
  BY GatewayAssumption, CasesAssumption
  DEF NewCase, CaseRow, CaseStatus, Facts, PolicyStatus, Stage

LEMMA WithLinkTyped == ASSUME TypeOK, NEW s \in Sessions PROVE WithLink(s) \in CaseRow
  BY GatewayAssumption DEF TypeOK, WithLink, CaseRow, Stage, Answer

LEMMA CreateTyped ==
  ASSUME NEW h \in Happening
  PROVE  LET x == CreatePaymentLink(h) IN
         x.status \in OutcomeStatus /\ x.safety \in RetrySafety /\ x.id \in BOOLEAN
  BY DEF Happening, CreatePaymentLink, OutcomeStatus, RetrySafety, Is

LEMMA KindTyped == \A r : Kind(r) \in Reply
  BY DEF Kind, Reply

\* Where a session goes on or ends, the types are kept if the rows keep them.
LEMMA GoOnTyped ==
  ASSUME TypeOK, NEW s \in Sessions, NEW label \in Label, Goto(s, label),
         \/ Keep \/ Forget(s)
         \/ Load(s) /\ UNCHANGED ans,
         reply' \in [Sessions -> Reply],
         row' \in [val : CaseRow, new : CaseRow, by : Sessions \cup {NoTx}],
         links' \subseteq Sessions, committed' \subseteq Sessions,
         register' \subseteq Sessions, told' \subseteq Sessions,
         crashes' \in 0..MaxCrashes,
         UNCHANGED <<facts, enabled, inFlight, toggles>>
  PROVE  TypeOK'
  <1> USE DEF TypeOK
  <1>1. NoAnswer \in Answer
    BY DEF NoAnswer, Answer, OutcomeStatus, RetrySafety
  <1>2. pc' \in [Sessions -> Label]
    BY DEF Goto
  <1>3. seen' \in [Sessions -> CaseRow]
    BY NewCaseTyped DEF Keep, Forget, Load
  <1>4. ans' \in [Sessions -> Answer]
    BY <1>1 DEF Keep, Forget
  <1>5. QED
    BY <1>2, <1>3, <1>4

LEMMA EndTyped ==
  ASSUME TypeOK, NEW s \in Sessions, NEW r, End(s, r),
         row' \in [val : CaseRow, new : CaseRow, by : Sessions \cup {NoTx}],
         committed' \subseteq Sessions, register' \subseteq Sessions,
         told' \subseteq Sessions,
         UNCHANGED <<facts, enabled, links, inFlight, bounds>>
  PROVE  TypeOK'
  <1>1. reply' \in [Sessions -> Reply]
    BY KindTyped DEF End, TypeOK
  <1>2. links' \subseteq Sessions /\ crashes' \in 0..MaxCrashes /\ UNCHANGED toggles
    BY DEF TypeOK, bounds
  <1>3. QED
    BY <1>1, <1>2, GoOnTyped DEF End, Label

-----------------------------------------------------------------------------
(* A session that ends without writing the case keeps the invariant, whatever *)
(* its answer is; it may name a link on record, and a queued entry commits.   *)

LEMMA EndKeeps ==
  ASSUME IInv, NEW s \in Sessions, NEW r, End(s, r), pc[s] # "written",
         told' \subseteq told \cup register,
         committed' = committed \/ (s \in Queued /\ committed' = committed \cup {s}),
         UNCHANGED <<row, facts, enabled, links, register, inFlight, bounds>>
  PROVE  IInv'
  <1> USE DEF IInv
  <1>1. TypeOK'
    BY EndTyped DEF TypeOK, Safe, OnRecord, Sessions
  <1>2. Safe'
    BY GatewayAssumption
    DEF Safe, TypeOK, RowHeld, SeenFits, SeenOpen, Writing, OnRecord, CommittedOver,
        OneCommitted, OneCommittedRequest, LinkMade, FailedRequestMadeNothing,
        PassedEnabled, Executing, Loaded, Sessions, Requests, End, Goto, Forget, WithLink
  <1>3. QED
    BY <1>1, <1>2

\* A session that takes its copy of the case, or keeps it, and goes on to a
\* check or to the provider.
LEMMA GoOnKeeps ==
  ASSUME IInv, NEW s \in Sessions, NEW label \in {"gate", "preflight", "dispatch"},
         Goto(s, label), UNCHANGED ans,
         \/ Load(s) /\ pc[s] = "idle"
         \/ UNCHANGED seen /\ pc[s] \in {"gate", "preflight"},
         label # "gate" => /\ seen'[s].status \notin TerminalStatus
                           /\ s \in Requests => ~Waiting(seen'[s]),
         label = "dispatch" => enabled,
         UNCHANGED <<row, facts, enabled, links, committed, reply, observer, bounds>>
  PROVE  IInv'
  <1> USE DEF IInv
  <1>1. TypeOK'
    BY GoOnTyped DEF TypeOK, Label, Keep, observer, bounds
  <1> USE GatewayAssumption
      DEF Safe, TypeOK, RowHeld, SeenFits, SeenOpen, Writing, OnRecord, CommittedOver,
        OneCommitted, OneCommittedRequest, LinkMade, FailedRequestMadeNothing,
        PassedEnabled, Executing, Loaded, Sessions, Requests, Goto, WithLink,
        observer, bounds
  <1>2. SeenFits'
    <2>1. CASE Load(s)
      BY <2>1 DEF Load, CaseRow
    <2>2. CASE UNCHANGED seen /\ pc[s] \in {"gate", "preflight"}
      BY <2>2
    <2>3. QED
      BY <2>1, <2>2
  <1>3. SeenOpen'
    BY DEF Load
  <1>4. RowHeld' /\ Writing'
    BY DEF Load
  <1>5. OnRecord' /\ CommittedOver' /\ OneCommitted'
    BY DEF Load
  <1>6. LinkMade' /\ PassedEnabled'
    BY DEF Load
  <1>7. QED
    BY <1>1, <1>2, <1>3, <1>4, <1>5, <1>6

-----------------------------------------------------------------------------
(* The invariant is inductive: the actions in which a session only ends or    *)
(* goes on, then those that talk to the provider or write the case.           *)

LEMMA AskKeeps == ASSUME IInv, NEW s \in Asks, Ask(s) PROVE IInv'
  <1> USE DEF IInv, Ask, Sessions, Requests
  <1>1. PICK adapter \in HasAdapter :
          \/ /\ End(s, AgentAnswer(row.val, adapter))
             /\ Tell(IF AgentAnswer(row.val, adapter) = "WAITING" THEN row.val.url
                     ELSE NoLink)
          \/ Load(s) /\ Goto(s, "gate") /\ UNCHANGED <<reply, told, ans>>
    BY Zenon
  <1>2. CASE Tell(IF AgentAnswer(row.val, adapter) = "WAITING" THEN row.val.url
                  ELSE NoLink)
             /\ End(s, AgentAnswer(row.val, adapter))
    <2>1. told' \subseteq told \cup register
      BY <1>2 DEF Tell, Safe, OnRecord
    <2>2. QED
      BY <1>2, <2>1, EndKeeps
  <1>3. CASE Load(s) /\ Goto(s, "gate") /\ UNCHANGED <<reply, told, ans>>
    BY <1>3, GoOnKeeps DEF observer, Load
  <1>4. QED
    BY <1>1, <1>2, <1>3

LEMMA CallKeeps ==
  ASSUME IInv, NEW s \in Calls, CallCreate(s) \/ CallFetch(s) \/ CallCancel(s)
  PROVE  IInv'
  <1> USE DEF IInv, Sessions, Requests, observer
  <1>1. CASE CallCreate(s)
    <2>1. PICK known, valid, owned \in BOOLEAN, adapter \in HasAdapter :
            \/ End(s, Admission(known, valid, owned, adapter))
            \/ Load(s) /\ Goto(s, "gate") /\ UNCHANGED <<reply, ans>>
      BY <1>1, Zenon DEF CallCreate
    <2>2. CASE End(s, Admission(known, valid, owned, adapter))
      BY <1>1, <2>2, EndKeeps DEF CallCreate
    <2>3. CASE Load(s) /\ Goto(s, "gate") /\ UNCHANGED <<reply, ans>>
      BY <1>1, <2>3, GoOnKeeps DEF CallCreate
    <2>4. QED
      BY <2>1, <2>2, <2>3
  <1>2. CASE CallFetch(s)
    BY <1>2, EndKeeps DEF CallFetch
  <1>3. CASE CallCancel(s)
    BY <1>3, EndKeeps DEF CallCancel
  <1>4. QED
    BY <1>1, <1>2, <1>3

LEMMA GateKeeps == ASSUME IInv, NEW s \in Requests, Gate(s) PROVE IInv'
  <1> USE DEF IInv, Sessions, Requests, observer
  <1>1. PICK preview \in BOOLEAN :
          LET r == GateAnswer(s, preview) IN
          \/ /\ r # "NONE"
             /\ End(s, r)
             /\ Tell(IF r = "IDEMPOTENT_HIT" THEN seen[s].url ELSE NoLink)
          \/ /\ r = "NONE"
             /\ Goto(s, "preflight")
             /\ Keep
             /\ UNCHANGED <<reply, told>>
    BY DEF Gate
  <1>2. CASE GateAnswer(s, preview) # "NONE"
    <2>1. told' \subseteq told \cup register
      BY <1>1, <1>2 DEF Gate, Tell, Safe, SeenFits, Loaded
    <2>2. QED
      BY <1>1, <1>2, <2>1, EndKeeps DEF Gate
  <1>3. CASE GateAnswer(s, preview) = "NONE"
    <2>1. seen[s].status \notin TerminalStatus /\ ~Waiting(seen[s])
      BY <1>3 DEF GateAnswer
    <2>2. QED
      BY <1>1, <1>3, <2>1, GoOnKeeps DEF Gate, Keep
  <1>4. QED
    BY <1>2, <1>3

LEMMA PreflightKeeps == ASSUME IInv, NEW s \in Requests, Preflight(s) PROVE IInv'
  <1> USE DEF IInv, Preflight, Sessions, observer
  <1>1. CASE enabled
    <2>1. seen[s].status \notin TerminalStatus /\ ~Waiting(seen[s])
      BY DEF Safe, SeenOpen, Executing
    <2>2. Goto(s, "dispatch") /\ UNCHANGED <<seen, ans, reply>>
      BY <1>1 DEF Keep
    <2>3. QED
      BY <1>1, <2>1, <2>2, GoOnKeeps
  <1>2. CASE ~enabled
    BY <1>2, EndKeeps
  <1>3. QED
    BY <1>1, <1>2

LEMMA QueuedPreflightKeeps == ASSUME IInv, NEW s \in Queued, QueuedPreflight(s) PROVE IInv'
  <1> USE DEF IInv, QueuedPreflight, Sessions, observer
  <1>1. CASE enabled /\ row.val.status \notin TerminalStatus
    <2>1. Load(s) /\ seen'[s].status \notin TerminalStatus
      BY <1>1 DEF Load, TypeOK
    <2>2. s \notin Requests
      BY GatewayAssumption
    <2>3. QED
      BY <1>1, <2>1, <2>2, GoOnKeeps
  <1>2. CASE ~enabled \/ row.val.status \in TerminalStatus
    BY <1>2, EndKeeps
  <1>3. QED
    BY <1>1, <1>2

LEMMA DispatchKeeps == ASSUME IInv, NEW s \in Sessions, Dispatch(s) PROVE IInv'
  <1> USE DEF IInv
  <1>1. PICK h \in Happening, u \in BOOLEAN :
          LET x == CreatePaymentLink(h) IN
          /\ links' \in {IF made THEN links \cup {s} ELSE links : made \in Effect(h)}
          /\ ans' = [ans EXCEPT ![s] =
                 [status |-> x.status, safety |-> x.safety, id |-> x.id, url |-> u]]
    BY DEF Dispatch
  <1>2. links' \in {links, links \cup {s}}
    BY <1>1
  <1>3. TypeOK'
    BY <1>1, <1>2, CreateTyped DEF Dispatch, TypeOK, Goto, Label, Answer, observer, bounds
  <1>4. LinkMade'
    <2>1. CreatePaymentLink(h).status = "SUCCEEDED" => Effect(h) = {TRUE}
      BY DEF CreatePaymentLink, Effect, Is
    <2>2. \/ CreatePaymentLink(h).status = "FAILED"
          \/ CreatePaymentLink(h).safety = "SAFE_TO_RETRY"
          => Effect(h) = {FALSE}
      BY DEF CreatePaymentLink, Effect, Is
    <2>3. pc' = [pc EXCEPT ![s] = "result"] /\ pc[s] = "dispatch" /\ pc \in [Sessions -> Label]
      BY DEF Dispatch, Goto, TypeOK
    <2>4. /\ ans'[s].status = CreatePaymentLink(h).status
          /\ ans'[s].safety = CreatePaymentLink(h).safety
          /\ \A t \in Sessions \ {s} : ans'[t] = ans[t]
      BY <1>1 DEF TypeOK
    <2>5. \A t \in Sessions \ {s} : t \in links' <=> t \in links
      BY <1>2
    <2>6. ans'[s].status = "SUCCEEDED" => s \in links'
      BY <1>1, <2>1, <2>4
    <2>7. s \in Requests => s \notin links
      BY <2>3 DEF Safe, LinkMade
    <2>8. s \in Requests /\ (ans'[s].status = "FAILED" \/ ans'[s].safety = "SAFE_TO_RETRY")
            => s \notin links'
      BY <1>1, <2>2, <2>4, <2>7
    <2>9. QED
      BY <2>3, <2>4, <2>5, <2>6, <2>8
      DEF Safe, LinkMade, FailedRequestMadeNothing, Sessions
  <1>5. RowHeld' /\ SeenFits' /\ SeenOpen' /\ PassedEnabled'
    BY DEF Dispatch, Safe, RowHeld, SeenFits, SeenOpen, PassedEnabled, Executing, Loaded,
           TypeOK, Goto, observer
  <1>6. Writing'
    BY <1>1 DEF Dispatch, Safe, Writing, WithLink, TypeOK, Goto
  <1>7. OnRecord' /\ CommittedOver' /\ OneCommitted'
    BY <1>2 DEF Dispatch, Safe, OnRecord, CommittedOver, OneCommitted, OneCommittedRequest,
           TypeOK, Goto, observer
  <1>8. QED
    BY <1>3, <1>4, <1>5, <1>6, <1>7 DEF Safe

LEMMA ReconcileKeeps ==
  ASSUME IInv, NEW s \in Sessions, NotExecuted(s) \/ Reconcile(s)
  PROVE  IInv'
  <1> USE DEF IInv, Conclude, observer
  <1>1. ASSUME NEW r, pc[s] \in {"result", "reconcile"}, Conclude(s, r),
               UNCHANGED <<row, facts, enabled, links, observer, bounds>>
        PROVE  IInv'
    BY <1>1, EndKeeps
  <1>2. CASE Reconcile(s)
    BY <1>1, <1>2 DEF Reconcile
  <1>3. CASE NotExecuted(s) /\ pc'[s] = "reconcile"
    <2>1. /\ pc[s] = "result" /\ pc' = [pc EXCEPT ![s] = "reconcile"]
          /\ UNCHANGED <<row, facts, enabled, links, committed, seen, ans, reply, observer,
                         bounds>>
      BY <1>3 DEF NotExecuted, Keep, Goto, End, TypeOK
    <2>2. TypeOK'
      BY <2>1 DEF TypeOK, Label, bounds
    <2>3. Safe'
      BY <2>1
      DEF Safe, TypeOK, RowHeld, SeenFits, SeenOpen, Writing, OnRecord, CommittedOver,
          OneCommitted, OneCommittedRequest, LinkMade, FailedRequestMadeNothing,
          PassedEnabled, Executing, Loaded, Sessions, WithLink
    <2>4. QED
      BY <2>2, <2>3
  <1>4. CASE NotExecuted(s) /\ pc'[s] # "reconcile"
    BY <1>1, <1>4 DEF NotExecuted, Goto, TypeOK
  <1>5. QED
    BY <1>2, <1>3, <1>4

LEMMA WriteLinkKeeps == ASSUME IInv, NEW s \in Sessions, WriteLink(s) PROVE IInv'
  <1> USE DEF IInv, WriteLink
  <1>1. row' = [val |-> row.val, new |-> WithLink(s), by |-> s]
    BY DEF Write
  <1>2. TypeOK'
    BY <1>1, WithLinkTyped DEF TypeOK, Goto, Label, session, observer, bounds
  <1>3. row.by = NoTx
    BY DEF Free, Safe, RowHeld
  <1>4. seen[s] = row.val
    BY DEF Fresh, Safe, SeenFits, Loaded, Executing
  <1>5. RowHeld' /\ SeenFits' /\ SeenOpen' /\ Writing'
    BY <1>1, <1>3, <1>4, GatewayAssumption
    DEF Safe, RowHeld, SeenFits, SeenOpen, Writing, WithLink, Executing, Loaded, TypeOK,
        Goto, observer
  <1>6. OnRecord' /\ CommittedOver' /\ OneCommitted' /\ LinkMade' /\ PassedEnabled'
    BY <1>1
    DEF Safe, OnRecord, CommittedOver, OneCommitted, OneCommittedRequest, LinkMade,
        FailedRequestMadeNothing, PassedEnabled, TypeOK, Goto, observer
  <1>7. QED
    BY <1>2, <1>5, <1>6 DEF Safe

LEMMA StaleKeeps == ASSUME IInv, NEW s \in Sessions, Stale(s) PROVE IInv'
  <1> USE DEF IInv, Stale, observer
  <1>1. CASE s \in Requests /\ End(s, "ERROR")
    BY <1>1, EndKeeps
  <1>2. CASE s \in Queued /\ Goto(s, "idle") /\ Forget(s) /\ UNCHANGED reply
    <2>1. TypeOK'
      BY <1>2, GoOnTyped DEF TypeOK, Label, bounds
    <2>2. s \notin Requests
      BY <1>2, GatewayAssumption
    <2>3. Safe'
      BY <1>2, <2>2
      DEF Safe, TypeOK, RowHeld, SeenFits, SeenOpen, Writing, OnRecord, CommittedOver,
          OneCommitted, OneCommittedRequest, LinkMade, FailedRequestMadeNothing,
          PassedEnabled, Executing, Loaded, Sessions, WithLink, Goto, Forget
    <2>4. QED
      BY <2>1, <2>3
  <1>3. QED
    BY <1>1, <1>2

\* What a commit publishes: the copy the session had loaded, now with its link
\* or the one it had.
LEMMA CommitPublishes ==
  ASSUME IInv, NEW s \in Sessions, Commit(s)
  PROVE  /\ row' = Unlocked(WithLink(s))
         /\ seen[s] = row.val
         /\ row.val.status \notin TerminalStatus
         /\ s \in links /\ s \notin committed /\ s \notin register
         /\ s \in Requests => row.val.url = NoLink /\ committed \cap Requests = {}
         /\ s \notin Queued => WithLink(s).url = s
         /\ WithLink(s).url \in {s, row.val.url}
  <1> USE DEF IInv, Commit
  <1>1. row' = Unlocked(WithLink(s)) /\ seen[s] = row.val
    BY DEF Safe, Writing
  <1>2. row.val.status \notin TerminalStatus /\ (s \in Requests => row.val.url = NoLink)
    BY <1>1 DEF Safe, SeenOpen, Executing, Waiting
  <1>3. s \in links /\ s \notin committed /\ s \notin register
    BY DEF Safe, Writing, LinkMade, CommittedOver, OnRecord, Sessions
  <1>4. s \in Requests => committed \cap Requests = {}
    BY <1>2 DEF Safe, OneCommitted
  <1>5. WithLink(s).url = IF ans[s].url THEN s ELSE row.val.url
    BY <1>1 DEF WithLink
  <1>6. QED
    BY <1>1, <1>2, <1>3, <1>4, <1>5 DEF Commits

LEMMA CommitKeeps == ASSUME IInv, NEW s \in Sessions, Commit(s) PROVE IInv'
  <1> USE DEF IInv, Commit
  <1>1. row'.val = WithLink(s) /\ row'.new = WithLink(s) /\ row'.by = NoTx
    BY CommitPublishes DEF Unlocked
  <1>2. register' = register \cup ({WithLink(s).url} \ {NoLink})
    BY DEF Safe, Writing
  <1>3. TypeOK'
    <2>1. row' \in [val : CaseRow, new : CaseRow, by : Sessions \cup {NoTx}]
      BY CommitPublishes, WithLinkTyped DEF Unlocked
    <2>2. committed' \subseteq Sessions /\ register' \subseteq Sessions
      BY <1>2, CommitPublishes DEF TypeOK, Safe, OnRecord
    <2>3. CASE End(s, "SUCCEEDED")
      BY <2>1, <2>2, <2>3, EndTyped DEF TypeOK
    <2>4. CASE Goto(s, "answer") /\ Forget(s) /\ UNCHANGED reply
      BY <2>1, <2>2, <2>4, GoOnTyped DEF TypeOK, Label, bounds
    <2>5. QED
      BY <2>3, <2>4
  <1>4. /\ pc' = [pc EXCEPT ![s] = IF s \in Queued THEN "done" ELSE "answer"]
        /\ seen' = [seen EXCEPT ![s] = NewCase(facts)]
        /\ ans' = [ans EXCEPT ![s] = NoAnswer]
    BY GatewayAssumption DEF End, Goto, Forget, Sessions
  <1>5. RowHeld' /\ SeenOpen' /\ Writing'
    BY <1>1, <1>4, GatewayAssumption
    DEF Safe, RowHeld, SeenOpen, Writing, Executing, TypeOK, Sessions
  <1>6. SeenFits'
    <2>1. row'.val.version = row.val.version + 1
      BY <1>1, CommitPublishes DEF WithLink
    <2>2. \A t \in Sessions : seen[t].version \in Nat
      BY DEF TypeOK, CaseRow
    <2>3. row.val.version \in Nat
      BY DEF TypeOK, CaseRow
    <2>4. QED
      BY <1>2, <1>4, <2>1, <2>2, <2>3 DEF Safe, SeenFits, TypeOK, Loaded, Executing
  <1>7. OnRecord'
    BY <1>1, <1>2, <1>4, CommitPublishes, GatewayAssumption DEF Safe, OnRecord, TypeOK, Sessions
  <1>8. CommittedOver'
    BY <1>4 DEF Safe, CommittedOver, TypeOK
  <1>9. OneCommitted'
    BY <1>1, CommitPublishes, GatewayAssumption
    DEF Safe, OneCommitted, OneCommittedRequest, OnRecord, Sessions
  <1>10. LinkMade' /\ PassedEnabled'
    BY <1>4 DEF Safe, LinkMade, FailedRequestMadeNothing, PassedEnabled, TypeOK, Sessions
  <1>11. QED
    BY <1>3, <1>5, <1>6, <1>7, <1>8, <1>9, <1>10 DEF Safe

LEMMA LeaveKeeps ==
  ASSUME IInv, NEW s \in Sessions, LeaveUncommitted(s)
  PROVE  IInv'
  <1> USE DEF IInv, LeaveUncommitted, observer
  <1>1. row' \in [val : CaseRow, new : CaseRow, by : Sessions \cup {NoTx}]
    BY DEF Unlocked, TypeOK
  <1>2. TypeOK'
    BY <1>1, EndTyped DEF TypeOK
  <1>3. Safe'
    BY GatewayAssumption
    DEF Safe, TypeOK, RowHeld, SeenFits, SeenOpen, Writing, OnRecord, CommittedOver,
        OneCommitted, OneCommittedRequest, LinkMade, FailedRequestMadeNothing,
        PassedEnabled, Executing, Loaded, Sessions, WithLink, End, Goto, Forget, Unlocked
  <1>4. QED
    BY <1>2, <1>3

LEMMA TellKeeps == ASSUME IInv, NEW s \in Requests, TellSuccess(s) PROVE IInv'
  <1>1. told' \subseteq told \cup register
    BY DEF IInv, Safe, OnRecord, TellSuccess, Tell, Sessions
  <1>2. QED
    BY <1>1, EndKeeps DEF TellSuccess, Sessions

LEMMA CrashKeeps == ASSUME IInv, NEW s \in Sessions, Crash(s) PROVE IInv'
  <1> USE DEF IInv, Crash, observer
  <1>1. row' \in [val : CaseRow, new : CaseRow, by : Sessions \cup {NoTx}]
    BY DEF Unlocked, TypeOK
  <1>2. crashes' \in 0..MaxCrashes
    BY GatewayAssumption DEF TypeOK
  <1>3. TypeOK'
    BY <1>1, <1>2, GoOnTyped DEF TypeOK, Label
  <1>4. Safe'
    BY GatewayAssumption
    DEF Safe, TypeOK, RowHeld, SeenFits, SeenOpen, Writing, OnRecord, CommittedOver,
        OneCommitted, OneCommittedRequest, LinkMade, FailedRequestMadeNothing,
        PassedEnabled, Executing, Loaded, Sessions, WithLink, Goto, Forget, Unlocked
  <1>5. QED
    BY <1>3, <1>4

LEMMA ToggleKeeps == ASSUME IInv, Toggle PROVE IInv'
  <1> USE DEF IInv, Toggle, session
  <1>1. TypeOK'
    BY GatewayAssumption DEF TypeOK
  <1>2. Safe'
    BY DEF Safe, TypeOK, RowHeld, SeenFits, SeenOpen, Writing, OnRecord, CommittedOver,
           OneCommitted, OneCommittedRequest, LinkMade, FailedRequestMadeNothing,
           PassedEnabled, WithLink
  <1>3. QED
    BY <1>1, <1>2

LEMMA PaidTyped ==
  ASSUME NEW c \in CaseRow, NEW v \in Nat
  PROVE  LET paid == [c EXCEPT !.status = "RECOVERED", !.stage = "RECOVERED", !.version = v]
         IN paid \in CaseRow /\ paid.url = c.url /\ paid.version = v
  BY DEF CaseRow, CaseStatus, Stage

\* The payment makes the committed row newer than every copy.
LEMMA ConfirmKeeps == ASSUME IInv, Confirm PROVE IInv'
  <1> USE DEF IInv, Confirm, session, observer, bounds
  <1> DEFINE paid == [row.val EXCEPT !.status = "RECOVERED", !.stage = "RECOVERED",
                                     !.version = @ + 1]
  <1>1. /\ paid \in CaseRow
        /\ paid.url = row.val.url /\ paid.version = row.val.version + 1
    <2>1. row.val \in CaseRow /\ row.val.version + 1 \in Nat
      BY DEF TypeOK, CaseRow
    <2>2. QED
      BY <2>1, PaidTyped
  <1>2. row'.val = paid /\ row'.new = paid /\ row'.by = NoTx
    BY DEF Unlocked
  <1> HIDE DEF paid
  <1>3. TypeOK'
    <2>1. row' \in [val : CaseRow, new : CaseRow, by : Sessions \cup {NoTx}]
      BY <1>1 DEF Unlocked, paid
    <2>2. QED
      BY <2>1 DEF TypeOK
  <1>4. \A s \in Sessions : pc[s] # "written"
    BY GatewayAssumption DEF Safe, RowHeld
  <1>5. SeenFits'
    <2>1. row.val.version \in Nat /\ \A s \in Sessions : seen[s].version \in Nat
      BY DEF TypeOK, CaseRow
    <2>2. QED
      BY <1>1, <1>2, <2>1 DEF Safe, SeenFits
  <1>6. RowHeld' /\ SeenOpen' /\ Writing'
    BY <1>2, <1>4, GatewayAssumption DEF Safe, RowHeld, SeenOpen, Writing
  <1>7. OnRecord' /\ CommittedOver' /\ OneCommitted' /\ LinkMade' /\ PassedEnabled'
    BY <1>1, <1>2
    DEF Safe, OnRecord, CommittedOver, OneCommitted, OneCommittedRequest, LinkMade,
        FailedRequestMadeNothing, PassedEnabled
  <1>8. QED
    BY <1>3, <1>5, <1>6, <1>7 DEF Safe

-----------------------------------------------------------------------------
(* The theorems. *)

LEMMA InitIInv == Init => IInv
  <1> SUFFICES ASSUME Init PROVE IInv
    OBVIOUS
  <1> USE GatewayAssumption DEF Init
  <1>1. NewCase(facts) \in CaseRow /\ NewCase(facts).url = NoLink
    BY NewCaseTyped DEF NewCase
  <1>2. NoAnswer \in Answer
    BY DEF NoAnswer, Answer, OutcomeStatus, RetrySafety
  <1>3. TypeOK
    BY <1>1, <1>2 DEF TypeOK, Unlocked, Label, Reply
  <1>4. Safe
    BY <1>1
    DEF Safe, RowHeld, SeenFits, SeenOpen, Writing, OnRecord, CommittedOver, OneCommitted,
        OneCommittedRequest, LinkMade, FailedRequestMadeNothing, PassedEnabled,
        Executing, Loaded, Unlocked
  <1>5. QED
    BY <1>3, <1>4 DEF IInv

LEMMA NextIInv == IInv /\ [Next]_vars => IInv'
  <1> SUFFICES ASSUME IInv, [Next]_vars PROVE IInv'
    OBVIOUS
  <1>1. CASE \E s \in Asks : Ask(s)
    BY <1>1, AskKeeps
  <1>2. CASE \E s \in Calls : CallCreate(s) \/ CallFetch(s) \/ CallCancel(s)
    BY <1>2, CallKeeps
  <1>3. CASE \E s \in Requests : Serve(s)
    BY <1>3, GateKeeps, PreflightKeeps, TellKeeps DEF Serve
  <1>4. CASE \E s \in Queued : QueuedPreflight(s)
    BY <1>4, QueuedPreflightKeeps
  <1>5. CASE \E s \in Sessions : Execute(s)
    BY <1>5, DispatchKeeps, ReconcileKeeps, WriteLinkKeeps, StaleKeeps, CommitKeeps,
       LeaveKeeps DEF Execute
  <1>6. CASE \E s \in Sessions : Crash(s)
    BY <1>6, CrashKeeps
  <1>7. CASE Toggle \/ Confirm
    BY <1>7, ToggleKeeps, ConfirmKeeps
  <1>8. CASE UNCHANGED vars
    BY <1>8
    DEF vars, session, observer, bounds, IInv, TypeOK, Safe, RowHeld, SeenFits, SeenOpen,
        Writing, OnRecord, CommittedOver, OneCommitted, OneCommittedRequest, LinkMade,
        FailedRequestMadeNothing, PassedEnabled, WithLink
  <1>9. QED
    BY <1>1, <1>2, <1>3, <1>4, <1>5, <1>6, <1>7, <1>8 DEF Next

LEMMA Inductive == Spec => []IInv
  BY InitIInv, NextIInv, PTL DEF Spec

\* TypeOK is an invariant for every set of requests, entries and cases.
THEOREM TypeCorrect == Spec => []TypeOK
  BY Inductive, PTL DEF IInv

\* RecordedLinkExists: what is on record was made and is committed.
THEOREM RecordedLinksExist == Spec => []RecordedLinkExists
  <1>1. IInv => RecordedLinkExists
    BY DEF IInv, Safe, OnRecord, RecordedLinkExists
  <1>2. QED
    BY <1>1, Inductive, PTL

\* OneCommittedRequest: the version lets one request commit.
THEOREM OneRequestCommits == Spec => []OneCommittedRequest
  <1>1. IInv => OneCommittedRequest
    BY DEF IInv, Safe, OneCommitted
  <1>2. QED
    BY <1>1, Inductive, PTL

\* FailedRequestMadeNothing: a refusal means that no link exists.
THEOREM FailuresMadeNothing == Spec => []FailedRequestMadeNothing
  <1>1. IInv => FailedRequestMadeNothing
    BY DEF IInv, Safe, LinkMade
  <1>2. QED
    BY <1>1, Inductive, PTL

\* KillSwitchHolds: no link is made by a call that could still be stopped.
THEOREM SwitchStops == Spec => KillSwitchHolds
  <1>1. IInv /\ [Next]_vars => [\A s \in links' \ links : enabled \/ s \in inFlight]_vars
    <2> SUFFICES ASSUME IInv, Next, NEW s \in links' \ links
                 PROVE  enabled \/ s \in inFlight
      BY DEF vars
    <2>1. pc[s] = "dispatch" /\ s \in Sessions
      BY DEF Next, Ask, CallCreate, CallFetch, CallCancel, Serve, Gate, Preflight,
             TellSuccess, QueuedPreflight, Execute, Dispatch, NotExecuted, Reconcile,
             WriteLink, Stale, Commit, LeaveUncommitted, Crash, Toggle, Confirm
    <2>2. QED
      BY <2>1 DEF IInv, Safe, PassedEnabled
  <1>2. QED
    BY <1>1, Inductive, PTL DEF Spec, KillSwitchHolds

\* Only a commit and a payment write the committed row.
LEMMA RowWriters ==
  ASSUME IInv, Next
  PROVE  row'.val = row.val \/ (\E s \in Sessions : Commit(s)) \/ Confirm
  BY DEF Next, Ask, CallCreate, CallFetch, CallCancel, Serve, Gate, Preflight,
         TellSuccess, QueuedPreflight, Execute, Dispatch, NotExecuted, Reconcile,
         WriteLink, Write, Stale, LeaveUncommitted, Unlocked, Crash, Toggle

\* RecoveredStays: a committed RECOVERED case is never written again.
THEOREM RecoveredCasesStay == Spec => RecoveredStays
  <1>1. IInv /\ [Next]_vars => [row.val.status = "RECOVERED" => row'.val = row.val]_vars
    <2> SUFFICES ASSUME IInv, Next, row.val.status = "RECOVERED" PROVE row'.val = row.val
      BY DEF vars
    <2>1. ~Confirm
      BY DEF Confirm, CanTransition, ALLOWED_TRANSITIONS
    <2>2. ASSUME NEW s \in Sessions, Commit(s) PROVE FALSE
      BY <2>2, CommitPublishes DEF TerminalStatus
    <2>3. QED
      BY <2>1, <2>2, RowWriters
  <1>2. QED
    BY <1>1, Inductive, PTL DEF Spec, RecoveredStays

-----------------------------------------------------------------------------
(* The gateway implements LinkRegister: a commit records a link, an answer    *)
(* tells one, a payment closes the case, and nothing else shows.              *)

LEMMA TellIsTelling ==
  ASSUME NEW l \in register \cup {NoLink}, Tell(l), register \subseteq Sessions,
         UNCHANGED <<row, register>>
  PROVE  [Promise!Next]_Promise!vars
  BY DEF Tell, Promise!Next, Promise!Tell, Promise!vars

LEMMA CommitRecords ==
  ASSUME IInv, NEW s \in Sessions, Commit(s)
  PROVE  [Promise!Next]_Promise!vars
  <1>1. /\ row'.val = WithLink(s) /\ UNCHANGED told
        /\ row.val.status # "RECOVERED" /\ WithLink(s).status = row.val.status
        /\ register' = register \cup ({WithLink(s).url} \ {NoLink})
    BY CommitPublishes DEF Commit, Unlocked, WithLink, TerminalStatus, IInv, Safe, Writing
  <1>2. CASE WithLink(s).url = s
    <2>1. Promise!Record(s)
      BY <1>1, <1>2, CommitPublishes, GatewayAssumption DEF Promise!Record, Sessions
    <2>2. QED
      BY <2>1 DEF Promise!Next
  <1>3. CASE WithLink(s).url = row.val.url
    BY <1>1, <1>3 DEF Promise!vars, IInv, Safe, OnRecord
  <1>4. QED
    BY <1>2, <1>3, CommitPublishes

LEMMA StepKeepsPromise == IInv /\ [Next]_vars => [Promise!Next]_Promise!vars
  <1> SUFFICES ASSUME IInv, [Next]_vars PROVE [Promise!Next]_Promise!vars
    OBVIOUS
  <1>1. ASSUME NEW s \in Requests, Ask(s) \/ Gate(s) \/ TellSuccess(s)
        PROVE  [Promise!Next]_Promise!vars
    <2>1. /\ register \subseteq Sessions /\ row.val.url \in register \cup {NoLink}
          /\ pc[s] = "gate" => seen[s].url \in register \cup {NoLink}
          /\ pc[s] = "answer" => s \in register
      BY DEF IInv, TypeOK, Safe, OnRecord, SeenFits, Loaded, Sessions
    <2>2. CASE Ask(s)
      BY <2>1, <2>2, TellIsTelling DEF Ask, Promise!vars
    <2>3. CASE Gate(s)
      BY <2>1, <2>3, TellIsTelling DEF Gate, Promise!vars
    <2>4. CASE TellSuccess(s)
      BY <2>1, <2>4, TellIsTelling DEF TellSuccess
    <2>5. QED
      BY <1>1, <2>2, <2>3, <2>4
  <1>2. ASSUME NEW s \in Sessions, Commit(s) PROVE [Promise!Next]_Promise!vars
    BY <1>2, CommitRecords
  <1>3. CASE Confirm
    <2>1. row.val \in CaseRow /\ row.val.version + 1 \in Nat
      BY DEF IInv, TypeOK, CaseRow
    <2>2. row'.val.url = row.val.url /\ row'.val.status = "RECOVERED"
      BY <1>3, <2>1, PaidTyped DEF Confirm, Unlocked, CaseRow
    <2>3. row.val.status # "RECOVERED"
      BY <1>3 DEF Confirm, CanTransition, ALLOWED_TRANSITIONS
    <2>4. Promise!Close
      BY <1>3, <2>2, <2>3 DEF Confirm, Promise!Close, observer
    <2>5. QED
      BY <2>4 DEF Promise!Next
  <1>4. CASE row'.val = row.val /\ UNCHANGED <<register, told>>
    BY <1>4 DEF Promise!vars
  <1>5. QED
    BY <1>1, <1>2, <1>3, <1>4
    DEF Next, CallCreate, CallFetch, CallCancel, Serve, Preflight, QueuedPreflight, Execute,
        Dispatch, NotExecuted, Reconcile, WriteLink, Write, Stale, LeaveUncommitted, Unlocked,
        Crash, Toggle, observer, vars, Requests, Sessions

\* LinkPromise: the committed case keeps what LinkRegister promises.
THEOREM GatewayKeepsPromise == Spec => LinkPromise
  <1>1. Init => Promise!Init
    BY DEF Init, Promise!Init, Unlocked, NewCase
  <1>2. QED
    BY <1>1, StepKeepsPromise, Inductive, PTL DEF Spec, LinkPromise, Promise!Spec

=============================================================================
