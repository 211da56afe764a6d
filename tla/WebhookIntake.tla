---------------------------- MODULE WebhookIntake ----------------------------
(***************************************************************************)
(* How a provider event comes in.  The provider delivers each event at     *)
(* least once; a delivery is an HTTP request that goes through a Redis key *)
(* and the unique index of the provider_event table and, when it stored    *)
(* the event, leaves a background task in the memory of its process.  The  *)
(* task finds the tenant of the event's account, handles the event and     *)
(* commits.  Nothing runs an event's task again.                           *)
(*                                                                         *)
(* A request and its task go by one name.  What the handler does to case,  *)
(* Action and outcome is the subject of ExecutionOutbox; here it is one    *)
(* effect per commit.                                                      *)
(***************************************************************************)
EXTENDS Integers, FiniteSets

CONSTANTS
    Events,       \* provider events, by x-razorpay-event-id
    Target,       \* those of a kind that is handled
    Accounts,     \* provider accounts
    AccountOf,    \* the account of an event
    Requests,     \* deliveries
    EventOf,      \* the event of a delivery
    Provisioned,  \* accounts an operator has mapped beforehand
    DemoAccount,  \* the account of DEMO_MODE, or Absent
    MaxFaults,    \* bound: failed statements, failed handlers, restarts
    Absent        \* no row

\* A tenant is named by the task that bootstrapped it, or by the account an
\* operator or the demo bootstrap made it for.
TenantIds == Requests \cup Accounts

ASSUME IntakeAssumption ==
    /\ Requests \cap Accounts = {}
    /\ Absent \notin TenantIds
    /\ Target \subseteq Events
    /\ Provisioned \subseteq Accounts
    /\ DemoAccount \in Accounts \cup {Absent}
    /\ MaxFaults \in Nat
    /\ AccountOf \in [Events -> Accounts]
    /\ EventOf \in [Requests -> Events]

VARIABLES
    redis,     \* events whose idempotency key is set
    stored,    \* provider_event rows: the request that committed an event's row
    processed, \* events with processed_at
    tenants,   \* committed tenant rows: the account each is bound to
    effects,   \* what handled events have committed: [event, by, tenant]
    pc,        \* where each request or its task is
    answer,    \* what the provider was told
    tenant,    \* the tenant a task has resolved
    faults

database == <<stored, processed, tenants, effects>>
vars == <<redis, database, pc, answer, tenant, faults>>

Label  == {"idle", "received", "checked", "stored", "task", "unmapped", "resolved", "ended"}
Answer == {"none", "accepted", "duplicate", "error"}
Effect == [event : Events, by : Requests, tenant : TenantIds]

Init ==
    /\ redis     = {}
    /\ stored    = [e \in Events |-> Absent]
    /\ processed = {}
    /\ tenants   = [t \in TenantIds |-> IF t \in Provisioned THEN t ELSE Absent]
    /\ effects   = {}
    /\ pc        = [r \in Requests |-> "idle"]
    /\ answer    = [r \in Requests |-> "none"]
    /\ tenant    = [r \in Requests |-> Absent]
    /\ faults    = 0

Goto(r, label) == pc' = [pc EXCEPT ![r] = label]
Reply(r, what) == answer' = [answer EXCEPT ![r] = what]

-----------------------------------------------------------------------------
(* The request: razorpay_webhook. *)

Receive(r) ==
    /\ pc[r] = "idle"
    /\ Goto(r, "received")
    /\ UNCHANGED <<redis, database, answer, tenant, faults>>

\* Mutant: an outage of Redis counts as a duplicate.
CheckKeyOrRefuse(r) ==
    LET e == EventOf[r] IN
    /\ pc[r] = "received"
    /\ \/ /\ e \notin redis
          /\ redis' = redis \cup {e}
          /\ Goto(r, "checked")
          /\ UNCHANGED answer
       \/ /\ Reply(r, "duplicate")
          /\ Goto(r, "ended")
          /\ UNCHANGED redis
    /\ UNCHANGED <<database, tenant, faults>>
\* acquire_redis_lock: SET NX.  When Redis cannot be reached, or its answer is
\* lost, the request goes on.
CheckKey(r) ==
    LET e == EventOf[r] IN
    /\ pc[r] = "received"
    /\ \/ /\ e \in redis
          /\ Reply(r, "duplicate")
          /\ Goto(r, "ended")
          /\ UNCHANGED redis
       \/ /\ redis' \in {redis, redis \cup {e}}
          /\ Goto(r, "checked")
          /\ UNCHANGED answer
    /\ UNCHANGED <<database, tenant, faults>>

\* The key's time to live is a day.
KeyExpires(e) ==
    /\ e \in redis
    /\ redis' = redis \ {e}
    /\ UNCHANGED <<database, pc, answer, tenant, faults>>

\* Mutant: the table has no unique index.
PersistAnyway(r) ==
    /\ pc[r] = "checked"
    /\ stored' = [stored EXCEPT ![EventOf[r]] = r]
    /\ Goto(r, "stored")
    /\ UNCHANGED <<redis, processed, tenants, effects, answer, tenant, faults>>
\* persist_event_pg: INSERT and COMMIT; the unique index decides between two.
Persist(r) ==
    LET e == EventOf[r] IN
    /\ pc[r] = "checked"
    /\ \/ /\ stored[e] = Absent
          /\ stored' = [stored EXCEPT ![e] = r]
          /\ Goto(r, "stored")
          /\ UNCHANGED answer
       \/ /\ stored[e] # Absent
          /\ Reply(r, "duplicate")
          /\ Goto(r, "ended")
          /\ UNCHANGED stored
    /\ UNCHANGED <<redis, processed, tenants, effects, tenant, faults>>

\* The statement fails, or its COMMIT or the refresh after it does: the row may
\* be there, the provider is told 500.
PersistFails(r) ==
    LET e == EventOf[r] IN
    /\ pc[r] = "checked"
    /\ faults < MaxFaults
    /\ faults' = faults + 1
    /\ \/ UNCHANGED stored
       \/ stored[e] = Absent /\ stored' = [stored EXCEPT ![e] = r]
    /\ Reply(r, "error")
    /\ Goto(r, "ended")
    /\ UNCHANGED <<redis, processed, tenants, effects, tenant>>

\* The task is handed to the process and the request answered.
Accept(r) ==
    /\ pc[r] = "stored"
    /\ Reply(r, "accepted")
    /\ Goto(r, "task")
    /\ UNCHANGED <<redis, database, tenant, faults>>

-----------------------------------------------------------------------------
(* The task: process_provider_event. *)

Mapped(a) == {t \in TenantIds : tenants[t] = a}

\* resolve_tenant, first query.  Two tenants of one account raise.  (An event
\* with an empty account id, which is no account here, is refused before that.)
FindTenant(r) ==
    LET found == Mapped(AccountOf[EventOf[r]]) IN
    /\ pc[r] = "task"
    /\ \/ /\ Cardinality(found) = 1
          /\ tenant' = [tenant EXCEPT ![r] = CHOOSE t \in found : TRUE]
          /\ Goto(r, "resolved")
       \/ /\ found = {}
          /\ Goto(r, "unmapped")
          /\ UNCHANGED tenant
       \/ /\ Cardinality(found) > 1
          /\ Goto(r, "ended")
          /\ UNCHANGED tenant
    /\ UNCHANGED <<redis, database, answer, faults>>

\* Mutant: an unknown account is given whatever tenant there is.
BootstrapOrAny(r) ==
    LET existing == {t \in TenantIds : tenants[t] # Absent} IN
    /\ pc[r] = "unmapped"
    /\ tenant' \in {[tenant EXCEPT ![r] = t] :
                        t \in IF existing = {} THEN {r} ELSE existing}
    /\ Goto(r, "resolved")
    /\ UNCHANGED <<redis, database, answer, faults>>
\* Mutant: the result of resolve_tenant is not looked at.
BootstrapUnguarded(r) ==
    /\ pc[r] = "unmapped"
    /\ \/ /\ \A t \in TenantIds : tenants[t] = Absent
          /\ tenant' = [tenant EXCEPT ![r] = r]
       \/ /\ \E t \in TenantIds : tenants[t] # Absent
          /\ UNCHANGED tenant
    /\ Goto(r, "resolved")
    /\ UNCHANGED <<redis, database, answer, faults>>
\* resolve_tenant, second query: the first tenant is created, an unknown account
\* is refused.  The new row is not committed yet.
Bootstrap(r) ==
    /\ pc[r] = "unmapped"
    /\ \/ /\ \A t \in TenantIds : tenants[t] = Absent
          /\ tenant' = [tenant EXCEPT ![r] = r]
          /\ Goto(r, "resolved")
       \/ /\ \E t \in TenantIds : tenants[t] # Absent
          /\ Goto(r, "ended")
          /\ UNCHANGED tenant
    /\ UNCHANGED <<redis, database, answer, faults>>

\* A handled event commits its effect, processed_at and a tenant of its own; an
\* event of another kind returns, and its session is rolled back.
Handle(r) ==
    LET e == EventOf[r] IN
    /\ pc[r] = "resolved"
    /\ IF e \in Target
       THEN /\ effects'   = effects \cup {[event |-> e, by |-> r, tenant |-> tenant[r]]}
            /\ processed' = processed \cup {e}
            /\ tenants'   = IF tenant[r] = r THEN [tenants EXCEPT ![r] = AccountOf[e]]
                                             ELSE tenants
       ELSE UNCHANGED <<effects, processed, tenants>>
    /\ Goto(r, "ended")
    /\ UNCHANGED <<redis, stored, answer, tenant, faults>>

\* A stale case version, a deadlock, a bug: rolled back, logged, over.
HandleFails(r) ==
    /\ pc[r] \in {"task", "unmapped", "resolved"}
    /\ faults < MaxFaults
    /\ faults' = faults + 1
    /\ Goto(r, "ended")
    /\ UNCHANGED <<redis, database, answer, tenant>>

-----------------------------------------------------------------------------
(* Around it. *)

\* The process of a request stops.  (With a task, that is HandleFails.)
Crash(r) ==
    /\ pc[r] \in {"received", "checked", "stored"}
    /\ faults < MaxFaults
    /\ faults' = faults + 1
    /\ Goto(r, "ended")
    /\ UNCHANGED <<redis, database, answer, tenant>>

\* An operator maps an account.
Provision(a) ==
    /\ Mapped(a) = {}
    /\ tenants[a] = Absent
    /\ tenants' = [tenants EXCEPT ![a] = a]
    /\ UNCHANGED <<redis, stored, processed, effects, pc, answer, tenant, faults>>

\* _bootstrap_demo_tenant, at the start of a process in DEMO_MODE: the tenant
\* with the default name is bound to the demo account, whatever it was bound to;
\* with two of that name, or two of that account, the query raises.
BindDemo ==
    LET default == {r \in Requests : tenants[r] # Absent} IN
    /\ DemoAccount \in Accounts
    /\ Mapped(DemoAccount) = {}
    /\ \/ /\ default = {}
          /\ tenants[DemoAccount] = Absent
          /\ tenants' = [tenants EXCEPT ![DemoAccount] = DemoAccount]
       \/ /\ Cardinality(default) = 1
          /\ tenants' = [t \in TenantIds |-> IF t \in default THEN DemoAccount ELSE tenants[t]]
    /\ UNCHANGED <<redis, stored, processed, effects, pc, answer, tenant, faults>>

Request(r) == CheckKey(r) \/ Persist(r) \/ Accept(r)
Task(r) == FindTenant(r) \/ Bootstrap(r) \/ Handle(r)

Next ==
    \/ \E r \in Requests : Receive(r) \/ Request(r) \/ Task(r)
    \/ \E r \in Requests : PersistFails(r) \/ HandleFails(r) \/ Crash(r)
    \/ \E e \in Events : KeyExpires(e)
    \/ \E a \in Accounts : Provision(a)
    \/ BindDemo

Spec == Init /\ [][Next]_vars

\* A process goes on with its requests and tasks.
Fairness == \A r \in Requests : WF_vars(Request(r)) /\ WF_vars(Task(r))
FairSpec == Spec /\ Fairness

-----------------------------------------------------------------------------
(* What intake promises. *)

\* The shape of the tables and of the requests.
TypeOK ==
    /\ redis \subseteq Events
    /\ stored \in [Events -> Requests \cup {Absent}]
    /\ processed \subseteq Events
    /\ tenants \in [TenantIds -> Accounts \cup {Absent}]
    /\ effects \subseteq Effect
    /\ pc \in [Requests -> Label]
    /\ answer \in [Requests -> Answer]
    /\ tenant \in [Requests -> TenantIds \cup {Absent}]
    /\ faults \in 0..MaxFaults

\* However often an event is delivered, at the same time or after a failure, and
\* whatever Redis says, it has at most one effect.
AtMostOneEffect == \A f, g \in effects : f.event = g.event => f = g

\* "accepted" is said of events whose row is committed, and of no event twice.
AcceptedOnce ==
    \A r \in Requests : answer[r] = "accepted" => stored[EventOf[r]] = r

\* ingestion.py, resolve_tenant: a caller is never assigned an arbitrary existing
\* tenant.  What an event commits is in a tenant bound to the event's account,
\* and stays there, unless the demo bootstrap has taken the tenant over.
EffectInMappedTenant ==
    \A f \in effects : tenants[f.tenant] \in {AccountOf[f.event], DemoAccount} \ {Absent}

\* An event of a mapped account that reaches the application without a failure
\* is processed, with Redis down, with keys expiring, with duplicates.
DeliveredIsProcessed ==
    \A r \in Requests :
        EventOf[r] \in Target /\ AccountOf[EventOf[r]] \in Provisioned =>
            (pc[r] = "received" ~> EventOf[r] \in processed)

=============================================================================
