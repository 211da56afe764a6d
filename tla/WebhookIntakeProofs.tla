------------------------ MODULE WebhookIntakeProofs --------------------------
(***************************************************************************)
(* What holds of WebhookIntake for every number of events, deliveries,     *)
(* accounts and failures.                                                  *)
(*                                                                         *)
(* One effect per event rests on the unique index: only the request that   *)
(* inserted an event's row has a task for it, and the index never gives    *)
(* the row to another (OneTask).  The tenant of an effect rests on         *)
(* TenantFits: a resolved task holds a tenant that is bound to its event's *)
(* account or has become the demo tenant, or one of its own, which nobody  *)
(* knows yet.                                                              *)
(***************************************************************************)
EXTENDS WebhookIntake, FiniteSetTheorems, TLAPS

\* Requests that have inserted a row and are not over.
Owning == {"stored", "task", "unmapped", "resolved"}

OneTask ==
    /\ \A r \in Requests : pc[r] \in Owning => stored[EventOf[r]] = r
    /\ \A f \in effects : /\ stored[f.event] = f.by
                          /\ EventOf[f.by] = f.event
                          /\ pc[f.by] = "ended"

HasTenant == \A r \in Requests : pc[r] = "resolved" => tenant[r] \in TenantIds

IInv == TypeOK /\ HasTenant /\ OneTask /\ AcceptedOnce /\ AtMostOneEffect

\* The account a tenant may be bound to if it was found for account a.
FitsAccount(t, a) == tenants[t] \in {a, DemoAccount} \ {Absent}

\* A task's own tenant is bound by its commit.
OwnUnbound == \A r \in Requests : pc[r] # "ended" => tenants[r] = Absent

TenantFits ==
    \A r \in Requests : pc[r] = "resolved" =>
        FitsAccount(tenant[r], AccountOf[EventOf[r]]) \/ tenant[r] = r

MInv == TypeOK /\ HasTenant /\ OwnUnbound /\ TenantFits /\ EffectInMappedTenant

-----------------------------------------------------------------------------
(* Types. *)

LEMMA InitType == Init => TypeOK
  <1> SUFFICES ASSUME Init PROVE TypeOK
    OBVIOUS
  <1>1. tenants \in [TenantIds -> Accounts \cup {Absent}]
    BY IntakeAssumption DEF Init
  <1>2. QED
    BY <1>1, IntakeAssumption DEF Init, TypeOK, Label, Answer

\* A single tenant of an account is a tenant, and bound to it.
LEMMA FoundIsMapped ==
  ASSUME NEW a, Cardinality(Mapped(a)) = 1
  PROVE  LET t == CHOOSE x \in Mapped(a) : TRUE IN t \in TenantIds /\ tenants[t] = a
  <1>1. Mapped(a) # {}
    BY FS_EmptySet
  <1>2. QED
    BY <1>1 DEF Mapped

LEMMA NextType == TypeOK /\ HasTenant /\ [Next]_vars => TypeOK'
  <1> SUFFICES ASSUME TypeOK, HasTenant, [Next]_vars PROVE TypeOK'
    OBVIOUS
  <1> USE IntakeAssumption DEF TypeOK, Label, Answer
  <1>1. ASSUME NEW r \in Requests, Receive(r) PROVE TypeOK'
    BY <1>1 DEF Receive, Goto, database
  <1>2. ASSUME NEW r \in Requests, CheckKey(r) PROVE TypeOK'
    BY <1>2 DEF CheckKey, Goto, Reply, database
  <1>3. ASSUME NEW r \in Requests, Persist(r) PROVE TypeOK'
    BY <1>3 DEF Persist, Goto, Reply, TenantIds
  <1>4. ASSUME NEW r \in Requests, PersistFails(r) PROVE TypeOK'
    <2>1. faults' \in 0..MaxFaults
      BY <1>4 DEF PersistFails
    <2>2. stored' \in [Events -> Requests \cup {Absent}]
      BY <1>4 DEF PersistFails
    <2>3. QED
      BY <1>4, <2>1, <2>2 DEF PersistFails, Goto, Reply
  <1>5. ASSUME NEW r \in Requests, Accept(r) PROVE TypeOK'
    BY <1>5 DEF Accept, Goto, Reply, database
  <1>6. ASSUME NEW r \in Requests, FindTenant(r) PROVE TypeOK'
    <2>1. tenant' \in [Requests -> TenantIds \cup {Absent}]
      BY <1>6, FoundIsMapped DEF FindTenant
    <2>2. QED
      BY <1>6, <2>1 DEF FindTenant, Goto, database
  <1>7. ASSUME NEW r \in Requests, Bootstrap(r) PROVE TypeOK'
    BY <1>7 DEF Bootstrap, Goto, database, TenantIds
  <1>8. ASSUME NEW r \in Requests, Handle(r) PROVE TypeOK'
    <2>1. tenant[r] \in TenantIds
      BY <1>8 DEF Handle, HasTenant
    <2>2. effects' \subseteq Effect
      BY <1>8, <2>1 DEF Handle, Effect
    <2>3. tenants' \in [TenantIds -> Accounts \cup {Absent}]
      BY <1>8, <2>1 DEF Handle
    <2>4. QED
      BY <1>8, <2>2, <2>3 DEF Handle, Goto
  <1>9. ASSUME NEW r \in Requests, HandleFails(r) \/ Crash(r) PROVE TypeOK'
    BY <1>9 DEF HandleFails, Crash, Goto, database
  <1>10. ASSUME NEW e \in Events, KeyExpires(e) PROVE TypeOK'
    BY <1>10 DEF KeyExpires, database
  <1>11. ASSUME NEW a \in Accounts, Provision(a) PROVE TypeOK'
    BY <1>11 DEF Provision, TenantIds
  <1>12. CASE BindDemo
    BY <1>12 DEF BindDemo, TenantIds
  <1>13. CASE UNCHANGED vars
    BY <1>13 DEF vars, database
  <1>14. QED
    BY <1>1, <1>2, <1>3, <1>4, <1>5, <1>6, <1>7, <1>8, <1>9, <1>10, <1>11, <1>12, <1>13
       DEF Next, Request, Task

LEMMA NextHasTenant == TypeOK /\ HasTenant /\ [Next]_vars => HasTenant'
  <1> SUFFICES ASSUME TypeOK, HasTenant, [Next]_vars, NEW q \in Requests, pc'[q] = "resolved"
               PROVE  tenant'[q] \in TenantIds
    BY DEF HasTenant
  <1> USE DEF TypeOK, HasTenant, Goto
  <1>1. ASSUME NEW r \in Requests, FindTenant(r) PROVE tenant'[q] \in TenantIds
    BY <1>1, FoundIsMapped DEF FindTenant
  <1>2. ASSUME NEW r \in Requests, Bootstrap(r) PROVE tenant'[q] \in TenantIds
    BY <1>2 DEF Bootstrap, TenantIds
  <1>3. ASSUME UNCHANGED <<pc, tenant>> PROVE tenant'[q] \in TenantIds
    BY <1>3
  <1>4. ASSUME NEW r \in Requests, Receive(r) \/ CheckKey(r) \/ Persist(r)
        PROVE  tenant'[q] \in TenantIds
    BY <1>4 DEF Receive, CheckKey, Persist
  <1>5. ASSUME NEW r \in Requests, Accept(r) \/ PersistFails(r) PROVE tenant'[q] \in TenantIds
    BY <1>5 DEF Accept, PersistFails
  <1>6. ASSUME NEW r \in Requests, Handle(r) \/ HandleFails(r) \/ Crash(r)
        PROVE  tenant'[q] \in TenantIds
    BY <1>6 DEF Handle, HandleFails, Crash
  <1>7. QED
    BY <1>1, <1>2, <1>3, <1>4, <1>5, <1>6
       DEF Next, Request, Task, KeyExpires, Provision, BindDemo, vars

\* Every step keeps TypeOK and HasTenant.
LEMMA TypeInv == Spec => [](TypeOK /\ HasTenant)
  <1>1. Init => HasTenant
    BY DEF Init, HasTenant
  <1>2. QED
    BY <1>1, InitType, NextType, NextHasTenant, PTL DEF Spec

\* TypeOK: the tables and the requests keep their shape.
THEOREM TypeCorrect == Spec => []TypeOK
  BY TypeInv, PTL

-----------------------------------------------------------------------------
(* One task and one effect per event. *)

\* Once inserted, an event's row stays the row of the request that inserted it.
LEMMA RowsAreKept ==
  ASSUME TypeOK, [Next]_vars, NEW e \in Events, stored[e] # Absent
  PROVE  stored'[e] = stored[e]
  BY DEF TypeOK, Next, Request, Task, Receive, CheckKey, Persist, PersistFails, Accept,
         FindTenant, Bootstrap, Handle, HandleFails, Crash, KeyExpires, Provision, BindDemo,
         vars, database

LEMMA NextOneTask == IInv /\ [Next]_vars => OneTask'
  <1> SUFFICES ASSUME IInv, [Next]_vars PROVE OneTask'
    OBVIOUS
  <1> USE DEF IInv
  <1>1. \A e \in Events : stored[e] # Absent => stored'[e] = stored[e]
    BY RowsAreKept
  <1>2. ASSUME NEW q \in Requests, pc'[q] \in Owning PROVE stored'[EventOf[q]] = q
    <2>1. pc[q] \in Owning \/ Persist(q)
      BY <1>2 DEF TypeOK, Owning, Next, Request, Task, Receive, CheckKey, Persist, PersistFails,
                  Accept, FindTenant, Bootstrap, Handle, HandleFails, Crash, KeyExpires,
                  Provision, BindDemo, vars, database, Goto
    <2>2. EventOf[q] \in Events /\ q # Absent
      BY IntakeAssumption DEF TenantIds
    <2>3. CASE pc[q] \in Owning
      BY <1>1, <2>2, <2>3 DEF OneTask
    <2>4. CASE Persist(q)
      BY <1>2, <2>2, <2>4 DEF Persist, Goto, TypeOK, Owning
    <2>5. QED
      BY <2>1, <2>3, <2>4
  <1>3. ASSUME NEW f \in effects'
        PROVE  /\ stored'[f.event] = f.by
               /\ EventOf[f.by] = f.event
               /\ pc'[f.by] = "ended"
    <2>1. CASE f \in effects
      <3>1. /\ f.event \in Events /\ f.by \in Requests /\ f.by # Absent
            /\ stored[f.event] = f.by /\ EventOf[f.by] = f.event /\ pc[f.by] = "ended"
        BY <2>1, IntakeAssumption DEF OneTask, TypeOK, Effect, TenantIds
      <3>2. pc'[f.by] = "ended"
        BY <3>1 DEF TypeOK, Next, Request, Task, Receive, CheckKey, Persist, PersistFails,
                    Accept, FindTenant, Bootstrap, Handle, HandleFails, Crash, KeyExpires,
                    Provision, BindDemo, vars, database, Goto
      <3>3. QED
        BY <1>1, <3>1, <3>2
    <2>2. CASE f \notin effects
      <3>1. PICK r \in Requests : Handle(r)
        BY <1>3, <2>2 DEF Next, Request, Task, Receive, CheckKey, Persist, PersistFails,
                    Accept, FindTenant, Bootstrap, HandleFails, Crash, KeyExpires,
                    Provision, BindDemo, vars, database
      <3>2. f = [event |-> EventOf[r], by |-> r, tenant |-> tenant[r]]
        BY <1>3, <2>2, <3>1 DEF Handle
      <3>3. stored[EventOf[r]] = r
        BY <3>1 DEF Handle, OneTask, Owning
      <3>4. pc'[r] = "ended" /\ UNCHANGED stored
        BY <3>1 DEF Handle, Goto, TypeOK
      <3>5. QED
        BY <3>2, <3>3, <3>4
    <2>3. QED
      BY <2>1, <2>2
  <1>4. QED
    BY <1>2, <1>3 DEF OneTask

LEMMA NextOneEffect == IInv /\ [Next]_vars => AcceptedOnce' /\ AtMostOneEffect'
  <1> SUFFICES ASSUME IInv, [Next]_vars PROVE AcceptedOnce' /\ AtMostOneEffect'
    OBVIOUS
  <1> USE DEF IInv
  <1>1. ASSUME NEW q \in Requests, answer'[q] = "accepted" PROVE stored'[EventOf[q]] = q
    <2>1. answer[q] = "accepted" \/ (Accept(q) /\ pc[q] = "stored")
      BY <1>1 DEF TypeOK, Next, Request, Task, Receive, CheckKey, Persist, PersistFails,
                  Accept, FindTenant, Bootstrap, Handle, HandleFails, Crash, KeyExpires,
                  Provision, BindDemo, vars, database, Reply
    <2>2. stored[EventOf[q]] = q
      BY <2>1 DEF AcceptedOnce, OneTask, Owning
    <2>3. EventOf[q] \in Events /\ q # Absent
      BY IntakeAssumption DEF TenantIds
    <2>4. QED
      BY <2>2, <2>3, RowsAreKept
  <1>2. ASSUME NEW f \in effects', NEW g \in effects', f.event = g.event PROVE f = g
    <2>1. CASE effects' = effects
      BY <1>2, <2>1 DEF AtMostOneEffect
    <2>2. ASSUME NEW r \in Requests, Handle(r), effects' # effects PROVE f = g
      <3> DEFINE h == [event |-> EventOf[r], by |-> r, tenant |-> tenant[r]]
      <3>1. effects' = effects \cup {h}
        BY <2>2 DEF Handle
      <3>2. \A x \in effects : x.event # EventOf[r]
        BY <2>2 DEF OneTask, Owning, Handle
      <3>3. QED
        BY <1>2, <3>1, <3>2 DEF AtMostOneEffect
    <2>3. QED
      BY <2>1, <2>2 DEF Next, Request, Task, Receive, CheckKey, Persist, PersistFails,
                  Accept, FindTenant, Bootstrap, HandleFails, Crash, KeyExpires,
                  Provision, BindDemo, vars, database
  <1>3. QED
    BY <1>1, <1>2 DEF AcceptedOnce, AtMostOneEffect

LEMMA Inductive == Spec => []IInv
  <1>1. Init => OneTask /\ AcceptedOnce /\ AtMostOneEffect
    BY DEF Init, OneTask, AcceptedOnce, AtMostOneEffect, Owning
  <1>2. IInv /\ [Next]_vars => (OneTask /\ AcceptedOnce /\ AtMostOneEffect)'
    BY NextOneTask, NextOneEffect
  <1>3. IInv <=> TypeOK /\ HasTenant /\ OneTask /\ AcceptedOnce /\ AtMostOneEffect
    BY DEF IInv
  <1>4. QED
    BY <1>1, <1>2, <1>3, TypeInv, PTL DEF Spec

\* However often an event is delivered, concurrently or after a failure, its
\* handling commits at most once.
THEOREM EventsHaveOneEffect == Spec => []AtMostOneEffect
  BY Inductive, PTL DEF IInv

\* The provider is told "accepted" by one delivery of an event at most, and only
\* when that delivery's insert is committed.
THEOREM AcceptedEventsAreStored == Spec => []AcceptedOnce
  BY Inductive, PTL DEF IInv

-----------------------------------------------------------------------------
(* The tenant of an effect. *)

LEMMA AccountsAreBound == \A e \in Events : AccountOf[e] # Absent
  BY IntakeAssumption DEF TenantIds

\* Only Handle, Provision and BindDemo write tenants.
LEMMA TenantWriters ==
  ASSUME [Next]_vars
  PROVE  \/ UNCHANGED tenants
         \/ \E r \in Requests : Handle(r)
         \/ \E a \in Accounts : Provision(a)
         \/ BindDemo
  BY DEF Next, Request, Task, Receive, CheckKey, Persist, PersistFails, Accept,
         FindTenant, Bootstrap, HandleFails, Crash, KeyExpires, vars, database

\* A request that is over stays so.
LEMMA EndedIsOver ==
  ASSUME TypeOK, [Next]_vars, NEW q \in Requests, pc[q] = "ended"
  PROVE  pc'[q] = "ended"
  BY DEF TypeOK, Next, Request, Task, Receive, CheckKey, Persist, PersistFails, Accept,
         FindTenant, Bootstrap, Handle, HandleFails, Crash, KeyExpires, Provision, BindDemo,
         vars, database, Goto

\* What Handle does to a tenant.
LEMMA HandleBinds ==
  ASSUME TypeOK, NEW r \in Requests, Handle(r)
  PROVE  /\ pc[r] = "resolved" /\ pc'[r] = "ended" /\ EventOf[r] \in Events
         /\ \A t \in TenantIds \ {r} : tenants'[t] = tenants[t]
         /\ effects' # effects /\ tenant[r] = r => tenants'[r] = AccountOf[EventOf[r]]
  <1>1. pc[r] = "resolved" /\ pc'[r] = "ended" /\ EventOf[r] \in Events
    BY IntakeAssumption DEF Handle, TypeOK, Goto
  <1>2. \/ tenants' = tenants
        \/ tenants' = [tenants EXCEPT ![r] = AccountOf[EventOf[r]]]
    BY DEF Handle
  <1>3. \A t \in TenantIds \ {r} : tenants'[t] = tenants[t]
    BY <1>2 DEF TypeOK
  <1>4. effects' # effects /\ tenant[r] = r => tenants'[r] = AccountOf[EventOf[r]]
    <2>1. effects' # effects /\ tenant[r] = r =>
             tenants' = [tenants EXCEPT ![r] = AccountOf[EventOf[r]]]
      BY DEF Handle
    <2>2. r \in TenantIds
      BY DEF TenantIds
    <2>3. QED
      BY <2>1, <2>2 DEF TypeOK
  <1>5. QED
    BY <1>1, <1>3, <1>4

\* BindDemo binds to the demo account what is bound, or a row of its own.
LEMMA BindDemoBinds ==
  ASSUME TypeOK, BindDemo
  PROVE  /\ DemoAccount # Absent
         /\ \A t \in TenantIds : tenants[t] # Absent => tenants'[t] \in {tenants[t], DemoAccount}
         /\ \A r \in Requests : tenants[r] = Absent => tenants'[r] = Absent
  <1>1. DemoAccount \in Accounts /\ DemoAccount # Absent
    BY IntakeAssumption DEF BindDemo, TenantIds
  <1>2. CASE tenants[DemoAccount] = Absent /\ tenants' = [tenants EXCEPT ![DemoAccount] = DemoAccount]
    BY <1>1, <1>2, IntakeAssumption DEF TypeOK, TenantIds
  <1>3. CASE tenants' = [t \in TenantIds |->
                           IF t \in {r \in Requests : tenants[r] # Absent} THEN DemoAccount
                                                                           ELSE tenants[t]]
    BY <1>1, <1>3 DEF TenantIds
  <1>4. QED
    BY <1>2, <1>3 DEF BindDemo

\* A tenant that is bound stays bound to its account or becomes the demo tenant.
LEMMA BindingsAreKept ==
  ASSUME MInv, [Next]_vars, NEW t \in TenantIds, tenants[t] # Absent
  PROVE  tenants'[t] \in {tenants[t], DemoAccount} \ {Absent}
  <1> USE DEF MInv
  <1>1. ASSUME NEW r \in Requests, Handle(r) PROVE tenants'[t] = tenants[t]
    <2>1. t # r
      BY <1>1, HandleBinds DEF OwnUnbound
    <2>2. QED
      BY <1>1, <2>1, HandleBinds
  <1>2. ASSUME NEW a \in Accounts, Provision(a) PROVE tenants'[t] = tenants[t]
    BY <1>2 DEF Provision, TypeOK, TenantIds
  <1>3. ASSUME BindDemo PROVE tenants'[t] \in {tenants[t], DemoAccount} \ {Absent}
    BY <1>3, BindDemoBinds
  <1>4. QED
    BY <1>1, <1>2, <1>3, TenantWriters

LEMMA FitsIsKept ==
  ASSUME MInv, [Next]_vars, NEW t \in TenantIds, NEW a, FitsAccount(t, a)
  PROVE  FitsAccount(t, a)'
  BY BindingsAreKept DEF FitsAccount

LEMMA NextOwnUnbound ==
  ASSUME MInv, [Next]_vars
  PROVE  OwnUnbound'
  <1> USE DEF MInv
  <1> SUFFICES ASSUME NEW q \in Requests, pc'[q] # "ended" PROVE tenants'[q] = Absent
    BY DEF OwnUnbound
  <1>1. tenants[q] = Absent /\ q \in TenantIds
    BY EndedIsOver DEF OwnUnbound, TenantIds
  <1>2. ASSUME NEW r \in Requests, Handle(r) PROVE tenants'[q] = Absent
    <2>1. r # q
      BY <1>2, HandleBinds
    <2>2. QED
      BY <1>1, <1>2, <2>1, HandleBinds
  <1>3. ASSUME NEW a \in Accounts, Provision(a) PROVE tenants'[q] = Absent
    BY <1>1, <1>3, IntakeAssumption DEF Provision, TypeOK
  <1>4. ASSUME BindDemo PROVE tenants'[q] = Absent
    BY <1>1, <1>4, BindDemoBinds
  <1>5. QED
    BY <1>1, <1>2, <1>3, <1>4, TenantWriters

LEMMA NextTenantFits ==
  ASSUME MInv, [Next]_vars
  PROVE  TenantFits'
  <1> USE DEF MInv
  <1> DEFINE a(q) == AccountOf[EventOf[q]]
  <1> SUFFICES ASSUME NEW q \in Requests, pc'[q] = "resolved"
               PROVE  FitsAccount(tenant[q], a(q))' \/ tenant'[q] = q
    BY DEF TenantFits
  <1>0. EventOf[q] \in Events /\ a(q) # Absent
    BY AccountsAreBound, IntakeAssumption
  <1>1. CASE FindTenant(q)
    <2>1. tenants[tenant'[q]] = a(q)
      BY <1>1, FoundIsMapped DEF FindTenant, Goto, TypeOK
    <2>2. UNCHANGED tenants
      BY <1>1 DEF FindTenant, database
    <2>3. QED
      BY <1>0, <2>1, <2>2 DEF FitsAccount
  <1>2. CASE Bootstrap(q)
    BY <1>2 DEF Bootstrap, Goto, TypeOK
  <1>3. CASE ~FindTenant(q) /\ ~Bootstrap(q)
    <2>1. pc[q] = "resolved" /\ tenant'[q] = tenant[q]
      BY <1>3 DEF TypeOK, Next, Request, Task, Receive, CheckKey, Persist, PersistFails,
                  Accept, FindTenant, Bootstrap, Handle, HandleFails, Crash, KeyExpires,
                  Provision, BindDemo, vars, database, Goto
    <2>2. tenant[q] \in TenantIds
      BY <2>1 DEF HasTenant
    <2>3. CASE FitsAccount(tenant[q], a(q))
      <3>1. tenants[tenant[q]] \in {a(q), DemoAccount} \ {Absent}
        BY <2>3 DEF FitsAccount
      <3>2. tenants'[tenant[q]] \in {a(q), DemoAccount} \ {Absent}
        BY <2>2, <3>1, BindingsAreKept
      <3>3. QED
        BY <2>1, <3>2 DEF FitsAccount
    <2>4. QED
      BY <2>1, <2>3 DEF TenantFits
  <1>4. QED
    BY <1>1, <1>2, <1>3

LEMMA NextMapped ==
  ASSUME MInv, [Next]_vars
  PROVE  EffectInMappedTenant'
  <1> USE DEF MInv
  <1> SUFFICES ASSUME NEW f \in effects'
               PROVE  tenants'[f.tenant] \in {AccountOf[f.event], DemoAccount} \ {Absent}
    BY DEF EffectInMappedTenant
  <1>1. CASE f \in effects
    <2>1. /\ f.tenant \in TenantIds
          /\ tenants[f.tenant] \in {AccountOf[f.event], DemoAccount} \ {Absent}
      BY <1>1 DEF EffectInMappedTenant, TypeOK, Effect
    <2>2. QED
      BY <2>1, BindingsAreKept
  <1>2. CASE f \notin effects
    <2>1. PICK r \in Requests : Handle(r)
      BY <1>2 DEF Next, Request, Task, Receive, CheckKey, Persist, PersistFails,
                  Accept, FindTenant, Bootstrap, HandleFails, Crash, KeyExpires,
                  Provision, BindDemo, vars, database
    <2>2. /\ f.event = EventOf[r] /\ f.tenant = tenant[r]
          /\ pc[r] = "resolved" /\ tenant[r] \in TenantIds
      BY <1>2, <2>1 DEF Handle, HasTenant
    <2>3. CASE tenant[r] = r
      <3>1. tenants'[r] = AccountOf[EventOf[r]] /\ EventOf[r] \in Events
        BY <1>2, <2>1, <2>3, HandleBinds
      <3>2. QED
        BY <2>2, <2>3, <3>1, AccountsAreBound
    <2>4. CASE tenant[r] # r
      <3>1. tenants[tenant[r]] \in {AccountOf[EventOf[r]], DemoAccount} \ {Absent}
        BY <2>2, <2>4 DEF TenantFits, FitsAccount
      <3>2. tenants'[tenant[r]] = tenants[tenant[r]]
        BY <2>1, <2>2, <2>4, HandleBinds
      <3>3. QED
        BY <2>2, <3>1, <3>2
    <2>5. QED
      BY <2>3, <2>4
  <1>3. QED
    BY <1>1, <1>2

\* What an event commits belongs to a tenant that is bound to the event's
\* account, and that binding is never taken back except by the demo bootstrap.
THEOREM EffectsAreInTheirTenant == Spec => []EffectInMappedTenant
  <1>1. Init => OwnUnbound /\ TenantFits /\ EffectInMappedTenant
    BY IntakeAssumption DEF Init, OwnUnbound, TenantFits, EffectInMappedTenant, TenantIds
  <1>2. MInv /\ [Next]_vars => (OwnUnbound /\ TenantFits /\ EffectInMappedTenant)'
    BY NextOwnUnbound, NextTenantFits, NextMapped
  <1>3. MInv <=> TypeOK /\ HasTenant /\ OwnUnbound /\ TenantFits /\ EffectInMappedTenant
    BY DEF MInv
  <1>4. QED
    BY <1>1, <1>2, <1>3, TypeInv, PTL DEF Spec
=============================================================================
