------------------------- MODULE ExecutionOutboxInv -------------------------
(***************************************************************************)
(* The lock discipline of ExecutionOutbox: which session holds which row   *)
(* while it is where, what a loaded version is worth, and what a           *)
(* transaction that is about to commit leaves behind.  None of it is       *)
(* written down in the code; together it is why an Action has one outcome  *)
(* and a recovered case never changes, and it is inductive.                *)
(***************************************************************************)
EXTENDS ExecutionOutbox

\* Past its preflight an executor has an item in hand; past loading its event
\* a handler has the case and the Action of the event.
Calling    == {"dispatch", "result", "reconcile"}
Confirming == {"loaded", "writeCase", "writeAction", "outcome", "commit"}

\* The outbox row of a claimed, or created, item is locked by its executor.
HoldsLocked ==
    \A s \in Executors : \A a \in Actions : Holds(s, a) => outbox[a].by = s

\* The provider is called with the Action's row locked: Begin has written it.
CallsLocked ==
    \A s \in Executors : pc[s] \in Calling => action[cur[s]].by = s

\* Nobody knows an Action before its cycle creates it.
NotCreatedYet ==
    \A c \in Cycles : pc[c] = "idle" =>
        /\ case[ActionOf[c]]   = Unlocked(NoCase)
        /\ action[ActionOf[c]] = Unlocked(NoAction)
        /\ outbox[ActionOf[c]] = Unlocked(NoOutbox)
        /\ \A h \in Handlers : cur[h] # ActionOf[c]

\* Cases are created as RISK_ASSESSED and only ever become RECOVERED.
CaseStatuses ==
    \A a \in Actions :
        /\ case[a].val.status \in {"ABSENT", "RISK_ASSESSED", "RECOVERED"}
        /\ case[a].new.status \in {"ABSENT", "RISK_ASSESSED", "RECOVERED"}

\* A version says which row it was: a write raises it, so what a session has
\* loaded is still there when the version is.
VersionRaised ==
    \A a \in Actions : case[a].by # NoTx => case[a].new.version > case[a].val.version
VersionLoaded ==
    \A s \in Sessions :
        \/ pc[s] \in {"loaded", "writeCase"}
        \/ s \in Executors /\ pc[s] \in Calling \cup {"begin"}
        =>
            LET now == Read(case[cur[s]], s) IN
            /\ seen[s].case.version <= now.version
            /\ seen[s].case.version = now.version => seen[s].case = now

\* An executor that calls the provider has seen a case that is not recovered.
SeenOpen ==
    \A s \in Executors :
        pc[s] \in Calling \cup {"begin"} => seen[s].case.status # "RECOVERED"

\* A recovered case is never locked.
RecoveredUnlocked ==
    \A a \in Actions : case[a].val.status = "RECOVERED" => case[a].by = NoTx

\* What a handler holds, and what is true of the rows it does not lock.
HandlerIdle ==
    \A h \in Handlers :
        /\ pc[h] \in {"idle", "stored", "loaded", "writeCase"} => \A a \in Actions : case[a].by # h
        /\ pc[h] \notin Confirming => cur[h] = NoTx
\* What a handler past loading its case relies on until its commit.
HandlerRelies(h) ==
    LET a == ActionOf[h] IN
    /\ cur[h] = a
    /\ pc[h] \in {"loaded", "writeCase"} =>
          seen[h].case.status \in {"RISK_ASSESSED", "RECOVERED"}
    /\ pc[h] = "writeCase" => seen[h].case.status # "RECOVERED"
    /\ pc[h] = "writeAction" => seen[h].action # "SUCCEEDED"
    /\ pc[h] \in {"outcome", "commit"} /\ seen[h].action # "SUCCEEDED" => action[a].by = h
    /\ seen[h].case.status = "RECOVERED" => case[a].val.status = "RECOVERED"
    /\ seen[h].case.status # "RECOVERED" =>
          /\ pc[h] \notin {"loaded", "writeCase"} =>
                case[a].by = h /\ case[a].new.status = "RECOVERED"
          /\ seen[h].action = "SUCCEEDED" =>
                \/ case[a].val.status = "RECOVERED"
                \/ outbox[a].val.status = "COMPLETED" /\ outbox[a].by = NoTx
HandlerLocks == \A h \in Handlers : pc[h] \in Confirming => HandlerRelies(h)

\* An Action is committed as SUCCEEDED with its outbox row COMPLETED, or with
\* its case RECOVERED; a session that has written SUCCEEDED is about to.
SucceededDone ==
    \A a \in Actions : action[a].val.status = "SUCCEEDED" =>
        \/ case[a].val.status = "RECOVERED"
        \/ outbox[a].val.status = "COMPLETED" /\ outbox[a].by = NoTx
SucceededPending ==
    \A a \in Actions : action[a].new.status = "SUCCEEDED" /\ action[a].by # NoTx =>
        LET s == action[a].by IN
        \/ s \in Executors /\ outbox[a].by = s /\ outbox[a].new.status = "COMPLETED"
        \/ /\ s \in Handlers /\ pc[s] \in {"outcome", "commit"} /\ cur[s] = a
           /\ \/ case[a].val.status = "RECOVERED"
              \/ case[a].by = s /\ case[a].new.status = "RECOVERED"

\* Whoever has inserted an outcome holds locks that keep every other writer of
\* one away until it commits.
OutcomePending ==
    \A o \in inserted :
        /\ \/ o.by \in Executors /\ action[o.action].by = o.by /\ outbox[o.action].by = o.by
           \/ /\ o.by \in Handlers /\ pc[o.by] = "commit" /\ cur[o.by] = o.action
              /\ seen[o.by].case.status # "RECOVERED"
        /\ \A p \in outcomes : p.action # o.action
        /\ \A p \in inserted : p.action = o.action => p = o

\* A session that is about to commit a case as RECOVERED has, or will insert
\* first, an outcome.
RecoveredPending ==
    \A a \in Actions : case[a].by # NoTx /\ case[a].new.status = "RECOVERED" =>
        LET s == case[a].by IN
        \/ OutcomesOf(a, s) # {}
        \/ s \in Handlers /\ cur[s] = a /\ pc[s] \in {"writeAction", "outcome"}

LockDiscipline ==
    /\ HoldsLocked
    /\ CallsLocked
    /\ NotCreatedYet
    /\ CaseStatuses
    /\ VersionRaised
    /\ VersionLoaded
    /\ SeenOpen
    /\ RecoveredUnlocked
    /\ HandlerIdle
    /\ HandlerLocks
    /\ SucceededDone
    /\ SucceededPending
    /\ OutcomePending
    /\ RecoveredPending

-----------------------------------------------------------------------------
(* What the provider knows behind what the rows say, and how the attempts  *)
(* of an Action are numbered.                                              *)

PaidFor(a) == \E l \in paid : l.action = a
LinkFor(a) == \E l \in links : l.action = a

\* Nobody writes, or is about to write, that a case is recovered without a
\* payment: an event was delivered for it, or the provider answered "paid".
PaymentBehind ==
    /\ \A a \in Actions : "RECOVERED" \in {case[a].val.status, case[a].new.status} => PaidFor(a)
    /\ \A o \in outcomes \cup inserted : o.status = "RECOVERED" => PaidFor(o.action)
    /\ \A s \in Executors : pc[s] = "result" /\ res[s] = "paid" => PaidFor(cur[s])
    /\ \A h \in Handlers : Active(h) => PaidFor(ActionOf[h])

\* Nor that an item is completed, or an attempt succeeded, without a link.
LinkBehind ==
    /\ \A a \in Actions :
          /\ "COMPLETED" \in {outbox[a].val.status, outbox[a].new.status} => LinkFor(a)
          /\ \A n \in Tries :
                "SUCCEEDED" \in {action[a].val.attempts[n], action[a].new.attempts[n]} => LinkFor(a)
    /\ \A s \in Executors :
          \/ pc[s] = "result" /\ res[s] \in {"created", "paid"}
          \/ pc[s] = "block" /\ res[s] = "SUCCEEDED"
          => LinkFor(cur[s])

\* Attempts carry the numbers the outbox row has counted: it counts one more
\* with every claim, from 0 for the cycle that created it, and who writes
\* attempts holds it.
Numbered(a) ==
    LET row == outbox[a] IN
    /\ \A n \in Tries : n > row.val.tries \/ row.val.status = "ABSENT" =>
          action[a].val.attempts[n] = "NONE"
    /\ row.by \in Workers => row.new.tries = row.val.tries + 1
    /\ row.by \in Cycles => row.val.status = "ABSENT"
    /\ row.by # NoTx => row.by \in Executors /\ row.new.status # "ABSENT"
    /\ action[a].by \in Executors =>
          /\ row.by = action[a].by
          /\ \A n \in Tries : n > row.new.tries => action[a].new.attempts[n] = "NONE"
    /\ action[a].by \in Handlers => action[a].new.attempts = action[a].val.attempts
AttemptsCounted == \A a \in Actions : Numbered(a)

-----------------------------------------------------------------------------
(* What an Action and its outbox row say of each other.                    *)

Agree(status, row) ==
    /\ status = "AUTHORIZED" => row.status = "PENDING" /\ row.tries = 0
    /\ row.status = "COMPLETED" => status = "SUCCEEDED"

\* A session has its items once and none when it is over; none of them is
\* COMPLETED as long as it has them.
ItemsOnce ==
    \A s \in Executors :
        /\ cur[s] \notin todo[s]
        /\ pc[s] \in {"idle", "next", "processed", "dropped"} => cur[s] = NoTx
        /\ pc[s] \in {"idle", "processed", "dropped"} => todo[s] = {}
        /\ pc[s] # "commit"
        /\ \A a \in Actions : Holds(s, a) => outbox[a].new.status # "COMPLETED"
\* An executor leaves the two rows in agreement, a confirmation an Action that
\* succeeded; a row that is COMPLETED is not taken up again.
AgreePending(a) ==
    LET row == outbox[a] IN
    /\ Agree(action[a].val.status, row.val)
    /\ action[a].by \in Executors => row.by = action[a].by /\ Agree(action[a].new.status, row.new)
    /\ action[a].by \in Handlers => action[a].new.status = "SUCCEEDED"
    /\ row.by # NoTx =>
          /\ row.by \in Executors /\ row.val.status # "COMPLETED"
          /\ Holds(row.by, a) \/ action[a].by = row.by
ItemsAgreePending == \A a \in Actions : AgreePending(a)

=============================================================================
