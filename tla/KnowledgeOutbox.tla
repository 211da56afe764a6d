--------------------------- MODULE KnowledgeOutbox ---------------------------
(***************************************************************************)
(* The durable queue from recovery measurements to the vector index.  Each *)
(* measurement is committed together with a KnowledgeOutbox row.  Three    *)
(* kinds of database session work on the rows:                             *)
(*                                                                         *)
(*   - a creator inserts the measurement's row and, before it commits,     *)
(*     starts a trigger for it in the memory of its process;               *)
(*   - a trigger claims that one row, if it can see and lock it, and       *)
(*     indexes it;                                                         *)
(*   - a drainer, of which every process runs one, sweeps a batch of rows. *)
(*                                                                         *)
(* A claim, the calls of the index and what they write are one             *)
(* transaction, so a restart of the process undoes all of it except the    *)
(* vectors.  Each process runs some release of the code, which names the   *)
(* collection it writes to; a row remembers the release that indexed it.   *)
(***************************************************************************)
EXTENDS Integers, FiniteSets, RowLocks

CONSTANTS
    Items,         \* measurements, numbered in the order of created_at
    Processes,     \* web and worker processes
    Creators,      \* sessions that record a measurement
    Triggers,      \* the tasks they start
    ItemOf,        \* the measurement of a creator and of its trigger
    HostOf,        \* the process a creator and its trigger run in
    MaxRetries,    \* KnowledgeOutbox.max_retries
    BatchSize,     \* of a drainer's sweep
    MaxRelease,    \* bound: KNOWLEDGE_INDEX_VERSION of the last release
    MaxRestarts    \* bound: restarts of processes

\* A process and its drainer go by one name.
Sessions == Processes \cup Creators \cup Triggers
Indexers == Processes \cup Triggers
Host(s)  == IF s \in Processes THEN s ELSE HostOf[s]

ASSUME SessionAssumption ==
    /\ Processes \cap Creators = {}
    /\ Processes \cap Triggers = {}
    /\ Creators \cap Triggers = {}
    /\ NoTx \notin Sessions
    /\ \A s \in Creators \cup Triggers : ItemOf[s] \in Items /\ HostOf[s] \in Processes
    /\ \A c, d \in Creators : ItemOf[c] = ItemOf[d] => c = d
    /\ \A t, u \in Triggers : ItemOf[t] = ItemOf[u] => t = u

ASSUME BoundAssumption ==
    /\ Items \subseteq Nat
    /\ MaxRetries \in Nat \ {0}
    /\ BatchSize \in Nat \ {0}
    /\ MaxRelease \in Nat \ {0}
    /\ MaxRestarts \in Nat

VARIABLES
    row,      \* KnowledgeOutbox rows: [status, tries, version]
    vectors,  \* points in the index: [item, version], a collection per version
    release,  \* KNOWLEDGE_INDEX_VERSION of the code a process runs
    pc,       \* where each session is
    todo,     \* rows a session has claimed and not processed yet
    restarts

vars == <<row, vectors, release, pc, todo, restarts>>

Status   == {"PENDING", "CLAIMED", "COMPLETED", "FAILED", "DEAD_LETTERED"}
Releases == 1..MaxRelease
\* One attempt beyond the budget: a trigger does not look at it.
Tries    == 0..(MaxRetries + 1)
Entry    == [status : Status \cup {"ABSENT"}, tries : Tries, version : 0..MaxRelease]
Absent   == [status |-> "ABSENT", tries |-> 0, version |-> 0]

Init ==
    /\ row      = [i \in Items |-> Unlocked(Absent)]
    /\ vectors  = {}
    /\ release  = [p \in Processes |-> 1]
    /\ pc       = [s \in Sessions |-> "idle"]
    /\ todo     = [s \in Sessions |-> {}]
    /\ restarts = 0

Goto(s, label) == pc' = [pc EXCEPT ![s] = label]

-----------------------------------------------------------------------------
(* Creating a row: create_outbox_entry, and the trigger after it. *)

Create(c) ==
    LET i == ItemOf[c] IN
    /\ pc[c] = "idle"
    /\ row' = [row EXCEPT ![i] = Write(@, c,
                 [status |-> "PENDING", tries |-> 0, version |-> release[HostOf[c]]])]
    /\ pc' = [s \in Sessions |-> IF s = c THEN "work"
                                 ELSE IF s \in Triggers /\ ItemOf[s] = i THEN "started"
                                 ELSE pc[s]]
    /\ UNCHANGED <<vectors, release, todo, restarts>>

\* The transaction that records the measurement fails after the row was
\* inserted (a stale case version, a deadlock); the trigger stays.
CreateFails(c) ==
    /\ pc[c] = "work"
    /\ row' = Discard(row, c)
    /\ Goto(c, "done")
    /\ UNCHANGED <<vectors, release, todo, restarts>>

-----------------------------------------------------------------------------
(* Claiming. *)

\* Mutant: a row is taken up once.
NeedsFirstAttempt(e, v) ==
    /\ e.tries < MaxRetries
    /\ \/ e.status \in {"PENDING", "CLAIMED"}
       \/ e.status = "COMPLETED" /\ e.version # v
\* _needs_processing, for code of release v.  An expired lease is one that has
\* not been renewed; a row is never committed as CLAIMED, so when it would
\* expire does not matter.
NeedsProcessing(e, v) ==
    /\ e.tries < MaxRetries
    /\ \/ e.status \in {"PENDING", "FAILED", "CLAIMED"}
       \/ e.status = "COMPLETED" /\ e.version # v

\* Mutant: the query locks nothing and skips nothing.
SelectableUnlocked ==
    { i \in Items :
        /\ row[i].val.status \in {"PENDING", "FAILED", "CLAIMED", "COMPLETED"}
        /\ row[i].val.tries < MaxRetries }
\* The WHERE clause, which does not know the release; FOR UPDATE SKIP LOCKED.
Selectable ==
    { i \in Items :
        /\ row[i].by = NoTx
        /\ row[i].val.status \in {"PENDING", "FAILED", "CLAIMED", "COMPLETED"}
        /\ row[i].val.tries < MaxRetries }

\* ORDER BY created_at LIMIT batch_size.
Selected == {i \in Selectable : Cardinality({j \in Selectable : j < i}) < BatchSize}

Claimed(e) == [status |-> "CLAIMED", tries |-> e.tries + 1, version |-> e.version]

\* Rows that are selected and then passed over stay locked like the others.
Sweep(p) ==
    /\ pc[p] = "idle"
    /\ LET S == {i \in Selected : NeedsProcessing(row[i].val, release[p])} IN
       /\ row' = [i \in Items |->
                    IF i \in S THEN Write(row[i], p, Claimed(row[i].val))
                    ELSE IF i \in Selected THEN Write(row[i], p, row[i].val)
                    ELSE row[i]]
       /\ todo' = [todo EXCEPT ![p] = S]
    /\ Goto(p, "work")
    /\ UNCHANGED <<vectors, release, restarts>>

\* Mutant: the trigger works on the row it was started for as its creator has
\* written it.
TriggerUncommitted(t) ==
    LET i == ItemOf[t] IN
    /\ pc[t] = "started"
    /\ row'  = [row EXCEPT ![i] = Write(@, t, Claimed(@.new))]
    /\ todo' = [todo EXCEPT ![t] = {i}]
    /\ Goto(t, "work")
    /\ UNCHANGED <<vectors, release, restarts>>
\* process_outbox_item_safe: neither the budget nor DEAD_LETTERED is looked at.
\* A row that is not committed yet, or is locked, is left to the drainers.
Trigger(t) ==
    LET i == ItemOf[t]
        e == row[i].val
    IN
    /\ pc[t] = "started"
    /\ \/ /\ e.status \in {"ABSENT", "COMPLETED"} \/ row[i].by # NoTx
          /\ Goto(t, "done")
          /\ UNCHANGED <<row, todo>>
       \/ /\ e.status \notin {"ABSENT", "COMPLETED"} /\ row[i].by = NoTx
          /\ row'  = [row EXCEPT ![i] = Write(@, t, Claimed(e))]
          /\ todo' = [todo EXCEPT ![t] = {i}]
          /\ Goto(t, "work")
    /\ UNCHANGED <<vectors, release, restarts>>

-----------------------------------------------------------------------------
(* Processing one claimed row: process_item. *)

Point(i, s) == [item |-> i, version |-> release[Host(s)]]

Indexed(s, i) ==
    /\ pc[s] = "work" /\ i \in todo[s]
    /\ vectors' = vectors \cup {Point(i, s)}
    /\ row' = [row EXCEPT ![i] = Write(@, s,
                 [@.new EXCEPT !.status = "COMPLETED", !.version = release[Host(s)]])]
    /\ todo' = [todo EXCEPT ![s] = @ \ {i}]
    /\ UNCHANGED <<release, pc, restarts>>

\* Mutant: the budget is compared with >.
AfterFailureOnceMore(e) ==
    [e EXCEPT !.status = IF e.tries > MaxRetries THEN "DEAD_LETTERED" ELSE "FAILED"]
\* Mutant: a failure is counted although its claim was.
AfterFailureCounted(e) ==
    [e EXCEPT !.tries = @ + 1,
              !.status = IF e.tries >= MaxRetries THEN "DEAD_LETTERED" ELSE "FAILED"]
AfterFailure(e) ==
    [e EXCEPT !.status = IF e.tries >= MaxRetries THEN "DEAD_LETTERED" ELSE "FAILED"]

\* Mutant: the caller ignores the result and completes the row.
FailureCompletes(s, i) ==
    /\ pc[s] = "work" /\ i \in todo[s]
    /\ vectors' \in {vectors, vectors \cup {Point(i, s)}}
    /\ row' = [row EXCEPT ![i] = Write(@, s,
                 [@.new EXCEPT !.status = "COMPLETED", !.version = release[Host(s)]])]
    /\ todo' = [todo EXCEPT ![s] = @ \ {i}]
    /\ UNCHANGED <<release, pc, restarts>>
\* The index is down, or answers too late: the vector may have been written.
IndexingFails(s, i) ==
    /\ pc[s] = "work" /\ i \in todo[s]
    /\ vectors' \in {vectors, vectors \cup {Point(i, s)}}
    /\ row' = [row EXCEPT ![i] = Write(@, s, AfterFailure(@.new))]
    /\ todo' = [todo EXCEPT ![s] = @ \ {i}]
    /\ UNCHANGED <<release, pc, restarts>>

-----------------------------------------------------------------------------
(* The end of a transaction. *)

Finished(s) == IF s \in Processes THEN "idle" ELSE "done"

\* A sweep that has claimed nothing closes its session instead, to the same
\* effect.
Commit(s) ==
    /\ pc[s] = "work" /\ todo[s] = {}
    /\ row' = Publish(row, s)
    /\ Goto(s, Finished(s))
    /\ UNCHANGED <<vectors, release, todo, restarts>>

\* A process stops, with every session and every task in its memory, and
\* starts again, perhaps with the next release.
Restart(p) ==
    LET lost == {s \in Sessions : Host(s) = p /\ pc[s] # "idle"} IN
    /\ restarts < MaxRestarts
    /\ restarts' = restarts + 1
    /\ row' = [i \in Items |-> IF row[i].by \in lost THEN Unlocked(row[i].val) ELSE row[i]]
    /\ pc' = [s \in Sessions |-> IF s \in lost THEN Finished(s) ELSE pc[s]]
    /\ todo' = [s \in Sessions |-> IF s \in lost THEN {} ELSE todo[s]]
    /\ \E v \in {release[p], release[p] + 1} \cap Releases :
        release' = [release EXCEPT ![p] = v]
    /\ UNCHANGED vectors

Index(s) == \E i \in Items : Indexed(s, i) \/ IndexingFails(s, i)

Next ==
    \/ \E c \in Creators : Create(c) \/ CreateFails(c)
    \/ \E p \in Processes : Sweep(p) \/ Restart(p)
    \/ \E t \in Triggers : Trigger(t)
    \/ \E s \in Indexers : Index(s)
    \/ \E s \in Sessions : Commit(s)

Spec == Init /\ [][Next]_vars

\* Drainers sweep at an interval and every call of the index returns.  Whether
\* a measurement is recorded, a restart happens or the index is up is left open.
Fairness ==
    /\ \A p \in Processes : WF_vars(Sweep(p))
    /\ \A t \in Triggers : WF_vars(Trigger(t))
    /\ \A s \in Indexers : WF_vars(Index(s))
    /\ \A s \in Sessions : WF_vars(Commit(s))

FairSpec == Spec /\ Fairness

-----------------------------------------------------------------------------
(* What the queue promises. *)

\* The shape of the rows, the index and the sessions; attempt_count exceeds the
\* budget by at most the one attempt of the row's trigger.
TypeOK ==
    /\ row \in [Items -> [val : Entry, new : Entry, by : Sessions \cup {NoTx}]]
    /\ vectors \subseteq [item : Items, version : Releases]
    /\ release \in [Processes -> Releases]
    /\ pc \in [Sessions -> {"idle", "started", "work", "done"}]
    /\ todo \in [Sessions -> SUBSET Items]
    /\ restarts \in 0..MaxRestarts

\* No row is in the hands of a drainer and a trigger, or of two drainers, from
\* its claim to the end of the transaction.
OneIndexer ==
    \A s, t \in Indexers : todo[s] \cap todo[t] # {} => s = t

\* A row committed as COMPLETED has its vector in the collection of the release
\* it names, whatever was rolled back or answered late.
CompletedIsIndexed ==
    \A i \in Items : row[i].val.status = "COMPLETED" =>
        [item |-> i, version |-> row[i].val.version] \in vectors

\* The index holds nothing that is not recorded: PostgreSQL is the authority,
\* so a measurement whose transaction failed is never indexed.
VectorsAreRecorded == \A x \in vectors : row[x.item].val.status # "ABSENT"

\* Committed rows rest where somebody can find them: none is left CLAIMED, one
\* that failed has attempts left, and one without is DEAD_LETTERED or indexed.
RowsRest ==
    \A i \in Items :
        /\ row[i].val.status # "CLAIMED"
        /\ row[i].val.status \in {"PENDING", "FAILED"} => row[i].val.tries < MaxRetries
        /\ row[i].val.status = "DEAD_LETTERED" => row[i].val.tries >= MaxRetries

\* Every recorded measurement is indexed or dead-lettered, as long as a batch
\* can hold all rows.
PendingIsSettled ==
    \A i \in Items :
        row[i].val.status \in {"PENDING", "FAILED"}
            ~> row[i].val.status \in {"COMPLETED", "DEAD_LETTERED"}

-----------------------------------------------------------------------------
(* Why it holds: what a session has in hand, and what it may commit. *)

\* A claimed row is locked by its session, which is at work, and is recorded.
ClaimsLocked ==
    \A s \in Sessions : \A i \in todo[s] :
        s \in Indexers /\ pc[s] = "work" /\ row[i].by = s /\ row[i].val.status # "ABSENT"

\* A row that could be committed as e: it is in the index if it says so, and
\* its budget agrees with its status.
Rests(i, e) ==
    /\ e.status # "CLAIMED"
    /\ e.status \in {"PENDING", "FAILED"} => e.tries < MaxRetries
    /\ e.status = "DEAD_LETTERED" => e.tries >= MaxRetries
    /\ e.status = "COMPLETED" => [item |-> i, version |-> e.version] \in vectors
CommittedRests == \A i \in Items : Rests(i, row[i].val)
WrittenRests ==
    \A i \in Items : row[i].by # NoTx =>
        /\ row[i].new.status # "ABSENT"
        /\ i \notin todo[row[i].by] => Rests(i, row[i].new)

\* Nobody knows a row, and no trigger is started, before its creator inserts it.
NotCreatedYet ==
    \A c \in Creators : pc[c] = "idle" =>
        /\ row[ItemOf[c]] = Unlocked(Absent)
        /\ \A t \in Triggers : ItemOf[t] = ItemOf[c] => pc[t] = "idle"

\* Only the trigger of a row takes it beyond its budget, and it runs once.
BeyondBudget ==
    \A i \in Items : row[i].val.tries > MaxRetries \/ row[i].new.tries > MaxRetries =>
        \E t \in Triggers : ItemOf[t] = i /\ pc[t] \in {"work", "done"}

QueueDiscipline ==
    /\ ClaimsLocked
    /\ CommittedRests
    /\ WrittenRests
    /\ NotCreatedYet
    /\ BeyondBudget
    /\ VectorsAreRecorded

=============================================================================
