----------------------- MODULE KnowledgeOutboxProofs -----------------------
(***************************************************************************)
(* The queue's safety, for every set of measurements, processes and        *)
(* releases.  The inductive invariant is the type invariant together with  *)
(* QueueDiscipline; each action keeps it, conjunct by conjunct.            *)
(***************************************************************************)
EXTENDS KnowledgeOutbox, TLAPS

Row  == [val : Entry, new : Entry, by : Sessions \cup {NoTx}]
IInv == TypeOK /\ QueueDiscipline

-----------------------------------------------------------------------------
(* The helpers. *)

LEMMA HostType == \A s \in Sessions : Host(s) \in Processes
  BY SessionAssumption DEF Host, Sessions

LEMMA PointType ==
  ASSUME TypeOK, NEW s \in Sessions, NEW i \in Items
  PROVE  /\ release[Host(s)] \in Releases
         /\ Point(i, s) \in [item : Items, version : Releases]
  BY HostType DEF TypeOK, Point

LEMMA ReleaseType == \A v \in Releases : v \in 0..MaxRelease
  BY BoundAssumption DEF Releases

\* A claim counts one attempt.
LEMMA ClaimedType ==
  ASSUME NEW e \in Entry, e.tries <= MaxRetries
  PROVE  /\ Claimed(e) \in Entry
         /\ Claimed(e).status = "CLAIMED"
         /\ Claimed(e).tries = e.tries + 1
  <1>1. e.tries + 1 \in Tries
    BY BoundAssumption DEF Entry, Tries
  <1>2. QED
    BY <1>1 DEF Claimed, Entry, Status

\* A failure leaves the count and decides between FAILED and DEAD_LETTERED.
LEMMA AfterFailureType ==
  ASSUME NEW e \in Entry
  PROVE  /\ AfterFailure(e) \in Entry
         /\ AfterFailure(e).tries = e.tries
         /\ AfterFailure(e).status = IF e.tries >= MaxRetries THEN "DEAD_LETTERED" ELSE "FAILED"
  BY DEF AfterFailure, Entry, Status

LEMMA AbsentType == Absent \in Entry
  BY BoundAssumption DEF Absent, Entry, Tries

\* A committed row that a session may select has attempts left.
LEMMA SelectableOpen ==
  \A i \in Selected : /\ i \in Items
                      /\ row[i].by = NoTx
                      /\ row[i].val.status # "ABSENT"
                      /\ row[i].val.tries < MaxRetries
  BY DEF Selected, Selectable

-----------------------------------------------------------------------------
LEMMA InitInv == Init => IInv
  <1> SUFFICES ASSUME Init PROVE IInv
    OBVIOUS
  <1>1. TypeOK
    BY AbsentType, BoundAssumption DEF Init, TypeOK, Unlocked, Releases
  <1>2. \A i \in Items : row[i].val = Absent /\ row[i].new = Absent /\ row[i].by = NoTx
    BY DEF Init, Unlocked
  <1>3. ClaimsLocked /\ CommittedRests /\ WrittenRests /\ VectorsAreRecorded
    BY <1>2 DEF Init, ClaimsLocked, CommittedRests, WrittenRests, Rests, VectorsAreRecorded, Absent
  <1>4. NotCreatedYet
    BY SessionAssumption DEF Init, NotCreatedYet, Sessions
  <1>5. BeyondBudget
    BY <1>2, BoundAssumption DEF BeyondBudget, Absent
  <1>6. QED
    BY <1>1, <1>3, <1>4, <1>5 DEF IInv, QueueDiscipline

-----------------------------------------------------------------------------
(* One lemma per action. *)

LEMMA CreateInv == ASSUME IInv, NEW c \in Creators, Create(c) PROVE IInv'
  <1> USE DEF IInv
  <1> DEFINE k == ItemOf[c]
             e == [status |-> "PENDING", tries |-> 0, version |-> release[HostOf[c]]]
  <1>1. c \in Sessions /\ k \in Items /\ c # NoTx
    BY SessionAssumption DEF Sessions
  <1>2. e \in Entry
    <2>1. release[HostOf[c]] \in Releases
      BY SessionAssumption DEF TypeOK
    <2>2. QED
      BY <2>1, ReleaseType, BoundAssumption DEF Entry, Status, Tries
  <1>3. row[k] = Unlocked(Absent) /\ row[k].val = Absent
    BY DEF Create, QueueDiscipline, NotCreatedYet, Unlocked
  <1>4. /\ row' = [row EXCEPT ![k] = Write(@, c, e)]
        /\ UNCHANGED <<vectors, release, todo, restarts>>
    BY DEF Create
  <1>5. row' \in [Items -> Row]
    BY <1>1, <1>2, <1>3, <1>4, AbsentType DEF TypeOK, Row, Write
  <1>6. TypeOK'
    BY <1>4, <1>5 DEF TypeOK, Row, Create
  <1>7. /\ row'[k].val = Absent /\ row'[k].new = e /\ row'[k].by = c
        /\ \A i \in Items \ {k} : row'[i] = row[i]
    BY <1>1, <1>3, <1>4 DEF TypeOK, Write
  <1>8. \A s \in Sessions : k \notin todo[s]
    BY <1>3 DEF QueueDiscipline, ClaimsLocked, Absent
  <1>9. ClaimsLocked'
    <2> SUFFICES ASSUME NEW s \in Sessions, NEW i \in todo[s]
                 PROVE  /\ s \in Indexers /\ pc'[s] = "work" /\ row'[i].by = s
                        /\ row'[i].val.status # "ABSENT"
      BY <1>4 DEF ClaimsLocked
    <2>1. /\ s \in Indexers /\ pc[s] = "work" /\ row[i].by = s
          /\ row[i].val.status # "ABSENT"
      BY DEF QueueDiscipline, ClaimsLocked
    <2>2. ~(s \in Triggers /\ ItemOf[s] = k)
      BY <2>1 DEF QueueDiscipline, NotCreatedYet, Create
    <2>3. i \in Items /\ i # k
      BY <1>8 DEF TypeOK
    <2>4. pc'[s] = "work"
      BY <2>1, <2>2 DEF Create
    <2>5. QED
      BY <1>7, <2>1, <2>3, <2>4
  <1>10. CommittedRests'
    BY <1>4, <1>7, BoundAssumption DEF QueueDiscipline, CommittedRests, Rests, Absent
  <1>11. WrittenRests'
    BY <1>4, <1>7, BoundAssumption DEF QueueDiscipline, WrittenRests, Rests
  <1>12. NotCreatedYet'
    <2> SUFFICES ASSUME NEW d \in Creators, pc'[d] = "idle"
                 PROVE  /\ row'[ItemOf[d]] = Unlocked(Absent)
                        /\ \A t \in Triggers : ItemOf[t] = ItemOf[d] => pc'[t] = "idle"
      BY DEF NotCreatedYet, Unlocked, Absent
    <2>1. d # c /\ pc[d] = "idle"
      BY SessionAssumption DEF Create, Sessions, TypeOK
    <2>2. ItemOf[d] \in Items /\ ItemOf[d] # k
      BY <2>1, SessionAssumption
    <2>3. \A t \in Triggers : ItemOf[t] = ItemOf[d] => pc'[t] = pc[t]
      BY <2>2, SessionAssumption DEF Create, Sessions
    <2>4. QED
      BY <1>7, <2>1, <2>2, <2>3 DEF QueueDiscipline, NotCreatedYet
  <1>13. BeyondBudget'
    <2>1. \A t \in Triggers : pc[t] \in {"work", "done"} /\ ItemOf[t] # k => pc'[t] = pc[t]
      BY SessionAssumption DEF Create, Sessions
    <2>2. QED
      BY <1>7, <2>1, BoundAssumption DEF QueueDiscipline, BeyondBudget, Absent
  <1>14. VectorsAreRecorded'
    BY <1>3, <1>4, <1>7 DEF QueueDiscipline, VectorsAreRecorded, TypeOK
  <1>15. QED
    BY <1>6, <1>9, <1>10, <1>11, <1>12, <1>13, <1>14 DEF QueueDiscipline

LEMMA CreateFailsInv == ASSUME IInv, NEW c \in Creators, CreateFails(c) PROVE IInv'
  <1> USE DEF IInv
  <1>1. c \in Sessions /\ c # NoTx /\ c \notin Indexers
    BY SessionAssumption DEF Sessions, Indexers
  <1>2. /\ row' = Discard(row, c) /\ pc' = [pc EXCEPT ![c] = "done"]
        /\ UNCHANGED <<vectors, release, todo, restarts>>
    BY DEF CreateFails, Goto
  <1>3. \A i \in Items : /\ row'[i].val = row[i].val
                         /\ \/ row'[i] = row[i]
                            \/ row'[i].new = row[i].val /\ row'[i].by = NoTx
                         /\ row[i].by # c => row'[i] = row[i]
    BY <1>2 DEF TypeOK, Discard, Unlocked
  <1>4. TypeOK'
    <2>1. row' \in [Items -> Row]
      BY <1>2 DEF TypeOK, Discard, Unlocked, Row
    <2>2. QED
      BY <1>1, <1>2, <2>1 DEF TypeOK, Row
  <1>5. ClaimsLocked'
    BY <1>1, <1>2, <1>3 DEF QueueDiscipline, ClaimsLocked, TypeOK
  <1>6. CommittedRests'
    BY <1>2, <1>3 DEF QueueDiscipline, CommittedRests, Rests
  <1>7. WrittenRests'
    <2> SUFFICES ASSUME NEW i \in Items, row'[i].by # NoTx
                 PROVE  /\ row'[i].new.status # "ABSENT"
                        /\ i \notin todo'[row'[i].by] => Rests(i, row[i].new)'
      BY DEF WrittenRests
    <2>1. row'[i] = row[i]
      BY <1>3
    <2>2. QED
      BY <1>2, <2>1 DEF QueueDiscipline, WrittenRests, Rests
  <1>8. NotCreatedYet'
    BY <1>1, <1>2, <1>3, SessionAssumption
       DEF QueueDiscipline, NotCreatedYet, TypeOK, Unlocked, Sessions
  <1>9. BeyondBudget'
    <2> SUFFICES ASSUME NEW i \in Items,
                        row'[i].val.tries > MaxRetries \/ row'[i].new.tries > MaxRetries
                 PROVE  \E t \in Triggers : ItemOf[t] = i /\ pc'[t] \in {"work", "done"}
      BY DEF BeyondBudget
    <2>1. row[i].val.tries > MaxRetries \/ row[i].new.tries > MaxRetries
      BY <1>3
    <2>2. PICK t \in Triggers : ItemOf[t] = i /\ pc[t] \in {"work", "done"}
      BY <2>1 DEF QueueDiscipline, BeyondBudget
    <2>3. pc'[t] = pc[t]
      BY <1>2, SessionAssumption DEF TypeOK, Sessions
    <2>4. QED
      BY <2>2, <2>3
  <1>10. VectorsAreRecorded'
    BY <1>2, <1>3 DEF QueueDiscipline, VectorsAreRecorded, TypeOK
  <1>11. QED
    BY <1>4, <1>5, <1>6, <1>7, <1>8, <1>9, <1>10 DEF QueueDiscipline

LEMMA SweepInv == ASSUME IInv, NEW p \in Processes, Sweep(p) PROVE IInv'
  <1> USE DEF IInv
  <1> DEFINE S == {i \in Selected : NeedsProcessing(row[i].val, release[p])}
  <1>1. /\ p \in Sessions /\ p # NoTx /\ p \in Indexers
        /\ S \subseteq Selected /\ Selected \subseteq Items
    BY SessionAssumption, SelectableOpen DEF Sessions, Indexers
  <1>2. /\ row' = [i \in Items |-> IF i \in S THEN Write(row[i], p, Claimed(row[i].val))
                                  ELSE IF i \in Selected THEN Write(row[i], p, row[i].val)
                                  ELSE row[i]]
        /\ todo' = [todo EXCEPT ![p] = S] /\ pc' = [pc EXCEPT ![p] = "work"]
        /\ UNCHANGED <<vectors, release, restarts>>
    BY DEF Sweep, Goto
  <1>3. \A i \in S : Claimed(row[i].val) \in Entry /\ Claimed(row[i].val).status = "CLAIMED"
                      /\ Claimed(row[i].val).tries <= MaxRetries
    <2> SUFFICES ASSUME NEW i \in S
                 PROVE  /\ Claimed(row[i].val) \in Entry /\ Claimed(row[i].val).status = "CLAIMED"
                        /\ Claimed(row[i].val).tries <= MaxRetries
      OBVIOUS
    <2>1. row[i].val \in Entry /\ row[i].val.tries < MaxRetries
      BY <1>1, SelectableOpen DEF TypeOK
    <2>2. row[i].val.tries \in Nat
      BY <2>1, BoundAssumption DEF Entry, Tries
    <2>3. QED
      BY <2>1, <2>2, ClaimedType, BoundAssumption
  <1>4. row' \in [Items -> Row]
    BY <1>1, <1>2, <1>3 DEF TypeOK, Row, Write
  <1>5. TypeOK'
    BY <1>1, <1>2, <1>4 DEF TypeOK, Row
  <1>6. \A i \in Items : /\ row'[i].val = row[i].val
                         /\ i \in S => /\ row'[i].new = Claimed(row[i].val)
                                        /\ row'[i].by = p
                         /\ i \in Selected \ S => row'[i].new = row[i].val /\ row'[i].by = p
                         /\ i \notin Selected => row'[i] = row[i]
    BY <1>1, <1>2 DEF TypeOK, Write
  <1>7. \A s \in Sessions : todo[s] \cap Selected = {}
    BY SelectableOpen, SessionAssumption DEF QueueDiscipline, ClaimsLocked
  <1>8. ClaimsLocked'
    <2> SUFFICES ASSUME NEW s \in Sessions, NEW i \in todo'[s]
                 PROVE  /\ s \in Indexers /\ pc'[s] = "work" /\ row'[i].by = s
                        /\ row'[i].val.status # "ABSENT"
      BY DEF ClaimsLocked
    <2>1. CASE s = p
      BY <1>1, <1>2, <1>6, <2>1, SelectableOpen DEF TypeOK
    <2>2. CASE s # p
      BY <1>2, <1>6, <1>7, <2>2 DEF QueueDiscipline, ClaimsLocked, TypeOK
    <2>3. QED
      BY <2>1, <2>2
  <1>9. CommittedRests'
    BY <1>2, <1>6 DEF QueueDiscipline, CommittedRests, Rests
  <1>10. WrittenRests'
    <2> SUFFICES ASSUME NEW i \in Items, row'[i].by # NoTx
                 PROVE  /\ row'[i].new.status # "ABSENT"
                        /\ i \notin todo'[row'[i].by] => Rests(i, row[i].new)'
      BY DEF WrittenRests
    <2>1. CASE i \in S
      BY <1>1, <1>2, <1>3, <1>6, <2>1 DEF TypeOK
    <2>2. CASE i \in Selected \ S
      BY <1>2, <1>6, <2>2, SelectableOpen DEF QueueDiscipline, CommittedRests, Rests
    <2>3. CASE i \notin Selected
      <3>1. row'[i] = row[i]
        BY <1>6, <2>3
      <3>2. todo[p] = {}
        BY <1>1 DEF QueueDiscipline, ClaimsLocked, Sweep
      <3>3. i \in todo[row[i].by] => i \in todo'[row[i].by]
        BY <1>1, <1>2, <3>2 DEF TypeOK
      <3>4. QED
        BY <1>2, <3>1, <3>3 DEF QueueDiscipline, WrittenRests, Rests
    <2>4. QED
      BY <2>1, <2>2, <2>3
  <1>11. NotCreatedYet'
    BY <1>1, <1>2, <1>6, SelectableOpen, SessionAssumption
       DEF QueueDiscipline, NotCreatedYet, Unlocked, Absent, TypeOK, Sessions
  <1>12. BeyondBudget'
    <2> SUFFICES ASSUME NEW i \in Items,
                        row'[i].val.tries > MaxRetries \/ row'[i].new.tries > MaxRetries
                 PROVE  \E t \in Triggers : ItemOf[t] = i /\ pc'[t] \in {"work", "done"}
      BY DEF BeyondBudget
    <2>1. row[i].val.tries > MaxRetries \/ row[i].new.tries > MaxRetries
      <3>1. CASE i \in S
        <4>1. row'[i].new.tries \in Int /\ MaxRetries \in Int
          BY <1>4, BoundAssumption DEF Row, Entry, Tries
        <4>2. row'[i].new.tries <= MaxRetries
          BY <1>3, <1>6, <3>1
        <4>3. QED
          BY <1>6, <4>1, <4>2
      <3>2. CASE i \in Selected \ S
        BY <1>6, <3>2
      <3>3. QED
        BY <1>6, <3>1, <3>2
    <2>2. PICK t \in Triggers : ItemOf[t] = i /\ pc[t] \in {"work", "done"}
      BY <2>1 DEF QueueDiscipline, BeyondBudget
    <2>3. pc'[t] = pc[t]
      BY <1>2, SessionAssumption DEF TypeOK, Sessions
    <2>4. QED
      BY <2>2, <2>3
  <1>13. VectorsAreRecorded'
    BY <1>2, <1>6 DEF QueueDiscipline, VectorsAreRecorded, TypeOK
  <1>14. QED
    BY <1>5, <1>8, <1>9, <1>10, <1>11, <1>12, <1>13 DEF QueueDiscipline

\* What Indexed and IndexingFails have in common: the claimed row comes to
\* rest, in memory, and at most its vector is added.
LEMMA ProcessedInv ==
  ASSUME IInv, NEW s \in Indexers, NEW i \in Items, i \in todo[s],
         row' \in [Items -> Row],
         row'[i].val = row[i].val, row'[i].by = s, row'[i].new.tries = row[i].new.tries,
         row'[i].new.status # "ABSENT", Rests(i, row[i].new)',
         \A j \in Items \ {i} : row'[j] = row[j],
         vectors \subseteq vectors', vectors' \subseteq vectors \cup {Point(i, s)},
         todo' = [todo EXCEPT ![s] = @ \ {i}], UNCHANGED <<release, pc, restarts>>
  PROVE  IInv'
  <1> USE DEF IInv
  <1>1. s \in Sessions /\ s # NoTx
    BY SessionAssumption DEF Sessions, Indexers
  <1>2. row[i].by = s /\ row[i].val.status # "ABSENT"
    BY <1>1 DEF QueueDiscipline, ClaimsLocked
  <1>3. TypeOK'
    <2>1. vectors' \subseteq [item : Items, version : Releases]
      BY <1>1, PointType DEF TypeOK
    <2>2. QED
      BY <1>1, <2>1 DEF TypeOK, Row
  <1>4. \A j \in Items : row'[j].val = row[j].val /\ row'[j].by = row[j].by
                        /\ row'[j].new.tries = row[j].new.tries
    BY <1>2
  <1>5. ClaimsLocked'
    BY <1>1, <1>4 DEF QueueDiscipline, ClaimsLocked, TypeOK
  <1>6. CommittedRests'
    BY <1>4 DEF QueueDiscipline, CommittedRests, Rests
  <1>7. WrittenRests'
    <2> SUFFICES ASSUME NEW j \in Items, row'[j].by # NoTx
                 PROVE  /\ row'[j].new.status # "ABSENT"
                        /\ j \notin todo'[row'[j].by] => Rests(j, row[j].new)'
      BY DEF WrittenRests
    <2>1. CASE j = i
      BY <2>1
    <2>2. CASE j # i
      <3>1. j \in todo[row[j].by] => j \in todo'[row[j].by]
        BY <1>1, <2>2 DEF TypeOK
      <3>2. QED
        BY <2>2, <3>1 DEF QueueDiscipline, WrittenRests, Rests
    <2>3. QED
      BY <2>1, <2>2
  <1>8. NotCreatedYet'
    BY <1>2, SessionAssumption DEF QueueDiscipline, NotCreatedYet, Unlocked, Absent
  <1>9. BeyondBudget'
    BY <1>4 DEF QueueDiscipline, BeyondBudget
  <1>10. VectorsAreRecorded'
    <2>1. \A x \in vectors' : x \in vectors \/ x.item = i
      BY DEF Point
    <2>2. QED
      BY <1>2, <1>4, <2>1 DEF QueueDiscipline, VectorsAreRecorded, TypeOK
  <1>11. QED
    BY <1>3, <1>5, <1>6, <1>7, <1>8, <1>9, <1>10 DEF QueueDiscipline

LEMMA IndexInv == ASSUME IInv, NEW s \in Indexers, Index(s) PROVE IInv'
  <1> USE DEF IInv
  <1>1. PICK i \in Items : Indexed(s, i) \/ IndexingFails(s, i)
    BY DEF Index
  <1>2. s \in Sessions /\ i \in todo[s]
    BY <1>1 DEF Sessions, Indexers, Indexed, IndexingFails
  <1>3. row[i] \in Row /\ row[i].new \in Entry /\ row[i].by = s
    BY <1>2 DEF TypeOK, Row, QueueDiscipline, ClaimsLocked
  <1>4. release[Host(s)] \in 0..MaxRelease
    BY <1>2, PointType, ReleaseType
  <1>5. CASE Indexed(s, i)
    <2> DEFINE e == [row[i].new EXCEPT !.status = "COMPLETED", !.version = release[Host(s)]]
    <2>1. e \in Entry /\ e.status = "COMPLETED" /\ e.version = release[Host(s)]
          /\ e.tries = row[i].new.tries
      BY <1>3, <1>4 DEF Entry, Status
    <2>2. row' = [row EXCEPT ![i] = Write(@, s, e)]
      BY <1>5 DEF Indexed
    <2>3. /\ row' \in [Items -> Row] /\ row'[i].val = row[i].val /\ row'[i].by = s
          /\ row'[i].new = e /\ \A j \in Items \ {i} : row'[j] = row[j]
      <3> HIDE DEF e
      <3> QED
        BY <1>2, <1>3, <2>1, <2>2 DEF TypeOK, Row, Write
    <2>4. Rests(i, row[i].new)'
      <3> HIDE DEF e
      <3> QED
        BY <1>5, <2>1, <2>3 DEF Rests, Indexed, Point
    <2>5. QED
      <3> HIDE DEF e
      <3> QED
        BY <1>2, <1>5, <2>1, <2>3, <2>4, ProcessedInv DEF Indexed
  <1>6. CASE IndexingFails(s, i)
    <2> DEFINE e == AfterFailure(row[i].new)
    <2>1. e \in Entry /\ e.tries = row[i].new.tries
          /\ e.status = IF e.tries >= MaxRetries THEN "DEAD_LETTERED" ELSE "FAILED"
      BY <1>3, AfterFailureType
    <2> HIDE DEF e
    <2>2. /\ row' \in [Items -> Row] /\ row'[i].val = row[i].val /\ row'[i].by = s
          /\ row'[i].new = e /\ \A j \in Items \ {i} : row'[j] = row[j]
      BY <1>2, <1>3, <1>6, <2>1 DEF TypeOK, Row, Write, IndexingFails, e
    <2>3. Rests(i, row[i].new)'
      <3>1. e.tries \in Int /\ MaxRetries \in Int
        BY <2>1, BoundAssumption DEF Entry, Tries
      <3>2. QED
        BY <2>1, <2>2, <3>1 DEF Rests
    <2>4. QED
      BY <1>2, <1>6, <2>1, <2>2, <2>3, ProcessedInv DEF IndexingFails
  <1>7. QED
    BY <1>1, <1>5, <1>6

LEMMA TriggerInv == ASSUME IInv, NEW t \in Triggers, Trigger(t) PROVE IInv'
  <1> USE DEF IInv
  <1> DEFINE k == ItemOf[t]
  <1>1. /\ t \in Sessions /\ t # NoTx /\ t \in Indexers /\ k \in Items
        /\ t \notin Processes /\ t \notin Creators
    BY SessionAssumption DEF Sessions, Indexers
  <1>2. todo[t] = {}
    BY <1>1 DEF Trigger, QueueDiscipline, ClaimsLocked
  <1>3. CASE pc' = [pc EXCEPT ![t] = "done"] /\ UNCHANGED <<row, todo, vectors, release, restarts>>
    <2>1. TypeOK'
      BY <1>1, <1>3 DEF TypeOK
    <2>2. ClaimsLocked'
      BY <1>1, <1>2, <1>3 DEF QueueDiscipline, ClaimsLocked, TypeOK
    <2>3. CommittedRests' /\ WrittenRests' /\ VectorsAreRecorded'
      BY <1>3 DEF QueueDiscipline, CommittedRests, WrittenRests, Rests, VectorsAreRecorded
    <2>4. NotCreatedYet'
      BY <1>1, <1>3 DEF QueueDiscipline, NotCreatedYet, Trigger, TypeOK, Sessions
    <2>5. BeyondBudget'
      BY <1>1, <1>3 DEF QueueDiscipline, BeyondBudget, TypeOK, Sessions
    <2>6. QED
      BY <2>1, <2>2, <2>3, <2>4, <2>5 DEF QueueDiscipline
  <1>4. CASE /\ row[k].val.status \notin {"ABSENT", "COMPLETED"} /\ row[k].by = NoTx
             /\ row'  = [row EXCEPT ![k] = Write(@, t, Claimed(row[k].val))]
             /\ todo' = [todo EXCEPT ![t] = {k}] /\ pc' = [pc EXCEPT ![t] = "work"]
             /\ UNCHANGED <<vectors, release, restarts>>
    <2> DEFINE e == Claimed(row[k].val)
    <2>1. e \in Entry /\ e.status = "CLAIMED"
      <3>1. row[k].val \in Entry
        BY <1>1 DEF TypeOK
      <3>2. ~(row[k].val.tries > MaxRetries)
        BY <1>1, SessionAssumption DEF QueueDiscipline, BeyondBudget, Trigger
      <3>3. row[k].val.tries <= MaxRetries
        BY <3>1, <3>2, BoundAssumption DEF Entry, Tries
      <3>4. QED
        BY <3>1, <3>3, ClaimedType
    <2> HIDE DEF e
    <2>2. /\ row' \in [Items -> Row] /\ row'[k].val = row[k].val /\ row'[k].by = t
          /\ row'[k].new = e /\ \A j \in Items \ {k} : row'[j] = row[j]
      BY <1>1, <1>4, <2>1 DEF TypeOK, Row, Write, e
    <2>3. TypeOK'
      BY <1>1, <1>4, <2>2 DEF TypeOK, Row
    <2>4. ClaimsLocked'
      <3> SUFFICES ASSUME NEW s \in Sessions, NEW i \in todo'[s]
                   PROVE  /\ s \in Indexers /\ pc'[s] = "work" /\ row'[i].by = s
                          /\ row'[i].val.status # "ABSENT"
        BY DEF ClaimsLocked
      <3>1. CASE s = t
        BY <1>1, <1>4, <2>2, <3>1 DEF TypeOK
      <3>2. CASE s # t
        <4>1. /\ i \in todo[s] /\ i \in Items /\ row[i].by = s
              /\ s \in Indexers /\ pc[s] = "work" /\ row[i].val.status # "ABSENT"
          BY <1>4, <3>2 DEF TypeOK, QueueDiscipline, ClaimsLocked
        <4>2. i # k
          BY <1>4, <4>1, SessionAssumption
        <4>3. QED
          BY <1>4, <2>2, <3>2, <4>1, <4>2 DEF TypeOK
      <3>3. QED
        BY <3>1, <3>2
    <2>5. CommittedRests' /\ VectorsAreRecorded'
      <3>1. \A j \in Items : row'[j].val = row[j].val
        BY <2>2
      <3>2. vectors' = vectors
        BY <1>4
      <3>3. CommittedRests'
        BY <3>1, <3>2 DEF QueueDiscipline, CommittedRests, Rests
      <3>4. VectorsAreRecorded'
        BY <3>1, <3>2 DEF QueueDiscipline, VectorsAreRecorded, TypeOK
      <3>5. QED
        BY <3>3, <3>4
    <2>6. WrittenRests'
      <3> SUFFICES ASSUME NEW j \in Items, row'[j].by # NoTx
                   PROVE  /\ row'[j].new.status # "ABSENT"
                          /\ j \notin todo'[row'[j].by] => Rests(j, row[j].new)'
        BY DEF WrittenRests
      <3>1. CASE j = k
        BY <1>1, <1>4, <2>1, <2>2, <3>1 DEF TypeOK
      <3>2. CASE j # k
        <4>1. j \in todo[row[j].by] => j \in todo'[row[j].by]
          BY <1>1, <1>2, <1>4 DEF TypeOK
        <4>2. QED
          BY <1>4, <2>2, <3>2, <4>1 DEF QueueDiscipline, WrittenRests, Rests
      <3>3. QED
        BY <3>1, <3>2
    <2>7. NotCreatedYet'
      BY <1>1, <1>4, <2>2, SessionAssumption
         DEF QueueDiscipline, NotCreatedYet, Trigger, TypeOK, Sessions
    <2>8. BeyondBudget'
      BY <1>1, <1>4, <2>2 DEF QueueDiscipline, BeyondBudget, TypeOK, Sessions
    <2>9. QED
      BY <2>3, <2>4, <2>5, <2>6, <2>7, <2>8 DEF QueueDiscipline
  <1>5. QED
    BY <1>3, <1>4 DEF Trigger, Goto

LEMMA CommitInv == ASSUME IInv, NEW s \in Sessions, Commit(s) PROVE IInv'
  <1> USE DEF IInv
  <1> DEFINE next == Finished(s)
  <1>1. /\ s # NoTx /\ next \in {"idle", "done"} /\ todo[s] = {} /\ pc[s] = "work"
        /\ s \notin Processes => next = "done"
    BY SessionAssumption DEF Finished, Commit
  <1>2. /\ row' = Publish(row, s) /\ pc' = [pc EXCEPT ![s] = next]
        /\ UNCHANGED <<vectors, release, todo, restarts>>
    BY DEF Commit, Goto
  <1> HIDE DEF next
  <1>3. \A i \in Items : /\ row[i].by # s => row'[i] = row[i]
                         /\ row[i].by = s => /\ row'[i].val = row[i].new
                                             /\ row'[i].new = row[i].new
                                             /\ row'[i].by = NoTx
    BY <1>2 DEF TypeOK, Publish, Unlocked
  <1>4. TypeOK'
    <2>1. row' \in [Items -> Row]
      BY <1>2 DEF TypeOK, Publish, Unlocked, Row
    <2>2. QED
      BY <1>1, <1>2, <2>1 DEF TypeOK, Row
  <1>5. ClaimsLocked'
    BY <1>1, <1>2, <1>3 DEF QueueDiscipline, ClaimsLocked, TypeOK
  <1>6. CommittedRests'
    BY <1>1, <1>2, <1>3 DEF QueueDiscipline, CommittedRests, WrittenRests, Rests
  <1>7. WrittenRests'
    <2> SUFFICES ASSUME NEW j \in Items, row'[j].by # NoTx
                 PROVE  /\ row'[j].new.status # "ABSENT"
                        /\ j \notin todo'[row'[j].by] => Rests(j, row[j].new)'
      BY DEF WrittenRests
    <2>1. row'[j] = row[j]
      BY <1>3
    <2>2. QED
      BY <1>2, <2>1 DEF QueueDiscipline, WrittenRests, Rests
  <1>8. NotCreatedYet'
    <2> SUFFICES ASSUME NEW c \in Creators, pc'[c] = "idle"
                 PROVE  /\ row'[ItemOf[c]] = Unlocked(Absent)
                        /\ \A t \in Triggers : ItemOf[t] = ItemOf[c] => pc'[t] = "idle"
      BY DEF NotCreatedYet, Unlocked, Absent
    <2>1. c # s /\ pc[c] = "idle" /\ ItemOf[c] \in Items
      BY <1>1, <1>2, SessionAssumption DEF TypeOK, Sessions
    <2>2. row[ItemOf[c]] = Unlocked(Absent) /\ row[ItemOf[c]].by # s
      BY <1>1, <2>1 DEF QueueDiscipline, NotCreatedYet, Unlocked
    <2>3. QED
      BY <1>1, <1>2, <1>3, <2>1, <2>2 DEF QueueDiscipline, NotCreatedYet, TypeOK, Sessions
  <1>9. BeyondBudget'
    <2> SUFFICES ASSUME NEW i \in Items,
                        row'[i].val.tries > MaxRetries \/ row'[i].new.tries > MaxRetries
                 PROVE  \E t \in Triggers : ItemOf[t] = i /\ pc'[t] \in {"work", "done"}
      BY DEF BeyondBudget
    <2>1. row[i].val.tries > MaxRetries \/ row[i].new.tries > MaxRetries
      BY <1>3
    <2>2. PICK t \in Triggers : ItemOf[t] = i /\ pc[t] \in {"work", "done"}
      BY <2>1 DEF QueueDiscipline, BeyondBudget
    <2>3. pc'[t] \in {"work", "done"}
      BY <1>1, <1>2, <2>2, SessionAssumption DEF TypeOK, Sessions
    <2>4. QED
      BY <2>2, <2>3
  <1>10. VectorsAreRecorded'
    BY <1>1, <1>2, <1>3 DEF QueueDiscipline, VectorsAreRecorded, WrittenRests, TypeOK
  <1>11. QED
    BY <1>4, <1>5, <1>6, <1>7, <1>8, <1>9, <1>10 DEF QueueDiscipline

LEMMA RestartInv == ASSUME IInv, NEW p \in Processes, Restart(p) PROVE IInv'
  <1> USE DEF IInv
  <1> DEFINE lost == {s \in Sessions : Host(s) = p /\ pc[s] # "idle"}
  <1>1. /\ row' = [i \in Items |-> IF row[i].by \in lost THEN Unlocked(row[i].val) ELSE row[i]]
        /\ pc' = [s \in Sessions |-> IF s \in lost THEN Finished(s) ELSE pc[s]]
        /\ todo' = [s \in Sessions |-> IF s \in lost THEN {} ELSE todo[s]]
        /\ UNCHANGED vectors
    BY DEF Restart
  <1>2. lost \subseteq Sessions /\ NoTx \notin lost
    BY SessionAssumption
  <1>3. \A s \in lost : /\ Finished(s) \in {"idle", "done"}
                        /\ pc[s] # "idle"
                        /\ s \notin Processes => Finished(s) = "done"
    BY DEF Finished
  <1> HIDE DEF lost
  <1>4. \A i \in Items : /\ row[i].by \notin lost => row'[i] = row[i]
                         /\ row[i].by \in lost => /\ row'[i].val = row[i].val
                                                   /\ row'[i].new = row[i].val
                                                   /\ row'[i].by = NoTx
    BY <1>1 DEF Unlocked
  <1>5. TypeOK'
    <2>1. row' \in [Items -> Row]
      BY <1>1 DEF TypeOK, Unlocked, Row
    <2>2. pc' \in [Sessions -> {"idle", "started", "work", "done"}]
      BY <1>1, <1>3 DEF TypeOK
    <2>3. todo' \in [Sessions -> SUBSET Items]
      BY <1>1 DEF TypeOK
    <2>4. release' \in [Processes -> Releases] /\ restarts' \in 0..MaxRestarts
      BY BoundAssumption DEF Restart, TypeOK
    <2>5. QED
      BY <1>1, <2>1, <2>2, <2>3, <2>4 DEF TypeOK, Row
  <1>6. ClaimsLocked'
    <2> SUFFICES ASSUME NEW s \in Sessions, NEW i \in todo'[s]
                 PROVE  /\ s \in Indexers /\ pc'[s] = "work" /\ row'[i].by = s
                        /\ row'[i].val.status # "ABSENT"
      BY DEF ClaimsLocked
    <2>1. s \notin lost /\ i \in todo[s] /\ i \in Items
      BY <1>1 DEF TypeOK
    <2>2. QED
      BY <1>1, <1>4, <2>1 DEF QueueDiscipline, ClaimsLocked
  <1>7. CommittedRests' /\ VectorsAreRecorded'
    BY <1>1, <1>4 DEF QueueDiscipline, CommittedRests, Rests, VectorsAreRecorded, TypeOK
  <1>8. WrittenRests'
    <2> SUFFICES ASSUME NEW j \in Items, row'[j].by # NoTx
                 PROVE  /\ row'[j].new.status # "ABSENT"
                        /\ j \notin todo'[row'[j].by] => Rests(j, row[j].new)'
      BY DEF WrittenRests
    <2>1. row'[j] = row[j] /\ row[j].by \notin lost /\ row[j].by \in Sessions
      BY <1>4 DEF TypeOK
    <2>2. todo'[row[j].by] = todo[row[j].by]
      BY <1>1, <2>1
    <2>3. QED
      BY <1>1, <2>1, <2>2 DEF QueueDiscipline, WrittenRests, Rests
  <1>9. NotCreatedYet'
    <2> SUFFICES ASSUME NEW c \in Creators, pc'[c] = "idle"
                 PROVE  /\ row'[ItemOf[c]] = Unlocked(Absent)
                        /\ \A t \in Triggers : ItemOf[t] = ItemOf[c] => pc'[t] = "idle"
      BY DEF NotCreatedYet, Unlocked, Absent
    <2>1. c \notin lost /\ pc[c] = "idle" /\ ItemOf[c] \in Items
      BY <1>1, <1>3, SessionAssumption DEF Sessions
    <2>2. row[ItemOf[c]] = Unlocked(Absent) /\ row[ItemOf[c]].by \notin lost
      BY <1>2, <2>1 DEF QueueDiscipline, NotCreatedYet, Unlocked
    <2>3. \A t \in Triggers : ItemOf[t] = ItemOf[c] => pc[t] = "idle" /\ t \notin lost
      BY <1>3, <2>1 DEF QueueDiscipline, NotCreatedYet
    <2>4. QED
      BY <1>1, <1>4, <2>1, <2>2, <2>3 DEF Sessions
  <1>10. BeyondBudget'
    <2> SUFFICES ASSUME NEW i \in Items,
                        row'[i].val.tries > MaxRetries \/ row'[i].new.tries > MaxRetries
                 PROVE  \E t \in Triggers : ItemOf[t] = i /\ pc'[t] \in {"work", "done"}
      BY DEF BeyondBudget
    <2>1. row[i].val.tries > MaxRetries \/ row[i].new.tries > MaxRetries
      BY <1>4
    <2>2. PICK t \in Triggers : ItemOf[t] = i /\ pc[t] \in {"work", "done"}
      BY <2>1 DEF QueueDiscipline, BeyondBudget
    <2>3. pc'[t] \in {"work", "done"}
      BY <1>1, <1>3, <2>2, SessionAssumption DEF Sessions
    <2>4. QED
      BY <2>2, <2>3
  <1>11. QED
    BY <1>5, <1>6, <1>7, <1>8, <1>9, <1>10 DEF QueueDiscipline

-----------------------------------------------------------------------------
LEMMA StepInv == IInv /\ [Next]_vars => IInv'
  <1>1. IInv /\ UNCHANGED vars => IInv'
    BY DEF IInv, vars, TypeOK, QueueDiscipline, ClaimsLocked, CommittedRests, WrittenRests, Rests,
           NotCreatedYet, BeyondBudget, VectorsAreRecorded
  <1>2. QED
    BY <1>1, CreateInv, CreateFailsInv, SweepInv, RestartInv, TriggerInv, IndexInv, CommitInv
       DEF Next

LEMMA Inductive == Spec => []IInv
  BY InitInv, StepInv, PTL DEF Spec

-----------------------------------------------------------------------------
(* The results. *)

\* The rows keep their types, and attempt_count is never more than one beyond
\* the budget.
THEOREM TypeCorrect == Spec => []TypeOK
  <1>1. IInv => TypeOK
    BY DEF IInv
  <1>2. QED
    BY <1>1, Inductive, PTL

\* Drainers and triggers never work on one row together.
THEOREM RowsHaveOneIndexer == Spec => []OneIndexer
  <1>1. IInv => OneIndexer
    BY DEF IInv, QueueDiscipline, ClaimsLocked, OneIndexer, Indexers, Sessions
  <1>2. QED
    BY <1>1, Inductive, PTL

\* A row that says COMPLETED is in the collection of the release it names.
THEOREM CompletedRowsAreIndexed == Spec => []CompletedIsIndexed
  <1>1. IInv => CompletedIsIndexed
    BY DEF IInv, QueueDiscipline, CommittedRests, Rests, CompletedIsIndexed
  <1>2. QED
    BY <1>1, Inductive, PTL

\* Nothing is in the index whose measurement was not recorded.
THEOREM IndexedIsRecorded == Spec => []VectorsAreRecorded
  <1>1. IInv => VectorsAreRecorded
    BY DEF IInv, QueueDiscipline
  <1>2. QED
    BY <1>1, Inductive, PTL

\* Committed rows are never CLAIMED, and their status and budget agree.
THEOREM RowsAlwaysRest == Spec => []RowsRest
  <1>1. IInv => RowsRest
    BY DEF IInv, QueueDiscipline, CommittedRests, Rests, RowsRest
  <1>2. QED
    BY <1>1, Inductive, PTL
=============================================================================
