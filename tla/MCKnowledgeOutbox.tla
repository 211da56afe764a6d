-------------------------- MODULE MCKnowledgeOutbox --------------------------
(* Model values, and which measurement each creator and trigger has, for TLC. *)
EXTENDS KnowledgeOutbox, TLC

CONSTANTS p1, p2, c1, c2, t1, t2

TwoItems == (c1 :> 1) @@ (t1 :> 1) @@ (c2 :> 2) @@ (t2 :> 2)
\* Measurements are recorded by the first process.
FirstHost == [s \in Creators \cup Triggers |-> p1]
=============================================================================
