-------------------------- MODULE MCExecutionOutbox --------------------------
(* Model values and the Action of each cycle and handler, for TLC. *)
EXTENDS ExecutionOutboxInv, TLC

CONSTANTS a1, a2, w1, w2, c1, c2, h1, h2

\* One Action, its cycle and two events of the same payment.
OneAction == (c1 :> a1) @@ (h1 :> a1) @@ (h2 :> a1)
\* Two Actions, each with its cycle; the payment event is that of the first.
TwoActions == (c1 :> a1) @@ (c2 :> a2) @@ (h1 :> a1)
=============================================================================
