------------------------- MODULE MCPaymentOutcomes -------------------------
(***************************************************************************)
(* Case k1 has an Action of the decision cycle (own1), is asked for a link *)
(* by an agent that names a smaller amount (ask1), and has a link whose    *)
(* request was rolled back (ghost2); the decision on case k2 was           *)
(* STOP_RECOVERY, which makes no Action, and a request for its link was    *)
(* rolled back (ghost1).                                                   *)
(***************************************************************************)
EXTENDS TLC, PaymentOutcomesInv

CONSTANTS k1, k2, own1, ask1, ghost1, ghost2, p1, p2

CaseOfLink == (own1 :> k1) @@ (ask1 :> k1) @@ (ghost1 :> k2) @@ (ghost2 :> k1)
CaseTotal  == (k1 :> 400000) @@ (k2 :> 6000)
PaidAmount == (own1 :> 400000) @@ (ask1 :> 100) @@ (ghost1 :> 6000) @@ (ghost2 :> 400000)
Fact(d, category, retry) ==
    [domain |-> d, class |-> [category |-> category, retryability |-> retry]]
CaseFacts  == (k1 :> Fact("B2C", "CUSTOMER_ACTION_REQUIRED", "LATER_RETRY_POSSIBLE"))
                @@ (k2 :> Fact("B2C", "MERCHANT_CONFIGURATION", "BLOCKED"))
AllKinds   == {"payment_link.paid", "payment.captured", "order.paid"}
\* Both kinds for one payment, and for the other the kind that may lack notes.
ThreeEvents == {<<p1, "payment_link.paid">>, <<p1, "payment.captured">>, <<p2, "payment.captured">>}
TwoEvents   == {<<p1, "payment.captured">>, <<p1, "order.paid">>}

=============================================================================
