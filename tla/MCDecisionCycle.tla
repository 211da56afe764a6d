-------------------------- MODULE MCDecisionCycle --------------------------
(***************************************************************************)
(* Three failures in one process.  One is of any kind, with any precedents *)
(* and any answer of the language model; the two others are timeouts and  *)
(* decided without a usable answer.                                        *)
(***************************************************************************)
EXTENDS DecisionCycle, TLC

CONSTANTS c1, c2, c3, acme

Failed(amount, code, reason) ==
    [tenant |-> acme, amount |-> amount, code |-> code, reason |-> reason]
Timeout == Failed(100, "REQUEST_OR_GATEWAY", {"timeout", "expired"})
FailureKinds ==
    { Timeout,
      Failed(60000, "REQUEST_OR_GATEWAY", {"timeout"}),
      Failed(100, "REQUEST_OR_GATEWAY", {"funds"}),
      Failed(0, "NON_RETRIABLE", {}),
      Failed(100, "OTHER", {""}) }

\* Both orders of the two actions of one tier, with what keeps others out.
Orders ==
    { <<"WAIT", "RETRY_NOW", "ESCALATE_TO_HUMAN", "STOP_RECOVERY">>,
      <<"RETRY_NOW", "WAIT", "ESCALATE_TO_HUMAN", "STOP_RECOVERY">> }
SomeAnswers ==
    Orders \cup { <<>>, <<"RETRY_NOW">>, <<"RETRY_LATER", "GENERATE_PAYMENT_LINK">>,
                  <<"WAIT", "RETRY_NOW", "RETRY_LATER", "SEND_REMINDER", "ESCALATE_TO_HUMAN">> }

Precedents(a, n) == [action |-> a, count |-> 5, recovered |-> n]
SomeHistories ==
    {NoHistory, Precedents("GENERATE_PAYMENT_LINK", 2), Precedents("RETRY_NOW", 5)}

AnswersOfOne(c)   == IF c = c1 THEN SomeAnswers ELSE {<<>>}
HistoriesOfOne(c) == IF c = c1 THEN SomeHistories ELSE {NoHistory}
FailuresOfOne(c)  == IF c = c1 THEN FailureKinds ELSE {Timeout}

Interchangeable == Permutations({c2, c3})

=============================================================================
