--------------------------- MODULE MCToolGateway ---------------------------
(***************************************************************************)
(* One case of each kind the gate tells apart, a request of the agent, one *)
(* over JSON-RPC and the case's own queued entry.                          *)
(***************************************************************************)
EXTENDS ToolGateway

Fact(d, p, m) == [decision |-> d, proposed |-> p, domain |-> m]
KindsOfCase ==
    { Fact("APPROVED", "GENERATE_PAYMENT_LINK", "B2C"),
      Fact("APPROVED", "STOP_RECOVERY", "B2C"),
      Fact("APPROVED", "SEND_REMINDER", "EMPLOYEE"),
      Fact("REJECTED", "RETRY_NOW", "B2C"),
      Fact("NEEDS_REVIEW", "RETRY_LATER", "B2B") }
BothAdapters == {TRUE, FALSE}

=============================================================================
