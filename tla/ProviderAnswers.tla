--------------------------- MODULE ProviderAnswers ---------------------------
(***************************************************************************)
(* The outcome normalisation of the Razorpay adapter: what each of its     *)
(* four calls makes of what happened to the HTTP request.  A result is     *)
(* [status, safety, id]: id says whether it carries the provider's request *)
(* id, by which reconciliation asks later.                                 *)
(***************************************************************************)

\* What can happen to a request.  "unparsed" is a body that is not JSON,
\* "other" a status code without a branch, "exception" any other error of the
\* client (a protocol error, a JSON body of another shape).
Happening ==
    {"ok", "invalid", "unauthorized", "missing", "throttled", "server_error",
     "unparsed", "other", "timeout", "network", "exception"}
Answered == Happening \ {"timeout", "network", "exception"}

OutcomeStatus == {"SUCCEEDED", "FAILED", "UNKNOWN"}
RetrySafety   == {"SAFE_TO_RETRY", "NOT_RETRIABLE", "UNKNOWN_RETRY_RISK"}
Result == [status : OutcomeStatus, safety : RetrySafety, id : BOOLEAN]

\* An error of the client that is neither a timeout nor of the network passes
\* through every call but create_payment_link, which has no result then.
Raises(h) == h = "exception"

Is(status, safety, h) == [status |-> status, safety |-> safety, id |-> h \in Answered]

\* Mutant: a server error is called safe to retry, as a rate limit is.
CreateRetriesServerErrors(h) ==
    CASE h = "ok"                          -> Is("SUCCEEDED", "NOT_RETRIABLE", h)
      [] h \in {"invalid", "unauthorized"} -> Is("FAILED", "NOT_RETRIABLE", h)
      [] h \in {"throttled", "server_error"} -> Is("FAILED", "SAFE_TO_RETRY", h)
      [] OTHER                             -> Is("UNKNOWN", "UNKNOWN_RETRY_RISK", h)
\* create_payment_link: 404 has no branch of its own; nothing is raised.
CreatePaymentLink(h) ==
    CASE h = "ok"                          -> Is("SUCCEEDED", "NOT_RETRIABLE", h)
      [] h \in {"invalid", "unauthorized"} -> Is("FAILED", "NOT_RETRIABLE", h)
      [] h = "throttled"                   -> Is("FAILED", "SAFE_TO_RETRY", h)
      [] OTHER                             -> Is("UNKNOWN", "UNKNOWN_RETRY_RISK", h)

\* cancel_payment_link: a cancelled or missing link, and a rate limit, are
\* ambiguous.
CancelPaymentLink(h) ==
    CASE h = "ok"                          -> Is("SUCCEEDED", "NOT_RETRIABLE", h)
      [] h \in {"invalid", "unauthorized"} -> Is("FAILED", "NOT_RETRIABLE", h)
      [] OTHER                             -> Is("UNKNOWN", "UNKNOWN_RETRY_RISK", h)

\* fetch_payment_link: what is not an answer about the link may be asked again.
FetchPaymentLink(h) ==
    CASE h = "ok"                          -> Is("SUCCEEDED", "NOT_RETRIABLE", h)
      [] h \in {"missing", "unauthorized"} -> Is("FAILED", "NOT_RETRIABLE", h)
      [] OTHER                             -> Is("UNKNOWN", "SAFE_TO_RETRY", h)

\* fetch_payment knows the rate limit as well.
FetchPayment(h) ==
    IF h = "throttled" THEN Is("FAILED", "SAFE_TO_RETRY", h) ELSE FetchPaymentLink(h)

\* What the call may have done to the provider's resources.  The provider acts
\* on an accepted request and on none it refuses; of a request without a clear
\* answer nobody knows.
Effect(h) ==
    CASE h = "ok" -> {TRUE}
      [] h \in {"invalid", "unauthorized", "missing", "throttled"} -> {FALSE}
      [] OTHER -> {TRUE, FALSE}

=============================================================================
