--------------------------- MODULE MCWebhookIntake ---------------------------
(***************************************************************************)
(* Small instances of WebhookIntake: an event delivered twice and one      *)
(* delivered once, of two accounts; in one run the second is of a kind     *)
(* that is not handled.                                                    *)
(***************************************************************************)
EXTENDS WebhookIntake, TLC

CONSTANTS failed, captured,  \* events
          acme, zeta, demo,  \* accounts
          r1, r2, r3         \* deliveries

MCEventOf == r1 :> failed @@ r2 :> failed @@ r3 :> captured

\* Each event belongs to an account of its own.
TwoAccounts == failed :> acme @@ captured :> zeta

\* The two deliveries of one event are interchangeable.
Redeliveries == Permutations({r1, r2})
=============================================================================
