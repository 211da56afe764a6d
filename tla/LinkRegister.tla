---------------------------- MODULE LinkRegister ----------------------------
(***************************************************************************)
(* What a recovery case promises about its payment link, whoever writes    *)
(* it: one link is on record at a time; the first one stays unless the     *)
(* case's own queued action brings its link; somebody is told only of a    *)
(* link that is or was on record; and nothing changes once the case is     *)
(* closed by a payment.                                                    *)
(***************************************************************************)
CONSTANTS Links,    \* payment links, named by the action that makes them
          Own,      \* those of the case's own queued action
          NoLink

VARIABLES link,     \* the link on record
          register, \* every link that has been on record
          told,     \* the links a requester was told of
          closed    \* the case is RECOVERED

Init == link = NoLink /\ register = {} /\ told = {} /\ closed = FALSE

Record(l) ==
    /\ ~closed
    /\ l \notin register
    /\ link = NoLink \/ l \in Own
    /\ link' = l
    /\ register' = register \cup {l}
    /\ UNCHANGED <<told, closed>>

Tell(l) ==
    /\ l \in register
    /\ told' = told \cup {l}
    /\ UNCHANGED <<link, register, closed>>

Close ==
    /\ ~closed
    /\ closed' = TRUE
    /\ UNCHANGED <<link, register, told>>

Next == Close \/ \E l \in Links : Record(l) \/ Tell(l)
vars == <<link, register, told, closed>>
Spec == Init /\ [][Next]_vars

=============================================================================
