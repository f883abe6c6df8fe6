------------------------------ MODULE AuthGate ------------------------------
(***************************************************************************)
(* What a PAM authentication module promises its host: one verdict, and    *)
(* none in favour of the user before a trusted identity has been shown.    *)
(***************************************************************************)
VARIABLES
    verdict,  \* "open", "granted" or "denied"
    shown     \* a trusted identity was shown in this request

gate == <<verdict, shown>>

Init == verdict = "open" /\ shown = FALSE

Show ==
    /\ verdict = "open"
    /\ shown' = TRUE
    /\ UNCHANGED verdict

Grant ==
    /\ verdict = "open"
    /\ shown
    /\ verdict' = "granted"
    /\ UNCHANGED shown

Deny ==
    /\ verdict = "open"
    /\ verdict' = "denied"
    /\ UNCHANGED shown

Spec == Init /\ [][Show \/ Grant \/ Deny]_gate
=============================================================================
