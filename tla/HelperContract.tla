--------------------------- MODULE HelperContract ---------------------------
(***************************************************************************)
(* What cmd::run() promises its caller: at most one helper, which has      *)
(* ended and been reaped by the time there is a verdict; and a verdict     *)
(* that is never good unless that helper ended well and all that it and    *)
(* its descendants wrote, now or later, is in the answer.                  *)
(***************************************************************************)
VARIABLES
    helper,    \* "none", "running", "ended" or "reaped"
    status,    \* how it ended: "none", "ok" or "fail"
    whole,     \* the answer holds everything, and nobody can write more
    verdict    \* "pending", "good" or "bad"

contract == <<helper, status, whole, verdict>>

Init ==
    /\ helper = "none"
    /\ status = "none"
    /\ whole = TRUE
    /\ verdict = "pending"

Start ==
    /\ helper = "none" /\ verdict = "pending"
    /\ helper' = "running"
    /\ whole' = FALSE
    /\ UNCHANGED <<status, verdict>>

(* The last output is collected, or the last writer turns out to be gone.  *)
Complete ==
    /\ helper # "none" /\ verdict = "pending"
    /\ whole' = TRUE
    /\ UNCHANGED <<helper, status, verdict>>

End ==
    /\ helper = "running" /\ verdict = "pending"
    /\ helper' = "ended"
    /\ status' \in {"ok", "fail"}
    /\ whole' \in {whole, TRUE}
    /\ UNCHANGED verdict

Reap ==
    /\ helper = "ended" /\ verdict = "pending"
    /\ helper' = "reaped"
    /\ UNCHANGED <<status, whole, verdict>>

Succeed ==
    /\ helper = "reaped" /\ verdict = "pending"
    /\ status = "ok" /\ whole
    /\ verdict' = "good"
    /\ UNCHANGED <<helper, status, whole>>

(* On the way out a helper that has ended is reaped.                       *)
Refuse ==
    /\ helper # "running" /\ verdict = "pending"
    /\ verdict' = "bad"
    /\ helper' = IF helper = "none" THEN "none" ELSE "reaped"
    /\ UNCHANGED <<status, whole>>

Next == Start \/ Complete \/ End \/ Reap \/ Succeed \/ Refuse

Spec == Init /\ [][Next]_contract
=============================================================================
