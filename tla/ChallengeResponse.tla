------------------------- MODULE ChallengeResponse -------------------------
(***************************************************************************)
(* What a challenge-response authentication promises: every challenge is   *)
(* new and used for one decision only, and that decision is in favour of   *)
(* nobody but the holder of a private key who has signed this challenge    *)
(* while it was open.                                                      *)
(***************************************************************************)
EXTENDS Naturals

CONSTANT Keys

VARIABLES
    round,    \* how many challenges have been issued
    open,     \* the latest of them waits for its answer
    answers,  \* the keys that have signed it since
    granted   \* the key that has been accepted, as a set

exchange == <<round, open, answers, granted>>

Init ==
    /\ round = 0
    /\ open = FALSE
    /\ answers = {}
    /\ granted = {}

Issue ==
    /\ ~open /\ granted = {}
    /\ round' = round + 1
    /\ open' = TRUE
    /\ UNCHANGED <<answers, granted>>

Sign ==
    /\ open
    /\ \E k \in Keys : answers' = answers \cup {k}
    /\ UNCHANGED <<round, open, granted>>

Close == open' = FALSE /\ answers' = {} /\ UNCHANGED round

Reject == open /\ Close /\ UNCHANGED granted

Grant ==
    /\ open
    /\ \E k \in answers : granted' = {k}
    /\ Close

(* The next request has to prove itself anew.                              *)
Forget ==
    /\ ~open
    /\ granted' = {}
    /\ UNCHANGED <<round, open, answers>>

Next == Issue \/ Sign \/ Reject \/ Grant \/ Forget

Spec == Init /\ [][Next]_exchange
============================================================================
