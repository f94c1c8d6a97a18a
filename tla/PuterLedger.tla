---------------------------- MODULE PuterLedger ----------------------------
(***************************************************************************)
(* What the files of Puter v2 promise about an attempt: it advances along  *)
(* the documented chain, or fails, or is skipped; its one verdict is the   *)
(* stage it has reached, and after the verdict nothing moves any more.     *)
(***************************************************************************)
CONSTANT Attempts

VARIABLES
    stage,      \* the stage an attempt has reached
    verdict     \* the result on record, or "pending"

Chain == {<<"draft", "browser_started">>,
          <<"browser_started", "form_filled">>,
          <<"form_filled", "form_submitted">>,
          <<"form_submitted", "email_verified">>,
          <<"email_verified", "session_established">>,
          <<"session_established", "quarantined">>}

Ended == {"failed", "skipped_phone_verification"}

LedgerInit ==
    /\ stage = [a \in Attempts |-> "draft"]
    /\ verdict = [a \in Attempts |-> "pending"]

Advance(a) ==
    /\ \E s \in {step[2] : step \in Chain} :
          /\ <<stage[a], s>> \in Chain
          /\ stage' = [stage EXCEPT ![a] = s]
    /\ UNCHANGED verdict

End(a) ==
    /\ stage[a] \notin Ended
    /\ \E s \in Ended : stage' = [stage EXCEPT ![a] = s]
    /\ UNCHANGED verdict

Close(a) ==
    /\ verdict' = [verdict EXCEPT ![a] = stage[a]]
    /\ UNCHANGED stage

LedgerNext ==
    \E a \in Attempts :
        verdict[a] = "pending" /\ (Advance(a) \/ End(a) \/ Close(a))

LedgerSpec == LedgerInit /\ [][LedgerNext]_<<stage, verdict>>
=============================================================================
