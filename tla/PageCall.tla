------------------------------ MODULE PageCall ------------------------------
(***************************************************************************)
(* What the session manager relies on when it scans and converts a page,   *)
(* with no process, signal or timer in sight: a call succeeds or fails     *)
(* once, and while a conversion runs anybody may find a part of its page.  *)
(* One that succeeds leaves the page as it is at that moment, for good.    *)
(* One that fails leaves none of what it wrote: the file is gone, or the   *)
(* one that was there before was never touched.  Only a conversion that    *)
(* was abandoned may come back to its file.  Session has Acquire, and      *)
(* BeginWriting with Convert or ConvertFails, as such steps.               *)
(***************************************************************************)
VARIABLES
    call,       \* the call under way, or the last one
    busy,       \* it has not returned
    outcome,    \* what it returned
    page,       \* the file of the last conversion
    abandoned   \* somebody still works for that conversion, which has failed

vars == <<call, busy, outcome, page, abandoned>>

Init ==
    /\ call = "none" /\ busy = FALSE /\ outcome = "none"
    /\ page = "absent" /\ abandoned = FALSE

Begin(c) ==
    /\ ~busy /\ busy' = TRUE /\ call' = c /\ outcome' = "none"
    /\ IF c = "process" THEN page' \in {"absent", "old"} /\ abandoned' = FALSE
       ELSE UNCHANGED <<page, abandoned>>

Write ==
    /\ busy /\ call = "process" /\ page' = "partial"
    /\ UNCHANGED <<call, busy, outcome, abandoned>>

Succeed ==
    /\ busy /\ busy' = FALSE /\ outcome' = "ok"
    /\ IF call = "process" THEN page # "absent" /\ page' = "kept"
       ELSE UNCHANGED page
    /\ UNCHANGED <<call, abandoned>>

Untouched == page \in {"absent", "old"} /\ UNCHANGED page

Fail ==
    /\ busy /\ busy' = FALSE /\ outcome' = "failed"
    /\ IF call = "process"
       THEN /\ page' = "absent" \/ Untouched
            /\ abandoned' = TRUE \/ UNCHANGED abandoned
       ELSE UNCHANGED <<page, abandoned>>
    /\ UNCHANGED call

LateWrite ==
    /\ abandoned /\ page' = "partial"
    /\ UNCHANGED <<call, busy, outcome, abandoned>>

Next ==
    \/ Begin("acquire") \/ Begin("process")
    \/ Write \/ Succeed \/ Fail \/ LateWrite

Spec == Init /\ [][Next]_vars
=============================================================================
