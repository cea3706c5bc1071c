---------------------------- MODULE RunLifecycle ----------------------------
(***************************************************************************)
(* What the Jobs API promises a client that polls a run: it is PENDING,    *)
(* then RUNNING, and ends in exactly one of SUCCESS, FAILED and CANCELED,  *)
(* which it keeps.  A run may be cancelled any time before it ends.        *)
(***************************************************************************)
CONSTANT Ids

VARIABLE status

Open == {"PENDING", "RUNNING"}
Ends == {"SUCCESS", "FAILED", "CANCELED"}

Init == status = [r \in Ids |-> "none"]

Become(r, from, to) == status[r] = from /\ status' = [status EXCEPT ![r] = to]

Submit(r) == Become(r, "none", "PENDING")
Begin(r)  == Become(r, "PENDING", "RUNNING")
Finish(r) == \E res \in {"SUCCESS", "FAILED"} : Become(r, "RUNNING", res)
Cancel(r) == \E s \in Open : Become(r, s, "CANCELED")

Next == \E r \in Ids : Submit(r) \/ Begin(r) \/ Finish(r) \/ Cancel(r)

Spec == Init /\ [][Next]_status
===============================================================================
