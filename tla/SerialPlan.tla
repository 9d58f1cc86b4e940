----------------------------- MODULE SerialPlan -----------------------------
(***************************************************************************)
(* What a task submission promises: its runs are one sequential program.   *)
(* A run exists only once all runs planned before it completed, so that at *)
(* most one is live at a time, and a run that fails or is cancelled ends   *)
(* the plan.  A run whose worker is lost is queued again; what ended is    *)
(* never taken up again.                                                   *)
(***************************************************************************)
CONSTANTS Runs,       \* the planned runs of all submissions
          Preceding   \* [Runs -> SUBSET Runs]: those of its submission before each

VARIABLE status       \* [Runs -> status, "none" while the run does not exist]

\* A submission may be there from before, with its first run.
Init == \E old \in SUBSET {r \in Runs : Preceding[r] = {}} :
           status = [r \in Runs |-> IF r \in old THEN "queued" ELSE "none"]

Create(r) ==
    /\ status[r] = "none"
    /\ \A q \in Preceding[r] : status[q] = "completed"
    /\ status' = [status EXCEPT ![r] = "queued"]

Move(r, from, to) ==
    /\ status[r] = from
    /\ status' = [status EXCEPT ![r] = to]

Next == \E r \in Runs :
    \/ Create(r)
    \/ Move(r, "queued", "running") \/ Move(r, "running", "queued")
    \/ \E end \in {"failed", "cancelled"} : Move(r, "queued", end)
    \/ \E end \in {"completed", "failed", "cancelled"} : Move(r, "running", end)

Spec == Init /\ [][Next]_status
=============================================================================
