---------------------------- MODULE JobLifecycle ----------------------------
(***************************************************************************)
(* What the status column of a job promises to whoever polls it, whatever   *)
(* the workers, the broker and the retries do behind it.                    *)
(*                                                                          *)
(* This is the contract of the JobStatus enum and of the retry policy in    *)
(* the docstring of extract_document_task.  A job starts QUEUED; an attempt *)
(* shows as PROCESSING and ends as COMPLETED, a review-tier one turning to  *)
(* REVIEW in a second step; FAILED is the end of the last attempt.  A job   *)
(* that was COMPLETED or held for REVIEW may go back to PROCESSING, since   *)
(* an attempt can still raise after its last write; a FAILED one may not.   *)
(*                                                                          *)
(* All of this holds of a job whose message the broker never hands out      *)
(* twice.  Once it does the job is `disturbed`, two attempts may overwrite  *)
(* each other, and only the set of statuses is left to rely on.             *)
(***************************************************************************)
CONSTANT Jobs

VARIABLES
    status,     \* the status column of each job
    disturbed   \* jobs whose message was handed out twice

vars == <<status, disturbed>>

Init ==
    /\ status = [j \in Jobs |-> "queued"]
    /\ disturbed = {}

\* From the statuses in `from`, or from any status once j is disturbed.
Move(j, from, to) ==
    /\ status[j] \in from \/ j \in disturbed
    /\ status' = [status EXCEPT ![j] = to]
    /\ UNCHANGED disturbed

Begin(j) == Move(j, {"queued", "processing", "completed", "review"}, "processing")

Complete(j) == Move(j, {"processing"}, "completed")

HoldForReview(j) == Move(j, {"completed"}, "review")

Fail(j) == Move(j, {"queued", "processing", "completed", "review"}, "failed")

Disturb(j) ==
    /\ disturbed' = disturbed \union {j}
    /\ UNCHANGED status

Next ==
    \E j \in Jobs :
        Begin(j) \/ Complete(j) \/ HoldForReview(j) \/ Fail(j) \/ Disturb(j)

Spec == Init /\ [][Next]_vars

=============================================================================
