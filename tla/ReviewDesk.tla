----------------------------- MODULE ReviewDesk -----------------------------
(***************************************************************************)
(* POST /review/{id}/approve and /review/{id}/reject.                       *)
(*                                                                          *)
(* Both handlers read the job, check that its confidence_tier column says   *)
(* review, and then write the row in a second call; approve writes back the *)
(* result it read, with the reviewer's decision added.  Neither looks at    *)
(* the status, so a job may be decided on more than once, and before or     *)
(* after a worker has it.  The write is a SELECT of its own and an UPDATE   *)
(* of the columns that differ from it.                                      *)
(***************************************************************************)
EXTENDS JobRecords

CONSTANTS
    Jobs,
    Reviewers       \* calls of the two endpoints that may be in progress at once

VARIABLES
    rows,       \* the jobs table
    desk,       \* what each call is about to write, or "free"
    subject,    \* the job it is about
    copy,       \* approve: the result it read
    picked      \* the row its write has selected

deskVars == <<desk, subject, copy, picked>>
vars == <<rows, deskVars>>

\* Jobs a reviewer would find in the queue.
ReviewRow == [NoRow EXCEPT !.status = "review", !.tier = "review",
                           !.result = [tier |-> "review", review |-> None]]

Init ==
    /\ rows = [j \in Jobs |-> ReviewRow]
    /\ desk = [r \in Reviewers |-> "free"]
    /\ subject = [r \in Reviewers |-> None]
    /\ copy = [r \in Reviewers |-> NoResult]
    /\ picked = [r \in Reviewers |-> NoRow]

\* _ensure_review_tier, after the 404 check.
MayBeDecided(j) == rows[j].status # Absent /\ rows[j].tier = "review"

Free(r) ==
    /\ desk' = [desk EXCEPT ![r] = "free"]
    /\ subject' = [subject EXCEPT ![r] = None]
    /\ copy' = [copy EXCEPT ![r] = NoResult]
    /\ picked' = [picked EXCEPT ![r] = NoRow]

\* get_job and the guard; a call that fails the guard changes nothing.
OpenApproval(r, j) ==
    /\ desk[r] = "free"
    /\ MayBeDecided(j)
    /\ desk' = [desk EXCEPT ![r] = "approve"]
    /\ subject' = [subject EXCEPT ![r] = j]
    /\ copy' = [copy EXCEPT ![r] = rows[j].result]
    /\ UNCHANGED <<rows, picked>>

OpenRejection(r, j) ==
    /\ desk[r] = "free"
    /\ MayBeDecided(j)
    /\ desk' = [desk EXCEPT ![r] = "reject"]
    /\ subject' = [subject EXCEPT ![r] = j]
    /\ UNCHANGED <<rows, copy, picked>>

-----------------------------------------------------------------------------
\* The SELECT of update_job_status; the object the handler read is gone.
Pick(r) ==
    /\ desk[r] # "free"
    /\ picked[r] = NoRow
    /\ picked' = [picked EXCEPT ![r] = rows[subject[r]]]
    /\ UNCHANGED <<rows, desk, subject, copy>>

\* Its UPDATE and COMMIT.
Store(r, status, result, error) ==
    /\ picked[r] # NoRow
    /\ rows' = [rows EXCEPT ![subject[r]] =
          Flushed(picked[r], StatusWritten(picked[r], status, result, error),
                  IF result = NoResult THEN {} ELSE {"result"}, @)]
    /\ Free(r)

\* update_job_status(COMPLETED, the result that was read, with the decision).
Approve(r) ==
    /\ desk[r] = "approve"
    /\ Store(r, "completed", [copy[r] EXCEPT !.review = "approved"], None)

\* update_job_status(FAILED, error_message): the result stays.
Reject(r) ==
    /\ desk[r] = "reject"
    /\ Store(r, "failed", NoResult, "rejection")

\* The write raises, or the process dies: the call ends without an effect.
DecisionFails(r) ==
    /\ desk[r] # "free"
    /\ Free(r)
    /\ UNCHANGED rows

DeskStep(r) ==
    \/ \E j \in Jobs : OpenApproval(r, j) \/ OpenRejection(r, j)
    \/ Pick(r) \/ Approve(r) \/ Reject(r) \/ DecisionFails(r)

Next == \E r \in Reviewers : DeskStep(r)

Spec == Init /\ [][Next]_vars

-----------------------------------------------------------------------------
TypeOK ==
    /\ rows \in [Jobs -> Row]
    /\ desk \in [Reviewers -> {"free", "approve", "reject"}]
    /\ subject \in [Reviewers -> Jobs \union {None}]
    /\ \A r \in Reviewers : desk[r] # "free" => subject[r] \in Jobs
    /\ copy \in [Reviewers -> Result]
    /\ picked \in [Reviewers -> Row]

(***************************************************************************)
(* Reviewers that decide the same job at once, in any order of reads and    *)
(* writes, leave a row one of them could have left: the extraction output   *)
(* is still there, COMPLETED carries the approval and FAILED a rejection.   *)
(***************************************************************************)
DecisionsAreWhole ==
    \A j \in Jobs :
        /\ rows[j].result.tier = rows[j].tier
        /\ rows[j].status = "completed" => rows[j].result.review = "approved"
        /\ rows[j].status = "failed" => rows[j].error = "rejection"
        /\ rows[j].status = "review" => rows[j].error = None

=============================================================================
