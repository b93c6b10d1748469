----------------------------- MODULE JobRecords -----------------------------
(***************************************************************************)
(* The row of the `jobs` table and what the repository's write methods do   *)
(* to it.  Every component of the service (the API that creates rows, the   *)
(* Celery workers, the review endpoints, the batch endpoint) meets the      *)
(* others only through these rows, so they share this module.               *)
(*                                                                          *)
(* Only the columns some behaviour depends on are kept.  A result blob is   *)
(* reduced to the tier the orchestrator stored in it and to the decision a  *)
(* reviewer stamped into it; an error message to who wrote it; a pipeline   *)
(* trace to the side effects it reports as done.                            *)
(***************************************************************************)
EXTENDS Naturals

\* The statuses some code path writes to a row.  IN_PROGRESS, REJECTED and
\* CACHED are members of the enum too, but no statement stores them.
StoredStatus == {"queued", "processing", "completed", "failed", "review"}

\* A row that was never inserted: get_job returns None for it.
Absent == "absent"

ConfidenceTier == {"auto", "spot", "review"}

\* A NULL column.
None == "none"

\* The stages of the pipeline that act outside the database, as
\* pipeline_trace names them.
EffectStages == {"metadata_write", "search_index", "callback"}

\* The result column: the payload of a pipeline run carries its
\* confidence_tier, and approve_review adds a "review" key to it.
Result == [tier: ConfidenceTier \union {None}, review: {None, "approved"}]
NoResult == [tier |-> None, review |-> None]

ErrorMessage == {None, "exception", "rejection"}

Row == [status: StoredStatus \union {Absent},
        tier:   ConfidenceTier \union {None},
        result: Result,
        error:  ErrorMessage,
        trace:  SUBSET EffectStages]

NoRow == [status |-> Absent, tier |-> None, result |-> NoResult,
          error |-> None, trace |-> {}]

\* The row create_batch inserts for a new job.
QueuedRow == [NoRow EXCEPT !.status = "queued"]

(***************************************************************************)
(* update_job_status writes the status, and the result and the error        *)
(* message only when it is given one: it never clears a column.  On a       *)
(* missing row it does nothing.                                             *)
(***************************************************************************)
StatusWritten(row, status, result, error) ==
    IF row.status = Absent
    THEN row
    ELSE [row EXCEPT !.status = status,
                     !.result = IF result = NoResult THEN @ ELSE result,
                     !.error = IF error = None THEN @ ELSE error]

(***************************************************************************)
(* update_job_result replaces result, tier and trace and marks the row      *)
(* COMPLETED whatever the tier is; the error message stays.                 *)
(***************************************************************************)
ResultWritten(row, tier, trace) ==
    IF row.status = Absent
    THEN row
    ELSE [row EXCEPT !.status = "completed",
                     !.tier = tier,
                     !.result = [tier |-> tier, review |-> None],
                     !.trace = trace]

(***************************************************************************)
(* Both methods SELECT the row, change the object and leave the UPDATE to   *)
(* SQLAlchemy, which names only the columns in which the changed row, `new`, *)
(* differs from the selected one, `old`.  `given` are the columns the call  *)
(* sets to a value no row had before: a result and a trace carry durations, *)
(* or the time of a review.  `row` is the row by the time of the UPDATE.    *)
(***************************************************************************)
Flushed(old, new, given, row) ==
    [status |-> IF new.status # old.status THEN new.status ELSE row.status,
     tier   |-> IF new.tier # old.tier THEN new.tier ELSE row.tier,
     result |-> IF "result" \in given THEN new.result ELSE row.result,
     error  |-> IF new.error # old.error THEN new.error ELSE row.error,
     trace  |-> IF "trace" \in given THEN new.trace ELSE row.trace]

\* The statuses in which the service has nothing left to do for a job.
Settled == {"completed", "failed", "review"}

=============================================================================
