----------------------------- MODULE Submission -----------------------------
(***************************************************************************)
(* POST /extract: JobService.submit_batch turns the files of a request into *)
(* job rows, PDF files on disk and messages for the workers, and answers    *)
(* with one summary per file.                                               *)
(*                                                                          *)
(* Its steps are not one transaction: the files are written one by one, the *)
(* rows are committed together, and the messages are published one by one   *)
(* after the commit.  Any of those calls may raise, and the API process may *)
(* die, in between.                                                         *)
(*                                                                          *)
(* The id a file would get is fixed in advance: an upload is named by the   *)
(* job it becomes, unless the deduplication answers it from another one.    *)
(***************************************************************************)
EXTENDS Batches

VARIABLES
    rows,       \* the jobs table
    ready,      \* broker: copies of each message
    disk,       \* uploads whose bytes are in the temporary storage
    step,       \* where each request is in submit_batch
    turn,       \* the position of the file it is working on
    summary     \* the JobSummary of each upload, as far as it is built

submissionVars == <<disk, step, turn, summary>>
vars == <<rows, ready, submissionVars>>

-----------------------------------------------------------------------------
Messages == [job: Jobs, retries: {0}]

Uploads(p) == {Files[p][i] : i \in DOMAIN Files[p]}

Current(p) == Files[p][turn[p]]

\* A summary is built from a new job, or from a row found by its hash.
NoSummary == [kind |-> None, from |-> None, result |-> NoResult]
QueuedSummary(j) == [kind |-> "queued", from |-> j, result |-> NoResult]
CachedSummary(k) == [kind |-> "cached", from |-> k, result |-> rows[k].result]

NewJobs(p) == {j \in Uploads(p) : summary[j].kind = "queued"}

\* "crashed" is a request whose process died, "failed" one answered with 500.
Step == {"received", "dedup", "persist", "enqueue",
         "accepted", "refused", "failed", "crashed"}

Busy == {"dedup", "persist", "enqueue"}

EarlierRow == [NoRow EXCEPT !.status = "completed", !.tier = "auto",
                            !.result = [tier |-> "auto", review |-> None]]

Init ==
    /\ rows = [j \in Jobs |-> IF j \in Earlier THEN EarlierRow ELSE NoRow]
    /\ ready = [m \in Messages |-> 0]
    /\ disk = {}
    /\ step = [p \in Requests |-> "received"]
    /\ turn = [p \in Requests |-> 1]
    /\ summary = [j \in Jobs |-> NoSummary]

GoTo(p, there) == step' = [step EXCEPT ![p] = there]

-----------------------------------------------------------------------------
(* Helpers of the actions.                                                   *)

\* get_job_by_file_hash: rows of the hash that are COMPLETED.  The query takes
\* the one updated last; here it may be any of them.
CacheHits(j) ==
    {k \in Jobs : rows[k].status = "completed" /\ FileHash[k] = FileHash[j]}

\* The loop over the files goes on, or is over after the last one.
NextFile(p) ==
    IF turn[p] < Len(Files[p])
    THEN turn' = [turn EXCEPT ![p] = @ + 1] /\ UNCHANGED step
    ELSE turn' = [turn EXCEPT ![p] = 1] /\ GoTo(p, "persist")

\* The loop over the messages, after which the response, a 202, is
\* built from the summaries and sent.
NextMessage(p) ==
    IF turn[p] < Len(Files[p])
    THEN turn' = [turn EXCEPT ![p] = @ + 1] /\ UNCHANGED step
    ELSE UNCHANGED turn /\ GoTo(p, "accepted")

-----------------------------------------------------------------------------
(* Slips the code could have made: wrong versions of actions that follow,    *)
(* which the specification does not use.                                     *)

\* The message is published as soon as the file is saved.
SaveAndEnqueueNewJob(p) ==
    /\ step[p] = "dedup"
    /\ CacheHits(Current(p)) = {}
    /\ disk' = disk \union {Current(p)}
    /\ summary' = [summary EXCEPT ![Current(p)] = QueuedSummary(Current(p))]
    /\ ready' = [ready EXCEPT ![[job |-> Current(p), retries |-> 0]] = @ + 1]
    /\ NextFile(p)
    /\ UNCHANGED rows

\* One commit per job.
CreateJobByJob(p) ==
    /\ step[p] = "persist"
    /\ \/ \E j \in NewJobs(p) :
             /\ rows[j].status = Absent
             /\ rows' = [rows EXCEPT ![j] = QueuedRow]
             /\ UNCHANGED step
       \/ /\ \A j \in NewJobs(p) : rows[j].status # Absent
          /\ GoTo(p, "enqueue")
          /\ UNCHANGED rows
    /\ UNCHANGED <<ready, disk, turn, summary>>

-----------------------------------------------------------------------------
(* submit_batch, in its order.                                              *)

\* The validation pass looks at every file before anything is done.
Validate(p) ==
    /\ step[p] = "received"
    /\ IF Files[p] # <<>> /\ Uploads(p) \subseteq ValidFiles
       THEN GoTo(p, "dedup")
       ELSE GoTo(p, "refused")
    /\ UNCHANGED <<rows, ready, disk, turn, summary>>

\* One turn of the loop over the files: answer from the cache, or save the
\* bytes and make a job.
AnswerFromCache(p) ==
    /\ step[p] = "dedup"
    /\ \E k \in CacheHits(Current(p)) :
          summary' = [summary EXCEPT ![Current(p)] = CachedSummary(k)]
    /\ NextFile(p)
    /\ UNCHANGED <<rows, ready, disk>>

SaveNewJob(p) ==
    /\ step[p] = "dedup"
    /\ CacheHits(Current(p)) = {}
    /\ disk' = disk \union {Current(p)}
    /\ summary' = [summary EXCEPT ![Current(p)] = QueuedSummary(Current(p))]
    /\ NextFile(p)
    /\ UNCHANGED <<rows, ready>>

\* create_batch: batch row and job rows in one transaction.
CreateBatch(p) ==
    /\ step[p] = "persist"
    /\ rows' = [j \in Jobs |-> IF j \in NewJobs(p) THEN QueuedRow ELSE rows[j]]
    /\ GoTo(p, "enqueue")
    /\ UNCHANGED <<ready, disk, turn, summary>>

\* One turn of the second loop, which only knows the new jobs.
EnqueueExtraction(p) ==
    /\ step[p] = "enqueue"
    /\ ready' = IF Current(p) \in NewJobs(p)
                THEN [ready EXCEPT ![[job |-> Current(p), retries |-> 0]] = @ + 1]
                ELSE ready
    /\ NextMessage(p)
    /\ UNCHANGED <<rows, disk, summary>>

\* mkdir, the lookup, write_bytes, create_batch or delay raises: nothing that
\* was done before is undone, and the client gets a 500.
SubmitFails(p) ==
    /\ step[p] \in Busy
    /\ GoTo(p, "failed")
    /\ UNCHANGED <<rows, ready, disk, turn, summary>>

\* The API process dies.
ApiCrash(p) ==
    /\ step[p] \in Busy
    /\ GoTo(p, "crashed")
    /\ UNCHANGED <<rows, ready, disk, turn, summary>>

SubmitStep(p) ==
    \/ Validate(p) \/ AnswerFromCache(p) \/ SaveNewJob(p)
    \/ CreateBatch(p) \/ EnqueueExtraction(p) \/ SubmitFails(p)

Next == \E p \in Requests : SubmitStep(p) \/ ApiCrash(p)

Spec == Init /\ [][Next]_vars

-----------------------------------------------------------------------------
(* Properties.                                                              *)

Summary == [kind: {None, "queued", "cached"}, from: Jobs \union {None},
            result: Result]

TypeOK ==
    /\ rows \in [Jobs -> Row]
    /\ ready \in [Messages -> Nat]
    /\ disk \subseteq Jobs
    /\ step \in [Requests -> Step]
    /\ turn \in [Requests -> Nat \ {0}]
    /\ summary \in [Jobs -> Summary]

(***************************************************************************)
(* A worker that takes a message finds the row and the file it needs: both  *)
(* are written before the message is published, in every interleaving of    *)
(* requests and whatever fails on the way.                                  *)
(***************************************************************************)
MessagesAreBacked ==
    \A m \in DOMAIN ready :
        ready[m] > 0 => rows[m.job].status # Absent /\ m.job \in disk

(***************************************************************************)
(* A batch is all or nothing in the database: either every new job of a     *)
(* request has a row, or none has; and a refused request, with one bad file *)
(* among good ones, left nothing anywhere.                                  *)
(***************************************************************************)
BatchIsAtomic ==
    \A p \in Requests :
        /\ \/ \A j \in NewJobs(p) : rows[j].status # Absent
           \/ \A j \in Uploads(p) : rows[j].status = Absent
        /\ step[p] = "refused" =>
              \A j \in Uploads(p) :
                 /\ rows[j].status = Absent /\ j \notin disk
                 /\ summary[j] = NoSummary

(***************************************************************************)
(* 202 is a promise for every file: one that was not answered from the      *)
(* cache has its message, one that was got a result from a job with the     *)
(* same content.  Files of one request are not deduplicated against each    *)
(* other, since their rows do not exist yet.                                *)
(***************************************************************************)
AcceptedIsComplete ==
    \A p \in Requests :
        step[p] = "accepted" =>
            \A j \in Uploads(p) :
                \/ /\ summary[j].kind = "queued"
                   /\ ready[[job |-> j, retries |-> 0]] = 1
                \/ /\ summary[j].kind = "cached"
                   /\ FileHash[summary[j].from] = FileHash[j]
                   /\ summary[j].result # NoResult
                   /\ rows[j].status = Absent

(***************************************************************************)
(* The three together: whatever requests overlap and wherever they fail.    *)
(***************************************************************************)
SubmissionsHold == MessagesAreBacked /\ BatchIsAtomic /\ AcceptedIsComplete

=============================================================================
