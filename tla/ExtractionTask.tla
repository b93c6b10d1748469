--------------------------- MODULE ExtractionTask ---------------------------
(***************************************************************************)
(* extract_document_task: Celery workers that take job messages from the    *)
(* Redis broker, run the extraction pipeline and write its outcome to the   *)
(* job's row.                                                               *)
(*                                                                          *)
(* The configuration this module rests on is celery_app.py:106-118 and the  *)
(* task decorator at 200-208: a message is acknowledged late, after the     *)
(* task has ended; a worker that dies hands its message back; an exception  *)
(* is retried by publishing a new message, at most max_retries times.       *)
(* A message may therefore be delivered again after any of its effects, and *)
(* one job may have several messages at once.                               *)
(*                                                                          *)
(* A repository write is two steps, the SELECT of the row and the UPDATE of *)
(* the columns that differ from it; other runs commit in between.  The      *)
(* steps of the pipeline that have no effect outside the worker's memory    *)
(* (PDF load, stages 1 to 3, confidence) are one step that ends with a      *)
(* confidence tier.                                                         *)
(***************************************************************************)
EXTENDS JobRecords

CONSTANTS
    Jobs,           \* the persisted jobs
    Workers,        \* Celery worker processes
    MaxRetries,     \* max_retries of the task (3 in the code)
    MaxFaults,      \* bound: worker crashes and broker redeliveries
    Tiers,          \* bound: the tiers a pipeline run may end with
    FileHash,       \* file_hash of each job
    CallbackJobs,   \* jobs whose batch has a callback_url
    Configured,     \* optional services the settings wire up
    Followed,       \* bound: the effect stages whose effects are followed
    NoTask          \* what an idle worker holds

ASSUME RetryAssumption == MaxRetries \in Nat
ASSUME FaultAssumption == MaxFaults \in Nat
ASSUME TierAssumption == Tiers \subseteq ConfidenceTier
ASSUME HashAssumption == FileHash \in [Jobs -> {FileHash[j] : j \in Jobs}]
ASSUME CallbackAssumption == CallbackJobs \subseteq Jobs
ASSUME ConfiguredAssumption == Configured \subseteq {"search_index", "callback"}
ASSUME FollowedAssumption == Followed \subseteq EffectStages

VARIABLES
    rows,       \* the jobs table
    ready,      \* broker: how many copies of each message wait for a worker
    pc,         \* where each worker is in the task
    task,       \* the message each worker is running
    unacked,    \* does the broker still count that message as this worker's?
    tier,       \* the tier the pipeline run ended with
    trace,      \* the effects the run's pipeline_trace reports as done
    loaded,     \* the row the open repository write has selected
    chroma,     \* document ids in ChromaDB
    es,         \* document ids in Elasticsearch
    hooks       \* jobs a webhook about which reached its receiver

\* History of the broker and the workers; no step of the program reads it.
VARIABLES
    faults,     \* crashes and redeliveries so far
    forked,     \* jobs for which a second message was made
    replayed,   \* jobs whose message was handed back after its task had ended
    abandoned   \* jobs that lost their last message without an outcome

workerVars == <<pc, task, unacked, tier, trace, loaded>>
storeVars == <<chroma, es, hooks>>
history == <<faults, forked, replayed, abandoned>>
vars == <<rows, ready, workerVars, storeVars, history>>

-----------------------------------------------------------------------------
\* A message: the task's only argument and Celery's request.retries.
Messages == [job: Jobs, retries: 0..MaxRetries]

Message(j, n) == [job |-> j, retries |-> n]

JobOf(w) == task[w].job

\* A run of the task, from its first statement to the last write it makes;
\* "raised" is its except block.
Writing == {"fetch", "mark", "stages", "publish", "index", "notify", "persist"}
Running == Writing \union {"override", "close", "raised"}

\* The task has ended, the acknowledgement has not been sent.
Ended == {"done", "rescheduled"}

Location == {"idle"} \union Running \union Ended

Init ==
    /\ rows = [j \in Jobs |-> QueuedRow]
    /\ ready = [m \in Messages |-> IF m.retries = 0 THEN 1 ELSE 0]
    /\ pc = [w \in Workers |-> "idle"]
    /\ task = [w \in Workers |-> NoTask]
    /\ unacked = [w \in Workers |-> FALSE]
    /\ tier = [w \in Workers |-> None]
    /\ trace = [w \in Workers |-> {}]
    /\ loaded = [w \in Workers |-> NoRow]
    /\ chroma = {} /\ es = {} /\ hooks = {}
    /\ faults = 0 /\ forked = {} /\ replayed = {} /\ abandoned = {}

-----------------------------------------------------------------------------
(* Helpers of the actions.                                                  *)

Goto(w, there) == pc' = [pc EXCEPT ![w] = there]

\* What a run keeps in memory is gone when the process turns to something else.
ForgetRun(w) ==
    /\ tier' = [tier EXCEPT ![w] = None]
    /\ trace' = [trace EXCEPT ![w] = {}]
    /\ loaded' = [loaded EXCEPT ![w] = NoRow]

BecomeIdle(w) ==
    /\ Goto(w, "idle")
    /\ task' = [task EXCEPT ![w] = NoTask]
    /\ unacked' = [unacked EXCEPT ![w] = FALSE]
    /\ ForgetRun(w)

\* What the run has found out so far.
KeepFindings == UNCHANGED <<tier, trace>>

KeepRun == KeepFindings /\ UNCHANGED loaded

\* The run passes an effect stage; if the stage reports success, the trace
\* says so.
Report(w, stage, ok) ==
    /\ trace' = [trace EXCEPT ![w] = IF ok THEN @ \union {stage} ELSE @]
    /\ UNCHANGED <<tier, loaded>>

\* UPDATE and COMMIT of a repository write that has made `new` of its row.
Update(w, new, given) ==
    /\ loaded[w] # NoRow
    /\ rows' = [rows EXCEPT ![JobOf(w)] = Flushed(loaded[w], new, given, @)]
    /\ loaded' = [loaded EXCEPT ![w] = NoRow]
    /\ KeepFindings

\* update_job_status, which is never given a result here.
WriteStatus(w, status, error) ==
    Update(w, StatusWritten(loaded[w], status, NoResult, error), {})

\* update_job_result.
WriteResult(w) ==
    Update(w, ResultWritten(loaded[w], tier[w], trace[w]), {"result", "trace"})

\* The state a step of a worker never touches unless it says so.
Quiet == UNCHANGED <<task, unacked, storeVars, history>>

-----------------------------------------------------------------------------
(* Slips the code could have made.  Each operator below is a wrong version   *)
(* of one action that follows; Next uses none of them.                       *)

\* Two workers are handed the same copy of a message.
DeliverAgain(w, m) ==
    /\ pc[w] = "idle"
    /\ ready' = [ready EXCEPT ![m] = @ - 1]
    /\ task' = [task EXCEPT ![w] = m]
    /\ unacked' = [unacked EXCEPT ![w] = TRUE]
    /\ Goto(w, "fetch")
    /\ KeepRun
    /\ UNCHANGED <<rows, storeVars, history>>

\* task_acks_late left at its default.
DeliverAckedEarly(w, m) ==
    /\ pc[w] = "idle"
    /\ ready[m] > 0
    /\ ready' = [ready EXCEPT ![m] = @ - 1]
    /\ task' = [task EXCEPT ![w] = m]
    /\ unacked' = unacked
    /\ Goto(w, "fetch")
    /\ KeepRun
    /\ UNCHANGED <<rows, storeVars, history>>

\* The boolean write_metadata returns is ignored.
WriteMetadataUnchecked(w) ==
    /\ pc[w] = "publish"
    /\ IF tier[w] # "review" /\ "metadata_write" \in Followed
       THEN /\ \E applied \in BOOLEAN :
                  chroma' = IF applied THEN chroma \union {FileHash[JobOf(w)]}
                                       ELSE chroma
            /\ Report(w, "metadata_write", TRUE)
       ELSE KeepRun /\ UNCHANGED chroma
    /\ Goto(w, "index")
    /\ UNCHANGED <<rows, ready, task, unacked, es, hooks, history>>

\* update_job_result is believed to choose the status by the tier.
PersistWithoutOverride(w) ==
    /\ pc[w] = "persist"
    /\ WriteResult(w)
    /\ Goto(w, "close")
    /\ Quiet
    /\ UNCHANGED ready

\* update_job_status(COMPLETED) instead of update_job_result.
PersistStatusOnly(w) ==
    /\ pc[w] = "persist"
    /\ WriteStatus(w, "completed", None)
    /\ Goto(w, IF tier[w] = "review" THEN "override" ELSE "close")
    /\ Quiet
    /\ UNCHANGED ready

\* retry(throw=False): the retry is published and the body goes on.
ScheduleRetryAndGoOn(w) ==
    /\ pc[w] = "raised"
    /\ task[w].retries < MaxRetries
    /\ ready' = [ready EXCEPT ![Message(JobOf(w), task[w].retries + 1)] = @ + 1]
    /\ Goto(w, "fetch")
    /\ Quiet /\ KeepRun
    /\ UNCHANGED rows

\* The message is put back as it is, so that request.retries never grows.
RequeueSameMessage(w) ==
    /\ pc[w] = "raised"
    /\ task[w].retries < MaxRetries
    /\ ready' = [ready EXCEPT ![task[w]] = @ + 1]
    /\ Goto(w, "rescheduled")
    /\ Quiet /\ KeepRun
    /\ UNCHANGED rows

\* A retry resets the row to QUEUED.
ScheduleRetryAsQueued(w) ==
    /\ pc[w] = "raised"
    /\ task[w].retries < MaxRetries
    /\ ready' = [ready EXCEPT ![Message(JobOf(w), task[w].retries + 1)] = @ + 1]
    /\ rows' = [rows EXCEPT ![JobOf(w)].status = "queued"]
    /\ Goto(w, "rescheduled")
    /\ Quiet /\ KeepRun

-----------------------------------------------------------------------------
(* The run.                                                                 *)

\* The broker hands a message to a worker that has none (prefetch is 1).
Deliver(w, m) ==
    /\ pc[w] = "idle"
    /\ ready[m] > 0
    /\ ready' = [ready EXCEPT ![m] = @ - 1]
    /\ task' = [task EXCEPT ![w] = m]
    /\ unacked' = [unacked EXCEPT ![w] = TRUE]
    /\ Goto(w, "fetch")
    /\ KeepRun
    /\ UNCHANGED <<rows, storeVars, history>>

\* get_job, get_batch, read_bytes and build_orchestrator: reads only.  The
\* entity fetched here is the one every later stage is given.
LoadJob(w) ==
    /\ pc[w] = "fetch"
    /\ rows[JobOf(w)].status # Absent
    /\ Goto(w, "mark")
    /\ Quiet /\ KeepRun
    /\ UNCHANGED <<rows, ready>>

\* Where the next thing to do is a repository write.
AtWrite(w) ==
    \/ pc[w] \in {"mark", "persist", "override"}
    \/ pc[w] = "raised" /\ task[w].retries >= MaxRetries

\* Its SELECT.  The objects of earlier calls are gone by then, so that the row
\* is what the database has.
Select(w) ==
    /\ AtWrite(w)
    /\ loaded[w] = NoRow
    /\ loaded' = [loaded EXCEPT ![w] = rows[JobOf(w)]]
    /\ Quiet /\ KeepFindings
    /\ UNCHANGED <<rows, ready, pc>>

MarkProcessing(w) ==
    /\ pc[w] = "mark"
    /\ WriteStatus(w, "processing", None)
    /\ Goto(w, "stages")
    /\ Quiet
    /\ UNCHANGED ready

\* PDF load, stages 1-3 and confidence.  None of them raises: whatever fails
\* only lowers the confidence, so any tier may come out, for any attempt.
RunStages(w) ==
    /\ pc[w] = "stages"
    /\ \E t \in Tiers : tier' = [tier EXCEPT ![w] = t]
    /\ Goto(w, "publish")
    /\ Quiet
    /\ UNCHANGED <<rows, ready, trace, loaded>>

\* An effect on another service either is acknowledged, or fails; a failed one
\* may have been applied all the same.  What stands in for a service that is not
\* configured does nothing and reports success.  A stage that is not followed
\* leaves no trace.
Attempt(stage, ok, applied) ==
    IF stage \in {"search_index", "callback"} \ Configured
    THEN ok /\ ~applied
    ELSE ok => applied

\* CAP-023: only AUTO and SPOT results go to ChromaDB.  Failure is tolerated.
\* A skipped write puts "skipped" into the trace, not a report of success.
WriteMetadata(w) ==
    /\ pc[w] = "publish"
    /\ \/ /\ tier[w] = "review" \/ "metadata_write" \notin Followed
          /\ KeepRun
          /\ UNCHANGED chroma
       \/ /\ tier[w] # "review" /\ "metadata_write" \in Followed
          /\ \E ok, applied \in BOOLEAN :
                /\ Attempt("metadata_write", ok, applied)
                /\ chroma' = IF applied
                             THEN chroma \union {FileHash[JobOf(w)]}
                             ELSE chroma
                /\ Report(w, "metadata_write", ok)
    /\ Goto(w, "index")
    /\ UNCHANGED <<rows, ready, task, unacked, es, hooks, history>>

\* CAP-024: whatever the tier, if the run generated a companion text.
IndexCompanion(w) ==
    /\ pc[w] = "index"
    /\ \/ KeepRun /\ UNCHANGED es
       \/ /\ "search_index" \in Followed
          /\ \E ok, applied \in BOOLEAN :
                /\ Attempt("search_index", ok, applied)
                /\ es' = IF applied THEN es \union {FileHash[JobOf(w)]} ELSE es
                /\ Report(w, "search_index", ok)
    /\ Goto(w, "notify")
    /\ UNCHANGED <<rows, ready, task, unacked, chroma, hooks, history>>

\* CAP-025: the webhook; the Job entity it carries, as LoadJob fetched it, is
\* left out.  The stage is skipped without a callback URL, which also happens
\* when the batch lookup of the run failed.
NotifyCompletion(w) ==
    /\ pc[w] = "notify"
    /\ \/ KeepRun /\ UNCHANGED hooks
       \/ /\ JobOf(w) \in CallbackJobs
          /\ "callback" \in Followed
          /\ \E ok, applied \in BOOLEAN :
                /\ Attempt("callback", ok, applied)
                /\ hooks' = IF applied THEN hooks \union {JobOf(w)} ELSE hooks
                /\ Report(w, "callback", ok)
    /\ Goto(w, "persist")
    /\ UNCHANGED <<rows, ready, task, unacked, chroma, es, history>>

\* update_job_result: COMPLETED for every tier.
PersistResult(w) ==
    /\ pc[w] = "persist"
    /\ WriteResult(w)
    /\ Goto(w, IF tier[w] = "review" THEN "override" ELSE "close")
    /\ Quiet
    /\ UNCHANGED ready

\* The second commit, which turns a review-tier row to REVIEW.
OverrideReview(w) ==
    /\ pc[w] = "override"
    /\ WriteStatus(w, "review", None)
    /\ Goto(w, "close")
    /\ Quiet
    /\ UNCHANGED ready

\* Leaving get_session: a last commit, then the task returns.
CloseSession(w) ==
    /\ pc[w] = "close"
    /\ Goto(w, "done")
    /\ ForgetRun(w)
    /\ UNCHANGED <<rows, ready, task, unacked, storeVars, history>>

\* The broker forgets the message the task has been run for.
Ack(w) ==
    /\ pc[w] \in Ended
    /\ BecomeIdle(w)
    /\ UNCHANGED <<rows, ready, storeVars, history>>

-----------------------------------------------------------------------------
(* Exceptions.                                                              *)

\* Any database call of the run, the file read or the construction of the
\* orchestrator raises.  A commit that went through before the exception is
\* the step after it, raising from the next location.
Raise(w) ==
    /\ pc[w] \in {"fetch", "mark", "persist", "override", "close"}
    /\ Goto(w, "raised")
    /\ ForgetRun(w)
    /\ UNCHANGED <<rows, ready, task, unacked, storeVars, history>>

Abandon(j) ==
    /\ abandoned' = abandoned \union {j}
    /\ UNCHANGED <<faults, forked, replayed>>

\* Not the last attempt: autoretry_for publishes the same task with one more
\* retry; the row is left as it is.
ScheduleRetry(w) ==
    /\ pc[w] = "raised"
    /\ task[w].retries < MaxRetries
    /\ ready' = [ready EXCEPT ![Message(JobOf(w), task[w].retries + 1)] = @ + 1]
    /\ Goto(w, "rescheduled")
    /\ Quiet /\ KeepRun
    /\ UNCHANGED rows

\* The broker refuses the retry: Celery turns that into Reject(requeue=False).
LoseRetry(w) ==
    /\ pc[w] = "raised"
    /\ task[w].retries < MaxRetries
    /\ Goto(w, "done")
    /\ Abandon(JobOf(w))
    /\ KeepRun
    /\ UNCHANGED <<rows, ready, task, unacked, storeVars>>

\* The last attempt: _mark_job_failed in a session of its own.
MarkJobFailed(w) ==
    /\ pc[w] = "raised"
    /\ task[w].retries >= MaxRetries
    /\ WriteStatus(w, "failed", "exception")
    /\ Goto(w, "done")
    /\ Quiet
    /\ UNCHANGED ready

\* _mark_job_failed raises too; that is logged and nothing else happens.
CleanupFails(w) ==
    /\ pc[w] = "raised"
    /\ task[w].retries >= MaxRetries
    /\ Goto(w, "done")
    /\ Abandon(JobOf(w))
    /\ ForgetRun(w)
    /\ UNCHANGED <<rows, ready, task, unacked, storeVars>>

-----------------------------------------------------------------------------
(* Faults.                                                                  *)

Fault == faults < MaxFaults /\ faults' = faults + 1

\* The worker process dies.  task_reject_on_worker_lost puts its message back,
\* with the same retries count, unless the broker has already taken it back.
Crash(w) ==
    /\ pc[w] # "idle"
    /\ Fault
    /\ \/ /\ unacked[w]
          /\ ready' = [ready EXCEPT ![task[w]] = @ + 1]
          /\ forked' = IF pc[w] = "rescheduled"
                       THEN forked \union {JobOf(w)} ELSE forked
          /\ replayed' = IF pc[w] = "done"
                         THEN replayed \union {JobOf(w)} ELSE replayed
          /\ UNCHANGED abandoned
       \/ /\ ~unacked[w]
          /\ abandoned' = IF pc[w] \in Running /\ JobOf(w) \in forked
                          THEN abandoned \union {JobOf(w)} ELSE abandoned
          /\ UNCHANGED <<ready, forked, replayed>>
    /\ BecomeIdle(w)
    /\ UNCHANGED <<rows, storeVars>>

\* The broker takes the message back from a worker that is still running it:
\* connection loss, or the Redis visibility timeout.
Redeliver(w) ==
    /\ pc[w] # "idle"
    /\ unacked[w]
    /\ Fault
    /\ unacked' = [unacked EXCEPT ![w] = FALSE]
    /\ ready' = [ready EXCEPT ![task[w]] = @ + 1]
    /\ forked' = forked \union {JobOf(w)}
    /\ KeepRun
    /\ UNCHANGED <<rows, pc, task, storeVars, replayed, abandoned>>

-----------------------------------------------------------------------------
RunStep(w) ==
    \/ LoadJob(w) \/ Select(w) \/ MarkProcessing(w) \/ RunStages(w)
    \/ WriteMetadata(w) \/ IndexCompanion(w) \/ NotifyCompletion(w)
    \/ PersistResult(w) \/ OverrideReview(w) \/ CloseSession(w)
    \/ Raise(w)
    \/ ScheduleRetry(w) \/ LoseRetry(w) \/ MarkJobFailed(w) \/ CleanupFails(w)
    \/ Ack(w)

Pull(w) == \E m \in Messages : Deliver(w, m)

Next == \E w \in Workers : Pull(w) \/ RunStep(w) \/ Crash(w) \/ Redeliver(w)

Spec == Init /\ [][Next]_vars

(***************************************************************************)
(* A live worker process keeps executing its task, and an idle one keeps    *)
(* polling the broker.  Nothing obliges a fault to happen.                  *)
(***************************************************************************)
Fairness == \A w \in Workers : WF_vars(Pull(w)) /\ WF_vars(RunStep(w))

FairSpec == Spec /\ Fairness

-----------------------------------------------------------------------------
(* Properties.                                                              *)

TypeOK ==
    /\ rows \in [Jobs -> Row]
    /\ ready \in [Messages -> Nat]
    /\ pc \in [Workers -> Location]
    /\ task \in [Workers -> Messages \union {NoTask}]
    /\ \A w \in Workers : pc[w] # "idle" => task[w] \in Messages
    /\ unacked \in [Workers -> BOOLEAN]
    /\ tier \in [Workers -> Tiers \union {None}]
    /\ trace \in [Workers -> SUBSET EffectStages]
    /\ loaded \in [Workers -> Row]
    /\ chroma \subseteq {FileHash[j] : j \in Jobs}
    /\ es \subseteq {FileHash[j] : j \in Jobs}
    /\ hooks \subseteq Jobs
    /\ faults \in 0..MaxFaults
    /\ forked \subseteq Jobs
    /\ replayed \subseteq Jobs
    /\ abandoned \subseteq Jobs

InQueue(j) == \E m \in Messages : m.job = j /\ ready[m] > 0

At(j, places) == \E w \in Workers : pc[w] \in places /\ JobOf(w) = j

(***************************************************************************)
(* A job whose row still says QUEUED or PROCESSING has somebody to finish   *)
(* it: a message in the broker, or a run that has yet to write an outcome.  *)
(* The only jobs without are those in `abandoned`, and there are three ways *)
(* into that set: a retry that could not be published, a _mark_job_failed   *)
(* that raised, and the crash of a run whose message the broker had already *)
(* given to somebody else.                                                  *)
(***************************************************************************)
NoStrandedJob ==
    \A j \in Jobs :
        rows[j].status \in {"queued", "processing"} =>
            \/ InQueue(j)
            \/ At(j, Writing \union {"raised"})
            \/ j \in abandoned

(***************************************************************************)
(* acks_late plus retries make the task at-least-once, not concurrent: as   *)
(* long as no second message was made for a job, no two workers run it and  *)
(* none runs it while a message waits.                                      *)
(***************************************************************************)
SingleCustody ==
    \A j \in Jobs \ forked :
        /\ \A v, w \in Workers :
              /\ pc[v] \in Running /\ pc[w] \in Running
              /\ JobOf(v) = j /\ JobOf(w) = j
              => v = w
        /\ At(j, Running) => ~InQueue(j)
        /\ \A m \in Messages : m.job = j => ready[m] <= 1
        /\ \A m, n \in Messages :
              m.job = j /\ n.job = j /\ ready[m] > 0 /\ ready[n] > 0 => m = n

(***************************************************************************)
(* extract_document_task gates _mark_job_failed on the last attempt so that *)
(* FAILED is written once.  It is final as long as the broker hands no      *)
(* message out twice: nothing is left that could run the job again.         *)
(***************************************************************************)
FailedIsFinal ==
    \A j \in Jobs \ (forked \union replayed) :
        rows[j].status = "failed" => ~InQueue(j) /\ ~At(j, Running)

(***************************************************************************)
(* A result that needs a human is never left published: while the row of a  *)
(* review-tier result says COMPLETED (the commit before the override), a    *)
(* run or a message is still there to correct it, or the job is one of the  *)
(* abandoned.  It is said of jobs with one message: when the broker has     *)
(* handed out two, a run may close having left the status column as it      *)
(* found it, between the other's two commits.                               *)
(***************************************************************************)
ReviewIsNotLeftCompleted ==
    \A j \in Jobs \ forked :
        rows[j].status = "completed" /\ rows[j].tier = "review" =>
            InQueue(j) \/ At(j, Running) \/ j \in abandoned

(***************************************************************************)
(* A settled row is complete: COMPLETED and REVIEW come with a tier, FAILED *)
(* with an error message, also when two runs of the job wrote it statement  *)
(* by statement.  The tier and the result are of the same run, and REVIEW   *)
(* means the review tier, unless the runs overlapped: a run that finds its  *)
(* own tier in the row leaves that column out of its UPDATE, and the row    *)
(* keeps the tier another run has written since beside this run's result.   *)
(***************************************************************************)
OutcomeRecorded ==
    \A j \in Jobs :
        LET r == rows[j] IN
        /\ r.status \in {"completed", "review"} => r.tier # None
        /\ r.status = "failed" => r.error # None
        /\ j \notin forked =>
              /\ r.result.tier = r.tier
              /\ r.status = "review" => r.tier = "review"

(***************************************************************************)
(* The persisted pipeline_trace can be believed about every service that is *)
(* configured: an effect it reports as done was done, in whatever order     *)
(* crashes, retries and overlapping runs wrote the row.  Unless the runs    *)
(* overlapped, a row with the review tier reports no metadata write; one    *)
(* run's trace beside the other's tier may.                                 *)
(***************************************************************************)
TraceIsHonest ==
    \A j \in Jobs :
        LET done == rows[j].trace IN
        /\ "metadata_write" \in done => FileHash[j] \in chroma
        /\ "search_index" \in done \intersect Configured => FileHash[j] \in es
        /\ "callback" \in done \intersect Configured => j \in hooks
        /\ rows[j].tier = "review" /\ j \notin forked => "metadata_write" \notin done

(***************************************************************************)
(* Every enqueued job is eventually settled for good, or abandoned.         *)
(***************************************************************************)
EveryJobSettles ==
    \A j \in Jobs : <>[](rows[j].status \in Settled \/ j \in abandoned)

(***************************************************************************)
(* What a client that polls GET /jobs/{id} is promised: JobLifecycle, where *)
(* a job is disturbed once the broker has duplicated or replayed it.  It is *)
(* about what the worker writes: a reviewer's writes, from REVIEW to        *)
(* COMPLETED or FAILED, are ReviewDesk's, and Ingestion has both.           *)
(***************************************************************************)
Lifecycle == INSTANCE JobLifecycle WITH
    status <- [j \in Jobs |-> rows[j].status],
    disturbed <- forked \union replayed

FollowsLifecycle == Lifecycle!Spec

-----------------------------------------------------------------------------
(* What a comment of the repository says and the code does not do.          *)

\* The comment above the metadata write of run_pipeline: a result that waits
\* for a reviewer has not been written to ChromaDB.
ReviewHeldOutOfSearch ==
    \A j \in Jobs : rows[j].status = "review" => FileHash[j] \notin chroma

=============================================================================
