# A TLA+ development of zubot-ingestion

`zubot-ingestion` takes batches of construction drawings (PDF), extracts drawing
number, title and document type from each with a local LLM, scores the result,
and either publishes it or holds it for a human.  This directory models the API
with what a call meets before its handler, the Celery workers that run the jobs, the
pipeline each job goes through down to the pages of a document and the attempts of a
call to another service, the reviewers who decide on results, the rows and statements
they all meet through, and the two scripts that measure the models.  The modules are
checked with TLC; every safety property they are found to have is also proved, with
TLAPS, for any number of jobs, workers, calls, pages and the like.

Paths below are relative to `src/src/zubot_ingestion/`, those of scripts to `src/`.


## 1. Inventory

| Part | Where | State | Operations | Talks to |
|---|---|---|---|---|
| Middleware | `api/app.py`, `api/middleware/` | rate-limit counters | authentication, limits, CORS, request log | every route |
| Submission | `services/job_service.py`, `services/task_queue.py`, `api/routes/extract.py` | none of its own; the files, rows and messages it makes | `submit_batch`, `enqueue_extraction` | jobs table, disk, broker |
| Worker task | `services/celery_app.py` | the running attempt, Celery's retry count | `extract_document_task`, `_run_extract_document_task`, `_mark_job_failed` | broker, jobs table, orchestrator |
| Orchestrator | `services/orchestrator.py` | the errors, metrics and trace of one run | `run_pipeline`: PDF, stages 1-3, confidence, metadata write, index, webhook | Ollama, ChromaDB, Elasticsearch, webhook receiver |
| Stage 1, confidence | `domain/pipeline/extractors/`, `confidence.py`, `json_parser.py` | the shared context of one document | six sources, fusion, validation, score, tier | Ollama client, PDF processor |
| Companion, sidecar, PDF processor | `domain/pipeline/companion.py`, `sidecar.py`, `infrastructure/pdf/` | the pages of one document | page selection, skipping, description, assembly | Ollama client |
| Outbound clients | `infrastructure/ollama/`, `callback/`, `chromadb/`, `elasticsearch/` | connections, attempts, counters | one call each, with its retries | their service |
| Jobs table | `infrastructure/database/` | batches, jobs, review actions | `create_batch`, `get_job`, `get_job_by_file_hash`, `update_job_status`, `update_job_result`, `get_pending_reviews`, `get_batch` | everybody |
| Review endpoints | `api/routes/review.py` | none between calls | list, approve, reject | jobs table |
| Batch and job reads | `api/routes/batches.py`, `jobs.py`, `job_service.py` | none | status and progress of a batch | jobs table |
| Health | `api/routes/health.py` | threads of the executor, a gauge | six probes, a verdict | all services |
| Scripts | `scripts/bench.py`, `scripts/regression_check.py` | environment, cached settings, records | measure latency; find the smallest model that keeps up with a baseline | orchestrator |
| Metrics, settings, logging, tracing | `infrastructure/metrics`, `infrastructure/prometheus`, `config.py`, ... | counters | output | - |

### What is hard in it

* *At-least-once delivery.*  Messages are acknowledged after the task has ended
  (`celery_app.py:113`), handed back when a worker dies (`:114`), and taken back by
  Redis from a worker that is slow or disconnected.  An exception publishes a
  second message (`:200-208`).  An attempt may start over after any of its effects,
  and two attempts of a job may overlap.
* *Two commits for one outcome.*  `update_job_result` stores COMPLETED for every
  tier; a second call turns a review-tier row to REVIEW (`celery_app.py:358-381`).
* *Two statements for one call.*  Every update of the repository is a SELECT and an
  UPDATE of the columns that differ (`repository.py:287`, `:316`), so two overlapping calls
  on one row can mix their columns.
* *Effects before the outcome.*  ChromaDB, Elasticsearch and the webhook receiver
  hear of a result before the row is written (`orchestrator.py:835-1027`), and a
  retry undoes none of it.
* *No common transaction.*  Files, rows and messages of a batch are written one
  after the other, each call may raise, and nothing is rolled back but the rows.
* *Six sources at once.*  Stage 1 asks a vision model, a text model and the file name
  for three fields, concurrently, over one shared context; any of them may answer
  anything or nothing, and any stage may fail without ending the run.
* *Answers that come late or not at all.*  Each client retries by rules of its own, a
  request that timed out may still be handled, the calls to Ollama share a
  pool of connections, and a probe that hangs keeps its thread.
* *Pages by number.*  First and last pages are selected by numbers from both ends,
  resolved later, and skipped by texts fetched under the resolved ones.
* *Read, decide, write.*  Approval and rejection read a row, check its tier, and
  write it in another statement; the deduplication reads a row another process
  may be changing; a list is read page by page while it changes.

### What makes each part correct

* Middleware: only a call that was let through does anything; a limit is used up by its
  own caller and path alone; every call is answered.
* Submission: a message has its row and its file; a batch is all or nothing in the
  table; 202 covers every file; a client error leaves nothing.
* Task: a job is never forgotten; one attempt at a time as long as the broker does
  not duplicate; a settled row has its tier or its error; every effect that the trace
  in a row reports has happened; every job settles.  As long as the broker makes no second
  message, FAILED is final, tier and result of a row are of one run, and a review-tier result
  is not left COMPLETED.
* Pipeline: nothing is published on one field or on a score that is no number; what
  skips the reviewer is complete and undisputed; shared work is done once; trace,
  errors and metric agree with what happened.
* Documents: a selected page is looked at once or spared for its text; one page's failure
  costs that page; a scanned document is described; an object in an answer is read
  whole; the sidecar is always built.
* Clients: success means the other side heard it; no more requests than the policy
  allows; a call ends; the counters account for it.
* Rows: what a run stored is not undone by a stale read; a row that sessions wrote one after
  the other is whole; pages hold as many jobs as the queue, newest first; the status of a batch
  agrees with its counters.
* Review: concurrent decisions leave a row one reviewer could have left.
* Health: 503 is about the critical dependencies, "healthy" about all of them.
* Scripts: a run measures the model it names and leaves the process as it was; the
  report is about the documents it lists; the recommended model passed.
* All of it together: the worker always finds what the API promised it; a cached
  answer is an extraction of that content; an unreviewed result is not left
  published; an accepted job settles whatever reviewers do meanwhile.


## 2. Modules

| Module | Stands for | Variables |
|---|---|---|
| `JobRecords` | `JobStatus`, `ConfidenceTier`, a row of `jobs`, what the two update calls and their UPDATE do to one | none |
| `Batches` | what clients upload: the parameters of `Submission` | none |
| `ExtractionTask` | the Celery task, the broker, the three stores | `rows`, `ready`; `pc`, `task`, `unacked`, `tier`, `trace`, `loaded` of each worker; `chroma`, `es`, `hooks`; history |
| `JobLifecycle` | abstract: the status a client polls, as far as the worker writes it | `status`, `disturbed` |
| `Submission` | `submit_batch` | `rows`, `ready`, `disk`; `step`, `turn` of each request; `summary` of each upload |
| `Gateway` | the middleware and the routes of `extract`, `jobs`, `/health` | those of `Submission` and `Health`; `door`, `user`, `reply` of each call; `used` |
| `Health` | `/health` and its executor | `poll`, `probe`, `waiting`, `gauge` |
| `ReviewDesk` | approve and reject | `rows`; `desk`, `subject`, `copy`, `picked` of each call in progress |
| `RowWrites` | any mixture of sessions that write, and the repository's readers | `rows`; the job, the calls and the loaded row of each session; `scan` |
| `Ingestion` | task, submission and desk together, sharing `rows` and `ready` | the union of theirs |
| `Scoring` | the fusion rules of stage 1, the score, the tiers, as operators | none |
| `Pipeline` | one call of `run_pipeline` | `pc`; the `PipelineContext`; each source's state and answer; fields, companion, sidecar, score, tier; `trace`, `errors`, `metric` |
| `Documents` | PDF processor, companion, JSON parser and sidecar over one document | `pc`, `doc`; pages rendered, to do, skipped, described; the answer just read; `companion`, `sidecar` |
| `Clients` | the five outbound clients and their no-op versions | `pc`, attempts `heard`, `copies` handled, `late` requests, `waited`, `verdict` of each call; `metric` |
| `Delivery` | abstract: at least once if the client says so, at most `limit` times | `limit`, `copies`, `verdict` |
| `Harness` | `bench.py` and `regression_check.py` | the rounds and records of one; environment, cached settings, outputs and reports of the other |
| `...Proofs` | theorems about the module of that name; those about `Submission` and `Health` are in `GatewayProofs`, those about `ReviewDesk` in `IngestionProofs` | |
| `MC...` | instances for TLC | |

How they are put together:

* `Ingestion` composes by `INSTANCE`: a step of the service is a step of one
  component, with the private state of the others unchanged.  `ExtractionTask` starts
  from enqueued jobs; in `Ingestion` they come from `Submission`.
* `Gateway` extends `Submission`, whose steps are the handler of an admitted submission,
  and instantiates `Health` for the handler of a poll.
* `Pipeline` opens what `ExtractionTask` takes as the step `RunStages` and the three
  steps after it; the two meet in the tier and in the statuses of the trace.
  `Documents` opens what `Pipeline` takes as loading, rendering, companion and sidecar;
  `Clients` opens every call to another service.
* A write of the repository is two steps everywhere, as `JobRecords`' `Flushed` says.
  `RowWrites` lets any number of runs and reviewers write without the broker and
  the pipeline in between, which the instances of the others cannot afford, and
  instantiates `ReviewDesk` to state its claim about reviewers there.

Each module has *slips*: wrong versions of single actions or operators that a
programmer could have written (no `task_acks_late`, no gate on the last attempt,
one commit per job, a limit per address, ...), each before the right one.  No
specification uses them.  They show that each property can fail.

### How `ExtractionTask` reads against the code

`pc[w]` is the next statement of the task.

| `pc` | Action | Code |
|---|---|---|
| `idle` | `Deliver` | Celery consumer, prefetch 1 |
| `fetch` | `LoadJob` | `get_job`, `get_batch`, `read_bytes`, `build_orchestrator` |
| `mark`, `persist`, `override`, `raised` on the last attempt | `Select` | the SELECT of the write that follows; `loaded` is its row |
| `mark` | `MarkProcessing` | `update_job_status(PROCESSING)`: UPDATE and COMMIT, as in the writes below |
| `stages` | `RunStages` | PDF load, stages 1-3, confidence: ends in any tier |
| `publish`, `index`, `notify` | `WriteMetadata`, `IndexCompanion`, `NotifyCompletion` | the last stages of `run_pipeline` |
| `persist` | `PersistResult` | `update_job_result` |
| `override` | `OverrideReview` | `update_job_status(REVIEW)` |
| `close` | `CloseSession` | leaving `get_session` |
| `raised` | `ScheduleRetry`, `LoseRetry`, `MarkJobFailed`, `CleanupFails` | `autoretry_for`, the `except` block |
| `done`, `rescheduled` | `Ack` | acknowledgement |
| any | `Raise`, `Crash`, `Redeliver` | an exception; a lost worker; the broker taking a message back |

A write is `Flushed`: SQLAlchemy puts into the UPDATE the columns in which the changed object
differs from the selected row, and no others.  Result and trace always differ, for they carry
durations.  Between SELECT and UPDATE another run of the job may commit, and then the row mixes
both: that is why `OutcomeRecorded` says that tier and result belong together, and
`TraceIsHonest` that a review-tier row reports no metadata write, of jobs outside `forked` only,
and why a run may close having left the status column as it found it.

`ready` is a bag: Redis keeps an order, but redelivery and several workers
destroy it, and the model uses none.  An effect on another service may succeed,
fail, or be applied and reported as failed.  `Configured` says which optional
services the settings wire up; the no-op clients in the place of the others report
success, as the code's do.  `Followed` is a bound: effects of a stage that is not
followed are left out of an instance, which keeps unrelated stores from multiplying
its states.  The Job entity a webhook carries, fetched when the attempt began, is left out.

`JobLifecycle` is about the worker's writes.  A reviewer turns REVIEW into COMPLETED or FAILED,
which no step of `ExtractionTask` does; that is `ReviewDesk`'s, and `Ingestion` has both.

The history variables are read by properties only.  `forked`: a second message was
made for the job (taken back while running, or the retry was published and then
the original came back).  `replayed`: the message came back after the task had
ended.  `abandoned`: the last message is gone without an outcome.  The three ways
into `abandoned` are in the code: publishing a retry fails, `_mark_job_failed`
raises and is only logged, and a worker dies whose message the broker had already
given to another.

### `Submission`, `Gateway`, `Health`

`submit_batch` is `Validate` (all files first), then for each file
`AnswerFromCache` or `SaveNewJob`, then `CreateBatch` (one transaction), then
`EnqueueExtraction` for each new job.  `SubmitFails` is an exception at any of the
calls, `ApiCrash` the death of the process.  An upload is named by the id its job
would get.  `Validate` refuses an empty request as well as a bad file.

A call is at a `door`: `sent` until `Authenticate`, `routed` until the decorator of a
limited route has counted it (`CheckLimit`, or `CheckFails` when the store of the
counters is gone), `admitted` while its handler works, `answered` with the code in
`reply`.  Starlette runs the middleware added last first; the module's head gives the
order that follows from `create_app`.  The handlers are `Submit` (each of its
steps, and the translation of its outcome), `GetJob`, `AnswerPreflight` and
`HealthCheck`; `RefuseMalformed` is what a handler parses itself.

A counter is that of a `Bucket`: slowapi counts by the key that `get_rate_limit_key` returns and
by the path of the request, its default, so each job that is read has a counter of its own for
each caller, and all submissions of a caller share one.  A user whose `user_id`
is empty is told by the address (`Key`), as the code does.

A poll probes six dependencies.  The four asynchronous ones answer or not by the time
the poll is answered; the two that block, ChromaDB's and Celery's, wait for a thread of
the executor (`waiting`), run, and are given up after five seconds (`GiveUp`):
withdrawn if they had no thread yet, left behind with it otherwise.

### `ReviewDesk`, `RowWrites`

Approve and reject are a read with the tier check (`OpenApproval`,
`OpenRejection`), the SELECT of the write (`Pick`), and its UPDATE (`Approve`, `Reject`); `copy` is
the result blob that approve writes back as a whole, `picked` the row the UPDATE is measured against.

`RowWrites` has the same calls and those of a run, each as `Select` and `Update`.
A session's `calls` are what it still
has to do, `Fails` rolls the open one back, `FailsForGood` is the last attempt
recording its failure.  `contested` is history: jobs two sessions were about at once.

`scan` is a client of the review queue.  `Created` gives jobs a time stamp, and all jobs of a batch
the same one (`job_service.py:265`, `:307`); the query orders by it alone, so a SELECT returns any of
`Orders`, and the next one another.  `PageOf` is the arithmetic from limit and offset.  Once a run moves
a job into or out of the review tier under a client, what it sees is of no interest (`Disturbed`).
`BatchAnswer` is what `get_batch` derives.

### `Scoring`, `Pipeline`

Confidences are exact integers: a reported confidence is a multiple of 1/(100
`Grain`), and the units of field and score are fine enough for the factor 0.7 of the
title rule and the weights .4, .3, .3.  The code uses doubles.  Their errors are
far below a unit and can matter only where a score equals a threshold, so there, and
only there, `TiersOf` allows both tiers (0.95·0.4 + 0.7·0.3 + 0.7·0.3 falls below
0.8).  `NaN` is a value of its own, with Python's comparisons: `max` and `min`
keep their first argument unless the second compares better.

A source is a coroutine.  `AskVision` and `AskText` are everything up to its await of
Ollama, in one step of the event loop, `Hear` is the rest; `ReadFilename` has no
await.  `Merge` is `gather(return_exceptions=True)` with the merge after it.  The
stages that follow are one action each, with success, skip and failure as
disjuncts.  `Fallible` names the stages that may raise; what needs no licence (a
rendering, an extraction, a call to the model) may always fail.  An answer is a value
with a confidence; `Garbled` is a title that is not a string, which raises in the
fusion.  `footer` is what of the extraction the companion's METADATA block contains:
the validator's third rule is a statement about it.

### `Documents`

A document is a number of pages with the layer of each page near its ends, since pages
in the middle are never selected; `TextChars` is the length `extract_text` returns, its
separators counted as the code writes them.  `Load`, `ExtractText`, then `Skip` or
`Render`, `FetchTexts`, and for each rendered page `SkipPage` or `AskPage` with
`Describe` or `NoDescription`; `Assemble` and `BuildSidecar` end the run.

An answer is a sequence of pieces: an object, one torn off, prose with braces, a fence, a
list.  `Parse` is the ladder of `JsonResponseParser`: strict, the slice between the outer
braces, the repair library on both, the pattern.  The library is outside, so a repair
returns any part of the pairs it was shown, or nothing.

### `Clients`, `Delivery`

One loop of attempts for all clients, with four `Hear` operators for what each makes of
an answer.  `Handle` is the other side's work and separate from its answer, so
an answer may be lost (`timeout` after `Handle`) and a request may arrive after its
client gave it up (`HandleLate`).  Waits are counted in units of the first one.
Requests to Ollama need one of `PoolSize` connections (`Connect`, `PoolTimeout`).
`Build` is `build_orchestrator`, which ChromaDB's constructor can fail.

### `Harness`

`bench`: slices of `Concurrency` runs that end in any order, warm-up rounds that are
dropped, percentiles by nearest rank.  `regression_check`: `SetModel`,
`BuildOrchestrator` or `BuildFails`, the documents, `Restore` (the `finally` block), and
`Judge` against the baseline.  `lost` in a report is history for the property.
Similarities are whole percentages, given by a table, and a score is the number of percent
points earned (`Points`).  `Ascending` is `sorted()`, said by ranks: its k-th value has fewer
than k values below it and at least k up to it.


## 3. Runs

| Run | Instance | Question | States |
|---|---|---|---|
| `ExtractionTask_overlap` | 1 job, 2 workers, 1 retry, 2 faults, fair | Do retries, crashes, redeliveries and attempts whose statements overlap keep custody, outcomes and the client's view (`FollowsLifecycle`) intact, and does the job settle for good, or end up abandoned? | 638k |
| `ExtractionTask_effects` | 1 job, 2 workers, 1 retry, 1 fault, all three stores | Does the persisted trace report only effects that happened? | 1.7M |
| `Pipeline_runs` | 3 words for number and title, confidences .40, 1 and NaN, everything may fail | Is what is published supported, work shared, trace and metric true? | 772k |
| `Documents_pages` | 0 to 4, 10, 11, 283 and 284 pages of any layers; answers of up to three pieces for a lone page | Is every page looked at once or spared for a reason, each answer read whole, the sidecar built? | 197k |
| `Clients_calls` | 2 calls of any clients, 2 attempts to a model and 3 of a webhook, 1 connection, fair | Does each client implement `Delivery`, keep to its policy, count, and end? | 269k |
| `Gateway_requests` | sets of up to 4 calls out of 4 submissions, 4 reads, 2 OPTIONS calls, 2 polls; 1 thread; 1 call per caller, path and minute, fair | Are messages backed, batches atomic, 202s complete, 4xx without a trace, limits per caller and path, polls true, calls answered? | 52k |
| `Rows_statements` | 3 jobs, 2 of them of one batch; 2 runs of the third, 2 reviewers, pages of 2 | Do rows survive stale reads, are they whole, do pages hold what the queue has? | 1.8M |
| `Ingestion_service` | 1 request, 1 worker, 1 reviewer, 1 retry, 1 fault, fair | Do the parts keep their promises to each other, and does an accepted job settle? | 245k |
| `Harness_scripts` | 2 documents, slices of 2, 2 candidates, 2 fields | Is what the scripts report true? | 510k |

Violations: the code does not do what a comment or a docstring of it says.

| Run | What it shows |
|---|---|
| `ExtractionTask_search` | An attempt in the auto tier publishes to ChromaDB and then fails to write its row; the retry ends in REVIEW; the document stays searchable before anybody reviewed it. |
| `Gateway_preflight` | A browser's preflight carries no credentials and is answered 401: `AuthMiddleware`, added after CORS, runs before it. |
| `Rows_batch` | A batch with a failed job and a queued one is PROCESSING.  The docstring of `get_batch` (`job_service.py:366-372`) has FAILED there, since none is PROCESSING.  (Its "mixed terminal states" are COMPLETED; with a job held for review beside completed ones the code says PROCESSING.)  The docstring of `_aggregate_batch_status` and its tests agree with the code. |

### What else was seen

Observations that need no run, each at its line.

*Outcomes.*  The webhook gets the `Job` fetched before the run, so the "completed job"
it announces is QUEUED or PROCESSING and has no result (`orchestrator.py:982`), and every
attempt sends one.  When the publish of a message fails after the commit, rows say
QUEUED and are in no queue (`job_service.py:337`).  A batch answered wholly from the cache has no
rows and reports QUEUED for ever.  Between the two commits of a review-tier outcome
a submission of the same content is answered, as CACHED, with the unreviewed result.

*Scores.*  The model may report a confidence that is not a number: `_coerce_confidence` and
`_clamp_unit` let NaN through, and it reaches the score; the tier is still review.
`_coerce_optional_int` raises on an infinity.  Three sources that name three drawing
numbers earn .30, the docstring of `drawing_number.py:17` says .50.  The companion penalty
cannot occur (`CompanionsPassValidation`).  A run whose document did not load, or whose
sidecar was not built, may still be published in the auto tier, in the second case with an
empty sidecar; its row says COMPLETED while `extraction_total` counts it as failed.

*Documents.*  The length that tells a text document counts the page separators, so a scan of
284 empty pages passes for text.  Pages that were all skipped are logged as all failed.  Several
objects in one answer are merged by the last rung of the parser, later pairs winning.  The
sidecar never uses discipline, revision, zone or project.

*Review.*  `reject_review` stores FAILED while `get_pending_reviews` excludes only REJECTED, which
nothing stores, so rejected jobs, and approved ones, stay in the list; its docstring
(`repository.py:359-361`) says that "a rejected job is no longer pending".  What the models call
the queue is what the query returns.  Nothing writes an
approved job to ChromaDB although `orchestrator.py:841` says it is flushed.  An approval
writes back the blob it read, over the result of a rerun that ended in between, and a rerun
overwrites a decision.  If the row is already COMPLETED when it is selected, the UPDATE leaves the
status out, and a concurrent rejection survives.  Jobs held for review are in no
counter of a batch.  The status of a batch row is never updated.

*Statements.*  Two overlapping runs of a job may leave the tier column of one beside the result and
the trace of the other, REVIEW beside another tier, or a review-tier result COMPLETED: a
column that a call finds at its own value is not in its UPDATE.  Jobs of a batch share a time stamp
and nothing else orders them, so where a page ends between two of them, one may be shown twice and
another never.  An offset that is no multiple of the limit is rounded down.

*API.*  A 401 or 429 carries no CORS headers.  The request log runs before the
authentication, so its `user_id` is always None.  `is_rate_limit_exempt` has no caller.
A comment (`app.py:161-163`) puts the limits behind authentication, but `SlowAPIMiddleware` runs
before it; what saves the order is that every limited route has a decorator.
`zubot_queue_depth` reads 0 when the inspection of Celery fails.  Without an Elasticsearch host
the service is degraded for ever.

*Clients and scripts.*  A success is counted for an answer whose body then cannot be used.
The ChromaDB client has no timeout.  A failed batch lookup skips the webhook and files the
document under the default collection.  The database engine is cached per process while each
task runs an event loop of its own.  `regression_check` scores empty against empty as a match.

### Bounds, and why they are enough

* *Jobs.*  Jobs of the task share nothing but the workers: every action of a
  worker reads and writes the row of its own job and the messages of that job.  One
  job shows all overlaps of its attempts.  Where jobs do meet (same content,
  deduplication, a list, a batch) the run has two or more.
* *Workers.*  Two overlapping attempts need two workers.  A third attempt at the
  same time needs another redelivery, which `MaxFaults = 2` allows on two workers
  one after the other.  In the service one worker is enough for what the parts owe each other;
  two are in `_overlap`.  The theorems below hold for any number.
* *MaxRetries* is 3 in the code.  With 1 there are a first and a last attempt; the code does
  not tell those in between from the first.
* *MaxFaults* bounds crashes and redeliveries only.  Exceptions are not bounded,
  since the retry count bounds them.
* *Tiers.*  `auto` and `spot` take the same branch everywhere in these modules, so
  the instances use `auto` and `review`.
* *Words and confidences.*  Three sources need three words to disagree.  .40 and 1 put
  scores on both sides of and exactly on both thresholds: agreement on the number
  with a title of .40 alone is .50, a single-source number with two certain fields is
  .80.  In the vocabulary there is one document type and outside it one word, since
  the rules ask only for membership.
* *Pages.*  0 to 4 pages are the cases of page selection, 10 and 11 the two sides of the
  text-only rule on pages, 283 and 284 those of its rule on characters for empty pages.
  Answers of three pieces have something before, in and after an object, or two objects.
* *Calls.*  Two calls meet in a pool of one.  Waits double, as `OLLAMA_RETRY_BACKOFF_MULTIPLIER`
  has it by default.  Two attempts of a model and three of a webhook
  have a last attempt, and a wait that is twice another.  `Traffic` lists the calls made
  together: submissions that share contents and an address; a read behind a submission
  of its user and one without credentials; two reads of one job by one user, one of a malformed id, and one of that
  job under an empty user id from the same address; OPTIONS calls; two polls for one thread.  The first of the two minutes ends at any time.
* *Statements.*  Two runs and two reviewers, at most one call of each at a time, show every
  overlap of two updates and of a stale read with two.  The batch of two jobs is older than the
  third job, so that with pages of two a page ends between them once the third is in the queue.  Runs are interchangeable, and so
  are reviewers, which is the symmetry used.
* *Scripts.*  Two documents in slices of two give every order of completion; three warm-up runs
  go round the corpus.  The second candidate runs after a first that failed.

Deadlock is not checked: in each of these systems there may be nothing left to do.  Jobs are
settled, requests answered, the pipeline and the scripts return.

### Fairness

`FairSpec` of `ExtractionTask` is weak fairness of each worker's `Pull` and
`RunStep`: an idle Celery process polls its queue, and a live one executes the next
statement of its task.  `RunStep` contains `Raise` and the failing branches, so
fairness never forces a call to succeed.  `Crash` and `Redeliver` are not fair.  A
step of `Submission` is fair in the same sense.  A reviewer is not: nobody has to
decide anything.  That the pipeline stages end rests on the timeouts of the
clients, which is what `EveryCallEnds` is about: there each call is fair, for its timeout
ends an attempt that nobody answers, except one to ChromaDB, whose library has none.
In `Gateway` each call is fair, which includes giving up a probe after its five seconds; the
threads of the executor are not, so a probe may hang for ever, and neither is the end of a minute.

`EveryJobSettles` says settled *or abandoned*; without that disjunct it is false,
and the definition of `abandoned` is the exact list of ways it fails.
It is also bounded by `MaxFaults`: nothing in the code limits how often
a document that kills its worker is handed back.


## 4. Proofs

| Module | Theorem | Property |
|---|---|---|
| `ExtractionTaskProofs` | `TypeCorrect` | `TypeOK` |
| | `OneRunAtATime` | `SingleCustody` |
| | `NobodyStranded` | `NoStrandedJob` |
| | `FailureIsFinal` | `FailedIsFinal` (proved only) |
| | `OutcomesAreRecorded` | `OutcomeRecorded` |
| | `ReviewIsHeldBack` | `ReviewIsNotLeftCompleted` |
| | `TracesAreHonest` | `TraceIsHonest` |
| | `TaskFollowsLifecycle` | `FollowsLifecycle`: every step is a step of `JobLifecycle` or leaves its state alone |
| `GatewayProofs` | `SubmissionTypeCorrect` | `TypeOK` of `Submission` |
| | `MessagesStayBacked`, `BatchesStayAtomic`, `AcceptedStaysComplete` | the three parts of `SubmissionsHold` |
| | `GatewayImplementsSubmission` | `GatewaySpec => Spec` of `Submission` |
| | `SubmissionsHoldBehindGateway` | `SubmissionsHold` |
| | `ClientErrorsLeaveNothing` | `RefusedLeaveNothing` |
| | `LimitsStayPerUser` | `LimitsArePerUser` |
| | `VerdictsAreEarned` | `VerdictIsEarned` |
| `IngestionProofs` | `RunsAreBacked` | `WorkIsBacked`, with `TypeOK` |
| | `CacheAnswersAreReal` | `CachedAnswerIsReal` (proved only) |
| | `UnreviewedIsNotPublished` | `UnreviewedIsNotLeftCompleted` |
| | `DeskTypeCorrect` | `TypeOK` of `ReviewDesk` |
| | `DecisionsStayWhole` | `DecisionsAreWhole` of `ReviewDesk` |
| `RowWritesProofs` | `StaleReadsAreHarmless` | `ResultsOutliveStaleReads` |
| | `RowsEndWhole` | `SettledRowsAreWhole` |
| | `StatementsKeepDecisionsWhole` | `DecisionsAreWhole` |
| | `BatchAnswersAddUp` | `BatchAnswerAddsUp` (proved only) |
| | `ScansSeeTheQueue` | `ScanSeesTheQueue` |
| `PipelineProofs` | `PipelineTypeCorrect` | `TypeOK` |
| | `MemoSpares` | `WorkIsShared` |
| | `PublicationsAreSupported` | `PublishedIsSupported` |
| | `AutoStaysCorroborated` | `AutoIsCorroborated` |
| | `CompanionsPassValidation` | `ValidationNeverFails` (proved only) |
| | `TraceStaysComplete` | `TraceAccountsForRun` |
| | `MetricStaysTrue` | `MetricTellsOutcome` |
| `DocumentsProofs` | `PagesHaveOneTurn` | `EachPageOnce` |
| | `FailuresStayOnTheirPage` | `FailureStaysOnItsPage` |
| | `ScansStayDescribed` | `ScansAreDescribed` |
| | `WholeObjectsAreRead` | `AnswersAreReadWhole` |
| | `SidecarsAreBuilt` | `SidecarAlwaysBuilds` |
| `ClientsProofs` | `ClientsKeepContract` | `DeliversAtLeastOnce`: every step of a call is a step of `Delivery` or leaves its state alone |
| | `PolicyIsFollowed` | `RetriesFollowPolicy` |
| | `EveryCallIsCounted` | `MetricsAccount` |
| `HarnessProofs` | `RunsStaySeparate` | `RunsAreSeparate` |
| | `WinnersAreEarned` | `WinnerIsEarned` |
| | `ReportsAreTrue` | `ReportIsTrue` |

Each is about its module's specification for every value of the constants: any jobs, workers,
requests, callers and reviewers, any number of retries, faults and threads, any limits, any
words, any set of stages that may fail, any precision `Grain` of the confidences, documents of
any number of pages, answers of any length, any queue, time stamps and page size, any corpus and ladder.
The assumptions are the named `ASSUME`s about the constants in the modules, which TLC
evaluates in every run: numbers are naturals, tiers and stages are the code's, every job has a
hash, `NaN` is no integer, the uploads of two requests are distinct, a call is of one kind,
a session is a run's or a reviewer's, the jobs of a queue, the calls made together, the files of a corpus and the fields compared
are finitely many, a ladder is a sequence of models, an answer a sequence of pieces.

Where an argument would count (the k-th page, the k-th record, the k-th smallest latency) the
proofs take the least number that fails, or the least that does, instead of an
induction, since induction theorems are about an operator and the prover cannot instantiate one.

### The task

The argument:

1. *Custody.*  `SingleCustody` is not inductive: it says nothing about a task that
   has ended but holds its message, nor about the copies that may exist.  The
   inductive form, `Custody`, counts what can still run job `j`: the workers that
   hold it, in the task or between its end and the acknowledgement, and the copies
   that wait; outside `forked` at most one of them.  `rescheduled` does not count,
   because there the retry is the custodian.  `TakenBackIsForked` says a worker that
   lost its claim to a message only runs jobs in `forked`.
2. *Nobody stranded.*  Each action that removes a message or ends a run puts another in its
   place, writes an outcome, or abandons the job; but a run that selected a row another run had
   settled writes no status, and is not the one that will finish the job.  `WaitingIsServed`
   leaves such runs out (`Finishes`), which makes it inductive: when a job waits again,
   somebody wrote PROCESSING, and that run, a message or `abandoned` is there.
3. *Rows follow runs.*  `RowFollowsRun` says two things.  Of any run, that what it has
   selected no other run clears (`NotCleared`), so a column it leaves out has a value all the same:
   this carries the parts of `OutcomeRecorded` that hold under overlapping runs.  Of the run
   of a job outside `forked`, that the row is where the run left it, and what it has selected still is the
   row (`OnTrack`): with custody this gives the other parts, `FailedIsFinal` and
   `ReviewIsNotLeftCompleted`.
4. *Traces follow runs.*  The stores only grow, so `TraceFollowsRun`, that what a
   run's trace reports has happened, is kept by every step, and `TraceIsHonest`
   follows when the trace is copied to the row; its last part, about the review tier, from
   `OnTrack`, for jobs outside `forked`.
5. *Refinement.*  With custody, a job not disturbed is in exactly the status its
   only run left it in, so each write is the abstract step.

### Submission

`MessagesAreBacked` and `AcceptedIsComplete` need to know where each request is in
its list of uploads: what was written before the commit for the files it has passed,
that no row of it exists before the commit and all of them after, and that behind the
commit exactly the new jobs up to `turn` have been enqueued.  Uploads of two
requests being distinct, no step of one disturbs what is said of the other.

### The gateway

Every step of `Gateway` is a step of `Submission` or leaves its variables alone, so the
invariants of `Submission` hold behind the gateway without being proved again.

`RefusedLeaveNothing` joins two of them with `DoorFacts`: a submission that has not been let
through is as it was received, and one with a 4xx is either that or refused by the
validation.  `Submission`'s `Progress` says that both have touched nothing, and `JobFacts` that
there is no message either.

`LimitsArePerUser` is about a step.  The invariant under it, `CounterFacts`, says that a bucket
holds calls that were let through, each in the bucket of its own user and path, and that a
call at its limit speaks for a user.  Two calls in one bucket have the same caller and the same
path (`BucketsTellCallers`: the key tells a user by the name or, if that is empty, by the
address), so the bucket a call is turned away for holds admitted calls of its caller to its path
only, and it is not below the limit.

`VerdictIsEarned` speaks of probes, threads and answers at once.  `ProbesInv` is about the first
two: the queue of the executor holds exactly probes that wait, each once, so taking the first
or withdrawing one leaves the others where they are; a poll that has not begun has no probe, and
one that has answered none that is not over.  `DoorsInv` ties it to the HTTP side: a call has a
reply code exactly when it has been answered, and no bucket is over its limit.

### The service

No component's invariant carries over to `Ingestion` by itself, since all three write the
table.  `IngestionProofs` has one inductive invariant, `Inv`, with a lemma for each
component: `WorkerKeepsInv`, `ApiKeepsInv`, `DeskKeepsInv`.  What the workers do to each other
is cited from `ExtractionTaskProofs`, as `Task`: types, custody, what a write does to a row.

1. *Types.*  `OneTable` identifies the rows of the three.  A reviewer may not write a row of
   a shape the task does not know, and `AtAFile` says that a request in its loop is at one of its
   files, which types what it writes.
2. *Work is backed* for messages and runs because what is about to be published is: a
   summary "queued" stands for a file on disk, the rows of the new jobs are there once a request
   enqueues, and none of its rows is there before (`NotYetCreated`, without which the
   transaction could overwrite a row somebody works on).
3. *Tiers stay.*  What a cached answer names was sound when it was read.  That it stays so needs
   that nobody takes a tier or a result away again: a run has a tier when it persists
   (`RunsHaveTier`), a row with a tier has a result (`TiersHaveResults`), and so has the copy an
   approval writes back (`ApprovalsHaveTier`).
4. *One hand.*  A message is the first of its job when it is published: before that the job has
   neither a message nor a worker (`NotYetPublished`), whatever the API does to others.  So the
   task's `Custody` holds here too.
5. *Selected rows.*  Between the SELECT and the UPDATE of the only run of a job reviewers may
   commit.  They leave the tier alone, never write REVIEW, and never make a row unreviewed, so
   what the run leaves out of its UPDATE does no harm (`SelectionsHold`).
6. *Unreviewed results.*  `UnreviewedIsNotLeftCompleted` lets a run past its last write count as
   somebody who will correct the row.  `UnreviewedIsCorrected` does not, which makes it
   inductive: the run that left COMPLETED with the review tier is the one about to override.
   A reviewer may come between the two commits: a rejection makes the row FAILED, and an approval
   leaves the mark that the property asks for.

`WorkerEffects` is what keeps this readable: each of the task's actions, whatever it is, moves messages
of its own job only, writes the row of its own job or none, and then hands the job on.

### The clients

`Delivery` lets a call send at most `limit` copies and succeed only after one was handled, so
`ClientsKeepContract` needs to know how many may still be on their way.  The invariant
`Budget` counts them: the copies handled and the late requests together are no more than the
attempts that have ended, and one more while an answer is being given; a request still in the
air belongs to an attempt that is one of those allowed.  `HearEffects` is what the four
clients' ways to read an answer have in common: another attempt only if one is left, and
success only for an answer that was given to a request handled.

`RetriesFollowPolicy` is about what a call has heard and how long it slept.  `Policy` adds where it
is: a refusal is the last thing a call hears, and the units it has slept are one less than a
power of two, the power being the attempts so far (`Slept`), with one sleep owed in `backoff`.
`HearPolicy` is what the four ways to read an answer have in common here, and `PoolKept` that the
pool is never overdrawn.

`MetricsAccount` equates counters with sizes of sets: of calls for successes and errors, of attempts
for retries.  An action changes one call, so each such set gains exactly that call or attempt, or
stays as it is (`Gains`), and its size grows by one or not at all, as the counter does (`HearCounts`).  This is where `Calls` must be finite.

### Review

`DecisionsAreWhole` says that a row is either as the worker left it or as one decision
left it.  It is not inductive alone, because an approval writes back a copy it read
before other decisions landed, and leaves out of its UPDATE what its SELECT found in place.
`TiersStay` closes the first gap: no call changes the tier of a row or the tier inside its
result, and the copy an approval in progress holds has the review tier too.  `PicksAgree` closes
the second: a row decided on is not undecided again and a rejection's message stays, so a column
that was left out has been written by another decision.
The same claim about jobs beside those that runs write is below.

### The rows

`RowsTypeOK`, `RowWrites`' type invariant without the reader, with the fact that a SELECT of a
session never finds its row absent, is behind all three.

1. `StaleReadsAreHarmless` is about one UPDATE: a call that stores no result leaves the tier of
   the row it selected as it is, so neither column is among those it names.
2. `RowsEndWhole`: on a job that never had two sessions at once, `AloneWith` says that the
   session is the only one, that the row it has selected is still the row, and that the calls
   it has left fit it (`Fits`): a hold only with the review tier in the row, an approval only
   with the result that is in it.  `CallsKeepWhole` shows that each call then leaves a whole
   row and the rest of the calls fitting, so failing after any of them does no harm.
3. `StatementsKeepDecisionsWhole`: a selected row is not the row but an `Earlier` one.  What it
   may differ in only grows: a row decided on is not undecided again, and a rejection's
   message stays.  A column that a decision leaves out because the earlier row had its
   value is therefore in the row already or has been replaced by another decision's.

And of their readers:

4. `BatchAnswersAddUp`: the counters of a batch are sizes of sets of its jobs, disjoint ones,
   so their sum is no more than the total, and the first rule that applies says what is so.
5. `ScansSeeTheQueue`.  Each SELECT may order jobs of one time stamp in its own way, so what a
   client has seen is not a part of any one order.  But whatever the order, the k-th job has fewer
   than k newer ones and at least k that are not older (`Placed`, `OrdersPlace`).  `ScanInv`: an offset is a
   number of whole pages, so dividing it by the limit loses nothing, and as long as nobody
   changed the queue the client has seen as many jobs as the offset says, each in such a place.
   Places sort the jobs by their stamps (`PlacedIsSorted`), and one whose stamp is its own has
   exactly one place (`PlacedIsSeenOnce`).

### The pipeline

1. The memo: `renders` and `reads` are functions of what the context holds.
2. Stage 1: `FieldsAreGraded` says what the fusion rules bound (a number never earns
   more than .95, a disputed one .30, a word outside the vocabulary at most .30, a
   field that is absent nothing), proved once from each rule, and `TextIsBacked` that a
   text source has asked only with a text in hand.
3. The score: from these bounds, linear arithmetic over `Grain` shows that .50 needs two
   fields and .80 all three, without doubt about number or type; NaN goes to review.
   `TierComesFirst` carries it to what is published.
4. The companion names the fields as they are (`CompanionNamesFields`), hence
   `Unreferenced` is empty when the validator looks.
5. The trace: `TraceFollowsRun` ties every status to the program counter, so each stage
   reports for the first time when it runs, and `FailuresAreLogged` is kept by a first
   report.  `OutcomeInv` adds that every loss is an unrecoverable error and
   that errors are never taken back.

### The documents

1. *Pages.*  `SelectPages` with `RenderPages` returns numbers of pages of the document, each
   once, from both ends of it; the cases are those of its length.  `PagesInv` says that the
   pages to do are the last of the rendered ones, and that the others (`Turned`) were spared for
   their text or asked about.  `EachPageOnce` and the order in `FailureStaysOnItsPage` follow.
2. *The companion* collects by appending: `SaidInv` says that what it has is what the pages
   behind said, in their order, which one more page extends at the end whatever it said.
3. *Text-only documents.*  If no page has text, the length of the text is that of its page
   separators, so passing the threshold takes 284 pages (`ScansAreDescribed`).
4. *Answers.*  `LoneObject(r, i)` says that piece `i` is the one object in the answer, and that
   it is whole.  Taking fences off leaves it so (`LoneObjectStripped`), and the slice between the
   outer braces is exactly it (`LoneObjectSlice`), so the first two rungs of the parser read it
   and the repairs are not reached.
5. *The sidecar.*  Its attributes come from a fixed list, so there are at most `MaxKeys` of them, and
   the companion goes with it exactly if the count of described pages is not zero.

### The scripts

1. `RunsStaySeparate`: an override is in the environment only between `SetModel` and `Restore`,
   and the cache of the settings is emptied by both; so a run reads the model
   it is about, and `Untouched` is all the cache may hold between runs.
2. `WinnersAreEarned`: a lost field, one that the baseline has and the candidate has not, earns
   none of its hundred percent points.  So a hundred times the lost fields and the points together are
   no more than a hundred for every field of every document (`LossesAreAffordable`), and who passes
   has lost at most what the tolerance leaves.
3. `ReportsAreTrue`: the records come slice by slice, and `BenchInv` says how many there are in
   terms of round and slice; `OnePlace` is the arithmetic by which no two rounds share a place.
   `PercentileIsNearestRank`: the k-th smallest latency exists (`AscendingOrders`), and for the
   rank that `_percentile` computes, the latencies up to it are at least the percentage asked for and those
   below it fewer.

The strengthenings were first invariants of TLC runs on the instances above.

### Only model-checked

Liveness, which the prover does not do: `EveryJobSettles`, `AcceptedJobsSettle`, `EveryCallEnds`,
`EveryCallIsAnswered`.  The three violations of section 3 are counterexamples of TLC.  No module
declares a recursive operator, since nothing about one could be proved.


## 5. What the models leave out

* `RowWrites` is not composed with the task and its broker: its runs begin at any time, which
  covers every delivery, but their retry counts are not followed there.
* Which run's tier, result and trace stand together in the row of a job that two runs wrote at
  once: nothing is claimed of it, for nothing holds.
* Two submissions are not in one instance with a worker and a reviewer.  That a cached answer is an extraction
  of the same content and that a batch's counters agree with its status are theorems only
  (`CacheAnswersAreReal`, `BatchAnswersAddUp`); `SubmissionsHold` and `Rows_batch` are the runs nearest to them.
* `ExtractionTask` does not contain `Pipeline`: its `RunStages` ends in any tier.  `Pipeline` does
  not contain `Documents` or `Clients`: a page or a call succeeds or fails there in one step.
* What the regular expressions and the model make of a page: a source finds any value or none.
  The quality score of the filename parser is read by nobody.
* What the JSON repair library does with a text beyond the pairs it contains.
* `PublishedIsSupported` and the rest are about one run; what a row keeps of several is
  `ExtractionTask`'s.
* What is written to ChromaDB and Elasticsearch, beyond the document it is about: the name of
  the collection of a deployment, the fields of the index.
* Parsing of form fields and parameters, apart from that it may refuse a call; the signature of
  a webhook; the wording of companion, prompts, logs, reports; the format of metrics, spans and
  durations.
* `create_review_action` and `update_batch_status`, which have no caller in the
  service.
* The text of an error message: who wrote it is kept, a second rejection's words are not.
* Settings and logging, which have no behaviour of their own: what matters of the settings is a
  constant, or a variable any of whose values a run starts with (`skipping`, `wired`).


## 6. Plan

Done, in this order: `JobRecords`, `ExtractionTask`, `JobLifecycle`, `Submission`,
`ReviewDesk`, `Ingestion`, `Scoring`, `Pipeline` with their proofs; then `RowWrites`, `Clients` with
`Delivery`, `Gateway` with `Health`, `Documents`, `Harness`, and the proofs of `Gateway`, `Clients` and
`RowWrites`; then those of `Ingestion`, of the policy and the counters of `Clients`, of the readers in
`RowWrites`, of the polls of `Gateway`, of `Documents` and of `Harness`; last, SELECT and UPDATE as steps
of their own in every module that writes, time stamps that tie, and counters by path.

Next, theorems:

1. What the task promises alone (`NoStrandedJob`, `OutcomeRecorded`) and what a
   submission does (`SubmissionsHold`), inside `Ingestion`.
2. That `RowWrites`, seen by its reviewers alone, implements `ReviewDesk`: its steps as well as
   the claim it states of it.
