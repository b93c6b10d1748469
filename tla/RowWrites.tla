----------------------------- MODULE RowWrites -----------------------------
(***************************************************************************)
(* The jobs table statement by statement, for any mixture of sessions.  A   *)
(* write of the repository is a SELECT and an UPDATE, which names only the  *)
(* columns that differ from what was selected; between the two, under READ  *)
(* COMMITTED, other sessions commit.                                        *)
(*                                                                          *)
(* Two kinds of session write: runs of the extraction task, up to three     *)
(* calls on one job, and reviewers, one call on a job they have read.  Runs *)
(* begin here whenever they like, without the broker and the pipeline that  *)
(* ExtractionTask has.  A session holds the rows it has loaded weakly and   *)
(* no caller keeps one, so each call starts from its own SELECT.            *)
(*                                                                          *)
(* Two kinds of client read: one goes through GET /review/pending page by   *)
(* page, a statement for the items and one for their number; the other asks *)
(* for a batch and gets a status and counters derived from its jobs.        *)
(***************************************************************************)
EXTENDS JobRecords, Integers, FiniteSets, SequencesExt

CONSTANTS
    Jobs,
    Created,        \* the time stamp of each; a batch has one for all its jobs
    RunJobs,        \* the jobs the task runs for
    Runs, Reviewers,    \* bound: the sessions opened for each, one at a time or together
    Tiers,          \* bound: the tiers a run may end in
    Limits          \* bound: the page sizes a client may ask for

Sessions == Runs \union Reviewers

ASSUME CreatedAssumption ==
    IsFiniteSet(Jobs) /\ None \notin Jobs /\ Created \in [Jobs -> Nat]
ASSUME RowWritesAssumption ==
    /\ RunJobs \subseteq Jobs /\ Tiers \subseteq ConfidenceTier
    /\ Runs \cap Reviewers = {}
    /\ Limits \subseteq Nat \ {0}

VARIABLES
    rows,
    subject,    \* the job a session is about
    ended,      \* sessions that are closed
    calls,      \* the calls it still has to make
    loaded,     \* the row its call has selected
    scan,       \* a client going through the review queue
    contested   \* jobs two sessions have been about at once

vars == <<rows, subject, ended, calls, loaded, scan, contested>>

-----------------------------------------------------------------------------
(* Calls of the repository.                                                 *)

StatusCall(status, result, error) ==
    [sets |-> "status", status |-> status, result |-> result, error |-> error,
     tier |-> None]
ResultCall(tier) ==
    [sets |-> "result", status |-> "completed", result |-> NoResult,
     error |-> None, tier |-> tier]

\* What a call makes of a row, as one step.
Applied(call, row) ==
    IF call.sets = "result"
    THEN ResultWritten(row, call.tier, {})
    ELSE StatusWritten(row, call.status, call.result, call.error)

\* Slip: the UPDATE writes the row back as it was selected and changed.
UpdatedWhole(call, old, row) == Applied(call, old)

\* The columns a call sets to a value of its own.
Given(call) ==
    IF call.sets = "result" THEN {"result", "trace"}
    ELSE IF call.result # NoResult THEN {"result"}
    ELSE {}

Updated(call, old, row) == Flushed(old, Applied(call, old), Given(call), row)

ProcessingCall == StatusCall("processing", NoResult, None)
HoldCall == StatusCall("review", NoResult, None)

\* Slip: the outcome is stored with the call that stores a status.
RunCallsStatusOnly(tier) ==
    <<ProcessingCall,
      StatusCall("completed", NoResult, None),
      StatusCall(IF tier = "review" THEN "review" ELSE "completed", NoResult, None)>>

\* The calls of _run_extract_document_task.
RunCalls(tier) ==
    IF tier = "review"
    THEN <<ProcessingCall, ResultCall(tier), HoldCall>>
    ELSE <<ProcessingCall, ResultCall(tier)>>

FailureCall == StatusCall("failed", NoResult, "exception")

\* Slip: the decision is stored without the extraction it is about.
ApprovalAfresh(row) ==
    StatusCall("completed", [NoResult EXCEPT !.review = "approved"], None)

ApprovalCall(row) ==
    StatusCall("completed", [row.result EXCEPT !.review = "approved"], None)

RejectionCall == StatusCall("failed", NoResult, "rejection")

-----------------------------------------------------------------------------
(* Readers.                                                                 *)

\* The WHERE clause of get_pending_reviews.  No statement stores "rejected": a
\* job that was decided on, approved or rejected, keeps its tier and stays.
IsPending(j) == rows[j].tier = "review" /\ rows[j].status # "rejected"

Pending == {j \in Jobs : IsPending(j)}

\* ORDER BY created_at DESC: jobs of one time stamp come in any order, and in
\* another one the next time.
Orders ==
    {order \in Bijection(1..Cardinality(Pending), Pending) :
        \A k, l \in DOMAIN order : k < l => Created[order[k]] >= Created[order[l]]}

\* Slip: limit and offset are turned into the page before.
PageNumberFromZero(limit, offset) == offset \div limit

PageNumber(limit, offset) == offset \div limit + 1

\* get_pending_reviews, which counts the offset anew from the page number.
PageOf(order, limit, offset) ==
    LET page == IF PageNumber(limit, offset) < 1 THEN 1 ELSE PageNumber(limit, offset)
        skip == (page - 1) * limit
    IN SubSeq(order, skip + 1, Min({skip + limit, Len(order)}))

InStatus(batch, status) == {j \in batch : rows[j].status = status}

Progress(batch) ==
    [completed   |-> Cardinality(InStatus(batch, "completed")),
     queued      |-> Cardinality(InStatus(batch, "queued")),
     failed      |-> Cardinality(InStatus(batch, "failed")),
     in_progress |-> Cardinality(InStatus(batch, "processing")),
     total       |-> Cardinality(batch)]

\* _aggregate_batch_status; its last case is a batch with a job held for review.
BatchStatus(batch) ==
    IF InStatus(batch, "processing") # {} THEN "processing"
    ELSE IF InStatus(batch, "queued") = batch THEN "queued"
    ELSE IF InStatus(batch, "queued") # {} THEN "processing"
    ELSE IF InStatus(batch, "failed") # {} THEN "failed"
    ELSE IF InStatus(batch, "completed") = batch THEN "completed"
    ELSE "processing"

\* get_batch, which derives both and ignores the status the batch row has.
BatchAnswer(batch) == [status |-> BatchStatus(batch), progress |-> Progress(batch)]

-----------------------------------------------------------------------------
(* Sessions.                                                                *)

\* No row selected: what a SELECT returns is never absent here.
Unloaded == NoRow

HeldRow == [NoRow EXCEPT !.status = "review", !.tier = "review",
                         !.result = [tier |-> "review", review |-> None]]

NoScan == [at |-> "idle", limit |-> 1, offset |-> 0, seen |-> <<>>, total |-> 0,
           quiet |-> TRUE]

\* A client under whom a job came or went; what it sees is of no interest.
Disturbed == [NoScan EXCEPT !.at = "done", !.quiet = FALSE]

Init ==
    /\ rows = [j \in Jobs |-> IF j \in RunJobs THEN QueuedRow ELSE HeldRow]
    /\ subject = [s \in Sessions |-> None]
    /\ ended = {}
    /\ calls = [s \in Sessions |-> <<>>]
    /\ loaded = [s \in Sessions |-> Unloaded]
    /\ scan = NoScan
    /\ contested = {}

\* A session reads its job and knows what it will do.
Open(s, j, todo) ==
    /\ subject[s] = None
    /\ subject' = [subject EXCEPT ![s] = j]
    /\ calls' = [calls EXCEPT ![s] = todo]
    /\ contested' = IF \E t \in Sessions \ ended : subject[t] = j
                    THEN contested \union {j} ELSE contested
    /\ UNCHANGED <<rows, ended, loaded, scan>>

\* The task begins; a retry or a second delivery may begin it at any time.
BeginRun(a) ==
    /\ a \in Runs
    /\ \E j \in RunJobs, tier \in Tiers : Open(a, j, RunCalls(tier))

\* The handlers of approve and reject up to their write.
BeginApproval(r) ==
    /\ r \in Reviewers
    /\ \E j \in Jobs : rows[j].tier = "review" /\ Open(r, j, <<ApprovalCall(rows[j])>>)

BeginRejection(r) ==
    /\ r \in Reviewers
    /\ \E j \in Jobs : rows[j].tier = "review" /\ Open(r, j, <<RejectionCall>>)

Select(s) ==
    /\ calls[s] # <<>>
    /\ loaded[s] = Unloaded
    /\ loaded' = [loaded EXCEPT ![s] = rows[subject[s]]]
    /\ UNCHANGED <<rows, subject, ended, calls, scan, contested>>

\* The session is closed once it has nothing left to do.
GoOn(s, todo) ==
    /\ calls' = [calls EXCEPT ![s] = todo]
    /\ ended' = IF todo = <<>> THEN ended \union {s} ELSE ended
    /\ loaded' = [loaded EXCEPT ![s] = Unloaded]

\* UPDATE and COMMIT.
Update(s) ==
    /\ loaded[s] # Unloaded
    /\ rows' = [rows EXCEPT ![subject[s]] = Updated(Head(calls[s]), loaded[s], @)]
    /\ GoOn(s, Tail(calls[s]))
    /\ scan' = IF scan.at # "idle"
                  /\ (rows'[subject[s]].tier = "review") # IsPending(subject[s])
               THEN Disturbed ELSE scan
    /\ UNCHANGED <<subject, contested>>

\* A statement or the pipeline raises, and what was not committed is rolled
\* back.  The last attempt of a task records it, in a session of its own.
Fails(s) ==
    /\ calls[s] # <<>>
    /\ GoOn(s, <<>>)
    /\ UNCHANGED <<rows, subject, scan, contested>>

FailsForGood(a) ==
    /\ a \in Runs
    /\ calls[a] # <<>>
    /\ Head(calls[a]) # FailureCall
    /\ GoOn(a, <<FailureCall>>)
    /\ UNCHANGED <<rows, subject, scan, contested>>

-----------------------------------------------------------------------------
(* The client of GET /review/pending.                                       *)

StartScan ==
    /\ scan.at = "idle"
    /\ \E limit \in Limits : scan' = [NoScan EXCEPT !.at = "items", !.limit = limit]
    /\ UNCHANGED <<rows, subject, ended, calls, loaded, contested>>

ReadItems ==
    /\ scan.at = "items"
    /\ \E order \in Orders :
          scan' = [scan EXCEPT !.at = "count",
                               !.seen = @ \o PageOf(order, scan.limit, scan.offset)]
    /\ UNCHANGED <<rows, subject, ended, calls, loaded, contested>>

\* The second statement; the client asks on until it has skipped the total.
ReadCount ==
    /\ scan.at = "count"
    /\ LET next == scan.offset + scan.limit
           total == Cardinality(Pending)
       IN scan' = IF next < total
                  THEN [scan EXCEPT !.at = "items", !.offset = next, !.total = total]
                  ELSE [scan EXCEPT !.at = "done", !.total = total]
    /\ UNCHANGED <<rows, subject, ended, calls, loaded, contested>>

-----------------------------------------------------------------------------
SessionStep(s) ==
    \/ BeginRun(s) \/ BeginApproval(s) \/ BeginRejection(s)
    \/ Select(s) \/ Update(s) \/ Fails(s) \/ FailsForGood(s)

Next ==
    \/ \E s \in Sessions : SessionStep(s)
    \/ StartScan \/ ReadItems \/ ReadCount

Spec == Init /\ [][Next]_vars

-----------------------------------------------------------------------------
(* Properties.                                                              *)

Call == [sets: {"status", "result"}, status: StoredStatus, result: Result,
         error: ErrorMessage, tier: ConfidenceTier \union {None}]

TypeOK ==
    /\ rows \in [Jobs -> Row]
    /\ subject \in [Sessions -> Jobs \union {None}]
    /\ \A s \in Sessions : calls[s] \in Seq(Call)
    /\ loaded \in [Sessions -> Row]
    /\ ended \subseteq Sessions
    /\ \A s \in Sessions : (calls[s] = <<>>) = (subject[s] = None \/ s \in ended)
    /\ scan.at \in {"idle", "items", "count", "done"}
    /\ contested \subseteq Jobs

(***************************************************************************)
(* What a run has stored is replaced only by another result of a run, or by *)
(* an approval, which stores a result on purpose: the UPDATE of a           *)
(* rejection, a status or a failure, prepared from a row selected earlier,  *)
(* does not bring back the tier or the result of that row; and no UPDATE    *)
(* touches a row other than its own.                                        *)
(***************************************************************************)
StoresResult(call) == call.sets = "result" \/ call.result # NoResult

\* The session whose UPDATE a step is has one row loaded before and none after.
ItsUpdate(s) == loaded[s] # Unloaded /\ loaded'[s] = Unloaded

ResultsOutliveStaleReads ==
    [][\A j \in Jobs :
          \/ rows'[j].tier = rows[j].tier /\ rows'[j].result = rows[j].result
          \/ \E s \in Sessions : /\ ItsUpdate(s) /\ subject[s] = j
                                 /\ StoresResult(Head(calls[s]))]_rows

(***************************************************************************)
(* A row nobody is about, and that never had two sessions at once, is whole *)
(* when it is settled, whatever call failed: tier and result are of the     *)
(* same run, a failure has its message, and only a review-tier job is held. *)
(* With two sessions at once this is not so: a column that a call finds at  *)
(* its value already is left out of its UPDATE.                             *)
(***************************************************************************)
SettledRowsAreWhole ==
    /\ TypeOK
    /\ \A j \in Jobs \ contested :
          rows[j].status \in Settled /\ (\A s \in Sessions \ ended : subject[s] # j) =>
              /\ rows[j].result.tier = rows[j].tier
              /\ rows[j].status \in {"completed", "review"} => rows[j].tier # None
              /\ rows[j].status = "failed" => rows[j].error # None
              /\ rows[j].status = "review" => rows[j].tier = "review"

(***************************************************************************)
(* Reviewers alone cannot spoil a row even statement by statement:          *)
(* ReviewDesk's claim about jobs no run touches.                            *)
(***************************************************************************)
DeskJobs == Jobs \ RunJobs
Desk == INSTANCE ReviewDesk WITH
    Jobs <- DeskJobs,
    rows <- [j \in DeskJobs |-> rows[j]],
    desk <- [r \in Reviewers |-> IF calls[r] = <<>> THEN "free"
                                 ELSE IF Head(calls[r]) = RejectionCall THEN "reject"
                                 ELSE "approve"],
    copy <- [r \in Reviewers |-> IF calls[r] = <<>> THEN NoResult
                                 ELSE Head(calls[r]).result],
    picked <- [r \in Reviewers |-> loaded[r]]
DecisionsAreWhole == Desk!DecisionsAreWhole

(***************************************************************************)
(* A client pages through the queue, which is what the query returns, with  *)
(* any page size.  Unless a run moves a job into or out of the review tier  *)
(* meanwhile (decisions move none), it gets as many items as there are,     *)
(* newest first, and the right total; and a job that shares its time stamp  *)
(* with no other is seen once.  Jobs of one batch share theirs: of them,    *)
(* where a page ends between two, one may be seen twice and another never.  *)
(***************************************************************************)
HasOwnStamp(j) == \A h \in Pending : Created[h] = Created[j] => h = j

ScanSeesTheQueue ==
    scan.at = "done" /\ scan.quiet =>
        /\ scan.total = Cardinality(Pending) /\ Len(scan.seen) = scan.total
        /\ \A k \in 1..scan.total : scan.seen[k] \in Pending
        /\ \A k, l \in 1..scan.total :
              k < l => Created[scan.seen[k]] >= Created[scan.seen[l]]
        /\ \A j \in Pending : HasOwnStamp(j) =>
              \E k \in 1..scan.total :
                  \A l \in 1..scan.total : scan.seen[l] = j <=> l = k

(***************************************************************************)
(* Status and counters of a batch agree, whichever jobs it has and whatever *)
(* happens to them: COMPLETED and QUEUED are said of all of its jobs,       *)
(* FAILED when nothing is left to run, and PROCESSING only while a job is   *)
(* queued, in progress or held for review, which is in no counter but the   *)
(* total.                                                                   *)
(***************************************************************************)
BatchAnswerAddsUp ==
    \A batch \in SUBSET Jobs :
        LET p == BatchAnswer(batch).progress
            status == BatchAnswer(batch).status
        IN  /\ status = "completed" => p.completed = p.total
            /\ status = "queued" => p.queued = p.total
            /\ status = "failed" => p.failed > 0 /\ p.queued + p.in_progress = 0
            /\ status = "processing" =>
                  p.queued + p.in_progress > 0 \/ InStatus(batch, "review") # {}
            /\ p.completed + p.queued + p.failed + p.in_progress
                  + Cardinality(InStatus(batch, "review")) = p.total

(***************************************************************************)
(* What the docstring of get_batch says: "any job FAILED, none PROCESSING   *)
(* -> FAILED", with QUEUED left for a batch of which all jobs are queued.   *)
(***************************************************************************)
BatchStatusAsDocumented ==
    \A batch \in SUBSET Jobs :
        InStatus(batch, "failed") # {} /\ InStatus(batch, "processing") = {} =>
            BatchStatus(batch) = "failed"

=============================================================================
