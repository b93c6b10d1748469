-------------------------- MODULE IngestionProofs --------------------------
(***************************************************************************)
(* Proofs about Ingestion, the service as a whole, for any number of jobs,  *)
(* requests, workers and reviewers and any bound on retries and faults; at  *)
(* the end those about the review endpoints by themselves.                  *)
(*                                                                          *)
(* What the workers do to their own state is cited from ExtractionTaskProofs *)
(* (as Task); what is proved here is that requests, workers and reviewers   *)
(* do not spoil it for each other.                                          *)
(***************************************************************************)
EXTENDS Ingestion, TLAPS

Task == INSTANCE ExtractionTaskProofs

-----------------------------------------------------------------------------
(* The inductive invariant.                                                 *)

\* A request is at one of its files while it works on files.
AtAFile ==
    /\ turn \in [Requests -> Nat \ {0}]
    /\ \A p \in Requests :
          /\ step[p] = "received" => turn[p] = 1
          /\ step[p] \in Api!Busy => turn[p] \in DOMAIN Files[p]

Typed == TypeOK /\ AtAFile

InRow(j) == rows[j].status # Absent

(***************************************************************************)
(* What the broker and the workers hold is backed, because what a request   *)
(* is about to publish is: its file was saved before its row was committed, *)
(* and its row before its message.                                          *)
(***************************************************************************)
MessagesBacked ==
    \A m \in Task!Messages : ready[m] > 0 => InRow(m.job) /\ m.job \in disk

RunsBacked ==
    \A w \in Workers :
        pc[w] # "idle" => InRow(task[w].job) /\ task[w].job \in disk

RequestsBacked ==
    /\ \A j \in Jobs : summary[j].kind = "queued" => j \in disk
    /\ \A p \in Requests :
          step[p] = "enqueue" => \A j \in Api!NewJobs(p) : InRow(j)

Backed == MessagesBacked /\ RunsBacked /\ RequestsBacked

\* No row of a request is written before its transaction.
NotYetCreated ==
    \A p \in Requests :
        step[p] \in {"received", "dedup", "persist"} =>
            \A j \in Api!Uploads(p) : ~InRow(j)

(***************************************************************************)
(* A job has no message and no worker before its request publishes it, so   *)
(* that the message published is the only one.                              *)
(***************************************************************************)
Unheard(j) ==
    /\ \A m \in Task!Messages : m.job = j => ~(ready[m] > 0)
    /\ \A w \in Workers : pc[w] # "idle" => task[w].job # j

BeforePublication(p, i) ==
    \/ step[p] \in {"received", "dedup", "persist"}
    \/ step[p] = "enqueue" /\ turn[p] <= i

NotYetPublished ==
    \A p \in Requests : \A i \in DOMAIN Files[p] :
        BeforePublication(p, i) => Unheard(Files[p][i])

InOneHand == Task!Custody /\ Task!TakenBackIsForked /\ NotYetPublished

\* A cached answer names the job it was taken from.
AnswersNameJobs ==
    \A j \in Jobs : summary[j].kind = "cached" => summary[j].from \in Jobs

(***************************************************************************)
(* A tier in a row is there for good and comes with a result; a run has a   *)
(* tier when it persists, and an approval one when it writes.               *)
(***************************************************************************)
RunsHaveTier == \A w \in Workers : pc[w] \in {"publish", "index", "notify", "persist"}
                                       => tier[w] # None

Sound(row) ==
    /\ row.tier # None => row.status # Absent /\ row.result.tier # None
    /\ row.status = "completed" => row.tier # None

TiersHaveResults == \A j \in Jobs : Sound(rows[j])

DecisionsHaveTier ==
    \A r \in Reviewers :
        /\ desk[r] = "approve" => copy[r].tier # None
        /\ desk[r] # "free" => rows[subject[r]].tier # None
        /\ picked[r] # NoRow => picked[r].status # Absent

(***************************************************************************)
(* The unreviewed row of UnreviewedIsNotLeftCompleted without a run that is *)
(* past its last write.                                                     *)
(***************************************************************************)
Correcting == Task!Running \ {"close"}

Unreviewed(j) ==
    /\ rows[j].status = "completed" /\ rows[j].tier = "review"
    /\ rows[j].result.review # "approved"

Corrected(j) ==
    Task!InQueue(j) \/ Task!At(j, Correcting) \/ j \in abandoned

UnreviewedIsCorrected ==
    \A j \in Jobs \ forked : Unreviewed(j) => Corrected(j)

(***************************************************************************)
(* What a run has selected may be stale by the time of its UPDATE, which    *)
(* leaves out the columns it would not have changed.  Only reviewers write  *)
(* in between when the run is the only one of its job; they never write the *)
(* tier, nor the status REVIEW, and they do not make a row unreviewed.      *)
(***************************************************************************)
Selected(w) ==
    loaded[w] # NoRow =>
        LET j == task[w].job IN
        /\ Task!AtWrite(w)
        /\ loaded[w].status # Absent
        /\ loaded[w].tier # None => rows[j].tier # None
        /\ j \notin forked =>
              /\ loaded[w].tier = rows[j].tier
              /\ loaded[w].status # "review" => rows[j].status # "review"
              /\ loaded[w].status = "failed" => ~Unreviewed(j)
              /\ pc[w] = "override" => loaded[w].status # "review"

\* While a run is between its first and its last write, nobody says REVIEW.
BetweenWrites == {"stages", "publish", "index", "notify", "persist", "override"}

NotYetReview(w) ==
    pc[w] \in BetweenWrites /\ task[w].job \notin forked =>
        rows[task[w].job].status # "review"

SelectionsHold == \A w \in Workers : Selected(w) /\ NotYetReview(w)

Inv == /\ Typed /\ Backed /\ NotYetCreated /\ InOneHand
       /\ RunsHaveTier /\ TiersHaveResults /\ DecisionsHaveTier
       /\ AnswersNameJobs /\ CachedAnswerIsReal
       /\ SelectionsHold /\ UnreviewedIsCorrected

-----------------------------------------------------------------------------
(* The components see one table, and Task is Celery.                        *)

LEMMA OneTable ==
    /\ Task!Row = Row /\ Celery!Row = Row /\ Desk!Row = Row
    /\ Desk!Result = Result /\ Api!Result = Result
    /\ Task!StoredStatus = StoredStatus /\ Task!ErrorMessage = ErrorMessage
    /\ Task!NoRow = NoRow /\ Desk!NoRow = NoRow
  BY DEF Task!Row, Task!Result, Task!ErrorMessage, Task!ConfidenceTier,
         Task!StoredStatus, Task!EffectStages, Task!Absent, Task!None,
         Task!NoRow, Task!NoResult,
         Celery!Row, Celery!Result, Celery!ErrorMessage, Celery!ConfidenceTier,
         Celery!StoredStatus, Celery!EffectStages, Celery!Absent, Celery!None,
         Desk!Row, Desk!Result, Desk!ErrorMessage, Desk!ConfidenceTier,
         Desk!StoredStatus, Desk!EffectStages, Desk!Absent, Desk!None,
         Desk!NoRow, Desk!NoResult,
         Api!Result, Api!ConfidenceTier, Api!None,
         Row, Result, ErrorMessage, ConfidenceTier, StoredStatus, EffectStages,
         Absent, None, NoRow, NoResult

LEMMA SameType == Celery!TypeOK <=> Task!TypeOK
  BY OneTable
     DEF Celery!TypeOK, Task!TypeOK, Celery!Messages, Task!Messages,
         Celery!Location, Task!Location, Celery!Running, Task!Running,
         Celery!Writing, Task!Writing, Celery!Ended, Task!Ended, Celery!None,
         Task!None, Celery!EffectStages, Task!EffectStages

LEMMA SamePlaces ==
    ASSUME NEW j
    PROVE  /\ Celery!InQueue(j) <=> Task!InQueue(j)
           /\ Celery!At(j, Celery!Running) <=> Task!At(j, Task!Running)
  BY DEF Celery!InQueue, Task!InQueue, Celery!Messages, Task!Messages,
         Celery!At, Task!At, Celery!JobOf, Task!JobOf,
         Celery!Running, Task!Running, Celery!Writing, Task!Writing

LEMMA SameSteps ==
    ASSUME NEW w \in Workers
    PROVE  /\ Celery!Pull(w) => Task!Pull(w)
           /\ Celery!RunStep(w) => Task!RunStep(w)
           /\ Celery!Crash(w) => Task!Crash(w)
           /\ Celery!Redeliver(w) => Task!Redeliver(w)
<1> USE DEF Celery!JobOf, Task!JobOf, Celery!Goto, Task!Goto, Celery!Quiet,
            Task!Quiet, Celery!KeepRun, Task!KeepRun, Celery!KeepFindings,
            Task!KeepFindings, Celery!ForgetRun, Task!ForgetRun,
            Celery!BecomeIdle, Task!BecomeIdle, Celery!Report, Task!Report,
            Celery!Update, Task!Update, Celery!WriteStatus, Task!WriteStatus,
            Celery!WriteResult, Task!WriteResult, Celery!AtWrite,
            Task!AtWrite, Celery!Attempt, Task!Attempt, Celery!Abandon,
            Task!Abandon, Celery!Fault, Task!Fault, Celery!Message,
            Task!Message, Celery!Messages, Task!Messages, Celery!Flushed,
            Task!Flushed, Celery!StatusWritten, Task!StatusWritten,
            Celery!ResultWritten, Task!ResultWritten, Celery!NoResult,
            Task!NoResult, Celery!NoRow, Task!NoRow, Celery!None, Task!None,
            Celery!Absent, Task!Absent, Celery!storeVars, Task!storeVars,
            Celery!history, Task!history, Celery!Running, Task!Running,
            Celery!Writing, Task!Writing, Celery!Ended, Task!Ended,
            Celery!EffectStages, Task!EffectStages
<1>1. Celery!LoadJob(w) => Task!LoadJob(w)
  BY DEF Celery!LoadJob, Task!LoadJob
<1>2. Celery!Select(w) => Task!Select(w)
  BY DEF Celery!Select, Task!Select
<1>3. Celery!MarkProcessing(w) => Task!MarkProcessing(w)
  BY DEF Celery!MarkProcessing, Task!MarkProcessing
<1>4. Celery!RunStages(w) => Task!RunStages(w)
  BY DEF Celery!RunStages, Task!RunStages
<1>5. Celery!WriteMetadata(w) => Task!WriteMetadata(w)
  BY DEF Celery!WriteMetadata, Task!WriteMetadata
<1>6. Celery!IndexCompanion(w) => Task!IndexCompanion(w)
  BY DEF Celery!IndexCompanion, Task!IndexCompanion
<1>7. Celery!NotifyCompletion(w) => Task!NotifyCompletion(w)
  BY DEF Celery!NotifyCompletion, Task!NotifyCompletion
<1>8. Celery!PersistResult(w) => Task!PersistResult(w)
  BY DEF Celery!PersistResult, Task!PersistResult
<1>9. Celery!OverrideReview(w) => Task!OverrideReview(w)
  BY DEF Celery!OverrideReview, Task!OverrideReview
<1>10. Celery!CloseSession(w) => Task!CloseSession(w)
  BY DEF Celery!CloseSession, Task!CloseSession
<1>11. Celery!Raise(w) => Task!Raise(w)
  BY DEF Celery!Raise, Task!Raise
<1>12. Celery!ScheduleRetry(w) => Task!ScheduleRetry(w)
  BY DEF Celery!ScheduleRetry, Task!ScheduleRetry
<1>13. Celery!LoseRetry(w) => Task!LoseRetry(w)
  BY DEF Celery!LoseRetry, Task!LoseRetry
<1>14. Celery!MarkJobFailed(w) => Task!MarkJobFailed(w)
  BY DEF Celery!MarkJobFailed, Task!MarkJobFailed
<1>15. Celery!CleanupFails(w) => Task!CleanupFails(w)
  BY DEF Celery!CleanupFails, Task!CleanupFails
<1>16. Celery!Ack(w) => Task!Ack(w)
  BY DEF Celery!Ack, Task!Ack
<1>17. Celery!Crash(w) => Task!Crash(w)
  BY DEF Celery!Crash, Task!Crash
<1>18. Celery!Redeliver(w) => Task!Redeliver(w)
  BY DEF Celery!Redeliver, Task!Redeliver
<1>19. Celery!Pull(w) => Task!Pull(w)
  BY DEF Celery!Pull, Task!Pull, Celery!Deliver, Task!Deliver
<1> QED
  BY <1>1, <1>2, <1>3, <1>4, <1>5, <1>6, <1>7, <1>8, <1>9, <1>10, <1>11,
     <1>12, <1>13, <1>14, <1>15, <1>16, <1>17, <1>18, <1>19
     DEF Celery!RunStep, Task!RunStep

\* What ExtractionTaskProofs assumes of its parameters holds here.
LEMMA TaskAssumptions ==
    /\ MaxRetries \in Nat /\ MaxFaults \in Nat
    /\ Tiers \subseteq Task!ConfidenceTier
    /\ FileHash \in [Jobs -> {FileHash[j] : j \in Jobs}]
    /\ CallbackJobs \subseteq Jobs
    /\ Configured \subseteq {"search_index", "callback"}
    /\ Followed \subseteq Task!EffectStages
  BY RetryAssumption, FaultAssumption, TierAssumption, HashAssumption,
     CallbackAssumption, ConfiguredAssumption, FollowedAssumption
     DEF Task!ConfidenceTier, ConfidenceTier, Task!EffectStages, EffectStages

WorkerStep(w) ==
    Task!Pull(w) \/ Task!RunStep(w) \/ Task!Crash(w) \/ Task!Redeliver(w)

LEMMA StepsOfWorkers ==
    ASSUME Typed, NEW w \in Workers, Pull(w) \/ RunStep(w) \/ WorkerFault(w)
    PROVE  /\ Task!TypeOK /\ WorkerStep(w) /\ [Task!Next]_(Task!vars)
           /\ UNCHANGED <<disk, step, turn, summary, desk, subject, copy, picked>>
<1>1. WorkerStep(w)
  BY SameSteps DEF Pull, RunStep, WorkerFault, WorkerStep
<1> QED
  BY <1>1, SameType DEF Typed, TypeOK, WorkerStep, Task!Next, Pull, RunStep,
     WorkerFault, apiVars, deskVars

(***************************************************************************)
(* update_job_status as approve and reject call it: what its UPDATE makes   *)
(* of a row, when its SELECT found `old`.                                   *)
(***************************************************************************)
Signed(read) == [read EXCEPT !.review = "approved"]

Approved(old, read, row) ==
    Desk!Flushed(old, Desk!StatusWritten(old, "completed", Signed(read), Desk!None),
                 IF Signed(read) = Desk!NoResult THEN {} ELSE {"result"}, row)

Rejected(old, row) ==
    Desk!Flushed(old, Desk!StatusWritten(old, "failed", Desk!NoResult, "rejection"),
                 IF Desk!NoResult = Desk!NoResult THEN {} ELSE {"result"}, row)

LEMMA DecisionColumns ==
    ASSUME NEW old \in Row, NEW row \in Row, NEW read \in Result,
           old.status # Absent
    PROVE  /\ Approved(old, read, row) \in Row
           /\ Approved(old, read, row).status =
                  IF old.status # "completed" THEN "completed" ELSE row.status
           /\ Approved(old, read, row).tier = row.tier
           /\ Approved(old, read, row).result.tier = read.tier
           /\ Approved(old, read, row).result.review = "approved"
           /\ Approved(old, read, row).error = row.error
           /\ Rejected(old, row) \in Row
           /\ Rejected(old, row).status =
                  IF old.status # "failed" THEN "failed" ELSE row.status
           /\ Rejected(old, row).tier = row.tier
           /\ Rejected(old, row).result = row.result
           /\ Rejected(old, row).error =
                  IF old.error # "rejection" THEN "rejection" ELSE row.error
<1> DEFINE result == Signed(read)
<1>1. result \in Result /\ result.tier = read.tier /\ result.review = "approved"
  BY DEF Result, Signed
<1>2. result # Desk!NoResult
  BY <1>1 DEF Desk!NoResult, Desk!None
<1> HIDE DEF result
<1>3. LET made == Desk!StatusWritten(old, "completed", result, Desk!None) IN
      /\ made \in Row /\ made.status = "completed" /\ made.tier = old.tier
      /\ made.result = result /\ made.error = old.error
  BY <1>1, <1>2 DEF Desk!StatusWritten, Desk!Absent, Desk!None, Row, Absent,
     StoredStatus
<1>4. LET made == Desk!StatusWritten(old, "failed", Desk!NoResult, "rejection") IN
      /\ made \in Row /\ made.status = "failed" /\ made.tier = old.tier
      /\ made.error = "rejection"
  BY DEF Desk!StatusWritten, Desk!Absent, Desk!None, Row, Absent, StoredStatus,
     ErrorMessage
<1>5. ASSUME NEW made \in Row, NEW given
      PROVE  LET new == Desk!Flushed(old, made, given, row) IN
             /\ new \in Row
             /\ new.status = IF made.status # old.status THEN made.status ELSE row.status
             /\ new.tier = IF made.tier # old.tier THEN made.tier ELSE row.tier
             /\ new.result = IF "result" \in given THEN made.result ELSE row.result
             /\ new.error = IF made.error # old.error THEN made.error ELSE row.error
  BY DEF Desk!Flushed, Row
<1>6. LET new == Desk!Flushed(old,
                    Desk!StatusWritten(old, "completed", result, Desk!None),
                    IF result = Desk!NoResult THEN {} ELSE {"result"}, row)
      IN
      /\ new \in Row
      /\ new.status = IF old.status # "completed" THEN "completed" ELSE row.status
      /\ new.tier = row.tier /\ new.result = result /\ new.error = row.error
  BY <1>2, <1>3, <1>5
<1>7. LET new == Desk!Flushed(old,
                    Desk!StatusWritten(old, "failed", Desk!NoResult, "rejection"),
                    IF Desk!NoResult = Desk!NoResult THEN {} ELSE {"result"}, row)
      IN
      /\ new \in Row
      /\ new.status = IF old.status # "failed" THEN "failed" ELSE row.status
      /\ new.tier = row.tier /\ new.result = row.result
      /\ new.error = IF old.error # "rejection" THEN "rejection" ELSE row.error
  BY <1>4, <1>5
<1> QED
  BY <1>1, <1>6, <1>7 DEF result, Approved, Rejected

LEMMA DecisionWrites ==
    ASSUME NEW r \in Reviewers
    PROVE  /\ Desk!Approve(r) =>
                 /\ desk[r] = "approve" /\ picked[r] # Desk!NoRow /\ Desk!Free(r)
                 /\ rows' = [rows EXCEPT ![subject[r]] =
                                Approved(picked[r], copy[r], rows[subject[r]])]
           /\ Desk!Reject(r) =>
                 /\ desk[r] = "reject" /\ picked[r] # Desk!NoRow /\ Desk!Free(r)
                 /\ rows' = [rows EXCEPT ![subject[r]] =
                                Rejected(picked[r], rows[subject[r]])]
  BY DEF Desk!Approve, Desk!Reject, Desk!Store, Approved, Rejected, Signed

-----------------------------------------------------------------------------
(* Typing.                                                                  *)

LEMMA InitTyped == Init => Typed
<1> SUFFICES ASSUME Init PROVE Typed
  OBVIOUS
<1>1. NoRow \in Row /\ NoResult \in Result /\ Api!NoSummary \in Api!Summary
  BY DEF NoRow, NoResult, Row, Result, ErrorMessage, StoredStatus, Absent, None,
         Api!NoSummary, Api!Summary, Api!NoResult, Api!Result, Api!None
<1>2. Celery!TypeOK
  BY <1>1, OneTable, FaultAssumption
     DEF Init, Celery!TypeOK, Celery!Location, Celery!None, None
<1>3. Desk!TypeOK
  BY <1>1, OneTable DEF Init, Desk!TypeOK, Desk!None, None
<1>4. step \in [Requests -> Api!Step] /\ summary \in [Jobs -> Api!Summary]
  BY <1>1 DEF Init, Api!Step
<1>5. AtAFile
  BY DEF Init, AtAFile, Api!Busy
<1> QED
  BY <1>2, <1>3, <1>4, <1>5 DEF Init, Typed, TypeOK

LEMMA WorkerTyped ==
    ASSUME Typed, NEW w \in Workers, Pull(w) \/ RunStep(w) \/ WorkerFault(w)
    PROVE  Typed'
<1>1. Task!TypeOK'
  BY StepsOfWorkers, Task!NextTyped, TaskAssumptions
<1>2. Celery!TypeOK'
  BY <1>1, OneTable
     DEF Celery!TypeOK, Task!TypeOK, Celery!Messages, Task!Messages,
         Celery!Location, Task!Location, Celery!Running, Task!Running,
         Celery!Writing, Task!Writing, Celery!Ended, Task!Ended, Celery!None,
         Task!None, Celery!EffectStages, Task!EffectStages
<1>3. rows' \in [Jobs -> Row]
  BY <1>2, OneTable DEF Celery!TypeOK
<1> QED
  BY <1>2, <1>3, StepsOfWorkers, OneTable DEF Typed, TypeOK, AtAFile, Desk!TypeOK

LEMMA FilesTyped ==
    ASSUME NEW p \in Requests
    PROVE  /\ Len(Files[p]) \in Nat /\ DOMAIN Files[p] = 1..Len(Files[p])
           /\ \A i \in 1..Len(Files[p]) : Files[p][i] \in Jobs
           /\ Api!Uploads(p) \subseteq Jobs
  BY FilesAssumption DEF Api!Uploads

\* What a summary is built from.
LEMMA SummariesTyped ==
    ASSUME rows \in [Jobs -> Row], NEW j \in Jobs
    PROVE  Api!QueuedSummary(j) \in Api!Summary /\ Api!CachedSummary(j) \in Api!Summary
  BY OneTable DEF Api!QueuedSummary, Api!CachedSummary, Api!Summary, Api!NoResult,
     Api!Result, Api!None, Row

\* A request stays at one of its files as long as it works on files.
LEMMA ApiTyped ==
    ASSUME Typed, NEW p \in Requests, ApiStep(p) \/ ApiCrash(p)
    PROVE  Typed'
<1>typing. /\ rows \in [Jobs -> Row] /\ ready \in [Task!Messages -> Nat]
           /\ disk \subseteq Jobs /\ step \in [Requests -> Api!Step]
           /\ summary \in [Jobs -> Api!Summary]
           /\ turn \in [Requests -> Nat \ {0}]
           /\ \A q \in Requests :
                 /\ step[q] = "received" => turn[q] = 1
                 /\ step[q] \in Api!Busy => turn[q] \in DOMAIN Files[q]
  BY OneTable, SameType DEF Typed, TypeOK, Task!TypeOK, AtAFile
<1> SUFFICES /\ rows' \in [Jobs -> Row] /\ ready' \in [Task!Messages -> Nat]
             /\ disk' \subseteq Jobs /\ step' \in [Requests -> Api!Step]
             /\ summary' \in [Jobs -> Api!Summary]
             /\ turn' \in [Requests -> Nat \ {0}]
             /\ \A q \in Requests :
                   /\ step'[q] = "received" => turn'[q] = 1
                   /\ step'[q] \in Api!Busy => turn'[q] \in DOMAIN Files[q]
  BY OneTable DEF Typed, TypeOK, Celery!TypeOK, Desk!TypeOK, AtAFile, ApiStep,
     ApiCrash, celeryVars, deskVars, Task!Messages, Celery!Messages
<1>files. Len(Files[p]) \in Nat /\ DOMAIN Files[p] = 1..Len(Files[p])
  BY FilesTyped
<1>current. step[p] \in Api!Busy => Api!Current(p) \in Jobs
  BY <1>typing, <1>files, FilesTyped DEF Api!Current
<1> USE DEF Api!Step, Api!Busy, Api!GoTo
<1>1. CASE Api!Validate(p)
  <2>1. Files[p] # <<>> => 1 \in DOMAIN Files[p]
    BY <1>files, FilesAssumption
  <2> QED
    BY <1>1, <1>typing, <2>1 DEF Api!Validate
<1>2. ASSUME step[p] = "dedup", Api!NextFile(p)
      PROVE  /\ step' \in [Requests -> Api!Step]
             /\ turn' \in [Requests -> Nat \ {0}]
             /\ \A q \in Requests :
                   /\ step'[q] = "received" => turn'[q] = 1
                   /\ step'[q] \in Api!Busy => turn'[q] \in DOMAIN Files[q]
  <2>1. turn[p] \in 1..Len(Files[p])
    BY <1>2, <1>typing, <1>files
  <2>2. /\ turn'[p] \in 1..Len(Files[p]) /\ step'[p] \in {"dedup", "persist"}
        /\ turn' \in [Requests -> Nat \ {0}] /\ step' \in [Requests -> Api!Step]
        /\ \A q \in Requests \ {p} : turn'[q] = turn[q] /\ step'[q] = step[q]
    <3>1. turn[p] \in Nat \ {0} /\ 1 \in 1..Len(Files[p])
          /\ (turn[p] < Len(Files[p]) => turn[p] + 1 \in 1..Len(Files[p]))
          /\ turn[p] + 1 \in Nat \ {0} /\ 1 \in Nat \ {0}
      BY <2>1, <1>files
    <3> QED
      BY <1>2, <3>1, <1>typing DEF Api!NextFile
  <2>3. turn'[p] \in DOMAIN Files[p] /\ step'[p] # "received"
    BY <2>2, <1>files
  <2>4. ASSUME NEW q \in Requests
        PROVE  /\ step'[q] = "received" => turn'[q] = 1
               /\ step'[q] \in Api!Busy => turn'[q] \in DOMAIN Files[q]
    <3>1. CASE q = p
      BY <2>3, <3>1
    <3>2. CASE q # p
      BY <2>2, <3>2, <1>typing
    <3> QED
      BY <3>1, <3>2
  <2> QED
    BY <2>2, <2>4
<1>3. CASE Api!AnswerFromCache(p)
  <2>1. PICK k \in Api!CacheHits(Api!Current(p)) :
            summary' = [summary EXCEPT ![Api!Current(p)] = Api!CachedSummary(k)]
    BY <1>3 DEF Api!AnswerFromCache
  <2>2. Api!CachedSummary(k) \in Api!Summary
    BY <2>1, <1>typing, SummariesTyped DEF Api!CacheHits
  <2> QED
    BY <1>2, <1>3, <2>1, <2>2, <1>typing, <1>current DEF Api!AnswerFromCache
<1>4. CASE Api!SaveNewJob(p)
  <2>1. Api!Current(p) \in Jobs
    BY <1>4, <1>current DEF Api!SaveNewJob
  <2>2. Api!QueuedSummary(Api!Current(p)) \in Api!Summary
    BY <2>1, <1>typing, SummariesTyped
  <2> QED
    BY <1>2, <1>4, <2>1, <2>2, <1>typing DEF Api!SaveNewJob
<1>5. CASE Api!CreateBatch(p)
  <2>1. Api!QueuedRow \in Row
    BY DEF Api!QueuedRow, Api!NoRow, Api!NoResult, Api!Absent, Api!None, Row,
       Result, ErrorMessage, StoredStatus, None
  <2>2. rows' \in [Jobs -> Row]
    BY <1>5, <1>typing, <2>1 DEF Api!CreateBatch
  <2> QED
    BY <1>5, <2>2, <1>typing DEF Api!CreateBatch
<1>6. CASE Api!EnqueueExtraction(p)
  <2>1. [job |-> Api!Current(p), retries |-> 0] \in Task!Messages
    BY <1>6, <1>current, RetryAssumption DEF Api!EnqueueExtraction, Task!Messages
  <2>2. ready' \in [Task!Messages -> Nat]
    BY <1>6, <1>typing, <2>1 DEF Api!EnqueueExtraction
  <2>3. turn[p] \in 1..Len(Files[p]) /\ step[p] = "enqueue"
    BY <1>6, <1>typing, <1>files DEF Api!EnqueueExtraction
  <2>4. /\ turn'[p] \in 1..Len(Files[p]) /\ step'[p] \in {"enqueue", "accepted"}
        /\ turn' \in [Requests -> Nat \ {0}] /\ step' \in [Requests -> Api!Step]
        /\ \A q \in Requests \ {p} : turn'[q] = turn[q] /\ step'[q] = step[q]
    <3>1. turn[p] \in Nat \ {0}
          /\ (turn[p] < Len(Files[p]) => turn[p] + 1 \in 1..Len(Files[p]))
          /\ turn[p] + 1 \in Nat \ {0}
      BY <2>3, <1>files
    <3> QED
      BY <1>6, <2>3, <3>1, <1>typing DEF Api!EnqueueExtraction, Api!NextMessage
  <2>5. turn'[p] \in DOMAIN Files[p] /\ step'[p] # "received"
    BY <2>4, <1>files
  <2>6. ASSUME NEW q \in Requests
        PROVE  /\ step'[q] = "received" => turn'[q] = 1
               /\ step'[q] \in Api!Busy => turn'[q] \in DOMAIN Files[q]
    <3>1. CASE q = p
      BY <2>5, <3>1
    <3>2. CASE q # p
      BY <2>4, <3>2, <1>typing
    <3> QED
      BY <3>1, <3>2
  <2> QED
    BY <2>2, <2>4, <2>6, <1>6, <1>typing DEF Api!EnqueueExtraction
<1>7. CASE Api!SubmitFails(p) \/ Api!ApiCrash(p)
  BY <1>7, <1>typing DEF Api!SubmitFails, Api!ApiCrash
<1> QED
  BY <1>1, <1>3, <1>4, <1>5, <1>6, <1>7 DEF ApiStep, ApiCrash, Api!SubmitStep

LEMMA DeskKeepsTypes ==
    ASSUME Desk!TypeOK, NEW r \in Reviewers, Desk!DeskStep(r)
    PROVE  Desk!TypeOK'
<1>typing. /\ rows \in [Jobs -> Row]
           /\ desk \in [Reviewers -> {"free", "approve", "reject"}]
           /\ subject \in [Reviewers -> Jobs \union {Desk!None}]
           /\ \A q \in Reviewers : desk[q] # "free" => subject[q] \in Jobs
           /\ copy \in [Reviewers -> Result]
           /\ picked \in [Reviewers -> Row]
  BY OneTable DEF Desk!TypeOK
<1> SUFFICES /\ rows' \in [Jobs -> Row]
             /\ desk' \in [Reviewers -> {"free", "approve", "reject"}]
             /\ subject' \in [Reviewers -> Jobs \union {Desk!None}]
             /\ \A q \in Reviewers : desk'[q] # "free" => subject'[q] \in Jobs
             /\ copy' \in [Reviewers -> Result]
             /\ picked' \in [Reviewers -> Row]
  BY OneTable DEF Desk!TypeOK
<1>1. Desk!NoResult \in Result /\ Desk!NoRow \in Row
  BY DEF Desk!NoResult, Desk!NoRow, Desk!None, Desk!Absent, Result, Row,
     ErrorMessage, None, Absent
<1>2. ASSUME NEW j \in Jobs, Desk!OpenApproval(r, j) \/ Desk!OpenRejection(r, j)
      PROVE  /\ rows' = rows /\ picked' = picked
             /\ desk' \in [Reviewers -> {"free", "approve", "reject"}]
             /\ subject' \in [Reviewers -> Jobs \union {Desk!None}]
             /\ \A q \in Reviewers : desk'[q] # "free" => subject'[q] \in Jobs
             /\ copy' \in [Reviewers -> Result]
  <2>1. rows[j].result \in Result
    BY <1>typing DEF Row
  <2> QED
    BY <1>2, <1>typing, <2>1 DEF Desk!OpenApproval, Desk!OpenRejection
<1>3. ASSUME Desk!Free(r)
      PROVE  /\ desk' \in [Reviewers -> {"free", "approve", "reject"}]
             /\ subject' \in [Reviewers -> Jobs \union {Desk!None}]
             /\ \A q \in Reviewers : desk'[q] # "free" => subject'[q] \in Jobs
             /\ copy' \in [Reviewers -> Result]
             /\ picked' \in [Reviewers -> Row]
  BY <1>3, <1>typing, <1>1 DEF Desk!Free
<1>4. CASE Desk!Pick(r)
  <2>1. rows[subject[r]] \in Row
    BY <1>4, <1>typing DEF Desk!Pick
  <2> QED
    BY <1>4, <1>typing, <2>1 DEF Desk!Pick
<1>5. ASSUME desk[r] # "free", NEW status \in StoredStatus, NEW result \in Result,
             NEW error \in ErrorMessage, Desk!Store(r, status, result, error)
      PROVE  rows' \in [Jobs -> Row]
  <2>1. rows[subject[r]] \in Row /\ picked[r] \in Row /\ subject[r] \in Jobs
    BY <1>5, <1>typing
  <2>2. Desk!StatusWritten(picked[r], status, result, error) \in Row
    BY <2>1 DEF Desk!StatusWritten, Row
  <2> DEFINE made == Desk!StatusWritten(picked[r], status, result, error)
             given == IF result = Desk!NoResult THEN {} ELSE {"result"}
  <2>3. rows' = [rows EXCEPT ![subject[r]] =
                    Desk!Flushed(picked[r], made, given, rows[subject[r]])]
    BY <1>5 DEF Desk!Store
  <2>4. made \in Row
    BY <2>2
  <2> HIDE DEF made, given
  <2>5. Desk!Flushed(picked[r], made, given, rows[subject[r]]) \in Row
    BY <2>1, <2>4 DEF Desk!Flushed, Row
  <2> QED
    BY <1>typing, <2>1, <2>3, <2>5
<1>6. CASE Desk!Approve(r)
  <2>1. [copy[r] EXCEPT !.review = "approved"] \in Result
    BY <1>6, <1>typing DEF Result
  <2>2. rows' \in [Jobs -> Row]
    BY <1>5, <1>6, <2>1 DEF Desk!Approve, StoredStatus, ErrorMessage, Desk!None, None
  <2> QED
    BY <1>3, <1>6, <2>2 DEF Desk!Approve, Desk!Store
<1>7. CASE Desk!Reject(r)
  <2>1. rows' \in [Jobs -> Row]
    BY <1>1, <1>5, <1>7 DEF Desk!Reject, StoredStatus, ErrorMessage
  <2> QED
    BY <1>3, <1>7, <2>1 DEF Desk!Reject, Desk!Store
<1>8. CASE Desk!DecisionFails(r)
  BY <1>3, <1>8, <1>typing DEF Desk!DecisionFails
<1> QED
  BY <1>2, <1>4, <1>6, <1>7, <1>8, <1>typing DEF Desk!DeskStep

LEMMA DeskTyped ==
    ASSUME Typed, NEW r \in Reviewers, DeskStep(r)
    PROVE  Typed'
<1>typing. Desk!TypeOK /\ rows \in [Jobs -> Row]
  BY OneTable DEF Typed, TypeOK, Desk!TypeOK
<1> SUFFICES Desk!TypeOK' /\ rows' \in [Jobs -> Row]
  BY OneTable DEF Typed, TypeOK, Celery!TypeOK, AtAFile, DeskStep, apiVars,
     celeryVars
<1>1. Desk!TypeOK'
  BY <1>typing, DeskKeepsTypes DEF DeskStep
<1> QED
  BY <1>1, OneTable DEF Desk!TypeOK

LEMMA NextTyped == Typed /\ [Next]_vars => Typed'
<1> SUFFICES ASSUME Typed, [Next]_vars PROVE Typed'
  OBVIOUS
<1>1. CASE UNCHANGED vars
  BY <1>1 DEF vars, apiVars, celeryVars, deskVars, Typed, TypeOK, AtAFile,
     Celery!TypeOK, Desk!TypeOK
<1> QED
  BY <1>1, WorkerTyped, ApiTyped, DeskTyped DEF Next

-----------------------------------------------------------------------------
(* What a step of a worker does to the rest of the service.                 *)

\* The other workers go on as they were, and no job loses the excuse of being
\* forked or abandoned.
OthersUntouched(w) ==
    /\ \A v \in Workers \ {w} :
          /\ pc'[v] = pc[v] /\ task'[v] = task[v]
          /\ tier'[v] = tier[v] /\ loaded'[v] = loaded[v]
    /\ forked \subseteq forked' /\ abandoned \subseteq abandoned'

\* A worker gets its message from the broker, and the broker one from it; a
\* message leaves the broker only for a run.
MessagesMove(w) ==
    /\ pc'[w] # "idle" =>
          \/ pc[w] # "idle" /\ task'[w] = task[w]
          \/ /\ pc'[w] = "fetch"
             /\ task'[w] \in Task!Messages /\ ready[task'[w]] > 0
    /\ \A m \in Task!Messages :
          ready'[m] > 0 =>
              ready[m] > 0 \/ (pc[w] # "idle" /\ m.job = task[w].job)
    /\ \A m \in Task!Messages :
          ready[m] > 0 =>
              ready'[m] > 0 \/ (pc'[w] = "fetch" /\ task'[w] = m)

\* A run writes only its own job's row.
OwnRowWritten(w) ==
    \A j \in Jobs :
        \/ rows'[j] = rows[j]
        \/ /\ pc[w] \in Correcting /\ j = task[w].job
           /\ InRow(j)' <=> InRow(j)
           /\ Sound(rows[j]) => Sound(rows'[j])
           /\ rows[j].tier # None => rows'[j].tier # None

\* A run that has not made its last write goes on, hands its job on, or has it
\* settled.
JobHandedOn(w) ==
    \A j \in Jobs :
        pc[w] \in Correcting /\ j = task[w].job =>
            ~Unreviewed(j)' \/ Corrected(j)' \/ j \in forked'

\* A selected row is forgotten, kept or just read.
SelectionMoves(w) ==
    \/ loaded'[w] = NoRow
    \/ /\ pc'[w] = pc[w] /\ task'[w] = task[w] /\ rows' = rows
       /\ pc[w] \in Correcting /\ Task!AtWrite(w)
       /\ loaded'[w] \in {loaded[w], rows[task[w].job]}

WorkerEffect(w) ==
    /\ OthersUntouched(w) /\ MessagesMove(w) /\ OwnRowWritten(w) /\ JobHandedOn(w)
    /\ SelectionMoves(w) /\ NotYetReview(w)'
    /\ pc'[w] \in {"publish", "index", "notify", "persist"} => tier'[w] # None

\* Steps within a run that write no row.
Quietly(w, there) ==
    /\ pc[w] \in Task!Running /\ pc' = [pc EXCEPT ![w] = there]
    /\ UNCHANGED <<rows, ready, task, forked, abandoned>>
    /\ OthersUntouched(w) /\ SelectionMoves(w)
    /\ there \in BetweenWrites => pc[w] \in BetweenWrites
    /\ there \in {"publish", "index", "notify", "persist"} => tier'[w] # None

LEMMA QuietStep ==
    ASSUME Typed, NEW w \in Workers, NotYetReview(w),
           NEW there \in Correcting \union {"done"},
           there = "done" => pc[w] = "close", Quietly(w, there)
    PROVE  WorkerEffect(w)
<1>1. /\ pc \in [Workers -> Task!Location] /\ ready \in [Task!Messages -> Nat]
      /\ (pc[w] # "idle" => task[w] \in Task!Messages)
  BY SameType DEF Typed, TypeOK, Task!TypeOK
<1>2. /\ pc'[w] = there /\ pc[w] # "idle"
      /\ task' = task /\ ready' = ready /\ rows' = rows
      /\ forked' = forked /\ abandoned' = abandoned
  BY <1>1 DEF Quietly, Task!Running, Task!Writing
<1>3. MessagesMove(w) /\ OwnRowWritten(w)
  BY <1>1, <1>2 DEF MessagesMove, OwnRowWritten
<1>4. JobHandedOn(w)
  <2> SUFFICES ASSUME NEW j \in Jobs, pc[w] \in Correcting, j = task[w].job
               PROVE  Corrected(j)'
    BY DEF JobHandedOn
  <2>1. pc'[w] \in Correcting /\ task'[w].job = j
    BY <1>2 DEF Correcting
  <2> QED
    BY <1>2, <2>1 DEF Corrected, Task!At, Task!JobOf
<1>5. NotYetReview(w)'
  BY <1>2 DEF NotYetReview, Quietly
<1> QED
  BY <1>2, <1>3, <1>4, <1>5 DEF WorkerEffect, Quietly

\* The row after a write of a run, in the terms of this module.
LEMMA RunWrites ==
    ASSUME Inv, NEW w \in Workers, pc[w] # "idle", loaded[w] # NoRow
    PROVE  LET old == rows[task[w].job]
               new == rows'[task[w].job]
           IN
           /\ \A s \in StoredStatus, e \in ErrorMessage :
                 Task!WriteStatus(w, s, e) =>
                    /\ \A k \in Jobs \ {task[w].job} : rows'[k] = rows[k]
                    /\ new.status = IF s # loaded[w].status THEN s ELSE old.status
                    /\ new.tier = old.tier /\ new.result = old.result
                    /\ loaded'[w] = NoRow
           /\ Task!WriteResult(w) =>
                    /\ \A k \in Jobs \ {task[w].job} : rows'[k] = rows[k]
                    /\ new.status = IF "completed" # loaded[w].status
                                    THEN "completed" ELSE old.status
                    /\ new.tier = IF tier[w] # loaded[w].tier THEN tier[w] ELSE old.tier
                    /\ new.result = [tier |-> tier[w], review |-> None]
                    /\ loaded'[w] = NoRow
<1>1. Task!TypeOK /\ loaded \in [Workers -> Row]
  BY SameType, OneTable DEF Inv, Typed, TypeOK, Task!TypeOK
<1>2. loaded[w].status # Task!Absent /\ Task!JobOf(w) = task[w].job
  BY DEF Inv, SelectionsHold, Selected, Task!Absent, Absent, Task!JobOf
<1>3. ASSUME NEW s \in StoredStatus, NEW e \in ErrorMessage, Task!WriteStatus(w, s, e)
      PROVE  LET old == rows[task[w].job]
                 new == rows'[task[w].job]
             IN
             /\ \A k \in Jobs \ {task[w].job} : rows'[k] = rows[k]
             /\ new.status = IF s # loaded[w].status THEN s ELSE old.status
             /\ new.tier = old.tier /\ new.result = old.result
             /\ loaded'[w] = NoRow
  <2>1. loaded'[w] = NoRow
    BY <1>1, <1>3, OneTable DEF Task!WriteStatus, Task!Update
  <2> QED
    BY <1>1, <1>2, <1>3, <2>1, OneTable, Task!StatusWriteEffect, TaskAssumptions
<1>4. ASSUME Task!WriteResult(w)
      PROVE  LET old == rows[task[w].job]
                 new == rows'[task[w].job]
             IN
             /\ \A k \in Jobs \ {task[w].job} : rows'[k] = rows[k]
             /\ new.status = IF "completed" # loaded[w].status
                             THEN "completed" ELSE old.status
             /\ new.tier = IF tier[w] # loaded[w].tier THEN tier[w] ELSE old.tier
             /\ new.result = [tier |-> tier[w], review |-> None]
             /\ loaded'[w] = NoRow
  <2>1. loaded'[w] = NoRow
    BY <1>1, <1>4, OneTable DEF Task!WriteResult, Task!Update
  <2> QED
    BY <1>1, <1>2, <1>4, <2>1, OneTable, Task!ResultWriteEffect, TaskAssumptions
       DEF Task!None, None
<1> QED
  BY <1>3, <1>4

LEMMA OthersAreUntouched ==
    ASSUME Task!TypeOK, NEW w \in Workers, WorkerStep(w)
    PROVE  OthersUntouched(w)
  BY Task!OthersAreLeftAlone, TaskAssumptions DEF OthersUntouched, WorkerStep

\* A message for each run, and the runs of a worker that has none.
LEMMA SelectionsMove ==
    ASSUME Inv, Task!TypeOK, NEW w \in Workers, WorkerStep(w)
    PROVE  SelectionMoves(w)
<1>typing. /\ loaded \in [Workers -> Row] /\ task \in [Workers -> Task!Messages \union {NoTask}]
           /\ pc \in [Workers -> Task!Location]
  BY OneTable DEF Task!TypeOK
<1>none. ~Task!AtWrite(w) => loaded[w] = NoRow
  BY DEF Inv, SelectionsHold, Selected
<1>place. Task!AtWrite(w) => pc[w] \in Correcting
  BY DEF Task!AtWrite, Correcting, Task!Running, Task!Writing
<1> USE DEF SelectionMoves, Task!KeepRun, Task!KeepFindings, Task!ForgetRun,
            Task!BecomeIdle, Task!Goto, Task!Quiet
<1>1. CASE Task!Pull(w) \/ Task!LoadJob(w) \/ Task!RunStages(w)
           \/ Task!WriteMetadata(w) \/ Task!IndexCompanion(w)
           \/ Task!NotifyCompletion(w) \/ Task!ScheduleRetry(w) \/ Task!LoseRetry(w)
  <2>1. ~Task!AtWrite(w)
    <3>1. CASE Task!ScheduleRetry(w) \/ Task!LoseRetry(w)
      <4>1. task[w].retries \in 0..MaxRetries
        BY <3>1, <1>typing DEF Task!ScheduleRetry, Task!LoseRetry, Task!TypeOK,
           Task!Messages
      <4> QED
        BY <3>1, <4>1, RetryAssumption
           DEF Task!ScheduleRetry, Task!LoseRetry, Task!AtWrite
    <3> QED
      BY <1>1, <3>1 DEF Task!Pull, Task!Deliver, Task!LoadJob, Task!RunStages,
         Task!WriteMetadata, Task!IndexCompanion, Task!NotifyCompletion, Task!AtWrite
  <2>2. loaded' = loaded
    BY <1>1 DEF Task!Pull, Task!Deliver, Task!LoadJob, Task!RunStages,
       Task!WriteMetadata, Task!IndexCompanion, Task!NotifyCompletion,
       Task!ScheduleRetry, Task!LoseRetry, Task!Report
  <2> QED
    BY <2>1, <2>2, <1>none
<1>2. CASE Task!Select(w)
  BY <1>2, <1>place, <1>typing DEF Task!Select, Task!JobOf
<1>3. CASE Task!MarkProcessing(w) \/ Task!PersistResult(w) \/ Task!OverrideReview(w)
           \/ Task!MarkJobFailed(w)
  BY <1>3, <1>typing, OneTable DEF Task!MarkProcessing, Task!PersistResult,
     Task!OverrideReview, Task!MarkJobFailed, Task!WriteStatus, Task!WriteResult,
     Task!Update
<1>4. CASE Task!CloseSession(w) \/ Task!Raise(w) \/ Task!CleanupFails(w)
           \/ Task!Ack(w) \/ Task!Crash(w)
  BY <1>4, <1>typing, OneTable DEF Task!CloseSession, Task!Raise,
     Task!CleanupFails, Task!Ack, Task!Crash
<1>5. CASE Task!Redeliver(w)
  BY <1>5, <1>none, <1>place, <1>typing DEF Task!Redeliver
<1> QED
  BY <1>1, <1>2, <1>3, <1>4, <1>5 DEF WorkerStep, Task!RunStep

LEMMA WorkerEffects ==
    ASSUME Inv, Task!TypeOK, NEW w \in Workers, WorkerStep(w)
    PROVE  WorkerEffect(w)
<1>typing. /\ pc \in [Workers -> Task!Location] /\ rows \in [Jobs -> Row]
           /\ ready \in [Task!Messages -> Nat]
           /\ task \in [Workers -> Task!Messages \union {NoTask}]
           /\ \A v \in Workers : pc[v] # "idle" => task[v] \in Task!Messages
           /\ unacked \in [Workers -> BOOLEAN]
           /\ tier \in [Workers -> Tiers \union {None}]
           /\ forked \subseteq Jobs
  BY OneTable DEF Task!TypeOK, Task!None, None
<1>run. pc[w] # "idle" =>
            /\ task[w] \in Task!Messages /\ task[w].job \in Jobs
            /\ Task!JobOf(w) = task[w].job
  BY <1>typing DEF Task!JobOf, Task!Messages
<1>inv. /\ Typed /\ RunsHaveTier /\ Selected(w) /\ NotYetReview(w)
        /\ (pc[w] # "idle" => rows[task[w].job].status # Absent)
  BY DEF Inv, Backed, RunsBacked, InRow, SelectionsHold
<1>others. OthersUntouched(w) /\ SelectionMoves(w)
  BY OthersAreUntouched, SelectionsMove
<1>between. \A there \in BetweenWrites : there \notin {"fetch", "mark", "raised",
                                           "close", "done", "rescheduled", "idle"}
  BY DEF BetweenWrites
<1>1. ASSUME NEW m \in Task!Messages, Task!Deliver(w, m) PROVE WorkerEffect(w)
  <2>1. /\ pc[w] = "idle" /\ pc'[w] = "fetch" /\ task'[w] = m
        /\ ready[m] > 0
        /\ \A n \in Task!Messages : ready'[n] = IF n = m THEN ready[n] - 1 ELSE ready[n]
        /\ rows' = rows
    BY <1>1, <1>typing DEF Task!Deliver, Task!Goto
  <2>2. MessagesMove(w)
    BY <2>1, <1>typing DEF MessagesMove
  <2> QED
    BY <2>1, <2>2, <1>others, <1>between DEF WorkerEffect, OwnRowWritten, JobHandedOn,
       Correcting, Task!Running, Task!Writing, NotYetReview
<1> SUFFICES ASSUME pc[w] # "idle" PROVE WorkerEffect(w)
  BY <1>1 DEF Task!Pull, WorkerStep, Task!RunStep, Task!Crash, Task!Redeliver,
     Task!LoadJob, Task!Select, Task!AtWrite, Task!MarkProcessing, Task!RunStages,
     Task!WriteMetadata, Task!IndexCompanion, Task!NotifyCompletion,
     Task!PersistResult, Task!OverrideReview, Task!CloseSession, Task!Raise,
     Task!ScheduleRetry, Task!LoseRetry, Task!MarkJobFailed, Task!CleanupFails,
     Task!Ack, Task!Ended
<1>job. PICK j \in Jobs : j = task[w].job
  BY <1>run
<1>2. CASE Task!LoadJob(w) \/ Task!Select(w) \/ Task!RunStages(w)
           \/ Task!WriteMetadata(w) \/ Task!IndexCompanion(w)
           \/ Task!NotifyCompletion(w) \/ Task!Raise(w)
  <2>0. pc[w] \in Task!Running
    BY <1>2 DEF Task!LoadJob, Task!Select, Task!AtWrite, Task!RunStages,
       Task!WriteMetadata, Task!IndexCompanion, Task!NotifyCompletion, Task!Raise,
       Task!Running, Task!Writing
  <2> USE DEF Quietly, Task!Goto, Task!Quiet, Task!history, BetweenWrites
  <2>1. \E there \in Correcting : Quietly(w, there)
    <3> USE DEF Correcting, Task!Running, Task!Writing
    <3>1. CASE Task!RunStages(w)
      <4>1. PICK t \in Tiers : tier' = [tier EXCEPT ![w] = t]
        BY <3>1 DEF Task!RunStages
      <4>2. t # None
        BY TierAssumption DEF ConfidenceTier, None
      <4>3. Quietly(w, "publish")
        BY <3>1, <4>1, <4>2, <1>typing, <1>others, <2>0 DEF Task!RunStages
      <4> QED
        BY <4>3
    <3>2. CASE Task!LoadJob(w)
      <4>1. Quietly(w, "mark")
        BY <3>2, <1>typing, <1>others, <2>0 DEF Task!LoadJob
      <4> QED
        BY <4>1
    <3>3. CASE Task!Raise(w)
      <4>1. Quietly(w, "raised")
        BY <3>3, <1>typing, <1>others, <2>0 DEF Task!Raise
      <4> QED
        BY <4>1
    <3>4. CASE Task!Select(w)
      <4>1. Quietly(w, pc[w])
        BY <3>4, <1>typing, <1>others, <1>inv, <2>0
           DEF Task!Select, Task!KeepFindings, RunsHaveTier
      <4> QED
        BY <3>4, <4>1 DEF Task!Select, Task!AtWrite
    <3>5. CASE Task!WriteMetadata(w)
      <4>1. Quietly(w, "index")
        BY <3>5, <1>inv, <1>others, <2>0 DEF RunsHaveTier, Task!WriteMetadata, Task!KeepRun,
           Task!KeepFindings, Task!Report
      <4> QED
        BY <4>1
    <3>6. CASE Task!IndexCompanion(w)
      <4>1. Quietly(w, "notify")
        BY <3>6, <1>inv, <1>others, <2>0 DEF RunsHaveTier, Task!IndexCompanion, Task!KeepRun,
           Task!KeepFindings, Task!Report
      <4> QED
        BY <4>1
    <3>7. CASE Task!NotifyCompletion(w)
      <4>1. Quietly(w, "persist")
        BY <3>7, <1>inv, <1>others, <2>0 DEF RunsHaveTier, Task!NotifyCompletion, Task!KeepRun,
           Task!KeepFindings, Task!Report
      <4> QED
        BY <4>1
    <3> QED
      BY <1>2, <3>1, <3>2, <3>3, <3>4, <3>5, <3>6, <3>7
  <2>2. "done" \notin Correcting
    BY DEF Correcting, Task!Running, Task!Writing
  <2> QED
    BY <2>1, <2>2, <1>inv, QuietStep
<1>3. CASE Task!CloseSession(w)
  <2>1. Quietly(w, "done") /\ pc[w] = "close"
    BY <1>3, <1>typing, <1>others, <1>between DEF Quietly, Task!CloseSession, Task!Goto,
       Task!ForgetRun, Task!history, Task!Running, BetweenWrites
  <2> QED
    BY <2>1, <1>inv, QuietStep
\* The writes.
<1>4. ASSUME pc[w] \in Correcting, UNCHANGED <<ready, task, forked, abandoned, tier>>,
             NEW there, pc' = [pc EXCEPT ![w] = there],
             there \notin {"publish", "index", "notify", "persist"},
             there \in Task!Running \union {"done"},
             \A k \in Jobs \ {j} : rows'[k] = rows[k],
             rows'[j].status # Absent,
             Sound(rows[j]) => Sound(rows'[j]),
             rows[j].tier # None => rows'[j].tier # None,
             there \in BetweenWrites /\ j \notin forked => rows'[j].status # "review",
             there \notin Correcting /\ j \notin forked => ~Unreviewed(j)'
      PROVE  WorkerEffect(w)
  <2>1. pc'[w] = there /\ pc'[w] \notin {"publish", "index", "notify", "persist"}
    BY <1>4, <1>typing
  <2>2. MessagesMove(w)
    BY <1>4, <1>typing DEF MessagesMove
  <2>3. OwnRowWritten(w)
    BY <1>4, <1>inv, <1>job DEF OwnRowWritten, InRow
  <2>4. JobHandedOn(w)
    <3>1. there \in Correcting => Corrected(j)'
      BY <1>4, <2>1, <1>job DEF Corrected, Task!At, Task!JobOf
    <3> QED
      BY <1>4, <3>1, <1>job DEF JobHandedOn
  <2>5. NotYetReview(w)'
    BY <1>4, <2>1, <1>job DEF NotYetReview
  <2> QED
    BY <2>1, <2>2, <2>3, <2>4, <2>5, <1>others DEF WorkerEffect
<1>sel. loaded[w] # NoRow =>
            /\ loaded[w].tier # None => rows[j].tier # None
            /\ j \notin forked =>
                  /\ loaded[w].tier = rows[j].tier
                  /\ loaded[w].status # "review" => rows[j].status # "review"
                  /\ loaded[w].status = "failed" => ~Unreviewed(j)
                  /\ pc[w] = "override" => loaded[w].status # "review"
  BY <1>inv, <1>job DEF Selected
<1>5. CASE Task!MarkProcessing(w)
  <2>1. /\ pc[w] = "mark" /\ pc' = [pc EXCEPT ![w] = "stages"]
        /\ UNCHANGED <<ready, task, forked, abandoned, tier>>
        /\ Task!WriteStatus(w, "processing", None) /\ loaded[w] # NoRow
    BY <1>5, OneTable DEF Task!MarkProcessing, Task!Goto, Task!Quiet,
       Task!history, Task!None, None, Task!WriteStatus, Task!Update, Task!KeepFindings
  <2>2. "processing" \in StoredStatus /\ None \in ErrorMessage
    BY DEF StoredStatus, ErrorMessage
  <2>3. LET old == rows[j]  new == rows'[j] IN
        /\ \A k \in Jobs \ {j} : rows'[k] = rows[k]
        /\ new.status = IF "processing" # loaded[w].status THEN "processing" ELSE old.status
        /\ new.tier = old.tier /\ new.result = old.result
    BY <2>1, <2>2, <1>job, RunWrites
  <2>4. "stages" \in Correcting
    BY DEF Correcting, Task!Running, Task!Writing
  <2>5. /\ rows'[j].status # Absent /\ (Sound(rows[j]) => Sound(rows'[j]))
        /\ j \notin forked => rows'[j].status # "review"
    BY <2>1, <2>3, <1>inv, <1>job, <1>sel DEF Sound, Absent
  <2> QED
    BY <1>4, <2>1, <2>3, <2>4, <2>5 DEF Correcting, Task!Running, Task!Writing
<1>6. CASE Task!PersistResult(w)
  <2> DEFINE there == IF tier[w] = "review" THEN "override" ELSE "close"
  <2>1. /\ pc[w] = "persist" /\ pc' = [pc EXCEPT ![w] = there]
        /\ UNCHANGED <<ready, task, forked, abandoned, tier>>
        /\ Task!WriteResult(w) /\ loaded[w] # NoRow
    BY <1>6, OneTable DEF Task!PersistResult, Task!Goto, Task!Quiet,
       Task!history, Task!WriteResult, Task!Update, Task!KeepFindings
  <2>2. LET old == rows[j]  new == rows'[j] IN
        /\ \A k \in Jobs \ {j} : rows'[k] = rows[k]
        /\ new.status = IF "completed" # loaded[w].status THEN "completed" ELSE old.status
        /\ new.tier = IF tier[w] # loaded[w].tier THEN tier[w] ELSE old.tier
        /\ new.result = [tier |-> tier[w], review |-> None]
    BY <2>1, <1>job, RunWrites
  <2>3. tier[w] # None
    BY <2>1, <1>inv DEF RunsHaveTier
  <2>4. /\ rows'[j].status # Absent /\ Sound(rows'[j]) /\ rows'[j].tier # None
        /\ j \notin forked => rows'[j].status # "review" /\ rows'[j].tier = tier[w]
    BY <2>1, <2>2, <2>3, <1>inv, <1>job, <1>sel DEF Sound, Absent
  <2>5. there = "close" /\ j \notin forked => ~Unreviewed(j)'
    BY <2>4 DEF Unreviewed
  <2>6. there \in {"override", "close"} /\ (there \notin Correcting => there = "close")
    BY DEF Correcting, Task!Running
  <2> HIDE DEF there
  <2> QED
    BY <1>4, <2>1, <2>2, <2>4, <2>5, <2>6 DEF Correcting, Task!Running, Task!Writing
<1>7. CASE Task!OverrideReview(w)
  <2>1. /\ pc[w] = "override" /\ pc' = [pc EXCEPT ![w] = "close"]
        /\ UNCHANGED <<ready, task, forked, abandoned, tier>>
        /\ Task!WriteStatus(w, "review", None) /\ loaded[w] # NoRow
    BY <1>7, OneTable DEF Task!OverrideReview, Task!Goto, Task!Quiet,
       Task!history, Task!None, None, Task!WriteStatus, Task!Update, Task!KeepFindings
  <2>2. "review" \in StoredStatus /\ None \in ErrorMessage
    BY DEF StoredStatus, ErrorMessage
  <2>3. LET old == rows[j]  new == rows'[j] IN
        /\ \A k \in Jobs \ {j} : rows'[k] = rows[k]
        /\ new.status = IF "review" # loaded[w].status THEN "review" ELSE old.status
        /\ new.tier = old.tier /\ new.result = old.result
    BY <2>1, <2>2, <1>job, RunWrites
  <2>4. /\ rows'[j].status # Absent /\ (Sound(rows[j]) => Sound(rows'[j]))
        /\ j \notin forked => ~Unreviewed(j)'
    BY <2>1, <2>3, <1>inv, <1>job, <1>sel DEF Sound, Absent, Unreviewed
  <2> QED
    BY <1>4, <2>1, <2>3, <2>4, <1>between DEF Correcting, Task!Running, Task!Writing
<1>8. CASE Task!MarkJobFailed(w)
  <2>1. /\ pc[w] = "raised" /\ pc' = [pc EXCEPT ![w] = "done"]
        /\ UNCHANGED <<ready, task, forked, abandoned, tier>>
        /\ Task!WriteStatus(w, "failed", "exception") /\ loaded[w] # NoRow
    BY <1>8, OneTable DEF Task!MarkJobFailed, Task!Goto, Task!Quiet,
       Task!history, Task!WriteStatus, Task!Update, Task!KeepFindings
  <2>2. "failed" \in StoredStatus /\ "exception" \in ErrorMessage
    BY DEF StoredStatus, ErrorMessage
  <2>3. LET old == rows[j]  new == rows'[j] IN
        /\ \A k \in Jobs \ {j} : rows'[k] = rows[k]
        /\ new.status = IF "failed" # loaded[w].status THEN "failed" ELSE old.status
        /\ new.tier = old.tier /\ new.result = old.result
    BY <2>1, <2>2, <1>job, RunWrites
  <2>4. /\ rows'[j].status # Absent /\ (Sound(rows[j]) => Sound(rows'[j]))
        /\ j \notin forked => ~Unreviewed(j)'
    BY <2>1, <2>3, <1>inv, <1>job, <1>sel DEF Sound, Absent, Unreviewed
  <2> QED
    BY <1>4, <2>1, <2>3, <2>4, <1>between DEF Correcting, Task!Running, Task!Writing
\* The ends of a run.
<1>9. CASE Task!LoseRetry(w) \/ Task!CleanupFails(w)
  <2>1. /\ pc[w] = "raised" /\ pc' = [pc EXCEPT ![w] = "done"]
        /\ UNCHANGED <<rows, ready, task, forked>>
        /\ abandoned' = abandoned \union {j}
    BY <1>9, <1>run, <1>job DEF Task!LoseRetry, Task!CleanupFails, Task!Goto,
       Task!Abandon
  <2>2. JobHandedOn(w)
    BY <2>1, <1>job DEF JobHandedOn, Corrected
  <2>3. NotYetReview(w)' /\ pc'[w] = "done"
    BY <2>1, <1>typing, <1>between DEF NotYetReview
  <2> QED
    BY <2>1, <2>2, <2>3, <1>typing, <1>others DEF WorkerEffect, MessagesMove,
       OwnRowWritten
<1>10. CASE Task!ScheduleRetry(w)
  <2> DEFINE m == Task!Message(j, task[w].retries + 1)
  <2>1. /\ pc[w] = "raised" /\ pc' = [pc EXCEPT ![w] = "rescheduled"]
        /\ UNCHANGED <<rows, task, forked, abandoned>>
        /\ ready' = [ready EXCEPT ![m] = @ + 1]
        /\ task[w].retries < MaxRetries
    BY <1>10, <1>run, <1>job DEF Task!ScheduleRetry, Task!Goto, Task!Quiet,
       Task!history
  <2>2. m \in Task!Messages /\ m.job = j
    <3>1. task[w].retries \in 0..MaxRetries
      BY <1>run DEF Task!Messages
    <3>2. task[w].retries + 1 \in 0..MaxRetries
      BY <2>1, <3>1, RetryAssumption
    <3> QED
      BY <3>2 DEF Task!Message, Task!Messages
  <2> HIDE DEF m
  <2>3. \A n \in Task!Messages :
            ready'[n] = IF n = m THEN ready[n] + 1 ELSE ready[n]
    BY <2>1, <2>2, <1>typing
  <2>4. MessagesMove(w)
    BY <2>1, <2>2, <2>3, <1>typing, <1>job DEF MessagesMove
  <2>5. JobHandedOn(w)
    BY <2>2, <2>3, <1>typing, <1>job DEF JobHandedOn, Corrected, Task!InQueue
  <2>6. NotYetReview(w)' /\ pc'[w] = "rescheduled"
    BY <2>1, <1>typing, <1>between DEF NotYetReview
  <2> QED
    BY <2>1, <2>4, <2>5, <2>6, <1>others DEF WorkerEffect, OwnRowWritten
<1>11. CASE Task!Ack(w)
  <2>1. /\ pc[w] \in {"done", "rescheduled"} /\ pc' = [pc EXCEPT ![w] = "idle"]
        /\ UNCHANGED <<rows, ready, forked, abandoned>>
    BY <1>11 DEF Task!Ack, Task!BecomeIdle, Task!Goto, Task!history, Task!Ended
  <2>2. NotYetReview(w)' /\ pc'[w] = "idle"
    BY <2>1, <1>typing, <1>between DEF NotYetReview
  <2> QED
    BY <2>1, <2>2, <1>typing, <1>others DEF WorkerEffect, MessagesMove, JobHandedOn,
       OwnRowWritten, Correcting, Task!Running, Task!Writing
<1>12. CASE Task!Crash(w)
  <2>1. /\ pc' = [pc EXCEPT ![w] = "idle"]
        /\ UNCHANGED rows
        /\ \/ unacked[w] /\ ready' = [ready EXCEPT ![task[w]] = @ + 1]
           \/ ~unacked[w] /\ ready' = ready
    BY <1>12 DEF Task!Crash, Task!BecomeIdle, Task!Goto
  <2>2. MessagesMove(w) /\ NotYetReview(w)' /\ pc'[w] = "idle"
    BY <2>1, <1>run, <1>job, <1>typing, <1>between DEF MessagesMove, NotYetReview
  <2>3. JobHandedOn(w)
    <3>1. CASE unacked[w]
      <4>1. task[w] \in Task!Messages /\ ready'[task[w]] > 0
        BY <2>1, <3>1, <1>run, <1>job, <1>typing
      <4> QED
        BY <4>1, <1>job, <1>run DEF JobHandedOn, Corrected, Task!InQueue
    <3>2. CASE ~unacked[w]
      <4>1. pc[w] \in Correcting => j \in forked
        BY <3>2, <1>job DEF Inv, InOneHand, Task!TakenBackIsForked, Correcting,
           Task!Active, Task!JobOf
      <4> QED
        BY <2>1, <4>1, <1>job, <1>others DEF JobHandedOn, OthersUntouched
    <3> QED
      BY <3>1, <3>2
  <2> QED
    BY <2>1, <2>2, <2>3, <1>others DEF WorkerEffect, OwnRowWritten
<1>13. CASE Task!Redeliver(w)
  <2>1. /\ pc' = pc
        /\ UNCHANGED <<rows, task, tier>>
        /\ forked' = forked \union {j}
        /\ ready' = [ready EXCEPT ![task[w]] = @ + 1]
    BY <1>13, <1>run, <1>job DEF Task!Redeliver, Task!KeepRun, Task!KeepFindings
  <2>2. MessagesMove(w) /\ NotYetReview(w)'
    BY <2>1, <1>run, <1>job, <1>typing DEF MessagesMove, NotYetReview
  <2>3. JobHandedOn(w)
    BY <2>1, <1>job DEF JobHandedOn
  <2> QED
    BY <2>1, <2>2, <2>3, <1>inv, <1>others DEF WorkerEffect, OwnRowWritten,
       RunsHaveTier
<1> QED
  BY <1>2, <1>3, <1>5, <1>6, <1>7, <1>8, <1>9, <1>10, <1>11, <1>12, <1>13
     DEF WorkerStep, Task!Pull, Task!Deliver, Task!RunStep

\* The only run of a job is the only one that writes its row.
LEMMA AloneWithRow ==
    ASSUME Inv, Task!TypeOK, NEW v \in Workers, NEW w \in Workers, v # w,
           WorkerEffect(w), pc[v] \in Task!Running, task[v].job \notin forked'
    PROVE  task[v].job \in Jobs /\ rows'[task[v].job] = rows[task[v].job]
<1>1. task[v].job \in Jobs /\ task[v].job \notin forked
  BY DEF Task!TypeOK, Task!Messages, Task!Running, Task!Writing, WorkerEffect,
     OthersUntouched
<1>2. ~(pc[w] \in Correcting /\ task[w].job = task[v].job)
  BY <1>1 DEF Inv, InOneHand, Task!Custody, Task!CustodyOf, Task!Holds, Task!JobOf,
     Task!Active, Correcting
<1> QED
  BY <1>1, <1>2 DEF WorkerEffect, OwnRowWritten

LEMMA WorkerKeepsSelections ==
    ASSUME Inv, Task!TypeOK, NEW w \in Workers, WorkerEffect(w)
    PROVE  SelectionsHold'
<1>typing. /\ \A v \in Workers : pc[v] # "idle" => task[v].job \in Jobs
           /\ rows \in [Jobs -> Row]
  BY OneTable DEF Task!TypeOK, Task!Messages
<1>forked. forked \subseteq forked'
  BY DEF WorkerEffect, OthersUntouched
<1>places. /\ \A v \in Workers : Task!AtWrite(v) => pc[v] \in Task!Running
           /\ BetweenWrites \subseteq Task!Running /\ "idle" \notin Task!Running
  BY DEF Task!AtWrite, BetweenWrites, Task!Running, Task!Writing
<1>1. ASSUME NEW v \in Workers \ {w} PROVE Selected(v)' /\ NotYetReview(v)'
  <2>1. /\ pc'[v] = pc[v] /\ task'[v] = task[v] /\ loaded'[v] = loaded[v]
    BY <1>1 DEF WorkerEffect, OthersUntouched
  <2>2. Selected(v) /\ NotYetReview(v)
    BY DEF Inv, SelectionsHold
  <2>3. pc[v] \in Task!Running /\ task[v].job \notin forked' =>
            rows'[task[v].job] = rows[task[v].job]
    BY <1>1, AloneWithRow
  <2>4. Task!AtWrite(v) => Task!AtWrite(v)'
    BY <2>1 DEF Task!AtWrite
  <2>5. pc[v] # "idle" =>
            (rows[task[v].job].tier # None => rows'[task[v].job].tier # None)
    BY <1>typing DEF WorkerEffect, OwnRowWritten
  <2>6. NotYetReview(v)'
    BY <2>1, <2>2, <2>3, <1>places, <1>forked DEF NotYetReview
  <2>7. Selected(v)'
    BY <2>1, <2>2, <2>3, <2>4, <2>5, <1>places, <1>forked DEF Selected, Unreviewed
  <2> QED
    BY <2>6, <2>7
<1>2. Selected(w)' /\ NotYetReview(w)'
  <2>1. NotYetReview(w)' /\ SelectionMoves(w)
    BY DEF WorkerEffect
  <2>2. CASE loaded'[w] = NoRow
    BY <2>1, <2>2 DEF Selected
  <2>3. CASE /\ pc'[w] = pc[w] /\ task'[w] = task[w] /\ rows' = rows
             /\ pc[w] \in Correcting /\ Task!AtWrite(w)
             /\ loaded'[w] \in {loaded[w], rows[task[w].job]}
    <3>1. Task!AtWrite(w)'
      BY <2>3 DEF Task!AtWrite
    <3>2. pc[w] # "idle" /\ InRow(task[w].job)
      BY <2>3, <1>places DEF Inv, Backed, RunsBacked
    <3>3. Selected(w) /\ NotYetReview(w)
      BY DEF Inv, SelectionsHold
    <3>4. CASE loaded'[w] = loaded[w]
      BY <2>1, <2>3, <3>1, <3>3, <3>4, <1>forked DEF Selected, Unreviewed
    <3>5. CASE loaded'[w] = rows[task[w].job]
      BY <2>1, <2>3, <3>1, <3>2, <3>3, <3>5, <1>forked
         DEF Selected, NotYetReview, BetweenWrites, InRow, Unreviewed
    <3> QED
      BY <2>3, <3>4, <3>5
  <2> QED
    BY <2>1, <2>2, <2>3 DEF SelectionMoves
<1> QED
  BY <1>1, <1>2 DEF SelectionsHold

LEMMA WorkerKeepsInv ==
    ASSUME Inv, NEW w \in Workers, Pull(w) \/ RunStep(w) \/ WorkerFault(w)
    PROVE  Inv'
<1>step. /\ Task!TypeOK /\ WorkerStep(w) /\ [Task!Next]_(Task!vars)
         /\ UNCHANGED <<disk, step, turn, summary, desk, subject, copy, picked>>
  BY StepsOfWorkers DEF Inv
<1>effect. WorkerEffect(w)
  BY <1>step, WorkerEffects
<1>typing. /\ \A v \in Workers : pc[v] # "idle" =>
                 task[v] \in Task!Messages /\ task[v].job \in Jobs
           /\ \A r \in Reviewers : desk[r] # "free" => subject[r] \in Jobs
           /\ \A p \in Requests : Api!Uploads(p) \subseteq Jobs
           /\ \A m \in Task!Messages : m.job \in Jobs
  BY <1>step, FilesTyped DEF Inv, Typed, TypeOK, Task!TypeOK, Desk!TypeOK, Task!Messages
<1>rows. \A j \in Jobs : /\ InRow(j)' <=> InRow(j)
                         /\ Sound(rows[j]) => Sound(rows'[j])
                         /\ rows[j].tier # None => rows'[j].tier # None
  BY <1>effect DEF WorkerEffect, OwnRowWritten, InRow
<1>1. Typed'
  BY WorkerTyped DEF Inv
<1>2. MessagesBacked'
  BY <1>effect, <1>step, <1>typing, <1>rows DEF Inv, Backed, MessagesBacked,
     RunsBacked, WorkerEffect, MessagesMove
<1>3. RunsBacked'
  BY <1>effect, <1>step, <1>typing, <1>rows DEF Inv, Backed, MessagesBacked,
     RunsBacked, WorkerEffect, MessagesMove, OthersUntouched
<1>4. RequestsBacked' /\ NotYetCreated'
  BY <1>step, <1>typing, <1>rows DEF Inv, Backed, RequestsBacked, NotYetCreated,
     Api!NewJobs, Api!Uploads
<1>5. RunsHaveTier'
  BY <1>effect DEF Inv, RunsHaveTier, WorkerEffect, OthersUntouched
<1>6. TiersHaveResults'
  BY <1>rows DEF Inv, TiersHaveResults
<1>7. DecisionsHaveTier'
  BY <1>step, <1>typing, <1>rows DEF Inv, DecisionsHaveTier
<1>8. AnswersNameJobs' /\ CachedAnswerIsReal'
  BY <1>step, <1>rows DEF Inv, AnswersNameJobs, CachedAnswerIsReal, InRow
<1>9. InOneHand'
  <2>1. Task!Custody' /\ Task!TakenBackIsForked'
    BY <1>step, Task!NextCustody, TaskAssumptions DEF Inv, InOneHand
  <2>2. \A j : Unheard(j) => Unheard(j)'
    BY <1>effect DEF Unheard, WorkerEffect, MessagesMove, OthersUntouched
  <2> QED
    BY <1>step, <2>1, <2>2 DEF Inv, InOneHand, NotYetPublished, BeforePublication
<1>10. ASSUME NEW j \in Jobs \ forked', Unreviewed(j)' PROVE Corrected(j)'
  <2>1. j \in Jobs \ forked
    BY <1>10, <1>effect DEF WorkerEffect, OthersUntouched
  <2>2. pc[w] \in Correcting /\ j = task[w].job => Corrected(j)'
    BY <1>10, <2>1, <1>effect DEF WorkerEffect, JobHandedOn
  <2>3. CASE pc[w] \notin Correcting \/ j # task[w].job
    <3>1. Corrected(j)
      BY <2>1, <2>3, <1>10, <1>effect
         DEF WorkerEffect, OwnRowWritten, Unreviewed, Inv, UnreviewedIsCorrected
    <3>2. CASE Task!InQueue(j)
      <4>1. PICK m \in Task!Messages : m.job = j /\ ready[m] > 0
        BY <3>2 DEF Task!InQueue
      <4>2. ready'[m] > 0 \/ (pc'[w] = "fetch" /\ task'[w] = m)
        BY <4>1, <1>effect DEF WorkerEffect, MessagesMove
      <4>3. "fetch" \in Correcting
        BY DEF Correcting, Task!Running, Task!Writing
      <4> QED
        BY <4>1, <4>2, <4>3 DEF Corrected, Task!InQueue, Task!At, Task!JobOf
    <3>3. CASE Task!At(j, Correcting)
      <4>1. PICK v \in Workers : pc[v] \in Correcting /\ task[v].job = j
        BY <3>3 DEF Task!At, Task!JobOf
      <4>2. pc'[v] = pc[v] /\ task'[v] = task[v]
        BY <2>3, <4>1, <1>effect DEF WorkerEffect, OthersUntouched
      <4> QED
        BY <4>1, <4>2 DEF Corrected, Task!At, Task!JobOf
    <3>4. CASE j \in abandoned
      BY <3>4, <1>effect DEF WorkerEffect, OthersUntouched, Corrected
    <3> QED
      BY <3>1, <3>2, <3>3, <3>4 DEF Corrected
  <2> QED
    BY <2>2, <2>3
<1>11. SelectionsHold'
  BY <1>step, <1>effect, WorkerKeepsSelections
<1> QED
  BY <1>1, <1>2, <1>3, <1>4, <1>5, <1>6, <1>7, <1>8, <1>9, <1>10, <1>11
     DEF Inv, Backed, UnreviewedIsCorrected

-----------------------------------------------------------------------------
(* The steps of a request.                                                  *)

\* What a request is about to do its uploads are its own: no other request
\* creates their rows.
LEMMA UploadsAreOwn ==
    ASSUME NEW p \in Requests, NEW q \in Requests, p # q
    PROVE  Api!Uploads(p) \intersect Api!Uploads(q) = {}
  BY FilesAssumption DEF Api!Uploads

LEMMA ApiKeepsInv ==
    ASSUME Inv, NEW p \in Requests, ApiStep(p) \/ ApiCrash(p)
    PROVE  Inv'
<1>typing. /\ rows \in [Jobs -> Row] /\ ready \in [Task!Messages -> Nat]
           /\ disk \subseteq Jobs /\ step \in [Requests -> Api!Step]
           /\ summary \in [Jobs -> Api!Summary]
           /\ turn \in [Requests -> Nat \ {0}]
           /\ \A r \in Reviewers : desk[r] # "free" => subject[r] \in Jobs
           /\ \A w \in Workers : pc[w] # "idle" => task[w].job \in Jobs
           /\ \A q \in Requests : Api!Uploads(q) \subseteq Jobs
           /\ \A m \in Task!Messages : m.job \in Jobs
  BY OneTable, SameType, FilesTyped DEF Inv, Typed, TypeOK, Task!TypeOK,
     Desk!TypeOK, Task!Messages, AtAFile
<1>current. step[p] \in Api!Busy =>
                Api!Current(p) \in Api!Uploads(p) /\ Api!Current(p) \in Jobs
  BY <1>typing DEF Inv, Typed, AtAFile, Api!Current, Api!Uploads
<1>others. UNCHANGED <<pc, task, tier, unacked, loaded, forked, abandoned,
                       desk, subject, copy, picked>>
  BY DEF ApiStep, ApiCrash, celeryVars, deskVars
<1>1. Typed'
  BY ApiTyped DEF Inv
<1>2. RunsHaveTier' /\ Task!TakenBackIsForked'
  BY <1>others DEF Inv, RunsHaveTier, InOneHand, Task!TakenBackIsForked, Task!JobOf
\* No request changes a row that is there.
<1>selections. ASSUME \A j \in Jobs : InRow(j) => rows'[j] = rows[j]
               PROVE  SelectionsHold'
  <2>1. \A w \in Workers : pc[w] # "idle" => rows'[task[w].job] = rows[task[w].job]
    BY <1>selections, <1>typing DEF Inv, Backed, RunsBacked
  <2>2. \A w \in Workers : /\ Task!AtWrite(w)' <=> Task!AtWrite(w)
                           /\ Task!AtWrite(w) => pc[w] # "idle"
    BY <1>others DEF Task!AtWrite
  <2>3. "idle" \notin BetweenWrites
    BY DEF BetweenWrites
  <2> QED
    BY <1>others, <2>1, <2>2, <2>3
       DEF Inv, SelectionsHold, Selected, NotYetReview, Unreviewed
<1>custody. ASSUME ready' = ready PROVE Task!Custody'
  BY <1>custody, <1>others DEF Inv, InOneHand, Task!Custody, Task!CustodyOf,
     Task!Holds, Task!JobOf, Task!InQueue
\* Steps that write no row and publish nothing.
<1>3. ASSUME rows' = rows, ready' = ready,
             disk \subseteq disk',
             \A q \in Requests \ {p} : step'[q] = step[q],
             step'[p] \in {"received", "dedup", "persist"} =>
                 step[p] \in {"received", "dedup", "persist"},
             step'[p] # "enqueue",
             turn' = turn \/ step[p] \in {"received", "dedup", "persist"},
             \A q \in Requests \ {p} : turn'[q] = turn[q],
             \A j \in Jobs \ Api!Uploads(p) : summary'[j] = summary[j],
             \A j \in Jobs :
                 \/ summary'[j] = summary[j]
                 \/ summary'[j].kind = "queued" /\ j \in disk'
                 \/ /\ step[p] = "dedup" /\ j \in Api!Uploads(p)
                    /\ summary'[j].kind = "cached"
                    /\ summary'[j].from \in Api!CacheHits(j)
                    /\ summary'[j].result = rows[summary'[j].from].result
      PROVE  Inv'
  <2>1. Backed'
    <3>1. MessagesBacked' /\ RunsBacked'
      BY <1>3, <1>others, <1>typing
         DEF Inv, Backed, MessagesBacked, RunsBacked, InRow
    <3>2. \A j \in Jobs : summary'[j].kind = "queued" => j \in disk'
      BY <1>3 DEF Inv, Backed, RequestsBacked
    <3>3. ASSUME NEW q \in Requests, step'[q] = "enqueue"
          PROVE  \A j \in Api!NewJobs(q)' : InRow(j)'
      <4>1. q # p /\ step[q] = "enqueue"
        BY <1>3, <3>3
      <4>2. \A j \in Api!Uploads(q) : j \in Jobs \ Api!Uploads(p)
        BY <4>1, UploadsAreOwn, <1>typing
      <4>3. Api!NewJobs(q)' = Api!NewJobs(q)
        BY <4>2, <1>3 DEF Api!NewJobs, Api!Uploads
      <4> QED
        BY <4>1, <4>3, <1>3 DEF Inv, Backed, RequestsBacked, InRow
    <3> QED
      BY <3>1, <3>2, <3>3 DEF Backed, RequestsBacked
  <2>2. NotYetCreated'
    BY <1>3 DEF Inv, NotYetCreated, InRow, Api!Uploads
  <2>3. TiersHaveResults' /\ DecisionsHaveTier'
    BY <1>3, <1>others DEF Inv, TiersHaveResults, DecisionsHaveTier
  <2>4. AnswersNameJobs' /\ CachedAnswerIsReal'
    <3> SUFFICES ASSUME NEW j \in Jobs, summary'[j].kind = "cached"
                 PROVE  LET k == summary'[j].from IN
                        /\ k \in Jobs /\ FileHash[k] = FileHash[j] /\ k # j
                        /\ summary'[j].result.tier # None
                        /\ rows[k].status # Absent /\ rows[k].tier # None
      BY <1>3 DEF AnswersNameJobs, CachedAnswerIsReal
    <3>1. CASE summary'[j] = summary[j]
      BY <3>1 DEF Inv, AnswersNameJobs, CachedAnswerIsReal
    <3>2. CASE /\ step[p] = "dedup" /\ j \in Api!Uploads(p)
               /\ summary'[j].from \in Api!CacheHits(j)
               /\ summary'[j].result = rows[summary'[j].from].result
      <4> DEFINE k == summary'[j].from
      <4>1. k \in Jobs /\ rows[k].status = "completed" /\ FileHash[k] = FileHash[j]
        BY <3>2 DEF Api!CacheHits
      <4>2. rows[k].tier # None /\ rows[k].result.tier # None
        BY <4>1 DEF Inv, TiersHaveResults, Sound
      <4>3. rows[j].status = Absent
        BY <3>2 DEF Inv, NotYetCreated, InRow
      <4> QED
        BY <3>2, <4>1, <4>2, <4>3 DEF Absent
    <3> QED
      BY <1>3, <3>1, <3>2
  <2>5. UnreviewedIsCorrected'
    BY <1>3, <1>others DEF Inv, UnreviewedIsCorrected, Unreviewed, Corrected,
       Task!InQueue, Task!At, Task!JobOf
  <2>6. InOneHand'
    <3>1. \A j : Unheard(j) => Unheard(j)'
      BY <1>3, <1>others DEF Unheard
    <3>2. \A q \in Requests, i \in Nat :
              BeforePublication(q, i)' => BeforePublication(q, i)
      BY <1>3 DEF BeforePublication
    <3> QED
      BY <1>2, <1>3, <1>custody, <3>1, <3>2, FilesTyped
         DEF Inv, InOneHand, NotYetPublished
  <2>7. SelectionsHold'
    BY <1>3, <1>selections
  <2> QED
    BY <1>1, <1>2, <2>1, <2>2, <2>3, <2>4, <2>5, <2>6, <2>7 DEF Inv
<1>4. CASE Api!Validate(p) \/ Api!SubmitFails(p) \/ Api!ApiCrash(p)
  <2>1. /\ UNCHANGED <<rows, ready, disk, turn, summary>>
        /\ \E there \in {"dedup", "refused", "failed", "crashed"} :
              /\ step' = [step EXCEPT ![p] = there]
              /\ there = "dedup" => step[p] = "received"
    BY <1>4 DEF Api!Validate, Api!SubmitFails, Api!ApiCrash, Api!GoTo
  <2> QED
    BY <1>3, <2>1, <1>typing
<1>5. ASSUME step[p] = "dedup", Api!NextFile(p)
      PROVE  /\ \A q \in Requests \ {p} : step'[q] = step[q]
             /\ step'[p] \in {"dedup", "persist"}
             /\ \A q \in Requests \ {p} : turn'[q] = turn[q]
  BY <1>5, <1>typing DEF Api!NextFile, Api!GoTo
<1>6. CASE Api!AnswerFromCache(p)
  <2>1. Api!Current(p) \in Api!Uploads(p) /\ Api!Current(p) \in Jobs
    BY <1>6, <1>current DEF Api!AnswerFromCache, Api!Busy
  <2>2. PICK k \in Api!CacheHits(Api!Current(p)) :
            summary' = [summary EXCEPT ![Api!Current(p)] = Api!CachedSummary(k)]
    BY <1>6 DEF Api!AnswerFromCache
  <2>3. \A j \in Jobs : summary'[j] = IF j = Api!Current(p) THEN Api!CachedSummary(k)
                                      ELSE summary[j]
    BY <2>1, <2>2, <1>typing
  <2> QED
    BY <1>3, <1>5, <1>6, <2>1, <2>3 DEF Api!AnswerFromCache, Api!CachedSummary
<1>7. CASE Api!SaveNewJob(p)
  <2>1. Api!Current(p) \in Api!Uploads(p) /\ Api!Current(p) \in Jobs
    BY <1>7, <1>current DEF Api!SaveNewJob, Api!Busy
  <2>2. \A j \in Jobs : summary'[j] = IF j = Api!Current(p)
                                      THEN Api!QueuedSummary(j) ELSE summary[j]
    BY <1>7, <2>1, <1>typing DEF Api!SaveNewJob
  <2> QED
    BY <1>3, <1>5, <1>7, <2>1, <2>2 DEF Api!SaveNewJob, Api!QueuedSummary
<1>8. CASE Api!CreateBatch(p)
  <2>1. /\ step[p] = "persist" /\ step' = [step EXCEPT ![p] = "enqueue"]
        /\ UNCHANGED <<ready, disk, turn, summary>>
        /\ Api!NewJobs(p) \subseteq Api!Uploads(p)
    BY <1>8 DEF Api!CreateBatch, Api!GoTo, Api!NewJobs
  <2>2. \A j \in Jobs :
            /\ j \in Api!NewJobs(p) => rows'[j].status = "queued" /\ rows'[j].tier = None
            /\ j \notin Api!NewJobs(p) => rows'[j] = rows[j]
    BY <1>8, <1>typing DEF Api!CreateBatch, Api!QueuedRow, Api!NoRow, Api!None, None
  <2>3. \A j \in Api!Uploads(p) : rows[j].status = Absent
    BY <2>1 DEF Inv, NotYetCreated, InRow
  <2>4. \A j \in Jobs : /\ InRow(j) => InRow(j)' /\ rows'[j] = rows[j]
                        /\ Sound(rows'[j])
                        /\ rows[j].tier # None => rows'[j] = rows[j]
    BY <2>1, <2>2, <2>3, <1>typing DEF InRow, Sound, Absent, Inv, TiersHaveResults
  <2>5. Backed'
    <3>1. MessagesBacked' /\ RunsBacked'
      BY <1>others, <1>typing, <2>1, <2>4 DEF Inv, Backed, MessagesBacked, RunsBacked
    <3>2. \A q \in Requests : Api!NewJobs(q)' = Api!NewJobs(q)
                              /\ Api!NewJobs(q) \subseteq Jobs
      BY <2>1, <1>typing DEF Api!NewJobs, Api!Uploads
    <3>3. \A j \in Api!NewJobs(p) : InRow(j)'
      BY <2>2, <3>2 DEF InRow, Absent
    <3> QED
      BY <2>1, <2>4, <3>1, <3>2, <3>3, <1>typing
         DEF Inv, Backed, RequestsBacked
  <2>6. NotYetCreated'
    <3> SUFFICES ASSUME NEW q \in Requests,
                        step'[q] \in {"received", "dedup", "persist"},
                        NEW j \in Api!Uploads(q)
                 PROVE  rows'[j].status = Absent
      BY DEF NotYetCreated, InRow, Api!Uploads
    <3>1. q # p /\ step'[q] = step[q]
      BY <2>1, <1>typing
    <3>2. j \in Jobs /\ j \notin Api!NewJobs(p)
      BY <2>1, <3>1, UploadsAreOwn, <1>typing
    <3> QED
      BY <2>2, <3>1, <3>2 DEF Inv, NotYetCreated, InRow
  <2>7. TiersHaveResults' /\ DecisionsHaveTier'
    BY <1>others, <1>typing, <2>4 DEF Inv, TiersHaveResults, DecisionsHaveTier
  <2>8. AnswersNameJobs' /\ CachedAnswerIsReal'
    BY <2>1, <2>4 DEF Inv, AnswersNameJobs, CachedAnswerIsReal, InRow
  <2>9. UnreviewedIsCorrected'
    BY <1>others, <2>1, <2>2 DEF Inv, UnreviewedIsCorrected, Unreviewed, Corrected,
       Task!InQueue, Task!At, Task!JobOf
  <2>10. InOneHand'
    <3>1. \A j : Unheard(j) => Unheard(j)'
      BY <2>1, <1>others DEF Unheard
    <3>2. \A q \in Requests, i \in Nat :
              BeforePublication(q, i)' => BeforePublication(q, i)
      BY <2>1, <1>typing DEF BeforePublication
    <3> QED
      BY <1>2, <1>custody, <2>1, <3>1, <3>2, FilesTyped
         DEF Inv, InOneHand, NotYetPublished
  <2>11. SelectionsHold'
    BY <2>4, <1>selections
  <2> QED
    BY <1>1, <1>2, <2>5, <2>6, <2>7, <2>8, <2>9, <2>10, <2>11 DEF Inv
<1>9. CASE Api!EnqueueExtraction(p)
  <2> DEFINE m == [job |-> Api!Current(p), retries |-> 0]
  <2>1. /\ step[p] = "enqueue" /\ UNCHANGED <<rows, disk, summary>>
        /\ \A q \in Requests \ {p} : step'[q] = step[q]
        /\ step'[p] \in {"enqueue", "accepted"}
    BY <1>9, <1>typing DEF Api!EnqueueExtraction, Api!NextMessage, Api!GoTo
  <2>2. m \in Task!Messages
    BY <2>1, <1>current, RetryAssumption DEF Task!Messages, Api!Busy
  <2>3. \A n \in Task!Messages :
            /\ ready[n] > 0 => ready'[n] > 0
            /\ ready'[n] > 0 =>
                  ready[n] > 0 \/ (n.job = Api!Current(p) /\ n.job \in Api!NewJobs(p))
    BY <1>9, <2>2, <1>typing DEF Api!EnqueueExtraction
  <2>4. Backed'
    <3>1. \A j \in Api!NewJobs(p) : j \in Jobs /\ InRow(j) /\ j \in disk
      BY <2>1, <1>typing DEF Inv, Backed, RequestsBacked, Api!NewJobs
    <3>2. MessagesBacked'
      BY <2>1, <2>3, <3>1, <1>typing DEF Inv, Backed, MessagesBacked, InRow
    <3>3. RunsBacked'
      BY <2>1, <1>others DEF Inv, Backed, RunsBacked, InRow
    <3>4. RequestsBacked'
      BY <2>1 DEF Inv, Backed, RequestsBacked, InRow, Api!NewJobs, Api!Uploads
    <3> QED
      BY <3>2, <3>3, <3>4 DEF Backed
  <2>5. NotYetCreated'
    BY <2>1 DEF Inv, NotYetCreated, InRow, Api!Uploads
  <2>6. TiersHaveResults' /\ DecisionsHaveTier'
    BY <2>1, <1>others DEF Inv, TiersHaveResults, DecisionsHaveTier
  <2>7. AnswersNameJobs' /\ CachedAnswerIsReal'
    BY <2>1 DEF Inv, AnswersNameJobs, CachedAnswerIsReal
  <2>8. UnreviewedIsCorrected'
    BY <1>others, <2>1, <2>3 DEF Inv, UnreviewedIsCorrected, Unreviewed, Corrected,
       Task!InQueue, Task!At, Task!JobOf
  <2>9. InOneHand'
    <3> DEFINE c == Api!Current(p)
    <3>1. turn[p] \in DOMAIN Files[p] /\ c = Files[p][turn[p]]
      BY <2>1 DEF Inv, Typed, AtAFile, Api!Busy, Api!Current
    <3>2. /\ \/ ready' = ready
             \/ ready' = [ready EXCEPT ![m] = @ + 1]
          /\ step'[p] = "accepted" \/ turn'[p] = turn[p] + 1
          /\ \A q \in Requests \ {p} : turn'[q] = turn[q]
      BY <1>9, <1>typing DEF Api!EnqueueExtraction, Api!NextMessage, Api!GoTo
    <3>3. \A q \in Requests, i \in Nat :
              BeforePublication(q, i)' => /\ BeforePublication(q, i)
                                          /\ q = p => i # turn[p]
      BY <2>1, <3>2, <1>typing DEF BeforePublication
    <3>4. \A j : j # c /\ Unheard(j) => Unheard(j)'
      BY <2>2, <3>2, <1>others, <1>typing DEF Unheard
    <3>5. NotYetPublished'
      <4> SUFFICES ASSUME NEW q \in Requests, NEW i \in DOMAIN Files[q],
                          BeforePublication(q, i)'
                   PROVE  Unheard(Files[q][i])'
        BY DEF NotYetPublished
      <4>1. BeforePublication(q, i) /\ (q = p => i # turn[p])
        BY <3>3, FilesTyped
      <4>2. Files[q][i] # c
        BY <3>1, <4>1, FilesAssumption
      <4> QED
        BY <3>4, <4>1, <4>2 DEF Inv, InOneHand, NotYetPublished
    <3>6. Unheard(c)
      BY <2>1, <3>1, <1>typing
         DEF Inv, InOneHand, NotYetPublished, BeforePublication
    <3>7. ASSUME ready' = [ready EXCEPT ![m] = @ + 1] PROVE Task!Custody'
      <4> SUFFICES ASSUME NEW j \in Jobs \ forked PROVE Task!CustodyOf(j)'
        BY <1>others DEF Task!Custody
      <4>1. Task!CustodyOf(j)
        BY DEF Inv, InOneHand, Task!Custody
      <4>2. \A n \in Task!Messages : n # m => ready'[n] = ready[n]
        BY <3>7, <1>typing
      <4>3. \A w \in Workers : Task!Holds(w, j)' => Task!Holds(w, j)
        BY <1>others DEF Task!Holds, Task!JobOf
      <4>4. CASE j = c
        <5>1. /\ \A w \in Workers : ~Task!Holds(w, j)'
              /\ \A n \in Task!Messages : n.job = j => ready[n] = 0
          BY <3>6, <4>3, <4>4, <1>typing
             DEF Unheard, Task!Holds, Task!Active, Task!Running, Task!Writing, Task!JobOf
        <5>2. ready'[m] = 1
          BY <2>2, <3>7, <4>4, <5>1, <1>typing
        <5> QED
          BY <4>2, <5>1, <5>2 DEF Task!CustodyOf, Task!InQueue
      <4>5. CASE j # c
        <5>1. \A n \in Task!Messages : n.job = j => ready'[n] = ready[n]
          BY <4>2, <4>5
        <5> QED
          BY <4>1, <4>3, <5>1 DEF Task!CustodyOf, Task!InQueue
      <4> QED
        BY <4>4, <4>5
    <3> QED
      BY <1>2, <1>custody, <3>2, <3>5, <3>7 DEF InOneHand
  <2>10. SelectionsHold'
    BY <2>1, <1>selections
  <2> QED
    BY <1>1, <1>2, <2>4, <2>5, <2>6, <2>7, <2>8, <2>9, <2>10 DEF Inv
<1> QED
  BY <1>4, <1>6, <1>7, <1>8, <1>9 DEF ApiStep, ApiCrash, Api!SubmitStep

-----------------------------------------------------------------------------
(* The steps of a reviewer.                                                 *)

\* A decision changes what a row says, not that it is there nor its tier; it
\* puts no row up for review and publishes none without an approval.
Decided(j) ==
    /\ InRow(j)' <=> InRow(j)
    /\ Sound(rows[j]) => Sound(rows'[j])
    /\ rows'[j].tier = rows[j].tier
    /\ rows'[j].status = "review" => rows[j].status = "review"
    /\ Unreviewed(j)' => Unreviewed(j)

LEMMA DeskKeepsInv ==
    ASSUME Inv, NEW r \in Reviewers, DeskStep(r)
    PROVE  Inv'
<1>typing. /\ rows \in [Jobs -> Row]
           /\ desk \in [Reviewers -> {"free", "approve", "reject"}]
           /\ subject \in [Reviewers -> Jobs \union {Desk!None}]
           /\ \A q \in Reviewers : desk[q] # "free" => subject[q] \in Jobs
           /\ copy \in [Reviewers -> Result]
           /\ picked \in [Reviewers -> Row]
           /\ \A w \in Workers : pc[w] # "idle" => task[w].job \in Jobs
           /\ \A q \in Requests : Api!Uploads(q) \subseteq Jobs
           /\ \A m \in Task!Messages : m.job \in Jobs
  BY OneTable, SameType, FilesTyped DEF Inv, Typed, TypeOK, Task!TypeOK, Desk!TypeOK,
     Task!Messages
<1>others. UNCHANGED <<ready, disk, step, turn, summary, pc, task, tier, unacked,
                       loaded, forked, abandoned>>
  BY DEF DeskStep, apiVars, celeryVars
<1>1. Typed'
  BY DeskTyped DEF Inv
<1>2. RunsHaveTier' /\ Task!TakenBackIsForked'
  BY <1>others DEF Inv, RunsHaveTier, InOneHand, Task!TakenBackIsForked, Task!JobOf
<1>3. InOneHand'
  <2>1. Task!Custody'
    BY <1>others DEF Inv, InOneHand, Task!Custody, Task!CustodyOf,
       Task!Holds, Task!JobOf, Task!InQueue
  <2>2. NotYetPublished'
    BY <1>others DEF Inv, InOneHand, NotYetPublished, BeforePublication, Unheard
  <2> QED
    BY <1>2, <2>1, <2>2 DEF InOneHand
<1>4. ASSUME \A j \in Jobs : Decided(j), DecisionsHaveTier' PROVE Inv'
  <2>1. \A j \in Jobs : /\ InRow(j)' <=> InRow(j)
                        /\ rows'[j].tier = rows[j].tier
                        /\ rows'[j].status = "review" => rows[j].status = "review"
                        /\ Unreviewed(j)' => Unreviewed(j)
    BY <1>4 DEF Decided
  <2>2. Backed'
    BY <1>others, <1>typing, <2>1 DEF Inv, Backed, MessagesBacked, RunsBacked,
       RequestsBacked, Api!NewJobs, Api!Uploads
  <2>3. NotYetCreated'
    BY <1>others, <1>typing, <2>1 DEF Inv, NotYetCreated, Api!Uploads
  <2>4. TiersHaveResults'
    BY <1>4 DEF Inv, TiersHaveResults, Decided
  <2>5. AnswersNameJobs' /\ CachedAnswerIsReal'
    BY <1>others, <2>1 DEF Inv, AnswersNameJobs, CachedAnswerIsReal, InRow
  <2>6. UnreviewedIsCorrected'
    BY <1>others, <2>1 DEF Inv, UnreviewedIsCorrected, Corrected,
       Task!InQueue, Task!At, Task!JobOf
  <2>7. SelectionsHold'
    <3> SUFFICES ASSUME NEW w \in Workers PROVE Selected(w)' /\ NotYetReview(w)'
      BY DEF SelectionsHold
    <3>1. /\ Selected(w) /\ NotYetReview(w)
          /\ loaded'[w] = loaded[w] /\ task'[w] = task[w] /\ pc'[w] = pc[w]
          /\ forked' = forked
      BY <1>others DEF Inv, SelectionsHold
    <3>2. /\ Task!AtWrite(w)' <=> Task!AtWrite(w)
          /\ Task!AtWrite(w) \/ pc[w] \in BetweenWrites => task[w].job \in Jobs
      BY <1>typing, <3>1 DEF Task!AtWrite, BetweenWrites
    <3>3. Selected(w)'
      BY <2>1, <3>1, <3>2 DEF Selected
    <3>4. NotYetReview(w)'
      BY <2>1, <3>1, <3>2 DEF NotYetReview
    <3> QED
      BY <3>3, <3>4
  <2> QED
    BY <1>1, <1>2, <1>3, <1>4, <2>2, <2>3, <2>4, <2>5, <2>6, <2>7 DEF Inv
\* Steps that do not write.
<1>5. ASSUME rows' = rows PROVE \A j \in Jobs : Decided(j)
  BY <1>5 DEF Decided, InRow, Unreviewed
<1>6. ASSUME NEW j \in Jobs, Desk!OpenApproval(r, j) \/ Desk!OpenRejection(r, j)
      PROVE  Inv'
  <2>1. rows' = rows /\ picked' = picked /\ rows[j].tier = "review"
    BY <1>6 DEF Desk!OpenApproval, Desk!OpenRejection, Desk!MayBeDecided
  <2>2. rows[j].tier # None /\ rows[j].result.tier # None
    BY <2>1 DEF Inv, TiersHaveResults, Sound, None
  <2>3. DecisionsHaveTier'
    BY <1>6, <1>typing, <2>1, <2>2 DEF Inv, DecisionsHaveTier,
       Desk!OpenApproval, Desk!OpenRejection
  <2> QED
    BY <1>4, <1>5, <2>1, <2>3
<1>7. CASE Desk!Pick(r)
  <2>1. /\ rows' = rows /\ desk' = desk /\ subject' = subject /\ copy' = copy
        /\ desk[r] # "free" /\ subject[r] \in Jobs
        /\ picked' = [picked EXCEPT ![r] = rows[subject[r]]]
    BY <1>7, <1>typing DEF Desk!Pick
  <2>2. rows[subject[r]].status # Absent
    BY <2>1 DEF Inv, DecisionsHaveTier, TiersHaveResults, Sound
  <2>3. DecisionsHaveTier'
    BY <1>typing, <2>1, <2>2 DEF Inv, DecisionsHaveTier
  <2> QED
    BY <1>4, <1>5, <2>1, <2>3
\* The end of a call.
<1>8. ASSUME Desk!Free(r), \A j \in Jobs : rows'[j].tier = rows[j].tier
      PROVE  DecisionsHaveTier'
  BY <1>8, <1>typing DEF Inv, DecisionsHaveTier, Desk!Free, Desk!NoRow, NoRow,
     Desk!NoResult, NoResult, Desk!None, None, Desk!Absent, Absent
<1>9. ASSUME desk[r] # "free", Desk!Free(r), NEW new \in Row,
             NEW k, k = subject[r], rows' = [rows EXCEPT ![k] = new],
             new.tier = rows[k].tier,
             new.status \in {rows[k].status, "completed", "failed"},
             new.result.tier # None,
             \/ new.result.review = "approved"
             \/ new.status = "failed"
             \/ new.status = rows[k].status /\ new.result = rows[k].result
      PROVE  Inv'
  <2>1. k \in Jobs /\ \A j \in Jobs : rows'[j] = IF j = k THEN new ELSE rows[j]
    BY <1>9, <1>typing
  <2>2. rows[k].tier # None /\ rows[k].status # Absent
    BY <1>9, <2>1 DEF Inv, DecisionsHaveTier, TiersHaveResults, Sound
  <2>3. Decided(k)
    <3>1. rows'[k] = new /\ new.status # Absent
      BY <1>9, <2>1, <2>2 DEF Absent
    <3>2. Sound(rows'[k])
      BY <1>9, <2>2, <3>1 DEF Sound
    <3>3. Unreviewed(k)' => Unreviewed(k)
      BY <1>9, <3>1 DEF Unreviewed
    <3> QED
      BY <1>9, <2>2, <3>1, <3>2, <3>3 DEF Decided, InRow
  <2>4. ASSUME NEW j \in Jobs, j # k PROVE Decided(j)
    BY <2>1, <2>4 DEF Decided, InRow, Unreviewed
  <2> QED
    BY <1>4, <1>8, <1>9, <2>3, <2>4 DEF Decided
<1>written. ASSUME desk[r] # "free", picked[r] # Desk!NoRow
            PROVE  /\ subject[r] \in Jobs /\ rows[subject[r]] \in Row
                   /\ copy[r] \in Result /\ picked[r] \in Row
                   /\ picked[r].status # Absent
                   /\ rows[subject[r]].result.tier # None
  BY <1>written, <1>typing, OneTable DEF Inv, DecisionsHaveTier, TiersHaveResults, Sound
<1>10. CASE Desk!Approve(r)
  <2> DEFINE new == Approved(picked[r], copy[r], rows[subject[r]])
  <2>1. /\ desk[r] = "approve" /\ picked[r] # Desk!NoRow /\ Desk!Free(r)
        /\ rows' = [rows EXCEPT ![subject[r]] = new]
    BY <1>10, DecisionWrites
  <2>2. copy[r].tier # None
    BY <2>1 DEF Inv, DecisionsHaveTier
  <2>3. /\ new \in Row /\ new.tier = rows[subject[r]].tier
        /\ new.status \in {rows[subject[r]].status, "completed"}
        /\ new.result.tier = copy[r].tier /\ new.result.review = "approved"
    BY <1>written, <2>1, DecisionColumns
  <2> HIDE DEF new
  <2> QED
    BY <1>9, <2>1, <2>2, <2>3
<1>11. CASE Desk!Reject(r)
  <2> DEFINE new == Rejected(picked[r], rows[subject[r]])
  <2>1. /\ desk[r] = "reject" /\ picked[r] # Desk!NoRow /\ Desk!Free(r)
        /\ rows' = [rows EXCEPT ![subject[r]] = new]
    BY <1>11, DecisionWrites
  <2>2. /\ new \in Row /\ new.tier = rows[subject[r]].tier
        /\ \/ new.status = "failed"
           \/ new.status = rows[subject[r]].status
        /\ new.result = rows[subject[r]].result
    BY <1>written, <2>1, DecisionColumns
  <2> HIDE DEF new
  <2> QED
    BY <1>9, <1>written, <2>1, <2>2
<1>12. CASE Desk!DecisionFails(r)
  BY <1>4, <1>5, <1>8, <1>12 DEF Desk!DecisionFails
<1> QED
  BY <1>6, <1>7, <1>10, <1>11, <1>12 DEF DeskStep, Desk!DeskStep

-----------------------------------------------------------------------------
(* The invariant, and what follows from it.                                 *)

LEMMA InitInv == Init => Inv
<1> SUFFICES ASSUME Init PROVE Inv
  OBVIOUS
<1>1. Typed
  BY InitTyped
<1>2. /\ \A j \in Jobs : /\ rows[j].status = Absent /\ rows[j].tier = None
                         /\ summary[j].kind = None
      /\ \A m \in Task!Messages : ready[m] = 0
      /\ \A w \in Workers : pc[w] = "idle" /\ unacked[w] = FALSE /\ loaded[w] = NoRow
      /\ \A p \in Requests : step[p] = "received"
      /\ \A r \in Reviewers : desk[r] = "free" /\ picked[r] = NoRow
      /\ forked = {}
  BY DEF Init, NoRow, Api!NoSummary, Api!None, None, Task!Messages, Celery!Messages
<1>3. Backed
  BY <1>2 DEF Backed, MessagesBacked, RunsBacked, RequestsBacked, None
<1>4. NotYetCreated
  BY <1>2, FilesTyped DEF NotYetCreated, InRow
<1>5. RunsHaveTier /\ TiersHaveResults /\ DecisionsHaveTier
  BY <1>2 DEF RunsHaveTier, TiersHaveResults, Sound, DecisionsHaveTier, Absent
<1>6. InOneHand
  <2>1. \A w \in Workers, j \in Jobs : ~Task!Holds(w, j)
    BY <1>2 DEF Task!Holds, Task!Active, Task!Running, Task!Writing
  <2>2. \A j \in Jobs : ~Task!InQueue(j)
    BY <1>2 DEF Task!InQueue
  <2>3. Task!Custody
    BY <1>2, <2>1, <2>2 DEF Task!Custody, Task!CustodyOf
  <2>4. Task!TakenBackIsForked
    BY <1>2 DEF Task!TakenBackIsForked, Task!Active, Task!Running, Task!Writing
  <2>5. NotYetPublished
    BY <1>2 DEF NotYetPublished, Unheard
  <2> QED
    BY <2>3, <2>4, <2>5 DEF InOneHand
<1>7. AnswersNameJobs /\ CachedAnswerIsReal
  BY <1>2 DEF AnswersNameJobs, CachedAnswerIsReal, None
<1>8. UnreviewedIsCorrected
  BY <1>2 DEF UnreviewedIsCorrected, Unreviewed, Absent
<1>9. SelectionsHold
  BY <1>2 DEF SelectionsHold, Selected, NotYetReview, BetweenWrites
<1> QED
  BY <1>1, <1>3, <1>4, <1>5, <1>6, <1>7, <1>8, <1>9 DEF Inv

LEMMA NextInv == Inv /\ [Next]_vars => Inv'
<1> SUFFICES ASSUME Inv, [Next]_vars PROVE Inv'
  OBVIOUS
<1>1. CASE UNCHANGED vars
  <2> USE DEF vars, apiVars, celeryVars, deskVars
  <2>1. Typed'
    BY <1>1, NextTyped DEF Inv
  <2>2. Backed' /\ NotYetCreated'
    BY <1>1 DEF Inv, Backed, MessagesBacked, RunsBacked, RequestsBacked,
       NotYetCreated, InRow, Api!NewJobs, Api!Uploads
  <2>3. InOneHand'
    BY <1>1 DEF Inv, InOneHand, Task!Custody, Task!CustodyOf, Task!Holds,
       Task!JobOf, Task!InQueue, Task!TakenBackIsForked, NotYetPublished,
       BeforePublication, Unheard
  <2>4. /\ RunsHaveTier' /\ TiersHaveResults' /\ DecisionsHaveTier'
        /\ AnswersNameJobs' /\ CachedAnswerIsReal'
    BY <1>1 DEF Inv, RunsHaveTier, TiersHaveResults, DecisionsHaveTier,
       AnswersNameJobs, CachedAnswerIsReal
  <2>5. SelectionsHold'
    BY <1>1 DEF Inv, SelectionsHold, Selected, NotYetReview, Unreviewed, Task!AtWrite
  <2>6. UnreviewedIsCorrected'
    BY <1>1 DEF Inv, UnreviewedIsCorrected, Unreviewed, Corrected, Task!InQueue,
       Task!At, Task!JobOf
  <2> QED
    BY <2>1, <2>2, <2>3, <2>4, <2>5, <2>6 DEF Inv
<1> QED
  BY <1>1, WorkerKeepsInv, ApiKeepsInv, DeskKeepsInv DEF Next

LEMMA Invariance == Spec => []Inv
  BY InitInv, NextInv, PTL DEF Spec

(***************************************************************************)
(* No run of the task meets a job it cannot work on: a message, and a       *)
(* worker that holds one, stands for a job with a committed row and a file, *)
(* and no component breaks the type of another one's variables.             *)
(***************************************************************************)
THEOREM RunsAreBacked == Spec => []WorkIsBacked
<1>1. ASSUME Inv PROVE WorkIsBacked
  <2>1. ASSUME NEW j \in Jobs, Task!InQueue(j) \/ Task!At(j, Task!Running)
        PROVE  rows[j].status # Absent /\ j \in disk
    BY <1>1, <2>1 DEF Inv, Backed, MessagesBacked, RunsBacked, InRow,
       Task!InQueue, Task!At, Task!JobOf, Task!Running, Task!Writing
  <2> QED
    BY <1>1, <2>1, SamePlaces DEF Inv, Typed, WorkIsBacked
<1> QED
  BY <1>1, Invariance, PTL

(***************************************************************************)
(* An upload answered from the cache got the result of another job with the *)
(* same content, which still exists and has a tier: no reviewer's write and *)
(* no rerun takes the result away again.                                    *)
(***************************************************************************)
THEOREM CacheAnswersAreReal == Spec => []CachedAnswerIsReal
<1>1. Inv => CachedAnswerIsReal
  BY DEF Inv
<1> QED
  BY <1>1, Invariance, PTL

(***************************************************************************)
(* A review-tier row that says COMPLETED without an approval has a message  *)
(* or a run to correct it, or is abandoned, unless the broker made a second *)
(* message: reviewers whose statements fall between those of a run cannot   *)
(* leave it published either.                                               *)
(***************************************************************************)
THEOREM UnreviewedIsNotPublished == Spec => []UnreviewedIsNotLeftCompleted
<1>1. ASSUME Inv PROVE UnreviewedIsNotLeftCompleted
  <2>1. \A j \in Jobs : Corrected(j) => \/ Celery!InQueue(j)
                                        \/ Celery!At(j, Celery!Running)
                                        \/ j \in abandoned
    BY SamePlaces DEF Corrected, Correcting, Task!At
  <2> QED
    BY <1>1, <2>1 DEF Inv, UnreviewedIsCorrected, Unreviewed,
       UnreviewedIsNotLeftCompleted
<1> QED
  BY <1>1, Invariance, PTL

-----------------------------------------------------------------------------
(* The review endpoints by themselves, for any number of jobs and of calls   *)
(* in progress at once.                                                     *)

LEMMA DeskInitTyped == Desk!Init => Desk!TypeOK
<1>1. Desk!NoResult \in Desk!Result
  BY DEF Desk!NoResult, Desk!Result
<1>2. Desk!ReviewRow \in Desk!Row /\ Desk!NoRow \in Desk!Row
  BY DEF Desk!ReviewRow, Desk!NoRow, Desk!NoResult, Desk!Row, Desk!Result,
         Desk!StoredStatus, Desk!ErrorMessage, Desk!ConfidenceTier, Desk!None
<1> QED
  BY <1>1, <1>2 DEF Desk!Init, Desk!TypeOK

LEMMA DeskNextTyped == Desk!TypeOK /\ [Desk!Next]_(Desk!vars) => Desk!TypeOK'
<1>1. ASSUME Desk!TypeOK, UNCHANGED Desk!vars PROVE Desk!TypeOK'
  BY <1>1 DEF Desk!vars, Desk!deskVars, Desk!TypeOK
<1> QED
  BY <1>1, DeskKeepsTypes DEF Desk!Next

\* The variables of the review endpoints keep their types.
THEOREM DeskTypeCorrect == Desk!Spec => []Desk!TypeOK
  BY DeskInitTyped, DeskNextTyped, PTL DEF Desk!Spec

(***************************************************************************)
(* Concurrent decisions.  No call changes the tier of a row or the tier     *)
(* stored in its result, and what an approval has read is such a result.    *)
(* The row a write has selected may be stale, but not in what matters to    *)
(* the columns the UPDATE leaves out: a row that is no longer up for review *)
(* never is again, and a rejection once noted stays in the error message.   *)
(***************************************************************************)
TiersStay ==
    \A j \in Jobs : /\ rows[j].status # Absent
                    /\ rows[j].tier = "review" /\ rows[j].result.tier = "review"

CopiesHaveTier == \A r \in Reviewers : desk[r] = "approve" => copy[r].tier = "review"

PicksAgree ==
    \A r \in Reviewers :
        picked[r] # NoRow =>
            LET row == rows[subject[r]] IN
            /\ desk[r] # "free"
            /\ picked[r].status # Absent
            /\ picked[r].status # "review" => row.status # "review"
            /\ picked[r].error = "rejection" => row.error = "rejection"

Whole(row) ==
    /\ row.result.tier = row.tier
    /\ row.status = "completed" => row.result.review = "approved"
    /\ row.status = "failed" => row.error = "rejection"
    /\ row.status = "review" => row.error = None

DeskInv == Desk!TypeOK /\ TiersStay /\ CopiesHaveTier /\ PicksAgree
           /\ \A j \in Jobs : Whole(rows[j])

LEMMA DeskInitInv == Desk!Init => DeskInv
<1> SUFFICES ASSUME Desk!Init PROVE DeskInv
  OBVIOUS
<1>1. /\ Desk!ReviewRow.status = "review" /\ Desk!ReviewRow.tier = "review"
      /\ Desk!ReviewRow.result.tier = "review" /\ Desk!ReviewRow.error = None
  BY DEF Desk!ReviewRow, Desk!NoRow, Desk!None, None
<1>2. /\ \A j \in Jobs : rows[j] = Desk!ReviewRow
      /\ \A r \in Reviewers : desk[r] = "free" /\ picked[r] = NoRow
  BY OneTable DEF Desk!Init
<1>3. TiersStay /\ \A j \in Jobs : Whole(rows[j])
  BY <1>1, <1>2 DEF TiersStay, Whole, Absent
<1>4. CopiesHaveTier /\ PicksAgree
  BY <1>2 DEF CopiesHaveTier, PicksAgree
<1> QED
  BY <1>3, <1>4, DeskInitTyped DEF DeskInv

LEMMA DeskStepInv ==
    ASSUME DeskInv, NEW r \in Reviewers, Desk!DeskStep(r)
    PROVE  DeskInv'
<1>typing. /\ rows \in [Jobs -> Row]
           /\ desk \in [Reviewers -> {"free", "approve", "reject"}]
           /\ subject \in [Reviewers -> Jobs \union {Desk!None}]
           /\ \A q \in Reviewers : desk[q] # "free" => subject[q] \in Jobs
           /\ copy \in [Reviewers -> Result]
           /\ picked \in [Reviewers -> Row]
  BY OneTable DEF DeskInv, Desk!TypeOK
<1>1. Desk!TypeOK'
  BY DeskKeepsTypes DEF DeskInv
<1>2. CASE rows' = rows /\ CopiesHaveTier' /\ PicksAgree'
  BY <1>1, <1>2 DEF DeskInv, TiersStay
<1>3. ASSUME NEW j \in Jobs, Desk!OpenApproval(r, j) \/ Desk!OpenRejection(r, j)
      PROVE  DeskInv'
  <2>1. rows' = rows /\ picked' = picked /\ desk[r] = "free"
    BY <1>3 DEF Desk!OpenApproval, Desk!OpenRejection
  <2>2. CopiesHaveTier'
    BY <1>3, <1>typing DEF DeskInv, CopiesHaveTier, TiersStay,
       Desk!OpenApproval, Desk!OpenRejection
  <2>3. \A q \in Reviewers : /\ picked[q] # NoRow => q # r
                             /\ q # r => desk'[q] = desk[q] /\ subject'[q] = subject[q]
    BY <1>3, <1>typing, <2>1 DEF DeskInv, PicksAgree,
       Desk!OpenApproval, Desk!OpenRejection
  <2>4. PicksAgree'
    BY <2>1, <2>3 DEF DeskInv, PicksAgree
  <2> QED
    BY <1>2, <2>1, <2>2, <2>4
<1>4. CASE Desk!Pick(r)
  <2>1. /\ rows' = rows /\ desk' = desk /\ subject' = subject /\ copy' = copy
        /\ desk[r] # "free" /\ subject[r] \in Jobs
        /\ picked' = [picked EXCEPT ![r] = rows[subject[r]]]
    BY <1>4, <1>typing DEF Desk!Pick
  <2>2. CopiesHaveTier'
    BY <2>1 DEF DeskInv, CopiesHaveTier
  <2>3. PicksAgree'
    BY <1>typing, <2>1 DEF DeskInv, PicksAgree, TiersStay
  <2> QED
    BY <1>2, <2>1, <2>2, <2>3
\* The end of a call.
<1>5. ASSUME Desk!Free(r)
      PROVE  /\ CopiesHaveTier'
             /\ \A q \in Reviewers : /\ picked'[q] # NoRow => q # r
                                     /\ q # r => /\ picked'[q] = picked[q]
                                                 /\ desk'[q] = desk[q]
                                                 /\ subject'[q] = subject[q]
  BY <1>5, <1>typing, OneTable DEF DeskInv, CopiesHaveTier, Desk!Free
<1>6. CASE Desk!DecisionFails(r)
  <2>1. rows' = rows /\ Desk!Free(r)
    BY <1>6 DEF Desk!DecisionFails
  <2>2. PicksAgree'
    BY <1>5, <2>1 DEF DeskInv, PicksAgree
  <2> QED
    BY <1>2, <1>5, <2>1, <2>2
<1>7. ASSUME Desk!Free(r), NEW k \in Jobs, k = subject[r], NEW new,
             rows' = [rows EXCEPT ![k] = new],
             new.tier = "review", new.result.tier = "review",
             new.status # Absent, new.status # "review", Whole(new),
             rows[k].error = "rejection" => new.error = "rejection"
      PROVE  DeskInv'
  <2>1. \A j \in Jobs : rows'[j] = IF j = k THEN new ELSE rows[j]
    BY <1>7, <1>typing
  <2>2. TiersStay' /\ \A j \in Jobs : Whole(rows'[j])
    BY <1>7, <2>1 DEF DeskInv, TiersStay
  <2>3. PicksAgree'
    BY <1>5, <1>7, <2>1, <1>typing DEF DeskInv, PicksAgree
  <2> QED
    BY <1>1, <1>5, <1>7, <2>2, <2>3 DEF DeskInv
<1>selected. ASSUME desk[r] # "free", picked[r] # Desk!NoRow
             PROVE  LET row == rows[subject[r]] IN
                    /\ subject[r] \in Jobs /\ row \in Row
                    /\ copy[r] \in Result /\ picked[r] \in Row
                    /\ row.tier = "review" /\ row.result.tier = "review"
                    /\ row.status # Absent /\ Whole(row)
                    /\ picked[r].status # Absent
                    /\ picked[r].status # "review" => row.status # "review"
                    /\ picked[r].error = "rejection" => row.error = "rejection"
  BY <1>selected, <1>typing, OneTable DEF DeskInv, TiersStay, PicksAgree
<1>8. CASE Desk!Approve(r)
  <2> DEFINE k == subject[r]
             new == Approved(picked[r], copy[r], rows[k])
  <2>1. /\ desk[r] = "approve" /\ picked[r] # Desk!NoRow /\ Desk!Free(r)
        /\ rows' = [rows EXCEPT ![k] = new]
    BY <1>8, DecisionWrites
  <2>2. copy[r].tier = "review"
    BY <2>1 DEF DeskInv, CopiesHaveTier
  <2>3. /\ new.status = IF picked[r].status # "completed" THEN "completed"
                                                          ELSE rows[k].status
        /\ new.tier = rows[k].tier /\ new.result.tier = copy[r].tier
        /\ new.result.review = "approved" /\ new.error = rows[k].error
    BY <1>selected, <2>1, DecisionColumns
  <2> HIDE DEF new
  <2>4. /\ new.tier = "review" /\ new.result.tier = "review"
        /\ new.status # Absent /\ new.status # "review" /\ Whole(new)
    BY <1>selected, <2>1, <2>2, <2>3 DEF Whole, Absent
  <2> QED
    BY <1>7, <1>selected, <2>1, <2>3, <2>4
<1>9. CASE Desk!Reject(r)
  <2> DEFINE k == subject[r]
             new == Rejected(picked[r], rows[k])
  <2>1. /\ desk[r] = "reject" /\ picked[r] # Desk!NoRow /\ Desk!Free(r)
        /\ rows' = [rows EXCEPT ![k] = new]
    BY <1>9, DecisionWrites
  <2>2. /\ new.status = IF picked[r].status # "failed" THEN "failed"
                                                       ELSE rows[k].status
        /\ new.tier = rows[k].tier /\ new.result = rows[k].result
        /\ new.error = IF picked[r].error # "rejection" THEN "rejection"
                                                        ELSE rows[k].error
    BY <1>selected, <2>1, DecisionColumns
  <2> HIDE DEF new
  <2>3. /\ new.tier = "review" /\ new.result.tier = "review"
        /\ new.status # Absent /\ new.status # "review" /\ Whole(new)
        /\ rows[k].error = "rejection" => new.error = "rejection"
    BY <1>selected, <2>1, <2>2 DEF Whole, Absent
  <2> QED
    BY <1>7, <1>selected, <2>1, <2>3
<1> QED
  BY <1>3, <1>4, <1>6, <1>8, <1>9 DEF Desk!DeskStep

LEMMA DeskNextInv == DeskInv /\ [Desk!Next]_(Desk!vars) => DeskInv'
<1>1. ASSUME DeskInv, UNCHANGED Desk!vars PROVE DeskInv'
  <2>1. Desk!TypeOK'
    BY <1>1, DeskNextTyped DEF DeskInv
  <2> QED
    BY <1>1, <2>1 DEF Desk!vars, Desk!deskVars, DeskInv, TiersStay, CopiesHaveTier,
       PicksAgree
<1> QED
  BY <1>1, DeskStepInv DEF Desk!Next

\* However many reviewers decide the same jobs at once, and in whatever order
\* their reads and the statements of their writes fall, approve_review and
\* reject_review leave rows that one of them could have left.
THEOREM DecisionsStayWhole == Desk!Spec => []Desk!DecisionsAreWhole
<1>1. DeskInv => Desk!DecisionsAreWhole
  BY DEF DeskInv, Whole, Desk!DecisionsAreWhole, Desk!None, None
<1> QED
  BY <1>1, DeskInitInv, DeskNextInv, PTL DEF Desk!Spec

=============================================================================
