------------------------ MODULE ExtractionTaskProofs ------------------------
(***************************************************************************)
(* Proofs about ExtractionTask, for any number of jobs and workers and any  *)
(* bound on retries and faults.                                             *)
(***************************************************************************)
EXTENDS ExtractionTask, TLAPS

-----------------------------------------------------------------------------
(* The repository's write methods, column by column.                        *)

LEMMA NoRowTyped == NoRow \in Row /\ NoRow.status = Absent
  BY DEF NoRow, NoResult, Row, Result, ErrorMessage, None

\* An UPDATE changes the columns in which the changed row differs from the
\* selected one, and those that are given.
LEMMA FlushedColumns ==
    ASSUME NEW old \in Row, NEW new \in Row, NEW row \in Row, NEW given
    PROVE  LET now == Flushed(old, new, given, row) IN
           /\ now \in Row
           /\ now.status = IF new.status # old.status THEN new.status ELSE row.status
           /\ now.tier = IF new.tier # old.tier THEN new.tier ELSE row.tier
           /\ now.error = IF new.error # old.error THEN new.error ELSE row.error
           /\ now.result = IF "result" \in given THEN new.result ELSE row.result
           /\ now.trace = IF "trace" \in given THEN new.trace ELSE row.trace
  BY DEF Flushed, Row

\* update_job_status, as the task calls it, writes the status and perhaps the
\* error message of an existing row, and nothing else.
LEMMA StatusWrittenColumns ==
    ASSUME NEW row \in Row, NEW status \in StoredStatus,
           NEW error \in ErrorMessage
    PROVE  LET new == StatusWritten(row, status, NoResult, error) IN
           /\ new \in Row
           /\ new.status = IF row.status = Absent THEN Absent ELSE status
           /\ new.tier = row.tier
           /\ new.result = row.result
           /\ new.trace = row.trace
           /\ new.error = IF row.status = Absent \/ error = None
                          THEN row.error ELSE error
  BY DEF StatusWritten, Row, StoredStatus, ErrorMessage, Absent, None

\* update_job_result writes status, tier, result and trace of an existing row.
LEMMA ResultWrittenColumns ==
    ASSUME NEW row \in Row, NEW t \in ConfidenceTier \union {None},
           NEW tr \in SUBSET EffectStages
    PROVE  LET new == ResultWritten(row, t, tr) IN
           /\ new \in Row
           /\ row.status = Absent => new = row
           /\ row.status # Absent =>
                 /\ new.status = "completed"
                 /\ new.tier = t
                 /\ new.result = [tier |-> t, review |-> None]
                 /\ new.trace = tr
           /\ new.error = row.error
  BY DEF ResultWritten, Row, Result, StoredStatus, Absent, None

-----------------------------------------------------------------------------
(* Typing.                                                                  *)

LEMMA InitTyped == Init => TypeOK
<1> SUFFICES ASSUME Init PROVE TypeOK
  OBVIOUS
<1>1. QueuedRow \in Row
  BY DEF QueuedRow, NoRow, NoResult, Row, Result, ErrorMessage, StoredStatus,
         Absent, None
<1>2. rows \in [Jobs -> Row]
  BY <1>1 DEF Init
<1>3. ready \in [Messages -> Nat]
  BY DEF Init
<1> QED
  BY <1>2, <1>3, FaultAssumption, NoRowTyped DEF Init, TypeOK, Location

\* What the run's row writes leave in the table is a table.
LEMMA WritesTyped ==
    ASSUME TypeOK, NEW w \in Workers, pc[w] # "idle"
    PROVE  /\ JobOf(w) \in Jobs
           /\ task[w].retries \in 0..MaxRetries
           /\ \A s \in StoredStatus, e \in ErrorMessage :
                 WriteStatus(w, s, e) => rows' \in [Jobs -> Row]
           /\ WriteResult(w) => rows' \in [Jobs -> Row]
<1>1. task[w] \in Messages
  BY DEF TypeOK
<1>2. JobOf(w) \in Jobs /\ task[w].retries \in 0..MaxRetries
  BY <1>1 DEF Messages, JobOf
<1>3. loaded[w] \in Row /\ rows[JobOf(w)] \in Row
  BY <1>2 DEF TypeOK
<1>4. ASSUME NEW s \in StoredStatus, NEW e \in ErrorMessage,
             WriteStatus(w, s, e)
      PROVE  rows' \in [Jobs -> Row]
  <2> DEFINE new == StatusWritten(loaded[w], s, NoResult, e)
  <2>1. new \in Row
    BY <1>3, StatusWrittenColumns
  <2>2. Flushed(loaded[w], new, {}, rows[JobOf(w)]) \in Row
    BY <1>3, <2>1, FlushedColumns
  <2> QED
    BY <1>2, <1>4, <2>2 DEF WriteStatus, Update, TypeOK
<1>5. ASSUME WriteResult(w) PROVE rows' \in [Jobs -> Row]
  <2> DEFINE new == ResultWritten(loaded[w], tier[w], trace[w])
  <2>1. tier[w] \in ConfidenceTier \union {None} /\ trace[w] \in SUBSET EffectStages
    BY TierAssumption DEF TypeOK
  <2>2. new \in Row
    BY <1>3, <2>1, ResultWrittenColumns
  <2>3. Flushed(loaded[w], new, {"result", "trace"}, rows[JobOf(w)]) \in Row
    BY <1>3, <2>2, FlushedColumns
  <2> QED
    BY <1>2, <1>5, <2>3 DEF WriteResult, Update, TypeOK
<1> QED
  BY <1>2, <1>4, <1>5

LEMMA NextTyped == TypeOK /\ [Next]_vars => TypeOK'
<1> SUFFICES ASSUME TypeOK, [Next]_vars PROVE TypeOK'
  OBVIOUS
<1>norow. NoRow \in Row
  BY NoRowTyped
<1> USE <1>norow
    DEF TypeOK, vars, workerVars, storeVars, history, Quiet, KeepRun,
        KeepFindings, Goto, Location, Running, Writing, Ended
<1>1. ASSUME NEW w \in Workers, NEW m \in Messages, Deliver(w, m)
      PROVE  TypeOK'
  BY <1>1 DEF Deliver
<1>2. ASSUME NEW w \in Workers, LoadJob(w) PROVE TypeOK'
  BY <1>2 DEF LoadJob
<1>select. ASSUME NEW w \in Workers, Select(w) PROVE TypeOK'
  <2>1. JobOf(w) \in Jobs
    BY <1>select, WritesTyped DEF Select, AtWrite
  <2> QED
    BY <1>select, <2>1 DEF Select
<1>3. ASSUME NEW w \in Workers, MarkProcessing(w) PROVE TypeOK'
  <2>1. rows' \in [Jobs -> Row]
    BY <1>3, WritesTyped DEF MarkProcessing, StoredStatus, ErrorMessage
  <2> QED
    BY <1>3, <2>1 DEF MarkProcessing, WriteStatus, Update
<1>4. ASSUME NEW w \in Workers, RunStages(w) PROVE TypeOK'
  BY <1>4 DEF RunStages
<1>5. ASSUME NEW w \in Workers, WriteMetadata(w) PROVE TypeOK'
  <2>1. JobOf(w) \in Jobs
    BY <1>5, WritesTyped DEF WriteMetadata
  <2> QED
    BY <1>5, <2>1 DEF WriteMetadata, Report, EffectStages
<1>6. ASSUME NEW w \in Workers, IndexCompanion(w) PROVE TypeOK'
  <2>1. JobOf(w) \in Jobs
    BY <1>6, WritesTyped DEF IndexCompanion
  <2> QED
    BY <1>6, <2>1 DEF IndexCompanion, Report, EffectStages
<1>7. ASSUME NEW w \in Workers, NotifyCompletion(w) PROVE TypeOK'
  <2>1. JobOf(w) \in Jobs
    BY <1>7, WritesTyped DEF NotifyCompletion
  <2> QED
    BY <1>7, <2>1 DEF NotifyCompletion, Report, EffectStages
<1>8. ASSUME NEW w \in Workers, PersistResult(w) PROVE TypeOK'
  <2>1. rows' \in [Jobs -> Row]
    BY <1>8, WritesTyped DEF PersistResult
  <2> QED
    BY <1>8, <2>1 DEF PersistResult, WriteResult, Update
<1>9. ASSUME NEW w \in Workers, OverrideReview(w) PROVE TypeOK'
  <2>1. rows' \in [Jobs -> Row]
    BY <1>9, WritesTyped DEF OverrideReview, StoredStatus, ErrorMessage
  <2> QED
    BY <1>9, <2>1 DEF OverrideReview, WriteStatus, Update
<1>10. ASSUME NEW w \in Workers, CloseSession(w) PROVE TypeOK'
  BY <1>10 DEF CloseSession, ForgetRun
<1>11. ASSUME NEW w \in Workers, Raise(w) PROVE TypeOK'
  BY <1>11 DEF Raise, ForgetRun
<1>12. ASSUME NEW w \in Workers, ScheduleRetry(w) PROVE TypeOK'
  <2>1. Message(JobOf(w), task[w].retries + 1) \in Messages
    BY <1>12, WritesTyped, RetryAssumption DEF ScheduleRetry, Message, Messages
  <2> QED
    BY <1>12, <2>1 DEF ScheduleRetry
<1>13. ASSUME NEW w \in Workers, LoseRetry(w) PROVE TypeOK'
  <2>1. JobOf(w) \in Jobs
    BY <1>13, WritesTyped DEF LoseRetry
  <2> QED
    BY <1>13, <2>1 DEF LoseRetry, Abandon
<1>14. ASSUME NEW w \in Workers, MarkJobFailed(w) PROVE TypeOK'
  <2>1. rows' \in [Jobs -> Row]
    BY <1>14, WritesTyped DEF MarkJobFailed, StoredStatus, ErrorMessage
  <2> QED
    BY <1>14, <2>1 DEF MarkJobFailed, WriteStatus, Update
<1>15. ASSUME NEW w \in Workers, CleanupFails(w) PROVE TypeOK'
  <2>1. JobOf(w) \in Jobs
    BY <1>15, WritesTyped DEF CleanupFails
  <2> QED
    BY <1>15, <2>1 DEF CleanupFails, Abandon, ForgetRun
<1>16. ASSUME NEW w \in Workers, Ack(w) PROVE TypeOK'
  BY <1>16 DEF Ack, BecomeIdle, ForgetRun
<1>17. ASSUME NEW w \in Workers, Crash(w) PROVE TypeOK'
  <2>1. JobOf(w) \in Jobs /\ task[w] \in Messages
    BY <1>17, WritesTyped DEF Crash
  <2>2. ready' \in [Messages -> Nat] /\ faults' \in 0..MaxFaults
        /\ forked' \subseteq Jobs /\ replayed' \subseteq Jobs
        /\ abandoned' \subseteq Jobs
    BY <1>17, <2>1, FaultAssumption DEF Crash, Fault
  <2> QED
    BY <1>17, <2>2 DEF Crash, BecomeIdle, ForgetRun
<1>18. ASSUME NEW w \in Workers, Redeliver(w) PROVE TypeOK'
  <2>1. JobOf(w) \in Jobs /\ task[w] \in Messages
    BY <1>18, WritesTyped DEF Redeliver
  <2> QED
    BY <1>18, <2>1, FaultAssumption DEF Redeliver, Fault
<1>19. CASE UNCHANGED vars
  BY <1>19
<1> QED
  BY <1>1, <1>2, <1>select, <1>3, <1>4, <1>5, <1>6, <1>7, <1>8, <1>9, <1>10,
     <1>11, <1>12, <1>13, <1>14, <1>15, <1>16, <1>17, <1>18, <1>19
     DEF Next, Pull, RunStep

(***************************************************************************)
(* Every variable stays of its type.  TypeOK is inductive by itself: what   *)
(* has to be seen is that a message never outlives its retries, and that a  *)
(* copy of a message is taken from the broker only when there is one.       *)
(***************************************************************************)
THEOREM TypeCorrect == Spec => []TypeOK
  BY InitTyped, NextTyped, PTL DEF Spec

-----------------------------------------------------------------------------
(* Custody of a job's message.                                              *)

(***************************************************************************)
(* A worker holds a job from the delivery of its message to the             *)
(* acknowledgement, unless the run ended by publishing a retry: then the    *)
(* job is in the retry's hands.  "done" has to be included, since a crash   *)
(* there puts the message back.                                             *)
(***************************************************************************)
Active == Running \union {"done"}

Holds(w, j) == pc[w] \in Active /\ JobOf(w) = j

\* The job of one undisturbed message is in one pair of hands at most.
CustodyOf(j) ==
    /\ \A v, w \in Workers : Holds(v, j) /\ Holds(w, j) => v = w
    /\ \A w \in Workers : Holds(w, j) => ~InQueue(j)
    /\ \A m, n \in Messages :
          m.job = j /\ n.job = j /\ ready[m] > 0 /\ ready[n] > 0 => m = n
    /\ \A m \in Messages : m.job = j => ready[m] <= 1

Custody == \A j \in Jobs \ forked : CustodyOf(j)

\* A run whose message the broker has taken back is one of a forked job.
TakenBackIsForked ==
    \A w \in Workers : pc[w] \in Active /\ ~unacked[w] => JobOf(w) \in forked

\* A step inside the run, which leaves messages and acknowledgements alone.
Inside(w) ==
    /\ pc[w] \in Active
    /\ \E there \in Active : Goto(w, there)
    /\ UNCHANGED <<ready, task, unacked, forked>>

LEMMA InsideSteps ==
    ASSUME TypeOK, NEW w \in Workers,
           \/ LoadJob(w) \/ Select(w) \/ MarkProcessing(w) \/ RunStages(w)
           \/ WriteMetadata(w) \/ IndexCompanion(w) \/ NotifyCompletion(w)
           \/ PersistResult(w) \/ OverrideReview(w) \/ CloseSession(w)
           \/ Raise(w) \/ LoseRetry(w) \/ MarkJobFailed(w) \/ CleanupFails(w)
    PROVE  Inside(w)
<1>1. CASE Select(w)
  <2>1. pc[w] \in Active /\ pc' = [pc EXCEPT ![w] = pc[w]]
    BY <1>1 DEF Select, AtWrite, TypeOK, Active, Running, Writing
  <2> QED
    BY <1>1, <2>1 DEF Select, Inside, Goto, Quiet, history
<1>2. CASE ~Select(w)
  BY <1>2 DEF Inside, Active, Running, Writing, LoadJob, MarkProcessing,
         RunStages, WriteMetadata, IndexCompanion, NotifyCompletion,
         PersistResult, OverrideReview, CloseSession, Raise, LoseRetry,
         MarkJobFailed, CleanupFails, Quiet, Abandon, history
<1> QED
  BY <1>1, <1>2

LEMMA InitCustody == Init => Custody /\ TakenBackIsForked
<1> SUFFICES ASSUME Init PROVE Custody /\ TakenBackIsForked
  OBVIOUS
<1>1. \A w \in Workers : pc[w] \notin Active
  BY DEF Init, Active, Running, Writing
<1>2. \A m \in Messages : ready[m] <= 1 /\ (ready[m] > 0 => m.retries = 0)
  BY DEF Init
<1>3. \A m, n \in Messages : m.job = n.job /\ m.retries = n.retries => m = n
  BY DEF Messages
<1> QED
  BY <1>1, <1>2, <1>3 DEF Custody, CustodyOf, Holds, TakenBackIsForked

LEMMA NextCustody ==
    TypeOK /\ Custody /\ TakenBackIsForked /\ [Next]_vars
        => Custody' /\ TakenBackIsForked'
<1> SUFFICES ASSUME TypeOK, Custody, TakenBackIsForked, [Next]_vars
             PROVE  Custody' /\ TakenBackIsForked'
  OBVIOUS
<1>typing. /\ ready \in [Messages -> Nat]
           /\ pc \in [Workers -> Location]
           /\ task \in [Workers -> Messages \union {NoTask}]
           /\ \A w \in Workers : pc[w] # "idle" => task[w] \in Messages
           /\ unacked \in [Workers -> BOOLEAN]
           /\ forked \subseteq Jobs
  BY DEF TypeOK
<1>active. "idle" \notin Active /\ "rescheduled" \notin Active /\ "fetch" \in Active
  BY DEF Active, Running, Writing
<1> USE DEF Custody, CustodyOf, Holds, TakenBackIsForked, InQueue, JobOf
<1>1. ASSUME NEW w \in Workers, NEW m \in Messages, Deliver(w, m)
      PROVE  Custody' /\ TakenBackIsForked'
  <2>1. /\ pc' = [pc EXCEPT ![w] = "fetch"]
        /\ task' = [task EXCEPT ![w] = m]
        /\ unacked' = [unacked EXCEPT ![w] = TRUE]
        /\ ready[m] > 0
        /\ ready' = [ready EXCEPT ![m] = @ - 1]
        /\ forked' = forked
    BY <1>1 DEF Deliver, Goto, history
  <2>2. TakenBackIsForked'
    BY <2>1, <1>typing
  <2>3. ASSUME NEW j \in Jobs \ forked PROVE CustodyOf(j)'
    <3>1. CASE m.job = j
      <4>1. \A n \in Messages : n.job = j => ready'[n] = 0
        BY <2>1, <3>1, <2>3, <1>typing
      <4>2. \A v \in Workers : Holds(v, j)' => v = w
        BY <2>1, <3>1, <2>3, <1>typing
      <4> QED
        BY <4>1, <4>2
    <3>2. CASE m.job # j
      <4>1. \A n \in Messages : n.job = j => ready'[n] = ready[n]
        BY <2>1, <3>2, <1>typing
      <4>2. \A v \in Workers : Holds(v, j)' => Holds(v, j)
        BY <2>1, <3>2, <1>typing
      <4> QED
        BY <4>1, <4>2, <2>3
    <3> QED
      BY <3>1, <3>2
  <2> QED
    BY <2>1, <2>2, <2>3
<1>2. ASSUME NEW w \in Workers, Inside(w) PROVE Custody' /\ TakenBackIsForked'
  <2>1. \A v \in Workers : /\ pc'[v] \in Active <=> pc[v] \in Active
                           /\ task'[v] = task[v]
                           /\ unacked'[v] = unacked[v]
    BY <1>2, <1>typing DEF Inside, Goto
  <2>2. ready' = ready /\ forked' = forked
    BY <1>2 DEF Inside
  <2> QED
    BY <2>1, <2>2
<1>3. ASSUME NEW w \in Workers, ScheduleRetry(w)
      PROVE  Custody' /\ TakenBackIsForked'
  <2> DEFINE k == JobOf(w)
             m == Message(k, task[w].retries + 1)
  <2>1. /\ pc[w] = "raised"
        /\ pc' = [pc EXCEPT ![w] = "rescheduled"]
        /\ task' = task /\ unacked' = unacked /\ forked' = forked
        /\ ready' = [ready EXCEPT ![m] = @ + 1]
    BY <1>3 DEF ScheduleRetry, Goto, Quiet, history
  <2>2. m \in Messages /\ m.job = k
    BY <1>3, WritesTyped, RetryAssumption DEF ScheduleRetry, Message, Messages
  <2>3. Holds(w, k)
    BY <2>1 DEF Active, Running
  <2>4. \A v \in Workers, j \in Jobs : Holds(v, j)' => Holds(v, j) /\ v # w
    BY <2>1, <1>typing, <1>active
  <2>5. TakenBackIsForked'
    BY <2>1, <1>typing, <1>active
  <2>6. ASSUME NEW j \in Jobs \ forked PROVE CustodyOf(j)'
    <3>1. CASE k = j
      <4>1. \A n \in Messages : n.job = j => ready[n] = 0
        BY <2>3, <3>1, <2>6, <1>typing
      <4>2. \A n \in Messages : n.job = j => ready'[n] = IF n = m THEN 1 ELSE 0
        BY <4>1, <2>1, <2>2, <1>typing
      <4>3. \A v \in Workers : ~Holds(v, j)'
        BY <2>3, <2>4, <2>6, <3>1
      <4> QED
        BY <4>2, <4>3
    <3>2. CASE k # j
      <4>1. \A n \in Messages : n.job = j => ready'[n] = ready[n]
        BY <2>1, <2>2, <3>2, <1>typing
      <4> QED
        BY <4>1, <2>4, <2>6
    <3> QED
      BY <3>1, <3>2
  <2> QED
    BY <2>1, <2>5, <2>6
<1>4. ASSUME NEW w \in Workers, Ack(w) PROVE Custody' /\ TakenBackIsForked'
  <2>1. /\ pc' = [pc EXCEPT ![w] = "idle"]
        /\ task' = [task EXCEPT ![w] = NoTask]
        /\ unacked' = [unacked EXCEPT ![w] = FALSE]
        /\ ready' = ready /\ forked' = forked
    BY <1>4 DEF Ack, BecomeIdle, Goto, history
  <2>2. \A v \in Workers, j \in Jobs : Holds(v, j)' => Holds(v, j)
    BY <2>1, <1>typing, <1>active
  <2>3. TakenBackIsForked'
    BY <2>1, <1>typing, <1>active
  <2> QED
    BY <2>1, <2>2, <2>3
<1>5. ASSUME NEW w \in Workers, Crash(w) PROVE Custody' /\ TakenBackIsForked'
  <2> DEFINE k == JobOf(w)
             m == task[w]
  <2>1. /\ pc[w] # "idle"
        /\ pc' = [pc EXCEPT ![w] = "idle"]
        /\ task' = [task EXCEPT ![w] = NoTask]
        /\ unacked' = [unacked EXCEPT ![w] = FALSE]
        /\ ready' = ready \/ ready' = [ready EXCEPT ![m] = @ + 1]
        /\ forked \subseteq forked'
        /\ pc[w] = "rescheduled" /\ ready' # ready => k \in forked'
    BY <1>5 DEF Crash, BecomeIdle, Goto
  <2>2. m \in Messages /\ m.job = k /\ k \in Jobs
    BY <2>1, <1>typing DEF Messages
  <2>3. \A v \in Workers, j \in Jobs : Holds(v, j)' => Holds(v, j) /\ v # w
    BY <2>1, <1>typing, <1>active
  <2>4. TakenBackIsForked'
    BY <2>1, <1>typing, <1>active
  <2>5. ASSUME NEW j \in Jobs \ forked' PROVE CustodyOf(j)'
    <3> j \in Jobs \ forked
      BY <2>1
    <3>1. CASE k = j /\ ready' # ready
      <4>1. Holds(w, j)
        BY <2>1, <3>1, <1>typing DEF Location, Ended, Active
      <4>2. \A n \in Messages : n.job = j => ready[n] = 0
        BY <4>1, <1>typing
      <4>3. \A n \in Messages : n.job = j => ready'[n] = IF n = m THEN 1 ELSE 0
        BY <4>2, <2>1, <2>2, <3>1, <1>typing
      <4>4. \A v \in Workers : ~Holds(v, j)'
        BY <4>1, <2>3
      <4> QED
        BY <4>3, <4>4
    <3>2. CASE k # j \/ ready' = ready
      <4>1. \A n \in Messages : n.job = j => ready'[n] = ready[n]
        BY <2>1, <2>2, <3>2, <1>typing
      <4> QED
        BY <4>1, <2>3
    <3> QED
      BY <3>1, <3>2
  <2> QED
    BY <2>4, <2>5
<1>6. ASSUME NEW w \in Workers, Redeliver(w) PROVE Custody' /\ TakenBackIsForked'
  <2> DEFINE k == JobOf(w)
             m == task[w]
  <2>1. /\ pc[w] # "idle" /\ pc' = pc /\ task' = task
        /\ unacked' = [unacked EXCEPT ![w] = FALSE]
        /\ ready' = [ready EXCEPT ![m] = @ + 1]
        /\ forked' = forked \union {k}
    BY <1>6 DEF Redeliver
  <2>2. m \in Messages /\ m.job = k
    BY <2>1, <1>typing
  <2>3. TakenBackIsForked'
    BY <2>1, <1>typing
  <2>4. ASSUME NEW j \in Jobs \ forked' PROVE CustodyOf(j)'
    <3>1. k # j /\ j \in Jobs \ forked
      BY <2>1, <2>4
    <3>2. \A n \in Messages : n.job = j => ready'[n] = ready[n]
      BY <2>1, <2>2, <3>1, <1>typing
    <3> QED
      BY <2>1, <3>1, <3>2
  <2> QED
    BY <2>3, <2>4
<1>7. CASE UNCHANGED vars
  BY <1>7 DEF vars, workerVars, history
<1> QED
  BY <1>1, <1>2, <1>3, <1>4, <1>5, <1>6, <1>7, InsideSteps
     DEF Next, Pull, RunStep

LEMMA CustodyIsKept == Spec => [](Custody /\ TakenBackIsForked)
<1>1. TypeOK /\ Custody /\ TakenBackIsForked /\ [Next]_vars
        => (Custody /\ TakenBackIsForked)'
  BY NextCustody
<1> QED
  BY InitCustody, <1>1, TypeCorrect, PTL DEF Spec

(***************************************************************************)
(* No two workers run a job, and none runs it while a message waits, unless *)
(* the broker made a second message of it: acks_late, reject_on_worker_lost *)
(* and the retries are at-least-once without being concurrent.              *)
(***************************************************************************)
THEOREM OneRunAtATime == Spec => []SingleCustody
<1>1. Custody => SingleCustody
  BY DEF Custody, CustodyOf, SingleCustody, Holds, Active, At
<1> QED
  BY <1>1, CustodyIsKept, PTL

-----------------------------------------------------------------------------
(* No job is stranded.                                                      *)

\* The row writes of a run, seen from every job: an UPDATE that finds its value
\* in the selected row leaves the column to whoever wrote it since.
LEMMA StatusWriteEffect ==
    ASSUME TypeOK, NEW w \in Workers, pc[w] # "idle", loaded[w].status # Absent,
           NEW s \in StoredStatus, NEW e \in ErrorMessage, WriteStatus(w, s, e)
    PROVE  /\ \A j \in Jobs \ {JobOf(w)} : rows'[j] = rows[j]
           /\ LET old == rows[JobOf(w)]
                  new == rows'[JobOf(w)]
              IN
              /\ new.status = IF s # loaded[w].status THEN s ELSE old.status
              /\ new.tier = old.tier
              /\ new.result = old.result
              /\ new.trace = old.trace
              /\ new.error = IF e # None /\ e # loaded[w].error THEN e ELSE old.error
<1>1. JobOf(w) \in Jobs /\ rows \in [Jobs -> Row] /\ loaded[w] \in Row
  BY WritesTyped DEF TypeOK
<1> DEFINE made == StatusWritten(loaded[w], s, NoResult, e)
<1>2. rows' = [rows EXCEPT ![JobOf(w)] =
                  Flushed(loaded[w], made, {}, rows[JobOf(w)])]
  BY DEF WriteStatus, Update
<1>3. /\ made \in Row
      /\ made.status = s /\ made.tier = loaded[w].tier
      /\ made.error = IF e = None THEN loaded[w].error ELSE e
  BY <1>1, StatusWrittenColumns
<1> HIDE DEF made
<1> QED
  BY <1>1, <1>2, <1>3, FlushedColumns

LEMMA ResultWriteEffect ==
    ASSUME TypeOK, NEW w \in Workers, pc[w] # "idle", loaded[w].status # Absent,
           WriteResult(w)
    PROVE  /\ \A j \in Jobs \ {JobOf(w)} : rows'[j] = rows[j]
           /\ LET old == rows[JobOf(w)]
                  new == rows'[JobOf(w)]
              IN
              /\ new.status = IF "completed" # loaded[w].status
                              THEN "completed" ELSE old.status
              /\ new.tier = IF tier[w] # loaded[w].tier THEN tier[w] ELSE old.tier
              /\ new.result = [tier |-> tier[w], review |-> None]
              /\ new.trace = trace[w]
              /\ new.error = old.error
<1>1. JobOf(w) \in Jobs /\ rows \in [Jobs -> Row] /\ loaded[w] \in Row
  BY WritesTyped DEF TypeOK
<1> DEFINE made == ResultWritten(loaded[w], tier[w], trace[w])
<1>2. rows' = [rows EXCEPT ![JobOf(w)] =
                  Flushed(loaded[w], made, {"result", "trace"}, rows[JobOf(w)])]
  BY DEF WriteResult, Update
<1>3. tier[w] \in ConfidenceTier \union {None} /\ trace[w] \in SUBSET EffectStages
  BY TierAssumption DEF TypeOK
<1>4. /\ made \in Row
      /\ made.status = "completed" /\ made.tier = tier[w]
      /\ made.result = [tier |-> tier[w], review |-> None]
      /\ made.trace = trace[w] /\ made.error = loaded[w].error
  BY <1>1, <1>3, ResultWrittenColumns
<1> HIDE DEF made
<1> QED
  BY <1>1, <1>2, <1>4, FlushedColumns

\* Every step leaves the other runs, and the rows of the other jobs, alone.
LEMMA OthersAreLeftAlone ==
    ASSUME TypeOK, NEW w \in Workers,
           Pull(w) \/ RunStep(w) \/ Crash(w) \/ Redeliver(w)
    PROVE  /\ \A v \in Workers \ {w} :
                 /\ pc'[v] = pc[v] /\ task'[v] = task[v] /\ loaded'[v] = loaded[v]
                 /\ tier'[v] = tier[v] /\ trace'[v] = trace[v]
           /\ \A j \in Jobs : pc[w] = "idle" \/ j # JobOf(w) => rows'[j] = rows[j]
           /\ forked \subseteq forked' /\ replayed \subseteq replayed'
           /\ abandoned \subseteq abandoned'
           /\ chroma \subseteq chroma' /\ es \subseteq es' /\ hooks \subseteq hooks'
<1> USE DEF TypeOK, Goto, Quiet, KeepRun, KeepFindings, ForgetRun, BecomeIdle,
            Report, storeVars, history, WriteStatus, WriteResult, Update
<1>1. CASE Pull(w)
  BY <1>1 DEF Pull, Deliver
<1>2. CASE \/ LoadJob(w) \/ Select(w) \/ RunStages(w) \/ CloseSession(w) \/ Raise(w)
  BY <1>2 DEF LoadJob, Select, RunStages, Raise, CloseSession
<1>3. CASE \/ MarkProcessing(w) \/ PersistResult(w) \/ OverrideReview(w)
           \/ MarkJobFailed(w)
  BY <1>3 DEF MarkProcessing, PersistResult, OverrideReview, MarkJobFailed
<1>4. CASE WriteMetadata(w)
  BY <1>4 DEF WriteMetadata
<1>5. CASE IndexCompanion(w)
  BY <1>5 DEF IndexCompanion
<1>6. CASE NotifyCompletion(w)
  BY <1>6 DEF NotifyCompletion
<1>7. CASE ScheduleRetry(w) \/ LoseRetry(w) \/ CleanupFails(w) \/ Ack(w)
  BY <1>7 DEF ScheduleRetry, LoseRetry, CleanupFails, Ack, Abandon
<1>8. CASE Crash(w)
  BY <1>8 DEF Crash
<1>9. CASE Redeliver(w)
  BY <1>9 DEF Redeliver
<1> QED
  BY <1>1, <1>2, <1>3, <1>4, <1>5, <1>6, <1>7, <1>8, <1>9 DEF RunStep

\* No row is ever missing, neither in the table nor in what a run has selected,
\* and a run has selected one only where it is about to write it.
RowsExist ==
    /\ \A j \in Jobs : rows[j].status # Absent
    /\ \A w \in Workers :
          loaded[w] # NoRow => loaded[w].status # Absent /\ AtWrite(w)

LEMMA InitRowsExist == Init => RowsExist
  BY DEF Init, RowsExist, QueuedRow, NoRow, Absent

LEMMA NextRowsExist == TypeOK /\ RowsExist /\ [Next]_vars => RowsExist'
<1> SUFFICES ASSUME TypeOK, RowsExist, [Next]_vars PROVE RowsExist'
  OBVIOUS
<1>1. CASE UNCHANGED vars
  BY <1>1 DEF vars, workerVars, RowsExist, AtWrite
<1>2. ASSUME NEW w \in Workers,
             Pull(w) \/ RunStep(w) \/ Crash(w) \/ Redeliver(w)
      PROVE  RowsExist'
  <2>typing. /\ loaded \in [Workers -> Row] /\ pc \in [Workers -> Location]
             /\ pc[w] # "idle" => JobOf(w) \in Jobs /\ task[w].retries \in 0..MaxRetries
    BY WritesTyped DEF TypeOK
  <2>hyp. /\ \A j \in Jobs : rows[j].status # Absent
          /\ \A v \in Workers :
                loaded[v] # NoRow => loaded[v].status # Absent /\ AtWrite(v)
    BY DEF RowsExist
  <2>1. \A v \in Workers \ {w} :
           loaded'[v] # NoRow => loaded'[v].status # Absent /\ AtWrite(v)'
    BY <1>2, <2>hyp, OthersAreLeftAlone DEF AtWrite
  <2>2. /\ \A j \in Jobs : rows'[j].status # Absent
        /\ loaded'[w] # NoRow => loaded'[w].status # Absent /\ AtWrite(w)'
    <3>1. CASE \/ MarkProcessing(w) \/ PersistResult(w) \/ OverrideReview(w)
               \/ MarkJobFailed(w)
      <4>1. pc[w] # "idle" /\ loaded[w] # NoRow /\ loaded'[w] = NoRow
        BY <3>1, <2>typing DEF MarkProcessing, PersistResult, OverrideReview,
           MarkJobFailed, WriteStatus, WriteResult, Update
      <4>2. CASE PersistResult(w)
        <5>1. WriteResult(w) /\ loaded[w].status # Absent
          BY <4>1, <4>2, <2>hyp DEF PersistResult
        <5>2. /\ \A j \in Jobs \ {JobOf(w)} : rows'[j] = rows[j]
              /\ rows'[JobOf(w)].status \in {"completed", rows[JobOf(w)].status}
          BY <4>1, <5>1, ResultWriteEffect
        <5> QED
          BY <4>1, <5>2, <2>hyp, <2>typing DEF Absent
      <4>3. CASE MarkProcessing(w) \/ OverrideReview(w) \/ MarkJobFailed(w)
        <5>1. PICK s \in StoredStatus, e \in ErrorMessage : WriteStatus(w, s, e)
          BY <4>3 DEF MarkProcessing, OverrideReview, MarkJobFailed,
                      StoredStatus, ErrorMessage
        <5>2. Absent \notin StoredStatus
          BY DEF Absent, StoredStatus
        <5> QED
          BY <4>1, <5>1, <5>2, <2>hyp, <2>typing, StatusWriteEffect
      <4> QED
        BY <3>1, <4>2, <4>3
    <3>2. CASE Select(w)
      <4>1. pc[w] # "idle" /\ AtWrite(w) /\ pc' = pc /\ task' = task /\ rows' = rows
            /\ loaded'[w] = rows[JobOf(w)]
        BY <3>2, <2>typing DEF Select, AtWrite, Quiet
      <4> QED
        BY <4>1, <2>hyp, <2>typing DEF AtWrite
    <3>3. CASE Redeliver(w)
      <4>1. pc' = pc /\ task' = task /\ rows' = rows /\ loaded' = loaded
        BY <3>3 DEF Redeliver, KeepRun
      <4> QED
        BY <4>1, <2>hyp DEF AtWrite
    <3>4. CASE CloseSession(w) \/ Raise(w) \/ CleanupFails(w) \/ Ack(w) \/ Crash(w)
      <4>1. rows' = rows /\ loaded'[w] = NoRow
        BY <3>4, <2>typing DEF CloseSession, Raise, CleanupFails, Ack, Crash,
           BecomeIdle, ForgetRun
      <4> QED
        BY <4>1, <2>hyp
    <3>5. CASE \/ Pull(w) \/ LoadJob(w) \/ RunStages(w) \/ WriteMetadata(w)
               \/ IndexCompanion(w) \/ NotifyCompletion(w) \/ ScheduleRetry(w)
               \/ LoseRetry(w)
      <4>1. rows' = rows /\ loaded' = loaded
        BY <3>5 DEF Pull, Deliver, LoadJob, RunStages, WriteMetadata,
           IndexCompanion, NotifyCompletion, ScheduleRetry, LoseRetry, KeepRun,
           Report
      <4>2. /\ pc[w] \notin {"mark", "persist", "override"}
            /\ pc[w] = "raised" => task[w].retries < MaxRetries
        BY <3>5 DEF Pull, Deliver, LoadJob, RunStages, WriteMetadata,
           IndexCompanion, NotifyCompletion, ScheduleRetry, LoseRetry
      <4>3. ~AtWrite(w)
        BY <4>2, <2>typing, RetryAssumption DEF AtWrite
      <4> QED
        BY <4>1, <4>3, <2>hyp
    <3> QED
      BY <1>2, <3>1, <3>2, <3>3, <3>4, <3>5 DEF RunStep
  <2> QED
    BY <2>1, <2>2 DEF RowsExist
<1> QED
  BY <1>1, <1>2 DEF Next

LEMMA RowsAreThere == Spec => []RowsExist
  BY InitRowsExist, NextRowsExist, TypeCorrect, PTL DEF Spec

\* Where a run has an outcome yet to write.
Unfinished == Writing \union {"raised"}

\* A run that has not selected a settled row for its last write will settle it.
Finishes(w, j) ==
    /\ pc[w] \in Unfinished /\ JobOf(w) = j
    /\ pc[w] \in {"persist", "raised"} => loaded[w].status \notin Settled

Waits(j) == rows[j].status \in {"queued", "processing"}

Served(j) ==
    InQueue(j) \/ (\E w \in Workers : Finishes(w, j)) \/ j \in abandoned

(***************************************************************************)
(* A run that selected a row another run had settled leaves the status      *)
(* column as it is; it is not the one that will finish a job which waits    *)
(* again, and there is another.                                             *)
(***************************************************************************)
WaitingIsServed == \A j \in Jobs : Waits(j) => Served(j)

LEMMA InitServed == Init => WaitingIsServed
<1> SUFFICES ASSUME Init, NEW j \in Jobs PROVE InQueue(j)
  BY DEF WaitingIsServed, Served
<1>1. Message(j, 0) \in Messages /\ Message(j, 0).job = j
  BY RetryAssumption DEF Message, Messages
<1>2. ready[Message(j, 0)] = 1
  BY <1>1 DEF Init, Message
<1> QED
  BY <1>1, <1>2 DEF InQueue

LEMMA NextServed ==
    TypeOK /\ TakenBackIsForked /\ RowsExist /\ WaitingIsServed /\ [Next]_vars
        => WaitingIsServed'
<1> SUFFICES ASSUME TypeOK, TakenBackIsForked, RowsExist, WaitingIsServed,
                    [Next]_vars
             PROVE  WaitingIsServed'
  OBVIOUS
<1>typing. /\ ready \in [Messages -> Nat]
           /\ pc \in [Workers -> Location]
           /\ task \in [Workers -> Messages \union {NoTask}]
           /\ \A w \in Workers : pc[w] # "idle" => task[w] \in Messages
           /\ unacked \in [Workers -> BOOLEAN]
           /\ loaded \in [Workers -> Row]
           /\ rows \in [Jobs -> Row]
  BY DEF TypeOK
<1>norow. NoRow.status \notin Settled
  BY NoRowTyped DEF Settled, Absent
<1>hyp. \A j \in Jobs : Waits(j) => Served(j)
  BY DEF WaitingIsServed
<1>goal. SUFFICES \A j \in Jobs : Waits(j)' => Served(j)'
  BY DEF WaitingIsServed
<1> USE DEF Waits, Served, Finishes, InQueue, JobOf, Goto
<1>1. ASSUME NEW w \in Workers, NEW m \in Messages, Deliver(w, m)
      PROVE  \A j \in Jobs : Waits(j)' => Served(j)'
  <2>1. /\ pc[w] = "idle" /\ pc' = [pc EXCEPT ![w] = "fetch"]
        /\ task' = [task EXCEPT ![w] = m]
        /\ ready' = [ready EXCEPT ![m] = @ - 1]
        /\ rows' = rows /\ abandoned' = abandoned /\ loaded' = loaded
    BY <1>1 DEF Deliver, KeepRun, history
  <2>2. Finishes(w, m.job)'
    BY <2>1, <1>typing DEF Unfinished, Writing
  <2>3. \A j \in Jobs, v \in Workers : Finishes(v, j) => Finishes(v, j)'
    BY <2>1, <1>typing DEF Unfinished, Writing
  <2>4. \A j \in Jobs : InQueue(j) => InQueue(j)' \/ j = m.job
    BY <2>1, <1>typing
  <2> QED
    BY <2>1, <2>2, <2>3, <2>4, <1>hyp
<1>2. ASSUME NEW w \in Workers,
             \/ LoadJob(w) \/ MarkProcessing(w) \/ RunStages(w)
             \/ WriteMetadata(w) \/ IndexCompanion(w) \/ NotifyCompletion(w)
             \/ Raise(w)
      PROVE  \A j \in Jobs : Waits(j)' => Served(j)'
  <2>1. /\ pc[w] # "idle"
        /\ \E there \in Unfinished : pc' = [pc EXCEPT ![w] = there]
        /\ task' = task /\ ready' = ready /\ abandoned' = abandoned
    BY <1>2 DEF LoadJob, MarkProcessing, RunStages, WriteMetadata, Raise,
                IndexCompanion, NotifyCompletion, Unfinished, Writing, Quiet,
                history
  <2>2. /\ \A v \in Workers \ {w} : loaded'[v] = loaded[v]
        /\ pc'[w] = "persist" => pc[w] = "notify" /\ loaded'[w] = loaded[w]
        /\ pc'[w] = "raised" => loaded'[w] = NoRow
    BY <1>2, <1>typing DEF LoadJob, MarkProcessing, RunStages, WriteMetadata,
       Raise, IndexCompanion, NotifyCompletion, KeepRun, Report, ForgetRun,
       WriteStatus, Update
  <2>3. \A j \in Jobs \ {JobOf(w)} : rows'[j] = rows[j]
    <3>1. CASE MarkProcessing(w)
      BY <2>1, <3>1, StatusWriteEffect
         DEF MarkProcessing, WriteStatus, Update, RowsExist, StoredStatus,
             ErrorMessage
    <3>2. CASE ~MarkProcessing(w)
      BY <1>2, <3>2 DEF LoadJob, RunStages, WriteMetadata, Raise,
         IndexCompanion, NotifyCompletion
    <3> QED
      BY <3>1, <3>2
  <2>4. pc[w] = "notify" => loaded[w] = NoRow
    BY DEF RowsExist, AtWrite
  <2>5. Finishes(w, JobOf(w))'
    BY <2>1, <2>2, <2>4, <1>typing, <1>norow
  <2>6. \A j \in Jobs, v \in Workers \ {w} : Finishes(v, j) => Finishes(v, j)'
    BY <2>1, <2>2, <1>typing
  <2> QED
    BY <2>1, <2>3, <2>5, <2>6, <1>hyp
<1>select. ASSUME NEW w \in Workers, Select(w)
      PROVE  \A j \in Jobs : Waits(j)' => Served(j)'
  <2>1. /\ pc[w] # "idle" /\ pc' = pc /\ task' = task /\ ready' = ready
        /\ abandoned' = abandoned /\ rows' = rows
        /\ loaded' = [loaded EXCEPT ![w] = rows[JobOf(w)]]
    BY <1>select DEF Select, AtWrite, Quiet, history
  <2>2. ASSUME NEW j \in Jobs, Waits(j), NEW v \in Workers, Finishes(v, j)
        PROVE  Finishes(v, j)'
    BY <2>1, <2>2, <1>typing DEF Settled
  <2> QED
    BY <2>1, <2>2, <1>hyp
<1>3. ASSUME NEW w \in Workers,
             PersistResult(w) \/ OverrideReview(w) \/ MarkJobFailed(w)
      PROVE  \A j \in Jobs : Waits(j)' => Served(j)'
  <2>1. /\ pc[w] \in {"persist", "override", "raised"}
        /\ task' = task /\ ready' = ready /\ abandoned' = abandoned
        /\ \A v \in Workers \ {w} : pc'[v] = pc[v] /\ loaded'[v] = loaded[v]
    BY <1>3, <1>typing DEF PersistResult, OverrideReview, MarkJobFailed, Quiet,
       history, WriteStatus, WriteResult, Update
  <2>2. loaded[w].status # Absent
    BY <1>3 DEF PersistResult, OverrideReview, MarkJobFailed, WriteStatus,
                WriteResult, Update, RowsExist
  <2>3. /\ \A j \in Jobs \ {JobOf(w)} : rows'[j] = rows[j]
        /\ \/ ~Waits(JobOf(w))'
           \/ /\ rows'[JobOf(w)].status = rows[JobOf(w)].status
              /\ pc[w] = "override" \/ loaded[w].status \in Settled
    <3>1. CASE PersistResult(w)
      BY <2>1, <2>2, <3>1, ResultWriteEffect DEF PersistResult, Settled
    <3>2. CASE OverrideReview(w)
      BY <2>1, <2>2, <3>2, StatusWriteEffect
         DEF OverrideReview, StoredStatus, ErrorMessage
    <3>3. CASE MarkJobFailed(w)
      BY <2>1, <2>2, <3>3, StatusWriteEffect
         DEF MarkJobFailed, StoredStatus, ErrorMessage, Settled
    <3> QED
      BY <1>3, <3>1, <3>2, <3>3
  <2>4. \A j \in Jobs, v \in Workers \ {w} : Finishes(v, j) => Finishes(v, j)'
    BY <2>1, <1>typing
  <2>5. ASSUME NEW j \in Jobs, Waits(j)' PROVE (~Finishes(w, j) /\ Waits(j)) \/ j # JobOf(w)
    BY <2>1, <2>3, <2>5 DEF Unfinished, Writing
  <2> QED
    BY <2>1, <2>3, <2>4, <2>5, <1>hyp
<1>4. ASSUME NEW w \in Workers, CloseSession(w) \/ Ack(w)
      PROVE  \A j \in Jobs : Waits(j)' => Served(j)'
  <2>1. pc[w] \notin Unfinished
    BY <1>4 DEF CloseSession, Ack, Unfinished, Writing, Ended
  <2>2. /\ \A v \in Workers \ {w} :
              pc'[v] = pc[v] /\ task'[v] = task[v] /\ loaded'[v] = loaded[v]
        /\ ready' = ready /\ rows' = rows /\ abandoned' = abandoned
    BY <1>4, <1>typing DEF CloseSession, Ack, BecomeIdle, ForgetRun, history
  <2>3. \A j \in Jobs, v \in Workers : Finishes(v, j) => Finishes(v, j)'
    BY <2>1, <2>2
  <2> QED
    BY <2>2, <2>3, <1>hyp
<1>5. ASSUME NEW w \in Workers, ScheduleRetry(w)
      PROVE  \A j \in Jobs : Waits(j)' => Served(j)'
  <2> DEFINE m == Message(JobOf(w), task[w].retries + 1)
  <2>1. m \in Messages /\ m.job = JobOf(w)
    BY <1>5, WritesTyped, RetryAssumption DEF ScheduleRetry, Message, Messages
  <2>2. /\ pc' = [pc EXCEPT ![w] = "rescheduled"] /\ task' = task
        /\ ready' = [ready EXCEPT ![m] = @ + 1] /\ loaded' = loaded
        /\ rows' = rows /\ abandoned' = abandoned
    BY <1>5 DEF ScheduleRetry, Quiet, KeepRun, history
  <2>3. InQueue(JobOf(w))'
    BY <2>1, <2>2, <1>typing
  <2>4. \A j \in Jobs : InQueue(j) => InQueue(j)'
    BY <2>1, <2>2, <1>typing
  <2>5. \A j \in Jobs, v \in Workers \ {w} : Finishes(v, j) => Finishes(v, j)'
    BY <2>2, <1>typing
  <2> QED
    BY <2>2, <2>3, <2>4, <2>5, <1>hyp
<1>6. ASSUME NEW w \in Workers, LoseRetry(w) \/ CleanupFails(w)
      PROVE  \A j \in Jobs : Waits(j)' => Served(j)'
  <2>1. /\ \A v \in Workers \ {w} : pc'[v] = pc[v] /\ loaded'[v] = loaded[v]
        /\ task' = task /\ ready' = ready /\ rows' = rows
        /\ abandoned' = abandoned \union {JobOf(w)}
    BY <1>6, <1>typing DEF LoseRetry, CleanupFails, Abandon, KeepRun, ForgetRun
  <2>2. \A j \in Jobs, v \in Workers \ {w} : Finishes(v, j) => Finishes(v, j)'
    BY <2>1
  <2> QED
    BY <2>1, <2>2, <1>hyp
<1>7. ASSUME NEW w \in Workers, Crash(w)
      PROVE  \A j \in Jobs : Waits(j)' => Served(j)'
  <2>1. /\ pc[w] # "idle" /\ rows' = rows
        /\ \A v \in Workers \ {w} :
              pc'[v] = pc[v] /\ task'[v] = task[v] /\ loaded'[v] = loaded[v]
        /\ abandoned \subseteq abandoned'
        /\ \/ unacked[w] /\ ready' = [ready EXCEPT ![task[w]] = @ + 1]
           \/ /\ ~unacked[w] /\ ready' = ready
              /\ pc[w] \in Running /\ JobOf(w) \in forked => JobOf(w) \in abandoned'
    BY <1>7, <1>typing DEF Crash, BecomeIdle, ForgetRun
  <2>2. \A j \in Jobs : InQueue(j) => InQueue(j)'
    BY <2>1, <1>typing
  <2>3. \A j \in Jobs, v \in Workers \ {w} : Finishes(v, j) => Finishes(v, j)'
    BY <2>1
  <2>4. ASSUME NEW j \in Jobs, Finishes(w, j) PROVE InQueue(j)' \/ j \in abandoned'
    <3>1. CASE unacked[w]
      BY <2>1, <2>4, <3>1, <1>typing
    <3>2. CASE ~unacked[w]
      BY <2>1, <2>4, <3>2 DEF TakenBackIsForked, Active, Unfinished, Running
    <3> QED
      BY <3>1, <3>2
  <2> QED
    BY <2>1, <2>2, <2>3, <2>4, <1>hyp
<1>8. ASSUME NEW w \in Workers, Redeliver(w)
      PROVE  \A j \in Jobs : Waits(j)' => Served(j)'
  <2>1. /\ pc[w] # "idle" /\ pc' = pc /\ task' = task /\ rows' = rows
        /\ ready' = [ready EXCEPT ![task[w]] = @ + 1]
        /\ abandoned' = abandoned /\ loaded' = loaded
    BY <1>8 DEF Redeliver, KeepRun
  <2>2. \A j \in Jobs : InQueue(j) => InQueue(j)'
    BY <2>1, <1>typing
  <2> QED
    BY <2>1, <2>2, <1>hyp
<1>9. CASE UNCHANGED vars
  BY <1>9, <1>hyp DEF vars, workerVars, history
<1> QED
  BY <1>1, <1>2, <1>select, <1>3, <1>4, <1>5, <1>6, <1>7, <1>8, <1>9
     DEF Next, Pull, RunStep

(***************************************************************************)
(* While the row of a job is QUEUED or PROCESSING, a message or a run will  *)
(* finish it, however retries, crashes and redeliveries interleave, except  *)
(* for the jobs that went through one of the three holes ExtractionTask     *)
(* records in `abandoned`.                                                  *)
(***************************************************************************)
THEOREM NobodyStranded == Spec => []NoStrandedJob
<1>1. TypeOK /\ (Custody /\ TakenBackIsForked) /\ RowsExist /\ WaitingIsServed
        /\ [Next]_vars => WaitingIsServed'
  BY NextServed
<1>2. WaitingIsServed => NoStrandedJob
  BY DEF WaitingIsServed, Waits, Served, Finishes, NoStrandedJob, At, Unfinished
<1> QED
  BY InitServed, <1>1, <1>2, TypeCorrect, CustodyIsKept, RowsAreThere, PTL DEF Spec

-----------------------------------------------------------------------------
(* What a run knows, against what its row says.                             *)

(***************************************************************************)
(* A run that has been given a tier keeps it up to its last write, and what *)
(* it has selected no other run clears.  Its row is where the run left it,  *)
(* as long as the run is the only one: PROCESSING between mark and persist, *)
(* then COMPLETED, and a review-tier result never gets past the override as *)
(* COMPLETED.                                                               *)
(***************************************************************************)
KeepsTier(w) ==
    /\ pc[w] \in {"publish", "index", "notify", "persist", "override"} =>
          tier[w] \in Tiers
    /\ pc[w] = "override" =>
          tier[w] = "review" /\ rows[JobOf(w)].tier # None

NotCleared(w) ==
    loaded[w] # NoRow =>
        /\ loaded[w].tier # None => rows[JobOf(w)].tier # None
        /\ loaded[w].error # None => rows[JobOf(w)].error # None

OnTrack(w) ==
    LET row == rows[JobOf(w)] IN
    /\ pc[w] \in {"stages", "publish", "index", "notify", "persist"} =>
          row.status = "processing"
    /\ pc[w] = "override" => row.status = "completed" /\ row.tier = "review"
    /\ pc[w] = "close" => ~(row.status = "completed" /\ row.tier = "review")
    /\ loaded[w] # NoRow => loaded[w] = row

RowFollowsRun ==
    /\ RowsExist
    /\ \A w \in Workers : KeepsTier(w) /\ NotCleared(w)
    /\ \A w \in Workers :
          pc[w] \in Active /\ JobOf(w) \notin forked => OnTrack(w)

LEMMA InitRowFollowsRun == Init => RowFollowsRun
  BY InitRowsExist DEF Init, RowFollowsRun, KeepsTier, NotCleared, OnTrack,
     Active, Running, Writing

\* What a step does to the row of its own job: there are four writes, and each
\* leaves a column alone that it found as it wants it.
LEMMA OwnRow ==
    ASSUME TypeOK, RowsExist, NEW w \in Workers,
           Pull(w) \/ RunStep(w) \/ Crash(w) \/ Redeliver(w)
    PROVE  \/ rows' = rows
           \/ LET old == rows[JobOf(w)]
                  new == rows'[JobOf(w)]
                  seen == loaded[w]
              IN
              /\ seen # NoRow
              /\ \/ /\ pc[w] = "mark" /\ pc'[w] = "stages"
                    /\ new.status = IF "processing" # seen.status
                                    THEN "processing" ELSE old.status
                    /\ new.tier = old.tier
                    /\ new.result = old.result /\ new.trace = old.trace
                    /\ new.error = old.error
                 \/ /\ pc[w] = "persist"
                    /\ pc'[w] = IF tier[w] = "review" THEN "override" ELSE "close"
                    /\ new.status = IF "completed" # seen.status
                                    THEN "completed" ELSE old.status
                    /\ new.tier = IF tier[w] # seen.tier THEN tier[w] ELSE old.tier
                    /\ new.result.tier = tier[w] /\ new.trace = trace[w]
                    /\ new.error = old.error
                 \/ /\ pc[w] = "override" /\ pc'[w] = "close"
                    /\ new.status = IF "review" # seen.status
                                    THEN "review" ELSE old.status
                    /\ new.tier = old.tier
                    /\ new.result = old.result /\ new.trace = old.trace
                    /\ new.error = old.error
                 \/ /\ pc[w] = "raised" /\ pc'[w] = "done"
                    /\ new.status = IF "failed" # seen.status
                                    THEN "failed" ELSE old.status
                    /\ new.tier = old.tier
                    /\ new.result = old.result /\ new.trace = old.trace
                    /\ new.error = IF "exception" # seen.error
                                   THEN "exception" ELSE old.error
<1>pc. pc \in [Workers -> Location]
  BY DEF TypeOK
<1>1. loaded[w] # NoRow => loaded[w].status # Absent
  BY DEF RowsExist
<1>2. CASE MarkProcessing(w)
  <2>1. pc[w] = "mark" /\ pc'[w] = "stages"
        /\ loaded[w] # NoRow /\ WriteStatus(w, "processing", None)
    BY <1>2, <1>pc DEF MarkProcessing, Goto, WriteStatus, Update
  <2> QED
    BY <1>1, <2>1, StatusWriteEffect DEF StoredStatus, ErrorMessage
<1>3. CASE PersistResult(w)
  <2>1. /\ pc[w] = "persist" /\ loaded[w] # NoRow /\ WriteResult(w)
        /\ pc'[w] = IF tier[w] = "review" THEN "override" ELSE "close"
    BY <1>3, <1>pc DEF PersistResult, Goto, WriteResult, Update
  <2>2. LET new == rows'[JobOf(w)]
            old == rows[JobOf(w)]
        IN
        /\ new.status = IF "completed" # loaded[w].status
                        THEN "completed" ELSE old.status
        /\ new.tier = IF tier[w] # loaded[w].tier THEN tier[w] ELSE old.tier
        /\ new.result = [tier |-> tier[w], review |-> None]
        /\ new.trace = trace[w] /\ new.error = old.error
    BY <1>1, <2>1, ResultWriteEffect
  <2>3. rows'[JobOf(w)].result.tier = tier[w]
    BY <2>2
  <2> QED
    BY <2>1, <2>2, <2>3
<1>4. CASE OverrideReview(w)
  <2>1. pc[w] = "override" /\ pc'[w] = "close"
        /\ loaded[w] # NoRow /\ WriteStatus(w, "review", None)
    BY <1>4, <1>pc DEF OverrideReview, Goto, WriteStatus, Update
  <2> QED
    BY <1>1, <2>1, StatusWriteEffect DEF StoredStatus, ErrorMessage
<1>5. CASE MarkJobFailed(w)
  <2>1. pc[w] = "raised" /\ pc'[w] = "done"
        /\ loaded[w] # NoRow /\ WriteStatus(w, "failed", "exception")
    BY <1>5, <1>pc DEF MarkJobFailed, Goto, WriteStatus, Update
  <2> QED
    BY <1>1, <2>1, StatusWriteEffect DEF StoredStatus, ErrorMessage, None
<1>6. CASE ~(\/ MarkProcessing(w) \/ PersistResult(w) \/ OverrideReview(w)
             \/ MarkJobFailed(w))
  BY <1>6 DEF Pull, Deliver, RunStep, LoadJob, Select, RunStages, WriteMetadata,
     IndexCompanion, NotifyCompletion, CloseSession, Raise, ScheduleRetry,
     LoseRetry, CleanupFails, Ack, Crash, Redeliver
<1> QED
  BY <1>2, <1>3, <1>4, <1>5, <1>6

LEMMA NextRowFollowsRun ==
    TypeOK /\ Custody /\ RowFollowsRun /\ [Next]_vars => RowFollowsRun'
<1> SUFFICES ASSUME TypeOK, Custody, RowFollowsRun, [Next]_vars
             PROVE  RowFollowsRun'
  OBVIOUS
<1>1. CASE UNCHANGED vars
  <2>1. RowsExist'
    BY NextRowsExist DEF RowFollowsRun
  <2> QED
    BY <1>1, <2>1 DEF vars, workerVars, history, RowFollowsRun, KeepsTier,
       NotCleared, OnTrack, JobOf
<1>2. ASSUME NEW w \in Workers,
             Pull(w) \/ RunStep(w) \/ Crash(w) \/ Redeliver(w)
      PROVE  RowFollowsRun'
  <2>typing. /\ pc \in [Workers -> Location]
             /\ tier \in [Workers -> Tiers \union {None}]
             /\ loaded \in [Workers -> Row]
             /\ \A v \in Workers : pc[v] # "idle" => JobOf(v) \in Jobs
    BY WritesTyped DEF TypeOK
  <2>rows. RowsExist /\ (\A v \in Workers : KeepsTier(v) /\ NotCleared(v))
           /\ \A v \in Workers :
                 pc[v] \in Active /\ JobOf(v) \notin forked => OnTrack(v)
    BY DEF RowFollowsRun
  <2>none. None \notin Tiers
    BY TierAssumption DEF ConfidenceTier, None
  <2>active. pc[w] \notin Active => rows' = rows
    BY <1>2, <2>rows, OwnRow DEF Active, Running, Writing
  <2>active2. \A v \in Workers : loaded[v] # NoRow => pc[v] # "idle"
    BY <2>rows DEF RowsExist, AtWrite
  <2>1. RowsExist'
    BY <2>rows, NextRowsExist
  <2>2. \A j \in Jobs : /\ rows[j].tier # None => rows'[j].tier # None
                        /\ rows[j].error # None => rows'[j].error # None
    <3>1. pc[w] = "persist" => tier[w] # None
      BY <2>rows, <2>none DEF KeepsTier
    <3> QED
      BY <1>2, <2>rows, <3>1, OwnRow, OthersAreLeftAlone DEF None
  <2>3. ASSUME NEW v \in Workers \ {w}
        PROVE  /\ KeepsTier(v)' /\ NotCleared(v)'
               /\ pc'[v] \in Active /\ JobOf(v)' \notin forked' => OnTrack(v)'
    <3>1. pc'[v] = pc[v] /\ task'[v] = task[v] /\ tier'[v] = tier[v]
          /\ loaded'[v] = loaded[v] /\ forked \subseteq forked'
      BY <1>2, OthersAreLeftAlone
    <3>2. KeepsTier(v)'
      BY <3>1, <2>2, <2>rows, <2>typing DEF KeepsTier, JobOf
    <3>4. NotCleared(v)'
      BY <3>1, <2>2, <2>rows, <2>typing, <2>active2 DEF NotCleared, JobOf
    <3>3. ASSUME pc[v] \in Active, JobOf(v) \notin forked
          PROVE  rows'[JobOf(v)] = rows[JobOf(v)]
      <4>1. JobOf(v) \in Jobs \ forked
        BY <3>3, <2>typing DEF Active, Running, Writing
      <4>2. pc[w] \in Active => JobOf(w) # JobOf(v)
        BY <3>3, <4>1 DEF Custody, CustodyOf, Holds
      <4> QED
        BY <1>2, <4>1, <4>2, <2>active, OthersAreLeftAlone
    <3> QED
      BY <3>1, <3>2, <3>3, <3>4, <2>rows DEF OnTrack, JobOf
  <2>4. /\ KeepsTier(w)' /\ NotCleared(w)'
        /\ pc'[w] \in Active /\ JobOf(w)' \notin forked' => OnTrack(w)'
    <3> USE DEF KeepsTier, NotCleared, OnTrack, JobOf, Goto, Active, Running,
                Writing, Ended, Location
    <3>idle. pc[w] = "idle" => loaded[w] = NoRow
      BY <2>active2
    <3>1. CASE \/ Pull(w) \/ LoadJob(w) \/ CloseSession(w) \/ Raise(w)
               \/ ScheduleRetry(w) \/ LoseRetry(w)
               \/ CleanupFails(w) \/ Ack(w) \/ Crash(w)
      <4>1. rows' = rows /\ (loaded'[w] = loaded[w] \/ loaded'[w] = NoRow)
        BY <3>1, <2>typing DEF Pull, Deliver, LoadJob, CloseSession, Raise,
           ScheduleRetry, LoseRetry, CleanupFails, Ack, Crash, BecomeIdle,
           KeepRun, ForgetRun
      <4>2. /\ pc'[w] \in {"idle", "fetch", "mark", "done", "raised", "rescheduled"}
            /\ pc[w] = "idle" \/ loaded'[w] = NoRow \/ task'[w] = task[w]
            /\ pc'[w] # "idle" /\ loaded'[w] # NoRow => task'[w] = task[w]
        BY <3>1, <3>idle, <2>typing DEF Pull, Deliver, LoadJob, CloseSession, Raise,
           ScheduleRetry, LoseRetry, CleanupFails, Ack, Crash, BecomeIdle,
           ForgetRun, Quiet, KeepRun
      <4>3. forked \subseteq forked'
        BY <1>2, OthersAreLeftAlone
      <4>4. loaded'[w] # NoRow => pc[w] \in Active
        BY <3>1, <4>1, <3>idle, <2>typing DEF Pull, Deliver, LoadJob, KeepRun,
           CloseSession, Raise, ScheduleRetry, LoseRetry, CleanupFails, Ack,
           Crash, BecomeIdle, ForgetRun
      <4> QED
        BY <4>1, <4>2, <4>3, <4>4, <2>rows
    <3>2. CASE \/ MarkProcessing(w) \/ PersistResult(w) \/ OverrideReview(w)
               \/ MarkJobFailed(w)
      <4>1. /\ task' = task /\ tier' = tier /\ forked' = forked
            /\ loaded[w] # NoRow /\ loaded'[w] = NoRow
            /\ pc[w] \in {"mark", "persist", "override", "raised"}
        BY <3>2, <2>typing DEF MarkProcessing, PersistResult, OverrideReview,
           MarkJobFailed, Quiet, KeepFindings, history, WriteStatus,
           WriteResult, Update
      <4>2. /\ pc[w] = "mark" => pc'[w] = "stages"
            /\ pc[w] = "persist" =>
                  pc'[w] = IF tier[w] = "review" THEN "override" ELSE "close"
            /\ pc[w] = "override" => pc'[w] = "close"
            /\ pc[w] = "raised" => pc'[w] = "done"
        BY <3>2, <2>typing DEF MarkProcessing, PersistResult, OverrideReview,
           MarkJobFailed
      <4>3. NotCleared(w)'
        BY <4>1
      <4>4. KeepsTier(w)'
        <5>1. CASE pc[w] = "persist" /\ tier[w] = "review"
          <6>1. tier[w] # None /\ WriteResult(w)
            BY <3>2, <5>1, <2>rows, <2>none DEF MarkProcessing, PersistResult,
               OverrideReview, MarkJobFailed
          <6>2. loaded[w].tier # None => rows[JobOf(w)].tier # None
            BY <4>1, <2>rows
          <6>3. rows'[JobOf(w)].tier = IF tier[w] # loaded[w].tier THEN tier[w]
                                       ELSE rows[JobOf(w)].tier
            BY <4>1, <6>1, <2>rows, ResultWriteEffect DEF RowsExist
          <6> QED
            BY <4>1, <4>2, <5>1, <6>1, <6>2, <6>3, <2>rows
        <5>2. CASE ~(pc[w] = "persist" /\ tier[w] = "review")
          BY <4>1, <4>2, <5>2
        <5> QED
          BY <5>1, <5>2
      <4>5. ASSUME JobOf(w) \notin forked PROVE OnTrack(w)'
        <5>1. OnTrack(w) /\ loaded[w] = rows[JobOf(w)]
          BY <4>1, <4>5, <2>rows
        <5>2. ASSUME pc[w] = "persist"
              PROVE  /\ rows'[JobOf(w)].status = "completed"
                     /\ rows'[JobOf(w)].tier = tier[w]
          <6>1. WriteResult(w) /\ loaded[w].status # Absent /\ pc[w] # "idle"
            BY <3>2, <4>1, <5>2, <2>rows DEF MarkProcessing, OverrideReview,
               MarkJobFailed, PersistResult, RowsExist
          <6>2. /\ rows'[JobOf(w)].status =
                      IF "completed" # loaded[w].status THEN "completed"
                      ELSE rows[JobOf(w)].status
                /\ rows'[JobOf(w)].tier = IF tier[w] # loaded[w].tier THEN tier[w]
                                          ELSE rows[JobOf(w)].tier
            BY <6>1, ResultWriteEffect
          <6> QED
            BY <5>1, <6>2
        <5>3. rows'[JobOf(w)].status =
                 CASE pc[w] = "mark" -> "processing"
                   [] pc[w] = "persist" -> "completed"
                   [] pc[w] = "override" -> "review"
                   [] pc[w] = "raised" -> "failed"
          <6>1. CASE MarkProcessing(w)
            BY <5>1, <6>1, <2>typing, <2>rows, StatusWriteEffect
               DEF MarkProcessing, RowsExist, StoredStatus, ErrorMessage
          <6>2. CASE PersistResult(w)
            BY <5>2, <6>2 DEF PersistResult
          <6>3. CASE OverrideReview(w)
            BY <5>1, <6>3, <2>typing, <2>rows, StatusWriteEffect
               DEF OverrideReview, RowsExist, StoredStatus, ErrorMessage
          <6>4. CASE MarkJobFailed(w)
            BY <5>1, <6>4, <2>typing, <2>rows, StatusWriteEffect
               DEF MarkJobFailed, RowsExist, StoredStatus, ErrorMessage
          <6> QED
            BY <3>2, <6>1, <6>2, <6>3, <6>4
        <5> QED
          BY <4>1, <4>2, <5>2, <5>3
      <4> QED
        BY <4>1, <4>3, <4>4, <4>5
    <3>3. CASE RunStages(w)
      BY <3>3, <2>typing, <2>rows DEF RunStages, Quiet, history
    <3>4. CASE WriteMetadata(w) \/ IndexCompanion(w) \/ NotifyCompletion(w)
      BY <3>4, <2>typing, <2>rows DEF WriteMetadata, IndexCompanion,
         NotifyCompletion, KeepRun, KeepFindings, Report, history
    <3>5. CASE Redeliver(w)
      BY <3>5, <2>typing, <2>rows DEF Redeliver, KeepRun, KeepFindings
    <3>6. CASE Select(w)
      <4>1. /\ pc' = pc /\ task' = task /\ tier' = tier /\ rows' = rows
            /\ forked' = forked /\ loaded'[w] = rows[JobOf(w)]
        BY <3>6, <2>typing DEF Select, Quiet, KeepFindings, history
      <4> QED
        BY <4>1, <2>rows
    <3> QED
      BY <1>2, <3>1, <3>2, <3>3, <3>4, <3>5, <3>6 DEF RunStep
  <2> QED
    BY <2>1, <2>3, <2>4 DEF RowFollowsRun
<1> QED
  BY <1>1, <1>2 DEF Next

LEMMA RowsFollowRuns == Spec => []RowFollowsRun
<1>1. TypeOK /\ (Custody /\ TakenBackIsForked) /\ RowFollowsRun /\ [Next]_vars
        => RowFollowsRun'
  BY NextRowFollowsRun
<1> QED
  BY InitRowFollowsRun, <1>1, TypeCorrect, CustodyIsKept, PTL DEF Spec

-----------------------------------------------------------------------------
(* What is final, and what is complete.                                     *)

LEMMA InitFailedIsFinal == Init => FailedIsFinal
  BY DEF Init, FailedIsFinal, QueuedRow, NoRow

LEMMA NextFailedIsFinal ==
    TypeOK /\ Custody /\ RowFollowsRun /\ FailedIsFinal /\ [Next]_vars
        => FailedIsFinal'
<1> SUFFICES ASSUME TypeOK, Custody, RowFollowsRun, FailedIsFinal, [Next]_vars,
                    NEW j \in Jobs, j \notin forked', j \notin replayed',
                    rows'[j].status = "failed"
             PROVE  ~InQueue(j)' /\ ~At(j, Running)'
  BY DEF FailedIsFinal
<1>1. CASE UNCHANGED vars
  BY <1>1 DEF vars, workerVars, history, FailedIsFinal, InQueue, At, JobOf
<1>2. ASSUME NEW w \in Workers,
             Pull(w) \/ RunStep(w) \/ Crash(w) \/ Redeliver(w)
      PROVE  ~InQueue(j)' /\ ~At(j, Running)'
  <2>typing. /\ ready \in [Messages -> Nat]
             /\ pc \in [Workers -> Location]
             /\ task \in [Workers -> Messages \union {NoTask}]
             /\ \A v \in Workers : pc[v] # "idle" => task[v] \in Messages
    BY DEF TypeOK
  <2>others. /\ \A v \in Workers \ {w} : pc'[v] = pc[v] /\ task'[v] = task[v]
             /\ pc[w] = "idle" \/ j # JobOf(w) => rows'[j] = rows[j]
             /\ j \in Jobs \ (forked \union replayed)
    BY <1>2, OthersAreLeftAlone
  <2>custody. CustodyOf(j)
    BY <2>others DEF Custody
  \* The step that fails the job: w is the only one that has it.
  <2>1. CASE rows[j].status # "failed"
    <3>1. /\ pc[w] = "raised" /\ pc'[w] = "done" /\ JobOf(w) = j
          /\ rows' # rows
      BY <1>2, <2>1, <2>others, OwnRow DEF RowFollowsRun
    <3>2. MarkJobFailed(w)
      BY <1>2, <3>1 DEF Pull, Deliver, RunStep, LoadJob, Select, MarkProcessing,
         RunStages, WriteMetadata, IndexCompanion, NotifyCompletion,
         PersistResult, OverrideReview, CloseSession, Raise, ScheduleRetry,
         LoseRetry, CleanupFails, Ack, Crash, Redeliver, Ended
    <3>3. ready' = ready
      BY <3>2 DEF MarkJobFailed
    <3>4. Holds(w, j)
      BY <3>1 DEF Holds, Active, Running
    <3>5. ~InQueue(j)'
      BY <3>3, <3>4, <2>custody DEF CustodyOf, InQueue
    <3>6. \A v \in Workers \ {w} : ~Holds(v, j)
      BY <3>4, <2>custody DEF CustodyOf
    <3> QED
      BY <3>1, <3>5, <3>6, <2>others DEF At, Holds, Active, JobOf, Running, Writing
  \* Afterwards: no message to deliver, no run to publish or to crash.
  <2>2. CASE rows[j].status = "failed"
    <3>1. ~InQueue(j) /\ ~At(j, Running)
      BY <2>2, <2>others DEF FailedIsFinal
    <3>2. pc[w] \in Running => JobOf(w) # j
      BY <3>1 DEF At
    <3> USE DEF InQueue, At, JobOf, Goto
    <3>3. CASE Pull(w)
      <4>1. PICK m \in Messages : Deliver(w, m)
        BY <3>3 DEF Pull
      <4>2. m.job # j
        BY <4>1, <3>1 DEF Deliver
      <4> QED
        BY <4>1, <4>2, <3>1, <2>typing, <2>others DEF Deliver
    <3>4. CASE ScheduleRetry(w)
      <4>1. Message(JobOf(w), task[w].retries + 1).job # j
        BY <3>4, <3>2 DEF ScheduleRetry, Message, Running
      <4>2. \A m \in Messages : m.job = j => ready'[m] = ready[m]
        BY <3>4, <4>1, <2>typing DEF ScheduleRetry
      <4> QED
        BY <3>4, <4>2, <3>1, <2>typing DEF ScheduleRetry, Quiet, Running, Writing
    <3>5. CASE Ack(w)
      BY <3>5, <3>1, <2>typing DEF Ack, BecomeIdle, Running, Writing
    <3>6. CASE Crash(w)
      <4>1. CASE JobOf(w) # j
        BY <3>6, <4>1, <3>1, <2>typing DEF Crash, BecomeIdle, Running, Writing
      <4>2. CASE JobOf(w) = j
        <5>1. pc[w] \in Ended
          BY <3>6, <4>2, <3>2, <2>typing DEF Crash, Location
        <5>2. ready' = ready
          BY <3>6, <4>2, <5>1 DEF Crash, Ended
        <5> QED
          BY <3>6, <5>2, <3>1, <2>typing DEF Crash, BecomeIdle, Running, Writing
      <4> QED
        BY <4>1, <4>2
    <3>7. CASE Redeliver(w)
      <4>1. JobOf(w) # j
        BY <3>7 DEF Redeliver
      <4> QED
        BY <3>7, <4>1, <3>1, <2>typing DEF Redeliver
    <3>8. CASE \/ LoadJob(w) \/ Select(w) \/ MarkProcessing(w) \/ RunStages(w)
               \/ WriteMetadata(w) \/ IndexCompanion(w) \/ NotifyCompletion(w)
               \/ PersistResult(w) \/ OverrideReview(w) \/ CloseSession(w)
               \/ Raise(w) \/ LoseRetry(w) \/ MarkJobFailed(w) \/ CleanupFails(w)
      <4>1. /\ pc[w] \in Running /\ task' = task /\ ready' = ready
        BY <3>8 DEF LoadJob, Select, AtWrite, MarkProcessing, RunStages,
           WriteMetadata, IndexCompanion, NotifyCompletion, PersistResult,
           OverrideReview, CloseSession, Raise, LoseRetry, MarkJobFailed,
           CleanupFails, Quiet, Running, Writing
      <4> QED
        BY <4>1, <3>1, <3>2, <2>others
    <3> QED
      BY <1>2, <3>3, <3>4, <3>5, <3>6, <3>7, <3>8 DEF RunStep
  <2> QED
    BY <2>1, <2>2
<1> QED
  BY <1>1, <1>2 DEF Next

(***************************************************************************)
(* FAILED is written on the last attempt only, and nothing can run the job  *)
(* afterwards unless the broker hands one of its messages out again.        *)
(***************************************************************************)
THEOREM FailureIsFinal == Spec => []FailedIsFinal
<1>1. TypeOK /\ (Custody /\ TakenBackIsForked) /\ RowFollowsRun /\ FailedIsFinal
        /\ [Next]_vars => FailedIsFinal'
  BY NextFailedIsFinal
<1> QED
  BY InitFailedIsFinal, <1>1, TypeCorrect, CustodyIsKept, RowsFollowRuns, PTL
     DEF Spec

LEMMA InitOutcomeRecorded == Init => OutcomeRecorded
  BY DEF Init, OutcomeRecorded, QueuedRow, NoRow, NoResult

LEMMA NextOutcomeRecorded ==
    TypeOK /\ RowFollowsRun /\ OutcomeRecorded /\ [Next]_vars => OutcomeRecorded'
<1> SUFFICES ASSUME TypeOK, RowFollowsRun, OutcomeRecorded, [Next]_vars
             PROVE  OutcomeRecorded'
  OBVIOUS
<1>1. CASE UNCHANGED vars
  BY <1>1 DEF vars, history, OutcomeRecorded
<1>2. ASSUME NEW w \in Workers,
             Pull(w) \/ RunStep(w) \/ Crash(w) \/ Redeliver(w)
      PROVE  OutcomeRecorded'
  <2>1. None \notin Tiers
    BY TierAssumption DEF ConfidenceTier, None
  <2>2. KeepsTier(w) /\ NotCleared(w)
    BY DEF RowFollowsRun
  <2>3. pc[w] \in Active /\ JobOf(w) \notin forked => OnTrack(w)
    BY DEF RowFollowsRun
  <2>4. ASSUME NEW j \in Jobs
        PROVE  LET r == rows'[j] IN
               /\ r.status \in {"completed", "review"} => r.tier # None
               /\ r.status = "failed" => r.error # None
               /\ j \notin forked' =>
                     /\ r.result.tier = r.tier
                     /\ r.status = "review" => r.tier = "review"
    <3>0. forked \subseteq forked'
      BY <1>2, OthersAreLeftAlone
    <3>hyp. LET r == rows[j] IN
            /\ r.status \in {"completed", "review"} => r.tier # None
            /\ r.status = "failed" => r.error # None
            /\ j \notin forked =>
                  /\ r.result.tier = r.tier
                  /\ r.status = "review" => r.tier = "review"
      BY DEF OutcomeRecorded
    <3>1. CASE rows'[j] = rows[j]
      BY <3>0, <3>1, <3>hyp
    <3>2. CASE rows'[j] # rows[j]
      <4>1. j = JobOf(w)
        BY <1>2, <3>2, OthersAreLeftAlone
      <4>2. loaded[w] # NoRow /\ pc[w] \in {"mark", "persist", "override", "raised"}
        BY <1>2, <3>2, OwnRow DEF RowFollowsRun
      <4>3. /\ loaded[w].tier # None => rows[j].tier # None
            /\ loaded[w].error # None => rows[j].error # None
            /\ pc[w] \in {"persist", "override"} => tier[w] # None
            /\ pc[w] = "override" => rows[j].tier # None
        BY <4>1, <4>2, <2>1, <2>2 DEF KeepsTier, NotCleared
      <4>4. j \notin forked =>
               /\ loaded[w] = rows[j]
               /\ pc[w] = "override" => rows[j].tier = "review"
        BY <4>1, <4>2, <2>3 DEF OnTrack, Active, Running, Writing
      <4>5. CASE pc[w] = "persist"
        BY <1>2, <3>0, <3>2, <3>hyp, <4>1, <4>3, <4>4, <4>5, OwnRow
           DEF RowFollowsRun
      <4>6. CASE pc[w] = "override"
        BY <1>2, <3>0, <3>2, <3>hyp, <4>1, <4>3, <4>4, <4>6, OwnRow
           DEF RowFollowsRun
      <4>7. CASE pc[w] \in {"mark", "raised"}
        BY <1>2, <3>0, <3>2, <3>hyp, <4>1, <4>3, <4>7, OwnRow
           DEF RowFollowsRun, None
      <4> QED
        BY <4>2, <4>5, <4>6, <4>7
    <3> QED
      BY <3>1, <3>2
  <2> QED
    BY <2>4 DEF OutcomeRecorded
<1> QED
  BY <1>1, <1>2 DEF Next

(***************************************************************************)
(* A settled row has its tier or its error message, also when overlapping   *)
(* runs of the job wrote it statement by statement: no run clears what       *)
(* another has selected.  That the tier is the result's, and REVIEW its      *)
(* status for the review tier only, holds where a run writes the row it      *)
(* selected, that is, as long as the broker made no second message.          *)
(***************************************************************************)
THEOREM OutcomesAreRecorded == Spec => []OutcomeRecorded
<1>1. TypeOK /\ RowFollowsRun /\ OutcomeRecorded /\ [Next]_vars
        => OutcomeRecorded'
  BY NextOutcomeRecorded
<1> QED
  BY InitOutcomeRecorded, <1>1, TypeCorrect, RowsFollowRuns, PTL DEF Spec

LEMMA InitReview == Init => ReviewIsNotLeftCompleted
  BY DEF Init, ReviewIsNotLeftCompleted, QueuedRow, NoRow

LEMMA NextReview ==
    TypeOK /\ TakenBackIsForked /\ RowFollowsRun /\ ReviewIsNotLeftCompleted
        /\ [Next]_vars => ReviewIsNotLeftCompleted'
<1> SUFFICES ASSUME TypeOK, TakenBackIsForked, RowFollowsRun,
                    ReviewIsNotLeftCompleted, [Next]_vars,
                    NEW j \in Jobs, j \notin forked',
                    rows'[j].status = "completed", rows'[j].tier = "review"
             PROVE  InQueue(j)' \/ At(j, Running)' \/ j \in abandoned'
  BY DEF ReviewIsNotLeftCompleted
<1>1. CASE UNCHANGED vars
  BY <1>1 DEF vars, workerVars, history, ReviewIsNotLeftCompleted, InQueue, At,
              JobOf
<1>2. ASSUME NEW w \in Workers,
             Pull(w) \/ RunStep(w) \/ Crash(w) \/ Redeliver(w)
      PROVE  InQueue(j)' \/ At(j, Running)' \/ j \in abandoned'
  <2>typing. /\ ready \in [Messages -> Nat]
             /\ pc \in [Workers -> Location]
             /\ task \in [Workers -> Messages \union {NoTask}]
             /\ \A v \in Workers : pc[v] # "idle" => task[v] \in Messages
    BY DEF TypeOK
  <2>others. /\ \A v \in Workers \ {w} : pc'[v] = pc[v] /\ task'[v] = task[v]
             /\ pc[w] = "idle" \/ j # JobOf(w) => rows'[j] = rows[j]
             /\ j \notin forked /\ abandoned \subseteq abandoned'
    BY <1>2, OthersAreLeftAlone
  <2> USE DEF InQueue, At, JobOf, Goto
  \* The row has just been written: the override is the next step of the run.
  <2>1. CASE rows'[j] # rows[j]
    <3>0. /\ rows' # rows /\ j = JobOf(w)
          /\ loaded[w] # NoRow /\ pc[w] \in {"mark", "persist", "override", "raised"}
      BY <1>2, <2>1, <2>others, OwnRow DEF RowFollowsRun
    <3>4. loaded[w] = rows[j]
      BY <3>0, <2>others DEF RowFollowsRun, OnTrack, Active, Running, Writing
    <3>1. j = JobOf(w) /\ pc[w] = "persist" /\ pc'[w] = "override"
      BY <1>2, <3>0, <3>4, OwnRow DEF RowFollowsRun
    <3>2. PersistResult(w)
      BY <1>2, <3>1, <2>typing DEF Pull, Deliver, RunStep, LoadJob,
         MarkProcessing, RunStages, WriteMetadata, IndexCompanion,
         NotifyCompletion, OverrideReview, CloseSession, Raise, ScheduleRetry,
         LoseRetry, MarkJobFailed, CleanupFails, Ack, Crash, Redeliver, Ended,
         BecomeIdle, Select
    <3>3. task' = task
      BY <3>2 DEF PersistResult, Quiet
    <3> QED
      BY <3>1, <3>3 DEF Running
  \* It was so before: whoever was to correct the row still is, or has handed on.
  <2>2. CASE rows'[j] = rows[j]
    <3>1. InQueue(j) \/ At(j, Running) \/ j \in abandoned
      BY <2>2, <2>others DEF ReviewIsNotLeftCompleted
    <3>2. pc[w] = "close" => JobOf(w) # j
      BY <2>2, <2>others DEF RowFollowsRun, OnTrack, Active, Running
    <3>3. CASE Pull(w)
      <4>1. PICK m \in Messages : Deliver(w, m)
        BY <3>3 DEF Pull
      <4>2. m.job = j => At(j, Running)'
        BY <4>1, <2>typing DEF Deliver, Running, Writing
      <4>3. m.job # j /\ InQueue(j) => InQueue(j)'
        BY <4>1, <2>typing DEF Deliver
      <4>4. At(j, Running) => At(j, Running)'
        BY <4>1, <2>others DEF Deliver, Running, Writing
      <4> QED
        BY <3>1, <4>2, <4>3, <4>4, <2>others
    <3>select. CASE Select(w)
      <4>1. task' = task /\ ready' = ready /\ pc' = pc
        BY <3>select DEF Select, Quiet
      <4> QED
        BY <4>1, <3>1, <2>others
    <3>4. CASE \/ LoadJob(w) \/ MarkProcessing(w) \/ RunStages(w)
               \/ WriteMetadata(w) \/ IndexCompanion(w) \/ NotifyCompletion(w)
               \/ PersistResult(w) \/ OverrideReview(w) \/ Raise(w)
      <4>1. /\ task' = task /\ ready' = ready
            /\ \E there \in Running : pc' = [pc EXCEPT ![w] = there]
        BY <3>4 DEF LoadJob, MarkProcessing, RunStages, WriteMetadata,
           IndexCompanion, NotifyCompletion, PersistResult, OverrideReview,
           Raise, Quiet, Running, Writing
      <4> QED
        BY <4>1, <3>1, <2>typing, <2>others
    <3>5. CASE CloseSession(w) \/ Ack(w)
      <4>1. pc[w] \in Running => JobOf(w) # j
        BY <3>5, <3>2 DEF CloseSession, Ack, Ended, Running, Writing
      <4>2. ready' = ready
        BY <3>5 DEF CloseSession, Ack
      <4> QED
        BY <4>1, <4>2, <3>1, <2>others
    <3>6. CASE ScheduleRetry(w)
      <4> DEFINE m == Message(JobOf(w), task[w].retries + 1)
      <4>1. m \in Messages /\ m.job = JobOf(w)
        BY <3>6, WritesTyped, RetryAssumption
           DEF ScheduleRetry, Message, Messages
      <4>2. /\ ready' = [ready EXCEPT ![m] = @ + 1] /\ task' = task
        BY <3>6 DEF ScheduleRetry, Quiet
      <4>3. InQueue(JobOf(w))' /\ (InQueue(j) => InQueue(j)')
        BY <4>1, <4>2, <2>typing
      <4> QED
        BY <4>2, <4>3, <3>1, <2>others
    <3>7. CASE LoseRetry(w) \/ CleanupFails(w)
      <4>1. ready' = ready /\ abandoned' = abandoned \union {JobOf(w)}
        BY <3>7 DEF LoseRetry, CleanupFails, Abandon
      <4> QED
        BY <4>1, <3>1, <2>others
    <3>8. CASE MarkJobFailed(w)
      <4>1. JobOf(w) # j
        <5>1. /\ pc[w] = "raised" /\ loaded[w] # NoRow
              /\ WriteStatus(w, "failed", "exception")
          BY <3>8 DEF MarkJobFailed, WriteStatus, Update
        <5>2. ASSUME JobOf(w) \notin forked PROVE loaded[w] = rows[JobOf(w)]
          BY <5>1, <5>2 DEF RowFollowsRun, OnTrack, Active, Running
        <5>3. ASSUME JobOf(w) \notin forked PROVE rows'[JobOf(w)].status = "failed"
          BY <5>1, <5>2, <5>3, StatusWriteEffect
             DEF RowFollowsRun, RowsExist, StoredStatus, ErrorMessage
        <5> QED
          BY <5>3, <2>others
      <4>2. ready' = ready
        BY <3>8 DEF MarkJobFailed
      <4> QED
        BY <4>1, <4>2, <3>1, <2>others
    <3>9. CASE Crash(w)
      <4>1. /\ pc[w] # "idle"
            /\ \/ unacked[w] /\ ready' = [ready EXCEPT ![task[w]] = @ + 1]
               \/ ~unacked[w] /\ ready' = ready
        BY <3>9 DEF Crash
      <4>2. InQueue(j) => InQueue(j)'
        BY <4>1, <2>typing
      <4>3. pc[w] \in Running /\ JobOf(w) = j => InQueue(j)'
        BY <4>1, <2>typing, <2>others DEF TakenBackIsForked, Active
      <4> QED
        BY <4>2, <4>3, <3>1, <2>others
    <3>10. CASE Redeliver(w)
      <4>1. /\ pc' = pc /\ task' = task /\ pc[w] # "idle"
            /\ ready' = [ready EXCEPT ![task[w]] = @ + 1]
        BY <3>10 DEF Redeliver
      <4>2. InQueue(j) => InQueue(j)'
        BY <4>1, <2>typing
      <4> QED
        BY <4>1, <4>2, <3>1, <2>others
    <3> QED
      BY <1>2, <3>3, <3>select, <3>4, <3>5, <3>6, <3>7, <3>8, <3>9, <3>10
         DEF RunStep
  <2> QED
    BY <2>1, <2>2
<1> QED
  BY <1>1, <1>2 DEF Next

(***************************************************************************)
(* A review-tier result is COMPLETED only while something is on its way to  *)
(* correct that, or its job was abandoned.                                  *)
(***************************************************************************)
THEOREM ReviewIsHeldBack == Spec => []ReviewIsNotLeftCompleted
<1>1. TypeOK /\ (Custody /\ TakenBackIsForked) /\ RowFollowsRun
        /\ ReviewIsNotLeftCompleted /\ [Next]_vars => ReviewIsNotLeftCompleted'
  BY NextReview
<1> QED
  BY InitReview, <1>1, TypeCorrect, CustodyIsKept, RowsFollowRuns, PTL DEF Spec

-----------------------------------------------------------------------------
(* The trace can be believed.                                               *)

\* The effects a set of stages stands for have happened for job j.
Happened(j, done) ==
    /\ "metadata_write" \in done => FileHash[j] \in chroma
    /\ "search_index" \in done \intersect Configured => FileHash[j] \in es
    /\ "callback" \in done \intersect Configured => j \in hooks

(***************************************************************************)
(* The same of the trace a run has in memory, which is empty until the run  *)
(* has its tier: a second tier cannot meet the trace of the first.          *)
(***************************************************************************)
TraceFollowsRun ==
    \A w \in Workers :
        /\ pc[w] \in {"idle", "fetch", "mark", "stages"} => trace[w] = {}
        /\ pc[w] # "idle" => Happened(JobOf(w), trace[w])
        /\ tier[w] = "review" => "metadata_write" \notin trace[w]

LEMMA InitTraces == Init => TraceFollowsRun /\ TraceIsHonest
  BY DEF Init, TraceFollowsRun, TraceIsHonest, QueuedRow, NoRow

\* Nothing is ever deleted from ChromaDB, Elasticsearch or a receiver's inbox.
LEMMA HappenedForGood ==
    ASSUME TypeOK, NEW w \in Workers,
           Pull(w) \/ RunStep(w) \/ Crash(w) \/ Redeliver(w),
           NEW j, NEW done, Happened(j, done)
    PROVE  Happened(j, done)'
  BY OthersAreLeftAlone DEF Happened

LEMMA NextTraceFollowsRun ==
    TypeOK /\ TraceFollowsRun /\ [Next]_vars => TraceFollowsRun'
<1> SUFFICES ASSUME TypeOK, TraceFollowsRun, [Next]_vars PROVE TraceFollowsRun'
  OBVIOUS
<1>1. CASE UNCHANGED vars
  BY <1>1 DEF vars, workerVars, storeVars, TraceFollowsRun, Happened, JobOf
<1>2. ASSUME NEW w \in Workers,
             Pull(w) \/ RunStep(w) \/ Crash(w) \/ Redeliver(w)
      PROVE  TraceFollowsRun'
  <2>typing. /\ pc \in [Workers -> Location]
             /\ trace \in [Workers -> SUBSET EffectStages]
             /\ tier \in [Workers -> Tiers \union {None}]
             /\ task \in [Workers -> Messages \union {NoTask}]
    BY DEF TypeOK
  <2>hyp. /\ pc[w] \in {"idle", "fetch", "mark", "stages"} => trace[w] = {}
          /\ pc[w] # "idle" => Happened(JobOf(w), trace[w])
          /\ tier[w] = "review" => "metadata_write" \notin trace[w]
    BY DEF TraceFollowsRun
  <2>1. ASSUME NEW v \in Workers \ {w}
        PROVE  /\ pc'[v] \in {"idle", "fetch", "mark", "stages"} => trace'[v] = {}
               /\ pc'[v] # "idle" => Happened(JobOf(v), trace[v])'
               /\ tier'[v] = "review" => "metadata_write" \notin trace'[v]
    BY <1>2, OthersAreLeftAlone, HappenedForGood
       DEF TraceFollowsRun, Happened, JobOf
  <2>2. /\ pc'[w] \in {"idle", "fetch", "mark", "stages"} => trace'[w] = {}
        /\ pc'[w] # "idle" => Happened(JobOf(w), trace[w])'
        /\ tier'[w] = "review" => "metadata_write" \notin trace'[w]
    <3> USE DEF Goto, KeepRun, KeepFindings
    <3>1. CASE \/ CloseSession(w) \/ Raise(w) \/ CleanupFails(w) \/ Ack(w)
               \/ Crash(w)
      BY <3>1, <2>typing DEF CloseSession, Raise, CleanupFails, Ack, Crash,
         BecomeIdle, ForgetRun, Happened
    <3>2. CASE Pull(w)
      BY <3>2, <2>typing, <2>hyp DEF Pull, Deliver, Happened
    <3>3. CASE RunStages(w)
      BY <3>3, <2>typing, <2>hyp DEF RunStages, Quiet, Happened
    <3>4. CASE \/ LoadJob(w) \/ Select(w) \/ MarkProcessing(w) \/ PersistResult(w)
               \/ OverrideReview(w) \/ ScheduleRetry(w) \/ LoseRetry(w)
               \/ MarkJobFailed(w) \/ Redeliver(w)
      <4>1. /\ task' = task /\ trace' = trace /\ tier' = tier
            /\ pc[w] # "idle"
            /\ pc'[w] \in {"idle", "fetch", "mark", "stages"} =>
                  pc[w] \in {"idle", "fetch", "mark", "stages"}
        BY <3>4, <2>typing DEF LoadJob, Select, AtWrite, MarkProcessing,
           PersistResult, OverrideReview, ScheduleRetry, LoseRetry,
           MarkJobFailed, Redeliver, Quiet, WriteStatus, WriteResult, Update
      <4> QED
        BY <1>2, <4>1, <2>hyp, HappenedForGood DEF Happened, JobOf
    <3>5. CASE WriteMetadata(w)
      <4>1. /\ pc[w] # "idle" /\ pc'[w] = "index" /\ task' = task /\ tier' = tier
            /\ es' = es /\ hooks' = hooks /\ chroma \subseteq chroma'
            /\ trace'[w] \subseteq trace[w] \union {"metadata_write"}
            /\ trace'[w] # trace[w] =>
                  tier[w] # "review" /\ FileHash[JobOf(w)] \in chroma'
        BY <3>5, <2>typing DEF WriteMetadata, Report, Attempt
      <4> QED
        BY <4>1, <2>hyp DEF Happened, JobOf
    <3>6. CASE IndexCompanion(w)
      <4>1. /\ pc[w] # "idle" /\ pc'[w] = "notify" /\ task' = task /\ tier' = tier
            /\ chroma' = chroma /\ hooks' = hooks /\ es \subseteq es'
            /\ trace'[w] \subseteq trace[w] \union {"search_index"}
            /\ trace'[w] # trace[w] /\ "search_index" \in Configured =>
                  FileHash[JobOf(w)] \in es'
        BY <3>6, <2>typing DEF IndexCompanion, Report, Attempt
      <4> QED
        BY <4>1, <2>hyp DEF Happened, JobOf
    <3>7. CASE NotifyCompletion(w)
      <4>1. /\ pc[w] # "idle" /\ pc'[w] = "persist" /\ task' = task /\ tier' = tier
            /\ chroma' = chroma /\ es' = es
        BY <3>7, <2>typing DEF NotifyCompletion, Report
      <4>2. hooks \subseteq hooks'
        BY <1>2, OthersAreLeftAlone
      <4>3. CASE trace'[w] = trace[w]
        BY <4>1, <4>2, <4>3, <2>hyp DEF Happened, JobOf
      <4>4. CASE trace'[w] # trace[w]
        <5>1. /\ trace'[w] = trace[w] \union {"callback"}
              /\ "callback" \in Configured => JobOf(w) \in hooks'
          BY <3>7, <4>4, <2>typing DEF NotifyCompletion, Report, Attempt
        <5> QED
          BY <4>1, <4>2, <5>1, <2>hyp DEF Happened, JobOf
      <4> QED
        BY <4>3, <4>4
    <3> QED
      BY <1>2, <3>1, <3>2, <3>3, <3>4, <3>5, <3>6, <3>7 DEF RunStep
  <2> QED
    BY <2>1, <2>2 DEF TraceFollowsRun
<1> QED
  BY <1>1, <1>2 DEF Next

LEMMA NextTraceIsHonest ==
    TypeOK /\ RowFollowsRun /\ TraceFollowsRun /\ TraceIsHonest /\ [Next]_vars
        => TraceIsHonest'
<1> SUFFICES ASSUME TypeOK, RowFollowsRun, TraceFollowsRun, TraceIsHonest,
                    [Next]_vars, NEW j \in Jobs
             PROVE  /\ Happened(j, rows[j].trace)'
                    /\ rows'[j].tier = "review" /\ j \notin forked' =>
                          "metadata_write" \notin rows'[j].trace
  BY DEF TraceIsHonest, Happened
<1>1. /\ Happened(j, rows[j].trace)
      /\ rows[j].tier = "review" /\ j \notin forked =>
            "metadata_write" \notin rows[j].trace
  BY DEF TraceIsHonest, Happened
<1>2. CASE UNCHANGED vars
  BY <1>1, <1>2 DEF vars, storeVars, history, Happened
<1>3. ASSUME NEW w \in Workers,
             Pull(w) \/ RunStep(w) \/ Crash(w) \/ Redeliver(w)
      PROVE  /\ Happened(j, rows[j].trace)'
             /\ rows'[j].tier = "review" /\ j \notin forked' =>
                   "metadata_write" \notin rows'[j].trace
  <2>0. forked \subseteq forked'
    BY <1>3, OthersAreLeftAlone
  \* A run that is the only one has selected the row it writes.
  <2>alone. j = JobOf(w) /\ pc[w] = "persist" /\ loaded[w] # NoRow
               /\ j \notin forked => loaded[w] = rows[j]
    BY DEF RowFollowsRun, OnTrack, Active, Running, Writing
  <2>1. \/ rows'[j].trace = rows[j].trace /\ rows'[j].tier = rows[j].tier
        \/ /\ j = JobOf(w) /\ pc[w] = "persist"
           /\ rows'[j].trace = trace[w]
           /\ j \notin forked => rows'[j].tier = tier[w]
    BY <1>3, <2>alone, OthersAreLeftAlone, OwnRow DEF RowFollowsRun
  <2>2. j = JobOf(w) /\ pc[w] = "persist" =>
           /\ Happened(j, trace[w])
           /\ tier[w] = "review" => "metadata_write" \notin trace[w]
    BY DEF TraceFollowsRun
  <2>3. \A done : Happened(j, done) =>
           /\ "metadata_write" \in done => FileHash[j] \in chroma'
           /\ "search_index" \in done \intersect Configured => FileHash[j] \in es'
           /\ "callback" \in done \intersect Configured => j \in hooks'
    BY <1>3, HappenedForGood DEF Happened
  <2> QED
    BY <1>1, <2>0, <2>1, <2>2, <2>3 DEF Happened
<1> QED
  BY <1>2, <1>3 DEF Next

(***************************************************************************)
(* Whatever runs, retries and overlaps wrote the row, an effect its         *)
(* pipeline_trace reports has happened: a trace is written whole, by the run *)
(* that caused its effects.  That a review-tier row reports no metadata      *)
(* write is proved of jobs of which the broker made no second message; with  *)
(* two runs the row may keep the tier of the one beside the other's trace.   *)
(***************************************************************************)
THEOREM TracesAreHonest == Spec => []TraceIsHonest
<1>1. TypeOK /\ RowFollowsRun /\ (TraceFollowsRun /\ TraceIsHonest) /\ [Next]_vars
        => (TraceFollowsRun /\ TraceIsHonest)'
  BY NextTraceFollowsRun, NextTraceIsHonest
<1> QED
  BY InitTraces, <1>1, TypeCorrect, RowsFollowRuns, PTL DEF Spec

-----------------------------------------------------------------------------
(* The task implements JobLifecycle.                                        *)

disturbed == forked \union replayed

LEMMA InitRefines == Init => Lifecycle!Init
  BY DEF Init, Lifecycle!Init, QueuedRow, NoRow

\* A step that writes a row disturbs no job.
LEMMA WritersDoNotDisturb ==
    ASSUME NEW w \in Workers,
           Pull(w) \/ RunStep(w) \/ Crash(w) \/ Redeliver(w),
           rows' # rows
    PROVE  disturbed' = disturbed
  BY DEF disturbed, Pull, Deliver, RunStep, LoadJob, Select, MarkProcessing,
     RunStages, WriteMetadata, IndexCompanion, NotifyCompletion, PersistResult,
     OverrideReview, CloseSession, Raise, ScheduleRetry, LoseRetry,
     MarkJobFailed, CleanupFails, Ack, Crash, Redeliver, Quiet, Abandon, history

\* The others disturb the job of the worker that stops or loses its message.
LEMMA OneIsDisturbed ==
    ASSUME TypeOK, NEW w \in Workers,
           Pull(w) \/ RunStep(w) \/ Crash(w) \/ Redeliver(w)
    PROVE  \/ disturbed' = disturbed
           \/ JobOf(w) \in Jobs /\ disturbed' = disturbed \union {JobOf(w)}
<1>1. CASE Crash(w) \/ Redeliver(w)
  <2>1. JobOf(w) \in Jobs
    BY <1>1, WritesTyped DEF Crash, Redeliver
  <2> QED
    BY <1>1, <2>1 DEF Crash, Redeliver, disturbed
<1>2. CASE ~(Crash(w) \/ Redeliver(w))
  BY <1>2 DEF disturbed, Pull, Deliver, RunStep, LoadJob, Select, MarkProcessing,
     RunStages, WriteMetadata, IndexCompanion, NotifyCompletion, PersistResult,
     OverrideReview, CloseSession, Raise, ScheduleRetry, LoseRetry,
     MarkJobFailed, CleanupFails, Ack, Quiet, Abandon, history
<1> QED
  BY <1>1, <1>2

LEMMA NextRefines ==
    TypeOK /\ RowFollowsRun /\ FailedIsFinal /\ [Next]_vars
        => [Lifecycle!Next]_(Lifecycle!vars)
<1> SUFFICES ASSUME TypeOK, RowFollowsRun, FailedIsFinal, [Next]_vars
             PROVE  [Lifecycle!Next]_(Lifecycle!vars)
  OBVIOUS
<1> DEFINE status == [j \in Jobs |-> rows[j].status]
<1>1. CASE UNCHANGED vars
  BY <1>1 DEF vars, history, Lifecycle!vars
<1>2. ASSUME NEW w \in Workers,
             Pull(w) \/ RunStep(w) \/ Crash(w) \/ Redeliver(w)
      PROVE  [Lifecycle!Next]_(Lifecycle!vars)
  <2>1. CASE status' = status
    <3>1. CASE disturbed' = disturbed
      BY <2>1, <3>1 DEF Lifecycle!vars, disturbed
    <3>2. CASE JobOf(w) \in Jobs /\ disturbed' = disturbed \union {JobOf(w)}
      <4>1. Lifecycle!Disturb(JobOf(w))
        BY <2>1, <3>2 DEF Lifecycle!Disturb, disturbed
      <4> QED
        BY <3>2, <4>1 DEF Lifecycle!Next
    <3> QED
      BY <1>2, <3>1, <3>2, OneIsDisturbed
  \* A run that found its status in the row it had selected changes nothing here.
  <2>2. CASE status' # status
    <3>0. rows' # rows
      BY <2>2
    <3>1. PICK k \in Jobs :
             /\ k = JobOf(w) /\ pc[w] \in {"mark", "persist", "override", "raised"}
             /\ rows'[k].status # rows[k].status
      <4>1. pc[w] \in {"mark", "persist", "override", "raised"}
        BY <1>2, <3>0, OwnRow DEF RowFollowsRun
      <4>2. JobOf(w) \in Jobs /\ \A j \in Jobs \ {JobOf(w)} : rows'[j] = rows[j]
        BY <1>2, <4>1, WritesTyped, OthersAreLeftAlone
      <4> QED
        BY <2>2, <4>1, <4>2
    <3> DEFINE s == rows'[k].status
    <3>2. status' = [status EXCEPT ![k] = s]
      BY <1>2, <3>1, OthersAreLeftAlone
    <3>3. forked' \union replayed' = forked \union replayed
      BY <1>2, <3>0, WritersDoNotDisturb DEF disturbed
    <3>4. status[k] \in StoredStatus
      BY <3>1 DEF TypeOK, Row, RowFollowsRun, RowsExist
    <3>5. k \in forked \union replayed \/ status[k] # "failed"
      BY <3>1 DEF FailedIsFinal, At, Running, Writing
    <3>6. k \in forked \/ OnTrack(w)
      BY <3>1 DEF RowFollowsRun, Active, Running, Writing
    <3>7. \/ pc[w] = "mark" /\ s = "processing"
          \/ pc[w] = "persist" /\ s = "completed"
          \/ pc[w] = "override" /\ s = "review"
          \/ pc[w] = "raised" /\ s = "failed"
      BY <1>2, <3>0, <3>1, OwnRow DEF RowFollowsRun
    <3>8. CASE pc[w] = "mark"
      <4>1. Lifecycle!Begin(k)
        BY <3>1, <3>2, <3>3, <3>4, <3>5, <3>7, <3>8
           DEF Lifecycle!Begin, Lifecycle!Move, StoredStatus
      <4> QED
        BY <3>1, <4>1 DEF Lifecycle!Next
    <3>9. CASE pc[w] = "persist"
      <4>1. Lifecycle!Complete(k)
        BY <3>1, <3>2, <3>3, <3>6, <3>7, <3>9
           DEF Lifecycle!Complete, Lifecycle!Move, OnTrack
      <4> QED
        BY <3>1, <4>1 DEF Lifecycle!Next
    <3>10. CASE pc[w] = "override"
      <4>1. Lifecycle!HoldForReview(k)
        BY <3>1, <3>2, <3>3, <3>6, <3>7, <3>10
           DEF Lifecycle!HoldForReview, Lifecycle!Move, OnTrack
      <4> QED
        BY <3>1, <4>1 DEF Lifecycle!Next
    <3>11. CASE pc[w] = "raised"
      <4>1. Lifecycle!Fail(k)
        BY <3>1, <3>2, <3>3, <3>4, <3>5, <3>7, <3>11
           DEF Lifecycle!Fail, Lifecycle!Move, StoredStatus
      <4> QED
        BY <3>1, <4>1 DEF Lifecycle!Next
    <3> QED
      BY <3>1, <3>8, <3>9, <3>10, <3>11
  <2> QED
    BY <2>1, <2>2
<1> QED
  BY <1>1, <1>2 DEF Next

(***************************************************************************)
(* What a client sees of a job's status follows JobLifecycle.               *)
(***************************************************************************)
THEOREM TaskFollowsLifecycle == Spec => FollowsLifecycle
<1>1. TypeOK /\ RowFollowsRun /\ FailedIsFinal /\ [Next]_vars
        => [Lifecycle!Next]_(Lifecycle!vars)
  BY NextRefines
<1> QED
  BY InitRefines, <1>1, TypeCorrect, RowsFollowRuns, FailureIsFinal, PTL
     DEF Spec, FollowsLifecycle, Lifecycle!Spec

=============================================================================
