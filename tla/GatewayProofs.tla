--------------------------- MODULE GatewayProofs ---------------------------
(***************************************************************************)
(* Proofs about the API process, for any calls of any callers, any limits   *)
(* and any number of threads: about Submission, for any number of requests  *)
(* at once with any files, valid or not and with or without contents in     *)
(* common; that Gateway implements it; and about Gateway and the probes.    *)
(***************************************************************************)
EXTENDS Gateway, FiniteSetTheorems, SequenceTheorems, TLAPS

-----------------------------------------------------------------------------
(* Submission: requests and their files.                                    *)

\* The uploads the loop of a request is through with.
Handled(p) == {Files[p][i] : i \in {k \in DOMAIN Files[p] : k < turn[p]}}

InLoop(p) == step[p] \in {"dedup", "enqueue"}

LEMMA FilesAreSequences ==
    ASSUME NEW p \in Requests
    PROVE  /\ Len(Files[p]) \in Nat
           /\ DOMAIN Files[p] = 1..Len(Files[p])
           /\ \A i \in 1..Len(Files[p]) : Files[p][i] \in Jobs
           /\ Uploads(p) \subseteq Jobs
<1>1. Files[p] \in Seq(Jobs)
  BY FilesAssumption
<1> QED
  BY <1>1 DEF Uploads

\* An upload belongs to one request.
LEMMA UploadsAreDisjoint ==
    ASSUME NEW p \in Requests, NEW q \in Requests, p # q
    PROVE  Uploads(p) \intersect Uploads(q) = {}
  BY FilesAssumption DEF Uploads

\* The file a loop is at has not been handled, and the loop goes through the
\* files one after the other.
LEMMA CurrentIsNext ==
    ASSUME NEW p \in Requests, turn[p] \in 1..Len(Files[p])
    PROVE  /\ Current(p) \in Uploads(p)
           /\ Current(p) \in Jobs
           /\ Current(p) \notin Handled(p)
           /\ turn'[p] = turn[p] + 1 => Handled(p)' = Handled(p) \union {Current(p)}
           /\ turn[p] = Len(Files[p]) =>
                 Uploads(p) = Handled(p) \union {Current(p)}
<1>1. DOMAIN Files[p] = 1..Len(Files[p]) /\ Len(Files[p]) \in Nat
  BY FilesAreSequences
<1>2. Current(p) \in Uploads(p) /\ Current(p) \in Jobs
  BY <1>1, FilesAreSequences DEF Current, Uploads
<1>3. \A i, k \in DOMAIN Files[p] : Files[p][i] = Files[p][k] => i = k
  BY FilesAssumption
<1>4. Current(p) \notin Handled(p)
  BY <1>1, <1>3 DEF Current, Handled
<1>5. ASSUME turn'[p] = turn[p] + 1
      PROVE  Handled(p)' = Handled(p) \union {Current(p)}
  <2>1. {k \in DOMAIN Files[p] : k < turn'[p]}
          = {k \in DOMAIN Files[p] : k < turn[p]} \union {turn[p]}
    BY <1>1, <1>5
  <2> QED
    BY <2>1 DEF Handled, Current
<1>6. ASSUME turn[p] = Len(Files[p])
      PROVE  Uploads(p) = Handled(p) \union {Current(p)}
  <2>1. DOMAIN Files[p] = {k \in DOMAIN Files[p] : k < turn[p]} \union {turn[p]}
    BY <1>1, <1>6
  <2> QED
    BY <2>1 DEF Handled, Current, Uploads
<1> QED
  BY <1>2, <1>4, <1>5, <1>6

\* Before its first turn a loop has handled nothing.
LEMMA NothingHandledFirst ==
    ASSUME NEW p \in Requests, turn[p] = 1
    PROVE  Handled(p) = {}
  BY FilesAreSequences DEF Handled

-----------------------------------------------------------------------------
(* The inductive invariant.                                                 *)

First(j) == [job |-> j, retries |-> 0]

Untouched(j) ==
    rows[j].status = Absent /\ j \notin disk /\ summary[j] = NoSummary

\* What holds of every upload and every earlier job.
JobFacts ==
    \A j \in Jobs :
        /\ summary[j].kind = "queued" => j \in disk
        /\ summary[j].kind = "cached" =>
              FileHash[summary[j].from] = FileHash[j] /\ summary[j].result # NoResult
        /\ ready[First(j)] > 0 => rows[j].status # Absent /\ j \in disk
        /\ rows[j].status = "completed" => rows[j].result # NoResult

\* A summary is there, and so is the row if the summary announces a new job.
Persisted(j) ==
    /\ summary[j].kind # None
    /\ summary[j].kind = "queued" <=> rows[j].status # Absent

\* How far the uploads of a request have come, by its place in submit_batch.
Progress(p) ==
    /\ step[p] \in {"received", "refused"} => \A j \in Uploads(p) : Untouched(j)
    /\ InLoop(p) => turn[p] \in 1..Len(Files[p])
    /\ step[p] = "received" => turn[p] = 1
    /\ step[p] = "dedup" => \A j \in Uploads(p) :
          /\ rows[j].status = Absent
          /\ j \in Handled(p) => summary[j].kind # None
    /\ step[p] = "persist" =>
          /\ turn[p] = 1 /\ Files[p] # <<>>
          /\ \A j \in Uploads(p) :
                rows[j].status = Absent /\ summary[j].kind # None
    /\ step[p] = "enqueue" => \A j \in Uploads(p) :
          /\ Persisted(j)
          /\ j \notin Handled(p) => ready[First(j)] = 0
          /\ j \in Handled(p) /\ summary[j].kind = "queued" => ready[First(j)] = 1
    /\ step[p] = "accepted" => \A j \in Uploads(p) :
          /\ Persisted(j)
          /\ summary[j].kind = "queued" => ready[First(j)] = 1
    /\ step[p] \in {"failed", "crashed"} =>
          \/ \A j \in Uploads(p) : Persisted(j)
          \/ \A j \in Uploads(p) : rows[j].status = Absent

EveryProgress == \A p \in Requests : Progress(p)

Inv == TypeOK /\ JobFacts /\ EveryProgress

-----------------------------------------------------------------------------
(* Typing.                                                                  *)

LEMMA RowsTyped ==
    NoRow \in Row /\ QueuedRow \in Row /\ EarlierRow \in Row
  BY DEF NoRow, QueuedRow, EarlierRow, Row, Result, NoResult, StoredStatus,
         ConfidenceTier, ErrorMessage, Absent, None

LEMMA SummariesTyped ==
    /\ NoSummary \in Summary
    /\ \A j \in Jobs : QueuedSummary(j) \in Summary
    /\ TypeOK => \A k \in Jobs : CachedSummary(k) \in Summary
<1>1. NoResult \in Result
  BY DEF NoResult, Result
<1>2. TypeOK => \A k \in Jobs : rows[k].result \in Result
  BY DEF TypeOK, Row
<1> QED
  BY <1>1, <1>2 DEF NoSummary, QueuedSummary, CachedSummary, Summary

LEMMA FirstIsMessage == \A j \in Jobs : First(j) \in Messages
  BY DEF First, Messages

LEMMA InitTyped == Init => TypeOK
<1> SUFFICES ASSUME Init PROVE TypeOK
  OBVIOUS
<1>1. rows \in [Jobs -> Row]
  BY RowsTyped DEF Init
<1>2. summary \in [Jobs -> Summary]
  BY SummariesTyped DEF Init
<1>3. ready \in [Messages -> Nat] /\ disk \subseteq Jobs
  BY DEF Init
<1>4. step \in [Requests -> Step] /\ turn \in [Requests -> Nat \ {0}]
  BY DEF Init, Step
<1> QED
  BY <1>1, <1>2, <1>3, <1>4 DEF TypeOK

LEMMA NextTyped == Inv /\ [Next]_vars => TypeOK'
<1> SUFFICES ASSUME Inv, [Next]_vars PROVE TypeOK'
  OBVIOUS
<1> USE DEF TypeOK, Inv
<1>1. CASE UNCHANGED vars
  BY <1>1 DEF vars, submissionVars
<1>2. ASSUME NEW p \in Requests, SubmitStep(p) \/ ApiCrash(p) PROVE TypeOK'
  <2>1. ASSUME NEW there \in Step, GoTo(p, there) PROVE step' \in [Requests -> Step]
    BY <2>1 DEF GoTo
  <2>2. CASE SubmitFails(p) \/ ApiCrash(p) \/ Validate(p)
    <3>1. step' \in [Requests -> Step]
      BY <2>2, <2>1 DEF SubmitFails, ApiCrash, Validate, Step
    <3> QED
      BY <2>2, <3>1 DEF SubmitFails, ApiCrash, Validate
  <2>3. CASE AnswerFromCache(p) \/ SaveNewJob(p) \/ EnqueueExtraction(p)
    <3>1. turn[p] \in 1..Len(Files[p]) /\ Current(p) \in Jobs
      BY <2>3, CurrentIsNext
         DEF EveryProgress, Progress, InLoop, AnswerFromCache, SaveNewJob,
             EnqueueExtraction
    <3>2. turn[p] + 1 \in Nat \ {0} /\ 1 \in Nat \ {0}
      OBVIOUS
    <3>3. step' \in [Requests -> Step] /\ turn' \in [Requests -> Nat \ {0}]
      BY <2>3, <3>2, <2>1 DEF AnswerFromCache, SaveNewJob, EnqueueExtraction,
                              NextFile, NextMessage, Step
    <3>4. CASE AnswerFromCache(p)
      <4>1. PICK k \in CacheHits(Current(p)) :
              summary' = [summary EXCEPT ![Current(p)] = CachedSummary(k)]
        BY <3>4 DEF AnswerFromCache
      <4>2. summary' \in [Jobs -> Summary]
        BY <4>1, <3>1, SummariesTyped DEF CacheHits
      <4> QED
        BY <3>4, <4>2, <3>3 DEF AnswerFromCache
    <3>5. CASE SaveNewJob(p)
      <4>1. summary' \in [Jobs -> Summary]
        BY <3>5, <3>1, SummariesTyped DEF SaveNewJob
      <4>2. disk' \subseteq Jobs
        BY <3>5, <3>1 DEF SaveNewJob
      <4> QED
        BY <3>5, <4>1, <4>2, <3>3 DEF SaveNewJob
    <3>6. CASE EnqueueExtraction(p)
      <4>1. [job |-> Current(p), retries |-> 0] \in Messages
        BY <3>1, FirstIsMessage DEF First
      <4>2. ready[[job |-> Current(p), retries |-> 0]] + 1 \in Nat
        BY <4>1
      <4>3. ready' \in [Messages -> Nat]
        BY <3>6, <4>1, <4>2 DEF EnqueueExtraction
      <4> QED
        BY <3>6, <4>3, <3>3 DEF EnqueueExtraction
    <3> QED
      BY <2>3, <3>4, <3>5, <3>6
  <2>4. CASE CreateBatch(p)
    <3>1. rows' \in [Jobs -> Row]
      BY <2>4, RowsTyped DEF CreateBatch
    <3>2. step' \in [Requests -> Step]
      BY <2>4, <2>1 DEF CreateBatch, Step
    <3> QED
      BY <2>4, <3>1, <3>2 DEF CreateBatch
  <2> QED
    BY <1>2, <2>2, <2>3, <2>4 DEF SubmitStep
<1> QED
  BY <1>1, <1>2 DEF Next

-----------------------------------------------------------------------------
(* A step of one request leaves the others and their uploads alone.         *)

SameJob(j) ==
    /\ rows'[j] = rows[j]
    /\ summary'[j] = summary[j]
    /\ ready'[First(j)] = ready[First(j)]
    /\ j \in disk' <=> j \in disk

LEMMA OthersAreLeftAlone ==
    ASSUME Inv, NEW p \in Requests, SubmitStep(p) \/ ApiCrash(p)
    PROVE  /\ \A j \in Jobs : j \notin Uploads(p) => SameJob(j)
           /\ \A q \in Requests : q # p => step'[q] = step[q] /\ turn'[q] = turn[q]
<1> USE DEF TypeOK, Inv, GoTo
<1>1. \A q \in Requests : q # p => step'[q] = step[q] /\ turn'[q] = turn[q]
  BY DEF SubmitStep, Validate, AnswerFromCache, SaveNewJob, CreateBatch,
         EnqueueExtraction, SubmitFails, ApiCrash, NextFile, NextMessage
<1>2. ASSUME NEW j \in Jobs, j \notin Uploads(p) PROVE SameJob(j)
  <2>1. CASE UNCHANGED <<rows, ready, disk, summary>>
    BY <2>1 DEF SameJob
  <2>2. CASE AnswerFromCache(p) \/ SaveNewJob(p) \/ EnqueueExtraction(p)
    <3>1. turn[p] \in 1..Len(Files[p])
      BY <2>2 DEF EveryProgress, Progress, InLoop, AnswerFromCache, SaveNewJob,
                  EnqueueExtraction
    <3>2. Current(p) \in Jobs /\ Current(p) # j
      BY <3>1, <1>2, CurrentIsNext
    <3>3. First(Current(p)) # First(j)
      BY <3>2 DEF First
    <3> QED
      BY <2>2, <3>2, <3>3, FirstIsMessage
         DEF SameJob, AnswerFromCache, SaveNewJob, EnqueueExtraction, First
  <2>3. CASE CreateBatch(p)
    BY <2>3, <1>2 DEF CreateBatch, NewJobs, SameJob
  <2> QED
    BY <2>1, <2>2, <2>3 DEF SubmitStep, Validate, SubmitFails, ApiCrash
<1> QED
  BY <1>1, <1>2

LEMMA OthersKeepProgress ==
    ASSUME Inv, NEW p \in Requests, SubmitStep(p) \/ ApiCrash(p),
           NEW q \in Requests, q # p
    PROVE  Progress(q)'
<1>1. \A j \in Uploads(q) : SameJob(j)
  BY OthersAreLeftAlone, UploadsAreDisjoint, FilesAreSequences
<1>2. step'[q] = step[q] /\ turn'[q] = turn[q]
  BY OthersAreLeftAlone
<1>3. Handled(q)' = Handled(q) /\ Uploads(q)' = Uploads(q)
  BY <1>2 DEF Handled, Uploads
<1>4. Progress(q)
  BY DEF Inv, EveryProgress
<1>5. \A j \in Uploads(q) : Persisted(j)' <=> Persisted(j)
  BY <1>1 DEF Persisted, SameJob
<1>6. \A j \in Uploads(q) : Untouched(j)' <=> Untouched(j)
  BY <1>1 DEF Untouched, SameJob
<1>7. \A j \in Uploads(q) : First(j)' = First(j)
  BY DEF First
<1> QED
  BY <1>1, <1>2, <1>3, <1>4, <1>5, <1>6, <1>7 DEF Progress, InLoop, SameJob

-----------------------------------------------------------------------------
(* Each action keeps the facts about jobs.                                  *)

LEMMA InitJobFacts == Init => JobFacts
<1> SUFFICES ASSUME Init, NEW j \in Jobs
             PROVE  /\ summary[j] = NoSummary
                    /\ ready[First(j)] = 0
                    /\ rows[j].status = "completed" => rows[j].result # NoResult
  BY DEF JobFacts, NoSummary, None
<1>1. summary[j] = NoSummary /\ ready[First(j)] = 0
  BY FirstIsMessage DEF Init
<1>2. EarlierRow.result = [tier |-> "auto", review |-> None]
  BY DEF EarlierRow, NoRow
<1>3. EarlierRow.result # NoResult
  BY <1>2 DEF NoResult, None
<1>4. rows[j].status = "completed" => rows[j].result # NoResult
  BY <1>3 DEF Init, NoRow, Absent
<1> QED
  BY <1>1, <1>4

LEMMA NextJobFacts == Inv /\ [Next]_vars => JobFacts'
<1> SUFFICES ASSUME Inv, [Next]_vars PROVE JobFacts'
  OBVIOUS
<1> USE DEF TypeOK, Inv
<1>1. CASE UNCHANGED <<rows, ready, disk, summary>>
  BY <1>1 DEF JobFacts, First
<1>2. ASSUME NEW p \in Requests,
             AnswerFromCache(p) \/ SaveNewJob(p) \/ EnqueueExtraction(p),
             turn[p] \in 1..Len(Files[p]), Current(p) \in Jobs
      PROVE  JobFacts'
  <2>1. CASE AnswerFromCache(p)
    <3>1. PICK k \in CacheHits(Current(p)) :
            summary' = [summary EXCEPT ![Current(p)] = CachedSummary(k)]
      BY <2>1 DEF AnswerFromCache
    <3>2. k \in Jobs /\ FileHash[k] = FileHash[Current(p)]
          /\ rows[k].status = "completed"
      BY <3>1 DEF CacheHits
    <3>3. rows[k].result # NoResult
      BY <3>2 DEF JobFacts
    <3>4. UNCHANGED <<rows, ready, disk>>
      BY <2>1 DEF AnswerFromCache
    <3> QED
      BY <3>1, <3>2, <3>3, <3>4, <1>2 DEF JobFacts, CachedSummary, First
  <2>2. CASE SaveNewJob(p)
    BY <2>2, <1>2 DEF SaveNewJob, JobFacts, QueuedSummary, First
  <2>3. CASE EnqueueExtraction(p)
    <3>1. \A j \in Jobs : j # Current(p) => ready'[First(j)] = ready[First(j)]
      BY <2>3, FirstIsMessage DEF EnqueueExtraction, First
    <3>2. UNCHANGED <<rows, disk, summary>>
      BY <2>3 DEF EnqueueExtraction
    <3>3. Current(p) \in NewJobs(p) => rows[Current(p)].status # Absent
                                       /\ Current(p) \in disk
      BY <2>3, <1>2, CurrentIsNext
         DEF EnqueueExtraction, EveryProgress, Progress, Persisted, NewJobs, JobFacts
    <3>4. Current(p) \notin NewJobs(p) => UNCHANGED ready
      BY <2>3 DEF EnqueueExtraction
    <3> QED
      BY <3>1, <3>2, <3>3, <3>4 DEF JobFacts, First
  <2> QED
    BY <1>2, <2>1, <2>2, <2>3
<1>3. ASSUME NEW p \in Requests, CreateBatch(p) PROVE JobFacts'
  <2>1. \A j \in NewJobs(p) : rows'[j] = QueuedRow
    BY <1>3, FilesAreSequences DEF CreateBatch, NewJobs
  <2>2. \A j \in Jobs : j \notin NewJobs(p) => rows'[j] = rows[j]
    BY <1>3 DEF CreateBatch
  <2>3. QueuedRow.status = "queued" /\ Absent # "queued"
    BY DEF QueuedRow, NoRow, Absent
  <2>4. UNCHANGED <<ready, disk, summary>>
    BY <1>3 DEF CreateBatch
  <2> QED
    BY <2>1, <2>2, <2>3, <2>4 DEF JobFacts, First
<1>4. ASSUME NEW p \in Requests, SubmitStep(p) \/ ApiCrash(p) PROVE JobFacts'
  <2>1. CASE AnswerFromCache(p) \/ SaveNewJob(p) \/ EnqueueExtraction(p)
    <3>1. turn[p] \in 1..Len(Files[p])
      BY <2>1 DEF EveryProgress, Progress, InLoop, AnswerFromCache, SaveNewJob,
                  EnqueueExtraction
    <3> QED
      BY <2>1, <3>1, <1>2, CurrentIsNext
  <2> QED
    BY <1>4, <2>1, <1>1, <1>3 DEF SubmitStep, Validate, SubmitFails, ApiCrash
<1> QED
  BY <1>1, <1>4 DEF Next, vars, submissionVars

-----------------------------------------------------------------------------
(* Each action takes its own request one step on.                           *)

LEMMA InitProgress == Init => EveryProgress
<1> SUFFICES ASSUME Init, NEW p \in Requests PROVE Progress(p)
  BY DEF EveryProgress
<1>1. \A j \in Uploads(p) : j \in Jobs /\ j \notin Earlier
  BY FilesAreSequences, FilesAssumption DEF Uploads
<1>2. \A j \in Uploads(p) : Untouched(j)
  BY <1>1 DEF Init, Untouched, NoRow
<1> QED
  BY <1>2 DEF Init, Progress, InLoop

LEMMA ValidateProgress ==
    ASSUME Inv, NEW p \in Requests, Validate(p)
    PROVE  Progress(p)'
<1> USE DEF Inv, TypeOK
<1>1. /\ step[p] = "received" /\ turn[p] = 1
      /\ \A j \in Uploads(p) : Untouched(j)
  BY DEF Validate, EveryProgress, Progress
<1>2. UNCHANGED <<rows, ready, disk, turn, summary>> /\ Uploads(p)' = Uploads(p)
  BY DEF Validate, Uploads
<1>3. \A j \in Uploads(p) : Untouched(j)' /\ rows'[j].status = Absent
  BY <1>1, <1>2 DEF Untouched
<1>4. CASE step'[p] = "refused"
  BY <1>2, <1>3, <1>4 DEF Progress, InLoop
<1>5. CASE step'[p] = "dedup" /\ Files[p] # <<>>
  <2>1. Len(Files[p]) \in Nat /\ Len(Files[p]) # 0
    BY <1>5, FilesAreSequences, FilesAssumption
  <2>2. turn'[p] \in 1..Len(Files[p])
    BY <1>1, <1>2, <2>1
  <2>3. Handled(p)' = {}
    BY <1>1, <1>2, NothingHandledFirst DEF Handled
  <2> QED
    BY <1>2, <1>3, <1>5, <2>2, <2>3 DEF Progress, InLoop
<1> QED
  BY <1>4, <1>5 DEF Validate, GoTo

\* One turn of the first loop.
LEMMA DedupProgress ==
    ASSUME Inv, NEW p \in Requests, AnswerFromCache(p) \/ SaveNewJob(p)
    PROVE  Progress(p)'
<1> USE DEF Inv, TypeOK
<1>1. /\ step[p] = "dedup" /\ turn[p] \in 1..Len(Files[p])
      /\ \A j \in Uploads(p) : rows[j].status = Absent
      /\ \A j \in Handled(p) : summary[j].kind # None
  <2>1. Handled(p) \subseteq Uploads(p)
    BY DEF Handled, Uploads
  <2> QED
    BY <2>1 DEF AnswerFromCache, SaveNewJob, EveryProgress, Progress, InLoop
<1>2. UNCHANGED rows /\ Uploads(p)' = Uploads(p) /\ NextFile(p)
  BY DEF AnswerFromCache, SaveNewJob, Uploads
<1>3. Current(p) \in Jobs /\ Handled(p) \subseteq Jobs
  BY <1>1, CurrentIsNext, FilesAreSequences DEF Handled, Uploads
<1>4. /\ summary'[Current(p)].kind # None
      /\ \A j \in Jobs : j # Current(p) => summary'[j] = summary[j]
  BY <1>3 DEF AnswerFromCache, SaveNewJob, CachedSummary, QueuedSummary, None
<1>5. \A j \in Handled(p) \union {Current(p)} : summary'[j].kind # None
  BY <1>1, <1>3, <1>4
<1>6. CASE turn[p] < Len(Files[p])
  <2>1. turn'[p] = turn[p] + 1 /\ step'[p] = "dedup"
    BY <1>1, <1>2, <1>6 DEF NextFile
  <2>2. turn'[p] \in 1..Len(Files[p])
    BY <1>1, <1>6, <2>1, FilesAreSequences
  <2>3. Handled(p)' = Handled(p) \union {Current(p)}
    BY <1>1, <2>1, CurrentIsNext
  <2> QED
    BY <1>1, <1>2, <1>5, <2>1, <2>2, <2>3 DEF Progress, InLoop
<1>7. CASE ~(turn[p] < Len(Files[p]))
  <2>1. turn'[p] = 1 /\ step'[p] = "persist"
    BY <1>1, <1>2, <1>7 DEF NextFile, GoTo
  <2>2. turn[p] = Len(Files[p])
    BY <1>1, <1>7, FilesAreSequences
  <2>3. Uploads(p) = Handled(p) \union {Current(p)}
    BY <1>1, <2>2, CurrentIsNext
  <2>4. Files[p] # <<>>
    BY <1>1
  <2> QED
    BY <1>1, <1>2, <1>5, <2>1, <2>3, <2>4 DEF Progress, InLoop
<1> QED
  BY <1>6, <1>7

LEMMA CreateBatchProgress ==
    ASSUME Inv, NEW p \in Requests, CreateBatch(p)
    PROVE  Progress(p)'
<1> USE DEF Inv, TypeOK
<1>1. /\ step[p] = "persist" /\ turn[p] = 1 /\ Files[p] # <<>>
      /\ \A j \in Uploads(p) : rows[j].status = Absent /\ summary[j].kind # None
  BY DEF CreateBatch, EveryProgress, Progress
<1>2. /\ UNCHANGED <<ready, disk, turn, summary>> /\ Uploads(p)' = Uploads(p)
      /\ step'[p] = "enqueue"
  BY DEF CreateBatch, Uploads, GoTo
<1>3. Len(Files[p]) \in Nat /\ Len(Files[p]) # 0
  BY <1>1, FilesAreSequences, FilesAssumption
<1>4. turn'[p] \in 1..Len(Files[p])
  BY <1>1, <1>2, <1>3
<1>5. Handled(p)' = {}
  BY <1>1, <1>2, NothingHandledFirst DEF Handled
<1>6. \A j \in Uploads(p) : ready[First(j)] = 0
  <2>1. \A j \in Uploads(p) : ~(ready[First(j)] > 0) /\ ready[First(j)] \in Nat
    BY <1>1, FilesAreSequences, FirstIsMessage DEF JobFacts
  <2> QED
    BY <2>1
<1>7. \A j \in Uploads(p) : Persisted(j)'
  <2>1. QueuedRow.status # Absent
    BY DEF QueuedRow, NoRow, Absent
  <2>2. \A j \in Uploads(p) :
          rows'[j] = IF summary[j].kind = "queued" THEN QueuedRow ELSE rows[j]
    BY FilesAreSequences DEF CreateBatch, NewJobs
  <2> QED
    BY <1>1, <1>2, <2>1, <2>2 DEF Persisted
<1> QED
  BY <1>2, <1>4, <1>5, <1>6, <1>7 DEF Progress, InLoop, First

\* One turn of the second loop.
LEMMA EnqueueProgress ==
    ASSUME Inv, NEW p \in Requests, EnqueueExtraction(p)
    PROVE  Progress(p)'
<1> USE DEF Inv, TypeOK
<1> DEFINE c == Current(p)
<1>1. /\ step[p] = "enqueue" /\ turn[p] \in 1..Len(Files[p])
      /\ \A j \in Uploads(p) :
            /\ Persisted(j)
            /\ j \notin Handled(p) => ready[First(j)] = 0
            /\ j \in Handled(p) /\ summary[j].kind = "queued" => ready[First(j)] = 1
  BY DEF EnqueueExtraction, EveryProgress, Progress, InLoop
<1>2. UNCHANGED <<rows, disk, summary>> /\ Uploads(p)' = Uploads(p) /\ NextMessage(p)
  BY DEF EnqueueExtraction, Uploads
<1>3. \A j \in Uploads(p) : Persisted(j)'
  BY <1>1, <1>2 DEF Persisted
<1>4. c \in Uploads(p) /\ c \in Jobs /\ c \notin Handled(p)
  BY <1>1, CurrentIsNext
<1>5. /\ \A j \in Uploads(p) : j # c => ready'[First(j)] = ready[First(j)]
      /\ summary[c].kind = "queued" => ready'[First(c)] = 1
  <2>1. First(c) \in Messages /\ First(c) = [job |-> c, retries |-> 0]
    BY <1>4, FirstIsMessage DEF First
  <2>2. \A j \in Uploads(p) : j # c => First(j) # First(c) /\ First(j) \in Messages
    BY FilesAreSequences, FirstIsMessage DEF First
  <2>3. ready[First(c)] = 0
    BY <1>1, <1>4
  <2> QED
    BY <1>4, <2>1, <2>2, <2>3 DEF EnqueueExtraction, NewJobs
<1>6. CASE turn[p] < Len(Files[p])
  <2>1. turn'[p] = turn[p] + 1 /\ step'[p] = "enqueue"
    BY <1>1, <1>2, <1>6 DEF NextMessage
  <2>2. turn'[p] \in 1..Len(Files[p])
    BY <1>1, <1>6, <2>1, FilesAreSequences
  <2>3. Handled(p)' = Handled(p) \union {c}
    BY <1>1, <2>1, CurrentIsNext
  <2> QED
    BY <1>1, <1>2, <1>3, <1>5, <2>1, <2>2, <2>3 DEF Progress, InLoop, First
<1>7. CASE ~(turn[p] < Len(Files[p]))
  <2>1. step'[p] = "accepted"
    BY <1>1, <1>2, <1>7 DEF NextMessage, GoTo
  <2>2. turn[p] = Len(Files[p])
    BY <1>1, <1>7, FilesAreSequences
  <2>3. Uploads(p) = Handled(p) \union {c}
    BY <1>1, <2>2, CurrentIsNext
  <2> QED
    BY <1>1, <1>2, <1>3, <1>5, <2>1, <2>3 DEF Progress, InLoop, First
<1> QED
  BY <1>6, <1>7

\* A request may be cut short anywhere: its rows are all there, or none is.
LEMMA CutShortProgress ==
    ASSUME Inv, NEW p \in Requests, SubmitFails(p) \/ ApiCrash(p)
    PROVE  Progress(p)'
<1> USE DEF Inv, TypeOK
<1>1. step[p] \in Busy /\ step'[p] \in {"failed", "crashed"}
      /\ UNCHANGED <<rows, ready, disk, turn, summary>> /\ Uploads(p)' = Uploads(p)
  BY DEF SubmitFails, ApiCrash, GoTo, Uploads
<1>2. \/ \A j \in Uploads(p) : Persisted(j)
      \/ \A j \in Uploads(p) : rows[j].status = Absent
  BY <1>1 DEF Busy, EveryProgress, Progress
<1>3. \/ \A j \in Uploads(p) : Persisted(j)'
      \/ \A j \in Uploads(p) : rows'[j].status = Absent
  BY <1>1, <1>2 DEF Persisted
<1> QED
  BY <1>1, <1>3 DEF Progress, InLoop

LEMMA NextProgress == Inv /\ [Next]_vars => EveryProgress'
<1> SUFFICES ASSUME Inv, [Next]_vars, NEW q \in Requests PROVE Progress(q)'
  BY DEF EveryProgress
<1>1. CASE UNCHANGED vars
  BY <1>1 DEF Inv, EveryProgress, vars, submissionVars, Progress, InLoop,
              Handled, Uploads, Untouched, Persisted, First
<1>2. ASSUME NEW p \in Requests, SubmitStep(p) \/ ApiCrash(p) PROVE Progress(q)'
  <2>1. CASE p # q
    BY <1>2, <2>1, OthersKeepProgress
  <2>2. CASE p = q
    BY <1>2, <2>2, ValidateProgress, DedupProgress, CreateBatchProgress,
       EnqueueProgress, CutShortProgress DEF SubmitStep
  <2> QED
    BY <2>1, <2>2
<1> QED
  BY <1>1, <1>2 DEF Next

LEMMA InvIsKept == Spec => []Inv
<1>1. Init => Inv
  BY InitTyped, InitJobFacts, InitProgress DEF Inv
<1>2. Inv /\ [Next]_vars => Inv'
  BY NextTyped, NextJobFacts, NextProgress DEF Inv
<1> QED
  BY <1>1, <1>2, PTL DEF Spec

-----------------------------------------------------------------------------
(* What a request may rely on.                                              *)

\* The variables of a submission keep their types.
THEOREM SubmissionTypeCorrect == Spec => []TypeOK
<1>1. Inv => TypeOK
  BY DEF Inv
<1> QED
  BY <1>1, InvIsKept, PTL

\* Whatever requests overlap and wherever they fail, submit_batch publishes a
\* message only for a job whose row is committed and whose file is on disk.
THEOREM MessagesStayBacked == Spec => []MessagesAreBacked
<1>1. Inv => MessagesAreBacked
  <2> SUFFICES ASSUME Inv, NEW m \in Messages, ready[m] > 0
               PROVE  rows[m.job].status # Absent /\ m.job \in disk
    BY DEF MessagesAreBacked, Inv, TypeOK
  <2>1. m.job \in Jobs /\ m = First(m.job)
    BY DEF Messages, First
  <2> QED
    BY <2>1 DEF Inv, JobFacts
<1> QED
  BY <1>1, InvIsKept, PTL

\* A batch is in the table as a whole or not at all, and a request refused for
\* one bad file leaves nothing, also while others are in progress.
THEOREM BatchesStayAtomic == Spec => []BatchIsAtomic
<1>1. Inv => BatchIsAtomic
  <2> SUFFICES ASSUME Inv, NEW p \in Requests
               PROVE  /\ \/ \A j \in NewJobs(p) : rows[j].status # Absent
                         \/ \A j \in Uploads(p) : rows[j].status = Absent
                      /\ step[p] = "refused" => \A j \in Uploads(p) : Untouched(j)
    BY DEF BatchIsAtomic, Untouched
  <2>1. Progress(p) /\ step[p] \in Step
    BY DEF Inv, EveryProgress, TypeOK
  <2>2. \/ \A j \in Uploads(p) : Persisted(j)
        \/ \A j \in Uploads(p) : rows[j].status = Absent
    BY <2>1 DEF Progress, Step, Untouched
  <2> QED
    BY <2>1, <2>2 DEF Progress, Persisted, NewJobs
<1> QED
  BY <1>1, InvIsKept, PTL

\* A 202 answers every file: with a message for its new job, or with the result
\* of a job that has the same content.
THEOREM AcceptedStaysComplete == Spec => []AcceptedIsComplete
<1>1. Inv => AcceptedIsComplete
  <2> SUFFICES ASSUME Inv, NEW p \in Requests, step[p] = "accepted",
                      NEW j \in Uploads(p)
               PROVE  \/ /\ summary[j].kind = "queued"
                         /\ ready[First(j)] = 1
                      \/ /\ summary[j].kind = "cached"
                         /\ FileHash[summary[j].from] = FileHash[j]
                         /\ summary[j].result # NoResult
                         /\ rows[j].status = Absent
    BY DEF AcceptedIsComplete, First
  <2>1. j \in Jobs
    BY FilesAreSequences
  <2>2. summary[j].kind \in {None, "queued", "cached"}
    BY <2>1 DEF Inv, TypeOK, Summary
  <2>3. Persisted(j) /\ (summary[j].kind = "queued" => ready[First(j)] = 1)
    BY DEF Inv, EveryProgress, Progress
  <2> QED
    BY <2>1, <2>2, <2>3 DEF Persisted, Inv, JobFacts
<1> QED
  BY <1>1, InvIsKept, PTL

\* What a request may rely on, in one.
THEOREM SubmissionsAreSafe == Spec => []SubmissionsHold
<1> QED
  BY MessagesStayBacked, BatchesStayAtomic, AcceptedStaysComplete, PTL
     DEF SubmissionsHold

-----------------------------------------------------------------------------
(* The gateway implements Submission.                                       *)

\* Behind the middleware requests do what submit_batch does, and nothing else
\* touches rows, files, messages or summaries.
THEOREM GatewayImplementsSubmission == GatewaySpec => Spec
<1>1. GatewayInit => Init
  BY DEF GatewayInit
<1>2. [GatewayNext]_gatewayVars => [Next]_vars
  <2> SUFFICES ASSUME GatewayNext PROVE Next \/ UNCHANGED vars
    BY DEF gatewayVars
  <2>1. ASSUME NEW c \in made, CallStep(c) PROVE Next \/ UNCHANGED vars
    <3>1. CASE c \in Requests /\ Submit(c)
      BY <3>1 DEF Submit, Next
    <3>2. CASE \/ Authenticate(c) \/ CheckLimit(c) \/ CheckFails(c)
               \/ RefuseMalformed(c) \/ GetJob(c) \/ AnswerPreflight(c)
               \/ HealthCheck(c)
      BY <3>2 DEF Authenticate, CheckLimit, CheckFails, RefuseMalformed, GetJob,
                  AnswerPreflight, HealthCheck
    <3> QED
      BY <2>1, <3>1, <3>2 DEF CallStep
  <2>2. ASSUME NEW p \in Requests \intersect made, SubmitDies(p) PROVE Next
    BY <2>2 DEF SubmitDies, Next
  <2>3. CASE Executor \/ WindowEnds
    BY <2>3 DEF Executor, WindowEnds
  <2> QED
    BY <2>1, <2>2, <2>3 DEF GatewayNext
<1> QED
  BY <1>1, <1>2, PTL DEF GatewaySpec, Spec

\* So everything that is proved of submissions holds behind the gateway.
THEOREM SubmissionsHoldBehindGateway == GatewaySpec => []SubmissionsHold
<1> QED
  BY GatewayImplementsSubmission, SubmissionsAreSafe, PTL

-----------------------------------------------------------------------------
(* The way to the handler.                                                  *)

Door == {"sent", "routed", "admitted", "answered"}

DoorTypeOK ==
    /\ door \in [Calls -> Door]
    /\ reply \in [Calls -> Nat]
    /\ user \in [Calls -> Users \union {None}]
    /\ made \subseteq Calls

\* Nothing is done for a submission that was not let through, and it has its
\* answer from the middleware or from what submit_batch made of it.
SubmissionFacts(p) ==
    /\ door[p] \in {"sent", "routed"} \/ Target[p] = Malformed => step[p] = "received"
    /\ door[p] # "answered" => reply[p] = 0
    /\ reply[p] \in 400..499 => step[p] \in {"received", "refused"}

DoorFacts == \A p \in Requests : SubmissionFacts(p)

DoorInv == DoorTypeOK /\ DoorFacts

\* A step of a call goes on with that call only.
StepsOf(c) ==
    /\ \E there \in Door \ {"sent"}, code \in Nat :
          /\ door' = [door EXCEPT ![c] = there]
          /\ reply' = [reply EXCEPT ![c] = code]
    /\ \E who \in Users \union {None} : user' = [user EXCEPT ![c] = who]
    /\ UNCHANGED made

LEMMA AuthenticatedIsTyped ==
    ASSUME NEW c \in Calls
    PROVE  Authenticated(Caller[c].credentials) \in Users \union {None}
  BY DEF Authenticated, Users

LEMMA OneCallSteps ==
    ASSUME DoorTypeOK, NEW c \in Calls, CallStep(c)
    PROVE  StepsOf(c)
<1> USE DEF DoorTypeOK, StepsOf, Door
<1> DEFINE Same == UNCHANGED user /\ UNCHANGED made
<1>1. user = [user EXCEPT ![c] = user[c]] /\ user[c] \in Users \union {None}
  BY DEF DoorTypeOK
<1>2. door = [door EXCEPT ![c] = door[c]] /\ reply = [reply EXCEPT ![c] = reply[c]]
  BY DEF DoorTypeOK
<1>3. CASE Authenticate(c)
  BY <1>1, <1>2, <1>3, AuthenticatedIsTyped DEF Authenticate, Enter, Answer
<1>4. CASE CheckLimit(c) \/ CheckFails(c) \/ RefuseMalformed(c) \/ GetJob(c)
           \/ AnswerPreflight(c)
  BY <1>1, <1>2, <1>4 DEF CheckLimit, CheckFails, RefuseMalformed, GetJob,
                          AnswerPreflight, Enter, Answer
<1>5. CASE Submit(c)
  BY <1>1, <1>2, <1>5 DEF Submit, Respond, Translated, Answer
<1>6. CASE HealthCheck(c)
  BY <1>1, <1>2, <1>6 DEF HealthCheck, Answer
<1> QED
  BY <1>3, <1>4, <1>5, <1>6 DEF CallStep

\* A submission works only for its own request.
LEMMA OneRequestWorks ==
    ASSUME TypeOK, NEW p \in Requests, NEW c \in Calls, c # p, CallStep(c)
    PROVE  step'[p] = step[p]
<1>1. CASE c \in Requests /\ Submit(c)
  BY <1>1 DEF Submit, SubmitStep, Validate, AnswerFromCache, SaveNewJob, CreateBatch,
              EnqueueExtraction, SubmitFails, NextFile, NextMessage, GoTo, TypeOK
<1>2. CASE \/ Authenticate(c) \/ CheckLimit(c) \/ CheckFails(c)
           \/ RefuseMalformed(c) \/ GetJob(c) \/ AnswerPreflight(c)
           \/ HealthCheck(c)
  BY <1>2 DEF Authenticate, CheckLimit, CheckFails, RefuseMalformed, GetJob,
              AnswerPreflight, HealthCheck, vars, submissionVars
<1> QED
  BY <1>1, <1>2 DEF CallStep

LEMMA StepIsTyped ==
    ASSUME TypeOK, NEW p \in Requests, Submit(p)
    PROVE  \/ step'[p] \in {"dedup", "persist", "enqueue"}
           \/ step'[p] \in {"accepted", "refused", "failed"}
<1>1. step[p] \in Step
  BY DEF TypeOK
<1> QED
  BY <1>1 DEF Submit, SubmitStep, Validate, AnswerFromCache, SaveNewJob, CreateBatch,
              EnqueueExtraction, SubmitFails, NextFile, NextMessage, GoTo, TypeOK,
              Step, Busy

LEMMA CallKeepsSubmissionFacts ==
    ASSUME TypeOK, DoorInv, NEW p \in Requests, NEW c \in Calls, CallStep(c)
    PROVE  SubmissionFacts(p)'
<1> USE DEF DoorInv, DoorTypeOK, SubmissionFacts
<1>1. SubmissionFacts(p) /\ p \in Calls
  BY DEF DoorFacts, Calls
<1>2. CASE c # p
  BY <1>1, <1>2, OneCallSteps, OneRequestWorks DEF StepsOf
<1>3. CASE c = p
  <2>1. p \notin Reads /\ p \notin Preflights /\ p \notin Polls /\ p \in Limited
    BY CallsAssumption DEF Limited
  <2>2. CASE Authenticate(p)
    BY <1>1, <2>1, <2>2 DEF Authenticate, Exempt, Enter, Answer, vars, submissionVars
  <2>3. CASE CheckLimit(p) \/ CheckFails(p) \/ RefuseMalformed(p)
    BY <1>1, <2>3 DEF CheckLimit, CheckFails, RefuseMalformed, Enter, Answer,
                      vars, submissionVars
  <2>4. CASE Submit(p)
    BY <1>1, <2>4, StepIsTyped DEF Submit, Respond, Translated, Answer
  <2> QED
    BY <1>3, <2>1, <2>2, <2>3, <2>4 DEF CallStep, GetJob, AnswerPreflight
<1> QED
  BY <1>2, <1>3

LEMMA NextDoor == TypeOK /\ DoorInv /\ [GatewayNext]_gatewayVars => DoorInv'
<1> SUFFICES ASSUME TypeOK, DoorInv, [GatewayNext]_gatewayVars PROVE DoorInv'
  OBVIOUS
<1>1. ASSUME NEW c \in made, CallStep(c) PROVE DoorInv'
  <2>1. c \in Calls
    BY <1>1 DEF DoorInv, DoorTypeOK
  <2>2. DoorTypeOK'
    BY <1>1, <2>1, OneCallSteps DEF StepsOf, DoorInv, DoorTypeOK
  <2> QED
    BY <1>1, <2>1, <2>2, CallKeepsSubmissionFacts DEF DoorInv, DoorFacts
<1>2. ASSUME NEW q \in Requests \intersect made, SubmitDies(q) PROVE DoorInv'
  <2>1. /\ door[q] = "admitted" /\ step[q] # "received"
        /\ step' = [step EXCEPT ![q] = "crashed"]
        /\ UNCHANGED <<made, door, user, reply>>
    BY <1>2 DEF SubmitDies, ApiCrash, GoTo, Busy, doorVars
  <2>2. ASSUME NEW p \in Requests PROVE SubmissionFacts(p)'
    <3>1. SubmissionFacts(p) /\ SubmissionFacts(q)
      BY DEF DoorInv, DoorFacts
    <3>2. step[q] \in Busy
      BY <1>2 DEF SubmitDies, ApiCrash
    <3> QED
      BY <2>1, <3>1, <3>2 DEF SubmissionFacts, TypeOK, Busy
  <2> QED
    BY <2>1, <2>2 DEF DoorInv, DoorTypeOK, DoorFacts
<1>3. CASE Executor \/ WindowEnds \/ UNCHANGED gatewayVars
  BY <1>3 DEF Executor, WindowEnds, gatewayVars, doorVars, vars, submissionVars,
              DoorInv, DoorTypeOK, DoorFacts, SubmissionFacts
<1> QED
  BY <1>1, <1>2, <1>3 DEF GatewayNext

LEMMA DoorIsKept == GatewaySpec => []DoorInv
<1>1. GatewayInit => DoorInv
  BY TrafficAssumption DEF GatewayInit, Init, DoorInv, DoorTypeOK, Door, DoorFacts,
     SubmissionFacts, Calls
<1>2. GatewaySpec => []TypeOK
  BY GatewayImplementsSubmission, SubmissionTypeCorrect, PTL
<1> QED
  BY <1>1, <1>2, NextDoor, PTL DEF GatewaySpec

\* A submission answered with a client error left nothing anywhere, whatever
\* other calls are in progress.
THEOREM ClientErrorsLeaveNothing == GatewaySpec => []RefusedLeaveNothing
<1>1. Inv /\ DoorInv => RefusedLeaveNothing
  <2> SUFFICES ASSUME Inv, DoorInv, NEW p \in Requests, reply[p] \in 400..499,
                      NEW j \in Uploads(p)
               PROVE  Untouched(j) /\ ready[First(j)] = 0
    BY DEF RefusedLeaveNothing, Untouched, First
  <2>1. step[p] \in {"received", "refused"}
    BY DEF DoorInv, DoorFacts, SubmissionFacts
  <2>2. Untouched(j)
    BY <2>1 DEF Inv, EveryProgress, Progress
  <2>3. j \in Jobs /\ ready[First(j)] \in Nat
    BY FilesAreSequences, FirstIsMessage DEF Inv, TypeOK
  <2> QED
    BY <2>2, <2>3 DEF Inv, JobFacts, Untouched
<1> QED
  BY <1>1, GatewayImplementsSubmission, InvIsKept, DoorIsKept, PTL

-----------------------------------------------------------------------------
(* The limits.                                                              *)

\* A bucket holds the admitted calls of one caller to one path, and a call at its
\* limit speaks for a user.
CounterFacts ==
    /\ \A b \in Buckets : IsFiniteSet(used[b])
    /\ \A b \in Buckets : \A d \in used[b] :
          /\ d \in Limited /\ user[d] # None /\ door[d] \in {"admitted", "answered"}
          /\ b = Bucket(d)
    /\ \A c \in Calls : door[c] = "routed" => c \in Limited /\ user[c] # None

CounterInv ==
    /\ DoorTypeOK
    /\ used \in [Buckets -> SUBSET Calls]
    /\ CounterFacts

LEMMA BucketOfUser ==
    ASSUME CounterInv, NEW c \in Calls, door[c] = "routed"
    PROVE  /\ c \in Limited /\ user[c] # None
           /\ Bucket(c) \in Buckets /\ Bucket(c)[2].endpoint = Endpoint(c)
<1>1. c \in Limited /\ user[c] # None /\ user[c] \in Users
  BY DEF CounterInv, CounterFacts, DoorTypeOK
<1>2. Bucket(c) \in Buckets
  BY <1>1 DEF Bucket, Buckets, Key
<1> QED
  BY <1>1, <1>2 DEF Bucket, Path

\* The counter of a call is its own as long as its user is.
LEMMA BucketKept ==
    ASSUME NEW d, user'[d] = user[d]
    PROVE  Bucket(d)' = Bucket(d)
  BY DEF Bucket

\* Two calls that count together are of one caller and to one path.
LEMMA BucketsTellCallers ==
    ASSUME NEW c \in Calls, NEW d \in Calls, user[c] # None, user[d] # None
    PROVE  Bucket(d) = Bucket(c) <=> SameCaller(c, d) /\ Path(d) = Path(c)
<1>1. Bucket(d) = Bucket(c) <=>
         Key(user[d], Caller[d].address) = Key(user[c], Caller[c].address)
         /\ Path(d) = Path(c)
  BY DEF Bucket
<1>2. Key(user[d], Caller[d].address) = Key(user[c], Caller[c].address)
         <=> SameCaller(c, d)
  BY DEF Key, SameCaller
<1> QED
  BY <1>1, <1>2

\* The answers of the steps, and the one that says 429.
LEMMA OnlyTheLimitSays429 ==
    ASSUME DoorTypeOK, NEW c \in Calls, NEW d \in Calls, CallStep(d),
           reply[c] = 0, reply'[c] = 429
    PROVE  c = d /\ CheckLimit(c)
<1>1. c = d
  BY OneCallSteps DEF StepsOf, DoorTypeOK
<1>2. ~ Authenticate(c) /\ ~ CheckFails(c) /\ ~ RefuseMalformed(c)
      /\ ~ GetJob(c) /\ ~ AnswerPreflight(c)
  BY DEF DoorTypeOK, Authenticate, CheckFails, RefuseMalformed, GetJob, AnswerPreflight,
         Enter, Answer
<1>3. ~ Submit(c)
  BY DEF DoorTypeOK, Submit, Respond, Translated, Answer
<1>4. ~ HealthCheck(c)
  BY DEF DoorTypeOK, HealthCheck, Answer
<1> QED
  BY <1>1, <1>2, <1>3, <1>4 DEF CallStep

\* What the steps do to the counters.
LEMMA StepsKeepCounters ==
    ASSUME CounterInv, NEW c \in Calls, CallStep(c), UNCHANGED used
    PROVE  CounterInv'
<1> USE DEF CounterInv, DoorTypeOK, Door
<1>1. StepsOf(c)
  BY OneCallSteps
<1>2. DoorTypeOK'
  BY <1>1 DEF StepsOf
<1>3. ASSUME NEW b \in Buckets, NEW d \in used[b]
      PROVE  user'[d] = user[d] /\ door'[d] \in {"admitted", "answered"}
  <2>1. d \in Calls /\ door[d] \in {"admitted", "answered"}
    BY DEF CounterFacts
  <2>2. CASE d # c
    BY <1>1, <2>1, <2>2 DEF StepsOf
  <2>3. CASE d = c /\ ~ Authenticate(c)
    <3>1. UNCHANGED user
      BY <2>3 DEF CallStep, CheckLimit, CheckFails, RefuseMalformed, Submit, GetJob,
                  AnswerPreflight, HealthCheck
    <3>2. door' = door \/ \E code \in Nat : Answer(c, code)
      <4>1. CASE Submit(c)
        BY <4>1 DEF Submit, Respond, Translated
      <4>2. CASE CheckFails(c) \/ RefuseMalformed(c) \/ GetJob(c) \/ AnswerPreflight(c)
        BY <4>2 DEF CheckFails, RefuseMalformed, GetJob, AnswerPreflight
      <4>3. CASE HealthCheck(c)
        BY <4>3 DEF HealthCheck
      <4>4. ~ CheckLimit(c)
        BY <2>1, <2>3 DEF CheckLimit
      <4> QED
        BY <2>3, <4>1, <4>2, <4>3, <4>4 DEF CallStep
    <3> QED
      BY <2>1, <2>3, <3>1, <3>2 DEF Answer
  <2>4. ~ (d = c /\ Authenticate(c))
    BY <2>1 DEF Authenticate
  <2> QED
    BY <2>2, <2>3, <2>4
<1>4. ASSUME NEW d \in Calls, door'[d] = "routed"
      PROVE  d \in Limited /\ user'[d] # None
  <2>1. CASE d # c
    BY <1>1, <1>4, <2>1 DEF StepsOf, CounterFacts
  <2>2. CASE d = c /\ Authenticate(c)
    BY <1>4, <2>2 DEF Authenticate, Enter, Answer
  <2>3. CASE d = c /\ ~ Authenticate(c)
    <3>1. door[c] # "routed" \/ door' = door
      BY <1>4, <2>3 DEF CallStep, CheckLimit, CheckFails, RefuseMalformed, Submit,
                        GetJob, AnswerPreflight, HealthCheck, Enter, Answer
    <3>2. UNCHANGED user /\ door' = door
      BY <1>4, <2>3 DEF CallStep, CheckLimit, CheckFails, RefuseMalformed, Submit,
            Respond, GetJob, AnswerPreflight, HealthCheck, Enter, Answer
    <3> QED
      BY <1>4, <2>3, <3>2 DEF CounterFacts
  <2> QED
    BY <2>1, <2>2, <2>3
<1>5. CounterFacts'
  BY <1>3, <1>4, BucketKept DEF CounterFacts
<1> QED
  BY <1>2, <1>5

LEMMA CountingKeepsCounters ==
    ASSUME CounterInv, NEW c \in Calls, CheckLimit(c)
    PROVE  CounterInv'
<1> USE DEF CounterInv, DoorTypeOK, Door
<1>1. door[c] = "routed" /\ UNCHANGED <<user, made>>
  BY DEF CheckLimit
<1>2. /\ c \in Limited /\ user[c] # None
      /\ Bucket(c) \in Buckets
  BY <1>1, BucketOfUser
<1>3. \E there \in {"admitted", "answered"} : door' = [door EXCEPT ![c] = there]
  BY DEF CheckLimit, Enter, Answer
<1>4. DoorTypeOK'
  BY OneCallSteps DEF StepsOf, CallStep
<1>5. used' = used \/ used' = [used EXCEPT ![Bucket(c)] = @ \union {c}]
  BY DEF CheckLimit
<1>6. used' \in [Buckets -> SUBSET Calls]
  BY <1>2, <1>5
<1>7. \A b \in Buckets : IsFiniteSet(used'[b])
  <2>1. IsFiniteSet(used[Bucket(c)] \union {c})
    BY <1>2, FS_AddElement DEF CounterFacts
  <2> QED
    BY <1>2, <1>5, <2>1 DEF CounterFacts
<1>8. ASSUME NEW b \in Buckets, NEW d \in used'[b]
      PROVE  /\ d \in Limited /\ user'[d] # None /\ door'[d] \in {"admitted", "answered"}
             /\ b = Bucket(d)
  <2>1. CASE d \in used[b]
    BY <1>1, <1>3, <2>1 DEF CounterFacts
  <2>2. CASE d \notin used[b]
    <3>1. d = c /\ b = Bucket(c)
      BY <1>2, <1>5, <2>2
    <3> QED
      BY <1>1, <1>2, <1>3, <3>1
  <2> QED
    BY <2>1, <2>2
<1>9. \A d \in Calls : door'[d] = "routed" => d \in Limited /\ user'[d] # None
  BY <1>1, <1>3 DEF CounterFacts
<1>10. CounterFacts'
  BY <1>1, <1>7, <1>8, <1>9, BucketKept DEF CounterFacts
<1> QED
  BY <1>4, <1>6, <1>10

LEMMA CountersAreKept == GatewaySpec => []CounterInv
<1>1. GatewayInit => CounterInv
  BY TrafficAssumption, FS_EmptySet DEF GatewayInit, CounterInv, DoorTypeOK, Door,
     CounterFacts
<1>2. CounterInv /\ [GatewayNext]_gatewayVars => CounterInv'
  <2> SUFFICES ASSUME CounterInv, [GatewayNext]_gatewayVars PROVE CounterInv'
    OBVIOUS
  <2>1. ASSUME NEW c \in made, CallStep(c) PROVE CounterInv'
    <3>1. c \in Calls
      BY DEF CounterInv, DoorTypeOK
    <3>2. CheckLimit(c) \/ UNCHANGED used
      BY <2>1 DEF CallStep, Authenticate, CheckFails, RefuseMalformed, Submit, GetJob,
                  AnswerPreflight, HealthCheck
    <3> QED
      BY <2>1, <3>1, <3>2, StepsKeepCounters, CountingKeepsCounters
  <2>2. CASE WindowEnds
    BY <2>2, FS_EmptySet DEF WindowEnds, CounterInv, CounterFacts, DoorTypeOK
  <2>3. ASSUME \/ \E p \in Requests \intersect made : SubmitDies(p)
               \/ Executor
               \/ UNCHANGED gatewayVars
        PROVE  CounterInv'
    <3>1. UNCHANGED doorVars
      BY <2>3 DEF SubmitDies, Executor, gatewayVars
    <3> QED
      BY <3>1, BucketKept DEF doorVars, CounterInv, CounterFacts, DoorTypeOK
  <2> QED
    BY <2>1, <2>2, <2>3 DEF GatewayNext
<1> QED
  BY <1>1, <1>2, PTL DEF GatewaySpec

\* A call is turned away for calls of its own caller to the same path, and only
\* when the window has seen as many of them as the limit grants.
THEOREM LimitsStayPerUser == GatewaySpec => LimitsArePerUser
<1> DEFINE Own(c) == {d \in Limited : d \in UNION Range(used) /\ SameCaller(c, d)
                                       /\ Path(d) = Path(c)}
<1>1. ASSUME CounterInv, [GatewayNext]_gatewayVars, NEW c \in Limited,
             reply[c] = 0, reply'[c] = 429
      PROVE  Cardinality(Own(c)) >= Limit[Endpoint(c)]
  <2>1. c \in Calls
    BY DEF Calls, Limited
  <2>2. PICK d \in made : CallStep(d)
    BY <1>1 DEF GatewayNext, SubmitDies, Executor, WindowEnds, doorVars, gatewayVars
  <2>3. CheckLimit(c)
    BY <1>1, <2>1, <2>2, OnlyTheLimitSays429 DEF CounterInv, DoorTypeOK
  <2>4. Bucket(c) \in Buckets /\ user[c] # None
    BY <1>1, <2>1, <2>3, BucketOfUser DEF CheckLimit
  <2>5. ~ (Cardinality(used[Bucket(c)]) < Limit[Endpoint(c)])
    BY <1>1, <2>3 DEF CheckLimit, Enter, CounterInv, DoorTypeOK
  <2>6. Own(c) = used[Bucket(c)]
    <3>1. ASSUME NEW e \in Own(c) PROVE e \in used[Bucket(c)]
      <4>1. PICK b \in Buckets : e \in used[b]
        BY <1>1 DEF CounterInv, Range
      <4>2. b = Bucket(e) /\ user[e] # None /\ e \in Calls
        BY <1>1, <4>1 DEF CounterInv, CounterFacts
      <4>3. Bucket(e) = Bucket(c)
        BY <2>1, <2>4, <4>2, BucketsTellCallers
      <4> QED
        BY <4>1, <4>2, <4>3
    <3>2. ASSUME NEW e \in used[Bucket(c)] PROVE e \in Own(c)
      <4>1. e \in UNION Range(used)
        BY <1>1, <2>4 DEF CounterInv, Range
      <4>2. e \in Limited /\ e \in Calls /\ user[e] # None /\ Bucket(e) = Bucket(c)
        BY <1>1, <2>4 DEF CounterInv, CounterFacts
      <4>3. SameCaller(c, e) /\ Path(e) = Path(c)
        BY <2>1, <2>4, <4>2, BucketsTellCallers
      <4> QED
        BY <4>1, <4>2, <4>3
    <3> QED
      BY <3>1, <3>2
  <2>7. Limit[Endpoint(c)] \in Nat
    BY LimitAssumption DEF Endpoint
  <2>8. Cardinality(used[Bucket(c)]) \in Nat
    BY <1>1, <2>4, FS_CardinalityType DEF CounterInv, CounterFacts
  <2>9. Cardinality(Own(c)) = Cardinality(used[Bucket(c)])
    BY <2>6, Zenon
  <2> HIDE DEF Own
  <2> QED
    BY <2>5, <2>7, <2>8, <2>9
<1>2. CounterInv /\ [GatewayNext]_gatewayVars
        => [\A c \in Limited : reply[c] = 0 /\ reply'[c] = 429 =>
              Cardinality({d \in Limited : d \in UNION Range(used) /\ SameCaller(c, d)
                                           /\ Path(d) = Path(c)})
                  >= Limit[Endpoint(c)]]_gatewayVars
  BY <1>1
<1> QED
  BY <1>2, CountersAreKept, PTL DEF GatewaySpec, LimitsArePerUser

-----------------------------------------------------------------------------
(* The polls of /health.                                                    *)

LEMMA Removed ==
    ASSUME NEW S, NEW s \in Seq(S), NEW i \in 1..Len(s), NEW r,
           r = Probes!RemoveAt(s, i)
    PROVE  /\ r \in Seq(S) /\ Len(r) = Len(s) - 1
           /\ \A k \in 1..Len(r) : r[k] = IF k < i THEN s[k] ELSE s[k + 1]
<1> DEFINE a == SubSeq(s, 1, i - 1)
           b == SubSeq(s, i + 1, Len(s))
<1>typing. Len(s) \in Nat /\ i \in Nat /\ i <= Len(s) /\ i >= 1
  OBVIOUS
<1>1. /\ a \in Seq(S) /\ Len(a) = i - 1
      /\ \A k \in 1..(i - 1) : a[k] = s[k]
  <2>1. \A k \in 1..(i - 1) : s[k] \in S
    BY <1>typing
  <2>2. /\ a \in Seq(S) /\ Len(a) = IF 1 <= i - 1 THEN (i - 1) - 1 + 1 ELSE 0
        /\ \A k \in 1..((i - 1) - 1 + 1) : a[k] = s[1 + k - 1]
    BY <2>1, <1>typing, SubSeqProperties
  <2> HIDE DEF a
  <2> QED
    BY <2>2, <1>typing
<1>2. /\ b \in Seq(S) /\ Len(b) = Len(s) - i
      /\ \A k \in 1..(Len(s) - i) : b[k] = s[i + k]
  <2>1. \A k \in (i + 1)..Len(s) : s[k] \in S
    BY <1>typing
  <2>2. /\ b \in Seq(S)
        /\ Len(b) = IF i + 1 <= Len(s) THEN Len(s) - (i + 1) + 1 ELSE 0
        /\ \A k \in 1..(Len(s) - (i + 1) + 1) : b[k] = s[(i + 1) + k - 1]
    BY <2>1, <1>typing, SubSeqProperties
  <2> HIDE DEF b
  <2> QED
    BY <2>2, <1>typing
<1>3. r = a \o b
  BY DEF Probes!RemoveAt
<1> HIDE DEF a, b
<1>4. /\ r \in Seq(S) /\ Len(r) = Len(a) + Len(b)
      /\ \A k \in 1..(Len(a) + Len(b)) :
            r[k] = IF k <= Len(a) THEN a[k] ELSE b[k - Len(a)]
  <2>1. a \in Seq(S) /\ b \in Seq(S)
    BY <1>1, <1>2
  <2>2. r \in Seq(S) /\ Len(r) = Len(a) + Len(b)
    BY <2>1, <1>3
  <2>3. \A k \in 1..(Len(a) + Len(b)) :
           (a \o b)[k] = IF k <= Len(a) THEN a[k] ELSE b[k - Len(a)]
    BY <2>1, ConcatProperties
  <2> QED
    BY <1>3, <2>2, <2>3
<1> QED
  BY <1>1, <1>2, <1>4, <1>typing

Blocked == Polls \X Probes!Blocking
Over == {"healthy", "unhealthy", "left"}

\* The probes that wait for a thread are the ones in the queue, each once; a
\* poll that has not begun has none, and one that has answered none that is
\* not over.
ProbesInv ==
    /\ Probes!TypeOK
    /\ \A i \in 1..Len(waiting) : probe[waiting[i]] = "waiting"
    /\ \A i, j \in 1..Len(waiting) : waiting[i] = waiting[j] => i = j
    /\ \A h \in Polls, b \in Probes!Blocking :
          /\ poll[h].at = "idle" => probe[<<h, b>>] = "idle"
          /\ poll[h].at = "answered" => probe[<<h, b>>] \in Over
    /\ Probes!VerdictIsEarned

LEMMA ProbesInit == Probes!Init => ProbesInv
<1> SUFFICES ASSUME Probes!Init PROVE ProbesInv
  OBVIOUS
<1>1. Probes!TypeOK
  BY DEF Probes!Init, Probes!TypeOK, Probes!Unasked, Probes!ProbeState, Probes!Async
<1>2. Len(waiting) = 0
  BY DEF Probes!Init
<1>3. \A h \in Polls : poll[h].at = "idle"
  BY DEF Probes!Init, Probes!Unasked
<1>4. \A h \in Polls, b \in Probes!Blocking : probe[<<h, b>>] = "idle"
  BY DEF Probes!Init
<1> QED
  BY <1>1, <1>2, <1>3, <1>4 DEF ProbesInv, Probes!VerdictIsEarned

LEMMA AskKeepsProbes ==
    ASSUME ProbesInv, NEW h \in Polls, Probes!Ask(h)
    PROVE  ProbesInv'
<1> USE DEF Probes!Blocking
<1> DEFINE n == Len(waiting)
           x == <<h, "chromadb">>
           y == <<h, "celery">>
<1>typing. /\ poll \in [Polls -> [at: {"idle", "probing", "answered"},
                                  ok: SUBSET Probes!Async,
                                  verdict: {"none", "healthy", "degraded", "unhealthy"}]]
           /\ probe \in [Polls \X Probes!Blocking -> Probes!ProbeState]
           /\ waiting \in Seq(Polls \X Probes!Blocking) /\ n \in Nat
           /\ gauge \in {"zero", "depth"}
           /\ x \in Polls \X Probes!Blocking /\ y \in Polls \X Probes!Blocking
  BY DEF ProbesInv, Probes!TypeOK
<1>1. /\ poll[h].at = "idle" /\ poll' = [poll EXCEPT ![h].at = "probing"]
      /\ probe' = [p \in Polls \X Probes!Blocking |->
                      IF p[1] = h THEN "waiting" ELSE probe[p]]
      /\ waiting' = waiting \o <<x, y>> /\ gauge' = gauge
  BY DEF Probes!Ask
<1>2. /\ waiting' \in Seq(Polls \X Probes!Blocking) /\ Len(waiting') = n + 2
      /\ \A i \in 1..n : waiting'[i] = waiting[i]
      /\ waiting'[n + 1] = x /\ waiting'[n + 2] = y
  <2> HIDE DEF x, y
  <2>1. <<x, y>> \in Seq(Polls \X Probes!Blocking) /\ Len(<<x, y>>) = 2
        /\ <<x, y>>[1] = x /\ <<x, y>>[2] = y
    BY <1>typing
  <2>2. /\ waiting' \in Seq(Polls \X Probes!Blocking) /\ Len(waiting') = n + 2
        /\ \A i \in 1..(n + 2) :
              waiting'[i] = IF i <= n THEN waiting[i] ELSE <<x, y>>[i - n]
    BY <1>1, <2>1, <1>typing, ConcatProperties
  <2>3. \A i \in 1..n : waiting'[i] = waiting[i]
    BY <2>2, <1>typing
  <2>4. n + 1 \in 1..(n + 2) /\ ~ (n + 1 <= n) /\ (n + 1) - n = 1
    BY <1>typing
  <2>5. n + 2 \in 1..(n + 2) /\ ~ (n + 2 <= n) /\ (n + 2) - n = 2
    BY <1>typing
  <2>6. waiting'[n + 1] = x
    BY <2>1, <2>2, <2>4
  <2>7. waiting'[n + 2] = y
    BY <2>1, <2>2, <2>5
  <2> QED
    BY <2>2, <2>3, <2>6, <2>7
<1>3. \A i \in 1..n : waiting[i][1] # h /\ waiting[i] \in Polls \X Probes!Blocking
  <2>1. ASSUME NEW i \in 1..n, waiting[i][1] = h PROVE FALSE
    <3>1. waiting[i] \in Polls \X Probes!Blocking /\ probe[waiting[i]] = "waiting"
      BY <1>typing DEF ProbesInv
    <3>2. PICK b \in Probes!Blocking : waiting[i] = <<h, b>>
      BY <2>1, <3>1
    <3> QED
      BY <1>1, <3>1, <3>2 DEF ProbesInv
  <2>2. \A i \in 1..n : waiting[i] \in Polls \X Probes!Blocking
    BY <1>typing
  <2> QED
    BY <2>1, <2>2
<1>4. Probes!TypeOK'
  <2>1. poll' \in [Polls -> [at: {"idle", "probing", "answered"},
                             ok: SUBSET Probes!Async,
                             verdict: {"none", "healthy", "degraded", "unhealthy"}]]
    BY <1>1, <1>typing
  <2>2. probe' \in [Polls \X Probes!Blocking -> Probes!ProbeState]
    BY <1>1, <1>typing DEF Probes!ProbeState
  <2> QED
    BY <1>1, <1>2, <1>typing, <2>1, <2>2 DEF Probes!TypeOK
<1>5. ASSUME NEW i \in 1..(n + 2) PROVE probe'[waiting'[i]] = "waiting"
  <2>1. CASE i \in 1..n
    BY <1>1, <1>2, <1>3, <2>1 DEF ProbesInv
  <2>2. CASE i \in {n + 1, n + 2}
    BY <1>1, <1>2, <1>typing, <2>2
  <2>3. i \in 1..n \/ i \in {n + 1, n + 2}
    BY <1>typing
  <2> QED
    BY <2>1, <2>2, <2>3
<1>6. ASSUME NEW i \in 1..(n + 2), NEW j \in 1..(n + 2), waiting'[i] = waiting'[j]
      PROVE  i = j
  <2>1. CASE i \in 1..n /\ j \in 1..n
    BY <1>2, <1>6, <2>1 DEF ProbesInv
  <2>2. CASE i \in 1..n <=> j \notin 1..n
    <3>1. ASSUME NEW k \in 1..n PROVE waiting'[k] # x /\ waiting'[k] # y
      BY <1>2, <1>3
    <3>2. \A k \in 1..(n + 2) : k \in 1..n \/ waiting'[k] \in {x, y}
      <4>1. \A k \in 1..(n + 2) : k \in 1..n \/ k = n + 1 \/ k = n + 2
        BY <1>typing
      <4> QED
        BY <1>2, <4>1
    <3> QED
      BY <1>6, <2>2, <3>1, <3>2
  <2>3. CASE i \notin 1..n /\ j \notin 1..n
    <3>1. i \in {n + 1, n + 2} /\ j \in {n + 1, n + 2}
      BY <1>typing, <2>3
    <3>2. x # y
      OBVIOUS
    <3> QED
      BY <1>2, <1>6, <3>1, <3>2
  <2> QED
    BY <2>1, <2>2, <2>3
<1>7. ASSUME NEW g \in Polls
      PROVE  /\ \A b \in Probes!Blocking :
                  /\ poll'[g].at = "idle" => probe'[<<g, b>>] = "idle"
                  /\ poll'[g].at = "answered" => probe'[<<g, b>>] \in Over
             /\ poll'[g].at = "answered" =>
                  /\ (poll'[g].verdict = "unhealthy")
                        = ~ (Probes!CRITICAL_DEPENDENCIES \subseteq poll'[g].ok)
                  /\ poll'[g].verdict = "healthy" =>
                        Probes!Async \subseteq poll'[g].ok
                        /\ probe'[<<g, "chromadb">>] = "healthy"
  <2>1. CASE g = h
    BY <1>1, <1>typing, <2>1
  <2>2. CASE g # h
    BY <1>1, <1>typing, <2>2 DEF ProbesInv, Probes!VerdictIsEarned
  <2> QED
    BY <2>1, <2>2
<1> QED
  BY <1>2, <1>4, <1>5, <1>6, <1>7 DEF ProbesInv, Probes!VerdictIsEarned

\* A probe that was over stays so, and a poll says no more than it did.
LEMMA SettledStay ==
    ASSUME ProbesInv, Probes!TypeOK', poll' = poll,
           \A i \in 1..Len(waiting)' : probe'[waiting'[i]] = "waiting",
           \A i, j \in 1..Len(waiting)' : waiting'[i] = waiting'[j] => i = j,
           \A p \in Blocked :
              /\ probe[p] = "idle" => probe'[p] = "idle"
              /\ probe[p] \in Over => probe'[p] \in Over
              /\ probe[p] = "healthy" => probe'[p] = "healthy"
    PROVE  ProbesInv'
<1>1. ASSUME NEW h \in Polls, NEW b \in Probes!Blocking
      PROVE  /\ poll'[h].at = "idle" => probe'[<<h, b>>] = "idle"
             /\ poll'[h].at = "answered" => probe'[<<h, b>>] \in Over
  BY DEF ProbesInv, Blocked
<1>2. Probes!VerdictIsEarned'
  <2>1. \A h \in Polls : <<h, "chromadb">> \in Blocked
    BY DEF Blocked, Probes!Blocking
  <2> QED
    BY <2>1 DEF ProbesInv, Probes!VerdictIsEarned
<1> QED
  BY <1>1, <1>2 DEF ProbesInv

LEMMA TakeThreadKeepsProbes ==
    ASSUME ProbesInv, Probes!TakeThread
    PROVE  ProbesInv'
<1> DEFINE n == Len(waiting)
           p == Head(waiting)
<1>typing. /\ probe \in [Blocked -> Probes!ProbeState] /\ waiting \in Seq(Blocked)
           /\ n \in Nat /\ waiting # <<>>
  BY DEF ProbesInv, Probes!TypeOK, Probes!TakeThread, Blocked
<1>1. /\ n > 0 /\ p = waiting[1] /\ p \in Blocked /\ probe[p] = "waiting"
      /\ Tail(waiting) \in Seq(Blocked) /\ Len(Tail(waiting)) = n - 1
      /\ \A i \in 1..(n - 1) : Tail(waiting)[i] = waiting[i + 1]
  <2>1. /\ n > 0 /\ p = waiting[1] /\ p \in Blocked
        /\ Tail(waiting) \in Seq(Blocked) /\ Len(Tail(waiting)) = n - 1
        /\ \A i \in 1..(n - 1) : Tail(waiting)[i] = waiting[i + 1]
    BY <1>typing
  <2> QED
    BY <2>1, <1>typing DEF ProbesInv
<1>2. /\ probe' = [probe EXCEPT ![p] = "running"] /\ waiting' = Tail(waiting)
      /\ UNCHANGED <<poll, gauge>>
  BY DEF Probes!TakeThread
<1>3. Probes!TypeOK'
  BY <1>1, <1>2 DEF ProbesInv, Probes!TypeOK, Blocked, Probes!ProbeState
<1>4. ASSUME NEW i \in 1..(n - 1)
      PROVE  waiting'[i] = waiting[i + 1] /\ i + 1 \in 1..n /\ waiting[i + 1] # p
  <2>1. i + 1 \in 1..n /\ i + 1 # 1 /\ 1 \in 1..n
    BY <1>typing, <1>1
  <2>2. waiting[i + 1] # waiting[1]
    BY <2>1 DEF ProbesInv
  <2> QED
    BY <1>1, <1>2, <2>1, <2>2
<1>5. \A i \in 1..(n - 1) : probe'[waiting'[i]] = "waiting"
  <2>1. \A i \in 1..n : waiting[i] \in Blocked
    BY <1>typing
  <2> QED
    BY <1>2, <1>4, <1>typing, <2>1 DEF ProbesInv
<1>6. ASSUME NEW i \in 1..(n - 1), NEW j \in 1..(n - 1), waiting'[i] = waiting'[j]
      PROVE  i = j
  <2>1. i + 1 = j + 1
    BY <1>4, <1>6 DEF ProbesInv
  <2> QED
    BY <2>1, <1>typing
<1>7. Len(waiting') = n - 1
  BY <1>1, <1>2
<1>8. \A q \in Blocked : probe'[q] = probe[q] \/ probe[q] = "waiting"
  BY <1>1, <1>2, <1>typing
<1> HIDE DEF n, p
<1> QED
  BY <1>2, <1>3, <1>5, <1>6, <1>7, <1>8, SettledStay DEF Over

LEMMA ReturnKeepsProbes ==
    ASSUME ProbesInv, NEW h \in Polls, NEW b \in Probes!Blocking, Probes!Return(h, b)
    PROVE  ProbesInv'
<1>1. <<h, b>> \in Blocked /\ probe \in [Blocked -> Probes!ProbeState]
      /\ waiting \in Seq(Blocked)
  BY DEF Blocked, ProbesInv, Probes!TypeOK
<1>2. PICK answer \in {"healthy", "unhealthy"} :
         /\ probe' = [probe EXCEPT ![<<h, b>>] = answer]
         /\ probe[<<h, b>>] = "left" => answer = "unhealthy"
  BY DEF Probes!Return
<1>3. probe[<<h, b>>] \in {"running", "left"} /\ UNCHANGED <<poll, waiting, gauge>>
  BY DEF Probes!Return
<1>4. Probes!TypeOK'
  BY <1>1, <1>2, <1>3 DEF ProbesInv, Probes!TypeOK, Blocked, Probes!ProbeState
<1>5. \A i \in 1..Len(waiting) : probe'[waiting[i]] = "waiting"
  <2>1. \A i \in 1..Len(waiting) : waiting[i] \in Blocked
    BY <1>1
  <2> QED
    BY <1>1, <1>2, <1>3, <2>1 DEF ProbesInv
<1>6. \A i, j \in 1..Len(waiting) : waiting[i] = waiting[j] => i = j
  BY DEF ProbesInv
<1>7. \A q \in Blocked :
         /\ probe[q] = "idle" => probe'[q] = "idle"
         /\ probe[q] \in Over => probe'[q] \in Over
         /\ probe[q] = "healthy" => probe'[q] = "healthy"
  BY <1>1, <1>2, <1>3 DEF Over
<1> QED
  BY <1>3, <1>4, <1>5, <1>6, <1>7, SettledStay

LEMMA GiveUpKeepsProbes ==
    ASSUME ProbesInv, NEW h \in Polls, NEW b \in Probes!Blocking, Probes!GiveUp(h, b)
    PROVE  ProbesInv'
<1> DEFINE n == Len(waiting)
           p == <<h, b>>
<1>1. p \in Blocked /\ probe \in [Blocked -> Probes!ProbeState]
      /\ waiting \in Seq(Blocked) /\ n \in Nat
  BY DEF Blocked, ProbesInv, Probes!TypeOK
<1>2. UNCHANGED <<poll, gauge>>
  BY DEF Probes!GiveUp
<1>3. \A i \in 1..n : waiting[i] \in Blocked
  BY <1>1
<1>4. CASE probe[p] = "running" /\ probe' = [probe EXCEPT ![p] = "left"]
           /\ waiting' = waiting
  <2>1. Probes!TypeOK'
    BY <1>1, <1>2, <1>4 DEF ProbesInv, Probes!TypeOK, Blocked, Probes!ProbeState
  <2>2. \A i \in 1..n : probe'[waiting[i]] = "waiting"
    BY <1>1, <1>3, <1>4 DEF ProbesInv
  <2>3. \A i, j \in 1..n : waiting[i] = waiting[j] => i = j
    BY DEF ProbesInv
  <2>4. \A q \in Blocked :
           /\ probe[q] = "idle" => probe'[q] = "idle"
           /\ probe[q] \in Over => probe'[q] \in Over
           /\ probe[q] = "healthy" => probe'[q] = "healthy"
    BY <1>1, <1>4 DEF Over
  <2> QED
    BY <1>2, <1>4, <2>1, <2>2, <2>3, <2>4, SettledStay
<1>5. CASE /\ probe[p] = "waiting" /\ probe' = [probe EXCEPT ![p] = "unhealthy"]
           /\ \E i \in DOMAIN waiting :
                 waiting[i] = p /\ waiting' = Probes!RemoveAt(waiting, i)
  <2>1. PICK i \in 1..n : waiting[i] = p /\ waiting' = Probes!RemoveAt(waiting, i)
    BY <1>1, <1>5
  <2>2. /\ waiting' \in Seq(Blocked) /\ Len(waiting') = n - 1
        /\ \A k \in 1..Len(waiting') :
              waiting'[k] = IF k < i THEN waiting[k] ELSE waiting[k + 1]
    BY <1>1, <2>1, Removed
  <2> HIDE DEF p
  \* where the k-th that still waits was before
  <2> DEFINE old(k) == IF k < i THEN k ELSE k + 1
  <2>3. ASSUME NEW k \in 1..(n - 1)
        PROVE  old(k) \in 1..n /\ old(k) # i /\ waiting'[k] = waiting[old(k)]
    BY <1>1, <2>2
  <2>4. \A k, l \in 1..(n - 1) : old(k) = old(l) => k = l
    BY <1>1
  <2> HIDE DEF old
  <2>5. Probes!TypeOK'
    BY <1>1, <1>2, <1>5, <2>2 DEF ProbesInv, Probes!TypeOK, Blocked, Probes!ProbeState
  <2>6. ASSUME NEW k \in 1..(n - 1) PROVE probe'[waiting'[k]] = "waiting"
    <3>1. waiting[old(k)] # p
      BY <2>1, <2>3 DEF ProbesInv
    <3>2. probe[waiting[old(k)]] = "waiting" /\ waiting[old(k)] \in Blocked
      BY <1>3, <2>3 DEF ProbesInv
    <3> QED
      BY <1>1, <1>5, <2>3, <3>1, <3>2
  <2>7. ASSUME NEW k \in 1..(n - 1), NEW l \in 1..(n - 1), waiting'[k] = waiting'[l]
        PROVE  k = l
    <3>1. waiting[old(k)] = waiting[old(l)] /\ old(k) \in 1..n /\ old(l) \in 1..n
      BY <2>3, <2>7
    <3>2. old(k) = old(l)
      BY <3>1 DEF ProbesInv
    <3> QED
      BY <2>4, <3>2
  <2>8. \A q \in Blocked : probe'[q] = probe[q] \/ probe[q] = "waiting"
    BY <1>1, <1>5
  <2>9. Len(waiting') = n - 1
    BY <2>2
  <2> HIDE DEF n
  <2> QED
    BY <1>2, <2>5, <2>6, <2>7, <2>8, <2>9, SettledStay DEF Over
<1> QED
  BY <1>4, <1>5 DEF Probes!GiveUp

LEMMA AnswerKeepsProbes ==
    ASSUME ProbesInv, NEW h \in Polls, Probes!AnswerPoll(h)
    PROVE  ProbesInv'
<1> DEFINE chroma == probe[<<h, "chromadb">>]
<1>typing. /\ poll \in [Polls -> [at: {"idle", "probing", "answered"},
                                  ok: SUBSET Probes!Async,
                                  verdict: {"none", "healthy", "degraded", "unhealthy"}]]
  BY DEF ProbesInv, Probes!TypeOK
<1>1. PICK ok \in SUBSET Probes!Async :
         poll' = [poll EXCEPT ![h] = [at |-> "answered", ok |-> ok,
                                      verdict |-> Probes!Verdict(ok, chroma)]]
  BY DEF Probes!AnswerPoll
<1>2. /\ \A b \in Probes!Blocking : probe[<<h, b>>] \in Over
      /\ UNCHANGED <<probe, waiting>> /\ gauge' \in {"zero", "depth"}
  BY DEF Probes!AnswerPoll, Over
<1>3. Probes!Verdict(ok, chroma) \in {"healthy", "degraded", "unhealthy"}
  BY DEF Probes!Verdict
<1>4. Probes!TypeOK'
  BY <1>1, <1>2, <1>3, <1>typing DEF ProbesInv, Probes!TypeOK
<1>5. /\ poll'[h].at = "answered" /\ poll'[h].ok = ok
      /\ poll'[h].verdict = Probes!Verdict(ok, chroma)
      /\ \A g \in Polls : g # h => poll'[g] = poll[g]
  BY <1>1, <1>typing
<1>6. Probes!VerdictIsEarned'
  <2>1. ASSUME NEW g \in Polls, poll'[g].at = "answered"
        PROVE  /\ (poll'[g].verdict = "unhealthy")
                     = ~ (Probes!CRITICAL_DEPENDENCIES \subseteq poll'[g].ok)
               /\ poll'[g].verdict = "healthy" =>
                     Probes!Async \subseteq poll'[g].ok
                     /\ probe'[<<g, "chromadb">>] = "healthy"
    <3>1. CASE g = h
      BY <1>2, <1>5, <3>1 DEF Probes!Verdict
    <3>2. CASE g # h
      BY <1>2, <1>5, <2>1, <3>2 DEF ProbesInv, Probes!VerdictIsEarned
    <3> QED
      BY <3>1, <3>2
  <2> QED
    BY <2>1 DEF Probes!VerdictIsEarned
<1>7. \A g \in Polls, b \in Probes!Blocking :
         /\ poll'[g].at = "idle" => probe'[<<g, b>>] = "idle"
         /\ poll'[g].at = "answered" => probe'[<<g, b>>] \in Over
  BY <1>2, <1>5 DEF ProbesInv
<1> QED
  BY <1>2, <1>4, <1>6, <1>7 DEF ProbesInv

LEMMA HealthKeepsProbes ==
    ASSUME ProbesInv,
           \/ \E h \in Polls : Probes!Ask(h) \/ Probes!PollStep(h)
           \/ Probes!ThreadStep
           \/ UNCHANGED healthVars
    PROVE  ProbesInv'
<1>1. CASE UNCHANGED healthVars
  BY <1>1 DEF healthVars, ProbesInv, Probes!TypeOK, Probes!VerdictIsEarned
<1>2. ASSUME NEW h \in Polls, Probes!Ask(h) \/ Probes!PollStep(h) PROVE ProbesInv'
  BY <1>2, AskKeepsProbes, GiveUpKeepsProbes, AnswerKeepsProbes DEF Probes!PollStep
<1>3. CASE Probes!ThreadStep
  BY <1>3, TakeThreadKeepsProbes, ReturnKeepsProbes DEF Probes!ThreadStep
<1> QED
  BY <1>1, <1>2, <1>3

-----------------------------------------------------------------------------
(* What the API's variables may be.                                         *)

Codes == {0, 200, 202, 400, 401, 404, 413, 429, 500, 503}

LimitsKept == \A b \in Buckets : Cardinality(used[b]) <= Limit[b[2].endpoint]

DoorsInv ==
    /\ reply \in [Calls -> Codes]
    /\ \A c \in Calls : (door[c] = "answered") = (reply[c] # 0)
    /\ LimitsKept

\* Where a call goes: to its answer, further on, or nowhere.
LEMMA CallMoves ==
    ASSUME DoorTypeOK, NEW c \in Calls, CallStep(c)
    PROVE  /\ door[c] # "answered"
           /\ \/ \E code \in Codes \ {0} : Answer(c, code)
              \/ \E there \in {"routed", "admitted"} : Enter(c, there)
              \/ UNCHANGED <<door, reply>>
<1>1. CASE Authenticate(c)
  BY <1>1 DEF Authenticate, Codes
<1>2. CASE CheckLimit(c) \/ CheckFails(c)
  BY <1>2 DEF CheckLimit, CheckFails, Codes
<1>3. CASE RefuseMalformed(c) \/ GetJob(c) \/ AnswerPreflight(c)
  BY <1>3 DEF RefuseMalformed, GetJob, AnswerPreflight, Codes
<1>4. CASE Submit(c)
  BY <1>4 DEF Submit, Respond, Translated, Codes
<1>5. CASE HealthCheck(c)
  BY <1>5 DEF HealthCheck, Codes
<1> QED
  BY <1>1, <1>2, <1>3, <1>4, <1>5 DEF CallStep

LEMMA CallKeepsDoors ==
    ASSUME CounterInv, DoorsInv, NEW c \in Calls, CallStep(c)
    PROVE  DoorsInv'
<1>typing. door \in [Calls -> Door] /\ reply \in [Calls -> Codes]
  BY DEF CounterInv, DoorTypeOK, DoorsInv
<1>1. /\ reply' \in [Calls -> Codes]
      /\ \A d \in Calls : (door'[d] = "answered") = (reply'[d] # 0)
  <2>1. /\ door[c] # "answered" /\ reply[c] = 0
        /\ \/ \E code \in Codes \ {0} : Answer(c, code)
           \/ \E there \in {"routed", "admitted"} : Enter(c, there)
           \/ UNCHANGED <<door, reply>>
    BY CallMoves DEF CounterInv, DoorsInv
  <2>2. CASE UNCHANGED <<door, reply>>
    BY <2>2 DEF DoorsInv
  <2>3. CASE \E there \in {"routed", "admitted"} : Enter(c, there)
    BY <2>1, <2>3, <1>typing DEF Enter, DoorsInv
  <2>4. CASE \E code \in Codes \ {0} : Answer(c, code)
    <3>1. PICK code \in Codes \ {0} : Answer(c, code)
      BY <2>4
    <3>2. reply' \in [Calls -> Codes]
      BY <3>1, <1>typing DEF Answer
    <3>3. ASSUME NEW d \in Calls PROVE (door'[d] = "answered") = (reply'[d] # 0)
      <4>1. CASE d = c
        BY <3>1, <4>1, <1>typing DEF Answer
      <4>2. CASE d # c
        BY <3>1, <4>2, <1>typing DEF Answer, DoorsInv
      <4> QED
        BY <4>1, <4>2
    <3> QED
      BY <3>2, <3>3
  <2> QED
    BY <2>1, <2>2, <2>3, <2>4
<1>2. LimitsKept'
  <2>1. CASE used' = used
    BY <2>1 DEF DoorsInv, LimitsKept
  <2>2. CASE CheckLimit(c) /\ used' # used
    <3>1. /\ Cardinality(used[Bucket(c)]) < Limit[Endpoint(c)]
          /\ used' = [used EXCEPT ![Bucket(c)] = @ \union {c}]
          /\ door[c] = "routed"
      BY <2>2 DEF CheckLimit
    <3>2. /\ Bucket(c) \in Buckets /\ Bucket(c)[2].endpoint = Endpoint(c)
          /\ Limit[Endpoint(c)] \in Nat
      BY <3>1, BucketOfUser, LimitAssumption DEF Endpoint
    <3>3. /\ used \in [Buckets -> SUBSET Calls] /\ IsFiniteSet(used[Bucket(c)])
      BY <3>2 DEF CounterInv, CounterFacts
    <3>4. /\ Cardinality(used[Bucket(c)]) \in Nat
          /\ Cardinality(used[Bucket(c)] \union {c}) \in Nat
          /\ Cardinality(used[Bucket(c)] \union {c}) <= Cardinality(used[Bucket(c)]) + 1
      <4> DEFINE S == used[Bucket(c)]
      <4>1. IsFiniteSet(S)
        BY <3>3
      <4> HIDE DEF S
      <4>2. Cardinality(S) \in Nat
        BY <4>1, FS_CardinalityType
      <4>3. Cardinality(S \union {c}) = IF c \in S THEN Cardinality(S) ELSE Cardinality(S) + 1
        BY <4>1, FS_AddElement
      <4>4. /\ Cardinality(S \union {c}) \in Nat
            /\ Cardinality(S \union {c}) <= Cardinality(S) + 1
        BY <4>2, <4>3
      <4> QED
        BY <4>2, <4>4 DEF S
    <3>5. Cardinality(used[Bucket(c)] \union {c}) <= Limit[Endpoint(c)]
      BY <3>1, <3>2, <3>4
    <3>6. ASSUME NEW b \in Buckets PROVE Cardinality(used'[b]) <= Limit[b[2].endpoint]
      <4>1. CASE b = Bucket(c)
        BY <3>1, <3>2, <3>3, <3>5, <4>1
      <4>2. CASE b # Bucket(c)
        BY <3>1, <3>3, <4>2 DEF DoorsInv, LimitsKept
      <4> QED
        BY <4>1, <4>2
    <3> QED
      BY <3>6 DEF LimitsKept
  <2> QED
    BY <2>1, <2>2 DEF CallStep, Authenticate, CheckFails, RefuseMalformed, Submit, GetJob,
                      AnswerPreflight, HealthCheck
<1> QED
  BY <1>1, <1>2 DEF DoorsInv

LEMMA NoCallsCounted ==
    ASSUME used = [b \in Buckets |-> {}]
    PROVE  LimitsKept
<1>1. \A b \in Buckets : Limit[b[2].endpoint] \in Nat /\ Cardinality(used[b]) = 0
  BY LimitAssumption, FS_EmptySet DEF Buckets, Path, Endpoint
<1> QED
  BY <1>1 DEF LimitsKept

LEMMA GatewayStepsKeep ==
    CounterInv /\ DoorsInv /\ ProbesInv /\ [GatewayNext]_gatewayVars
        => DoorsInv' /\ ProbesInv'
<1> SUFFICES ASSUME CounterInv, DoorsInv, ProbesInv, [GatewayNext]_gatewayVars
             PROVE  DoorsInv' /\ ProbesInv'
  OBVIOUS
<1>1. ASSUME NEW c \in made, CallStep(c) PROVE DoorsInv' /\ ProbesInv'
  <2>1. c \in Calls
    BY DEF CounterInv, DoorTypeOK
  <2>2. \/ UNCHANGED healthVars
        \/ \E h \in Polls : Probes!Ask(h) \/ Probes!PollStep(h)
    <3>1. CASE c \in Polls /\ HealthCheck(c)
      BY <3>1 DEF HealthCheck
    <3>2. CASE \/ Authenticate(c) \/ CheckLimit(c) \/ CheckFails(c)
               \/ RefuseMalformed(c) \/ Submit(c) \/ GetJob(c) \/ AnswerPreflight(c)
      BY <3>2 DEF Authenticate, CheckLimit, CheckFails, RefuseMalformed, Submit, GetJob,
                  AnswerPreflight
    <3> QED
      BY <1>1, <3>1, <3>2 DEF CallStep
  <2> QED
    BY <1>1, <2>1, <2>2, CallKeepsDoors, HealthKeepsProbes
<1>2. CASE WindowEnds
  <2>1. UNCHANGED healthVars /\ UNCHANGED <<door, reply>> /\ LimitsKept'
    <3>1. used' = [b \in Buckets |-> {}]
      BY <1>2 DEF WindowEnds
    <3>2. \A b \in Buckets : Limit[b[2].endpoint] \in Nat /\ Cardinality(used'[b]) = 0
      BY <3>1, LimitAssumption, FS_EmptySet DEF Buckets, Path, Endpoint
    <3> QED
      BY <1>2, <3>2 DEF WindowEnds, LimitsKept
  <2> QED
    BY <2>1, HealthKeepsProbes DEF DoorsInv
<1>3. ASSUME \/ \E p \in Requests \intersect made : SubmitDies(p)
             \/ Executor
             \/ UNCHANGED gatewayVars
      PROVE  DoorsInv' /\ ProbesInv'
  <2>1. UNCHANGED doorVars
    BY <1>3 DEF SubmitDies, Executor, gatewayVars
  <2>2. UNCHANGED healthVars \/ Probes!ThreadStep
    BY <1>3 DEF SubmitDies, Executor, gatewayVars
  <2> QED
    BY <2>1, <2>2, HealthKeepsProbes DEF doorVars, DoorsInv, LimitsKept
<1> QED
  BY <1>1, <1>2, <1>3 DEF GatewayNext

(***************************************************************************)
(* Whatever hangs in the threads of the executor and however many polls     *)
(* wait for one: 503 says that a critical dependency did not answer, and    *)
(* "healthy" that this very poll heard from all of them.  Every call has    *)
(* one of the API's codes when it is answered and none before, and no       *)
(* counter of the limits exceeds its limit.                                 *)
(***************************************************************************)
THEOREM VerdictsAreEarned == GatewaySpec => []VerdictIsEarned
<1>1. GatewayInit => DoorsInv /\ ProbesInv
  <2> SUFFICES ASSUME GatewayInit PROVE DoorsInv /\ ProbesInv
    OBVIOUS
  <2>1. ProbesInv
    BY ProbesInit DEF GatewayInit
  <2>2. LimitsKept
    BY NoCallsCounted DEF GatewayInit
  <2>3. reply = [c \in Calls |-> 0] /\ door = [c \in Calls |-> "sent"]
    BY DEF GatewayInit
  <2> QED
    BY <2>1, <2>2, <2>3 DEF DoorsInv, Codes
<1>2. GatewaySpec => []TypeOK
  BY GatewayImplementsSubmission, SubmissionTypeCorrect, PTL
<1>3. TypeOK /\ CounterInv /\ DoorsInv /\ ProbesInv => VerdictIsEarned
  BY DEF CounterInv, DoorTypeOK, Door, DoorsInv, LimitsKept, Codes, ProbesInv,
         GatewayTypeOK, VerdictIsEarned
<1> QED
  BY <1>1, <1>2, <1>3, CountersAreKept, GatewayStepsKeep, PTL DEF GatewaySpec

=============================================================================
