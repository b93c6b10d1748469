------------------------------ MODULE Ingestion ------------------------------
(***************************************************************************)
(* The service as a whole: the API that accepts batches (Submission), the   *)
(* Celery workers (ExtractionTask) and the review endpoints (ReviewDesk),   *)
(* which meet in the jobs table and in the broker.                          *)
(*                                                                          *)
(* A step of the service is a step of one component; the components share   *)
(* `rows` and `ready` and leave each other's private state alone.           *)
(***************************************************************************)
EXTENDS JobRecords, Sequences, FiniteSets

CONSTANTS
    Jobs, FileHash,
    Requests, Files, ValidFiles,
    Workers, MaxRetries, MaxFaults, Tiers, CallbackJobs, Configured,
    Followed, NoTask,
    Reviewers

\* What the components assume of their parameters.
ASSUME RetryAssumption == MaxRetries \in Nat
ASSUME FaultAssumption == MaxFaults \in Nat
ASSUME TierAssumption == Tiers \subseteq ConfidenceTier
ASSUME HashAssumption == FileHash \in [Jobs -> {FileHash[j] : j \in Jobs}]
ASSUME CallbackAssumption == CallbackJobs \subseteq Jobs
ASSUME ConfiguredAssumption == Configured \subseteq {"search_index", "callback"}
ASSUME FollowedAssumption == Followed \subseteq EffectStages
ASSUME ValidAssumption == ValidFiles \subseteq Jobs
ASSUME FilesAssumption ==
    /\ Files \in [Requests -> Seq(Jobs)]
    /\ \A p, q \in Requests : \A i \in DOMAIN Files[p], k \in DOMAIN Files[q] :
          Files[p][i] = Files[q][k] => p = q /\ i = k

VARIABLES
    rows, ready,                                    \* shared
    disk, step, turn, summary,                      \* Submission
    pc, task, unacked, tier, trace, loaded,         \* ExtractionTask
    chroma, es, hooks,
    faults, forked, replayed, abandoned,
    desk, subject, copy, picked                     \* ReviewDesk

Api == INSTANCE Submission WITH Earlier <- {}
Celery == INSTANCE ExtractionTask
Desk == INSTANCE ReviewDesk

apiVars == <<disk, step, turn, summary>>
celeryVars == <<pc, task, unacked, tier, trace, loaded, chroma, es, hooks,
                faults, forked, replayed, abandoned>>
deskVars == <<desk, subject, copy, picked>>
vars == <<rows, ready, apiVars, celeryVars, deskVars>>

\* An empty system: no rows, no messages, every process idle.
Init ==
    /\ rows = [j \in Jobs |-> NoRow]
    /\ ready = [m \in Celery!Messages |-> 0]
    /\ disk = {}
    /\ step = [p \in Requests |-> "received"]
    /\ turn = [p \in Requests |-> 1]
    /\ summary = [j \in Jobs |-> Api!NoSummary]
    /\ pc = [w \in Workers |-> "idle"]
    /\ task = [w \in Workers |-> NoTask]
    /\ unacked = [w \in Workers |-> FALSE]
    /\ tier = [w \in Workers |-> None]
    /\ trace = [w \in Workers |-> {}]
    /\ loaded = [w \in Workers |-> NoRow]
    /\ chroma = {} /\ es = {} /\ hooks = {}
    /\ faults = 0 /\ forked = {} /\ replayed = {} /\ abandoned = {}
    /\ desk = [r \in Reviewers |-> "free"]
    /\ subject = [r \in Reviewers |-> None]
    /\ copy = [r \in Reviewers |-> NoResult]
    /\ picked = [r \in Reviewers |-> NoRow]

ApiStep(p) == Api!SubmitStep(p) /\ UNCHANGED <<celeryVars, deskVars>>
ApiCrash(p) == Api!ApiCrash(p) /\ UNCHANGED <<celeryVars, deskVars>>

Pull(w) == Celery!Pull(w) /\ UNCHANGED <<apiVars, deskVars>>
RunStep(w) == Celery!RunStep(w) /\ UNCHANGED <<apiVars, deskVars>>
WorkerFault(w) ==
    (Celery!Crash(w) \/ Celery!Redeliver(w)) /\ UNCHANGED <<apiVars, deskVars>>

DeskStep(r) == Desk!DeskStep(r) /\ UNCHANGED <<ready, apiVars, celeryVars>>

Next ==
    \/ \E p \in Requests : ApiStep(p) \/ ApiCrash(p)
    \/ \E w \in Workers : Pull(w) \/ RunStep(w) \/ WorkerFault(w)
    \/ \E r \in Reviewers : DeskStep(r)

Spec == Init /\ [][Next]_vars

\* Processes go on with what they have begun.  Nothing makes a reviewer decide.
FairSpec ==
    /\ Spec
    /\ \A p \in Requests : WF_vars(ApiStep(p))
    /\ \A w \in Workers : WF_vars(Pull(w)) /\ WF_vars(RunStep(w))

-----------------------------------------------------------------------------
(* Properties.                                                              *)

Request(j) == CHOOSE p \in Requests : j \in Api!Uploads(p)

TypeOK ==
    /\ Celery!TypeOK
    /\ Desk!TypeOK
    /\ disk \subseteq Jobs
    /\ step \in [Requests -> Api!Step]
    /\ summary \in [Jobs -> Api!Summary]

(***************************************************************************)
(* A run of the task never meets a job it cannot work on: whatever sits in  *)
(* the broker or in a worker has a committed row and a file, although the   *)
(* API and the workers share no transaction; and the components, each of    *)
(* which writes to the same table, keep each other's variables well typed.  *)
(***************************************************************************)
WorkIsBacked ==
    /\ TypeOK
    /\ \A j \in Jobs :
          Celery!InQueue(j) \/ Celery!At(j, Celery!Running) =>
              rows[j].status # Absent /\ j \in disk

(***************************************************************************)
(* A cached answer is an extraction of the same content: its result is not  *)
(* empty, and the job it names still exists.                                *)
(***************************************************************************)
CachedAnswerIsReal ==
    \A j \in Jobs :
        summary[j].kind = "cached" =>
            LET k == summary[j].from IN
            /\ FileHash[k] = FileHash[j] /\ k # j
            /\ summary[j].result.tier # None
            /\ rows[k].status # Absent /\ rows[k].tier # None

(***************************************************************************)
(* A result that needs a human is not left published without one: a row     *)
(* that says COMPLETED with the review tier carries an approval, or a run   *)
(* or a message is about to change it, or the job is one of the abandoned,  *)
(* however the statements of the run and of reviewers fall.  It is said of  *)
(* jobs with one message; see ReviewIsNotLeftCompleted for the others.      *)
(***************************************************************************)
UnreviewedIsNotLeftCompleted ==
    \A j \in Jobs \ forked :
        rows[j].status = "completed" /\ rows[j].tier = "review" =>
            \/ rows[j].result.review = "approved"
            \/ Celery!InQueue(j) \/ Celery!At(j, Celery!Running)
            \/ j \in abandoned

(***************************************************************************)
(* Every job of an accepted batch is eventually settled for good, whatever  *)
(* reviewers do to it in the meantime, or abandoned.                        *)
(***************************************************************************)
AcceptedJobsSettle ==
    \A j \in Jobs :
        (step[Request(j)] = "accepted" /\ summary[j].kind = "queued")
            ~> [](rows[j].status \in Settled \/ j \in abandoned)

=============================================================================
