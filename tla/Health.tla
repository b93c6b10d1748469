------------------------------- MODULE Health -------------------------------
(***************************************************************************)
(* GET /health.  A poll probes every dependency at once and gives each five *)
(* seconds.  Two of the probes block, the one of ChromaDB and the one of    *)
(* Celery, and run in threads of an executor that all polls of the process  *)
(* share.  A probe that is given up leaves the thread it has begun behind:  *)
(* whoever hangs keeps the thread, and later polls wait for one in vain.    *)
(***************************************************************************)
EXTENDS Naturals, Sequences, FiniteSets, SequencesExt

CONSTANTS
    Polls,
    Threads         \* bound: the threads of the executor

VARIABLES
    poll,       \* each poll, from its request to its answer
    probe,      \* the blocking probes of each poll
    waiting,    \* those that wait for a thread, first come first served
    gauge       \* zubot_queue_depth, 0 or what an inspection found

vars == <<poll, probe, waiting, gauge>>

-----------------------------------------------------------------------------
Blocking == {"chromadb", "celery"}
Async == {"postgres", "redis", "ollama", "elasticsearch"}
CRITICAL_DEPENDENCIES == {"postgres", "redis"}

\* A poll with the asynchronous probes that succeeded and its answer.
Unasked == [at |-> "idle", ok |-> {}, verdict |-> "none"]

\* "left" is a thread that runs on after its probe was given up.
ProbeState == {"idle", "waiting", "running", "healthy", "unhealthy", "left"}

Occupied == {p \in Polls \X Blocking : probe[p] \in {"running", "left"}}

Init ==
    /\ poll = [h \in Polls |-> Unasked]
    /\ probe = [p \in Polls \X Blocking |-> "idle"]
    /\ waiting = <<>>
    /\ gauge = "zero"

\* The probes are started in the order in which gather is given them.
Ask(h) ==
    /\ poll[h].at = "idle"
    /\ poll' = [poll EXCEPT ![h].at = "probing"]
    /\ probe' = [p \in Polls \X Blocking |-> IF p[1] = h THEN "waiting" ELSE probe[p]]
    /\ waiting' = waiting \o <<<<h, "chromadb">>, <<h, "celery">>>>
    /\ UNCHANGED gauge

TakeThread ==
    /\ waiting # <<>>
    /\ Cardinality(Occupied) < Threads
    /\ probe' = [probe EXCEPT ![Head(waiting)] = "running"]
    /\ waiting' = Tail(waiting)
    /\ UNCHANGED <<poll, gauge>>

\* A thread returns, if it ever does; nobody hears from one that was left.
Return(h, b) ==
    /\ probe[<<h, b>>] \in {"running", "left"}
    /\ \E answer \in IF probe[<<h, b>>] = "left" THEN {"unhealthy"}
                     ELSE {"healthy", "unhealthy"} :
          probe' = [probe EXCEPT ![<<h, b>>] = answer]
    /\ UNCHANGED <<poll, waiting, gauge>>

\* Slip: only the asynchronous probes are given up.
GiveUpNever(h, b) == FALSE /\ UNCHANGED vars

\* wait_for: one that has no thread yet is withdrawn, a running one is left.
GiveUp(h, b) ==
    /\ \/ /\ probe[<<h, b>>] = "waiting"
          /\ probe' = [probe EXCEPT ![<<h, b>>] = "unhealthy"]
          /\ \E i \in DOMAIN waiting :
                waiting[i] = <<h, b>> /\ waiting' = RemoveAt(waiting, i)
       \/ /\ probe[<<h, b>>] = "running"
          /\ probe' = [probe EXCEPT ![<<h, b>>] = "left"]
          /\ UNCHANGED waiting
    /\ UNCHANGED <<poll, gauge>>

\* Slip: a dependency without an answer does not count.
VerdictOnAnswers(ok, chroma) ==
    IF ~ CRITICAL_DEPENDENCIES \subseteq ok THEN "unhealthy"
    ELSE IF Async \subseteq ok /\ chroma # "unhealthy" THEN "healthy"
    ELSE "degraded"

\* _aggregate_status; Celery has no part in it.
Verdict(ok, chroma) ==
    IF ~ CRITICAL_DEPENDENCIES \subseteq ok THEN "unhealthy"
    ELSE IF Async \subseteq ok /\ chroma = "healthy" THEN "healthy"
    ELSE "degraded"

\* All probes are over: the answer, and the gauge by the way.
AnswerPoll(h) ==
    /\ poll[h].at = "probing"
    /\ \A b \in Blocking : probe[<<h, b>>] \in {"healthy", "unhealthy", "left"}
    /\ \E ok \in SUBSET Async :
          poll' = [poll EXCEPT ![h] = [at |-> "answered", ok |-> ok,
                                       verdict |-> Verdict(ok, probe[<<h, "chromadb">>])]]
    /\ gauge' = IF probe[<<h, "celery">>] = "healthy" THEN "depth" ELSE "zero"
    /\ UNCHANGED <<probe, waiting>>

PollStep(h) ==
    AnswerPoll(h) \/ \E b \in Blocking : GiveUp(h, b)

ThreadStep ==
    TakeThread \/ \E h \in Polls, b \in Blocking : Return(h, b)

-----------------------------------------------------------------------------
(* Properties.                                                              *)

TypeOK ==
    /\ poll \in [Polls -> [at: {"idle", "probing", "answered"}, ok: SUBSET Async,
                           verdict: {"none", "healthy", "degraded", "unhealthy"}]]
    /\ probe \in [Polls \X Blocking -> ProbeState]
    /\ waiting \in Seq(Polls \X Blocking)
    /\ gauge \in {"zero", "depth"}

(***************************************************************************)
(* 503 is given for a critical dependency and for nothing else, whatever    *)
(* hangs in the threads; and "healthy" only by a poll that itself heard     *)
(* from every dependency, ChromaDB's thread included.                       *)
(***************************************************************************)
VerdictIsEarned ==
    \A h \in Polls : poll[h].at = "answered" =>
        /\ (poll[h].verdict = "unhealthy") = ~ (CRITICAL_DEPENDENCIES \subseteq poll[h].ok)
        /\ poll[h].verdict = "healthy" =>
              Async \subseteq poll[h].ok /\ probe[<<h, "chromadb">>] = "healthy"

=============================================================================
