------------------------------ MODULE Clients ------------------------------
(***************************************************************************)
(* The outbound clients of one worker process: OllamaClient (the vision and *)
(* the text model), CallbackHttpClient, ElasticsearchSearchIndexer and      *)
(* ChromaDBMetadataWriter, and their no-op versions.                        *)
(*                                                                          *)
(* A call is a loop of attempts.  An attempt is sent, the other side        *)
(* handles it or not, and its answer is heard, lost, or overtaken by the    *)
(* client's timeout, after which the request may still be handled.  What    *)
(* each client retries, how long it waits, what it counts and what it tells *)
(* its caller differ; the differences are the four `Hear` operators.        *)
(***************************************************************************)
EXTENDS Naturals, Sequences, FiniteSets

CONSTANTS
    Calls, Mixes,       \* the clients that may be called together
    OllamaAttempts,     \* OLLAMA_RETRY_MAX_ATTEMPTS
    WebhookAttempts,    \* max_retries of the callback client
    PoolSize            \* OLLAMA_HTTP_POOL_MAX_CONNECTIONS

ASSUME MixesAssumption == Mixes \subseteq [Calls -> {"vision", "text", "notify", "index", "publish"}]
ASSUME CallsAssumption == IsFiniteSet(Calls)
ASSUME ClientsAssumption ==
    OllamaAttempts \in Nat /\ WebhookAttempts \in Nat /\ PoolSize \in Nat \ {0}

VARIABLES
    kind,       \* the client and model each call is for
    wired,      \* the optional services the settings wire up
    built,      \* whether build_orchestrator has returned
    pc,
    heard,      \* how each attempt of a call ended, in order
    copies,     \* how often the other side has handled a call
    late,       \* attempts given up on whose request is still on its way
    waited,     \* the time spent in backoff, in units of the first wait
    verdict,    \* what the call told its caller
    metric      \* ollama_requests, by model and status

vars == <<kind, wired, built, pc, heard, copies, late, waited, verdict, metric>>

Ollama == {"vision", "text"}
Kinds == Ollama \union {"notify", "index", "publish"}

\* 200 with a body the client can use, and with one it cannot; another 2xx;
\* 429; 503; another 5xx; a 4xx or 3xx; no connection; no answer in time;
\* an error that is not one of httpx's transport errors.
Answer == {"ok", "unusable", "accepted", "throttled", "unavailable", "broken",
           "refused", "unreachable", "timeout", "invalid"}
Transport == {"unreachable", "timeout"}

\* The answers an attempt may get, by whether its request has been handled.
\* The status of a response says nothing certain about that.
AnswersUnhandled == Answer \ {"ok", "unusable", "accepted"}
AnswersHandled == Answer \ {"throttled", "refused", "unreachable", "invalid"}

SwitchedOff(c) == kind[c] \in {"notify", "index"} \ wired

Attempts(c) ==
    IF kind[c] \in Ollama THEN OllamaAttempts
    ELSE IF SwitchedOff(c) THEN 0
    ELSE IF kind[c] = "notify" THEN WebhookAttempts ELSE 1

Init ==
    /\ kind \in Mixes
    /\ wired \in SUBSET {"notify", "index"}
    /\ built = "no"
    /\ pc = [c \in Calls |-> "idle"]
    /\ heard = [c \in Calls |-> <<>>]
    /\ copies = [c \in Calls |-> 0]
    /\ late = [c \in Calls |-> 0]
    /\ waited = [c \in Calls |-> 0]
    /\ verdict = [c \in Calls |-> "open"]
    /\ metric = [m \in Ollama |-> [success |-> 0, retry |-> 0, error |-> 0]]

-----------------------------------------------------------------------------
(* The end of an attempt. *)

Record(c, status) == metric' = [metric EXCEPT ![kind[c]][status] = @ + 1]

Return(c, answer) ==
    /\ verdict' = [verdict EXCEPT ![c] = answer]
    /\ pc' = [pc EXCEPT ![c] = "ended"]

Retry(c) ==
    /\ pc' = [pc EXCEPT ![c] = "backoff"]
    /\ UNCHANGED verdict

\* One attempt is left after n.
MoreAfter(c, n) == n < Attempts(c)

\* Slip: the errors of the last attempt are not counted.
HearOllamaUncounted(c, a, n) ==
    \/ /\ a \in {"ok", "unusable"}
       /\ Record(c, "success")
       /\ Return(c, IF a = "ok" THEN "done" ELSE "failed")
    \/ /\ a \in {"throttled", "unavailable"} \union Transport
       /\ IF MoreAfter(c, n)
          THEN Record(c, "retry") /\ Retry(c)
          ELSE Return(c, "failed") /\ UNCHANGED metric
    \/ /\ a \in {"accepted", "broken", "refused", "invalid"}
       /\ Return(c, "failed")
       /\ UNCHANGED metric

\* _post_generate: 429, 503 and transport errors are tried again; a 200 is
\* counted as a success before its body is looked at.
HearOllama(c, a, n) ==
    \/ /\ a \in {"ok", "unusable"}
       /\ Record(c, "success")
       /\ Return(c, IF a = "ok" THEN "done" ELSE "failed")
    \/ /\ a \in {"throttled", "unavailable"} \union Transport
       /\ IF MoreAfter(c, n)
          THEN Record(c, "retry") /\ Retry(c)
          ELSE Record(c, "error") /\ Return(c, "failed")
    \/ /\ a \in {"accepted", "broken", "refused"}
       /\ Record(c, "error") /\ Return(c, "failed")
    \/ /\ a = "invalid"
       /\ Return(c, "failed")
       /\ UNCHANGED metric

\* Slip: a receiver that does not answer in time is taken to have heard.
HearWebhookHopefully(c, a, n) ==
    \/ /\ a \in {"ok", "unusable", "accepted", "timeout"}
       /\ Return(c, "done")
    \/ /\ a \in {"unavailable", "broken", "unreachable"}
       /\ IF MoreAfter(c, n) THEN Retry(c) ELSE Return(c, "failed")
    \/ /\ a \in {"throttled", "refused", "invalid"}
       /\ Return(c, "failed")

\* Slip: every failure is tried again.
HearWebhookTryAll(c, a, n) ==
    \/ /\ a \in {"ok", "unusable", "accepted"}
       /\ Return(c, "done")
    \/ /\ a \notin {"ok", "unusable", "accepted"}
       /\ IF MoreAfter(c, n) THEN Retry(c) ELSE Return(c, "failed")

\* CallbackHttpClient.notify_completion: every 5xx and transport error is tried
\* again, 429 is not.
HearWebhook(c, a, n) ==
    \/ /\ a \in {"ok", "unusable", "accepted"}
       /\ Return(c, "done")
    \/ /\ a \in {"unavailable", "broken"} \union Transport
       /\ IF MoreAfter(c, n) THEN Retry(c) ELSE Return(c, "failed")
    \/ /\ a \in {"throttled", "refused", "invalid"}
       /\ Return(c, "failed")

\* ElasticsearchSearchIndexer.index_companion: one PUT.
HearIndexer(c, a) ==
    Return(c, IF a \in {"ok", "unusable", "accepted"} THEN "done" ELSE "failed")

\* ChromaDBMetadataWriter.write_metadata: one upsert in a thread, which raises
\* for everything but a response the library understands.
HearChroma(c, a) ==
    Return(c, IF a \in {"ok", "accepted"} THEN "done" ELSE "failed")

Hear(c, a) ==
    LET n == Len(heard[c]) + 1 IN
    /\ heard' = [heard EXCEPT ![c] = Append(@, a)]
    /\ \/ kind[c] \in Ollama /\ HearOllama(c, a, n)
       \/ kind[c] = "notify" /\ HearWebhook(c, a, n) /\ UNCHANGED metric
       \/ kind[c] = "index" /\ HearIndexer(c, a) /\ UNCHANGED metric
       \/ kind[c] = "publish" /\ HearChroma(c, a) /\ UNCHANGED metric

-----------------------------------------------------------------------------
\* build_orchestrator: the ChromaDB client connects in its constructor, and if
\* it cannot there is no orchestrator and no other client either.
Build ==
    /\ built = "no"
    /\ built' \in {"yes", "failed"}
    /\ UNCHANGED <<kind, wired, pc, heard, copies, late, waited, verdict, metric>>

\* Ollama's requests share one client and wait for a connection of its pool;
\* the others open a client of their own.
Attempt(c) == pc' = [pc EXCEPT ![c] = IF kind[c] \in Ollama THEN "pool" ELSE "sent"]

\* A call begins: a no-op client says yes, a loop of no attempts fails at once.
Start(c) ==
    /\ built = "yes" /\ pc[c] = "idle"
    /\ \/ /\ Attempts(c) > 0
          /\ Attempt(c)
          /\ UNCHANGED <<verdict, metric>>
       \/ /\ SwitchedOff(c)
          /\ Return(c, "done")
          /\ UNCHANGED metric
       \/ /\ Attempts(c) = 0 /\ ~SwitchedOff(c)
          /\ Return(c, "failed")
          /\ IF kind[c] \in Ollama THEN Record(c, "error") ELSE UNCHANGED metric
    /\ UNCHANGED <<kind, wired, built, heard, copies, late, waited>>

InPool == {c \in Calls : kind[c] \in Ollama /\ pc[c] \in {"sent", "handled"}}

Connect(c) ==
    /\ pc[c] = "pool" /\ Cardinality(InPool) < PoolSize
    /\ pc' = [pc EXCEPT ![c] = "sent"]
    /\ UNCHANGED <<kind, wired, built, heard, copies, late, waited, verdict, metric>>

\* Waiting for a connection has the same timeout as the request, and uses up an
\* attempt.
PoolTimeout(c) ==
    /\ pc[c] = "pool" /\ Cardinality(InPool) >= PoolSize
    /\ Hear(c, "unreachable")
    /\ UNCHANGED <<kind, wired, built, copies, late, waited>>

\* The other side handles the request.
Handle(c) ==
    /\ pc[c] = "sent"
    /\ pc' = [pc EXCEPT ![c] = "handled"]
    /\ copies' = [copies EXCEPT ![c] = @ + 1]
    /\ UNCHANGED <<kind, wired, built, heard, late, waited, verdict, metric>>

\* Slip: a client without a timeout.
HearAnswerUntimed(c) ==
    /\ pc[c] = "handled"
    /\ \E a \in AnswersHandled : Hear(c, a)
    /\ UNCHANGED <<kind, wired, built, copies, late, waited>>

\* The attempt is over for the client.  A request that timed out unhandled may
\* still arrive.
HearAnswer(c) ==
    /\ \/ /\ pc[c] = "sent"
          /\ \E a \in AnswersUnhandled :
                /\ Hear(c, a)
                /\ late' = IF a = "timeout" THEN [late EXCEPT ![c] = @ + 1] ELSE late
       \/ /\ pc[c] = "handled"
          /\ \E a \in AnswersHandled : Hear(c, a)
          /\ UNCHANGED late
    /\ UNCHANGED <<kind, wired, built, copies, waited>>

HandleLate(c) ==
    /\ late[c] > 0
    /\ late' = [late EXCEPT ![c] = @ - 1]
    /\ copies' = [copies EXCEPT ![c] = @ + 1]
    /\ UNCHANGED <<kind, wired, built, pc, heard, waited, verdict, metric>>

\* _backoff_delay and _compute_backoff: the first wait, then twice the last.  For
\* the models that is the default of OLLAMA_RETRY_BACKOFF_MULTIPLIER.
Backoff(failures) == 2^(failures - 1)

WakeUp(c) ==
    /\ pc[c] = "backoff"
    /\ waited' = [waited EXCEPT ![c] = @ + Backoff(Len(heard[c]))]
    /\ Attempt(c)
    /\ UNCHANGED <<kind, wired, built, heard, copies, late, verdict, metric>>

Proceed(c) ==
    Start(c) \/ Connect(c) \/ PoolTimeout(c) \/ HearAnswer(c) \/ WakeUp(c)

Next == Build \/ \E c \in Calls : Proceed(c) \/ Handle(c) \/ HandleLate(c)

Spec == Init /\ [][Next]_vars

\* A call that has begun goes on, and an attempt ends because its client has a
\* timeout.  The one of the ChromaDB library has none.
FairSpec ==
    /\ Spec
    /\ \A c \in Calls : WF_vars(kind[c] # "publish" /\ Proceed(c))

-----------------------------------------------------------------------------
(* Properties. *)

TypeOK ==
    /\ kind \in [Calls -> Kinds] /\ wired \subseteq {"notify", "index"}
    /\ built \in {"no", "yes", "failed"}
    /\ pc \in [Calls -> {"idle", "pool", "sent", "handled", "backoff", "ended"}]
    /\ heard \in [Calls -> Seq(Answer)]
    /\ copies \in [Calls -> Nat] /\ late \in [Calls -> Nat]
    /\ waited \in [Calls -> Nat]
    /\ verdict \in [Calls -> {"open", "done", "failed"}]
    /\ metric \in [Ollama -> [success: Nat, retry: Nat, error: Nat]]
    /\ Cardinality(InPool) <= PoolSize

(***************************************************************************)
(* Every client keeps the contract of Delivery: one that reports success    *)
(* was heard, and no call is handled more often than its client may try,    *)
(* the requests that arrive after their timeout included.                   *)
(***************************************************************************)
Contract == INSTANCE Delivery WITH limit <- [c \in Calls |-> Attempts(c)]
DeliversAtLeastOnce == Contract!Spec

(***************************************************************************)
(* A request that was refused is not sent again, a call that could not      *)
(* connect or was not answered in time does not fail while it has attempts  *)
(* left, and it does not sleep after its last one: with n attempts it has   *)
(* slept through the gaps between them, each twice the one before.  No more *)
(* calls are in flight than the pool of Ollama's client has connections.    *)
(***************************************************************************)
RefusalIsFinal == {"refused", "invalid"}
RetriesFollowPolicy ==
    /\ TypeOK
    /\ \A c \in Calls :
          LET n == Len(heard[c]) IN
          /\ \A i \in 1..(n - 1) : heard[c][i] \notin RefusalIsFinal
          /\ kind[c] \in {"index", "publish"} => n <= 1
          /\ verdict[c] = "failed" /\ n > 0 /\ heard[c][n] \in Transport
                => n = Attempts(c)
          /\ pc[c] = "ended" /\ n > 0 => waited[c] = 2^(n - 1) - 1

(***************************************************************************)
(* The counters an operator reads account for every call to a model that    *)
(* ended, once, and for every attempt that was repeated, however the calls  *)
(* interleave.  Only an error that httpx does not call a transport error    *)
(* escapes uncounted, and a success says that a 200 came, not that its body *)
(* could be used.                                                           *)
(***************************************************************************)
EndedBy(m, answers) ==
    {c \in Calls : kind[c] = m /\ pc[c] = "ended"
                   /\ heard[c] # <<>> /\ heard[c][Len(heard[c])] \in answers}

Unattempted(m) == {c \in Calls : kind[c] = m /\ pc[c] = "ended" /\ heard[c] = <<>>}

Repeated(m) ==
    {attempt \in Calls \X (1..OllamaAttempts) :
        LET c == attempt[1] i == attempt[2] IN
        /\ kind[c] = m /\ i <= Len(heard[c])
        /\ pc[c] = "ended" => i < Len(heard[c])}

MetricsAccount ==
    \A m \in Ollama :
        /\ metric[m].success = Cardinality(EndedBy(m, {"ok", "unusable"}))
        /\ metric[m].error = Cardinality(Unattempted(m)
              \union EndedBy(m, Answer \ {"ok", "unusable", "invalid"}))
        /\ metric[m].retry = Cardinality(Repeated(m))

(***************************************************************************)
(* A call that has begun ends, also when every connection is taken and no   *)
(* server answers: the pipeline behind it is never left waiting.            *)
(***************************************************************************)
EveryCallEnds ==
    \A c \in Calls :
        pc[c] # "idle" /\ kind[c] # "publish" ~> pc[c] = "ended"

=============================================================================
