------------------------------ MODULE Gateway ------------------------------
(***************************************************************************)
(* The HTTP API: what a call meets before its handler, and what it is       *)
(* answered.                                                                *)
(*                                                                          *)
(* Starlette puts the middleware added last outermost, so a call goes       *)
(* through SlowAPIMiddleware, RequestLoggingMiddleware, AuthMiddleware and  *)
(* CORSMiddleware, in this order, to its route.  The first leaves the       *)
(* routes of this API alone, since each has a limit of its own or is        *)
(* exempt; the limit of a route is a decorator around its handler, behind   *)
(* the authentication.                                                      *)
(*                                                                          *)
(* Calls are submissions, reads of a job, preflights of a browser and polls *)
(* of /health, whose handlers are Submission, GetJob, CORSMiddleware and    *)
(* Health.  Init, Next, Spec and TypeOK are Submission's; the gateway's own *)
(* have its name.                                                           *)
(***************************************************************************)
EXTENDS Submission, Functions

CONSTANTS
    Polls, Threads, \* Health
    Reads, Preflights,
    Target,         \* the id a read asks for, a job or Malformed
    Malformed,      \* an id or a form field that does not parse
    Caller,         \* address and credentials of each call
    Limit,          \* calls per caller, path and minute of each limited endpoint
    Traffic,        \* bound: the sets of calls that are made together
    MaxWindows      \* bound: minutes that end

VARIABLES
    poll, probe, waiting, gauge,    \* Health
    made,       \* the calls that are made
    door,       \* where a call is on its way to the handler
    user,       \* the auth_context it got
    reply,      \* the status code of its answer, or 0
    used,       \* rate limit counters of the current window
    windows

healthVars == <<poll, probe, waiting, gauge>>
doorVars == <<made, door, user, reply, used, windows>>
gatewayVars == <<vars, healthVars, doorVars>>

Probes == INSTANCE Health

-----------------------------------------------------------------------------
Calls == Requests \union Reads \union Preflights \union Polls
Limited == Requests \union Reads

Endpoint(c) == IF c \in Requests THEN "extract" ELSE "jobs"

\* The path of a call: a read has the id in it, a submission has the form fields
\* elsewhere.
Path(c) == [endpoint |-> Endpoint(c), id |-> IF c \in Requests THEN None ELSE Target[c]]

\* What the middleware reads of the headers: an API key, a bearer token and
\* the user_id of its claims.
Credentials == [key: {"none", "wrong", "right"}, token: {"none", "invalid", "valid"},
                user_id: STRING]

ASSUME CallsAssumption ==
    /\ Requests \intersect (Reads \union Preflights \union Polls) = {}
    /\ Reads \intersect (Preflights \union Polls) = {}
    /\ Preflights \intersect Polls = {}
ASSUME ThreadsAssumption == Threads \in Nat \ {0}
ASSUME CallerAssumption ==
    \A c \in Calls : /\ Caller[c].address \in STRING
                     /\ Caller[c].credentials \in Credentials
                     /\ Caller[c].credentials.user_id # None
ASSUME LimitAssumption == Limit \in [{"extract", "jobs"} -> Nat]
ASSUME TrafficAssumption == \A calls \in Traffic : calls \subseteq Calls

Users == {"api"} \union {Caller[c].credentials.user_id : c \in Calls}

\* The user a call speaks for, or None: an API key that is right, else a token
\* that decodes and has a user_id, which may be empty.
Authenticated(credentials) ==
    IF credentials.key = "right" THEN "api"
    ELSE IF credentials.token = "valid" THEN credentials.user_id
    ELSE None

Buckets == (({"user"} \X Users) \union ({"ip"} \X {Caller[c].address : c \in Calls}))
               \X {Path(c) : c \in Limited}

GatewayInit ==
    /\ Init
    /\ Probes!Init
    /\ made \in Traffic
    /\ door = [c \in Calls |-> "sent"]
    /\ user = [c \in Calls |-> None]
    /\ reply = [c \in Calls |-> 0]
    /\ used = [b \in Buckets |-> {}]
    /\ windows = 0

Answer(c, code) ==
    /\ door' = [door EXCEPT ![c] = "answered"]
    /\ reply' = [reply EXCEPT ![c] = code]

Enter(c, there) ==
    /\ door' = [door EXCEPT ![c] = there]
    /\ UNCHANGED reply

-----------------------------------------------------------------------------
(* The way to the handler.                                                  *)

\* /health is exempt from both the authentication and the limits.
Exempt(c) == c \in Polls

Authenticate(c) ==
    /\ door[c] = "sent"
    /\ IF Exempt(c)
       THEN Enter(c, "admitted") /\ UNCHANGED user
       ELSE LET who == Authenticated(Caller[c].credentials) IN
            IF who = None
            THEN Answer(c, 401) /\ UNCHANGED user
            ELSE /\ Enter(c, IF c \in Limited THEN "routed" ELSE "admitted")
                 /\ user' = [user EXCEPT ![c] = who]
    /\ UNCHANGED <<vars, healthVars, used, windows, made>>

\* get_rate_limit_key: a user without a name is told by the address.
Key(name, address) ==
    IF name \in {None, ""} THEN <<"ip", address>> ELSE <<"user", name>>

\* Slip: callers are told apart by their address.
BucketByAddress(c) == <<Key(None, Caller[c].address), Path(c)>>

\* slowapi counts by key and, unless its Limiter is told otherwise, by path.
Bucket(c) == <<Key(user[c], Caller[c].address), Path(c)>>

\* The decorator: a counter of the shared store is incremented and compared.
CheckLimit(c) ==
    /\ door[c] = "routed"
    /\ IF Cardinality(used[Bucket(c)]) < Limit[Endpoint(c)]
       THEN /\ Enter(c, "admitted")
            /\ used' = [used EXCEPT ![Bucket(c)] = @ \union {c}]
       ELSE Answer(c, 429) /\ UNCHANGED used
    /\ UNCHANGED <<vars, healthVars, user, windows, made>>

\* The store cannot be reached.
CheckFails(c) ==
    /\ door[c] = "routed"
    /\ Answer(c, 500)
    /\ UNCHANGED <<vars, healthVars, user, used, windows, made>>

WindowEnds ==
    /\ windows < MaxWindows
    /\ windows' = windows + 1
    /\ used' = [b \in Buckets |-> {}]
    /\ UNCHANGED <<vars, healthVars, door, user, reply, made>>

-----------------------------------------------------------------------------
(* The handlers.                                                            *)

\* The handler's own parsing, which comes after the call was counted.
RefuseMalformed(c) ==
    /\ door[c] = "admitted"
    /\ c \in Limited /\ Target[c] = Malformed
    /\ Answer(c, 400)
    /\ UNCHANGED <<vars, healthVars, user, used, windows, made>>

\* What the outcome of submit_batch is translated to; a process that died
\* answers nothing.
Translated(outcome) ==
    IF outcome = "accepted" THEN {202}
    ELSE IF outcome = "refused" THEN {400, 413}
    ELSE IF outcome = "failed" THEN {500} ELSE {}

Respond(p) ==
    IF Translated(step'[p]) # {}
    THEN \E code \in Translated(step'[p]) : Answer(p, code)
    ELSE UNCHANGED <<door, reply>>

\* Slip: the service is at work before the limit was checked.
SubmitUncounted(p) ==
    /\ door[p] \in {"routed", "admitted"}
    /\ Target[p] # Malformed
    /\ SubmitStep(p)
    /\ IF door[p] = "admitted" THEN Respond(p) ELSE UNCHANGED <<door, reply>>
    /\ UNCHANGED <<healthVars, user, used, windows, made>>

Submit(p) ==
    /\ door[p] = "admitted"
    /\ Target[p] # Malformed
    /\ SubmitStep(p)
    /\ Respond(p)
    /\ UNCHANGED <<healthVars, user, used, windows, made>>

SubmitDies(p) ==
    /\ door[p] = "admitted"
    /\ ApiCrash(p)
    /\ UNCHANGED <<healthVars, doorVars>>

GetJob(c) ==
    /\ door[c] = "admitted"
    /\ c \in Reads /\ Target[c] # Malformed
    /\ Answer(c, IF rows[Target[c]].status = Absent THEN 404 ELSE 200)
    /\ UNCHANGED <<vars, healthVars, user, used, windows, made>>

AnswerPreflight(c) ==
    /\ door[c] = "admitted"
    /\ c \in Preflights
    /\ Answer(c, 200)
    /\ UNCHANGED <<vars, healthVars, user, used, windows, made>>

HealthCheck(h) ==
    /\ door[h] = "admitted"
    /\ \/ Probes!Ask(h) /\ UNCHANGED <<door, reply>>
       \/ Probes!PollStep(h) /\ IF poll'[h].at # "answered"
                                THEN UNCHANGED <<door, reply>>
                                ELSE Answer(h, IF poll'[h].verdict = "unhealthy"
                                               THEN 503 ELSE 200)
    /\ UNCHANGED <<vars, user, used, windows, made>>

Executor == Probes!ThreadStep /\ UNCHANGED <<vars, doorVars>>

CallStep(c) ==
    \/ Authenticate(c) \/ CheckLimit(c) \/ CheckFails(c) \/ RefuseMalformed(c)
    \/ c \in Requests /\ Submit(c)
    \/ GetJob(c) \/ AnswerPreflight(c)
    \/ c \in Polls /\ HealthCheck(c)

GatewayNext ==
    \/ \E c \in made : CallStep(c)
    \/ \E p \in Requests \intersect made : SubmitDies(p)
    \/ Executor
    \/ WindowEnds

GatewaySpec == GatewayInit /\ [][GatewayNext]_gatewayVars

\* A process that lives goes on with its calls; threads may hang.
GatewayFairSpec == GatewaySpec /\ \A c \in Calls : WF_gatewayVars(c \in made /\ CallStep(c))

-----------------------------------------------------------------------------
(* Properties.                                                              *)

GatewayTypeOK ==
    /\ TypeOK /\ Probes!TypeOK
    /\ made \subseteq Calls
    /\ door \in [Calls -> {"sent", "routed", "admitted", "answered"}]
    /\ user \in [Calls -> Users \union {None}]
    /\ reply \in [Calls -> {0, 200, 202, 400, 401, 404, 413, 429, 500, 503}]
    /\ \A c \in Calls : (door[c] = "answered") = (reply[c] # 0)
    /\ \A b \in Buckets : Cardinality(used[b]) <= Limit[b[2].endpoint]

(***************************************************************************)
(* Health's claim about its answers, behind the way to it, and all          *)
(* variables of the API keep their types.                                   *)
(***************************************************************************)
VerdictIsEarned == GatewayTypeOK /\ Probes!VerdictIsEarned

(***************************************************************************)
(* A client error leaves nothing: a submission answered with any 4xx, by    *)
(* the middleware, the limit or the handler, has no row, file, message or   *)
(* summary, although other submissions are in progress.                     *)
(***************************************************************************)
RefusedLeaveNothing ==
    \A p \in Requests : reply[p] \in 400..499 =>
        \A j \in Uploads(p) :
            /\ rows[j].status = Absent /\ j \notin disk
            /\ ready[[job |-> j, retries |-> 0]] = 0
            /\ summary[j] = NoSummary

(***************************************************************************)
(* A call is turned away only for calls of its own caller to its own path,  *)
(* say for the same job: a 429 follows as many admitted ones in the window  *)
(* as the limit grants.  Neither another user behind the same address, nor  *)
(* a call that was not authenticated, uses any of it up; only users whose   *)
(* user_id is empty share what one address has.                             *)
(***************************************************************************)
SameCaller(c, d) ==
    user[d] = user[c] /\ (user[c] = "" => Caller[d].address = Caller[c].address)

LimitsArePerUser ==
    [][\A c \in Limited : reply[c] = 0 /\ reply'[c] = 429 =>
          Cardinality({d \in Limited : d \in UNION Range(used) /\ SameCaller(c, d)
                                       /\ Path(d) = Path(c)})
              >= Limit[Endpoint(c)]]_gatewayVars

(***************************************************************************)
(* Every call is answered unless the process that serves it dies, also a    *)
(* poll of /health whose probes hang for ever.                              *)
(***************************************************************************)
EveryCallIsAnswered ==
    \A c \in Calls : <>(c \notin made \/ reply[c] # 0 \/ (c \in Requests /\ step[c] = "crashed"))

(***************************************************************************)
(* create_app: AuthMiddleware "Must be registered AFTER CORS so that        *)
(* pre-flight OPTIONS requests are handled by CORSMiddleware before         *)
(* AuthMiddleware sees them".                                               *)
(***************************************************************************)
PreflightIsHandledByCORS ==
    \A c \in Preflights : reply[c] \in {0, 200}

=============================================================================
