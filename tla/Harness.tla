------------------------------ MODULE Harness ------------------------------
(***************************************************************************)
(* The two scripts an operator runs against the pipeline, each in a process *)
(* of its own:                                                              *)
(*                                                                          *)
(*   bench            scripts/bench.py: the corpus, some documents at a     *)
(*                    time, for a number of iterations; latency figures.    *)
(*   regression_check scripts/regression_check.py: the corpus under a       *)
(*                    baseline text model, then under each candidate of a   *)
(*                    ladder until one answers like the baseline.           *)
(*                                                                          *)
(* regression_check takes its corpus from bench.  It chooses the model      *)
(* through an environment variable that the settings read once and cache,   *)
(* so what a run measures depends on when the cache was filled.             *)
(***************************************************************************)
EXTENDS Integers, Sequences, FiniteSets, FiniteSetsExt, SequencesExt

CONSTANTS
    Suffix,         \* [files of the corpus directory -> their suffix]
    Concurrency, Iterations, Warmup, Latencies,         \* bench
    DefaultModel, Baseline, Candidates,                 \* regression_check
    Tolerance,      \* in percent
    Fields, Words,  \* the compared fields; what a field may say, normalised
    Ratio,          \* SequenceMatcher.ratio of two non-empty words, in percent
    NoValue         \* None: an unset variable, an empty cache, an empty field

Files == DOMAIN Suffix      \* numbered in the order of their names
Models == {DefaultModel, Baseline} \union {Candidates[i] : i \in DOMAIN Candidates}

ASSUME FilesAreNumbers == Files \subseteq Nat /\ IsFiniteSet(Files)
ASSUME BenchArguments ==
    Concurrency \in Nat \ {0} /\ Iterations \in Nat \ {0} /\ Warmup \in Nat
    /\ Latencies \subseteq Nat
ASSUME LadderArguments ==
    /\ Tolerance \in 0..100
    /\ Candidates \in Seq(Models) /\ Len(Candidates) > 0
    /\ IsFiniteSet(Fields)
ASSUME RatioIsShare ==
    /\ Ratio \in [Words \X Words -> 0..100]
    /\ \A w \in Words : Ratio[<<w, w>>] = 100
    /\ NoValue \notin Words \union Models

VARIABLES
    script,     \* the program of this process
    pc,
    corpus,     \* the documents, in order
    \* bench
    round,      \* 0 is the warm-up
    start,      \* documents of this round in earlier slices
    running,    \* positions of the slice whose coroutine has not returned
    heard,      \* [position -> record] of the others
    records,
    \* regression_check
    env,        \* OLLAMA_TEXT_MODEL
    previous,   \* what run_with_model found there
    cached,     \* the text model in the cached Settings
    wired,      \* the text model the orchestrator was built with
    turn,       \* 0 is the baseline, i the i-th candidate
    outputs,    \* documents of this run, so far
    reference,  \* outputs of the baseline
    reports,
    winner,
    found       \* what the variable was before the script ran

benchVars == <<round, start, running, heard, records>>
ladderVars == <<env, previous, cached, wired, turn, outputs, reference,
                reports, winner>>
vars == <<script, pc, corpus, benchVars, ladderVars, found>>

(***************************************************************************)
(* discover_corpus.  A directory is searched for *.pdf, which the file      *)
(* system compares with case; a single file is asked for its suffix without.*)
(***************************************************************************)
\* sorted() of the values of a function: fewer than k of them are below the k-th,
\* and at least k are not above it.
Ascending(values) ==
    LET D == DOMAIN values IN
    [k \in 1..Cardinality(D) |->
        CHOOSE v \in {values[i] : i \in D} :
            /\ Cardinality({i \in D : values[i] < v}) < k
            /\ Cardinality({i \in D : values[i] <= v}) >= k]

Sorted(S) == Ascending([f \in S |-> f])

Discovered ==
    {Sorted({f \in Files : Suffix[f] = ".pdf"})}                       \* a directory
    \union {<<f>> : f \in {g \in Files : Suffix[g] \in {".pdf", ".PDF"}}}   \* a file
    \union {<<>>}                                                    \* anything else

Init ==
    /\ script \in {"bench", "regression_check"}
    /\ pc = "start"
    /\ corpus \in Discovered
    /\ round = 0 /\ start = 0 /\ running = {} /\ heard = <<>> /\ records = <<>>
    /\ env \in Models \union {NoValue}
    /\ cached \in {NoValue, IF env = NoValue THEN DefaultModel ELSE env}
    /\ found = env
    /\ previous = NoValue /\ wired = NoValue
    /\ turn = 0 /\ outputs = <<>> /\ reference = <<>> /\ reports = <<>>
    /\ winner = NoValue

\* No corpus: exit code 2.
NothingToDo ==
    /\ pc = "start" /\ corpus = <<>>
    /\ pc' = "usage"
    /\ UNCHANGED <<script, corpus, benchVars, ladderVars, found>>

-----------------------------------------------------------------------------
(* bench *)

\* The documents of a round: warm-up goes round the corpus as often as asked.
Batch(r) ==
    IF r = 0 THEN [i \in 1..Warmup |-> corpus[((i - 1) % Len(corpus)) + 1]]
             ELSE corpus

Slice(first) == {i \in DOMAIN Batch(round) : i > first /\ i <= first + Concurrency}

\* Slip: results in the order in which the documents finished.
InFinishingOrder(positions, results) ==
    LET s == SetToSortSeq(positions, LAMBDA a, b :
                 \/ results[a].seconds < results[b].seconds
                 \/ results[a].seconds = results[b].seconds /\ a < b)
    IN  [i \in DOMAIN s |-> results[s[i]]]

\* gather returns the results in the order in which it was given the slice.
InOrder(positions, results) ==
    [k \in 1..Cardinality(positions) |-> results[start + k]]

\* asyncio.gather over the next slice.
StartSlice ==
    /\ script = "bench" /\ pc = "start" /\ corpus # <<>>
    /\ start < Len(Batch(round))
    /\ running' = Slice(start)
    /\ heard' = <<>>
    /\ pc' = "gather"
    /\ UNCHANGED <<script, corpus, round, start, records, ladderVars, found>>

\* A run of the pipeline returns or raises; both make a record.
Finish(i) ==
    /\ pc = "gather" /\ i \in running
    /\ \E ok \in BOOLEAN, seconds \in Latencies :
          heard' = [k \in DOMAIN heard \union {i} |->
                       IF k = i THEN [path |-> Batch(round)[i], iteration |-> round,
                                      ok |-> ok, seconds |-> seconds]
                                ELSE heard[k]]
    /\ running' = running \ {i}
    /\ UNCHANGED <<script, pc, corpus, round, start, records, ladderVars, found>>

\* The last coroutine has returned: _run_batch takes the results in.  What the
\* warm-up returns is dropped.
EndSlice ==
    /\ pc = "gather" /\ running = {}
    /\ records' = IF round = 0 THEN records
                               ELSE records \o InOrder(DOMAIN heard, heard)
    /\ heard' = <<>>
    /\ start' = start + Concurrency
    /\ pc' = "start"
    /\ UNCHANGED <<script, corpus, round, running, ladderVars, found>>

\* The batch is through: the next iteration, or the report.
EndRound ==
    /\ script = "bench" /\ pc = "start" /\ corpus # <<>>
    /\ start >= Len(Batch(round))
    /\ round' = IF round < Iterations THEN round + 1 ELSE round
    /\ start' = 0
    /\ pc' = IF round < Iterations THEN "start" ELSE "done"
    /\ UNCHANGED <<script, corpus, running, heard, records, ladderVars, found>>

Successes == {i \in DOMAIN records : records[i].ok}
SortedLatencies == Ascending([i \in Successes |-> records[i].seconds])

\* _percentile: nearest rank, q in percent.
Percentile(sorted, q) ==
    LET n == Len(sorted)
        rank == (q * n + 99) \div 100
    IN  IF n = 0 THEN 0 ELSE sorted[1 + Max({0, Min({n - 1, rank - 1})})]

-----------------------------------------------------------------------------
(* regression_check *)

Model(t) == IF t = 0 THEN Baseline ELSE Candidates[t]

\* A value a run of the pipeline may leave in the fields; a failed run leaves none.
Answers == [Fields -> Words \union {NoValue}]
Silence == [f \in Fields |-> NoValue]
Outputs == [ok : {TRUE}, fields : Answers] \union {[ok |-> FALSE, fields |-> Silence]}

\* Slip: the cached Settings stay.
SetModelOnly ==
    /\ script = "regression_check" /\ pc = "start" /\ corpus # <<>>
    /\ previous' = env
    /\ env' = Model(turn)
    /\ outputs' = <<>>
    /\ pc' = "build"
    /\ UNCHANGED <<script, corpus, benchVars, cached, wired, turn, reference,
                   reports, winner, found>>

\* run_with_model sets the variable and empties the cache of the settings.
SetModel ==
    /\ script = "regression_check" /\ pc = "start" /\ corpus # <<>>
    /\ previous' = env
    /\ env' = Model(turn)
    /\ cached' = NoValue
    /\ outputs' = <<>>
    /\ pc' = "build"
    /\ UNCHANGED <<script, corpus, benchVars, wired, turn, reference, reports,
                   winner, found>>

\* build_orchestrator reads the settings, from the cache if it is filled.
BuildOrchestrator ==
    /\ pc = "build"
    /\ cached' = IF cached = NoValue THEN env ELSE cached
    /\ wired' = cached'
    /\ pc' = "documents"
    /\ UNCHANGED <<script, corpus, benchVars, env, previous, turn, outputs,
                   reference, reports, winner, found>>

\* It raises: no document is run, and run_with_model cleans up and raises too.
BuildFails ==
    /\ pc = "build"
    /\ wired' = NoValue
    /\ pc' = "raising"
    /\ UNCHANGED <<script, corpus, benchVars, env, previous, cached, turn,
                   outputs, reference, reports, winner, found>>

\* _run_single_doc, one document after the other.
RunDocument ==
    /\ pc = "documents" /\ Len(outputs) < Len(corpus)
    /\ \E o \in Outputs : outputs' = Append(outputs, o)
    /\ UNCHANGED <<script, pc, corpus, benchVars, env, previous, cached, wired,
                   turn, reference, reports, winner, found>>

\* run_with_model is left: every document was run, or building raised.
Leaving ==
    \/ pc = "documents" /\ Len(outputs) = Len(corpus)
    \/ pc = "raising"

\* The finally block: the variable is as before and the cache is empty.
Restore ==
    /\ Leaving
    /\ env' = previous
    /\ cached' = NoValue
    /\ reference' = IF turn = 0 THEN outputs ELSE reference
    /\ turn' = IF turn = 0 /\ wired # NoValue THEN 1 ELSE turn
    /\ pc' = IF wired = NoValue THEN "raised"
             ELSE IF turn = 0 THEN "start" ELSE "judge"
    /\ wired' = NoValue
    /\ UNCHANGED <<script, corpus, benchVars, previous, outputs, reports,
                   winner, found>>

\* Slip: a candidate that says nothing has not contradicted the baseline.
FieldSimilarityLenient(a, b) ==
    IF b = NoValue THEN 100
    ELSE IF a = NoValue THEN 0
    ELSE Ratio[<<a, b>>]

\* field_similarity, in percent: two empty values agree.
FieldSimilarity(a, b) ==
    IF a = NoValue /\ b = NoValue THEN 100
    ELSE IF a = NoValue \/ b = NoValue THEN 0
    ELSE Ratio[<<a, b>>]

\* Field f of document i, in the two runs that are compared.
Similarity(i, f) == FieldSimilarity(reference[i].fields[f], outputs[i].fields[f])

\* The percent points of similarity, a set so that their number is the sum:
\* document_score is the share of them a document has.
Points(compared) ==
    {x \in (compared \X Fields) \X (1..100) : x[2] <= Similarity(x[1][1], x[1][2])}

\* compare_runs: a document the baseline failed on is left out.
Compared == {i \in DOMAIN reference : reference[i].ok}

\* corpus_mean_similarity >= tolerance, over the points of n documents; the mean
\* of no document is 0.
Passes(total, n) ==
    IF n = 0 THEN Tolerance = 0 ELSE total >= Tolerance * n * Cardinality(Fields)

(***************************************************************************)
(* One report.  `lost` is for the properties: the fields the baseline found *)
(* and the candidate did not.                                               *)
(***************************************************************************)
Report(compared) ==
    LET total == Cardinality(Points(compared))
    IN  [passed |-> Passes(total, Cardinality(compared)),
         lost   |-> Cardinality({c \in Compared \X Fields :
                                    /\ reference[c[1]].fields[c[2]] # NoValue
                                    /\ outputs[c[1]].fields[c[2]] = NoValue})]

\* The first candidate to pass ends the ladder.
Judge ==
    /\ pc = "judge"
    /\ reports' = Append(reports, Report(Compared))
    /\ winner' = IF Report(Compared).passed THEN Candidates[turn] ELSE NoValue
    /\ outputs' = <<>>
    /\ IF winner' # NoValue \/ turn = Len(Candidates)
       THEN pc' = "done" /\ turn' = turn
       ELSE pc' = "start" /\ turn' = turn + 1
    /\ UNCHANGED <<script, corpus, benchVars, env, previous, cached, wired,
                   reference, found>>

Next ==
    \/ NothingToDo
    \/ StartSlice \/ EndSlice \/ EndRound
    \/ \E i \in running : Finish(i)
    \/ SetModel \/ BuildOrchestrator \/ BuildFails
    \/ RunDocument \/ Restore \/ Judge

Spec == Init /\ [][Next]_vars

-----------------------------------------------------------------------------
(* Properties.                                                              *)

Rounds == 0..Iterations

TypeOK ==
    /\ script \in {"bench", "regression_check"}
    /\ pc \in {"start", "usage", "gather", "build", "documents", "raising",
               "judge", "raised", "done"}
    /\ \A i \in DOMAIN corpus : corpus[i] \in Files
    /\ round \in Rounds /\ start \in Nat
    /\ running \subseteq Nat
    /\ env \in Models \union {NoValue} /\ cached \in Models \union {NoValue}
    /\ turn \in 0..Len(Candidates)
    /\ \A i \in DOMAIN outputs : outputs[i] \in Outputs
    /\ winner \in Models \union {NoValue}

(***************************************************************************)
(* The report of a benchmark is true.  Its records are the corpus, in       *)
(* order, once per iteration, in whatever order the concurrent runs end:    *)
(* row i is about the document it names, and no warm-up run is among them.  *)
(* Of the runs that succeeded q percent took at most the q-th percentile    *)
(* and fewer than q percent took less, for the three that are shown.        *)
(***************************************************************************)
ReportIsTrue ==
    /\ \A r \in 1..Iterations, k \in DOMAIN corpus :
          LET i == (r - 1) * Len(corpus) + k IN
          i \in DOMAIN records => records[i].path = corpus[k] /\ records[i].iteration = r
    /\ script = "bench" /\ pc = "done" =>
          /\ Len(records) = Iterations * Len(corpus)
          /\ Successes # {} => \A q \in {50, 95, 99} :
                LET v == Percentile(SortedLatencies, q)
                    Below == {i \in Successes : records[i].seconds < v}
                    UpTo == {i \in Successes : records[i].seconds <= v}
                IN  /\ 100 * Cardinality(UpTo) >= q * Cardinality(Successes)
                    /\ 100 * Cardinality(Below) < q * Cardinality(Successes)

(***************************************************************************)
(* Runs with different models do not disturb each other or the process they *)
(* run in.  Every document of a run goes through an orchestrator wired with *)
(* the model the run is about, whatever the environment said before,        *)
(* whoever filled the cache, and whichever run raised earlier; and after a  *)
(* run, also one that raised, the variable has its old value and no cached  *)
(* Settings name a candidate.                                               *)
(***************************************************************************)
RunsAreSeparate ==
    /\ TypeOK
    /\ pc = "documents" => wired = Model(turn)
    /\ script = "regression_check" /\ pc \in {"done", "raised", "judge"} =>
          env = found /\ cached \in {NoValue, IF found = NoValue THEN DefaultModel
                                                                  ELSE found}

(***************************************************************************)
(* What the script is for.  The candidate it recommends is the first of the *)
(* ladder to pass, and comes back empty where the baseline had found        *)
(* something in at most the share of the compared fields that the tolerance *)
(* leaves; without one all candidates were tried and none passed.           *)
(***************************************************************************)
WinnerIsEarned ==
    /\ \A i \in DOMAIN reports : i < Len(reports) => ~reports[i].passed
    /\ script = "regression_check" /\ pc = "done" =>
          IF winner = NoValue
          THEN Len(reports) = Len(Candidates) /\ ~reports[Len(reports)].passed
          ELSE /\ reports[Len(reports)].passed
               /\ winner = Candidates[Len(reports)]
               /\ 100 * reports[Len(reports)].lost <=
                     (100 - Tolerance) * Cardinality(Compared) * Cardinality(Fields)

=============================================================================
