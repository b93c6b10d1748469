------------------------------ MODULE Pipeline ------------------------------
(***************************************************************************)
(* One call of ExtractionOrchestrator.run_pipeline: the PDF is loaded,      *)
(* stage 1 asks six sources at once through three extractors, stage 2       *)
(* describes pages, stage 3 builds the sidecar, the confidence decides the  *)
(* tier, and what the tier allows is published.  Any stage may fail; none   *)
(* of them ends the run.                                                    *)
(*                                                                          *)
(* The sources are coroutines of one event loop: a step lasts until the     *)
(* next await, which is the call to Ollama.  They share the                 *)
(* PipelineContext.  ExtractionTask takes all this, up to the tier, as one  *)
(* step that may end in any tier.                                           *)
(***************************************************************************)
EXTENDS Scoring

CONSTANTS
    Words,      \* what a source may find as drawing number or title
    Garbled,    \* an answer to the title prompt that is not a string
    Reported,   \* bound: the confidences the model reports
    Fallible    \* bound: the extractors and stages that may raise

\* DocumentType, and any other word.
Vocabulary == {"drawing"}
TypeWords == {"drawing", "banana"}

Stages == {"pdf_load", "stage1", "stage2", "companion_validation", "stage3",
           "confidence", "metadata_write", "search_index", "callback"}

\* "stage1.<extractor>" in the code.
Extractors == Fields

ASSUME WordAssumption == NoValue \notin Words /\ Garbled \notin Words
ASSUME GarbledAssumption == Garbled # NoValue
ASSUME TypeWordAssumption == NoValue \notin TypeWords
ASSUME ReportedAssumption == Reported \subseteq Coerced
ASSUME FallibleAssumption == Fallible \subseteq Stages \union Extractors

VARIABLES
    pc,         \* where the run is
    pdf,        \* context.pdf_data is there
    page,       \* context.rendered_pages has page 0
    text,       \* context.extracted_text: None, empty or not
    asked,      \* where each source is
    answer,     \* what each source has found
    fields,     \* extraction_result
    companion,  \* companion_result: none, not generated, generated
    footer,     \* the fields whose values its METADATA block names
    verdict,    \* validation_result
    sidecar,    \* the sidecar: built, or the empty one of a failure
    score,      \* assessment.overall_confidence
    tier,       \* assessment.tier
    published,  \* the sidecar ChromaDB holds for the document
    trace,      \* pipeline_trace["stages"]
    logged,     \* the stages named in pipeline_trace["errors"]
    errors,     \* errors of the PipelineResult
    metric      \* the label extraction_total was incremented with

\* History, read by no step.
VARIABLES
    renders,    \* successful renderings of page 0 in stage 1
    reads       \* calls of extract_text

contextVars == <<pdf, page, text, renders, reads>>
sourceVars == <<asked, answer>>
stage2Vars == <<companion, footer, verdict>>
reportVars == <<trace, logged, errors>>
outcomeVars == <<sidecar, score, tier, published, metric>>
vars == <<pc, contextVars, sourceVars, fields, stage2Vars, reportVars,
          outcomeVars>>

VisionSources == {"number_vision", "title_vision"}
TextSources == {"number_text", "title_text", "type_text"}
TitleSources == {"title_vision", "title_text"}
Sources == NumberSources \union TitleSources \union {"type_text"}

Answer(value, conf) == [value |-> value, conf |-> conf]
NoAnswer == Answer(NoValue, 0)

\* What a source may find.  The number extractor does not read the confidence.
Answers(s) ==
    {NoAnswer} \union
    IF s \in NumberSources
    THEN {Answer(x, 0) : x \in Words}
    ELSE IF s \in TitleSources
         THEN {Answer(x, c) : x \in Words, c \in Reported}
                 \union {Answer(Garbled, 0)}
         ELSE {Answer(x, c) : x \in TypeWords, c \in Reported}

Init ==
    /\ pc = "load"
    /\ pdf = FALSE /\ page = FALSE /\ text = "unread"
    /\ asked = [s \in Sources |-> "waiting"]
    /\ answer = [s \in Sources |-> NoAnswer]
    /\ fields = [f \in Fields |-> NoField]
    /\ companion = "none" /\ footer = {} /\ verdict = "none"
    /\ sidecar = "none" /\ score = 0 /\ tier = "review"
    /\ published = "none" /\ metric = "none"
    /\ trace = [s \in Stages |-> "absent"]
    /\ logged = {} /\ errors = {}
    /\ renders = 0 /\ reads = 0

-----------------------------------------------------------------------------
(* Reports.                                                                 *)

Succeed(stage) ==
    /\ trace' = [trace EXCEPT ![stage] = "ok"]
    /\ UNCHANGED <<logged, errors>>

Skip(stage) ==
    /\ trace' = [trace EXCEPT ![stage] = "skipped"]
    /\ UNCHANGED <<logged, errors>>

Fail(stage, recoverable) ==
    /\ trace' = [trace EXCEPT ![stage] = "failed"]
    /\ logged' = logged \union {stage}
    /\ errors' = errors \union {[stage |-> stage, recoverable |-> recoverable]}

\* The stages after stage 1 that leave no PipelineError.
FailInTraceOnly(stage) ==
    /\ trace' = [trace EXCEPT ![stage] = "failed"]
    /\ logged' = logged \union {stage}
    /\ UNCHANGED errors

Unrecoverable == \E e \in errors : ~e.recoverable

-----------------------------------------------------------------------------
(* Loading the PDF.                                                         *)

\* load may fail on a document the sources can still read: it takes every
\* page's text, and does not catch what extract_text catches.
LoadPdf ==
    /\ pc = "load"
    /\ \/ pdf' = TRUE /\ Succeed("pdf_load")
       \/ /\ "pdf_load" \in Fallible
          /\ pdf' = FALSE /\ Fail("pdf_load", FALSE)
    /\ pc' = "stage1"
    /\ UNCHANGED <<page, text, renders, reads, sourceVars, fields, stage2Vars,
                   outcomeVars>>

-----------------------------------------------------------------------------
(* Stage 1, up to the first await of a source and from there to its end.    *)

Ask(s) == asked' = [asked EXCEPT ![s] = "asked"] /\ UNCHANGED answer

Settle(s, a) ==
    /\ asked' = [asked EXCEPT ![s] = "answered"]
    /\ answer' = [answer EXCEPT ![s] = a]

\* Slip: the extractors do not look for a page another one has rendered.
AskVisionAfresh(s) ==
    /\ pc = "stage1" /\ asked[s] = "waiting"
    /\ \/ /\ page' = TRUE /\ renders' = renders + 1
          /\ Ask(s)
       \/ /\ Settle(s, NoAnswer)
          /\ UNCHANGED <<page, renders>>
    /\ UNCHANGED <<pc, pdf, text, reads, fields, stage2Vars, reportVars,
                   outcomeVars>>

\* _get_or_render_first_page: a rendering is kept, a failure is not.
AskVision(s) ==
    /\ pc = "stage1" /\ asked[s] = "waiting"
    /\ \/ /\ page
          /\ Ask(s)
          /\ UNCHANGED <<page, renders>>
       \/ /\ ~page
          /\ page' = TRUE /\ renders' = renders + 1
          /\ Ask(s)
       \/ /\ ~page
          /\ Settle(s, NoAnswer)
          /\ UNCHANGED <<page, renders>>
    /\ UNCHANGED <<pc, pdf, text, reads, fields, stage2Vars, reportVars,
                   outcomeVars>>

\* _get_or_extract_text: a failure is kept as the empty text, so that one
\* failure leaves every text source without an answer.
AskText(s) ==
    /\ pc = "stage1" /\ asked[s] = "waiting"
    /\ \/ /\ text = "unread"
          /\ text' \in {"empty", "read"} /\ reads' = reads + 1
       \/ /\ text # "unread"
          /\ UNCHANGED <<text, reads>>
    /\ IF text' = "read" THEN Ask(s) ELSE Settle(s, NoAnswer)
    /\ UNCHANGED <<pc, pdf, page, renders, fields, stage2Vars, reportVars,
                   outcomeVars>>

\* FilenameParser: no await.
ReadFilename ==
    /\ pc = "stage1" /\ asked["number_filename"] = "waiting"
    /\ \E a \in Answers("number_filename") : Settle("number_filename", a)
    /\ UNCHANGED <<pc, contextVars, fields, stage2Vars, reportVars, outcomeVars>>

\* Ollama's answer, as the parser reads it; no answer if the call raised.
Hear(s) ==
    /\ pc = "stage1" /\ asked[s] = "asked"
    /\ \E a \in Answers(s) : Settle(s, a)
    /\ UNCHANGED <<pc, contextVars, fields, stage2Vars, reportVars, outcomeVars>>

AllAnswered == \A s \in Sources : asked[s] = "answered"

\* A title that is no string raises, and takes the other source's with it.
TitleGarbled == \E s \in TitleSources : answer[s].value = Garbled

Fused(f) ==
    CASE f = "drawing_number" ->
            FuseNumber([s \in NumberSources |-> answer[s].value])
      [] f = "title" -> FuseTitle(answer["title_vision"], answer["title_text"])
      [] f = "document_type" -> TypeField(answer["type_text"], Vocabulary)

MayRaise == IF TitleGarbled THEN Fallible \union {"title"} ELSE Fallible

\* The extractors' coroutine locals are gone.
ForgetAnswers ==
    /\ asked' = asked
    /\ answer' = [s \in Sources |-> NoAnswer]

\* gather(return_exceptions=True) and the merge.  An extractor that raised
\* leaves its field empty.
Merge ==
    /\ pc = "stage1" /\ AllAnswered
    /\ \E raised \in SUBSET (Extractors \intersect MayRaise) :
          /\ TitleGarbled => "title" \in raised
          /\ fields' = [f \in Fields |->
                          IF f \in raised THEN NoField ELSE Fused(f)]
          /\ trace' = [trace EXCEPT !["stage1"] =
                          IF raised = {} THEN "ok" ELSE "failed"]
          /\ logged' = logged \union raised
          /\ errors' = errors \union
                          {[stage |-> f, recoverable |-> TRUE] : f \in raised}
    /\ ForgetAnswers
    /\ pc' = "stage2"
    /\ UNCHANGED <<contextVars, stage2Vars, outcomeVars>>

\* The last-resort handler around all of stage 1.
MergeFails ==
    /\ pc = "stage1" /\ AllAnswered
    /\ "stage1" \in Fallible
    /\ fields' = [f \in Fields |-> NoField]
    /\ Fail("stage1", FALSE)
    /\ ForgetAnswers
    /\ pc' = "stage2"
    /\ UNCHANGED <<contextVars, stage2Vars, outcomeVars>>

-----------------------------------------------------------------------------
(* Stage 2 and the check of what it wrote.                                  *)

Present(fs) == {f \in Fields : fs[f].present}

\* _assemble_companion_markdown writes all three values, "N/A" for None.
Footer(fs) == Present(fs)

GenerateCompanion ==
    /\ pc = "stage2"
    /\ \/ \* no page, a text-only document, no rendering, or no description
          /\ companion' = "empty" /\ UNCHANGED footer
          /\ Succeed("stage2")
       \/ /\ pdf
          /\ companion' = "described" /\ footer' = Footer(fields)
          /\ Succeed("stage2")
       \/ /\ pdf /\ "stage2" \in Fallible
          /\ companion' = "none" /\ UNCHANGED footer
          /\ Fail("stage2", TRUE)
    /\ pc' = "validate"
    /\ UNCHANGED <<contextVars, sourceVars, fields, verdict, outcomeVars>>

\* Rule 3 of the validator: a field of some confidence has a value, and the
\* companion names it.  Rules 1 and 2 are about texts shorter than the
\* headings of a generated companion.
Unreferenced ==
    {f \in Fields : fields[f].conf # 0 /\ ~(fields[f].present /\ f \in footer)}

ValidateCompanion ==
    /\ pc = "validate"
    /\ \/ /\ companion # "described"
          /\ UNCHANGED <<verdict, reportVars>>
       \/ /\ companion = "described"
          /\ verdict' = IF Unreferenced = {} THEN "passed" ELSE "failed"
          /\ Succeed("companion_validation")
       \/ /\ companion = "described" /\ "companion_validation" \in Fallible
          /\ FailInTraceOnly("companion_validation")
          /\ UNCHANGED verdict
    /\ pc' = "stage3"
    /\ UNCHANGED <<contextVars, sourceVars, fields, companion, footer,
                   outcomeVars>>

-----------------------------------------------------------------------------
(* Stage 3 and the confidence.                                              *)

\* Slip: the error of stage 3 is called recoverable.
BuildSidecarLeniently ==
    /\ pc = "stage3"
    /\ \/ sidecar' = "built" /\ Succeed("stage3")
       \/ /\ "stage3" \in Fallible
          /\ sidecar' = "empty" /\ Fail("stage3", TRUE)
    /\ pc' = "confidence"
    /\ UNCHANGED <<contextVars, sourceVars, fields, stage2Vars, score, tier,
                   published, metric>>

BuildSidecar ==
    /\ pc = "stage3"
    /\ \/ sidecar' = "built" /\ Succeed("stage3")
       \/ /\ "stage3" \in Fallible
          /\ sidecar' = "empty" /\ Fail("stage3", FALSE)
    /\ pc' = "confidence"
    /\ UNCHANGED <<contextVars, sourceVars, fields, stage2Vars, score, tier,
                   published, metric>>

Calculate ==
    /\ pc = "confidence"
    /\ \/ /\ score' = Overall(fields, verdict = "failed")
          /\ tier' \in TiersOf(score')
          /\ Succeed("confidence")
       \/ /\ "confidence" \in Fallible
          /\ score' = 0 /\ tier' = "review"
          /\ Fail("confidence", FALSE)
    /\ pc' = "publish"
    /\ UNCHANGED <<contextVars, sourceVars, fields, stage2Vars, sidecar,
                   published, metric>>

-----------------------------------------------------------------------------
(* What leaves the worker.                                                  *)

\* Slip: the boolean of write_metadata goes into the trace, and nowhere else.
WriteMetadataQuietly ==
    /\ pc = "publish"
    /\ \/ /\ tier = "review"
          /\ Skip("metadata_write") /\ UNCHANGED published
       \/ /\ tier # "review"
          /\ published' = sidecar /\ Succeed("metadata_write")
       \/ /\ tier # "review" /\ "metadata_write" \in Fallible
          /\ published' \in {"none", sidecar}
          /\ trace' = [trace EXCEPT !["metadata_write"] = "failed"]
          /\ UNCHANGED <<logged, errors>>
    /\ pc' = "index"
    /\ UNCHANGED <<contextVars, sourceVars, fields, stage2Vars, sidecar, score,
                   tier, metric>>

\* A write that reports failure may have been applied.
WriteMetadata ==
    /\ pc = "publish"
    /\ \/ /\ tier = "review"
          /\ Skip("metadata_write") /\ UNCHANGED published
       \/ /\ tier # "review"
          /\ published' = sidecar /\ Succeed("metadata_write")
       \/ /\ tier # "review" /\ "metadata_write" \in Fallible
          /\ published' \in {"none", sidecar} /\ Fail("metadata_write", TRUE)
    /\ pc' = "index"
    /\ UNCHANGED <<contextVars, sourceVars, fields, stage2Vars, sidecar, score,
                   tier, metric>>

IndexCompanion ==
    /\ pc = "index"
    /\ \/ companion # "described" /\ Skip("search_index")
       \/ companion = "described" /\ Succeed("search_index")
       \/ /\ companion = "described" /\ "search_index" \in Fallible
          /\ FailInTraceOnly("search_index")
    /\ pc' = "notify"
    /\ UNCHANGED <<contextVars, sourceVars, fields, stage2Vars, outcomeVars>>

NotifyCompletion ==
    /\ pc = "notify"
    /\ \/ Skip("callback") \/ Succeed("callback")
       \/ "callback" \in Fallible /\ FailInTraceOnly("callback")
    /\ pc' = "report"
    /\ UNCHANGED <<contextVars, sourceVars, fields, stage2Vars, outcomeVars>>

\* record_extraction_status, outside every handler and every span.
RecordStatus ==
    /\ pc = "report"
    /\ metric' = CASE Unrecoverable -> "failed"
                   [] ~Unrecoverable /\ tier = "review" -> "review"
                   [] OTHER -> "completed"
    /\ pc' = "done"
    /\ UNCHANGED <<contextVars, sourceVars, fields, stage2Vars, reportVars,
                   sidecar, score, tier, published>>

Next ==
    \/ LoadPdf
    \/ \E s \in VisionSources : AskVision(s)
    \/ \E s \in TextSources : AskText(s)
    \/ ReadFilename
    \/ \E s \in VisionSources \union TextSources : Hear(s)
    \/ Merge \/ MergeFails
    \/ GenerateCompanion \/ ValidateCompanion
    \/ BuildSidecar \/ Calculate
    \/ WriteMetadata \/ IndexCompanion \/ NotifyCompletion
    \/ RecordStatus

Spec == Init /\ [][Next]_vars

-----------------------------------------------------------------------------
Location == {"load", "stage1", "stage2", "validate", "stage3", "confidence",
             "publish", "index", "notify", "report", "done"}

Scored == {"publish", "index", "notify", "report", "done"}

Reportable == Stages \union Extractors

ContextTyped ==
    /\ pdf \in BOOLEAN /\ page \in BOOLEAN
    /\ text \in {"unread", "empty", "read"}
    /\ renders \in Nat /\ reads \in Nat

SourcesTyped ==
    /\ asked \in [Sources -> {"waiting", "asked", "answered"}]
    /\ DOMAIN answer = Sources
    /\ \A s \in Sources : answer[s] \in Answers(s)

Stage2Typed ==
    /\ companion \in {"none", "empty", "described"}
    /\ footer \subseteq Fields
    /\ verdict \in {"none", "passed", "failed"}

ReportsTyped ==
    /\ trace \in [Stages -> {"absent", "ok", "failed", "skipped"}]
    /\ logged \subseteq Reportable
    /\ errors \subseteq [stage: Reportable, recoverable: BOOLEAN]

OutcomeTyped ==
    /\ sidecar \in {"none", "built", "empty"}
    /\ score \in Score /\ tier \in Tier
    /\ published \in {"none", "built", "empty"}
    /\ metric \in {"none", "completed", "failed", "review"}

TypeOK ==
    /\ pc \in Location
    /\ ContextTyped /\ SourcesTyped
    /\ fields \in [Fields -> Field]
    /\ Stage2Typed /\ ReportsTyped /\ OutcomeTyped

(***************************************************************************)
(* Nothing is published on the strength of a single field, or of a          *)
(* confidence that is not a number: with auto or spot, two fields were      *)
(* found, and all three confidences are numbers.  Sources, fusion, weights  *)
(* and thresholds all have a part in it.                                    *)
(***************************************************************************)
PublishedIsSupported ==
    tier # "review" \/ published # "none" =>
        /\ \E f, g \in Present(fields) : f # g
        /\ \A f \in Fields : fields[f].conf # NaN

(***************************************************************************)
(* A document that nobody will look at has all three fields, a drawing      *)
(* number its sources did not quarrel about, a type of the vocabulary, and  *)
(* a text that could be read.  (Its sources may disagree about the title.)  *)
(***************************************************************************)
AutoIsCorroborated ==
    tier = "auto" =>
        /\ Present(fields) = Fields
        /\ ~fields["drawing_number"].doubtful
        /\ ~fields["document_type"].doubtful
        /\ text = "read"

(***************************************************************************)
(* The sources share one rendering of page 0 and one pass over the text,    *)
(* in whatever order they run.                                              *)
(***************************************************************************)
WorkIsShared == renders <= 1 /\ reads <= 1

(***************************************************************************)
(* A generated companion always passes its validation, because it ends      *)
(* with the very values the validator looks for: the confidence penalty     *)
(* for a companion that contradicts the extraction is never applied.        *)
(***************************************************************************)
ValidationNeverFails == verdict # "failed"

(***************************************************************************)
(* The trace accounts for the run: a failed stage, and only that, is among  *)
(* its errors, every PipelineError is there too, and at the end no stage is *)
(* missing but the validation of a companion that was not generated.        *)
(***************************************************************************)
TraceAccountsForRun ==
    /\ \A s \in Stages \ {"stage1"} : trace[s] = "failed" <=> s \in logged
    /\ trace["stage1"] = "failed" <=>
          \E s \in {"stage1"} \union Extractors : s \in logged
    /\ \A e \in errors : e.stage \in logged
    /\ pc = "done" =>
          \A s \in Stages :
             trace[s] = "absent" <=>
                s = "companion_validation" /\ companion # "described"

(***************************************************************************)
(* A run counted as completed loaded its document, built its sidecar and    *)
(* was scored; what it published, if the write succeeded, is that sidecar.  *)
(* A run counted as review published nothing.                               *)
(***************************************************************************)
MetricTellsOutcome ==
    /\ metric = "completed" =>
          /\ pdf /\ sidecar = "built" /\ trace["confidence"] = "ok"
          /\ trace["metadata_write"] = "ok" => published = "built"
    /\ metric = "review" => published = "none"

=============================================================================
