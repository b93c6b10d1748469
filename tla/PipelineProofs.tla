--------------------------- MODULE PipelineProofs ---------------------------
(***************************************************************************)
(* Proofs about Scoring and Pipeline, for confidences of any precision, any *)
(* vocabulary of the sources and any set of stages that may fail.           *)
(***************************************************************************)
EXTENDS Pipeline, TLAPS

-----------------------------------------------------------------------------
(* The fusion of stage 1.                                                   *)

\* What the number vote returns: never NaN, at most .95, and .30 where the
\* sources disagree.
LEMMA NumberFused ==
    ASSUME NEW vote
    PROVE  LET n == FuseNumber(vote) IN
           /\ n \in Field
           /\ n.conf \in 0..(1900 * Grain)
           /\ ~n.present => n.conf = 0
           /\ n.doubtful => n.conf <= 600 * Grain
<1> DEFINE found == {s \in NumberSources : vote[s] # NoValue}
           doubt == /\ \E s, t \in found : s # t
                    /\ \A s, t \in found : s # t => vote[s] # vote[t]
           v == VoteConfidence(vote, found)
<1>1. v \in {95, 75, 50, 30}
  BY DEF VoteConfidence
<1>2. doubt => v = 30
  BY DEF VoteConfidence, NumberSources
<1>3. CASE found = {}
  BY <1>3, GrainAssumption DEF FuseNumber, NoField, Field, FieldConfidence, One
<1>4. CASE found # {}
  <2>1. FuseNumber(vote) = Found(20 * Grain * v, doubt)
    BY <1>4 DEF FuseNumber
  <2>2. doubt \in BOOLEAN
    OBVIOUS
  <2> HIDE DEF doubt, v
  <2>3. 20 * Grain * v \in 0..(1900 * Grain)
    BY <1>1, GrainAssumption
  <2>4. doubt => 20 * Grain * v = 600 * Grain
    BY <1>2, GrainAssumption
  <2>5. 0..(1900 * Grain) \subseteq 0..(20 * One)
    BY GrainAssumption DEF One
  <2> DEFINE w == 20 * Grain * v
  <2>6. Found(w, doubt) \in Field
    BY <2>2, <2>3, <2>5 DEF Found, Field, FieldConfidence
  <2>7. Found(w, doubt).conf = w /\ Found(w, doubt).doubtful = doubt
        /\ Found(w, doubt).present
    BY DEF Found
  <2> QED
    BY <2>1, <2>3, <2>4, <2>6, <2>7, GrainAssumption
<1> QED
  BY <1>3, <1>4

LEMMA Twentieths ==
    ASSUME NEW c \in Coerced
    PROVE  InTwentieths(c) \in FieldConfidence
  BY GrainAssumption, NaNAssumption
     DEF InTwentieths, Coerced, FieldConfidence, One

\* What the title rule returns.
LEMMA TitleFused ==
    ASSUME NEW v, NEW t, v.conf \in Coerced, t.conf \in Coerced
    PROVE  LET n == FuseTitle(v, t) IN
           /\ n \in Field
           /\ ~n.present => n.conf = 0
<1>1. NoField \in Field /\ NoField.conf = 0
  BY GrainAssumption DEF NoField, Field, FieldConfidence, One
<1>2. ASSUME NEW c \in FieldConfidence, NEW d \in BOOLEAN
      PROVE  Found(c, d) \in Field /\ Found(c, d).present
  BY DEF Found, Field
<1>3. ASSUME NEW a, a.conf \in Coerced
      PROVE  /\ OnlyTitle(a) \in Field
             /\ ~OnlyTitle(a).present => OnlyTitle(a).conf = 0
  BY <1>1, <1>2, <1>3, Twentieths DEF OnlyTitle
<1>4. AgreedTitle(v, t) \in Field /\ AgreedTitle(v, t).present
  <2>1. PyMax(v.conf, t.conf) \in Coerced
    BY DEF PyMax
  <2>2. TitleAgreed \in Coerced
    BY GrainAssumption DEF TitleAgreed, Coerced, One
  <2>3. PyMax(PyMax(v.conf, t.conf), TitleAgreed) \in Coerced
    BY <2>1, <2>2 DEF PyMax
  <2> QED
    BY <2>3, <1>2, Twentieths DEF AgreedTitle
<1>5. RivalTitles(v, t) \in Field /\ RivalTitles(v, t).present
  <2> DEFINE m == IF NaN \in {v.conf, t.conf} THEN NaN
                                              ELSE 7 * (v.conf + t.conf)
  <2>1. m \in FieldConfidence
    BY GrainAssumption, NaNAssumption DEF Coerced, FieldConfidence, One
  <2> QED
    BY <2>1, <1>2 DEF RivalTitles
<1>6. /\ OnlyTitle(v) \in Field
      /\ ~OnlyTitle(v).present => OnlyTitle(v).conf = 0
  BY <1>3
<1>7. /\ OnlyTitle(t) \in Field
      /\ ~OnlyTitle(t).present => OnlyTitle(t).conf = 0
  BY <1>3
<1> QED
  BY <1>4, <1>5, <1>6, <1>7 DEF FuseTitle

\* What the classification returns: at most .30 outside the vocabulary.
LEMMA TypeClassified ==
    ASSUME NEW a, NEW voc, a.conf \in Coerced
    PROVE  LET n == TypeField(a, voc) IN
           /\ n \in Field
           /\ ~n.present => n.conf = 0
           /\ n.doubtful /\ n.conf # NaN => n.conf <= 600 * Grain
           /\ n.present => a.value # NoValue
<1>1. ASSUME NEW c \in FieldConfidence, NEW d \in BOOLEAN
      PROVE  /\ Found(c, d) \in Field
             /\ Found(c, d).present
             /\ Found(c, d).conf = c
             /\ Found(c, d).doubtful = d
  BY DEF Found, Field
<1>2. CASE a.value = NoValue
  BY <1>2, GrainAssumption DEF TypeField, NoField, Field, FieldConfidence, One
<1>3. CASE a.value # NoValue /\ a.value \in voc
  BY <1>3, <1>1, Twentieths DEF TypeField
<1>4. CASE a.value # NoValue /\ a.value \notin voc
  <2> DEFINE c == PyMin(a.conf, OutOfVocabulary)
  <2>1. c \in Coerced /\ (c # NaN => c <= 30 * Grain)
    BY GrainAssumption, NaNAssumption DEF PyMin, OutOfVocabulary, Coerced, One
  <2>2. InTwentieths(c) # NaN => InTwentieths(c) <= 600 * Grain
    BY <2>1, GrainAssumption, NaNAssumption DEF InTwentieths, Coerced, One
  <2>3. TypeField(a, voc) = Found(InTwentieths(c), TRUE)
    BY <1>4 DEF TypeField
  <2>4. InTwentieths(c) \in FieldConfidence
    BY <2>1, Twentieths
  <2> HIDE DEF c
  <2>5. /\ Found(InTwentieths(c), TRUE) \in Field
        /\ Found(InTwentieths(c), TRUE).present
        /\ Found(InTwentieths(c), TRUE).conf = InTwentieths(c)
    BY <2>4, <1>1
  <2> QED
    BY <2>2, <2>3, <2>5, <1>4
<1> QED
  BY <1>2, <1>3, <1>4

-----------------------------------------------------------------------------
(* The score and the tier, from what stage 1 says of the three fields.      *)

\* What is true of the fields whatever the sources answered.
FieldsAreGraded ==
    /\ \A f \in Fields : ~fields[f].present => fields[f].conf = 0
    /\ fields["drawing_number"].conf \in 0..(1900 * Grain)
    /\ fields["drawing_number"].doubtful =>
          fields["drawing_number"].conf <= 600 * Grain
    /\ fields["document_type"].doubtful /\ fields["document_type"].conf # NaN =>
          fields["document_type"].conf <= 600 * Grain

\* Three confidences that are numbers give a score that is one.
LEMMA ScoreTyped ==
    ASSUME NEW fs \in [Fields -> Field], NEW pen \in BOOLEAN
    PROVE  Overall(fs, pen) \in Score
<1> DEFINE x == fs["drawing_number"].conf
           y == fs["title"].conf
           z == fs["document_type"].conf
<1>1. x \in FieldConfidence /\ y \in FieldConfidence /\ z \in FieldConfidence
  BY DEF Field, Fields
<1>2. CASE NaN \in {x, y, z}
  BY <1>2 DEF Overall, Fields, Score
<1>3. CASE NaN \notin {x, y, z}
  <2>1. x \in Int /\ y \in Int /\ z \in Int
    BY <1>1, <1>3 DEF FieldConfidence, One
  <2>2. ASSUME NEW n \in Int
        PROVE  Clamp(n) \in 0..Full
    BY GrainAssumption DEF Clamp, Full, One
  <2>3. (4 * x + 3 * y + 3 * z - (IF pen THEN 20 * One ELSE 0)) \in Int
    BY <2>1, GrainAssumption DEF One
  <2>4. Overall(fs, pen)
           = Clamp(4 * x + 3 * y + 3 * z - (IF pen THEN 20 * One ELSE 0))
    BY <1>3 DEF Overall, Fields
  <2> QED
    BY <2>2, <2>3, <2>4 DEF Score
<1> QED
  BY <1>2, <1>3

\* A score that leaves the tier review is a sum of three numbers.
LEMMA ScoreOfNumbers ==
    ASSUME NEW fs \in [Fields -> Field], NEW pen \in BOOLEAN,
           NEW t \in TiersOf(Overall(fs, pen)), t # "review"
    PROVE  LET x == fs["drawing_number"].conf
               y == fs["title"].conf
               z == fs["document_type"].conf
           IN  /\ NaN \notin {x, y, z}
               /\ x \in 0..(2000 * Grain)
               /\ y \in 0..(2000 * Grain)
               /\ z \in 0..(2000 * Grain)
               /\ 4 * x + 3 * y + 3 * z >= 10000 * Grain
               /\ t = "auto" => 4 * x + 3 * y + 3 * z >= 16000 * Grain
<1> DEFINE x == fs["drawing_number"].conf
           y == fs["title"].conf
           z == fs["document_type"].conf
           sum == 4 * x + 3 * y + 3 * z
           cut == IF pen THEN 20 * One ELSE 0
<1>1. x \in FieldConfidence /\ y \in FieldConfidence /\ z \in FieldConfidence
  BY DEF Field, Fields
<1>2. NaN \notin {x, y, z}
  <2> SUFFICES ASSUME NaN \in {x, y, z} PROVE FALSE
    OBVIOUS
  <2>1. Overall(fs, pen) = NaN
    BY DEF Overall, Fields
  <2> QED
    BY <2>1 DEF TiersOf
<1>3. x \in 0..(2000 * Grain) /\ y \in 0..(2000 * Grain) /\ z \in 0..(2000 * Grain)
  BY <1>1, <1>2, GrainAssumption DEF FieldConfidence, One
<1>4. Overall(fs, pen) = Clamp(sum - cut)
  <2>1. ~ \E f \in Fields : fs[f].conf = NaN
    BY <1>2 DEF Fields
  <2>2. Overall(fs, pen) = Clamp(4 * x + 3 * y + 3 * z - cut)
    BY <2>1 DEF Overall
  <2>3. 4 * x + 3 * y + 3 * z - cut = sum - cut
    BY <1>3, GrainAssumption DEF One
  <2> QED
    BY <2>2, <2>3
<1>5. sum \in Int /\ cut \in Int /\ cut >= 0
  BY <1>3, GrainAssumption DEF One
<1> HIDE DEF x, y, z, sum, cut
<1>6. Clamp(sum - cut) \in Int /\ Clamp(sum - cut) # NaN
  BY <1>5, GrainAssumption, NaNAssumption DEF Clamp, Full, One
<1>7. /\ Clamp(sum - cut) >= SpotMin
      /\ t = "auto" => Clamp(sum - cut) >= AutoMin
  BY <1>4, <1>6, GrainAssumption DEF TiersOf, Tier, SpotMin, AutoMin, One
<1>8. ASSUME NEW n \in Int, n > 0, Clamp(sum - cut) >= n
      PROVE  sum >= n
  BY <1>5, <1>8, GrainAssumption DEF Clamp, Full, One
<1>9. /\ sum >= 10000 * Grain
      /\ t = "auto" => sum >= 16000 * Grain
  BY <1>7, <1>8, GrainAssumption DEF SpotMin, AutoMin, One
<1> QED
  BY <1>2, <1>3, <1>9 DEF x, y, z, sum

\* No single field carries a document past review.
LEMMA SpotNeedsTwoFields ==
    ASSUME fields \in [Fields -> Field], FieldsAreGraded,
           NEW pen \in BOOLEAN,
           NEW t \in TiersOf(Overall(fields, pen)), t # "review"
    PROVE  /\ \E f, g \in Present(fields) : f # g
           /\ \A f \in Fields : fields[f].conf # NaN
<1> DEFINE x == fields["drawing_number"].conf
           y == fields["title"].conf
           z == fields["document_type"].conf
<1>1. /\ NaN \notin {x, y, z}
      /\ x \in 0..(2000 * Grain) /\ y \in 0..(2000 * Grain)
      /\ z \in 0..(2000 * Grain)
      /\ 4 * x + 3 * y + 3 * z >= 10000 * Grain
  BY ScoreOfNumbers
<1> HIDE DEF x, y, z
<1>2. ~(x = 0 /\ y = 0) /\ ~(x = 0 /\ z = 0) /\ ~(y = 0 /\ z = 0)
  BY <1>1, GrainAssumption
<1>3. /\ x # 0 => "drawing_number" \in Present(fields)
      /\ y # 0 => "title" \in Present(fields)
      /\ z # 0 => "document_type" \in Present(fields)
  BY DEF FieldsAreGraded, Present, Fields, x, y, z
<1>4. \A f \in Fields : fields[f].conf # NaN
  BY <1>1 DEF Fields, x, y, z
<1>5. \E f, g \in Present(fields) : f # g
  BY <1>2, <1>3
<1> QED
  BY <1>4, <1>5

\* Nothing doubtful, and nothing missing, reaches auto.
LEMMA AutoNeedsAllFields ==
    ASSUME fields \in [Fields -> Field], FieldsAreGraded,
           NEW pen \in BOOLEAN, "auto" \in TiersOf(Overall(fields, pen))
    PROVE  /\ Present(fields) = Fields
           /\ ~fields["drawing_number"].doubtful
           /\ ~fields["document_type"].doubtful
<1> DEFINE x == fields["drawing_number"].conf
           y == fields["title"].conf
           z == fields["document_type"].conf
<1>1. /\ NaN \notin {x, y, z}
      /\ x \in 0..(2000 * Grain) /\ y \in 0..(2000 * Grain)
      /\ z \in 0..(2000 * Grain)
      /\ 4 * x + 3 * y + 3 * z >= 16000 * Grain
  BY ScoreOfNumbers
<1>2. x \in 0..(1900 * Grain)
  BY DEF FieldsAreGraded
<1> HIDE DEF x, y, z
<1>3. x # 0 /\ y # 0 /\ z # 0
  BY <1>1, <1>2, GrainAssumption
<1>4. ~(x <= 600 * Grain) /\ ~(z <= 600 * Grain)
  BY <1>1, <1>2, GrainAssumption
<1>5. Present(fields) = Fields
  BY <1>3 DEF FieldsAreGraded, Present, Fields, x, y, z
<1> QED
  BY <1>1, <1>4, <1>5 DEF FieldsAreGraded, x, y, z

-----------------------------------------------------------------------------
(* Type correctness.                                                        *)

\* What an answer of each source is.
LEMMA AnswersTyped ==
    /\ \A s \in Sources : NoAnswer \in Answers(s)
    /\ \A s \in TitleSources \union {"type_text"} :
          \A a \in Answers(s) : a.conf \in Coerced
<1>1. \A s \in Sources : NoAnswer \in Answers(s)
  BY DEF Answers
<1>2. /\ \A x, c : Answer(x, c).conf = c
      /\ Reported \subseteq Coerced
      /\ 0 \in Coerced
  BY ReportedAssumption, GrainAssumption DEF Answer, Coerced, One
<1>3. ASSUME NEW s \in TitleSources, NEW a \in Answers(s)
      PROVE  a.conf \in Coerced
  <2>1. \/ a \in {NoAnswer, Answer(Garbled, 0)}
        \/ \E x \in Words, c \in Reported : a = Answer(x, c)
    BY DEF Answers, TitleSources, NumberSources
  <2> QED
    BY <2>1, <1>2 DEF NoAnswer
<1>4. ASSUME NEW a \in Answers("type_text")
      PROVE  a.conf \in Coerced
  <2>1. \/ a = NoAnswer
        \/ \E x \in TypeWords, c \in Reported : a = Answer(x, c)
    BY DEF Answers, TitleSources, NumberSources
  <2> QED
    BY <2>1, <1>2 DEF NoAnswer
<1> QED
  BY <1>1, <1>3, <1>4

\* Every field that stage 1 fuses is a field, and is graded.
LEMMA FusedIsField ==
    ASSUME SourcesTyped, NEW f \in Fields
    PROVE  Fused(f) \in Field
<1>1. /\ answer["title_vision"].conf \in Coerced
      /\ answer["title_text"].conf \in Coerced
      /\ answer["type_text"].conf \in Coerced
  BY AnswersTyped DEF SourcesTyped, Sources, TitleSources
<1>2. CASE f = "drawing_number"
  BY <1>2, NumberFused DEF Fused
<1>3. CASE f = "title"
  BY <1>1, <1>3, TitleFused DEF Fused
<1>4. CASE f = "document_type"
  BY <1>1, <1>4, TypeClassified DEF Fused
<1> QED
  BY <1>2, <1>3, <1>4 DEF Fields

LEMMA NoFieldIsField == NoField \in Field /\ NoField.conf = 0
  BY GrainAssumption DEF NoField, Field, FieldConfidence, One

\* What a step leaves alone keeps its type.
LEMMA UntouchedStaysTyped ==
    ASSUME TypeOK
    PROVE  /\ UNCHANGED contextVars => ContextTyped'
           /\ UNCHANGED sourceVars => SourcesTyped'
           /\ UNCHANGED fields => fields' \in [Fields -> Field]
           /\ UNCHANGED stage2Vars => Stage2Typed'
           /\ UNCHANGED reportVars => ReportsTyped'
           /\ UNCHANGED outcomeVars => OutcomeTyped'
<1>1. UNCHANGED contextVars => ContextTyped'
  BY DEF TypeOK, contextVars, ContextTyped
<1>2. UNCHANGED sourceVars => SourcesTyped'
  BY DEF TypeOK, sourceVars, SourcesTyped
<1>3. UNCHANGED fields => fields' \in [Fields -> Field]
  BY DEF TypeOK
<1>4. UNCHANGED stage2Vars => Stage2Typed'
  BY DEF TypeOK, stage2Vars, Stage2Typed
<1>5. UNCHANGED reportVars => ReportsTyped'
  BY DEF TypeOK, reportVars, ReportsTyped
<1>6. UNCHANGED outcomeVars => OutcomeTyped'
  BY DEF TypeOK, outcomeVars, OutcomeTyped
<1> QED
  BY <1>1, <1>2, <1>3, <1>4, <1>5, <1>6

\* So does what a stage reports.
LEMMA ReportsStayTyped ==
    ASSUME ReportsTyped, NEW stage \in Stages,
           \/ Succeed(stage) \/ Skip(stage) \/ FailInTraceOnly(stage)
           \/ \E r \in BOOLEAN : Fail(stage, r)
    PROVE  ReportsTyped'
<1>1. trace' \in [Stages -> {"absent", "ok", "failed", "skipped"}]
  BY DEF ReportsTyped, Succeed, Skip, FailInTraceOnly, Fail
<1>2. logged' \subseteq Reportable
  BY DEF ReportsTyped, Succeed, Skip, FailInTraceOnly, Fail, Reportable
<1>3. errors' \subseteq [stage: Reportable, recoverable: BOOLEAN]
  BY DEF ReportsTyped, Succeed, Skip, FailInTraceOnly, Fail, Reportable
<1> QED
  BY <1>1, <1>2, <1>3 DEF ReportsTyped

(***************************************************************************)
(* The run stays within its types: every field stage 1 reports has a        *)
(* confidence in [0, 1] or NaN, the score likewise, whatever the sources    *)
(* answer and whichever stages fail.                                        *)
(***************************************************************************)
THEOREM PipelineTypeCorrect == Spec => []TypeOK
<1>1. Init => TypeOK
  <2> SUFFICES ASSUME Init PROVE TypeOK
    OBVIOUS
  <2> USE DEF Init
  <2>1. ContextTyped
    BY DEF ContextTyped
  <2>2. SourcesTyped
    BY AnswersTyped DEF SourcesTyped
  <2>3. fields \in [Fields -> Field]
    BY NoFieldIsField
  <2>4. Stage2Typed
    BY DEF Stage2Typed
  <2>5. ReportsTyped
    BY DEF ReportsTyped
  <2>6. OutcomeTyped
    BY GrainAssumption DEF OutcomeTyped, Score, Full, One, Tier
  <2> QED
    BY <2>1, <2>2, <2>3, <2>4, <2>5, <2>6 DEF TypeOK, Location
<1>2. TypeOK /\ [Next]_vars => TypeOK'
  <2> SUFFICES ASSUME TypeOK, [Next]_vars PROVE TypeOK'
    OBVIOUS
  <2>0. /\ pc \in Location /\ ContextTyped /\ SourcesTyped
        /\ fields \in [Fields -> Field] /\ Stage2Typed
        /\ ReportsTyped /\ OutcomeTyped
    BY DEF TypeOK
  <2> DEFINE Kept ==
        /\ UNCHANGED contextVars => ContextTyped'
        /\ UNCHANGED sourceVars => SourcesTyped'
        /\ UNCHANGED fields => fields' \in [Fields -> Field]
        /\ UNCHANGED stage2Vars => Stage2Typed'
        /\ UNCHANGED reportVars => ReportsTyped'
        /\ UNCHANGED outcomeVars => OutcomeTyped'
  <2>00. Kept
    BY UntouchedStaysTyped
  <2>1. CASE LoadPdf
    <3>1. ReportsTyped'
      BY <2>0, <2>1, ReportsStayTyped DEF LoadPdf, Stages
    <3>2. ContextTyped' /\ pc' \in Location
      BY <2>0, <2>1 DEF LoadPdf, ContextTyped, Location
    <3> QED
      BY <2>1, <2>00, <3>1, <3>2 DEF LoadPdf, TypeOK
  <2>2. ASSUME NEW s \in VisionSources, AskVision(s)
        PROVE  TypeOK'
    <3>1. SourcesTyped'
      BY <2>0, <2>2, AnswersTyped
         DEF AskVision, Ask, Settle, SourcesTyped, VisionSources, Sources,
             TitleSources, NumberSources
    <3>2. ContextTyped' /\ pc' \in Location
      <4>1. renders' \in Nat /\ reads' \in Nat
        BY <2>0, <2>2 DEF AskVision, ContextTyped
      <4>2. page' \in BOOLEAN
        BY <2>0, <2>2, Zenon DEF AskVision, ContextTyped
      <4>3. pdf' = pdf /\ text' = text /\ pc' = pc
        BY <2>2 DEF AskVision
      <4> QED
        BY <2>0, <4>1, <4>2, <4>3 DEF ContextTyped
    <3> QED
      BY <2>2, <2>00, <3>1, <3>2 DEF AskVision, TypeOK
  <2>3. ASSUME NEW s \in TextSources, AskText(s)
        PROVE  TypeOK'
    <3>1. SourcesTyped'
      BY <2>0, <2>3, AnswersTyped
         DEF AskText, Ask, Settle, SourcesTyped, TextSources, Sources,
             TitleSources, NumberSources
    <3>2. ContextTyped' /\ pc' \in Location
      BY <2>0, <2>3 DEF AskText, ContextTyped
    <3> QED
      BY <2>3, <2>00, <3>1, <3>2 DEF AskText, TypeOK
  <2>4. CASE ReadFilename
    <3>1. SourcesTyped'
      BY <2>0, <2>4
         DEF ReadFilename, Settle, SourcesTyped, Sources, NumberSources
    <3> QED
      BY <2>0, <2>4, <2>00, <3>1 DEF ReadFilename, TypeOK
  <2>5. ASSUME NEW s \in VisionSources \union TextSources, Hear(s)
        PROVE  TypeOK'
    <3>1. s \in Sources
      BY DEF VisionSources, TextSources, Sources, NumberSources, TitleSources
    <3>2. SourcesTyped'
      BY <2>0, <2>5, <3>1 DEF Hear, Settle, SourcesTyped
    <3> QED
      BY <2>0, <2>5, <2>00, <3>2 DEF Hear, TypeOK
  <2>6. CASE Merge
    <3>1. PICK raised \in SUBSET Extractors :
             /\ fields' = [f \in Fields |->
                             IF f \in raised THEN NoField ELSE Fused(f)]
             /\ trace' = [trace EXCEPT !["stage1"] =
                             IF raised = {} THEN "ok" ELSE "failed"]
             /\ logged' = logged \union raised
             /\ errors' = errors \union
                   {[stage |-> f, recoverable |-> TRUE] : f \in raised}
      BY <2>6 DEF Merge
    <3>2. fields' \in [Fields -> Field]
      BY <2>0, <3>1, FusedIsField, NoFieldIsField
    <3>3. ReportsTyped'
      <4>1. trace' \in [Stages -> {"absent", "ok", "failed", "skipped"}]
        BY <2>0, <3>1 DEF ReportsTyped
      <4>2. logged' \subseteq Reportable
        BY <2>0, <3>1 DEF ReportsTyped, Reportable
      <4>3. errors' \subseteq [stage: Reportable, recoverable: BOOLEAN]
        <5>1. ASSUME NEW f \in raised
              PROVE  [stage |-> f, recoverable |-> TRUE]
                        \in [stage: Reportable, recoverable: BOOLEAN]
          BY DEF Reportable
        <5> DEFINE named == {[stage |-> f, recoverable |-> TRUE] : f \in raised}
        <5>2. named \subseteq [stage: Reportable, recoverable: BOOLEAN]
          BY <5>1, Zenon
        <5>3. errors' = errors \union named
          BY <3>1
        <5> HIDE DEF named
        <5> QED
          BY <2>0, <5>2, <5>3, Zenon DEF ReportsTyped
      <4> QED
        BY <4>1, <4>2, <4>3 DEF ReportsTyped
    <3>4. SourcesTyped' /\ pc' \in Location
      BY <2>0, <2>6, AnswersTyped
         DEF Merge, ForgetAnswers, SourcesTyped, Location
    <3> QED
      BY <2>6, <2>00, <3>2, <3>3, <3>4 DEF Merge, TypeOK
  <2>7. CASE MergeFails
    <3>1. fields' \in [Fields -> Field]
      BY <2>7, NoFieldIsField DEF MergeFails
    <3>2. ReportsTyped'
      BY <2>0, <2>7, ReportsStayTyped DEF MergeFails, Stages
    <3>3. SourcesTyped' /\ pc' \in Location
      BY <2>0, <2>7, AnswersTyped
         DEF MergeFails, ForgetAnswers, SourcesTyped, Location
    <3> QED
      BY <2>7, <2>00, <3>1, <3>2, <3>3 DEF MergeFails, TypeOK
  <2>8. CASE GenerateCompanion
    <3>1. ReportsTyped'
      BY <2>0, <2>8, ReportsStayTyped DEF GenerateCompanion, Stages
    <3>2. Stage2Typed' /\ pc' \in Location
      BY <2>0, <2>8
         DEF GenerateCompanion, Stage2Typed, Footer, Present, Location
    <3> QED
      BY <2>8, <2>00, <3>1, <3>2 DEF GenerateCompanion, TypeOK
  <2>9. CASE ValidateCompanion
    <3>1. ReportsTyped'
      BY <2>0, <2>00, <2>9, ReportsStayTyped
         DEF ValidateCompanion, Stages, reportVars
    <3>2. Stage2Typed' /\ pc' \in Location
      BY <2>0, <2>9 DEF ValidateCompanion, Stage2Typed, Location
    <3> QED
      BY <2>9, <2>00, <3>1, <3>2 DEF ValidateCompanion, TypeOK
  <2>10. CASE BuildSidecar
    <3>1. ReportsTyped'
      BY <2>0, <2>10, ReportsStayTyped DEF BuildSidecar, Stages
    <3>2. OutcomeTyped' /\ pc' \in Location
      BY <2>0, <2>10 DEF BuildSidecar, OutcomeTyped, Location
    <3> QED
      BY <2>10, <2>00, <3>1, <3>2 DEF BuildSidecar, TypeOK
  <2>11. CASE Calculate
    <3>1. Overall(fields, verdict = "failed") \in Score
      BY <2>0, ScoreTyped
    <3>2. TiersOf(score') \subseteq Tier
      BY DEF TiersOf, Tier
    <3>3. 0 \in Score /\ "review" \in Tier
      BY GrainAssumption DEF Score, Full, One, Tier
    <3>4. ReportsTyped'
      BY <2>0, <2>11, ReportsStayTyped DEF Calculate, Stages
    <3>5. OutcomeTyped' /\ pc' \in Location
      BY <2>0, <2>11, <3>1, <3>2, <3>3
         DEF Calculate, OutcomeTyped, Location
    <3> QED
      BY <2>11, <2>00, <3>4, <3>5 DEF Calculate, TypeOK
  <2>12. CASE WriteMetadata
    <3>1. ReportsTyped'
      BY <2>0, <2>12, ReportsStayTyped DEF WriteMetadata, Stages
    <3>2. OutcomeTyped' /\ pc' \in Location
      BY <2>0, <2>12 DEF WriteMetadata, OutcomeTyped, Location
    <3> QED
      BY <2>12, <2>00, <3>1, <3>2 DEF WriteMetadata, TypeOK
  <2>13. CASE IndexCompanion
    <3>1. ReportsTyped'
      BY <2>0, <2>13, ReportsStayTyped DEF IndexCompanion, Stages
    <3> QED
      BY <2>13, <2>00, <3>1 DEF IndexCompanion, TypeOK, Location
  <2>14. CASE NotifyCompletion
    <3>1. ReportsTyped'
      BY <2>0, <2>14, ReportsStayTyped DEF NotifyCompletion, Stages
    <3> QED
      BY <2>14, <2>00, <3>1 DEF NotifyCompletion, TypeOK, Location
  <2>15. CASE RecordStatus
    <3>1. OutcomeTyped' /\ pc' \in Location
      BY <2>0, <2>15 DEF RecordStatus, OutcomeTyped, Location
    <3> QED
      BY <2>15, <2>00, <3>1 DEF RecordStatus, TypeOK
  <2>16. CASE UNCHANGED vars
    BY <2>0, <2>00, <2>16 DEF vars, TypeOK
  <2> QED
    BY <2>1, <2>2, <2>3, <2>4, <2>5, <2>6, <2>7, <2>8, <2>9, <2>10, <2>11,
       <2>12, <2>13, <2>14, <2>15, <2>16 DEF Next
<1> QED
  BY <1>1, <1>2, PTL DEF Spec

-----------------------------------------------------------------------------
(* The inductive invariants, in the order in which they rest on each other. *)

\* The memo of the PipelineContext: filled once, and a text source has asked
\* or found something only on the strength of a text.
MemoIsKept ==
    /\ renders = IF page THEN 1 ELSE 0
    /\ reads = IF text = "unread" THEN 0 ELSE 1

TextIsBacked ==
    \A s \in TextSources :
       asked[s] = "asked" \/ answer[s].value # NoValue => text = "read"

\* The type of a document is found in its text only.
TypeIsBacked ==
    /\ TextIsBacked
    /\ fields["document_type"].present => text = "read"

\* Until stage 2 there is no companion; its METADATA block names the fields
\* as they still are.
CompanionNamesFields ==
    /\ pc \in {"load", "stage1", "stage2"} => companion = "none"
    /\ companion = "described" => footer = Present(fields)
    /\ verdict # "failed"

\* Up to the score the tier is review, and up to the write nothing is
\* published; nothing is ever published under review.
TierComesFirst ==
    /\ pc \notin Scored => tier = "review"
    /\ pc \in {"load", "stage1", "stage2", "validate", "stage3", "confidence",
              "publish"} => published = "none"
    /\ tier = "review" => published = "none"

GradeInv ==
    /\ FieldsAreGraded /\ TypeIsBacked /\ CompanionNamesFields
    /\ TierComesFirst /\ PublishedIsSupported /\ AutoIsCorroborated

\* A stage has a status from the step that runs it.
TraceFollowsRun ==
    /\ trace["pdf_load"] = "absent" <=> pc = "load"
    /\ trace["stage1"] = "absent" <=> pc \in {"load", "stage1"}
    /\ trace["stage2"] = "absent" <=> pc \in {"load", "stage1", "stage2"}
    /\ trace["companion_validation"] = "absent" <=>
          \/ pc \in {"load", "stage1", "stage2", "validate"}
          \/ companion # "described"
    /\ trace["stage3"] = "absent" <=> pc \notin Scored \union {"confidence"}
    /\ trace["confidence"] = "absent" <=> pc \notin Scored
    /\ trace["metadata_write"] = "absent" <=> pc \notin Scored \ {"publish"}
    /\ trace["search_index"] = "absent" <=> pc \notin {"notify", "report", "done"}
    /\ trace["callback"] = "absent" <=> pc \notin {"report", "done"}

\* A failed stage, and no other, is among the errors.
FailuresAreLogged ==
    /\ \A s \in Stages \ {"stage1"} : trace[s] = "failed" <=> s \in logged
    /\ trace["stage1"] = "failed" <=>
          \E s \in {"stage1"} \union Extractors : s \in logged
    /\ \A e \in errors : e.stage \in logged

TraceInv == TraceFollowsRun /\ FailuresAreLogged

\* What makes a run other than completed is among its errors.
LossIsAnError ==
    /\ pc # "load" /\ ~pdf => Unrecoverable
    /\ pc \in Scored \union {"confidence"} => sidecar # "none"
    /\ sidecar = "empty" => Unrecoverable
    /\ trace["confidence"] = "failed" => Unrecoverable
    /\ trace["confidence"] # "skipped"

OutcomeInv ==
    /\ LossIsAnError
    /\ trace["metadata_write"] = "ok" => published = sidecar
    /\ metric # "none" => pc = "done"
    /\ metric = "completed" => ~Unrecoverable
    /\ metric = "review" => tier = "review"

-----------------------------------------------------------------------------
(* The memo.                                                                *)

(***************************************************************************)
(* However the sources interleave, page 0 is rendered once at most and the  *)
(* text is read once at most: the look into the memo and the entry in it    *)
(* lie in one step of the event loop.                                       *)
(***************************************************************************)
THEOREM MemoSpares == Spec => []WorkIsShared
<1>1. Init => MemoIsKept
  BY DEF Init, MemoIsKept
<1>2. TypeOK /\ MemoIsKept /\ [Next]_vars => MemoIsKept'
  <2> SUFFICES ASSUME TypeOK, MemoIsKept, [Next]_vars PROVE MemoIsKept'
    OBVIOUS
  <2>1. UNCHANGED <<page, text, renders, reads>> => MemoIsKept'
    BY DEF MemoIsKept
  <2>2. ASSUME NEW s \in VisionSources, AskVision(s)
        PROVE  MemoIsKept'
    <3>1. text' = text /\ reads' = reads
      BY <2>2 DEF AskVision
    <3>2. CASE page' = page /\ renders' = renders
      BY <3>1, <3>2 DEF MemoIsKept
    <3>3. CASE ~page /\ page' = TRUE /\ renders' = renders + 1
      BY <3>1, <3>3 DEF MemoIsKept
    <3> QED
      BY <2>2, <3>2, <3>3, Zenon DEF AskVision
  <2>3. ASSUME NEW s \in TextSources, AskText(s)
        PROVE  MemoIsKept'
    BY <2>3 DEF AskText, MemoIsKept
  <2>4. CASE /\ ~ \E s \in VisionSources : AskVision(s)
             /\ ~ \E s \in TextSources : AskText(s)
    <3>1. UNCHANGED <<page, text, renders, reads>>
      BY <2>4
         DEF Next, LoadPdf, ReadFilename, Hear, Merge, MergeFails,
             GenerateCompanion, ValidateCompanion, BuildSidecar, Calculate,
             WriteMetadata, IndexCompanion, NotifyCompletion, RecordStatus,
             vars, contextVars
    <3> QED
      BY <2>1, <3>1
  <2> QED
    BY <2>2, <2>3, <2>4
<1>3. MemoIsKept => WorkIsShared
  BY DEF MemoIsKept, WorkIsShared
<1> QED
  BY <1>1, <1>2, <1>3, PipelineTypeCorrect, PTL DEF Spec

-----------------------------------------------------------------------------
(* What is published.                                                       *)

\* Nothing is decided, and nothing published, before the score.
LEMMA QuietBeforeScore ==
    ASSUME GradeInv, pc \notin Scored, tier' = tier, published' = published
    PROVE  TierComesFirst' /\ PublishedIsSupported' /\ AutoIsCorroborated'
<1>1. tier' = "review" /\ published' = "none"
  BY DEF GradeInv, TierComesFirst
<1> QED
  BY <1>1 DEF TierComesFirst, PublishedIsSupported, AutoIsCorroborated

\* Stage 1 reports graded fields, and a type only if there was a text.
LEMMA FusedAreGraded ==
    ASSUME TypeOK, TextIsBacked, NEW raised,
           fields' = [f \in Fields |->
                        IF f \in raised THEN NoField ELSE Fused(f)]
    PROVE  /\ FieldsAreGraded'
           /\ fields'["document_type"].present => text = "read"
<1>1. /\ ~NoField.present /\ NoField.conf = 0 /\ ~NoField.doubtful
      /\ 0 \in 0..(1900 * Grain) /\ 0 <= 600 * Grain
  BY GrainAssumption DEF NoField
<1>2. /\ answer["title_vision"].conf \in Coerced
      /\ answer["title_text"].conf \in Coerced
      /\ answer["type_text"].conf \in Coerced
  BY AnswersTyped DEF TypeOK, SourcesTyped, Sources, TitleSources
<1> DEFINE n == fields'["drawing_number"]
           t == fields'["title"]
           d == fields'["document_type"]
<1>3. /\ n \in {NoField, Fused("drawing_number")}
      /\ t \in {NoField, Fused("title")}
      /\ d \in {NoField, Fused("document_type")}
  BY DEF Fields
<1>4. /\ n.conf \in 0..(1900 * Grain)
      /\ ~n.present => n.conf = 0
      /\ n.doubtful => n.conf <= 600 * Grain
  <2>1. /\ Fused("drawing_number").conf \in 0..(1900 * Grain)
        /\ ~Fused("drawing_number").present => Fused("drawing_number").conf = 0
        /\ Fused("drawing_number").doubtful =>
              Fused("drawing_number").conf <= 600 * Grain
    BY NumberFused DEF Fused
  <2> QED
    BY <1>1, <1>3, <2>1
<1>5. ~t.present => t.conf = 0
  <2>1. ~Fused("title").present => Fused("title").conf = 0
    BY <1>2, TitleFused DEF Fused
  <2> QED
    BY <1>1, <1>3, <2>1
<1>6. /\ ~d.present => d.conf = 0
      /\ d.doubtful /\ d.conf # NaN => d.conf <= 600 * Grain
      /\ d.present => answer["type_text"].value # NoValue
  <2> DEFINE e == Fused("document_type")
  <2>1. /\ ~e.present => e.conf = 0
        /\ e.doubtful /\ e.conf # NaN => e.conf <= 600 * Grain
        /\ e.present => answer["type_text"].value # NoValue
    BY <1>2, TypeClassified DEF Fused
  <2> QED
    BY <1>1, <1>3, <2>1
<1>7. d.present => text = "read"
  BY <1>6 DEF TextIsBacked, TextSources
<1> HIDE DEF n, t, d
<1>8. FieldsAreGraded'
  BY <1>4, <1>5, <1>6 DEF FieldsAreGraded, Fields, n, t, d
<1> QED
  BY <1>7, <1>8 DEF d

\* A step that leaves fields, text and companion alone keeps what is said of
\* them.
LEMMA GradesUntouched ==
    ASSUME GradeInv
    PROVE  /\ UNCHANGED fields => FieldsAreGraded'
           /\ UNCHANGED <<fields, text, asked, answer>> => TypeIsBacked'
           /\ UNCHANGED <<fields, tier, published, text>> =>
                 PublishedIsSupported' /\ AutoIsCorroborated'
  BY DEF GradeInv, FieldsAreGraded, TypeIsBacked, TextIsBacked, Present,
         PublishedIsSupported, AutoIsCorroborated

\* A companion passes its validation, since it ends with the fields.
LEMMA NothingUnreferenced ==
    ASSUME FieldsAreGraded, footer = Present(fields)
    PROVE  Unreferenced = {}
  BY DEF FieldsAreGraded, Present, Unreferenced

LEMMA GradeInvStep ==
    ASSUME TypeOK, GradeInv, [Next]_vars
    PROVE  GradeInv'
<1>0. /\ FieldsAreGraded /\ TypeIsBacked /\ TextIsBacked
      /\ CompanionNamesFields /\ TierComesFirst
      /\ PublishedIsSupported /\ AutoIsCorroborated
  BY DEF GradeInv, TypeIsBacked
<1>00. /\ UNCHANGED fields => FieldsAreGraded'
       /\ UNCHANGED <<fields, text, asked, answer>> => TypeIsBacked'
       /\ UNCHANGED <<fields, tier, published, text>> =>
             PublishedIsSupported' /\ AutoIsCorroborated'
  BY GradesUntouched
<1>1. CASE LoadPdf
  <2>1. TierComesFirst' /\ PublishedIsSupported' /\ AutoIsCorroborated'
    BY <1>1, QuietBeforeScore DEF LoadPdf, Scored, outcomeVars
  <2>2. CompanionNamesFields'
    BY <1>0, <1>1
       DEF LoadPdf, CompanionNamesFields, Present, stage2Vars
  <2> QED
    BY <1>00, <1>1, <2>1, <2>2 DEF LoadPdf, sourceVars, GradeInv
<1>2. ASSUME NEW s \in VisionSources, AskVision(s)
      PROVE  GradeInv'
  <2>1. TierComesFirst' /\ PublishedIsSupported' /\ AutoIsCorroborated'
    BY <1>2, QuietBeforeScore DEF AskVision, Scored, outcomeVars
  <2>2. CompanionNamesFields'
    BY <1>0, <1>2
       DEF AskVision, CompanionNamesFields, Present, stage2Vars
  <2>3. TypeIsBacked'
    <3>1. \A r \in TextSources : asked'[r] = asked[r] /\ answer'[r] = answer[r]
      BY <1>2 DEF AskVision, Ask, Settle, TypeOK, SourcesTyped, Sources,
         NumberSources, TitleSources, VisionSources, TextSources
    <3>2. text' = text /\ fields' = fields
      BY <1>2 DEF AskVision
    <3> QED
      BY <1>0, <3>1, <3>2 DEF TypeIsBacked, TextIsBacked
  <2> QED
    BY <1>00, <1>2, <2>1, <2>2, <2>3 DEF AskVision, GradeInv
<1>3. ASSUME NEW s \in TextSources, AskText(s)
      PROVE  GradeInv'
  <2>1. TierComesFirst' /\ PublishedIsSupported' /\ AutoIsCorroborated'
    BY <1>3, QuietBeforeScore DEF AskText, Scored, outcomeVars
  <2>2. CompanionNamesFields'
    BY <1>0, <1>3
       DEF AskText, CompanionNamesFields, Present, stage2Vars
  <2>3. TypeIsBacked'
    <3>1. text = "read" => text' = "read"
      BY <1>3 DEF AskText
    <3>2. \A r \in TextSources :
             asked'[r] = "asked" \/ answer'[r].value # NoValue => text' = "read"
      BY <1>0, <1>3, <3>1
         DEF AskText, Ask, Settle, NoAnswer, Answer, TextIsBacked, TypeOK,
             SourcesTyped, Sources, NumberSources, TitleSources, TextSources
    <3>3. fields' = fields
      BY <1>3 DEF AskText
    <3> QED
      BY <1>0, <3>1, <3>2, <3>3 DEF TypeIsBacked, TextIsBacked
  <2> QED
    BY <1>00, <1>3, <2>1, <2>2, <2>3 DEF AskText, GradeInv
<1>4. CASE ReadFilename
  <2>1. TierComesFirst' /\ PublishedIsSupported' /\ AutoIsCorroborated'
    BY <1>4, QuietBeforeScore DEF ReadFilename, Scored, outcomeVars
  <2>2. CompanionNamesFields'
    BY <1>0, <1>4
       DEF ReadFilename, CompanionNamesFields, Present, stage2Vars
  <2>3. TypeIsBacked'
    <3>1. \A r \in TextSources : asked'[r] = asked[r] /\ answer'[r] = answer[r]
      BY <1>4 DEF ReadFilename, Settle, TypeOK, SourcesTyped, Sources,
         NumberSources, TitleSources, TextSources
    <3>2. text' = text /\ fields' = fields
      BY <1>4 DEF ReadFilename, contextVars
    <3> QED
      BY <1>0, <3>1, <3>2 DEF TypeIsBacked, TextIsBacked
  <2> QED
    BY <1>00, <1>4, <2>1, <2>2, <2>3 DEF ReadFilename, GradeInv
<1>5. ASSUME NEW s \in VisionSources \union TextSources, Hear(s)
      PROVE  GradeInv'
  <2>1. TierComesFirst' /\ PublishedIsSupported' /\ AutoIsCorroborated'
    BY <1>5, QuietBeforeScore DEF Hear, Scored, outcomeVars
  <2>2. CompanionNamesFields'
    BY <1>0, <1>5 DEF Hear, CompanionNamesFields, Present, stage2Vars
  <2>3. TypeIsBacked'
    <3>1. text' = text /\ fields' = fields
      BY <1>5 DEF Hear, contextVars
    <3>2. \A r \in TextSources :
             asked'[r] = "asked" \/ answer'[r].value # NoValue => text = "read"
      BY <1>0, <1>5
         DEF Hear, Settle, TextIsBacked, TypeOK, SourcesTyped, Sources,
             NumberSources, TitleSources, VisionSources, TextSources
    <3> QED
      BY <1>0, <3>1, <3>2 DEF TypeIsBacked, TextIsBacked
  <2> QED
    BY <1>00, <1>5, <2>1, <2>2, <2>3 DEF Hear, GradeInv
<1>6. CASE Merge \/ MergeFails
  <2>1. TierComesFirst' /\ PublishedIsSupported' /\ AutoIsCorroborated'
    BY <1>6, QuietBeforeScore DEF Merge, MergeFails, Scored, outcomeVars
  <2>2. CompanionNamesFields'
    BY <1>0, <1>6
       DEF Merge, MergeFails, CompanionNamesFields, stage2Vars
  <2>3. FieldsAreGraded' /\ (fields'["document_type"].present => text = "read")
    <3>1. \E raised \in SUBSET Fields :
             fields' = [f \in Fields |->
                          IF f \in raised THEN NoField ELSE Fused(f)]
      <4>1. CASE Merge
        BY <4>1 DEF Merge, Extractors
      <4>2. CASE MergeFails
        <5>1. fields' = [f \in Fields |->
                           IF f \in Fields THEN NoField ELSE Fused(f)]
          BY <4>2 DEF MergeFails
        <5> QED
          BY <5>1
      <4> QED
        BY <1>6, <4>1, <4>2
    <3> QED
      BY <1>0, <3>1, FusedAreGraded
  <2>4. TypeIsBacked'
    <3>1. text' = text /\ asked' = asked
          /\ answer' = [r \in Sources |-> NoAnswer]
      BY <1>6 DEF Merge, MergeFails, ForgetAnswers, contextVars
    <3>2. \A r \in TextSources : answer'[r].value = NoValue
      BY <3>1 DEF NoAnswer, Answer, Sources, NumberSources, TitleSources,
         TextSources
    <3> QED
      BY <1>0, <2>3, <3>1, <3>2 DEF TypeIsBacked, TextIsBacked
  <2> QED
    BY <2>1, <2>2, <2>3, <2>4 DEF GradeInv
<1>7. CASE GenerateCompanion
  <2>1. TierComesFirst' /\ PublishedIsSupported' /\ AutoIsCorroborated'
    BY <1>7, QuietBeforeScore DEF GenerateCompanion, Scored, outcomeVars
  <2>2. CompanionNamesFields'
    BY <1>0, <1>7
       DEF GenerateCompanion, Footer, CompanionNamesFields, Present
  <2> QED
    BY <1>00, <1>7, <2>1, <2>2
       DEF GenerateCompanion, sourceVars, contextVars, GradeInv
<1>8. CASE ValidateCompanion
  <2>1. TierComesFirst' /\ PublishedIsSupported' /\ AutoIsCorroborated'
    BY <1>8, QuietBeforeScore DEF ValidateCompanion, Scored, outcomeVars
  <2>2. companion = "described" => Unreferenced = {}
    BY <1>0, NothingUnreferenced DEF CompanionNamesFields
  <2>3. CompanionNamesFields'
    BY <1>0, <1>8, <2>2
       DEF ValidateCompanion, CompanionNamesFields, Present
  <2> QED
    BY <1>00, <1>8, <2>1, <2>3
       DEF ValidateCompanion, sourceVars, contextVars, GradeInv
<1>9. CASE BuildSidecar
  <2>1. TierComesFirst' /\ PublishedIsSupported' /\ AutoIsCorroborated'
    BY <1>9, QuietBeforeScore DEF BuildSidecar, Scored
  <2>2. CompanionNamesFields'
    BY <1>0, <1>9
       DEF BuildSidecar, CompanionNamesFields, Present, stage2Vars
  <2> QED
    BY <1>00, <1>9, <2>1, <2>2
       DEF BuildSidecar, sourceVars, contextVars, GradeInv
<1>10. CASE Calculate
  <2>1. /\ fields' = fields /\ text' = text /\ published' = published
        /\ pc = "confidence" /\ pc' = "publish"
        /\ UNCHANGED <<asked, answer, companion, footer, verdict>>
    BY <1>10 DEF Calculate, contextVars, sourceVars, stage2Vars
  <2>2. published' = "none"
    BY <1>0, <2>1 DEF TierComesFirst
  <2>3. tier' # "review" => tier' \in TiersOf(Overall(fields, verdict = "failed"))
    BY <1>10 DEF Calculate
  <2>4. fields \in [Fields -> Field]
    BY DEF TypeOK
  <2>5. PublishedIsSupported'
    <3>1. tier' # "review" =>
             /\ \E f, g \in Present(fields) : f # g
             /\ \A f \in Fields : fields[f].conf # NaN
      BY <1>0, <2>3, <2>4, SpotNeedsTwoFields
    <3> QED
      BY <2>1, <2>2, <3>1 DEF PublishedIsSupported, Present
  <2>6. AutoIsCorroborated'
    <3>1. tier' = "auto" =>
             /\ Present(fields) = Fields
             /\ ~fields["drawing_number"].doubtful
             /\ ~fields["document_type"].doubtful
      BY <1>0, <2>3, <2>4, AutoNeedsAllFields
    <3>2. Present(fields) = Fields => text = "read"
      BY <1>0 DEF Present, Fields, TypeIsBacked
    <3> QED
      BY <2>1, <3>1, <3>2 DEF AutoIsCorroborated, Present
  <2>7. TierComesFirst'
    BY <2>1, <2>2 DEF TierComesFirst, Scored
  <2>8. CompanionNamesFields'
    BY <1>0, <2>1 DEF CompanionNamesFields, Present
  <2> QED
    BY <1>00, <2>1, <2>5, <2>6, <2>7, <2>8 DEF GradeInv
<1>11. CASE WriteMetadata
  <2>1. /\ fields' = fields /\ text' = text /\ tier' = tier
        /\ pc = "publish" /\ pc' = "index"
        /\ UNCHANGED <<asked, answer, companion, footer, verdict>>
    BY <1>11 DEF WriteMetadata, contextVars, sourceVars, stage2Vars
  <2>2. tier = "review" => published' = "none"
    BY <1>0, <1>11 DEF WriteMetadata, TierComesFirst
  <2>3. PublishedIsSupported'
    BY <1>0, <2>1, <2>2 DEF PublishedIsSupported, Present
  <2>4. AutoIsCorroborated'
    BY <1>0, <2>1 DEF AutoIsCorroborated, Present
  <2>5. TierComesFirst'
    BY <2>1, <2>2 DEF TierComesFirst, Scored
  <2>6. CompanionNamesFields'
    BY <1>0, <2>1 DEF CompanionNamesFields, Present
  <2> QED
    BY <1>00, <2>1, <2>3, <2>4, <2>5, <2>6 DEF GradeInv
<1>12. CASE IndexCompanion \/ NotifyCompletion \/ RecordStatus
  <2>1. /\ UNCHANGED <<fields, text, tier, published, asked, answer,
                       companion, footer, verdict>>
        /\ pc \in {"index", "notify", "report"}
        /\ pc' \in {"notify", "report", "done"}
    BY <1>12
       DEF IndexCompanion, NotifyCompletion, RecordStatus, contextVars,
           sourceVars, stage2Vars, outcomeVars
  <2>2. TierComesFirst'
    BY <1>0, <2>1 DEF TierComesFirst, Scored
  <2>3. CompanionNamesFields'
    BY <1>0, <2>1 DEF CompanionNamesFields, Present
  <2> QED
    BY <1>00, <2>1, <2>2, <2>3 DEF GradeInv
<1>13. CASE UNCHANGED vars
  <2>1. UNCHANGED <<pc, fields, text, tier, published, asked, answer,
                    companion, footer, verdict>>
    BY <1>13
       DEF vars, contextVars, sourceVars, stage2Vars, outcomeVars
  <2>2. TierComesFirst'
    BY <1>0, <2>1 DEF TierComesFirst
  <2>3. CompanionNamesFields'
    BY <1>0, <2>1 DEF CompanionNamesFields, Present
  <2> QED
    BY <1>00, <2>1, <2>2, <2>3 DEF GradeInv
<1> QED
  BY <1>1, <1>2, <1>3, <1>4, <1>5, <1>6, <1>7, <1>8, <1>9, <1>10, <1>11,
     <1>12, <1>13 DEF Next

LEMMA GradeInvHolds == Spec => []GradeInv
<1>1. Init => GradeInv
  <2> SUFFICES ASSUME Init PROVE GradeInv
    OBVIOUS
  <2>1. \A f \in Fields :
           ~fields[f].present /\ fields[f].conf = 0 /\ ~fields[f].doubtful
    BY DEF Init, NoField
  <2>2. FieldsAreGraded
    BY <2>1, GrainAssumption DEF FieldsAreGraded, Fields
  <2>3. TypeIsBacked
    <3>1. ~fields["document_type"].present
      BY <2>1 DEF Fields
    <3>2. \A s \in TextSources : asked[s] = "waiting" /\ answer[s].value = NoValue
      BY DEF Init, NoAnswer, Answer, Sources, NumberSources, TitleSources,
         TextSources
    <3> QED
      BY <3>1, <3>2 DEF TypeIsBacked, TextIsBacked
  <2>4. CompanionNamesFields
    BY DEF Init, CompanionNamesFields
  <2>5. TierComesFirst /\ PublishedIsSupported /\ AutoIsCorroborated
    BY DEF Init, TierComesFirst, PublishedIsSupported, AutoIsCorroborated
  <2> QED
    BY <2>2, <2>3, <2>4, <2>5 DEF GradeInv
<1>2. TypeOK /\ GradeInv /\ [Next]_vars => GradeInv'
  BY GradeInvStep
<1> QED
  BY <1>1, <1>2, PipelineTypeCorrect, PTL DEF Spec

(***************************************************************************)
(* Whatever the sources answer and whatever fails, nothing is published on  *)
(* the strength of one field: the weights and the spot threshold were       *)
(* chosen well, at any precision of the confidences.                        *)
(***************************************************************************)
THEOREM PublicationsAreSupported == Spec => []PublishedIsSupported
<1>1. GradeInv => PublishedIsSupported
  BY DEF GradeInv
<1> QED
  BY <1>1, GradeInvHolds, PTL

(***************************************************************************)
(* A document that goes out without a reviewer has all its fields, none of  *)
(* them doubtful but the title, and a text that was read.                   *)
(***************************************************************************)
THEOREM AutoStaysCorroborated == Spec => []AutoIsCorroborated
<1>1. GradeInv => AutoIsCorroborated
  BY DEF GradeInv
<1> QED
  BY <1>1, GradeInvHolds, PTL

(***************************************************************************)
(* No companion fails its validation.                                       *)
(***************************************************************************)
THEOREM CompanionsPassValidation == Spec => []ValidationNeverFails
<1>1. GradeInv => ValidationNeverFails
  BY DEF GradeInv, CompanionNamesFields, ValidationNeverFails
<1> QED
  BY <1>1, GradeInvHolds, PTL

-----------------------------------------------------------------------------
(* The trace, the errors and the metric.                                    *)

\* The steps that report nothing.
LEMMA SilentSteps ==
    ASSUME UNCHANGED reportVars, UNCHANGED companion, FailuresAreLogged
    PROVE  /\ FailuresAreLogged'
           /\ pc' = pc /\ TraceFollowsRun => TraceFollowsRun'
  BY DEF reportVars, FailuresAreLogged, TraceFollowsRun

\* A stage that reports for the first time keeps failures and errors alike.
LEMMA FirstReport ==
    ASSUME TypeOK, FailuresAreLogged, NEW stage \in Stages,
           trace[stage] = "absent",
           \/ Succeed(stage) \/ Skip(stage) \/ FailInTraceOnly(stage)
           \/ \E r \in BOOLEAN : Fail(stage, r)
    PROVE  /\ FailuresAreLogged'
           /\ \A s \in Stages \ {stage} : trace'[s] = trace[s]
           /\ trace'[stage] # "absent"
<1>1. trace \in [Stages -> {"absent", "ok", "failed", "skipped"}]
  BY DEF TypeOK, ReportsTyped
<1>2. /\ trace' = [trace EXCEPT ![stage] = trace'[stage]]
      /\ trace'[stage] \in {"ok", "failed", "skipped"}
      /\ logged' = IF trace'[stage] = "failed" THEN logged \union {stage}
                                               ELSE logged
  BY <1>1 DEF Succeed, Skip, FailInTraceOnly, Fail
<1>3. \A e \in errors' : e \in errors \/ (e.stage = stage /\ stage \in logged')
  BY DEF Succeed, Skip, FailInTraceOnly, Fail
<1>4. \A s \in Stages \ {stage} : trace'[s] = trace[s]
  BY <1>1, <1>2
<1>5. Stages \intersect Extractors = {}
  BY DEF Stages, Extractors, Fields
<1>6. \A s \in Stages \ {"stage1"} : trace'[s] = "failed" <=> s \in logged'
  BY <1>2, <1>4 DEF FailuresAreLogged
<1>7. trace'["stage1"] = "failed" <=>
         \E s \in {"stage1"} \union Extractors : s \in logged'
  <2>1. CASE stage = "stage1"
    BY <1>2, <1>5, <2>1 DEF FailuresAreLogged
  <2>2. CASE stage # "stage1"
    <3>1. trace'["stage1"] = trace["stage1"]
      BY <1>4, <2>2 DEF Stages
    <3>2. \A s \in {"stage1"} \union Extractors : s \in logged' <=> s \in logged
      BY <1>2, <1>5, <2>2
    <3> QED
      BY <3>1, <3>2 DEF FailuresAreLogged
  <2> QED
    BY <2>1, <2>2
<1>8. \A e \in errors' : e.stage \in logged'
  BY <1>2, <1>3 DEF FailuresAreLogged
<1>9. FailuresAreLogged'
  BY <1>6, <1>7, <1>8 DEF FailuresAreLogged
<1> QED
  BY <1>2, <1>4, <1>9

LEMMA TraceInvStep ==
    ASSUME TypeOK, GradeInv, TraceInv, [Next]_vars
    PROVE  TraceInv'
<1>0. FailuresAreLogged /\ TraceFollowsRun /\ CompanionNamesFields
  BY DEF TraceInv, GradeInv
<1> USE DEF Scored
<1>1. CASE LoadPdf
  <2>1. /\ FailuresAreLogged'
        /\ \A s \in Stages \ {"pdf_load"} : trace'[s] = trace[s]
        /\ trace'["pdf_load"] # "absent"
    BY <1>0, <1>1, FirstReport DEF LoadPdf, Stages, TraceFollowsRun
  <2>2. pc = "load" /\ pc' = "stage1" /\ companion' = companion
    BY <1>1 DEF LoadPdf, stage2Vars
  <2> QED
    BY <1>0, <2>1, <2>2 DEF TraceInv, TraceFollowsRun, Stages
<1>2. CASE \/ \E s \in VisionSources : AskVision(s)
           \/ \E s \in TextSources : AskText(s)
           \/ ReadFilename
           \/ \E s \in VisionSources \union TextSources : Hear(s)
           \/ UNCHANGED vars
  <2>1. UNCHANGED reportVars /\ UNCHANGED companion /\ pc' = pc
    BY <1>2
       DEF AskVision, AskText, ReadFilename, Hear, vars, stage2Vars
  <2> QED
    BY <1>0, <2>1, SilentSteps DEF TraceInv
<1>3. CASE Merge
  <2>1. PICK raised \in SUBSET Extractors :
           /\ trace' = [trace EXCEPT !["stage1"] =
                           IF raised = {} THEN "ok" ELSE "failed"]
           /\ logged' = logged \union raised
           /\ errors' = errors \union
                 {[stage |-> f, recoverable |-> TRUE] : f \in raised}
    BY <1>3 DEF Merge
  <2>2. pc = "stage1" /\ pc' = "stage2" /\ companion' = companion
    BY <1>3 DEF Merge, stage2Vars
  <2>3. trace \in [Stages -> {"absent", "ok", "failed", "skipped"}]
    BY DEF TypeOK, ReportsTyped
  <2>4. \A s \in Stages \ {"stage1"} : trace'[s] = trace[s]
    BY <2>1, <2>3
  <2>5. trace'["stage1"] = IF raised = {} THEN "ok" ELSE "failed"
    BY <2>1, <2>3 DEF Stages
  <2>6. trace["stage1"] # "failed"
    BY <1>0, <2>2 DEF TraceFollowsRun
  <2>7. Stages \intersect Extractors = {}
    BY DEF Stages, Extractors, Fields
  <2>8. \A s \in Stages \ {"stage1"} : trace'[s] = "failed" <=> s \in logged'
    BY <1>0, <2>1, <2>4, <2>7 DEF FailuresAreLogged
  <2>9. trace'["stage1"] = "failed" <=>
           \E s \in {"stage1"} \union Extractors : s \in logged'
    <3>1. ~ \E s \in {"stage1"} \union Extractors : s \in logged
      BY <1>0, <2>6 DEF FailuresAreLogged
    <3>2. (\E s \in {"stage1"} \union Extractors : s \in logged') <=> raised # {}
      BY <2>1, <3>1
    <3> QED
      BY <2>5, <3>2
  <2>10. \A e \in errors' : e.stage \in logged'
    BY <1>0, <2>1 DEF FailuresAreLogged
  <2>11. TraceFollowsRun'
    BY <1>0, <2>2, <2>4, <2>5 DEF TraceFollowsRun, Stages
  <2> QED
    BY <2>8, <2>9, <2>10, <2>11 DEF TraceInv, FailuresAreLogged
<1>4. CASE MergeFails
  <2>1. /\ FailuresAreLogged'
        /\ \A s \in Stages \ {"stage1"} : trace'[s] = trace[s]
        /\ trace'["stage1"] # "absent"
    BY <1>0, <1>4, FirstReport DEF MergeFails, Stages, TraceFollowsRun
  <2>2. pc = "stage1" /\ pc' = "stage2" /\ companion' = companion
    BY <1>4 DEF MergeFails, stage2Vars
  <2> QED
    BY <1>0, <2>1, <2>2 DEF TraceInv, TraceFollowsRun, Stages
<1>5. CASE GenerateCompanion
  <2>1. /\ FailuresAreLogged'
        /\ \A s \in Stages \ {"stage2"} : trace'[s] = trace[s]
        /\ trace'["stage2"] # "absent"
    BY <1>0, <1>5, FirstReport DEF GenerateCompanion, Stages, TraceFollowsRun
  <2>2. pc = "stage2" /\ pc' = "validate"
    BY <1>5 DEF GenerateCompanion
  <2> QED
    BY <1>0, <2>1, <2>2 DEF TraceInv, TraceFollowsRun, Stages
<1>6. CASE ValidateCompanion
  <2>1. pc = "validate" /\ pc' = "stage3" /\ companion' = companion
    BY <1>6 DEF ValidateCompanion
  <2>2. CASE companion # "described"
    <3>1. UNCHANGED reportVars
      BY <1>6, <2>2 DEF ValidateCompanion
    <3>2. FailuresAreLogged'
      BY <1>0, <2>1, <3>1, SilentSteps
    <3>3. trace' = trace
      BY <3>1 DEF reportVars
    <3> QED
      BY <1>0, <2>1, <2>2, <3>2, <3>3 DEF TraceInv, TraceFollowsRun
  <2>3. CASE companion = "described"
    <3>1. /\ FailuresAreLogged'
          /\ \A s \in Stages \ {"companion_validation"} : trace'[s] = trace[s]
          /\ trace'["companion_validation"] # "absent"
      BY <1>0, <1>6, <2>3, FirstReport
         DEF ValidateCompanion, Stages, TraceFollowsRun
    <3> QED
      BY <1>0, <2>1, <2>3, <3>1 DEF TraceInv, TraceFollowsRun, Stages
  <2> QED
    BY <2>2, <2>3
<1>7. CASE BuildSidecar
  <2>1. /\ FailuresAreLogged'
        /\ \A s \in Stages \ {"stage3"} : trace'[s] = trace[s]
        /\ trace'["stage3"] # "absent"
    BY <1>0, <1>7, FirstReport DEF BuildSidecar, Stages, TraceFollowsRun
  <2>2. pc = "stage3" /\ pc' = "confidence" /\ companion' = companion
    BY <1>7 DEF BuildSidecar, stage2Vars
  <2> QED
    BY <1>0, <2>1, <2>2 DEF TraceInv, TraceFollowsRun, Stages
<1>8. CASE Calculate
  <2>1. /\ FailuresAreLogged'
        /\ \A s \in Stages \ {"confidence"} : trace'[s] = trace[s]
        /\ trace'["confidence"] # "absent"
    BY <1>0, <1>8, FirstReport DEF Calculate, Stages, TraceFollowsRun
  <2>2. pc = "confidence" /\ pc' = "publish" /\ companion' = companion
    BY <1>8 DEF Calculate, stage2Vars
  <2> QED
    BY <1>0, <2>1, <2>2 DEF TraceInv, TraceFollowsRun, Stages
<1>9. CASE WriteMetadata
  <2>1. /\ FailuresAreLogged'
        /\ \A s \in Stages \ {"metadata_write"} : trace'[s] = trace[s]
        /\ trace'["metadata_write"] # "absent"
    BY <1>0, <1>9, FirstReport DEF WriteMetadata, Stages, TraceFollowsRun
  <2>2. pc = "publish" /\ pc' = "index" /\ companion' = companion
    BY <1>9 DEF WriteMetadata, stage2Vars
  <2> QED
    BY <1>0, <2>1, <2>2 DEF TraceInv, TraceFollowsRun, Stages
<1>10. CASE IndexCompanion
  <2>1. /\ FailuresAreLogged'
        /\ \A s \in Stages \ {"search_index"} : trace'[s] = trace[s]
        /\ trace'["search_index"] # "absent"
    BY <1>0, <1>10, FirstReport DEF IndexCompanion, Stages, TraceFollowsRun
  <2>2. pc = "index" /\ pc' = "notify" /\ companion' = companion
    BY <1>10 DEF IndexCompanion, stage2Vars
  <2> QED
    BY <1>0, <2>1, <2>2 DEF TraceInv, TraceFollowsRun, Stages
<1>11. CASE NotifyCompletion
  <2>1. /\ FailuresAreLogged'
        /\ \A s \in Stages \ {"callback"} : trace'[s] = trace[s]
        /\ trace'["callback"] # "absent"
    BY <1>0, <1>11, FirstReport DEF NotifyCompletion, Stages, TraceFollowsRun
  <2>2. pc = "notify" /\ pc' = "report" /\ companion' = companion
    BY <1>11 DEF NotifyCompletion, stage2Vars
  <2> QED
    BY <1>0, <2>1, <2>2 DEF TraceInv, TraceFollowsRun, Stages
<1>12. CASE RecordStatus
  <2>1. /\ UNCHANGED reportVars /\ UNCHANGED companion
        /\ pc = "report" /\ pc' = "done"
    BY <1>12 DEF RecordStatus, stage2Vars
  <2>2. FailuresAreLogged'
    BY <1>0, <2>1, SilentSteps
  <2>3. trace' = trace
    BY <2>1 DEF reportVars
  <2> QED
    BY <1>0, <2>1, <2>2, <2>3 DEF TraceInv, TraceFollowsRun
<1> QED
  BY <1>1, <1>2, <1>3, <1>4, <1>5, <1>6, <1>7, <1>8, <1>9, <1>10, <1>11,
     <1>12 DEF Next

LEMMA TraceInvHolds == Spec => []TraceInv
<1>1. Init => TraceInv
  BY DEF Init, TraceInv, TraceFollowsRun, FailuresAreLogged, Stages, Scored
<1>2. TypeOK /\ GradeInv /\ TraceInv /\ [Next]_vars => TraceInv'
  BY TraceInvStep
<1> QED
  BY <1>1, <1>2, PipelineTypeCorrect, GradeInvHolds, PTL DEF Spec

(***************************************************************************)
(* Whatever fails, the trace accounts for it: no stage fails without an     *)
(* entry among the errors, none is named there that did not fail, and none  *)
(* is left out of the trace of a run that ended.                            *)
(***************************************************************************)
THEOREM TraceStaysComplete == Spec => []TraceAccountsForRun
<1>1. TraceInv => TraceAccountsForRun
  <2> SUFFICES ASSUME TraceInv PROVE TraceAccountsForRun
    OBVIOUS
  <2>1. pc = "done" =>
           \A s \in Stages :
              trace[s] = "absent" <=>
                 s = "companion_validation" /\ companion # "described"
    BY DEF TraceInv, TraceFollowsRun, Stages, Scored
  <2> QED
    BY <2>1 DEF TraceInv, FailuresAreLogged, TraceAccountsForRun
<1> QED
  BY <1>1, TraceInvHolds, PTL

\* Errors are never taken back.
LEMMA ErrorsGrow ==
    ASSUME [Next]_vars
    PROVE  Unrecoverable => Unrecoverable'
<1>1. errors \subseteq errors'
  BY DEF Next, LoadPdf, AskVision, AskText, ReadFilename, Hear, Merge,
     MergeFails, GenerateCompanion, ValidateCompanion, BuildSidecar,
     Calculate, WriteMetadata, IndexCompanion, NotifyCompletion,
     RecordStatus, Succeed, Skip, Fail, FailInTraceOnly, vars, reportVars
<1> QED
  BY <1>1 DEF Unrecoverable

\* A failure that is not recoverable is among the errors.
LEMMA FailureIsAnError ==
    ASSUME NEW stage, Fail(stage, FALSE)
    PROVE  Unrecoverable'
<1>1. [stage |-> stage, recoverable |-> FALSE] \in errors'
  BY DEF Fail
<1> QED
  BY <1>1 DEF Unrecoverable

\* A report leaves the status of the other stages alone.
LEMMA ReportIsLocal ==
    ASSUME TypeOK, NEW stage \in Stages, NEW other \in Stages \ {stage},
           \/ Succeed(stage) \/ Skip(stage) \/ FailInTraceOnly(stage)
           \/ \E r \in BOOLEAN : Fail(stage, r)
    PROVE  trace'[other] = trace[other]
  BY DEF TypeOK, ReportsTyped, Succeed, Skip, FailInTraceOnly, Fail

LEMMA OutcomeInvStep ==
    ASSUME TypeOK, GradeInv, TraceInv, OutcomeInv, [Next]_vars
    PROVE  OutcomeInv'
<1>0. /\ pc # "load" /\ ~pdf => Unrecoverable
      /\ pc \in Scored \union {"confidence"} => sidecar # "none"
      /\ sidecar = "empty" => Unrecoverable
      /\ trace["confidence"] = "failed" => Unrecoverable
      /\ trace["confidence"] # "skipped"
      /\ trace["metadata_write"] = "ok" => published = sidecar
      /\ metric # "none" => pc = "done"
      /\ metric = "completed" => ~Unrecoverable
      /\ metric = "review" => tier = "review"
  BY DEF OutcomeInv, LossIsAnError
<1>00. Unrecoverable => Unrecoverable'
  BY ErrorsGrow
<1>000. /\ pc \notin Scored \ {"publish"} => trace["metadata_write"] = "absent"
        /\ trace \in [Stages -> {"absent", "ok", "failed", "skipped"}]
  BY DEF TraceInv, TraceFollowsRun, TypeOK, ReportsTyped
<1>1. CASE LoadPdf
  <2>1. pdf' = TRUE \/ Unrecoverable'
    BY <1>1, FailureIsAnError DEF LoadPdf
  <2>2. /\ trace'["confidence"] = trace["confidence"]
        /\ trace'["metadata_write"] = trace["metadata_write"]
    BY <1>1, ReportIsLocal DEF LoadPdf, Stages
  <2>3. UNCHANGED outcomeVars /\ pc = "load" /\ pc' = "stage1"
    BY <1>1 DEF LoadPdf
  <2> QED
    BY <1>0, <1>00, <2>1, <2>2, <2>3
       DEF outcomeVars, OutcomeInv, LossIsAnError, Scored
<1>2. CASE \/ \E s \in VisionSources : AskVision(s)
           \/ \E s \in TextSources : AskText(s)
           \/ ReadFilename
           \/ \E s \in VisionSources \union TextSources : Hear(s)
           \/ UNCHANGED vars
  <2>1. UNCHANGED <<pc, pdf, errors, trace, outcomeVars>>
    BY <1>2
       DEF AskVision, AskText, ReadFilename, Hear, vars, contextVars,
           reportVars
  <2>2. Unrecoverable' = Unrecoverable
    BY <2>1 DEF Unrecoverable
  <2> QED
    BY <1>0, <2>1, <2>2 DEF outcomeVars, OutcomeInv, LossIsAnError
<1>3. CASE Merge \/ MergeFails \/ GenerateCompanion \/ ValidateCompanion
  <2>1. /\ trace'["confidence"] = trace["confidence"]
        /\ trace'["metadata_write"] = trace["metadata_write"]
    <3>1. CASE Merge
      BY <1>000, <3>1 DEF Merge, Stages
    <3>2. CASE MergeFails
      BY <3>2, ReportIsLocal DEF MergeFails, Stages
    <3>3. CASE GenerateCompanion
      BY <3>3, ReportIsLocal DEF GenerateCompanion, Stages
    <3>4. CASE ValidateCompanion
      BY <3>4, ReportIsLocal DEF ValidateCompanion, Stages, reportVars
    <3> QED
      BY <1>3, <3>1, <3>2, <3>3, <3>4
  <2>2. /\ UNCHANGED outcomeVars /\ pdf' = pdf
        /\ pc \notin Scored \union {"load"}
        /\ pc' \notin Scored \union {"confidence"} /\ pc # "done"
    BY <1>3
       DEF Merge, MergeFails, GenerateCompanion, ValidateCompanion,
           contextVars, Scored
  <2> QED
    BY <1>0, <1>00, <2>1, <2>2 DEF outcomeVars, OutcomeInv, LossIsAnError
<1>4. CASE BuildSidecar
  <2>1. sidecar' = "built" \/ (sidecar' = "empty" /\ Unrecoverable')
    BY <1>4, FailureIsAnError DEF BuildSidecar
  <2>2. /\ trace'["confidence"] = trace["confidence"]
        /\ trace'["metadata_write"] = trace["metadata_write"]
    BY <1>4, ReportIsLocal DEF BuildSidecar, Stages
  <2>3. /\ pdf' = pdf /\ pc = "stage3" /\ pc' = "confidence"
        /\ UNCHANGED <<tier, published, metric>>
    BY <1>4 DEF BuildSidecar, contextVars
  <2>4. trace["metadata_write"] = "absent"
    BY <1>000, <2>3 DEF Scored
  <2> QED
    BY <1>0, <1>00, <2>1, <2>2, <2>3, <2>4
       DEF OutcomeInv, LossIsAnError, Scored
<1>5. CASE Calculate
  <2>1. /\ trace'["confidence"] \in {"ok", "failed"}
        /\ trace'["confidence"] = "failed" => Unrecoverable'
    BY <1>5, <1>000, FailureIsAnError DEF Calculate, Succeed, Fail, Stages
  <2>2. trace'["metadata_write"] = trace["metadata_write"]
    BY <1>5, ReportIsLocal DEF Calculate, Stages
  <2>3. /\ pdf' = pdf /\ pc = "confidence" /\ pc' = "publish"
        /\ UNCHANGED <<sidecar, published, metric>>
    BY <1>5 DEF Calculate, contextVars
  <2> QED
    BY <1>0, <1>00, <2>1, <2>2, <2>3 DEF OutcomeInv, LossIsAnError
<1>6. CASE WriteMetadata
  <2>1. trace'["confidence"] = trace["confidence"]
    BY <1>6, ReportIsLocal DEF WriteMetadata, Stages
  <2>2. trace'["metadata_write"] = "ok" => published' = sidecar
    BY <1>6, <1>000 DEF WriteMetadata, Skip, Succeed, Fail, Stages
  <2>3. /\ pdf' = pdf /\ pc = "publish" /\ pc' = "index"
        /\ UNCHANGED <<sidecar, tier, metric>>
    BY <1>6 DEF WriteMetadata, contextVars
  <2> QED
    BY <1>0, <1>00, <2>1, <2>2, <2>3 DEF OutcomeInv, LossIsAnError, Scored
<1>7. CASE IndexCompanion \/ NotifyCompletion
  <2>1. /\ trace'["confidence"] = trace["confidence"]
        /\ trace'["metadata_write"] = trace["metadata_write"]
    <3>1. CASE IndexCompanion
      BY <3>1, ReportIsLocal DEF IndexCompanion, Stages
    <3>2. CASE NotifyCompletion
      BY <3>2, ReportIsLocal DEF NotifyCompletion, Stages
    <3> QED
      BY <1>7, <3>1, <3>2
  <2>2. /\ UNCHANGED outcomeVars /\ pdf' = pdf
        /\ pc \in {"index", "notify"} /\ pc' \in {"notify", "report"}
    BY <1>7 DEF IndexCompanion, NotifyCompletion, contextVars
  <2> QED
    BY <1>0, <1>00, <2>1, <2>2
       DEF outcomeVars, OutcomeInv, LossIsAnError, Scored
<1>8. CASE RecordStatus
  <2>1. /\ pdf' = pdf /\ pc = "report" /\ pc' = "done"
        /\ UNCHANGED <<sidecar, tier, published, trace, errors>>
    BY <1>8 DEF RecordStatus, contextVars, reportVars
  <2>2. Unrecoverable' = Unrecoverable
    BY <2>1 DEF Unrecoverable
  <2>3. /\ metric' = "completed" => ~Unrecoverable
        /\ metric' = "review" => tier = "review"
    BY <1>8 DEF RecordStatus
  <2> QED
    BY <1>0, <2>1, <2>2, <2>3 DEF OutcomeInv, LossIsAnError, Scored
<1> QED
  BY <1>1, <1>2, <1>3, <1>4, <1>5, <1>6, <1>7, <1>8 DEF Next

LEMMA OutcomeInvHolds == Spec => []OutcomeInv
<1>1. Init => OutcomeInv
  BY DEF Init, OutcomeInv, LossIsAnError, Stages, Scored
<1>2. TypeOK /\ GradeInv /\ TraceInv /\ OutcomeInv /\ [Next]_vars => OutcomeInv'
  BY OutcomeInvStep
<1> QED
  BY <1>1, <1>2, PipelineTypeCorrect, GradeInvHolds, TraceInvHolds, PTL
     DEF Spec

(***************************************************************************)
(* What extraction_total counts as completed is a document that was loaded, *)
(* assembled and scored, and published if its write succeeded; what it      *)
(* counts as review was not published.                                      *)
(***************************************************************************)
THEOREM MetricStaysTrue == Spec => []MetricTellsOutcome
<1>1. TypeOK /\ GradeInv /\ TraceInv /\ OutcomeInv => MetricTellsOutcome
  <2> SUFFICES ASSUME TypeOK, GradeInv, TraceInv, OutcomeInv
               PROVE  MetricTellsOutcome
    OBVIOUS
  <2>1. metric = "review" => published = "none"
    BY DEF OutcomeInv, GradeInv, TierComesFirst
  <2>2. ASSUME metric = "completed"
        PROVE  /\ pdf /\ sidecar = "built" /\ trace["confidence"] = "ok"
               /\ trace["metadata_write"] = "ok" => published = "built"
    <3>1. pc = "done" /\ ~Unrecoverable
      BY <2>2 DEF OutcomeInv
    <3>2. sidecar = "built" /\ pdf
      BY <3>1 DEF OutcomeInv, LossIsAnError, Scored, TypeOK, OutcomeTyped,
         ContextTyped
    <3>3. trace["confidence"] \in {"absent", "ok", "failed", "skipped"}
      BY DEF TypeOK, ReportsTyped, Stages
    <3>4. trace["confidence"] # "absent"
      BY <3>1 DEF TraceInv, TraceFollowsRun, Scored
    <3> QED
      BY <3>1, <3>2, <3>3, <3>4 DEF OutcomeInv, LossIsAnError
  <2> QED
    BY <2>1, <2>2 DEF MetricTellsOutcome
<1> QED
  BY <1>1, PipelineTypeCorrect, GradeInvHolds, TraceInvHolds,
     OutcomeInvHolds, PTL
=============================================================================
