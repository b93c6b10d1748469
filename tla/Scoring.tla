------------------------------ MODULE Scoring ------------------------------
(***************************************************************************)
(* What stage 1 and the confidence calculator compute: the fusion of the    *)
(* sources of a field into one confidence, the weighted score, the tier.    *)
(*                                                                          *)
(* Confidences are exact.  A confidence the model reports is a multiple of  *)
(* 1/One; the confidence of a field, of 1/(20 One), since the title rule    *)
(* multiplies a mean by 0.7; the score, of 1/(200 One).  The code computes  *)
(* in doubles, whose errors are far below these units and matter only where *)
(* a score equals a threshold: there the code takes either side, depending  *)
(* on how the sum was rounded (0.95*0.4 + 0.7*0.3 + 0.7*0.3 is below 0.8).  *)
(*                                                                          *)
(* NaN is the float that is not a number.  Python's JSON reader accepts it, *)
(* every comparison with it is false, every sum with it is NaN.             *)
(***************************************************************************)
EXTENDS Integers

CONSTANTS
    Grain,      \* reported confidences are multiples of 1/(100 Grain)
    NaN,        \* the float that is not a number
    NoValue     \* a source that found nothing

ASSUME GrainAssumption == Grain \in Nat \ {0}
ASSUME NaNAssumption == NaN \notin Int

One == 100 * Grain

\* A confidence as _coerce_confidence leaves it, and that of a field.
Coerced == (0..One) \union {NaN}
FieldConfidence == (0..(20 * One)) \union {NaN}

\* What stage 1 says of a field.  doubtful: its sources named different values
\* and none had a majority, or the value is not in the vocabulary.
Field == [present: BOOLEAN, conf: FieldConfidence, doubtful: BOOLEAN]
NoField == [present |-> FALSE, conf |-> 0, doubtful |-> FALSE]
Found(c, doubt) == [present |-> TRUE, conf |-> c, doubtful |-> doubt]

InTwentieths(c) == IF c = NaN THEN NaN ELSE 20 * c

-----------------------------------------------------------------------------
(* Drawing number: a vote of vision, text and filename.                     *)

NumberSources == {"number_vision", "number_text", "number_filename"}

\* Slip: three different values earn what a single one does.
VoteAsIfSingle(vote, found) ==
    CASE found = NumberSources /\ \A s, t \in found : vote[s] = vote[t] -> 95
      [] \E s, t \in found : s # t /\ vote[s] = vote[t] -> 75
      [] OTHER -> 50

\* In hundredths; found is the set of sources that found a value.
VoteConfidence(vote, found) ==
    CASE found = NumberSources /\ \A s, t \in found : vote[s] = vote[t] -> 95
      [] \E s, t \in found : s # t /\ vote[s] = vote[t] -> 75
      [] \A s, t \in found : s = t -> 50
      [] OTHER -> 30

FuseNumber(vote) ==
    LET found == {s \in NumberSources : vote[s] # NoValue} IN
    IF found = {}
    THEN NoField
    ELSE Found(20 * Grain * VoteConfidence(vote, found),
               /\ \E s, t \in found : s # t
               /\ \A s, t \in found : s # t => vote[s] # vote[t])

-----------------------------------------------------------------------------
(* Title: vision and text, each with the confidence the model reported.     *)

\* max(a, b) and min(a, b): the first, unless the second compares better.
PyMax(a, b) == IF a # NaN /\ b # NaN /\ b > a THEN b ELSE a
PyMin(a, b) == IF a # NaN /\ b # NaN /\ b < a THEN b ELSE a

TitleAgreed == 90 * Grain

AgreedTitle(v, t) ==
    Found(InTwentieths(PyMax(PyMax(v.conf, t.conf), TitleAgreed)), FALSE)

\* Slip: the sum of two confidences for their mean.
RivalTitlesSummed(v, t) ==
    Found(IF NaN \in {v.conf, t.conf} THEN NaN ELSE 14 * (v.conf + t.conf), TRUE)

\* The mean of the two, times 0.7.
RivalTitles(v, t) ==
    Found(IF NaN \in {v.conf, t.conf} THEN NaN ELSE 7 * (v.conf + t.conf), TRUE)

OnlyTitle(a) ==
    IF a.value = NoValue THEN NoField ELSE Found(InTwentieths(a.conf), FALSE)

\* v and t are answers: a value with its confidence.
FuseTitle(v, t) ==
    IF t.value = NoValue THEN OnlyTitle(v)
    ELSE IF v.value = NoValue THEN OnlyTitle(t)
    ELSE IF v.value = t.value THEN AgreedTitle(v, t)
    ELSE RivalTitles(v, t)

-----------------------------------------------------------------------------
(* Document type: text only.  A word that is no DocumentType becomes        *)
(* "document" and does not earn more than 0.30.                             *)

OutOfVocabulary == 30 * Grain

TypeField(answer, vocabulary) ==
    IF answer.value = NoValue
    THEN NoField
    ELSE IF answer.value \in vocabulary
         THEN Found(InTwentieths(answer.conf), FALSE)
         ELSE Found(InTwentieths(PyMin(answer.conf, OutOfVocabulary)), TRUE)

-----------------------------------------------------------------------------
(* Score and tier.  The weights are .4, .3, .3, the penalty is .1.          *)

Fields == {"drawing_number", "title", "document_type"}
Tier == {"auto", "spot", "review"}

Full == 200 * One
Score == (0..Full) \union {NaN}

Clamp(n) == IF n < 0 THEN 0 ELSE IF n > Full THEN Full ELSE n

Overall(fields, penalised) ==
    IF \E f \in Fields : fields[f].conf = NaN
    THEN NaN
    ELSE Clamp(4 * fields["drawing_number"].conf + 3 * fields["title"].conf
                 + 3 * fields["document_type"].conf
                 - (IF penalised THEN 20 * One ELSE 0))

AutoMin == 160 * One
SpotMin == 100 * One

\* Slip: the thresholds are tested from below.
TiersFromBelow(score) ==
    IF score = NaN
    THEN {"auto"}
    ELSE {t \in Tier :
            \/ t = "auto" /\ score >= AutoMin
            \/ t = "spot" /\ score >= SpotMin /\ score <= AutoMin
            \/ t = "review" /\ score <= SpotMin}

\* The tiers a score may be put in; two where it equals a threshold.
TiersOf(score) ==
    IF score = NaN
    THEN {"review"}
    ELSE {t \in Tier :
            \/ t = "auto" /\ score >= AutoMin
            \/ t = "spot" /\ score >= SpotMin /\ score <= AutoMin
            \/ t = "review" /\ score <= SpotMin}

=============================================================================
