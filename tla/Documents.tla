----------------------------- MODULE Documents -----------------------------
(***************************************************************************)
(* What a run does with the pages of one document: PyMuPDFProcessor reads   *)
(* and renders them, CompanionGenerator has the vision model describe some  *)
(* of them, JsonResponseParser makes what it can of each answer, and        *)
(* SidecarBuilder assembles the metadata with the companion.                *)
(*                                                                          *)
(* A page is known by what its text layer gives: "scan" has no text,        *)
(* "sparse" and "dense" have text below and above the word limit of the     *)
(* skip heuristic, "broken" raises when it is read.  An answer is a         *)
(* sequence of pieces; what the JSON repair library makes of a text is      *)
(* anything between nothing and all the pairs that are in it.               *)
(***************************************************************************)
EXTENDS Integers, Sequences, FiniteSets, SequencesExt

CONSTANTS
    Docs,           \* bound: the documents
    LoneReplies,    \* bound: what the model may answer for the page of a
                    \* document of one page
    Replies         \* bound: and for the pages of a longer one

\* COMPANION_SKIP_MIN_WORDS is 150: a dense page has more words, a sparse fewer.
Layers == {"scan", "sparse", "dense", "broken"}
Chars == [scan |-> 0, sparse |-> 100, dense |-> 1500, broken |-> 0]

Keys == {"visual_description", "technical_details"}
Values == {"null", "blank", "words", "bullets", "nested"}

\* The pieces of an answer.  "torn" is an object without its end, "braces" is
\* prose with a pair of braces in it.
Piece == [kind : {"prose", "fence", "list", "braces", "object", "torn"},
          says : UNION {[keys -> Values] : keys \in SUBSET Keys}]
Silence == [k \in {} |-> "null"]
Plain(kind) == [kind |-> kind, says |-> Silence]
Object(says) == [kind |-> "object", says |-> says]
Torn(says) == [kind |-> "torn", says |-> says]

ASSUME DocsAssumption ==
    \A d \in Docs :
        /\ d.count \in Nat
        /\ d.rest \in Layers /\ \A i \in DOMAIN d.near : d.near[i] \in Layers

ASSUME RepliesAssumption == LoneReplies \union Replies \subseteq Seq(Piece)

VARIABLES
    pc,         \* where the run is
    doc,        \* the document: count, layer of each page near an end, rest
    skipping,   \* settings.COMPANION_SKIP_ENABLED
    pdf,        \* context.pdf_data is there
    text,       \* len(context.extracted_text)
    rendered,   \* the page numbers of rendered_pages
    texts,      \* how the page texts are had: not, in one go, page by page
    todo,       \* rendered pages not yet dealt with
    skipped,    \* pages skipped for the text they have
    reply,      \* the answer just read
    read,       \* the keys it gave a text for
    visuals,    \* visual_descriptions, by the page each is of
    technicals, \* technical_details, likewise
    described,  \* successful_pages
    companion,  \* what became of the companion
    sidecar     \* its metadataAttributes and companion_text

\* History, read by no step: the pages asked, with the keys each answered.
VARIABLE said

docVars == <<doc, skipping>>
pageVars == <<rendered, texts, todo, skipped>>
replyVars == <<reply, read, said>>
companionVars == <<visuals, technicals, described, companion>>
vars == <<pc, docVars, pdf, text, pageVars, replyVars, companionVars, sidecar>>

-----------------------------------------------------------------------------
(* The document.                                                            *)

\* Pages two or more away from both ends are alike.
Layer(i) == IF i \in DOMAIN doc.near THEN doc.near[i] ELSE doc.rest

Pages == 0..(doc.count - 1)

\* The separators extract_text puts before each page; a fourth digit is left
\* out, as a thousand of them are more than any limit without it.
Beyond(k) == IF doc.count > k THEN doc.count - k ELSE 0
SeparatorChars == 15 * doc.count + Beyond(0) + Beyond(9) + Beyond(99)

\* Over all pages; the others have none.
LayerChars ==
    Chars.sparse * Cardinality({i \in Pages : Layer(i) = "sparse"})
        + Chars.dense * Cardinality({i \in Pages : Layer(i) = "dense"})

TextChars == SeparatorChars + LayerChars

HasText(i) == Layer(i) \in {"sparse", "dense"}

\* load reads page after page up to the first text, and catches nothing.
LoadRaises ==
    \E i \in Pages : Layer(i) = "broken" /\ \A j \in 0..(i - 1) : ~HasText(j)

RequiredKeys == {"source_filename", "document_type", "extraction_confidence"}
OptionalKeys == {"drawing_number", "title", "discipline", "revision",
                 "building_zone", "project"}
MaxKeys == 10

\* _empty_sidecar takes the place of one that could not be built.
EmptySidecar == [built |-> FALSE, keys |-> RequiredKeys, companion |-> FALSE]

Init ==
    /\ pc = "load"
    /\ doc \in Docs /\ skipping \in BOOLEAN
    /\ pdf = FALSE /\ text = 0
    /\ rendered = <<>> /\ texts = "none" /\ todo = <<>> /\ skipped = {}
    /\ reply = <<>> /\ read = {} /\ said = [p \in {} |-> {}]
    /\ visuals = <<>> /\ technicals = <<>> /\ described = 0
    /\ companion = "pending"
    /\ sidecar = EmptySidecar

\* load also raises when the document cannot be opened or is encrypted; a
\* load that raises leaves the context without pdf_data.
Load ==
    /\ pc = "load"
    /\ pdf' \in {~LoadRaises, FALSE}
    /\ pc' = "extract"
    /\ UNCHANGED <<docVars, text, pageVars, replyVars, companionVars, sidecar>>

\* extract_text, called by stage 1; a failure is kept as the empty text.
ExtractText ==
    /\ pc = "extract"
    /\ text' \in {TextChars, 0}
    /\ pc' = "generate"
    /\ UNCHANGED <<docVars, pdf, pageVars, replyVars, companionVars, sidecar>>

-----------------------------------------------------------------------------
(* The pages of the companion.                                              *)

TextOnlyChars == 5000
TextOnlyPages == 10

\* Slip: one of the two conditions is enough.
IsTextOnlyByEither == text > TextOnlyChars \/ doc.count > TextOnlyPages

IsTextOnly == text > TextOnlyChars /\ doc.count > TextOnlyPages

\* _select_pages_to_render: equal numbers are dropped, equal pages are not.
SelectPages(n) ==
    (CASE n <= 0 -> <<>> [] n = 1 -> <<0>> [] OTHER -> <<0, 1>>)
        \o (IF n >= 4 THEN <<-2, -1>> ELSE <<>>)

ResolvePage(p) == IF p < 0 THEN doc.count + p ELSE p

\* A rendered page carries the number it was resolved to.
RenderPages(numbers) == [i \in DOMAIN numbers |-> ResolvePage(numbers[i])]

GiveUp(why) ==
    /\ companion' = why
    /\ pc' = "sidecar"
    /\ UNCHANGED <<visuals, technicals, described>>

Skip ==
    /\ pc = "generate"
    /\ \/ (~pdf \/ doc.count = 0) /\ GiveUp("empty")
       \/ pdf /\ doc.count > 0 /\ IsTextOnly /\ GiveUp("text_only")
    /\ UNCHANGED <<docVars, pdf, text, pageVars, replyVars, sidecar>>

\* One page that cannot be rendered fails all of them.
Render ==
    /\ pc = "generate" /\ pdf /\ doc.count > 0 /\ ~IsTextOnly
    /\ \/ /\ rendered' = RenderPages(SelectPages(doc.count))
          /\ todo' = rendered'
          /\ pc' = "texts"
          /\ UNCHANGED companionVars
       \/ /\ GiveUp("unrendered")
          /\ UNCHANGED <<rendered, todo>>
    /\ UNCHANGED <<docVars, pdf, text, texts, skipped, replyVars, sidecar>>

\* extract_page_texts opens the document once; if that raises, each page
\* opens it again.
FetchTexts ==
    /\ pc = "texts"
    /\ texts' \in IF skipping THEN {"batch", "single"} ELSE {"none"}
    /\ pc' = "page"
    /\ UNCHANGED <<docVars, pdf, text, rendered, todo, skipped, replyVars,
                   companionVars, sidecar>>

-----------------------------------------------------------------------------
(* The answer of the model: JsonResponseParser and _coerce_to_str.          *)

StripFences(r) ==
    IF r = <<>> \/ Head(r).kind # "fence"
    THEN r
    ELSE LET t == Tail(r) IN
         IF t # <<>> /\ Last(t).kind = "fence" THEN Front(t) ELSE t

\* The dict a text is; none if it is something else.
StrictJson(r) ==
    IF Len(r) = 1 /\ r[1].kind = "object" THEN {r[1].says} ELSE {}

\* From the first opening to the last closing brace.
SliceOuterBraces(r) ==
    LET opens == {i \in DOMAIN r : r[i].kind \in {"object", "torn", "braces"}}
        closes == {i \in DOMAIN r : r[i].kind \in {"object", "braces"}} IN
    IF \E i \in opens, j \in closes : i <= j
    THEN LET first == CHOOSE i \in opens : \A j \in opens : i <= j
             last == CHOOSE i \in closes : \A j \in closes : i >= j
         IN  SubSeq(r, first, last)
    ELSE <<>>

\* Pairs later in the text replace earlier ones.
PairsSeen(r, visible) ==
    LET Said(k) == {i \in DOMAIN r : k \in DOMAIN r[i].says
                                        /\ r[i].says[k] \in visible} IN
    [k \in {q \in Keys : Said(q) # {}} |->
        r[CHOOSE i \in Said(k) : \A j \in Said(k) : i >= j].says[k]]

\* The dicts a repair may end in; it may also end in none.
RepairJson(r) ==
    LET pairs == PairsSeen(r, Values) IN
    {[k \in d |-> pairs[k]] : d \in SUBSET DOMAIN pairs}

\* The pattern matches a string, a number or a literal; no list, no object.
RegexExtract(r) == PairsSeen(r, {"null", "blank", "words"})

\* Slip: the repair is tried on the whole text without looking for an object.
ParseWithoutSlice(r) ==
    LET cleaned == StripFences(r) IN
    IF StrictJson(cleaned) # {}
    THEN StrictJson(cleaned)
    ELSE RepairJson(cleaned) \union {RegexExtract(cleaned)}

\* Strict on the text, strict on the slice, repair of the slice, repair of
\* the text, and at last the pattern.
Parse(r) ==
    LET cleaned == StripFences(r)
        slice == SliceOuterBraces(cleaned) IN
    IF StrictJson(cleaned) # {} THEN StrictJson(cleaned)
    ELSE IF StrictJson(slice) # {} THEN StrictJson(slice)
    ELSE RepairJson(slice) \union RepairJson(cleaned)
            \union {RegexExtract(cleaned)}

\* A key the answer does not have is null by the schema.
Spoken(parsed) == {k \in DOMAIN parsed : parsed[k] \notin {"null", "blank"}}

-----------------------------------------------------------------------------
(* One page after the other.                                                *)

\* The text of page p has enough words: among the texts that were fetched
\* under these numbers, and had on its own, which may fail.
DenseInBatch(p, numbers) == p \in ToSet(numbers) /\ Layer(p) = "dense"
DenseOnItsOwn(p) == {Layer(p) = "dense", FALSE}

\* Slip: the texts are fetched under the numbers of the selection.
TextDominantBySelection(p) ==
    CASE texts = "none" -> {FALSE}
      [] texts = "batch" -> {DenseInBatch(p, SelectPages(doc.count))}
      [] texts = "single" -> DenseOnItsOwn(p)

TextDominant(p) ==
    CASE texts = "none" -> {FALSE}
      [] texts = "batch" -> {DenseInBatch(p, rendered)}
      [] texts = "single" -> DenseOnItsOwn(p)

SkipPage ==
    /\ pc = "page" /\ todo # <<>>
    /\ TRUE \in TextDominant(Head(todo))
    /\ skipped' = skipped \union {Head(todo)}
    /\ todo' = Tail(todo)
    /\ UNCHANGED <<pc, docVars, pdf, text, rendered, texts, replyVars,
                   companionVars, sidecar>>

AskPage ==
    /\ pc = "page" /\ todo # <<>>
    /\ FALSE \in TextDominant(Head(todo))
    /\ pc' = "asked" /\ reply' = <<>> /\ read' = {}
    /\ UNCHANGED <<docVars, pdf, text, pageVars, said, companionVars, sidecar>>

Note(p, keys) ==
    /\ read' = keys
    /\ said' = [q \in DOMAIN said \union {p} |-> IF q = p THEN keys ELSE said[q]]
    /\ visuals' = IF "visual_description" \in keys THEN Append(visuals, p)
                                                   ELSE visuals
    /\ technicals' = IF "technical_details" \in keys THEN Append(technicals, p)
                                                     ELSE technicals
    /\ described' = IF keys = {} THEN described ELSE described + 1

\* Slip: a call that raises ends the loop.
NoDescriptionAndStop ==
    /\ pc = "asked"
    /\ Note(Head(todo), {})
    /\ reply' = <<>>
    /\ todo' = <<>> /\ pc' = "page"
    /\ UNCHANGED <<docVars, pdf, text, rendered, texts, skipped, companion,
                   sidecar>>

\* The call to the vision model raises.
NoDescription ==
    /\ pc = "asked"
    /\ Note(Head(todo), {})
    /\ reply' = <<>>
    /\ todo' = Tail(todo) /\ pc' = "page"
    /\ UNCHANGED <<docVars, pdf, text, rendered, texts, skipped, companion,
                   sidecar>>

Describe ==
    /\ pc = "asked"
    /\ \E r \in IF doc.count = 1 THEN LoneReplies ELSE Replies :
          /\ reply' = r
          /\ \E parsed \in Parse(r) : Note(Head(todo), Spoken(parsed))
    /\ todo' = Tail(todo) /\ pc' = "page"
    /\ UNCHANGED <<docVars, pdf, text, rendered, texts, skipped, companion,
                   sidecar>>

\* Pages that were all skipped count as pages that all failed.
Assemble ==
    /\ pc = "page" /\ todo = <<>>
    /\ companion' = IF described = 0 THEN "silent" ELSE "generated"
    /\ pc' = "sidecar" /\ reply' = <<>> /\ read' = {}
    /\ UNCHANGED <<docVars, pdf, text, pageVars, said, visuals, technicals,
                   described, sidecar>>

-----------------------------------------------------------------------------
(* The sidecar.                                                             *)

\* What stage 1 fills; discipline, revision, zone and project stay None, and
\* what it fills is never blank.
Found == {"drawing_number", "title"}

\* Slip: without a type the attribute is None.
DocumentTypeAsFound(known) == IF known THEN "words" ELSE "null"

DocumentType(known) == IF known THEN "words" ELSE "unknown"

MergeWithBudget(found, known) ==
    [k \in RequiredKeys \union (OptionalKeys \intersect found) |->
        IF k = "document_type" THEN DocumentType(known) ELSE "words"]

\* _validate_schema; the confidence is clamped, and NaN passes both bounds.
SchemaAccepts(attributes) ==
    /\ RequiredKeys \subseteq DOMAIN attributes
    /\ DOMAIN attributes \subseteq RequiredKeys \union OptionalKeys
    /\ \A k \in DOMAIN attributes : attributes[k] \notin {"null", "blank"}

\* The sidecar is built, or stage 3 fails.
BuildSidecar ==
    /\ pc = "sidecar"
    /\ \E found \in SUBSET Found, known \in BOOLEAN :
          LET attributes == MergeWithBudget(found, known) IN
          sidecar' =
            IF Cardinality(DOMAIN attributes) <= MaxKeys
                 /\ SchemaAccepts(attributes)
            THEN [built |-> TRUE, keys |-> DOMAIN attributes,
                  companion |-> companion = "generated"]
            ELSE EmptySidecar
    /\ pc' = "done"
    /\ UNCHANGED <<docVars, pdf, text, pageVars, replyVars, companionVars>>

Next ==
    \/ Load \/ ExtractText \/ Skip \/ Render \/ FetchTexts
    \/ SkipPage \/ AskPage \/ NoDescription \/ Describe \/ Assemble
    \/ BuildSidecar

Spec == Init /\ [][Next]_vars

-----------------------------------------------------------------------------
(* Properties.                                                              *)

Companions == {"pending", "empty", "text_only", "unrendered", "silent",
               "generated"}

\* Every variable keeps its type; no more than four pages are described.
TypeOK ==
    /\ pc \in {"load", "extract", "generate", "texts", "page", "asked",
               "sidecar", "done"}
    /\ doc \in Docs /\ skipping \in BOOLEAN
    /\ pdf \in BOOLEAN /\ text \in Nat
    /\ ToSet(rendered) \subseteq Pages
    /\ ToSet(todo) \subseteq ToSet(rendered)
    /\ skipped \subseteq ToSet(rendered)
    /\ texts \in {"none", "batch", "single"}
    /\ read \subseteq Keys
    /\ DOMAIN said \subseteq ToSet(rendered)
    /\ \A p \in DOMAIN said : said[p] \subseteq Keys
    /\ described \in 0..4
    /\ companion \in Companions

\* No page is rendered twice, whatever mixture of first and last pages a short
\* document gives, and a document with more than three pages is seen from both
\* ends.  A page is spared the vision model only for words it has, and with the
\* heuristic on, one with enough words is described only when its text could not
\* be had in one go: pages are selected under numbers that may be negative, and
\* rendered, read and looked up under others.
EachPageOnce ==
    /\ TypeOK
    /\ \A i, j \in DOMAIN rendered : i # j => rendered[i] # rendered[j]
    /\ rendered # <<>> =>
          0 \in ToSet(rendered)
          /\ (doc.count > 3 => doc.count - 1 \in ToSet(rendered))
    /\ \A p \in skipped : skipping /\ Layer(p) = "dense"
    /\ \A p \in DOMAIN said : skipping /\ Layer(p) = "dense" => texts = "single"

\* The pages of a part of the companion: those that gave it, as they follow.
Gathers(pages, key) ==
    /\ ToSet(pages) = {p \in DOMAIN said : key \in said[p]}
    /\ \A i, j \in DOMAIN pages : i < j => pages[i] < pages[j]

\* Once the pages are rendered, each of them has its turn whatever the model
\* does to the others; the companion holds what each of them said, in the
\* order of the pages, and counts the pages that said something.
FailureStaysOnItsPage ==
    companion \in {"silent", "generated"} =>
        /\ ToSet(rendered) = skipped \union DOMAIN said
        /\ Gathers(visuals, "visual_description")
        /\ Gathers(technicals, "technical_details")
        /\ described = Cardinality({p \in DOMAIN said : said[p] # {}})

\* A document without any text on its pages is taken for a text document only
\* when the page separators alone exceed the limit: with 284 pages or more.
ScansAreDescribed ==
    companion = "text_only" =>
        \/ \E i \in Pages : HasText(i)
        \/ doc.count >= 284

\* An answer that holds one whole object, and no other brace, is read as that
\* object: fences, prose or lists around it neither lose a key of it nor turn
\* a list or an inner object of it into nothing.
AnswersAreReadWhole ==
    \A i \in DOMAIN reply :
        /\ reply[i].kind = "object"
        /\ \A j \in DOMAIN reply :
              j # i => reply[j].kind \in {"prose", "fence", "list"}
        => read = Spoken(reply[i].says)

\* Stage 3 never falls back to the empty sidecar: whatever stages 1 and 2
\* found passes the budget and the schema, and the companion goes with it
\* exactly if a page was described.
SidecarAlwaysBuilds ==
    pc = "done" =>
        /\ sidecar.built /\ Cardinality(sidecar.keys) <= MaxKeys
        /\ sidecar.companion = (\E p \in DOMAIN said : said[p] # {})

=============================================================================
