-------------------------- MODULE DocumentsProofs --------------------------
(***************************************************************************)
(* Proofs about Documents, for documents of any number of pages, whatever   *)
(* is on them, and any answers of the vision model.                         *)
(***************************************************************************)
EXTENDS Documents, FiniteSetTheorems, SequenceTheorems, TLAPS

-----------------------------------------------------------------------------
(* The inductive invariant.                                                 *)

\* The pages that had their turn: the first of the rendered ones.
Behind == Len(rendered) - Len(todo)
Turned == {rendered[i] : i \in 1..Behind}

TypesInv ==
    /\ pc \in {"load", "extract", "generate", "texts", "page", "asked",
               "sidecar", "done"}
    /\ doc \in Docs /\ skipping \in BOOLEAN /\ pdf \in BOOLEAN
    /\ text \in {0, TextChars}
    /\ texts \in {"none", "batch", "single"}
    /\ companion \in Companions

\* What the place of the run says of the pages.
PlacesInv ==
    /\ pc \in {"load", "extract", "generate"} => rendered = <<>>
    /\ pc \in {"load", "extract", "generate", "texts"} => texts = "none" /\ Turned = {}
    /\ pc \in {"texts", "page", "asked"} => rendered # <<>>
    /\ pc = "asked" => todo # <<>>
    /\ pc \in {"page", "asked"} => (skipping <=> texts # "none")

\* And of the companion.
CompanionInv ==
    /\ companion = "pending" <=> pc \notin {"sidecar", "done"}
    /\ companion \in {"empty", "text_only", "unrendered"} => rendered = <<>>
    /\ companion = "text_only" => IsTextOnly
    /\ companion \in {"silent", "generated"} => todo = <<>>
    /\ companion = "silent" => described = 0
    /\ companion = "generated" => described # 0

\* Each page that had its turn was spared for its text or asked about.
PagesInv ==
    /\ rendered # <<>> =>
          doc.count > 0 /\ rendered = RenderPages(SelectPages(doc.count))
    /\ todo \in Seq(Int) /\ Len(todo) <= Len(rendered)
    /\ \A i \in 1..Len(todo) : todo[i] = rendered[Behind + i]
    /\ skipped \union DOMAIN said = Turned
    /\ \A p \in skipped : skipping /\ Layer(p) = "dense"
    /\ \A p \in DOMAIN said : skipping /\ Layer(p) = "dense" => texts = "single"
    /\ pc = "asked" => (skipping /\ Layer(Head(todo)) = "dense" => texts = "single")

\* What was said so far is in the companion.
SaidInv ==
    /\ \A p \in DOMAIN said : said[p] \subseteq Keys
    /\ visuals \in Seq(Int) /\ Gathers(visuals, "visual_description")
    /\ technicals \in Seq(Int) /\ Gathers(technicals, "technical_details")
    /\ described = Cardinality({p \in DOMAIN said : said[p] # {}})
    /\ described + Len(todo) <= Len(rendered)

ReplyInv ==
    /\ read \subseteq Keys
    /\ pc # "page" => reply = <<>> /\ read = {}
    /\ reply # <<>> =>
          reply \in Seq(Piece) /\ \E parsed \in Parse(reply) : read = Spoken(parsed)

Inv ==
    /\ TypesInv /\ PlacesInv /\ CompanionInv /\ PagesInv /\ SaidInv /\ ReplyInv
    /\ SidecarAlwaysBuilds

-----------------------------------------------------------------------------
(* The pages that are rendered.                                             *)

LEMMA DocFacts ==
    ASSUME doc \in Docs
    PROVE  doc.count \in Nat /\ \A i \in Int : Layer(i) \in Layers
  BY DocsAssumption DEF Layer

\* One, two or four pages, from the first to the last without repetition.
LEMMA RenderedPages ==
    ASSUME doc.count \in Nat, doc.count > 0,
           NEW r, r = RenderPages(SelectPages(doc.count))
    PROVE  /\ Len(r) \in 1..4 /\ DOMAIN r = 1..Len(r)
           /\ \A i \in 1..Len(r) : r[i] \in Pages
           /\ \A i, j \in 1..Len(r) : i < j => r[i] < r[j]
           /\ 0 \in ToSet(r)
           /\ doc.count > 3 => doc.count - 1 \in ToSet(r)
<1> DEFINE n == doc.count
<1>1. CASE n = 1
  <2>1. SelectPages(n) = <<0>>
    BY <1>1 DEF SelectPages
  <2>2. Len(r) = 1 /\ DOMAIN r = 1..1 /\ r[1] = 0
    BY <2>1 DEF RenderPages, ResolvePage
  <2> QED
    BY <2>2, <1>1 DEF Pages, ToSet
<1>2. CASE n \in {2, 3}
  <2>1. SelectPages(n) = <<0, 1>>
    <3>1. n \in Nat /\ ~(n <= 0) /\ n # 1 /\ ~(n >= 4)
      BY <1>2
    <3>2. SelectPages(n) = <<0, 1>> \o <<>>
      BY <3>1, Zenon DEF SelectPages
    <3> QED
      BY <3>2, ConcatEmptySeq, <<0, 1>> \in Seq(Int)
  <2>2. DOMAIN r = 1..2 /\ r[1] = 0 /\ r[2] = 1
    BY <2>1 DEF RenderPages, ResolvePage
  <2>3. Len(r) = 2
    BY <2>1 DEF RenderPages
  <2> QED
    BY <2>2, <2>3, <1>2 DEF Pages, ToSet
<1>3. CASE n >= 4
  <2> DEFINE numbers == SelectPages(n)
  <2>1. /\ DOMAIN numbers = 1..4 /\ Len(numbers) = 4
        /\ numbers[1] = 0 /\ numbers[2] = 1 /\ numbers[3] = -2 /\ numbers[4] = -1
    <3>1. n \in Nat /\ ~(n <= 0) /\ n # 1
      BY <1>3
    <3>2. SelectPages(n) = <<0, 1>> \o <<-2, -1>>
      BY <3>1, <1>3, Zenon DEF SelectPages
    <3> DEFINE first == <<0, 1>>
               last == <<-2, -1>>
    <3>3. /\ first \in Seq(Int) /\ Len(first) = 2 /\ first[1] = 0 /\ first[2] = 1
          /\ last \in Seq(Int) /\ Len(last) = 2 /\ last[1] = -2 /\ last[2] = -1
      OBVIOUS
    <3>4. numbers = first \o last
      BY <3>2
    <3> HIDE DEF first, last, numbers
    <3>5. /\ numbers \in Seq(Int) /\ Len(numbers) = 4
          /\ \A i \in 1..4 : numbers[i] = IF i <= 2 THEN first[i] ELSE last[i - 2]
      <4>1. /\ numbers \in Seq(Int) /\ Len(numbers) = Len(first) + Len(last)
            /\ \A i \in 1..Len(first) + Len(last) :
                  numbers[i] = IF i <= Len(first) THEN first[i]
                                                  ELSE last[i - Len(first)]
        BY <3>3, <3>4, ConcatProperties, Zenon
      <4> QED
        BY <4>1, <3>3
    <3>6. /\ numbers[1] = first[1] /\ numbers[2] = first[2]
          /\ numbers[3] = last[1] /\ numbers[4] = last[2]
      BY <3>5
    <3>7. DOMAIN numbers = 1..4
      BY <3>5
    <3> QED
      BY <3>3, <3>5, <3>6, <3>7
  <2>2. DOMAIN r = 1..4 /\ r[1] = 0 /\ r[2] = 1 /\ r[3] = n - 2 /\ r[4] = n - 1
    BY <2>1, <1>3 DEF RenderPages, ResolvePage
  <2>3. Len(r) = 4
    BY <2>1 DEF RenderPages
  <2>4. \A i, j \in 1..4 : i < j => r[i] < r[j]
    BY <2>2, <1>3
  <2> QED
    BY <2>2, <2>3, <2>4, <1>3 DEF Pages, ToSet
<1> QED
  BY <1>1, <1>2, <1>3

\* The next page comes after all that had their turn.
LEMMA NextPage ==
    ASSUME doc \in Docs, PagesInv, todo # <<>>
    PROVE  /\ Head(todo) \in Pages /\ Head(todo) \in ToSet(rendered)
           /\ \A p \in Turned : p \in Pages /\ p \in Int /\ p < Head(todo)
           /\ Tail(todo) \in Seq(Int) /\ Len(Tail(todo)) = Len(todo) - 1
           /\ \A i \in 1..Len(Tail(todo)) : Tail(todo)[i] = todo[i + 1]
           /\ Head(todo) = rendered[Behind + 1]
           /\ Behind + 1 \in 1..Len(rendered) /\ Len(todo) > 0
           /\ Len(rendered) \in Nat
<1>1. /\ Len(todo) \in Nat \ {0} /\ Head(todo) = todo[1]
      /\ Tail(todo) \in Seq(Int) /\ Len(Tail(todo)) = Len(todo) - 1
      /\ \A i \in 1..Len(Tail(todo)) : Tail(todo)[i] = todo[i + 1]
  BY EmptySeq, HeadTailProperties DEF PagesInv
<1>2. rendered # <<>>
  BY <1>1 DEF PagesInv
<1>3. /\ Len(rendered) \in 1..4 /\ DOMAIN rendered = 1..Len(rendered)
      /\ \A i \in 1..Len(rendered) : rendered[i] \in Pages
      /\ \A i, j \in 1..Len(rendered) : i < j => rendered[i] < rendered[j]
  BY <1>2, RenderedPages, DocFacts DEF PagesInv
<1>4. Behind \in Nat /\ Behind + 1 \in 1..Len(rendered)
  BY <1>1, <1>3 DEF PagesInv, Behind
<1>5. Head(todo) = rendered[Behind + 1]
  BY <1>1, <1>4 DEF PagesInv
<1>6. \A i \in 1..Behind :
        rendered[i] \in Pages /\ rendered[i] \in Int /\ rendered[i] < Head(todo)
  <2>1. \A i \in 1..Behind : i \in 1..Len(rendered) /\ i < Behind + 1
    BY <1>3, <1>4
  <2>2. \A i \in 1..Len(rendered) : rendered[i] \in Int
    BY <1>3 DEF Pages
  <2> QED
    BY <1>3, <1>4, <1>5, <2>1, <2>2
<1> QED
  BY <1>1, <1>3, <1>4, <1>5, <1>6 DEF Turned, ToSet

\* All that had their turn are pages of the document.
LEMMA TurnedArePages ==
    ASSUME doc \in Docs, PagesInv
    PROVE  Turned \subseteq Pages /\ Turned \subseteq ToSet(rendered)
<1>1. Len(todo) \in Nat /\ Len(todo) <= Len(rendered)
  BY LenProperties DEF PagesInv
<1>2. CASE rendered = <<>>
  <2>1. ~(1 <= Behind)
    BY <1>1, <1>2 DEF Behind
  <2> QED
    BY <2>1, <1>1, <1>2 DEF Turned, Behind
<1>3. CASE rendered # <<>>
  <2>1. /\ Len(rendered) \in 1..4 /\ DOMAIN rendered = 1..Len(rendered)
        /\ \A i \in 1..Len(rendered) : rendered[i] \in Pages
    BY <1>3, RenderedPages, DocFacts DEF PagesInv
  <2>2. 1..Behind \subseteq 1..Len(rendered)
    BY <1>1, <2>1 DEF Behind
  <2> QED
    BY <2>1, <2>2 DEF Turned, ToSet
<1> QED
  BY <1>2, <1>3

\* A turn moves one page from those to do to those behind.
LEMMA OneTurn ==
    ASSUME doc \in Docs, PagesInv, todo # <<>>,
           rendered' = rendered, todo' = Tail(todo)
    PROVE  /\ Turned' = Turned \union {Head(todo)}
           /\ todo' \in Seq(Int) /\ Len(todo') <= Len(rendered')
           /\ \A i \in 1..Len(todo') : todo'[i] = rendered'[(Behind + i)']
           /\ Len(todo') = Len(todo) - 1
<1>1. Behind' = Behind + 1 /\ Behind \in Nat /\ Len(todo) \in Nat
  BY NextPage, LenProperties DEF Behind, PagesInv
<1>2. Turned' = Turned \union {Head(todo)}
  <2>1. 1..Behind' = 1..Behind \union {Behind + 1}
    BY <1>1
  <2>2. Turned' = {rendered[i] : i \in 1..Behind \union {Behind + 1}}
    BY <2>1 DEF Turned
  <2> QED
    BY <2>2, NextPage DEF Turned
<1>3. \A i \in 1..Len(todo') : todo'[i] = rendered'[(Behind + i)']
  <2> SUFFICES ASSUME NEW i \in 1..Len(todo')
               PROVE  todo'[i] = rendered[Behind' + i]
    OBVIOUS
  <2>1. i + 1 \in 1..Len(todo) /\ todo'[i] = todo[i + 1]
    BY <1>1, NextPage
  <2>2. todo[i + 1] = rendered[Behind + (i + 1)]
    BY <2>1 DEF PagesInv
  <2>3. Behind + (i + 1) = Behind' + i
    BY <1>1
  <2> QED
    BY <2>1, <2>2, <2>3
<1> QED
  BY <1>1, <1>2, <1>3, NextPage DEF PagesInv

-----------------------------------------------------------------------------
(* What the steps leave alone.                                              *)

\* The document is never changed, so neither is what is said of its pages.
LEMMA DocumentStays ==
    ASSUME [Next]_vars
    PROVE  /\ doc' = doc /\ skipping' = skipping
           /\ TextChars' = TextChars /\ Pages' = Pages
           /\ \A i : Layer(i)' = Layer(i)
<1>1. docVars' = docVars
  BY DEF vars, Next, Load, ExtractText, Skip, Render, FetchTexts, SkipPage, AskPage,
         NoDescription, Describe, Assemble, BuildSidecar
<1>2. doc' = doc /\ skipping' = skipping
  BY <1>1 DEF docVars
<1> QED
  BY <1>2 DEF TextChars, SeparatorChars, Beyond, LayerChars, Layer, Pages

\* The two kinds of steps that move pages, and the rest.
Turns == SkipPage \/ NoDescription \/ Describe

Renders ==
    /\ pc = "generate" /\ pc' = "texts"
    /\ doc.count > 0
    /\ rendered' = RenderPages(SelectPages(doc.count)) /\ todo' = rendered'
    /\ UNCHANGED <<texts, skipped, replyVars, companionVars>>

Rests ==
    \/ Load \/ ExtractText \/ Skip \/ FetchTexts \/ AskPage \/ Assemble
    \/ BuildSidecar \/ UNCHANGED vars
    \/ /\ pc = "generate" /\ GiveUp("unrendered")
       /\ UNCHANGED <<doc, skipping, pdf, text, rendered, texts, todo, skipped,
                      replyVars, sidecar>>

LEMMA StepKinds ==
    ASSUME [Next]_vars
    PROVE  \/ Turns \/ Renders \/ Rests
<1>1. CASE Render
  BY <1>1 DEF Render, Renders, Rests, docVars
<1> QED
  BY <1>1 DEF Next, Turns, Rests

\* At rest no page moves.
LEMMA RestsMoveNothing ==
    ASSUME Rests
    PROVE  /\ UNCHANGED <<rendered, todo, skipped, said, visuals, technicals, described>>
           /\ Turned' = Turned /\ Behind' = Behind
<1>1. UNCHANGED <<rendered, todo, skipped, said, visuals, technicals, described>>
  BY DEF Rests, Load, ExtractText, Skip, GiveUp, FetchTexts, AskPage, Assemble,
         BuildSidecar, vars, pageVars, replyVars, companionVars
<1> QED
  BY <1>1 DEF Turned, Behind

LEMMA RenderingStarts ==
    ASSUME doc \in Docs, Renders
    PROVE  /\ Len(rendered') \in 1..4 /\ Behind' = 0 /\ Turned' = {}
           /\ rendered' # <<>> /\ todo' \in Seq(Int)
<1>1. /\ Len(rendered') \in 1..4 /\ DOMAIN rendered' = 1..Len(rendered')
      /\ \A i \in 1..Len(rendered') : rendered'[i] \in Pages
  BY DocFacts, RenderedPages DEF Renders
<1>2. Behind' = 0
  BY <1>1 DEF Renders, Behind
<1>3. Turned' = {}
  BY <1>2 DEF Turned
<1>4. rendered' # <<>>
  BY <1>1
<1>5. rendered' \in [1..Len(rendered') -> Int]
  <2>1. \E f : rendered' = [i \in DOMAIN SelectPages(doc.count) |-> f[i]]
    <3> DEFINE f == [i \in DOMAIN SelectPages(doc.count) |->
                        ResolvePage(SelectPages(doc.count)[i])]
    <3>1. rendered' = [i \in DOMAIN SelectPages(doc.count) |-> f[i]]
      BY DEF Renders, RenderPages
    <3> QED
      BY <3>1
  <2>2. \A i \in 1..Len(rendered') : rendered'[i] \in Int
    BY <1>1 DEF Pages
  <2> QED
    BY <1>1, <2>1, <2>2
<1>6. todo' \in Seq(Int)
  BY <1>1, <1>5, IsASeq DEF Renders
<1> QED
  BY <1>1, <1>2, <1>3, <1>4, <1>6

-----------------------------------------------------------------------------
(* The beginning.                                                           *)

LEMMA InitInv == Init => Inv
<1> SUFFICES ASSUME Init PROVE Inv
  OBVIOUS
<1>1. TypesInv
  BY DEF Init, TypesInv, Companions
<1>2. Behind = 0 /\ Turned = {}
  <2>1. Behind = 0
    BY DEF Init, Behind
  <2> QED
    BY <2>1 DEF Turned
<1>3. PlacesInv
  BY <1>2 DEF Init, PlacesInv
<1>4. CompanionInv
  BY DEF Init, CompanionInv
<1>5. PagesInv
  BY <1>2 DEF Init, PagesInv
<1>6. SaidInv
  <2>1. {p \in DOMAIN said : said[p] # {}} = {} /\ DOMAIN said = {}
    BY DEF Init
  <2>2. described = Cardinality({p \in DOMAIN said : said[p] # {}})
    BY <2>1, FS_EmptySet DEF Init
  <2>3. Gathers(<<>>, "visual_description") /\ Gathers(<<>>, "technical_details")
    BY <2>1 DEF Gathers, ToSet
  <2>4. described + Len(todo) <= Len(rendered)
    BY DEF Init
  <2> QED
    BY <2>1, <2>2, <2>3, <2>4 DEF Init, SaidInv
<1>7. ReplyInv
  BY DEF Init, ReplyInv
<1>8. SidecarAlwaysBuilds
  BY DEF Init, SidecarAlwaysBuilds
<1> QED
  BY <1>1, <1>3, <1>4, <1>5, <1>6, <1>7, <1>8 DEF Inv

-----------------------------------------------------------------------------
(* Types and places.                                                        *)

LEMMA TypesKept == Inv /\ [Next]_vars => TypesInv'
<1> SUFFICES ASSUME Inv, [Next]_vars PROVE TypesInv'
  OBVIOUS
<1>1. /\ doc' \in Docs /\ skipping' \in BOOLEAN /\ TextChars' = TextChars
      /\ TypesInv
  BY DocumentStays DEF Inv, TypesInv
<1>2. pdf' \in BOOLEAN
  BY <1>1 DEF TypesInv, LoadRaises, vars, Next, Load, ExtractText, Skip, Render,
              FetchTexts, SkipPage, AskPage, NoDescription, Describe, Assemble,
              BuildSidecar
<1>3. text' \in {0, TextChars'}
  BY <1>1 DEF TypesInv, vars, Next, Load, ExtractText, Skip, Render,
              FetchTexts, SkipPage, AskPage, NoDescription, Describe, Assemble,
              BuildSidecar
<1>4. texts' \in {"none", "batch", "single"}
  BY <1>1 DEF TypesInv, vars, pageVars, Next, Load, ExtractText, Skip, Render,
              FetchTexts, SkipPage, AskPage, NoDescription, Describe, Assemble,
              BuildSidecar
<1>5. companion' \in Companions
  BY <1>1 DEF TypesInv, Companions, vars, companionVars, GiveUp, Next, Load,
              ExtractText, Skip, Render, FetchTexts, SkipPage, AskPage, NoDescription,
              Describe, Assemble, BuildSidecar
<1>6. pc' \in {"load", "extract", "generate", "texts", "page", "asked", "sidecar",
               "done"}
  BY <1>1 DEF TypesInv, vars, GiveUp, Next, Load, ExtractText, Skip, Render,
              FetchTexts, SkipPage, AskPage, NoDescription, Describe, Assemble,
              BuildSidecar
<1> QED
  BY <1>1, <1>2, <1>3, <1>4, <1>5, <1>6 DEF TypesInv

LEMMA PlacesKept == Inv /\ [Next]_vars => PlacesInv'
<1> SUFFICES ASSUME Inv, [Next]_vars PROVE PlacesInv'
  OBVIOUS
<1>1. PlacesInv /\ TypesInv /\ doc' = doc /\ skipping' = skipping
  BY DocumentStays DEF Inv
<1>2. CASE Turns
  BY <1>1, <1>2 DEF PlacesInv, Turns, SkipPage, NoDescription, Describe, Note
<1>3. CASE Renders
  BY <1>1, <1>3, RenderingStarts DEF PlacesInv, TypesInv, Renders
<1>4. CASE Rests
  <2>1. UNCHANGED <<rendered, todo>> /\ Turned' = Turned
    BY <1>4, RestsMoveNothing
  <2>2. CASE FetchTexts
    BY <2>1, <2>2, <1>1 DEF FetchTexts, PlacesInv, TypesInv
  <2>3. CASE ~FetchTexts
    <3>1. texts' = texts
      BY <1>4, <2>3 DEF Rests, Load, ExtractText, Skip, AskPage, Assemble,
                        BuildSidecar, vars, pageVars
    <3> QED
      BY <3>1, <2>1, <2>3, <1>1, <1>4
         DEF PlacesInv, Rests, Load, ExtractText, Skip, GiveUp, AskPage, Assemble,
             BuildSidecar, vars
  <2> QED
    BY <2>2, <2>3
<1> QED
  BY <1>2, <1>3, <1>4, StepKinds

LEMMA CompanionKept == Inv /\ [Next]_vars => CompanionInv'
<1> SUFFICES ASSUME Inv, [Next]_vars PROVE CompanionInv'
  OBVIOUS
<1>1. /\ CompanionInv /\ PlacesInv /\ TypesInv /\ doc' = doc
  BY DocumentStays DEF Inv
<1>2. CASE Turns
  BY <1>1, <1>2 DEF CompanionInv, TypesInv, Companions, Turns, SkipPage, NoDescription,
                    Describe, companionVars
<1>3. CASE Renders
  BY <1>1, <1>3 DEF CompanionInv, TypesInv, Companions, Renders, companionVars
<1>4. CASE Rests
  <2>1. UNCHANGED <<rendered, todo, described>>
    BY <1>4, RestsMoveNothing
  <2>2. CASE Skip \/ (pc = "generate" /\ GiveUp("unrendered") /\ text' = text)
    BY <2>1, <2>2, <1>1 DEF Skip, GiveUp, CompanionInv, PlacesInv, IsTextOnly
  <2>3. CASE Assemble
    BY <2>1, <2>3, <1>1 DEF Assemble, CompanionInv, PlacesInv
  <2>4. CASE Load \/ ExtractText \/ FetchTexts \/ AskPage \/ BuildSidecar \/ UNCHANGED vars
    <3>1. companion' = companion /\ (companion = "pending" \/ text' = text)
      BY <2>4, <1>1 DEF Load, ExtractText, FetchTexts, AskPage, BuildSidecar, vars,
                        companionVars, CompanionInv
    <3>2. pc' \notin {"sidecar", "done"} <=> pc \notin {"sidecar", "done"}
      BY <2>4 DEF Load, ExtractText, FetchTexts, AskPage, BuildSidecar, vars
    <3> QED
      BY <3>1, <3>2, <2>1, <1>1 DEF CompanionInv, IsTextOnly
  <2> QED
    BY <1>4, <2>2, <2>3, <2>4 DEF Rests
<1> QED
  BY <1>2, <1>3, <1>4, StepKinds

-----------------------------------------------------------------------------
(* Pages.                                                                   *)

\* What may be spared, and what is asked all the same.
LEMMA DenseFacts ==
    ASSUME TypesInv, NEW p
    PROVE  /\ TRUE \in TextDominant(p) => texts # "none" /\ Layer(p) = "dense"
           /\ FALSE \in TextDominant(p) /\ texts = "batch" /\ p \in ToSet(rendered)
                => Layer(p) # "dense"
  BY DEF TypesInv, TextDominant, DenseInBatch, DenseOnItsOwn

LEMMA PagesKept == Inv /\ [Next]_vars => PagesInv'
<1> SUFFICES ASSUME Inv, [Next]_vars PROVE PagesInv'
  OBVIOUS
<1>1. /\ TypesInv /\ PlacesInv /\ PagesInv /\ doc \in Docs
      /\ doc' = doc /\ skipping' = skipping /\ \A i : Layer(i)' = Layer(i)
  BY DocumentStays DEF Inv, TypesInv
<1>2. ASSUME rendered' = rendered, rendered # <<>>
      PROVE  doc'.count > 0 /\ rendered' = RenderPages(SelectPages(doc.count))'
  BY <1>1, <1>2 DEF PagesInv, RenderPages, ResolvePage, SelectPages
<1>3. CASE Turns
  <2>1. /\ rendered' = rendered /\ todo' = Tail(todo) /\ todo # <<>> /\ texts' = texts
        /\ pc' = "page"
    BY <1>1, <1>3 DEF Turns, SkipPage, NoDescription, Describe, PlacesInv
  <2>2. /\ Turned' = Turned \union {Head(todo)}
        /\ todo' \in Seq(Int) /\ Len(todo') <= Len(rendered')
        /\ \A i \in 1..Len(todo') : todo'[i] = rendered'[(Behind + i)']
    BY <2>1, <1>1, OneTurn
  <2>3. Head(todo) \in ToSet(rendered)
    BY <1>1, <2>1, NextPage
  <2>4. /\ skipped' \union DOMAIN said' = skipped \union DOMAIN said \union {Head(todo)}
        /\ \A p \in skipped' : skipping /\ Layer(p) = "dense"
        /\ \A p \in DOMAIN said' : skipping /\ Layer(p) = "dense" => texts = "single"
    <3>1. CASE SkipPage
      <4>1. texts # "none" /\ Layer(Head(todo)) = "dense" /\ skipping
        BY <3>1, <1>1, DenseFacts DEF SkipPage, PlacesInv
      <4>2. skipped' = skipped \union {Head(todo)} /\ said' = said
        BY <3>1 DEF SkipPage, replyVars
      <4> QED
        BY <4>1, <4>2, <1>1 DEF PagesInv
    <3>2. CASE NoDescription \/ Describe
      <4>1. skipped' = skipped /\ DOMAIN said' = DOMAIN said \union {Head(todo)}
        BY <3>2 DEF NoDescription, Describe, Note
      <4>2. skipping /\ Layer(Head(todo)) = "dense" => texts = "single"
        BY <3>2, <1>1 DEF NoDescription, Describe, PagesInv
      <4> QED
        BY <4>1, <4>2, <1>1 DEF PagesInv
    <3> QED
      BY <1>3, <3>1, <3>2 DEF Turns
  <2> QED
    BY <1>1, <1>2, <2>1, <2>2, <2>4 DEF PagesInv
<1>4. CASE Renders
  <2>1. /\ skipped = {} /\ DOMAIN said = {} /\ skipped' = skipped /\ said' = said
        /\ pc' = "texts"
    BY <1>1, <1>4 DEF Renders, PlacesInv, PagesInv, replyVars
  <2>2. /\ Turned' = {} /\ todo' \in Seq(Int) /\ todo' = rendered' /\ Behind' = 0
        /\ Len(rendered') \in 1..4
    BY <1>1, <1>4, RenderingStarts DEF Renders
  <2>3. doc'.count > 0 /\ rendered' = RenderPages(SelectPages(doc.count))'
    BY <1>1, <1>4 DEF Renders, RenderPages, ResolvePage, SelectPages
  <2>4. \A i \in 1..Len(todo') : todo'[i] = rendered'[(Behind + i)']
    BY <2>2
  <2> QED
    BY <2>1, <2>2, <2>3, <2>4 DEF PagesInv
<1>5. CASE Rests
  <2>1. UNCHANGED <<rendered, todo, skipped, said>> /\ Turned' = Turned /\ Behind' = Behind
    BY <1>5, RestsMoveNothing
  <2>2. \A p \in DOMAIN said' : skipping /\ Layer(p) = "dense" => texts' = "single"
    <3>1. texts' = texts \/ DOMAIN said = {}
      BY <1>1, <1>5 DEF Rests, Load, ExtractText, Skip, FetchTexts, AskPage, Assemble,
                        BuildSidecar, vars, pageVars, PlacesInv, PagesInv
    <3> QED
      BY <3>1, <2>1, <1>1 DEF PagesInv
  <2>3. pc' = "asked" => (skipping /\ Layer(Head(todo)) = "dense" => texts' = "single")
    <3>1. CASE AskPage
      <4>1. texts' = texts /\ Head(todo) \in ToSet(rendered)
               /\ (skipping <=> texts # "none")
        BY <1>1, <3>1, NextPage DEF AskPage, pageVars, PlacesInv
      <4>2. FALSE \in TextDominant(Head(todo))
        BY <3>1 DEF AskPage
      <4> QED
        BY <1>1, <4>1, <4>2, DenseFacts DEF TypesInv
    <3>2. CASE UNCHANGED vars
      BY <1>1, <3>2 DEF vars, pageVars, PagesInv
    <3>3. CASE ~AskPage /\ ~UNCHANGED vars
      BY <1>1, <1>5, <3>3 DEF Rests, Load, ExtractText, Skip, GiveUp, FetchTexts,
                              Assemble, BuildSidecar
    <3> QED
      BY <3>1, <3>2, <3>3
  <2>4. \A i \in 1..Len(todo') : todo'[i] = rendered'[(Behind + i)']
    BY <1>1, <2>1 DEF PagesInv
  <2> QED
    BY <1>1, <1>2, <2>1, <2>2, <2>3, <2>4 DEF PagesInv
<1> QED
  BY <1>3, <1>4, <1>5, StepKinds

-----------------------------------------------------------------------------
(* What is said.                                                            *)

\* A page that follows all others is added at the end.
LEMMA Lengthened ==
    ASSUME NEW pages \in Seq(Int), NEW p \in Int,
           \A q \in ToSet(pages) : q < p,
           \A i, j \in DOMAIN pages : i < j => pages[i] < pages[j]
    PROVE  /\ Append(pages, p) \in Seq(Int)
           /\ ToSet(Append(pages, p)) = ToSet(pages) \union {p}
           /\ \A i, j \in DOMAIN Append(pages, p) :
                 i < j => Append(pages, p)[i] < Append(pages, p)[j]
<1> DEFINE longer == Append(pages, p)
<1>1. /\ longer \in Seq(Int) /\ Len(longer) = Len(pages) + 1 /\ Len(pages) \in Nat
      /\ \A i \in 1..Len(pages) : longer[i] = pages[i]
      /\ longer[Len(pages) + 1] = p
  BY AppendProperties, LenProperties
<1>2. DOMAIN longer = 1..(Len(pages) + 1) /\ DOMAIN pages = 1..Len(pages)
  BY <1>1
<1> HIDE DEF longer
<1>3. ToSet(longer) = ToSet(pages) \union {p}
  BY <1>1, <1>2 DEF ToSet
<1>4. \A i \in 1..Len(pages) : pages[i] < p
  BY <1>2 DEF ToSet
<1>5. ASSUME NEW i \in DOMAIN longer, NEW j \in DOMAIN longer, i < j
      PROVE  longer[i] < longer[j]
  <2>1. i \in 1..Len(pages)
    BY <1>1, <1>2, <1>5
  <2>2. CASE j = Len(pages) + 1
    BY <2>1, <2>2, <1>1, <1>4
  <2>3. CASE j # Len(pages) + 1
    <3>1. j \in 1..Len(pages)
      BY <2>3, <1>1, <1>2
    <3> QED
      BY <2>1, <3>1, <1>1, <1>2, <1>5
  <2> QED
    BY <2>2, <2>3
<1> QED
  BY <1>1, <1>3, <1>5 DEF longer

\* Gathers, of what was said by then.
GathersOf(pages, key, answers) ==
    /\ ToSet(pages) = {q \in DOMAIN answers : key \in answers[q]}
    /\ \A i, j \in DOMAIN pages : i < j => pages[i] < pages[j]

LEMMA GatherNext ==
    ASSUME NEW pages \in Seq(Int), NEW key, NEW p \in Int, NEW keys, NEW answers,
           GathersOf(pages, key, said),
           \A q \in DOMAIN said : q < p,
           answers = [q \in DOMAIN said \union {p} |-> IF q = p THEN keys ELSE said[q]]
    PROVE  /\ key \notin keys => GathersOf(pages, key, answers)
           /\ key \in keys => /\ Append(pages, p) \in Seq(Int)
                              /\ GathersOf(Append(pages, p), key, answers)
<1>1. p \notin DOMAIN said
  OBVIOUS
<1>2. {q \in DOMAIN answers : key \in answers[q]}
        = {q \in DOMAIN said : key \in said[q]} \union (IF key \in keys THEN {p} ELSE {})
  BY <1>1
<1>3. ToSet(pages) = {q \in DOMAIN said : key \in said[q]}
      /\ \A i, j \in DOMAIN pages : i < j => pages[i] < pages[j]
  BY DEF GathersOf
<1>4. \A q \in ToSet(pages) : q < p
  BY <1>3
<1> QED
  BY <1>2, <1>3, <1>4, Lengthened DEF GathersOf

\* The pages that said something are finitely many.
LEMMA SaidCount ==
    ASSUME TypesInv, PagesInv, SaidInv
    PROVE  /\ IsFiniteSet({q \in DOMAIN said : said[q] # {}})
           /\ described = Cardinality({q \in DOMAIN said : said[q] # {}})
           /\ described \in Nat
<1>1. doc.count \in Nat
  BY DocFacts DEF TypesInv
<1>2. doc.count - 1 \in Int
  BY <1>1
<1>3. IsFiniteSet(Pages)
  BY <1>2, FS_Interval DEF Pages
<1>4. Turned \subseteq Pages
  BY TurnedArePages DEF TypesInv
<1>5. IsFiniteSet({q \in DOMAIN said : said[q] # {}})
  <2>1. {q \in DOMAIN said : said[q] # {}} \subseteq Pages
    BY <1>4 DEF PagesInv
  <2> QED
    BY <1>3, <2>1, FS_Subset
<1> QED
  BY <1>5, FS_CardinalityType DEF SaidInv

\* What is noted of a page goes to the end of each part, and is counted once.
LEMMA NoteKeepsSaid ==
    ASSUME Inv, todo # <<>>, NEW keys \in SUBSET Keys, Note(Head(todo), keys),
           rendered' = rendered, todo' = Tail(todo)
    PROVE  SaidInv'
<1> DEFINE p == Head(todo)
<1>1. /\ p \in Int /\ \A q \in DOMAIN said : q \in Int /\ q < p
      /\ Len(todo') = Len(todo) - 1
  <2>1. p \in Pages /\ \A q \in Turned : q \in Int /\ q < p
    BY NextPage DEF Inv, TypesInv
  <2>2. DOMAIN said \subseteq Turned
    BY DEF Inv, PagesInv
  <2> QED
    BY <2>1, <2>2, NextPage DEF Inv, TypesInv, Pages
<1>2. said' = [q \in DOMAIN said \union {p} |-> IF q = p THEN keys ELSE said[q]]
  BY DEF Note
<1>3. \A q \in DOMAIN said' : said'[q] \subseteq Keys
  BY <1>2 DEF Inv, SaidInv
<1>4. visuals' \in Seq(Int) /\ Gathers(visuals, "visual_description")'
  <2>1. visuals' = IF "visual_description" \in keys THEN Append(visuals, p) ELSE visuals
    BY DEF Note
  <2>2. visuals \in Seq(Int) /\ GathersOf(visuals, "visual_description", said)
    BY DEF Inv, SaidInv, Gathers, GathersOf
  <2> HIDE DEF p
  <2>3. visuals' \in Seq(Int) /\ GathersOf(visuals', "visual_description", said')
    BY <1>1, <1>2, <2>1, <2>2, GatherNext
  <2> QED
    BY <2>3 DEF Gathers, GathersOf, ToSet
<1>5. technicals' \in Seq(Int) /\ Gathers(technicals, "technical_details")'
  <2>1. technicals' = IF "technical_details" \in keys THEN Append(technicals, p) ELSE technicals
    BY DEF Note
  <2>2. technicals \in Seq(Int) /\ GathersOf(technicals, "technical_details", said)
    BY DEF Inv, SaidInv, Gathers, GathersOf
  <2> HIDE DEF p
  <2>3. technicals' \in Seq(Int) /\ GathersOf(technicals', "technical_details", said')
    BY <1>1, <1>2, <2>1, <2>2, GatherNext
  <2> QED
    BY <2>3 DEF Gathers, GathersOf, ToSet
<1>6. /\ described' = Cardinality({q \in DOMAIN said' : said'[q] # {}})
      /\ described' \in {described, described + 1} /\ described \in Nat
  <2> DEFINE S == {q \in DOMAIN said : said[q] # {}}
             T == {q \in DOMAIN said' : said'[q] # {}}
  <2>1. IsFiniteSet(S) /\ Cardinality(S) \in Nat /\ described = Cardinality(S)
    BY SaidCount DEF Inv
  <2>2. T = IF keys = {} THEN S ELSE S \union {p}
    <3>1. \A q \in DOMAIN said : q # p /\ said'[q] = said[q]
      BY <1>1, <1>2
    <3>2. DOMAIN said' = DOMAIN said \union {p} /\ said'[p] = keys
      BY <1>2
    <3> QED
      BY <3>1, <3>2
  <2>3. p \notin S
    BY <1>1
  <2>4. described' = IF keys = {} THEN described ELSE described + 1
    BY DEF Note
  <2> HIDE DEF S, T
  <2>5. Cardinality(S \union {p}) = Cardinality(S) + 1
    BY <2>1, <2>3, FS_AddElement
  <2>6. described' = Cardinality(T)
    BY <2>1, <2>2, <2>4, <2>5
  <2> QED
    BY <2>1, <2>4, <2>6 DEF T
<1>7. described' + Len(todo') <= Len(rendered')
  BY <1>1, <1>6, NextPage, LenProperties DEF Inv, SaidInv, PagesInv, TypesInv
<1> QED
  BY <1>3, <1>4, <1>5, <1>6, <1>7 DEF SaidInv

LEMMA SaidStays ==
    ASSUME SaidInv, UNCHANGED <<said, visuals, technicals, described>>,
           described + Len(todo') <= Len(rendered')
    PROVE  SaidInv'
  BY DEF SaidInv, Gathers

-----------------------------------------------------------------------------
(* Answers.                                                                 *)

\* The first and the last of some positions.
LEMMA EndsExist ==
    ASSUME NEW n \in Nat, NEW T \in SUBSET (1..n), T # {}
    PROVE  /\ \E i \in T : \A j \in T : i <= j
           /\ \E i \in T : \A j \in T : i >= j
<1>1. ASSUME NEW U \in SUBSET Nat, U # {}
      PROVE  \E i \in U : \A j \in U : i <= j
  <2>1. PICK i \in U : \A j \in U : <<j, i>> \notin OpToRel(<, Nat)
    BY <1>1, NatLessThanWellFounded, WFMin
  <2>2. \A j \in U : ~ (j < i)
    BY <2>1 DEF OpToRel
  <2> QED
    BY <2>2
<1>2. T \in SUBSET Nat
  OBVIOUS
<1>3. \E i \in T : \A j \in T : i >= j
  <2> DEFINE U == {n - i : i \in T}
  <2>1. U \in SUBSET Nat /\ U # {}
    <3>1. \A i \in T : n - i \in Nat
      OBVIOUS
    <3> QED
      BY <3>1
  <2>2. PICK u \in U : \A v \in U : u <= v
    BY <2>1, <1>1
  <2>3. PICK i \in T : u = n - i
    BY <2>2
  <2>4. \A j \in T : n - i <= n - j
    BY <2>2, <2>3
  <2>5. \A j \in T : i >= j
    BY <2>4
  <2> QED
    BY <2>5
<1> QED
  BY <1>1, <1>2, <1>3

LEMMA PieceFacts ==
    ASSUME NEW x \in Piece
    PROVE  DOMAIN x.says \subseteq Keys
  BY DEF Piece

LEMMA StripFencesTyped ==
    ASSUME NEW r \in Seq(Piece)
    PROVE  StripFences(r) \in Seq(Piece)
<1>1. CASE r = <<>> \/ Head(r).kind # "fence"
  BY <1>1 DEF StripFences
<1>2. CASE r # <<>> /\ Head(r).kind = "fence"
  <2> DEFINE t == Tail(r)
  <2>1. t \in Seq(Piece) /\ Len(t) \in Nat
    BY <1>2, HeadTailProperties, LenProperties
  <2>2. Front(t) \in Seq(Piece)
    <3>1. \A i \in 1..(Len(t) - 1) : t[i] \in Piece
      BY <2>1, ElementOfSeq
    <3> QED
      BY <2>1, <3>1, SubSeqProperties DEF Front
  <2> QED
    BY <1>2, <2>1, <2>2 DEF StripFences
<1> QED
  BY <1>1, <1>2

LEMMA SliceTyped ==
    ASSUME NEW r \in Seq(Piece)
    PROVE  SliceOuterBraces(r) \in Seq(Piece)
<1> DEFINE opens == {i \in DOMAIN r : r[i].kind \in {"object", "torn", "braces"}}
           closes == {i \in DOMAIN r : r[i].kind \in {"object", "braces"}}
           first == CHOOSE i \in opens : \A j \in opens : i <= j
           last == CHOOSE i \in closes : \A j \in closes : i >= j
<1>1. DOMAIN r = 1..Len(r) /\ Len(r) \in Nat
  BY LenProperties
<1>2. CASE \E i \in opens, j \in closes : i <= j
  <2>1. opens # {} /\ closes # {} /\ opens \in SUBSET (1..Len(r))
        /\ closes \in SUBSET (1..Len(r))
    BY <1>1, <1>2
  <2>2. SliceOuterBraces(r) = SubSeq(r, first, last)
    BY <1>2, Zenon DEF SliceOuterBraces
  <2> HIDE DEF opens, closes
  <2>3. first \in opens /\ last \in closes
    BY <1>1, <2>1, EndsExist
  <2>4. first \in 1..Len(r) /\ last \in 1..Len(r)
    BY <2>1, <2>3
  <2> HIDE DEF first, last
  <2>5. \A i \in first..last : r[i] \in Piece
    BY <1>1, <2>4, ElementOfSeq
  <2> QED
    BY <2>2, <2>4, <2>5, SubSeqProperties
<1>3. CASE ~\E i \in opens, j \in closes : i <= j
  <2>1. SliceOuterBraces(r) = <<>>
    BY <1>3, Zenon DEF SliceOuterBraces
  <2> QED
    BY <2>1
<1> QED
  BY <1>2, <1>3

LEMMA PairsTyped ==
    ASSUME NEW r, NEW visible
    PROVE  DOMAIN PairsSeen(r, visible) \subseteq Keys
  BY DEF PairsSeen

LEMMA StrictTyped ==
    ASSUME NEW r \in Seq(Piece), NEW parsed \in StrictJson(r)
    PROVE  DOMAIN parsed \subseteq Keys
<1>1. Len(r) = 1 /\ parsed = r[1].says
  BY DEF StrictJson
<1>2. r[1] \in Piece
  BY <1>1, ElementOfSeq
<1> QED
  BY <1>1, <1>2, PieceFacts

\* Whatever is made of an answer is a dict with keys of the schema.
LEMMA ParseTyped ==
    ASSUME NEW r \in Seq(Piece), NEW parsed \in Parse(r)
    PROVE  Spoken(parsed) \subseteq Keys
<1> DEFINE cleaned == StripFences(r)
           slice == SliceOuterBraces(cleaned)
<1>1. cleaned \in Seq(Piece) /\ slice \in Seq(Piece)
  BY StripFencesTyped, SliceTyped
<1>2. \/ parsed \in StrictJson(cleaned) \/ parsed \in StrictJson(slice)
      \/ parsed \in RepairJson(slice) \/ parsed \in RepairJson(cleaned)
      \/ parsed = RegexExtract(cleaned)
  BY DEF Parse
<1> HIDE DEF cleaned, slice
<1>3. ASSUME NEW x, parsed \in RepairJson(x) PROVE DOMAIN parsed \subseteq Keys
  BY <1>3, PairsTyped DEF RepairJson
<1>4. DOMAIN RegexExtract(cleaned) \subseteq Keys
  BY PairsTyped DEF RegexExtract
<1>5. DOMAIN parsed \subseteq Keys
  BY <1>1, <1>2, <1>3, <1>4, StrictTyped
<1> QED
  BY <1>5 DEF Spoken

\* One whole object, and beside it nothing with a brace.
LoneObject(r, i) ==
    /\ i \in DOMAIN r /\ r[i].kind = "object"
    /\ \A j \in DOMAIN r : j # i => r[j].kind \in {"prose", "fence", "list"}

LEMMA LoneObjectSlice ==
    ASSUME NEW r \in Seq(Piece), NEW i, LoneObject(r, i)
    PROVE  StrictJson(SliceOuterBraces(r)) = {r[i].says}
<1>1. DOMAIN r = 1..Len(r) /\ Len(r) \in Nat /\ i \in 1..Len(r)
  BY LenProperties DEF LoneObject
<1> DEFINE opens == {j \in DOMAIN r : r[j].kind \in {"object", "torn", "braces"}}
           closes == {j \in DOMAIN r : r[j].kind \in {"object", "braces"}}
<1>2. opens = {i} /\ closes = {i}
  BY DEF LoneObject
<1>3. (CHOOSE j \in opens : \A k \in opens : j <= k) = i
      /\ (CHOOSE j \in closes : \A k \in closes : j >= k) = i
  BY <1>1, <1>2
<1>4. SliceOuterBraces(r) = SubSeq(r, i, i)
  <2>1. \E j \in opens, k \in closes : j <= k
    BY <1>1, <1>2
  <2> QED
    BY <2>1, <1>3, Zenon DEF SliceOuterBraces
<1>5. Len(SubSeq(r, i, i)) = 1 /\ SubSeq(r, i, i)[1] = r[i]
  <2>1. \A j \in i..i : r[j] \in Piece
    BY <1>1, ElementOfSeq
  <2> QED
    BY <1>1, <2>1, SubSeqProperties
<1> QED
  BY <1>4, <1>5 DEF StrictJson, LoneObject

\* Taking the fences off leaves the object.
LEMMA LoneObjectStripped ==
    ASSUME NEW r \in Seq(Piece), NEW i, LoneObject(r, i)
    PROVE  \E k : LoneObject(StripFences(r), k) /\ StripFences(r)[k] = r[i]
<1>1. DOMAIN r = 1..Len(r) /\ Len(r) \in Nat /\ i \in 1..Len(r) /\ r # <<>>
  BY LenProperties DEF LoneObject
<1>2. CASE Head(r).kind # "fence"
  BY <1>2 DEF StripFences
<1>3. CASE Head(r).kind = "fence"
  <2> DEFINE t == Tail(r)
  <2>1. /\ t \in Seq(Piece) /\ Len(t) = Len(r) - 1
        /\ \A j \in 1..Len(t) : t[j] = r[j + 1]
    BY <1>1, HeadTailProperties
  <2>2. i # 1 /\ i - 1 \in 1..Len(t) /\ DOMAIN t = 1..Len(t) /\ Len(t) \in Nat
    <3>1. Head(r) = r[1]
      BY <1>1
    <3> QED
      BY <1>1, <1>3, <2>1, <3>1 DEF LoneObject
  <2>3. LoneObject(t, i - 1) /\ t[i - 1] = r[i]
    <3>1. t[i - 1] = r[i]
      BY <1>1, <2>1, <2>2
    <3>2. ASSUME NEW j \in 1..Len(t), j # i - 1
          PROVE  t[j].kind \in {"prose", "fence", "list"}
      <4>1. j + 1 \in DOMAIN r /\ j + 1 # i /\ t[j] = r[j + 1]
        BY <1>1, <2>1, <2>2, <3>2
      <4> QED
        BY <4>1 DEF LoneObject
    <3> QED
      BY <2>2, <3>1, <3>2 DEF LoneObject
  <2>4. CASE t # <<>> /\ Last(t).kind = "fence"
    <3>1. StripFences(r) = Front(t)
      BY <1>1, <1>3, <2>4 DEF StripFences
    <3>2. i - 1 # Len(t)
      BY <2>3, <2>4 DEF Last, LoneObject
    <3>3. /\ Front(t) \in Seq(Piece) /\ Len(Front(t)) = Len(t) - 1
          /\ \A j \in 1..(Len(t) - 1) : Front(t)[j] = t[j]
      <4>1. \A j \in 1..(Len(t) - 1) : t[j] \in Piece
        BY <2>1, <2>2, ElementOfSeq
      <4>2. Len(t) >= 1
        BY <2>2
      <4> QED
        BY <2>2, <4>1, <4>2, SubSeqProperties DEF Front
    <3>4. DOMAIN Front(t) = 1..(Len(t) - 1)
      BY <3>3
    <3>5. i - 1 \in 1..(Len(t) - 1)
      BY <2>2, <3>2
    <3>6. LoneObject(Front(t), i - 1)
      <4>1. \A j \in 1..(Len(t) - 1) : j \in DOMAIN t
        BY <2>2
      <4> QED
        BY <2>3, <3>3, <3>4, <3>5, <4>1 DEF LoneObject
    <3> QED
      BY <2>3, <3>1, <3>3, <3>5, <3>6
  <2>5. CASE ~(t # <<>> /\ Last(t).kind = "fence")
    <3>1. StripFences(r) = t
      BY <1>1, <1>3, <2>5 DEF StripFences
    <3> QED
      BY <2>3, <3>1
  <2> QED
    BY <2>4, <2>5
<1> QED
  BY <1>2, <1>3

\* So the ladder reads that object and nothing else.
LEMMA LoneObjectRead ==
    ASSUME NEW r \in Seq(Piece), NEW i, LoneObject(r, i)
    PROVE  Parse(r) = {r[i].says}
<1> DEFINE c == StripFences(r)
<1>1. PICK k : LoneObject(c, k) /\ c[k] = r[i]
  BY LoneObjectStripped
<1>2. c \in Seq(Piece)
  BY StripFencesTyped
<1>3. StrictJson(SliceOuterBraces(c)) = {r[i].says}
  BY <1>1, <1>2, LoneObjectSlice
<1>4. StrictJson(c) # {} => StrictJson(c) = {r[i].says}
  <2> SUFFICES ASSUME StrictJson(c) # {} PROVE StrictJson(c) = {r[i].says}
    OBVIOUS
  <2> HIDE DEF c
  <2>1. Len(c) = 1 /\ StrictJson(c) = {c[1].says}
    BY DEF StrictJson
  <2>2. k = 1
    BY <1>1, <1>2, <2>1 DEF LoneObject
  <2> QED
    BY <1>1, <2>1, <2>2
<1>5. StrictJson(SliceOuterBraces(c)) # {}
  BY <1>3
<1> QED
  BY <1>3, <1>4, <1>5 DEF Parse

-----------------------------------------------------------------------------
(* What was said, heard and built, step by step.                            *)

LEMMA SaidKept == Inv /\ [Next]_vars => SaidInv'
<1> SUFFICES ASSUME Inv, [Next]_vars PROVE SaidInv'
  OBVIOUS
<1>1. /\ TypesInv /\ PlacesInv /\ PagesInv /\ SaidInv /\ doc \in Docs
      /\ \A r \in LoneReplies \union Replies : r \in Seq(Piece)
  BY RepliesAssumption DEF Inv, TypesInv
<1>2. CASE SkipPage
  <2>1. /\ UNCHANGED <<said, visuals, technicals, described, rendered>>
        /\ todo' = Tail(todo) /\ todo # <<>>
    BY <1>2 DEF SkipPage, replyVars, companionVars
  <2>2. described + Len(todo') <= Len(rendered')
    <3>1. Len(todo') = Len(todo) - 1 /\ Len(todo) \in Nat /\ Len(rendered) \in Nat
      BY <2>1, <1>1, NextPage, LenProperties DEF PagesInv
    <3> QED
      BY <3>1, <2>1, <1>1, SaidCount DEF SaidInv
  <2> QED
    BY <1>1, <2>1, <2>2, SaidStays
<1>3. CASE NoDescription
  <2>1. /\ Note(Head(todo), {}) /\ rendered' = rendered /\ todo' = Tail(todo)
        /\ todo # <<>>
    BY <1>1, <1>3 DEF NoDescription, PlacesInv
  <2> QED
    BY <2>1, NoteKeepsSaid
<1>4. CASE Describe
  <2>1. rendered' = rendered /\ todo' = Tail(todo) /\ todo # <<>>
    BY <1>1, <1>4 DEF Describe, PlacesInv
  <2>2. PICK r \in LoneReplies \union Replies :
          \E parsed \in Parse(r) : Note(Head(todo), Spoken(parsed))
    BY <1>4 DEF Describe
  <2>3. PICK parsed \in Parse(r) : Note(Head(todo), Spoken(parsed))
    BY <2>2
  <2>4. Spoken(parsed) \in SUBSET Keys
    BY <1>1, ParseTyped
  <2> QED
    BY <2>1, <2>3, <2>4, NoteKeepsSaid
<1>5. CASE Renders
  <2>1. DOMAIN said = {} /\ UNCHANGED <<said, visuals, technicals, described>>
    BY <1>1, <1>5 DEF PlacesInv, PagesInv, Renders, replyVars, companionVars
  <2>2. described = 0
    <3>1. {p \in DOMAIN said : said[p] # {}} = {}
      BY <2>1
    <3> QED
      BY <3>1, <1>1, FS_EmptySet DEF SaidInv
  <2>3. Len(todo') = Len(rendered') /\ Len(rendered') \in Nat
    BY <1>1, <1>5, RenderingStarts DEF Renders
  <2> QED
    BY <1>1, <2>1, <2>2, <2>3, SaidStays
<1>6. CASE Rests
  <2>1. UNCHANGED <<rendered, todo, said, visuals, technicals, described>>
    BY <1>6, RestsMoveNothing
  <2>2. described + Len(todo') <= Len(rendered')
    BY <1>1, <2>1 DEF SaidInv
  <2> QED
    BY <1>1, <2>1, <2>2, SaidStays
<1> QED
  BY <1>2, <1>3, <1>4, <1>5, <1>6, StepKinds DEF Turns

LEMMA ReplyKept == Inv /\ [Next]_vars => ReplyInv'
<1> SUFFICES ASSUME Inv, [Next]_vars PROVE ReplyInv'
  OBVIOUS
<1>1. /\ PlacesInv /\ ReplyInv
      /\ \A r \in LoneReplies \union Replies : r \in Seq(Piece)
  BY RepliesAssumption DEF Inv
<1>2. CASE NoDescription
  BY <1>2 DEF NoDescription, Note, ReplyInv
<1>3. CASE Describe
  <2>1. PICK r \in LoneReplies \union Replies : /\ reply' = r
          /\ \E parsed \in Parse(r) : Note(Head(todo), Spoken(parsed))
    BY <1>3 DEF Describe
  <2>2. PICK parsed \in Parse(r) : Note(Head(todo), Spoken(parsed))
    BY <2>1
  <2>3. read' = Spoken(parsed) /\ pc' = "page"
    BY <1>3, <2>2 DEF Describe, Note
  <2>4. r \in Seq(Piece) /\ Spoken(parsed) \subseteq Keys
    BY <1>1, <2>2, ParseTyped
  <2> QED
    BY <2>1, <2>2, <2>3, <2>4 DEF ReplyInv
<1>4. CASE AskPage \/ Assemble
  BY <1>4 DEF AskPage, Assemble, ReplyInv
<1>5. CASE ~(NoDescription \/ Describe \/ AskPage \/ Assemble)
  <2>1. reply' = reply /\ read' = read
    BY <1>5 DEF Next, Load, ExtractText, Skip, Render, FetchTexts, SkipPage,
                BuildSidecar, vars, replyVars
  <2>2. pc' # "page" => pc # "page"
    BY <1>5 DEF Next, Load, ExtractText, Skip, Render, FetchTexts, SkipPage,
                BuildSidecar, GiveUp, vars
  <2>3. pc = "page" => pc' = "page" \/ reply = <<>>
    BY <1>5 DEF Next, Load, ExtractText, Skip, Render, FetchTexts, SkipPage,
                BuildSidecar, GiveUp, vars
  <2> QED
    BY <1>1, <2>1, <2>2, <2>3 DEF ReplyInv
<1> QED
  BY <1>2, <1>3, <1>4, <1>5

LEMMA OneMoreKey ==
    ASSUME NEW S, IsFiniteSet(S), NEW n \in Nat, Cardinality(S) <= n, NEW x
    PROVE  IsFiniteSet(S \union {x}) /\ Cardinality(S \union {x}) <= n + 1
<1>1. Cardinality(S) \in Nat
  BY FS_CardinalityType
<1>2. /\ IsFiniteSet(S \union {x})
      /\ Cardinality(S \union {x}) = IF x \in S THEN Cardinality(S) ELSE Cardinality(S) + 1
  BY FS_AddElement
<1> QED
  BY <1>1, <1>2

\* Three required keys and two found ones are far from the limit.
LEMMA AttributesFit ==
    ASSUME NEW S \in SUBSET (RequiredKeys \union Found)
    PROVE  Cardinality(S) <= MaxKeys
<1>1. IsFiniteSet({}) /\ Cardinality({}) <= 0
  BY FS_EmptySet
<1> DEFINE A == {} \union {"source_filename"}
           B == A \union {"document_type"}
           C == B \union {"extraction_confidence"}
           D == C \union {"drawing_number"}
           E == D \union {"title"}
<1>2. IsFiniteSet(A) /\ Cardinality(A) <= 1
  BY <1>1, OneMoreKey, 0 + 1 = 1
<1> HIDE DEF A
<1>3. IsFiniteSet(B) /\ Cardinality(B) <= 2
  BY <1>2, OneMoreKey, 1 + 1 = 2
<1> HIDE DEF B
<1>4. IsFiniteSet(C) /\ Cardinality(C) <= 3
  BY <1>3, OneMoreKey, 2 + 1 = 3
<1> HIDE DEF C
<1>5. IsFiniteSet(D) /\ Cardinality(D) <= 4
  BY <1>4, OneMoreKey, 3 + 1 = 4
<1> HIDE DEF D
<1>6. IsFiniteSet(E) /\ Cardinality(E) <= 5
  BY <1>5, OneMoreKey, 4 + 1 = 5
<1>7. RequiredKeys \union Found = E
  BY DEF RequiredKeys, Found, A, B, C, D
<1> HIDE DEF E
<1>8. IsFiniteSet(S) /\ Cardinality(S) <= Cardinality(E)
  BY <1>6, <1>7, FS_Subset
<1>9. Cardinality(S) \in Nat /\ Cardinality(E) \in Nat
  BY <1>6, <1>8, FS_CardinalityType
<1> QED
  BY <1>6, <1>8, <1>9 DEF MaxKeys

LEMMA AttributesAccepted ==
    ASSUME NEW found \in SUBSET Found, NEW known \in BOOLEAN
    PROVE  /\ Cardinality(DOMAIN MergeWithBudget(found, known)) <= MaxKeys
           /\ SchemaAccepts(MergeWithBudget(found, known))
<1> DEFINE attributes == MergeWithBudget(found, known)
<1>1. DOMAIN attributes = RequiredKeys \union (OptionalKeys \intersect found)
  BY DEF MergeWithBudget
<1>2. Cardinality(DOMAIN attributes) <= MaxKeys
  BY <1>1, AttributesFit
<1>3. \A k \in DOMAIN attributes : attributes[k] \in {"words", "unknown"}
  BY <1>1 DEF MergeWithBudget, DocumentType
<1> QED
  BY <1>1, <1>2, <1>3 DEF SchemaAccepts

\* The count of the pages that said something is zero if none did.
LEMMA CountTells ==
    ASSUME Inv
    PROVE  described # 0 <=> \E p \in DOMAIN said : said[p] # {}
<1> DEFINE S == {p \in DOMAIN said : said[p] # {}}
<1>1. described = Cardinality(S) /\ IsFiniteSet(S)
  BY SaidCount DEF Inv
<1>2. Cardinality(S) = 0 <=> S = {}
  BY <1>1, FS_EmptySet
<1> QED
  BY <1>1, <1>2

LEMMA SidecarKept == Inv /\ [Next]_vars => SidecarAlwaysBuilds'
<1> SUFFICES ASSUME Inv, [Next]_vars, pc' = "done"
             PROVE  /\ sidecar'.built /\ Cardinality(sidecar'.keys) <= MaxKeys
                    /\ sidecar'.companion = (\E p \in DOMAIN said' : said'[p] # {})
  BY DEF SidecarAlwaysBuilds
<1>1. CASE BuildSidecar
  <2>1. PICK found \in SUBSET Found, known \in BOOLEAN :
          LET attributes == MergeWithBudget(found, known) IN
          sidecar' =
            IF Cardinality(DOMAIN attributes) <= MaxKeys /\ SchemaAccepts(attributes)
            THEN [built |-> TRUE, keys |-> DOMAIN attributes,
                  companion |-> companion = "generated"]
            ELSE EmptySidecar
    BY <1>1 DEF BuildSidecar
  <2>2. sidecar' = [built |-> TRUE, keys |-> DOMAIN MergeWithBudget(found, known),
                    companion |-> companion = "generated"]
    BY <2>1, AttributesAccepted
  <2>3. companion = "generated" <=> \E p \in DOMAIN said : said[p] # {}
    <3>1. companion \in {"empty", "text_only", "unrendered", "silent", "generated"}
      BY <1>1 DEF BuildSidecar, Inv, TypesInv, CompanionInv, Companions
    <3>2. CASE companion \in {"silent", "generated"}
      BY <3>2, CountTells DEF Inv, CompanionInv
    <3>3. CASE companion \in {"empty", "text_only", "unrendered"}
      <4>1. rendered = <<>> /\ Len(todo) \in Nat /\ Len(todo) <= Len(rendered)
        BY <3>3, LenProperties DEF Inv, CompanionInv, PagesInv
      <4>2. Behind = 0
        BY <4>1 DEF Behind
      <4>3. DOMAIN said = {}
        BY <4>2 DEF Turned, Inv, PagesInv
      <4> QED
        BY <3>3, <4>3
    <3> QED
      BY <3>1, <3>2, <3>3
  <2>4. said' = said
    BY <1>1 DEF BuildSidecar, replyVars
  <2> QED
    BY <2>2, <2>3, <2>4, AttributesAccepted
<1>2. CASE UNCHANGED vars
  BY <1>2 DEF vars, replyVars, Inv, SidecarAlwaysBuilds
<1> QED
  BY <1>1, <1>2 DEF Next, Load, ExtractText, Skip, GiveUp, Render, FetchTexts, SkipPage,
                    AskPage, NoDescription, Describe, Assemble

LEMMA InvIsKept == Spec => []Inv
<1>1. Inv /\ [Next]_vars => Inv'
  BY TypesKept, PlacesKept, CompanionKept, PagesKept, SaidKept, ReplyKept, SidecarKept
     DEF Inv
<1> QED
  BY <1>1, InitInv, PTL DEF Spec

-----------------------------------------------------------------------------
(* What follows.                                                            *)

LEMMA TextIsNat ==
    ASSUME doc \in Docs
    PROVE  TextChars \in Nat
<1>1. doc.count \in Nat
  BY DocFacts
<1>2. IsFiniteSet(Pages)
  <2>1. doc.count - 1 \in Int
    BY <1>1
  <2> QED
    BY <2>1, FS_Interval DEF Pages
<1>3. ASSUME NEW l PROVE Cardinality({i \in Pages : Layer(i) = l}) \in Nat
  <2>1. {i \in Pages : Layer(i) = l} \subseteq Pages
    OBVIOUS
  <2>2. IsFiniteSet({i \in Pages : Layer(i) = l})
    BY <1>2, <2>1, FS_Subset
  <2> QED
    BY <2>2, FS_CardinalityType
<1>4. LayerChars \in Nat
  <2> DEFINE a == Cardinality({i \in Pages : Layer(i) = "sparse"})
             b == Cardinality({i \in Pages : Layer(i) = "dense"})
  <2>1. a \in Nat /\ b \in Nat
    BY <1>3
  <2>2. LayerChars = 100 * a + 1500 * b
    BY DEF LayerChars, Chars
  <2> HIDE DEF a, b
  <2> QED
    BY <2>1, <2>2
<1>5. SeparatorChars \in Nat
  BY <1>1 DEF SeparatorChars, Beyond
<1> QED
  BY <1>4, <1>5 DEF TextChars

LEMMA InvTyped == Inv => TypeOK
<1> SUFFICES ASSUME Inv PROVE TypeOK
  OBVIOUS
<1>1. TypesInv /\ PagesInv /\ SaidInv /\ doc \in Docs
  BY DEF Inv, TypesInv
<1>2. text \in Nat
  BY <1>1, TextIsNat DEF TypesInv
<1>3. /\ ToSet(rendered) \subseteq Pages /\ ToSet(todo) \subseteq ToSet(rendered)
      /\ described \in 0..4
  <2>1. Len(todo) \in Nat /\ DOMAIN todo = 1..Len(todo) /\ Len(todo) <= Len(rendered)
    BY <1>1, LenProperties DEF PagesInv
  <2>2. described \in Nat /\ described + Len(todo) <= Len(rendered)
    BY <1>1, SaidCount DEF SaidInv
  <2>3. CASE rendered = <<>>
    <3>1. DOMAIN todo = {} /\ DOMAIN rendered = {} /\ described = 0
      BY <2>1, <2>2, <2>3
    <3> QED
      BY <3>1 DEF ToSet
  <2>4. CASE rendered # <<>>
    <3>1. /\ Len(rendered) \in 1..4 /\ DOMAIN rendered = 1..Len(rendered)
          /\ \A i \in 1..Len(rendered) : rendered[i] \in Pages
      BY <1>1, <2>4, RenderedPages, DocFacts DEF PagesInv
    <3>2. \A i \in 1..Len(todo) : Behind + i \in 1..Len(rendered)
      BY <2>1, <3>1 DEF Behind
    <3>3. \A i \in 1..Len(todo) : todo[i] = rendered[Behind + i]
      BY <1>1 DEF PagesInv
    <3>4. ToSet(todo) \subseteq ToSet(rendered)
      BY <2>1, <3>1, <3>2, <3>3 DEF ToSet
    <3>5. described \in 0..4
      BY <2>1, <2>2, <3>1
    <3> QED
      BY <3>1, <3>4, <3>5 DEF ToSet
  <2> QED
    BY <2>3, <2>4
<1>4. skipped \subseteq ToSet(rendered) /\ DOMAIN said \subseteq ToSet(rendered)
  BY <1>1, TurnedArePages DEF PagesInv
<1>5. read \subseteq Keys /\ \A p \in DOMAIN said : said[p] \subseteq Keys
  BY DEF Inv, ReplyInv, SaidInv
<1> QED
  BY <1>1, <1>2, <1>3, <1>4, <1>5 DEF TypesInv, TypeOK

\* No page has two turns, both ends of a longer document have one, and a page
\* goes without the vision model only for the words it has: for documents of any
\* number of pages, with anything on them.
THEOREM PagesHaveOneTurn == Spec => []EachPageOnce
<1>1. Inv => EachPageOnce
  <2> SUFFICES ASSUME Inv PROVE EachPageOnce
    OBVIOUS
  <2>1. TypeOK /\ PagesInv /\ doc \in Docs
    BY InvTyped DEF Inv, TypesInv
  <2>2. CASE rendered = <<>>
    BY <2>1, <2>2 DEF EachPageOnce, PagesInv
  <2>3. CASE rendered # <<>>
    <3>1. /\ DOMAIN rendered = 1..Len(rendered) /\ Len(rendered) \in Nat
          /\ \A i \in 1..Len(rendered) : rendered[i] \in Pages
          /\ \A i, j \in 1..Len(rendered) : i < j => rendered[i] < rendered[j]
          /\ 0 \in ToSet(rendered)
          /\ doc.count > 3 => doc.count - 1 \in ToSet(rendered)
      BY <2>1, <2>3, RenderedPages, DocFacts DEF PagesInv
    <3>2. ASSUME NEW i \in DOMAIN rendered, NEW j \in DOMAIN rendered, i # j
          PROVE  rendered[i] # rendered[j]
      <4>1. i \in Nat /\ j \in Nat /\ rendered[i] \in Int /\ rendered[j] \in Int
        BY <3>1 DEF Pages
      <4>2. i < j \/ j < i
        BY <4>1, <3>2
      <4>3. rendered[i] < rendered[j] \/ rendered[j] < rendered[i]
        BY <3>1, <4>2
      <4> QED
        BY <4>1, <4>3
    <3> QED
      BY <2>1, <3>1, <3>2 DEF EachPageOnce, PagesInv
  <2> QED
    BY <2>2, <2>3
<1> QED
  BY <1>1, InvIsKept, PTL

\* Whatever the vision model fails on, every rendered page has its turn, and
\* the companion holds what the others said, in the order of the pages.
THEOREM FailuresStayOnTheirPage == Spec => []FailureStaysOnItsPage
<1>1. Inv => FailureStaysOnItsPage
  <2> SUFFICES ASSUME Inv, companion \in {"silent", "generated"}
               PROVE  /\ ToSet(rendered) = skipped \union DOMAIN said
                      /\ Gathers(visuals, "visual_description")
                      /\ Gathers(technicals, "technical_details")
                      /\ described = Cardinality({p \in DOMAIN said : said[p] # {}})
    BY DEF FailureStaysOnItsPage
  <2>1. todo = <<>> /\ PagesInv /\ SaidInv /\ doc \in Docs
    BY DEF Inv, CompanionInv, TypesInv
  <2>2. Turned = ToSet(rendered)
    <3>1. CASE rendered = <<>>
      <4>1. Behind = 0 /\ DOMAIN rendered = {}
        BY <2>1, <3>1 DEF Behind
      <4> QED
        BY <4>1 DEF Turned, ToSet
    <3>2. CASE rendered # <<>>
      <4>1. Len(rendered) \in 1..4 /\ DOMAIN rendered = 1..Len(rendered)
        BY <2>1, <3>2, RenderedPages, DocFacts DEF PagesInv
      <4>2. Behind = Len(rendered)
        BY <2>1, <4>1 DEF Behind
      <4> QED
        BY <4>1, <4>2 DEF Turned, ToSet
    <3> QED
      BY <3>1, <3>2
  <2> QED
    BY <2>1, <2>2 DEF PagesInv, SaidInv
<1> QED
  BY <1>1, InvIsKept, PTL

\* Scans of up to 283 pages are never taken for text, whatever else is done
\* with them.
THEOREM ScansStayDescribed == Spec => []ScansAreDescribed
<1>1. Inv => ScansAreDescribed
  <2> SUFFICES ASSUME Inv, companion = "text_only", ~\E i \in Pages : HasText(i)
               PROVE  doc.count >= 284
    BY DEF ScansAreDescribed
  <2>1. doc.count \in Nat /\ text > 5000 /\ text \in {0, TextChars}
    BY DocFacts DEF Inv, TypesInv, CompanionInv, IsTextOnly, TextOnlyChars
  <2>2. TextChars > 5000
    BY <2>1
  <2>3. LayerChars = 0
    <3>1. {i \in Pages : Layer(i) = "sparse"} = {} /\ {i \in Pages : Layer(i) = "dense"} = {}
      BY DEF HasText
    <3>2. LayerChars = 100 * 0 + 1500 * 0
      BY <3>1, FS_EmptySet DEF LayerChars, Chars
    <3> QED
      BY <3>2
  <2>4. SeparatorChars > 5000
    BY <2>1, <2>2, <2>3 DEF TextChars, SeparatorChars, Beyond
  <2> QED
    BY <2>1, <2>4 DEF SeparatorChars, Beyond
<1> QED
  BY <1>1, InvIsKept, PTL

\* One whole object in an answer, with no other brace in it, is what the parser
\* returns, whatever fences, prose and lists are around it and however long.
THEOREM WholeObjectsAreRead == Spec => []AnswersAreReadWhole
<1>1. Inv => AnswersAreReadWhole
  <2> SUFFICES ASSUME Inv, NEW i \in DOMAIN reply, LoneObject(reply, i)
               PROVE  read = Spoken(reply[i].says)
    BY DEF AnswersAreReadWhole, LoneObject
  <2>1. reply # <<>>
    OBVIOUS
  <2>2. reply \in Seq(Piece) /\ \E parsed \in Parse(reply) : read = Spoken(parsed)
    BY <2>1 DEF Inv, ReplyInv
  <2>3. Parse(reply) = {reply[i].says}
    BY <2>2, LoneObjectRead
  <2> QED
    BY <2>2, <2>3
<1> QED
  BY <1>1, InvIsKept, PTL

\* Stage 3 builds a sidecar whatever the stages before it found, and it has the
\* companion if and only if a page was described.
THEOREM SidecarsAreBuilt == Spec => []SidecarAlwaysBuilds
<1>1. Inv => SidecarAlwaysBuilds
  BY DEF Inv
<1> QED
  BY <1>1, InvIsKept, PTL

=============================================================================
