--------------------------- MODULE HarnessProofs ---------------------------
(***************************************************************************)
(* Proofs about Harness, for corpora of any size, ladders of any length and *)
(* any number of iterations.                                                *)
(***************************************************************************)
EXTENDS Harness, FiniteSetTheorems, SequenceTheorems, TLAPS


-----------------------------------------------------------------------------
(* Arithmetic and sorting.                                                  *)

LEMMA ProductsGrow ==
    ASSUME NEW a \in Nat, NEW b \in Nat, a <= b, NEW n \in Nat
    PROVE  /\ a * n \in Nat /\ b * n \in Nat
           /\ a * n <= b * n
           /\ (a + 1) * n = a * n + n
<1>1. b - a \in Nat /\ b = a + (b - a)
  OBVIOUS
<1>2. (a + (b - a)) * n = a * n + (b - a) * n
  BY <1>1
<1>3. (b - a) * n \in Nat
  BY <1>1
<1> QED
  BY <1>1, <1>2, <1>3

LEMMA LeastExists ==
    ASSUME NEW T \in SUBSET Nat, T # {}
    PROVE  \E n \in T : \A m \in T : n <= m
<1>1. PICK n \in T : \A m \in T : <<m, n>> \notin OpToRel(<, Nat)
  BY NatLessThanWellFounded, WFMin
<1>2. \A m \in T : ~ (m < n)
  BY <1>1 DEF OpToRel
<1> QED
  BY <1>2

\* A finite set of numbers has a bound: were there none, the numbering of its
\* members would have a first part without one.
LEMMA FiniteIsBounded ==
    ASSUME NEW S, IsFiniteSet(S), NEW value \in [S -> Nat]
    PROVE  \E b \in Nat : \A i \in S : value[i] <= b
<1>1. PICK n \in Nat : ExistsSurjection(1..n, S)
  BY FS_NatSurjection
<1>2. PICK f \in Surjection(1..n, S) : TRUE
  BY <1>1 DEF ExistsSurjection
<1>3. /\ f \in [1..n -> S]
      /\ \A i \in S : \E k \in 1..n : f[k] = i
  BY <1>2 DEF Surjection
<1> DEFINE Bounds(m, b) == \A k \in 1..m : value[f[k]] <= b
           Bounded(m) == \E b \in Nat : Bounds(m, b)
           T == {m \in 0..n : ~ Bounded(m)}
<1>4. T = {}
  <2> SUFFICES ASSUME T # {} PROVE FALSE
    OBVIOUS
  <2> HIDE DEF Bounded
  <2>1. PICK m \in T : \A k \in T : m <= k
    <3>1. T \in SUBSET Nat
      OBVIOUS
    <3> QED
      BY <3>1, LeastExists
  <2>2. m \in 0..n /\ m # 0
    <3>1. Bounds(0, 0)
      OBVIOUS
    <3>2. Bounded(0)
      BY <3>1 DEF Bounded
    <3> QED
      BY <3>2, <2>1
  <2>3. m - 1 \in 0..n /\ ~ (m <= m - 1)
    BY <2>2
  <2>4. Bounded(m - 1)
    BY <2>1, <2>3
  <2>5. PICK b \in Nat : Bounds(m - 1, b)
    BY <2>4 DEF Bounded
  <2>6. \A k \in 1..m : value[f[k]] \in Nat
    BY <1>3, <2>2
  <2> DEFINE c == IF b <= value[f[m]] THEN value[f[m]] ELSE b
  <2>7. value[f[m]] \in Nat
    BY <2>2, <2>6
  <2>8. c \in Nat /\ b <= c /\ value[f[m]] <= c
    BY <2>7
  <2>9. Bounds(m, c)
    <3> HIDE DEF c
    <3> SUFFICES ASSUME NEW k \in 1..m PROVE value[f[k]] <= c
      OBVIOUS
    <3>1. CASE k = m
      BY <3>1, <2>8
    <3>2. CASE k # m
      <4>1. k \in 1..(m - 1)
        BY <3>2, <2>2
      <4>2. value[f[k]] <= b
        BY <4>1, <2>5
      <4> QED
        BY <4>2, <2>6, <2>8
    <3> QED
      BY <3>1, <3>2
  <2>10. Bounded(m)
    <3> HIDE DEF c, Bounds
    <3> QED
      BY <2>8, <2>9 DEF Bounded
  <2> QED
    BY <2>1, <2>10
<1>5. PICK b \in Nat : \A k \in 1..n : value[f[k]] <= b
  <2>1. Bounded(n)
    <3> HIDE DEF Bounded
    <3> QED
      BY <1>4
  <2> QED
    BY <2>1
<1> QED
  BY <1>3, <1>5

\* The places of D with a value below v, and with one that is not above it.
Under(D, values, v) == {i \in D : values[i] < v}
NotOver(D, values, v) == {i \in D : values[i] <= v}

\* sorted(): there is a k-th value, and Ascending finds it.
LEMMA AscendingOrders ==
    ASSUME NEW D, IsFiniteSet(D), NEW values \in [D -> Nat]
    PROVE  /\ Ascending(values) \in Seq({values[i] : i \in D})
           /\ Len(Ascending(values)) = Cardinality(D)
           /\ \A k \in 1..Cardinality(D) :
                 /\ Cardinality(Under(D, values, Ascending(values)[k])) < k
                 /\ Cardinality(NotOver(D, values, Ascending(values)[k])) >= k
<1> DEFINE Below(v) == {i \in D : values[i] < v}
           UpTo(v) == {i \in D : values[i] <= v}
           Found(k, v) == Cardinality(Below(v)) < k /\ Cardinality(UpTo(v)) >= k
<1>1. Cardinality(D) \in Nat
  BY FS_CardinalityType
<1>2. DOMAIN values = D
  OBVIOUS
<1>3. ASSUME NEW k \in 1..Cardinality(D)
      PROVE  \E v \in {values[i] : i \in D} : Found(k, v)
  <2> DEFINE T == {v \in Nat : Cardinality(UpTo(v)) >= k}
  <2>1. \E b \in Nat : \A i \in D : values[i] <= b
    BY FiniteIsBounded
  <2>2. T # {}
    <3>1. PICK b \in Nat : \A i \in D : values[i] <= b
      BY <2>1
    <3>2. UpTo(b) = D
      BY <3>1
    <3>3. Cardinality(UpTo(b)) >= k
      BY <3>2, <1>1
    <3> QED
      BY <3>1, <3>3
  <2>3. PICK v \in T : \A w \in T : v <= w
    <3>1. T \in SUBSET Nat
      OBVIOUS
    <3> HIDE DEF T
    <3> QED
      BY <2>2, <3>1, LeastExists
  <2>4. IsFiniteSet(Below(v)) /\ Cardinality(Below(v)) \in Nat
    <3>1. Below(v) \in SUBSET D
      OBVIOUS
    <3> QED
      BY <3>1, FS_Subset, FS_CardinalityType
  <2>5. Cardinality(Below(v)) < k
    <3>1. CASE v = 0
      <4>1. Below(v) = {}
        BY <3>1
      <4> QED
        BY <4>1, FS_EmptySet
    <3>2. CASE v # 0
      <4>1. v - 1 \in Nat /\ ~ (v <= v - 1)
        BY <2>3, <3>2
      <4>2. v - 1 \notin T
        BY <2>3, <4>1
      <4>3. Below(v) = UpTo(v - 1)
        <5>1. \A i \in D : values[i] \in Nat
          OBVIOUS
        <5>2. \A i \in D : values[i] < v <=> values[i] <= v - 1
          BY <5>1, <2>3, <4>1
        <5> QED
          BY <5>2
      <4>4. ~ (Cardinality(Below(v)) >= k)
        <5> HIDE DEF Below, UpTo
        <5> QED
          BY <4>1, <4>2, <4>3
      <4> QED
        BY <2>4, <4>4
    <3> QED
      BY <3>1, <3>2
  <2>6. v \in {values[i] : i \in D}
    <3> SUFFICES ASSUME v \notin {values[i] : i \in D} PROVE FALSE
      OBVIOUS
    <3>1. \A i \in D : values[i] \in Nat /\ values[i] # v
      OBVIOUS
    <3>2. Below(v) = UpTo(v)
      BY <3>1, <2>3
    <3> QED
      BY <3>2, <2>3, <2>4, <2>5
  <2> QED
    BY <2>3, <2>5, <2>6
<1>4. Ascending(values) =
        [k \in 1..Cardinality(D) |-> CHOOSE v \in {values[i] : i \in D} : Found(k, v)]
  BY <1>2 DEF Ascending
<1> DEFINE s == [k \in 1..Cardinality(D) |->
                    CHOOSE v \in {values[i] : i \in D} : Found(k, v)]
<1>5. \A k \in 1..Cardinality(D) : s[k] \in {values[i] : i \in D} /\ Found(k, s[k])
  <2> HIDE DEF Found
  <2> QED
    BY <1>3
<1>6. s \in Seq({values[i] : i \in D}) /\ Len(s) = Cardinality(D)
  <2> DEFINE R == {values[i] : i \in D}
  <2>1. s \in [1..Cardinality(D) -> R]
    <3>1. \A k \in 1..Cardinality(D) : s[k] \in R
      BY <1>5
    <3> QED
      BY <3>1
  <2> HIDE DEF s, R
  <2>2. s \in Seq(R) /\ Len(s) = Cardinality(D)
    BY <1>1, <2>1
  <2> QED
    BY <2>2 DEF R
<1>7. \A k \in 1..Cardinality(D) :
        /\ Cardinality(Under(D, values, s[k])) < k
        /\ Cardinality(NotOver(D, values, s[k])) >= k
  <2> SUFFICES ASSUME NEW k \in 1..Cardinality(D)
               PROVE  /\ Cardinality(Under(D, values, s[k])) < k
                      /\ Cardinality(NotOver(D, values, s[k])) >= k
    OBVIOUS
  <2> DEFINE v == s[k]
  <2>1. Found(k, v)
    BY <1>5
  <2> HIDE DEF s, v
  <2>2. Under(D, values, v) = Below(v) /\ NotOver(D, values, v) = UpTo(v)
    BY DEF Under, NotOver
  <2>3. Cardinality(Under(D, values, v)) < k /\ Cardinality(NotOver(D, values, v)) >= k
    <3> HIDE DEF Below, UpTo
    <3> QED
      BY <2>1, <2>2
  <2> QED
    BY <2>3 DEF v
<1> QED
  <2> HIDE DEF s
  <2>1. Ascending(values) = s
    BY <1>4 DEF s
  <2> QED
    BY <1>6, <1>7, <2>1

-----------------------------------------------------------------------------
(* Typing.                                                                  *)

\* The corpus of a directory: its drawings in the order of their numbers.
LEMMA CorpusIsFiles == \A c \in Discovered : c \in Seq(Files)
<1> DEFINE S == {f \in Files : Suffix[f] = ".pdf"}
           values == [f \in S |-> f]
<1>1. IsFiniteSet(S)
  <2>1. S \in SUBSET Files
    OBVIOUS
  <2> QED
    BY <2>1, FilesAreNumbers, FS_Subset
<1>2. values \in [S -> Nat] /\ {values[i] : i \in S} \in SUBSET Files
  BY FilesAreNumbers
<1>3. Sorted(S) \in Seq(Files)
  <2> HIDE DEF S
  <2>1. Ascending(values) \in Seq({values[i] : i \in S})
    <3> HIDE DEF values
    <3> QED
      BY <1>1, <1>2, AscendingOrders
  <2>2. Ascending(values) \in Seq(Files)
    <3> HIDE DEF values
    <3> QED
      BY <1>2, <2>1, SeqMonotonic
  <2> QED
    BY <2>2 DEF Sorted
<1>4. \A f \in Files : <<f>> \in Seq(Files)
  OBVIOUS
<1>5. << >> \in Seq(Files)
  OBVIOUS
<1>6. \A c \in Discovered : \/ c = Sorted(S) \/ c = << >> \/ \E f \in Files : c = <<f>>
  BY DEF Discovered
<1> QED
  BY <1>3, <1>4, <1>5, <1>6

LEMMA ModelsAreNamed ==
    /\ \A t \in 0..Len(Candidates) : Model(t) \in Models
    /\ NoValue \notin Models
    /\ DefaultModel \in Models
    /\ \A i \in 1..Len(Candidates) : Candidates[i] \in Models
    /\ Len(Candidates) \in Nat \ {0}
<1>1. Len(Candidates) \in Nat \ {0} /\ DOMAIN Candidates = 1..Len(Candidates)
  BY LadderArguments
<1>2. \A t \in 0..Len(Candidates) : t = 0 \/ t \in 1..Len(Candidates)
  BY <1>1
<1> QED
  BY <1>1, <1>2, RatioIsShare DEF Models, Model

\* The types, with those of the sequences, and the places of the two scripts.
Typed ==
    /\ TypeOK
    /\ corpus \in Seq(Files)
    /\ outputs \in Seq(Outputs) /\ reference \in Seq(Outputs)
    /\ pc = "gather" => script = "bench"
    /\ pc \in {"build", "documents", "raising", "judge", "raised"} =>
          script = "regression_check"
    /\ pc \notin {"start", "usage"} => corpus # <<>>
    /\ pc = "judge" => turn # 0
    /\ found \in Models \union {NoValue} /\ previous \in Models \union {NoValue}

LEMMA InitTyped == Init => Typed
<1> SUFFICES ASSUME Init PROVE Typed
  OBVIOUS
<1>1. corpus \in Seq(Files)
  BY CorpusIsFiles DEF Init
<1>2. \A i \in DOMAIN corpus : corpus[i] \in Files
  BY <1>1
<1>3. 0 \in Rounds /\ 0 \in 0..Len(Candidates)
  BY BenchArguments, ModelsAreNamed DEF Rounds
<1>4. << >> \in Seq(Outputs) /\ \A i \in DOMAIN << >> : << >>[i] \in Outputs
  OBVIOUS
<1>5. /\ env \in Models \union {NoValue} /\ cached \in Models \union {NoValue}
      /\ winner \in Models \union {NoValue} /\ found \in Models \union {NoValue}
      /\ previous \in Models \union {NoValue}
  BY ModelsAreNamed DEF Init
<1> QED
  BY <1>1, <1>2, <1>3, <1>4, <1>5 DEF Init, Typed, TypeOK

LEMMA SliceIsNumbers ==
    ASSUME corpus \in Seq(Files)
    PROVE  Slice(start) \subseteq Nat
<1>1. CASE round = 0
  <2>1. Batch(round) = [i \in 1..Warmup |-> corpus[((i - 1) % Len(corpus)) + 1]]
    BY <1>1 DEF Batch
  <2>2. DOMAIN Batch(round) = 1..Warmup
    BY <2>1
  <2> QED
    BY <2>2, BenchArguments DEF Slice
<1>2. CASE round # 0
  <2>1. DOMAIN Batch(round) = 1..Len(corpus)
    BY <1>2 DEF Batch
  <2> QED
    BY <2>1 DEF Slice
<1> QED
  BY <1>1, <1>2

LEMMA NextTyped == Typed /\ [Next]_vars => Typed'
<1> SUFFICES ASSUME Typed, [Next]_vars PROVE Typed'
  OBVIOUS
<1>1. CASE UNCHANGED vars
  BY <1>1 DEF vars, benchVars, ladderVars, Typed, TypeOK, Rounds
<1>2. CASE NothingToDo
  BY <1>2 DEF NothingToDo, benchVars, ladderVars, Typed, TypeOK
<1>3. CASE StartSlice
  BY <1>3, SliceIsNumbers DEF StartSlice, ladderVars, Typed, TypeOK
<1>4. CASE EndSlice
  <2>1. start + Concurrency \in Nat
    BY BenchArguments DEF Typed, TypeOK
  <2> QED
    BY <1>4, <2>1 DEF EndSlice, ladderVars, Typed, TypeOK
<1>5. CASE EndRound
  <2>1. round' \in Rounds
    BY <1>5, BenchArguments DEF EndRound, Typed, TypeOK, Rounds
  <2> QED
    BY <1>5, <2>1 DEF EndRound, ladderVars, Typed, TypeOK
<1>6. ASSUME NEW i \in running, Finish(i) PROVE Typed'
  BY <1>6 DEF Finish, ladderVars, Typed, TypeOK
<1>7. CASE SetModel
  <2>1. Model(turn) \in Models
    BY ModelsAreNamed DEF Typed, TypeOK
  <2> QED
    BY <1>7, <2>1 DEF SetModel, benchVars, Typed, TypeOK
<1>8. CASE BuildOrchestrator
  BY <1>8 DEF BuildOrchestrator, benchVars, Typed, TypeOK
<1>9. CASE BuildFails
  BY <1>9 DEF BuildFails, benchVars, Typed, TypeOK
<1>10. CASE RunDocument
  <2>1. PICK o \in Outputs : outputs' = Append(outputs, o)
    BY <1>10 DEF RunDocument
  <2>2. outputs' \in Seq(Outputs) /\ \A i \in DOMAIN outputs' : outputs'[i] \in Outputs
    BY <2>1 DEF Typed
  <2> QED
    BY <1>10, <2>2 DEF RunDocument, benchVars, Typed, TypeOK
<1>11. CASE Restore
  <2>1. turn' \in 0..Len(Candidates)
    BY <1>11, ModelsAreNamed DEF Restore, Typed, TypeOK
  <2> QED
    BY <1>11, <2>1 DEF Restore, Leaving, benchVars, Typed, TypeOK
<1>12. CASE Judge
  <2>1. turn \in 1..Len(Candidates)
    BY <1>12, ModelsAreNamed DEF Judge, Typed, TypeOK
  <2>2. turn' \in 0..Len(Candidates)
    BY <1>12, <2>1, ModelsAreNamed DEF Judge
  <2>3. winner' \in Models \union {NoValue}
    BY <1>12, <2>1, ModelsAreNamed DEF Judge
  <2>4. << >> \in Seq(Outputs) /\ \A i \in DOMAIN << >> : << >>[i] \in Outputs
    OBVIOUS
  <2> QED
    BY <1>12, <2>2, <2>3, <2>4 DEF Judge, benchVars, Typed, TypeOK
<1> QED
  BY <1>1, <1>2, <1>3, <1>4, <1>5, <1>6, <1>7, <1>8, <1>9, <1>10, <1>11, <1>12
     DEF Next

-----------------------------------------------------------------------------
(* Runs with different models.                                              *)

\* What the cache may hold when no run is under way.
Untouched == {NoValue, IF found = NoValue THEN DefaultModel ELSE found}

\* Between runs the process is as it was found; in a run the variable names the
\* model, its old value is kept, and the settings are read afresh.
RunsInv ==
    script = "regression_check" =>
        /\ pc \in {"start", "judge", "raised", "done"} => env = found /\ cached \in Untouched
        /\ pc \in {"build", "documents", "raising"} => env = Model(turn) /\ previous = found
        /\ pc = "build" => cached = NoValue
        /\ pc = "documents" => wired = Model(turn)
        /\ pc = "raising" => wired = NoValue

LEMMA NextSeparate == Typed /\ RunsInv /\ [Next]_vars => RunsInv'
<1> SUFFICES ASSUME Typed, RunsInv, [Next]_vars PROVE RunsInv'
  OBVIOUS
<1>1. CASE UNCHANGED vars
  BY <1>1 DEF vars, benchVars, ladderVars, RunsInv, Untouched, Model
<1>2. CASE NothingToDo
  BY <1>2 DEF NothingToDo, benchVars, ladderVars, RunsInv, Untouched, Model
<1>3. CASE StartSlice \/ EndSlice \/ EndRound \/ \E i \in running : Finish(i)
  BY <1>3 DEF StartSlice, EndSlice, EndRound, Finish, ladderVars, RunsInv, Typed
<1>4. CASE SetModel
  BY <1>4 DEF SetModel, benchVars, RunsInv, Model
<1>5. CASE BuildOrchestrator
  BY <1>5, ModelsAreNamed DEF BuildOrchestrator, benchVars, RunsInv, Typed, TypeOK, Model
<1>6. CASE BuildFails
  BY <1>6 DEF BuildFails, benchVars, RunsInv, Model
<1>7. CASE RunDocument
  BY <1>7 DEF RunDocument, benchVars, RunsInv, Model
<1>8. CASE Restore
  BY <1>8 DEF Restore, Leaving, benchVars, RunsInv, Typed, Untouched
<1>9. CASE Judge
  BY <1>9 DEF Judge, benchVars, RunsInv, Typed, Untouched
<1> QED
  BY <1>1, <1>2, <1>3, <1>4, <1>5, <1>6, <1>7, <1>8, <1>9 DEF Next

\* run_with_model keeps every run to its model and leaves the process as it was,
\* for any ladder, whatever the environment said and whichever run raised.
THEOREM RunsStaySeparate == Spec => []RunsAreSeparate
<1>1. Init => RunsInv
  BY DEF Init, RunsInv, Untouched
<1>2. Typed /\ RunsInv /\ [Next]_vars => (Typed /\ RunsInv)'
  BY NextTyped, NextSeparate
<1>3. Typed /\ RunsInv => RunsAreSeparate
  BY DEF Typed, RunsInv, Untouched, RunsAreSeparate
<1> QED
  BY <1>1, <1>2, <1>3, InitTyped, PTL DEF Spec

-----------------------------------------------------------------------------
(* The verdict of the ladder.                                               *)

\* What the reference has that the outputs have not.
Lost == {c \in Compared \X Fields : /\ reference[c[1]].fields[c[2]] # NoValue
                                    /\ outputs[c[1]].fields[c[2]] = NoValue}

\* At most the share of the compared fields that the tolerance leaves.
Affordable(n) == 100 * n <= (100 - Tolerance) * Cardinality(Compared) * Cardinality(Fields)

\* A field that is lost earns none of its hundred points.
LEMMA LossesAreAffordable ==
    ASSUME Typed
    PROVE  /\ Cardinality(Lost) \in Nat
           /\ Passes(Cardinality(Points(Compared)), Cardinality(Compared))
                => Affordable(Cardinality(Lost))
<1> DEFINE Pairs == Compared \X Fields
           All == Pairs \X (1..100)
           Missed == Lost \X (1..100)
<1>1. IsFiniteSet(Compared) /\ Cardinality(Compared) \in Nat
  <2>1. Compared \in SUBSET (1..Len(reference)) /\ Len(reference) \in Nat
    BY DEF Compared, Typed
  <2>2. IsFiniteSet(1..Len(reference))
    BY <2>1, FS_Interval
  <2>3. IsFiniteSet(Compared)
    BY <2>1, <2>2, FS_Subset
  <2> QED
    BY <2>3, FS_CardinalityType
<1>2. IsFiniteSet(Fields) /\ Cardinality(Fields) \in Nat
  BY LadderArguments, FS_CardinalityType
<1>3. IsFiniteSet(Pairs) /\ Cardinality(Pairs) = Cardinality(Compared) * Cardinality(Fields)
  <2>1. IsFiniteSet(Compared) /\ IsFiniteSet(Fields)
    BY <1>1, <1>2
  <2> QED
    BY <2>1, FS_Product
<1>4. IsFiniteSet(1..100) /\ Cardinality(1..100) = 100
  <2>1. \A n \in Nat : IsFiniteSet(1..n) /\ Cardinality(1..n) = n
    BY FS_Interval
  <2>2. 100 \in Nat
    OBVIOUS
  <2> QED
    BY <2>1, <2>2, Zenon
<1>5. IsFiniteSet(All) /\ Cardinality(All) = Cardinality(Pairs) * 100
  <2> DEFINE S == Pairs
             T == 1..100
  <2>1. IsFiniteSet(S) /\ IsFiniteSet(T) /\ Cardinality(T) = 100
    BY <1>3, <1>4
  <2> HIDE DEF S, T
  <2>2. IsFiniteSet(S \X T) /\ Cardinality(S \X T) = Cardinality(S) * 100
    BY <2>1, FS_Product
  <2> QED
    BY <2>2 DEF S, T
<1>6. IsFiniteSet(Lost) /\ Cardinality(Lost) \in Nat
  <2>1. Lost \in SUBSET Pairs
    BY DEF Lost
  <2> QED
    <3>1. IsFiniteSet(Lost)
      BY <2>1, <1>3, FS_Subset
    <3> QED
      BY <3>1, FS_CardinalityType
<1>7. IsFiniteSet(Missed) /\ Cardinality(Missed) = Cardinality(Lost) * 100
  <2> DEFINE T == 1..100
  <2>1. IsFiniteSet(Lost) /\ IsFiniteSet(T) /\ Cardinality(T) = 100
    BY <1>4, <1>6
  <2> HIDE DEF T
  <2>2. IsFiniteSet(Lost \X T) /\ Cardinality(Lost \X T) = Cardinality(Lost) * 100
    BY <2>1, FS_Product
  <2> QED
    BY <2>2 DEF T
<1>8. Points(Compared) \in SUBSET All /\ Missed \in SUBSET All
  BY DEF Points, Lost
<1>9. Points(Compared) \cap Missed = {}
  <2>1. ASSUME NEW c \in Lost, NEW p \in 1..100, p <= Similarity(c[1], c[2])
        PROVE  FALSE
    <3>1. Similarity(c[1], c[2]) = 0
      BY DEF Lost, Similarity, FieldSimilarity
    <3>2. p <= 0
      BY <2>1, <3>1, Zenon
    <3> QED
      BY <3>2
  <2>2. ASSUME NEW x \in Missed, x \in Points(Compared) PROVE FALSE
    <3>1. x[1] \in Lost /\ x[2] \in 1..100
      OBVIOUS
    <3>2. x[2] <= Similarity(x[1][1], x[1][2])
      BY <2>2, Zenon DEF Points
    <3> QED
      BY <2>1, <3>1, <3>2, Zenon
  <2> QED
    BY <2>2
<1>10. IsFiniteSet(Points(Compared)) /\ Cardinality(Points(Compared)) \in Nat
  BY <1>5, <1>8, FS_Subset, FS_CardinalityType
<1>11. Cardinality(Points(Compared)) + Cardinality(Missed) <= Cardinality(All)
  <2> HIDE DEF All, Missed
  <2>1. Points(Compared) \cup Missed \in SUBSET All
    BY <1>8
  <2>2. Cardinality(Points(Compared) \cup Missed) <= Cardinality(All)
    BY <2>1, <1>5, FS_Subset
  <2>3. Cardinality(Points(Compared) \cup Missed)
          = Cardinality(Points(Compared)) + Cardinality(Missed)
                - Cardinality(Points(Compared) \cap Missed)
    BY <1>7, <1>10, FS_Union
  <2>4. Cardinality(Points(Compared) \cap Missed) = 0
    BY <1>9, FS_EmptySet
  <2> QED
    BY <2>2, <2>3, <2>4, <1>6, <1>7, <1>10
<1> DEFINE n == Cardinality(Compared)
           f == Cardinality(Fields)
           total == Cardinality(Points(Compared))
           lost == Cardinality(Lost)
<1>12. n \in Nat /\ f \in Nat /\ total \in Nat /\ lost \in Nat
  BY <1>1, <1>2, <1>6, <1>10
<1>13. total + lost * 100 <= (n * f) * 100
  BY <1>3, <1>5, <1>7, <1>11
<1>14. ASSUME Passes(total, n) PROVE total >= Tolerance * n * f
  <2>1. CASE n = 0
    <3>1. Tolerance * n * f = 0
      BY <2>1, <1>12, LadderArguments
    <3> QED
      BY <3>1, <1>12
  <2>2. CASE n # 0
    BY <1>14, <2>2 DEF Passes
  <2> QED
    BY <2>1, <2>2
<1>15. (100 - Tolerance) * n * f = (n * f) * 100 - Tolerance * n * f
  <2> HIDE DEF n, f
  <2>1. n * f \in Nat /\ Tolerance \in Nat
    BY <1>12, LadderArguments
  <2>2. (100 - Tolerance) * n * f = (100 - Tolerance) * (n * f)
    BY <1>12, LadderArguments
  <2>3. Tolerance * n * f = Tolerance * (n * f)
    BY <1>12, LadderArguments
  <2>4. \A p \in Nat : (100 - Tolerance) * p = p * 100 - Tolerance * p
    BY <2>1
  <2> QED
    BY <2>1, <2>2, <2>3, <2>4
<1>16. ASSUME Passes(total, n) PROVE 100 * lost <= (100 - Tolerance) * n * f
  <2> HIDE DEF n, f, total, lost
  <2>1. n * f \in Nat /\ Tolerance * n * f \in Nat
    BY <1>12, LadderArguments
  <2> QED
    BY <1>12, <1>13, <1>14, <1>15, <1>16, <2>1
<1> QED
  BY <1>6, <1>16 DEF Affordable

\* Where the ladder is: a candidate is judged once, against the reference, and
\* until one passes there is no winner.
LadderInv ==
    /\ reports \in Seq([passed : BOOLEAN, lost : Nat])
    /\ script = "regression_check" /\ turn # 0 => Len(reference) = Len(corpus)
    /\ pc = "judge" => Len(outputs) = Len(corpus)
    /\ script = "regression_check" /\ pc # "done" =>
          /\ winner = NoValue
          /\ Len(reports) = IF turn = 0 THEN 0 ELSE turn - 1
          /\ \A i \in 1..Len(reports) : ~ reports[i].passed
    /\ script = "bench" => reports = << >>
    /\ WinnerIsEarned

LEMMA NextEarned == Typed /\ RunsInv /\ LadderInv /\ [Next]_vars => LadderInv'
<1> SUFFICES ASSUME Typed, RunsInv, LadderInv, [Next]_vars PROVE LadderInv'
  OBVIOUS
<1>1. ASSUME UNCHANGED <<script, turn, reports, winner, reference, corpus>>,
             pc' = pc \/ (pc # "done" /\ pc' # "done") \/ script = "bench",
             pc' = "judge" => Len(outputs') = Len(corpus)
      PROVE  LadderInv'
  <2>1. WinnerIsEarned'
    BY <1>1 DEF LadderInv, WinnerIsEarned, Compared
  <2> QED
    BY <1>1, <2>1 DEF LadderInv
<1>2. CASE UNCHANGED vars
  BY <1>1, <1>2 DEF vars, ladderVars, LadderInv
<1>3. CASE NothingToDo
  BY <1>1, <1>3 DEF NothingToDo, ladderVars
<1>4. CASE StartSlice \/ EndSlice \/ EndRound \/ \E i \in running : Finish(i)
  BY <1>1, <1>4 DEF StartSlice, EndSlice, EndRound, Finish, ladderVars, Typed
<1>5. CASE SetModel \/ BuildOrchestrator \/ BuildFails \/ RunDocument
  BY <1>1, <1>5 DEF SetModel, BuildOrchestrator, BuildFails, RunDocument
<1>6. CASE Restore
  <2>1. /\ UNCHANGED <<script, corpus, outputs, reports, winner>>
        /\ script = "regression_check" /\ pc # "done" /\ pc' # "done"
    BY <1>6 DEF Restore, Leaving, Typed
  <2>2. WinnerIsEarned'
    BY <2>1 DEF LadderInv, WinnerIsEarned
  <2>3. CASE pc = "raising"
    <3>1. /\ turn' = turn /\ pc' = "raised"
          /\ reference' = IF turn = 0 THEN outputs ELSE reference
      BY <1>6, <2>1, <2>3 DEF Restore, RunsInv
    <3> QED
      BY <2>1, <2>2, <3>1 DEF LadderInv
  <2>4. CASE pc = "documents"
    <3>1. wired # NoValue /\ Len(outputs) = Len(corpus)
      BY <1>6, <2>1, <2>4, ModelsAreNamed DEF Restore, Leaving, RunsInv, Typed, TypeOK
    <3>2. CASE turn = 0
      <4>1. reference' = outputs /\ turn' = 1 /\ pc' = "start"
        BY <1>6, <3>1, <3>2 DEF Restore
      <4> QED
        BY <2>1, <2>2, <3>1, <3>2, <4>1 DEF LadderInv
    <3>3. CASE turn # 0
      <4>1. reference' = reference /\ turn' = turn /\ pc' = "judge"
        BY <1>6, <3>1, <3>3 DEF Restore
      <4> QED
        BY <2>1, <2>2, <3>1, <4>1 DEF LadderInv
    <3> QED
      BY <3>2, <3>3
  <2> QED
    BY <1>6, <2>3, <2>4 DEF Restore, Leaving
<1>7. CASE Judge
  <2> DEFINE report == Report(Compared)
             passed == Passes(Cardinality(Points(Compared)), Cardinality(Compared))
  <2>1. /\ script = "regression_check" /\ turn \in 1..Len(Candidates)
        /\ UNCHANGED <<script, corpus, reference>>
    BY <1>7, ModelsAreNamed DEF Judge, Typed, TypeOK
  <2>2. report = [passed |-> passed, lost |-> Cardinality(Lost)]
    BY DEF Report, Lost
  <2>3. passed \in BOOLEAN /\ Cardinality(Lost) \in Nat
    <3>1. \A total, n : Passes(total, n) \in BOOLEAN
      <4> SUFFICES ASSUME NEW total, NEW n PROVE Passes(total, n) \in BOOLEAN
        OBVIOUS
      <4>1. CASE n = 0
        BY <4>1 DEF Passes
      <4>2. CASE n # 0
        BY <4>2 DEF Passes
      <4> QED
        BY <4>1, <4>2
    <3>2. Cardinality(Lost) \in Nat
      BY LossesAreAffordable
    <3> QED
      BY <3>1, <3>2
  <2>4. /\ reports' = Append(reports, report) /\ Len(reports') = turn
        /\ Len(reports) = turn - 1
        /\ reports' \in Seq([passed : BOOLEAN, lost : Nat])
        /\ reports'[turn] = report
        /\ \A i \in 1..(turn - 1) : reports'[i] = reports[i] /\ ~ reports'[i].passed
    <3>1. report \in [passed : BOOLEAN, lost : Nat]
      BY <2>2, <2>3
    <3>2. reports' = Append(reports, report) /\ Len(reports) = turn - 1
      BY <1>7, <2>1 DEF Judge, LadderInv
    <3>3. \A i \in 1..(turn - 1) : ~ reports[i].passed
      BY <1>7, <2>1, <3>2 DEF Judge, LadderInv
    <3> HIDE DEF report
    <3> QED
      BY <2>1, <3>1, <3>2, <3>3 DEF LadderInv
  <2>5. report.passed = passed /\ report.lost = Cardinality(Lost)
    BY <2>2
  <2>6. Compared' = Compared
    BY <2>1 DEF Compared
  <2>7. Candidates[turn] # NoValue
    BY <2>1, ModelsAreNamed
  <2>8. outputs' = << >> /\ pc' # "judge" /\ pc = "judge"
    BY <1>7 DEF Judge
  <2>9. CASE passed
    <3>1. winner' = Candidates[turn] /\ pc' = "done" /\ turn' = turn
      BY <1>7, <2>5, <2>7, <2>9 DEF Judge
    <3>2. 100 * reports'[Len(reports')].lost <=
             (100 - Tolerance) * Cardinality(Compared) * Cardinality(Fields)
      BY <2>4, <2>5, <2>9, LossesAreAffordable DEF Affordable
    <3>3. WinnerIsEarned'
      BY <2>1, <2>4, <2>5, <2>6, <2>7, <2>9, <3>1, <3>2 DEF WinnerIsEarned
    <3> QED
      BY <2>1, <2>4, <2>8, <3>1, <3>3 DEF LadderInv
  <2>10. CASE ~ passed
    <3>1. winner' = NoValue /\ ~ reports'[turn].passed
      BY <1>7, <2>4, <2>5, <2>10 DEF Judge
    <3>2. CASE turn = Len(Candidates)
      <4>1. pc' = "done" /\ turn' = turn
        BY <1>7, <3>2 DEF Judge
      <4>2. WinnerIsEarned'
        BY <2>1, <2>4, <3>1, <3>2, <4>1 DEF WinnerIsEarned
      <4> QED
        BY <2>1, <2>4, <2>8, <4>1, <4>2 DEF LadderInv
    <3>3. CASE turn # Len(Candidates)
      <4>1. pc' = "start" /\ turn' = turn + 1
        BY <1>7, <3>1, <3>3 DEF Judge
      <4>2. WinnerIsEarned'
        BY <2>1, <2>4, <4>1 DEF WinnerIsEarned
      <4>3. \A i \in 1..Len(reports') : ~ reports'[i].passed
        BY <2>1, <2>4, <3>1
      <4> QED
        BY <2>1, <2>4, <2>8, <3>1, <4>1, <4>2, <4>3 DEF LadderInv
    <3> QED
      BY <3>2, <3>3
  <2> QED
    BY <2>9, <2>10
<1> QED
  BY <1>2, <1>3, <1>4, <1>5, <1>6, <1>7 DEF Next

\* run_regression_check recommends the first candidate to pass, and that one comes
\* back empty at most where the tolerance allows, for any corpus, fields and
\* ladder and whatever the similarity of two answers.
THEOREM WinnersAreEarned == Spec => []WinnerIsEarned
<1>1. Init => RunsInv /\ LadderInv
  <2>1. Init => RunsInv
    BY DEF Init, RunsInv, Untouched
  <2>2. Init => WinnerIsEarned
    BY DEF Init, WinnerIsEarned
  <2>3. Init => LadderInv
    BY <2>2 DEF Init, LadderInv
  <2> QED
    BY <2>1, <2>3
<1>2. (Typed /\ RunsInv /\ LadderInv) /\ [Next]_vars => (Typed /\ RunsInv /\ LadderInv)'
  BY NextTyped, NextSeparate, NextEarned
<1>3. LadderInv => WinnerIsEarned
  BY DEF LadderInv
<1> QED
  BY <1>1, <1>2, <1>3, InitTyped, PTL DEF Spec

-----------------------------------------------------------------------------
(* The report of a benchmark.                                               *)

Records == [path : Files, iteration : Nat, ok : BOOLEAN, seconds : Nat]

\* The r-th iteration's record of the k-th document, once it is there, is in its place.
Placed ==
    \A r \in 1..Iterations, k \in 1..Len(corpus) :
        (r - 1) * Len(corpus) + k \in 1..Len(records) =>
            /\ records[(r - 1) * Len(corpus) + k].path = corpus[k]
            /\ records[(r - 1) * Len(corpus) + k].iteration = r

\* The documents of a measured round before position n.
Taken(n) == IF n <= Len(corpus) THEN n ELSE Len(corpus)

BenchInv ==
    /\ records \in Seq(Records)
    /\ Placed
    /\ script = "bench" /\ pc \in {"start", "gather"} =>
          Len(records) = IF round = 0 THEN 0 ELSE (round - 1) * Len(corpus) + Taken(start)
    /\ script = "bench" /\ pc = "done" => Len(records) = Iterations * Len(corpus)
    /\ pc = "gather" /\ round # 0 =>
          /\ start < Len(corpus)
          /\ running \subseteq Slice(start) /\ DOMAIN heard = Slice(start) \ running
          /\ \A i \in DOMAIN heard : /\ heard[i] \in Records
                                     /\ heard[i].path = corpus[i]
                                     /\ heard[i].iteration = round

LEMMA SliceIsInterval ==
    ASSUME Typed, round # 0, start < Len(corpus)
    PROVE  /\ Slice(start) = (start + 1)..Taken(start + Concurrency)
           /\ Taken(start + Concurrency) \in Nat
           /\ start < Taken(start + Concurrency) /\ Taken(start + Concurrency) <= Len(corpus)
           /\ Cardinality(Slice(start)) = Taken(start + Concurrency) - start
<1>1. start \in Nat /\ Len(corpus) \in Nat /\ Concurrency \in Nat \ {0}
  BY BenchArguments DEF Typed, TypeOK
<1>2. DOMAIN Batch(round) = 1..Len(corpus)
  BY DEF Batch, Typed
<1>3. /\ Taken(start + Concurrency) \in Nat
      /\ start < Taken(start + Concurrency) /\ Taken(start + Concurrency) <= Len(corpus)
  BY <1>1 DEF Taken
<1>4. Slice(start) = (start + 1)..Taken(start + Concurrency)
  BY <1>1, <1>2 DEF Slice, Taken
<1>5. \A a, b \in Int : Cardinality(a..b) = IF a > b THEN 0 ELSE b - a + 1
  BY FS_Interval
<1>6. Cardinality((start + 1)..Taken(start + Concurrency)) = Taken(start + Concurrency) - start
  <2> DEFINE a == start + 1
             b == Taken(start + Concurrency)
  <2>1. a \in Int /\ b \in Int /\ ~ (a > b) /\ b - a + 1 = b - start
    BY <1>1, <1>3
  <2> HIDE DEF a, b
  <2>2. Cardinality(a..b) = b - start
    BY <2>1, <1>5
  <2> QED
    BY <2>2 DEF a, b
<1> QED
  BY <1>3, <1>4, <1>6

\* A position tells iteration and document apart.
LEMMA OnePlace ==
    ASSUME NEW n \in Nat, NEW r \in Nat \ {0}, NEW q \in Nat \ {0}, NEW k \in 1..n,
           (r - 1) * n < (q - 1) * n + k, (q - 1) * n + k <= (r - 1) * n + n
    PROVE  q = r
<1>1. r - 1 \in Nat /\ q - 1 \in Nat
  OBVIOUS
<1>2. (r - 1) * n \in Nat /\ (q - 1) * n \in Nat
  BY <1>1
<1>3. ~ (q < r)
  <2> SUFFICES ASSUME q < r PROVE FALSE
    OBVIOUS
  <2>1. q \in Nat /\ q <= r - 1
    OBVIOUS
  <2>2. q * n \in Nat /\ q * n <= (r - 1) * n
    BY <1>1, <2>1, ProductsGrow
  <2>3. q * n = (q - 1) * n + n
    <3>1. (q - 1 + 1) * n = (q - 1) * n + n
      BY <1>1, ProductsGrow
    <3> QED
      BY <3>1
  <2> QED
    BY <1>2, <2>2, <2>3
<1>4. ~ (r < q)
  <2> SUFFICES ASSUME r < q PROVE FALSE
    OBVIOUS
  <2>1. r \in Nat /\ r <= q - 1
    OBVIOUS
  <2>2. r * n \in Nat /\ r * n <= (q - 1) * n
    BY <1>1, <2>1, ProductsGrow
  <2>3. r * n = (r - 1) * n + n
    <3>1. (r - 1 + 1) * n = (r - 1) * n + n
      BY <1>1, ProductsGrow
    <3> QED
      BY <3>1
  <2> QED
    BY <1>2, <2>2, <2>3
<1> QED
  BY <1>3, <1>4

LEMMA NextBench == Typed /\ BenchInv /\ [Next]_vars => BenchInv'
<1> SUFFICES ASSUME Typed, BenchInv, [Next]_vars PROVE BenchInv'
  OBVIOUS
<1>1. ASSUME UNCHANGED <<records, corpus, script, round>>, script = "bench" => start' = start,
             pc' # "gather", pc' = pc \/ script # "bench" \/ pc' = "usage"
      PROVE  BenchInv'
  <2>1. Placed'
    BY <1>1 DEF BenchInv, Placed
  <2> QED
    BY <1>1, <2>1 DEF BenchInv, Taken
<1>2. CASE UNCHANGED vars
  <2>1. Slice(start)' = Slice(start)
    BY <1>2 DEF vars, benchVars, Slice, Batch
  <2> QED
    BY <1>2, <2>1 DEF vars, benchVars, BenchInv, Placed, Taken
<1>3. CASE NothingToDo
  BY <1>1, <1>3 DEF NothingToDo, benchVars
<1>4. CASE SetModel \/ BuildOrchestrator \/ BuildFails
  BY <1>1, <1>4 DEF SetModel, BuildOrchestrator, BuildFails, benchVars, Typed
<1>5. CASE RunDocument \/ Restore \/ Judge
  <2>1. script # "bench" /\ pc' # "gather" /\ UNCHANGED <<script, corpus, benchVars>>
    BY <1>5 DEF RunDocument, Restore, Leaving, Judge, Typed
  <2> QED
    BY <1>1, <2>1 DEF benchVars
<1>6. CASE StartSlice
  <2>1. Placed'
    BY <1>6 DEF StartSlice, BenchInv, Placed
  <2>2. round # 0 => start < Len(corpus)
    BY <1>6 DEF StartSlice, Batch
  <2>3. Slice(start)' = Slice(start)
    BY <1>6 DEF StartSlice, Slice, Batch
  <2>4. /\ records' = records /\ script' = script /\ pc' = "gather" /\ pc = "start"
        /\ round' = round /\ start' = start /\ corpus' = corpus
        /\ running' = Slice(start) /\ DOMAIN heard' = {}
    BY <1>6 DEF StartSlice
  <2> QED
    BY <2>1, <2>2, <2>3, <2>4 DEF BenchInv, Taken
<1>7. ASSUME NEW i \in running, Finish(i) PROVE BenchInv'
  <2>1. /\ UNCHANGED <<records, script, pc, corpus, round, start>> /\ pc = "gather"
        /\ running' = running \ {i}
    BY <1>7 DEF Finish
  <2>2. Placed'
    BY <2>1 DEF BenchInv, Placed
  <2>3. Slice(start)' = Slice(start)
    BY <2>1 DEF Slice, Batch
  <2>4. ASSUME round # 0
        PROVE  /\ DOMAIN heard' = DOMAIN heard \union {i}
               /\ \A k \in DOMAIN heard' : /\ heard'[k] \in Records
                                           /\ heard'[k].path = corpus[k]
                                           /\ heard'[k].iteration = round
    <3>1. PICK ok \in BOOLEAN, seconds \in Latencies :
             heard' = [k \in DOMAIN heard \union {i} |->
                          IF k = i THEN [path |-> Batch(round)[i], iteration |-> round,
                                         ok |-> ok, seconds |-> seconds]
                                   ELSE heard[k]]
      BY <1>7 DEF Finish
    <3>2. Batch(round)[i] = corpus[i]
      BY <2>4 DEF Batch
    <3>3. i \in DOMAIN Batch(round)
      BY <2>1, <2>4 DEF BenchInv, Slice
    <3>4. corpus[i] \in Files
      BY <2>4, <3>3 DEF Batch, Typed
    <3>5. round \in Nat /\ seconds \in Nat
      BY BenchArguments DEF Typed, TypeOK, Rounds
    <3>6. [path |-> Batch(round)[i], iteration |-> round, ok |-> ok, seconds |-> seconds]
             \in Records
      BY <3>2, <3>4, <3>5 DEF Records
    <3> QED
      BY <2>1, <2>4, <3>1, <3>2, <3>6 DEF BenchInv
  <2> QED
    BY <2>1, <2>2, <2>3, <2>4 DEF BenchInv, Taken
<1>8. CASE EndSlice
  <2>1. /\ UNCHANGED <<script, corpus, round>> /\ script = "bench"
        /\ pc = "gather" /\ pc' = "start" /\ running = {} /\ start' = start + Concurrency
    BY <1>8 DEF EndSlice, Typed
  <2>2. CASE round = 0
    <3>1. records' = records
      BY <1>8, <2>2 DEF EndSlice
    <3>2. Placed'
      BY <2>1, <3>1 DEF BenchInv, Placed
    <3> QED
      BY <2>1, <2>2, <3>1, <3>2 DEF BenchInv
  <2>3. CASE round # 0
    <3> DEFINE n == Len(corpus)
               m == Taken(start + Concurrency)
               new == [k \in 1..(m - start) |-> heard[start + k]]
               before == (round - 1) * n
    <3>1. /\ start < n /\ DOMAIN heard = Slice(start)
          /\ \A i \in Slice(start) : /\ heard[i] \in Records
                                     /\ heard[i].path = corpus[i]
                                     /\ heard[i].iteration = round
      BY <2>1, <2>3 DEF BenchInv
    <3>2. /\ Slice(start) = (start + 1)..m /\ m \in Nat /\ start < m /\ m <= n
          /\ Cardinality(Slice(start)) = m - start
      BY <2>3, <3>1, SliceIsInterval
    <3>3. start \in Nat /\ n \in Nat /\ round \in Nat \ {0} /\ before \in Nat
      <4>1. start \in Nat /\ n \in Nat /\ round \in Nat \ {0}
        BY <2>3, BenchArguments DEF Typed, TypeOK, Rounds
      <4>2. round - 1 \in Nat
        BY <4>1
      <4> QED
        BY <4>1, <4>2
    <3>4. records' = records \o new
      <4>1. InOrder(DOMAIN heard, heard) = new
        BY <3>1, <3>2 DEF InOrder
      <4> QED
        BY <1>8, <2>3, <4>1 DEF EndSlice
    <3>5. \A k \in 1..(m - start) : start + k \in Slice(start)
      BY <3>2, <3>3
    <3>6. new \in Seq(Records) /\ Len(new) = m - start
      <4>1. m - start \in Nat
        BY <3>2, <3>3
      <4>2. \A k \in 1..(m - start) : heard[start + k] \in Records
        BY <3>1, <3>5
      <4> QED
        BY <4>1, <4>2
    <3>7. Len(records) = before + start
      <4>1. Len(records) = (round - 1) * n + Taken(start)
        BY <2>1, <2>3 DEF BenchInv
      <4>2. Taken(start) = start
        BY <3>1, <3>3 DEF Taken
      <4> QED
        BY <4>1, <4>2
    <3>8. /\ records' \in Seq(Records) /\ Len(records') = before + m
          /\ \A i \in 1..(before + start) : records'[i] = records[i]
          /\ \A i \in 1..(m - start) : records'[before + start + i] = new[i]
      <4>1. records \in Seq(Records) /\ new \in Seq(Records)
        BY <3>6 DEF BenchInv
      <4>2. Len(records) = before + start /\ Len(new) = m - start
        BY <3>6, <3>7
      <4> HIDE DEF new, m, before
      <4>3. /\ records \o new \in Seq(Records)
            /\ Len(records \o new) = Len(records) + Len(new)
            /\ \A i \in 1..Len(records) : (records \o new)[i] = records[i]
            /\ \A i \in 1..Len(new) : (records \o new)[Len(records) + i] = new[i]
        BY <4>1
      <4>4. before + start + (m - start) = before + m
        BY <3>2, <3>3
      <4> QED
        BY <3>4, <4>2, <4>3, <4>4
    <3>9. Placed'
      <4> SUFFICES ASSUME NEW r \in 1..Iterations, NEW k \in 1..n,
                          (r - 1) * n + k \in 1..(before + m)
                   PROVE  /\ records'[(r - 1) * n + k].path = corpus[k]
                          /\ records'[(r - 1) * n + k].iteration = r
        BY <2>1, <3>8 DEF Placed
      <4> DEFINE i == (r - 1) * n + k
      <4>1. i \in Nat /\ i <= before + m
        OBVIOUS
      <4>2. CASE i <= before + start
        <5>1. i \in 1..Len(records)
          BY <4>1, <4>2, <3>7
        <5>2. records[i].path = corpus[k] /\ records[i].iteration = r
          BY <5>1 DEF BenchInv, Placed
        <5>3. records'[i] = records[i]
          BY <3>7, <3>8, <5>1
        <5> QED
          BY <5>2, <5>3
      <4>3. CASE ~ (i <= before + start)
        <5>1. r \in Nat \ {0} /\ before < i /\ i <= before + n
          BY <4>1, <4>3, <3>2, <3>3, BenchArguments
        <5>2. r = round
          BY <5>1, <3>3, OnePlace
        <5>3. k \in (start + 1)..m /\ k - start \in 1..(m - start)
          BY <4>1, <4>3, <5>2, <3>2, <3>3
        <5>4. records'[before + start + (k - start)] = new[k - start]
          BY <3>8, <5>3
        <5>5. before + start + (k - start) = i /\ new[k - start] = heard[k]
          <6>1. start + (k - start) = k
            BY <3>3
          <6> QED
            BY <5>2, <5>3, <6>1, <3>3
        <5>6. heard[k].path = corpus[k] /\ heard[k].iteration = round
          BY <3>1, <3>2, <5>3
        <5> QED
          BY <5>2, <5>4, <5>5, <5>6
      <4> QED
        BY <4>2, <4>3
    <3>10. Taken(start') = m
      BY <2>1
    <3> HIDE DEF new, m, before
    <3>11. Len(records') = before + Taken(start)'
      BY <2>1, <3>8, <3>10 DEF Taken
    <3> QED
      BY <2>1, <2>3, <3>8, <3>9, <3>11 DEF BenchInv, before
  <2> QED
    BY <2>2, <2>3
<1>9. CASE EndRound
  <2> DEFINE n == Len(corpus)
  <2>1. /\ UNCHANGED <<records, script, corpus>> /\ script = "bench" /\ pc = "start"
        /\ start >= Len(Batch(round)) /\ start' = 0 /\ corpus # << >>
    BY <1>9 DEF EndRound
  <2>2. Placed'
    BY <2>1 DEF BenchInv, Placed
  <2>3. n \in Nat /\ n # 0 /\ start \in Nat /\ round \in Nat /\ round <= Iterations
    BY <2>1, BenchArguments DEF Typed, TypeOK, Rounds
  <2>4. Len(records) = round * n
    <3>1. CASE round = 0
      <4>1. round * n = 0
        BY <3>1, <2>3
      <4> QED
        BY <2>1, <3>1, <4>1 DEF BenchInv
    <3>2. CASE round # 0
      <4>1. start >= n
        BY <2>1, <3>2 DEF Batch
      <4>2. Taken(start) = n
        BY <2>3, <4>1 DEF Taken
      <4>3. Len(records) = (round - 1) * n + n
        BY <2>1, <3>2, <4>2 DEF BenchInv
      <4>4. round - 1 \in Nat
        BY <2>3, <3>2
      <4>5. (round - 1 + 1) * n = (round - 1) * n + n
        BY <2>3, <4>4, ProductsGrow
      <4> QED
        BY <2>3, <4>3, <4>5
    <3> QED
      BY <3>1, <3>2
  <2>5. CASE round < Iterations
    <3>1. round' = round + 1 /\ pc' = "start"
      BY <1>9, <2>5 DEF EndRound
    <3>2. (round' - 1) * n = round * n /\ Taken(start)' = 0 /\ round * n \in Nat
      BY <2>1, <2>3, <3>1 DEF Taken
    <3> QED
      BY <2>1, <2>2, <2>3, <2>4, <3>1, <3>2 DEF BenchInv
  <2>6. CASE ~ (round < Iterations)
    <3>1. round = Iterations /\ pc' = "done"
      BY <1>9, <2>3, <2>6, BenchArguments DEF EndRound
    <3> QED
      BY <2>1, <2>2, <2>4, <3>1 DEF BenchInv
  <2> QED
    BY <2>5, <2>6
<1> QED
  BY <1>2, <1>3, <1>4, <1>5, <1>6, <1>7, <1>8, <1>9 DEF Next

\* The index _percentile computes is that of the nearest rank.
LEMMA PercentileIsNearestRank ==
    ASSUME NEW sorted, Len(sorted) \in Nat \ {0}, NEW q \in 1..99
    PROVE  \E k \in 1..Len(sorted) : /\ Percentile(sorted, q) = sorted[k]
                                     /\ 100 * k >= q * Len(sorted)
                                     /\ 100 * (k - 1) < q * Len(sorted)
<1> DEFINE n == Len(sorted)
           k == (q * n + 99) \div 100
<1>1. n \in Nat \ {0} /\ q \in Nat /\ q * n \in Nat /\ 1 * n <= q * n /\ q * n <= 99 * n
  BY ProductsGrow
<1>2. \A x \in Nat : /\ (x + 99) \div 100 \in Nat
                     /\ 100 * ((x + 99) \div 100) <= x + 99
                     /\ x <= 100 * ((x + 99) \div 100)
  OBVIOUS
<1>3. k \in Nat /\ 100 * k <= q * n + 99 /\ q * n <= 100 * k
  BY <1>1, <1>2
<1>4. k \in 1..n
  <2> HIDE DEF n, k
  <2> QED
    BY <1>1, <1>3
<1>5. 100 * (k - 1) < q * n
  <2> HIDE DEF n, k
  <2>1. \A p \in Nat : 100 * k <= p + 99 => 100 * (k - 1) < p
    BY <1>3
  <2> QED
    BY <1>1, <1>3, <2>1
<1>6. Min({n - 1, k - 1}) = k - 1
  <2> HIDE DEF n, k
  <2>1. k - 1 <= n - 1 /\ k - 1 <= k - 1 /\ k - 1 \in Int /\ n - 1 \in Int
    BY <1>1, <1>4
  <2> QED
    BY <2>1 DEF Min
<1>7. Max({0, k - 1}) = k - 1
  <2> HIDE DEF n, k
  <2>1. k - 1 >= 0 /\ k - 1 >= k - 1 /\ k - 1 \in Int
    BY <1>4
  <2> QED
    BY <2>1 DEF Max
<1>8. Percentile(sorted, q) = sorted[1 + Max({0, Min({n - 1, k - 1})})]
  BY <1>1 DEF Percentile
<1>9. 1 + (k - 1) = k
  BY <1>3
<1>10. Percentile(sorted, q) = sorted[k]
  <2> HIDE DEF n, k
  <2> QED
    BY <1>6, <1>7, <1>8, <1>9
<1> QED
  BY <1>3, <1>4, <1>5, <1>10

\* Of the values at the places of D, q percent are at most the q-th percentile
\* and fewer are below it.
LEMMA PercentileDivides ==
    ASSUME NEW D, IsFiniteSet(D), D # {}, NEW f \in [D -> Nat], NEW q \in 1..99
    PROVE  /\ 100 * Cardinality(NotOver(D, f, Percentile(Ascending(f), q)))
                >= q * Cardinality(D)
           /\ 100 * Cardinality(Under(D, f, Percentile(Ascending(f), q)))
                < q * Cardinality(D)
<1>0. \A h \in 1..Cardinality(D) :
         /\ Cardinality(Under(D, f, Ascending(f)[h])) < h
         /\ Cardinality(NotOver(D, f, Ascending(f)[h])) >= h
  BY AscendingOrders
<1> DEFINE v == Percentile(Ascending(f), q)
<1>1. Cardinality(D) \in Nat \ {0}
  BY FS_CardinalityType, FS_EmptySet
<1>2. Len(Ascending(f)) = Cardinality(D)
  BY AscendingOrders
<1>3. PICK k \in 1..Cardinality(D) : /\ v = Ascending(f)[k]
                        /\ 100 * k >= q * Cardinality(D)
                        /\ 100 * (k - 1) < q * Cardinality(D)
  <2> DEFINE s == Ascending(f)
  <2>1. Len(s) = Cardinality(D)
    BY <1>2
  <2> HIDE DEF s
  <2>2. \E k \in 1..Len(s) : /\ Percentile(s, q) = s[k]
                              /\ 100 * k >= q * Len(s)
                              /\ 100 * (k - 1) < q * Len(s)
    BY <1>1, <2>1, PercentileIsNearestRank
  <2> QED
    BY <2>1, <2>2 DEF s
<1>4. /\ Cardinality(Under(D, f, Ascending(f)[k])) < k
      /\ Cardinality(NotOver(D, f, Ascending(f)[k])) >= k
  <2> HIDE DEF v
  <2> QED
    BY <1>0, Zenon
<1> DEFINE under == Cardinality(Under(D, f, v))
           notOver == Cardinality(NotOver(D, f, v))
<1>5. under \in Nat /\ notOver \in Nat
  <2>1. Under(D, f, v) \in SUBSET D /\ NotOver(D, f, v) \in SUBSET D
    BY DEF Under, NotOver
  <2>2. IsFiniteSet(Under(D, f, v)) /\ IsFiniteSet(NotOver(D, f, v))
    BY <2>1, FS_Subset
  <2> QED
    BY <2>2, FS_CardinalityType
<1>6. under < k /\ notOver >= k
  <2> HIDE DEF v
  <2> QED
    BY <1>3, <1>4, Zenon
<1>7. q * Cardinality(D) \in Nat
  BY <1>1
<1>8. 100 * notOver >= q * Cardinality(D) /\ 100 * under < q * Cardinality(D)
  <2> DEFINE p == q * Cardinality(D)
  <2>1. p \in Nat /\ 100 * k >= p /\ 100 * (k - 1) < p
    BY <1>3, <1>7
  <2> HIDE DEF p, under, notOver
  <2>2. k \in Int /\ under <= k - 1
    BY <1>1, <1>5, <1>6
  <2> QED
    BY <1>5, <1>6, <2>1, <2>2 DEF p
<1> QED
  BY <1>8

LEMMA PercentilesAreTrue ==
    ASSUME records \in Seq(Records), Successes # {}, NEW q \in 1..99
    PROVE  LET v == Percentile(SortedLatencies, q)
               Below == {i \in Successes : records[i].seconds < v}
               UpTo == {i \in Successes : records[i].seconds <= v}
           IN  /\ 100 * Cardinality(UpTo) >= q * Cardinality(Successes)
               /\ 100 * Cardinality(Below) < q * Cardinality(Successes)
<1> DEFINE values == [i \in Successes |-> records[i].seconds]
           v == Percentile(SortedLatencies, q)
<1>1. IsFiniteSet(Successes)
  <2>1. Successes \in SUBSET (1..Len(records)) /\ Len(records) \in Nat
    BY DEF Successes
  <2>2. IsFiniteSet(1..Len(records))
    BY <2>1, FS_Interval
  <2> QED
    BY <2>1, <2>2, FS_Subset
<1>2. values \in [Successes -> Nat]
  <2>1. \A i \in Successes : records[i] \in Records
    BY DEF Successes
  <2>2. \A i \in Successes : records[i].seconds \in Nat
    BY <2>1 DEF Records
  <2> QED
    BY <2>2
<1>3. v = Percentile(Ascending(values), q)
  BY DEF SortedLatencies
<1>4. /\ Under(Successes, values, v) = {i \in Successes : records[i].seconds < v}
      /\ NotOver(Successes, values, v) = {i \in Successes : records[i].seconds <= v}
  <2> HIDE DEF v
  <2> QED
    BY DEF Under, NotOver
<1>5. /\ 100 * Cardinality(NotOver(Successes, values, Percentile(Ascending(values), q)))
           >= q * Cardinality(Successes)
      /\ 100 * Cardinality(Under(Successes, values, Percentile(Ascending(values), q)))
           < q * Cardinality(Successes)
  <2> HIDE DEF values
  <2> QED
    BY <1>1, <1>2, PercentileDivides
<1> QED
  BY <1>3, <1>4, <1>5

\* run_benchmark reports the corpus in order, once per iteration, however the
\* concurrent runs end, and _percentile says of the successes what its name
\* says, for any corpus, concurrency and latencies.
THEOREM ReportsAreTrue == Spec => []ReportIsTrue
<1>1. Init => BenchInv
  <2> SUFFICES ASSUME Init PROVE BenchInv
    OBVIOUS
  <2>1. records = << >> /\ round = 0 /\ start = 0 /\ pc = "start"
    BY DEF Init
  <2>2. Placed
    BY <2>1 DEF Placed
  <2> QED
    BY <2>1, <2>2 DEF BenchInv
<1>2. (Typed /\ BenchInv) /\ [Next]_vars => (Typed /\ BenchInv)'
  BY NextTyped, NextBench
<1>3. Typed /\ BenchInv => ReportIsTrue
  <2> SUFFICES ASSUME Typed, BenchInv PROVE ReportIsTrue
    OBVIOUS
  <2>1. DOMAIN corpus = 1..Len(corpus) /\ DOMAIN records = 1..Len(records)
    BY DEF Typed, BenchInv
  <2>2. Successes # {} => \A q \in {50, 95, 99} :
                LET v == Percentile(SortedLatencies, q)
                    Below == {i \in Successes : records[i].seconds < v}
                    UpTo == {i \in Successes : records[i].seconds <= v}
                IN  /\ 100 * Cardinality(UpTo) >= q * Cardinality(Successes)
                    /\ 100 * Cardinality(Below) < q * Cardinality(Successes)
    <3>1. \A q \in {50, 95, 99} : q \in 1..99
      OBVIOUS
    <3> QED
      BY <3>1, PercentilesAreTrue DEF BenchInv
  <2> QED
    BY <2>1, <2>2 DEF BenchInv, Placed, ReportIsTrue
<1> QED
  BY <1>1, <1>2, <1>3, InitTyped, PTL DEF Spec

=============================================================================
