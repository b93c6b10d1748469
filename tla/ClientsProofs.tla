--------------------------- MODULE ClientsProofs ---------------------------
(***************************************************************************)
(* Proofs about Clients, for any number of calls, attempts and connections. *)
(***************************************************************************)
EXTENDS Clients, FiniteSetTheorems, FunctionTheorems, TLAPS

-----------------------------------------------------------------------------
(* What is sent is bounded by what is tried.                                *)

Places == {"idle", "pool", "sent", "handled", "backoff", "ended"}

ClientsTypeOK ==
    /\ kind \in [Calls -> Kinds] /\ wired \subseteq {"notify", "index"}
    /\ pc \in [Calls -> Places]
    /\ heard \in [Calls -> Seq(Answer)]
    /\ copies \in [Calls -> Nat] /\ late \in [Calls -> Nat]
    /\ verdict \in [Calls -> {"open", "done", "failed"}]

\* The attempts of a call that have ended bound the requests that have been
\* handled or are on their way; the one in progress is known to its place.
Budget(c) ==
    /\ Len(heard[c]) <= Attempts(c)
    /\ pc[c] \in {"pool", "sent", "handled", "backoff"} => Len(heard[c]) < Attempts(c)
    /\ copies[c] + late[c] <= Len(heard[c]) + (IF pc[c] = "handled" THEN 1 ELSE 0)
    /\ pc[c] = "handled" => copies[c] > 0
    /\ pc[c] = "idle" => Len(heard[c]) = 0
    /\ verdict[c] = "open" <=> pc[c] # "ended"

ClientsInv == ClientsTypeOK /\ \A c \in Calls : Budget(c)

LEMMA AttemptsTyped ==
    ASSUME NEW c \in Calls
    PROVE  Attempts(c) \in Nat
  BY ClientsAssumption DEF Attempts

\* What an attempt may end in.
HearEffects(c, a) ==
    /\ heard' = [heard EXCEPT ![c] = Append(@, a)]
    /\ \/ /\ pc' = [pc EXCEPT ![c] = "backoff"]
          /\ UNCHANGED verdict
          /\ Len(heard[c]) + 1 < Attempts(c)
       \/ /\ pc' = [pc EXCEPT ![c] = "ended"]
          /\ \/ verdict' = [verdict EXCEPT ![c] = "failed"]
             \/ /\ verdict' = [verdict EXCEPT ![c] = "done"]
                /\ a \in {"ok", "unusable", "accepted"}

LEMMA HearHasEffects ==
    ASSUME NEW c \in Calls, NEW a \in Answer, Hear(c, a)
    PROVE  HearEffects(c, a)
<1> DEFINE n == Len(heard[c]) + 1
<1>1. heard' = [heard EXCEPT ![c] = Append(@, a)]
  BY DEF Hear
<1>2. CASE HearOllama(c, a, n)
  BY <1>1, <1>2 DEF HearOllama, Return, Retry, MoreAfter, HearEffects
<1>3. CASE HearWebhook(c, a, n)
  BY <1>1, <1>3 DEF HearWebhook, Return, Retry, MoreAfter, HearEffects
<1>4. CASE HearIndexer(c, a)
  BY <1>1, <1>4 DEF HearIndexer, Return, HearEffects
<1>5. CASE HearChroma(c, a)
  BY <1>1, <1>5 DEF HearChroma, Return, HearEffects
<1> QED
  BY <1>2, <1>3, <1>4, <1>5 DEF Hear

\* An attempt that ends without having been handled.
LEMMA EndUnhandled ==
    ASSUME ClientsInv, NEW c \in Calls, NEW a \in Answer, Hear(c, a),
           pc[c] \in {"pool", "sent"},
           \/ UNCHANGED late
           \/ late' = [late EXCEPT ![c] = @ + 1],
           UNCHANGED <<kind, wired, copies>>
    PROVE  ClientsInv'
<1> USE DEF ClientsInv, ClientsTypeOK, Places
<1>1. HearEffects(c, a)
  BY HearHasEffects
<1>2. /\ heard' \in [Calls -> Seq(Answer)] /\ Len(heard'[c]) = Len(heard[c]) + 1
      /\ Len(heard[c]) \in Nat
      /\ \A d \in Calls : d # c => heard'[d] = heard[d]
  BY <1>1 DEF HearEffects
<1>3. ClientsTypeOK'
  <2>1. late' \in [Calls -> Nat]
    OBVIOUS
  <2>2. pc' \in [Calls -> Places] /\ verdict' \in [Calls -> {"open", "done", "failed"}]
    BY <1>1 DEF HearEffects
  <2> QED
    BY <1>2, <2>1, <2>2
<1>4. \A d \in Calls : Attempts(d)' = Attempts(d) /\ Attempts(d) \in Nat
  <2>1. \A d \in Calls : Attempts(d)' = Attempts(d)
    BY DEF Attempts, SwitchedOff
  <2> QED
    BY <2>1, AttemptsTyped
<1>5. Budget(c)'
  BY <1>1, <1>2, <1>4 DEF HearEffects, Budget
<1>6. \A d \in Calls : d # c => Budget(d)'
  BY <1>1, <1>2, <1>4 DEF HearEffects, Budget
<1> QED
  BY <1>3, <1>5, <1>6

\* One that was handled; its answer may say anything.
LEMMA EndHandled ==
    ASSUME ClientsInv, NEW c \in Calls, NEW a \in Answer, Hear(c, a),
           pc[c] = "handled", UNCHANGED <<kind, wired, copies, late>>
    PROVE  ClientsInv'
<1> USE DEF ClientsInv, ClientsTypeOK, Places
<1>1. HearEffects(c, a)
  BY HearHasEffects
<1>2. /\ heard' \in [Calls -> Seq(Answer)] /\ Len(heard'[c]) = Len(heard[c]) + 1
      /\ Len(heard[c]) \in Nat
      /\ \A d \in Calls : d # c => heard'[d] = heard[d]
  BY <1>1 DEF HearEffects
<1>3. ClientsTypeOK'
  BY <1>1, <1>2 DEF HearEffects
<1>4. \A d \in Calls : Attempts(d)' = Attempts(d) /\ Attempts(d) \in Nat
  <2>1. \A d \in Calls : Attempts(d)' = Attempts(d)
    BY DEF Attempts, SwitchedOff
  <2> QED
    BY <2>1, AttemptsTyped
<1>5. Budget(c)'
  BY <1>1, <1>2, <1>4 DEF HearEffects, Budget
<1>6. \A d \in Calls : d # c => Budget(d)'
  BY <1>1, <1>2, <1>4 DEF HearEffects, Budget
<1> QED
  BY <1>3, <1>5, <1>6

LEMMA UnreachableIsAnswer == "unreachable" \in Answer
                             /\ AnswersUnhandled \subseteq Answer
                             /\ AnswersHandled \subseteq Answer
  BY DEF Answer, AnswersUnhandled, AnswersHandled

LEMMA ClientsNext == ClientsInv /\ [Next]_vars => ClientsInv'
<1> SUFFICES ASSUME ClientsInv, [Next]_vars PROVE ClientsInv'
  OBVIOUS
<1>1. \A d \in Calls : Attempts(d) \in Nat /\ Len(heard[d]) \in Nat
  BY AttemptsTyped DEF ClientsInv, ClientsTypeOK
<1>2. CASE Build \/ UNCHANGED vars
  BY <1>2 DEF Build, vars, ClientsInv, ClientsTypeOK, Budget, Attempts, SwitchedOff
<1>3. ASSUME NEW c \in Calls, Start(c) PROVE ClientsInv'
  <2> USE DEF ClientsInv, ClientsTypeOK, Places
  <2>1. \A d \in Calls : Attempts(d)' = Attempts(d)
    BY <1>3 DEF Start, Attempts, SwitchedOff
  <2>2. CASE Attempts(c) > 0 /\ Attempt(c) /\ UNCHANGED <<verdict, metric>>
    <3>1. PICK there \in {"pool", "sent"} : pc' = [pc EXCEPT ![c] = there]
      BY <2>2 DEF Attempt
    <3>2. pc[c] = "idle" /\ UNCHANGED <<kind, wired, heard, copies, late, verdict>>
      BY <1>3, <2>2 DEF Start
    <3>3. ClientsTypeOK'
      BY <3>1, <3>2
    <3>4. \A d \in Calls : Budget(d)'
      BY <1>1, <2>1, <2>2, <3>1, <3>2 DEF Budget
    <3> QED
      BY <3>3, <3>4
  <2>3. CASE \E answer \in {"done", "failed"} : Return(c, answer)
    <3>1. PICK answer \in {"done", "failed"} :
             /\ verdict' = [verdict EXCEPT ![c] = answer]
             /\ pc' = [pc EXCEPT ![c] = "ended"]
      BY <2>3 DEF Return
    <3>2. pc[c] = "idle" /\ UNCHANGED <<kind, wired, heard, copies, late>>
      BY <1>3 DEF Start
    <3>3. ClientsTypeOK'
      BY <3>1, <3>2
    <3>4. \A d \in Calls : Budget(d)'
      BY <1>1, <2>1, <3>1, <3>2 DEF Budget
    <3> QED
      BY <3>3, <3>4
  <2> QED
    BY <1>3, <2>2, <2>3 DEF Start
<1>4. ASSUME NEW c \in Calls, Connect(c) PROVE ClientsInv'
  <2> USE DEF ClientsInv, ClientsTypeOK, Places
  <2>1. \A d \in Calls : Attempts(d)' = Attempts(d)
    BY <1>4 DEF Connect, Attempts, SwitchedOff
  <2> QED
    BY <1>1, <1>4, <2>1 DEF Connect, Budget
<1>5. ASSUME NEW c \in Calls, PoolTimeout(c) PROVE ClientsInv'
  BY <1>5, UnreachableIsAnswer, EndUnhandled DEF PoolTimeout
<1>6. ASSUME NEW c \in Calls, HearAnswer(c) PROVE ClientsInv'
  BY <1>6, UnreachableIsAnswer, EndUnhandled, EndHandled DEF HearAnswer
<1>7. ASSUME NEW c \in Calls, WakeUp(c) PROVE ClientsInv'
  <2> USE DEF ClientsInv, ClientsTypeOK, Places
  <2>1. \A d \in Calls : Attempts(d)' = Attempts(d)
    BY <1>7 DEF WakeUp, Attempts, SwitchedOff
  <2> QED
    BY <1>1, <1>7, <2>1 DEF WakeUp, Attempt, Budget
<1>8. ASSUME NEW c \in Calls, Handle(c) PROVE ClientsInv'
  <2> USE DEF ClientsInv, ClientsTypeOK, Places
  <2>1. \A d \in Calls : Attempts(d)' = Attempts(d)
    BY <1>8 DEF Handle, Attempts, SwitchedOff
  <2> QED
    BY <1>1, <1>8, <2>1 DEF Handle, Budget
<1>9. ASSUME NEW c \in Calls, HandleLate(c) PROVE ClientsInv'
  <2> USE DEF ClientsInv, ClientsTypeOK, Places
  <2>1. \A d \in Calls : Attempts(d)' = Attempts(d)
    BY <1>9 DEF HandleLate, Attempts, SwitchedOff
  <2> QED
    BY <1>1, <1>9, <2>1 DEF HandleLate, Budget
<1> QED
  BY <1>2, <1>3, <1>4, <1>5, <1>6, <1>7, <1>8, <1>9 DEF Next, Proceed

LEMMA ClientsInit == Init => ClientsInv
<1> SUFFICES ASSUME Init PROVE ClientsInv
  OBVIOUS
<1>1. ClientsTypeOK
  BY MixesAssumption DEF Init, ClientsTypeOK, Places, Kinds, Ollama
<1>2. \A c \in Calls : Budget(c)
  BY AttemptsTyped DEF Init, Budget
<1> QED
  BY <1>1, <1>2 DEF ClientsInv

LEMMA ClientsInvIsKept == Spec => []ClientsInv
  BY ClientsInit, ClientsNext, PTL DEF Spec

-----------------------------------------------------------------------------
(* The contract.                                                            *)

Bounds == [c \in Calls |-> Attempts(c)]

LEMMA StepKeepsContract ==
    ASSUME ClientsInv, [Next]_vars
    PROVE  Contract!Next \/ UNCHANGED <<Bounds, copies, verdict>>
<1> USE DEF ClientsInv, ClientsTypeOK
<1>1. ASSUME UNCHANGED <<kind, wired>>
      PROVE  UNCHANGED Bounds
  BY <1>1 DEF Bounds, Attempts, SwitchedOff
<1>2. \A d \in Calls : Attempts(d) \in Nat /\ Len(heard[d]) \in Nat /\ Bounds[d] = Attempts(d)
  BY AttemptsTyped DEF Bounds
<1>3. CASE Build \/ UNCHANGED vars
  BY <1>1, <1>3 DEF Build, vars
<1>4. ASSUME NEW c \in Calls, Connect(c) \/ WakeUp(c)
      PROVE  UNCHANGED <<Bounds, copies, verdict>>
  BY <1>1, <1>4 DEF Connect, WakeUp
<1>5. ASSUME NEW c \in Calls, Handle(c) \/ HandleLate(c)
      PROVE  Contract!Handle(c)
  <2>1. copies[c] < Bounds[c]
    BY <1>2, <1>5 DEF Handle, HandleLate, Budget
  <2>2. copies' = [copies EXCEPT ![c] = @ + 1] /\ UNCHANGED <<Bounds, verdict>>
    BY <1>1, <1>5 DEF Handle, HandleLate
  <2> QED
    BY <2>1, <2>2 DEF Contract!Handle, Bounds
<1>6. ASSUME NEW c \in Calls, Start(c)
      PROVE  \/ UNCHANGED <<Bounds, copies, verdict>>
             \/ Contract!GiveUp(c) \/ Contract!Pretend(c)
  <2>1. verdict[c] = "open" /\ UNCHANGED Bounds /\ UNCHANGED copies
    BY <1>1, <1>6 DEF Start, Budget
  <2>2. SwitchedOff(c) => Bounds[c] = 0
    BY <1>2 DEF SwitchedOff, Attempts, Ollama
  <2> QED
    BY <1>6, <2>1, <2>2 DEF Start, Attempt, Return, Contract!GiveUp, Contract!Pretend, Bounds
<1>7. ASSUME NEW c \in Calls, NEW a \in Answer, HearEffects(c, a),
             pc[c] \in {"pool", "sent", "handled"},
             a \in {"ok", "unusable", "accepted"} => pc[c] = "handled",
             UNCHANGED <<kind, wired, copies>>
      PROVE  \/ UNCHANGED <<Bounds, copies, verdict>>
             \/ Contract!GiveUp(c) \/ Contract!Confirm(c)
  <2>1. verdict[c] = "open" /\ UNCHANGED Bounds
    BY <1>1, <1>7 DEF Budget
  <2>2. pc[c] = "handled" => copies[c] > 0
    BY DEF Budget
  <2> QED
    BY <1>7, <2>1, <2>2 DEF HearEffects, Contract!GiveUp, Contract!Confirm, Bounds
<1>8. ASSUME NEW c \in Calls, PoolTimeout(c) \/ HearAnswer(c)
      PROVE  \/ UNCHANGED <<Bounds, copies, verdict>>
             \/ Contract!GiveUp(c) \/ Contract!Confirm(c)
  <2>1. CASE PoolTimeout(c)
    <3>1. HearEffects(c, "unreachable")
      BY <2>1, HearHasEffects, UnreachableIsAnswer DEF PoolTimeout
    <3> QED
      BY <2>1, <3>1, <1>7, UnreachableIsAnswer DEF PoolTimeout
  <2>2. CASE HearAnswer(c)
    <3>1. PICK a \in Answer : /\ Hear(c, a)
                              /\ pc[c] \in {"sent", "handled"}
                              /\ pc[c] = "sent" => a \in AnswersUnhandled
      BY <2>2, UnreachableIsAnswer DEF HearAnswer
    <3>2. a \in {"ok", "unusable", "accepted"} => pc[c] = "handled"
      BY <3>1 DEF AnswersUnhandled
    <3>3. HearEffects(c, a)
      BY <3>1, HearHasEffects
    <3> QED
      BY <2>2, <3>1, <3>2, <3>3, <1>7 DEF HearAnswer
  <2> QED
    BY <1>8, <2>1, <2>2
<1>9. Contract!Next \/ UNCHANGED <<Bounds, copies, verdict>>
  BY <1>3, <1>4, <1>5, <1>6, <1>8 DEF Next, Proceed, Contract!Next
<1> QED
  BY <1>9

\* Whatever is lost, late or handled twice: a client that says yes was heard, or
\* is switched off, and no call is handled more often than its client may try.
THEOREM ClientsKeepContract == Spec => DeliversAtLeastOnce
<1>1. Init => Contract!Init
  BY AttemptsTyped DEF Init, Contract!Init
<1>2. ClientsInv /\ [Next]_vars => [Contract!Next]_(Contract!vars)
  BY StepKeepsContract DEF Bounds, Contract!vars
<1> QED
  BY <1>1, <1>2, ClientsInvIsKept, PTL DEF Spec, DeliversAtLeastOnce, Contract!Spec

-----------------------------------------------------------------------------
(* Powers of two, by counting the subsets of 1..n.                          *)

LEMMA PowersOfTwo ==
    ASSUME NEW n \in Nat
    PROVE  2^n \in Nat /\ 2^(n + 1) = 2^n + 2^n /\ 2^0 = 1
<1> DEFINE S == SUBSET (1..n)
           T == {A \union {n + 1} : A \in S}
<1>1. IsFiniteSet(1..n) /\ Cardinality(1..n) = n
  BY FS_Interval
<1>2. IsFiniteSet(S) /\ Cardinality(S) = 2^n /\ Cardinality(S) \in Nat
  BY <1>1, FS_SUBSET, FS_CardinalityType
<1>3. IsFiniteSet(1..(n + 1)) /\ Cardinality(1..(n + 1)) = n + 1
  BY FS_Interval
<1>4. Cardinality(SUBSET (1..(n + 1))) = 2^(n + 1)
  BY <1>3, FS_SUBSET
<1>5. SUBSET (1..(n + 1)) = S \union T
  <2>1. 1..(n + 1) = 1..n \union {n + 1}
    OBVIOUS
  <2>2. ASSUME NEW B \in SUBSET (1..n \union {n + 1}) PROVE B \in S \union T
    <3>1. B \ {n + 1} \in S
      OBVIOUS
    <3>2. n + 1 \in B => B = (B \ {n + 1}) \union {n + 1}
      OBVIOUS
    <3>3. n + 1 \notin B => B = B \ {n + 1}
      OBVIOUS
    <3> QED
      BY <3>1, <3>2, <3>3
  <2>3. S \union T \subseteq SUBSET (1..n \union {n + 1})
    OBVIOUS
  <2> QED
    BY <2>1, <2>2, <2>3
<1>6. S \intersect T = {}
  <2>1. n + 1 \notin 1..n
    OBVIOUS
  <2> QED
    BY <2>1
<1>7. IsFiniteSet(T) /\ Cardinality(T) = Cardinality(S)
  <2> DEFINE f == [A \in S |-> A \union {n + 1}]
  <2>1. n + 1 \notin 1..n
    OBVIOUS
  <2>2. \A A, B \in S : A \union {n + 1} = B \union {n + 1} => A = B
    BY <2>1
  <2>3. f \in Bijection(S, T)
    <3>1. f \in [S -> T]
      OBVIOUS
    <3>2. \A A, B \in S : f[A] = f[B] => A = B
      BY <2>2
    <3>3. \A B \in T : \E A \in S : f[A] = B
      OBVIOUS
    <3> QED
      BY <3>1, <3>2, <3>3, Fun_IsBij
  <2> QED
    BY <1>2, <2>3, FS_Bijection DEF ExistsBijection
<1> HIDE DEF S, T
<1>8. Cardinality(S \union T)
          = Cardinality(S) + Cardinality(T) - Cardinality(S \intersect T)
  BY <1>2, <1>7, FS_Union
<1>9. Cardinality(S \union T) = Cardinality(S) + Cardinality(S)
  BY <1>2, <1>6, <1>7, <1>8, FS_EmptySet
<1>11. 2^(n + 1) = 2^n + 2^n
  BY <1>2, <1>4, <1>5, <1>9
<1>10. 2^0 = 1
  OBVIOUS
<1> QED
  BY <1>2, <1>10, <1>11

-----------------------------------------------------------------------------
(* What an attempt adds to the counters.                                    *)

Counters == [success: Nat, retry: Nat, error: Nat]

\* One more of the status, for the model of the call.
LEMMA RecordAdds ==
    ASSUME metric \in [Ollama -> Counters], NEW c \in Calls, kind[c] \in Ollama,
           NEW status \in {"success", "retry", "error"}, Record(c, status)
    PROVE  /\ metric' \in [Ollama -> Counters]
           /\ \A m \in Ollama \ {kind[c]} : metric'[m] = metric[m]
           /\ LET old == metric[kind[c]]  new == metric'[kind[c]] IN
              /\ new.success = old.success + (IF status = "success" THEN 1 ELSE 0)
              /\ new.retry = old.retry + (IF status = "retry" THEN 1 ELSE 0)
              /\ new.error = old.error + (IF status = "error" THEN 1 ELSE 0)
<1> DEFINE old == metric[kind[c]]
<1>1. old \in Counters
  OBVIOUS
<1>2. CASE status = "success"
  <2>1. metric' = [metric EXCEPT ![kind[c]].success = @ + 1]
    BY <1>2 DEF Record
  <2> QED
    BY <1>1, <1>2, <2>1 DEF Counters
<1>3. CASE status = "retry"
  <2>1. metric' = [metric EXCEPT ![kind[c]].retry = @ + 1]
    BY <1>3 DEF Record
  <2> QED
    BY <1>1, <1>3, <2>1 DEF Counters
<1>4. CASE status = "error"
  <2>1. metric' = [metric EXCEPT ![kind[c]].error = @ + 1]
    BY <1>4 DEF Record
  <2> QED
    BY <1>1, <1>4, <2>1 DEF Counters
<1> QED
  BY <1>2, <1>3, <1>4

-----------------------------------------------------------------------------
(* The retry policy.                                                        *)

AccountTyped ==
    /\ built \in {"no", "yes", "failed"}
    /\ waited \in [Calls -> Nat]
    /\ metric \in [Ollama -> Counters]

Trying == {"pool", "sent", "handled"}

\* How far a call's sleeps have come: it has slept before every attempt but the
\* first, and owes one more sleep while it backs off.
Slept(c) ==
    LET n == Len(heard[c]) IN
    IF n = 0 THEN 0
    ELSE IF pc[c] \in Trying THEN 2^n - 1 ELSE 2^(n - 1) - 1

Policy(c) ==
    LET n == Len(heard[c]) IN
    /\ \A i \in 1..n : heard[c][i] \in RefusalIsFinal => i = n /\ pc[c] = "ended"
    /\ verdict[c] = "failed" /\ n > 0 /\ heard[c][n] \in Transport => n = Attempts(c)
    /\ pc[c] = "backoff" => n > 0
    /\ waited[c] = Slept(c)

PoolKept == Cardinality(InPool) <= PoolSize

PolicyInv == AccountTyped /\ PoolKept /\ \A c \in Calls : Policy(c)

LEMMA SubsetsAreFinite ==
    ASSUME NEW S \in SUBSET Calls
    PROVE  IsFiniteSet(S) /\ Cardinality(S) \in Nat
  BY CallsAssumption, FS_Subset, FS_CardinalityType

\* A call that is refused is not sent again, one that gives up over a transport
\* error has used up its attempts, and the counters stay counters.
HearPolicy(c, a) ==
    /\ pc'[c] \in {"backoff", "ended"}
    /\ pc'[c] = "backoff" => a \notin RefusalIsFinal
    /\ verdict'[c] = "failed" /\ a \in Transport => Len(heard[c]) + 1 = Attempts(c)
    /\ metric' \in [Ollama -> Counters]

LEMMA HearHasPolicy ==
    ASSUME ClientsInv, AccountTyped, NEW c \in Calls, NEW a \in Answer, Hear(c, a),
           pc[c] \in Trying
    PROVE  HearPolicy(c, a)
<1> DEFINE n == Len(heard[c]) + 1
<1>typing. /\ pc \in [Calls -> Places] /\ metric \in [Ollama -> Counters]
           /\ verdict \in [Calls -> {"open", "done", "failed"}]
           /\ Len(heard[c]) \in Nat /\ Attempts(c) \in Nat /\ n <= Attempts(c)
           /\ kind[c] \in Kinds
           /\ kind[c] \in {"index", "publish"} => Attempts(c) <= 1
           /\ verdict[c] = "open"
  <2>1. Attempts(c) \in Nat /\ (kind[c] \in {"index", "publish"} => Attempts(c) <= 1)
    BY AttemptsTyped DEF Attempts, Ollama
  <2>2. Len(heard[c]) \in Nat /\ Len(heard[c]) < Attempts(c) /\ verdict[c] = "open"
    BY DEF ClientsInv, ClientsTypeOK, Budget, Trying
  <2> QED
    BY <2>1, <2>2 DEF ClientsInv, ClientsTypeOK, AccountTyped
<1>1. ASSUME kind[c] \in Ollama, HearOllama(c, a, n) PROVE HearPolicy(c, a)
  <2>1. metric' \in [Ollama -> Counters]
    BY <1>1, <1>typing, RecordAdds DEF HearOllama
  <2>2. /\ pc'[c] \in {"backoff", "ended"}
        /\ pc'[c] = "backoff" => a \notin RefusalIsFinal
        /\ verdict'[c] = "failed" /\ a \in Transport => n = Attempts(c)
    BY <1>1, <1>typing DEF HearOllama, Return, Retry, MoreAfter, RefusalIsFinal,
       Transport
  <2> QED
    BY <2>1, <2>2 DEF HearPolicy
<1>2. ASSUME HearWebhook(c, a, n), UNCHANGED metric PROVE HearPolicy(c, a)
  <2>2. /\ pc'[c] \in {"backoff", "ended"}
        /\ pc'[c] = "backoff" => a \notin RefusalIsFinal
        /\ verdict'[c] = "failed" /\ a \in Transport => n = Attempts(c)
    BY <1>2, <1>typing DEF HearWebhook, Return, Retry, MoreAfter, RefusalIsFinal,
       Transport
  <2> QED
    BY <1>2, <2>2, <1>typing DEF HearPolicy
<1>3. ASSUME kind[c] \in {"index", "publish"}, HearIndexer(c, a) \/ HearChroma(c, a),
             UNCHANGED metric
      PROVE  HearPolicy(c, a)
  BY <1>3, <1>typing DEF HearPolicy, HearIndexer, HearChroma, Return
<1> QED
  BY <1>1, <1>2, <1>3 DEF Hear

\* The end of an attempt keeps the policy.
LEMMA HearKeepsPolicy ==
    ASSUME ClientsInv, PolicyInv, NEW c \in Calls, NEW a \in Answer, Hear(c, a),
           pc[c] \in Trying, UNCHANGED <<kind, wired, built, waited>>
    PROVE  PolicyInv'
<1>1. HearEffects(c, a) /\ HearPolicy(c, a)
  BY HearHasEffects, HearHasPolicy DEF PolicyInv
<1>typing. /\ heard \in [Calls -> Seq(Answer)] /\ pc \in [Calls -> Places]
           /\ verdict \in [Calls -> {"open", "done", "failed"}]
           /\ waited \in [Calls -> Nat]
  BY DEF ClientsInv, ClientsTypeOK, PolicyInv, AccountTyped
<1>2. /\ heard' = [heard EXCEPT ![c] = Append(@, a)]
      /\ Len(heard'[c]) = Len(heard[c]) + 1 /\ Len(heard[c]) \in Nat
      /\ \A i \in 1..Len(heard[c]) : heard'[c][i] = heard[c][i]
      /\ heard'[c][Len(heard[c]) + 1] = a
      /\ \A d \in Calls \ {c} :
            heard'[d] = heard[d] /\ pc'[d] = pc[d] /\ verdict'[d] = verdict[d]
  BY <1>1, <1>typing DEF HearEffects
<1>3. \A d \in Calls : Attempts(d)' = Attempts(d)
  BY DEF Attempts, SwitchedOff
<1>4. AccountTyped'
  BY <1>1 DEF PolicyInv, AccountTyped, HearPolicy
<1>5. PoolKept'
  <2>1. InPool' \subseteq InPool
    BY <1>1, <1>2 DEF InPool, HearPolicy
  <2>2. InPool \in SUBSET Calls /\ InPool' \in SUBSET Calls
    BY DEF InPool
  <2>3. /\ IsFiniteSet(InPool) /\ Cardinality(InPool) \in Nat
        /\ Cardinality(InPool') \in Nat /\ Cardinality(InPool') <= Cardinality(InPool)
    BY <2>1, <2>2, SubsetsAreFinite, FS_Subset
  <2> QED
    BY <2>3, ClientsAssumption DEF PolicyInv, PoolKept
<1>6. ASSUME NEW d \in Calls \ {c} PROVE Policy(d)'
  BY <1>2, <1>3 DEF PolicyInv, Policy, Slept
<1>7. Policy(c)'
  <2> DEFINE n == Len(heard[c])
  <2>1. \A i \in 1..n : heard[c][i] \notin RefusalIsFinal
    BY DEF PolicyInv, Policy, Trying
  <2>2. \A i \in 1..(n + 1) : heard'[c][i] \in RefusalIsFinal =>
            i = n + 1 /\ pc'[c] = "ended"
    <3>1. \A i \in 1..(n + 1) : i \in 1..n \/ i = n + 1
      BY <1>2
    <3> QED
      BY <2>1, <3>1, <1>1, <1>2 DEF HearPolicy
  <2>3. verdict'[c] = "failed" /\ a \in Transport => n + 1 = Attempts(c)
    BY <1>1 DEF HearPolicy
  <2>4. waited[c] = 2^n - 1
    <3>1. 2^0 = 1
      BY PowersOfTwo
    <3>2. CASE n = 0
      BY <3>1, <3>2 DEF PolicyInv, Policy, Slept
    <3>3. CASE n # 0
      BY <3>3 DEF PolicyInv, Policy, Slept
    <3> QED
      BY <3>2, <3>3
  <2>5. waited'[c] = Slept(c)'
    <3>1. pc'[c] \notin Trying
      BY <1>1 DEF HearPolicy, Trying
    <3> QED
      BY <1>2, <2>4, <3>1 DEF Slept
  <2> QED
    BY <1>2, <1>3, <2>2, <2>3, <2>5 DEF Policy
<1> QED
  BY <1>4, <1>5, <1>6, <1>7 DEF PolicyInv

LEMMA PolicyNext == ClientsInv /\ PolicyInv /\ [Next]_vars => PolicyInv'
<1> SUFFICES ASSUME ClientsInv, PolicyInv, [Next]_vars PROVE PolicyInv'
  OBVIOUS
<1>typing. /\ heard \in [Calls -> Seq(Answer)] /\ pc \in [Calls -> Places]
           /\ verdict \in [Calls -> {"open", "done", "failed"}]
           /\ waited \in [Calls -> Nat] /\ metric \in [Ollama -> Counters]
           /\ kind \in [Calls -> Kinds]
           /\ \A d \in Calls : Len(heard[d]) \in Nat /\ Attempts(d) \in Nat
  BY AttemptsTyped DEF ClientsInv, ClientsTypeOK, PolicyInv, AccountTyped
<1>1. ASSUME kind' = kind, InPool' \subseteq InPool PROVE PoolKept'
  <2>1. InPool \in SUBSET Calls /\ InPool' \in SUBSET Calls
    BY DEF InPool
  <2>2. /\ IsFiniteSet(InPool) /\ Cardinality(InPool) \in Nat
        /\ Cardinality(InPool') \in Nat /\ Cardinality(InPool') <= Cardinality(InPool)
    BY <1>1, <2>1, SubsetsAreFinite, FS_Subset
  <2> QED
    BY <2>2, ClientsAssumption DEF PolicyInv, PoolKept
\* Steps that say nothing new about how attempts end.
<1>2. ASSUME UNCHANGED <<kind, wired, heard, waited>>, AccountTyped', PoolKept',
             \A d \in Calls :
                \/ /\ pc'[d] \in Trying <=> pc[d] \in Trying
                   /\ pc[d] = "ended" <=> pc'[d] = "ended"
                   /\ verdict'[d] = verdict[d]
                \/ Len(heard[d]) = 0,
             \A d \in Calls : pc'[d] = "backoff" => pc[d] = "backoff"
      PROVE  PolicyInv'
  <2>1. \A d \in Calls : Attempts(d)' = Attempts(d)
    BY <1>2 DEF Attempts, SwitchedOff
  <2>2. ASSUME NEW d \in Calls PROVE Policy(d)'
    <3>1. CASE Len(heard[d]) = 0
      BY <1>2, <3>1 DEF PolicyInv, Policy, Slept
    <3>2. CASE /\ pc'[d] \in Trying <=> pc[d] \in Trying
               /\ pc[d] = "ended" <=> pc'[d] = "ended"
               /\ verdict'[d] = verdict[d]
      BY <1>2, <2>1, <3>2 DEF PolicyInv, Policy, Slept
    <3> QED
      BY <1>2, <3>1, <3>2
  <2> QED
    BY <1>2, <2>2 DEF PolicyInv
<1>3. CASE UNCHANGED vars \/ Build
  <2>1. AccountTyped' /\ PoolKept'
    BY <1>3 DEF vars, Build, PolicyInv, AccountTyped, PoolKept, InPool
  <2> QED
    BY <1>2, <1>3, <2>1 DEF vars, Build
<1>4. ASSUME NEW c \in Calls, Start(c) PROVE PolicyInv'
  <2>1. pc[c] = "idle" /\ Len(heard[c]) = 0
        /\ UNCHANGED <<kind, wired, built, heard, waited>>
    BY <1>4 DEF Start, ClientsInv, Budget
  <2>2. \A d \in Calls \ {c} : pc'[d] = pc[d] /\ verdict'[d] = verdict[d]
    BY <1>4, <1>typing DEF Start, Attempt, Return
  <2>3. metric' \in [Ollama -> Counters]
    BY <1>4, <1>typing, RecordAdds DEF Start
  <2> pc'[c] # "backoff"
    BY <1>4, <1>typing DEF Start, Attempt, Return
  <2>4. InPool' \subseteq InPool
    <3>1. kind[c] \in Ollama => pc'[c] \in {"pool", "ended"}
      BY <1>4, <1>typing DEF Start, Attempt, Return
    <3> QED
      BY <2>1, <2>2, <3>1 DEF InPool
  <2>5. AccountTyped' /\ PoolKept'
    BY <1>1, <2>1, <2>3, <2>4 DEF PolicyInv, AccountTyped
  <2> QED
    BY <1>2, <2>1, <2>2, <2>5
<1>5. ASSUME NEW c \in Calls, Connect(c) PROVE PolicyInv'
  <2>1. /\ pc[c] = "pool" /\ pc' = [pc EXCEPT ![c] = "sent"]
        /\ Cardinality(InPool) < PoolSize
        /\ UNCHANGED <<kind, wired, built, heard, waited, verdict, metric>>
    BY <1>5 DEF Connect
  <2>2. PoolKept'
    <3>1. InPool' \subseteq InPool \union {c}
      BY <2>1, <1>typing DEF InPool
    <3>2. InPool \in SUBSET Calls /\ InPool' \in SUBSET Calls
      BY DEF InPool
    <3>3. IsFiniteSet(InPool) /\ Cardinality(InPool) \in Nat
          /\ Cardinality(InPool') \in Nat
      BY <3>2, SubsetsAreFinite
    <3>4. IsFiniteSet(InPool \union {c})
          /\ Cardinality(InPool \union {c}) \in Nat
          /\ Cardinality(InPool \union {c}) <= Cardinality(InPool) + 1
      BY <3>2, <3>3, FS_AddElement
    <3>5. Cardinality(InPool') <= Cardinality(InPool \union {c})
      BY <3>1, <3>4, FS_Subset
    <3> QED
      BY <2>1, <3>3, <3>4, <3>5, ClientsAssumption DEF PoolKept
  <2>3. AccountTyped'
    BY <2>1 DEF PolicyInv, AccountTyped
  <2> QED
    BY <1>2, <2>1, <2>2, <2>3, <1>typing DEF Trying
<1>6. ASSUME NEW c \in Calls, PoolTimeout(c) PROVE PolicyInv'
  BY <1>6, HearKeepsPolicy, UnreachableIsAnswer DEF PoolTimeout, Trying
<1>7. ASSUME NEW c \in Calls, HearAnswer(c) PROVE PolicyInv'
  <2>1. PICK a \in Answer : Hear(c, a)
    BY <1>7, UnreachableIsAnswer DEF HearAnswer
  <2>2. pc[c] \in Trying /\ UNCHANGED <<kind, wired, built, waited>>
    BY <1>7 DEF HearAnswer, Trying
  <2> QED
    BY <2>1, <2>2, HearKeepsPolicy
<1>8. ASSUME NEW c \in Calls, WakeUp(c) PROVE PolicyInv'
  <2> DEFINE n == Len(heard[c])
  <2>1. /\ pc[c] = "backoff" /\ UNCHANGED <<kind, wired, built, heard, verdict, metric>>
        /\ waited' = [waited EXCEPT ![c] = @ + 2^(n - 1)]
        /\ pc' = [pc EXCEPT ![c] = IF kind[c] \in Ollama THEN "pool" ELSE "sent"]
    BY <1>8 DEF WakeUp, Backoff, Attempt
  <2>2. /\ \A d \in Calls \ {c} : pc'[d] = pc[d] /\ waited'[d] = waited[d]
        /\ pc'[c] \in Trying /\ (kind[c] \in Ollama => pc'[c] = "pool")
    BY <2>1, <1>typing DEF Trying
  <2>3. n > 0 /\ waited[c] = 2^(n - 1) - 1
    BY <2>1 DEF PolicyInv, Policy, Slept, Trying
  <2>4. 2^n = 2^(n - 1) + 2^(n - 1) /\ 2^(n - 1) \in Nat
    <3>1. n - 1 \in Nat /\ (n - 1) + 1 = n
      BY <2>3, <1>typing
    <3>2. 2^(n - 1) \in Nat /\ 2^((n - 1) + 1) = 2^(n - 1) + 2^(n - 1)
      BY <3>1, PowersOfTwo
    <3> QED
      BY <3>1, <3>2
  <2>5. waited'[c] = 2^n - 1 /\ waited' \in [Calls -> Nat]
    <3>1. waited[c] + 2^(n - 1) \in Nat
      BY <2>4, <1>typing
    <3>2. waited' \in [Calls -> Nat] /\ waited'[c] = waited[c] + 2^(n - 1)
      BY <2>1, <3>1, <1>typing
    <3> QED
      BY <2>3, <2>4, <3>2
  <2>6. AccountTyped' /\ PoolKept'
    <3>1. InPool' \subseteq InPool
      BY <2>1, <2>2 DEF InPool
    <3> QED
      BY <1>1, <2>1, <2>5, <3>1 DEF PolicyInv, AccountTyped
  <2>7. \A d \in Calls : Attempts(d)' = Attempts(d)
    BY <2>1 DEF Attempts, SwitchedOff
  <2>8. \A d \in Calls \ {c} : Policy(d)'
    BY <2>1, <2>2, <2>7 DEF PolicyInv, Policy, Slept
  <2>9. Policy(c)'
    <3>1. pc'[c] # "ended" /\ pc'[c] # "backoff" /\ Slept(c)' = 2^n - 1
      BY <2>1, <2>2, <2>3 DEF Slept, Trying
    <3> QED
      BY <2>1, <2>3, <2>5, <2>7, <3>1 DEF PolicyInv, Policy
  <2> QED
    BY <2>6, <2>8, <2>9 DEF PolicyInv
<1>9. ASSUME NEW c \in Calls, Handle(c) \/ HandleLate(c) PROVE PolicyInv'
  <2>1. /\ UNCHANGED <<kind, wired, built, heard, waited, verdict, metric>>
        /\ \A d \in Calls : pc'[d] = pc[d] \/ (pc[d] = "sent" /\ pc'[d] = "handled")
    BY <1>9, <1>typing DEF Handle, HandleLate
  <2>2. InPool' \subseteq InPool
    BY <2>1 DEF InPool
  <2>3. AccountTyped' /\ PoolKept'
    BY <1>1, <2>1, <2>2 DEF PolicyInv, AccountTyped
  <2> QED
    BY <1>2, <2>1, <2>3 DEF Trying
<1> QED
  BY <1>3, <1>4, <1>5, <1>6, <1>7, <1>8, <1>9 DEF Next, Proceed

LEMMA PolicyInit == Init => PolicyInv
<1> SUFFICES ASSUME Init PROVE PolicyInv
  OBVIOUS
<1>1. AccountTyped
  BY DEF Init, AccountTyped, Counters
<1>2. InPool = {}
  BY DEF Init, InPool
<1>3. PoolKept
  BY <1>2, FS_EmptySet, ClientsAssumption DEF PoolKept
<1>4. \A c \in Calls : Policy(c)
  BY DEF Init, Policy, Slept
<1> QED
  BY <1>1, <1>3, <1>4 DEF PolicyInv

LEMMA PolicyIsKept == Spec => [](ClientsInv /\ PolicyInv)
  BY ClientsInit, ClientsNext, PolicyInit, PolicyNext, PTL DEF Spec

(***************************************************************************)
(* What every client does with its failures: a refusal is final, a call     *)
(* does not give up over the network while it has attempts left, it sleeps  *)
(* exactly through the gaps between its attempts, twice as long each time,  *)
(* and Ollama's connections are never exceeded.                             *)
(***************************************************************************)
THEOREM PolicyIsFollowed == Spec => []RetriesFollowPolicy
<1>1. ClientsInv /\ PolicyInv => RetriesFollowPolicy
  <2> SUFFICES ASSUME ClientsInv, PolicyInv PROVE RetriesFollowPolicy
    OBVIOUS
  <2>1. TypeOK
    BY DEF ClientsInv, ClientsTypeOK, Places, PolicyInv, AccountTyped, Counters,
       PoolKept, TypeOK
  <2>2. ASSUME NEW c \in Calls
        PROVE  LET n == Len(heard[c]) IN
               /\ \A i \in 1..(n - 1) : heard[c][i] \notin RefusalIsFinal
               /\ kind[c] \in {"index", "publish"} => n <= 1
               /\ verdict[c] = "failed" /\ n > 0 /\ heard[c][n] \in Transport
                     => n = Attempts(c)
               /\ pc[c] = "ended" /\ n > 0 => waited[c] = 2^(n - 1) - 1
    <3> DEFINE n == Len(heard[c])
    <3>1. n \in Nat /\ n <= Attempts(c) /\ Policy(c)
      BY <2>1 DEF TypeOK, ClientsInv, Budget, PolicyInv
    <3>2. \A i \in 1..(n - 1) : heard[c][i] \notin RefusalIsFinal
      BY <3>1 DEF Policy
    <3>3. kind[c] \in {"index", "publish"} => n <= 1
      BY <3>1 DEF Attempts, Ollama
    <3>4. pc[c] = "ended" /\ n > 0 => waited[c] = 2^(n - 1) - 1
      BY <3>1 DEF Policy, Slept, Trying
    <3> QED
      BY <3>1, <3>2, <3>3, <3>4 DEF Policy
  <2> QED
    BY <2>1, <2>2 DEF RetriesFollowPolicy
<1> QED
  BY <1>1, PolicyIsKept, PTL

-----------------------------------------------------------------------------
(* The counters an operator reads.                                          *)

Successes == {"ok", "unusable"}
Errors == Answer \ {"ok", "unusable", "invalid"}
Failed(m) == Unattempted(m) \union EndedBy(m, Errors)

CallAccount(m) ==
    /\ metric[m].success = Cardinality(EndedBy(m, Successes))
    /\ metric[m].error = Cardinality(Failed(m))
    /\ metric[m].retry = Cardinality(Repeated(m))

\* new is old with x added when yes, and old otherwise.
Gains(old, new, x, yes) == x \notin old /\ new = IF yes THEN old \union {x} ELSE old

LEMMA GainIsCounted ==
    ASSUME NEW old, NEW new, NEW x, NEW yes \in BOOLEAN, IsFiniteSet(old),
           Gains(old, new, x, yes)
    PROVE  Cardinality(new) = Cardinality(old) + (IF yes THEN 1 ELSE 0)
<1>1. Cardinality(old) \in Nat
  BY FS_CardinalityType
<1>2. CASE yes
  <2>1. new = old \union {x} /\ x \notin old
    BY <1>2 DEF Gains
  <2>2. Cardinality(new) = Cardinality(old) + 1
    BY <2>1, FS_AddElement
  <2> QED
    BY <1>2, <2>2
<1>3. CASE ~yes
  <2>1. new = old
    BY <1>3 DEF Gains
  <2> QED
    BY <1>1, <1>3, <2>1
<1> QED
  BY <1>2, <1>3

LEMMA AccountSetsAreFinite ==
    ASSUME NEW m
    PROVE  /\ IsFiniteSet(EndedBy(m, Successes)) /\ IsFiniteSet(Failed(m))
           /\ IsFiniteSet(Repeated(m))
<1>1. IsFiniteSet(EndedBy(m, Successes)) /\ IsFiniteSet(Failed(m))
  BY SubsetsAreFinite DEF EndedBy, Failed, Unattempted
<1>2. IsFiniteSet(1..OllamaAttempts)
  BY FS_Interval, ClientsAssumption
<1>3. IsFiniteSet(Calls \X (1..OllamaAttempts))
  BY <1>2, CallsAssumption, FS_Product
<1>4. Repeated(m) \in SUBSET (Calls \X (1..OllamaAttempts))
  BY DEF Repeated
<1>5. IsFiniteSet(Repeated(m))
  BY <1>3, <1>4, FS_Subset
<1> QED
  BY <1>1, <1>5

\* The end of an attempt moves one counter of its model, or none.
HearCounts(c, a) ==
    LET old == metric[kind[c]]  new == metric'[kind[c]] IN
    /\ pc' \in {[pc EXCEPT ![c] = "backoff"], [pc EXCEPT ![c] = "ended"]}
    /\ \A m \in Ollama \ {kind[c]} : metric'[m] = metric[m]
    /\ kind[c] \in Ollama =>
          LET ended == pc'[c] = "ended" IN
          /\ new.success = old.success + (IF ended /\ a \in Successes THEN 1 ELSE 0)
          /\ new.error = old.error + (IF ended /\ a \in Errors THEN 1 ELSE 0)
          /\ new.retry = old.retry + (IF ~ended THEN 1 ELSE 0)

LEMMA HearIsCounted ==
    ASSUME ClientsInv, AccountTyped, NEW c \in Calls, NEW a \in Answer, Hear(c, a),
           pc[c] \in Trying
    PROVE  HearCounts(c, a)
<1> DEFINE n == Len(heard[c]) + 1
<1>typing. pc \in [Calls -> Places] /\ metric \in [Ollama -> Counters]
  BY DEF ClientsInv, ClientsTypeOK, AccountTyped
<1>1. pc' \in {[pc EXCEPT ![c] = "backoff"], [pc EXCEPT ![c] = "ended"]}
  BY HearHasEffects DEF HearEffects
<1>2. ASSUME kind[c] \notin Ollama PROVE HearCounts(c, a)
  <2>1. metric' = metric
    BY <1>2 DEF Hear
  <2> QED
    BY <1>1, <1>2, <2>1 DEF HearCounts
<1>3. ASSUME kind[c] \in Ollama PROVE HearCounts(c, a)
  <2>1. HearOllama(c, a, n)
    BY <1>3 DEF Hear, Ollama
  <2> DEFINE old == metric[kind[c]]
             new == metric'[kind[c]]
  <2>2. old.success \in Nat /\ old.error \in Nat /\ old.retry \in Nat
    BY <1>3, <1>typing DEF Counters
  <2>3. CASE a \in Successes
    <3>1. Record(c, "success") /\ pc'[c] = "ended"
      BY <2>1, <2>3, <1>typing DEF HearOllama, Return, Successes, Transport
    <3> QED
      BY <1>1, <1>3, <1>typing, <2>2, <2>3, <3>1, RecordAdds
         DEF HearCounts, Successes, Errors
  <2>4. CASE pc'[c] = "backoff"
    <3>1. Record(c, "retry")
      BY <2>1, <2>4, <1>typing DEF HearOllama, Return
    <3> QED
      BY <1>1, <1>3, <1>typing, <2>2, <2>4, <3>1, RecordAdds DEF HearCounts
  <2>5. CASE pc'[c] = "ended" /\ a \in Errors
    <3>1. Record(c, "error")
      BY <2>1, <2>5, <1>typing
         DEF HearOllama, Retry, Errors, Answer, Transport
    <3> QED
      BY <1>1, <1>3, <1>typing, <2>2, <2>5, <3>1, RecordAdds
         DEF HearCounts, Successes, Errors
  <2>6. CASE a = "invalid"
    <3>1. metric' = metric /\ pc'[c] = "ended"
      BY <2>1, <2>6, <1>typing DEF HearOllama, Return, Transport
    <3> QED
      BY <1>1, <1>3, <2>2, <2>6, <3>1 DEF HearCounts, Successes, Errors
  <2>7. pc'[c] \in {"backoff", "ended"}
    BY <1>1, <1>typing
  <2> QED
    BY <2>3, <2>4, <2>5, <2>6, <2>7 DEF Successes, Errors, Answer
<1> QED
  BY <1>2, <1>3

\* Nothing is accounted differently where no attempt ends.
LEMMA QuietStep ==
    ASSUME MetricsAccount, UNCHANGED <<kind, heard, metric>>,
           \A d \in Calls : pc[d] = "ended" <=> pc'[d] = "ended"
    PROVE  MetricsAccount'
<1>1. ASSUME NEW m \in Ollama
      PROVE  /\ EndedBy(m, {"ok", "unusable"})' = EndedBy(m, {"ok", "unusable"})
             /\ EndedBy(m, Answer \ {"ok", "unusable", "invalid"})'
                    = EndedBy(m, Answer \ {"ok", "unusable", "invalid"})
             /\ Unattempted(m)' = Unattempted(m)
             /\ Repeated(m)' = Repeated(m)
  BY DEF EndedBy, Unattempted, Repeated
<1> QED
  BY <1>1 DEF MetricsAccount

\* The end of an attempt changes the sets the counters are measured by as it
\* changes the counters.
HearSets(c, a, m) ==
    LET mine == kind[c] = m  ended == pc'[c] = "ended" IN
    /\ Gains(EndedBy(m, Successes), EndedBy(m, Successes)', c,
             mine /\ ended /\ a \in Successes)
    /\ Gains(Failed(m), Failed(m)', c, mine /\ ended /\ a \in Errors)
    /\ Gains(Repeated(m), Repeated(m)', <<c, Len(heard[c]) + 1>>, mine /\ ~ended)

LEMMA HearMovesSets ==
    ASSUME ClientsInv, AccountTyped, NEW c \in Calls, NEW a \in Answer, Hear(c, a),
           pc[c] \in Trying, kind' = kind, NEW m \in Ollama
    PROVE  HearSets(c, a, m)
<1> DEFINE n == Len(heard[c])
<1>typing. /\ pc \in [Calls -> Places] /\ heard \in [Calls -> Seq(Answer)]
           /\ n \in Nat /\ pc[c] # "ended"
  BY DEF ClientsInv, ClientsTypeOK, Trying
<1>1. /\ heard' = [heard EXCEPT ![c] = Append(@, a)]
      /\ \/ pc' = [pc EXCEPT ![c] = "backoff"] /\ n + 1 < Attempts(c)
         \/ pc' = [pc EXCEPT ![c] = "ended"]
  BY HearHasEffects DEF HearEffects
<1>2. /\ heard'[c] # <<>> /\ Len(heard'[c]) = n + 1 /\ heard'[c][n + 1] = a
      /\ \A d \in Calls \ {c} : heard'[d] = heard[d] /\ pc'[d] = pc[d]
      /\ pc'[c] \in {"backoff", "ended"}
  <2>1. heard[c] \in Seq(Answer) /\ heard'[c] = Append(heard[c], a)
    BY <1>1, <1>typing
  <2>2. heard'[c] # <<>> /\ Len(heard'[c]) = n + 1 /\ heard'[c][n + 1] = a
    <3>1. Len(heard'[c]) = n + 1 /\ heard'[c][n + 1] = a
      BY <2>1
    <3>2. Len(<<>>) = 0 /\ n + 1 # 0
      BY <1>typing
    <3> QED
      BY <3>1, <3>2
  <2>3. \A d \in Calls \ {c} : heard'[d] = heard[d] /\ pc'[d] = pc[d]
    BY <1>1, <1>typing
  <2>4. pc'[c] \in {"backoff", "ended"}
    BY <1>1, <1>typing
  <2> QED
    BY <2>2, <2>3, <2>4
<1>3. ASSUME NEW answers
      PROVE  Gains(EndedBy(m, answers), EndedBy(m, answers)', c,
                   kind[c] = m /\ pc'[c] = "ended" /\ a \in answers)
  <2>1. c \notin EndedBy(m, answers)
    BY <1>typing DEF EndedBy
  <2>2. \A d \in Calls \ {c} : d \in EndedBy(m, answers)' <=> d \in EndedBy(m, answers)
    BY <1>2 DEF EndedBy
  <2>3. c \in EndedBy(m, answers)'
          <=> kind[c] = m /\ pc'[c] = "ended" /\ a \in answers
    BY <1>2 DEF EndedBy
  <2>4. EndedBy(m, answers) \subseteq Calls /\ EndedBy(m, answers)' \subseteq Calls
    BY DEF EndedBy
  <2> QED
    BY <2>1, <2>2, <2>3, <2>4 DEF Gains
<1>4. Unattempted(m)' = Unattempted(m) /\ c \notin Unattempted(m)
  <2>1. \A d \in Calls : d \in Unattempted(m)' <=> d \in Unattempted(m)
    <3>1. c \notin Unattempted(m) /\ c \notin Unattempted(m)'
      BY <1>2, <1>typing DEF Unattempted
    <3>2. \A d \in Calls \ {c} : d \in Unattempted(m)' <=> d \in Unattempted(m)
      BY <1>2 DEF Unattempted
    <3> QED
      BY <3>1, <3>2
  <2>2. Unattempted(m) \subseteq Calls /\ Unattempted(m)' \subseteq Calls
    BY DEF Unattempted
  <2>3. c \notin Unattempted(m)
    BY <1>typing DEF Unattempted
  <2> QED
    BY <2>1, <2>2, <2>3
<1>5. Gains(Failed(m), Failed(m)', c, kind[c] = m /\ pc'[c] = "ended" /\ a \in Errors)
  <2>1. Gains(EndedBy(m, Errors), EndedBy(m, Errors)', c,
              kind[c] = m /\ pc'[c] = "ended" /\ a \in Errors)
    BY <1>3
  <2>2. Failed(m)' = Unattempted(m)' \union EndedBy(m, Errors)'
    BY DEF Failed
  <2> QED
    BY <1>4, <2>1, <2>2 DEF Failed, Gains
<1>6. Gains(Repeated(m), Repeated(m)', <<c, n + 1>>, kind[c] = m /\ pc'[c] # "ended")
  <2> DEFINE Place == Calls \X (1..OllamaAttempts)
  <2>1. <<c, n + 1>> \notin Repeated(m)
    BY <1>typing DEF Repeated
  <2>2. Repeated(m) \subseteq Place /\ Repeated(m)' \subseteq Place
    BY DEF Repeated
  <2>3. ASSUME NEW d \in Calls \ {c}, NEW i \in 1..OllamaAttempts
        PROVE  <<d, i>> \in Repeated(m)' <=> <<d, i>> \in Repeated(m)
    BY <1>2 DEF Repeated
  <2>4. ASSUME NEW i \in 1..OllamaAttempts
        PROVE  <<c, i>> \in Repeated(m)'
                 <=> \/ <<c, i>> \in Repeated(m)
                     \/ i = n + 1 /\ kind[c] = m /\ pc'[c] # "ended"
    <3>1. <<c, i>> \in Repeated(m)' <=>
             /\ kind[c] = m /\ i <= n + 1
             /\ pc'[c] = "ended" => i < n + 1
      BY <1>2 DEF Repeated
    <3>2. <<c, i>> \in Repeated(m) <=> kind[c] = m /\ i <= n
      BY <1>typing DEF Repeated
    <3> QED
      BY <1>typing, <3>1, <3>2
  <2>5. kind[c] = m /\ pc'[c] # "ended" => n + 1 \in 1..OllamaAttempts
    <3> SUFFICES ASSUME kind[c] = m, pc'[c] # "ended" PROVE n + 1 \in 1..OllamaAttempts
      OBVIOUS
    <3>1. n + 1 < Attempts(c)
      BY <1>1, <1>typing
    <3> QED
      BY <3>1, <1>typing, ClientsAssumption DEF Attempts
  <2>6. \A p \in Place : \E d \in Calls, i \in 1..OllamaAttempts : p = <<d, i>>
    OBVIOUS
  <2> HIDE DEF Place
  <2>7. ASSUME NEW p \in Place
        PROVE  p \in Repeated(m)'
                 <=> \/ p \in Repeated(m)
                     \/ p = <<c, n + 1>> /\ kind[c] = m /\ pc'[c] # "ended"
    <3>1. PICK d \in Calls, i \in 1..OllamaAttempts : p = <<d, i>>
      BY <2>6
    <3>2. CASE d = c
      BY <2>4, <3>1, <3>2
    <3>3. CASE d # c
      BY <2>3, <3>1, <3>3
    <3> QED
      BY <3>2, <3>3
  <2>8. kind[c] = m /\ pc'[c] # "ended" => <<c, n + 1>> \in Place
    BY <2>5 DEF Place
  <2> QED
    BY <2>1, <2>2, <2>7, <2>8 DEF Gains
<1> QED
  BY <1>3, <1>5, <1>6 DEF HearSets

\* The counters follow the sets they are measured by.
LEMMA HearKeepsAccount ==
    ASSUME ClientsInv, AccountTyped, MetricsAccount, NEW c \in Calls, NEW a \in Answer,
           Hear(c, a), pc[c] \in Trying, kind' = kind
    PROVE  MetricsAccount'
<1> DEFINE n == Len(heard[c])
<1>typing. metric \in [Ollama -> Counters] /\ pc \in [Calls -> Places]
  BY DEF ClientsInv, ClientsTypeOK, AccountTyped
<1>1. HearCounts(c, a)
  BY HearIsCounted
<1>2. ASSUME NEW m \in Ollama PROVE CallAccount(m)'
  <2> DEFINE ended == pc'[c] = "ended"
             mine == kind[c] = m
             won == mine /\ ended /\ a \in Successes
             lost == mine /\ ended /\ a \in Errors
             again == mine /\ ~ended
  <2>1. /\ Gains(EndedBy(m, Successes), EndedBy(m, Successes)', c, won)
        /\ Gains(Failed(m), Failed(m)', c, lost)
        /\ Gains(Repeated(m), Repeated(m)', <<c, n + 1>>, again)
    <3>1. HearSets(c, a, m)
      BY HearMovesSets
    <3> QED
      BY <3>1 DEF HearSets
  <2>2. /\ metric[m].success = Cardinality(EndedBy(m, Successes))
        /\ metric[m].error = Cardinality(Failed(m))
        /\ metric[m].retry = Cardinality(Repeated(m))
    BY DEF MetricsAccount, Successes, Errors, Failed
  <2>3. /\ IsFiniteSet(EndedBy(m, Successes)) /\ IsFiniteSet(Failed(m))
        /\ IsFiniteSet(Repeated(m))
    BY AccountSetsAreFinite
  <2>4. won \in BOOLEAN /\ lost \in BOOLEAN /\ again \in BOOLEAN
    OBVIOUS
  <2>5. Cardinality(EndedBy(m, Successes)') = metric[m].success + (IF won THEN 1 ELSE 0)
    BY <2>1, <2>2, <2>3, <2>4, GainIsCounted
  <2>6. Cardinality(Failed(m)') = metric[m].error + (IF lost THEN 1 ELSE 0)
    BY <2>1, <2>2, <2>3, <2>4, GainIsCounted
  <2>7. Cardinality(Repeated(m)') = metric[m].retry + (IF again THEN 1 ELSE 0)
    BY <2>1, <2>2, <2>3, <2>4, GainIsCounted
  <2>8. metric[m].success \in Nat /\ metric[m].error \in Nat /\ metric[m].retry \in Nat
    BY <1>typing DEF Counters
  <2>9. /\ metric'[m].success = metric[m].success + (IF won THEN 1 ELSE 0)
        /\ metric'[m].error = metric[m].error + (IF lost THEN 1 ELSE 0)
        /\ metric'[m].retry = metric[m].retry + (IF again THEN 1 ELSE 0)
    <3>1. CASE mine
      BY <1>1, <3>1 DEF HearCounts
    <3>2. CASE ~mine
      BY <1>1, <2>8, <3>2 DEF HearCounts
    <3> QED
      BY <3>1, <3>2
  <2> QED
    BY <2>5, <2>6, <2>7, <2>9 DEF CallAccount
<1> QED
  BY <1>2 DEF MetricsAccount, CallAccount, Successes, Errors, Failed

\* A call that ends without an attempt: a model's loop of none is an error, and
\* the other clients are not counted.
LEMMA StartKeepsAccount ==
    ASSUME ClientsInv, AccountTyped, MetricsAccount, NEW c \in Calls, Start(c),
           pc'[c] = "ended"
    PROVE  MetricsAccount'
<1>typing. /\ metric \in [Ollama -> Counters] /\ pc \in [Calls -> Places]
           /\ heard \in [Calls -> Seq(Answer)] /\ kind' = kind /\ heard' = heard
           /\ pc[c] = "idle" /\ Len(heard[c]) = 0 /\ heard[c] = <<>>
  <2>1. Len(heard[c]) = 0 /\ heard[c] \in Seq(Answer)
    BY DEF Start, ClientsInv, ClientsTypeOK, Budget
  <2>2. heard[c] = <<>>
    BY <2>1
  <2> QED
    BY <2>1, <2>2 DEF Start, ClientsInv, ClientsTypeOK, AccountTyped
<1>1. \A d \in Calls \ {c} : pc'[d] = pc[d]
  BY <1>typing DEF Start, Attempt, Return
<1>2. \/ kind[c] \in Ollama /\ Record(c, "error")
      \/ kind[c] \notin Ollama /\ metric' = metric
  BY <1>typing DEF Start, Attempt, SwitchedOff, Ollama
<1>3. ASSUME NEW m \in Ollama PROVE CallAccount(m)'
  <2>1. metric[m].error \in Nat /\ metric[m].success \in Nat /\ metric[m].retry \in Nat
    BY <1>typing DEF Counters
  <2>2. /\ metric[m].success = Cardinality(EndedBy(m, Successes))
        /\ metric[m].error = Cardinality(Failed(m))
        /\ metric[m].retry = Cardinality(Repeated(m))
    BY DEF MetricsAccount, Successes, Errors, Failed
  <2>3. ASSUME NEW answers PROVE EndedBy(m, answers)' = EndedBy(m, answers)
    BY <1>typing, <1>1 DEF EndedBy
  <2>4. Repeated(m)' = Repeated(m)
    <3>1. ASSUME NEW d \in Calls, NEW i \in 1..OllamaAttempts
          PROVE  <<d, i>> \in Repeated(m)' <=> <<d, i>> \in Repeated(m)
      <4>1. CASE d = c
        BY <1>typing, <4>1 DEF Repeated
      <4>2. CASE d # c
        BY <1>typing, <1>1, <4>2 DEF Repeated
      <4> QED
        BY <4>1, <4>2
    <3>2. /\ Repeated(m) \subseteq Calls \X (1..OllamaAttempts)
          /\ Repeated(m)' \subseteq Calls \X (1..OllamaAttempts)
      BY DEF Repeated
    <3> QED
      BY <3>1, <3>2
  <2>5. Gains(Failed(m), Failed(m)', c, kind[c] = m)
    <3>1. c \notin Failed(m)
      BY <1>typing DEF Failed, Unattempted, EndedBy
    <3>2. c \in Unattempted(m)' <=> kind[c] = m
      BY <1>typing DEF Unattempted
    <3>3. c \notin EndedBy(m, Errors)'
      BY <1>typing DEF EndedBy
    <3>4. \A d \in Calls \ {c} : d \in Unattempted(m)' <=> d \in Unattempted(m)
      BY <1>typing, <1>1 DEF Unattempted
    <3>5. EndedBy(m, Errors)' = EndedBy(m, Errors)
      BY <2>3
    <3>6. Failed(m)' = Unattempted(m)' \union EndedBy(m, Errors)'
      BY DEF Failed
    <3>7. Unattempted(m) \subseteq Calls /\ Unattempted(m)' \subseteq Calls
      BY DEF Unattempted
    <3> QED
      BY <3>1, <3>2, <3>3, <3>4, <3>5, <3>6, <3>7 DEF Failed, Gains
  <2>6. Cardinality(Failed(m)') = metric[m].error + (IF kind[c] = m THEN 1 ELSE 0)
    <3> DEFINE mine == kind[c] = m
    <3>1. mine \in BOOLEAN /\ IsFiniteSet(Failed(m))
      BY AccountSetsAreFinite
    <3>2. Gains(Failed(m), Failed(m)', c, mine)
      BY <2>5
    <3> HIDE DEF mine
    <3>3. Cardinality(Failed(m)') = metric[m].error + (IF mine THEN 1 ELSE 0)
      BY <2>2, <3>1, <3>2, GainIsCounted
    <3> QED
      BY <3>3 DEF mine
  <2>7. /\ metric'[m].error = metric[m].error + (IF kind[c] = m THEN 1 ELSE 0)
        /\ metric'[m].success = metric[m].success
        /\ metric'[m].retry = metric[m].retry
    <3>1. CASE kind[c] = m
      BY <1>2, <1>typing, <2>1, <3>1, RecordAdds
    <3>2. CASE kind[c] # m
      BY <1>2, <1>typing, <2>1, <3>2, RecordAdds
    <3> QED
      BY <3>1, <3>2
  <2> QED
    BY <2>2, <2>3, <2>4, <2>6, <2>7 DEF CallAccount
<1> QED
  BY <1>3 DEF MetricsAccount, CallAccount, Successes, Errors, Failed

LEMMA AccountNext ==
    ClientsInv /\ PolicyInv /\ MetricsAccount /\ [Next]_vars => MetricsAccount'
<1> SUFFICES ASSUME ClientsInv, AccountTyped, MetricsAccount, [Next]_vars
             PROVE  MetricsAccount'
  BY DEF PolicyInv
<1>typing. pc \in [Calls -> Places]
  BY DEF ClientsInv, ClientsTypeOK
<1>1. CASE UNCHANGED vars \/ Build
  BY <1>1, QuietStep DEF vars, Build
<1>2. ASSUME NEW c \in Calls, Start(c) PROVE MetricsAccount'
  <2>1. CASE pc'[c] = "ended"
    BY <1>2, <2>1, StartKeepsAccount
  <2>2. CASE pc'[c] # "ended"
    <3>1. UNCHANGED <<kind, heard, metric>> /\ Attempt(c) /\ pc[c] = "idle"
      BY <1>2, <2>2, <1>typing DEF Start, Return
    <3>2. \A d \in Calls : pc[d] = "ended" <=> pc'[d] = "ended"
      BY <2>2, <3>1, <1>typing DEF Attempt
    <3> QED
      BY <3>1, <3>2, QuietStep
  <2> QED
    BY <2>1, <2>2
<1>3. ASSUME NEW c \in Calls, Connect(c) \/ WakeUp(c) \/ Handle(c) \/ HandleLate(c)
      PROVE  MetricsAccount'
  <2>1. UNCHANGED <<kind, heard, metric>>
    BY <1>3 DEF Connect, WakeUp, Handle, HandleLate
  <2>2. \A d \in Calls : pc[d] = "ended" <=> pc'[d] = "ended"
    BY <1>3, <1>typing DEF Connect, WakeUp, Attempt, Handle, HandleLate
  <2> QED
    BY <2>1, <2>2, QuietStep
<1>4. ASSUME NEW c \in Calls, PoolTimeout(c) PROVE MetricsAccount'
  BY <1>4, HearKeepsAccount, UnreachableIsAnswer DEF PoolTimeout, Trying
<1>5. ASSUME NEW c \in Calls, HearAnswer(c) PROVE MetricsAccount'
  <2>1. PICK a \in Answer : Hear(c, a)
    BY <1>5, UnreachableIsAnswer DEF HearAnswer
  <2>2. pc[c] \in Trying /\ kind' = kind
    BY <1>5 DEF HearAnswer, Trying
  <2> QED
    BY <2>1, <2>2, HearKeepsAccount
<1> QED
  BY <1>1, <1>2, <1>3, <1>4, <1>5 DEF Next, Proceed

LEMMA AccountInit == Init => MetricsAccount
<1> SUFFICES ASSUME Init PROVE MetricsAccount
  OBVIOUS
<1>1. ASSUME NEW m \in Ollama, NEW answers
      PROVE  EndedBy(m, answers) = {} /\ Unattempted(m) = {} /\ Repeated(m) = {}
  BY DEF Init, EndedBy, Unattempted, Repeated
<1>2. ASSUME NEW m \in Ollama
      PROVE  metric[m].success = 0 /\ metric[m].error = 0 /\ metric[m].retry = 0
  BY DEF Init
<1> QED
  BY <1>1, <1>2, FS_EmptySet DEF MetricsAccount

(***************************************************************************)
(* However many calls run together and however their attempts end: each     *)
(* call to a model is counted once, by how it ended, and each repetition    *)
(* once.                                                                    *)
(***************************************************************************)
THEOREM EveryCallIsCounted == Spec => []MetricsAccount
  BY ClientsInit, ClientsNext, PolicyInit, PolicyNext, AccountInit, AccountNext, PTL
     DEF Spec

=============================================================================
