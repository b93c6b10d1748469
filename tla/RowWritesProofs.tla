-------------------------- MODULE RowWritesProofs --------------------------
(***************************************************************************)
(* Proofs about RowWrites, for any jobs and any number of sessions.         *)
(***************************************************************************)
EXTENDS RowWrites, FiniteSetTheorems, SequenceTheorems, TLAPS

-----------------------------------------------------------------------------
(* Typing.                                                                  *)

RowsTypeOK ==
    /\ rows \in [Jobs -> Row]
    /\ \A j \in Jobs : rows[j].status # Absent
    /\ subject \in [Sessions -> Jobs \union {None}]
    /\ calls \in [Sessions -> Seq(Call)]
    /\ loaded \in [Sessions -> Row]
    /\ ended \subseteq Sessions
    /\ \A s \in Sessions :
          /\ (calls[s] = <<>>) = (subject[s] = None \/ s \in ended)
          /\ loaded[s] # Unloaded => calls[s] # <<>> /\ loaded[s].status # Absent
          /\ subject[s] = None => s \notin ended
    /\ contested \subseteq Jobs

ScanTypeOK ==
    /\ scan.at \in {"idle", "items", "count", "done"}
    /\ DOMAIN scan = {"at", "limit", "offset", "seen", "total", "quiet"}

LEMMA RowsTyped ==
    /\ NoResult \in Result /\ NoRow \in Row /\ QueuedRow \in Row /\ HeldRow \in Row
    /\ QueuedRow.status = "queued" /\ HeldRow.status = "review"
  BY DEF NoRow, QueuedRow, HeldRow, Row, Result, NoResult, StoredStatus,
         ConfidenceTier, ErrorMessage, Absent, None

LEMMA CallsTyped ==
    /\ ProcessingCall \in Call /\ HoldCall \in Call
    /\ FailureCall \in Call /\ RejectionCall \in Call
    /\ \A t \in ConfidenceTier : ResultCall(t) \in Call
    /\ \A row \in Row : ApprovalCall(row) \in Call
<1>1. \A result \in Result, status \in StoredStatus, error \in ErrorMessage :
         StatusCall(status, result, error) \in Call
  BY DEF StatusCall, Call, None
<1>2. \A row \in Row : [row.result EXCEPT !.review = "approved"] \in Result
  BY DEF Row, Result
<1>3. NoResult \in Result
  BY RowsTyped
<1>4. \A t \in ConfidenceTier : ResultCall(t) \in Call
  BY <1>3 DEF ResultCall, Call, StoredStatus, ErrorMessage, None
<1> QED
  BY <1>1, <1>2, <1>3, <1>4 DEF ProcessingCall, HoldCall, FailureCall, RejectionCall,
     ApprovalCall, StoredStatus, ErrorMessage, None

LEMMA OneCallTyped ==
    ASSUME NEW call \in Call
    PROVE  <<call>> \in Seq(Call) /\ <<call>> # <<>>
  OBVIOUS

LEMMA RunCallsTyped ==
    ASSUME NEW t \in ConfidenceTier
    PROVE  RunCalls(t) \in Seq(Call) /\ RunCalls(t) # <<>>
  BY CallsTyped DEF RunCalls

\* The UPDATE of a call writes a row that is one.
LEMMA UpdatedTyped ==
    ASSUME NEW call \in Call, NEW old \in Row, NEW row \in Row,
           row.status # Absent, old.status # Absent
    PROVE  /\ Updated(call, old, row) \in Row
           /\ Updated(call, old, row).status # Absent
<1> DEFINE new == Applied(call, old)
<1>1. new \in Row /\ new.status # Absent
  <2>1. CASE call.sets = "result"
    BY <2>1 DEF Applied, ResultWritten, Call, Row, Result, StoredStatus, Absent, None,
                ConfidenceTier
  <2>2. CASE call.sets # "result"
    BY <2>2 DEF Applied, StatusWritten, Call, Row, StoredStatus, Absent
  <2> QED
    BY <2>1, <2>2
<1> HIDE DEF new
<1>2. Updated(call, old, row) = Flushed(old, new, Given(call), row)
  BY DEF Updated, new
<1> QED
  BY <1>1, <1>2 DEF Flushed, Row

LEMMA OpenTyped ==
    ASSUME RowsTypeOK, NEW s \in Sessions, NEW j \in Jobs, NEW todo \in Seq(Call),
           todo # <<>>, Open(s, j, todo)
    PROVE  RowsTypeOK'
<1> USE DEF RowsTypeOK
<1>1. /\ subject[s] = None /\ subject' = [subject EXCEPT ![s] = j]
      /\ calls' = [calls EXCEPT ![s] = todo]
      /\ UNCHANGED <<rows, ended, loaded>>
      /\ contested' \in {contested, contested \union {j}}
  BY DEF Open
<1>2. j # None
  BY CreatedAssumption
<1>3. s \notin ended
  BY <1>1
<1> QED
  BY <1>1, <1>2, <1>3

LEMMA GoOnTyped ==
    ASSUME RowsTypeOK, NEW s \in Sessions, calls[s] # <<>>, NEW todo \in Seq(Call),
           GoOn(s, todo), UNCHANGED <<subject, contested>>,
           rows' \in [Jobs -> Row], \A j \in Jobs : rows'[j].status # Absent
    PROVE  RowsTypeOK'
<1> USE DEF RowsTypeOK
<1>1. /\ calls' = [calls EXCEPT ![s] = todo]
      /\ ended' = IF todo = <<>> THEN ended \union {s} ELSE ended
      /\ loaded' = [loaded EXCEPT ![s] = NoRow]
  BY DEF GoOn, Unloaded
<1>2. subject[s] # None /\ s \notin ended
  OBVIOUS
<1>3. loaded' \in [Sessions -> Row]
  BY <1>1, RowsTyped
<1>4. \A t \in Sessions :
         /\ (calls'[t] = <<>>) = (subject[t] = None \/ t \in ended')
         /\ loaded'[t] # Unloaded => calls'[t] # <<>> /\ loaded'[t].status # Absent
         /\ subject[t] = None => t \notin ended'
  BY <1>1, <1>2 DEF Unloaded
<1> QED
  BY <1>1, <1>3, <1>4

\* What Open is called with.
Plan(s, j, todo) ==
    \/ s \in Runs /\ \E t \in ConfidenceTier : todo = RunCalls(t)
    \/ s \in Reviewers /\ rows[j].tier = "review"
         /\ todo \in {<<ApprovalCall(rows[j])>>, <<RejectionCall>>}

LEMMA BeginsWithPlan ==
    ASSUME NEW s \in Sessions, BeginRun(s) \/ BeginApproval(s) \/ BeginRejection(s)
    PROVE  \E j \in Jobs : \E todo : Open(s, j, todo) /\ Plan(s, j, todo)
  BY RowWritesAssumption DEF BeginRun, BeginApproval, BeginRejection, Plan

LEMMA PlanTyped ==
    ASSUME RowsTypeOK, NEW s \in Sessions, NEW j \in Jobs, NEW todo, Plan(s, j, todo)
    PROVE  todo \in Seq(Call) /\ todo # <<>>
<1>1. CASE \E t \in ConfidenceTier : todo = RunCalls(t)
  BY <1>1, RunCallsTyped
<1>2. CASE todo \in {<<ApprovalCall(rows[j])>>, <<RejectionCall>>}
  <2>1. rows[j] \in Row
    BY DEF RowsTypeOK
  <2>2. ApprovalCall(rows[j]) \in Call /\ RejectionCall \in Call
    BY <2>1, CallsTyped
  <2> QED
    BY <1>2, <2>2, OneCallTyped
<1> QED
  BY <1>1, <1>2 DEF Plan

LEMMA SessionTyped ==
    ASSUME RowsTypeOK, NEW s \in Sessions, SessionStep(s)
    PROVE  RowsTypeOK'
<1>1. CASE BeginRun(s) \/ BeginApproval(s) \/ BeginRejection(s)
  <2>1. PICK j \in Jobs : \E todo : Open(s, j, todo) /\ Plan(s, j, todo)
    BY <1>1, BeginsWithPlan
  <2>2. PICK todo : Open(s, j, todo) /\ Plan(s, j, todo)
    BY <2>1
  <2>3. todo \in Seq(Call) /\ todo # <<>>
    BY <2>2, PlanTyped
  <2> QED
    BY <2>2, <2>3, OpenTyped
<1>2. CASE Select(s)
  <2>1. subject[s] \in Jobs
    BY <1>2 DEF Select, RowsTypeOK
  <2> QED
    BY <1>2, <2>1 DEF Select, RowsTypeOK
<1>3. CASE Update(s)
  <2> USE DEF RowsTypeOK
  <2>1. calls[s] # <<>> /\ subject[s] \in Jobs
    BY <1>3 DEF Update
  <2>2. loaded[s].status # Absent
    BY <1>3 DEF Update
  <2>3. Head(calls[s]) \in Call /\ Tail(calls[s]) \in Seq(Call)
    BY <2>1
  <2>4. rows' = [rows EXCEPT ![subject[s]] = Updated(Head(calls[s]), loaded[s], @)]
    BY <1>3 DEF Update
  <2>5. rows' \in [Jobs -> Row] /\ \A j \in Jobs : rows'[j].status # Absent
    BY <2>1, <2>2, <2>3, <2>4, UpdatedTyped
  <2> QED
    BY <1>3, <2>1, <2>3, <2>5, GoOnTyped DEF Update
<1>4. CASE Fails(s) \/ FailsForGood(s)
  <2>1. PICK todo \in {<<>>, <<FailureCall>>} : GoOn(s, todo)
    BY <1>4 DEF Fails, FailsForGood
  <2>2. todo \in Seq(Call)
    <3>1. <<>> \in Seq(Call)
      OBVIOUS
    <3>2. <<FailureCall>> \in Seq(Call)
      BY CallsTyped, OneCallTyped
    <3> QED
      BY <3>1, <3>2
  <2> QED
    BY <1>4, <2>1, <2>2, GoOnTyped DEF Fails, FailsForGood, RowsTypeOK
<1> QED
  BY <1>1, <1>2, <1>3, <1>4 DEF SessionStep

LEMMA ScanTyped ==
    ASSUME ScanTypeOK, [Next]_vars
    PROVE  ScanTypeOK'
<1> USE DEF ScanTypeOK
<1>1. ASSUME NEW s \in Sessions, SessionStep(s)
      PROVE  ScanTypeOK'
  BY <1>1 DEF SessionStep, BeginRun, BeginApproval, BeginRejection, Open, Select, Update,
              Fails, FailsForGood, Disturbed, NoScan
<1>2. CASE StartScan
  BY <1>2 DEF StartScan, NoScan
<1>3. CASE ReadItems
  BY <1>3 DEF ReadItems
<1>4. CASE ReadCount
  BY <1>4 DEF ReadCount
<1>5. CASE UNCHANGED vars
  BY <1>5 DEF vars
<1> QED
  BY <1>1, <1>2, <1>3, <1>4, <1>5 DEF Next

TypedInv == RowsTypeOK /\ ScanTypeOK

LEMMA TypedHolds == Spec => []TypedInv
<1>1. Init => TypedInv
  <2> SUFFICES ASSUME Init PROVE TypedInv
    OBVIOUS
  <2>1. RowsTypeOK
    <3>1. rows \in [Jobs -> Row] /\ \A j \in Jobs : rows[j].status # Absent
      BY RowsTyped DEF Init, Absent
    <3>2. loaded \in [Sessions -> Row] /\ \A s \in Sessions : loaded[s] = Unloaded
      BY RowsTyped DEF Init, Unloaded
    <3>3. calls \in [Sessions -> Seq(Call)]
      BY DEF Init
    <3> QED
      BY <3>1, <3>2, <3>3 DEF Init, RowsTypeOK
  <2>2. ScanTypeOK
    BY DEF Init, NoScan, ScanTypeOK
  <2> QED
    BY <2>1, <2>2 DEF TypedInv
<1>2. TypedInv /\ [Next]_vars => TypedInv'
  <2> SUFFICES ASSUME TypedInv, [Next]_vars PROVE TypedInv'
    OBVIOUS
  <2>1. ScanTypeOK'
    BY ScanTyped DEF TypedInv
  <2>2. CASE \E s \in Sessions : SessionStep(s)
    BY <2>1, <2>2, SessionTyped DEF TypedInv
  <2>3. CASE StartScan \/ ReadItems \/ ReadCount \/ UNCHANGED vars
    BY <2>1, <2>3 DEF StartScan, ReadItems, ReadCount, vars, TypedInv, RowsTypeOK
  <2> QED
    BY <2>2, <2>3 DEF Next
<1> QED
  BY <1>1, <1>2, PTL DEF Spec

-----------------------------------------------------------------------------
(* What is never written from a row that was read before.                    *)

\* A call that stores no result leaves both columns a result has.
LEMMA OtherCallsSpare ==
    ASSUME NEW call \in Call, ~StoresResult(call), NEW old \in Row, NEW row \in Row,
           old.status # Absent
    PROVE  /\ Updated(call, old, row).tier = row.tier
           /\ Updated(call, old, row).result = row.result
<1>1. call.sets # "result" /\ call.result = NoResult
  BY DEF StoresResult
<1>2. Applied(call, old).tier = old.tier
  BY <1>1 DEF Applied, StatusWritten, Row
<1> QED
  BY <1>1, <1>2 DEF Updated, Flushed, Given, Row

(***************************************************************************)
(* The UPDATE of a status, a failure or a rejection never carries the tier  *)
(* or the result that its own SELECT returned, however old that is: for any *)
(* number of jobs, runs and reviewers, the session whose UPDATE changes one *)
(* of the two is about that job and is storing a result.                    *)
(***************************************************************************)
THEOREM StaleReadsAreHarmless == Spec => ResultsOutliveStaleReads
<1> DEFINE Spared ==
        \A j \in Jobs :
           \/ rows'[j].tier = rows[j].tier /\ rows'[j].result = rows[j].result
           \/ \E s \in Sessions : /\ ItsUpdate(s) /\ subject[s] = j
                                  /\ StoresResult(Head(calls[s]))
<1>1. TypedInv /\ [Next]_vars => [Spared]_rows
  <2> SUFFICES ASSUME TypedInv, [Next]_vars, rows' # rows PROVE Spared
    OBVIOUS
  <2>1. PICK s \in Sessions : Update(s)
    BY DEF Next, vars, SessionStep, BeginRun, BeginApproval, BeginRejection, Open,
           Select, Fails, FailsForGood, StartScan, ReadItems, ReadCount
  <2> DEFINE call == Head(calls[s])
  <2>2. /\ calls[s] # <<>> /\ loaded[s] # Unloaded /\ loaded[s].status # Absent
        /\ loaded[s] \in Row /\ call \in Call
    BY <2>1 DEF Update, TypedInv, RowsTypeOK
  <2>3. rows' = [rows EXCEPT ![subject[s]] = Updated(call, loaded[s], @)]
    BY <2>1 DEF Update
  <2>4. rows \in [Jobs -> Row]
    BY DEF TypedInv, RowsTypeOK
  <2>5. ItsUpdate(s)
    <3>1. loaded' = [loaded EXCEPT ![s] = Unloaded] /\ loaded \in [Sessions -> Row]
      BY <2>1 DEF Update, GoOn, TypedInv, RowsTypeOK
    <3> QED
      BY <2>2, <3>1 DEF ItsUpdate, Unloaded
  <2> SUFFICES ASSUME NEW j \in Jobs
               PROVE  \/ rows'[j].tier = rows[j].tier /\ rows'[j].result = rows[j].result
                      \/ \E t \in Sessions : /\ ItsUpdate(t) /\ subject[t] = j
                                             /\ StoresResult(Head(calls[t]))
    OBVIOUS
  <2>6. CASE subject[s] # j
    BY <2>3, <2>4, <2>6
  <2>7. CASE subject[s] = j /\ StoresResult(call)
    BY <2>5, <2>7
  <2>8. CASE subject[s] = j /\ ~StoresResult(call)
    <3>1. rows[j] \in Row
      BY <2>4
    <3> HIDE DEF call
    <3>2. /\ Updated(call, loaded[s], rows[j]).tier = rows[j].tier
          /\ Updated(call, loaded[s], rows[j]).result = rows[j].result
      BY <2>2, <2>8, <3>1, OtherCallsSpare
    <3> QED
      BY <2>3, <2>4, <2>8, <3>2
  <2> QED
    BY <2>6, <2>7, <2>8
<1> QED
  BY <1>1, TypedHolds, PTL DEF Spec, ResultsOutliveStaleReads

-----------------------------------------------------------------------------
(* What one session at a time leaves.                                       *)

Active(s, j) == s \in Sessions \ ended /\ subject[s] = j

WholeRow(row) ==
    /\ row.result.tier = row.tier
    /\ row.status \in {"completed", "review"} => row.tier # None
    /\ row.status = "failed" => row.error # None
    /\ row.status = "review" => row.tier = "review"

\* The calls a session may still have to make on a row it has to itself.
Fits(todo, row) ==
    \/ todo = <<>>
    \/ \E t \in ConfidenceTier : todo = RunCalls(t) \/ todo = Tail(RunCalls(t))
    \/ row.tier = "review" /\ todo \in {<<HoldCall>>, <<ApprovalCall(row)>>}
    \/ todo \in {<<FailureCall>>, <<RejectionCall>>}

AloneWith(s, j) ==
    /\ \A t \in Sessions : Active(t, j) => t = s
    /\ loaded[s] # Unloaded => loaded[s] = rows[j]
    /\ Fits(calls[s], rows[j])

WholeInv ==
    \A j \in Jobs \ contested :
        /\ WholeRow(rows[j])
        /\ \A s \in Sessions : Active(s, j) => AloneWith(s, j)

\* A call that selected the row as it is does all it was meant to do.
LEMMA UpdatedAlone ==
    ASSUME NEW call \in Call, NEW row \in Row, row.status # Absent
    PROVE  LET new == Updated(call, row, row) IN
           IF call.sets = "result"
           THEN /\ new.status = "completed" /\ new.tier = call.tier
                /\ new.result.tier = call.tier /\ new.error = row.error
           ELSE /\ new.status = call.status /\ new.tier = row.tier
                /\ new.result = (IF call.result = NoResult THEN row.result ELSE call.result)
                /\ new.error = (IF call.error = None THEN row.error ELSE call.error)
<1>1. CASE call.sets = "result"
  BY <1>1 DEF Updated, Flushed, Given, Applied, ResultWritten, Row
<1>2. CASE call.sets # "result"
  BY <1>2 DEF Updated, Flushed, Given, Applied, StatusWritten, Row
<1> QED
  BY <1>1, <1>2

LEMMA RunCallsInOrder ==
    ASSUME NEW t \in ConfidenceTier
    PROVE  /\ Head(RunCalls(t)) = ProcessingCall
           /\ Tail(RunCalls(t)) # <<>>
           /\ Head(Tail(RunCalls(t))) = ResultCall(t)
           /\ Tail(Tail(RunCalls(t))) =
                 IF t = "review" THEN <<HoldCall>> ELSE <<>>
<1>1. CASE t = "review"
  BY <1>1 DEF RunCalls
<1>2. CASE t # "review"
  BY <1>2 DEF RunCalls
<1> QED
  BY <1>1, <1>2

\* What each call makes of a whole row it has to itself, and what it leaves to do.
LEMMA CallsKeepWhole ==
    ASSUME NEW row \in Row, row.status # Absent, WholeRow(row),
           NEW todo \in Seq(Call), todo # <<>>, Fits(todo, row)
    PROVE  LET new == Updated(Head(todo), row, row) IN
           WholeRow(new) /\ Fits(Tail(todo), new)
<1> DEFINE new == Updated(Head(todo), row, row)
<1>0. new.tier \in ConfidenceTier \union {None} /\ Head(todo) \in Call
  <2>1. Head(todo) \in Call
    OBVIOUS
  <2> QED
    BY <2>1, UpdatedTyped DEF Row
<1> SUFFICES WholeRow(new) /\ Fits(Tail(todo), new)
  OBVIOUS
<1> HIDE DEF new
<1>1. ASSUME NEW t \in ConfidenceTier, todo = RunCalls(t)
      PROVE  WholeRow(new) /\ Fits(Tail(todo), new)
  <2>1. Head(todo) = ProcessingCall /\ Tail(todo) = Tail(RunCalls(t))
    BY <1>1, RunCallsInOrder
  <2>2. new.status = "processing" /\ new.tier = row.tier /\ new.result = row.result
    BY <2>1, UpdatedAlone, CallsTyped DEF ProcessingCall, StatusCall, new
  <2>3. WholeRow(new)
    BY <2>2 DEF WholeRow
  <2> QED
    BY <2>1, <2>3 DEF Fits
<1>2. ASSUME NEW t \in ConfidenceTier, todo = Tail(RunCalls(t))
      PROVE  WholeRow(new) /\ Fits(Tail(todo), new)
  <2>1. /\ Head(todo) = ResultCall(t)
        /\ Tail(todo) = IF t = "review" THEN <<HoldCall>> ELSE <<>>
    BY <1>2, RunCallsInOrder
  <2>2. new.status = "completed" /\ new.tier = t /\ new.result.tier = t
    BY <2>1, UpdatedAlone, CallsTyped DEF ResultCall, new
  <2>3. WholeRow(new)
    BY <2>2 DEF WholeRow, ConfidenceTier, None
  <2> QED
    BY <2>1, <2>2, <2>3 DEF Fits
<1>3. CASE row.tier = "review" /\ todo \in {<<HoldCall>>, <<ApprovalCall(row)>>}
  <2>1. CASE todo = <<HoldCall>>
    <3>1. Head(todo) = HoldCall /\ Tail(todo) = <<>>
      BY <2>1
    <3>2. new.status = "review" /\ new.tier = row.tier /\ new.result = row.result
      BY <3>1, UpdatedAlone, CallsTyped DEF HoldCall, StatusCall, new
    <3> QED
      BY <1>3, <3>1, <3>2 DEF WholeRow, Fits, None
  <2>2. CASE todo = <<ApprovalCall(row)>>
    <3>1. Head(todo) = ApprovalCall(row) /\ Tail(todo) = <<>>
      BY <2>2
    <3>2. row.result.tier = "review" /\ row.result \in Result
      BY <1>3 DEF WholeRow, Row
    <3>3. [row.result EXCEPT !.review = "approved"].tier = "review"
          /\ [row.result EXCEPT !.review = "approved"] # NoResult
      BY <3>2 DEF Result, NoResult, None
    <3>4. /\ new.status = "completed" /\ new.tier = row.tier
          /\ new.result.tier = "review"
      <4>1. /\ Head(todo).sets = "status" /\ Head(todo).status = "completed"
            /\ Head(todo).result = [row.result EXCEPT !.review = "approved"]
        BY <3>1 DEF ApprovalCall, StatusCall
      <4> QED
        BY <1>0, <3>3, <4>1, UpdatedAlone DEF new
    <3> QED
      BY <1>3, <3>1, <3>4 DEF WholeRow, Fits, None
  <2> QED
    BY <1>3, <2>1, <2>2
<1>4. CASE todo \in {<<FailureCall>>, <<RejectionCall>>}
  <2>1. Tail(todo) = <<>> /\ Head(todo) \in {FailureCall, RejectionCall}
    <3>1. CASE todo = <<FailureCall>>
      BY <3>1
    <3>2. CASE todo = <<RejectionCall>>
      BY <3>2
    <3> QED
      BY <1>4, <3>1, <3>2
  <2>2. /\ new.status = "failed" /\ new.tier = row.tier /\ new.result = row.result
        /\ new.error # None
    BY <2>1, UpdatedAlone, CallsTyped DEF FailureCall, RejectionCall, StatusCall, None, new
  <2>3. WholeRow(new)
    BY <2>2 DEF WholeRow
  <2>4. Fits(Tail(todo), new)
    BY <2>1 DEF Fits
  <2> QED
    BY <2>3, <2>4
<1> QED
  BY <1>1, <1>2, <1>3, <1>4 DEF Fits

LEMMA OpenKeepsWhole ==
    ASSUME TypedInv, WholeInv, NEW s \in Sessions, NEW i \in Jobs, NEW todo,
           Open(s, i, todo), Plan(s, i, todo)
    PROVE  WholeInv'
<1> USE DEF TypedInv, RowsTypeOK
<1>1. /\ subject[s] = None /\ subject' = [subject EXCEPT ![s] = i]
      /\ calls' = [calls EXCEPT ![s] = todo]
      /\ UNCHANGED <<rows, ended, loaded>>
      /\ contested \subseteq contested'
      /\ (\E t \in Sessions : Active(t, i)) => i \in contested'
  BY DEF Open, Active
<1>2. loaded[s] = Unloaded
  BY <1>1
<1>3. Fits(todo, rows[i])
  BY DEF Plan, Fits
<1>4. i # None /\ \A j \in Jobs : j # None
  BY CreatedAssumption
<1> SUFFICES ASSUME NEW j \in Jobs, j \notin contested'
             PROVE  /\ WholeRow(rows[j])
                    /\ \A t \in Sessions : Active(t, j)' => AloneWith(t, j)'
  BY <1>1 DEF WholeInv, WholeRow
<1>5. WholeRow(rows[j]) /\ \A t \in Sessions : Active(t, j) => AloneWith(t, j)
  BY <1>1 DEF WholeInv
<1>6. CASE j = i
  <2>1. \A t \in Sessions : Active(t, j)' => t = s
    BY <1>1, <1>6 DEF Active
  <2>2. AloneWith(s, j)'
    BY <1>1, <1>2, <1>3, <1>6, <2>1 DEF AloneWith, Fits
  <2> QED
    BY <1>5, <2>1, <2>2
<1>7. CASE j # i
  <2>1. \A t \in Sessions : Active(t, j)' <=> Active(t, j)
    BY <1>1, <1>4, <1>7 DEF Active
  <2>2. \A t \in Sessions : Active(t, j) => t # s /\ calls'[t] = calls[t]
    BY <1>1, <1>4 DEF Active
  <2>3. \A t \in Sessions : Active(t, j) => AloneWith(t, j)'
    BY <1>1, <1>5, <2>1, <2>2 DEF AloneWith, Fits
  <2> QED
    BY <1>5, <2>1, <2>3
<1> QED
  BY <1>6, <1>7

\* A session that goes on leaves the others to theirs; its own row is what it
\* has made of it, and what it does next has to fit that.
LEMMA GoOnKeepsWhole ==
    ASSUME TypedInv, WholeInv, NEW s \in Sessions, calls[s] # <<>>,
           NEW todo, GoOn(s, todo), UNCHANGED <<subject, contested>>,
           \A j \in Jobs : j # subject[s] => rows'[j] = rows[j],
           subject[s] \notin contested =>
              WholeRow(rows'[subject[s]]) /\ Fits(todo, rows'[subject[s]])
    PROVE  WholeInv'
<1> USE DEF TypedInv, RowsTypeOK
<1>1. /\ subject[s] # None /\ s \notin ended
      /\ calls' = [calls EXCEPT ![s] = todo]
      /\ loaded' = [loaded EXCEPT ![s] = Unloaded]
      /\ ended \subseteq ended'
      /\ \A t \in ended' : t \in ended \/ t = s
  BY DEF GoOn
<1> SUFFICES ASSUME NEW j \in Jobs, j \notin contested
             PROVE  /\ WholeRow(rows'[j])
                    /\ \A t \in Sessions : Active(t, j)' => AloneWith(t, j)'
  BY DEF WholeInv, WholeRow
<1>2. WholeRow(rows[j]) /\ \A t \in Sessions : Active(t, j) => AloneWith(t, j)
  BY DEF WholeInv
<1>3. \A t \in Sessions : Active(t, j)' => Active(t, j)
  BY <1>1 DEF Active
<1>4. CASE j = subject[s]
  <2>1. \A t \in Sessions : Active(t, j) => t = s
    BY <1>1, <1>2, <1>4 DEF Active, AloneWith
  <2>2. loaded'[s] = Unloaded /\ calls'[s] = todo
    BY <1>1
  <2>3. Fits(todo, rows'[j]) /\ WholeRow(rows'[j])
    BY <1>4
  <2>4. AloneWith(s, j)'
    BY <1>3, <2>1, <2>2, <2>3 DEF AloneWith, Fits, Unloaded
  <2> QED
    BY <1>3, <2>1, <2>3, <2>4
<1>5. CASE j # subject[s]
  <2>1. \A t \in Sessions : Active(t, j) =>
           t # s /\ calls'[t] = calls[t] /\ loaded'[t] = loaded[t]
    BY <1>1, <1>5 DEF Active
  <2>2. rows'[j] = rows[j]
    BY <1>5
  <2>3. \A t \in Sessions : Active(t, j) => AloneWith(t, j)'
    <3> SUFFICES ASSUME NEW t \in Sessions, Active(t, j)
                 PROVE  AloneWith(t, j)'
      OBVIOUS
    <3>1. AloneWith(t, j) /\ calls'[t] = calls[t] /\ loaded'[t] = loaded[t]
      BY <1>2, <2>1
    <3>2. Fits(calls[t], rows[j])'
      BY <2>2, <3>1 DEF AloneWith, Fits
    <3>3. \A u \in Sessions : Active(u, j)' => u = t
      BY <1>3, <3>1 DEF AloneWith
    <3>4. (loaded[t] # Unloaded => loaded[t] = rows[j])'
      BY <2>2, <3>1 DEF AloneWith, Unloaded
    <3> QED
      BY <3>2, <3>3, <3>4 DEF AloneWith
  <2> QED
    BY <1>2, <1>3, <2>2, <2>3
<1> QED
  BY <1>4, <1>5

LEMMA SelectKeepsWhole ==
    ASSUME TypedInv, WholeInv, NEW s \in Sessions, Select(s)
    PROVE  WholeInv'
<1> USE DEF TypedInv, RowsTypeOK
<1>1. /\ loaded' = [loaded EXCEPT ![s] = rows[subject[s]]]
      /\ UNCHANGED <<rows, subject, ended, calls, contested>>
  BY DEF Select
<1> SUFFICES ASSUME NEW j \in Jobs, j \notin contested, NEW t \in Sessions, Active(t, j)
             PROVE  AloneWith(t, j)'
  BY <1>1 DEF WholeInv, WholeRow, Active
<1>2. AloneWith(t, j)
  BY DEF WholeInv
<1>3. loaded'[t] = loaded[t] \/ loaded'[t] = rows[j]
  BY <1>1 DEF Active
<1> QED
  BY <1>1, <1>2, <1>3 DEF AloneWith, Active, Fits, Unloaded

LEMMA SessionKeepsWhole ==
    ASSUME TypedInv, WholeInv, NEW s \in Sessions, SessionStep(s)
    PROVE  WholeInv'
<1> USE DEF TypedInv, RowsTypeOK
<1>1. CASE BeginRun(s) \/ BeginApproval(s) \/ BeginRejection(s)
  <2>1. PICK j \in Jobs : \E todo : Open(s, j, todo) /\ Plan(s, j, todo)
    BY <1>1, BeginsWithPlan
  <2>2. PICK todo : Open(s, j, todo) /\ Plan(s, j, todo)
    BY <2>1
  <2> QED
    BY <2>2, OpenKeepsWhole
<1>2. CASE Select(s)
  BY <1>2, SelectKeepsWhole
<1> DEFINE j == subject[s]
\* The session is active on its job.
<1>3. ASSUME calls[s] # <<>>
      PROVE  /\ j \in Jobs /\ Active(s, j)
             /\ j \notin contested => WholeRow(rows[j]) /\ AloneWith(s, j)
  BY <1>3 DEF Active, WholeInv
<1>4. CASE Update(s)
  <2>1. calls[s] # <<>> /\ loaded[s] # Unloaded /\ GoOn(s, Tail(calls[s]))
        /\ UNCHANGED <<subject, contested>>
    BY <1>4 DEF Update
  <2>2. rows' = [rows EXCEPT ![j] = Updated(Head(calls[s]), loaded[s], @)]
    BY <1>4 DEF Update
  <2>3. j \in Jobs
    BY <1>3, <2>1
  <2>4. ASSUME j \notin contested
        PROVE  WholeRow(rows'[j]) /\ Fits(Tail(calls[s]), rows'[j])
    <3>1. /\ WholeRow(rows[j]) /\ Fits(calls[s], rows[j]) /\ loaded[s] = rows[j]
      BY <1>3, <2>1, <2>4 DEF AloneWith
    <3>2. rows[j] \in Row /\ rows[j].status # Absent /\ calls[s] \in Seq(Call)
      BY <2>3
    <3>3. rows'[j] = Updated(Head(calls[s]), rows[j], rows[j])
      BY <2>2, <2>3, <3>1
    <3> QED
      BY <2>1, <3>1, <3>2, <3>3, CallsKeepWhole
  <2>5. \A i \in Jobs : i # j => rows'[i] = rows[i]
    BY <2>2
  <2> QED
    BY <2>1, <2>4, <2>5, GoOnKeepsWhole
<1>5. CASE Fails(s) \/ FailsForGood(s)
  <2>1. PICK todo \in {<<>>, <<FailureCall>>} : GoOn(s, todo)
    BY <1>5 DEF Fails, FailsForGood
  <2>2. calls[s] # <<>> /\ UNCHANGED <<rows, subject, contested>>
    BY <1>5 DEF Fails, FailsForGood
  <2>3. Fits(todo, rows[j])
    BY DEF Fits
  <2> QED
    BY <1>3, <2>1, <2>2, <2>3, GoOnKeepsWhole
<1> QED
  BY <1>1, <1>2, <1>4, <1>5 DEF SessionStep

(***************************************************************************)
(* However the calls of one session after another fail in between, a job    *)
(* that never had two sessions at once ends with a row whose columns belong *)
(* together: for any number of jobs, runs and reviewers.                    *)
(***************************************************************************)
THEOREM RowsEndWhole == Spec => []SettledRowsAreWhole
<1>1. Init => WholeInv
  <2> SUFFICES ASSUME Init, NEW j \in Jobs
               PROVE  /\ WholeRow(rows[j])
                      /\ \A s \in Sessions : Active(s, j) => AloneWith(s, j)
    BY DEF WholeInv
  <2>1. WholeRow(rows[j])
    BY DEF Init, WholeRow, QueuedRow, HeldRow, NoRow, NoResult, None
  <2>2. \A s \in Sessions : ~Active(s, j)
    BY CreatedAssumption DEF Init, Active
  <2> QED
    BY <2>1, <2>2
<1>2. TypedInv /\ WholeInv /\ [Next]_vars => WholeInv'
  <2> SUFFICES ASSUME TypedInv, WholeInv, [Next]_vars PROVE WholeInv'
    OBVIOUS
  <2>1. CASE \E s \in Sessions : SessionStep(s)
    BY <2>1, SessionKeepsWhole
  <2>2. CASE StartScan \/ ReadItems \/ ReadCount \/ UNCHANGED vars
    <3>1. UNCHANGED <<rows, subject, ended, calls, loaded, contested>>
      BY <2>2 DEF StartScan, ReadItems, ReadCount, vars
    <3> QED
      BY <3>1 DEF WholeInv, WholeRow, AloneWith, Active, Fits
  <2> QED
    BY <2>1, <2>2 DEF Next
<1>3. TypedInv /\ WholeInv => SettledRowsAreWhole
  <2>1. TypedInv => TypeOK
    BY DEF TypedInv, RowsTypeOK, ScanTypeOK, TypeOK
  <2>2. WholeInv => \A j \in Jobs \ contested : WholeRow(rows[j])
    BY DEF WholeInv
  <2> QED
    BY <2>1, <2>2 DEF WholeRow, SettledRowsAreWhole
<1> QED
  BY <1>1, <1>2, <1>3, TypedHolds, PTL DEF Spec

-----------------------------------------------------------------------------
(* What reviewers leave, however many decide at once.                        *)

\* A row as the worker or some decision left it.
DecidedRow(row) ==
    /\ row.tier = "review" /\ row.result.tier = "review"
    /\ row.status \in Settled /\ row.error \in {None, "rejection"}
    /\ row.status = "completed" => row.result.review = "approved"
    /\ row.status = "failed" => row.error = "rejection"
    /\ row.status = "review" => row.error = None

\* A decision prepared from any copy of such a row.
IsDecision(call) ==
    \/ call = RejectionCall
    \/ /\ call.sets = "status" /\ call.status = "completed" /\ call.error = None
       /\ call.result = [tier |-> "review", review |-> "approved"]

\* The row was old before it was row: it is not undecided again, and keeps a rejection.
Earlier(old, row) ==
    /\ DecidedRow(old)
    /\ old.status # "review" => row.status # "review"
    /\ old.error = "rejection" => row.error = "rejection"

DeskInv ==
    \A j \in DeskJobs :
        /\ DecidedRow(rows[j])
        /\ \A s \in Sessions : subject[s] = j =>
              /\ s \notin Runs
              /\ calls[s] # <<>> => IsDecision(Head(calls[s])) /\ Tail(calls[s]) = <<>>
              /\ loaded[s] # Unloaded => Earlier(loaded[s], rows[j])

LEMMA DecisionKeepsRow ==
    ASSUME NEW call \in Call, IsDecision(call), NEW old \in Row, NEW row \in Row,
           DecidedRow(row), Earlier(old, row)
    PROVE  DecidedRow(Updated(call, old, row)) /\ Earlier(row, Updated(call, old, row))
<1> DEFINE new == Updated(call, old, row)
<1> USE DEF DecidedRow, Earlier, Settled, None
<1>1. old.status # Absent
  BY DEF Absent
<1>2. CASE call = RejectionCall
  <2>1. /\ new.status = (IF old.status # "failed" THEN "failed" ELSE row.status)
        /\ new.error = (IF old.error # "rejection" THEN "rejection" ELSE row.error)
        /\ new.tier = row.tier /\ new.result = row.result
    BY <1>1, <1>2 DEF Updated, Flushed, Given, Applied, StatusWritten, RejectionCall,
       StatusCall, Row
  <2> HIDE DEF new
  <2>2. DecidedRow(new) /\ Earlier(row, new)
    BY <2>1
  <2> QED
    BY <2>2 DEF new
<1>3. CASE call # RejectionCall
  <2>1. /\ call.sets = "status" /\ call.status = "completed" /\ call.error = None
        /\ call.result = [tier |-> "review", review |-> "approved"]
    BY <1>3 DEF IsDecision
  <2>2. /\ new.status = (IF old.status # "completed" THEN "completed" ELSE row.status)
        /\ new.error = row.error /\ new.tier = row.tier
        /\ new.result = call.result
    BY <1>1, <2>1 DEF Updated, Flushed, Given, Applied, StatusWritten, NoResult, Row
  <2> HIDE DEF new
  <2>3. new.result.tier = "review" /\ new.result.review = "approved"
    BY <2>1, <2>2
  <2>4. DecidedRow(new) /\ Earlier(row, new)
    BY <2>2, <2>3
  <2> QED
    BY <2>4 DEF new
<1> QED
  BY <1>2, <1>3

LEMMA OpenKeepsDesk ==
    ASSUME TypedInv, DeskInv, NEW s \in Sessions,
           BeginRun(s) \/ BeginApproval(s) \/ BeginRejection(s)
    PROVE  DeskInv'
<1> USE DEF TypedInv, RowsTypeOK
<1>1. PICK i \in Jobs : \E todo :
         /\ Open(s, i, todo)
         /\ \/ i \in RunJobs
            \/ s \notin Runs /\ todo \in {<<ApprovalCall(rows[i])>>, <<RejectionCall>>}
  BY RowWritesAssumption DEF BeginRun, BeginApproval, BeginRejection
<1>2. PICK todo :
         /\ Open(s, i, todo)
         /\ \/ i \in RunJobs
            \/ s \notin Runs /\ todo \in {<<ApprovalCall(rows[i])>>, <<RejectionCall>>}
  BY <1>1
<1>3. /\ subject[s] = None /\ subject' = [subject EXCEPT ![s] = i]
      /\ calls' = [calls EXCEPT ![s] = todo]
      /\ UNCHANGED <<rows, loaded>>
  BY <1>2 DEF Open
<1>4. loaded[s] = Unloaded
  BY <1>3
<1> SUFFICES ASSUME NEW j \in DeskJobs, NEW t \in Sessions, subject'[t] = j
             PROVE  /\ t \notin Runs
                    /\ calls'[t] # <<>> =>
                          IsDecision(Head(calls'[t])) /\ Tail(calls'[t]) = <<>>
                    /\ loaded[t] # Unloaded => Earlier(loaded[t], rows[j])
  BY <1>3 DEF DeskInv, DecidedRow, Earlier, Unloaded
<1>5. CASE t # s
  <2>1. subject[t] = j /\ calls'[t] = calls[t]
    BY <1>3, <1>5
  <2> QED
    BY <2>1 DEF DeskInv
<1>6. CASE t = s
  <2>1. j = i /\ i \notin RunJobs /\ calls'[s] = todo
    BY <1>3, <1>6 DEF DeskJobs
  <2>2. rows[i].tier = "review" /\ rows[i].result.tier = "review" /\ rows[i].result \in Result
    BY <2>1 DEF DeskInv, DecidedRow, Row
  <2>3. CASE todo = <<RejectionCall>>
    <3>1. Head(todo) = RejectionCall /\ Tail(todo) = <<>>
      BY <2>3
    <3> QED
      BY <1>2, <1>4, <1>6, <2>1, <3>1 DEF IsDecision
  <2>4. CASE todo = <<ApprovalCall(rows[i])>>
    <3>1. Head(todo) = ApprovalCall(rows[i]) /\ Tail(todo) = <<>>
      BY <2>4
    <3>2. [rows[i].result EXCEPT !.review = "approved"] =
             [tier |-> "review", review |-> "approved"]
      BY <2>2 DEF Result
    <3>3. IsDecision(ApprovalCall(rows[i]))
      BY <3>2 DEF IsDecision, ApprovalCall, StatusCall
    <3> QED
      BY <1>2, <1>4, <1>6, <2>1, <3>1, <3>3
  <2> QED
    BY <1>2, <2>1, <2>3, <2>4
<1> QED
  BY <1>5, <1>6

LEMMA SessionKeepsDesk ==
    ASSUME TypedInv, DeskInv, NEW s \in Sessions, SessionStep(s)
    PROVE  DeskInv'
<1> USE DEF TypedInv, RowsTypeOK
<1>1. CASE BeginRun(s) \/ BeginApproval(s) \/ BeginRejection(s)
  BY <1>1, OpenKeepsDesk
<1>2. CASE Select(s)
  <2>1. /\ loaded' = [loaded EXCEPT ![s] = rows[subject[s]]]
        /\ UNCHANGED <<rows, subject, calls>>
    BY <1>2 DEF Select
  <2> SUFFICES ASSUME NEW j \in DeskJobs, NEW t \in Sessions, subject[t] = j,
                      loaded'[t] # Unloaded
               PROVE  Earlier(loaded'[t], rows[j])
    BY <2>1 DEF DeskInv, DecidedRow, Unloaded, Earlier
  <2>2. Earlier(rows[j], rows[j])
    BY DEF DeskInv, Earlier
  <2> QED
    BY <2>1, <2>2 DEF DeskInv
<1> DEFINE i == subject[s]
\* A session that goes on from a desk job has written a decision on it or nothing.
<1>3. ASSUME NEW todo, calls[s] # <<>>, GoOn(s, todo), UNCHANGED subject,
             \A j \in Jobs : j # i => rows'[j] = rows[j],
             i \in DeskJobs => /\ DecidedRow(rows'[i]) /\ Earlier(rows[i], rows'[i])
                              /\ todo = <<>>
      PROVE  DeskInv'
  <2>1. calls' = [calls EXCEPT ![s] = todo] /\ loaded' = [loaded EXCEPT ![s] = Unloaded]
    BY <1>3 DEF GoOn
  <2> SUFFICES ASSUME NEW j \in DeskJobs
               PROVE  /\ DecidedRow(rows'[j])
                      /\ \A t \in Sessions : subject[t] = j =>
                           /\ t \notin Runs
                           /\ calls'[t] # <<>> =>
                                 IsDecision(Head(calls'[t])) /\ Tail(calls'[t]) = <<>>
                           /\ loaded'[t] # Unloaded => Earlier(loaded'[t], rows'[j])
    BY <1>3 DEF DeskInv, DecidedRow, Earlier, Unloaded
  <2>2. DecidedRow(rows[j]) /\ j \in Jobs
    BY DEF DeskInv, DeskJobs
  <2>3. DecidedRow(rows'[j]) /\ Earlier(rows[j], rows'[j])
    BY <1>3, <2>2 DEF Earlier
  <2> SUFFICES ASSUME NEW t \in Sessions, subject[t] = j
               PROVE  /\ t \notin Runs
                      /\ calls'[t] # <<>> =>
                            IsDecision(Head(calls'[t])) /\ Tail(calls'[t]) = <<>>
                      /\ loaded'[t] # Unloaded => Earlier(loaded'[t], rows'[j])
    BY <2>3
  <2>4. CASE t = s
    BY <1>3, <2>1, <2>4 DEF DeskInv
  <2>5. CASE t # s
    BY <2>1, <2>3, <2>5 DEF DeskInv, Earlier
  <2> QED
    BY <2>4, <2>5
<1>4. CASE Update(s)
  <2>1. /\ calls[s] # <<>> /\ loaded[s] # Unloaded /\ GoOn(s, Tail(calls[s]))
        /\ UNCHANGED subject /\ i \in Jobs
        /\ rows' = [rows EXCEPT ![i] = Updated(Head(calls[s]), loaded[s], @)]
    BY <1>4 DEF Update
  <2>2. ASSUME i \in DeskJobs
        PROVE  /\ DecidedRow(rows'[i]) /\ Earlier(rows[i], rows'[i])
               /\ Tail(calls[s]) = <<>>
    <3>1. /\ DecidedRow(rows[i]) /\ Earlier(loaded[s], rows[i])
          /\ IsDecision(Head(calls[s])) /\ Tail(calls[s]) = <<>>
      BY <2>1, <2>2 DEF DeskInv
    <3>2. Head(calls[s]) \in Call /\ loaded[s] \in Row /\ rows[i] \in Row
      BY <2>1
    <3>3. rows'[i] = Updated(Head(calls[s]), loaded[s], rows[i])
      BY <2>1
    <3> QED
      BY <3>1, <3>2, <3>3, DecisionKeepsRow
  <2> QED
    BY <1>3, <2>1, <2>2
<1>5. CASE Fails(s) \/ FailsForGood(s)
  <2>1. /\ calls[s] # <<>> /\ UNCHANGED <<rows, subject>>
        /\ \/ GoOn(s, <<>>)
           \/ s \in Runs /\ GoOn(s, <<FailureCall>>)
    BY <1>5 DEF Fails, FailsForGood
  <2>2. i \in DeskJobs => /\ DecidedRow(rows[i]) /\ Earlier(rows[i], rows[i])
                         /\ s \notin Runs
    BY DEF DeskInv, Earlier
  <2> QED
    BY <1>3, <2>1, <2>2
<1> QED
  BY <1>1, <1>2, <1>4, <1>5 DEF SessionStep

(***************************************************************************)
(* On a job no run touches any number of reviewers, with their statements   *)
(* interleaved in any way, leave a decision that is whole: the claim of     *)
(* ReviewDesk, of the statements its steps consist of.                      *)
(***************************************************************************)
THEOREM StatementsKeepDecisionsWhole == Spec => []DecisionsAreWhole
<1>1. Init => DeskInv
  <2> SUFFICES ASSUME Init, NEW j \in DeskJobs
               PROVE  DecidedRow(rows[j]) /\ \A s \in Sessions : subject[s] # j
    BY DEF DeskInv
  <2>1. rows[j] = HeldRow
    BY DEF Init, DeskJobs
  <2>2. DecidedRow(HeldRow)
    BY DEF DecidedRow, HeldRow, NoRow, NoResult, None, Settled
  <2> QED
    BY <2>1, <2>2, CreatedAssumption DEF Init, DeskJobs
<1>2. TypedInv /\ DeskInv /\ [Next]_vars => DeskInv'
  <2> SUFFICES ASSUME TypedInv, DeskInv, [Next]_vars PROVE DeskInv'
    OBVIOUS
  <2>1. CASE \E s \in Sessions : SessionStep(s)
    BY <2>1, SessionKeepsDesk
  <2>2. CASE StartScan \/ ReadItems \/ ReadCount \/ UNCHANGED vars
    <3>1. UNCHANGED <<rows, subject, ended, calls, loaded, contested>>
      BY <2>2 DEF StartScan, ReadItems, ReadCount, vars
    <3> QED
      BY <3>1 DEF DeskInv, DecidedRow, Earlier, Unloaded
  <2> QED
    BY <2>1, <2>2 DEF Next
<1>3. DeskInv => DecisionsAreWhole
  BY DEF DeskInv, DecidedRow, DecisionsAreWhole, Desk!DecisionsAreWhole, Desk!None, None
<1> QED
  BY <1>1, <1>2, <1>3, TypedHolds, PTL DEF Spec

-----------------------------------------------------------------------------
(* What a client is told of a batch.                                        *)

LEMMA JobsAreFinite ==
    ASSUME NEW S \in SUBSET Jobs
    PROVE  IsFiniteSet(S) /\ Cardinality(S) \in Nat
  BY CreatedAssumption, FS_Subset, FS_CardinalityType

LEMMA DisjointAdd ==
    ASSUME NEW S \in SUBSET Jobs, NEW T \in SUBSET Jobs, S \intersect T = {}
    PROVE  Cardinality(S \union T) = Cardinality(S) + Cardinality(T)
<1>1. /\ IsFiniteSet(S) /\ Cardinality(S) \in Nat
      /\ IsFiniteSet(T) /\ Cardinality(T) \in Nat
  BY JobsAreFinite
<1>2. Cardinality(S \union T)
         = Cardinality(S) + Cardinality(T) - Cardinality(S \intersect T)
  BY <1>1, FS_Union
<1>3. Cardinality(S \intersect T) = 0
  BY FS_EmptySet
<1> QED
  BY <1>1, <1>2, <1>3

\* Every job of a batch is in one of five statuses, and in one only.
LEMMA StatusesPartition ==
    ASSUME RowsTypeOK, NEW batch \in SUBSET Jobs
    PROVE  Cardinality(InStatus(batch, "completed"))
             + Cardinality(InStatus(batch, "queued"))
             + Cardinality(InStatus(batch, "failed"))
             + Cardinality(InStatus(batch, "processing"))
             + Cardinality(InStatus(batch, "review")) = Cardinality(batch)
<1> DEFINE In(status) == InStatus(batch, status)
           two == In("completed") \union In("queued")
           three == two \union In("failed")
           four == three \union In("processing")
<1>1. \A status : In(status) \in SUBSET Jobs
  BY DEF InStatus
<1>2. two \in SUBSET Jobs /\ three \in SUBSET Jobs /\ four \in SUBSET Jobs
  BY <1>1
<1>3. /\ In("completed") \intersect In("queued") = {}
      /\ two \intersect In("failed") = {}
      /\ three \intersect In("processing") = {}
      /\ four \intersect In("review") = {}
  BY DEF InStatus
<1>4. four \union In("review") = batch
  <2>1. \A j \in batch : rows[j].status \in StoredStatus
    BY DEF RowsTypeOK, Row
  <2> QED
    BY <2>1 DEF InStatus, StoredStatus
<1>5. /\ Cardinality(two) = Cardinality(In("completed")) + Cardinality(In("queued"))
      /\ Cardinality(three) = Cardinality(two) + Cardinality(In("failed"))
      /\ Cardinality(four) = Cardinality(three) + Cardinality(In("processing"))
      /\ Cardinality(batch) = Cardinality(four) + Cardinality(In("review"))
  <2> HIDE DEF two, three, four
  <2>1. Cardinality(two) = Cardinality(In("completed")) + Cardinality(In("queued"))
    BY <1>1, <1>3, DisjointAdd DEF two
  <2>2. Cardinality(three) = Cardinality(two) + Cardinality(In("failed"))
    BY <1>1, <1>2, <1>3, DisjointAdd DEF three
  <2>3. Cardinality(four) = Cardinality(three) + Cardinality(In("processing"))
    BY <1>1, <1>2, <1>3, DisjointAdd DEF four
  <2>4. Cardinality(batch) = Cardinality(four) + Cardinality(In("review"))
    BY <1>1, <1>2, <1>3, <1>4, DisjointAdd
  <2> QED
    BY <2>1, <2>2, <2>3, <2>4
<1> QED
  BY <1>5

(***************************************************************************)
(* Whatever jobs a batch has and whatever is happening to them: the status  *)
(* get_batch derives says of the batch what the counters next to it say,    *)
(* and the counters and the jobs held for review are all the jobs.          *)
(***************************************************************************)
THEOREM BatchAnswersAddUp == Spec => []BatchAnswerAddsUp
<1>1. TypedInv => BatchAnswerAddsUp
  <2> SUFFICES ASSUME RowsTypeOK, NEW batch \in SUBSET Jobs
               PROVE  LET p == BatchAnswer(batch).progress
                          status == BatchAnswer(batch).status
                      IN  /\ status = "completed" => p.completed = p.total
                          /\ status = "queued" => p.queued = p.total
                          /\ status = "failed" => p.failed > 0 /\ p.queued + p.in_progress = 0
                          /\ status = "processing" =>
                                p.queued + p.in_progress > 0 \/ InStatus(batch, "review") # {}
                          /\ p.completed + p.queued + p.failed + p.in_progress
                                + Cardinality(InStatus(batch, "review")) = p.total
    BY DEF TypedInv, BatchAnswerAddsUp
  <2> DEFINE In(status) == InStatus(batch, status)
             count(status) == Cardinality(In(status))
             p == BatchAnswer(batch).progress
             status == BatchAnswer(batch).status
  <2>1. /\ p.completed = count("completed") /\ p.queued = count("queued")
        /\ p.failed = count("failed") /\ p.in_progress = count("processing")
        /\ p.total = Cardinality(batch) /\ status = BatchStatus(batch)
    BY DEF BatchAnswer, Progress
  <2>2. \A s : In(s) \in SUBSET Jobs
    BY DEF InStatus
  <2>3. \A s : /\ count(s) \in Nat
               /\ count(s) = 0 <=> In(s) = {}
    BY <2>2, JobsAreFinite, FS_EmptySet
  <2>4. \A j \in batch : rows[j].status \in StoredStatus
    BY DEF RowsTypeOK, Row
  <2>5. BatchStatus(batch) = "completed" => In("completed") = batch
    BY DEF BatchStatus
  <2>6. BatchStatus(batch) = "queued" => In("queued") = batch
    BY DEF BatchStatus
  <2>7. BatchStatus(batch) = "failed" =>
            In("failed") # {} /\ In("queued") = {} /\ In("processing") = {}
    BY DEF BatchStatus
  <2>8. BatchStatus(batch) = "processing" =>
            In("queued") # {} \/ In("processing") # {} \/ In("review") # {}
    BY <2>4 DEF BatchStatus, InStatus, StoredStatus
  <2>9. p.completed + p.queued + p.failed + p.in_progress
           + Cardinality(InStatus(batch, "review")) = p.total
    BY <2>1, StatusesPartition
  <2> HIDE DEF p, status, In
  <2>10. status = "completed" => p.completed = p.total
    BY <2>1, <2>5
  <2>11. status = "queued" => p.queued = p.total
    BY <2>1, <2>6
  <2>12. status = "failed" => p.failed > 0 /\ p.queued + p.in_progress = 0
    BY <2>1, <2>3, <2>7
  <2>13. status = "processing" =>
            p.queued + p.in_progress > 0 \/ InStatus(batch, "review") # {}
    BY <2>1, <2>3, <2>8 DEF In
  <2> QED
    BY <2>9, <2>10, <2>11, <2>12, <2>13 DEF p, status
<1> QED
  BY <1>1, TypedHolds, PTL

-----------------------------------------------------------------------------
(* The client that pages through the queue.                                 *)

\* The page an offset is turned into and the offset it is turned back into.
LEMMA OffsetCounted ==
    ASSUME NEW k \in Nat, NEW limit \in Nat \ {0}
    PROVE  k * limit \in Nat /\ (k * limit) \div limit = k
<1> DEFINE q == (k * limit) \div limit
<1>1. k * limit \in Nat
  OBVIOUS
<1>2. q \in Int /\ q * limit <= k * limit /\ k * limit < (q + 1) * limit
  BY <1>1
<1> HIDE DEF q
<1>3. ASSUME NEW a \in Int, NEW b \in Int, a < b PROVE a * limit < b * limit
  <2>1. b * limit = a * limit + (b - a) * limit
    OBVIOUS
  <2>2. (b - a) * limit > 0
    BY <1>3
  <2> QED
    BY <2>1, <2>2
<1>4. ~ (k < q)
  BY <1>2, <1>3
<1>5. ~ (q + 1 < k) /\ q + 1 # k
  BY <1>2, <1>3
<1>6. q = k
  BY <1>2, <1>4, <1>5
<1> QED
  BY <1>1, <1>6 DEF q

LEMMA MinOfTwo ==
    ASSUME NEW a \in Nat, NEW b \in Nat
    PROVE  Min({a, b}) = IF a <= b THEN a ELSE b
<1> DEFINE m == IF a <= b THEN a ELSE b
<1>1. m \in {a, b} /\ \A y \in {a, b} : m <= y
  OBVIOUS
<1>2. \A x \in {a, b} : (\A y \in {a, b} : x <= y) => x = m
  OBVIOUS
<1> HIDE DEF m
<1>3. Min({a, b}) = m
  BY <1>1, <1>2 DEF Min
<1> QED
  BY <1>3 DEF m

LEMMA PendingIsFinite ==
    /\ Pending \in SUBSET Jobs /\ IsFiniteSet(Pending)
    /\ Cardinality(Pending) \in Nat
<1>1. Pending \in SUBSET Jobs
  BY DEF Pending
<1> QED
  BY <1>1, JobsAreFinite

LEMMA SmallerSet ==
    ASSUME NEW S \in SUBSET Jobs, NEW R \in SUBSET S
    PROVE  /\ Cardinality(R) \in Nat /\ Cardinality(S) \in Nat
           /\ Cardinality(R) <= Cardinality(S)
  BY JobsAreFinite, FS_Subset

-----------------------------------------------------------------------------
(* Where a job may be in a queue that orders by time stamps only.            *)

Newer(j) == {h \in Pending : Created[h] > Created[j]}
NotOlder(j) == {h \in Pending : Created[h] >= Created[j]}

\* All that are newer come before it, and at most those of its stamp besides.
Placed(k, j) ==
    /\ j \in Pending
    /\ Cardinality(Newer(j)) < k /\ k <= Cardinality(NotOlder(j))

LEMMA OrderIsASeq ==
    ASSUME NEW order \in Orders
    PROVE  /\ order \in Seq(Jobs) /\ Len(order) = Cardinality(Pending)
           /\ order \in Bijection(1..Cardinality(Pending), Pending)
<1>1. order \in Bijection(1..Cardinality(Pending), Pending)
  BY DEF Orders
<1>2. order \in [1..Cardinality(Pending) -> Jobs] /\ Cardinality(Pending) \in Nat
  BY <1>1, PendingIsFinite DEF Bijection, Injection
<1>3. order \in Seq(Jobs)
  BY <1>2
<1> QED
  BY <1>1, <1>2, <1>3

LEMMA OrdersPlace ==
    ASSUME NEW order \in Orders, NEW k \in 1..Cardinality(Pending)
    PROVE  Placed(k, order[k])
<1> DEFINE n == Cardinality(Pending)
           j == order[k]
<1>1. n \in Nat /\ order \in [1..n -> Pending] /\ DOMAIN order = 1..n
  BY PendingIsFinite, OrderIsASeq DEF Bijection, Injection
<1>2. /\ \A a, b \in 1..n : order[a] = order[b] => a = b
      /\ \A h \in Pending : \E a \in 1..n : order[a] = h
      /\ \A a, b \in 1..n : a < b => Created[order[a]] >= Created[order[b]]
  BY <1>1, OrderIsASeq DEF Orders, Bijection, Injection, Surjection, IsInjective
<1>3. j \in Pending /\ k \in Nat /\ k <= n /\ 1 <= k
      /\ \A h \in Pending : Created[h] \in Nat
  BY <1>1, CreatedAssumption DEF Pending
<1> HIDE DEF n, j
<1>4. Newer(j) \in SUBSET Jobs /\ NotOlder(j) \in SUBSET Jobs
  BY DEF Newer, NotOlder, Pending
<1>5. k <= Cardinality(NotOlder(j))
  <2> DEFINE first == [a \in 1..k |-> order[a]]
  <2>1. ASSUME NEW a \in 1..k PROVE order[a] \in NotOlder(j)
    <3>1. a \in 1..n /\ order[a] \in Pending /\ (a = k \/ a < k)
      BY <1>1, <1>3, <2>1
    <3>2. Created[order[a]] >= Created[j]
      BY <1>2, <1>3, <3>1 DEF j
    <3> QED
      BY <3>1, <3>2 DEF NotOlder
  <2>2. first \in Injection(1..k, NotOlder(j))
    <3>1. \A a, b \in 1..k : order[a] = order[b] => a = b
      <4>1. \A a \in 1..k : a \in 1..n
        BY <1>1, <1>3
      <4> QED
        BY <1>2, <4>1
    <3> QED
      BY <2>1, <3>1 DEF Injection, IsInjective
  <2>3. Cardinality(1..k) = k
    BY <1>3, FS_Interval
  <2> HIDE DEF first
  <2> QED
    BY <1>4, <2>2, <2>3, FS_Injection, JobsAreFinite
<1>6. Cardinality(Newer(j)) <= k - 1
  <2> DEFINE before == {order[a] : a \in 1..(k - 1)}
             first == [a \in 1..(k - 1) |-> order[a]]
  <2>1. first \in Surjection(1..(k - 1), before)
    BY DEF Surjection
  <2>2. IsFiniteSet(1..(k - 1)) /\ Cardinality(1..(k - 1)) = k - 1
    BY <1>3, FS_Interval
  <2>3. IsFiniteSet(before) /\ Cardinality(before) <= k - 1
    <3> HIDE DEF first, before
    <3> QED
      BY <2>1, <2>2, FS_Surjection
  <2>4. ASSUME NEW h \in Newer(j) PROVE h \in before
    <3>1. h \in Pending /\ Created[h] > Created[j]
      BY DEF Newer
    <3>2. PICK a \in 1..n : order[a] = h
      BY <1>2, <3>1
    <3>3. ASSUME k <= a PROVE FALSE
      <4>1. a = k \/ k < a
        BY <1>1, <1>3, <3>3
      <4>2. Created[j] >= Created[h]
        BY <1>2, <1>3, <3>2, <4>1 DEF j, n
      <4> QED
        BY <1>3, <3>1, <4>2
    <3>4. a \in 1..(k - 1)
      BY <1>1, <1>3, <3>3
    <3> QED
      BY <3>2, <3>4
  <2>5. Newer(j) \in SUBSET before
    BY <2>4
  <2> HIDE DEF before
  <2>6. Cardinality(Newer(j)) <= Cardinality(before)
    BY <2>3, <2>5, FS_Subset
  <2>7. Cardinality(before) \in Nat /\ Cardinality(Newer(j)) \in Nat
    BY <1>4, <2>3, FS_CardinalityType, JobsAreFinite
  <2> QED
    BY <1>3, <2>3, <2>6, <2>7
<1>7. Cardinality(Newer(j)) \in Nat
  BY <1>4, JobsAreFinite
<1> QED
  BY <1>3, <1>5, <1>6, <1>7 DEF Placed, j

\* Jobs of different stamps have places apart.
LEMMA PlacesFollowStamps ==
    ASSUME NEW i \in Pending, NEW j \in Pending, Created[i] < Created[j]
    PROVE  /\ Cardinality(NotOlder(j)) <= Cardinality(Newer(i))
           /\ Cardinality(NotOlder(j)) \in Nat /\ Cardinality(Newer(i)) \in Nat
<1>1. \A h \in Pending : Created[h] \in Nat
  BY CreatedAssumption DEF Pending
<1>2. NotOlder(j) \in SUBSET Newer(i)
  BY <1>1 DEF NotOlder, Newer
<1>3. Newer(i) \in SUBSET Jobs
  BY DEF Newer, Pending
<1> QED
  BY <1>2, <1>3, SmallerSet

-----------------------------------------------------------------------------
(* What a scan has seen.                                                    *)

\* How much of the queue a client has skipped after the page at an offset.
Through(offset, limit) ==
    IF offset + limit <= Cardinality(Pending) THEN offset + limit
    ELSE Cardinality(Pending)

\* A scan no run disturbed has seen as many items as the pages so far have, each
\* in a place some order of the queue gives it.
ScanGoesOn ==
    /\ \A k \in 1..Len(scan.seen) : Placed(k, scan.seen[k])
    /\ scan.at = "items" =>
          /\ scan.offset = 0 \/ scan.offset < Cardinality(Pending)
          /\ Len(scan.seen) = scan.offset
    /\ scan.at = "count" =>
          /\ scan.offset <= Cardinality(Pending)
          /\ Len(scan.seen) = Through(scan.offset, scan.limit)
    /\ scan.at = "done" =>
          Len(scan.seen) = Cardinality(Pending) /\ scan.total = Cardinality(Pending)

ScanInv ==
    /\ scan.limit \in Nat \ {0} /\ scan.quiet \in BOOLEAN /\ scan.seen \in Seq(Jobs)
    /\ \E k \in Nat : scan.offset = k * scan.limit
    /\ scan.at # "idle" /\ scan.quiet => ScanGoesOn

LEMMA ScanOffset ==
    ASSUME ScanInv
    PROVE  /\ scan.offset \in Nat
           /\ (scan.offset \div scan.limit) * scan.limit = scan.offset
           /\ scan.offset \div scan.limit \in Nat
<1>1. PICK k \in Nat : scan.offset = k * scan.limit
  BY DEF ScanInv
<1>2. scan.limit \in Nat \ {0}
  BY DEF ScanInv
<1> QED
  BY <1>1, <1>2, OffsetCounted

LEMMA PageIsNext ==
    ASSUME ScanInv, NEW order \in Orders
    PROVE  PageOf(order, scan.limit, scan.offset)
             = SubSeq(order, scan.offset + 1, Through(scan.offset, scan.limit))
<1> DEFINE q == scan.offset \div scan.limit
<1>1. q \in Nat /\ q * scan.limit = scan.offset /\ scan.offset \in Nat
      /\ scan.limit \in Nat \ {0} /\ Len(order) \in Nat
      /\ Len(order) = Cardinality(Pending)
  BY ScanOffset, OrderIsASeq, PendingIsFinite DEF ScanInv
<1>2. PageNumber(scan.limit, scan.offset) = q + 1
  BY DEF PageNumber
<1>3. Min({scan.offset + scan.limit, Len(order)}) = Through(scan.offset, scan.limit)
  <2>1. scan.offset + scan.limit \in Nat
    BY <1>1
  <2> QED
    BY <1>1, <2>1, MinOfTwo DEF Through
<1> HIDE DEF q
<1>4. ~ (q + 1 < 1) /\ (q + 1) - 1 = q
  BY <1>1
<1>5. PageOf(order, scan.limit, scan.offset)
        = SubSeq(order, q * scan.limit + 1,
                 Min({q * scan.limit + scan.limit, Len(order)}))
  BY <1>2, <1>4 DEF PageOf
<1> QED
  BY <1>1, <1>3, <1>5

\* The next page goes on where the pages before ended, in an order of its own.
LEMMA PageGoesOn ==
    ASSUME ScanInv, NEW order \in Orders, Len(scan.seen) = scan.offset,
           \A k \in 1..Len(scan.seen) : Placed(k, scan.seen[k]),
           scan.offset <= Cardinality(Pending)
    PROVE  LET seen == scan.seen \o PageOf(order, scan.limit, scan.offset)
           IN  /\ seen \in Seq(Jobs)
               /\ Len(seen) = Through(scan.offset, scan.limit)
               /\ \A k \in 1..Len(seen) : Placed(k, seen[k])
<1> DEFINE o == scan.offset
           t == Through(scan.offset, scan.limit)
           page == PageOf(order, scan.limit, scan.offset)
           seen == scan.seen \o page
           n == Cardinality(Pending)
<1>1. /\ o \in Nat /\ n \in Nat /\ t \in o..n /\ Len(scan.seen) = o
      /\ scan.seen \in Seq(Jobs)
  BY ScanOffset, PendingIsFinite DEF Through, ScanInv
<1>2. order \in Seq(Jobs) /\ Len(order) = n
  BY OrderIsASeq
<1>3. page = SubSeq(order, o + 1, t)
  BY PageIsNext
<1> HIDE DEF o, t, n, page
<1>4. \A i \in (o + 1)..t : order[i] \in Jobs
  BY <1>1, <1>2
<1>5. /\ page \in Seq(Jobs)
      /\ Len(page) = t - o
      /\ \A i \in 1..(t - o) : page[i] = order[o + i]
  <2>1. /\ SubSeq(order, o + 1, t) \in Seq(Jobs)
        /\ Len(SubSeq(order, o + 1, t)) = IF o + 1 <= t THEN t - (o + 1) + 1 ELSE 0
        /\ \A i \in 1..(t - (o + 1) + 1) :
              SubSeq(order, o + 1, t)[i] = order[(o + 1) + i - 1]
    BY <1>1, <1>4, SubSeqProperties
  <2>2. t - (o + 1) + 1 = t - o /\ \A i \in 1..(t - o) : (o + 1) + i - 1 = o + i
    BY <1>1
  <2> QED
    BY <1>1, <1>3, <2>1, <2>2
<1>6. /\ seen \in Seq(Jobs) /\ Len(seen) = t
      /\ \A k \in 1..o : seen[k] = scan.seen[k]
      /\ \A k \in (o + 1)..t : seen[k] = page[k - o]
  <2> DEFINE head == scan.seen
  <2> HIDE DEF head
  <2>1. /\ head \in Seq(Jobs) /\ Len(head) = o /\ page \in Seq(Jobs)
        /\ Len(page) = t - o /\ seen = head \o page
    BY <1>1, <1>5 DEF head
  <2> HIDE DEF seen
  <2>2. seen \in Seq(Jobs) /\ Len(seen) = o + (t - o)
    <3>1. /\ head \o page \in Seq(Jobs)
          /\ Len(head \o page) = Len(head) + Len(page)
      BY <2>1, ConcatProperties
    <3> QED
      BY <2>1, <3>1
  <2>3. \A k \in 1..o : seen[k] = head[k]
    BY <1>1, <2>1
  <2>4. \A k \in (o + 1)..t : seen[k] = page[k - o]
    BY <1>1, <2>1
  <2> QED
    BY <1>1, <2>2, <2>3, <2>4 DEF head
<1> HIDE DEF seen
<1>7. ASSUME NEW k \in 1..t PROVE Placed(k, seen[k])
  <2>1. CASE k <= o
    BY <1>1, <1>6, <2>1
  <2>2. CASE ~ (k <= o)
    <3>1. k \in (o + 1)..t /\ k - o \in 1..(t - o) /\ o + (k - o) = k /\ k \in 1..n
      BY <1>1, <2>2
    <3>2. seen[k] = order[k]
      BY <1>5, <1>6, <3>1
    <3> QED
      BY <3>1, <3>2, OrdersPlace DEF n
  <2> QED
    BY <2>1, <2>2
<1> QED
  BY <1>6, <1>7 DEF seen, page, t

\* A call that leaves the client alone leaves every job in the queue or out of it.
LEMMA QuietUpdate ==
    ASSUME TypedInv, NEW s \in Sessions, Update(s), scan.at # "idle", scan' # Disturbed
    PROVE  scan' = scan /\ Pending' = Pending
<1>1. scan' = scan /\ (rows'[subject[s]].tier = "review") = IsPending(subject[s])
  BY DEF Update
<1>2. rows \in [Jobs -> Row] /\ rows' \in [Jobs -> Row]
  BY SessionTyped DEF TypedInv, SessionStep, RowsTypeOK
<1>3. \A j \in Jobs : j # subject[s] => rows'[j] = rows[j]
  BY <1>2 DEF Update
<1>4. \A j \in Jobs : rows'[j].status # "rejected"
  BY <1>2 DEF Row, StoredStatus, Absent
<1>5. ASSUME NEW j \in Jobs PROVE IsPending(j)' <=> IsPending(j)
  <2>1. CASE j = subject[s]
    BY <1>1, <1>4, <2>1 DEF IsPending
  <2>2. CASE j # subject[s]
    BY <1>3, <2>2 DEF IsPending
  <2> QED
    BY <2>1, <2>2
<1> QED
  BY <1>1, <1>5 DEF Pending

LEMMA QueueKept ==
    ASSUME UNCHANGED rows
    PROVE  Pending' = Pending
  BY DEF Pending, IsPending

\* What is kept while neither the scan nor the queue changes.
LEMMA ScanRests ==
    ASSUME ScanInv, scan' = scan, scan.at # "idle" => Pending' = Pending
    PROVE  ScanInv'
<1>1. CASE scan.at = "idle"
  BY <1>1 DEF ScanInv
<1>2. CASE scan.at # "idle"
  <2>1. Pending' = Pending
    BY <1>2
  <2>2. \A j : Newer(j)' = Newer(j) /\ NotOlder(j)' = NotOlder(j)
    BY <2>1 DEF Newer, NotOlder
  <2>3. \A k, j : Placed(k, j)' <=> Placed(k, j)
    BY <2>1, <2>2 DEF Placed
  <2>4. ScanGoesOn' <=> ScanGoesOn
    BY <2>1, <2>3 DEF ScanGoesOn, Through
  <2> QED
    BY <2>4 DEF ScanInv
<1> QED
  BY <1>1, <1>2

LEMMA ScanDisturbed ==
    ASSUME scan' = Disturbed
    PROVE  ScanInv'
<1>1. /\ scan'.limit = 1 /\ scan'.quiet = FALSE /\ scan'.seen = <<>> /\ scan'.offset = 0
  BY DEF Disturbed, NoScan
<1>2. scan'.offset = 0 * scan'.limit /\ 0 \in Nat
  BY <1>1
<1>3. scan'.seen \in Seq(Jobs)
  BY <1>1
<1>4. scan'.limit \in Nat \ {0} /\ scan'.quiet \in BOOLEAN
  BY DEF Disturbed, NoScan
<1> QED
  BY <1>1, <1>2, <1>3, <1>4 DEF ScanInv

\* The places of jobs, where the queue is kept.
LEMMA PlacesKept ==
    ASSUME Pending' = Pending, NEW k, NEW j
    PROVE  Placed(k, j)' <=> Placed(k, j)
  BY DEF Placed, Newer, NotOlder

LEMMA ScanNext == TypedInv /\ ScanInv /\ [Next]_vars => ScanInv'
<1> SUFFICES ASSUME TypedInv, ScanInv, [Next]_vars PROVE ScanInv'
  OBVIOUS
<1>typing. /\ DOMAIN scan = {"at", "limit", "offset", "seen", "total", "quiet"}
           /\ scan.limit \in Nat \ {0} /\ scan.quiet \in BOOLEAN
           /\ scan.offset \in Nat /\ scan.seen \in Seq(Jobs)
           /\ Cardinality(Pending) \in Nat
  BY ScanOffset, PendingIsFinite DEF TypedInv, ScanTypeOK, ScanInv
<1>1. ASSUME UNCHANGED <<rows, scan>> PROVE ScanInv'
  BY <1>1, QueueKept, ScanRests
<1>2. CASE UNCHANGED vars
  BY <1>1, <1>2 DEF vars
<1>3. ASSUME NEW s \in Sessions, SessionStep(s) PROVE ScanInv'
  <2>1. CASE Update(s) /\ scan' = Disturbed
    BY <2>1, ScanDisturbed
  <2>2. CASE Update(s) /\ scan' # Disturbed
    <3>1. scan' = scan
      BY <2>2 DEF Update
    <3> QED
      BY <2>2, <3>1, QuietUpdate, ScanRests
  <2>3. CASE ~Update(s)
    <3>1. UNCHANGED <<rows, scan>>
      BY <1>3, <2>3 DEF SessionStep, BeginRun, BeginApproval, BeginRejection, Open,
         Select, Fails, FailsForGood
    <3> QED
      BY <1>1, <3>1
  <2> QED
    BY <2>1, <2>2, <2>3
<1>4. CASE StartScan
  <2>1. PICK limit \in Limits : scan' = [NoScan EXCEPT !.at = "items", !.limit = limit]
    BY <1>4 DEF StartScan
  <2>2. /\ scan'.at = "items" /\ scan'.limit \in Nat \ {0} /\ scan'.quiet = TRUE
        /\ scan'.offset = 0 /\ scan'.seen = <<>>
    BY <2>1, RowWritesAssumption DEF NoScan
  <2>3. scan'.offset = 0 * scan'.limit /\ 0 \in Nat
    BY <2>2
  <2>4. scan'.seen \in Seq(Jobs) /\ Len(scan'.seen) = 0
    BY <2>2
  <2>5. ScanGoesOn'
    BY <2>2, <2>4 DEF ScanGoesOn
  <2> QED
    BY <2>2, <2>3, <2>4, <2>5 DEF ScanInv
<1>5. CASE ReadItems
  <2>1. PICK order \in Orders :
           scan' = [scan EXCEPT !.at = "count",
                                !.seen = @ \o PageOf(order, scan.limit, scan.offset)]
    BY <1>5 DEF ReadItems
  <2>2. /\ scan.at = "items" /\ Pending' = Pending
        /\ scan'.at = "count" /\ scan'.limit = scan.limit
        /\ scan'.offset = scan.offset /\ scan'.quiet = scan.quiet
        /\ scan'.seen = scan.seen \o PageOf(order, scan.limit, scan.offset)
    BY <1>5, <2>1, <1>typing, QueueKept DEF ReadItems
  <2>3. PageOf(order, scan.limit, scan.offset) \in Seq(Jobs)
    <3>1. /\ order \in Seq(Jobs) /\ Len(order) = Cardinality(Pending)
          /\ Through(scan.offset, scan.limit) \in Nat
          /\ Through(scan.offset, scan.limit) <= Cardinality(Pending)
      BY <1>typing, OrderIsASeq DEF Through
    <3> DEFINE from == scan.offset + 1
               to == Through(scan.offset, scan.limit)
    <3>2. from \in Int /\ to \in Int /\ \A i \in from..to : order[i] \in Jobs
      BY <1>typing, <3>1
    <3>3. PageOf(order, scan.limit, scan.offset) = SubSeq(order, from, to)
      BY PageIsNext
    <3> HIDE DEF from, to
    <3> QED
      BY <3>2, <3>3, SubSeqProperties
  <2>4. ASSUME scan.quiet
        PROVE  /\ scan.offset <= Cardinality(Pending)
               /\ Len(scan'.seen) = Through(scan.offset, scan.limit)
               /\ \A k \in 1..Len(scan'.seen) : Placed(k, scan'.seen[k])
    <3>1. /\ Len(scan.seen) = scan.offset /\ scan.offset <= Cardinality(Pending)
          /\ \A k \in 1..Len(scan.seen) : Placed(k, scan.seen[k])
      BY <2>2, <2>4, <1>typing DEF ScanInv, ScanGoesOn
    <3> QED
      BY <2>2, <3>1, PageGoesOn
  <2>5. Through(scan.offset, scan.limit)' = Through(scan.offset, scan.limit)
    BY <2>2 DEF Through
  <2>6. scan.quiet => ScanGoesOn'
    BY <2>2, <2>4, <2>5, PlacesKept DEF ScanGoesOn
  <2>7. scan'.seen \in Seq(Jobs)
    BY <1>typing, <2>2, <2>3
  <2>8. \E k \in Nat : scan'.offset = k * scan'.limit
    BY <2>2 DEF ScanInv
  <2> QED
    BY <2>2, <2>6, <2>7, <2>8, <1>typing DEF ScanInv
<1>6. CASE ReadCount
  <2> DEFINE next == scan.offset + scan.limit
  <2>1. /\ scan.at = "count" /\ Pending' = Pending
        /\ scan'.limit = scan.limit /\ scan'.quiet = scan.quiet
        /\ scan'.seen = scan.seen /\ scan'.total = Cardinality(Pending)
        /\ \/ /\ next < Cardinality(Pending) /\ scan'.at = "items"
              /\ scan'.offset = next
           \/ /\ ~ (next < Cardinality(Pending)) /\ scan'.at = "done"
              /\ scan'.offset = scan.offset
    BY <1>6, <1>typing, QueueKept DEF ReadCount
  <2>2. \E k \in Nat : scan'.offset = k * scan'.limit
    <3>1. PICK k \in Nat : scan.offset = k * scan.limit
      BY DEF ScanInv
    <3>2. next = (k + 1) * scan.limit /\ k + 1 \in Nat
      BY <3>1, <1>typing
    <3> QED
      BY <2>1, <3>1, <3>2
  <2>3. ASSUME scan.quiet
        PROVE  ScanGoesOn'
    <3>1. /\ Len(scan.seen) = Through(scan.offset, scan.limit)
          /\ \A k \in 1..Len(scan.seen) : Placed(k, scan.seen[k])
      BY <2>1, <2>3 DEF ScanInv, ScanGoesOn
    <3>2. (\A k \in 1..Len(scan.seen) : Placed(k, scan.seen[k]))'
      BY <2>1, <3>1, PlacesKept
    <3>3. CASE next < Cardinality(Pending)
      <4>1. Through(scan.offset, scan.limit) = next
        BY <3>3, <1>typing DEF Through
      <4> QED
        BY <2>1, <3>1, <3>2, <3>3, <4>1 DEF ScanGoesOn
    <3>4. CASE ~ (next < Cardinality(Pending))
      <4>1. Through(scan.offset, scan.limit) = Cardinality(Pending)
        BY <3>4, <1>typing DEF Through
      <4> QED
        BY <2>1, <3>1, <3>2, <3>4, <4>1 DEF ScanGoesOn
    <3> QED
      BY <3>3, <3>4
  <2> QED
    BY <2>1, <2>2, <2>3, <1>typing DEF ScanInv
<1> QED
  BY <1>2, <1>3, <1>4, <1>5, <1>6 DEF Next

\* As many items as the queue has, each in a place of its own, are the queue up
\* to the order within a time stamp.
LEMMA PlacedIsSorted ==
    ASSUME NEW seen \in Seq(Jobs), \A k \in 1..Len(seen) : Placed(k, seen[k]),
           NEW k \in 1..Len(seen), NEW l \in 1..Len(seen), k < l
    PROVE  Created[seen[k]] >= Created[seen[l]]
<1>1. Placed(k, seen[k]) /\ Placed(l, seen[l])
  OBVIOUS
<1>2. seen[k] \in Pending /\ seen[l] \in Pending
      /\ Created[seen[k]] \in Nat /\ Created[seen[l]] \in Nat
  BY <1>1, CreatedAssumption DEF Placed, Pending
<1>3. ASSUME Created[seen[k]] < Created[seen[l]] PROVE FALSE
  <2>1. /\ Cardinality(NotOlder(seen[l])) <= Cardinality(Newer(seen[k]))
        /\ Cardinality(NotOlder(seen[l])) \in Nat /\ Cardinality(Newer(seen[k])) \in Nat
    BY <1>2, <1>3, PlacesFollowStamps
  <2>2. Cardinality(Newer(seen[k])) < k /\ l <= Cardinality(NotOlder(seen[l]))
    BY <1>1 DEF Placed
  <2>3. k \in Nat /\ l \in Nat
    OBVIOUS
  <2> QED
    BY <2>1, <2>2, <2>3
<1> QED
  BY <1>2, <1>3

LEMMA PlacedIsSeenOnce ==
    ASSUME NEW seen \in Seq(Jobs), \A k \in 1..Len(seen) : Placed(k, seen[k]),
           Len(seen) = Cardinality(Pending), NEW j \in Pending, HasOwnStamp(j)
    PROVE  \E k \in 1..Len(seen) : \A l \in 1..Len(seen) : seen[l] = j <=> l = k
<1> DEFINE r == Cardinality(Newer(j)) + 1
<1>1. \A h \in Pending : Created[h] \in Nat
  BY CreatedAssumption DEF Pending
<1>2. Newer(j) \in SUBSET Jobs /\ NotOlder(j) \in SUBSET Pending
      /\ Pending \in SUBSET Jobs
  BY DEF Newer, NotOlder, Pending
<1>3. NotOlder(j) = Newer(j) \union {j} /\ j \notin Newer(j)
  BY <1>1 DEF NotOlder, Newer, HasOwnStamp
<1>4. /\ Cardinality(NotOlder(j)) = r /\ Cardinality(Newer(j)) \in Nat
      /\ r <= Cardinality(Pending) /\ Cardinality(Pending) \in Nat
  BY <1>2, <1>3, JobsAreFinite, SmallerSet, FS_AddElement
<1>5. r \in 1..Len(seen) /\ r \in Nat
  BY <1>4
<1>6. Placed(r, seen[r])
  BY <1>5
<1>7. seen[r] \in Pending /\ Created[seen[r]] \in Nat /\ Created[j] \in Nat
  BY <1>1, <1>6 DEF Placed
<1>8. ~ (Created[seen[r]] < Created[j])
  <2>1. ASSUME Created[seen[r]] < Created[j] PROVE FALSE
    <3>1. /\ Cardinality(NotOlder(j)) <= Cardinality(Newer(seen[r]))
          /\ Cardinality(Newer(seen[r])) \in Nat
      BY <1>7, <2>1, PlacesFollowStamps
    <3>2. Cardinality(Newer(seen[r])) < r
      BY <1>6 DEF Placed
    <3> QED
      BY <1>4, <1>5, <3>1, <3>2
  <2> QED
    BY <2>1
<1>9. ~ (Created[j] < Created[seen[r]])
  <2>1. ASSUME Created[j] < Created[seen[r]] PROVE FALSE
    <3>1. /\ Cardinality(NotOlder(seen[r])) <= Cardinality(Newer(j))
          /\ Cardinality(NotOlder(seen[r])) \in Nat
      BY <1>7, <2>1, PlacesFollowStamps
    <3>2. r <= Cardinality(NotOlder(seen[r]))
      BY <1>6 DEF Placed
    <3> QED
      BY <1>4, <3>1, <3>2
  <2> QED
    BY <2>1
<1>10. seen[r] = j
  BY <1>7, <1>8, <1>9 DEF HasOwnStamp
<1>11. ASSUME NEW l \in 1..Len(seen), seen[l] = j PROVE l = r
  <2>1. Cardinality(Newer(j)) < l /\ l <= Cardinality(NotOlder(j))
    BY <1>11 DEF Placed
  <2> QED
    BY <1>4, <2>1
<1> HIDE DEF r
<1> QED
  BY <1>5, <1>10, <1>11

(***************************************************************************)
(* Whatever page size a client asks for, however many reviewers decide      *)
(* meanwhile and whichever order each page has within a time stamp: having  *)
(* gone through the pages it has seen as many items as there are, newest    *)
(* first, and every job with a time stamp of its own once.  No two time     *)
(* stamps need be different for that.                                       *)
(***************************************************************************)
THEOREM ScansSeeTheQueue == Spec => []ScanSeesTheQueue
<1>1. Init => ScanInv
  <2> SUFFICES ASSUME Init PROVE ScanInv
    OBVIOUS
  <2>1. /\ scan.at = "idle" /\ scan.limit = 1 /\ scan.offset = 0
        /\ scan.seen = <<>> /\ scan.quiet = TRUE
    BY DEF Init, NoScan
  <2>2. scan.offset = 0 * scan.limit /\ 0 \in Nat
    BY <2>1
  <2>3. scan.seen \in Seq(Jobs)
    BY <2>1
  <2>4. scan.limit \in Nat \ {0} /\ scan.quiet \in BOOLEAN
    BY DEF Init, NoScan
  <2> QED
    BY <2>1, <2>2, <2>3, <2>4 DEF ScanInv
<1>2. ScanInv => ScanSeesTheQueue
  <2> SUFFICES ASSUME ScanInv, scan.at = "done", scan.quiet
               PROVE  /\ scan.total = Cardinality(Pending) /\ Len(scan.seen) = scan.total
                      /\ \A k \in 1..scan.total : scan.seen[k] \in Pending
                      /\ \A k, l \in 1..scan.total :
                            k < l => Created[scan.seen[k]] >= Created[scan.seen[l]]
                      /\ \A j \in Pending : HasOwnStamp(j) =>
                            \E k \in 1..scan.total :
                                \A l \in 1..scan.total : scan.seen[l] = j <=> l = k
    BY DEF ScanSeesTheQueue
  <2> DEFINE seen == scan.seen
  <2>1. /\ seen \in Seq(Jobs) /\ Len(seen) = Cardinality(Pending)
        /\ scan.total = Len(seen)
        /\ \A k \in 1..Len(seen) : Placed(k, seen[k])
    BY DEF ScanInv, ScanGoesOn
  <2> HIDE DEF seen
  <2>2. \A k \in 1..Len(seen) : seen[k] \in Pending
    BY <2>1 DEF Placed
  <2>3. \A k, l \in 1..Len(seen) : k < l => Created[seen[k]] >= Created[seen[l]]
    BY <2>1, PlacedIsSorted
  <2>4. \A j \in Pending : HasOwnStamp(j) =>
            \E k \in 1..Len(seen) : \A l \in 1..Len(seen) : seen[l] = j <=> l = k
    BY <2>1, PlacedIsSeenOnce
  <2>5. 1..scan.total = 1..Len(seen)
    BY <2>1
  <2> QED
    BY <2>1, <2>2, <2>3, <2>4, <2>5 DEF seen
<1> QED
  BY <1>1, <1>2, ScanNext, TypedHolds, PTL DEF Spec

=============================================================================
