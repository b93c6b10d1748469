----------------------------- MODULE MCHarness -----------------------------
(* Instances of Harness for TLC. *)
EXTENDS Harness

CONSTANTS default, base, small, other, word, near

\* Two drawings, one with a suffix in capitals, and a file that is none.
Directory == <<".pdf", ".pdf", ".PDF", ".txt">>
Ladder == <<small, other>>
TwoFields == {"drawing_number", "title"}
TwoWords == {word, near}
Similar == [p \in Words \X Words |-> IF p[1] = p[2] THEN 100 ELSE 60]
Seconds == {1, 2}
=============================================================================
