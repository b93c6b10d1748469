---------------------------- MODULE MCRowWrites ----------------------------
(* Instances of RowWrites for TLC. *)
EXTENDS RowWrites, TLC

CONSTANTS j1, j2, j3, a1, a2, r1, r2

AllJobs == {j1, j2, j3}
OlderPair == (j1 :> 2) @@ (j2 :> 1) @@ (j3 :> 1)
OneRunJob == {j1}
TwoRuns == {a1, a2}
TwoReviewers == {r1, r2}
AutoOrReview == {"auto", "review"}
Two == {2}
Alike == Permutations(TwoRuns) \union Permutations(TwoReviewers)
=============================================================================
