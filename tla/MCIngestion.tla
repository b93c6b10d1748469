----------------------------- MODULE MCIngestion -----------------------------
(* Instances of Ingestion for TLC. *)
EXTENDS Ingestion, TLC

CONSTANTS j1, p1, w1, r1

OneJob == {j1}
OneRequest == {p1}
OneWorker == {w1}
OneReviewer == {r1}

OneFile == (p1 :> <<j1>>)
SameContent == [j \in Jobs |-> "h"]

NoCallbacks == {}
NoStages == {}
Indexing == {"search_index"}
AutoOrReview == {"auto", "review"}
=============================================================================
