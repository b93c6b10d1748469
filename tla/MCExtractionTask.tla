-------------------------- MODULE MCExtractionTask --------------------------
(* Instances of ExtractionTask for TLC. *)
EXTENDS ExtractionTask, TLC

CONSTANTS j1, w1, w2

OneWorker == {w1}
TwoWorkers == {w1, w2}
OneJob == {j1}
OwnHash == [j \in Jobs |-> j]
AllStages == EffectStages
NoStages == {}
AllOptional == {"search_index", "callback"}
NoCallbacks == {}
AutoOrReview == {"auto", "review"}
Alike == Permutations(TwoWorkers)
=============================================================================
