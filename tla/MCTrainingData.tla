--------------------------- MODULE MCTrainingData ---------------------------
(* Instances of TrainingData for TLC: two batches that share the labels. *)
EXTENDS TrainingData

TwoBatches == <<<<"v1", "v2">>, <<"v3">>>>
=============================================================================
