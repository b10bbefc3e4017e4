--------------------------- MODULE MCTrainPipeline ----------------------------
(* TrainPipeline for TLC; the configurations choose sizes and properties.    *)
EXTENDS TrainPipeline, TLC

TrainSymmetry == Permutations(Trains)
=============================================================================
