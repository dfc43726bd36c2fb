------------------------- MODULE MC_IOBatchingStage -------------------------
(* Batches of two, six frames (three batches), two workers, so *)
(* that frames of consecutive batches and of the same batch overlap.      *)
EXTENDS IOBatchingStage

MCBatchSize == 2
MCMaxFrames == 6
MCNWorkers == 2
=============================================================================
