--------------------------- MODULE MC_Inferencer ---------------------------
(* Model-checking instance of Inferencer: two producer threads, batches  *)
(* of two, interval 2, up to four frames per thread, so that full and    *)
(* partial batches, dropped frames and EOS on a partial batch all occur.  *)
EXTENDS Inferencer

MCBatchSize == 2
MCInterval == 2
MCMaxFrames == 4
=============================================================================
