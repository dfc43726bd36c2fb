---------------------------- MODULE MC_RtspSink ----------------------------
(* Three channels, so that channel 0 (the mosaic key) and two other      *)
(* channels meet; three frames each, so a channel looks its context up   *)
(* after creating it, and Close and a reopening can fall between frames. *)
EXTENDS RtspSink

MCNChans == 3
MCMaxFrames == 3

=============================================================================
