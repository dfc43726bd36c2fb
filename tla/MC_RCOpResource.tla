-------------------------- MODULE MC_RCOpResource --------------------------
(* Three batch slots and (in the cfgs) four frame geometries: enough for *)
(* a frame that differs from the first one in size or in format, and for *)
(* cnrtMalloc to fail on either plane of any slot.                         *)
EXTENDS RCOpResource

MCBatchSize == 3

=============================================================================
