--------------------------- MODULE MC_IOResource ---------------------------
(* Two engines, and models of one or two inputs and one or two outputs, *)
(* so that models with as many inputs as outputs and models with more of *)
(* one than of the other are both explored.                                *)
EXTENDS IOResource

MCMaxTensors == 2

=============================================================================
