---------------------------- MODULE MC_Displayer ----------------------------
(* Model-checking instance of Displayer: three frames per session, so that *)
(* sessions with and without show, failed Opens and reopened sessions all *)
(* occur.                                                                  *)
EXTENDS Displayer

MCMaxFrames == 3
=============================================================================
