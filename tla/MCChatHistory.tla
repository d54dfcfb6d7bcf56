---------------------------- MODULE MCChatHistory ----------------------------
(***************************************************************************)
(* Instances of ChatHistory for TLC.  Two turns and one clear suffice for  *)
(* a save, a log, an answer and a side question of a cleared turn to meet  *)
(* those of the turn that follows it.                                      *)
(***************************************************************************)
EXTENDS ChatHistory
=============================================================================
