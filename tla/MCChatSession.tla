--------------------------- MODULE MCChatSession ---------------------------
(* A small instance of ChatSession for TLC: the bounds are in the cfg.     *)
EXTENDS ChatSession
=============================================================================
