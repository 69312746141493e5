------------------------------ MODULE MCChats ------------------------------
(* Small instances of Chats for TLC: the values are in the cfg.            *)
EXTENDS Chats
=============================================================================
