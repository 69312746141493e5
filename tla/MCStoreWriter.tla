---------------------------- MODULE MCStoreWriter ----------------------------
(***************************************************************************)
(* StoreWriter for TLC.                                                    *)
(***************************************************************************)
EXTENDS StoreWriter
==============================================================================
