---------------------------- MODULE MCPrepareLoop ----------------------------
(***************************************************************************)
(* A small instance of PrepareLoop for TLC.                                *)
(***************************************************************************)
EXTENDS PrepareLoop
=============================================================================
