---------------------------- MODULE MCNodeService ----------------------------
(***************************************************************************)
(* Model checking of the node's life: every command with every             *)
(* configuration.                                                          *)
(***************************************************************************)
EXTENDS NodeService
=============================================================================
