------------------------------ MODULE MCGrandpa ------------------------------
(***************************************************************************)
(* Model checking of finality: Alice and Bob of the local preset, and a    *)
(* full node without a key.                                                *)
(***************************************************************************)
EXTENDS Grandpa
=============================================================================
