-------------------------- MODULE MCTemplatePallet --------------------------
(***************************************************************************)
(* Model checking of the template pallet on its own: three accounts and    *)
(* integers of three bits, so that runs of increments reach the top of the *)
(* range from every announced value.                                       *)
(***************************************************************************)
EXTENDS TemplatePallet

MCU32Max == 2^3 - 1
=============================================================================
