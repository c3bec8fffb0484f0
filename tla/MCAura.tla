------------------------------- MODULE MCAura -------------------------------
(***************************************************************************)
(* Model checking of block authoring: Alice and Bob of the local preset.   *)
(* A unit of time is a quarter of a slot.                                  *)
(***************************************************************************)
EXTENDS Aura

CONSTANTS alice, bob

MCAuthorities == <<alice, bob>>
NoSkew        == [n \in Node |-> 0]
OneSlotSkew   == [n \in Node |-> IF n = alice THEN 0 ELSE 4]

ASSUME HorizonAssumption == SlotsStayApart
=============================================================================
