------------------------ MODULE TemplatePalletProofs ------------------------
(***************************************************************************)
(* The properties of the template pallet, for every set of accounts and    *)
(* every width of the stored integer.                                      *)
(***************************************************************************)
EXTENDS TemplatePallet, TLAPS

(* The inductive invariant.  Types alone are not inductive: that the number *)
(* of increments stays within the range of the stored integer follows from  *)
(* its being the distance between the stored and the announced value.       *)
PalletInv == PalletTypeOK /\ ValueAccountedFor

(* The genesis storage satisfies the invariant. *)
LEMMA PalletInitInv == PalletInit => PalletInv
  BY U32MaxAssumption
  DEF PalletInit, PalletInv, PalletTypeOK, ValueAccountedFor, DispatchResult, U32

(* A rejected call preserves the invariant: it writes the result only. *)
LEMMA RejectInv ==
  ASSUME PalletInv, NEW error \in Error, Reject(error)
  PROVE  PalletInv'
  BY DEF Reject, PalletInv, PalletTypeOK, ValueAccountedFor, DispatchResult

(* do_something preserves the invariant, whoever calls it. *)
LEMMA DoSomethingInv ==
  ASSUME PalletInv, NEW origin \in Origin, NEW value \in U32,
         do_something(origin, value)
  PROVE  PalletInv'
<1>1. CASE origin \in AccountId
  <2>1. /\ something'  = value
        /\ lastEvent'  = [something |-> value, who |-> origin]
        /\ increments' = 0
        /\ result'     = "Ok"
    BY <1>1 DEF do_something
  <2>2. lastEvent' \in Event
    BY <1>1, <2>1 DEF Event
  <2>3. lastEvent' # None
    BY <2>2, NoneAssumption DEF Event, U32
  <2>4. PalletTypeOK'
    BY <2>1, <2>2, U32MaxAssumption DEF PalletTypeOK, DispatchResult, U32
  <2>5. ValueAccountedFor'
    BY <2>1, <2>3 DEF ValueAccountedFor, U32
  <2>6. QED
    BY <2>4, <2>5 DEF PalletInv
<1>2. CASE origin \notin AccountId
  <2>1. Reject("BadOrigin")
    BY <1>2 DEF do_something
  <2>2. QED
    BY <2>1, RejectInv DEF Error
<1>3. QED
  BY <1>1, <1>2

(* cause_error preserves the invariant, whoever calls it. *)
LEMMA CauseErrorInv ==
  ASSUME PalletInv, NEW origin \in Origin, cause_error(origin)
  PROVE  PalletInv'
<1>1. CASE \E error \in Error : Reject(error)
  BY <1>1, RejectInv
<1>2. CASE /\ something \in U32
           /\ something < U32Max
           /\ something'  = something + 1
           /\ increments' = increments + 1
           /\ result'     = "Ok"
           /\ UNCHANGED lastEvent
  <2>1. lastEvent # None
    BY <1>2, NoneAssumption DEF PalletInv, ValueAccountedFor, U32
  <2>2. lastEvent \in Event /\ lastEvent.something \in U32
    BY <2>1 DEF PalletInv, PalletTypeOK, Event
  <2>3. ValueAccountedFor'
    <3>1. something = lastEvent.something + increments
      BY <2>1 DEF PalletInv, ValueAccountedFor
    <3>2. lastEvent.something \in Int /\ increments \in Int
      BY <2>2, U32MaxAssumption DEF PalletInv, PalletTypeOK, U32
    <3>3. something' = lastEvent'.something + increments' /\ lastEvent' # None
      BY <1>2, <2>1, <3>1, <3>2
    <3>4. QED
      BY <3>3 DEF ValueAccountedFor
  <2>4. increments' \in U32
    BY <1>2, <2>1, <2>2, U32MaxAssumption
    DEF PalletInv, PalletTypeOK, ValueAccountedFor, U32
  <2>5. something' \in U32
    BY <1>2, U32MaxAssumption DEF U32
  <2>6. QED
    BY <1>2, <2>3, <2>4, <2>5 DEF PalletInv, PalletTypeOK, DispatchResult
<1>3. QED
  BY <1>1, <1>2 DEF cause_error, Error

(* The invariant holds in every reachable state. *)
THEOREM PalletInvariant == PalletSpec => []PalletInv
<1>1. PalletInv /\ [PalletNext]_palletVars => PalletInv'
  <2>1. SUFFICES ASSUME PalletInv, [PalletNext]_palletVars PROVE PalletInv'
    OBVIOUS
  <2>2. CASE PalletNext
    BY <2>1, <2>2, DoSomethingInv, CauseErrorInv DEF PalletNext
  <2>3. CASE UNCHANGED palletVars
    BY <2>1, <2>3 DEF palletVars, PalletInv, PalletTypeOK, ValueAccountedFor
  <2>4. QED
    BY <2>1, <2>2, <2>3
<1>2. QED
  BY PalletInitInv, <1>1, PTL DEF PalletSpec

(* Storage, events and results keep their types: in particular the stored   *)
(* integer never leaves the range of a u32.                                 *)
THEOREM PalletTypeCorrect == PalletSpec => []PalletTypeOK
  BY PalletInvariant, PTL DEF PalletInv

(* The stored value is always the last announced one plus the increments    *)
(* that returned Ok since.                                                  *)
THEOREM PalletValueAccountedFor == PalletSpec => []ValueAccountedFor
  BY PalletInvariant, PTL DEF PalletInv

(* The stored value changes only by one increment or to an announced value. *)
THEOREM PalletNoSilentDecrease == PalletSpec => NoSilentDecrease
<1> DEFINE Step == something # None /\ something' # something
                     => \/ something' = something + 1
                        \/ /\ lastEvent' # None
                           /\ something' = lastEvent'.something
                           /\ increments' = 0
<1>1. ASSUME NEW origin \in Origin, NEW value \in U32, do_something(origin, value)
      PROVE  Step
  <2>1. CASE origin \in AccountId
    <3>1. lastEvent' = [something |-> value, who |-> origin]
      BY <1>1, <2>1 DEF do_something
    <3>2. lastEvent' # None
      BY <2>1, <3>1, NoneAssumption DEF U32
    <3>3. QED
      BY <1>1, <2>1, <3>1, <3>2 DEF do_something
  <2>2. CASE origin \notin AccountId
    BY <1>1, <2>2 DEF do_something, Reject
  <2>3. QED
    BY <2>1, <2>2
<1>2. ASSUME NEW origin \in Origin, cause_error(origin)
      PROVE  Step
  BY <1>2 DEF cause_error, Reject
<1>3. [PalletNext]_palletVars => [Step]_palletVars
  BY <1>1, <1>2 DEF PalletNext
<1>4. QED
  BY <1>3, PTL DEF PalletSpec, NoSilentDecrease
=============================================================================
