--------------------------- MODULE TemplatePallet ---------------------------
(***************************************************************************)
(* The template pallet (pallets/template/src/lib.rs): one optional u32 in  *)
(* storage, a dispatchable that sets it and one that increments it.        *)
(*                                                                         *)
(* Anyone may dispatch a call from any origin.  The runtime restricts who  *)
(* reaches the pallet (module Runtime); what is stated here holds whatever *)
(* the callers do.                                                         *)
(***************************************************************************)
EXTENDS Integers

CONSTANTS
  AccountId,   \* accounts that can sign an extrinsic
  Root,        \* RawOrigin::Root
  Unsigned,    \* RawOrigin::None
  None,        \* Option::None, for the storage item and for "no event yet"
  U32Max       \* u32::MAX; the runs scale it down

ASSUME U32MaxAssumption == U32Max \in Nat
ASSUME OriginAssumption == /\ Root \notin AccountId
                           /\ Unsigned \notin AccountId
ASSUME NoneAssumption ==
  /\ None \notin 0..U32Max
  /\ None \notin [something : 0..U32Max, who : AccountId]

VARIABLES
  something,   \* the storage item Something
  lastEvent,   \* the last SomethingStored deposited, None before the first
  increments,  \* history: Ok results of cause_error since lastEvent
  result       \* the DispatchResult of the last call

palletVars == <<something, lastEvent, increments, result>>

U32    == 0..U32Max
Origin == AccountId \cup {Root, Unsigned}
Event  == [something : U32, who : AccountId]
Error  == {"BadOrigin", "NoneValue", "StorageOverflow"}
DispatchResult == {"Ok"} \cup Error

-----------------------------------------------------------------------------

PalletInit ==
  /\ something  = None
  /\ lastEvent  = None
  /\ increments = 0
  /\ result     = "Ok"

(* Fail with an error: nothing has been written. *)
Reject(error) ==
  /\ result' = error
  /\ UNCHANGED <<something, lastEvent, increments>>

(* Mutant: the event is forgotten. *)
do_something_NoEvent(origin, value) ==
  \/ /\ origin \in AccountId
     /\ something' = value
     /\ result'    = "Ok"
     /\ UNCHANGED <<lastEvent, increments>>
  \/ /\ origin \notin AccountId
     /\ Reject("BadOrigin")

(* Put the value, then deposit the event that names it and its setter. *)
do_something(origin, value) ==
  \/ /\ origin \in AccountId
     /\ something'  = value
     /\ lastEvent'  = [something |-> value, who |-> origin]
     /\ increments' = 0
     /\ result'     = "Ok"
  \/ /\ origin \notin AccountId
     /\ Reject("BadOrigin")

(* Mutant: wrapping_add. *)
cause_error_Wraps(origin) ==
  \/ /\ origin \in AccountId
     /\ something \in U32
     /\ something'  = (something + 1) % (U32Max + 1)
     /\ increments' = increments + 1
     /\ result'     = "Ok"
     /\ UNCHANGED lastEvent
  \/ /\ origin \notin AccountId
     /\ Reject("BadOrigin")
  \/ /\ origin \in AccountId
     /\ something = None
     /\ Reject("NoneValue")

(* Mutant: unwrap_or_default, an increment starts from nothing. *)
cause_error_OrDefault(origin) ==
  LET old == IF something = None THEN 0 ELSE something IN
  /\ origin \in AccountId
  /\ old < U32Max
  /\ something'  = old + 1
  /\ increments' = increments + 1
  /\ result'     = "Ok"
  /\ UNCHANGED lastEvent

(* checked_add: the increment fails at the top of the range. *)
cause_error(origin) ==
  \/ /\ origin \in AccountId
     /\ something \in U32
     /\ something < U32Max
     /\ something'  = something + 1
     /\ increments' = increments + 1
     /\ result'     = "Ok"
     /\ UNCHANGED lastEvent
  \/ /\ origin \notin AccountId
     /\ Reject("BadOrigin")
  \/ /\ origin \in AccountId
     /\ something = None
     /\ Reject("NoneValue")
  \/ /\ origin \in AccountId
     /\ something = U32Max
     /\ Reject("StorageOverflow")

PalletNext ==
  \E origin \in Origin :
    \/ \E value \in U32 : do_something(origin, value)
    \/ cause_error(origin)

PalletSpec == PalletInit /\ [][PalletNext]_palletVars

-----------------------------------------------------------------------------

(* Type invariant of the pallet's storage, events and results. *)
PalletTypeOK ==
  /\ something \in U32 \cup {None}
  /\ lastEvent \in Event \cup {None}
  /\ increments \in U32
  /\ result \in DispatchResult

(* The value in storage is the one the last SomethingStored event announced *)
(* plus one for every cause_error that returned Ok since: increments are    *)
(* never lost, never wrap round at u32::MAX and never start from nothing,   *)
(* so a client that watches events and results can rebuild the storage.     *)
ValueAccountedFor ==
  IF lastEvent = None
    THEN something = None /\ increments = 0
    ELSE something = lastEvent.something + increments

(* The value decreases only when a signed do_something stores the lower     *)
(* value and announces it: no increment wraps and no failed call resets.    *)
NoSilentDecrease ==
  [][something # None /\ something' # something
       => \/ something' = something + 1
          \/ /\ lastEvent' # None
             /\ something' = lastEvent'.something
             /\ increments' = 0]_palletVars
=============================================================================
