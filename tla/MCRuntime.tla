----------------------------- MODULE MCRuntime ------------------------------
(***************************************************************************)
(* Model checking of the runtime: Alice holds the sudo key, as in the      *)
(* development preset; Charlie's account does not exist at genesis.        *)
(***************************************************************************)
EXTENDS Runtime

CONSTANTS alice, bob, charlie

MCEndowment == [a \in AccountId |-> CASE a = alice -> 6 [] a = bob -> 5 [] OTHER -> 0]

(* Transfers by anyone, and by sudo in anyone's name; the key is handed on; *)
(* and a call that fails whoever dispatches it.                            *)
LedgerCalls ==
  UNION {TransferCall,
         [kind : {"sudo_as"}, who : AccountId, call : TransferCall],
         [kind : {"set_key"}, new : {bob}],
         [kind : {"cause_error"}]}

(* Upgrades of every kind, the end of the sudo key in every way, and what   *)
(* fills a block or speaks in another's name.                              *)
UpgradeCalls ==
  LET store   == [kind : {"do_something"}, value : U32]
      keyCall == [kind : {"set_key"}, new : {bob}] \cup [kind : {"remove_key"}]
  IN  UNION {store, RemarkCall, ApplyCall, keyCall,
             [kind : {"set_code"}, version : Versions],
             [kind : {"sudo"}, call : RootCall \cup keyCall],
             [kind : {"sudo_unchecked_weight"}, call : ApplyCall],
             [kind : {"sudo_as"}, who : {bob}, call : store \cup keyCall]}
=============================================================================
