------------------------------- MODULE Runtime -------------------------------
(***************************************************************************)
(* The runtime's state transition function: signed extrinsics pass the     *)
(* transaction extensions of TxExtension in order, are dispatched to the   *)
(* pallets, and pay their fee; an authorized upgrade may also be applied   *)
(* unsigned; a block ends and the next one may run a new runtime.          *)
(*                                                                         *)
(* Any extrinsic anyone may have signed is offered to any block, any       *)
(* number of times and in any order; one that is refused leaves no trace.  *)
(* Extrinsics are immortal and carry no tip; each has the same weight and  *)
(* the same fee.  Every code that is offered is a runtime, and named by    *)
(* its spec_version.                                                       *)
(***************************************************************************)
EXTENDS TemplatePallet, FiniteSets, Sequences, FiniteSetsExt

CONSTANTS
  ExistentialDeposit,  \* EXISTENTIAL_DEPOSIT
  Fee,                 \* what an extrinsic pays
  Endowment,           \* [AccountId -> Nat]: balances at genesis
  SudoKey,             \* the sudo key at genesis
  Version,             \* spec_version at genesis
  Versions,            \* spec_versions of the runtimes that may be deployed
  MaxBlock,            \* RuntimeBlockWeights: extrinsics that fill a block
  MaxNormal,           \* NORMAL_DISPATCH_RATIO of them
  Mandatory,           \* the weight of the inherents and of the hooks
  MaxLength,           \* RuntimeBlockLength
  MaxNormalLength,     \* NORMAL_DISPATCH_RATIO of it
  MandatoryLength,     \* the length of the inherents
  CodeLength,          \* the length of an extrinsic that carries code
  Lengths,             \* lengths of remarks; all other extrinsics have length 1
  Amounts,             \* amounts transferred
  Offered,             \* the calls that accounts sign
  MaxNonce             \* bound: extrinsics of one account

ASSUME AccountsAssumption ==
  /\ IsFiniteSet(AccountId)
  /\ SudoKey \in AccountId
  /\ None \notin AccountId
ASSUME BalancesAssumption ==
  /\ ExistentialDeposit \in Nat \ {0}
  /\ {Fee, MaxNonce} \subseteq Nat
  /\ Amounts \subseteq Nat \ {0}
  /\ Endowment \in [AccountId -> Nat]
  /\ \A a \in AccountId : Endowment[a] = 0 \/ Endowment[a] >= ExistentialDeposit
ASSUME WeightsAssumption ==
  /\ {MaxBlock, MaxNormal, Mandatory} \subseteq Nat
  /\ MaxNormal <= MaxBlock
ASSUME LengthsAssumption ==
  /\ {MaxLength, MaxNormalLength, MandatoryLength, CodeLength} \cup Lengths \subseteq Nat
  /\ MandatoryLength <= MaxNormalLength
  /\ MaxNormalLength <= MaxLength
ASSUME VersionsAssumption == Versions \subseteq Nat /\ Version \in Versions

VARIABLES
  balance,      \* [AccountId -> free balance]; an account with 0 is dead
  nonce,        \* [AccountId -> frame_system's nonce], 0 for a dead account
  issuance,     \* TotalIssuance of pallet_balances
  sudoKey,      \* pallet_sudo's Key, None once it is removed
  version,      \* spec_version of the runtime that executes this block
  nextVersion,  \* spec_version of the code in storage
  authorized,   \* AuthorizedUpgrade of frame_system
  weight,       \* [DispatchClass -> weight used in this block]
  length,       \* AllExtrinsicsLen of this block
  applied,      \* history: [AccountId -> nonces of the extrinsics applied in
                \* its lifetime]
  checked       \* history: the code in storage was stored against a check of
                \* its version

ledgerVars == <<balance, nonce, issuance, applied>>
storedVars == <<nextVersion, checked>>
blockVars  == <<weight, length>>
vars == <<palletVars, ledgerVars, sudoKey, version, storedVars, authorized, blockVars>>

DispatchClass == {"normal", "operational", "mandatory"}
emptyBlock    == [c \in DispatchClass |-> IF c = "mandatory" THEN Mandatory ELSE 0]

TemplateCall == [kind : {"do_something"}, value : U32] \cup [kind : {"cause_error"}]
TransferCall == [kind : {"transfer_allow_death", "transfer_keep_alive"},
                 dest : AccountId, amount : Amounts]
RemarkCall   == [kind : {"remark"}, length : Lengths]
SetCodeCall  == [kind : {"set_code", "set_code_without_checks"}, version : Versions]
RootCall     == SetCodeCall
                  \cup [kind : {"authorize_upgrade", "authorize_upgrade_without_checks"},
                        version : Versions]
ApplyCall    == [kind : {"apply_authorized_upgrade"}, version : Versions]
KeyCall      == [kind : {"set_key"}, new : AccountId] \cup [kind : {"remove_key"}]
PlainCall    == UNION {TemplateCall, TransferCall, RemarkCall, RootCall, ApplyCall, KeyCall}
SudoCall     == [kind : {"sudo", "sudo_unchecked_weight"}, call : PlainCall]
                  \cup [kind : {"sudo_as"}, who : AccountId, call : PlainCall]
RuntimeCall  == PlainCall \cup SudoCall
Extrinsic    == [signer : AccountId, nonce : 0..MaxNonce, version : Versions,
                 call : Offered]

CodeUpgradeAuthorization == [version : Versions, check : BOOLEAN]

ASSUME OfferedAssumption == Offered \subseteq RuntimeCall

Total(funds) == MapThenSumSet(LAMBDA a : funds[a], AccountId)

-----------------------------------------------------------------------------

Init ==
  /\ PalletInit
  /\ balance = Endowment
  /\ nonce = [a \in AccountId |-> 0]
  /\ issuance = Total(Endowment)
  /\ sudoKey = SudoKey
  /\ version = Version
  /\ nextVersion = Version
  /\ authorized = None
  /\ weight = emptyBlock
  /\ length = MandatoryLength
  /\ applied = [a \in AccountId |-> <<>>]
  /\ checked = TRUE

-----------------------------------------------------------------------------
(* Transaction extensions.                                                 *)

(* A sudo call has the class, and about the length, of what it carries. *)
Carried(call) == IF call \in SudoCall THEN call.call ELSE call

Class(call) ==
  IF Carried(call) \in RootCall \cup ApplyCall THEN "operational" ELSE "normal"

Length(call) ==
  LET c == Carried(call) IN
  CASE c \in SetCodeCall \cup ApplyCall -> CodeLength
    [] c \in RemarkCall                 -> c.length
    [] OTHER                            -> 1

Reserved(class) == IF class = "operational" THEN MaxBlock - MaxNormal ELSE 0
MaxTotal(class) == IF class = "operational" THEN MaxBlock ELSE MaxNormal

(* Mutant: BlockLength::max, one limit for all classes. *)
LengthLimit_OneForAll(class) == MaxLength

LengthLimit(class) == IF class = "operational" THEN MaxLength ELSE MaxNormalLength

CheckSpecVersion(tx) == tx.version = version

CheckNonce(tx) ==
  /\ balance[tx.signer] > 0
  /\ tx.nonce = nonce[tx.signer]

(* The block has room for the length; the class has room for the weight,   *)
(* and so has the block or the class's reserve.                            *)
CheckWeight(call) ==
  LET class == Class(call)
      used  == weight[class] + 1
      total == weight["normal"] + weight["operational"] + weight["mandatory"] + 1
  IN  /\ length + Length(call) <= LengthLimit(class)
      /\ used <= MaxTotal(class)
      /\ total <= MaxBlock \/ used <= Reserved(class)

(* The fee is withdrawn with Preservation::Preserve. *)
ChargeTransactionPayment(tx) == balance[tx.signer] - Fee >= ExistentialDeposit

(* Mutant: an extension left out of the tuple. *)
Valid_NoCheckNonce(tx) ==
  CheckSpecVersion(tx) /\ CheckWeight(tx.call) /\ ChargeTransactionPayment(tx)

Valid(tx) ==
  /\ CheckSpecVersion(tx)
  /\ CheckNonce(tx)
  /\ CheckWeight(tx.call)
  /\ ChargeTransactionPayment(tx)

-----------------------------------------------------------------------------
(* Dispatch.                                                               *)

(* Mutant: map_or(true, ..), without a key anyone passes. *)
ensure_sudo_NoKey(origin) == origin = Root \/ sudoKey \in {origin, None}

(* Root, or the key while there is one. *)
ensure_sudo(origin) == origin = Root \/ origin = sudoKey

(* What is dispatched, and from which origin, once sudo has let it through. *)
Dispatched(tx) ==
  CASE tx.call.kind \in {"sudo", "sudo_unchecked_weight"}
         -> [origin |-> Root, call |-> tx.call.call]
    [] tx.call.kind = "sudo_as"
         -> [origin |-> tx.call.who, call |-> tx.call.call]
    [] OTHER
         -> [origin |-> tx.signer, call |-> tx.call]

(* Mutant: sudo does not look at the key. *)
IsDispatched_Anyone(tx) == tx \in Extrinsic

(* sudo refuses everyone but the key: the inner call is not dispatched. *)
IsDispatched(tx) == tx.call \in SudoCall => ensure_sudo(tx.signer)

(* The code is the one whose hash has been authorized. *)
IsAuthorized(call) ==
  call \in ApplyCall /\ authorized # None /\ authorized.version = call.version

(* Calls that return Pays::No: sudo's, and one that spends an authorization. *)
PaysNo(tx) ==
  /\ IsDispatched(tx)
  /\ \/ tx.call \in SudoCall
     \/ tx.call \in KeyCall /\ ensure_sudo(tx.signer)
     \/ IsAuthorized(tx.call)

CanTransfer(funds, from, call) ==
  /\ from \in AccountId
  /\ funds[from] >= call.amount
  /\ from # call.dest => funds[call.dest] + call.amount >= ExistentialDeposit
  /\ call.kind = "transfer_keep_alive" /\ from # call.dest
       => funds[from] - call.amount >= ExistentialDeposit

(* Mutants: dust stays, and a whole deposit is removed instead of the rest. *)
Dust_Deposit(funds, from, call) ==
  LET rest == funds[from] - call.amount
  IN  IF from # call.dest /\ rest < ExistentialDeposit THEN ExistentialDeposit ELSE 0
Dust_Kept(funds, from, call) == 0

(* What is left of the sender's balance if it is dust, and removed. *)
Dust(funds, from, call) ==
  LET rest == funds[from] - call.amount
  IN  IF from # call.dest /\ rest < ExistentialDeposit THEN rest ELSE 0

(* Mutant: a dust handler that drops nothing. *)
Burned_NotDust(fee, dust) == fee

(* FungibleAdapter<Balances, ()> and DustRemoval = (): nobody is given fees *)
(* and dust.                                                               *)
Burned(fee, dust) == fee + dust

Transfer(funds, from, call) ==
  IF from = call.dest
    THEN funds
    ELSE [funds EXCEPT ![from] = @ - call.amount - Dust(funds, from, call),
                       ![call.dest] = @ + call.amount]

Transfers(funds, tx) ==
  /\ IsDispatched(tx)
  /\ Dispatched(tx).call \in TransferCall
  /\ CanTransfer(funds, Dispatched(tx).origin, Dispatched(tx).call)

DispatchTemplate(tx) ==
  LET d == Dispatched(tx) IN
  \/ /\ IsDispatched(tx)
     /\ d.call.kind = "do_something"
     /\ do_something(d.origin, d.call.value)
  \/ /\ IsDispatched(tx)
     /\ d.call.kind = "cause_error"
     /\ cause_error(d.origin)
  \/ /\ ~ (IsDispatched(tx) /\ d.call \in TemplateCall)
     /\ UNCHANGED palletVars

(* Put the code, unless its spec_version is to be checked against the      *)
(* running runtime's and is not above it.                                  *)
StoreCode(v, check) ==
  IF check => v > version
    THEN nextVersion' = v /\ checked' = check
    ELSE UNCHANGED storedVars

(* Mutant: the version was good when the upgrade was authorized. *)
apply_authorized_upgrade_Trusting(call) ==
  /\ authorized' = None
  /\ nextVersion' = call.version
  /\ checked' = authorized.check

(* The authorization is spent, also for code whose version is refused. *)
apply_authorized_upgrade(call) ==
  /\ authorized' = None
  /\ StoreCode(call.version, authorized.check)

DispatchSystem(tx) ==
  LET d      == Dispatched(tx)
      isRoot == IsDispatched(tx) /\ d.call \in RootCall /\ d.origin = Root
      spends == IsDispatched(tx) /\ IsAuthorized(d.call)
  IN
  \/ /\ isRoot
     /\ d.call \in SetCodeCall
     /\ StoreCode(d.call.version, d.call.kind = "set_code")
     /\ UNCHANGED authorized
  \/ /\ isRoot
     /\ d.call \notin SetCodeCall
     /\ authorized' = [version |-> d.call.version,
                       check   |-> d.call.kind = "authorize_upgrade"]
     /\ UNCHANGED storedVars
  \/ /\ spends
     /\ apply_authorized_upgrade(d.call)
  \/ /\ ~ (isRoot \/ spends)
     /\ UNCHANGED <<authorized, storedVars>>

DispatchSudo(tx) ==
  LET d == Dispatched(tx) IN
  sudoKey' = IF IsDispatched(tx) /\ d.call \in KeyCall /\ ensure_sudo(d.origin)
               THEN IF d.call.kind = "set_key" THEN d.call.new ELSE None
               ELSE sudoKey

(* The signer's nonce moves on whether or not the dispatch succeeded; an    *)
(* account that has died loses its nonce.                                  *)
AccountsAfter(tx) ==
  /\ nonce' = [a \in AccountId |->
                 CASE balance'[a] = 0 -> 0
                   [] balance'[a] > 0 /\ a = tx.signer -> nonce[a] + 1
                   [] OTHER -> nonce[a]]
  /\ applied' = [a \in AccountId |->
                   CASE balance'[a] = 0 -> <<>>
                     [] balance'[a] > 0 /\ a = tx.signer
                          -> Append(applied[a], tx.nonce)
                     [] OTHER -> applied[a]]

UseBlock(call) ==
  /\ weight' = [weight EXCEPT ![Class(call)] = @ + 1]
  /\ length' = length + Length(call)

(* The fee of a call that returns Pays::No is refunded, unless the call has *)
(* emptied the account.  What is not refunded is burned.                   *)
apply_extrinsic(tx) ==
  LET s        == tx.signer
      d        == Dispatched(tx)
      charged  == [balance EXCEPT ![s] = @ - Fee]
      moves    == Transfers(charged, tx)
      moved    == IF moves THEN Transfer(charged, d.origin, d.call) ELSE charged
      dust     == IF moves THEN Dust(charged, d.origin, d.call) ELSE 0
      refund   == IF PaysNo(tx) /\ moved[s] > 0 THEN Fee ELSE 0
  IN
  /\ Valid(tx)
  /\ DispatchTemplate(tx)
  /\ DispatchSystem(tx)
  /\ DispatchSudo(tx)
  /\ balance' = [moved EXCEPT ![s] = @ + refund]
  /\ issuance' = issuance - Burned(Fee - refund, dust)
  /\ AccountsAfter(tx)
  /\ UseBlock(tx.call)
  /\ UNCHANGED version

(* A bare extrinsic: frame_system's ValidateUnsigned lets through code that *)
(* has been authorized, of no account and without a fee.                   *)
apply_bare(call) ==
  /\ IsAuthorized(call)
  /\ CheckWeight(call)
  /\ apply_authorized_upgrade(call)
  /\ UseBlock(call)
  /\ UNCHANGED <<palletVars, ledgerVars, sudoKey, version>>

(* finalize_block, and initialize_block of the next one by the code in     *)
(* storage.                                                                *)
NextBlock ==
  /\ version' = nextVersion
  /\ weight' = emptyBlock
  /\ length' = MandatoryLength
  /\ UNCHANGED <<palletVars, ledgerVars, sudoKey, storedVars, authorized>>

Next ==
  \/ \E tx \in Extrinsic : nonce[tx.signer] < MaxNonce /\ apply_extrinsic(tx)
  \/ \E call \in ApplyCall \cap Offered : apply_bare(call)
  \/ NextBlock

Spec == Init /\ [][Next]_vars

-----------------------------------------------------------------------------
(* Properties.                                                             *)

(* Type invariant of the runtime's storage and of the history. *)
RuntimeTypeOK ==
  /\ PalletTypeOK
  /\ balance \in [AccountId -> Nat]
  /\ nonce \in [AccountId -> 0..MaxNonce]
  /\ issuance \in Nat
  /\ sudoKey \in AccountId \cup {None}
  /\ {version, nextVersion} \subseteq Versions
  /\ authorized \in CodeUpgradeAuthorization \cup {None}
  /\ weight \in [DispatchClass -> Nat]
  /\ length \in Nat
  /\ applied \in [AccountId -> Seq(0..MaxNonce)]
  /\ checked \in BOOLEAN

(* The recorded issuance is the sum of the balances: nothing is minted, and *)
(* what fees, refunds and dust take from accounts is exactly what is burned.*)
IssuanceConserved == issuance = Total(balance)

(* No sequence of fees, refunds and transfers leaves an account with less   *)
(* than the existential deposit.                                           *)
NoDust == \A a \in AccountId : balance[a] = 0 \/ balance[a] >= ExistentialDeposit

(* An extrinsic is applied at most once in its signer's lifetime, and a     *)
(* signer's extrinsics in the order of their nonces, none skipped: also     *)
(* across failed dispatches, blocks, upgrades and acts of sudo.  (When an   *)
(* account dies its nonce is lost, and with it this protection.)           *)
NoReplay ==
  \A a \in AccountId :
    /\ Len(applied[a]) = nonce[a]
    /\ \A i \in 1..nonce[a] : applied[a][i] = i - 1

(* However many extrinsics of users fill a block, with however long         *)
(* remarks, the first operational one still finds room in it: what is       *)
(* reserved of the block's weight and length (configs/mod.rs) is left to    *)
(* sudo's upgrades, if the code fits in the part of the length.             *)
UpgradeAlwaysFits ==
  weight["operational"] = 0 /\ MaxNormal < MaxBlock =>
    \A call \in Offered :
      Class(call) = "operational" /\ Length(call) <= MaxLength - MaxNormalLength
        => CheckWeight(call)

(* A block is executed by a lower version than the one before it only if    *)
(* sudo has waived the check: not because an upgrade that was authorized    *)
(* while its version was good is applied after a later one, nor because     *)
(* several codes are stored in one block.                                  *)
NoStaleUpgrade == [][version' < version => ~ checked]_vars

SudoActs == sudoKey # None /\ applied'[sudoKey] # applied[sudoKey]

(* Anyone's apply_authorized_upgrade spends an authorization for its code. *)
Spends ==
  /\ authorized # None
  /\ authorized' = None
  /\ nextVersion' \in {nextVersion, authorized.version}

(* The key moves, an upgrade is authorized, and the template pallet         *)
(* announces another's name only by an extrinsic of whoever holds the sudo  *)
(* key then; anyone else stores no code but what has been authorized, and   *)
(* that once.  So nobody can any more once the key has been handed on or    *)
(* removed, but for an upgrade that was authorized before.                  *)
OnlySudoActsForOthers ==
  [][/\ sudoKey' # sudoKey => SudoActs
     /\ <<authorized, nextVersion>>' # <<authorized, nextVersion>> => SudoActs \/ Spends
     /\ lastEvent' # lastEvent
          => SudoActs \/ applied'[lastEvent'.who] # applied[lastEvent'.who]]_vars

(* Fees, transfers and dust are taken from the signer of the extrinsic that *)
(* is applied, and from another account only by whoever holds the sudo key, *)
(* also after it has been handed on.                                       *)
NobodyPaysForAnother ==
  [][\A a, s \in AccountId :
       balance'[a] < balance[a] /\ Len(applied'[s]) > Len(applied[s])
         => s \in {a, sudoKey}]_vars
=============================================================================
