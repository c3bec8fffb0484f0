---------------------------- MODULE RuntimeProofs ----------------------------
(***************************************************************************)
(* What is proved of the runtime: the template pallet's accounting of its  *)
(* value holds in it; no extrinsic mints, leaves dust or is replayed;      *)
(* users' extrinsics never keep an upgrade out of a block, and a checked   *)
(* upgrade never goes back; and only the sudo key acts for others, with    *)
(* their money or in their name.                                           *)
(***************************************************************************)
EXTENDS Runtime, TemplatePalletProofs, FiniteSetTheorems, SequenceTheorems

(* What reaches a pallet comes from a signed or the root origin, and is a   *)
(* call that carries no other.                                             *)
LEMMA DispatchedIsTyped ==
  ASSUME NEW tx \in Extrinsic
  PROVE  /\ Dispatched(tx).origin \in AccountId \cup {Root}
         /\ Dispatched(tx).call \in PlainCall
<1>1. tx.signer \in AccountId /\ tx.call \in PlainCall \cup SudoCall
  BY OfferedAssumption DEF Extrinsic, RuntimeCall
<1>2. CASE tx.call \in PlainCall
  <2>1. tx.call.kind \notin {"sudo", "sudo_unchecked_weight", "sudo_as"}
    BY <1>2 DEF PlainCall, TemplateCall, TransferCall, RemarkCall, RootCall,
                SetCodeCall, ApplyCall, KeyCall
  <2>2. Dispatched(tx) = [origin |-> tx.signer, call |-> tx.call]
    BY <2>1 DEF Dispatched
  <2>3. QED
    BY <1>1, <1>2, <2>2
<1>3. CASE tx.call \in [kind : {"sudo", "sudo_unchecked_weight"}, call : PlainCall]
  <2>1. tx.call.kind \in {"sudo", "sudo_unchecked_weight"} /\ tx.call.call \in PlainCall
    BY <1>3
  <2>2. Dispatched(tx) = [origin |-> Root, call |-> tx.call.call]
    BY <2>1 DEF Dispatched
  <2>3. QED
    BY <2>1, <2>2
<1>4. CASE tx.call \in [kind : {"sudo_as"}, who : AccountId, call : PlainCall]
  <2>1. /\ tx.call.kind = "sudo_as"
        /\ tx.call.who \in AccountId /\ tx.call.call \in PlainCall
    BY <1>4
  <2>2. Dispatched(tx) = [origin |-> tx.call.who, call |-> tx.call.call]
    BY <2>1 DEF Dispatched
  <2>3. QED
    BY <2>1, <2>2
<1>5. QED
  BY <1>1, <1>2, <1>3, <1>4 DEF SudoCall

LEMMA StoredValueIsU32 ==
  ASSUME NEW call \in PlainCall, call.kind = "do_something"
  PROVE  call.value \in U32
  BY DEF PlainCall, TemplateCall, TransferCall, RemarkCall, RootCall,
         SetCodeCall, ApplyCall, KeyCall

(* Every step of the runtime is a call of the pallet or none of its         *)
(* business, so that what the pallet promises holds in the runtime.        *)
LEMMA RuntimeRefinesTemplate == Spec => PalletSpec
<1>1. Init => PalletInit
  BY DEF Init
<1>2. ASSUME NEW tx \in Extrinsic, apply_extrinsic(tx)
      PROVE  [PalletNext]_palletVars
  <2>1. DispatchTemplate(tx)
    BY <1>2 DEF apply_extrinsic
  <2>2. QED
    BY <2>1, DispatchedIsTyped, StoredValueIsU32 DEF DispatchTemplate, PalletNext, Origin
<1>3. ASSUME NEW call, apply_bare(call)
      PROVE  [PalletNext]_palletVars
  BY <1>3 DEF apply_bare
<1>4. ASSUME NextBlock
      PROVE  [PalletNext]_palletVars
  BY <1>4 DEF NextBlock
<1>5. [Next]_vars => [PalletNext]_palletVars
  BY <1>2, <1>3, <1>4 DEF Next, vars
<1>6. QED
  BY <1>1, <1>5, PTL DEF Spec, PalletSpec

(* The stored value is the last announced one plus the increments since,    *)
(* whatever calls are signed, and whatever sudo does in anyone's name.     *)
THEOREM RuntimeValueAccountedFor == Spec => []ValueAccountedFor
  BY RuntimeRefinesTemplate, PalletValueAccountedFor, PTL

-----------------------------------------------------------------------------
(* Sums over finite sets.  Total is a recursive function over the sets of   *)
(* accounts; that it is defined, and what it computes, is shown by taking a *)
(* smallest set for which it would not.                                    *)

(* A family of subsets of a finite set has a smallest member. *)
LEMMA SmallestSubset ==
  ASSUME NEW S, IsFiniteSet(S), NEW T \in SUBSET SUBSET S, T # {}
  PROVE  \E s \in T : \A t \in T : t \subseteq s => t = s
<1>1. IsWellFoundedOn(StrictSubsetOrdering(S), SUBSET S)
  BY FS_StrictSubsetOrderingWellFounded, FS_FiniteSubsetsOfFinite
<1>2. \E s \in T : \A t \in T : <<t, s>> \notin StrictSubsetOrdering(S)
  BY <1>1, WFMin, Zenon
<1>3. QED
  BY <1>2 DEF StrictSubsetOrdering

(* What a fold takes out of a set first. *)
Pick(s) == CHOOSE a \in s : TRUE

(* f sums funds over the subsets of S. *)
IsSum(f, funds, S) ==
  f = [s \in SUBSET S |-> IF s = {} THEN 0 ELSE funds[Pick(s)] + f[s \ {Pick(s)}]]

(* The model's total is the last value of such a sum. *)
LEMMA TotalIsSum ==
  ASSUME NEW funds
  PROVE  Total(funds) = (CHOOSE f : IsSum(f, funds, AccountId))[AccountId]
  BY DEF Total, MapThenSumSet, MapThenFoldSet, IsSum, Pick

LEMMA PickMember ==
  ASSUME NEW s, s # {}
  PROVE  Pick(s) \in s
  BY DEF Pick

LEMMA SumStep ==
  ASSUME NEW f, NEW funds, NEW S, IsSum(f, funds, S)
  PROVE  /\ f[{}] = 0
         /\ \A s \in SUBSET S : s # {} => f[s] = funds[Pick(s)] + f[s \ {Pick(s)}]
<1>1. f = [t \in SUBSET S |-> IF t = {} THEN 0 ELSE funds[Pick(t)] + f[t \ {Pick(t)}]]
  BY DEF IsSum
<1>2. ASSUME NEW s \in SUBSET S
      PROVE  f[s] = IF s = {} THEN 0 ELSE funds[Pick(s)] + f[s \ {Pick(s)}]
  BY <1>1, Zenon
<1>3. QED
  BY <1>2

(* Sums over a set and over a part of it agree on the part. *)
LEMMA SumsAgree ==
  ASSUME NEW funds, NEW S, IsFiniteSet(S), NEW T \in SUBSET S,
         NEW f, IsSum(f, funds, S), NEW g, IsSum(g, funds, T)
  PROVE  \A s \in SUBSET T : f[s] = g[s]
<1> DEFINE differ == {s \in SUBSET T : f[s] # g[s]}
<1>1. SUFFICES ASSUME differ # {} PROVE FALSE
  OBVIOUS
<1>2. differ \in SUBSET SUBSET S
  OBVIOUS
<1>3. PICK s \in differ : \A t \in differ : t \subseteq s => t = s
  <2> HIDE DEF differ
  <2> QED
  BY <1>1, <1>2, SmallestSubset
<1>4. s \in SUBSET T /\ s \in SUBSET S /\ f[s] # g[s]
  OBVIOUS
<1>5. s # {}
  BY <1>4, SumStep
<1>6. /\ f[s] = funds[Pick(s)] + f[s \ {Pick(s)}]
      /\ g[s] = funds[Pick(s)] + g[s \ {Pick(s)}]
  BY <1>4, <1>5, SumStep
<1>7. s \ {Pick(s)} \notin differ
  BY <1>3, <1>5, PickMember
<1>8. f[s \ {Pick(s)}] = g[s \ {Pick(s)}]
  BY <1>4, <1>7
<1>9. QED
  BY <1>4, <1>6, <1>8

LEMMA SumExists ==
  ASSUME NEW funds, NEW S, IsFiniteSet(S)
  PROVE  \E f : IsSum(f, funds, S)
<1> DEFINE without == {T \in SUBSET S : ~ \E f : IsSum(f, funds, T)}
           sum(T)  == CHOOSE f : IsSum(f, funds, T)
<1>1. SUFFICES ASSUME without # {} PROVE FALSE
  OBVIOUS
<1>2. PICK T \in without : \A U \in without : U \subseteq T => U = T
  <2>1. without \in SUBSET SUBSET S
    OBVIOUS
  <2> HIDE DEF without
  <2>2. QED
    BY <1>1, <2>1, SmallestSubset
<1>3. T \in SUBSET S /\ ~ \E f : IsSum(f, funds, T)
  OBVIOUS
<1>4. \A U \in SUBSET T : U # T => IsSum(sum(U), funds, U)
  <2>1. SUFFICES ASSUME NEW U \in SUBSET T, U # T PROVE IsSum(sum(U), funds, U)
    OBVIOUS
  <2>2. \E f : IsSum(f, funds, U)
    BY <1>2, <1>3, <2>1
  <2>3. QED
    BY <2>2
<1> DEFINE below(s) == s \ {Pick(s)}
           f == [s \in SUBSET T |-> IF s = {} THEN 0
                                    ELSE funds[Pick(s)] + sum(below(s))[below(s)]]
<1>5. ASSUME NEW u \in SUBSET T, u # T
      PROVE  f[u] = sum(u)[u]
  <2>0. IsFiniteSet(u)
    BY <1>3, FS_Subset
  <2>1. IsSum(sum(u), funds, u) /\ u \in SUBSET u
    BY <1>4, <1>5
  <2>2. CASE u = {}
    <3>1. f[u] = 0
      BY <2>2
    <3>2. sum(u)[u] = 0
      <4> HIDE DEF sum
      <4> QED BY <2>1, <2>2, SumStep
    <3>3. QED
      BY <3>1, <3>2
  <2>3. CASE u # {}
    <3>1. f[u] = funds[Pick(u)] + sum(below(u))[below(u)]
      BY <2>3
    <3>2. below(u) \in SUBSET u /\ below(u) \in SUBSET T /\ below(u) # T
      BY <2>3, PickMember
    <3>3. IsSum(sum(below(u)), funds, below(u))
      BY <1>4, <3>2
    <3> HIDE DEF sum
    <3>4. sum(u)[u] = funds[Pick(u)] + sum(u)[below(u)]
      BY <2>1, <2>3, SumStep
    <3>5. sum(u)[below(u)] = sum(below(u))[below(u)]
      BY <2>0, <2>1, <3>2, <3>3, SumsAgree
    <3>6. QED
      BY <3>1, <3>4, <3>5
  <2>4. QED
    BY <2>2, <2>3
<1>6. ASSUME NEW s \in SUBSET T
      PROVE  f[s] = IF s = {} THEN 0 ELSE funds[Pick(s)] + f[below(s)]
  <2>1. CASE s = {}
    BY <2>1
  <2>2. CASE s # {}
    <3>1. below(s) \in SUBSET T /\ below(s) # T
      BY <2>2, PickMember
    <3>2. f[below(s)] = sum(below(s))[below(s)]
      BY <1>5, <3>1
    <3>3. QED
      BY <2>2, <3>2
  <2>3. QED
    BY <2>1, <2>2
<1>7. IsSum(f, funds, T)
  <2>1. f = [s \in SUBSET T |-> f[s]]
    OBVIOUS
  <2> HIDE DEF f
  <2>2. QED
    BY <1>6, <2>1 DEF IsSum
<1>8. QED
  BY <1>3, <1>7

(* The total is what a sum over all accounts has in the end. *)
LEMMA TotalSums ==
  ASSUME NEW funds
  PROVE  \E f : IsSum(f, funds, AccountId) /\ Total(funds) = f[AccountId]
<1> DEFINE sum == CHOOSE f : IsSum(f, funds, AccountId)
<1>1. \E f : IsSum(f, funds, AccountId)
  BY AccountsAssumption, SumExists
<1>2. IsSum(sum, funds, AccountId)
  BY <1>1
<1>3. Total(funds) = sum[AccountId]
  BY TotalIsSum
<1> HIDE DEF sum
<1>4. QED
  BY <1>2, <1>3

(* A change of one balance changes the total by as much. *)
LEMMA TotalChanges ==
  ASSUME NEW funds \in [AccountId -> Int], NEW after \in [AccountId -> Int],
         NEW a \in AccountId, \A b \in AccountId : b # a => after[b] = funds[b]
  PROVE  /\ Total(funds) \in Int
         /\ Total(after) = Total(funds) + (after[a] - funds[a])
<1>1. PICK f : IsSum(f, funds, AccountId) /\ Total(funds) = f[AccountId]
  BY TotalSums
<1>2. PICK g : IsSum(g, after, AccountId) /\ Total(after) = g[AccountId]
  BY TotalSums
<1> DEFINE Fine(s) == /\ f[s] \in Int
                      /\ g[s] = IF a \in s THEN f[s] + (after[a] - funds[a]) ELSE f[s]
           wrong == {s \in SUBSET AccountId : ~ Fine(s)}
<1>3. wrong = {}
  <2>1. SUFFICES ASSUME wrong # {} PROVE FALSE
    OBVIOUS
  <2>2. PICK s \in wrong : \A t \in wrong : t \subseteq s => t = s
    <3>1. wrong \in SUBSET SUBSET AccountId
      OBVIOUS
    <3> HIDE DEF wrong
    <3>2. QED
      BY <2>1, <3>1, AccountsAssumption, SmallestSubset
  <2>3. s \in SUBSET AccountId /\ ~ Fine(s)
    OBVIOUS
  <2>4. s # {}
    <3>1. f[{}] = 0 /\ g[{}] = 0
      BY <1>1, <1>2, SumStep
    <3>2. Fine({})
      BY <3>1
    <3>3. QED
      BY <2>3, <3>2
  <2> DEFINE x == Pick(s)
             t == s \ {x}
  <2>5. x \in s /\ x \in AccountId /\ t \in SUBSET AccountId
    BY <2>3, <2>4, PickMember
  <2>6. f[s] = funds[x] + f[t] /\ g[s] = after[x] + g[t]
    <3>1. \A r \in SUBSET AccountId : r # {} => f[r] = funds[Pick(r)] + f[r \ {Pick(r)}]
      BY <1>1, SumStep
    <3>2. \A r \in SUBSET AccountId : r # {} => g[r] = after[Pick(r)] + g[r \ {Pick(r)}]
      BY <1>2, SumStep
    <3>3. QED
      BY <2>3, <2>4, <3>1, <3>2
  <2>7. Fine(t)
    <3>1. t # s
      BY <2>5
    <3>2. t \notin wrong
      BY <2>2, <3>1
    <3>3. QED
      BY <2>5, <3>2
  <2>8. funds[x] \in Int /\ after[x] \in Int /\ funds[a] \in Int /\ after[a] \in Int
    BY <2>5
  <2>9. CASE x = a
    <3>1. a \in s /\ a \notin t
      BY <2>5, <2>9
    <3>2. f[t] \in Int /\ g[t] = f[t]
      BY <2>7, <3>1
    <3> HIDE DEF x, t
    <3>3. Fine(s)
      BY <2>6, <2>8, <2>9, <3>1, <3>2
    <3>4. QED
      BY <2>3, <3>3
  <2>10. CASE x # a
    <3>1. a \in s <=> a \in t
      BY <2>10
    <3>2. after[x] = funds[x]
      BY <2>5, <2>10
    <3>3. f[t] \in Int /\ g[t] = IF a \in t THEN f[t] + (after[a] - funds[a]) ELSE f[t]
      BY <2>7
    <3> HIDE DEF x, t
    <3>4. Fine(s)
      BY <2>6, <2>8, <3>1, <3>2, <3>3
    <3>5. QED
      BY <2>3, <3>4
  <2>11. QED
    BY <2>9, <2>10
<1>4. Fine(AccountId)
  BY <1>3
<1>5. QED
  BY <1>1, <1>2, <1>4

(* A total of natural numbers is one. *)
LEMMA TotalIsNat ==
  ASSUME NEW funds \in [AccountId -> Nat]
  PROVE  Total(funds) \in Nat
<1>1. PICK f : IsSum(f, funds, AccountId) /\ Total(funds) = f[AccountId]
  BY TotalSums
<1> DEFINE wrong == {s \in SUBSET AccountId : f[s] \notin Nat}
<1>2. wrong = {}
  <2>1. SUFFICES ASSUME wrong # {} PROVE FALSE
    OBVIOUS
  <2>2. PICK s \in wrong : \A t \in wrong : t \subseteq s => t = s
    <3>1. wrong \in SUBSET SUBSET AccountId
      OBVIOUS
    <3> HIDE DEF wrong
    <3>2. QED
      BY <2>1, <3>1, AccountsAssumption, SmallestSubset
  <2>3. s \in SUBSET AccountId /\ s # {}
    <3>1. s \in SUBSET AccountId /\ f[s] \notin Nat
      OBVIOUS
    <3>2. f[{}] = 0
      BY <1>1, SumStep
    <3>3. QED
      BY <3>1, <3>2
  <2>4. Pick(s) \in s /\ f[s] = funds[Pick(s)] + f[s \ {Pick(s)}]
    BY <1>1, <2>3, SumStep, PickMember
  <2>5. f[s \ {Pick(s)}] \in Nat
    BY <2>2, <2>4
  <2>6. QED
    BY <2>4, <2>5
<1>3. QED
  BY <1>1, <1>2

-----------------------------------------------------------------------------
(* Transfers.                                                              *)

Solvent(funds) == \A a \in AccountId : funds[a] = 0 \/ funds[a] >= ExistentialDeposit

LEMMA TransferCalls ==
  ASSUME NEW call \in TransferCall
  PROVE  call.dest \in AccountId /\ call.amount \in Nat
  BY BalancesAssumption DEF TransferCall

(* A transfer that is possible moves the amount, removes the dust from the  *)
(* total, and leaves no dust behind.                                       *)
LEMMA TransferMoves ==
  ASSUME NEW funds \in [AccountId -> Nat], NEW from, NEW call \in TransferCall,
         CanTransfer(funds, from, call)
  PROVE  /\ Transfer(funds, from, call) \in [AccountId -> Nat]
         /\ Dust(funds, from, call) \in Nat
         /\ Total(Transfer(funds, from, call)) = Total(funds) - Dust(funds, from, call)
         /\ Solvent(funds) => Solvent(Transfer(funds, from, call))
<1> DEFINE dest   == call.dest
           amount == call.amount
           dust   == Dust(funds, from, call)
           after  == Transfer(funds, from, call)
<1>1. /\ from \in AccountId /\ dest \in AccountId /\ amount \in Nat
      /\ ExistentialDeposit \in Nat
  BY TransferCalls, BalancesAssumption DEF CanTransfer
<1>2. Total(funds) \in Nat
  BY TotalIsNat
<1>3. CASE from = dest
  <2>1. after = funds /\ dust = 0
    BY <1>3 DEF Transfer, Dust
  <2>2. QED
    BY <1>2, <2>1
<1>4. CASE from # dest
  <2>1. /\ funds[from] \in Nat /\ funds[dest] \in Nat
        /\ funds[from] >= amount
        /\ funds[dest] + amount >= ExistentialDeposit
    BY <1>1, <1>4 DEF CanTransfer
  <2>2. dust = IF funds[from] - amount < ExistentialDeposit THEN funds[from] - amount ELSE 0
    BY <1>4 DEF Dust
  <2>3. after = [funds EXCEPT ![from] = @ - amount - dust, ![dest] = @ + amount]
    BY <1>4 DEF Transfer
  <2> HIDE DEF dust, after, dest, amount
  <2>4. /\ dust \in Nat
        /\ funds[from] - amount - dust \in Nat
        /\ funds[dest] + amount \in Nat
        /\ \/ funds[from] - amount - dust = 0
           \/ funds[from] - amount - dust >= ExistentialDeposit
    BY <1>1, <2>1, <2>2
  <2>5. PICK paid \in [AccountId -> Nat] :
          paid = [funds EXCEPT ![from] = @ - amount - dust]
    BY <1>1, <2>4
  <2>6. /\ paid[from] = funds[from] - amount - dust
        /\ \A a \in AccountId : a # from => paid[a] = funds[a]
    BY <1>1, <2>5
  <2>7. after = [paid EXCEPT ![dest] = @ + amount]
    BY <1>1, <1>4, <2>3, <2>5
  <2>8. after \in [AccountId -> Nat]
    BY <1>1, <1>4, <2>4, <2>6, <2>7
  <2>9. /\ after[dest] = funds[dest] + amount
        /\ after[from] = funds[from] - amount - dust
        /\ \A a \in AccountId : a # dest => after[a] = paid[a]
        /\ paid[dest] = funds[dest]
    BY <1>1, <1>4, <2>6, <2>7
  <2>10. Total(paid) = Total(funds) + (paid[from] - funds[from])
    BY <1>1, <2>6, TotalChanges
  <2>11. Total(after) = Total(paid) + (after[dest] - paid[dest])
    BY <1>1, <2>8, <2>9, TotalChanges
  <2>12. Total(after) = Total(funds) - dust
    BY <1>1, <1>2, <2>1, <2>4, <2>6, <2>9, <2>10, <2>11
  <2>13. Solvent(funds) => Solvent(after)
    BY <1>1, <1>4, <2>1, <2>4, <2>6, <2>9 DEF Solvent
  <2>14. QED
    BY <2>4, <2>8, <2>12, <2>13 DEF dust, after
<1>5. QED
  BY <1>3, <1>4

-----------------------------------------------------------------------------
(* The inductive invariant.                                                *)

LedgerTypeOK ==
  /\ balance \in [AccountId -> Nat]
  /\ nonce \in [AccountId -> 0..MaxNonce]
  /\ applied \in [AccountId -> Seq(0..MaxNonce)]

CodeTypeOK ==
  /\ sudoKey \in AccountId \cup {None}
  /\ version \in Versions
  /\ nextVersion \in Versions
  /\ authorized \in CodeUpgradeAuthorization \cup {None}
  /\ checked \in BOOLEAN
  /\ weight \in [DispatchClass -> Nat]
  /\ length \in Nat

(* A version that has been checked is at least the running one's, also when *)
(* another code of the same block is stored over it.                       *)
CheckedIsNotOlder == checked => nextVersion >= version

(* Users' extrinsics leave the reserve of the length alone. *)
ReserveIsFree == weight["operational"] = 0 => length <= MaxNormalLength

RuntimeInv ==
  /\ LedgerTypeOK
  /\ CodeTypeOK
  /\ CheckedIsNotOlder
  /\ ReserveIsFree
  /\ IssuanceConserved
  /\ NoDust
  /\ NoReplay

LEMMA RuntimeInitially == Init => RuntimeInv
<1> SUFFICES ASSUME Init PROVE RuntimeInv
  OBVIOUS
<1>1. 0 \in 0..MaxNonce /\ <<>> \in Seq(0..MaxNonce)
  BY BalancesAssumption
<1>2. LedgerTypeOK
  BY <1>1, BalancesAssumption DEF Init, LedgerTypeOK
<1>3. CodeTypeOK
  BY AccountsAssumption, VersionsAssumption, WeightsAssumption, LengthsAssumption
  DEF Init, CodeTypeOK, emptyBlock
<1>4. CheckedIsNotOlder
  BY VersionsAssumption DEF Init, CheckedIsNotOlder
<1>5. ReserveIsFree
  BY LengthsAssumption DEF Init, ReserveIsFree
<1>6. IssuanceConserved
  BY DEF Init, IssuanceConserved
<1>7. NoDust
  BY BalancesAssumption DEF Init, NoDust
<1>8. NoReplay
  <2>1. \A a \in AccountId : applied[a] = <<>> /\ nonce[a] = 0
    BY DEF Init
  <2>2. Len(<<>>) = 0 /\ 1..0 = {}
    OBVIOUS
  <2>3. QED
    BY <2>1, <2>2 DEF NoReplay
<1>9. QED
  BY <1>2, <1>3, <1>4, <1>5, <1>6, <1>7, <1>8 DEF RuntimeInv

(* The moves of an extrinsic: its fee, then what it transfers, then what is *)
(* refunded, each of which leaves accounts solvent and accounted for.       *)
LEMMA ExtrinsicMoves ==
  ASSUME RuntimeInv, NEW tx \in Extrinsic, apply_extrinsic(tx)
  PROVE  \E moved \in [AccountId -> Nat], dust \in Nat, refund \in {0, Fee} :
           /\ balance' = [moved EXCEPT ![tx.signer] = @ + refund]
           /\ issuance' = issuance - ((Fee - refund) + dust)
           /\ Solvent(moved)
           /\ Total(moved) = Total(balance) - Fee - dust
           /\ refund = 0 \/ (PaysNo(tx) /\ moved[tx.signer] > 0)
           /\ Dispatched(tx).call \notin TransferCall => moved[tx.signer] > 0
<1> DEFINE s       == tx.signer
           d       == Dispatched(tx)
           charged == [balance EXCEPT ![s] = @ - Fee]
           moves   == Transfers(charged, tx)
           moved   == IF moves THEN Transfer(charged, d.origin, d.call) ELSE charged
           dust    == IF moves THEN Dust(charged, d.origin, d.call) ELSE 0
           refund  == IF PaysNo(tx) /\ moved[s] > 0 THEN Fee ELSE 0
<1>1. /\ s \in AccountId
      /\ balance \in [AccountId -> Nat]
      /\ Fee \in Nat /\ ExistentialDeposit \in Nat \ {0}
  BY BalancesAssumption DEF Extrinsic, RuntimeInv, LedgerTypeOK
<1>2. balance[s] - Fee >= ExistentialDeposit
  BY DEF apply_extrinsic, Valid, ChargeTransactionPayment
<1>3. /\ charged \in [AccountId -> Nat]
      /\ charged[s] = balance[s] - Fee
      /\ \A a \in AccountId : a # s => charged[a] = balance[a]
  BY <1>1, <1>2
<1>4. /\ balance' = [moved EXCEPT ![s] = @ + refund]
      /\ issuance' = issuance - Burned(Fee - refund, dust)
  BY DEF apply_extrinsic
<1> HIDE DEF charged
<1>5. Total(balance) \in Nat /\ Total(charged) = Total(balance) - Fee
  <2>1. Total(balance) \in Nat
    BY <1>1, TotalIsNat
  <2>2. Total(charged) = Total(balance) + (charged[s] - balance[s])
    BY <1>1, <1>3, TotalChanges
  <2>3. QED
    BY <1>1, <1>3, <2>1, <2>2
<1>6. Solvent(charged)
  BY <1>1, <1>2, <1>3 DEF RuntimeInv, NoDust, Solvent
<1>7. /\ moved \in [AccountId -> Nat]
      /\ dust \in Nat
      /\ Total(moved) = Total(charged) - dust
      /\ Solvent(moved)
  <2>1. CASE moves
    <3>1. d.call \in TransferCall /\ CanTransfer(charged, d.origin, d.call)
      BY <2>1 DEF Transfers
    <3>2. QED
      BY <1>3, <1>6, <2>1, <3>1, TransferMoves
  <2>2. CASE ~ moves
    <3>1. moved = charged /\ dust = 0
      BY <2>2
    <3>2. Total(charged) \in Nat
      BY <1>3, TotalIsNat
    <3>3. QED
      BY <1>3, <1>6, <3>1, <3>2
  <2>3. QED
    BY <2>1, <2>2
<1>8. refund = 0 \/ (refund = Fee /\ PaysNo(tx) /\ moved[s] > 0)
  OBVIOUS
<1>9. d.call \notin TransferCall => moved[s] > 0
  BY <1>1, <1>2, <1>3 DEF Transfers
<1> HIDE DEF moved, dust, refund, s
<1>10. issuance' = issuance - ((Fee - refund) + dust)
  BY <1>4 DEF Burned
<1>11. QED
  BY <1>4, <1>5, <1>7, <1>8, <1>9, <1>10 DEF s

(* An account loses its nonce and its history, or is the signer's and has   *)
(* one extrinsic more, or keeps both.                                      *)
LEMMA AccountsMove ==
  ASSUME RuntimeInv, NEW tx \in Extrinsic, apply_extrinsic(tx),
         balance' \in [AccountId -> Nat], NEW a \in AccountId
  PROVE  \/ balance'[a] = 0 /\ nonce'[a] = 0 /\ applied'[a] = <<>>
         \/ /\ balance'[a] > 0
            /\ a = tx.signer
            /\ nonce'[a] = nonce[a] + 1
            /\ applied'[a] = Append(applied[a], tx.nonce)
         \/ /\ balance'[a] > 0
            /\ a # tx.signer
            /\ nonce'[a] = nonce[a]
            /\ applied'[a] = applied[a]
<1>1. balance'[a] \in Nat
  OBVIOUS
<1>2. /\ nonce'[a] = CASE balance'[a] = 0 -> 0
                        [] balance'[a] > 0 /\ a = tx.signer -> nonce[a] + 1
                        [] OTHER -> nonce[a]
      /\ applied'[a] = CASE balance'[a] = 0 -> <<>>
                          [] balance'[a] > 0 /\ a = tx.signer
                               -> Append(applied[a], tx.nonce)
                          [] OTHER -> applied[a]
  BY DEF apply_extrinsic, AccountsAfter
<1>3. CASE balance'[a] = 0
  BY <1>2, <1>3
<1>4. CASE balance'[a] > 0 /\ a = tx.signer
  BY <1>1, <1>2, <1>4
<1>5. CASE balance'[a] > 0 /\ a # tx.signer
  BY <1>1, <1>2, <1>5
<1>6. QED
  BY <1>1, <1>3, <1>4, <1>5

(* A history that has its nonces in order still has when the next is added. *)
LEMMA HistoryGrows ==
  ASSUME NEW history \in Seq(0..MaxNonce), NEW n \in Nat,
         Len(history) = n, \A i \in 1..n : history[i] = i - 1,
         NEW entry \in 0..MaxNonce, entry = n
  PROVE  /\ Append(history, entry) \in Seq(0..MaxNonce)
         /\ Len(Append(history, entry)) = n + 1
         /\ \A i \in 1..(n + 1) : Append(history, entry)[i] = i - 1
<1>1. /\ Append(history, entry) \in Seq(0..MaxNonce)
      /\ Len(Append(history, entry)) = n + 1
      /\ Append(history, entry)[n + 1] = entry
      /\ \A i \in 1..n : Append(history, entry)[i] = history[i]
  BY AppendProperties
<1>2. ASSUME NEW i \in 1..(n + 1)
      PROVE  Append(history, entry)[i] = i - 1
  <2>1. CASE i = n + 1
    BY <1>1, <2>1
  <2>2. CASE i # n + 1
    <3>1. i \in 1..n
      BY <2>2
    <3>2. QED
      BY <1>1, <3>1
  <2>3. QED
    BY <2>1, <2>2
<1>3. QED
  BY <1>1, <1>2

-----------------------------------------------------------------------------
(* Code, the sudo key and the block.                                       *)

(* What an upgrade may write. *)
UpgradesTyped ==
  /\ nextVersion \in Versions
  /\ authorized \in CodeUpgradeAuthorization \cup {None}
  /\ checked \in BOOLEAN
  /\ CheckedIsNotOlder

LEMMA StoreCodeTyped ==
  ASSUME version \in Versions, nextVersion \in Versions, checked \in BOOLEAN,
         CheckedIsNotOlder, version' = version,
         NEW v \in Versions, NEW check \in BOOLEAN, StoreCode(v, check)
  PROVE  nextVersion' \in Versions /\ checked' \in BOOLEAN /\ CheckedIsNotOlder'
<1>1. v \in Nat /\ version \in Nat
  BY VersionsAssumption
<1>2. CASE check => v > version
  BY <1>1, <1>2 DEF StoreCode, CheckedIsNotOlder
<1>3. CASE ~ (check => v > version)
  BY <1>3 DEF StoreCode, storedVars, CheckedIsNotOlder
<1>4. QED
  BY <1>2, <1>3

LEMMA ApplyTyped ==
  ASSUME version \in Versions, nextVersion \in Versions, checked \in BOOLEAN,
         authorized \in CodeUpgradeAuthorization \cup {None},
         CheckedIsNotOlder, version' = version,
         NEW call, IsAuthorized(call), apply_authorized_upgrade(call)
  PROVE  UpgradesTyped'
<1>1. call.version \in Versions /\ authorized.check \in BOOLEAN
  BY DEF IsAuthorized, ApplyCall, CodeUpgradeAuthorization
<1>2. authorized' = None /\ StoreCode(call.version, authorized.check)
  BY DEF apply_authorized_upgrade
<1>3. QED
  BY <1>1, <1>2, StoreCodeTyped DEF UpgradesTyped

LEMMA DispatchSystemTyped ==
  ASSUME version \in Versions, nextVersion \in Versions, checked \in BOOLEAN,
         authorized \in CodeUpgradeAuthorization \cup {None},
         CheckedIsNotOlder, version' = version,
         NEW tx \in Extrinsic, DispatchSystem(tx)
  PROVE  UpgradesTyped'
<1> DEFINE call == Dispatched(tx).call
<1>1. CASE /\ call \in SetCodeCall
           /\ StoreCode(call.version, call.kind = "set_code")
           /\ UNCHANGED authorized
  <2>1. call.version \in Versions /\ (call.kind = "set_code") \in BOOLEAN
    BY <1>1 DEF SetCodeCall
  <2>2. QED
    BY <1>1, <2>1, StoreCodeTyped DEF UpgradesTyped
<1>2. CASE /\ call \in RootCall
           /\ authorized' = [version |-> call.version,
                             check   |-> call.kind = "authorize_upgrade"]
           /\ UNCHANGED storedVars
  <2>1. call.version \in Versions
    BY <1>2 DEF RootCall, SetCodeCall
  <2>2. authorized' \in CodeUpgradeAuthorization
    BY <1>2, <2>1 DEF CodeUpgradeAuthorization
  <2>3. QED
    BY <1>2, <2>2 DEF UpgradesTyped, storedVars, CheckedIsNotOlder
<1>3. CASE IsAuthorized(call) /\ apply_authorized_upgrade(call)
  BY <1>3, ApplyTyped
<1>4. CASE UNCHANGED <<authorized, storedVars>>
  BY <1>4 DEF UpgradesTyped, storedVars, CheckedIsNotOlder
<1>5. QED
  BY <1>1, <1>2, <1>3, <1>4 DEF DispatchSystem

LEMMA KeyIsTyped ==
  ASSUME sudoKey \in AccountId \cup {None}, NEW tx \in Extrinsic, DispatchSudo(tx)
  PROVE  sudoKey' \in AccountId \cup {None}
<1> DEFINE call == Dispatched(tx).call
<1>1. call \in KeyCall /\ call.kind = "set_key" => call.new \in AccountId
  BY DEF KeyCall
<1>2. sudoKey' \in {sudoKey, None} \/ (call \in KeyCall /\ call.kind = "set_key" /\ sudoKey' = call.new)
  BY DEF DispatchSudo
<1>3. QED
  BY <1>1, <1>2

LEMMA LengthsAreNatural ==
  ASSUME NEW call \in RuntimeCall
  PROVE  Length(call) \in Nat
<1> DEFINE c == Carried(call)
<1>1. c \in RemarkCall => c.length \in Nat
  BY LengthsAssumption DEF RemarkCall
<1>2. CodeLength \in Nat
  BY LengthsAssumption
<1>3. \/ Length(call) = CodeLength
      \/ c \in RemarkCall /\ Length(call) = c.length
      \/ Length(call) = 1
  <2> HIDE DEF c
  <2>1. Length(call) = CASE c \in SetCodeCall \cup ApplyCall -> CodeLength
                         [] c \in RemarkCall                 -> c.length
                         [] OTHER                            -> 1
    BY DEF Length, c
  <2>2. QED
    BY <2>1
<1>4. QED
  BY <1>1, <1>2, <1>3

(* Whatever fits in the block keeps the reserve of the length, or is of the *)
(* class it is reserved for.                                               *)
LEMMA UseBlockInv ==
  ASSUME weight \in [DispatchClass -> Nat], length \in Nat,
         NEW call \in RuntimeCall, CheckWeight(call), UseBlock(call)
  PROVE  weight' \in [DispatchClass -> Nat] /\ length' \in Nat /\ ReserveIsFree'
<1>1. Length(call) \in Nat
  BY LengthsAreNatural
<1>2. /\ weight' = [weight EXCEPT ![Class(call)] = @ + 1]
      /\ length' = length + Length(call)
  BY DEF UseBlock
<1>3. Class(call) \in {"normal", "operational"} /\ Class(call) \in DispatchClass
  BY DEF Class, DispatchClass
<1>4. weight' \in [DispatchClass -> Nat] /\ length' \in Nat
  BY <1>1, <1>2, <1>3
<1>5. CASE Class(call) = "operational"
  <2>1. weight'["operational"] = weight["operational"] + 1 /\ weight["operational"] \in Nat
    BY <1>2, <1>3, <1>5
  <2>2. QED
    BY <1>4, <2>1 DEF ReserveIsFree
<1>6. CASE Class(call) = "normal"
  <2>1. length' <= MaxNormalLength
    BY <1>2, <1>6 DEF CheckWeight, LengthLimit
  <2>2. QED
    BY <1>4, <2>1 DEF ReserveIsFree
<1>7. QED
  BY <1>3, <1>5, <1>6

-----------------------------------------------------------------------------
(* The invariant is kept.                                                  *)

LEMMA ExtrinsicInv ==
  ASSUME RuntimeInv, NEW tx \in Extrinsic, nonce[tx.signer] < MaxNonce, apply_extrinsic(tx)
  PROVE  RuntimeInv'
<1>1. PICK moved \in [AccountId -> Nat], dust \in Nat, refund \in {0, Fee} :
        /\ balance' = [moved EXCEPT ![tx.signer] = @ + refund]
        /\ issuance' = issuance - ((Fee - refund) + dust)
        /\ Solvent(moved)
        /\ Total(moved) = Total(balance) - Fee - dust
        /\ refund = 0 \/ (PaysNo(tx) /\ moved[tx.signer] > 0)
  BY ExtrinsicMoves
<1>2. /\ Fee \in Nat /\ MaxNonce \in Nat /\ refund \in Nat
      /\ ExistentialDeposit \in Nat
      /\ tx.signer \in AccountId
      /\ balance \in [AccountId -> Nat]
      /\ nonce \in [AccountId -> 0..MaxNonce]
      /\ applied \in [AccountId -> Seq(0..MaxNonce)]
  <2>1. /\ balance \in [AccountId -> Nat]
        /\ nonce \in [AccountId -> 0..MaxNonce]
        /\ applied \in [AccountId -> Seq(0..MaxNonce)]
    BY DEF RuntimeInv, LedgerTypeOK
  <2>2. Fee \in Nat /\ MaxNonce \in Nat /\ ExistentialDeposit \in Nat
    BY BalancesAssumption
  <2>3. tx.signer \in AccountId
    BY DEF Extrinsic
  <2>4. QED
    BY <2>1, <2>2, <2>3
<1>3. /\ balance' \in [AccountId -> Nat]
      /\ balance'[tx.signer] = moved[tx.signer] + refund
      /\ \A a \in AccountId : a # tx.signer => balance'[a] = moved[a]
  <2>1. moved[tx.signer] + refund \in Nat
    BY <1>2
  <2>2. PICK funds \in Nat : funds = moved[tx.signer] + refund
    BY <2>1
  <2>3. balance' = [moved EXCEPT ![tx.signer] = funds]
    BY <1>1, <2>2
  <2>4. QED
    BY <1>2, <2>2, <2>3
<1>4. IssuanceConserved'
  <2>0. moved \in [AccountId -> Int] /\ balance' \in [AccountId -> Int]
    BY <1>3
  <2>1. /\ Total(balance') = Total(moved) + (balance'[tx.signer] - moved[tx.signer])
        /\ Total(moved) \in Int
    BY <1>2, <1>3, <2>0, TotalChanges
  <2>2. Total(balance) \in Nat
    BY <1>2, TotalIsNat
  <2>3. moved[tx.signer] \in Nat
    BY <1>2
  <2>4. issuance = Total(balance)
    BY DEF RuntimeInv, IssuanceConserved
  <2>5. issuance' = Total(balance')
    <3>1. balance'[tx.signer] - moved[tx.signer] = refund
      BY <1>2, <1>3, <2>3
    <3>2. Total(balance') = Total(balance) - Fee - dust + refund
      BY <1>1, <2>1, <3>1
    <3>3. issuance' = Total(balance) - ((Fee - refund) + dust)
      BY <1>1, <2>4
    <3> HIDE <1>1
    <3>4. QED
      BY <1>2, <2>2, <3>2, <3>3
  <2>6. QED
    BY <2>5 DEF IssuanceConserved
<1>5. NoDust'
  <2>1. SUFFICES ASSUME NEW a \in AccountId
                 PROVE  balance'[a] = 0 \/ balance'[a] >= ExistentialDeposit
    BY DEF NoDust
  <2>2. moved[a] = 0 \/ moved[a] >= ExistentialDeposit
    BY <1>1 DEF Solvent
  <2>3. CASE a # tx.signer
    BY <1>3, <2>2, <2>3
  <2>4. CASE a = tx.signer
    <3>1. moved[a] \in Nat /\ balance'[a] = moved[a] + refund
      BY <1>1, <1>3, <2>4
    <3>2. refund = 0 \/ moved[a] > 0
      BY <1>1, <2>4
    <3>3. QED
      BY <1>2, <2>2, <3>1, <3>2
  <2>5. QED
    BY <2>3, <2>4
<1>6. tx.nonce = nonce[tx.signer] /\ tx.nonce \in 0..MaxNonce
  BY <1>2 DEF apply_extrinsic, Valid, CheckNonce
<1>7. ASSUME NEW a \in AccountId
      PROVE  /\ nonce'[a] \in 0..MaxNonce
             /\ applied'[a] \in Seq(0..MaxNonce)
             /\ Len(applied'[a]) = nonce'[a]
             /\ \A i \in 1..nonce'[a] : applied'[a][i] = i - 1
  <2>1. /\ nonce[a] \in 0..MaxNonce
        /\ applied[a] \in Seq(0..MaxNonce)
        /\ Len(applied[a]) = nonce[a]
        /\ \A i \in 1..nonce[a] : applied[a][i] = i - 1
    BY <1>2 DEF RuntimeInv, NoReplay
  <2>2. CASE nonce'[a] = 0 /\ applied'[a] = <<>>
    <3>1. Len(<<>>) = 0 /\ 1..0 = {} /\ <<>> \in Seq(0..MaxNonce)
      OBVIOUS
    <3>2. QED
      BY <1>2, <2>2, <3>1
  <2>3. CASE /\ a = tx.signer
             /\ nonce'[a] = nonce[a] + 1
             /\ applied'[a] = Append(applied[a], tx.nonce)
    <3>1. nonce'[a] \in 0..MaxNonce
      BY <1>2, <2>1, <2>3
    <3>2. nonce[a] \in Nat
      BY <2>1
    <3>3. tx.nonce \in 0..MaxNonce /\ tx.nonce = nonce[a]
      BY <1>6, <2>3
    <3> DEFINE history == Append(applied[a], tx.nonce)
    <3>4. /\ history \in Seq(0..MaxNonce)
          /\ Len(history) = nonce[a] + 1
          /\ \A i \in 1..(nonce[a] + 1) : history[i] = i - 1
      BY <2>1, <3>2, <3>3, HistoryGrows
    <3>5. applied'[a] = history
      BY <2>3
    <3> HIDE DEF history
    <3>6. QED
      BY <2>3, <3>1, <3>4, <3>5
  <2>4. CASE nonce'[a] = nonce[a] /\ applied'[a] = applied[a]
    BY <2>1, <2>4
  <2>5. QED
    BY <1>3, <2>2, <2>3, <2>4, AccountsMove
<1>8. LedgerTypeOK'
  <2> DEFINE N(a) == CASE balance'[a] = 0 -> 0
                       [] balance'[a] > 0 /\ a = tx.signer -> nonce[a] + 1
                       [] OTHER -> nonce[a]
             A(a) == CASE balance'[a] = 0 -> <<>>
                       [] balance'[a] > 0 /\ a = tx.signer
                            -> Append(applied[a], tx.nonce)
                       [] OTHER -> applied[a]
  <2>0. /\ nonce' = [a \in AccountId |-> N(a)]
        /\ applied' = [a \in AccountId |-> A(a)]
    BY DEF apply_extrinsic, AccountsAfter
  <2> HIDE DEF N, A
  <2>1. /\ nonce' = [a \in AccountId |-> nonce'[a]]
        /\ applied' = [a \in AccountId |-> applied'[a]]
    BY <2>0
  <2>2. QED
    BY <1>3, <1>7, <2>1 DEF LedgerTypeOK
<1>9. NoReplay'
  BY <1>7 DEF NoReplay
<1>10. CodeTypeOK' /\ CheckedIsNotOlder' /\ ReserveIsFree'
  <2>1. CodeTypeOK /\ CheckedIsNotOlder /\ version' = version
    BY DEF RuntimeInv, apply_extrinsic
  <2>2. /\ DispatchSystem(tx)
        /\ CheckWeight(tx.call) /\ UseBlock(tx.call)
    BY DEF apply_extrinsic, Valid
  <2>3. sudoKey' \in AccountId \cup {None}
    BY <2>1, KeyIsTyped DEF apply_extrinsic, CodeTypeOK
  <2>4. UpgradesTyped'
    BY <2>1, <2>2, DispatchSystemTyped DEF CodeTypeOK
  <2>5. tx.call \in RuntimeCall
    BY OfferedAssumption DEF Extrinsic
  <2>6. weight' \in [DispatchClass -> Nat] /\ length' \in Nat /\ ReserveIsFree'
    BY <2>1, <2>2, <2>5, UseBlockInv DEF CodeTypeOK
  <2>7. QED
    BY <2>1, <2>3, <2>4, <2>6 DEF CodeTypeOK, UpgradesTyped
<1>11. QED
  BY <1>4, <1>5, <1>8, <1>9, <1>10 DEF RuntimeInv

(* An unsigned upgrade touches code and block only. *)
LEMMA BareInv ==
  ASSUME RuntimeInv, NEW call \in ApplyCall, apply_bare(call)
  PROVE  RuntimeInv'
<1>1. CodeTypeOK /\ CheckedIsNotOlder
  BY DEF RuntimeInv
<1>2. /\ UNCHANGED <<palletVars, ledgerVars, sudoKey, version>>
      /\ IsAuthorized(call) /\ CheckWeight(call) /\ UseBlock(call)
      /\ apply_authorized_upgrade(call)
  BY DEF apply_bare
<1>3. UpgradesTyped'
  BY <1>1, <1>2, ApplyTyped DEF CodeTypeOK
<1>4. call \in RuntimeCall
  BY DEF RuntimeCall, PlainCall
<1>5. weight' \in [DispatchClass -> Nat] /\ length' \in Nat /\ ReserveIsFree'
  BY <1>1, <1>2, <1>4, UseBlockInv DEF CodeTypeOK
<1>6. CodeTypeOK' /\ CheckedIsNotOlder'
  BY <1>1, <1>2, <1>3, <1>5 DEF CodeTypeOK, UpgradesTyped
<1>7. UNCHANGED ledgerVars
  BY <1>2
<1>8. IssuanceConserved'
  BY <1>7 DEF ledgerVars, RuntimeInv, IssuanceConserved
<1>9. QED
  BY <1>5, <1>6, <1>7, <1>8 DEF ledgerVars, RuntimeInv, LedgerTypeOK, NoDust, NoReplay

LEMMA RuntimeInvariant == Spec => []RuntimeInv
<1>1. RuntimeInv /\ [Next]_vars => RuntimeInv'
  <2> SUFFICES ASSUME RuntimeInv, [Next]_vars PROVE RuntimeInv'
    OBVIOUS
  <2>1. CASE \E tx \in Extrinsic : nonce[tx.signer] < MaxNonce /\ apply_extrinsic(tx)
    BY <2>1, ExtrinsicInv
  <2>2. CASE \E call \in ApplyCall \cap Offered : apply_bare(call)
    BY <2>2, BareInv
  <2>3. CASE NextBlock
    <3>1. emptyBlock \in [DispatchClass -> Nat]
      BY WeightsAssumption DEF emptyBlock
    <3>2. CodeTypeOK'
      BY <2>3, <3>1, LengthsAssumption DEF NextBlock, RuntimeInv, CodeTypeOK, storedVars
    <3>3. CheckedIsNotOlder'
      BY <2>3, VersionsAssumption
      DEF NextBlock, storedVars, RuntimeInv, CodeTypeOK, CheckedIsNotOlder
    <3>4. ReserveIsFree'
      BY <2>3, LengthsAssumption DEF NextBlock, ReserveIsFree
    <3>5. UNCHANGED ledgerVars
      BY <2>3 DEF NextBlock
    <3>6. IssuanceConserved'
      BY <3>5 DEF ledgerVars, RuntimeInv, IssuanceConserved
    <3>7. QED
      BY <3>2, <3>3, <3>4, <3>5, <3>6
      DEF ledgerVars, RuntimeInv, LedgerTypeOK, NoDust, NoReplay
  <2>4. CASE UNCHANGED vars
    <3>1. IssuanceConserved'
      BY <2>4 DEF vars, ledgerVars, RuntimeInv, IssuanceConserved
    <3>2. CodeTypeOK' /\ CheckedIsNotOlder' /\ ReserveIsFree'
      BY <2>4 DEF vars, storedVars, blockVars, RuntimeInv, CodeTypeOK,
                  CheckedIsNotOlder, ReserveIsFree
    <3>3. QED
      BY <2>4, <3>1, <3>2 DEF vars, ledgerVars, RuntimeInv, LedgerTypeOK, NoDust, NoReplay
  <2>5. QED
    BY <2>1, <2>2, <2>3, <2>4 DEF Next
<1>2. QED
  BY RuntimeInitially, <1>1, PTL DEF Spec

-----------------------------------------------------------------------------
(* What the invariant gives.                                               *)

(* The storage of the pallets and of frame_system is of its types: no       *)
(* balance, nonce or issuance goes below zero.                             *)
THEOREM RuntimeTypeCorrect == Spec => []RuntimeTypeOK
<1>1. RuntimeInv /\ PalletTypeOK => RuntimeTypeOK
  <2> SUFFICES ASSUME RuntimeInv, PalletTypeOK PROVE RuntimeTypeOK
    OBVIOUS
  <2>1. balance \in [AccountId -> Nat] /\ issuance = Total(balance)
    BY DEF RuntimeInv, LedgerTypeOK, IssuanceConserved
  <2>2. issuance \in Nat
    BY <2>1, TotalIsNat
  <2>3. QED
    BY <2>2 DEF RuntimeInv, LedgerTypeOK, CodeTypeOK, RuntimeTypeOK
<1>2. QED
  BY <1>1, RuntimeInvariant, RuntimeRefinesTemplate, PalletTypeCorrect, PTL

(* pallet_balances' total issuance is the sum of the balances, through fees, *)
(* refunds, transfers and dust, for any number of accounts.                *)
THEOREM IssuanceIsConserved == Spec => []IssuanceConserved
  BY RuntimeInvariant, PTL DEF RuntimeInv

(* Withdrawing with Preservation::Preserve, the checks of a transfer and    *)
(* the removal of dust keep every account dead or above the deposit.       *)
THEOREM NoDustIsLeft == Spec => []NoDust
  BY RuntimeInvariant, PTL DEF RuntimeInv

(* CheckNonce and the signer's nonce, which moves on also when the dispatch *)
(* fails, let no extrinsic be applied twice in its signer's lifetime.      *)
THEOREM NothingIsReplayed == Spec => []NoReplay
  BY RuntimeInvariant, PTL DEF RuntimeInv

(* What RuntimeBlockWeights and RuntimeBlockLength reserve for operational  *)
(* extrinsics is there for the first of them, however full the block is:   *)
(* the invariant says that what users may add ends before the reserve.     *)
THEOREM UpgradesFit == Spec => []UpgradeAlwaysFits
<1>1. RuntimeInv => UpgradeAlwaysFits
  <2> SUFFICES ASSUME RuntimeInv, weight["operational"] = 0, MaxNormal < MaxBlock,
                      NEW call \in Offered, Class(call) = "operational",
                      Length(call) <= MaxLength - MaxNormalLength
               PROVE  CheckWeight(call)
    BY DEF UpgradeAlwaysFits
  <2>1. length \in Nat /\ length <= MaxNormalLength
    BY DEF RuntimeInv, CodeTypeOK, ReserveIsFree
  <2>2. call \in RuntimeCall
    BY OfferedAssumption
  <2>3. Length(call) \in Nat
    BY <2>2, LengthsAreNatural
  <2>4. MaxLength \in Nat /\ MaxNormalLength \in Nat /\ MaxBlock \in Nat /\ MaxNormal \in Nat
    BY WeightsAssumption, LengthsAssumption
  <2>5. length + Length(call) <= MaxLength
    BY <2>1, <2>3, <2>4
  <2>6. 0 + 1 <= MaxBlock /\ 0 + 1 <= MaxBlock - MaxNormal
    BY <2>4
  <2>7. QED
    BY <2>5, <2>6 DEF CheckWeight, LengthLimit, MaxTotal, Reserved
<1>2. QED
  BY <1>1, RuntimeInvariant, PTL

-----------------------------------------------------------------------------
(* What a step may never do.                                               *)

(* Only the next block runs another version, that of the code in storage,   *)
(* which was checked against the version that had run until then.          *)
THEOREM NoUpgradeIsStale == Spec => NoStaleUpgrade
<1>1. RuntimeInv /\ [Next]_vars => [version' < version => ~ checked]_vars
  <2> SUFFICES ASSUME RuntimeInv, [Next]_vars, version' < version PROVE ~ checked
    OBVIOUS
  <2>1. version \in Nat /\ nextVersion \in Nat
    BY VersionsAssumption DEF RuntimeInv, CodeTypeOK
  <2>2. version' = version \/ version' = nextVersion
    BY DEF Next, apply_extrinsic, apply_bare, NextBlock, vars
  <2>3. nextVersion < version
    BY <2>1, <2>2
  <2>4. QED
    BY <2>1, <2>3 DEF RuntimeInv, CheckedIsNotOlder
<1>2. QED
  BY <1>1, RuntimeInvariant, PTL DEF Spec, NoStaleUpgrade

(* A signer whose extrinsic is no transfer survives it: it has paid its fee *)
(* and kept the deposit, so the history shows the extrinsic.               *)
LEMMA SignerSurvives ==
  ASSUME RuntimeInv, NEW tx \in Extrinsic, apply_extrinsic(tx),
         Dispatched(tx).call \notin TransferCall
  PROVE  applied'[tx.signer] # applied[tx.signer]
<1>1. PICK moved \in [AccountId -> Nat], refund \in {0, Fee} :
        /\ balance' = [moved EXCEPT ![tx.signer] = @ + refund]
        /\ moved[tx.signer] > 0
  BY ExtrinsicMoves
<1>2. tx.signer \in AccountId /\ refund \in Nat
  BY BalancesAssumption DEF Extrinsic
<1>3. balance' \in [AccountId -> Nat] /\ balance'[tx.signer] > 0
  BY <1>1, <1>2
<1>4. applied'[tx.signer] = Append(applied[tx.signer], tx.nonce)
  <2>1. balance'[tx.signer] # 0
    BY <1>3
  <2>2. \A a \in AccountId :
          \/ balance'[a] = 0
          \/ a = tx.signer /\ applied'[a] = Append(applied[a], tx.nonce)
          \/ a # tx.signer
    BY <1>3, AccountsMove
  <2>3. QED
    BY <1>2, <2>1, <2>2
<1>5. applied[tx.signer] \in Seq(0..MaxNonce) /\ tx.nonce \in 0..MaxNonce
  BY <1>2 DEF RuntimeInv, LedgerTypeOK, Extrinsic
<1>6. QED
  BY <1>4, <1>5, AppendProperties

(* Only the signer's history grows. *)
LEMMA OnlySignerGrows ==
  ASSUME RuntimeInv, NEW tx \in Extrinsic, apply_extrinsic(tx),
         NEW a \in AccountId, Len(applied'[a]) > Len(applied[a])
  PROVE  a = tx.signer
<1>1. PICK moved \in [AccountId -> Nat], refund \in {0, Fee} :
        balance' = [moved EXCEPT ![tx.signer] = @ + refund]
  BY ExtrinsicMoves
<1>2. tx.signer \in AccountId /\ refund \in Nat
  BY BalancesAssumption DEF Extrinsic
<1>3. balance' \in [AccountId -> Nat]
  BY <1>1, <1>2
<1>4. applied[a] \in Seq(0..MaxNonce) /\ Len(applied[a]) \in Nat
  BY DEF RuntimeInv, LedgerTypeOK
<1>5. Len(<<>>) = 0
  OBVIOUS
<1>6. \/ applied'[a] = <<>>
      \/ a = tx.signer
      \/ applied'[a] = applied[a]
  BY <1>3, AccountsMove
<1>7. QED
  BY <1>4, <1>5, <1>6

(* Whom sudo lets through, unless it is Root, is the key. *)
LEMMA RootIsSudo ==
  ASSUME NEW tx \in Extrinsic, IsDispatched(tx), Dispatched(tx).origin # tx.signer
  PROVE  tx.signer = sudoKey
<1>1. tx.signer \in AccountId /\ tx.signer # Root
  BY OriginAssumption DEF Extrinsic
<1>2. tx.call \in PlainCall \cup SudoCall
  BY OfferedAssumption DEF Extrinsic, RuntimeCall
<1>3. tx.call.kind \in {"sudo", "sudo_unchecked_weight", "sudo_as"}
  BY DEF Dispatched
<1>4. tx.call \notin PlainCall
  BY <1>3 DEF PlainCall, TemplateCall, TransferCall, RemarkCall, RootCall,
              SetCodeCall, ApplyCall, KeyCall
<1>5. QED
  BY <1>1, <1>2, <1>4 DEF IsDispatched, ensure_sudo

LEMMA ApplyingSpends ==
  ASSUME NEW call, IsAuthorized(call), apply_authorized_upgrade(call)
  PROVE  Spends
<1>1. /\ authorized # None /\ authorized' = None
      /\ nextVersion' \in {nextVersion, call.version}
  BY DEF IsAuthorized, apply_authorized_upgrade, StoreCode, storedVars
<1>2. QED
  BY <1>1 DEF IsAuthorized, Spends

(* Who has less, and has not signed, is whose transfer is dispatched. *)
LEMMA OthersPay ==
  ASSUME RuntimeInv, NEW tx \in Extrinsic, apply_extrinsic(tx),
         NEW a \in AccountId, a # tx.signer, balance'[a] < balance[a]
  PROVE  IsDispatched(tx) /\ Dispatched(tx).origin = a
<1> DEFINE s       == tx.signer
           d       == Dispatched(tx)
           charged == [balance EXCEPT ![s] = @ - Fee]
           moves   == Transfers(charged, tx)
           moved   == IF moves THEN Transfer(charged, d.origin, d.call) ELSE charged
           refund  == IF PaysNo(tx) /\ moved[s] > 0 THEN Fee ELSE 0
<1>1. s \in AccountId /\ balance \in [AccountId -> Nat]
  BY DEF Extrinsic, RuntimeInv, LedgerTypeOK
<1>2. balance' = [moved EXCEPT ![s] = @ + refund]
  BY DEF apply_extrinsic
<1>3. charged[a] = balance[a] /\ balance[a] \in Nat
  BY <1>1
<1>4. DOMAIN charged = AccountId
  BY <1>1
<1> HIDE DEF charged
<1>5. CASE ~ moves
  <2>1. balance'[a] = charged[a]
    BY <1>2, <1>4, <1>5
  <2>2. QED
    BY <1>3, <2>1
<1>6. CASE moves
  <2>1. IsDispatched(tx) /\ d.call \in TransferCall
    BY <1>6 DEF Transfers
  <2>2. d.call.amount \in Nat
    BY <2>1, TransferCalls
  <2>3. CASE d.origin = a
    BY <2>1, <2>3
  <2>4. CASE d.origin # a
    <3>1. \/ moved = charged
          \/ moved = [charged EXCEPT
                        ![d.origin] = @ - d.call.amount - Dust(charged, d.origin, d.call),
                        ![d.call.dest] = @ + d.call.amount]
      BY <1>6 DEF Transfer
    <3>2. DOMAIN moved = AccountId
      BY <1>4, <3>1
    <3>3. moved[a] = charged[a] \/ moved[a] = charged[a] + d.call.amount
      BY <1>4, <2>4, <3>1
    <3> HIDE DEF moved, refund
    <3>4. balance'[a] = moved[a]
      BY <1>2, <3>2
    <3>5. QED
      BY <1>3, <2>2, <3>3, <3>4
  <2>5. QED
    BY <2>3, <2>4
<1>7. QED
  BY <1>5, <1>6

(* Outside of extrinsics that are signed, the key and the pallet's event    *)
(* stay, and code is stored only for an authorization.                     *)
LEMMA OtherSteps ==
  ASSUME \/ \E call \in ApplyCall \cap Offered : apply_bare(call)
         \/ NextBlock
         \/ UNCHANGED vars
  PROVE  /\ UNCHANGED <<applied, balance, sudoKey, lastEvent>>
         /\ UNCHANGED <<authorized, nextVersion>> \/ Spends
<1>1. ASSUME NEW call \in ApplyCall, apply_bare(call)
      PROVE  UNCHANGED <<applied, balance, sudoKey, lastEvent>> /\ Spends
  <2>1. IsAuthorized(call) /\ apply_authorized_upgrade(call)
    BY <1>1 DEF apply_bare
  <2>2. Spends
    BY <2>1, ApplyingSpends
  <2>3. QED
    BY <1>1, <2>2 DEF apply_bare, ledgerVars, palletVars
<1>2. CASE NextBlock
  BY <1>2 DEF NextBlock, ledgerVars, palletVars, storedVars
<1>3. CASE UNCHANGED vars
  BY <1>3 DEF vars, ledgerVars, palletVars, storedVars
<1>4. QED
  BY <1>1, <1>2, <1>3

(* sudo's key is checked before what it carries is dispatched, and before   *)
(* the key is moved: nobody else authorizes an upgrade or speaks in         *)
(* another's name, and what is authorized is stored at most once.          *)
THEOREM OnlySudoActs == Spec => OnlySudoActsForOthers
<1> DEFINE Step ==
      /\ sudoKey' # sudoKey => SudoActs
      /\ <<authorized, nextVersion>>' # <<authorized, nextVersion>> => SudoActs \/ Spends
      /\ lastEvent' # lastEvent
           => SudoActs \/ applied'[lastEvent'.who] # applied[lastEvent'.who]
<1>1. ASSUME RuntimeInv, NEW tx \in Extrinsic, apply_extrinsic(tx), tx.signer = sudoKey,
             Dispatched(tx).call \notin TransferCall
      PROVE  SudoActs
  <2>1. tx.signer \in AccountId /\ tx.signer # None
    BY AccountsAssumption DEF Extrinsic
  <2>2. applied'[tx.signer] # applied[tx.signer]
    BY <1>1, SignerSurvives
  <2>3. QED
    BY <1>1, <2>1, <2>2 DEF SudoActs
<1>2. ASSUME RuntimeInv, NEW tx \in Extrinsic, apply_extrinsic(tx)
      PROVE  Step
  <2> DEFINE d == Dispatched(tx)
  <2>1. tx.signer \in AccountId /\ tx.signer # Root
    BY OriginAssumption DEF Extrinsic
  <2>2. ASSUME sudoKey' # sudoKey
        PROVE  SudoActs
    <3>1. IsDispatched(tx) /\ d.call \in KeyCall /\ ensure_sudo(d.origin)
      BY <1>2, <2>2 DEF apply_extrinsic, DispatchSudo
    <3>2. tx.signer = sudoKey
      BY <2>1, <3>1, RootIsSudo DEF ensure_sudo
    <3>3. d.call \notin TransferCall
      BY <3>1 DEF KeyCall, TransferCall
    <3>4. QED
      BY <1>1, <1>2, <3>2, <3>3
  <2>3. ASSUME <<authorized, nextVersion>>' # <<authorized, nextVersion>>
        PROVE  SudoActs \/ Spends
    <3>1. \/ IsDispatched(tx) /\ d.call \in RootCall /\ d.origin = Root
          \/ IsAuthorized(d.call) /\ apply_authorized_upgrade(d.call)
      BY <1>2, <2>3 DEF apply_extrinsic, DispatchSystem, storedVars
    <3>2. CASE IsDispatched(tx) /\ d.call \in RootCall /\ d.origin = Root
      <4>1. tx.signer = sudoKey
        BY <2>1, <3>2, RootIsSudo
      <4>2. d.call \notin TransferCall
        BY <3>2 DEF RootCall, SetCodeCall, TransferCall
      <4>3. QED
        BY <1>1, <1>2, <4>1, <4>2
    <3>3. CASE IsAuthorized(d.call) /\ apply_authorized_upgrade(d.call)
      BY <3>3, ApplyingSpends
    <3>4. QED
      BY <3>1, <3>2, <3>3
  <2>4. ASSUME lastEvent' # lastEvent
        PROVE  SudoActs \/ applied'[lastEvent'.who] # applied[lastEvent'.who]
    <3>1. /\ IsDispatched(tx)
          /\ d.call.kind = "do_something"
          /\ lastEvent'.who = d.origin
      BY <1>2, <2>4 DEF apply_extrinsic, DispatchTemplate, do_something, cause_error,
                        Reject, palletVars
    <3>2. d.call \notin TransferCall
      BY <3>1 DEF TransferCall
    <3>3. applied'[tx.signer] # applied[tx.signer]
      BY <1>2, <3>2, SignerSurvives
    <3>4. CASE d.origin = tx.signer
      BY <3>1, <3>3, <3>4
    <3>5. CASE d.origin # tx.signer
      BY <1>1, <1>2, <3>1, <3>2, <3>5, RootIsSudo
    <3>6. QED
      BY <3>4, <3>5
  <2>5. QED
    BY <2>2, <2>3, <2>4
<1>3. RuntimeInv /\ [Next]_vars => [Step]_vars
  <2> SUFFICES ASSUME RuntimeInv, [Next]_vars PROVE Step
    OBVIOUS
  <2>1. CASE \E tx \in Extrinsic : nonce[tx.signer] < MaxNonce /\ apply_extrinsic(tx)
    BY <1>2, <2>1
  <2>2. CASE \/ \E call \in ApplyCall \cap Offered : apply_bare(call)
             \/ NextBlock
             \/ UNCHANGED vars
    BY <2>2, OtherSteps
  <2>3. QED
    BY <2>1, <2>2 DEF Next
<1>4. QED
  BY <1>3, RuntimeInvariant, PTL DEF Spec, OnlySudoActsForOthers

(* The fee is the signer's, and a transfer's sender is whom it is           *)
(* dispatched for: the signer, or whom the key has named in sudo_as.       *)
THEOREM NobodyElsePays == Spec => NobodyPaysForAnother
<1> DEFINE Step == \A a, s \in AccountId :
                     balance'[a] < balance[a] /\ Len(applied'[s]) > Len(applied[s])
                       => s \in {a, sudoKey}
<1>1. RuntimeInv /\ [Next]_vars => [Step]_vars
  <2> SUFFICES ASSUME RuntimeInv, [Next]_vars, NEW a \in AccountId, NEW s \in AccountId,
                      balance'[a] < balance[a], Len(applied'[s]) > Len(applied[s])
               PROVE  s \in {a, sudoKey}
    OBVIOUS
  <2>1. Len(applied[s]) \in Nat
    BY DEF RuntimeInv, LedgerTypeOK
  <2>2. PICK tx \in Extrinsic : apply_extrinsic(tx)
    BY <2>1, OtherSteps DEF Next
  <2>3. s = tx.signer
    BY <2>2, OnlySignerGrows
  <2>4. ASSUME a # tx.signer
        PROVE  IsDispatched(tx) /\ Dispatched(tx).origin # tx.signer
    BY <2>2, <2>4, OthersPay
  <2>5. QED
    BY <2>2, <2>3, <2>4, RootIsSudo
<1>2. QED
  BY <1>1, RuntimeInvariant, PTL DEF Spec, NobodyPaysForAnother
=============================================================================
