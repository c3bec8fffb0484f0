---------------------------- MODULE LaunchProofs -----------------------------
(***************************************************************************)
(* A chain that runs can be operated and has a runtime, whatever keyring   *)
(* and amounts genesis is given and however the scripts are used.          *)
(***************************************************************************)
EXTENDS Launch, FiniteSetTheorems, TLAPS

-----------------------------------------------------------------------------
(* Genesis.                                                                *)

(* Five keys are at most five. *)
LEMMA FiveKeys ==
  ASSUME NEW a, NEW b, NEW c, NEW d, NEW e
  PROVE  Cardinality({a, b, c, d, e}) <= 5
<1>1. IsFiniteSet({}) /\ Cardinality({}) = 0
  BY FS_EmptySet
<1>2. IsFiniteSet({} \cup {a}) /\ Cardinality({} \cup {a}) \in 0..1
  BY <1>1, FS_AddElement
<1>3. /\ {} \cup {a} \cup {b} = {a, b}
      /\ {a, b} \cup {c} = {a, b, c}
      /\ {a, b, c} \cup {d} = {a, b, c, d}
      /\ {a, b, c, d} \cup {e} = {a, b, c, d, e}
  OBVIOUS
<1>4. IsFiniteSet({a, b}) /\ Cardinality({a, b}) \in 0..2
  BY <1>2, <1>3, FS_AddElement
<1>5. IsFiniteSet({a, b, c}) /\ Cardinality({a, b, c}) \in 0..3
  BY <1>3, <1>4, FS_AddElement
<1>6. IsFiniteSet({a, b, c, d}) /\ Cardinality({a, b, c, d}) \in 0..4
  BY <1>3, <1>5, FS_AddElement
<1>7. Cardinality({a, b, c, d, e}) \in 0..5
  BY <1>3, <1>6, FS_AddElement
<1>8. QED
  BY <1>7

(* The authorities of the presets are not among the keys that get nothing.  *)
LEMMA AuthoritiesAreNamed == {Alice, Bob} \cap {One, Two} = {}
<1>1. Cardinality({Alice, Bob, AliceStash, BobStash, One, Two}) = 6
  BY KeyringAssumption
<1>2. ASSUME Alice \in {One, Two} \/ Bob \in {One, Two}
      PROVE  FALSE
  <2>1. \/ {Alice, Bob, AliceStash, BobStash, One, Two}
             = {Bob, AliceStash, BobStash, One, Two}
        \/ {Alice, Bob, AliceStash, BobStash, One, Two}
             = {Alice, AliceStash, BobStash, One, Two}
    BY <1>2
  <2>2. /\ Cardinality({Bob, AliceStash, BobStash, One, Two}) <= 5
        /\ Cardinality({Alice, AliceStash, BobStash, One, Two}) <= 5
    BY FiveKeys
  <2>3. QED
    BY <1>1, <2>1, <2>2
<1>3. QED
  BY <1>2

Operable(g) ==
  /\ g.aura # {} /\ g.aura = g.grandpa
  /\ \A k \in g.aura \cup {g.sudo} :
       k \in DOMAIN g.balances /\ g.balances[k] >= EXISTENTIAL_DEPOSIT

(* A genesis whose authorities and sudo key are endowed can be operated. *)
LEMMA EndowedIsOperable ==
  ASSUME NEW authorities, NEW endowed, NEW root,
         authorities # {}, authorities \cup {root} \subseteq endowed
  PROVE  Operable(testnet_genesis(authorities, endowed, root))
<1> DEFINE g == testnet_genesis(authorities, endowed, root)
<1>1. /\ g.aura = authorities /\ g.grandpa = authorities /\ g.sudo = root
      /\ g.balances = [k \in endowed |-> ENDOWMENT]
  BY DEF testnet_genesis
<1> HIDE DEF g
<1>2. \A k \in endowed : k \in DOMAIN g.balances /\ g.balances[k] = ENDOWMENT
  BY <1>1
<1>3. ENDOWMENT >= EXISTENTIAL_DEPOSIT
  BY AmountsAssumption
<1>4. Operable(g)
  BY <1>1, <1>2, <1>3 DEF Operable
<1>5. QED
  BY <1>4 DEF g

LEMMA PresetsAreOperable ==
  ASSUME NEW id \in Preset
  PROVE  Operable(get_preset(id))
<1>1. Operable(development_config_genesis)
  BY EndowedIsOperable DEF development_config_genesis
<1>2. Operable(local_config_genesis)
  <2>1. {Alice, Bob} \cup {Alice} \subseteq Keyring \ {One, Two}
    BY KeyringAssumption, AuthoritiesAreNamed
  <2>2. QED
    BY <2>1, EndowedIsOperable DEF local_config_genesis
<1>3. QED
  BY <1>1, <1>2 DEF Preset, get_preset

-----------------------------------------------------------------------------
(* Launching.                                                              *)

LaunchInv == LaunchTypeOK /\ RunningChainHasRuntime /\ GenesisIsOperable

(* What a chain is started on is a preset: one of the node's own, if the    *)
(* node has its runtime, or the one in the file.                           *)
LEMMA LoadedSpec ==
  ASSUME LaunchTypeOK, NEW chain \in Chain, load_spec(chain) # None
  PROVE  /\ load_spec(chain) \in Preset
         /\ chain \in Preset => binary = "full"
         /\ chain \notin Preset => chain = "file" /\ specFile # None
  BY DEF LaunchTypeOK, Chain, Preset, load_spec, chain_spec

LEMMA RunInv ==
  ASSUME LaunchInv, NEW chain \in Chain, NEW key \in {Alice, Bob, None}, run(chain, key)
  PROVE  LaunchInv'
<1>1. LaunchTypeOK /\ UNCHANGED <<nightly, rust, binary, specFile>> /\ node = None
  BY DEF LaunchInv, run
<1>2. CASE node' = node
  BY <1>1, <1>2
  DEF LaunchInv, LaunchTypeOK, RunningChainHasRuntime, GenesisIsOperable
<1>3. CASE /\ load_spec(chain) # None
           /\ node' = [chain |-> chain, genesis |-> get_preset(load_spec(chain)),
                       key |-> key, binary |-> binary]
  <2>1. /\ node'.chain = chain
        /\ node'.genesis = get_preset(load_spec(chain))
        /\ node'.key = key
        /\ node'.binary = binary
    BY <1>3
  <2>2. LaunchTypeOK'
    <3>1. binary # None
      BY DEF run
    <3>2. key \in Keyring \cup {None}
      BY KeyringAssumption
    <3>3. QED
      BY <1>1, <2>1, <3>1, <3>2 DEF LaunchTypeOK
  <2>3. RunningChainHasRuntime'
    BY <1>1, <1>3, <2>1, LoadedSpec DEF RunningChainHasRuntime, Preset
  <2>4. GenesisIsOperable'
    <3>1. Operable(node'.genesis)
      BY <1>1, <1>3, <2>1, LoadedSpec, PresetsAreOperable
    <3>2. QED
      BY <3>1 DEF GenesisIsOperable, Operable
  <2>5. QED
    BY <2>2, <2>3, <2>4 DEF LaunchInv
<1>4. QED
  BY <1>2, <1>3 DEF run

(* The scripts and the exports leave a running node alone, and an exported  *)
(* specification is never taken back.                                      *)
LEMMA CommandInv ==
  ASSUME LaunchInv, node' = node \/ node' = None,
         LaunchTypeOK', specFile # None => specFile' # None
  PROVE  LaunchInv'
  BY DEF LaunchInv, RunningChainHasRuntime, GenesisIsOperable

LEMMA LaunchInvariant == Spec => []LaunchInv
<1>1. Init => LaunchInv
  BY DEF Init, LaunchInv, LaunchTypeOK, RunningChainHasRuntime, GenesisIsOperable
<1>2. LaunchInv /\ [Next]_vars => LaunchInv'
  <2> SUFFICES ASSUME LaunchInv, [Next]_vars PROVE LaunchInv'
    OBVIOUS
  <2>0. LaunchTypeOK
    BY DEF LaunchInv
  <2>1. ASSUME NEW wants \in BOOLEAN, setup(wants)
        PROVE  LaunchInv'
    <3>1. LaunchTypeOK'
      BY <2>0, <2>1 DEF setup, LaunchTypeOK
    <3>2. QED
      BY <2>1, <3>1, CommandInv DEF setup
  <2>2. ASSUME NEW skip \in BOOLEAN, NEW use \in BOOLEAN, build(skip, use)
        PROVE  LaunchInv'
    <3>1. LaunchTypeOK'
      BY <2>0, <2>2 DEF build, LaunchTypeOK
    <3>2. QED
      BY <2>2, <3>1, CommandInv DEF build
  <2>3. ASSUME NEW preset \in Preset, export_chain_spec(preset)
        PROVE  LaunchInv'
    <3>1. preset # None
      BY <2>3 DEF export_chain_spec, chain_spec
    <3>2. LaunchTypeOK'
      BY <2>0, <2>3 DEF export_chain_spec, LaunchTypeOK
    <3>3. QED
      BY <2>3, <3>1, <3>2, CommandInv DEF export_chain_spec
  <2>4. CASE stop
    <3>1. LaunchTypeOK'
      BY <2>0, <2>4 DEF stop, LaunchTypeOK
    <3>2. QED
      BY <2>4, <3>1, CommandInv DEF stop
  <2>5. CASE UNCHANGED vars
    <3>1. LaunchTypeOK'
      BY <2>0, <2>5 DEF vars, LaunchTypeOK
    <3>2. QED
      BY <2>5, <3>1, CommandInv DEF vars
  <2>6. QED
    BY <2>1, <2>2, <2>3, <2>4, <2>5, RunInv DEF Next
<1>3. QED
  BY <1>1, <1>2, PTL DEF Spec

(* The nightly toolchain is only ever rustup's, whichever step of setup     *)
(* fails.                                                                  *)
THEOREM LaunchTypeCorrect == Spec => []LaunchTypeOK
  BY LaunchInvariant, PTL DEF LaunchInv

(* A node built without WASM_BINARY has no chain of its own: it runs only   *)
(* from the file an earlier complete build has exported.                   *)
THEOREM RunningChainsHaveRuntimes == Spec => []RunningChainHasRuntime
  BY LaunchInvariant, PTL DEF LaunchInv

(* Both presets endow their authorities and the sudo key, though "local"    *)
(* leaves keys of the keyring out.                                         *)
THEOREM GenesesAreOperable == Spec => []GenesisIsOperable
  BY LaunchInvariant, PTL DEF LaunchInv
=============================================================================
