------------------------------- MODULE Launch -------------------------------
(***************************************************************************)
(* From a checkout to a running chain: the environment is set up, the      *)
(* scripts build the node with or without its WASM runtime, and the node   *)
(* is launched on a preset or on a chain specification file, whose genesis *)
(* fixes the authorities, the sudo key and the balances.                   *)
(***************************************************************************)
EXTENDS Integers, FiniteSets

CONSTANTS
  Keyring,                   \* Sr25519Keyring
  Alice, Bob, AliceStash, BobStash, One, Two,  \* members of it that are named
  ENDOWMENT,                 \* 1 << 60
  EXISTENTIAL_DEPOSIT,
  None

ASSUME KeyringAssumption ==
  /\ {Alice, Bob, AliceStash, BobStash, One, Two} \subseteq Keyring
  /\ Cardinality({Alice, Bob, AliceStash, BobStash, One, Two}) = 6
  /\ None \notin Keyring
ASSUME AmountsAssumption ==
  /\ {ENDOWMENT, EXISTENTIAL_DEPOSIT} \subseteq Nat
  /\ ENDOWMENT >= EXISTENTIAL_DEPOSIT

VARIABLES
  nightly,   \* a nightly toolchain is installed
  rust,      \* where Rust comes from: None, "distribution" or "rustup"
  binary,    \* the node in target/release: None, "no_wasm" or "full"
  specFile,  \* a specification exported to a file: None or the preset it is of
  node,      \* the running node, or None
  last       \* the last command, with what it was asked for and what it did

vars == <<nightly, rust, binary, specFile, node, last>>

Chain  == {"dev", "local", "file"}
Preset == {"dev", "local"}

-----------------------------------------------------------------------------
(* Genesis.                                                                *)

(* Mutant: the endowments are forgotten for the authorities. *)
testnet_genesis_StashesOnly(authorities, endowed, root) ==
  [aura     |-> authorities,
   grandpa  |-> authorities,
   balances |-> [k \in endowed \ authorities |-> ENDOWMENT],
   sudo     |-> root]

testnet_genesis(authorities, endowed, root) ==
  [aura     |-> authorities,
   grandpa  |-> authorities,
   balances |-> [k \in endowed |-> ENDOWMENT],
   sudo     |-> root]

development_config_genesis ==
  testnet_genesis({Alice}, {Alice, Bob, AliceStash, BobStash}, Alice)

local_config_genesis == testnet_genesis({Alice, Bob}, Keyring \ {One, Two}, Alice)

get_preset(id) ==
  CASE id = "dev"   -> development_config_genesis
    [] id = "local" -> local_config_genesis

-----------------------------------------------------------------------------

Init ==
  /\ rust \in {None, "distribution", "rustup"}
  /\ nightly \in BOOLEAN
  /\ nightly => rust = "rustup"
  /\ binary = None
  /\ specFile = None
  /\ node = None
  /\ last = [op |-> "none"]

(* Mutant: without `set -e`, setup goes on when rustup is missing. *)
setup_GoesOn(wantsNightly) ==
  /\ rust' = IF rust = None THEN "rustup" ELSE rust
  /\ nightly' = (nightly \/ wantsNightly)
  /\ last' = [op |-> "setup"]
  /\ UNCHANGED <<binary, specFile, node>>

(* wsl-setup.sh installs rustup where there is no Rust, and the nightly     *)
(* toolchain on request.  Where Rust comes from a distribution it stops at *)
(* `source ~/.cargo/env`; a failure may stop it before either.             *)
setup(wantsNightly) ==
  /\ \/ /\ rust = "distribution"
        /\ UNCHANGED <<nightly, rust>>
     \/ /\ rust # "distribution"
        /\ rust' \in {rust, "rustup"}
        /\ nightly' \in {nightly, nightly \/ (wantsNightly /\ rust' = "rustup")}
  /\ last' = [op |-> "setup"]
  /\ UNCHANGED <<binary, specFile, node>>

(* wsl-build.sh.  `a || b && c` is `(a || b) && c` in a shell: nightly is   *)
(* used only if it is installed.  A build may fail; the binary of an       *)
(* earlier one then stays.                                                 *)
build(skipWasm, useNightly) ==
  LET toolchain == IF (useNightly \/ rust = "rustup") /\ nightly THEN "nightly" ELSE "default"
      built     == IF skipWasm THEN "no_wasm" ELSE "full"
  IN
  /\ rust # None
  /\ binary' \in {binary, built}
  /\ last' = [op |-> "build", skipWasm |-> skipWasm, useNightly |-> useNightly,
              toolchain |-> toolchain]
  /\ UNCHANGED <<nightly, rust, specFile, node>>

(* Mutant: an absent WASM_BINARY gives an empty code. *)
chain_spec_EmptyCode(preset) == preset

(* development_chain_spec, local_chain_spec: None without WASM_BINARY. *)
chain_spec(preset) == IF binary = "full" THEN preset ELSE None

(* The preset whose genesis the chain has, or None. *)
load_spec(chain) == IF chain \in Preset THEN chain_spec(chain) ELSE specFile

(* build-spec and export-chain-spec write the specification to a file. *)
export_chain_spec(preset) ==
  /\ binary # None
  /\ chain_spec(preset) # None
  /\ specFile' = preset
  /\ last' = [op |-> "export"]
  /\ UNCHANGED <<nightly, rust, binary, node>>

(* Run the node on a chain, with an authority's key or with none.  wsl-run  *)
(* and the README's commands use the preset "dev", which implies Alice.    *)
run(chain, key) ==
  /\ binary # None
  /\ node = None
  /\ chain = "dev" => key = Alice
  /\ \/ /\ load_spec(chain) = None
        /\ UNCHANGED node
        /\ last' = [op |-> "run", chain |-> chain, started |-> FALSE]
     \/ /\ load_spec(chain) # None
        /\ node' = [chain |-> chain, genesis |-> get_preset(load_spec(chain)),
                    key |-> key, binary |-> binary]
        /\ last' = [op |-> "run", chain |-> chain, started |-> TRUE]
  /\ UNCHANGED <<nightly, rust, binary, specFile>>

stop ==
  /\ node # None
  /\ node' = None
  /\ last' = [op |-> "stop"]
  /\ UNCHANGED <<nightly, rust, binary, specFile>>

Next ==
  \/ \E wants \in BOOLEAN : setup(wants)
  \/ \E skip, use \in BOOLEAN : build(skip, use)
  \/ \E preset \in Preset : export_chain_spec(preset)
  \/ \E chain \in Chain, key \in {Alice, Bob, None} : run(chain, key)
  \/ stop

Spec == Init /\ [][Next]_vars

-----------------------------------------------------------------------------
(* Properties.                                                             *)

(* Type invariant; toolchains are rustup's. *)
LaunchTypeOK ==
  /\ rust \in {None, "distribution", "rustup"}
  /\ nightly \in BOOLEAN
  /\ nightly => rust = "rustup"
  /\ binary \in {None, "no_wasm", "full"}
  /\ specFile \in Preset \cup {None}
  /\ node # None => /\ node.chain \in Chain
                    /\ node.key \in Keyring \cup {None}
                    /\ node.binary # None

(* A node runs a chain of its own presets only if it was built with its     *)
(* runtime; a node without a runtime runs from a file that an earlier,      *)
(* complete build of the node has written, or not at all.                  *)
RunningChainHasRuntime ==
  node # None /\ node.binary = "no_wasm" => node.chain = "file" /\ specFile # None

(* On whichever chain a node runs, every authority and the sudo key own an  *)
(* account that exists and can pay fees, and whoever authors blocks also    *)
(* votes on their finality.                                                *)
GenesisIsOperable ==
  node # None =>
    LET g == node.genesis IN
    /\ g.aura # {} /\ g.aura = g.grandpa
    /\ \A k \in g.aura \cup {g.sudo} :
         k \in DOMAIN g.balances /\ g.balances[k] >= EXISTENTIAL_DEPOSIT

(* The README on a build that skips the WASM runtime: "可以用于开发和测试"   *)
(* (it can be used for development and testing), with the command          *)
(* `solochain-template-node --dev`.                                        *)
SkippedWasmStillRuns ==
  last.op = "run" /\ last.chain = "dev" /\ binary = "no_wasm" => last.started

(* wsl-build.sh advises USE_NIGHTLY_WASM=1 to use the nightly toolchain.    *)
NightlyOnRequest ==
  last.op = "build" /\ ~ last.skipWasm /\ last.useNightly => last.toolchain = "nightly"
=============================================================================
