# Verification of the solochain node template

TLA+ models of this repository's node and runtime, TLC configurations that
check them on small instances, and TLAPS proofs of some of their properties for
every instance. Paths are relative to the repository.

    tlc -config MCAura_skew.cfg MCAura.tla       # a run; all are listed below
    tlapm AuraProofs.tla                         # the proofs of a module

`PROJECT.json` lists the runs, the source lines each definition models, a
mutation of the code that breaks each property, the hazards, the theorems and
the disagreements found between documents and code.

## The system

| Part | Code | State | Operations | What makes it correct |
|---|---|---|---|---|
| Template pallet | `pallets/template/src/lib.rs` | `Something`, events | `do_something`, `cause_error` | events and results account for the storage; no increment wraps or starts from nothing |
| Runtime | `runtime/src/lib.rs`, `apis.rs`, `configs/mod.rs` | balances, nonces, issuance, sudo key, code, authorized upgrade, weight and length of the block | `apply_extrinsic`, signed or bare, block boundaries | issuance conserved, no dust, no replay, only the sudo key acts for others and with their money, upgrades always fit and never go back unchecked |
| Aura authoring and import | `node/src/service.rs:86-115,241-287`, `configs/mod.rs:100-126` | each node's clock, database, head, captured slot duration | slots, proposals, imports, restarts, upgrades of the duration | no equivocation, blocks of honest authors accepted by all, honest proposals never refused, everybody catches up |
| Node service | `node/src/service.rs`, `node/src/command.rs` | tasks, TaskManager, result | the steps of `new_partial` and `new_full`, ends of tasks, signals | nothing outlives the node, which runs with all its parts and does not outlive its essential tasks |
| Build, genesis, launch | `scripts/`, `node/src/chain_spec.rs`, `genesis_config_presets.rs` | toolchain, binary, specification file, running node | setup, build, export, run | what runs has a runtime and an operable genesis |
| GRANDPA finality | `node/src/service.rs:65,78-84,289-332`, `command.rs:97-108`, `apis.rs:144-172` | votes, rounds, estimates, finalized block and head of each node | block import, prevote, precommit, next round, finalize, `revert` | what is final agrees on all nodes, keeps every head on its chain and reaches every node |
| Benchmark extrinsics | `node/src/benchmarking.rs`, `runtime/src/lib.rs:150-169` | none; reads the head twice | `create_benchmark_extrinsic` | an extrinsic is accepted in the blocks of its era on the head it was made for, and never off that head's chain |
| JSON-RPC | `node/src/rpc.rs` | none | `create_full` | a failure stops the startup (part of the node service) |
| Transaction pool | `node/src/service.rs:67-76`, `apis.rs:106-114` | validated extrinsics, all in the library | submit, revalidate | *not modelled*: see "left out" |
| Weights, command line, queries, mock, Docker, Nix, migration | see `PROJECT.json` | none | - | *not modelled* |

Interactions. The node's authoring task asks the runtime, in the state of the
block it builds on, for authorities and timestamps, and the import queue asks it
in the state of each block's parent. A runtime upgrade applied by one block
changes what both get from the next one on, while the slot duration that the
authoring task captured at startup stays. Blocks of both pass through GRANDPA's
block import; its voter votes by the longest chain of the same database, and
what it finalizes decides which forks the other two may still build on. The runtime hands every extrinsic to
pallets with the origin that its signer, or sudo, gives it. The node service
owns the tasks in which all of this runs.

Hard to test. Authors that hold a stale slot duration or a superseded head;
clocks that differ; restarts in a slot already used; balances written four
times by one extrinsic; upgrades in the middle of a full block, or applied long
after they were authorized; a sudo key that is handed on; tasks that end
while the startup is still going on; failures after tasks were spawned; votes
for a chain that reorganises, in rounds that are left on different views, and a
`revert` of blocks that were voted for. Every
one of these is a hazard in `PROJECT.json` with the properties that guard it,
or a note that says why none does.

## The modules

`TemplatePallet` is the pallet, called from any origin. Its constants name the
accounts, the two special origins and the top of the integer range; the
variables are the storage item, the last event, the last result and a count
of the increments since the event (history, for `ValueAccountedFor`).

`Runtime` extends it with the state transition function. `apply_extrinsic` is
one action, as in the code, and its definition follows the order of the code:
the extensions of `TxExtension` (`Valid`; a refused extrinsic changes nothing
and is not a step), the fee, the dispatch through sudo or not, the removal of
dust, the refund of calls that pay nothing, the nonce, the weight and length. A
dispatch that fails is rolled back, except for fee, nonce, weight and length.
`apply_bare` is the one extrinsic without a signer that this runtime lets
through: the code of an authorized upgrade, which anyone may also send signed.
`DispatchSystem` has the ways in which code gets into storage: `set_code` and
`set_code_without_checks` at once, by root; `authorize_upgrade` by root and
`apply_authorized_upgrade` by anyone, later (`authorized`). Code stands for the runtime
it is, and a runtime for its `spec_version`. `NextBlock` ends the block, and
the code in storage executes the next one. `CheckWeight` has both halves of the
library's extension of that name: weights (`RuntimeBlockWeights`) and the block's
length (`RuntimeBlockLength`), in which code and remarks differ from all other
extrinsics. The library's pallets are modelled
from the configuration in `configs/mod.rs` and marked external where nothing of
the behaviour is in this repository. History variables: `applied`, the nonces of
each account's extrinsics, and `checked`, whether the code in storage had its version checked.

`Aura` has a wall clock, clocks of the nodes that differ from it by a constant,
the tree of all authored blocks and, for each node, its database, head, captured
slot duration, last slot and proposal in progress. The proposal is made in two
actions, as in the code: the slot worker wakes and reads the head (`OnSlot`),
and the proposal is finished (`Propose`) or fails (`Abandon`), with imports,
ticks and loss of peers in between. `Propose` may replace the runtime by one with another
`SLOT_DURATION`. `Executes` collects the assertions of the runtime of a block's
parent. A restart keeps the database and forgets the proposal and the slots used.
`HeadsRefined` is the refinement: without clocks and slots, what is left of
every step is one of `LongestChain`'s.

`BlockTree` is the tree of all blocks ever authored, and `LongestChain` what
nodes promise about it: a node knows whole chains, and its head is the highest
of its blocks, the first it saw of those (`sc_consensus::LongestChain`,
`service.rs:65`). `Grandpa` and `BenchmarkExtrinsic` extend it, and `Aura`
implements it.

`GrandpaVotes` is what the votes promise, as an abstract specification. It has
no messages: a voter acts on any subset of the votes cast that it could have
seen (`Views`), which covers delay, loss and reordering; `Estimates` is the set of
estimates with which a voter may leave a round, over all such subsets. Voting
is the library's (`finality_grandpa`), so these definitions are marked external;
the repository's part is who votes (genesis), for what (`select_chain`,
`voting_rule`) and when the voter is started.

`Grandpa` composes both: each node has a database, a head and a finalized block,
each authority a round. `CastPrevote` votes on the longest chain that contains an
estimate of the round before, as any view up to that moment gives it; the
default voting rules (`service.rs:318`) hold a vote back by some blocks, so it may be
any block between the two. `ImportBlock` refuses a block off the finalized chain,
`Finalize` moves a head that is not on it, and `Revert` takes the head back to a
block not before the finalized one and removes everything higher, and no vote.
A restart is a stuttering step: votes, rounds, database and finalized block are on
disk. `VotesRefined` is the refinement: although estimates and a node's head are of
different moments, the nodes' votes are those of `GrandpaVotes`.

`BenchmarkExtrinsic` reads the best hash and the best number in two steps, as
`benchmarking.rs:105-106` do, while the client may import any block in between (the
benchmark commands start no task that imports; a client that does is the general case).
`Accepts` is what CheckEra and the signature make of the result in a block.

`NodeService` writes the startup as sequences of steps in the order of the
code; a step has the flags that ask for it, whether it can fail, and the tasks
it spawns. `Proceed` and `Fail` take the next one. The authoring task, pool,
import queue, network and GRANDPA voter are essential. Building the RPC module
(`rpc.rs`) is a step of its own after the first task of `spawn_tasks` runs.

`Launch` goes from a checkout to a running chain: `wsl-setup.sh`,
`wsl-build.sh`, `build-spec`/`export-chain-spec`, `wsl-run.sh` and the node's
`--chain`.

`MC*` modules give the constants of these values for TLC, and `*Proofs` modules
hold the theorems. Operators named `X_Something`, with a comment "Mutant", are
plausible bugs of `X`: none is part of a specification, and each is there to
show that a property would notice it.

## The runs

| Run | States | What it shows |
|---|---|---|
| `template_pallet` | 243 | `ValueAccountedFor`, `NoSilentDecrease` over every call by three accounts |
| `runtime_ledger` | 29,000 | `IssuanceConserved`, `NoDust`, `NoReplay`, `NobodyPaysForAnother` |
| `runtime_upgrade` | 175,000 | `UpgradeAlwaysFits`, `NoStaleUpgrade`, `OnlySudoActsForOthers` |
| `aura_skew` | 654,000 | `NoEquivocation`, `FreshAuthorSucceeds`, `PeersAccept`, `ChainTimeBounded`, `HeadsRefined` |
| `aura_upgrade` | 413,000 | `LongerSlotsHaltChain`, `NoWastedSlot`, `StaleAuthorsHalt`, and `NodesCatchUp` under fairness |
| `grandpa_votes` | 254,000 | `FinalityAgrees`, with one voter of four missing or not |
| `grandpa_node` | 102,000 | `HeadKeepsFinality`, `NodesFinalizeOneChain`, `VotesRefined`, and `FinalityIsShared` under fairness |
| `benchmark_extrinsic` | 96,000 | `ValidForItsEra`, `BoundToItsHead` |
| `node_service` | 170,000 | `NodeIsWhole`, and three liveness properties of the process |
| `launch` | 1,400 | `RunningChainHasRuntime`, `GenesisIsOperable` |
| `launch_skip`, `launch_nightly` | - | violated: see "Disagreements" |

Deadlock is checked in every run but `node_service`: a process that has
returned, with its tasks stopped, has nothing left to do. In the two GRANDPA
runs this is a result of its own: until everybody has voted in the last round
(`Finished`, `AllCast`), there is no state in which all voters wait.

Bounds, and why they are enough:

- `U32Max` is 7 in the pallet's run, 1 in the ledger's, and 0 in the upgrades', where only
  the announced name matters. The code looks at the
  value only to compare it with the maximum, and the proofs are for every maximum.
- Balances are a few units: existential deposit 2, fee 1, endowments 6 and 5.
  Every comparison comes out either way, every account can die and Charlie
  can be born. `MaxNonce` is 3, so that an account can die, be born again and go on.
- A block takes the weight of four extrinsics, three of them normal, which is the shape of
  the 75% ratio; the inherents take one. Its length is six, of which normal extrinsics
  may fill four: code is two long, a remark three, inherents and all others one, so that
  weight or length runs out first. The class reserves overlap in both.
- Upgrades: versions 100, 101 and 102, the least in which a later upgrade overtakes a
  pending one; Alice hands the key on to Bob or removes it, each of them has three
  extrinsics, and any number of bare ones.
- Aura: a slot is four units of time, so that clocks, timestamps and
  `MinimumPeriod` (two) can differ within a slot, and the runs cover two to
  three slots of two authors, four blocks besides genesis (three where the runtime
  is upgraded), one restart and one upgrade. Forks, a head that moves during a
  proposal and a restart in a used slot all occur; the clocks of `aura_skew` are a
  slot apart.
  Upgraded durations are half (2), odd and rounded down (3, 5) and longer (6).
  The clocks of `aura_upgrade` start late enough for the slots of different
  durations to stay apart, as they do on a real clock (`SlotsStayApart`).
- `MaxDrift` (30 s in the library, five slots) is five slots.
- GRANDPA's votes: four voters are the fewest of which one may be missing; two
  rounds are what a conflict between rounds takes, and three blocks are genesis
  with a fork, or a chain of two. Voters are symmetric. The nodes' run
  has the local preset's Alice and Bob, who must both vote, and a full node
  without a key, two rounds and one `revert`, at any moment and of any node.
  Its invariants were checked with four blocks as well (a longer rival of what is
  final; 981,000 states without `revert`), which liveness makes too slow to list.
- Benchmark extrinsics: five block hashes are kept where the runtime keeps 2400,
  which makes the period four, the least there is; seven blocks on any forks
  besides genesis go past both.
- `NodeService` has no bound: all commands, flags and failures.

Fairness, and why the code justifies it:

- `Aura` (`aura_upgrade`, for `NodesCatchUp`): the clock runs; a slot worker is a task
  that sleeps until the next slot and is polled (weak fairness of `OnSlot` and of
  finishing a proposal); a node looks for peers until it has some (weak fairness
  of `FindPeers`); sync asks for missing blocks again and again whenever there are
  peers (strong fairness of `Import`, since peers may be lost again and again).
  Nothing makes an authority author or a node restart.
- `Grandpa`: a node that has a block to import or to finalize does one or the
  other in the end (weak fairness): import queue and voter are polled, and both
  blocks and commits are asked for again. Nobody has to author or to vote.
- `NodeService`: the startup runs on the main thread and returns (weak fairness
  of its steps); the runner polls the TaskManager and the signals; a task is
  polled once more after the TaskManager is gone. No task has to end, no offline
  command has to finish, no signal has to arrive.

What the runs say about the NOTE at `runtime/src/lib.rs:88-89` ("not possible to
change the slot duration after the chain has started. Attempting to do so will
brick block production"): it is so for every node that has not restarted since
the upgrade (`StaleAuthorsHalt`), because `service.rs:250` captures the duration;
with longer slots also for those that have (`LongerSlotsHaltChain`), because
slots would be numbered backwards. With shorter slots the chain goes on once
its authors restart: the model has such behaviours, and every node gets their
blocks (`NodesCatchUp`), because `service.rs:95` reads the duration at the parent.

## The proofs

TLAPS checks these for all values of the constants that satisfy the modules'
ASSUMEs (names ending in `Assumption`).

- `TemplatePalletProofs`: `PalletTypeCorrect`, `PalletValueAccountedFor` and
  `PalletNoSilentDecrease`. The inductive invariant conjoins types and the
  accounting: that `increments` stays a u32 follows from the value being one,
  and needs the equation between them.
- `RuntimeProofs`: `RuntimeValueAccountedFor` carries the pallet's accounting over to the
  runtime. Every extrinsic is a call of the pallet or leaves it alone, from an origin in
  `Origin` (the lemma `RuntimeRefinesTemplate`), which needs that a call offered to the pallet is
  well-formed and that sudo's inner calls are plain.

  The invariants' theorems (`RuntimeTypeCorrect`, `IssuanceIsConserved`, `NoDustIsLeft`,
  `NothingIsReplayed`, `UpgradesFit`) and the action properties'
  (`NoUpgradeIsStale`, `OnlySudoActs`, `NobodyElsePays`) follow from `RuntimeInv`:
  types, `IssuanceConserved`, `NoDust`, `NoReplay`, `CheckedIsNotOlder` and `ReserveIsFree`
  together. The first three are not inductive
  alone: that burning a fee leaves a natural issuance needs every balance to be
  part of the sum, and that a transfer leaves no dust needs that there was none.
  `CheckedIsNotOlder` says that code whose version was checked is not older than the version
  that executes, from when it is stored on; `NoUpgradeIsStale` needs nothing else of how
  an upgrade was authorized. `ReserveIsFree` says that a block without operational
  extrinsics is no longer than the normal limit: `CheckWeight` tests each extrinsic, and
  what the first operational one finds is the sum of all tests before it.
  `OnlySudoActs` has one case per way in which code is stored or the key is
  moved, and `NobodyElsePays` uses that fee and transfer leave all but two balances alone.
  `Total` is a recursive function over the sets of accounts. That it exists, adds
  up and changes by what one balance changes is proved by taking a smallest set
  for which it fails, because the library's induction rules cannot be used here.
- `AuraProofs`: `AuraTypeCorrect` and `FreshAuthorsAlwaysSucceed`. The inductive
  invariant `AuraInv` adds to the types (heads and parents of proposals in the
  databases included) that a proposal's slot is the one its timestamp falls in
  by the duration its author uses (`ClaimInv`): without it nothing is known of
  where the pushed timestamp starts from. The arithmetic is in lemmas:
  `PushedTimeStaysInSlot` says that when the parent's time lies in an earlier
  slot, half a slot after it is before the end of the proposal's.

  `AuraRefinesLongestChain` proves `HeadsRefined`: a finished proposal is a block
  on a parent that its author knows, an import one of a block whose parent the
  node knows, and every other step a stutter. It needs `AuraInv` (parents of
  proposals are in the database) and `GenesisInv` (nobody imports genesis).

  Six theorems are about slots and time: `NeverEquivocates`, `ChainTimeIsBounded`,
  `NoSlotIsWasted`, `PeersAlwaysAccept`, `StaleAuthorsAreRefused` and
  `LongerSlotsAlwaysHalt`, with any upgrades of the slot duration, skews and
  restarts. They assume `SlotsStayApart`: while the clocks run, the slots counted by
  a longer duration lie behind those counted by a shorter one. Without it they are
  false, since a slot is a bare number (an author could use one twice, counted
  by two durations); with one duration it says nothing, and for a clock that counts
  from 1970 and durations d < e it holds until the clock has gone from t to about
  t*e/d, which takes decades (`MCAura` asserts it of the runs' clocks).
  `PeersAlwaysAccept` also assumes `ClocksAgree`: clocks differ by at most a slot and
  `MaxDrift` spans two.

  The invariant `SlotInv` relates the counters of slots: the worker's last one is not
  ahead of the clock, a proposal's is the worker's last, and a block's is no later
  than its author's last one, if the author counts by the duration of the block's
  parent, and earlier than the slot it is proposing for. An invariant with the
  blocks alone would not exclude that a restarted worker claims a slot again.
  Two lemmas carry upgrades: a slot tells the duration it is counted by
  (`SlotTellsDuration`), and the runtime executes only what was proposed with its own
  (`ProposesAsCounted`), even though the timestamp may have been pushed.

- `NodeServiceProofs` proves `NodeTypeCorrect` and `RunningNodeIsWhole` (`NodeIsWhole`) for every
  configuration. `NodeIsWhole` is not inductive: it says nothing of a startup that is
  still going on. `ServiceInv` says that the steps that are over have spawned their tasks
  (`SpawnedInv`), and that until the TaskManager is dropped, which no startup
  outlives, the end of every essential task is signalled. `Spawners` and `Flags` read from the two
  sequences of steps what each spawns and which flag asks for it.

- `LaunchProofs`: `LaunchTypeCorrect`, `RunningChainsHaveRuntimes` and
  `GenesesAreOperable`, for every keyring and every amount. That "local" endows its
  authorities needs that they are not among the two keys it leaves out, which
  `KeyringAssumption` says by counting the six names.

- `BlockTreeProofs`: no theorems, but what those on finality and eras know of a
  tree of any size. `Chain` is a recursive function; that it satisfies its own
  equation (`ChainIsRecursive`), that chains are nested and any two blocks of one are
  in line, and that no chain changes when the tree grows (`ChainsStay`), is proved by
  taking the first block for which it fails (`FirstBlock`).

- `GrandpaProofs`, on the votes: `VotesTypeCorrect` and `FinalityAgreesAlways`, for every
  number of voters, rounds and blocks. Say that a round has *blocked* a block when more voters
  than may be faulty have voted in it for blocks that are not built on it,
  and that it has *settled* e when it has blocked every block off the chain of e.
  `VotesInv` says that a precommit is for a block with a supermajority of prevotes
  and that a vote of a later round is for a block built on one that the round
  before has settled. Both last: votes are added, never taken back, and a new block is
  opposed by everybody who has voted (`NothingIsUndone`). The core is
  `EstimatesSettle`: with any view of the precommits that completes the round,
  whoever leaves it has an estimate that the round has settled. Then a block that is
  final in a round is not blocked in it (`FinalIsNotBlocked`), so it is on the chains
  of what the round has settled, so all votes of the next round are built on it, and
  so on for all rounds (`LaterVotesAgree`); within one round two supermajorities have a
  voter in common. Voters do not equivocate in the model, and the proof uses that
  (`OneVote`).

- `GrandpaProofs`, on the nodes: `NodesImplementVotes` proves `VotesRefined`, and `NodesAgree`
  proves `NodesFinalizeOneChain`: what a node has finalized, the votes have made final
  (`FinalByVotes`, which lasts because finality by votes does, `FinalStaysFinal`), and `FinalityAgrees` holds of the
  nodes' votes over the refinement. `HeadsKeepFinality` and
  `GrandpaTypeCorrect` are about any number of nodes, with or without keys. The
  abstract protocol knows votes only, a voter its round: `NobodyAhead` says that it has
  never voted in a later one. `HeadsKeep` needs `WholeChains`: what `revert` removes is
  higher than its target, and the finalized block is on the target's chain.

- `BenchmarkExtrinsicProofs`: `ExtrinsicsAreValidForTheirEra`, and
  `ExtrinsicsAreBoundToTheirHead` where more than two hashes are kept (with two, an era
  of four blocks, the shortest there is, is too long). The invariant says that the head
  whose hash was read is no higher than the head whose number is read after it
  (`BuilderInv`). From the number on, an era starts at the number or later (`Births`), at the
  block signed only if the two are of one number. A lower block may take an era of the same
  phase to have started at the block signed: it accepts a torn extrinsic,
  and the theorem says that nothing else does. `BirthsAreRecent` bounds how long. `NextPower` says that half the next power of two of `BlockHashCount` is less
  than it; the prover knows no law of `^`, so a power of two is defined by having no odd
  divisor (`IsPowerOfTwo`; `MCBenchmarkExtrinsic` asserts that up to 128 these
  are the powers).

Only model-checked: liveness (`NodesCatchUp`, `FinalityIsShared`, three properties of
`NodeService`), which the prover does not handle. Every invariant and every action
property that a passing run checks is a theorem.

## Disagreements between documents and code

1. `README.md:389` and `132-135` say that a node built with `SKIP_WASM_BUILD=1`
   can be used for development and run with `--dev`; `chain_spec.rs:9` refuses.
   (From an exported specification it does run: `RunningChainHasRuntime`.)
2. `wsl-build.sh:37`: `a || b && c` is `(a || b) && c`, so that
   `USE_NIGHTLY_WASM=1`, which line 45 advises, does nothing where no nightly
   toolchain is installed.

No run is spent on a third, which one look at `GenesisIsOperable`'s genesis shows:
`README.md:509` names Alice and Bob as the authorities of a development chain, and
`genesis_config_presets.rs:54` makes Alice the only one.

## What is abstracted or left out

- In `Runtime`, extrinsics are immortal (`BenchmarkExtrinsic` has mortal ones) and
  untipped, of one weight and one fee: neither class nor length changes the fee, nor does
  the weight that `sudo_unchecked_weight` is given. Signatures are valid. `NoReplay` is
  about the lifetime of an account: a reaped account loses its nonce, and
  immortal extrinsics it once signed become valid again when it is refunded.
- Calls: of System, `set_heap_pages`, `set_storage`, `kill_storage`, `kill_prefix`,
  `remark_with_event` and `do_task` (with the storage calls, root may change any state, and no
  property would be left to state); of Balances, `transfer_all`, `burn`, `upgrade_accounts` and the
  `force_*` calls; Grandpa's `report_equivocation*` and `note_stalled`; a sudo call inside a sudo
  call. Code that is not a runtime of this chain (`set_code` refuses it,
  `set_code_without_checks` would store it), and migrations, of which there are none.
- Locks, reserves, holds and freezes of Balances: no pallet here makes any.
- Authors follow the protocol, and clocks do not step. The deadline of a proposal
  (two thirds of a slot, more after slots without a block) is the end of
  the slot, or any time when it follows skipped slots.
- `LongerSlotsHaltChain` is about the horizon of a run (`SlotsStayApart`). With
  durations d < e the slots counted by e pass the last one counted by d when the clock
  has gone from t to t*e/d: for a clock that counts from 1970, decades.
- The transaction pool: the code configures the library's pool and answers its
  questions with the executive. Whatever a pool may do (hold an extrinsic over
  an upgrade, offer it again in a later block, drop it) `Runtime` does with every
  extrinsic there is, so a module for it would describe the library only.
- GRANDPA: voters that equivocate (nothing here reports or punishes them: `apis.rs:162-171`),
  changes of the authority set (no pallet makes any; `revert`'s call of
  `sc_consensus_grandpa::revert`, `command.rs:103`, undoes such changes only, and has
  none to undo), justifications every 512 blocks, warp sync, and gossip.
- `wsl-migrate.sh`: it removes its target and then copies (lines 34-37), a plain
  sequence of two commands on one developer's path.
- Weights, RPC methods, command-line parsing, metadata, Docker, Nix and the migration
  script: constants, queries and deployment without a state of their own.

## Plan

The modules that were planned are written: `TemplatePallet`, `Aura`, `Runtime`,
`NodeService`, `Launch`, then `LongestChain`, `GrandpaVotes`, `Grandpa` and
`BenchmarkExtrinsic`. The transaction pool is left out for the reason above. Every
safety property of the runs and every refinement is proved; liveness is left to TLC.
