-------------------------------- MODULE Aura --------------------------------
(***************************************************************************)
(* Block authoring and import: the nodes of a chain's authorities author   *)
(* blocks in their Aura slots and import each other's.                     *)
(*                                                                         *)
(* A block carries a slot, chosen by its author, and a timestamp.  The     *)
(* runtime that executes it is the one in its parent's state: it asserts   *)
(* that the slot is new, that the timestamp is at least MinimumPeriod      *)
(* after the parent's, and that the timestamp falls in the slot.  A node   *)
(* reads the slot duration twice: once at startup, for the blocks it       *)
(* authors (node/src/service.rs, new_full), and in the state of the parent *)
(* for every block it imports (new_partial).  A runtime upgrade may change *)
(* the duration between the two.                                           *)
(***************************************************************************)
EXTENDS Integers, Sequences, FiniteSets

CONSTANTS
  Node,            \* the authorities, each with a node that holds its key
  Authorities,     \* the authorities of genesis, in order: a sequence of Node
  SLOT_DURATION,   \* of the genesis runtime
  Upgrades,        \* values of SLOT_DURATION in runtimes that may replace it
  Skew,            \* [Node -> Int]: a node's clock minus the wall clock
  ForceAuthoring,  \* nodes started with --force-authoring
  MaxDrift,        \* MAX_TIMESTAMP_DRIFT_MILLIS of pallet_timestamp
  StartTime,       \* the wall clock when the nodes start
  MaxTime,         \* bound: the wall clock stops here
  MaxBlocks,       \* bound: blocks authored, genesis included
  MaxUpgrades,     \* bound: blocks that replace the runtime
  MaxRestarts      \* bound: restarts of nodes

ASSUME AuthoritiesAssumption ==
  /\ Authorities \in Seq(Node)
  /\ Len(Authorities) > 0
ASSUME DurationAssumption == \A d \in Upgrades \cup {SLOT_DURATION} : d \in Nat /\ d >= 2
ASSUME ClockAssumption ==
  /\ {StartTime, MaxTime, MaxDrift} \subseteq Nat
  /\ Skew \in [Node -> Int]
  /\ \A n \in Node : StartTime + Skew[n] > 0
ASSUME BoundsAssumption ==
  /\ MaxTime >= StartTime
  /\ MaxBlocks \in Nat \ {0}
  /\ {MaxUpgrades, MaxRestarts} \subseteq Nat

VARIABLES
  wall,       \* the wall clock
  blocks,     \* every block authored; a block is named by its index
  known,      \* [Node -> blocks in the node's database]
  best,       \* [Node -> head of the node's longest chain]
  duration,   \* [Node -> slot duration read when the node started]
  lastSlot,   \* [Node -> last slot the node's slot worker was woken for]
  claim,      \* [Node -> the proposal in progress, or NoClaim]
  connected,  \* nodes with at least one peer
  restarts    \* number of restarts, for the bound

nodeVars == <<known, best, duration, lastSlot, claim>>
vars == <<wall, blocks, nodeVars, connected, restarts>>

Genesis == 1
NoClaim == [parent |-> 0, slot |-> 0, time |-> 0]

-----------------------------------------------------------------------------
(* The runtime.                                                            *)

MinimumPeriod(slotDuration) == slotDuration \div 2

(* MinimumPeriodTimesTwo: an odd SLOT_DURATION is rounded down. *)
slot_duration(slotDuration) == 2 * MinimumPeriod(slotDuration)

(* The slot duration and minimum period of the runtime in block b's state. *)
slot_duration_at(b)  == slot_duration(blocks[b].runtime)
minimum_period_at(b) == MinimumPeriod(blocks[b].runtime)

(* Mutant: the clock whatever the parent's timestamp. *)
create_inherent_ClockOnly(parent, clock) == clock

(* pallet_timestamp's inherent: the author's clock, unless too early. *)
create_inherent(parent, clock) ==
  LET earliest == blocks[parent].time + minimum_period_at(parent)
  IN  IF clock >= earliest THEN clock ELSE earliest

slot_author(slot) == Authorities[(slot % Len(Authorities)) + 1]

(* Mutants: without the check of the slot, with OnTimestampSet = (), and    *)
(* without pallet_aura.                                                    *)
Executes_AnySlot(parent, slot, time) ==
  /\ \/ blocks[parent].time = 0
     \/ time >= blocks[parent].time + minimum_period_at(parent)
  /\ slot = time \div slot_duration_at(parent)
Executes_AnyTimestamp(parent, slot, time) ==
  /\ slot > blocks[parent].slot
  /\ \/ blocks[parent].time = 0
     \/ time >= blocks[parent].time + minimum_period_at(parent)
Executes_NoAura(parent, slot, time) ==
  \/ blocks[parent].time = 0
  \/ time >= blocks[parent].time + minimum_period_at(parent)

(* Executing a child of `parent` does not panic: Aura's on_initialize, the *)
(* timestamp inherent, and Aura's on_timestamp_set.                        *)
Executes(parent, slot, time) ==
  /\ slot > blocks[parent].slot
  /\ \/ blocks[parent].time = 0
     \/ time >= blocks[parent].time + minimum_period_at(parent)
  /\ slot = time \div slot_duration_at(parent)

-----------------------------------------------------------------------------
(* The nodes.                                                              *)

Now(n) == wall + Skew[n]

Init ==
  /\ wall = StartTime
  /\ blocks = <<[parent |-> 0, number |-> 0, slot |-> 0, time |-> 0,
                 author |-> Authorities[1], runtime |-> SLOT_DURATION]>>
  /\ known = [n \in Node |-> {Genesis}]
  /\ best = [n \in Node |-> Genesis]
  /\ duration = [n \in Node |-> slot_duration(SLOT_DURATION)]
  /\ lastSlot = [n \in Node |-> Now(n) \div slot_duration(SLOT_DURATION)]
  /\ claim = [n \in Node |-> NoClaim]
  /\ connected = Node
  /\ restarts = 0

Tick ==
  /\ wall < MaxTime
  /\ wall' = wall + 1
  /\ UNCHANGED <<blocks, nodeVars, connected, restarts>>

(* Mutant: whoever's slot it is. *)
MayClaim_AnySlot(n, slot) == n \in connected \cup ForceAuthoring

(* The slot worker's wish to propose, read off the node's clock and head.   *)
(* A node without peers waits, unless it was told not to or is alone.       *)
MayClaim(n, slot) ==
  /\ slot_author(slot) = n
  /\ \/ n \in connected
     \/ n \in ForceAuthoring
     \/ Len(Authorities) = 1

(* The slot worker wakes: at most once in a slot, and never while it is    *)
(* still proposing.  The slot is computed with the duration read at        *)
(* startup; the head is read now and may be superseded before the proposal *)
(* is finished.                                                            *)
OnSlot(n) ==
  LET slot == Now(n) \div duration[n] IN
  /\ claim[n] = NoClaim
  /\ slot > lastSlot[n]
  /\ lastSlot' = [lastSlot EXCEPT ![n] = slot]
  /\ \/ /\ MayClaim(n, slot)
        /\ claim' = [claim EXCEPT
                       ![n] = [parent |-> best[n], slot |-> slot, time |-> Now(n)]]
     \/ /\ ~ MayClaim(n, slot)
        /\ UNCHANGED claim
  /\ UNCHANGED <<wall, blocks, known, best, duration, connected, restarts>>

(* Mutants: the head moves without the block in the database, and the head *)
(* moves to another block of the same number.                              *)
AddBlock_HeadOnly(n, b, chain) ==
  /\ best' = [best EXCEPT ![n] = IF chain[b].number > chain[@].number THEN b ELSE @]
  /\ UNCHANGED known
AddBlock_LastSeen(n, b, chain) ==
  /\ known' = [known EXCEPT ![n] = @ \cup {b}]
  /\ best'  = [best EXCEPT ![n] = IF chain[b].number >= chain[@].number THEN b ELSE @]

(* A block enters a node's database; a longer chain becomes the best one. *)
AddBlock(n, b, chain) ==
  /\ known' = [known EXCEPT ![n] = @ \cup {b}]
  /\ best'  = [best EXCEPT ![n] = IF chain[b].number > chain[@].number THEN b ELSE @]

upgradeCount == Cardinality({b \in 2..Len(blocks) :
                               blocks[b].runtime # blocks[blocks[b].parent].runtime})

(* A proposal has until the end of its slot; one that follows slots without *)
(* a block is given more time (max_block_proposal_slot_portion is None), of *)
(* which the model only says that it is after the slot.                    *)
InSlot(n) == Now(n) \div duration[n] = claim[n].slot
Lenient(n) ==
  /\ claim[n].parent # Genesis
  /\ claim[n].slot > blocks[claim[n].parent].slot + 1

(* The proposal finishes in time: the block executes, is imported by its   *)
(* author and announced.  It may contain a sudo call of set_code, which    *)
(* replaces the runtime for the blocks built on this one.                  *)
Propose(n) ==
  LET c      == claim[n]
      parent == blocks[c.parent]
      time   == create_inherent(c.parent, c.time) IN
  /\ Len(blocks) < MaxBlocks
  /\ c # NoClaim
  /\ InSlot(n) \/ Lenient(n)
  /\ Executes(c.parent, c.slot, time)
  /\ \E runtime \in Upgrades \cup {parent.runtime} :
       /\ runtime # parent.runtime => upgradeCount < MaxUpgrades
       /\ blocks' = Append(blocks, [parent |-> c.parent, number |-> parent.number + 1,
                                    slot |-> c.slot, time |-> time,
                                    author |-> n, runtime |-> runtime])
  /\ AddBlock(n, Len(blocks'), blocks')
  /\ claim' = [claim EXCEPT ![n] = NoClaim]
  /\ UNCHANGED <<wall, duration, lastSlot, connected, restarts>>

(* The proposal fails: the runtime panics, or the time runs out. *)
Abandon(n) ==
  /\ claim[n] # NoClaim
  /\ \/ ~ InSlot(n)
     \/ ~ Executes(claim[n].parent, claim[n].slot,
                   create_inherent(claim[n].parent, claim[n].time))
  /\ claim' = [claim EXCEPT ![n] = NoClaim]
  /\ UNCHANGED <<wall, blocks, known, best, duration, lastSlot, connected, restarts>>

(* Mutants: no tolerance for a faster clock, and the duration read at       *)
(* startup instead of the one in the parent's state.                       *)
Verify_StrictSlot(n, b) ==
  LET header == blocks[b]
      slotNow == Now(n) \div slot_duration_at(header.parent) IN
  /\ header.slot <= slotNow
  /\ header.author = slot_author(header.slot)
  /\ Executes(header.parent, header.slot, header.time)
Verify_StartupDuration(n, b) ==
  LET header == blocks[b] IN
  /\ header.slot <= Now(n) \div duration[n] + 1
  /\ header.author = slot_author(header.slot)
  /\ Executes(header.parent, header.slot, header.time)

(* The import queue's verdict on b: its slot is not far in the future by   *)
(* this node's clock and by the duration in the parent's state, it has the *)
(* right author, its inherents pass and it executes.                       *)
Verify(n, b) ==
  LET header == blocks[b]
      slotNow == Now(n) \div slot_duration_at(header.parent) IN
  /\ header.slot <= slotNow + 1
  /\ header.author = slot_author(header.slot)
  /\ header.time <= Now(n) + MaxDrift
  /\ Executes(header.parent, header.slot, header.time)

(* Blocks arrive in any order that has parents first, late or never. *)
Import(n) ==
  \E b \in 1..Len(blocks) :
    /\ n \in connected
    /\ b \notin known[n]
    /\ blocks[b].parent \in known[n]
    /\ Verify(n, b)
    /\ AddBlock(n, b, blocks)
    /\ UNCHANGED <<wall, blocks, duration, lastSlot, claim, connected, restarts>>

(* Mutant: the slot worker does not sleep until the next slot. *)
Restart_Awake(n) ==
  LET d == slot_duration_at(best[n]) IN
  /\ restarts < MaxRestarts
  /\ duration' = [duration EXCEPT ![n] = d]
  /\ lastSlot' = [lastSlot EXCEPT ![n] = 0]
  /\ claim' = [claim EXCEPT ![n] = NoClaim]
  /\ restarts' = restarts + 1
  /\ UNCHANGED <<wall, blocks, known, best, connected>>

(* The node stops and starts again.  The database survives; the slot       *)
(* duration is read from the best block's state, and the slot worker first *)
(* sleeps until the next slot begins.                                      *)
Restart(n) ==
  LET d == slot_duration_at(best[n]) IN
  /\ restarts < MaxRestarts
  /\ duration' = [duration EXCEPT ![n] = d]
  /\ lastSlot' = [lastSlot EXCEPT ![n] = Now(n) \div d]
  /\ claim' = [claim EXCEPT ![n] = NoClaim]
  /\ restarts' = restarts + 1
  /\ UNCHANGED <<wall, blocks, known, best, connected>>

LosePeers(n) ==
  /\ n \in connected
  /\ connected' = connected \ {n}
  /\ UNCHANGED <<wall, blocks, nodeVars, restarts>>

FindPeers(n) ==
  /\ n \notin connected
  /\ connected' = connected \cup {n}
  /\ UNCHANGED <<wall, blocks, nodeVars, restarts>>

Next ==
  \/ Tick
  \/ \E n \in Node : \/ OnSlot(n)
                     \/ Propose(n)
                     \/ Abandon(n)
                     \/ Import(n)
                     \/ Restart(n)
                     \/ LosePeers(n)
                     \/ FindPeers(n)

Spec == Init /\ [][Next]_vars

(* The clock runs, a node's slot worker and proposal are polled, and the    *)
(* network delivers: a node that finds peers again and again, and is        *)
(* offered a block it could import again and again, imports it.            *)
Fairness ==
  /\ WF_vars(Tick)
  /\ \A n \in Node : /\ WF_vars(OnSlot(n))
                     /\ WF_vars(Propose(n) \/ Abandon(n))
                     /\ WF_vars(FindPeers(n))
                     /\ SF_vars(Import(n))

FairSpec == Spec /\ Fairness

-----------------------------------------------------------------------------
(* Properties.                                                             *)

Block    == [parent : Nat, number : Nat, slot : Nat, time : Nat,
             author : Node, runtime : Upgrades \cup {SLOT_DURATION}]
Proposal == [parent : Nat, slot : Nat, time : Nat]

(* Type invariant: the bounds hold, a node's head and the parent of its     *)
(* proposal are in its database.                                           *)
AuraTypeOK ==
  /\ wall \in StartTime..MaxTime
  /\ blocks \in Seq(Block)
  /\ Len(blocks) \in 1..MaxBlocks
  /\ known \in [Node -> SUBSET (1..Len(blocks))]
  /\ best \in [Node -> Nat]
  /\ duration \in [Node -> Nat \ {0}]
  /\ lastSlot \in [Node -> Nat]
  /\ claim \in [Node -> Proposal]
  /\ \A n \in Node : /\ best[n] \in known[n]
                     /\ claim[n] # NoClaim => claim[n].parent \in known[n]
  /\ connected \subseteq Node
  /\ restarts \in 0..MaxRestarts

(* An authority never has two blocks in one slot, on any fork: not when a   *)
(* longer fork arrives in the middle of its slot, and not when it restarts  *)
(* after authoring and forgets which slots it has used.                     *)
NoEquivocation ==
  \A b, c \in 2..Len(blocks) :
    blocks[b].author = blocks[c].author /\ blocks[b].slot = blocks[c].slot => b = c

(* A proposal made with the duration of the runtime it will be executed by, *)
(* in a slot later than its parent's, is never refused by the runtime's     *)
(* assertions, whatever the skew between the clocks of the two authors:     *)
(* pushing the timestamp to MinimumPeriod after the parent's never pushes   *)
(* it out of the slot.  (The parent's slot must be counted by the same      *)
(* duration.)                                                               *)
FreshAuthorSucceeds ==
  \A n \in Node :
    LET c == claim[n] IN
    /\ c # NoClaim
    /\ duration[n] = slot_duration_at(c.parent)
    /\ blocks[c.parent].slot = blocks[c.parent].time \div duration[n]
    /\ c.slot > blocks[c.parent].slot
    => Executes(c.parent, c.slot, create_inherent(c.parent, c.time))

(* No proposal is wasted on a slot that the head already has, as long as    *)
(* the clock is not behind the one of the head's author and both count      *)
(* slots as the head's runtime does: whatever was imported, upgraded and    *)
(* restarted between the two.                                              *)
NoWastedSlot ==
  \A n \in Node :
    LET c == claim[n]
        p == blocks[c.parent] IN
    /\ c # NoClaim
    /\ Skew[n] >= Skew[p.author]
    /\ duration[n] = slot_duration_at(c.parent)
    /\ p.slot = p.time \div duration[n]
    => c.slot > p.slot

(* Every block of an honest author is accepted by every node that has its   *)
(* parent, as soon as it is announced, while the clocks are at most a slot  *)
(* apart.                                                                   *)
PeersAccept ==
  \A n \in Node, b \in 2..Len(blocks) : blocks[b].parent \in known[n] => Verify(n, b)

(* However the authors' clocks differ and however often the timestamp had   *)
(* to be pushed past MinimumPeriod, chain time never runs ahead of the      *)
(* author's clock by a slot or more.                                        *)
ChainTimeBounded ==
  \A b \in 2..Len(blocks) :
    blocks[b].time < Now(blocks[b].author) + slot_duration_at(blocks[b].parent)

(* After an upgrade that changes the slot duration, a node that still uses  *)
(* the duration it read at startup authors nothing on the upgraded chain:   *)
(* the runtime refuses every one of its timestamps.                         *)
StaleAuthorsHalt ==
  [][\A b \in (Len(blocks) + 1)..Len(blocks') :
       duration[blocks'[b].author] = slot_duration_at(blocks'[b].parent)]_vars

(* A runtime with longer slots stops the chain, restarts or not: the slots  *)
(* counted by its duration are behind the slot of the last block.  (Within  *)
(* the horizon of a run; on the real clock, for decades.)                   *)
LongerSlotsHaltChain ==
  \A b \in 2..Len(blocks) : slot_duration_at(blocks[b].parent) <= slot_duration_at(Genesis)

(* The horizon within which that is so.  A clock that counts from 1970 is   *)
(* so far from zero that the slots counted by a longer duration, up to a    *)
(* slot after the clocks stop, are behind those counted by a shorter one    *)
(* since they started.  (With one duration there is nothing to compare.)    *)
SlotDurations == {slot_duration(r) : r \in Upgrades \cup {SLOT_DURATION}}
SlotsStayApart ==
  \A d, e, f \in SlotDurations : \A m, n \in Node :
    d < e => (MaxTime + Skew[m] + f) \div e < (StartTime + Skew[n]) \div d

(* Every node catches up with every block, whichever duration it runs with: *)
(* an upgrade of the duration never splits the nodes that restarted after   *)
(* it from those that did not.                                              *)
NodesCatchUp == <>[](\A n \in Node : known[n] = 1..Len(blocks))

(* Slots, clocks, upgrades and restarts aside, the nodes follow the longest *)
(* chain they know, and the first they saw of several that are as long:     *)
(* neither a proposal on a superseded head nor a restart moves a head back. *)
Heads == INSTANCE LongestChain WITH
  tree <- [b \in 1..Len(blocks) |-> [parent |-> blocks[b].parent,
                                     number |-> blocks[b].number]]
HeadsRefined == Heads!HeadsSpec
=============================================================================
