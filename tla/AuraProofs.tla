----------------------------- MODULE AuraProofs -----------------------------
(***************************************************************************)
(* Type correctness of block authoring, that the runtime never refuses a   *)
(* proposal made with its own slot duration in a new slot, and that nodes  *)
(* follow the longest chain: for any set of nodes, any clocks and any slot *)
(* durations.  And, of clocks that are far enough from zero: an authority  *)
(* has one block in a slot, wastes none, keeps chain time within a slot of *)
(* its clock, authors what every peer accepts, authors nothing with a slot *)
(* duration that is not its parent's, and nothing on a runtime with longer *)
(* slots.                                                                  *)
(***************************************************************************)
EXTENDS Aura, SequenceTheorems, TLAPS

(* A node's proposal names a block of its database and the slot of its      *)
(* timestamp, counted by the node's own duration.                          *)
ClaimInv ==
  \A n \in Node :
    claim[n] # NoClaim =>
      /\ claim[n].parent \in 1..Len(blocks)
      /\ claim[n].slot = claim[n].time \div duration[n]

AuraInv == AuraTypeOK /\ ClaimInv

-----------------------------------------------------------------------------
(* Arithmetic of slots.                                                    *)

(* Division puts a time within one duration of the start of its slot. *)
LEMMA SlotBounds ==
  ASSUME NEW t \in Nat, NEW d \in Nat \ {0}
  PROVE  /\ t \div d \in Nat
         /\ d * (t \div d) <= t
         /\ t < d * (t \div d) + d
  OBVIOUS

(* A time within a slot has that slot's number. *)
LEMMA SlotUnique ==
  ASSUME NEW t \in Nat, NEW d \in Nat \ {0}, NEW q \in Nat,
         d * q <= t, t < d * q + d
  PROVE  t \div d = q
  OBVIOUS

(* A product grows with its second factor. *)
LEMMA ProductMonotone ==
  ASSUME NEW d \in Nat, NEW p \in Nat, NEW q \in Nat, p < q
  PROVE  d * p + d <= d * q
<1>1. PICK k \in Nat : q = p + 1 + k
  <2>1. q - (p + 1) \in Nat /\ q = p + 1 + (q - (p + 1))
    OBVIOUS
  <2>2. QED
    BY <2>1
<1>2. d * q = d * p + d + d * k
  BY <1>1
<1>3. d * k \in Nat
  OBVIOUS
<1>4. QED
  BY <1>2, <1>3

(* A timestamp pushed to a period after the parent's, a period being at     *)
(* most a slot, stays in its slot if the parent's slot is an earlier one.   *)
LEMMA PushedTimeStaysInSlot ==
  ASSUME NEW t \in Nat, NEW u \in Nat, NEW d \in Nat \ {0}, NEW p \in Nat,
         p <= d, t < u + p, u \div d < t \div d
  PROVE  (u + p) \div d = t \div d
<1> DEFINE q == t \div d
           r == u \div d
<1>1. q \in Nat /\ r \in Nat
  BY SlotBounds
<1>2. d * q <= t /\ u < d * r + d
  BY SlotBounds
<1>3. d * r + d <= d * q
  BY <1>1, ProductMonotone
<1> HIDE DEF q, r
<1>4. d * q \in Nat /\ d * r \in Nat
  BY <1>1
<1>5. d * q <= u + p /\ u + p < d * q + d
  BY <1>2, <1>3, <1>4
<1>6. (u + p) \div d = q
  BY <1>1, <1>5, SlotUnique
<1>7. QED
  BY <1>6 DEF q

-----------------------------------------------------------------------------
(* The runtimes' durations.                                                *)

(* Every runtime has a positive slot duration, at least its minimum period. *)
LEMMA Durations ==
  ASSUME NEW r \in Upgrades \cup {SLOT_DURATION}
  PROVE  /\ MinimumPeriod(r) \in Nat \ {0}
         /\ slot_duration(r) \in Nat \ {0}
         /\ MinimumPeriod(r) <= slot_duration(r)
<1>1. r \in Nat /\ r >= 2
  BY DurationAssumption
<1>2. r \div 2 \in Nat \ {0}
  BY <1>1
<1>3. QED
  BY <1>2 DEF MinimumPeriod, slot_duration

(* The same for the runtime in the state of any block. *)
LEMMA DurationsAt ==
  ASSUME AuraTypeOK, NEW b \in 1..Len(blocks)
  PROVE  /\ blocks[b] \in Block
         /\ minimum_period_at(b) \in Nat \ {0}
         /\ slot_duration_at(b) \in Nat \ {0}
         /\ minimum_period_at(b) <= slot_duration_at(b)
<1>1. blocks[b] \in Block
  BY DEF AuraTypeOK
<1>2. blocks[b].runtime \in Upgrades \cup {SLOT_DURATION}
  BY <1>1 DEF Block
<1>3. QED
  BY <1>1, <1>2, Durations DEF minimum_period_at, slot_duration_at

(* Clocks read natural numbers, and so do their slots. *)
LEMMA Clocks ==
  ASSUME wall \in StartTime..MaxTime, NEW n \in Node
  PROVE  /\ Now(n) \in Nat
         /\ \A d \in Nat \ {0} : Now(n) \div d \in Nat
<1>1. Now(n) \in Nat
  BY ClockAssumption DEF Now
<1>2. QED
  BY <1>1, SlotBounds

(* A proposal's timestamp is a natural number at least the author's clock. *)
LEMMA InherentTime ==
  ASSUME AuraTypeOK, NEW b \in 1..Len(blocks), NEW clock \in Nat
  PROVE  /\ create_inherent(b, clock) \in Nat
         /\ create_inherent(b, clock) >= blocks[b].time + minimum_period_at(b)
<1>1. blocks[b].time \in Nat
  BY DurationsAt DEF Block
<1>2. minimum_period_at(b) \in Nat
  BY DurationsAt
<1>3. QED
  BY <1>1, <1>2 DEF create_inherent

-----------------------------------------------------------------------------
(* The invariant.                                                          *)

LEMMA AuraInitInv == Init => AuraInv
<1> SUFFICES ASSUME Init PROVE AuraInv
  OBVIOUS
<1>1. slot_duration(SLOT_DURATION) \in Nat \ {0}
  BY Durations
<1>2. wall \in StartTime..MaxTime
  BY ClockAssumption, BoundsAssumption DEF Init
<1>3. lastSlot \in [Node -> Nat]
  BY <1>1, <1>2, Clocks DEF Init
<1>4. Authorities[1] \in Node
  BY AuthoritiesAssumption
<1>5. blocks \in Seq(Block) /\ Len(blocks) = 1
  BY <1>4 DEF Init, Block
<1>6. claim \in [Node -> Proposal] /\ \A n \in Node : claim[n] = NoClaim
  BY DEF Init, NoClaim, Proposal
<1>7. /\ known \in [Node -> SUBSET (1..Len(blocks))]
      /\ best \in [Node -> Nat]
      /\ \A n \in Node : best[n] \in known[n]
  BY <1>5 DEF Init, Genesis
<1>8. AuraTypeOK
  BY <1>1, <1>2, <1>3, <1>5, <1>6, <1>7, BoundsAssumption DEF AuraTypeOK, Init
<1>9. ClaimInv
  BY <1>6 DEF ClaimInv
<1>10. QED
  BY <1>8, <1>9 DEF AuraInv

(* The steps that leave the blocks, the heads and the proposals alone. *)
LEMMA QuietInv ==
  ASSUME AuraInv, UNCHANGED <<blocks, nodeVars>>,
         wall' \in StartTime..MaxTime, connected' \subseteq Node,
         restarts' \in 0..MaxRestarts
  PROVE  AuraInv'
  BY DEF AuraInv, AuraTypeOK, ClaimInv, nodeVars

LEMMA OnSlotInv ==
  ASSUME AuraInv, NEW n \in Node, OnSlot(n)
  PROVE  AuraInv'
<1> DEFINE slot == Now(n) \div duration[n]
           c    == [parent |-> best[n], slot |-> slot, time |-> Now(n)]
<1>1. AuraTypeOK /\ ClaimInv
  BY DEF AuraInv
<1>2. duration[n] \in Nat \ {0} /\ best[n] \in known[n] /\ best[n] \in 1..Len(blocks)
  BY <1>1 DEF AuraTypeOK
<1>3. Now(n) \in Nat /\ slot \in Nat
  BY <1>1, <1>2, Clocks DEF AuraTypeOK
<1>4. c \in Proposal
  BY <1>2, <1>3 DEF Proposal
<1>5. \/ claim' = [claim EXCEPT ![n] = c]
      \/ claim' = claim
  BY DEF OnSlot
<1>6. /\ UNCHANGED <<wall, blocks, known, best, duration, connected, restarts>>
      /\ lastSlot' = [lastSlot EXCEPT ![n] = slot]
  BY DEF OnSlot
<1>7. c.parent \in known[n]
  BY <1>2
<1> HIDE DEF slot, c
<1>8. lastSlot' \in [Node -> Nat] /\ claim' \in [Node -> Proposal]
  BY <1>1, <1>3, <1>4, <1>5, <1>6 DEF AuraTypeOK
<1>9. \A m \in Node : claim'[m] = claim[m] \/ (m = n /\ claim'[m] = c)
  <2>1. claim \in [Node -> Proposal]
    BY <1>1 DEF AuraTypeOK
  <2>2. QED
    BY <1>5, <2>1
<1>10. \A m \in Node : claim'[m] # NoClaim => claim'[m].parent \in known[m]
  BY <1>1, <1>7, <1>9 DEF AuraTypeOK
<1>11. AuraTypeOK'
  BY <1>1, <1>6, <1>8, <1>10 DEF AuraTypeOK
<1>12. ClaimInv'
  <2>1. SUFFICES ASSUME NEW m \in Node, claim'[m] # NoClaim
                 PROVE  /\ claim'[m].parent \in 1..Len(blocks')
                        /\ claim'[m].slot = claim'[m].time \div duration'[m]
    BY DEF ClaimInv
  <2>2. CASE claim'[m] = claim[m]
    BY <1>1, <1>6, <2>1, <2>2 DEF ClaimInv
  <2>3. CASE m = n /\ claim'[m] = c
    BY <1>2, <1>6, <2>3 DEF slot, c
  <2>4. QED
    BY <1>9, <2>2, <2>3
<1>13. QED
  BY <1>11, <1>12 DEF AuraInv

(* Dropping or finishing a proposal, and a restart, keep the invariant:     *)
(* `known` and `best` grow together and other proposals stay in place.      *)
LEMMA ProposeInv ==
  ASSUME AuraInv, NEW n \in Node, Propose(n)
  PROVE  AuraInv'
<1> DEFINE c    == claim[n]
           time == create_inherent(c.parent, c.time)
           last == Len(blocks) + 1
<1>1. AuraTypeOK /\ ClaimInv /\ c # NoClaim
  BY DEF AuraInv, Propose
<1>2. c \in Proposal /\ c.parent \in 1..Len(blocks)
  BY <1>1 DEF AuraTypeOK, ClaimInv
<1>3. blocks[c.parent] \in Block
  BY <1>1, <1>2, DurationsAt
<1>4. time \in Nat
  BY <1>1, <1>2, InherentTime DEF Proposal
<1>5. PICK runtime \in Upgrades \cup {blocks[c.parent].runtime} :
        blocks' = Append(blocks, [parent |-> c.parent,
                                  number |-> blocks[c.parent].number + 1,
                                  slot |-> c.slot, time |-> time,
                                  author |-> n, runtime |-> runtime])
  BY DEF Propose
<1> DEFINE new == [parent |-> c.parent, number |-> blocks[c.parent].number + 1,
                   slot |-> c.slot, time |-> time, author |-> n, runtime |-> runtime]
<1> HIDE DEF time
<1>6. new \in Block
  <2>1. c.parent \in Nat /\ c.slot \in Nat
    BY <1>2 DEF Proposal
  <2>2. /\ blocks[c.parent].number + 1 \in Nat
        /\ runtime \in Upgrades \cup {SLOT_DURATION}
    BY <1>3, <1>5 DEF Block
  <2> HIDE DEF c
  <2>3. QED
    BY <1>4, <2>1, <2>2 DEF Block
<1>7. Len(blocks) < MaxBlocks
  BY DEF Propose
<1> HIDE DEF new
<1>8. blocks \in Seq(Block) /\ Len(blocks) \in Nat
  BY <1>1 DEF AuraTypeOK
<1>9. blocks' \in Seq(Block) /\ Len(blocks') = last
  BY <1>5, <1>6, <1>8 DEF new
<1>10. last \in 1..MaxBlocks
  BY <1>7, <1>8, BoundsAssumption
<1>11. /\ known' = [known EXCEPT ![n] = @ \cup {last}]
       /\ best'[n] \in {best[n], last}
       /\ best' \in [Node -> Nat]
       /\ \A m \in Node : m # n => best'[m] = best[m]
  <2>1. AddBlock(n, last, blocks')
    BY <1>9 DEF Propose
  <2>2. best \in [Node -> Nat] /\ last \in Nat
    BY <1>1, <1>8 DEF AuraTypeOK
  <2>3. QED
    BY <2>1, <2>2 DEF AddBlock
<1>12. /\ UNCHANGED <<wall, duration, lastSlot, connected, restarts>>
       /\ claim' = [claim EXCEPT ![n] = NoClaim]
  BY DEF Propose
<1>13. claim' \in [Node -> Proposal]
       /\ \A m \in Node : claim'[m] # NoClaim => m # n /\ claim'[m] = claim[m]
  <2>1. NoClaim \in Proposal /\ claim \in [Node -> Proposal]
    BY <1>1 DEF NoClaim, Proposal, AuraTypeOK
  <2>2. QED
    BY <1>12, <2>1
<1>14. known' \in [Node -> SUBSET (1..Len(blocks'))]
  <2>1. known \in [Node -> SUBSET (1..Len(blocks))]
    BY <1>1 DEF AuraTypeOK
  <2>2. 1..Len(blocks) \subseteq 1..Len(blocks') /\ last \in 1..Len(blocks')
    BY <1>8, <1>9
  <2>3. QED
    BY <1>11, <2>1, <2>2
<1>15. \A m \in Node : known[m] \subseteq known'[m] /\ last \in known'[n]
  BY <1>1, <1>11 DEF AuraTypeOK
<1>16. \A m \in Node : /\ best'[m] \in known'[m]
                       /\ claim'[m] # NoClaim => claim'[m].parent \in known'[m]
  <2>1. TAKE m \in Node
  <2>2. best[m] \in known[m] /\ (claim[m] # NoClaim => claim[m].parent \in known[m])
    BY <1>1 DEF AuraTypeOK
  <2>3. best'[m] \in known'[m]
    BY <1>11, <1>15, <2>2
  <2>4. claim'[m] # NoClaim => claim'[m].parent \in known'[m]
    BY <1>13, <1>15, <2>2
  <2>5. QED
    BY <2>3, <2>4
<1>17. AuraTypeOK'
  BY <1>1, <1>9, <1>10, <1>11, <1>12, <1>13, <1>14, <1>16 DEF AuraTypeOK
<1>18. ClaimInv'
  BY <1>1, <1>8, <1>9, <1>12, <1>13 DEF ClaimInv
<1>19. QED
  BY <1>17, <1>18 DEF AuraInv

LEMMA AbandonInv ==
  ASSUME AuraInv, NEW n \in Node, Abandon(n)
  PROVE  AuraInv'
<1>1. /\ UNCHANGED <<wall, blocks, known, best, duration, lastSlot, connected, restarts>>
      /\ claim' = [claim EXCEPT ![n] = NoClaim]
  BY DEF Abandon
<1>2. NoClaim \in Proposal /\ claim \in [Node -> Proposal]
  BY DEF NoClaim, Proposal, AuraInv, AuraTypeOK
<1>3. claim' \in [Node -> Proposal]
      /\ \A m \in Node : claim'[m] # NoClaim => claim'[m] = claim[m]
  BY <1>1, <1>2
<1>4. AuraTypeOK'
  BY <1>1, <1>3 DEF AuraInv, AuraTypeOK
<1>5. ClaimInv'
  BY <1>1, <1>3 DEF AuraInv, ClaimInv
<1>6. QED
  BY <1>4, <1>5 DEF AuraInv

LEMMA ImportInv ==
  ASSUME AuraInv, NEW n \in Node, Import(n)
  PROVE  AuraInv'
<1>1. PICK b \in 1..Len(blocks) :
        /\ AddBlock(n, b, blocks)
        /\ UNCHANGED <<wall, blocks, duration, lastSlot, claim, connected, restarts>>
  BY DEF Import
<1>2. AuraTypeOK /\ ClaimInv
  BY DEF AuraInv
<1>3. /\ known' = [known EXCEPT ![n] = @ \cup {b}]
      /\ best' \in [Node -> Nat]
      /\ best'[n] \in {best[n], b}
      /\ \A m \in Node : m # n => best'[m] = best[m]
  BY <1>1, <1>2 DEF AddBlock, AuraTypeOK
<1>4. known' \in [Node -> SUBSET (1..Len(blocks'))]
  BY <1>1, <1>2, <1>3 DEF AuraTypeOK
<1>5. \A m \in Node : known[m] \subseteq known'[m] /\ b \in known'[n]
  BY <1>2, <1>3 DEF AuraTypeOK
<1>6. \A m \in Node : /\ best'[m] \in known'[m]
                      /\ claim'[m] # NoClaim => claim'[m].parent \in known'[m]
  <2>1. TAKE m \in Node
  <2>2. best[m] \in known[m] /\ (claim[m] # NoClaim => claim[m].parent \in known[m])
    BY <1>2 DEF AuraTypeOK
  <2>3. QED
    BY <1>1, <1>3, <1>5, <2>2
<1>7. AuraTypeOK'
  BY <1>1, <1>2, <1>3, <1>4, <1>6 DEF AuraTypeOK
<1>8. ClaimInv'
  BY <1>1, <1>2 DEF ClaimInv
<1>9. QED
  BY <1>7, <1>8 DEF AuraInv

LEMMA RestartInv ==
  ASSUME AuraInv, NEW n \in Node, Restart(n)
  PROVE  AuraInv'
<1> DEFINE d == slot_duration_at(best[n])
<1>1. AuraTypeOK /\ ClaimInv
  BY DEF AuraInv
<1>2. best[n] \in 1..Len(blocks)
  BY <1>1 DEF AuraTypeOK
<1>3. d \in Nat \ {0}
  BY <1>1, <1>2, DurationsAt
<1>4. Now(n) \div d \in Nat
  BY <1>1, <1>3, Clocks DEF AuraTypeOK
<1>5. /\ duration' = [duration EXCEPT ![n] = d]
      /\ lastSlot' = [lastSlot EXCEPT ![n] = Now(n) \div d]
      /\ claim' = [claim EXCEPT ![n] = NoClaim]
      /\ restarts < MaxRestarts /\ restarts' = restarts + 1
      /\ UNCHANGED <<wall, blocks, known, best, connected>>
  BY DEF Restart
<1> HIDE DEF d
<1>6. NoClaim \in Proposal
  BY DEF NoClaim, Proposal
<1>7. /\ claim' \in [Node -> Proposal]
      /\ duration' \in [Node -> Nat \ {0}]
      /\ lastSlot' \in [Node -> Nat]
      /\ \A m \in Node : claim'[m] # NoClaim =>
                          claim'[m] = claim[m] /\ duration'[m] = duration[m]
  <2>1. /\ claim \in [Node -> Proposal]
        /\ duration \in [Node -> Nat \ {0}]
        /\ lastSlot \in [Node -> Nat]
    BY <1>1 DEF AuraTypeOK
  <2>2. QED
    BY <1>3, <1>4, <1>5, <1>6, <2>1
<1>8. restarts' \in 0..MaxRestarts
  BY <1>1, <1>5, BoundsAssumption DEF AuraTypeOK
<1>9. AuraTypeOK'
  BY <1>1, <1>5, <1>7, <1>8 DEF AuraTypeOK
<1>10. ClaimInv'
  BY <1>1, <1>5, <1>7 DEF ClaimInv
<1>11. QED
  BY <1>9, <1>10 DEF AuraInv

(* The invariant holds in every reachable state. *)
THEOREM AuraInvariant == Spec => []AuraInv
<1>1. AuraInv /\ [Next]_vars => AuraInv'
  <2>1. SUFFICES ASSUME AuraInv, [Next]_vars PROVE AuraInv'
    OBVIOUS
  <2>2. CASE Tick
    <3>1. wall' \in StartTime..MaxTime
      BY <2>1, <2>2, ClockAssumption DEF Tick, AuraInv, AuraTypeOK
    <3>2. QED
      BY <2>1, <2>2, <3>1, QuietInv DEF Tick, AuraInv, AuraTypeOK
  <2>3. ASSUME NEW n \in Node, LosePeers(n) \/ FindPeers(n)
        PROVE  AuraInv'
    BY <2>1, <2>3, QuietInv DEF LosePeers, FindPeers, AuraInv, AuraTypeOK
  <2>4. CASE UNCHANGED vars
    BY <2>1, <2>4, QuietInv DEF vars, AuraInv, AuraTypeOK
  <2>5. QED
    BY <2>1, <2>2, <2>3, <2>4, OnSlotInv, ProposeInv, AbandonInv, ImportInv,
       RestartInv DEF Next
<1>2. QED
  BY AuraInitInv, <1>1, PTL DEF Spec

(* Types, bounds, and a head and proposals that lie in the database. *)
THEOREM AuraTypeCorrect == Spec => []AuraTypeOK
  BY AuraInvariant, PTL DEF AuraInv

(* A proposal made with the slot duration of its parent's state, in a slot  *)
(* later than the parent's, is never refused by the runtime.                *)
THEOREM FreshAuthorsAlwaysSucceed == Spec => []FreshAuthorSucceeds
<1>1. AuraInv => FreshAuthorSucceeds
  <2>1. SUFFICES ASSUME AuraInv, NEW n \in Node, claim[n] # NoClaim,
                        duration[n] = slot_duration_at(claim[n].parent),
                        blocks[claim[n].parent].slot =
                          blocks[claim[n].parent].time \div duration[n],
                        claim[n].slot > blocks[claim[n].parent].slot
                 PROVE  Executes(claim[n].parent, claim[n].slot,
                                 create_inherent(claim[n].parent, claim[n].time))
    BY DEF FreshAuthorSucceeds
  <2> DEFINE b == claim[n].parent
             t == claim[n].time
             u == blocks[b].time
             p == minimum_period_at(b)
             d == slot_duration_at(b)
             time == create_inherent(b, t)
  <2>2. AuraTypeOK /\ b \in 1..Len(blocks) /\ claim[n].slot = t \div d
    BY <2>1 DEF AuraInv, ClaimInv
  <2>3. t \in Nat /\ u \in Nat /\ d \in Nat \ {0} /\ p \in Nat /\ p <= d
    <3>1. claim[n] \in Proposal
      BY <2>2 DEF AuraTypeOK
    <3>2. t \in Nat
      BY <3>1 DEF Proposal
    <3>3. QED
      BY <2>2, <3>2, DurationsAt DEF Block
  <2>4. u \div d < t \div d
    <3>1. t \div d \in Nat /\ u \div d \in Nat
      BY <2>3, SlotBounds
    <3>2. QED
      BY <2>1, <2>2, <3>1
  <2>5. time = IF t >= u + p THEN t ELSE u + p
    BY DEF create_inherent
  <2> HIDE DEF t, u, p, d
  <2>6. time \div d = t \div d
    <3>1. CASE t >= u + p
      BY <2>5, <3>1
    <3>2. CASE t < u + p
      BY <2>3, <2>4, <2>5, <3>2, PushedTimeStaysInSlot
    <3>3. QED
      BY <2>3, <3>1, <3>2
  <2>7. time >= u + p
    BY <2>3, <2>5
  <2>8. QED
    BY <2>1, <2>2, <2>6, <2>7 DEF Executes, t, u, p, d
<1>2. QED
  BY AuraInvariant, <1>1, PTL

-----------------------------------------------------------------------------
(* The refinement.                                                         *)

TreeOf(chain) == [b \in 1..Len(chain) |-> [parent |-> chain[b].parent,
                                           number |-> chain[b].number]]
Tree  == TreeOf(blocks)
Entry == [parent : Nat, number : Nat]

LEMMA SameLength ==
  ASSUME NEW i \in Nat, NEW j \in Nat, 1..i = 1..j
  PROVE  i = j
  OBVIOUS

(* What is left of the blocks is a sequence as long as theirs. *)
LEMMA TreeIsSequence ==
  ASSUME NEW chain \in Seq(Block)
  PROVE  /\ TreeOf(chain) \in Seq(Entry)
         /\ Len(TreeOf(chain)) = Len(chain)
<1>1. Len(chain) \in Nat
  OBVIOUS
<1>2. ASSUME NEW b \in 1..Len(chain)
      PROVE  [parent |-> chain[b].parent, number |-> chain[b].number] \in Entry
  <2>1. chain[b] \in Block
    OBVIOUS
  <2>2. QED
    BY <2>1 DEF Block, Entry
<1>3. TreeOf(chain) \in [1..Len(chain) -> Entry]
  BY <1>2 DEF TreeOf
<1>4. TreeOf(chain) \in Seq(Entry)
  BY <1>1, <1>3, SeqDef
<1>5. 1..Len(TreeOf(chain)) = 1..Len(chain) /\ Len(TreeOf(chain)) \in Nat
  BY <1>3, <1>4, LenProperties
<1>6. QED
  BY <1>1, <1>4, <1>5, SameLength

(* A new block is a new entry of the tree, after the ones that stay. *)
LEMMA TreeGrows ==
  ASSUME NEW chain \in Seq(Block), NEW new \in Block
  PROVE  TreeOf(Append(chain, new))
           = Append(TreeOf(chain), [parent |-> new.parent, number |-> new.number])
<1> DEFINE entry == [parent |-> new.parent, number |-> new.number]
           longer == Append(chain, new)
<1>1. longer \in Seq(Block) /\ Len(longer) = Len(chain) + 1 /\ Len(chain) \in Nat
  BY AppendProperties, LenProperties
<1>2. TreeOf(chain) \in Seq(Entry) /\ Len(TreeOf(chain)) = Len(chain)
  BY TreeIsSequence
<1>3. TreeOf(longer) \in Seq(Entry) /\ Len(TreeOf(longer)) = Len(longer)
  BY <1>1, TreeIsSequence
<1>4. entry \in Entry
  BY DEF Block, Entry
<1>5. /\ Append(TreeOf(chain), entry) \in Seq(Entry)
      /\ Len(Append(TreeOf(chain), entry)) = Len(longer)
  BY <1>1, <1>2, <1>4, AppendProperties
<1>6. ASSUME NEW b \in 1..Len(TreeOf(longer))
      PROVE  TreeOf(longer)[b] = Append(TreeOf(chain), entry)[b]
  <2>1. b \in 1..Len(longer)
    BY <1>3
  <2>2. TreeOf(longer)[b] = [parent |-> longer[b].parent, number |-> longer[b].number]
    BY <2>1 DEF TreeOf
  <2>3. CASE b = Len(longer)
    <3>1. longer[b] = new
      BY <1>1, <2>3, AppendProperties
    <3>2. Append(TreeOf(chain), entry)[b] = entry
      BY <1>1, <1>2, <1>4, <2>3, AppendProperties
    <3>3. QED
      BY <2>2, <3>1, <3>2
  <2>4. CASE b # Len(longer)
    <3>1. b \in 1..Len(chain)
      BY <1>1, <2>1, <2>4
    <3>2. longer[b] = chain[b]
      BY <1>1, <3>1, AppendProperties
    <3>3. Append(TreeOf(chain), entry)[b] = TreeOf(chain)[b]
      BY <1>2, <1>4, <3>1, AppendProperties
    <3>4. TreeOf(chain)[b] = [parent |-> chain[b].parent, number |-> chain[b].number]
      BY <3>1 DEF TreeOf
    <3>5. QED
      BY <2>2, <3>2, <3>3, <3>4
  <2>5. QED
    BY <2>3, <2>4
<1> HIDE DEF entry, longer
<1>7. TreeOf(longer) = Append(TreeOf(chain), entry)
  BY <1>3, <1>5, <1>6, SeqEqual
<1>8. QED
  BY <1>7 DEF entry, longer

(* The initial state has nothing but genesis. *)
LEMMA HeadsInitially == Init => Heads!HeadsInit
<1> SUFFICES ASSUME Init PROVE Heads!HeadsInit
  OBVIOUS
<1>1. Len(blocks) = 1 /\ blocks[1].parent = 0 /\ blocks[1].number = 0
  BY DEF Init
<1>2. Tree = <<[parent |-> 0, number |-> 0]>>
  BY <1>1 DEF Tree, TreeOf
<1>3. QED
  BY <1>2 DEF Init, Genesis, Tree, TreeOf, Heads!HeadsInit, Heads!TreeInit, Heads!Genesis

(* A finished proposal is a block on a parent that its author knows. *)
LEMMA ProposeAuthors ==
  ASSUME AuraInv, NEW n \in Node, Propose(n)
  PROVE  Heads!HeadsNext
<1>1. AuraTypeOK /\ ClaimInv /\ claim[n] # NoClaim
  BY DEF AuraInv, Propose
<1>2. PICK p \in 1..Len(blocks) : p = claim[n].parent /\ p \in known[n]
  BY <1>1 DEF AuraTypeOK, ClaimInv
<1> DEFINE time == create_inherent(p, claim[n].time)
<1>3. claim[n] \in Proposal
  BY <1>1 DEF AuraTypeOK
<1>4. blocks \in Seq(Block) /\ Len(blocks) \in Nat /\ blocks[p] \in Block
  <2>1. blocks \in Seq(Block)
    BY <1>1 DEF AuraTypeOK
  <2>2. Len(blocks) \in Nat
    BY <2>1
  <2>3. blocks[p] \in Block
    BY <1>1, <1>2, DurationsAt
  <2>4. QED
    BY <2>1, <2>2, <2>3
<1>5. time \in Nat
  BY <1>3, <1>1, InherentTime DEF Proposal
<1> HIDE DEF time
<1>6. PICK new \in Block :
        /\ blocks' = Append(blocks, new)
        /\ new.parent = p
        /\ new.number = blocks[p].number + 1
  <2>1. PICK runtime \in Upgrades \cup {blocks[p].runtime} :
          blocks' = Append(blocks, [parent |-> p, number |-> blocks[p].number + 1,
                                    slot |-> claim[n].slot, time |-> time,
                                    author |-> n, runtime |-> runtime])
    BY <1>2 DEF Propose, time
  <2> DEFINE new == [parent |-> p, number |-> blocks[p].number + 1,
                     slot |-> claim[n].slot, time |-> time,
                     author |-> n, runtime |-> runtime]
  <2>2. p \in Nat /\ claim[n].slot \in Nat
    BY <1>3, <1>4 DEF Proposal
  <2>3. /\ blocks[p].number + 1 \in Nat
        /\ blocks[p].runtime \in Upgrades \cup {SLOT_DURATION}
    <3>1. blocks[p].number \in Nat
      BY <1>4 DEF Block
    <3>2. blocks[p].runtime \in Upgrades \cup {SLOT_DURATION}
      BY <1>4 DEF Block
    <3>3. QED
      BY <3>1, <3>2
  <2>4. runtime \in Upgrades \cup {SLOT_DURATION}
    BY <2>1, <2>3
  <2>5. new \in Block
    BY <1>5, <2>2, <2>3, <2>4 DEF Block
  <2>6. QED
    BY <2>1, <2>5
<1>7. Len(blocks') = Len(blocks) + 1 /\ blocks'[Len(blocks')] = new
      /\ \A b \in 1..Len(blocks) : blocks'[b] = blocks[b]
  BY <1>4, <1>6
<1>8. Tree \in Seq(Entry) /\ Len(Tree) = Len(blocks)
  BY <1>4, TreeIsSequence DEF Tree
<1>9. \A b \in 1..Len(blocks) : Tree[b].number = blocks[b].number
  BY DEF Tree, TreeOf
<1>10. Tree' = Append(Tree, [parent |-> p, number |-> Tree[p].number + 1])
  BY <1>2, <1>4, <1>6, <1>9, TreeGrows DEF Tree
<1>11. Heads!Grow(p)
  <2>1. Len(blocks) < MaxBlocks
    BY DEF Propose
  <2>2. QED
    BY <1>8, <1>10, <2>1 DEF Tree, TreeOf, Heads!Grow, Heads!Child, Heads!number
<1>12. Heads!AddBlock(n, Len(blocks) + 1, blocks[p].number + 1)
  <2>1. AddBlock(n, Len(blocks'), blocks')
    BY DEF Propose
  <2>2. best[n] \in 1..Len(blocks)
    BY <1>1 DEF AuraTypeOK
  <2>3. blocks'[best[n]].number = Tree[best[n]].number
    BY <1>7, <1>9, <2>2
  <2>4. QED
    BY <1>6, <1>7, <2>1, <2>3 DEF AddBlock, Tree, TreeOf, Heads!AddBlock, Heads!number
<1>13. Heads!Author(n, p)
  BY <1>2, <1>8, <1>9, <1>11, <1>12 DEF Tree, TreeOf, Heads!Author, Heads!number
<1>14. Heads!Block = 1..Len(Tree)
  BY DEF Tree, TreeOf, Heads!Block
<1>15. p \in Heads!Block
  BY <1>8, <1>14
<1>16. QED
  BY <1>13, <1>15 DEF Heads!HeadsNext

(* Genesis is in every database, so it is never imported. *)
GenesisInv == \A n \in Node : Genesis \in known[n]

LEMMA GenesisKnown ==
  ASSUME AuraInv, GenesisInv, [Next]_vars
  PROVE  GenesisInv'
<1>1. \A n \in Node : known[n] \subseteq known'[n]
  <2>1. AuraTypeOK
    BY DEF AuraInv
  <2>2. CASE UNCHANGED known
    BY <2>2
  <2>3. ASSUME NEW m \in Node, NEW b, known' = [known EXCEPT ![m] = @ \cup {b}]
        PROVE  \A n \in Node : known[n] \subseteq known'[n]
    BY <2>1, <2>3 DEF AuraTypeOK
  <2>4. CASE UNCHANGED vars
    BY <2>2, <2>4 DEF vars, nodeVars
  <2>5. CASE Tick
    BY <2>2, <2>5 DEF Tick, nodeVars
  <2>6. ASSUME NEW n \in Node, Propose(n) \/ Import(n)
        PROVE  \A m \in Node : known[m] \subseteq known'[m]
    BY <2>3, <2>6 DEF Propose, Import, AddBlock
  <2>7. ASSUME NEW n \in Node,
               OnSlot(n) \/ Abandon(n) \/ Restart(n) \/ LosePeers(n) \/ FindPeers(n)
        PROVE  UNCHANGED known
    BY <2>7 DEF OnSlot, Abandon, Restart, LosePeers, FindPeers, nodeVars
  <2>8. QED
    BY <2>2, <2>4, <2>5, <2>6, <2>7 DEF Next
<1>2. QED
  BY <1>1 DEF GenesisInv

(* An imported block has a parent that the node knows. *)
LEMMA ImportImports ==
  ASSUME AuraInv, GenesisInv, NEW n \in Node, Import(n)
  PROVE  Heads!HeadsNext
<1>1. PICK b \in 1..Len(blocks) :
        /\ b \notin known[n]
        /\ blocks[b].parent \in known[n]
        /\ AddBlock(n, b, blocks)
        /\ UNCHANGED blocks
  BY DEF Import
<1>2. AuraTypeOK
  BY DEF AuraInv
<1>3. best[n] \in 1..Len(blocks) /\ blocks \in Seq(Block)
  BY <1>2 DEF AuraTypeOK
<1>4. Len(Tree) = Len(blocks) /\ UNCHANGED Tree
  BY <1>1, <1>3, TreeIsSequence DEF Tree, TreeOf
<1>5. Heads!Import(n, b)
  BY <1>1, <1>3, <1>4 DEF Tree, TreeOf, AddBlock, Heads!Import, Heads!AddBlock, Heads!number, Heads!parent
<1>6. b # Genesis
  BY <1>1 DEF GenesisInv
<1>7. QED
  BY <1>1, <1>4, <1>5, <1>6 DEF Tree, TreeOf, Genesis, Heads!HeadsNext, Heads!Block, Heads!Genesis

(* Slots, clocks, upgrades and restarts aside, authoring and import are     *)
(* those of nodes that follow the longest chain.                           *)
THEOREM AuraRefinesLongestChain == Spec => HeadsRefined
<1>1. Init => GenesisInv
  BY DEF Init, GenesisInv
<1>2. AuraInv /\ GenesisInv /\ [Next]_vars
        => [Heads!HeadsNext]_<<Tree, known, best>>
  <2>1. SUFFICES ASSUME AuraInv, GenesisInv, [Next]_vars
                 PROVE  Heads!HeadsNext \/ UNCHANGED <<Tree, known, best>>
    OBVIOUS
  <2>2. CASE UNCHANGED <<blocks, known, best>>
    BY <2>2 DEF Tree, TreeOf
  <2>3. CASE Tick \/ UNCHANGED vars
    BY <2>2, <2>3 DEF Tick, vars, nodeVars
  <2>4. ASSUME NEW n \in Node,
               OnSlot(n) \/ Abandon(n) \/ Restart(n) \/ LosePeers(n) \/ FindPeers(n)
        PROVE  UNCHANGED <<blocks, known, best>>
    BY <2>4 DEF OnSlot, Abandon, Restart, LosePeers, FindPeers, nodeVars
  <2>5. QED
    BY <2>1, <2>2, <2>3, <2>4, ProposeAuthors, ImportImports DEF Next
<1>3. Spec => []GenesisInv
  BY <1>1, AuraInvariant, GenesisKnown, PTL DEF Spec
<1>4. QED
  BY <1>2, <1>3, AuraInvariant, HeadsInitially, PTL DEF Spec, HeadsRefined, Tree, TreeOf, Heads!HeadsSpec

-----------------------------------------------------------------------------
(* Slots and time, for as long as the clocks are far enough from zero.     *)
(*                                                                         *)
(* A slot is a number without a unit: after an upgrade, slots counted by   *)
(* two durations are compared and used up as if they were the same.  What  *)
(* keeps them apart is that clocks count from 1970 (SlotsStayApart): any   *)
(* slot counted by a longer duration is behind all that are counted by a   *)
(* shorter one.  What follows assumes this, and nothing of the upgrades,   *)
(* the restarts, the skew of the clocks or the loss of peers.  Where all   *)
(* runtimes have one duration there is nothing to assume.                  *)

(* The times a block or a proposal can have, and a slot more. *)
Horizon ==
  {t \in Nat : /\ \E n \in Node : StartTime + Skew[n] <= t
               /\ \E m \in Node, f \in SlotDurations : t <= MaxTime + Skew[m] + f}

(* The duration that the slot of block b is counted by: its parent's. *)
CountedBy(chain, b) == slot_duration(chain[chain[b].parent].runtime)

(* The slot worker's last slot is one of this run of the node's clock. *)
ClockInv ==
  \A n \in Node :
    /\ duration[n] \in SlotDurations
    /\ (StartTime + Skew[n]) \div duration[n] <= lastSlot[n]
    /\ lastSlot[n] <= (wall + Skew[n]) \div duration[n]

(* The slot is later than those of n's own blocks that are counted alike. *)
AfterOwn(chain, n, d, slot) ==
  \A b \in 2..Len(chain) :
    chain[b].author = n /\ CountedBy(chain, b) = d => chain[b].slot < slot

(* The slot is later than the parent's, if it is counted alike and by a     *)
(* clock that is not behind.                                               *)
AfterParent(chain, n, d, parent, slot) ==
  /\ parent # Genesis
  /\ CountedBy(chain, parent) = d
  /\ Skew[n] >= Skew[chain[parent].author]
  => slot > chain[parent].slot

(* A proposal is for the slot the worker was woken for last, and its        *)
(* author's own.                                                           *)
ProposalInv ==
  \A n \in Node :
    claim[n] # NoClaim =>
      /\ claim[n].slot = lastSlot[n]
      /\ claim[n].slot > (StartTime + Skew[n]) \div duration[n]
      /\ claim[n].time \in Horizon
      /\ slot_author(claim[n].slot) = n
      /\ AfterOwn(blocks, n, duration[n], claim[n].slot)
      /\ AfterParent(blocks, n, duration[n], claim[n].parent, claim[n].slot)

(* A block is its slot's author's, its parent came before it, and it has    *)
(* executed.                                                               *)
GoodBlock(chain, b) ==
  LET h == chain[b]
      p == chain[h.parent]
  IN  /\ h.parent \in 1..(b - 1)
      /\ slot_author(h.slot) = h.author
      /\ h.time \in Horizon
      /\ h.slot > p.slot
      /\ p.time = 0 \/ h.time >= p.time + MinimumPeriod(p.runtime)
      /\ h.slot = h.time \div CountedBy(chain, b)

(* Its slot is not ahead of its author's clock; nor of the slot worker's    *)
(* last one, if the author still counts by the same duration.              *)
BlockInv ==
  /\ blocks[Genesis].slot = 0 /\ blocks[Genesis].time = 0
  /\ \A b \in 2..Len(blocks) :
       /\ GoodBlock(blocks, b)
       /\ blocks[b].slot <= (wall + Skew[blocks[b].author]) \div CountedBy(blocks, b)
       /\ duration[blocks[b].author] = CountedBy(blocks, b)
            => blocks[b].slot <= lastSlot[blocks[b].author]

SlotInv ==
  AuraInv /\ ClockInv /\ ProposalInv /\ BlockInv /\ NoEquivocation /\ LongerSlotsHaltChain

(* A later time is in no earlier slot. *)
LEMMA SlotsFollowTime ==
  ASSUME NEW t \in Nat, NEW u \in Nat, NEW d \in Nat \ {0}, t <= u
  PROVE  t \div d <= u \div d
<1> DEFINE p == t \div d
           q == u \div d
<1>1. p \in Nat /\ q \in Nat /\ d * p <= t /\ u < d * q + d
  BY SlotBounds
<1> HIDE DEF p, q
<1>2. SUFFICES ASSUME q < p PROVE FALSE
  BY <1>1 DEF p, q
<1>3. d * q + d <= d * p
  BY <1>1, <1>2, ProductMonotone
<1>4. d * q \in Nat /\ d * p \in Nat
  BY <1>1
<1>5. QED
  BY <1>1, <1>3, <1>4

(* A duration later is one slot later. *)
LEMMA NextSlot ==
  ASSUME NEW t \in Nat, NEW d \in Nat \ {0}
  PROVE  (t + d) \div d = t \div d + 1
<1> DEFINE q == t \div d
<1>1. q \in Nat /\ d * q <= t /\ t < d * q + d
  BY SlotBounds
<1> HIDE DEF q
<1>2. d * (q + 1) = d * q + d /\ d * q \in Nat
  BY <1>1
<1>3. d * (q + 1) <= t + d /\ t + d < d * (q + 1) + d
  BY <1>1, <1>2
<1>4. (t + d) \div d = q + 1
  BY <1>1, <1>3, SlotUnique
<1>5. QED
  BY <1>4 DEF q

(* A time and the end of its slot: it is less than a duration later. *)
LEMMA SlotOrder ==
  ASSUME NEW t \in Nat, NEW u \in Nat, NEW d \in Nat \ {0}, t \div d <= u \div d
  PROVE  t < u + d
<1>1. SUFFICES ASSUME u + d <= t PROVE FALSE
  OBVIOUS
<1>2. (u + d) \div d = u \div d + 1
  BY NextSlot
<1>3. (u + d) \div d <= t \div d
  BY <1>1, SlotsFollowTime
<1>4. u \div d \in Nat /\ t \div d \in Nat
  BY SlotBounds
<1>5. QED
  BY <1>2, <1>3, <1>4

(* Every duration is positive. *)
LEMMA SlotDurationsPositive ==
  /\ SlotDurations \subseteq Nat \ {0}
  /\ \A r \in Upgrades \cup {SLOT_DURATION} : slot_duration(r) \in SlotDurations
  BY Durations DEF SlotDurations

(* The state of a block has one of the durations, and so has its parent's. *)
LEMMA CountedDurations ==
  ASSUME AuraTypeOK, NEW b \in 1..Len(blocks)
  PROVE  /\ slot_duration_at(b) \in SlotDurations
         /\ blocks[b].parent \in 1..Len(blocks)
              => /\ CountedBy(blocks, b) = slot_duration_at(blocks[b].parent)
                 /\ CountedBy(blocks, b) \in SlotDurations
<1>1. \A i \in 1..Len(blocks) : blocks[i].runtime \in Upgrades \cup {SLOT_DURATION}
  BY DurationsAt DEF Block
<1>2. QED
  BY <1>1, SlotDurationsPositive DEF slot_duration_at, CountedBy

(* The slots of a node's clock never go back. *)
LEMMA ClockMoves ==
  ASSUME NEW v \in StartTime..MaxTime, NEW w \in StartTime..MaxTime, v <= w,
         NEW n \in Node, NEW d \in SlotDurations
  PROVE  /\ v + Skew[n] \in Nat /\ w + Skew[n] \in Nat
         /\ (v + Skew[n]) \div d \in Nat /\ (w + Skew[n]) \div d \in Nat
         /\ (v + Skew[n]) \div d <= (w + Skew[n]) \div d
<1>1. Skew[n] \in Int /\ StartTime + Skew[n] > 0 /\ StartTime \in Nat
  BY ClockAssumption
<1>2. /\ v + Skew[n] \in Nat
      /\ w + Skew[n] \in Nat
      /\ v + Skew[n] <= w + Skew[n]
  BY <1>1
<1>3. QED
  BY <1>2, SlotDurationsPositive, SlotBounds, SlotsFollowTime

(* A clock's times, and a slot more, are in the horizon. *)
LEMMA ClockInHorizon ==
  ASSUME NEW w \in StartTime..MaxTime, NEW n \in Node, NEW d \in SlotDurations,
         NEW t \in Nat, StartTime + Skew[n] <= t, t <= w + Skew[n] + d
  PROVE  t \in Horizon
<1>1. Skew[n] \in Int /\ StartTime \in Nat /\ MaxTime \in Nat /\ d \in Nat
  BY ClockAssumption, SlotDurationsPositive
<1>2. t <= MaxTime + Skew[n] + d
  BY <1>1
<1>3. QED
  BY <1>2 DEF Horizon

(* Slots counted by a longer duration are behind. *)
LEMMA SlotsApart ==
  ASSUME SlotsStayApart, NEW t \in Horizon, NEW u \in Horizon,
         NEW d \in SlotDurations, NEW e \in SlotDurations, d < e
  PROVE  u \div e < t \div d
<1>1. PICK n \in Node : StartTime + Skew[n] <= t
  BY DEF Horizon
<1>2. PICK m \in Node, f \in SlotDurations : u <= MaxTime + Skew[m] + f
  BY DEF Horizon
<1> DEFINE s == StartTime + Skew[n]
           x == MaxTime + Skew[m] + f
<1>3. s \in Nat /\ x \in Nat /\ t \in Nat /\ u \in Nat
  <2>1. Skew[n] \in Int /\ Skew[m] \in Int /\ StartTime + Skew[n] > 0
    BY ClockAssumption
  <2>2. StartTime \in Nat /\ MaxTime \in Nat /\ f \in Nat
    BY ClockAssumption, SlotDurationsPositive
  <2>3. t \in Nat /\ u \in Nat
    BY DEF Horizon
  <2>4. QED
    BY <1>2, <2>1, <2>2, <2>3
<1>4. x \div e < s \div d
  BY DEF SlotsStayApart
<1>5. s <= t /\ u <= x /\ d \in Nat \ {0} /\ e \in Nat \ {0}
  BY <1>1, <1>2, SlotDurationsPositive
<1> HIDE DEF s, x
<1>6. u \div e <= x \div e /\ s \div d <= t \div d
  BY <1>3, <1>5, SlotsFollowTime
<1>7. /\ u \div e \in Nat /\ x \div e \in Nat
      /\ s \div d \in Nat /\ t \div d \in Nat
  BY <1>3, <1>5, SlotBounds
<1>8. QED
  BY <1>4, <1>6, <1>7

(* So a slot tells the duration it is counted by. *)
LEMMA SlotTellsDuration ==
  ASSUME SlotsStayApart, NEW t \in Horizon, NEW u \in Horizon,
         NEW d \in SlotDurations, NEW e \in SlotDurations, t \div d = u \div e
  PROVE  d = e
<1>1. d \in Nat \ {0} /\ e \in Nat \ {0} /\ t \in Nat /\ u \in Nat
  BY SlotDurationsPositive DEF Horizon
<1>2. t \div d \in Nat /\ u \div e \in Nat
  BY <1>1, SlotBounds
<1>3. ~ (d < e) /\ ~ (e < d)
  BY <1>2, SlotsApart
<1>4. QED
  BY <1>1, <1>3

(* What a block is stays as the chain grows. *)
LEMMA GoodStays ==
  ASSUME NEW chain, NEW longer, NEW b \in Nat, \A i \in 1..b : longer[i] = chain[i],
         b >= 2, GoodBlock(chain, b)
  PROVE  GoodBlock(longer, b) /\ CountedBy(longer, b) = CountedBy(chain, b)
<1>1. longer[b] = chain[b] /\ chain[b].parent \in 1..b
  BY DEF GoodBlock
<1>2. longer[chain[b].parent] = chain[chain[b].parent]
  BY <1>1
<1>3. CountedBy(longer, b) = CountedBy(chain, b)
  BY <1>1, <1>2 DEF CountedBy
<1>4. QED
  BY <1>1, <1>2, <1>3 DEF GoodBlock

(* A block's time lies in its slot, and its slot was over or begun by its   *)
(* author's clock.                                                         *)
LEMMA BlockTimes ==
  ASSUME AuraTypeOK, BlockInv, NEW b \in 2..Len(blocks)
  PROVE  LET a == blocks[b].author
             p == blocks[b].parent
             d == slot_duration_at(p)
         IN  /\ a \in Node /\ Now(a) \in Nat
             /\ p \in 1..(b - 1) /\ p \in 1..Len(blocks)
             /\ CountedBy(blocks, b) = d /\ d \in SlotDurations
             /\ blocks[b].slot \in Nat /\ blocks[b].time \in Nat
             /\ blocks[b].time \in Horizon
             /\ blocks[b].slot = blocks[b].time \div d
             /\ blocks[b].slot <= Now(a) \div d
             /\ blocks[b].time < Now(a) + d
             /\ blocks[b].slot > blocks[p].slot
             /\ slot_author(blocks[b].slot) = a
             /\ Executes(p, blocks[b].slot, blocks[b].time)
<1> DEFINE a == blocks[b].author
           p == blocks[b].parent
           s == blocks[b].slot
           t == blocks[b].time
           d == slot_duration_at(p)
<1>1. blocks[b] \in Block /\ b \in 1..Len(blocks)
  BY DurationsAt DEF AuraTypeOK
<1>2. a \in Node /\ s \in Nat /\ t \in Nat
  BY <1>1 DEF Block
<1>3. GoodBlock(blocks, b) /\ s <= Now(a) \div CountedBy(blocks, b)
  BY DEF BlockInv, Now
<1>4. p \in 1..(b - 1) /\ p \in 1..Len(blocks)
  BY <1>1, <1>3 DEF GoodBlock
<1>5. CountedBy(blocks, b) = d /\ d \in SlotDurations
  BY <1>1, <1>4, CountedDurations
<1>6. /\ slot_author(s) = a /\ t \in Horizon
      /\ s > blocks[p].slot /\ s = t \div d
      /\ Executes(p, s, t)
  BY <1>3, <1>5
  DEF GoodBlock, Executes, minimum_period_at, slot_duration_at
<1>7. Now(a) \in Nat /\ d \in Nat \ {0}
  BY <1>2, <1>5, Clocks, SlotDurationsPositive DEF AuraTypeOK
<1> HIDE DEF a, p, s, t, d
<1>8. t < Now(a) + d
  <2>1. PICK u \in Nat : u = Now(a)
    BY <1>7
  <2>2. t \div d <= u \div d
    BY <1>3, <1>5, <1>6, <2>1
  <2>3. QED
    BY <1>2, <1>7, <2>1, <2>2, SlotOrder
<1>9. QED
  BY <1>2, <1>3, <1>4, <1>5, <1>6, <1>7, <1>8 DEF a, p, s, t, d

LEMMA SlotsInitially ==
  ASSUME Init
  PROVE  SlotInv
<1>1. AuraInv
  BY AuraInitInv
<1>2. ClockInv
  <2>1. SUFFICES ASSUME NEW n \in Node
                 PROVE  /\ duration[n] \in SlotDurations
                        /\ (StartTime + Skew[n]) \div duration[n] <= lastSlot[n]
                        /\ lastSlot[n] <= (wall + Skew[n]) \div duration[n]
    BY DEF ClockInv
  <2>2. PICK d \in SlotDurations : d = slot_duration(SLOT_DURATION)
    BY SlotDurationsPositive
  <2>3. duration[n] = d /\ lastSlot[n] = (wall + Skew[n]) \div d /\ wall = StartTime
    BY <2>2 DEF Init, Now
  <2>4. (wall + Skew[n]) \div d \in Nat
    BY <1>1, ClockMoves DEF AuraInv, AuraTypeOK
  <2>5. QED
    BY <2>3, <2>4
<1>3. Len(blocks) = 1 /\ blocks[1].slot = 0 /\ blocks[1].time = 0 /\ 2..1 = {}
  BY DEF Init
<1>4. \A n \in Node : claim[n] = NoClaim
  BY DEF Init
<1>5. QED
  BY <1>1, <1>2, <1>3, <1>4
  DEF SlotInv, ProposalInv, BlockInv, NoEquivocation, LongerSlotsHaltChain, Genesis

(* Steps that author nothing, claim nothing and restart nothing. *)
LEMMA SlotsQuiet ==
  ASSUME SlotInv, AuraInv', UNCHANGED <<blocks, duration, lastSlot, claim>>, wall <= wall'
  PROVE  SlotInv'
<1>1. /\ AuraTypeOK /\ ClockInv /\ ProposalInv /\ BlockInv
      /\ wall \in StartTime..MaxTime /\ wall' \in StartTime..MaxTime
      /\ lastSlot \in [Node -> Nat]
  BY DEF SlotInv, AuraInv, AuraTypeOK
<1>2. ClockInv'
  <2>1. SUFFICES ASSUME NEW n \in Node
                 PROVE  /\ duration[n] \in SlotDurations
                        /\ (StartTime + Skew[n]) \div duration[n] <= lastSlot[n]
                        /\ lastSlot[n] <= (wall' + Skew[n]) \div duration[n]
    BY DEF ClockInv
  <2>2. PICK d \in SlotDurations : d = duration[n]
    BY <1>1 DEF ClockInv
  <2>3. /\ (StartTime + Skew[n]) \div d <= lastSlot[n]
        /\ lastSlot[n] <= (wall + Skew[n]) \div d
    BY <1>1, <2>2 DEF ClockInv
  <2>4. /\ (wall + Skew[n]) \div d \in Nat /\ (wall' + Skew[n]) \div d \in Nat
        /\ (wall + Skew[n]) \div d <= (wall' + Skew[n]) \div d
    BY <1>1, ClockMoves
  <2>5. lastSlot[n] \in Nat
    BY <1>1
  <2>6. QED
    BY <2>2, <2>3, <2>4, <2>5
<1>3. ProposalInv'
  BY <1>1 DEF ProposalInv
<1>4. BlockInv'
  <2>1. SUFFICES ASSUME NEW b \in 2..Len(blocks)
                 PROVE  blocks[b].slot <= (wall' + Skew[blocks[b].author])
                                            \div CountedBy(blocks, b)
    BY <1>1 DEF BlockInv
  <2>2. PICK a \in Node, d \in SlotDurations :
          a = blocks[b].author /\ d = CountedBy(blocks, b)
    BY <1>1, BlockTimes
  <2>3. blocks[b].slot \in Nat /\ blocks[b].slot <= (wall + Skew[a]) \div d
    BY <1>1, <2>2, BlockTimes DEF BlockInv
  <2>4. /\ (wall + Skew[a]) \div d \in Nat /\ (wall' + Skew[a]) \div d \in Nat
        /\ (wall + Skew[a]) \div d <= (wall' + Skew[a]) \div d
    BY <1>1, ClockMoves
  <2>5. QED
    BY <2>2, <2>3, <2>4
<1>5. NoEquivocation' /\ LongerSlotsHaltChain'
  BY DEF SlotInv, NoEquivocation, LongerSlotsHaltChain, slot_duration_at
<1>6. QED
  BY <1>2, <1>3, <1>4, <1>5 DEF SlotInv

(* The slot worker wakes: it is a new slot, so what it has authored is in   *)
(* earlier ones; and what others have, if their clocks are not ahead.      *)
LEMMA SlotsOnSlot ==
  ASSUME SlotInv, AuraInv', NEW n \in Node, OnSlot(n)
  PROVE  SlotInv'
<1>1. AuraTypeOK /\ ClockInv /\ ProposalInv /\ BlockInv
  BY DEF SlotInv, AuraInv
<1>2. PICK d \in SlotDurations : d = duration[n]
  BY <1>1 DEF ClockInv
<1> DEFINE slot == (wall + Skew[n]) \div d
           first == (StartTime + Skew[n]) \div d
           c    == [parent |-> best[n], slot |-> slot, time |-> wall + Skew[n]]
<1>3. /\ best[n] \in 1..Len(blocks)
      /\ lastSlot \in [Node -> Nat] /\ claim \in [Node -> Proposal]
      /\ wall \in StartTime..MaxTime
  BY <1>1 DEF AuraTypeOK
<1>4. /\ slot > lastSlot[n]
      /\ lastSlot' = [lastSlot EXCEPT ![n] = slot]
      /\ \/ slot_author(slot) = n /\ claim' = [claim EXCEPT ![n] = c]
         \/ claim' = claim
      /\ claim[n] = NoClaim
      /\ UNCHANGED <<wall, blocks, duration>>
  BY <1>2 DEF OnSlot, MayClaim, Now
<1>5. /\ slot \in Nat /\ first \in Nat /\ wall + Skew[n] \in Nat
      /\ first <= lastSlot[n] /\ lastSlot[n] \in Nat
  <2>1. StartTime \in StartTime..MaxTime /\ StartTime <= wall
    BY <1>3, ClockAssumption
  <2>2. slot \in Nat /\ first \in Nat /\ wall + Skew[n] \in Nat
    BY <1>3, <2>1, ClockMoves
  <2>3. QED
    BY <1>1, <1>2, <1>3, <2>2 DEF ClockInv
<1>6. wall + Skew[n] \in Horizon
  <2>1. StartTime + Skew[n] <= wall + Skew[n] /\ wall + Skew[n] <= wall + Skew[n] + d
    <3>1. StartTime \in Nat /\ Skew[n] \in Int /\ d \in Nat
      BY ClockAssumption, SlotDurationsPositive
    <3>2. QED
      BY <1>3, <1>5, <3>1
  <2>2. QED
    BY <1>3, <1>5, <2>1, ClockInHorizon
<1>7. c.slot = slot /\ c.parent = best[n] /\ c.time = wall + Skew[n]
  OBVIOUS
<1> HIDE DEF slot, first, c
<1>8. /\ lastSlot'[n] = slot
      /\ \A m \in Node : lastSlot'[m] = IF m = n THEN slot ELSE lastSlot[m]
      /\ \A m \in Node : lastSlot[m] \in Nat /\ lastSlot'[m] \in Nat
                         /\ lastSlot'[m] >= lastSlot[m]
  BY <1>3, <1>4, <1>5
<1>9. ClockInv'
  <2>1. SUFFICES ASSUME NEW m \in Node
                 PROVE  /\ duration[m] \in SlotDurations
                        /\ (StartTime + Skew[m]) \div duration[m] <= lastSlot'[m]
                        /\ lastSlot'[m] <= (wall + Skew[m]) \div duration[m]
    BY <1>4 DEF ClockInv
  <2>2. CASE m = n
    BY <1>2, <1>4, <1>5, <1>8, <2>2 DEF slot, first
  <2>3. CASE m # n
    BY <1>1, <1>8, <2>3 DEF ClockInv
  <2>4. QED
    BY <2>2, <2>3
<1>10. AfterOwn(blocks, n, d, slot)
  <2>1. SUFFICES ASSUME NEW b \in 2..Len(blocks), blocks[b].author = n,
                        CountedBy(blocks, b) = d
                 PROVE  blocks[b].slot < slot
    BY DEF AfterOwn
  <2>2. blocks[b].slot \in Nat /\ blocks[b].slot <= lastSlot[n]
    BY <1>1, <1>2, <2>1, BlockTimes DEF BlockInv
  <2>3. QED
    BY <1>4, <1>5, <2>2
<1>11. ASSUME slot_author(slot) = n
       PROVE  AfterParent(blocks, n, d, best[n], slot)
  <2>1. SUFFICES ASSUME best[n] # Genesis, CountedBy(blocks, best[n]) = d,
                        Skew[n] >= Skew[blocks[best[n]].author]
                 PROVE  slot > blocks[best[n]].slot
    BY DEF AfterParent
  <2>2. PICK b \in 2..Len(blocks) : b = best[n]
    BY <1>3, <2>1 DEF Genesis
  <2>3. PICK a \in Node : a = blocks[b].author
    BY <1>1, BlockTimes
  <2>4. /\ blocks[b].slot \in Nat
        /\ blocks[b].slot <= (wall + Skew[a]) \div d
        /\ slot_author(blocks[b].slot) = a
    BY <1>1, <2>1, <2>2, <2>3, BlockTimes DEF BlockInv
  <2>5. (wall + Skew[a]) \div d \in Nat /\ (wall + Skew[a]) \div d <= slot
    <3>1. wall + Skew[a] \in Nat /\ (wall + Skew[a]) \div d \in Nat
      BY <1>3, ClockMoves
    <3>2. wall + Skew[a] <= wall + Skew[n]
      <4>1. Skew[a] \in Int /\ Skew[n] \in Int /\ wall \in Int
        BY <1>3, ClockAssumption
      <4>2. QED
        BY <2>1, <2>2, <2>3, <4>1
    <3>3. QED
      BY <1>5, <3>1, <3>2, SlotDurationsPositive, SlotsFollowTime DEF slot
  <2>6. blocks[b].slot # slot
    <3>1. SUFFICES ASSUME blocks[b].slot = slot PROVE FALSE
      OBVIOUS
    <3>2. blocks[b].author = n /\ CountedBy(blocks, b) = d
      BY <1>11, <2>1, <2>2, <2>3, <2>4, <3>1
    <3>3. QED
      BY <1>5, <1>10, <3>1, <3>2 DEF AfterOwn
  <2>7. QED
    BY <1>5, <2>2, <2>4, <2>5, <2>6
<1>12. ProposalInv'
  <2>1. SUFFICES ASSUME NEW m \in Node, claim'[m] # NoClaim
                 PROVE
           /\ claim'[m].slot = lastSlot'[m]
           /\ claim'[m].slot > (StartTime + Skew[m]) \div duration[m]
           /\ claim'[m].time \in Horizon
           /\ slot_author(claim'[m].slot) = m
           /\ AfterOwn(blocks, m, duration[m], claim'[m].slot)
           /\ AfterParent(blocks, m, duration[m], claim'[m].parent, claim'[m].slot)
    BY <1>4 DEF ProposalInv
  <2>2. CASE m # n \/ claim' = claim
    <3>1. m # n /\ claim'[m] = claim[m] /\ lastSlot'[m] = lastSlot[m]
      BY <1>3, <1>4, <1>8, <2>1, <2>2
    <3>2. QED
      BY <1>1, <2>1, <3>1 DEF ProposalInv
  <2>3. CASE m = n /\ claim' # claim
    <3>1. claim'[m] = c /\ slot_author(slot) = n
      BY <1>3, <1>4, <2>3
    <3>2. slot > first
      BY <1>4, <1>5
    <3>3. QED
      BY <1>2, <1>6, <1>7, <1>8, <1>10, <1>11, <2>3, <3>1, <3>2 DEF first
  <2>4. QED
    BY <2>2, <2>3
<1>13. BlockInv'
  <2>1. SUFFICES ASSUME NEW b \in 2..Len(blocks),
                        duration[blocks[b].author] = CountedBy(blocks, b)
                 PROVE  blocks[b].slot <= lastSlot'[blocks[b].author]
    BY <1>1, <1>4 DEF BlockInv
  <2>2. PICK a \in Node : a = blocks[b].author
    BY <1>1, BlockTimes
  <2>3. blocks[b].slot \in Nat /\ blocks[b].slot <= lastSlot[a]
    BY <1>1, <2>1, <2>2, BlockTimes DEF BlockInv
  <2>4. QED
    BY <1>8, <2>2, <2>3
<1>14. NoEquivocation' /\ LongerSlotsHaltChain'
  BY <1>4 DEF SlotInv, NoEquivocation, LongerSlotsHaltChain, slot_duration_at
<1>15. QED
  BY <1>9, <1>12, <1>13, <1>14 DEF SlotInv

(* What the runtime executes has been proposed with the duration that it    *)
(* counts by: a node with a shorter one proposes for a slot far ahead of    *)
(* its timestamp, one with a longer one for a slot far behind it.          *)
LEMMA ProposesAsCounted ==
  ASSUME SlotsStayApart, AuraTypeOK, ClaimInv, ClockInv, ProposalInv, BlockInv,
         NEW n \in Node, claim[n] # NoClaim,
         Executes(claim[n].parent, claim[n].slot,
                  create_inherent(claim[n].parent, claim[n].time))
  PROVE  duration[n] = slot_duration_at(claim[n].parent)
<1>1. PICK p \in 1..Len(blocks) : p = claim[n].parent
  BY DEF ClaimInv
<1>2. PICK d \in SlotDurations : d = duration[n]
  BY DEF ClockInv
<1>3. PICK e \in SlotDurations : e = slot_duration_at(p)
  BY CountedDurations
<1> DEFINE s     == claim[n].slot
           t     == claim[n].time
           u     == blocks[p].time
           min   == minimum_period_at(p)
           time  == create_inherent(p, t)
           start == StartTime + Skew[n]
<1>4. /\ s \in Nat /\ t \in Nat /\ u \in Nat /\ min \in Nat \ {0} /\ min <= e
      /\ d \in Nat \ {0} /\ e \in Nat \ {0} /\ start \in Nat
  <2>1. claim[n] \in Proposal
    BY DEF AuraTypeOK
  <2>2. s \in Nat /\ t \in Nat
    BY <2>1 DEF Proposal
  <2>3. u \in Nat /\ min \in Nat \ {0} /\ min <= e
    BY <1>3, DurationsAt DEF Block
  <2>4. start \in Nat
    BY ClockAssumption
  <2>5. QED
    BY <2>2, <2>3, <2>4, SlotDurationsPositive
<1>5. t \in Horizon /\ s = t \div d /\ s > start \div d
  BY <1>2 DEF ProposalInv, ClaimInv
<1>6. start \in Horizon
  <2>1. StartTime \in StartTime..MaxTime
    BY ClockAssumption, BoundsAssumption
  <2>2. start \in Nat /\ start <= start /\ start <= start + d
    BY <1>4
  <2>3. QED
    BY <2>1, <2>2, ClockInHorizon
<1>7. /\ s = time \div e
      /\ time = IF t >= u + min THEN t ELSE u + min
      /\ time \in Nat /\ time >= u + min /\ time >= t
  <2>1. s = time \div e
    BY <1>1, <1>3 DEF Executes
  <2>2. time = IF t >= u + min THEN t ELSE u + min
    BY DEF create_inherent
  <2> HIDE DEF s, t, u, min, time, start
  <2>3. QED
    BY <1>4, <2>1, <2>2
<1>8. p # Genesis => u \in Horizon
  BY BlockTimes DEF Genesis
<1>9. p = Genesis => u = 0
  BY DEF BlockInv
<1>10. SUFFICES ASSUME d # e PROVE FALSE
  BY <1>1, <1>2, <1>3
<1> HIDE DEF s, t, u, min, time, start
<1>11. start \div d \in Nat /\ u \div e \in Nat /\ t \div d \in Nat /\ t \div e \in Nat
  BY <1>4, SlotBounds
<1>12. CASE time = t
  BY <1>5, <1>7, <1>10, <1>12, SlotTellsDuration
<1>13. CASE time = u + min /\ p = Genesis
  <2>1. time = min
    BY <1>4, <1>9, <1>13
  <2>2. min < e
    <3>1. slot_duration_at(p) = 2 * minimum_period_at(p)
      BY DEF slot_duration_at, slot_duration, minimum_period_at
    <3>2. QED
      BY <1>3, <1>4, <3>1 DEF min
  <2>3. time \div e = 0
    BY <1>4, <2>1, <2>2
  <2>4. QED
    BY <1>4, <1>5, <1>7, <1>11, <2>3
<1>14. CASE time = u + min /\ p # Genesis
  <2>1. u \in Horizon
    BY <1>8, <1>14
  <2>2. CASE d < e
    <3>1. u \div e < start \div d
      BY <1>6, <2>1, <2>2, SlotsApart
    <3>2. time \div e <= u \div e + 1
      <4>1. (u + e) \div e = u \div e + 1
        BY <1>4, NextSlot
      <4>2. time \div e <= (u + e) \div e
        BY <1>4, <1>7, <1>14, SlotsFollowTime
      <4>3. QED
        BY <4>1, <4>2
    <3>3. QED
      BY <1>4, <1>5, <1>7, <1>11, <3>1, <3>2
  <2>3. CASE e < d
    <3>1. t \div d < u \div e
      BY <1>5, <2>1, <2>3, SlotsApart
    <3>2. u \div e <= time \div e
      BY <1>4, <1>7, SlotsFollowTime
    <3>3. QED
      BY <1>4, <1>5, <1>7, <1>11, <3>1, <3>2
  <2>4. QED
    BY <1>4, <1>10, <2>2, <2>3
<1>15. QED
  BY <1>7, <1>12, <1>13, <1>14

(* A finished proposal, as a step of the chain. *)
LEMMA ProposeAppends ==
  ASSUME SlotInv, AuraInv', NEW n \in Node, Propose(n)
  PROVE  LET last == Len(blocks) + 1 IN
         /\ claim[n] # NoClaim
         /\ claim[n].parent \in 1..Len(blocks)
         /\ blocks' \in Seq(Block) /\ Len(blocks') = last
         /\ \A b \in 1..Len(blocks) : blocks'[b] = blocks[b]
         /\ blocks'[last].parent = claim[n].parent
         /\ blocks'[last].slot = claim[n].slot
         /\ blocks'[last].author = n
         /\ blocks'[last].time = create_inherent(claim[n].parent, claim[n].time)
         /\ Executes(claim[n].parent, claim[n].slot,
                     create_inherent(claim[n].parent, claim[n].time))
         /\ UNCHANGED <<wall, duration, lastSlot>>
         /\ claim' = [claim EXCEPT ![n] = NoClaim]
<1>1. /\ blocks \in Seq(Block) /\ Len(blocks) \in Nat /\ blocks' \in Seq(Block)
      /\ claim[n].parent \in 1..Len(blocks)
      /\ claim[n] # NoClaim
  BY DEF SlotInv, AuraInv, AuraTypeOK, ClaimInv, Propose
<1>2. PICK e : /\ blocks' = Append(blocks, e)
               /\ e.parent = claim[n].parent /\ e.slot = claim[n].slot /\ e.author = n
               /\ e.time = create_inherent(claim[n].parent, claim[n].time)
  BY DEF Propose
<1>3. /\ Len(blocks') = Len(blocks) + 1
      /\ blocks'[Len(blocks) + 1] = e
      /\ \A b \in 1..Len(blocks) : blocks'[b] = blocks[b]
  BY <1>1, <1>2
<1>4. /\ Executes(claim[n].parent, claim[n].slot,
                  create_inherent(claim[n].parent, claim[n].time))
      /\ UNCHANGED <<wall, duration, lastSlot>>
      /\ claim' = [claim EXCEPT ![n] = NoClaim]
  BY DEF Propose
<1>5. QED
  BY <1>1, <1>2, <1>3, <1>4

(* The block that a proposal becomes is a good one, of its author's last    *)
(* slot, and counted by its author's duration.                             *)
LEMMA ProposedBlock ==
  ASSUME SlotsStayApart, SlotInv, AuraInv', NEW n \in Node, Propose(n)
  PROVE  LET last == Len(blocks) + 1 IN
         /\ duration[n] = CountedBy(blocks', last)
         /\ GoodBlock(blocks', last)
         /\ blocks'[last].slot = lastSlot[n]
         /\ blocks'[last].slot \in Nat
<1>1. AuraTypeOK /\ ClaimInv /\ ClockInv /\ ProposalInv /\ BlockInv
  BY DEF SlotInv, AuraInv
<1>2. PICK last \in Nat, p \in 1..Len(blocks) :
        /\ last = Len(blocks) + 1 /\ p = claim[n].parent /\ p \in 1..(last - 1)
  <2>1. Len(blocks) \in Nat /\ claim[n].parent \in 1..Len(blocks)
    BY <1>1, ProposeAppends DEF AuraTypeOK
  <2>2. QED
    BY <2>1
<1>3. PICK d \in SlotDurations, s \in Nat, t \in Nat :
        /\ d = duration[n]
        /\ s = claim[n].slot
        /\ t = claim[n].time
  <2>1. claim[n] \in Proposal
    BY <1>1 DEF AuraTypeOK
  <2>2. claim[n].slot \in Nat /\ claim[n].time \in Nat
    BY <2>1 DEF Proposal
  <2>3. QED
    BY <1>1, <2>2 DEF ClockInv
<1>4. PICK time \in Nat : time = create_inherent(p, t) /\ time >= t
  <2>1. create_inherent(p, t) \in Nat
    BY <1>1, InherentTime
  <2>2. blocks[p].time + minimum_period_at(p) \in Nat
    <3>1. blocks[p].time \in Nat
      BY <1>1, DurationsAt DEF Block
    <3>2. minimum_period_at(p) \in Nat
      BY <1>1, DurationsAt
    <3>3. QED
      BY <3>1, <3>2
  <2>3. create_inherent(p, t) >= t
    BY <2>1, <2>2 DEF create_inherent
  <2>4. QED
    BY <2>1, <2>3
<1>5. /\ claim[n] # NoClaim
      /\ Executes(p, s, time)
      /\ blocks'[last].parent = p
      /\ blocks'[last].slot = s
      /\ blocks'[last].author = n
      /\ blocks'[last].time = time
      /\ blocks'[p] = blocks[p]
  BY <1>2, <1>3, <1>4, ProposeAppends
<1>6. d = slot_duration_at(p)
  BY <1>1, <1>2, <1>3, <1>4, <1>5, ProposesAsCounted
<1>7. d = CountedBy(blocks', last)
  BY <1>5, <1>6 DEF CountedBy, slot_duration_at
<1>8. s = lastSlot[n] /\ t \in Horizon /\ slot_author(s) = n
  BY <1>1, <1>3, <1>5 DEF ProposalInv
<1>9. s = time \div d
  BY <1>5, <1>6 DEF Executes
<1>10. time \in Horizon
  <2>1. PICK now \in Nat : now = wall + Skew[n] /\ now <= MaxTime + Skew[n]
    <3>1. wall \in StartTime..MaxTime /\ Skew[n] \in Int /\ MaxTime \in Nat /\ StartTime \in Nat
      BY <1>1, ClockAssumption DEF AuraTypeOK
    <3>2. wall + Skew[n] \in Nat
      BY <1>1, Clocks DEF AuraTypeOK, Now
    <3>3. wall + Skew[n] <= MaxTime + Skew[n]
      BY <3>1
    <3>4. QED
      BY <3>2, <3>3
  <2>2. time \div d <= now \div d
    BY <1>1, <1>3, <1>8, <1>9, <2>1 DEF ClockInv
  <2>3. d \in Nat \ {0} /\ MaxTime + Skew[n] \in Int
    BY SlotDurationsPositive, ClockAssumption
  <2>4. time < now + d
    BY <2>2, <2>3, SlotOrder
  <2>5. time <= MaxTime + Skew[n] + d
    BY <2>1, <2>3, <2>4
  <2>6. PICK m \in Node : StartTime + Skew[m] <= t
    BY <1>8 DEF Horizon
  <2>7. StartTime + Skew[m] <= time
    <3>1. StartTime + Skew[m] \in Int
      BY ClockAssumption
    <3>2. QED
      BY <1>4, <2>6, <3>1
  <2>8. QED
    BY <2>5, <2>7 DEF Horizon
<1>11. GoodBlock(blocks', last)
  BY <1>2, <1>5, <1>7, <1>8, <1>9, <1>10
  DEF GoodBlock, Executes, minimum_period_at
<1>12. QED
  BY <1>2, <1>3, <1>5, <1>7, <1>8, <1>11

(* The proposal becomes a block: its author's first in that slot, and on a  *)
(* parent whose runtime has slots no longer than those of the parent's      *)
(* parent.                                                                 *)
LEMMA SlotsPropose ==
  ASSUME SlotsStayApart, SlotInv, AuraInv', NEW n \in Node, Propose(n)
  PROVE  SlotInv'
<1>1. AuraTypeOK /\ ClaimInv /\ ClockInv /\ ProposalInv /\ BlockInv
  BY DEF SlotInv, AuraInv
<1>2. Len(blocks) \in Nat /\ Len(blocks) >= 1 /\ claim \in [Node -> Proposal]
  BY <1>1 DEF AuraTypeOK
<1> DEFINE last == Len(blocks) + 1
           c    == claim[n]
<1>3. /\ UNCHANGED <<wall, duration, lastSlot>>
      /\ Len(blocks') = last
      /\ \A b \in 1..Len(blocks) : blocks'[b] = blocks[b]
      /\ blocks'[last].author = n
      /\ blocks'[last].slot = c.slot
      /\ blocks'[last].parent = c.parent
      /\ c.parent \in 1..Len(blocks)
      /\ c # NoClaim
      /\ \A m \in Node : claim'[m] # NoClaim => m # n /\ claim'[m] = claim[m]
  BY <1>2, ProposeAppends
<1>4. /\ duration[n] = CountedBy(blocks', last)
      /\ GoodBlock(blocks', last)
      /\ c.slot = lastSlot[n]
      /\ c.slot \in Nat
  BY <1>3, ProposedBlock
<1>5. \A b \in 2..last : b = last \/ b \in 2..Len(blocks)
  BY <1>2
<1>6. \A b \in 2..Len(blocks) : /\ GoodBlock(blocks', b)
                                /\ CountedBy(blocks', b) = CountedBy(blocks, b)
                                /\ blocks'[b] = blocks[b]
  <2>1. SUFFICES ASSUME NEW b \in 2..Len(blocks)
                 PROVE  /\ GoodBlock(blocks', b)
                        /\ CountedBy(blocks', b) = CountedBy(blocks, b)
    BY <1>3
  <2>2. GoodBlock(blocks, b) /\ \A i \in 1..b : blocks'[i] = blocks[i]
    BY <1>1, <1>3 DEF BlockInv
  <2>3. QED
    BY <2>2, GoodStays
<1> HIDE DEF last, c
<1>7. ClockInv'
  BY <1>1, <1>3 DEF ClockInv
<1>8. ProposalInv'
  <2>1. SUFFICES ASSUME NEW m \in Node, claim'[m] # NoClaim
                 PROVE
           /\ AfterOwn(blocks', m, duration[m], claim'[m].slot)
           /\ AfterParent(blocks', m, duration[m], claim'[m].parent, claim'[m].slot)
    BY <1>1, <1>3 DEF ProposalInv
  <2>2. m # n /\ claim'[m] = claim[m] /\ claim[m] # NoClaim
    BY <1>3, <2>1
  <2>3. /\ AfterOwn(blocks, m, duration[m], claim[m].slot)
        /\ AfterParent(blocks, m, duration[m], claim[m].parent, claim[m].slot)
        /\ claim[m].parent \in 1..Len(blocks)
    BY <1>1, <2>2 DEF ProposalInv, ClaimInv
  <2>4. AfterOwn(blocks', m, duration[m], claim[m].slot)
    BY <1>3, <1>5, <1>6, <2>2, <2>3 DEF AfterOwn
  <2>5. AfterParent(blocks', m, duration[m], claim[m].parent, claim[m].slot)
    <3>1. CASE claim[m].parent = Genesis
      BY <3>1 DEF AfterParent
    <3>2. CASE claim[m].parent # Genesis
      <4>1. claim[m].parent \in 2..Len(blocks)
        BY <2>3, <3>2 DEF Genesis
      <4>2. QED
        BY <1>6, <2>3, <4>1 DEF AfterParent
    <3>3. QED
      BY <3>1, <3>2
  <2>6. QED
    BY <2>2, <2>4, <2>5
<1>9. BlockInv'
  <2>1. blocks'[Genesis].slot = 0 /\ blocks'[Genesis].time = 0
    BY <1>1, <1>2, <1>3 DEF BlockInv, Genesis
  <2>2. SUFFICES ASSUME NEW b \in 2..last
                 PROVE  /\ GoodBlock(blocks', b)
                        /\ blocks'[b].slot <= (wall + Skew[blocks'[b].author])
                                                \div CountedBy(blocks', b)
                        /\ duration[blocks'[b].author] = CountedBy(blocks', b)
                             => blocks'[b].slot <= lastSlot[blocks'[b].author]
    BY <1>3, <2>1 DEF BlockInv
  <2>3. CASE b = last
    <3>1. c.slot <= (wall + Skew[n]) \div duration[n]
      BY <1>1, <1>4 DEF ClockInv
    <3>2. QED
      BY <1>3, <1>4, <2>3, <3>1
  <2>4. CASE b \in 2..Len(blocks)
    BY <1>1, <1>6, <2>4 DEF BlockInv
  <2>5. QED
    BY <1>5, <2>3, <2>4
<1>10. NoEquivocation'
  <2>1. SUFFICES ASSUME NEW b1 \in 2..last, NEW b2 \in 2..last,
                        blocks'[b1].author = blocks'[b2].author,
                        blocks'[b1].slot = blocks'[b2].slot
                 PROVE  b1 = b2
    BY <1>3 DEF NoEquivocation
  <2>2. ASSUME NEW b \in 2..Len(blocks), blocks[b].author = n
        PROVE  blocks[b].slot # c.slot
    <3>1. SUFFICES ASSUME blocks[b].slot = c.slot PROVE FALSE
      OBVIOUS
    <3>2. PICK d \in SlotDurations, e \in SlotDurations, t \in Horizon, u \in Horizon :
            /\ d = duration[n] /\ c.slot = t \div d
            /\ e = CountedBy(blocks, b) /\ blocks[b].slot = u \div e
      <4>1. /\ duration[n] \in SlotDurations
            /\ claim[n].time \in Horizon
            /\ c.slot = claim[n].time \div duration[n]
        BY <1>1, <1>3 DEF ClockInv, ClaimInv, ProposalInv, c
      <4>2. /\ CountedBy(blocks, b) \in SlotDurations
            /\ blocks[b].time \in Horizon
            /\ blocks[b].slot = blocks[b].time \div CountedBy(blocks, b)
        BY <1>1, BlockTimes
      <4>3. QED
        BY <4>1, <4>2
    <3>3. d = e
      BY <3>1, <3>2, SlotTellsDuration
    <3>4. AfterOwn(blocks, n, d, c.slot)
      BY <1>1, <1>3, <3>2 DEF ProposalInv, c
    <3>5. QED
      BY <1>4, <2>2, <3>1, <3>2, <3>3, <3>4 DEF AfterOwn
  <2>3. CASE b1 = last /\ b2 # last
    BY <1>3, <1>5, <1>6, <2>1, <2>2, <2>3
  <2>4. CASE b1 # last /\ b2 = last
    BY <1>3, <1>5, <1>6, <2>1, <2>2, <2>4
  <2>5. CASE b1 # last /\ b2 # last
    BY <1>5, <1>6, <2>1, <2>5 DEF SlotInv, NoEquivocation
  <2>6. QED
    BY <2>3, <2>4, <2>5
<1>11. LongerSlotsHaltChain'
  <2>1. \A b \in 2..last : blocks'[b].parent \in 1..Len(blocks)
    BY <1>1, <1>3, <1>5, <1>6, BlockTimes
  <2>2. \A b \in 2..last :
          CountedBy(blocks', b) = slot_duration(blocks[blocks'[b].parent].runtime)
    BY <1>3, <2>1 DEF CountedBy
  <2>3. \A b \in 2..Len(blocks) :
          CountedBy(blocks, b) <= slot_duration(blocks[Genesis].runtime)
    BY <1>1, BlockTimes DEF SlotInv, LongerSlotsHaltChain, slot_duration_at
  <2>4. CountedBy(blocks', last) <= slot_duration(blocks[Genesis].runtime)
    <3>1. PICK d \in SlotDurations, t \in Horizon :
            d = CountedBy(blocks', last) /\ c.slot = t \div d /\ d = slot_duration_at(c.parent)
      <4>1. c.slot = claim[n].time \div duration[n] /\ claim[n].time \in Horizon
        BY <1>1, <1>3 DEF ClaimInv, ProposalInv, c
      <4>2. duration[n] \in SlotDurations
        BY <1>1 DEF ClockInv
      <4>3. duration[n] = slot_duration_at(c.parent)
        BY <1>3, <1>4 DEF CountedBy, slot_duration_at
      <4>4. QED
        BY <1>4, <4>1, <4>2, <4>3
    <3>2. PICK p \in 1..Len(blocks) : p = c.parent
      BY <1>3
    <3>3. d \in Nat /\ slot_duration(blocks[Genesis].runtime) \in Nat
      <4>1. slot_duration_at(Genesis) \in SlotDurations
        BY <1>1, <1>2, CountedDurations DEF Genesis
      <4>2. QED
        BY <4>1, SlotDurationsPositive DEF slot_duration_at
    <3>4. CASE p = Genesis
      BY <3>1, <3>2, <3>3, <3>4 DEF slot_duration_at
    <3>5. CASE p # Genesis
      <4>1. PICK e \in SlotDurations, u \in Horizon :
              e = CountedBy(blocks, p) /\ blocks[p].slot = u \div e /\ p \in 2..Len(blocks)
        <5>1. p \in 2..Len(blocks)
          BY <3>5 DEF Genesis
        <5>2. /\ CountedBy(blocks, p) \in SlotDurations
              /\ blocks[p].time \in Horizon
              /\ blocks[p].slot = blocks[p].time \div CountedBy(blocks, p)
          BY <1>1, <5>1, BlockTimes
        <5>3. QED
          BY <5>1, <5>2
      <4>2. c.slot > blocks[p].slot /\ blocks[p].slot \in Nat
        <5>1. blocks'[last].slot > blocks'[blocks'[last].parent].slot
          BY <1>4 DEF GoodBlock
        <5>2. blocks[p].slot \in Nat
          BY <1>1, <4>1, BlockTimes
        <5>3. QED
          BY <1>3, <3>2, <5>1, <5>2
      <4>3. ~ (e < d)
        <5>1. SUFFICES ASSUME e < d PROVE FALSE
          OBVIOUS
        <5>2. t \div d < u \div e
          BY <5>1, SlotsApart
        <5>3. QED
          BY <1>4, <3>1, <4>1, <4>2, <5>2
      <4>4. e <= slot_duration(blocks[Genesis].runtime) /\ e \in Nat
        BY <2>3, <4>1, SlotDurationsPositive
      <4>5. QED
        BY <3>1, <3>3, <4>3, <4>4
    <3>6. QED
      BY <3>4, <3>5
  <2>5. blocks'[Genesis] = blocks[Genesis]
    BY <1>2, <1>3 DEF Genesis
  <2>6. ASSUME NEW b \in 2..last
        PROVE  slot_duration(blocks'[blocks'[b].parent].runtime)
                 <= slot_duration(blocks'[Genesis].runtime)
    <3>1. CountedBy(blocks', b) <= slot_duration(blocks[Genesis].runtime)
      BY <1>5, <1>6, <2>3, <2>4
    <3>2. QED
      BY <2>5, <3>1 DEF CountedBy
  <2>7. QED
    BY <1>3, <2>6 DEF LongerSlotsHaltChain, slot_duration_at
<1>12. QED
  BY <1>7, <1>8, <1>9, <1>10, <1>11 DEF SlotInv

LEMMA SlotsAbandon ==
  ASSUME SlotInv, AuraInv', NEW n \in Node, Abandon(n)
  PROVE  SlotInv'
<1>1. /\ UNCHANGED <<wall, blocks, duration, lastSlot>>
      /\ claim' = [claim EXCEPT ![n] = NoClaim]
      /\ claim \in [Node -> Proposal]
  BY DEF Abandon, SlotInv, AuraInv, AuraTypeOK
<1>2. \A m \in Node : claim'[m] # NoClaim => claim'[m] = claim[m]
  BY <1>1
<1>3. ClockInv' /\ NoEquivocation' /\ LongerSlotsHaltChain'
  BY <1>1 DEF SlotInv, ClockInv, NoEquivocation, LongerSlotsHaltChain, slot_duration_at
<1>4. ProposalInv'
  BY <1>1, <1>2 DEF SlotInv, ProposalInv
<1>5. BlockInv'
  BY <1>1 DEF SlotInv, BlockInv
<1>6. QED
  BY <1>3, <1>4, <1>5 DEF SlotInv

(* A node that starts again sleeps until the next slot: it has forgotten    *)
(* which slots it used, and none of those that are counted as it counts     *)
(* now is later than this one.                                             *)
LEMMA SlotsRestart ==
  ASSUME SlotInv, AuraInv', NEW n \in Node, Restart(n)
  PROVE  SlotInv'
<1>1. AuraTypeOK /\ ClockInv /\ ProposalInv /\ BlockInv
  BY DEF SlotInv, AuraInv
<1>2. /\ best[n] \in 1..Len(blocks)
      /\ claim \in [Node -> Proposal]
      /\ lastSlot \in [Node -> Nat]
      /\ duration \in [Node -> Nat \ {0}]
      /\ wall \in StartTime..MaxTime
  BY <1>1 DEF AuraTypeOK
<1>3. PICK d \in SlotDurations : d = slot_duration_at(best[n])
  BY <1>1, <1>2, CountedDurations
<1> DEFINE slot  == (wall + Skew[n]) \div d
           first == (StartTime + Skew[n]) \div d
<1>4. slot \in Nat /\ first \in Nat /\ first <= slot
  <2>1. StartTime \in StartTime..MaxTime /\ StartTime <= wall
    BY <1>2, ClockAssumption
  <2>2. QED
    BY <1>2, <2>1, ClockMoves
<1>5. /\ duration' = [duration EXCEPT ![n] = d]
      /\ lastSlot' = [lastSlot EXCEPT ![n] = slot]
      /\ claim' = [claim EXCEPT ![n] = NoClaim]
      /\ UNCHANGED <<wall, blocks>>
  BY <1>3 DEF Restart, Now
<1>6. /\ \A m \in Node : claim'[m] # NoClaim => m # n /\ claim'[m] = claim[m]
      /\ \A m \in Node : duration'[m] = IF m = n THEN d ELSE duration[m]
      /\ \A m \in Node : lastSlot'[m] = IF m = n THEN slot ELSE lastSlot[m]
  <2> HIDE DEF slot
  <2> QED
    BY <1>2, <1>5
<1>7. ClockInv'
  <2>1. SUFFICES ASSUME NEW m \in Node
                 PROVE  /\ duration'[m] \in SlotDurations
                        /\ (StartTime + Skew[m]) \div duration'[m] <= lastSlot'[m]
                        /\ lastSlot'[m] <= (wall + Skew[m]) \div duration'[m]
    BY <1>5 DEF ClockInv
  <2>2. CASE m = n
    BY <1>4, <1>6, <2>2
  <2>3. CASE m # n
    BY <1>1, <1>6, <2>3 DEF ClockInv
  <2>4. QED
    BY <2>2, <2>3
<1> HIDE DEF slot
<1>8. ProposalInv'
  BY <1>1, <1>5, <1>6 DEF ProposalInv
<1>9. BlockInv'
  <2>1. SUFFICES ASSUME NEW b \in 2..Len(blocks),
                        duration'[blocks[b].author] = CountedBy(blocks, b)
                 PROVE  blocks[b].slot <= lastSlot'[blocks[b].author]
    BY <1>1, <1>5 DEF BlockInv
  <2>2. CASE blocks[b].author = n
    <3>1. CountedBy(blocks, b) = d
      BY <1>6, <2>1, <2>2
    <3>2. blocks[b].slot <= slot
      BY <1>1, <2>2, <3>1 DEF BlockInv, slot
    <3>3. QED
      BY <1>6, <2>2, <3>2
  <2>3. CASE blocks[b].author # n
    BY <1>1, <1>6, <2>1, <2>3, BlockTimes DEF BlockInv
  <2>4. QED
    BY <2>2, <2>3
<1>10. NoEquivocation' /\ LongerSlotsHaltChain'
  BY <1>5 DEF SlotInv, NoEquivocation, LongerSlotsHaltChain, slot_duration_at
<1>11. QED
  BY <1>7, <1>8, <1>9, <1>10 DEF SlotInv

LEMMA SlotInvariant ==
  ASSUME SlotsStayApart
  PROVE  Spec => []SlotInv
<1>1. Init => SlotInv
  BY SlotsInitially
<1>2. SlotInv /\ AuraInv' /\ [Next]_vars => SlotInv'
  <2>1. SUFFICES ASSUME SlotInv, AuraInv', [Next]_vars PROVE SlotInv'
    OBVIOUS
  <2>2. wall \in Nat
    <3>1. wall \in StartTime..MaxTime
      BY <2>1 DEF SlotInv, AuraInv, AuraTypeOK
    <3>2. StartTime \in Nat /\ MaxTime \in Nat
      BY ClockAssumption
    <3>3. QED
      BY <3>1, <3>2
  <2>3. CASE Tick
    BY <2>1, <2>2, <2>3, SlotsQuiet DEF Tick, nodeVars
  <2>4. ASSUME NEW n \in Node, Import(n) \/ LosePeers(n) \/ FindPeers(n)
        PROVE  SlotInv'
    BY <2>1, <2>2, <2>4, SlotsQuiet DEF Import, LosePeers, FindPeers, nodeVars
  <2>5. CASE UNCHANGED vars
    BY <2>1, <2>2, <2>5, SlotsQuiet DEF vars, nodeVars
  <2>6. QED
    BY <2>1, <2>3, <2>4, <2>5, SlotsOnSlot, SlotsPropose, SlotsAbandon, SlotsRestart DEF Next
<1>3. QED
  BY <1>1, <1>2, AuraInvariant, PTL DEF Spec

(* At most one block per authority and slot, on any fork: because the slot  *)
(* worker never wakes twice for a slot, after a restart only for the next   *)
(* one, and after an upgrade for slots that no other duration counts.      *)
THEOREM NeverEquivocates ==
  ASSUME SlotsStayApart
  PROVE  Spec => []NoEquivocation
  BY SlotInvariant, PTL DEF SlotInv

(* Timestamps that are pushed past MinimumPeriod stay in their author's     *)
(* slot, and that slot is never ahead of the author's clock.               *)
THEOREM ChainTimeIsBounded ==
  ASSUME SlotsStayApart
  PROVE  Spec => []ChainTimeBounded
<1>1. SlotInv => ChainTimeBounded
  BY BlockTimes DEF SlotInv, AuraInv, ChainTimeBounded
<1>2. QED
  BY <1>1, SlotInvariant, PTL

(* A slot worker whose clock is not behind the head's author's claims a     *)
(* slot later than the head's, if both count as the head's runtime does.   *)
THEOREM NoSlotIsWasted ==
  ASSUME SlotsStayApart
  PROVE  Spec => []NoWastedSlot
<1>1. SlotInv => NoWastedSlot
  <2>1. SUFFICES ASSUME SlotInv, NEW n \in Node, claim[n] # NoClaim,
                        Skew[n] >= Skew[blocks[claim[n].parent].author],
                        blocks[claim[n].parent].slot =
                          blocks[claim[n].parent].time \div duration[n]
                 PROVE  claim[n].slot > blocks[claim[n].parent].slot
    BY DEF NoWastedSlot
  <2>2. AuraTypeOK /\ ClaimInv /\ ClockInv /\ ProposalInv /\ BlockInv
    BY <2>1 DEF SlotInv, AuraInv
  <2>3. PICK p \in 1..Len(blocks) : p = claim[n].parent
    BY <2>1, <2>2 DEF ClaimInv
  <2>4. PICK d \in SlotDurations : d = duration[n]
    BY <2>2 DEF ClockInv
  <2>5. CASE p = Genesis
    <3>1. claim[n].slot > (StartTime + Skew[n]) \div d /\ blocks[p].slot = 0
      BY <2>1, <2>2, <2>4, <2>5 DEF ProposalInv, BlockInv
    <3>2. (StartTime + Skew[n]) \div d \in Nat
      <4>1. StartTime \in StartTime..MaxTime /\ StartTime <= StartTime
        BY ClockAssumption, BoundsAssumption
      <4>2. QED
        BY <4>1, ClockMoves
    <3>3. claim[n].slot \in Nat
      <4>1. claim[n] \in Proposal
        BY <2>2 DEF AuraTypeOK
      <4>2. QED
        BY <4>1 DEF Proposal
    <3>4. QED
      BY <2>3, <3>1, <3>2, <3>3
  <2>6. CASE p # Genesis
    <3>1. p \in 2..Len(blocks)
      BY <2>6 DEF Genesis
    <3>2. PICK e \in SlotDurations, u \in Horizon :
            /\ e = CountedBy(blocks, p) /\ u = blocks[p].time
            /\ blocks[p].slot = u \div e
      <4>1. /\ CountedBy(blocks, p) \in SlotDurations
            /\ blocks[p].time \in Horizon
            /\ blocks[p].slot = blocks[p].time \div CountedBy(blocks, p)
        BY <2>2, <3>1, BlockTimes
      <4>2. QED
        BY <4>1
    <3>3. e = d
      BY <2>1, <2>3, <2>4, <3>2, SlotTellsDuration
    <3>4. AfterParent(blocks, n, d, p, claim[n].slot)
      BY <2>1, <2>2, <2>3, <2>4 DEF ProposalInv
    <3>5. QED
      BY <2>1, <2>3, <2>6, <3>2, <3>3, <3>4 DEF AfterParent
  <2>7. QED
    BY <2>5, <2>6
<1>2. QED
  BY <1>1, SlotInvariant, PTL

(* Clocks at most a slot apart, and a drift allowed by pallet_timestamp     *)
(* that spans two slots (30 s against slots of 6 s), by any duration.      *)
ClocksAgree ==
  \A d \in SlotDurations : /\ \A m, n \in Node : Skew[m] - Skew[n] <= d
                           /\ MaxDrift >= 2 * d

(* What one authority's node has authored, the import queue of every other  *)
(* accepts at once.                                                        *)
THEOREM PeersAlwaysAccept ==
  ASSUME SlotsStayApart, ClocksAgree
  PROVE  Spec => []PeersAccept
<1>1. SlotInv => PeersAccept
  <2>1. SUFFICES ASSUME SlotInv, NEW n \in Node, NEW b \in 2..Len(blocks)
                 PROVE  Verify(n, b)
    BY DEF PeersAccept
  <2> DEFINE a == blocks[b].author
             p == blocks[b].parent
             s == blocks[b].slot
             t == blocks[b].time
             d == slot_duration_at(p)
  <2>2. AuraTypeOK /\ BlockInv
    BY <2>1 DEF SlotInv, AuraInv
  <2>3. /\ a \in Node /\ Now(a) \in Nat
        /\ d \in SlotDurations
        /\ s \in Nat /\ t \in Nat
        /\ s <= Now(a) \div d
        /\ t < Now(a) + d
        /\ a = slot_author(s) /\ Executes(p, s, t)
    BY <2>2, BlockTimes
  <2> HIDE DEF a, p, s, t, d
  <2>4. d \in Nat \ {0} /\ Now(n) \in Nat /\ Now(n) \div d \in Nat
    BY <2>2, <2>3, SlotDurationsPositive, Clocks DEF AuraTypeOK
  <2>5. Now(a) <= Now(n) + d
    <3>1. Skew[a] \in Int /\ Skew[n] \in Int /\ wall \in Int
      BY <2>2, <2>3, ClockAssumption DEF AuraTypeOK
    <3>2. Skew[a] - Skew[n] <= d
      BY <2>3 DEF ClocksAgree
    <3>3. d \in Int
      BY <2>4
    <3>4. wall + Skew[a] <= wall + Skew[n] + d
      BY <3>1, <3>2, <3>3
    <3>5. QED
      BY <3>4 DEF Now
  <2>6. s <= Now(n) \div d + 1
    <3>1. Now(a) \div d <= (Now(n) + d) \div d
      <4>1. PICK t1 \in Nat, t2 \in Nat : t1 = Now(a) /\ t2 = Now(n) + d
        BY <2>3, <2>4
      <4>2. t1 \div d <= t2 \div d
        BY <2>4, <2>5, <4>1, SlotsFollowTime
      <4>3. QED
        BY <4>1, <4>2
    <3>2. (Now(n) + d) \div d = Now(n) \div d + 1
      BY <2>4, NextSlot
    <3>3. PICK sa \in Nat, sn \in Nat : sa = Now(a) \div d /\ sn = Now(n) \div d
      BY <2>3, <2>4, SlotBounds
    <3>4. sa <= sn + 1
      BY <3>1, <3>2, <3>3
    <3>5. s <= sa /\ s \in Nat
      BY <2>3, <3>3
    <3>6. s <= sn + 1
      BY <3>4, <3>5
    <3>7. QED
      BY <3>3, <3>6
  <2>7. t <= Now(n) + MaxDrift
    <3>1. MaxDrift \in Nat /\ MaxDrift >= 2 * d
      BY <2>3, ClockAssumption DEF ClocksAgree
    <3>2. QED
      BY <2>3, <2>4, <2>5, <3>1
  <2>8. QED
    BY <2>3, <2>6, <2>7 DEF Verify, a, p, s, t, d
<1>2. QED
  BY <1>1, SlotInvariant, PTL

(* After an upgrade of the slot duration, a node that has not restarted     *)
(* authors nothing on the upgraded chain: its slots are far from its        *)
(* timestamps'.                                                            *)
THEOREM StaleAuthorsAreRefused ==
  ASSUME SlotsStayApart
  PROVE  Spec => StaleAuthorsHalt
<1>1. SlotInv /\ AuraInv' /\ [Next]_vars
        => [\A b \in (Len(blocks) + 1)..Len(blocks') :
              duration[blocks'[b].author] = slot_duration_at(blocks'[b].parent)]_vars
  <2>1. SUFFICES ASSUME SlotInv, AuraInv', Next,
                        NEW b \in (Len(blocks) + 1)..Len(blocks')
                 PROVE  duration[blocks'[b].author] = slot_duration_at(blocks'[b].parent)
    OBVIOUS
  <2>2. Len(blocks) \in Nat
    BY <2>1 DEF SlotInv, AuraInv, AuraTypeOK
  <2>3. CASE UNCHANGED blocks
    BY <2>1, <2>2, <2>3
  <2>4. ASSUME NEW n \in Node, Propose(n)
        PROVE  duration[blocks'[b].author] = slot_duration_at(blocks'[b].parent)
    <3>1. AuraTypeOK /\ ClaimInv /\ ClockInv /\ ProposalInv /\ BlockInv
      BY <2>1 DEF SlotInv, AuraInv
    <3>2. /\ claim[n] # NoClaim
          /\ Len(blocks') = Len(blocks) + 1
          /\ blocks'[Len(blocks) + 1].parent = claim[n].parent
          /\ blocks'[Len(blocks) + 1].author = n
          /\ Executes(claim[n].parent, claim[n].slot,
                      create_inherent(claim[n].parent, claim[n].time))
      BY <2>1, <2>4, ProposeAppends
    <3>3. b = Len(blocks) + 1
      BY <2>1, <2>2, <3>2
    <3>4. duration[n] = slot_duration_at(claim[n].parent)
      BY <3>1, <3>2, ProposesAsCounted
    <3>5. QED
      BY <3>2, <3>3, <3>4
  <2>5. CASE Tick
    BY <2>3, <2>5 DEF Tick
  <2>6. ASSUME NEW n \in Node,
               OnSlot(n) \/ Abandon(n) \/ Import(n) \/ Restart(n)
                 \/ LosePeers(n) \/ FindPeers(n)
        PROVE  UNCHANGED blocks
    BY <2>6 DEF OnSlot, Abandon, Import, Restart, LosePeers, FindPeers
  <2>7. QED
    BY <2>1, <2>3, <2>4, <2>5, <2>6 DEF Next
<1>2. QED
  BY <1>1, SlotInvariant, AuraInvariant, PTL DEF Spec, StaleAuthorsHalt

(* Nothing is authored on a block whose runtime has longer slots than that  *)
(* of genesis: no slot of theirs is later than the block's own.            *)
THEOREM LongerSlotsAlwaysHalt ==
  ASSUME SlotsStayApart
  PROVE  Spec => []LongerSlotsHaltChain
  BY SlotInvariant, PTL DEF SlotInv
=============================================================================
