----------------------------- MODULE GrandpaProofs -----------------------------
(***************************************************************************)
(* Finality, for any number of voters, nodes, rounds, blocks and reverts.  *)
(*                                                                         *)
(* The first part is about the votes: finality agrees, whatever subset of  *)
(* the votes each voter had seen when it cast its own.  A round settles a  *)
(* block when every block off its chain has more opponents than may be     *)
(* missing, among the prevotes or the precommits of the round.  Settling   *)
(* is stable: votes are only added, and a new block is opposed by          *)
(* everybody who has voted before.  An estimate with which a voter leaves  *)
(* a round is settled, so all votes of the next round are built on settled *)
(* blocks; and a final block is never opposed enough not to be on their    *)
(* chains.                                                                 *)
(*                                                                         *)
(* The second part is about the nodes: their votes are those of the        *)
(* abstract protocol, so that what they finalize agrees; a node's head     *)
(* keeps to the chain of its finalized block; and any two nodes finalize   *)
(* one chain.  A voter's round is where it votes, while the abstract protocol   *)
(* knows only the votes: the invariant says that it has not voted in a     *)
(* later round.  A node's database holds whole chains, and the head of it  *)
(* is on the chain of its finalized block, which makes `revert` stop in    *)
(* time.                                                                   *)
(***************************************************************************)
EXTENDS Grandpa, BlockTreeProofs, FiniteSetTheorems

-----------------------------------------------------------------------------
(* Counting voters.                                                        *)

LEMMA Thresholds ==
  /\ Cardinality(Voter) \in Nat /\ Cardinality(Voter) >= 1
  /\ Faulty \in Nat /\ Threshold \in Nat
  /\ Threshold >= 1
  /\ Threshold > 2 * Faulty
  /\ Threshold + Faulty = Cardinality(Voter)
<1>1. Cardinality(Voter) \in Nat /\ Cardinality(Voter) # 0
  BY VoterAssumption, FS_CardinalityType, FS_EmptySet
<1>2. ASSUME NEW n \in Nat, n # 0
      PROVE  /\ (n - 1) \div 3 \in Nat
             /\ 3 * ((n - 1) \div 3) < n
  BY <1>2
<1>3. QED
  BY <1>1, <1>2 DEF Faulty, Threshold

LEMMA VoterSets ==
  ASSUME NEW A \in SUBSET Voter
  PROVE  /\ IsFiniteSet(A)
         /\ Cardinality(A) \in Nat
         /\ Cardinality(A) <= Cardinality(Voter)
  BY VoterAssumption, FS_Subset, FS_CardinalityType

LEMMA FewerVoters ==
  ASSUME NEW B \in SUBSET Voter, NEW A \in SUBSET B
  PROVE  Cardinality(A) <= Cardinality(B)
  BY VoterSets, FS_Subset

LEMMA VotersAddUp ==
  ASSUME NEW A \in SUBSET Voter, NEW B \in SUBSET Voter
  PROVE  /\ Cardinality(A \cup B) <= Cardinality(A) + Cardinality(B)
         /\ A \cap B = {} => Cardinality(A) + Cardinality(B) <= Cardinality(Voter)
<1>1. IsFiniteSet(A) /\ IsFiniteSet(B)
  BY VoterSets
<1>2. Cardinality(A \cup B) = Cardinality(A) + Cardinality(B) - Cardinality(A \cap B)
  BY <1>1, FS_Union
<1>3. /\ Cardinality(A) \in Nat /\ Cardinality(B) \in Nat
      /\ Cardinality(A \cup B) \in Nat /\ Cardinality(A \cup B) <= Cardinality(Voter)
      /\ Cardinality(A \cap B) \in Nat
  <2>1. A \cup B \in SUBSET Voter /\ A \cap B \in SUBSET Voter
    OBVIOUS
  <2>2. QED
    BY <2>1, VoterSets
<1>4. A \cap B = {} => Cardinality(A \cap B) = 0
  BY FS_EmptySet
<1>5. QED
  BY <1>2, <1>3, <1>4

(* Two sets of a threshold of voters have a voter in common. *)
LEMMA QuorumsMeet ==
  ASSUME NEW A \in SUBSET Voter, NEW B \in SUBSET Voter,
         Cardinality(A) >= Threshold, Cardinality(B) >= Threshold
  PROVE  A \cap B # {}
<1>1. /\ Cardinality(A) \in Nat /\ Cardinality(B) \in Nat
      /\ A \cap B = {} => Cardinality(A) + Cardinality(B) <= Cardinality(Voter)
  BY VoterSets, VotersAddUp
<1>2. QED
  BY <1>1, Thresholds

(* A threshold leaves too few voters to oppose. *)
LEMMA FewRemain ==
  ASSUME NEW A \in SUBSET Voter, NEW B \in SUBSET Voter, A \cap B = {},
         Cardinality(A) >= Threshold
  PROVE  Cardinality(B) <= Faulty
<1>1. /\ Cardinality(A) \in Nat /\ Cardinality(B) \in Nat
      /\ Cardinality(A) + Cardinality(B) <= Cardinality(Voter)
  BY VoterSets, VotersAddUp
<1>2. QED
  BY <1>1, Thresholds

-----------------------------------------------------------------------------
(* Votes for and against.                                                  *)

(* The voters whose votes in V are for blocks in D, and for others. *)
Backers(V, D)  == {v.voter : v \in {w \in V : w.block \in D}}
Opposers(V, D) == {v.voter : v \in {w \in V : w.block \notin D}}

ByVoters(V) == \A w \in V : w.voter \in Voter
OneVote(V)  == \A v, w \in V : v.voter = w.voter => v = w

LEMMA SupportersAreBackers ==
  ASSUME NEW V, NEW b
  PROVE  Supporters(V, b) = Backers(V, Descendants(b))
  BY DEF Supporters, Backers

LEMMA Sides ==
  ASSUME NEW V, ByVoters(V), NEW D
  PROVE  /\ Backers(V, D) \in SUBSET Voter
         /\ Opposers(V, D) \in SUBSET Voter
         /\ VotersOf(V) \in SUBSET Voter
         /\ VotersOf(V) = Backers(V, D) \cup Opposers(V, D)
         /\ OneVote(V) => Backers(V, D) \cap Opposers(V, D) = {}
  BY DEF ByVoters, Backers, Opposers, VotersOf, OneVote

(* More votes, or a larger set of blocks, can only have more backers. *)
LEMMA SidesGrow ==
  ASSUME NEW W, NEW V \in SUBSET W, NEW D, NEW E
  PROVE  /\ (\A w \in V : w.block \in D => w.block \in E)
              => Backers(V, D) \subseteq Backers(W, E)
         /\ (\A w \in V : w.block \notin D => w.block \notin E)
              => Opposers(V, D) \subseteq Opposers(W, E)
  BY DEF Backers, Opposers

(* A threshold of backers, one vote each, leaves few opponents. *)
LEMMA BackedIsNotOpposed ==
  ASSUME NEW V, ByVoters(V), OneVote(V), NEW D,
         Cardinality(Backers(V, D)) >= Threshold
  PROVE  Cardinality(Opposers(V, D)) <= Faulty
  BY Sides, FewRemain

-----------------------------------------------------------------------------
(* Chains and votes.                                                       *)

LEMMA DescendantsAre ==
  ASSUME NEW a, NEW b
  PROVE  b \in Descendants(a) <=> b \in Block /\ a \in Chain(b)
  BY DEF Descendants, IsAncestor

(* What is built on b is built on what b is built on. *)
LEMMA DescendantsNest ==
  ASSUME TreeTypeOK, NEW b \in Block, NEW a \in Chain(b)
  PROVE  Descendants(b) \subseteq Descendants(a)
  BY ChainsAreNested DEF ChainsNest, Descendants, IsAncestor

(* Everything is built on genesis. *)
LEMMA GenesisBelowAll ==
  ASSUME TreeTypeOK
  PROVE  Descendants(Genesis) = Block
  BY ChainsRun DEF ChainRuns, Descendants, IsAncestor

(* Two blocks below one block are in line. *)
LEMMA CommonDescendant ==
  ASSUME TreeTypeOK, NEW a, NEW b, NEW c \in Descendants(a), c \in Descendants(b)
  PROVE  SameChain(a, b)
  BY ChainsAreLines DEF ChainsInLine, Descendants, IsAncestor, SameChain

LEMMA HighestOf ==
  ASSUME TreeTypeOK, NEW B \in SUBSET Block, B # {}
  PROVE  /\ Highest(B) \in B
         /\ \A c \in B : number(c) <= number(Highest(B))
<1> DEFINE heights == {number(b) : b \in B}
<1>1. \A b \in Block : number(b) \in Nat /\ b \in Nat
  BY Blocks
<1>2. \A b \in Block : number(b) <= Len(tree)
  <2> DEFINE wrong == {b \in Block : ~ (number(b) < b)}
  <2>1. Genesis \notin wrong
    BY Blocks DEF Genesis
  <2>2. ASSUME NEW b \in wrong, b \in Block \ {Genesis}, parent(b) \in Block \ wrong
        PROVE  FALSE
    BY <2>2, Blocks
  <2>3. wrong = {}
    <3>1. wrong \in SUBSET Block
      OBVIOUS
    <3> HIDE DEF wrong
    <3>2. QED
      BY <2>1, <2>2, <3>1, FirstBlock
  <2>4. QED
    BY <2>3, Blocks
<1>3. heights \in SUBSET Nat /\ heights # {} /\ Len(tree) \in Nat
  BY <1>1, Blocks
<1>4. \A h \in heights : h <= Len(tree)
  BY <1>2
<1>5. PICK m \in heights : \A h \in heights : h <= m
  <2> HIDE DEF heights
  <2>1. QED
    BY <1>3, <1>4, GreatestNatural
<1>6. \E b \in B : \A c \in B : number(c) <= number(b)
  BY <1>5
<1>7. QED
  BY <1>6 DEF Highest

-----------------------------------------------------------------------------
(* The inductive invariant.                                                *)

(* More voters than may be missing oppose b in round r. *)
Blocked(r, b) ==
  \/ Cardinality(Opposers(prevotes[r], Descendants(b))) > Faulty
  \/ Cardinality(Opposers(precommits[r], Descendants(b))) > Faulty

(* Round r can make nothing final but what e is built on. *)
Settled(r, e) == \A b \in Block : b \in Chain(e) \/ Blocked(r, b)

(* b is built on a block that round r has settled. *)
Founded(r, b) ==
  /\ Cardinality(VotersOf(prevotes[r])) >= Threshold
  /\ \E e \in Block : b \in Descendants(e) /\ Settled(r, e)

Once(V) == /\ IsFiniteSet(V) /\ OneVote(V)
           /\ Cardinality(VotersOf(V)) = Cardinality(V)

VotesCast ==
  /\ prevotes \in [Round -> SUBSET Vote]
  /\ precommits \in [Round -> SUBSET Vote]
  /\ \A r \in Round : /\ Once(prevotes[r]) /\ Once(precommits[r])
                      /\ VotersOf(precommits[r]) \subseteq VotersOf(prevotes[r])

(* Nobody precommits to a block that the prevotes do not support. *)
PrecommitsFollow ==
  \A r \in Round : \A w \in precommits[r] : Supermajority(prevotes[r], w.block)

(* Nobody votes off what the last round has settled. *)
RoundsFollow ==
  \A r \in Round : r > 1 =>
    \A w \in prevotes[r] \cup precommits[r] : Founded(r - 1, w.block)

VotesInv == TreeTypeOK /\ VotesCast /\ PrecommitsFollow /\ RoundsFollow

LEMMA VotesAre ==
  ASSUME NEW V \in SUBSET Vote
  PROVE  ByVoters(V) /\ \A w \in V : w.block \in Block
  BY DEF ByVoters, Vote

-----------------------------------------------------------------------------
(* Estimates settle.                                                       *)

(* What is no longer possible is opposed by more than may be missing. *)
LEMMA ImpossibleIsOpposed ==
  ASSUME NEW C \in SUBSET Vote, NEW b, ~ Possible(C, b)
  PROVE  Cardinality(Opposers(C, Descendants(b))) > Faulty
<1> DEFINE for     == Cardinality(Backers(C, Descendants(b)))
           against == Cardinality(Opposers(C, Descendants(b)))
           all     == Cardinality(VotersOf(C))
<1>1. /\ Backers(C, Descendants(b)) \in SUBSET Voter
      /\ Opposers(C, Descendants(b)) \in SUBSET Voter
      /\ VotersOf(C) \in SUBSET Voter
      /\ VotersOf(C) = Backers(C, Descendants(b)) \cup Opposers(C, Descendants(b))
  BY VotesAre, Sides
<1>2. for \in Nat /\ against \in Nat /\ all \in Nat /\ for <= all
  BY <1>1, VoterSets, FewerVoters
<1>3. all <= for + against
  BY <1>1, VotersAddUp
<1>4. ~ (Cardinality(Voter) - (all - for)
           + (IF all - for < Faulty THEN all - for ELSE Faulty) >= Threshold)
  BY SupportersAreBackers DEF Possible
<1> HIDE DEF for, against, all
<1>5. against > Faulty
  BY <1>2, <1>3, <1>4, Thresholds
<1>6. QED
  BY <1>5 DEF against

(* Genesis is always possible, so there is an estimate; and everything      *)
(* above it on the ghost's chain is impossible.                            *)
LEMMA EstimateIs ==
  ASSUME TreeTypeOK, NEW g \in Block, NEW C \in SUBSET Vote
  PROVE  /\ EstimateOf(g, C) \in Chain(g)
         /\ \A b \in Chain(g) : b \in Chain(EstimateOf(g, C)) \/ ~ Possible(C, b)
<1> DEFINE candidates == {b \in Chain(g) : Possible(C, b)}
<1>1. Genesis \in candidates
  <2>1. Genesis \in Chain(g)
    BY ChainsRun DEF ChainRuns
  <2>2. Supporters(C, Genesis) = VotersOf(C)
    BY GenesisBelowAll, VotesAre, SupportersAreBackers DEF Backers, VotersOf
  <2>3. Cardinality(VotersOf(C)) \in Nat
    BY VotesAre, Sides, VoterSets
  <2>4. Possible(C, Genesis)
    BY <2>2, <2>3, Thresholds DEF Possible
  <2>5. QED
    BY <2>1, <2>4
<1>2. candidates \in SUBSET Block
  BY ChainsRun DEF ChainRuns
<1>3. /\ EstimateOf(g, C) \in candidates
      /\ \A b \in candidates : number(b) <= number(EstimateOf(g, C))
  <2>1. EstimateOf(g, C) = Highest(candidates)
    BY DEF EstimateOf
  <2> HIDE DEF candidates
  <2>2. QED
    BY <1>1, <1>2, <2>1, HighestOf
<1>4. ASSUME NEW b \in Chain(g), Possible(C, b)
      PROVE  b \in Chain(EstimateOf(g, C))
  BY <1>3, <1>4, LowerIsAncestor
<1>5. QED
  BY <1>3, <1>4

(* A view has a ghost, which its votes support. *)
LEMMA GhostIs ==
  ASSUME TreeTypeOK, VotesCast, NEW r \in Round, NEW V \in Views(prevotes[r])
  PROVE  /\ V \in SUBSET prevotes[r] /\ V \in SUBSET Vote
         /\ Cardinality(VotersOf(V)) >= Threshold
         /\ Ghost(V) \in Block
         /\ Cardinality(Backers(V, Descendants(Ghost(V)))) >= Threshold
<1> DEFINE supported == {b \in Block : Supermajority(V, b)}
<1>1. V \in SUBSET prevotes[r] /\ V \in SUBSET Vote /\ Cardinality(VotersOf(V)) >= Threshold
  BY DEF Views, VotesCast
<1>2. Genesis \in supported
  <2>1. Supporters(V, Genesis) = VotersOf(V)
    BY <1>1, GenesisBelowAll, VotesAre, SupportersAreBackers DEF Backers, VotersOf
  <2>2. QED
    BY <1>1, <2>1, Blocks DEF Supermajority
<1>3. Ghost(V) \in supported
  <2>1. Ghost(V) = Highest(supported) /\ supported \in SUBSET Block
    BY DEF Ghost
  <2> HIDE DEF supported
  <2>2. QED
    BY <1>2, <2>1, HighestOf
<1>4. QED
  BY <1>1, <1>3, SupportersAreBackers DEF Supermajority

(* An opponent of b is one of what is built on b. *)
LEMMA OppositionRises ==
  ASSUME TreeTypeOK, NEW W \in SUBSET Vote, NEW V \in SUBSET W,
         NEW b \in Block, NEW a \in Chain(b),
         Cardinality(Opposers(V, Descendants(a))) > Faulty
  PROVE  Cardinality(Opposers(W, Descendants(b))) > Faulty
<1>1. Descendants(b) \subseteq Descendants(a)
  BY DescendantsNest
<1>2. Opposers(V, Descendants(a)) \subseteq Opposers(W, Descendants(b))
  BY <1>1, SidesGrow
<1>3. V \in SUBSET Vote
  OBVIOUS
<1>4. Opposers(V, Descendants(a)) \in SUBSET Voter /\ Opposers(W, Descendants(b)) \in SUBSET Voter
  BY <1>3, VotesAre, Sides
<1>5. /\ Cardinality(Opposers(V, Descendants(a))) <= Cardinality(Opposers(W, Descendants(b)))
      /\ Cardinality(Opposers(V, Descendants(a))) \in Nat
      /\ Cardinality(Opposers(W, Descendants(b))) \in Nat
  BY <1>2, <1>4, FewerVoters, VoterSets
<1>6. QED
  BY <1>5, Thresholds

(* A voter leaves a round with an estimate that the round has settled. *)
LEMMA EstimatesSettle ==
  ASSUME TreeTypeOK, VotesCast, NEW r \in Round, NEW e \in Estimates(r)
  PROVE  /\ e \in Block
         /\ Settled(r, e)
         /\ Cardinality(VotersOf(prevotes[r])) >= Threshold
<1>1. r # 0
  BY DEF Round
<1>2. PICK g \in Ghosts(r) :
        e \in {EstimateOf(g, C) : C \in {D \in Views(precommits[r]) : Completable(g, D)}}
  BY <1>1 DEF Estimates
<1>3. PICK C \in Views(precommits[r]) : Completable(g, C) /\ e = EstimateOf(g, C)
  BY <1>2
<1>4. PICK V \in Views(prevotes[r]) : g = Ghost(V)
  BY <1>2 DEF Ghosts
<1>5. /\ V \in SUBSET prevotes[r] /\ V \in SUBSET Vote
      /\ Cardinality(VotersOf(V)) >= Threshold
      /\ g \in Block
      /\ Cardinality(Backers(V, Descendants(g))) >= Threshold
  BY <1>4, GhostIs
<1>6. /\ prevotes[r] \in SUBSET Vote /\ precommits[r] \in SUBSET Vote
      /\ C \in SUBSET precommits[r] /\ C \in SUBSET Vote
  BY DEF VotesCast, Views
<1>7. /\ e \in Chain(g)
      /\ \A b \in Chain(g) : b \in Chain(e) \/ ~ Possible(C, b)
  BY <1>3, <1>5, <1>6, EstimateIs
<1>8. e \in Block
  BY <1>5, <1>7, ChainsRun DEF ChainRuns
<1>9. ASSUME NEW b \in Block, NEW a \in Chain(b), ~ Possible(C, a)
      PROVE  Blocked(r, b)
  <2>1. Cardinality(Opposers(C, Descendants(a))) > Faulty
    BY <1>6, <1>9, ImpossibleIsOpposed
  <2>2. Cardinality(Opposers(precommits[r], Descendants(b))) > Faulty
    BY <1>6, <1>9, <2>1, OppositionRises
  <2>3. QED
    BY <2>2 DEF Blocked
<1>10. ASSUME NEW b \in Block, b \notin Chain(e)
       PROVE  Blocked(r, b)
  <2>1. CASE b \in Chain(g)
    <3>1. ~ Possible(C, b) /\ b \in Chain(b)
      BY <1>7, <1>10, <2>1, ChainsRun DEF ChainRuns
    <3>2. QED
      BY <1>9, <3>1
  <2>2. CASE g \in Chain(b) /\ b \notin Chain(g)
    <3>1. CASE e # g
      <4>1. ~ Possible(C, g)
        <5>1. g \in Chain(g)
          BY <1>5, ChainsRun DEF ChainRuns
        <5>2. g \notin Chain(e)
          BY <1>5, <1>7, <1>8, <3>1, <5>1, ChainsRun, Blocks DEF ChainRuns
        <5>3. QED
          BY <1>7, <5>1, <5>2
      <4>2. QED
        BY <1>9, <2>2, <4>1
    <3>2. CASE e = g
      <4>1. \A c \in Children(g) : ~ Possible(C, c)
        BY <1>3, <3>2 DEF Completable
      <4>2. g # b
        BY <1>5, <2>2
      <4>3. PICK c \in Children(g) : c \in Chain(b)
        BY <2>2, <4>2, ChildOnChain
      <4>4. QED
        BY <1>9, <4>1, <4>3
    <3>3. QED
      BY <3>1, <3>2
  <2>3. CASE g \notin Chain(b) /\ b \notin Chain(g)
    <3>1. \A w \in V : w.block \in Descendants(g) => w.block \notin Descendants(b)
      BY <2>3, CommonDescendant DEF SameChain, IsAncestor
    <3>2. Backers(V, Descendants(g)) \subseteq Opposers(prevotes[r], Descendants(b))
      BY <1>5, <3>1 DEF Backers, Opposers
    <3>3. /\ Backers(V, Descendants(g)) \in SUBSET Voter
          /\ Opposers(prevotes[r], Descendants(b)) \in SUBSET Voter
      BY <1>5, <1>6, VotesAre, Sides
    <3>4. /\ Cardinality(Backers(V, Descendants(g)))
                <= Cardinality(Opposers(prevotes[r], Descendants(b)))
          /\ Cardinality(Backers(V, Descendants(g))) \in Nat
          /\ Cardinality(Opposers(prevotes[r], Descendants(b))) \in Nat
      BY <3>2, <3>3, FewerVoters, VoterSets
    <3>5. QED
      BY <1>5, <3>4, Thresholds DEF Blocked
  <2>4. QED
    BY <2>1, <2>2, <2>3
<1>11. Cardinality(VotersOf(prevotes[r])) >= Threshold
  <2>1. VotersOf(V) \subseteq VotersOf(prevotes[r])
    BY <1>5 DEF VotersOf
  <2>2. VotersOf(V) \in SUBSET Voter /\ VotersOf(prevotes[r]) \in SUBSET Voter
    BY <1>5, <1>6, VotesAre, Sides
  <2>3. /\ Cardinality(VotersOf(V)) <= Cardinality(VotersOf(prevotes[r]))
        /\ Cardinality(VotersOf(V)) \in Nat
        /\ Cardinality(VotersOf(prevotes[r])) \in Nat
    BY <2>1, <2>2, FewerVoters, VoterSets
  <2>4. QED
    BY <1>5, <2>3, Thresholds
<1>12. QED
  BY <1>8, <1>10, <1>11 DEF Settled

-----------------------------------------------------------------------------
(* What a step cannot undo.                                                *)

(* No block is moved and no vote is taken back. *)
Kept ==
  /\ Block \subseteq Block'
  /\ \A b \in Block : Chain(b)' = Chain(b)
  /\ \A r \in Round : /\ prevotes[r] \subseteq prevotes'[r]
                      /\ precommits[r] \subseteq precommits'[r]

(* The votes cast on a block stay on the same side of every other block. *)
LEMMA SidesStay ==
  ASSUME Kept, NEW V \in SUBSET Vote, NEW W, V \subseteq W, NEW b \in Block
  PROVE  /\ Backers(V, Descendants(b)) \subseteq Backers(W, Descendants(b)')
         /\ Opposers(V, Descendants(b)) \subseteq Opposers(W, Descendants(b)')
<1>1. \A w \in V : w.block \in Block
  BY VotesAre
<1>2. \A c \in Block : c \in Descendants(b)' <=> c \in Descendants(b)
  BY DEF Kept, Descendants, IsAncestor
<1>3. \A w \in V : w.block \in Descendants(b)' <=> w.block \in Descendants(b)
  BY <1>1, <1>2
<1>4. QED
  BY <1>3, SidesGrow

(* Nothing that has been cast is for a block that is new. *)
LEMMA NewIsOpposed ==
  ASSUME TreeTypeOK, Kept, NEW V \in SUBSET Vote, NEW W, V \subseteq W,
         NEW n, n \notin Block
  PROVE  VotersOf(V) \subseteq Opposers(W, Descendants(n)')
<1>1. \A w \in V : w.block \in Block
  BY VotesAre
<1>2. \A c \in Block : n \notin Chain(c)'
  BY ChainsRun DEF ChainRuns, Kept
<1>3. \A w \in V : w.block \notin Descendants(n)'
  BY <1>1, <1>2 DEF Descendants, IsAncestor
<1>4. QED
  BY <1>3 DEF VotersOf, Opposers

(* What is supported, blocked, settled or founded stays so. *)
LEMMA NothingIsUndone ==
  ASSUME TreeTypeOK, VotesCast, VotesCast', Kept, NEW r \in Round
  PROVE  /\ \A b \in Block : Supermajority(prevotes[r], b) => Supermajority(prevotes[r], b)'
         /\ \A b \in Block : Blocked(r, b) => Blocked(r, b)'
         /\ \A b \in Block : Founded(r, b) => Founded(r, b)'
<1>1. /\ prevotes[r] \in SUBSET Vote /\ precommits[r] \in SUBSET Vote
      /\ prevotes'[r] \in SUBSET Vote' /\ precommits'[r] \in SUBSET Vote'
      /\ prevotes[r] \subseteq prevotes'[r] /\ precommits[r] \subseteq precommits'[r]
  <2>1. Round' = Round
    BY DEF Round
  <2>2. QED
    BY <2>1 DEF VotesCast, Kept
<1>2. ByVoters(prevotes'[r]) /\ ByVoters(precommits'[r])
  BY <1>1 DEF ByVoters, Vote
<1>3. ASSUME NEW b \in Block, Supermajority(prevotes[r], b)
      PROVE  Supermajority(prevotes[r], b)'
  <2> DEFINE old == Backers(prevotes[r], Descendants(b))
             new == Backers(prevotes'[r], Descendants(b)')
  <2>1. old \subseteq new
    BY <1>1, SidesStay
  <2>2. new \in SUBSET Voter
    BY <1>2, Sides
  <2>3. /\ Cardinality(old) <= Cardinality(new)
        /\ Cardinality(old) \in Nat /\ Cardinality(new) \in Nat
    <3> HIDE DEF old, new
    <3>1. old \in SUBSET Voter
      BY <2>1, <2>2
    <3>2. QED
      BY <2>1, <2>2, <3>1, FewerVoters, VoterSets
  <2>4. Cardinality(old) >= Threshold
    BY <1>3, SupportersAreBackers DEF Supermajority
  <2>5. Supporters(prevotes[r], b)' = new
    BY DEF Supporters, Backers
  <2>6. QED
    BY <2>3, <2>4, <2>5, Thresholds DEF Supermajority
<1>4. ASSUME NEW V, NEW W, NEW b \in Block,
             V \in SUBSET Vote, V \subseteq W, ByVoters(W),
             Cardinality(Opposers(V, Descendants(b))) > Faulty
      PROVE  Cardinality(Opposers(W, Descendants(b)')) > Faulty
  <2> DEFINE old == Opposers(V, Descendants(b))
             new == Opposers(W, Descendants(b)')
  <2>1. old \subseteq new
    BY <1>4, SidesStay
  <2>2. new \in SUBSET Voter
    BY <1>4, Sides
  <2>3. Cardinality(old) > Faulty
    BY <1>4
  <2> HIDE DEF old, new
  <2>4. /\ Cardinality(old) <= Cardinality(new)
        /\ Cardinality(old) \in Nat /\ Cardinality(new) \in Nat
    <3>1. old \in SUBSET Voter
      BY <2>1, <2>2
    <3>2. QED
      BY <2>1, <2>2, <3>1, FewerVoters, VoterSets
  <2>5. Cardinality(new) > Faulty
    BY <2>3, <2>4, Thresholds
  <2>6. QED
    BY <2>5 DEF new
<1>5. ASSUME NEW b \in Block, Blocked(r, b)
      PROVE  Blocked(r, b)'
  <2>1. CASE Cardinality(Opposers(prevotes[r], Descendants(b))) > Faulty
    <3>1. Cardinality(Opposers(prevotes'[r], Descendants(b)')) > Faulty
      BY <1>1, <1>2, <1>4, <2>1
    <3>2. QED
      BY <3>1 DEF Blocked
  <2>2. CASE Cardinality(Opposers(precommits[r], Descendants(b))) > Faulty
    <3>1. Cardinality(Opposers(precommits'[r], Descendants(b)')) > Faulty
      BY <1>1, <1>2, <1>4, <2>2
    <3>2. QED
      BY <3>1 DEF Blocked
  <2>3. QED
    BY <1>5, <2>1, <2>2 DEF Blocked
<1>6. ASSUME NEW b \in Block, Founded(r, b)
      PROVE  Founded(r, b)'
  <2>1. /\ VotersOf(prevotes[r]) \in SUBSET Voter
        /\ VotersOf(prevotes'[r]) \in SUBSET Voter
        /\ VotersOf(prevotes[r]) \subseteq VotersOf(prevotes'[r])
    BY <1>1, <1>2, VotesAre, Sides DEF VotersOf
  <2>2. /\ Cardinality(VotersOf(prevotes[r])) \in Nat
        /\ Cardinality(VotersOf(prevotes'[r])) \in Nat
        /\ Cardinality(VotersOf(prevotes[r])) <= Cardinality(VotersOf(prevotes'[r]))
        /\ Cardinality(VotersOf(prevotes[r])) >= Threshold
    BY <1>6, <2>1, VoterSets, FewerVoters DEF Founded
  <2>3. Cardinality(VotersOf(prevotes'[r])) >= Threshold
    BY <2>2, Thresholds
  <2>4. PICK e \in Block : b \in Descendants(e) /\ Settled(r, e)
    BY <1>6 DEF Founded
  <2>5. e \in Block' /\ b \in Descendants(e)'
    BY <2>4 DEF Kept, Descendants, IsAncestor
  <2>6. ASSUME NEW c \in Block', c \notin Chain(e)'
        PROVE  Blocked(r, c)'
    <3>1. CASE c \in Block
      <4>1. Blocked(r, c)
        BY <2>4, <2>6, <3>1 DEF Settled, Kept
      <4>2. QED
        BY <1>5, <3>1, <4>1
    <3>2. CASE c \notin Block
      <4> DEFINE new == Opposers(prevotes'[r], Descendants(c)')
      <4>1. VotersOf(prevotes[r]) \subseteq new
        BY <1>1, <3>2, NewIsOpposed
      <4>2. new \in SUBSET Voter
        BY <1>2, Sides
      <4> HIDE DEF new
      <4>3. /\ Cardinality(VotersOf(prevotes[r])) <= Cardinality(new)
            /\ Cardinality(new) \in Nat
        BY <2>1, <4>1, <4>2, FewerVoters, VoterSets
      <4>4. Cardinality(new) > Faulty
        BY <2>2, <4>3, Thresholds
      <4>5. QED
        BY <4>4 DEF new, Blocked
    <3>3. QED
      BY <3>1, <3>2
  <2>7. Settled(r, e)'
    BY <2>6 DEF Settled
  <2>8. QED
    BY <2>3, <2>5, <2>7 DEF Founded
<1>7. QED
  BY <1>3, <1>5, <1>6

-----------------------------------------------------------------------------
(* The invariant is inductive.                                             *)

LEMMA OneMore ==
  ASSUME NEW V \in SUBSET Vote, Once(V), NEW w \in Vote, w.voter \notin VotersOf(V)
  PROVE  /\ V \cup {w} \in SUBSET Vote
         /\ Once(V \cup {w})
         /\ VotersOf(V \cup {w}) = VotersOf(V) \cup {w.voter}
<1>1. VotersOf(V \cup {w}) = VotersOf(V) \cup {w.voter}
  BY DEF VotersOf
<1>2. w \notin V
  BY DEF VotersOf
<1>3. IsFiniteSet(V) /\ IsFiniteSet(VotersOf(V))
  BY VotesAre, Sides, VoterSets DEF Once
<1>4. /\ IsFiniteSet(V \cup {w})
      /\ Cardinality(V \cup {w}) = Cardinality(V) + 1
      /\ Cardinality(VotersOf(V) \cup {w.voter}) = Cardinality(VotersOf(V)) + 1
  BY <1>2, <1>3, FS_AddElement
<1>5. OneVote(V \cup {w})
  BY DEF Once, OneVote, VotersOf
<1>6. QED
  BY <1>1, <1>4, <1>5 DEF Once

LEMMA LastRoundIs ==
  ASSUME NEW v
  PROVE  /\ LastRound(v) \in Nat
         /\ LastRound(v) \in Round \/ LastRound(v) = 0
         /\ \A r \in Round : v \in VotersOf(prevotes[r]) => r <= LastRound(v)
         /\ LastRound(v) \in Round => v \in VotersOf(prevotes[LastRound(v)])
<1> DEFINE cast == {r \in Round : v \in VotersOf(prevotes[r])}
<1>1. LastRound(v) = IF cast = {} THEN 0 ELSE CHOOSE r \in cast : \A q \in cast : q <= r
  BY DEF LastRound
<1>2. CASE cast = {}
  BY <1>1, <1>2 DEF Round
<1>3. CASE cast # {}
  <2>1. cast \in SUBSET Nat /\ \A r \in cast : r <= MaxRound
    BY VoterAssumption DEF Round
  <2>2. \E r \in cast : \A q \in cast : q <= r
    <3> HIDE DEF cast
    <3>1. QED
      BY <1>3, <2>1, VoterAssumption, GreatestNatural
  <2>3. LastRound(v) \in cast /\ \A q \in cast : q <= LastRound(v)
    <3> HIDE DEF cast
    <3>1. QED
      BY <1>1, <1>3, <2>2
  <2>4. QED
    BY <2>1, <2>3
<1>4. QED
  BY <1>2, <1>3

LEMMA TreeStays ==
  ASSUME UNCHANGED tree
  PROVE  /\ Block' = Block
         /\ \A b : Chain(b)' = Chain(b)
         /\ Vote' = Vote
         /\ TreeTypeOK => TreeTypeOK'
<1>1. Block' = Block
  BY DEF Block
<1>2. QED
  BY <1>1 DEF Chain, parent, Vote, TreeTypeOK, number

LEMMA VotesStart == VotesInit => VotesInv
<1> SUFFICES ASSUME VotesInit PROVE VotesInv
  OBVIOUS
<1>1. TreeTypeOK
  BY TreeStarts DEF VotesInit
<1>2. \A r \in Round : prevotes[r] = {} /\ precommits[r] = {}
  BY DEF VotesInit
<1>3. VotersOf({}) = {} /\ IsFiniteSet({}) /\ Cardinality({}) = 0
  BY FS_EmptySet DEF VotersOf
<1>4. Once({})
  BY <1>3 DEF Once, OneVote
<1>5. VotesCast
  BY <1>2, <1>3, <1>4 DEF VotesCast, VotesInit
<1>6. PrecommitsFollow /\ RoundsFollow
  BY <1>2 DEF PrecommitsFollow, RoundsFollow
<1>7. QED
  BY <1>1, <1>5, <1>6 DEF VotesInv

(* The votes cast before a step go on following. *)
LEMMA OldVotesFollow ==
  ASSUME VotesInv, VotesCast', Kept
  PROVE  /\ \A r \in Round : \A w \in precommits[r] : Supermajority(prevotes[r], w.block)'
         /\ \A r \in Round : r > 1 =>
              \A w \in prevotes[r] \cup precommits[r] : Founded(r - 1, w.block)'
<1> USE DEF VotesInv
<1>1. \A r \in Round : /\ \A w \in prevotes[r] : w.block \in Block
                       /\ \A w \in precommits[r] : w.block \in Block
  BY DEF VotesCast, Vote
<1>2. ASSUME NEW r \in Round, NEW w \in precommits[r]
      PROVE  Supermajority(prevotes[r], w.block)'
  <2>1. PICK b \in Block : b = w.block
    BY <1>1, <1>2
  <2>2. Supermajority(prevotes[r], b)
    BY <1>2, <2>1 DEF PrecommitsFollow
  <2>3. Supermajority(prevotes[r], b)'
    BY <2>2, NothingIsUndone
  <2>4. QED
    BY <2>1, <2>3
<1>3. ASSUME NEW r \in Round, r > 1, NEW w \in prevotes[r] \cup precommits[r]
      PROVE  Founded(r - 1, w.block)'
  <2>1. PICK b \in Block : b = w.block
    BY <1>1, <1>3
  <2>2. r - 1 \in Round /\ Founded(r - 1, b)
    BY <1>3, <2>1, VoterAssumption DEF RoundsFollow, Round
  <2>3. Founded(r - 1, b)'
    BY <2>2, NothingIsUndone
  <2>4. QED
    BY <2>1, <2>3
<1>4. QED
  BY <1>2, <1>3

LEMMA GrowKeepsVotes ==
  ASSUME VotesInv, NEW p \in Block, Grow(p), UNCHANGED votes
  PROVE  VotesInv' /\ Kept
<1> USE DEF VotesInv, votes
<1>1. TreeTypeOK' /\ Block \subseteq Block'
  BY TreeGrows
<1>2. Kept
  BY <1>1, ChainsStay DEF Kept
<1>3. VotesCast'
  <2>1. Vote \subseteq Vote' /\ Round' = Round
    BY <1>1 DEF Vote, Round
  <2>2. QED
    BY <2>1 DEF VotesCast, Once, OneVote, VotersOf
<1>4. PrecommitsFollow' /\ RoundsFollow'
  BY <1>2, <1>3, OldVotesFollow DEF PrecommitsFollow, RoundsFollow, Round
<1>5. QED
  BY <1>1, <1>2, <1>3, <1>4

(* What is built on an estimate is founded. *)
LEMMA EstimatesFound ==
  ASSUME TreeTypeOK, VotesCast, NEW r \in Round, NEW e \in Estimates(r - 1),
         NEW b \in Descendants(e)
  PROVE  /\ e \in Block /\ b \in Block
         /\ r > 1 => Founded(r - 1, b)
<1>1. b \in Block
  BY DEF Descendants
<1>2. CASE r = 1
  BY <1>1, <1>2, Blocks DEF Estimates
<1>3. CASE r # 1
  <2>1. r - 1 \in Round
    BY <1>3, VoterAssumption DEF Round
  <2>2. /\ e \in Block
        /\ Settled(r - 1, e)
        /\ Cardinality(VotersOf(prevotes[r - 1])) >= Threshold
    BY <2>1, EstimatesSettle
  <2>3. QED
    BY <1>1, <2>2 DEF Founded
<1>4. QED
  BY <1>2, <1>3

LEMMA PrevoteKeepsVotes ==
  ASSUME VotesInv, NEW v \in Voter, NEW r \in Round, Prevote(v, r)
  PROVE  VotesInv' /\ Kept
<1> USE DEF VotesInv
<1>0. PICK e \in Estimates(r - 1) : \E b \in Descendants(e) :
        prevotes' = [prevotes EXCEPT ![r] = @ \cup {[voter |-> v, block |-> b]}]
  BY DEF Prevote
<1>1. PICK b \in Descendants(e) :
        prevotes' = [prevotes EXCEPT ![r] = @ \cup {[voter |-> v, block |-> b]}]
  BY <1>0
<1>2. r > LastRound(v) /\ tree' = tree /\ precommits' = precommits
  BY DEF Prevote
<1> DEFINE w == [voter |-> v, block |-> b]
<1>3. e \in Block /\ b \in Block /\ (r > 1 => Founded(r - 1, b))
  BY EstimatesFound
<1>4. v \notin VotersOf(prevotes[r])
  BY <1>2, LastRoundIs, VoterAssumption DEF Round
<1>5. /\ Block' = Block /\ Vote' = Vote /\ Round' = Round /\ TreeTypeOK'
      /\ \A c : Chain(c)' = Chain(c)
  BY <1>2, TreeStays DEF Round
<1>6. /\ prevotes \in [Round -> SUBSET Vote]
      /\ prevotes'[r] = prevotes[r] \cup {w}
      /\ \A q \in Round : q # r => prevotes'[q] = prevotes[q]
  BY <1>1 DEF VotesCast
<1>7. /\ w \in Vote /\ prevotes[r] \in SUBSET Vote
      /\ Once(prevotes[r]) /\ w.voter \notin VotersOf(prevotes[r])
  BY <1>3, <1>4 DEF Vote, VotesCast
<1>8. /\ prevotes'[r] \in SUBSET Vote
      /\ Once(prevotes'[r])
      /\ VotersOf(prevotes'[r]) = VotersOf(prevotes[r]) \cup {v}
  <2>1. w.voter = v
    OBVIOUS
  <2> HIDE DEF w
  <2>2. /\ prevotes[r] \cup {w} \in SUBSET Vote
        /\ Once(prevotes[r] \cup {w})
        /\ VotersOf(prevotes[r] \cup {w}) = VotersOf(prevotes[r]) \cup {w.voter}
    BY <1>7, OneMore
  <2>3. QED
    BY <1>6, <2>1, <2>2
<1>9. Kept
  BY <1>2, <1>5, <1>6 DEF Kept
<1>10. VotesCast'
  <2>1. prevotes' \in [Round -> SUBSET Vote]
    BY <1>1, <1>6, <1>7
  <2>2. ASSUME NEW q \in Round
        PROVE  /\ Once(prevotes'[q]) /\ Once(precommits[q])
               /\ VotersOf(precommits[q]) \subseteq VotersOf(prevotes'[q])
    <3>1. /\ Once(prevotes[q]) /\ Once(precommits[q])
          /\ VotersOf(precommits[q]) \subseteq VotersOf(prevotes[q])
      BY <2>2 DEF VotesCast
    <3>2. CASE q = r
      BY <1>8, <3>1, <3>2
    <3>3. CASE q # r
      BY <1>6, <3>1, <3>3
    <3>4. QED
      BY <3>2, <3>3
  <2>3. QED
    BY <1>2, <1>5, <2>1, <2>2 DEF VotesCast, Once, OneVote, VotersOf
<1>11. PrecommitsFollow'
  BY <1>2, <1>5, <1>9, <1>10, OldVotesFollow DEF PrecommitsFollow
<1>12. RoundsFollow'
  <2>1. r > 1 => Founded(r - 1, b)'
    BY <1>3, <1>9, <1>10, NothingIsUndone, VoterAssumption DEF Round
  <2>2. ASSUME NEW q \in Round, q > 1, NEW x, x \in prevotes'[q] \cup precommits[q]
        PROVE  Founded(q - 1, x.block)'
    <3>1. CASE x \in prevotes[q] \cup precommits[q]
      BY <1>9, <1>10, <2>2, <3>1, OldVotesFollow
    <3>2. CASE x \notin prevotes[q] \cup precommits[q]
      <4>1. q = r /\ x = w
        BY <1>6, <2>2, <3>2
      <4>2. x.block = b
        BY <4>1
      <4>3. QED
        BY <2>1, <2>2, <4>1, <4>2
    <3>3. QED
      BY <3>1, <3>2
  <2>3. QED
    BY <1>2, <1>5, <2>2 DEF RoundsFollow
<1>13. QED
  BY <1>5, <1>9, <1>10, <1>11, <1>12

LEMMA PrecommitKeepsVotes ==
  ASSUME VotesInv, NEW v \in Voter, NEW r \in Round, Precommit(v, r)
  PROVE  VotesInv' /\ Kept
<1> USE DEF VotesInv
<1>1. PICK b \in Ghosts(r) :
        /\ Estimates(r - 1) \cap Chain(b) # {}
        /\ precommits' = [precommits EXCEPT ![r] = @ \cup {[voter |-> v, block |-> b]}]
  BY DEF Precommit
<1>2. /\ r = LastRound(v) /\ v \notin VotersOf(precommits[r])
      /\ tree' = tree /\ prevotes' = prevotes
  BY DEF Precommit
<1> DEFINE w == [voter |-> v, block |-> b]
<1>3. PICK V \in Views(prevotes[r]) : b = Ghost(V)
  BY DEF Ghosts
<1>4. /\ V \in SUBSET prevotes[r]
      /\ b \in Block
      /\ Cardinality(Backers(V, Descendants(b))) >= Threshold
  BY <1>3, GhostIs
<1>5. Supermajority(prevotes[r], b)
  <2>1. Backers(V, Descendants(b)) \subseteq Backers(prevotes[r], Descendants(b))
    BY <1>4, SidesGrow
  <2>2. Backers(prevotes[r], Descendants(b)) \in SUBSET Voter
    BY VotesAre, Sides DEF VotesCast
  <2>3. /\ Cardinality(Backers(V, Descendants(b)))
              <= Cardinality(Backers(prevotes[r], Descendants(b)))
        /\ Cardinality(Backers(V, Descendants(b))) \in Nat
        /\ Cardinality(Backers(prevotes[r], Descendants(b))) \in Nat
    <3>1. Backers(V, Descendants(b)) \in SUBSET Voter
      BY <2>1, <2>2
    <3>2. QED
      BY <2>1, <2>2, <3>1, FewerVoters, VoterSets
  <2>4. Cardinality(Backers(prevotes[r], Descendants(b))) >= Threshold
    BY <1>4, <2>3, Thresholds
  <2>5. QED
    BY <2>4, SupportersAreBackers DEF Supermajority
<1>6. r > 1 => Founded(r - 1, b)
  <2>1. PICK e \in Estimates(r - 1) : e \in Chain(b)
    BY <1>1
  <2>2. b \in Descendants(e)
    BY <1>4, <2>1 DEF Descendants, IsAncestor
  <2>3. QED
    BY <2>2, EstimatesFound
<1>7. v \in VotersOf(prevotes[r])
  BY <1>2, LastRoundIs
<1>8. /\ Block' = Block /\ Vote' = Vote /\ Round' = Round /\ TreeTypeOK'
      /\ \A c : Chain(c)' = Chain(c)
  BY <1>2, TreeStays DEF Round
<1>9. /\ precommits \in [Round -> SUBSET Vote]
      /\ precommits'[r] = precommits[r] \cup {w}
      /\ \A q \in Round : q # r => precommits'[q] = precommits[q]
  BY <1>1 DEF VotesCast
<1>10. /\ w \in Vote /\ precommits[r] \in SUBSET Vote
       /\ Once(precommits[r]) /\ w.voter \notin VotersOf(precommits[r])
  BY <1>2, <1>4 DEF Vote, VotesCast
<1>11. /\ precommits'[r] \in SUBSET Vote
       /\ Once(precommits'[r])
       /\ VotersOf(precommits'[r]) = VotersOf(precommits[r]) \cup {v}
  <2>1. w.voter = v
    OBVIOUS
  <2> HIDE DEF w
  <2>2. /\ precommits[r] \cup {w} \in SUBSET Vote
        /\ Once(precommits[r] \cup {w})
        /\ VotersOf(precommits[r] \cup {w}) = VotersOf(precommits[r]) \cup {w.voter}
    BY <1>10, OneMore
  <2>3. QED
    BY <1>9, <2>1, <2>2
<1>12. Kept
  BY <1>2, <1>8, <1>9 DEF Kept
<1>13. VotesCast'
  <2>1. precommits' \in [Round -> SUBSET Vote]
    BY <1>1, <1>9, <1>10
  <2>2. ASSUME NEW q \in Round
        PROVE  /\ Once(prevotes[q]) /\ Once(precommits'[q])
               /\ VotersOf(precommits'[q]) \subseteq VotersOf(prevotes[q])
    <3>1. /\ Once(prevotes[q]) /\ Once(precommits[q])
          /\ VotersOf(precommits[q]) \subseteq VotersOf(prevotes[q])
      BY <2>2 DEF VotesCast
    <3>2. CASE q = r
      BY <1>7, <1>11, <3>1, <3>2
    <3>3. CASE q # r
      BY <1>9, <3>1, <3>3
    <3>4. QED
      BY <3>2, <3>3
  <2>3. QED
    BY <1>2, <1>8, <2>1, <2>2 DEF VotesCast, Once, OneVote, VotersOf
<1>14. PrecommitsFollow'
  <2>1. Supermajority(prevotes[r], b)'
    BY <1>4, <1>5, <1>12, <1>13, NothingIsUndone
  <2>2. ASSUME NEW q \in Round, NEW x, x \in precommits'[q]
        PROVE  Supermajority(prevotes[q], x.block)'
    <3>1. CASE x \in precommits[q]
      BY <1>12, <1>13, <2>2, <3>1, OldVotesFollow
    <3>2. CASE x \notin precommits[q]
      <4>1. q = r /\ x.block = b
        BY <1>9, <2>2, <3>2
      <4>2. QED
        BY <2>1, <4>1
    <3>3. QED
      BY <3>1, <3>2
  <2>3. QED
    BY <1>8, <2>2 DEF PrecommitsFollow
<1>15. RoundsFollow'
  <2>1. ASSUME r > 1 PROVE Founded(r - 1, b)'
    <3>1. PICK q \in Round : q = r - 1
      BY <2>1, VoterAssumption DEF Round
    <3>2. Founded(q, b)
      BY <1>6, <2>1, <3>1
    <3>3. TreeTypeOK /\ VotesCast
      OBVIOUS
    <3>4. Founded(q, b)'
      BY <1>4, <1>12, <1>13, <3>2, <3>3, NothingIsUndone
    <3>5. QED
      BY <3>1, <3>4
  <2>2. ASSUME NEW q \in Round, q > 1, NEW x, x \in prevotes[q] \cup precommits'[q]
        PROVE  Founded(q - 1, x.block)'
    <3>1. CASE x \in prevotes[q] \cup precommits[q]
      BY <1>12, <1>13, <2>2, <3>1, OldVotesFollow
    <3>2. CASE x \notin prevotes[q] \cup precommits[q]
      <4>1. q = r /\ x.block = b
        BY <1>9, <2>2, <3>2
      <4>2. QED
        BY <2>1, <2>2, <4>1
    <3>3. QED
      BY <3>1, <3>2
  <2>3. QED
    BY <1>2, <1>8, <2>2 DEF RoundsFollow
<1>16. QED
  BY <1>8, <1>12, <1>13, <1>14, <1>15

LEMMA IdleKeepsVotes ==
  ASSUME VotesInv, UNCHANGED <<tree, votes>>
  PROVE  VotesInv' /\ Kept
<1> USE DEF VotesInv, votes
<1>1. /\ Block' = Block /\ Vote' = Vote /\ Round' = Round /\ TreeTypeOK'
      /\ \A c : Chain(c)' = Chain(c)
  BY TreeStays DEF Round
<1>2. Kept
  BY <1>1 DEF Kept
<1>3. VotesCast'
  BY <1>1 DEF VotesCast, Once, OneVote, VotersOf
<1>4. PrecommitsFollow' /\ RoundsFollow'
  BY <1>1, <1>2, <1>3, OldVotesFollow DEF PrecommitsFollow, RoundsFollow
<1>5. QED
  BY <1>1, <1>2, <1>3, <1>4

LEMMA VotesStep == VotesInv /\ [VotesNext]_<<tree, votes>> => VotesInv' /\ Kept
<1> SUFFICES ASSUME VotesInv, [VotesNext]_<<tree, votes>>
             PROVE  VotesInv' /\ Kept
  OBVIOUS
<1>1. ASSUME NEW b \in Block, Grow(b), UNCHANGED votes
      PROVE  VotesInv' /\ Kept
  BY <1>1, GrowKeepsVotes
<1>2. ASSUME NEW v \in Voter, NEW r \in Round, Prevote(v, r)
      PROVE  VotesInv' /\ Kept
  BY <1>2, PrevoteKeepsVotes
<1>3. ASSUME NEW v \in Voter, NEW r \in Round, Precommit(v, r)
      PROVE  VotesInv' /\ Kept
  BY <1>3, PrecommitKeepsVotes
<1>4. CASE Finished
  BY <1>4, IdleKeepsVotes DEF Finished
<1>5. CASE UNCHANGED <<tree, votes>>
  BY <1>5, IdleKeepsVotes
<1>6. QED
  BY <1>1, <1>2, <1>3, <1>4, <1>5 DEF VotesNext

LEMMA VotesInvariant == VotesSpec => []VotesInv
<1>1. VotesInit => VotesInv
  BY VotesStart
<1>2. VotesInv /\ [VotesNext]_<<tree, votes>> => VotesInv'
  BY VotesStep
<1>3. QED
  BY <1>1, <1>2, PTL DEF VotesSpec

-----------------------------------------------------------------------------
(* Final blocks agree.                                                     *)

(* Votes are never taken back, so what is final stays so. *)
LEMMA FinalStaysFinal ==
  ASSUME TreeTypeOK, VotesCast, VotesCast', Kept
  PROVE  \A b \in Finalized : b \in Finalized'
<1> SUFFICES ASSUME NEW b \in Finalized
             PROVE  b \in Finalized'
  OBVIOUS
<1>1. b \in Block
  BY DEF Finalized
<1>2. PICK r \in Round : Supermajority(precommits[r], b)
  BY DEF Finalized
<1>3. /\ precommits[r] \in SUBSET Vote /\ precommits'[r] \in SUBSET Vote'
      /\ precommits[r] \subseteq precommits'[r]
      /\ Round' = Round
  <2>1. Round' = Round
    BY DEF Round
  <2>2. QED
    BY <2>1 DEF VotesCast, Kept
<1> DEFINE old == Backers(precommits[r], Descendants(b))
           new == Backers(precommits'[r], Descendants(b)')
<1>4. old \subseteq new
  BY <1>1, <1>3, SidesStay
<1>5. new \in SUBSET Voter
  <2>1. ByVoters(precommits'[r])
    BY <1>3 DEF ByVoters, Vote
  <2>2. QED
    BY <2>1, Sides
<1>6. /\ Cardinality(old) \in Nat /\ Cardinality(new) \in Nat
      /\ Cardinality(old) <= Cardinality(new)
  BY <1>4, <1>5, FewerVoters, VoterSets
<1>7. Cardinality(old) >= Threshold
  BY <1>2 DEF Supermajority, Supporters, Backers
<1> HIDE DEF old, new
<1>8. Cardinality(new) >= Threshold
  BY <1>6, <1>7, Thresholds
<1>9. Supermajority(precommits[r], b)'
  BY <1>8 DEF new, Supermajority, Supporters, Backers, Threshold, Faulty
<1>10. b \in Block'
  BY <1>1 DEF Kept
<1>11. QED
  BY <1>3, <1>9, <1>10 DEF Finalized

LEMMA HasBackers ==
  ASSUME NEW V \in SUBSET Vote, NEW D, Cardinality(Backers(V, D)) >= Threshold
  PROVE  \E w \in V : w.block \in D
<1>1. Cardinality({}) = 0
  BY FS_EmptySet
<1>2. Backers(V, D) # {}
  <2>1. Threshold \in Nat /\ Threshold >= 1
    BY Thresholds
  <2>2. ASSUME Backers(V, D) = {} PROVE FALSE
    <3>1. Cardinality(Backers(V, D)) = 0
      BY <1>1, <2>2
    <3>2. QED
      BY <2>1, <3>1
  <2>3. QED
    BY <2>2
<1>3. QED
  BY <1>2 DEF Backers

(* A final block is not blocked in the round that made it final. *)
LEMMA FinalIsNotBlocked ==
  ASSUME VotesInv, NEW r \in Round, NEW a \in Block, Supermajority(precommits[r], a)
  PROVE  ~ Blocked(r, a)
<1>1. /\ precommits[r] \in SUBSET Vote /\ OneVote(precommits[r])
      /\ prevotes[r] \in SUBSET Vote /\ OneVote(prevotes[r])
  BY DEF VotesInv, VotesCast, Once
<1>2. Cardinality(Backers(precommits[r], Descendants(a))) >= Threshold
  BY SupportersAreBackers DEF Supermajority
<1>3. PICK w \in precommits[r] : w.block \in Descendants(a)
  BY <1>1, <1>2, HasBackers
<1>4. Supermajority(prevotes[r], w.block)
  BY DEF VotesInv, PrecommitsFollow
<1>5. Descendants(w.block) \subseteq Descendants(a)
  BY <1>3, DescendantsNest DEF VotesInv, Descendants, IsAncestor
<1>6. Backers(prevotes[r], Descendants(w.block)) \subseteq Backers(prevotes[r], Descendants(a))
  BY <1>5 DEF Backers
<1>7. /\ Cardinality(Backers(prevotes[r], Descendants(w.block)))
            <= Cardinality(Backers(prevotes[r], Descendants(a)))
      /\ Cardinality(Backers(prevotes[r], Descendants(w.block))) \in Nat
      /\ Cardinality(Backers(prevotes[r], Descendants(a))) \in Nat
  <2>1. /\ Backers(prevotes[r], Descendants(w.block)) \in SUBSET Voter
        /\ Backers(prevotes[r], Descendants(a)) \in SUBSET Voter
    BY <1>1, VotesAre, Sides
  <2>2. QED
    BY <1>6, <2>1, FewerVoters, VoterSets
<1>8. Cardinality(Backers(prevotes[r], Descendants(a))) >= Threshold
  BY <1>4, <1>7, Thresholds, SupportersAreBackers DEF Supermajority
<1>9. /\ Cardinality(Opposers(prevotes[r], Descendants(a))) <= Faulty
      /\ Cardinality(Opposers(precommits[r], Descendants(a))) <= Faulty
  BY <1>1, <1>2, <1>8, VotesAre, BackedIsNotOpposed
<1>10. /\ Cardinality(Opposers(prevotes[r], Descendants(a))) \in Nat
       /\ Cardinality(Opposers(precommits[r], Descendants(a))) \in Nat
  BY <1>1, VotesAre, Sides, VoterSets
<1>11. QED
  BY <1>9, <1>10, Thresholds DEF Blocked

(* In every later round everybody votes on the final block's chain. *)
LEMMA LaterVotesAgree ==
  ASSUME VotesInv, NEW r \in Round, NEW a \in Block, Supermajority(precommits[r], a)
  PROVE  \A q \in Round : q > r =>
           \A w \in prevotes[q] \cup precommits[q] : w.block \in Descendants(a)
<1> DEFINE Agrees(q) == \A w \in prevotes[q] \cup precommits[q] : w.block \in Descendants(a)
           wrong     == {q \in Round : q > r /\ ~ Agrees(q)}
<1>1. Round \in SUBSET Nat /\ \A q \in Round : q > 1 => q - 1 \in Round
  BY VoterAssumption DEF Round
<1>2. ASSUME NEW q \in Round, q > r, q - 1 > r => Agrees(q - 1)
      PROVE  Agrees(q)
  <2>1. /\ q > 1 /\ q - 1 \in Round /\ (q - 1 = r \/ q - 1 > r)
    BY <1>1, <1>2 DEF Round
  <2>2. ~ Blocked(q - 1, a)
    <3>1. CASE q - 1 = r
      BY <3>1, FinalIsNotBlocked
    <3>2. CASE q - 1 > r
      <4>1. Agrees(q - 1)
        BY <1>2, <3>2
      <4>2. /\ Opposers(prevotes[q - 1], Descendants(a)) = {}
            /\ Opposers(precommits[q - 1], Descendants(a)) = {}
        BY <4>1 DEF Opposers
      <4>3. QED
        BY <4>2, FS_EmptySet, Thresholds DEF Blocked
    <3>3. QED
      BY <2>1, <3>1, <3>2
  <2>3. ASSUME NEW w \in prevotes[q] \cup precommits[q]
        PROVE  w.block \in Descendants(a)
    <3>1. PICK e \in Block : w.block \in Descendants(e) /\ Settled(q - 1, e)
      BY <2>1, <2>3 DEF VotesInv, RoundsFollow, Founded
    <3>2. a \in Chain(e)
      BY <2>2, <3>1 DEF Settled
    <3>3. Descendants(e) \subseteq Descendants(a)
      BY <3>2, DescendantsNest DEF VotesInv
    <3>4. QED
      BY <3>1, <3>3
  <2>4. QED
    BY <2>3
<1>3. ASSUME wrong # {}
      PROVE  FALSE
  <2> HIDE DEF Agrees
  <2>1. PICK q \in wrong : \A p \in wrong : q <= p
    <3>1. wrong \in SUBSET Nat
      BY <1>1
    <3> HIDE DEF wrong
    <3>2. QED
      BY <1>3, <3>1, SmallestNumber
  <2>2. q \in Round /\ q \in Nat /\ q > r /\ ~ Agrees(q) /\ r \in Nat /\ r >= 1
    BY <1>1, <2>1 DEF Round
  <2>3. q - 1 \in Round /\ q - 1 < q
    BY <1>1, <2>2
  <2>4. q - 1 > r => Agrees(q - 1)
    BY <2>1, <2>2, <2>3
  <2>5. QED
    BY <1>2, <2>2, <2>4
<1>4. QED
  BY <1>3

(* Whatever is final in one round or in two has a block above it in common. *)
LEMMA FinalBlocksMeet ==
  ASSUME VotesInv, NEW r \in Round, NEW q \in Round, r <= q, NEW a \in Block, NEW b \in Block,
         Supermajority(precommits[r], a), Supermajority(precommits[q], b)
  PROVE  SameChain(a, b) /\ SameChain(b, a)
<1>1. /\ precommits[r] \in SUBSET Vote /\ OneVote(precommits[r])
      /\ precommits[q] \in SUBSET Vote
  BY DEF VotesInv, VotesCast, Once
<1>2. /\ Cardinality(Backers(precommits[r], Descendants(a))) >= Threshold
      /\ Cardinality(Backers(precommits[q], Descendants(b))) >= Threshold
  BY SupportersAreBackers DEF Supermajority
<1>3. \E c : c \in Descendants(a) /\ c \in Descendants(b)
  <2>1. CASE r = q
    <3>1. Backers(precommits[r], Descendants(a)) \cap Backers(precommits[r], Descendants(b)) # {}
      <4>1. /\ Backers(precommits[r], Descendants(a)) \in SUBSET Voter
            /\ Backers(precommits[r], Descendants(b)) \in SUBSET Voter
        BY <1>1, VotesAre, Sides
      <4>2. QED
        BY <1>2, <2>1, <4>1, QuorumsMeet
    <3>2. PICK v, w \in precommits[r] : /\ v.block \in Descendants(a)
                                       /\ w.block \in Descendants(b)
                                       /\ v.voter = w.voter
      BY <3>1 DEF Backers
    <3>3. v = w
      BY <1>1, <3>2 DEF OneVote
    <3>4. QED
      BY <3>2, <3>3
  <2>2. CASE r # q
    <3>1. PICK w \in precommits[q] : w.block \in Descendants(b)
      BY <1>1, <1>2, HasBackers
    <3>2. q > r
      BY <2>2, VoterAssumption DEF Round
    <3>3. w.block \in Descendants(a)
      BY <3>1, <3>2, LaterVotesAgree
    <3>4. QED
      BY <3>1, <3>3
  <2>3. QED
    BY <2>1, <2>2
<1>4. QED
  BY <1>3, CommonDescendant DEF VotesInv, SameChain

LEMMA VotesAgree == VotesInv => FinalityAgrees
<1> SUFFICES ASSUME VotesInv, NEW a \in Finalized, NEW b \in Finalized
             PROVE  SameChain(a, b)
  BY DEF FinalityAgrees
<1>1. a \in Block /\ b \in Block
  BY DEF Finalized
<1>2. PICK r \in Round : Supermajority(precommits[r], a)
  BY DEF Finalized
<1>3. PICK q \in Round : Supermajority(precommits[q], b)
  BY DEF Finalized
<1>4. r <= q \/ q <= r
  BY VoterAssumption DEF Round
<1>5. QED
  BY <1>1, <1>2, <1>3, <1>4, FinalBlocksMeet

(***************************************************************************)
(* Votes are for blocks that exist, no voter votes twice in a round, and   *)
(* whoever has precommitted has prevoted: a voter acts on the last round   *)
(* in which it has voted (node/src/service.rs, the voter it starts).       *)
(***************************************************************************)
THEOREM VotesTypeCorrect == VotesSpec => []VotesTypeOK
<1>1. VotesInv => VotesTypeOK
  BY DEF VotesInv, VotesCast, Once, VotesTypeOK
<1>2. QED
  BY <1>1, VotesInvariant, PTL

(***************************************************************************)
(* No two conflicting blocks are ever final, in one round or in two: for   *)
(* any number of voters, of whom none votes twice, whatever part of the    *)
(* votes each has seen and however the tree grows.  It is what lets a node *)
(* prune everything off the finalized chain.                               *)
(***************************************************************************)
THEOREM FinalityAgreesAlways == VotesSpec => []FinalityAgrees
  BY VotesInvariant, VotesAgree, PTL

-----------------------------------------------------------------------------
(* The nodes.  The inductive invariant.                                    *)

(* No voter has voted after its round. *)
NobodyAhead ==
  /\ round \in [Voter -> Round]
  /\ \A v \in Voter : \A r \in Round : r > round[v] => v \notin VotersOf(prevotes[r])

(* A node knows whole chains, its head and its finalized block. *)
WholeChains ==
  /\ known \in [Node -> SUBSET Block]
  /\ best \in [Node -> Block]
  /\ final \in [Node -> Block]
  /\ \A n \in Node : /\ best[n] \in known[n]
                     /\ final[n] \in known[n]
                     /\ \A b \in known[n] : Chain(b) \subseteq known[n]

HeadsKeep == \A n \in Node : final[n] \in Chain(best[n])

(* What a node has finalized, the votes have made final. *)
FinalByVotes == \A n \in Node : final[n] \in Finalized \cup {Genesis}

GrandpaInv ==
  /\ VotesInv
  /\ NobodyAhead
  /\ WholeChains
  /\ HeadsKeep
  /\ FinalByVotes
  /\ reverts \in 0..MaxReverts

LEMMA GrandpaStarts == Init => GrandpaInv
<1> SUFFICES ASSUME Init PROVE GrandpaInv
  OBVIOUS
<1> USE DEF Init
<1>1. VotesInv
  BY VotesStart
<1>2. TreeTypeOK
  BY <1>1 DEF VotesInv
<1>3. Genesis \in Block /\ Chain(Genesis) = {Genesis}
  BY <1>2, Blocks, ChainIsRecursive DEF ChainLaw
<1>4. NobodyAhead
  <2>1. 1 \in Round
    BY VoterAssumption, NodeAssumption DEF Round
  <2>2. \A r \in Round : VotersOf(prevotes[r]) = {}
    BY DEF VotesInit, VotersOf
  <2>3. QED
    BY <2>1, <2>2 DEF NobodyAhead
<1>5. WholeChains
  BY <1>3 DEF WholeChains, HeadsInit
<1>6. HeadsKeep
  BY <1>3 DEF HeadsKeep, HeadsInit
<1>7. FinalByVotes
  BY DEF FinalByVotes
<1>8. QED
  BY <1>1, <1>4, <1>5, <1>6, <1>7, NodeAssumption DEF GrandpaInv

-----------------------------------------------------------------------------
(* Every step is one of the abstract protocol.                             *)

(* The last round in which v has voted is the one it is in, or an earlier one. *)
LEMMA VotesUpToRound ==
  ASSUME NobodyAhead, NEW v \in Voter
  PROVE  /\ v \notin VotersOf(prevotes[round[v]]) => round[v] > LastRound(v)
         /\ v \in VotersOf(prevotes[round[v]]) => round[v] = LastRound(v)
<1>1. /\ round[v] \in Round
      /\ \A r \in Round : r > round[v] => v \notin VotersOf(prevotes[r])
  BY DEF NobodyAhead
<1>2. /\ LastRound(v) \in Nat
      /\ LastRound(v) \in Round \/ LastRound(v) = 0
      /\ \A r \in Round : v \in VotersOf(prevotes[r]) => r <= LastRound(v)
      /\ LastRound(v) \in Round => v \in VotersOf(prevotes[LastRound(v)])
  BY LastRoundIs
<1>3. round[v] \in Nat /\ round[v] >= 1
  BY <1>1, VoterAssumption DEF Round
<1>4. LastRound(v) <= round[v]
  BY <1>1, <1>2, <1>3
<1>5. QED
  BY <1>1, <1>2, <1>3, <1>4

LEMMA StepsAreVotes ==
  ASSUME GrandpaInv, [Next]_vars
  PROVE  [VotesNext]_<<tree, votes>>
<1>1. ASSUME NEW n \in Node, ImportBlock(n) \/ Finalize(n) \/ Revert(n)
      PROVE  UNCHANGED <<tree, votes>>
  BY <1>1 DEF ImportBlock, Import, Finalize, Revert, votes
<1>2. ASSUME NEW v \in Voter, Build(v)
      PROVE  VotesNext
  <2>1. PICK p \in known[v] \cap Descendants(final[v]) : Author(v, p)
    BY <1>2 DEF Build
  <2>2. p \in Block /\ Grow(p) /\ UNCHANGED votes
    BY <1>2, <2>1 DEF Build, Author, Descendants
  <2>3. QED
    BY <2>2 DEF VotesNext
<1>3. ASSUME NEW v \in Voter, CastPrevote(v)
      PROVE  VotesNext
  <2>1. round[v] \in Round /\ round[v] > LastRound(v)
    BY <1>3, VotesUpToRound DEF GrandpaInv, NobodyAhead, CastPrevote
  <2>2. PICK base \in Estimates(round[v] - 1) : \E leaf \in BestContaining(v, base) :
          \E b \in Chain(leaf) \cap Descendants(base) : Cast(prevotes, v, b)
    BY <1>3 DEF CastPrevote
  <2>3. PICK b \in Descendants(base) : Cast(prevotes, v, b)
    BY <2>2
  <2>4. prevotes' = [prevotes EXCEPT ![round[v]] = @ \cup {[voter |-> v, block |-> b]}]
    BY <2>3 DEF Cast
  <2>5. UNCHANGED <<tree, precommits>>
    BY <1>3 DEF CastPrevote, chainVars
  <2>6. Prevote(v, round[v])
    BY <2>1, <2>4, <2>5 DEF Prevote
  <2>7. QED
    BY <2>1, <2>6 DEF VotesNext
<1>4. ASSUME NEW v \in Voter, CastPrecommit(v)
      PROVE  VotesNext
  <2>1. /\ round[v] \in Round /\ round[v] = LastRound(v)
        /\ v \notin VotersOf(precommits[round[v]])
    BY <1>4, VotesUpToRound DEF GrandpaInv, NobodyAhead, CastPrecommit
  <2>2. PICK b \in Ghosts(round[v]) :
          /\ Estimates(round[v] - 1) \cap Chain(b) # {}
          /\ Cast(precommits, v, b)
    BY <1>4 DEF CastPrecommit
  <2>3. precommits' = [precommits EXCEPT ![round[v]] = @ \cup {[voter |-> v, block |-> b]}]
    BY <2>2 DEF Cast
  <2>4. UNCHANGED <<tree, prevotes>>
    BY <1>4 DEF CastPrecommit, chainVars
  <2>5. Precommit(v, round[v])
    BY <2>1, <2>2, <2>3, <2>4 DEF Precommit
  <2>6. QED
    BY <2>1, <2>5 DEF VotesNext
<1>5. ASSUME NEW v \in Voter, NextRound(v)
      PROVE  UNCHANGED <<tree, votes>>
  BY <1>5 DEF NextRound, chainVars
<1>6. CASE AllCast
  BY <1>6 DEF AllCast, vars, chainVars
<1>7. CASE UNCHANGED vars
  BY <1>7 DEF vars, chainVars
<1>8. QED
  BY <1>1, <1>2, <1>3, <1>4, <1>5, <1>6, <1>7 DEF Next

LEMMA VotesGoOn ==
  ASSUME GrandpaInv, [Next]_vars
  PROVE  VotesInv' /\ Kept
  BY StepsAreVotes, VotesStep DEF GrandpaInv

-----------------------------------------------------------------------------
(* The invariant is inductive.                                             *)

(* Nobody votes after its round, and rounds only go up. *)
LEMMA NobodyGetsAhead ==
  ASSUME GrandpaInv, [Next]_vars
  PROVE  NobodyAhead' /\ reverts' \in 0..MaxReverts
<1> DEFINE Ahead(V) == \A v \in Voter : \A r \in Round : r > round'[v] => v \notin VotersOf(V[r])
<1>1. /\ round \in [Voter -> Round]
      /\ \A v \in Voter : \A r \in Round : r > round[v] => v \notin VotersOf(prevotes[r])
      /\ prevotes \in [Round -> SUBSET Vote]
      /\ reverts \in 0..MaxReverts
      /\ MaxReverts \in Nat /\ MaxRound \in Nat
  BY NodeAssumption, VoterAssumption DEF GrandpaInv, NobodyAhead, VotesInv, VotesCast
<1>2. SUFFICES /\ round' \in [Voter -> Round]
               /\ \A v \in Voter : \A r \in Round : r > round'[v] => v \notin VotersOf(prevotes'[r])
               /\ reverts' \in 0..MaxReverts
  BY DEF NobodyAhead, Round, VotersOf
<1>3. CASE UNCHANGED <<prevotes, round>> /\ reverts' \in 0..MaxReverts
  BY <1>1, <1>3
<1>4. ASSUME NEW n \in Node, ImportBlock(n) \/ Finalize(n)
      PROVE  UNCHANGED <<prevotes, round, reverts>>
  BY <1>4 DEF ImportBlock, Finalize, votes
<1>5. ASSUME NEW n \in Node, Revert(n)
      PROVE  UNCHANGED <<prevotes, round>> /\ reverts' \in 0..MaxReverts
  BY <1>1, <1>5 DEF Revert, votes
<1>6. ASSUME NEW v \in Voter, Build(v) \/ CastPrecommit(v)
      PROVE  UNCHANGED <<prevotes, round, reverts>>
  BY <1>6 DEF Build, CastPrecommit, votes
<1>7. ASSUME NEW v \in Voter, CastPrevote(v)
      PROVE  /\ round' = round /\ reverts' = reverts
             /\ \A u \in Voter : \A r \in Round :
                  r > round[u] => u \notin VotersOf(prevotes'[r])
  <2>1. PICK b : Cast(prevotes, v, b)
    BY <1>7 DEF CastPrevote
  <2>2. prevotes' = [prevotes EXCEPT ![round[v]] = @ \cup {[voter |-> v, block |-> b]}]
    BY <2>1 DEF Cast
  <2>3. round[v] \in Round
    BY <1>1
  <2>4. /\ VotersOf(prevotes'[round[v]]) = VotersOf(prevotes[round[v]]) \cup {v}
        /\ \A r \in Round : r # round[v] => prevotes'[r] = prevotes[r]
    <3>1. PICK w : w = [voter |-> v, block |-> b]
      OBVIOUS
    <3>2. w.voter = v
      BY <3>1
    <3>3. /\ prevotes'[round[v]] = prevotes[round[v]] \cup {w}
          /\ \A r \in Round : r # round[v] => prevotes'[r] = prevotes[r]
      BY <1>1, <2>2, <2>3, <3>1
    <3>4. QED
      BY <3>2, <3>3 DEF VotersOf
  <2>5. round' = round /\ reverts' = reverts
    BY <1>7 DEF CastPrevote
  <2>6. ASSUME NEW u \in Voter, NEW r \in Round, r > round[u]
        PROVE  u \notin VotersOf(prevotes'[r])
    <3>1. u \notin VotersOf(prevotes[r])
      BY <1>1, <2>6
    <3>2. r = round[v] => u # v
      BY <1>1, <2>3, <2>6 DEF Round
    <3>3. QED
      BY <2>4, <3>1, <3>2
  <2>7. QED
    BY <2>5, <2>6
<1>8. ASSUME NEW v \in Voter, NextRound(v)
      PROVE  /\ round' \in [Voter -> Round]
             /\ \A u \in Voter : round'[u] >= round[u]
             /\ UNCHANGED <<prevotes, reverts>>
  <2>1. /\ round' = [round EXCEPT ![v] = @ + 1]
        /\ round[v] < MaxRound
        /\ UNCHANGED <<prevotes, reverts>>
    BY <1>8 DEF NextRound, votes
  <2>2. \A u \in Voter : round[u] \in Nat /\ round[u] \in Round
    BY <1>1 DEF Round
  <2>3. round[v] + 1 \in Round
    BY <1>1, <2>1, <2>2 DEF Round
  <2>4. QED
    BY <1>1, <2>1, <2>2, <2>3
<1>9. ASSUME NEW v \in Voter, NextRound(v), NEW u \in Voter, NEW r \in Round, r > round'[u]
      PROVE  u \notin VotersOf(prevotes'[r])
  <2>1. r > round[u]
    <3>1. round'[u] \in Round /\ round[u] \in Round /\ round'[u] >= round[u]
      BY <1>1, <1>8, <1>9
    <3>2. QED
      BY <1>1, <1>9, <3>1 DEF Round
  <2>2. QED
    BY <1>1, <1>8, <1>9, <2>1
<1>10. ASSUME AllCast \/ UNCHANGED vars
       PROVE  UNCHANGED <<prevotes, round, reverts>>
  BY <1>10 DEF AllCast, vars, votes
<1>11. CASE \E n \in Node : ImportBlock(n) \/ Finalize(n) \/ Revert(n)
  BY <1>1, <1>3, <1>4, <1>5, <1>11
<1>12. CASE \E v \in Voter : Build(v) \/ CastPrecommit(v)
  BY <1>1, <1>3, <1>6, <1>12
<1>13. CASE \E v \in Voter : CastPrevote(v)
  BY <1>1, <1>7, <1>13
<1>14. CASE \E v \in Voter : NextRound(v)
  BY <1>1, <1>8, <1>9, <1>14
<1>15. CASE AllCast \/ UNCHANGED vars
  BY <1>1, <1>3, <1>10, <1>15
<1>16. QED
  BY <1>11, <1>12, <1>13, <1>14, <1>15 DEF Next

-----------------------------------------------------------------------------
(* Databases, heads and finality.                                          *)

ChainOf == [b \in Block |-> Chain(b)]

(* What a step must do for a node: its database holds whole chains, its     *)
(* head and its finalized block; its head is built on the finalized block. *)
NodeOK(n) ==
  /\ known'[n] \in SUBSET Block'
  /\ best'[n] \in known'[n]
  /\ final'[n] \in known'[n]
  /\ \A b \in known'[n] : ChainOf'[b] \subseteq known'[n]
  /\ final'[n] \in ChainOf'[best'[n]]

HeadsOK == WholeChains' /\ HeadsKeep'

LEMMA HeadsFromNodes ==
  ASSUME known' = [n \in Node |-> known'[n]],
         best' = [n \in Node |-> best'[n]],
         final' = [n \in Node |-> final'[n]],
         \A n \in Node : NodeOK(n)
  PROVE  HeadsOK
<1>1. \A n \in Node : /\ known'[n] \in SUBSET Block' /\ best'[n] \in Block' /\ final'[n] \in Block'
                      /\ \A b \in known'[n] : ChainOf'[b] \subseteq known'[n]
                      /\ best'[n] \in known'[n] /\ final'[n] \in known'[n]
  BY DEF NodeOK
<1>2. known' \in [Node -> SUBSET Block'] /\ best' \in [Node -> Block'] /\ final' \in [Node -> Block']
  BY <1>1
<1>3. \A b \in Block' : ChainOf'[b] = Chain(b)'
  BY DEF ChainOf
<1>4. \A n \in Node : \A b \in known'[n] : Chain(b)' \subseteq known'[n]
  BY <1>1, <1>3
<1>5. WholeChains'
  BY <1>1, <1>2, <1>4 DEF WholeChains
<1>6. ASSUME NEW n \in Node
      PROVE  final'[n] \in Chain(best[n])'
  <2>1. PICK b \in Block' : b = best'[n]
    BY <1>1
  <2>2. Chain(b)' = Chain(best[n])'
    BY <2>1 DEF Chain
  <2>3. QED
    BY <1>3, <2>1, <2>2 DEF NodeOK
<1>7. QED
  BY <1>5, <1>6 DEF HeadsOK, HeadsKeep

LEMMA ChainsAfter ==
  ASSUME Kept
  PROVE  \A b \in Block : b \in Block' /\ ChainOf'[b] = Chain(b)
  BY DEF Kept, ChainOf

(* What the invariant says of one node. *)
LEMMA NodeBefore ==
  ASSUME GrandpaInv, NEW n \in Node
  PROVE  /\ known[n] \in SUBSET Block
         /\ best[n] \in Block /\ final[n] \in Block
         /\ best[n] \in known[n] /\ final[n] \in known[n]
         /\ \A b \in known[n] : Chain(b) \subseteq known[n]
         /\ final[n] \in Chain(best[n])
         /\ Genesis \in known[n]
         /\ known = [m \in Node |-> known[m]]
         /\ best = [m \in Node |-> best[m]]
         /\ final = [m \in Node |-> final[m]]
<1>1. /\ known \in [Node -> SUBSET Block]
      /\ best \in [Node -> Block]
      /\ final \in [Node -> Block]
      /\ best[n] \in known[n] /\ final[n] \in known[n]
      /\ \A b \in known[n] : Chain(b) \subseteq known[n]
      /\ final[n] \in Chain(best[n])
  BY DEF GrandpaInv, WholeChains, HeadsKeep
<1>2. Genesis \in Chain(best[n])
  BY <1>1, ChainsRun DEF GrandpaInv, VotesInv, ChainRuns
<1>3. QED
  BY <1>1, <1>2

(* A node that a step does not touch. *)
LEMMA OthersOK ==
  ASSUME GrandpaInv, Kept, NEW n \in Node,
         known'[n] = known[n], best'[n] = best[n], final'[n] = final[n]
  PROVE  NodeOK(n)
<1>1. final[n] \in Chain(final[n])
  BY NodeBefore, ChainsRun DEF GrandpaInv, VotesInv, ChainRuns
<1>2. QED
  BY <1>1, NodeBefore, ChainsAfter DEF NodeOK

(* A block above the finalized one enters the database, and may become the  *)
(* head.                                                                   *)
LEMMA AddedOK ==
  ASSUME GrandpaInv, Kept, NEW n \in Node, NEW b \in Block',
         ChainOf'[b] \subseteq known[n] \cup {b}, final[n] \in ChainOf'[b],
         known'[n] = known[n] \cup {b}, best'[n] \in {best[n], b}, final'[n] = final[n]
  PROVE  NodeOK(n)
<1>1. final[n] \in Chain(final[n])
  BY NodeBefore, ChainsRun DEF GrandpaInv, VotesInv, ChainRuns
<1>2. /\ final[n] \in ChainOf'[final[n]]
      /\ final[n] \in ChainOf'[best[n]]
      /\ \A c \in known[n] : c \in Block' /\ ChainOf'[c] \subseteq known[n]
      /\ known[n] \in SUBSET Block /\ best[n] \in known[n] /\ final[n] \in known[n]
  BY <1>1, NodeBefore, ChainsAfter
<1>3. QED
  BY <1>2 DEF NodeOK

LEMMA BuildKeepsHeads ==
  ASSUME GrandpaInv, Kept, NEW v \in Voter, Build(v)
  PROVE  HeadsOK
<1>1. PICK p \in known[v] \cap Descendants(final[v]) : Author(v, p)
  BY DEF Build
<1>2. v \in Node /\ p \in Block /\ final[v] \in Chain(p) /\ final' = final
  BY <1>1, NodeAssumption DEF Build, Descendants, IsAncestor
<1>3. PICK b : /\ b \notin Block /\ Block' = Block \cup {b}
               /\ b = Len(tree) + 1
               /\ parent(b)' = p /\ b # Genesis
  BY <1>1, <1>2, TreeGrows DEF Author, GrandpaInv, VotesInv
<1>4. ChainOf'[b] = {b} \cup Chain(p)
  <2>1. TreeTypeOK'
    BY <1>1, <1>2, TreeGrows DEF Author, GrandpaInv, VotesInv
  <2>2. TreeTypeOK' => ChainLaw'
    BY ChainIsRecursive, PTL
  <2>3. Chain(b)' = {b} \cup Chain(parent(b))'
    BY <1>3, <2>1, <2>2 DEF ChainLaw
  <2>4. Chain(parent(b))' = Chain(p)'
    BY <1>3 DEF Chain
  <2>5. Chain(p)' = Chain(p)
    BY <1>2 DEF Kept
  <2>6. QED
    BY <1>3, <2>3, <2>4, <2>5 DEF ChainOf
<1>5. /\ known' = [known EXCEPT ![v] = @ \cup {b}]
      /\ best' = [best EXCEPT ![v] = IF number(p) + 1 > number(@) THEN b ELSE @]
  BY <1>1, <1>3 DEF Author, AddBlock
<1>6. NodeOK(v)
  <2>1. b \in Block' /\ final[v] \in ChainOf'[b] /\ ChainOf'[b] \subseteq known[v] \cup {b}
    BY <1>1, <1>2, <1>3, <1>4, NodeBefore
  <2>2. /\ known'[v] = known[v] \cup {b} /\ best'[v] \in {best[v], b}
        /\ final'[v] = final[v]
    BY <1>2, <1>5, NodeBefore
  <2>3. QED
    BY <1>2, <2>1, <2>2, AddedOK
<1>7. ASSUME NEW n \in Node, n # v
      PROVE  NodeOK(n)
  <2>1. known'[n] = known[n] /\ best'[n] = best[n] /\ final'[n] = final[n]
    BY <1>2, <1>5, <1>7, NodeBefore
  <2>2. QED
    BY <2>1, OthersOK
<1>8. QED
  <2>1. /\ known' = [n \in Node |-> known'[n]]
        /\ best' = [n \in Node |-> best'[n]]
        /\ final' = [n \in Node |-> final'[n]]
    BY <1>2, <1>5, NodeBefore
  <2>2. QED
    BY <1>6, <1>7, <2>1, HeadsFromNodes

LEMMA ImportKeepsHeads ==
  ASSUME GrandpaInv, Kept, NEW n \in Node, ImportBlock(n)
  PROVE  HeadsOK
<1>1. PICK b \in Descendants(final[n]) : Import(n, b)
  BY DEF ImportBlock
<1>2. /\ b \in Block /\ final[n] \in Chain(b)
      /\ b \notin known[n] /\ parent(b) \in known[n]
      /\ final' = final
  BY <1>1 DEF ImportBlock, Import, Descendants, IsAncestor
<1>3. /\ known' = [known EXCEPT ![n] = @ \cup {b}]
      /\ best' = [best EXCEPT ![n] = IF number(b) > number(@) THEN b ELSE @]
  BY <1>1 DEF Import, AddBlock
<1>4. Chain(b) = {b} \cup Chain(parent(b))
  <2>1. b # Genesis
    BY <1>2, NodeBefore
  <2>2. QED
    BY <1>2, <2>1, ChainIsRecursive DEF GrandpaInv, VotesInv, ChainLaw
<1>5. NodeOK(n)
  <2>1. b \in Block' /\ final[n] \in ChainOf'[b] /\ ChainOf'[b] \subseteq known[n] \cup {b}
    BY <1>2, <1>4, NodeBefore, ChainsAfter
  <2>2. /\ known'[n] = known[n] \cup {b} /\ best'[n] \in {best[n], b}
        /\ final'[n] = final[n]
    BY <1>2, <1>3, NodeBefore
  <2>3. QED
    BY <2>1, <2>2, AddedOK
<1>6. ASSUME NEW m \in Node, m # n
      PROVE  NodeOK(m)
  <2>1. known'[m] = known[m] /\ best'[m] = best[m] /\ final'[m] = final[m]
    BY <1>2, <1>3, <1>6, NodeBefore
  <2>2. QED
    BY <2>1, OthersOK
<1>7. QED
  <2>1. /\ known' = [m \in Node |-> known'[m]]
        /\ best' = [m \in Node |-> best'[m]]
        /\ final' = [m \in Node |-> final'[m]]
    BY <1>2, <1>3, NodeBefore
  <2>2. QED
    BY <1>5, <1>6, <2>1, HeadsFromNodes

LEMMA FinalizeKeepsHeads ==
  ASSUME GrandpaInv, Kept, NEW n \in Node, Finalize(n)
  PROVE  HeadsOK
<1>1. PICK b \in Finalized \cap known[n] \cap Descendants(final[n]) :
        /\ final' = [final EXCEPT ![n] = b]
        /\ best' = [best EXCEPT ![n] = IF IsAncestor(b, @) THEN @ ELSE b]
  BY DEF Finalize
<1>2. b \in Block /\ b \in known[n] /\ final[n] \in Chain(b) /\ known' = known
  BY DEF Finalize, Descendants, IsAncestor
<1>3. b \in Chain(b)
  BY <1>2, ChainsRun DEF GrandpaInv, VotesInv, ChainRuns
<1>4. /\ final'[n] = b
      /\ (best'[n] = best[n] /\ b \in Chain(best[n])) \/ best'[n] = b
  BY <1>1, NodeBefore DEF IsAncestor
<1>5. NodeOK(n)
  <2>1. /\ known[n] \in SUBSET Block' /\ best'[n] \in known[n]
        /\ \A c \in known[n] : ChainOf'[c] \subseteq known[n]
    BY <1>2, <1>4, NodeBefore, ChainsAfter
  <2>2. b \in ChainOf'[best'[n]] /\ final[n] \in ChainOf'[b]
    BY <1>2, <1>3, <1>4, NodeBefore, ChainsAfter
  <2>3. QED
    BY <1>2, <1>4, <2>1, <2>2 DEF NodeOK
<1>6. ASSUME NEW m \in Node, m # n
      PROVE  NodeOK(m)
  <2>1. known'[m] = known[m] /\ best'[m] = best[m] /\ final'[m] = final[m]
    BY <1>1, <1>2, <1>6, NodeBefore
  <2>2. QED
    BY <2>1, OthersOK
<1>7. QED
  <2>1. /\ known' = [m \in Node |-> known'[m]]
        /\ best' = [m \in Node |-> best'[m]]
        /\ final' = [m \in Node |-> final'[m]]
    BY <1>1, <1>2, NodeBefore
  <2>2. QED
    BY <1>5, <1>6, <2>1, HeadsFromNodes

(* What `revert` removes is higher than the block it goes back to, so that  *)
(* block's chain is kept, and the finalized block is on it.                 *)
LEMMA RevertKeepsHeads ==
  ASSUME GrandpaInv, Kept, NEW n \in Node, Revert(n)
  PROVE  HeadsOK
<1>1. PICK b \in (Chain(best[n]) \ {best[n]}) \cap Descendants(final[n]) :
        /\ best' = [best EXCEPT ![n] = b]
        /\ known' = [known EXCEPT ![n] = {c \in @ : number(c) <= number(b)}]
  BY DEF Revert
<1>2. b \in Block /\ b \in known[n] /\ final[n] \in Chain(b) /\ final' = final
  BY NodeBefore DEF Revert, Descendants, IsAncestor
<1>3. \A c \in Block : /\ number(c) \in Nat /\ c \in Chain(c) /\ Chain(c) \subseteq Block
                       /\ \A a \in Chain(c) : number(a) <= number(c)
  <2>1. \A c \in Block : /\ c \in Chain(c) /\ Chain(c) \subseteq Block
                         /\ \A a \in Chain(c) : a = c \/ number(a) < number(c)
    BY ChainsRun DEF GrandpaInv, VotesInv, ChainRuns
  <2>2. \A c \in Block : number(c) \in Nat
    BY Blocks DEF GrandpaInv, VotesInv
  <2>3. QED
    BY <2>1, <2>2
<1>4. /\ known'[n] = {c \in known[n] : number(c) <= number(b)}
      /\ best'[n] = b /\ final'[n] = final[n]
  BY <1>1, <1>2, NodeBefore
<1>5. NodeOK(n)
  <2>1. b \in known'[n] /\ final[n] \in known'[n]
    BY <1>2, <1>3, <1>4, NodeBefore
  <2>2. ASSUME NEW c \in known'[n], NEW a \in Chain(c)
        PROVE  a \in known'[n]
    <3>1. /\ c \in Block /\ c \in known[n] /\ number(c) <= number(b)
          /\ a \in known[n]
      BY <1>4, NodeBefore
    <3>2. /\ number(a) <= number(c) /\ number(a) \in Nat
          /\ number(c) \in Nat /\ number(b) \in Nat
      BY <1>2, <1>3, <3>1
    <3>3. QED
      BY <1>4, <3>1, <3>2
  <2>3. known'[n] \in SUBSET Block /\ \A c \in known'[n] : ChainOf'[c] = Chain(c) /\ c \in Block'
    BY <1>4, NodeBefore, ChainsAfter
  <2>4. final[n] \in ChainOf'[b] /\ final[n] \in ChainOf'[final[n]]
    BY <1>2, <1>3, NodeBefore, ChainsAfter
  <2>5. QED
    BY <1>4, <2>1, <2>2, <2>3, <2>4 DEF NodeOK
<1>6. ASSUME NEW m \in Node, m # n
      PROVE  NodeOK(m)
  <2>1. known'[m] = known[m] /\ best'[m] = best[m] /\ final'[m] = final[m]
    BY <1>1, <1>2, <1>6, NodeBefore
  <2>2. QED
    BY <2>1, OthersOK
<1>7. QED
  <2>1. /\ known' = [m \in Node |-> known'[m]]
        /\ best' = [m \in Node |-> best'[m]]
        /\ final' = [m \in Node |-> final'[m]]
    BY <1>1, <1>2, NodeBefore
  <2>2. QED
    BY <1>5, <1>6, <2>1, HeadsFromNodes

LEMMA IdleKeepsHeads ==
  ASSUME GrandpaInv, Kept, UNCHANGED <<known, best, final>>
  PROVE  HeadsOK
<1>1. \A n \in Node : NodeOK(n)
  BY OthersOK
<1>2. /\ known' = [n \in Node |-> known'[n]]
      /\ best' = [n \in Node |-> best'[n]]
      /\ final' = [n \in Node |-> final'[n]]
  BY DEF GrandpaInv, WholeChains
<1>3. QED
  BY <1>1, <1>2, HeadsFromNodes

(* Only Finalize moves a finalized block, and to one that is final. *)
LEMMA FinalStaysByVotes ==
  ASSUME GrandpaInv, VotesInv', Kept, [Next]_vars
  PROVE  FinalByVotes'
<1>1. \A b \in Finalized : b \in Finalized'
  BY FinalStaysFinal DEF GrandpaInv, VotesInv
<1>2. Genesis' = Genesis
  BY DEF Genesis
<1>3. final' = final \/ \E n \in Node, b \in Finalized : final' = [final EXCEPT ![n] = b]
  BY DEF Next, vars, ImportBlock, Finalize, Revert, Build, CastPrevote, CastPrecommit,
         NextRound, AllCast
<1>4. \A n \in Node : final'[n] \in Finalized \cup {Genesis}
  BY <1>3 DEF GrandpaInv, FinalByVotes, WholeChains
<1>5. QED
  BY <1>1, <1>2, <1>4 DEF FinalByVotes

LEMMA GrandpaStep == GrandpaInv /\ [Next]_vars => GrandpaInv'
<1> SUFFICES ASSUME GrandpaInv, [Next]_vars
             PROVE  GrandpaInv'
  OBVIOUS
<1>1. VotesInv' /\ Kept
  BY VotesGoOn
<1>2. NobodyAhead' /\ reverts' \in 0..MaxReverts
  BY NobodyGetsAhead
<1>3. HeadsOK
  <2>1. ASSUME NEW n \in Node, ImportBlock(n)
        PROVE  HeadsOK
    BY <1>1, <2>1, ImportKeepsHeads
  <2>2. ASSUME NEW n \in Node, Finalize(n)
        PROVE  HeadsOK
    BY <1>1, <2>2, FinalizeKeepsHeads
  <2>3. ASSUME NEW n \in Node, Revert(n)
        PROVE  HeadsOK
    BY <1>1, <2>3, RevertKeepsHeads
  <2>4. ASSUME NEW v \in Voter, Build(v)
        PROVE  HeadsOK
    BY <1>1, <2>4, BuildKeepsHeads
  <2>5. ASSUME NEW v \in Voter, CastPrevote(v) \/ CastPrecommit(v) \/ NextRound(v)
        PROVE  UNCHANGED <<known, best, final>>
    BY <2>5 DEF CastPrevote, CastPrecommit, NextRound, chainVars
  <2>6. ASSUME AllCast \/ UNCHANGED vars
        PROVE  UNCHANGED <<known, best, final>>
    BY <2>6 DEF AllCast, vars, chainVars
  <2>7. QED
    BY <1>1, <2>1, <2>2, <2>3, <2>4, <2>5, <2>6, IdleKeepsHeads DEF Next
<1>4. FinalByVotes'
  BY <1>1, FinalStaysByVotes
<1>5. QED
  BY <1>1, <1>2, <1>3, <1>4 DEF GrandpaInv, HeadsOK

LEMMA GrandpaInvariant == Spec => []GrandpaInv
<1>1. Init => GrandpaInv
  BY GrandpaStarts
<1>2. GrandpaInv /\ [Next]_vars => GrandpaInv'
  BY GrandpaStep
<1>3. QED
  BY <1>1, <1>2, PTL DEF Spec

-----------------------------------------------------------------------------
(* Theorems.                                                               *)

(***************************************************************************)
(* Databases hold whole chains and the head; votes are well formed; every  *)
(* voter is in a round (node/src/service.rs, new_partial and new_full).    *)
(***************************************************************************)
THEOREM GrandpaTypeCorrect == Spec => []GrandpaTypeOK
<1>1. GrandpaInv => GrandpaTypeOK
  <2>1. VotesInv => VotesTypeOK
    BY DEF VotesInv, VotesCast, Once, VotesTypeOK
  <2>2. QED
    BY <2>1 DEF GrandpaInv, NobodyAhead, WholeChains, GrandpaTypeOK
<1>2. QED
  BY <1>1, GrandpaInvariant, PTL

(***************************************************************************)
(* A node's head is always on the chain of its finalized block, whatever   *)
(* fork finality chooses and however far the `revert` command goes         *)
(* (node/src/command.rs).                                                  *)
(***************************************************************************)
THEOREM HeadsKeepFinality == Spec => []HeadKeepsFinality
<1>1. GrandpaInv => HeadKeepsFinality
  BY DEF GrandpaInv, WholeChains, HeadsKeep, HeadKeepsFinality, IsAncestor
<1>2. QED
  BY <1>1, GrandpaInvariant, PTL

(***************************************************************************)
(* The nodes implement the abstract votes: a voter that prevotes by the    *)
(* longest chain it has at the moment, in the round it is in, votes as the *)
(* abstract protocol allows, also after a revert has removed blocks.       *)
(***************************************************************************)
THEOREM NodesImplementVotes == Spec => VotesRefined
<1>1. Init => VotesInit
  BY DEF Init
<1>2. GrandpaInv /\ [Next]_vars => [VotesNext]_<<tree, votes>>
  BY StepsAreVotes
<1>3. QED
  BY <1>1, <1>2, GrandpaInvariant, PTL DEF Spec, VotesRefined, VotesSpec

(***************************************************************************)
(* So what the nodes' votes make final is in line, and with it what any    *)
(* two nodes have finalized: a node finalizes only what the votes have     *)
(* made final, and votes, once cast, are not undone by any node's revert.  *)
(***************************************************************************)
THEOREM NodesAgree == Spec => []NodesFinalizeOneChain
<1>1. GrandpaInv => NodesFinalizeOneChain
  <2> SUFFICES ASSUME GrandpaInv, NEW m \in Node, NEW n \in Node
               PROVE  SameChain(final[m], final[n])
    BY DEF NodesFinalizeOneChain
  <2>1. FinalityAgrees
    BY VotesAgree DEF GrandpaInv
  <2>2. Genesis \in Chain(final[m]) /\ Genesis \in Chain(final[n])
    BY NodeBefore, ChainsRun DEF GrandpaInv, VotesInv, ChainRuns
  <2>3. final[m] \in Finalized \cup {Genesis} /\ final[n] \in Finalized \cup {Genesis}
    BY DEF GrandpaInv, FinalByVotes
  <2>4. QED
    BY <2>1, <2>2, <2>3 DEF FinalityAgrees, SameChain, IsAncestor
<1>2. QED
  BY <1>1, GrandpaInvariant, PTL
=============================================================================
