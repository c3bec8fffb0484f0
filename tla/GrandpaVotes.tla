----------------------------- MODULE GrandpaVotes -----------------------------
(***************************************************************************)
(* What GRANDPA's votes promise: voters prevote and precommit, once each   *)
(* in a round, and a block is final when a supermajority has precommitted  *)
(* in one round for it or for blocks built on it.                          *)
(*                                                                         *)
(* There are no messages: a voter acts on any subset of the votes that     *)
(* have been cast, which stands for the votes delivered to it, in any      *)
(* order, late or never.  Voters follow the protocol.  The rounds are      *)
(* those of the library that node/src/service.rs starts; this module is    *)
(* the abstract specification that the nodes of Grandpa implement.         *)
(***************************************************************************)
EXTENDS BlockTree

CONSTANTS
  Voter,    \* the authorities of genesis; this runtime never changes them
  MaxRound  \* bound: rounds

ASSUME VoterAssumption == IsFiniteSet(Voter) /\ Voter # {} /\ MaxRound \in Nat

VARIABLES
  prevotes,   \* [Round -> votes cast]; a vote has a voter and a block
  precommits  \* [Round -> votes cast]

votes == <<prevotes, precommits>>

Round == 1..MaxRound
Vote  == [voter : Voter, block : Block]

Faulty    == (Cardinality(Voter) - 1) \div 3

(* Mutant: a majority, or half of the voters. *)
Threshold_Half == (Cardinality(Voter) + 1) \div 2

Threshold == Cardinality(Voter) - Faulty

VotersOf(V) == {v.voter : v \in V}
Supporters(V, b) ==
  LET above == Descendants(b)
  IN  {v.voter : v \in {w \in V : w.block \in above}}
Highest(B) == CHOOSE b \in B : \A c \in B : number(c) <= number(b)

(* Enough votes of V are for b or for blocks built on it. *)
Supermajority(V, b) == Cardinality(Supporters(V, b)) >= Threshold

(* The views of a set of votes that hold votes of a supermajority. *)
Views(V) == {W \in SUBSET V : Cardinality(VotersOf(W)) >= Threshold}

(* The highest block with a supermajority in the view V. *)
Ghost(V) == Highest({b \in Block : Supermajority(V, b)})

Ghosts(r) == {Ghost(V) : V \in Views(prevotes[r])}

(* b may get a supermajority of precommits when those in the view C have    *)
(* been seen: everybody else may still vote for it, and as many voters as   *)
(* may be faulty may vote a second time.                                   *)
Possible(C, b) ==
  LET for     == Cardinality(Supporters(C, b))
      against == Cardinality(VotersOf(C)) - for
      twice   == IF against < Faulty THEN against ELSE Faulty
  IN  Cardinality(Voter) - against + twice >= Threshold

(* The highest block up to the prevotes' ghost g that may still be final. *)
EstimateOf(g, C) == Highest({b \in Chain(g) : Possible(C, b)})

(* Mutant: the round is left as soon as there is an estimate. *)
Completable_AtOnce(g, C) == EstimateOf(g, C) \in Chain(g)

(* Nothing above the estimate may become final in this round. *)
Completable(g, C) ==
  \/ EstimateOf(g, C) # g
  \/ \A b \in Children(g) : ~ Possible(C, b)

(* The estimates with which a voter may leave a round, by what it has seen. *)
Estimates(r) ==
  IF r = 0 THEN {Genesis}
  ELSE UNION {{EstimateOf(g, C) : C \in {D \in Views(precommits[r]) : Completable(g, D)}} :
                g \in Ghosts(r)}

Finalized == {b \in Block : \E r \in Round : Supermajority(precommits[r], b)}

VotesInit ==
  /\ TreeInit
  /\ prevotes = [r \in Round |-> {}]
  /\ precommits = [r \in Round |-> {}]

(* The last round in which v has voted. *)
LastRound(v) ==
  LET cast == {r \in Round : v \in VotersOf(prevotes[r])}
  IN  IF cast = {} THEN 0 ELSE CHOOSE r \in cast : \A q \in cast : q <= r

(* A voter prevotes for a block built on an estimate of the last round. *)
Prevote(v, r) ==
  /\ r > LastRound(v)
  /\ \E e \in Estimates(r - 1) :
       \E b \in Descendants(e) :
         prevotes' = [prevotes EXCEPT ![r] = @ \cup {[voter |-> v, block |-> b]}]
  /\ UNCHANGED <<tree, precommits>>

(* Mutant: a voter that is started again votes again. *)
Precommit_Again(v, r) ==
  /\ r = LastRound(v)
  /\ \E b \in Ghosts(r) :
       /\ Estimates(r - 1) \cap Chain(b) # {}
       /\ precommits' = [precommits EXCEPT ![r] = @ \cup {[voter |-> v, block |-> b]}]
  /\ UNCHANGED <<tree, prevotes>>

(* It then precommits to the ghost of the prevotes it has seen, when that   *)
(* is built on an estimate of the last round.                              *)
Precommit(v, r) ==
  /\ r = LastRound(v)
  /\ v \notin VotersOf(precommits[r])
  /\ \E b \in Ghosts(r) :
       /\ Estimates(r - 1) \cap Chain(b) # {}
       /\ precommits' = [precommits EXCEPT ![r] = @ \cup {[voter |-> v, block |-> b]}]
  /\ UNCHANGED <<tree, prevotes>>

(* Everybody has voted in every round up to the bound. *)
Finished ==
  /\ MaxRound > 0 => VotersOf(precommits[MaxRound]) = Voter
  /\ UNCHANGED <<tree, votes>>

VotesNext ==
  \/ \E b \in Block : Grow(b) /\ UNCHANGED votes
  \/ \E v \in Voter, r \in Round : Prevote(v, r) \/ Precommit(v, r)
  \/ Finished

VotesSpec == VotesInit /\ [][VotesNext]_<<tree, votes>>

-----------------------------------------------------------------------------
(* Properties.                                                             *)

(* Type invariant: votes are for blocks that exist, no voter votes twice in *)
(* a round, and whoever has precommitted has prevoted.                      *)
VotesTypeOK ==
  /\ TreeTypeOK
  /\ {prevotes, precommits} \subseteq [Round -> SUBSET Vote]
  /\ \A r \in Round :
       /\ Cardinality(VotersOf(prevotes[r])) = Cardinality(prevotes[r])
       /\ Cardinality(VotersOf(precommits[r])) = Cardinality(precommits[r])
       /\ VotersOf(precommits[r]) \subseteq VotersOf(prevotes[r])

(* No two conflicting blocks are ever final, in one round or in two,        *)
(* whichever votes each voter had seen when it cast its own and however the *)
(* tree has grown in between.                                              *)
FinalityAgrees == \A a, b \in Finalized : SameChain(a, b)
=============================================================================
