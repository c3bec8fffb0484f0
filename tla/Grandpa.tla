-------------------------------- MODULE Grandpa --------------------------------
(***************************************************************************)
(* The nodes of a chain with finality (node/src/service.rs, new_partial    *)
(* and new_full; node/src/command.rs, Revert).  Every node imports blocks  *)
(* through GRANDPA's block import and runs its voter; the voter of an      *)
(* authority has a keystore and votes, the others only follow.  A node     *)
(* that is stopped can be reverted, which removes blocks but none of the   *)
(* votes that its key has cast.                                            *)
(*                                                                         *)
(* A restart is a stuttering step: the database, the votes cast, the round *)
(* and the finalized block are on disk, and which votes of others a node   *)
(* has seen is not part of the state (see GrandpaVotes).                   *)
(***************************************************************************)
EXTENDS LongestChain, GrandpaVotes

CONSTANT MaxReverts  \* bound: `revert` commands

ASSUME NodeAssumption == Voter \subseteq Node /\ MaxReverts \in Nat /\ MaxRound > 0

VARIABLES
  final,     \* [Node -> last finalized block]
  round,     \* [Voter -> round in which it votes]
  reverts    \* number of reverts, for the bound

chainVars == <<tree, known, best>>
vars == <<chainVars, votes, final, round, reverts>>

Init ==
  /\ HeadsInit
  /\ VotesInit
  /\ final = [n \in Node |-> Genesis]
  /\ round = [v \in Voter |-> 1]
  /\ reverts = 0

(* An authority authors a block.  One on a chain that finality has left is  *)
(* not imported, and not announced.                                        *)
Build(n) ==
  /\ \E p \in known[n] \cap Descendants(final[n]) : Author(n, p)
  /\ UNCHANGED <<votes, final, round, reverts>>

(* Mutant: only a block higher than the head is imported. *)
ImportBlock_OnlyHigher(n) ==
  /\ \E b \in Descendants(final[n]) : number(b) > number(best[n]) /\ Import(n, b)
  /\ UNCHANGED <<votes, final, round, reverts>>

(* A block of another node is imported, unless it would take the chain off  *)
(* the finalized block.                                                    *)
ImportBlock(n) ==
  /\ \E b \in Descendants(final[n]) : Import(n, b)
  /\ UNCHANGED <<votes, final, round, reverts>>

(* The blocks on which a longest chain that contains b may end. *)
BestContaining(n, b) ==
  LET above == known[n] \cap Descendants(b)
  IN  {c \in above : \A d \in above : number(d) <= number(c)}

Cast(cast, v, b) ==
  cast' = [cast EXCEPT ![round[v]] = @ \cup {[voter |-> v, block |-> b]}]

(* Mutant: the best chain, whether or not it contains the estimate. *)
CastPrevote_BestChain(v) ==
  /\ v \notin VotersOf(prevotes[round[v]])
  /\ \E b \in Chain(best[v]) : Cast(prevotes, v, b)
  /\ UNCHANGED <<chainVars, precommits, final, round, reverts>>

(* A voter prevotes on the longest chain that contains an estimate of the   *)
(* last round, its own or the one that the primary has broadcast; how far   *)
(* up, the voting rules say.  It does not vote while it lacks the block.    *)
CastPrevote(v) ==
  /\ v \notin VotersOf(prevotes[round[v]])
  /\ \E base \in Estimates(round[v] - 1) :
       \E leaf \in BestContaining(v, base) :
         \E b \in Chain(leaf) \cap Descendants(base) : Cast(prevotes, v, b)
  /\ UNCHANGED <<chainVars, precommits, final, round, reverts>>

(* It precommits to a ghost of the prevotes it has seen, which may be for   *)
(* blocks that a revert has removed since.                                 *)
CastPrecommit(v) ==
  /\ v \in VotersOf(prevotes[round[v]]) \ VotersOf(precommits[round[v]])
  /\ \E b \in Ghosts(round[v]) :
       /\ Estimates(round[v] - 1) \cap Chain(b) # {}
       /\ Cast(precommits, v, b)
  /\ UNCHANGED <<chainVars, prevotes, final, round, reverts>>

(* It has seen enough votes to leave the round, or is told of a later one.  *)
NextRound(v) ==
  /\ round[v] < MaxRound
  /\ Estimates(round[v]) # {}
  /\ round' = [round EXCEPT ![v] = @ + 1]
  /\ UNCHANGED <<chainVars, votes, final, reverts>>

(* A node that has seen a supermajority of precommits finalizes the block,  *)
(* and leaves a head that is not built on it.                              *)
Finalize(n) ==
  /\ \E b \in (Finalized \cap known[n] \cap Descendants(final[n])) \ {final[n]} :
       /\ final' = [final EXCEPT ![n] = b]
       /\ best' = [best EXCEPT ![n] = IF IsAncestor(b, @) THEN @ ELSE b]
  /\ UNCHANGED <<tree, known, votes, round, reverts>>

(* Mutant: past the finalized block. *)
Revert_PastFinality(n) ==
  /\ reverts < MaxReverts
  /\ \E b \in Chain(best[n]) \ {best[n]} :
       /\ best' = [best EXCEPT ![n] = b]
       /\ known' = [known EXCEPT ![n] = {c \in @ : number(c) <= number(b)}]
  /\ reverts' = reverts + 1
  /\ UNCHANGED <<tree, votes, final, round>>

(* The `revert` command takes the best chain some blocks back, at most to   *)
(* the finalized one, and removes what is higher.  GRANDPA's part of it     *)
(* undoes changes of the authorities, of which this runtime makes none.    *)
Revert(n) ==
  /\ reverts < MaxReverts
  /\ \E b \in (Chain(best[n]) \ {best[n]}) \cap Descendants(final[n]) :
       /\ best' = [best EXCEPT ![n] = b]
       /\ known' = [known EXCEPT ![n] = {c \in @ : number(c) <= number(b)}]
  /\ reverts' = reverts + 1
  /\ UNCHANGED <<tree, votes, final, round>>

(* Everybody has voted in every round up to the bound. *)
AllCast ==
  /\ VotersOf(precommits[MaxRound]) = Voter
  /\ UNCHANGED vars

Next ==
  \/ \E n \in Node : ImportBlock(n) \/ Finalize(n) \/ Revert(n)
  \/ \E v \in Voter : \/ Build(v)
                      \/ CastPrevote(v)
                      \/ CastPrecommit(v)
                      \/ NextRound(v)
  \/ AllCast

(* Blocks and commits reach every node in the end.  Nobody has to vote, nor *)
(* does anybody have to author blocks.                                     *)
Fairness == \A n \in Node : WF_vars(ImportBlock(n) \/ Finalize(n))

Spec == Init /\ [][Next]_vars /\ Fairness

-----------------------------------------------------------------------------
(* Properties.                                                             *)

(* Type invariant; a node knows whole chains, and its head. *)
GrandpaTypeOK ==
  /\ VotesTypeOK
  /\ known \in [Node -> SUBSET Block]
  /\ \A n \in Node : \A b \in known[n] : Chain(b) \subseteq known[n]
  /\ \A n \in Node : best[n] \in known[n]
  /\ final \in [Node -> Block]
  /\ round \in [Voter -> Round]
  /\ reverts \in 0..MaxReverts

(* A node never builds on, and never gives up by a revert, anything but the *)
(* chain of its finalized block: its head is always on that chain, also     *)
(* when finality chooses a fork that the node was not on.                   *)
HeadKeepsFinality ==
  \A n \in Node : final[n] \in known[n] /\ IsAncestor(final[n], best[n])

(* The blocks that any two nodes have finalized are in line, although each  *)
(* has seen votes, authored, imported and been reverted on its own: no node *)
(* ever has to be told that what it takes for final is not.                *)
NodesFinalizeOneChain == \A m, n \in Node : SameChain(final[m], final[n])

(* The nodes' votes are those of the abstract protocol, so that what they   *)
(* finalize agrees, although a node votes by the longest chain it has at    *)
(* the moment, which may have left the chain of an estimate, and a revert   *)
(* may have removed the blocks that its key has voted for.                  *)
VotesRefined == VotesSpec

(* What the votes have made final, every node finalizes: a node on another  *)
(* fork, one that lacks the block, one that is reverted, one without a key. *)
FinalityIsShared ==
  \A b \in 2..MaxBlocks :
    b \in Finalized ~> \A n \in Node : IsAncestor(b, final[n])
=============================================================================
