---------------------------- MODULE MCGrandpaVotes ----------------------------
(***************************************************************************)
(* Model checking of GRANDPA's votes: four voters, the fewest of which one *)
(* may be missing.                                                         *)
(***************************************************************************)
EXTENDS GrandpaVotes, TLC

Symmetry == Permutations(Voter)
=============================================================================
