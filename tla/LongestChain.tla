----------------------------- MODULE LongestChain -----------------------------
(***************************************************************************)
(* What nodes promise about their heads when nothing is final: a node      *)
(* knows whole chains, and its head is its block of the greatest number,   *)
(* the first that it saw of those.  Aura implements it.                    *)
(***************************************************************************)
EXTENDS BlockTree

CONSTANT Node

VARIABLES
  known,  \* [Node -> blocks in the node's database]
  best    \* [Node -> head of the longest chain]

HeadsInit ==
  /\ TreeInit
  /\ known = [n \in Node |-> {Genesis}]
  /\ best = [n \in Node |-> Genesis]

(* A block enters a node's database, and becomes its head if it is higher. *)
AddBlock(n, b, height) ==
  /\ known' = [known EXCEPT ![n] = @ \cup {b}]
  /\ best'  = [best EXCEPT ![n] = IF height > number(@) THEN b ELSE @]

(* A node builds on a block that it knows.  It was the head when the node   *)
(* started to build, and need not be now.                                  *)
Author(n, p) ==
  /\ p \in known[n]
  /\ Grow(p)
  /\ AddBlock(n, Len(tree) + 1, number(p) + 1)

(* Mutant: a block is imported before its parent. *)
Import_Orphan(n, b) ==
  /\ b \notin known[n]
  /\ AddBlock(n, b, number(b))
  /\ UNCHANGED tree

(* A block arrives from another node, after its parent. *)
Import(n, b) ==
  /\ b \notin known[n]
  /\ parent(b) \in known[n]
  /\ AddBlock(n, b, number(b))
  /\ UNCHANGED tree

HeadsNext ==
  \E n \in Node : \/ \E p \in Block : Author(n, p)
                  \/ \E b \in Block \ {Genesis} : Import(n, b)

HeadsSpec == HeadsInit /\ [][HeadsNext]_<<tree, known, best>>
=============================================================================
