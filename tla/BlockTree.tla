------------------------------ MODULE BlockTree ------------------------------
(***************************************************************************)
(* The tree of all blocks ever authored.  A block is named by its index:   *)
(* genesis is 1 and a block comes after its parent.                        *)
(***************************************************************************)
EXTENDS Integers, Sequences, FiniteSets

CONSTANT MaxBlocks  \* bound: blocks authored, genesis included

ASSUME MaxBlocksAssumption == MaxBlocks \in Nat \ {0}

VARIABLE tree  \* sequence of blocks: each has its parent and its number

Genesis == 1
Block   == 1..Len(tree)

number(b) == tree[b].number
parent(b) == tree[b].parent

(* The blocks from genesis to b. *)
Chain(b) ==
  LET chain[c \in Block] == IF c = Genesis THEN {c} ELSE {c} \cup chain[parent(c)]
  IN  chain[b]

(* a is on the chain of b, as it is when they are equal. *)
IsAncestor(a, b) == a \in Chain(b)

Descendants(a) == {b \in Block : IsAncestor(a, b)}
Children(b)    == {c \in Block \ {Genesis} : parent(c) = b}

(* One of the blocks is on the chain of the other. *)
SameChain(a, b) == IsAncestor(a, b) \/ IsAncestor(b, a)

TreeInit == tree = <<[parent |-> 0, number |-> 0]>>

Child(b) == [parent |-> b, number |-> number(b) + 1]

Grow(b) ==
  /\ Len(tree) < MaxBlocks
  /\ tree' = Append(tree, Child(b))

TreeTypeOK ==
  /\ tree \in Seq([parent : Nat, number : Nat])
  /\ Len(tree) \in 1..MaxBlocks
  /\ tree[Genesis] = [parent |-> 0, number |-> 0]
  /\ \A b \in Block \ {Genesis} : parent(b) \in 1..(b - 1) /\ number(b) = number(parent(b)) + 1
=============================================================================
