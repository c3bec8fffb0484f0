-------------------------- MODULE BenchmarkExtrinsic --------------------------
(***************************************************************************)
(* The extrinsics signed for benchmarks (node/src/benchmarking.rs): mortal,*)
(* with an era that starts at the client's best block.  The hash and the   *)
(* number of that block come from two calls of chain_info(), between which *)
(* the client may import blocks.                                           *)
(***************************************************************************)
EXTENDS LongestChain

CONSTANTS
  client,         \* the node whose client the builders hold
  BlockHashCount  \* block hashes that the runtime keeps

ASSUME ClientAssumption == Node = {client} /\ BlockHashCount \in Nat \ {0, 1}

VARIABLES
  best_hash,  \* the block whose hash has been read, 0 before
  extrinsic   \* the extrinsic made, or NoExtrinsic

vars == <<tree, known, best, best_hash, extrinsic>>

NoExtrinsic == [signs |-> 0, number |-> 0, period |-> 0]

-----------------------------------------------------------------------------
(* Eras.                                                                   *)

(* A power of two has no odd divisor but 1. *)
IsPowerOfTwo(n) == \A d \in 2..n : n % d = 0 => d % 2 = 0

checked_next_power_of_two(c) ==
  CHOOSE n \in c..(2 * c) : /\ IsPowerOfTwo(n)
                           /\ \A m \in c..(n - 1) : ~ IsPowerOfTwo(m)

(* Era::mortal: at least four blocks.  (And at most 2^16: BlockHashCount is *)
(* far from that.)                                                         *)
mortal(period) == IF period < 4 THEN 4 ELSE period

(* Mutant: the next power of two itself. *)
period_Whole == mortal(checked_next_power_of_two(BlockHashCount))

period == mortal(checked_next_power_of_two(BlockHashCount) \div 2)

(* The number of the block that the era of e starts from, in block n. *)
birth(e, n) ==
  LET phase == e.number % e.period
      last  == IF n < phase THEN phase ELSE n
  IN  last - ((last - phase) % e.period)

(* The numbers whose block hash the runtime has when it executes block n:   *)
(* it never removes the one of genesis.                                    *)
KeptHashes(n) == {m \in 0..(n - 1) : m = 0 \/ m >= n - BlockHashCount - 1}

(* CheckEra and the signature accept e in a block built on p. *)
Accepts(e, p) ==
  LET n == number(p) + 1 IN
  /\ birth(e, n) \in KeptHashes(n)
  /\ \E b \in Chain(p) : number(b) = birth(e, n) /\ b = e.signs

-----------------------------------------------------------------------------

Init ==
  /\ HeadsInit
  /\ best_hash = 0
  /\ extrinsic = NoExtrinsic

(* The client imports a block, on its best chain or on any fork. *)
ImportAny ==
  /\ \E p \in Block : Author(client, p)
  /\ UNCHANGED <<best_hash, extrinsic>>

read_best_hash ==
  /\ best_hash = 0
  /\ best_hash' = best[client]
  /\ UNCHANGED <<tree, known, best, extrinsic>>

(* Mutant: the number is read first, and the hash now. *)
create_benchmark_extrinsic_Swapped ==
  /\ best_hash # 0
  /\ extrinsic = NoExtrinsic
  /\ extrinsic' = [signs |-> best[client], number |-> number(best_hash), period |-> period]
  /\ UNCHANGED <<tree, known, best, best_hash>>

(* The number is read now, and the extrinsic is signed. *)
create_benchmark_extrinsic ==
  /\ best_hash # 0
  /\ extrinsic = NoExtrinsic
  /\ extrinsic' = [signs |-> best_hash, number |-> number(best[client]), period |-> period]
  /\ UNCHANGED <<tree, known, best, best_hash>>

(* The builder is asked for another extrinsic. *)
build ==
  /\ extrinsic # NoExtrinsic
  /\ best_hash' = 0
  /\ extrinsic' = NoExtrinsic
  /\ UNCHANGED <<tree, known, best>>

Next == ImportAny \/ read_best_hash \/ create_benchmark_extrinsic \/ build

Spec == Init /\ [][Next]_vars

-----------------------------------------------------------------------------
(* Properties.                                                             *)

(* An extrinsic made while the head stood still is accepted in any block of *)
(* its era built on that head: never refused because the runtime has        *)
(* already dropped the hash that it signs, also when the head is genesis.   *)
ValidForItsEra ==
  extrinsic # NoExtrinsic /\ extrinsic.number = number(extrinsic.signs) =>
    \A p \in Descendants(extrinsic.signs) :
      number(p) + 1 - extrinsic.number < extrinsic.period => Accepts(extrinsic, p)

(* An extrinsic is accepted only by blocks built on the head whose hash it  *)
(* signs, and for no more of them than the runtime remembers.  One whose    *)
(* hash and number were read of two heads is refused by every block that    *)
(* reaches the number: what may still accept it is a lower block, on the    *)
(* head that was signed or on a fork from there.                            *)
BoundToItsHead ==
  extrinsic # NoExtrinsic =>
    \A p \in Block :
      Accepts(extrinsic, p) =>
        /\ IsAncestor(extrinsic.signs, p)
        /\ number(p) - number(extrinsic.signs) < BlockHashCount
        /\ \/ extrinsic.number = number(extrinsic.signs)
           \/ number(p) + 1 < extrinsic.number
=============================================================================
