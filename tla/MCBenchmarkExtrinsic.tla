------------------------- MODULE MCBenchmarkExtrinsic -------------------------
(***************************************************************************)
(* Model checking of benchmark extrinsics with eras of four blocks: five   *)
(* hashes kept where the runtime keeps 2400.                               *)
(***************************************************************************)
EXTENDS BenchmarkExtrinsic

ASSUME PowersAssumption ==
  \A n \in 1..128 : IsPowerOfTwo(n) <=> \E k \in 0..7 : n = 2 ^ k
=============================================================================
