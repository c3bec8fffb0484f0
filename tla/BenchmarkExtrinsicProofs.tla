----------------------- MODULE BenchmarkExtrinsicProofs -----------------------
(***************************************************************************)
(* A benchmark extrinsic is accepted all through its era and nowhere else, *)
(* for any number of block hashes kept and any forks: its era is shorter   *)
(* than what the runtime remembers, because the next power of two, halved, *)
(* is less than the number it started from.                                *)
(***************************************************************************)
EXTENDS BenchmarkExtrinsic, BlockTreeProofs

-----------------------------------------------------------------------------
(* Division with remainder.                                                *)

(* A product is added without changing the remainder. *)
LEMMA Remainder ==
  ASSUME NEW d \in Nat \ {0}, NEW t \in Nat
  PROVE  /\ t % d \in 0..(d - 1)
         /\ t \div d \in Nat
         /\ t = d * (t \div d) + (t % d)
  OBVIOUS

LEMMA RemainderUnique ==
  ASSUME NEW d \in Nat \ {0}, NEW q \in Nat, NEW r \in 0..(d - 1)
  PROVE  (d * q + r) % d = r
  OBVIOUS

(* A divisor of n divides it without remainder, and conversely. *)
LEMMA Divisor ==
  ASSUME NEW n \in Nat, NEW d \in Nat \ {0}
  PROVE  n % d = 0 <=> \E k \in Nat : n = d * k
<1>1. ASSUME n % d = 0 PROVE \E k \in Nat : n = d * k
  <2>1. n \div d \in Nat /\ n = d * (n \div d) + 0
    BY <1>1, Remainder
  <2> DEFINE k == n \div d
  <2>2. d * k \in Nat
    BY <2>1
  <2>3. n = d * k
    BY <2>1, <2>2
  <2>4. QED
    BY <2>1, <2>3
<1>2. ASSUME NEW k \in Nat, n = d * k PROVE n % d = 0
  <2>1. 0 \in 0..(d - 1)
    OBVIOUS
  <2>2. (d * k + 0) % d = 0
    BY <2>1, RemainderUnique
  <2>3. d * k + 0 = n
    BY <1>2
  <2>4. QED
    BY <2>2, <2>3
<1>3. QED
  BY <1>1, <1>2

-----------------------------------------------------------------------------
(* Powers of two.                                                          *)

(* An odd number that divides an even one divides its half. *)
LEMMA OddDivisor ==
  ASSUME NEW h \in Nat, NEW d \in Nat \ {0}, d % 2 = 1, (2 * h) % d = 0
  PROVE  h % d = 0
<1>1. PICK k \in Nat : 2 * h = d * k
  BY Divisor
<1>2. PICK e \in Nat : d = 2 * e + 1
  <2>1. d \div 2 \in Nat /\ d = 2 * (d \div 2) + 1
    OBVIOUS
  <2>2. QED
    BY <2>1
<1>3. d * k = 2 * (e * k) + k /\ e * k \in Nat
  BY <1>2
<1>4. PICK m \in Nat : m = e * k
  BY <1>3
<1>5. 2 * h = 2 * m + k
  BY <1>1, <1>3, <1>4
<1>6. h - m \in Nat /\ k = 2 * (h - m)
  BY <1>4, <1>5
<1>7. PICK j \in Nat : k = 2 * j
  BY <1>6
<1>8. 2 * h = 2 * (d * j) /\ d * j \in Nat
  BY <1>1, <1>7
<1>9. h = d * j
  BY <1>8
<1>10. QED
  BY <1>9, Divisor

LEMMA PowersDouble ==
  ASSUME NEW n \in Nat \ {0}, IsPowerOfTwo(n)
  PROVE  IsPowerOfTwo(2 * n)
<1>1. SUFFICES ASSUME NEW d \in 2..(2 * n), (2 * n) % d = 0, d % 2 # 0
               PROVE  FALSE
  BY DEF IsPowerOfTwo
<1>2. d \in Nat \ {0} /\ d % 2 = 1
  BY <1>1
<1>3. n % d = 0
  BY <1>1, <1>2, OddDivisor
<1>4. d <= n
  <2>1. PICK k \in Nat : n = d * k
    BY <1>2, <1>3, Divisor
  <2>2. k # 0
    BY <1>2, <2>1
  <2>3. PICK j \in Nat : k = j + 1
    <3>1. k - 1 \in Nat /\ k = (k - 1) + 1
      BY <2>2
    <3>2. QED
      BY <3>1
  <2>4. n = d * j + d /\ d * j \in Nat
    BY <1>2, <2>1, <2>3
  <2>5. QED
    BY <1>2, <2>4
<1>5. QED
  BY <1>1, <1>3, <1>4 DEF IsPowerOfTwo

LEMMA PowersHalve ==
  ASSUME NEW n \in Nat, n >= 2, IsPowerOfTwo(n)
  PROVE  /\ n \div 2 \in Nat /\ n = 2 * (n \div 2)
         /\ IsPowerOfTwo(n \div 2)
<1>1. n % n = 0
  <2>1. n = n * 1
    OBVIOUS
  <2>2. QED
    BY <2>1, Divisor
<1>2. n % 2 = 0
  BY <1>1 DEF IsPowerOfTwo
<1>3. PICK h \in Nat : n = 2 * h /\ n \div 2 = h
  <2>1. n \div 2 \in Nat /\ n = 2 * (n \div 2)
    BY <1>2
  <2>2. QED
    BY <2>1
<1>4. SUFFICES ASSUME NEW d \in 2..h, h % d = 0 PROVE d % 2 = 0
  BY <1>3 DEF IsPowerOfTwo
<1>5. PICK k \in Nat : h = d * k
  BY <1>4, Divisor
<1>6. n = d * (2 * k) /\ 2 * k \in Nat
  BY <1>3, <1>5
<1>7. n % d = 0
  BY <1>6, Divisor
<1>8. d \in 2..n
  BY <1>3
<1>9. QED
  BY <1>7, <1>8 DEF IsPowerOfTwo

(* The next power of two exists (the double of the last one before c), and  *)
(* its half is less than c.                                                *)
LEMMA NextPower ==
  ASSUME NEW c \in Nat, c >= 2
  PROVE  LET n == checked_next_power_of_two(c)
         IN  n \in Nat /\ n >= c /\ n \div 2 \in Nat /\ n \div 2 < c
<1> DEFINE Before == {n \in 1..(c - 1) : IsPowerOfTwo(n)}
           After  == {n \in c..(2 * c) : IsPowerOfTwo(n)}
<1>1. IsPowerOfTwo(1)
  BY DEF IsPowerOfTwo
<1>2. Before \in SUBSET Nat /\ 1 \in Before /\ \A n \in Before : n <= c
  BY <1>1
<1>3. PICK g \in Before : \A n \in Before : n <= g
  <2> HIDE DEF Before
  <2>1. Before # {}
    BY <1>2
  <2>2. QED
    BY <1>2, <2>1, GreatestNatural
<1>4. g \in 1..(c - 1) /\ IsPowerOfTwo(2 * g)
  BY PowersDouble
<1>5. 2 * g \in After
  <2>1. 2 * g \in Nat /\ 2 * g > g /\ 2 * g <= 2 * c
    BY <1>4
  <2>2. 2 * g \notin Before
    BY <1>3, <2>1
  <2>3. 2 * g >= c
    BY <1>4, <2>1, <2>2
  <2>4. QED
    BY <1>4, <2>1, <2>3
<1>6. PICK m \in After : \A n \in After : m <= n
  <2>1. After \in SUBSET Nat
    OBVIOUS
  <2> HIDE DEF After
  <2>2. QED
    BY <1>5, <2>1, SmallestNumber
<1>7. /\ m \in c..(2 * c) /\ IsPowerOfTwo(m)
      /\ \A n \in c..(m - 1) : ~ IsPowerOfTwo(n)
  <2>1. ASSUME NEW n \in c..(m - 1), IsPowerOfTwo(n) PROVE FALSE
    <3>1. n \in c..(2 * c) /\ n < m
      BY <1>6
    <3>2. n \in After
      BY <2>1, <3>1
    <3>3. QED
      BY <1>6, <3>1, <3>2
  <2>2. QED
    BY <1>6, <2>1
<1>8. PICK n \in c..(2 * c) :
        /\ n = checked_next_power_of_two(c)
        /\ IsPowerOfTwo(n)
        /\ \A k \in c..(n - 1) : ~ IsPowerOfTwo(k)
  BY <1>7 DEF checked_next_power_of_two
<1>9. PICK h \in Nat : h = n \div 2 /\ n = 2 * h /\ IsPowerOfTwo(h)
  BY <1>8, PowersHalve
<1>10. h < c
  <2>1. SUFFICES ASSUME h >= c PROVE FALSE
    BY <1>9
  <2>2. h \in c..(n - 1)
    BY <1>9, <2>1
  <2>3. QED
    BY <1>8, <1>9, <2>2
<1>11. QED
  BY <1>8, <1>9, <1>10

(* An era is of four blocks or of fewer than there are hashes kept. *)
LEMMA Periods ==
  /\ period \in Nat /\ period >= 4
  /\ period = 4 \/ period < BlockHashCount
<1>1. BlockHashCount \in Nat /\ BlockHashCount >= 2
  BY ClientAssumption
<1> DEFINE half == checked_next_power_of_two(BlockHashCount) \div 2
<1>2. half \in Nat /\ half < BlockHashCount
  BY <1>1, NextPower
<1>3. period = IF half < 4 THEN 4 ELSE half
  BY DEF period, mortal
<1> HIDE DEF half
<1>4. QED
  BY <1>2, <1>3

-----------------------------------------------------------------------------
(* Eras.                                                                   *)

(* From its number on, the era of an extrinsic starts there for a period,   *)
(* and later after it.                                                     *)
LEMMA Births ==
  ASSUME NEW e, e.number \in Nat, e.period \in Nat \ {0},
         NEW n \in Nat, n >= e.number
  PROVE  /\ birth(e, n) \in Nat /\ birth(e, n) >= e.number
         /\ birth(e, n) = e.number <=> n - e.number < e.period
<1>1. PICK b \in Nat, d \in Nat \ {0} : b = e.number /\ d = e.period
  OBVIOUS
<1>2. PICK ph \in 0..(d - 1), q \in Nat : ph = b % d /\ b = d * q + ph
  BY Remainder
<1>3. PICK r \in 0..(d - 1), k \in Nat : r = (n - b) % d /\ n - b = d * k + r
  <2>1. PICK t \in Nat : t = n - b
    BY <1>1
  <2>2. t % d \in 0..(d - 1) /\ t \div d \in Nat /\ t = d * (t \div d) + (t % d)
    BY Remainder
  <2>3. PICK r \in 0..(d - 1), k \in Nat : r = t % d /\ t = d * k + r
    BY <2>2
  <2>4. QED
    BY <2>1, <2>3
<1>4. PICK x \in Nat, y \in Nat :
        x = d * q /\ y = d * k /\ q + k \in Nat /\ d * (q + k) = x + y
  <2>1. /\ d * q \in Nat /\ d * k \in Nat /\ q + k \in Nat
        /\ d * (q + k) = d * q + d * k
    OBVIOUS
  <2>2. QED
    BY <2>1
<1>5. (n - ph) % d = r
  <2>1. b = x + ph /\ n - b = y + r
    BY <1>2, <1>3, <1>4
  <2>2. n - ph = x + y + r
    <3>1. ph \in Nat /\ r \in Nat
      OBVIOUS
    <3>2. QED
      BY <2>1, <3>1
  <2>3. (d * (q + k) + r) % d = r
    BY <1>4, RemainderUnique
  <2>4. QED
    BY <1>4, <2>2, <2>3
<1>6. n >= ph
  BY <1>1, <1>2, <1>4
<1>7. birth(e, n) = n - r
  BY <1>1, <1>2, <1>5, <1>6 DEF birth
<1>8. r <= n - b /\ n - b \in Nat /\ r \in Nat /\ r < d
  BY <1>1, <1>3, <1>4
<1>9. n - b < d => r = n - b
  <2>1. ASSUME n - b < d PROVE r = n - b
    <3>1. n - b \in 0..(d - 1) /\ d * 0 + (n - b) = n - b
      BY <1>1, <2>1
    <3>2. (n - b) % d = n - b
      BY <3>1, RemainderUnique
    <3>3. QED
      BY <1>3, <3>2
  <2>2. QED
    BY <2>1
<1>10. /\ n - r \in Nat /\ n - r >= b
       /\ n - r = b <=> n - b < d
  <2>1. r = n - b => n - b < d
    BY <1>8
  <2>2. n - r = b <=> r = n - b
    BY <1>1, <1>8
  <2>3. n - r \in Nat /\ n - r >= b
    BY <1>1, <1>8
  <2>4. QED
    BY <1>9, <2>1, <2>2, <2>3
<1>11. QED
  BY <1>1, <1>7, <1>10

(* The era of which a block is starts less than a period before it; where   *)
(* there is none yet, birth is a block still to come.                       *)
LEMMA BirthsAreRecent ==
  ASSUME NEW e, e.number \in Nat, e.period \in Nat \ {0}, NEW n \in Nat
  PROVE  /\ birth(e, n) \in Nat
         /\ birth(e, n) > n \/ (birth(e, n) <= n /\ n - birth(e, n) < e.period)
<1>1. PICK d \in Nat \ {0}, ph \in Nat : d = e.period /\ ph = e.number % d /\ ph < d
  <2>1. e.number % e.period \in 0..(e.period - 1)
    BY Remainder
  <2>2. QED
    BY <2>1
<1>2. PICK last \in Nat, t \in Nat :
        last = (IF n < ph THEN ph ELSE n) /\ t = last - ph
  <2>1. (IF n < ph THEN ph ELSE n) \in Nat /\ (IF n < ph THEN ph ELSE n) - ph \in Nat
    OBVIOUS
  <2>2. QED
    BY <2>1
<1>3. PICK r \in 0..(d - 1) : r = t % d /\ r <= t
  <2>1. t % d \in 0..(d - 1) /\ t \div d \in Nat /\ t = d * (t \div d) + (t % d)
    BY Remainder
  <2>2. PICK x \in Nat : x = d * (t \div d)
    BY <2>1
  <2>3. QED
    BY <2>1, <2>2
<1>4. birth(e, n) = last - r
  BY <1>1, <1>2, <1>3 DEF birth
<1>5. CASE n < ph
  <2>1. t = 0 /\ r = 0 /\ last = ph
    BY <1>2, <1>3, <1>5
  <2>2. QED
    BY <1>4, <1>5, <2>1
<1>6. CASE ~ (n < ph)
  <2>1. last = n /\ r <= n /\ r < d /\ r \in Nat
    BY <1>2, <1>3, <1>6
  <2>2. n - r \in Nat /\ n - r <= n /\ n - (n - r) < d
    BY <2>1
  <2>3. QED
    BY <1>1, <1>4, <2>1, <2>2
<1>7. QED
  BY <1>5, <1>6

-----------------------------------------------------------------------------
(* The invariant.                                                          *)

(* The head that was read is no higher than the head now... *)
HeadInv ==
  /\ TreeTypeOK
  /\ known \in [Node -> SUBSET Block]
  /\ best \in [Node -> Block]
  /\ best_hash # 0 => best_hash \in Block /\ number(best_hash) <= number(best[client])

(* ... so the number in the era is not less than that of the block signed. *)
ExtrinsicInv ==
  extrinsic # NoExtrinsic =>
    /\ extrinsic.signs \in Block
    /\ extrinsic.number \in Nat
    /\ extrinsic.period = period
    /\ number(extrinsic.signs) <= extrinsic.number

BuilderInv == HeadInv /\ ExtrinsicInv

LEMMA BuilderInitially == Init => BuilderInv
<1> SUFFICES ASSUME Init PROVE BuilderInv
  OBVIOUS
<1>1. TreeTypeOK
  BY TreeStarts DEF Init, HeadsInit
<1>2. Genesis \in Block
  BY <1>1, Blocks
<1>3. QED
  BY <1>1, <1>2 DEF Init, HeadsInit, BuilderInv, HeadInv, ExtrinsicInv

(* An import leaves blocks and their numbers alone, and never lowers the    *)
(* head.                                                                   *)
LEMMA BuilderImports ==
  ASSUME BuilderInv, ImportAny
  PROVE  BuilderInv'
<1>1. PICK p \in Block : Author(client, p)
  BY DEF ImportAny
<1>2. HeadInv /\ ExtrinsicInv /\ TreeTypeOK /\ client \in Node
  BY ClientAssumption DEF BuilderInv, HeadInv
<1>3. PICK n : /\ n = Len(tree) + 1 /\ n \notin Block
               /\ Block' = Block \cup {n} /\ number(n)' = number(p) + 1
  BY <1>1, <1>2, TreeGrows DEF Author
<1>4. TreeTypeOK' /\ \A b \in Block : number(b)' = number(b)
  BY <1>1, <1>2, TreeGrows DEF Author
<1>5. /\ known' = [known EXCEPT ![client] = @ \cup {n}]
      /\ best'  = [best EXCEPT ![client] = IF number(p) + 1 > number(@) THEN n ELSE @]
      /\ UNCHANGED <<best_hash, extrinsic>>
  BY <1>1, <1>3 DEF Author, AddBlock, ImportAny
<1>6. \A b \in Block : number(b) \in Nat
  BY <1>2, Blocks
<1>7. PICK old \in Block, new \in Block' : old = best[client] /\ new = best'[client]
  BY <1>2, <1>3, <1>5 DEF HeadInv
<1>8. number(new)' \in Nat /\ number(new)' >= number(old)
  <2>1. CASE number(p) + 1 > number(old)
    BY <1>2, <1>3, <1>5, <1>6, <1>7, <2>1 DEF HeadInv
  <2>2. CASE ~ (number(p) + 1 > number(old))
    BY <1>2, <1>4, <1>5, <1>6, <1>7, <2>2 DEF HeadInv
  <2>3. QED
    BY <2>1, <2>2
<1>9. HeadInv'
  <2>1. known' \in [Node -> SUBSET Block'] /\ best' \in [Node -> Block']
    BY <1>2, <1>3, <1>5 DEF HeadInv
  <2>2. ASSUME best_hash # 0
        PROVE  best_hash \in Block' /\ number(best_hash)' <= number(new)'
    <3>1. PICK h \in Block : h = best_hash /\ number(h) <= number(old)
      BY <1>2, <1>7, <2>2 DEF HeadInv
    <3>2. number(h)' <= number(new)'
      <4>1. number(h)' = number(h) /\ number(h) \in Nat /\ number(old) \in Nat
        BY <1>4, <1>6
      <4>2. QED
        BY <1>8, <3>1, <4>1
    <3>3. number(best_hash)' = number(h)'
      BY <1>5, <3>1 DEF number
    <3>4. QED
      BY <1>3, <3>1, <3>2, <3>3
  <2>3. number(best[client])' = number(new)'
    BY <1>7 DEF number
  <2>4. QED
    BY <1>4, <1>5, <2>1, <2>2, <2>3 DEF HeadInv
<1>10. ExtrinsicInv'
  <2>1. SUFFICES ASSUME extrinsic # NoExtrinsic
                 PROVE  /\ extrinsic.signs \in Block'
                        /\ extrinsic.number \in Nat
                        /\ extrinsic.period = period
                        /\ number(extrinsic.signs)' <= extrinsic.number
    BY <1>5 DEF ExtrinsicInv
  <2>2. PICK h \in Block : h = extrinsic.signs /\ number(h) <= extrinsic.number
    BY <1>2, <2>1 DEF ExtrinsicInv
  <2>3. number(extrinsic.signs)' = number(h)'
    BY <1>5, <2>2 DEF number
  <2>4. QED
    BY <1>2, <1>3, <1>4, <2>1, <2>2, <2>3 DEF ExtrinsicInv
<1>11. QED
  BY <1>9, <1>10 DEF BuilderInv

THEOREM BuilderInvariant == Spec => []BuilderInv
<1>1. BuilderInv /\ [Next]_vars => BuilderInv'
  <2>1. SUFFICES ASSUME BuilderInv, [Next]_vars PROVE BuilderInv'
    OBVIOUS
  <2>2. client \in Node
    BY ClientAssumption
  <2>3. CASE ImportAny
    BY <2>1, <2>3, BuilderImports
  <2>4. CASE read_best_hash
    <3>1. \A b \in Block : number(b) \in Nat
      BY <2>1, Blocks DEF BuilderInv, HeadInv
    <3>2. best[client] \in Block
      BY <2>1, <2>2 DEF BuilderInv, HeadInv
    <3>3. best_hash' \in Block /\ number(best_hash)' = number(best[client])
          /\ number(best[client])' = number(best[client])
      BY <2>4, <3>2 DEF read_best_hash, number
    <3>4. HeadInv'
      <4>1. TreeTypeOK' /\ Block' = Block /\ UNCHANGED <<known, best>>
        BY <2>1, <2>4
        DEF BuilderInv, HeadInv, read_best_hash, TreeTypeOK, Block, number, parent
      <4>2. number(best_hash)' <= number(best[client])'
        BY <3>1, <3>2, <3>3
      <4>3. QED
        BY <2>1, <3>3, <4>1, <4>2 DEF BuilderInv, HeadInv
    <3>5. ExtrinsicInv'
      BY <2>1, <2>4 DEF BuilderInv, ExtrinsicInv, read_best_hash, Block, number
    <3>6. QED
      BY <3>4, <3>5 DEF BuilderInv
  <2>5. CASE create_benchmark_extrinsic
    <3>1. HeadInv'
      BY <2>1, <2>5
      DEF BuilderInv, HeadInv, create_benchmark_extrinsic, TreeTypeOK, Block, number, parent
    <3>2. /\ extrinsic' = [signs |-> best_hash, number |-> number(best[client]),
                           period |-> period]
          /\ best_hash # 0 /\ UNCHANGED tree
      BY <2>5 DEF create_benchmark_extrinsic
    <3>3. /\ best_hash \in Block /\ number(best_hash) <= number(best[client])
          /\ number(best[client]) \in Nat
      <4>1. best[client] \in Block
        BY <2>1, <2>2 DEF BuilderInv, HeadInv
      <4>2. QED
        BY <2>1, <3>2, <4>1, Blocks DEF BuilderInv, HeadInv
    <3>4. ExtrinsicInv'
      BY <3>2, <3>3 DEF ExtrinsicInv, Block, number
    <3>5. QED
      BY <3>1, <3>4 DEF BuilderInv
  <2>6. CASE build
    BY <2>1, <2>6
    DEF BuilderInv, HeadInv, ExtrinsicInv, build, TreeTypeOK, Block, number, parent
  <2>7. CASE UNCHANGED vars
    BY <2>1, <2>7
    DEF BuilderInv, HeadInv, ExtrinsicInv, vars, TreeTypeOK, Block, number, parent
  <2>8. QED
    BY <2>1, <2>3, <2>4, <2>5, <2>6, <2>7 DEF Next
<1>2. QED
  BY BuilderInitially, <1>1, PTL DEF Spec

(* In every block of its era that is built on the head that was signed, the *)
(* runtime still has the hash: CheckEra and the signature accept.          *)
THEOREM ExtrinsicsAreValidForTheirEra == Spec => []ValidForItsEra
<1>1. BuilderInv => ValidForItsEra
  <2>1. SUFFICES ASSUME BuilderInv, extrinsic # NoExtrinsic,
                        extrinsic.number = number(extrinsic.signs),
                        NEW p \in Descendants(extrinsic.signs),
                        number(p) + 1 - extrinsic.number < extrinsic.period
                 PROVE  Accepts(extrinsic, p)
    BY DEF ValidForItsEra
  <2>2. PICK h \in Block : h = extrinsic.signs
    BY <2>1 DEF BuilderInv, ExtrinsicInv
  <2>3. TreeTypeOK /\ p \in Block /\ h \in Chain(p)
    BY <2>1, <2>2 DEF BuilderInv, HeadInv, Descendants, IsAncestor
  <2>4. number(h) \in Nat /\ number(p) \in Nat /\ number(h) <= number(p)
    <3>1. number(h) \in Nat /\ number(p) \in Nat
      BY <2>3, Blocks
    <3>2. h = p \/ number(h) < number(p)
      BY <2>3, ChainsRun DEF ChainRuns
    <3>3. QED
      BY <3>1, <3>2
  <2>5. PICK n \in Nat : n = number(p) + 1
    BY <2>4
  <2>6. extrinsic.number = number(h) /\ extrinsic.period = period
    BY <2>1, <2>2 DEF BuilderInv, ExtrinsicInv
  <2>7. birth(extrinsic, n) = number(h)
    <3>1. n >= extrinsic.number /\ n - extrinsic.number < extrinsic.period
      BY <2>1, <2>4, <2>5, <2>6
    <3>2. extrinsic.number \in Nat /\ extrinsic.period \in Nat \ {0}
      BY <2>4, <2>6, Periods
    <3>3. QED
      BY <2>5, <2>6, <3>1, <3>2, Births
  <2>8. number(h) \in KeptHashes(n)
    <3>1. BlockHashCount \in Nat /\ BlockHashCount >= 2
      BY ClientAssumption
    <3>2. n - number(h) < period
      <4>1. number(p) + 1 - extrinsic.number < extrinsic.period
        BY <2>1
      <4>2. number(p) + 1 - number(h) < period
        BY <2>6, <4>1
      <4>3. QED
        BY <2>4, <2>5, <4>2, Periods
    <3>3. n - number(h) <= BlockHashCount + 1
      BY <2>4, <2>5, <3>1, <3>2, Periods
    <3>4. QED
      BY <2>4, <2>5, <3>1, <3>3 DEF KeptHashes
  <2>9. QED
    BY <2>2, <2>3, <2>5, <2>7, <2>8 DEF Accepts
<1>2. QED
  BY <1>1, BuilderInvariant, PTL

(* Whatever block accepts an extrinsic is built on the head that was signed *)
(* and less than BlockHashCount blocks above it; and if hash and number     *)
(* were read of two heads, it is lower than the number.  (Of two hashes,    *)
(* the least that BlockHashCount may be, an era of four blocks is too long.) *)
THEOREM ExtrinsicsAreBoundToTheirHead ==
  ASSUME BlockHashCount > 2
  PROVE  Spec => []BoundToItsHead
<1>1. BuilderInv => BoundToItsHead
  <2>1. SUFFICES ASSUME BuilderInv, extrinsic # NoExtrinsic, NEW p \in Block,
                        Accepts(extrinsic, p)
                 PROVE  /\ IsAncestor(extrinsic.signs, p)
                        /\ number(p) - number(extrinsic.signs) < BlockHashCount
                        /\ \/ extrinsic.number = number(extrinsic.signs)
                           \/ number(p) + 1 < extrinsic.number
    BY DEF BoundToItsHead
  <2>2. PICK h \in Block : h = extrinsic.signs
    BY <2>1 DEF BuilderInv, ExtrinsicInv
  <2>3. PICK m \in Nat, n \in Nat : m = number(h) /\ n = number(p) + 1 /\ number(p) = n - 1
    <3>1. number(h) \in Nat /\ number(p) \in Nat
      BY <2>1, Blocks DEF BuilderInv, HeadInv
    <3>2. QED
      BY <3>1
  <2>4. /\ extrinsic.number \in Nat /\ extrinsic.period = period
        /\ period \in Nat \ {0} /\ m <= extrinsic.number
    BY <2>1, <2>2, <2>3, Periods DEF BuilderInv, ExtrinsicInv
  <2>5. /\ h \in Chain(p) /\ birth(extrinsic, n) = m
        /\ m \in KeptHashes(n)
    BY <2>1, <2>2, <2>3 DEF Accepts
  <2>6. m < n
    BY <2>3, <2>5 DEF KeptHashes
  <2>7. n - m < period
    BY <2>4, <2>5, <2>6, BirthsAreRecent
  <2>8. (n - 1) - m < BlockHashCount
    <3>1. BlockHashCount \in Nat
      BY ClientAssumption
    <3>2. QED
      BY <2>7, <3>1, Periods
  <2>9. n < extrinsic.number \/ extrinsic.number = m
    <3>1. SUFFICES ASSUME n >= extrinsic.number PROVE extrinsic.number = m
      BY <2>4
    <3>2. birth(extrinsic, n) >= extrinsic.number
      BY <2>4, <3>1, Births
    <3>3. QED
      BY <2>4, <2>5, <3>2
  <2>10. QED
    BY <2>2, <2>3, <2>5, <2>8, <2>9 DEF IsAncestor
<1>2. QED
  BY <1>1, BuilderInvariant, PTL
=============================================================================
