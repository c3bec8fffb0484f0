--------------------------- MODULE BlockTreeProofs ---------------------------
(***************************************************************************)
(* Chains of the block tree: that they are what their definition by        *)
(* recursion says, that being on a chain is a partial order in which the   *)
(* blocks below one block are in line, and that a tree that grows keeps    *)
(* the chains it has.                                                      *)
(*                                                                         *)
(* A block comes after its parent, so that a statement about blocks is     *)
(* proved by looking at the first block for which it would fail.           *)
(***************************************************************************)
EXTENDS BlockTree, WellFoundedInduction, SequenceTheorems, TLAPS

(* A set of numbers has a smallest one... *)
LEMMA SmallestNumber ==
  ASSUME NEW S \in SUBSET Nat, S # {}
  PROVE  \E m \in S : \A s \in S : m <= s
<1>1. \E m \in S : \A s \in S : <<s, m>> \notin OpToRel(<, Nat)
  BY NatLessThanWellFounded, WFMin, Zenon
<1>2. \A s, m \in Nat : <<s, m>> \notin OpToRel(<, Nat) => m <= s
  BY DEF OpToRel
<1>3. \A s \in S : s \in Nat
  OBVIOUS
<1>4. QED
  BY <1>1, <1>2, <1>3, Zenon

(* ... and if it is bounded, a greatest one. *)
LEMMA GreatestNatural ==
  ASSUME NEW S \in SUBSET Nat, S # {}, NEW bound \in Nat, \A s \in S : s <= bound
  PROVE  \E m \in S : \A s \in S : s <= m
<1> DEFINE D == {d \in 0..bound : bound - d \in S}
<1>1. PICK s \in S : TRUE
  OBVIOUS
<1>2. bound - s \in 0..bound /\ bound - (bound - s) = s
  BY <1>1
<1>3. D \in SUBSET Nat /\ D # {}
  BY <1>1, <1>2
<1>4. PICK d \in D : \A e \in D : d <= e
  BY <1>3, SmallestNumber
<1>5. bound - d \in S
  OBVIOUS
<1>6. ASSUME NEW t \in S
      PROVE  t <= bound - d
  <2>1. bound - t \in 0..bound /\ bound - (bound - t) = t
    OBVIOUS
  <2>2. bound - t \in D
    BY <2>1
  <2>3. d <= bound - t
    BY <1>4, <2>2
  <2>4. d \in 0..bound /\ t \in Nat
    OBVIOUS
  <2> HIDE DEF D
  <2>5. QED
    BY <2>3, <2>4
<1>7. QED
  BY <1>5, <1>6

(* Blocks, their parents and their numbers, from the type invariant. *)
LEMMA Blocks ==
  TreeTypeOK =>
    /\ Len(tree) \in Nat /\ Len(tree) >= 1
    /\ Genesis \in Block
    /\ number(Genesis) = 0
    /\ \A b \in Block :
         /\ b \in Nat /\ b >= 1 /\ b <= Len(tree)
         /\ number(b) \in Nat
         /\ b # Genesis => /\ parent(b) \in Block
                           /\ parent(b) < b
                           /\ number(b) = number(parent(b)) + 1
<1> SUFFICES ASSUME TreeTypeOK
             PROVE  /\ Len(tree) \in Nat /\ Len(tree) >= 1
                    /\ Genesis \in Block
                    /\ number(Genesis) = 0
                    /\ \A b \in Block :
                         /\ b \in Nat /\ b >= 1 /\ b <= Len(tree)
                         /\ number(b) \in Nat
                         /\ b # Genesis => /\ parent(b) \in Block
                                           /\ parent(b) < b
                                           /\ number(b) = number(parent(b)) + 1
  OBVIOUS
<1>1. /\ tree \in Seq([parent : Nat, number : Nat])
      /\ Len(tree) \in 1..MaxBlocks
      /\ tree[Genesis] = [parent |-> 0, number |-> 0]
      /\ \A b \in Block \ {Genesis} : parent(b) \in 1..(b - 1) /\ number(b) = number(parent(b)) + 1
  BY DEF TreeTypeOK
<1>2. Len(tree) \in Nat /\ Len(tree) >= 1
  BY <1>1
<1>3. Genesis \in Block /\ number(Genesis) = 0
  BY <1>1, <1>2 DEF Genesis, Block, number
<1>4. ASSUME NEW b \in Block
      PROVE  /\ b \in Nat /\ b >= 1 /\ b <= Len(tree)
             /\ number(b) \in Nat
             /\ b # Genesis => parent(b) \in Block /\ parent(b) < b
  <2>1. b \in Nat /\ b >= 1 /\ b <= Len(tree)
    BY <1>2 DEF Block
  <2>2. tree[b] \in [parent : Nat, number : Nat]
    <3>1. \A i \in 1..Len(tree) : tree[i] \in [parent : Nat, number : Nat]
      BY <1>1, ElementOfSeq
    <3>2. QED
      BY <3>1 DEF Block
  <2>3. number(b) \in Nat
    BY <2>2 DEF number
  <2>4. b # Genesis => parent(b) \in 1..(b - 1)
    BY <1>1
  <2>5. b # Genesis => parent(b) \in Block /\ parent(b) < b
    BY <1>2, <2>1, <2>4 DEF Block
  <2>6. QED
    BY <2>1, <2>3, <2>5
<1>5. QED
  BY <1>1, <1>2, <1>3, <1>4

-----------------------------------------------------------------------------
(* The recursion.                                                          *)

(* f gives the chains of the blocks up to n. *)
ChainsUpTo(f, n) ==
  f = [c \in 1..n |-> IF c = Genesis THEN {c} ELSE {c} \cup f[parent(c)]]

LEMMA ChainsStep ==
  ASSUME NEW f, NEW n, ChainsUpTo(f, n)
  PROVE  \A c \in 1..n : f[c] = IF c = Genesis THEN {c} ELSE {c} \cup f[parent(c)]
<1>1. f = [c \in 1..n |-> IF c = Genesis THEN {c} ELSE {c} \cup f[parent(c)]]
  BY DEF ChainsUpTo
<1>2. ASSUME NEW b \in 1..n
      PROVE  f[b] = IF b = Genesis THEN {b} ELSE {b} \cup f[parent(b)]
  BY <1>1, Zenon
<1>3. QED
  BY <1>2

LEMMA ChainsExist ==
  ASSUME TreeTypeOK
  PROVE  \E f : ChainsUpTo(f, Len(tree))
<1> DEFINE without == {n \in 0..Len(tree) : ~ \E f : ChainsUpTo(f, n)}
<1>0. /\ Len(tree) \in Nat
      /\ \A b \in Block : b # Genesis => parent(b) \in Nat /\ parent(b) >= 1 /\ parent(b) < b
  BY Blocks
<1>1. SUFFICES ASSUME without # {} PROVE FALSE
  BY <1>0
<1>2. PICK n \in without : \A m \in without : n <= m
  <2>1. without \in SUBSET Nat
    BY <1>0
  <2> HIDE DEF without
  <2>2. QED
    BY <1>1, <2>1, SmallestNumber
<1>3. n \in 0..Len(tree) /\ ~ \E f : ChainsUpTo(f, n)
  OBVIOUS
<1>4. n # 0
  <2>1. 1..0 = {}
    OBVIOUS
  <2>2. ChainsUpTo([c \in {} |-> {}], 0)
    BY <2>1 DEF ChainsUpTo
  <2>3. QED
    BY <1>3, <2>2
<1>5. n - 1 \in 0..Len(tree) /\ n \in Nat
  BY <1>0, <1>3, <1>4
<1>6. n - 1 \notin without
  BY <1>2, <1>5
<1>7. PICK f : ChainsUpTo(f, n - 1)
  BY <1>5, <1>6
<1> DEFINE g == [c \in 1..n |-> IF c = n /\ c # Genesis THEN {c} \cup f[parent(c)]
                                ELSE IF c = n THEN {c} ELSE f[c]]
<1>8. \A c \in 1..(n - 1) : g[c] = f[c] /\ c \in 1..n
  BY <1>0, <1>5
<1>9. ASSUME NEW c \in 1..n
      PROVE  g[c] = IF c = Genesis THEN {c} ELSE {c} \cup g[parent(c)]
  <2>1. c \in Block
    BY <1>0, <1>3 DEF Block
  <2>2. c # Genesis => parent(c) \in 1..(n - 1) /\ g[parent(c)] = f[parent(c)]
    <3>1. c # Genesis => parent(c) \in 1..(n - 1)
      BY <1>0, <1>5, <2>1
    <3>2. QED
      BY <1>8, <3>1
  <2>3. CASE c = n
    <3>1. g[c] = IF c # Genesis THEN {c} \cup f[parent(c)] ELSE {c}
      BY <2>3
    <3> HIDE DEF g
    <3>2. QED
      BY <2>2, <3>1
  <2>4. CASE c # n
    <3>1. c \in 1..(n - 1)
      BY <1>5, <2>4
    <3>2. g[c] = f[c]
      BY <1>8, <3>1
    <3>3. f[c] = IF c = Genesis THEN {c} ELSE {c} \cup f[parent(c)]
      BY <1>7, <3>1, ChainsStep
    <3> HIDE DEF g
    <3>4. QED
      BY <2>2, <3>2, <3>3
  <2>5. QED
    BY <2>3, <2>4
<1>10. ChainsUpTo(g, n)
  <2>1. g = [c \in 1..n |-> g[c]]
    OBVIOUS
  <2> HIDE DEF g
  <2>2. QED
    BY <1>9, <2>1 DEF ChainsUpTo
<1>11. QED
  BY <1>3, <1>10

(* The chain of a block is the block and the chain of its parent. *)
ChainLaw ==
  /\ Chain(Genesis) = {Genesis}
  /\ \A b \in Block \ {Genesis} : Chain(b) = {b} \cup Chain(parent(b))

LEMMA ChainIsRecursive == TreeTypeOK => ChainLaw
<1> SUFFICES ASSUME TreeTypeOK PROVE ChainLaw
  OBVIOUS
<1> DEFINE f == CHOOSE f : f = [c \in Block |-> IF c = Genesis THEN {c} ELSE {c} \cup f[parent(c)]]
<1>1. \A b : Chain(b) = f[b]
  BY DEF Chain
<1>2. f = [c \in Block |-> IF c = Genesis THEN {c} ELSE {c} \cup f[parent(c)]]
  <2>1. \E h : h = [c \in Block |-> IF c = Genesis THEN {c} ELSE {c} \cup h[parent(c)]]
    BY ChainsExist DEF ChainsUpTo, Block
  <2>2. QED
    BY <2>1
<1> HIDE DEF f
<1>3. ASSUME NEW c \in Block
      PROVE  f[c] = IF c = Genesis THEN {c} ELSE {c} \cup f[parent(c)]
  BY <1>2, Zenon
<1>4. Genesis \in Block
  BY Blocks
<1>5. QED
  BY <1>1, <1>3, <1>4 DEF ChainLaw

-----------------------------------------------------------------------------
(* The order.                                                              *)

(* Induction along the tree: a set of blocks without genesis has a block    *)
(* whose parent is not in it.                                              *)
LEMMA FirstBlock ==
  ASSUME TreeTypeOK, NEW S \in SUBSET Block, S # {}, Genesis \notin S
  PROVE  \E b \in S : /\ b \in Block \ {Genesis}
                      /\ parent(b) \in Block \ S
<1>1. S \in SUBSET Nat
  BY Blocks
<1>2. PICK b \in S : \A c \in S : b <= c
  BY <1>1, SmallestNumber
<1>3. b \in Block \ {Genesis} /\ b \in Nat
  BY <1>1
<1>4. parent(b) \in Block /\ parent(b) \in Nat /\ parent(b) < b
  BY <1>3, Blocks
<1>5. parent(b) \notin S
  BY <1>2, <1>3, <1>4
<1>6. QED
  BY <1>3, <1>4, <1>5

(* A chain is made of blocks, runs from genesis to its head, and numbers    *)
(* its blocks in order.                                                    *)
ChainRuns ==
  \A b \in Block :
    /\ Chain(b) \subseteq Block
    /\ Genesis \in Chain(b) /\ b \in Chain(b)
    /\ \A a \in Chain(b) : a = b \/ number(a) < number(b)

LEMMA ChainsRun == TreeTypeOK => ChainRuns
<1> SUFFICES ASSUME TreeTypeOK PROVE ChainRuns
  OBVIOUS
<1> DEFINE P(b) == /\ Chain(b) \subseteq Block
                   /\ Genesis \in Chain(b) /\ b \in Chain(b)
                   /\ \A a \in Chain(b) : a = b \/ number(a) < number(b)
           wrong == {b \in Block : ~ P(b)}
<1>1. Genesis \in Block /\ Chain(Genesis) = {Genesis}
  BY Blocks, ChainIsRecursive DEF ChainLaw
<1>2. Genesis \notin wrong
  BY <1>1
<1>3. ASSUME NEW b \in Block \ {Genesis}, parent(b) \in Block, P(parent(b))
      PROVE  P(b)
  <2>1. Chain(b) = {b} \cup Chain(parent(b))
    BY <1>3, ChainIsRecursive DEF ChainLaw
  <2>2. /\ number(b) = number(parent(b)) + 1
        /\ \A c \in Block : number(c) \in Nat
    BY <1>3, Blocks
  <2>3. ASSUME NEW a \in Chain(b)
        PROVE  a = b \/ number(a) < number(b)
    <3>1. a = b \/ (a \in Chain(parent(b)) /\ a \in Block)
      BY <1>3, <2>1
    <3>2. a \in Chain(parent(b)) => a = parent(b) \/ number(a) < number(parent(b))
      BY <1>3
    <3>3. QED
      BY <1>3, <2>2, <3>1, <3>2
  <2>4. QED
    BY <1>3, <2>1, <2>3
<1> HIDE DEF P
<1>4. wrong = {}
  <2>1. wrong \in SUBSET Block
    OBVIOUS
  <2>2. \A b \in wrong : b \in Block \ {Genesis} /\ parent(b) \in Block \ wrong => FALSE
    BY <1>3
  <2> HIDE DEF wrong
  <2>3. QED
    BY <1>2, <2>1, <2>2, FirstBlock
<1>5. \A b \in Block : P(b)
  BY <1>4
<1>6. QED
  BY <1>5 DEF ChainRuns, P

(* What is on the chain of a block that is on a chain is on that chain. *)
ChainsNest == \A c \in Block : \A b \in Chain(c) : Chain(b) \subseteq Chain(c)

LEMMA ChainsAreNested == TreeTypeOK => ChainsNest
<1> SUFFICES ASSUME TreeTypeOK PROVE ChainsNest
  OBVIOUS
<1> DEFINE P(c) == \A b \in Chain(c) : Chain(b) \subseteq Chain(c)
           wrong == {c \in Block : ~ P(c)}
<1>1. Genesis \in Block /\ Chain(Genesis) = {Genesis}
  BY Blocks, ChainIsRecursive DEF ChainLaw
<1>2. Genesis \notin wrong
  BY <1>1
<1>3. ASSUME NEW c \in Block \ {Genesis}, parent(c) \in Block, P(parent(c))
      PROVE  P(c)
  <2>1. Chain(c) = {c} \cup Chain(parent(c))
    BY <1>3, ChainIsRecursive DEF ChainLaw
  <2>2. QED
    BY <1>3, <2>1
<1> HIDE DEF P
<1>4. wrong = {}
  <2>1. wrong \in SUBSET Block
    OBVIOUS
  <2>2. \A b \in wrong : b \in Block \ {Genesis} /\ parent(b) \in Block \ wrong => FALSE
    BY <1>3
  <2> HIDE DEF wrong
  <2>3. QED
    BY <1>2, <2>1, <2>2, FirstBlock
<1>5. \A c \in Block : P(c)
  BY <1>4
<1>6. QED
  BY <1>5 DEF ChainsNest, P

(* Two blocks of one chain are in line. *)
ChainsInLine == \A c \in Block : \A a, b \in Chain(c) : a \in Chain(b) \/ b \in Chain(a)

LEMMA ChainsAreLines == TreeTypeOK => ChainsInLine
<1> SUFFICES ASSUME TreeTypeOK PROVE ChainsInLine
  OBVIOUS
<1> DEFINE P(c) == \A a, b \in Chain(c) : a \in Chain(b) \/ b \in Chain(a)
           wrong == {c \in Block : ~ P(c)}
<1>1. Genesis \in Block /\ Chain(Genesis) = {Genesis}
  BY Blocks, ChainIsRecursive DEF ChainLaw
<1>2. Genesis \notin wrong
  BY <1>1
<1>3. ASSUME NEW c \in Block \ {Genesis}, parent(c) \in Block, P(parent(c))
      PROVE  P(c)
  <2>1. Chain(c) = {c} \cup Chain(parent(c))
    BY <1>3, ChainIsRecursive DEF ChainLaw
  <2>2. QED
    BY <1>3, <2>1
<1> HIDE DEF P
<1>4. wrong = {}
  <2>1. wrong \in SUBSET Block
    OBVIOUS
  <2>2. \A b \in wrong : b \in Block \ {Genesis} /\ parent(b) \in Block \ wrong => FALSE
    BY <1>3
  <2> HIDE DEF wrong
  <2>3. QED
    BY <1>2, <2>1, <2>2, FirstBlock
<1>5. \A c \in Block : P(c)
  BY <1>4
<1>6. QED
  BY <1>5 DEF ChainsInLine, P

(* Of two blocks of one chain, the one of the lower number is on the other's *)
(* chain.                                                                  *)
LEMMA LowerIsAncestor ==
  ASSUME TreeTypeOK, NEW c \in Block, NEW a \in Chain(c), NEW b \in Chain(c),
         number(a) <= number(b)
  PROVE  a \in Chain(b)
<1>1. a \in Block /\ b \in Block
  BY ChainsRun DEF ChainRuns
<1>2. number(a) \in Nat /\ number(b) \in Nat
  BY <1>1, Blocks
<1>3. a \in Chain(b) \/ b \in Chain(a)
  BY ChainsAreLines DEF ChainsInLine
<1>4. b \in Chain(a) => b = a \/ number(b) < number(a)
  BY <1>1, ChainsRun DEF ChainRuns
<1>5. b = a => a \in Chain(b)
  BY <1>1, ChainsRun DEF ChainRuns
<1>6. QED
  BY <1>2, <1>3, <1>4, <1>5

(* A chain that goes on above a block goes through one of its children. *)
LEMMA ChildOnChain ==
  ASSUME TreeTypeOK, NEW b \in Block, NEW a \in Chain(b), a # b
  PROVE  \E c \in Children(a) : c \in Chain(b) /\ c \in Block
<1> DEFINE P(d) == a \in Chain(d) /\ a # d => \E c \in Children(a) : c \in Chain(d) /\ c \in Block
           wrong == {d \in Block : ~ P(d)}
<1>1. Genesis \in Block /\ Chain(Genesis) = {Genesis}
  BY Blocks, ChainIsRecursive DEF ChainLaw
<1>2. Genesis \notin wrong
  BY <1>1
<1>3. ASSUME NEW d \in Block \ {Genesis}, parent(d) \in Block, P(parent(d))
      PROVE  P(d)
  <2>1. Chain(d) = {d} \cup Chain(parent(d))
    BY <1>3, ChainIsRecursive DEF ChainLaw
  <2>2. a = parent(d) => d \in Children(a)
    BY DEF Children
  <2>3. QED
    BY <1>3, <2>1, <2>2
<1> HIDE DEF P
<1>4. wrong = {}
  <2>1. wrong \in SUBSET Block
    OBVIOUS
  <2>2. \A c \in wrong : c \in Block \ {Genesis} /\ parent(c) \in Block \ wrong => FALSE
    BY <1>3
  <2> HIDE DEF wrong
  <2>3. QED
    BY <1>2, <2>1, <2>2, FirstBlock
<1>5. P(b)
  BY <1>4
<1>6. QED
  BY <1>5 DEF P

-----------------------------------------------------------------------------
(* Growth.                                                                 *)

LEMMA TreeStarts == TreeInit => TreeTypeOK
<1> SUFFICES ASSUME TreeInit PROVE TreeTypeOK
  OBVIOUS
<1>1. tree = <<[parent |-> 0, number |-> 0]>> /\ Len(tree) = 1
  BY DEF TreeInit
<1>2. tree \in Seq([parent : Nat, number : Nat])
  BY <1>1
<1>3. Block \ {Genesis} = {}
  BY <1>1 DEF Block, Genesis
<1>4. QED
  BY <1>1, <1>2, <1>3, MaxBlocksAssumption DEF TreeTypeOK, Genesis

(* A block is added after the last one, and the others are what they were. *)
LEMMA TreeGrows ==
  ASSUME TreeTypeOK, NEW p \in Block, Grow(p)
  PROVE  /\ TreeTypeOK'
         /\ \E n : /\ n \notin Block
                  /\ Block' = Block \cup {n}
                  /\ n = Len(tree) + 1
                  /\ parent(n)' = p /\ number(n)' = number(p) + 1
                  /\ n # Genesis
         /\ \A b \in Block : parent(b)' = parent(b) /\ number(b)' = number(b)
<1> DEFINE new   == [parent |-> p, number |-> number(p) + 1]
           Entry == [parent : Nat, number : Nat]
<1>1. /\ tree \in Seq(Entry) /\ Len(tree) \in Nat /\ Len(tree) >= 1
      /\ tree' = Append(tree, new) /\ Len(tree) < MaxBlocks
      /\ tree[Genesis] = [parent |-> 0, number |-> 0]
  BY Blocks DEF TreeTypeOK, Grow, Child
<1>2. p \in Nat /\ p >= 1 /\ p <= Len(tree) /\ number(p) \in Nat
  BY Blocks
<1>3. new \in Entry
  BY <1>2
<1>4. PICK n \in Nat : n = Len(tree) + 1
  BY <1>1
<1>5. PICK entry \in Entry : entry = new
  BY <1>3
<1> HIDE DEF new
<1>6. /\ tree' \in Seq(Entry) /\ Len(tree') = n /\ tree'[n] = entry
      /\ \A b \in 1..Len(tree) : tree'[b] = tree[b]
  BY <1>1, <1>4, <1>5, AppendProperties
<1>7. Block' = 1..n /\ Block = 1..Len(tree)
  BY <1>6 DEF Block
<1>8. Block' = Block \cup {n} /\ n \notin Block /\ n # Genesis
  BY <1>1, <1>4, <1>7 DEF Genesis
<1>9. \A b \in Block : parent(b)' = parent(b) /\ number(b)' = number(b)
  BY <1>6, <1>7 DEF parent, number
<1>10. parent(n)' = p /\ number(n)' = number(p) + 1
  BY <1>5, <1>6 DEF parent, number, new
<1>11. TreeTypeOK'
  <2>1. tree'[Genesis] = [parent |-> 0, number |-> 0]
    BY <1>1, <1>6 DEF Genesis
  <2>2. Len(tree') \in 1..MaxBlocks
    BY <1>1, <1>4, <1>6, MaxBlocksAssumption
  <2>3. ASSUME NEW b \in Block' \ {Genesis}
        PROVE  parent(b)' \in 1..(b - 1) /\ number(b)' = number(parent(b))' + 1
    <3>1. CASE b = n
      <4>1. parent(b)' = p /\ number(b)' = number(p) + 1
        BY <1>10, <3>1
      <4>2. number(parent(b))' = number(p)'
        BY <4>1 DEF number
      <4>3. number(p)' = number(p)
        BY <1>9
      <4>4. p \in 1..(b - 1)
        BY <1>1, <1>2, <1>4, <3>1
      <4>5. QED
        BY <4>1, <4>2, <4>3, <4>4
    <3>2. CASE b \in Block
      <4>1. /\ parent(b) \in 1..(b - 1) /\ parent(b) \in Block
            /\ number(b) = number(parent(b)) + 1
        BY <2>3, <3>2, Blocks DEF TreeTypeOK
      <4>2. PICK q \in Block : q = parent(b)
        BY <4>1
      <4>3. parent(b)' = q /\ number(b)' = number(q) + 1 /\ number(q)' = number(q)
        BY <1>9, <3>2, <4>1, <4>2
      <4>4. number(parent(b))' = number(q)'
        BY <4>3 DEF number
      <4>5. QED
        BY <4>1, <4>2, <4>3, <4>4
    <3>3. QED
      BY <1>8, <2>3, <3>1, <3>2
  <2>4. QED
    BY <1>6, <2>1, <2>2, <2>3 DEF TreeTypeOK
<1>12. QED
  BY <1>4, <1>8, <1>9, <1>10, <1>11

(* The chains of the blocks there were stay as they were, and the chain of  *)
(* the new block is its own above its parent's.                            *)
LEMMA ChainsStay ==
  ASSUME TreeTypeOK, NEW p \in Block, Grow(p)
  PROVE  \A b \in Block : Chain(b)' = Chain(b)
<1>1. TreeTypeOK' /\ \A b \in Block : parent(b)' = parent(b)
  BY TreeGrows
<1>2. Block \subseteq Block' /\ Genesis \in Block
  BY TreeGrows, Blocks
<1>3. ChainLaw /\ ChainLaw'
  <2>1. TreeTypeOK' => ChainLaw'
    BY ChainIsRecursive, PTL
  <2>2. QED
    BY <1>1, <2>1, ChainIsRecursive
<1> DEFINE wrong == {b \in Block : Chain(b)' # Chain(b)}
<1>4. Genesis \notin wrong
  BY <1>3 DEF ChainLaw
<1>5. ASSUME NEW b \in wrong, b \in Block \ {Genesis}, parent(b) \in Block \ wrong
      PROVE  FALSE
  <2>1. PICK q \in Block : q = parent(b)
    BY <1>5
  <2>2. Chain(b) = {b} \cup Chain(q)
    BY <1>3, <1>5, <2>1 DEF ChainLaw
  <2>3. Chain(b)' = {b} \cup Chain(parent(b))'
    BY <1>2, <1>3, <1>5 DEF ChainLaw
  <2>4. Chain(parent(b))' = Chain(q)'
    <3>1. parent(b)' = q
      BY <1>1, <1>5, <2>1
    <3>2. QED
      BY <3>1 DEF Chain
  <2>5. Chain(q)' = Chain(q)
    BY <1>5, <2>1
  <2>6. QED
    BY <1>5, <2>2, <2>3, <2>4, <2>5
<1>6. wrong = {}
  <2>1. wrong \in SUBSET Block
    OBVIOUS
  <2> HIDE DEF wrong
  <2>2. QED
    BY <1>4, <1>5, <2>1, FirstBlock
<1>7. QED
  BY <1>6
=============================================================================
