--------------------------- MODULE BlockTree_proof ---------------------------
(* What CBlockIndex and CChain compute from pprev, for every tree of blocks:  *)
(* ancestors, heights, chain work, forks.                                     *)
EXTENDS BlockTree, TLAPS

\* There is a function on the blocks with value v0 for the genesis block and that
\* follows step from parent to child.
IsDefined(V, v0, step) ==
    \E f \in [Block -> V] :
        /\ f[Genesis] = v0
        /\ \A b \in Block \ {Genesis} : f[b] = step[<<b, f[Prev[b]]>>]

\* A value is defined for every block by its value for the genesis block and a
\* step from the parent's: the least set of pairs closed under the step is a
\* function.
LEMMA TreeRecursion ==
    ASSUME NEW V, NEW v0 \in V, NEW step \in [Block \X V -> V]
    PROVE  IsDefined(V, v0, step)
PROOF
<1> USE TreeAssumption
<1> DEFINE Closed(R) == /\ <<Genesis, v0>> \in R
                        /\ \A b \in Block \ {Genesis}, v \in V :
                              <<Prev[b], v>> \in R => <<b, step[<<b, v>>]>> \in R
           Least == {x \in Block \X V : \A R \in SUBSET (Block \X V) : Closed(R) => x \in R}
           Fixed == {b \in Block : \E v \in V : \A u \in V : <<b, u>> \in Least <=> u = v}
<1>1. Least \in SUBSET (Block \X V) OBVIOUS
<1>2. Closed(Least)
  <2>1. <<Genesis, v0>> \in Least OBVIOUS
  <2>2. ASSUME NEW b \in Block \ {Genesis}, NEW v \in V, <<Prev[b], v>> \in Least
        PROVE  <<b, step[<<b, v>>]>> \in Least
    <3>1. <<b, step[<<b, v>>]>> \in Block \X V OBVIOUS
    <3>2. ASSUME NEW R \in SUBSET (Block \X V), Closed(R)
          PROVE  <<b, step[<<b, v>>]>> \in R
      <4>1. <<Prev[b], v>> \in R BY <2>2, <3>2
      <4> QED BY <3>2, <4>1
    <3> HIDE DEF Closed
    <3> QED BY <3>1, <3>2
  <2> HIDE DEF Least
  <2> QED BY <2>1, <2>2
<1>3. ASSUME NEW R \in SUBSET (Block \X V), Closed(R) PROVE Least \subseteq R
  BY <1>3
<1>4. Genesis \in Fixed
  <2> DEFINE R == {x \in Block \X V : x[1] = Genesis => x[2] = v0}
  <2>1. Closed(R) OBVIOUS
  <2>2. Least \subseteq R
    <3> HIDE DEF Least, Closed, R
    <3>1. R \in SUBSET (Block \X V) BY DEF R
    <3> QED BY <2>1, <3>1, <1>3
  <2>3. \A u \in V : <<Genesis, u>> \in Least => u = v0
    <3> HIDE DEF Least, Closed
    <3> QED BY <2>2
  <2>4. <<Genesis, v0>> \in Least BY <1>2
  <2> HIDE DEF Least, Closed
  <2> QED BY <2>3, <2>4
<1>5. ASSUME NEW b \in Block \ {Genesis}, Prev[b] \in Fixed PROVE b \in Fixed
  <2>1. PICK v \in V : \A u \in V : <<Prev[b], u>> \in Least <=> u = v
    <3> HIDE DEF Least
    <3> QED BY <1>5
  <2> DEFINE w == step[<<b, v>>]
             R == Least \ {x \in Block \X V : x[1] = b /\ x[2] # w}
  <2>2. w \in V OBVIOUS
  <2>3. <<b, w>> \in Least
    <3>1. <<Prev[b], v>> \in Least
      <4> HIDE DEF Least
      <4> QED BY <2>1
    <3> HIDE DEF Least
    <3> QED BY <1>2, <3>1
  <2>4. Closed(R)
    <3> HIDE DEF Least, w
    <3>1. <<Genesis, v0>> \in R BY <1>2
    <3>2. ASSUME NEW c \in Block \ {Genesis}, NEW u \in V, <<Prev[c], u>> \in R
          PROVE  <<c, step[<<c, u>>]>> \in R
      <4>1. <<c, step[<<c, u>>]>> \in Least BY <3>2, <1>2
      <4>2. CASE c = b
        <5>1. u = v BY <3>2, <4>2, <2>1
        <5>2. step[<<c, u>>] = w BY <5>1, <4>2 DEF w
        <5> QED BY <4>1, <4>2, <5>2
      <4>3. CASE c # b BY <4>1, <4>3
      <4> QED BY <4>2, <4>3
    <3> HIDE DEF R
    <3> QED BY <3>1, <3>2
  <2>5. Least \subseteq R
    <3>1. R \in SUBSET (Block \X V) BY <1>1
    <3> HIDE DEF R, Closed, Least
    <3> QED BY <2>4, <3>1, <1>3
  <2>6. \A u \in V : <<b, u>> \in Least => u = w
    <3> HIDE DEF Least, w
    <3> QED BY <2>5
  <2> HIDE DEF Least, R, w, Closed
  <2> QED BY <2>2, <2>3, <2>6
<1>6. Fixed = Block
  <2>1. Fixed \in SUBSET Block OBVIOUS
  <2> HIDE DEF Fixed
  <2> QED BY <2>1, <1>4, <1>5, Rooted
<1> DEFINE f == [b \in Block |-> CHOOSE v \in V : <<b, v>> \in Least]
<1>7. ASSUME NEW b \in Block PROVE f[b] \in V /\ \A u \in V : <<b, u>> \in Least <=> u = f[b]
  <2> HIDE DEF Least
  <2>1. PICK v \in V : \A u \in V : <<b, u>> \in Least <=> u = v BY <1>6
  <2>2. f[b] = v BY <2>1
  <2> HIDE DEF f
  <2> QED BY <2>1, <2>2
<1>8. f \in [Block -> V]
  <2> HIDE DEF Least
  <2>1. \A b \in Block : (CHOOSE v \in V : <<b, v>> \in Least) \in V BY <1>7
  <2> QED BY <2>1
<1> HIDE DEF f, Least
<1>9. f[Genesis] = v0 BY <1>2, <1>7
<1>10. ASSUME NEW b \in Block \ {Genesis} PROVE f[b] = step[<<b, f[Prev[b]]>>]
  <2>1. Prev[b] \in Block OBVIOUS
  <2>2. f[Prev[b]] \in V /\ <<Prev[b], f[Prev[b]]>> \in Least BY <2>1, <1>7
  <2>3. <<b, step[<<b, f[Prev[b]]>>]>> \in Least BY <1>2, <2>2
  <2>4. step[<<b, f[Prev[b]]>>] \in V BY <2>2
  <2> QED BY <1>7, <2>3, <2>4
<1> QED BY <1>8, <1>9, <1>10 DEF IsDefined


\* The recursive definitions of BlockTree are those of functions on the blocks.
LEMMA PathDef ==
    /\ Path \in [Block -> SUBSET Block]
    /\ Path[Genesis] = {Genesis}
    /\ \A b \in Block \ {Genesis} : Path[b] = {b} \cup Path[Prev[b]]
PROOF
<1> USE TreeAssumption
<1> DEFINE step == [x \in Block \X SUBSET Block |-> {x[1]} \cup x[2]]
<1>1. step \in [Block \X SUBSET Block -> SUBSET Block] OBVIOUS
<1>2. {Genesis} \in SUBSET Block OBVIOUS
<1>3. PICK f \in [Block -> SUBSET Block] :
        /\ f[Genesis] = {Genesis}
        /\ \A b \in Block \ {Genesis} : f[b] = step[<<b, f[Prev[b]]>>]
  <2> HIDE DEF step
  <2>1. IsDefined(SUBSET Block, {Genesis}, step) BY <1>1, <1>2, TreeRecursion
  <2> QED BY <2>1 DEF IsDefined
<1>4. \A b \in Block \ {Genesis} : f[b] = {b} \cup f[Prev[b]] BY <1>3
<1>5. f = [b \in Block |-> {b} \cup IF b = Genesis THEN {} ELSE f[Prev[b]]]
  BY <1>3, <1>4
<1>6. Path = CHOOSE g : g = [b \in Block |-> {b} \cup IF b = Genesis THEN {} ELSE g[Prev[b]]]
  BY DEF Path
<1>7. Path = [b \in Block |-> {b} \cup IF b = Genesis THEN {} ELSE Path[Prev[b]]]
  BY <1>5, <1>6, Zenon
<1>8. \A b \in Block : Path[b] = {b} \cup IF b = Genesis THEN {} ELSE Path[Prev[b]]
  BY <1>7, Zenon
<1>9. {b \in Block : Path[b] \subseteq Block} = Block
  <2> DEFINE S == {b \in Block : Path[b] \subseteq Block}
  <2>1. Genesis \in S BY <1>8
  <2>2. \A b \in Block \ {Genesis} : Prev[b] \in S => b \in S BY <1>8
  <2>3. S \in SUBSET Block OBVIOUS
  <2> HIDE DEF S
  <2>4. S = Block BY <2>1, <2>2, <2>3, Rooted
  <2> QED BY <2>4 DEF S
<1>10. Path \in [Block -> SUBSET Block]
  <2>1. \A b \in Block : ({b} \cup IF b = Genesis THEN {} ELSE Path[Prev[b]]) \in SUBSET Block
    BY <1>8, <1>9
  <2>2. Path = [b \in Block |-> Path[b]] BY <1>7, Zenon
  <2>3. \A b \in Block : Path[b] \in SUBSET Block BY <1>8, <2>1, Zenon
  <2> QED BY <2>2, <2>3, Zenon
<1> QED BY <1>8, <1>10

\* nHeight is one more than that of pprev.
LEMMA HeightDef ==
    /\ Height \in [Block -> Nat]
    /\ Height[Genesis] = 0
    /\ \A b \in Block \ {Genesis} : Height[b] = 1 + Height[Prev[b]]
PROOF
<1> USE TreeAssumption
<1> DEFINE step == [x \in Block \X Nat |-> 1 + x[2]]
<1>1. step \in [Block \X Nat -> Nat] OBVIOUS
<1>2. 0 \in Nat OBVIOUS
<1>3. PICK f \in [Block -> Nat] :
        /\ f[Genesis] = 0
        /\ \A b \in Block \ {Genesis} : f[b] = step[<<b, f[Prev[b]]>>]
  <2> HIDE DEF step
  <2>1. IsDefined(Nat, 0, step) BY <1>1, <1>2, TreeRecursion
  <2> QED BY <2>1 DEF IsDefined
<1>4. \A b \in Block \ {Genesis} : f[b] = 1 + f[Prev[b]] BY <1>3
<1>5. f = [b \in Block |-> IF b = Genesis THEN 0 ELSE 1 + f[Prev[b]]]
  BY <1>3, <1>4
<1>6. Height = CHOOSE g : g = [b \in Block |-> IF b = Genesis THEN 0 ELSE 1 + g[Prev[b]]]
  BY DEF Height
<1>7. Height = [b \in Block |-> IF b = Genesis THEN 0 ELSE 1 + Height[Prev[b]]]
  BY <1>5, <1>6, Zenon
<1>8. \A b \in Block : Height[b] = IF b = Genesis THEN 0 ELSE 1 + Height[Prev[b]]
  BY <1>7, Zenon
<1>9. \A b \in Block : Height[b] \in Nat
  <2> DEFINE S == {b \in Block : Height[b] \in Nat}
  <2>1. Genesis \in S BY <1>8
  <2>2. \A b \in Block \ {Genesis} : Prev[b] \in S => b \in S BY <1>8
  <2>3. S \in SUBSET Block OBVIOUS
  <2> HIDE DEF S
  <2>4. S = Block BY <2>1, <2>2, <2>3, Rooted
  <2> QED BY <2>4 DEF S
<1>10. Height \in [Block -> Nat]
  <2>1. Height = [b \in Block |-> Height[b]] BY <1>7, <1>8
  <2> QED BY <2>1, <1>9, Zenon
<1> QED BY <1>8, <1>10

\* nChainWork is that of pprev and the proof of the block.
LEMMA WorkDef ==
    /\ Work \in [Block -> Nat \ {0}]
    /\ Work[Genesis] = Proof[Genesis]
    /\ \A b \in Block \ {Genesis} : Work[b] = Proof[b] + Work[Prev[b]]
PROOF
<1> USE TreeAssumption
<1> DEFINE step == [x \in Block \X Nat |-> Proof[x[1]] + x[2]]
<1>0. \A x \in Block \X Nat : Proof[x[1]] + x[2] \in Nat
  <2> TAKE x \in Block \X Nat
  <2>1. Proof[x[1]] \in Nat /\ x[2] \in Nat OBVIOUS
  <2> QED BY <2>1
<1>1. step \in [Block \X Nat -> Nat] BY <1>0
<1>2. Proof[Genesis] \in Nat OBVIOUS
<1>3. PICK f \in [Block -> Nat] :
        /\ f[Genesis] = Proof[Genesis]
        /\ \A b \in Block \ {Genesis} : f[b] = step[<<b, f[Prev[b]]>>]
  <2> HIDE DEF step
  <2>1. IsDefined(Nat, Proof[Genesis], step) BY <1>1, <1>2, TreeRecursion
  <2> QED BY <2>1 DEF IsDefined
<1>4. \A b \in Block \ {Genesis} : f[b] = Proof[b] + f[Prev[b]] BY <1>3
<1>5. f = [b \in Block |-> Proof[b] + IF b = Genesis THEN 0 ELSE f[Prev[b]]]
  <2>1. \A b \in Block : f[b] = Proof[b] + IF b = Genesis THEN 0 ELSE f[Prev[b]]
    BY <1>3, <1>4
  <2> QED BY <2>1
<1>6. Work = CHOOSE g : g = [b \in Block |-> Proof[b] + IF b = Genesis THEN 0 ELSE g[Prev[b]]]
  BY DEF Work
<1>7. Work = [b \in Block |-> Proof[b] + IF b = Genesis THEN 0 ELSE Work[Prev[b]]]
  BY <1>5, <1>6, Zenon
<1>8. \A b \in Block : Work[b] = Proof[b] + IF b = Genesis THEN 0 ELSE Work[Prev[b]]
  BY <1>7, Zenon
<1>9. \A b \in Block : Work[b] \in Nat \ {0}
  <2> DEFINE S == {b \in Block : Work[b] \in Nat \ {0}}
  <2>1. Genesis \in S BY <1>8
  <2>2. \A b \in Block \ {Genesis} : Prev[b] \in S => b \in S BY <1>8
  <2>3. S \in SUBSET Block OBVIOUS
  <2> HIDE DEF S
  <2>4. S = Block BY <2>1, <2>2, <2>3, Rooted
  <2> QED BY <2>4 DEF S
<1>10. Work \in [Block -> Nat \ {0}]
  <2>1. Work = [b \in Block |-> Work[b]] BY <1>7, <1>8
  <2> QED BY <2>1, <1>9, Zenon
<1>11. Work[Genesis] = Proof[Genesis] BY <1>8
<1>12. \A b \in Block \ {Genesis} : Work[b] = Proof[b] + Work[Prev[b]] BY <1>8
<1> QED BY <1>10, <1>11, <1>12
-----------------------------------------------------------------------------
\* A block and the genesis block are on the block's path.
LEMMA PathEnds ==
    ASSUME NEW b \in Block
    PROVE  b \in Path[b] /\ Genesis \in Path[b] /\ Path[b] \subseteq Block
PROOF
<1> USE TreeAssumption, PathDef
<1> DEFINE S == {c \in Block : Genesis \in Path[c]}
<1>1. Genesis \in S OBVIOUS
<1>2. \A c \in Block \ {Genesis} : Prev[c] \in S => c \in S OBVIOUS
<1>3. S \in SUBSET Block OBVIOUS
<1>4. S = Block
  <2> HIDE DEF S
  <2> QED BY <1>1, <1>2, <1>3, Rooted
<1> QED BY <1>4

\* The ancestors of an ancestor are ancestors.
LEMMA PathTransitive ==
    ASSUME NEW b \in Block, NEW a \in Path[b]
    PROVE  a \in Block /\ Path[a] \subseteq Path[b]
PROOF
<1> USE TreeAssumption, PathDef
<1> DEFINE S == {c \in Block : \A d \in Path[c] : Path[d] \subseteq Path[c]}
<1>1. Genesis \in S OBVIOUS
<1>2. \A c \in Block \ {Genesis} : Prev[c] \in S => c \in S OBVIOUS
<1>3. S \in SUBSET Block OBVIOUS
<1>4. S = Block
  <2> HIDE DEF S
  <2> QED BY <1>1, <1>2, <1>3, Rooted
<1>5. b \in S BY <1>4
<1> QED BY <1>5

\* The parent of a block that is not the genesis block is on its path.
LEMMA PrevInPath ==
    ASSUME NEW b \in Block, NEW a \in Path[b], a # Genesis
    PROVE  Prev[a] \in Path[b] /\ Prev[a] \in Block /\ Path[a] = {a} \cup Path[Prev[a]]
PROOF
<1>1. a \in Block /\ Path[a] \subseteq Path[b] BY PathTransitive
<1>2. Prev[a] \in Block BY <1>1, TreeAssumption
<1>3. Path[a] = {a} \cup Path[Prev[a]] BY <1>1, PathDef
<1>4. Prev[a] \in Path[Prev[a]] BY <1>2, PathEnds
<1> QED BY <1>1, <1>2, <1>3, <1>4

\* A proper ancestor is lower and has less work.
LEMMA AncestorIsLess ==
    ASSUME NEW b \in Block, NEW a \in Path[b], a # b
    PROVE  /\ a \in Block /\ Height[a] \in Nat /\ Height[b] \in Nat /\ Height[a] < Height[b]
           /\ Work[a] \in Nat /\ Work[b] \in Nat /\ Work[a] < Work[b]
PROOF
<1> USE TreeAssumption, PathDef, HeightDef, WorkDef
<1> DEFINE S == {c \in Block : \A d \in Path[c] : d # c => Height[d] < Height[c] /\ Work[d] < Work[c]}
<1>1. Genesis \in S OBVIOUS
<1>2. ASSUME NEW c \in Block \ {Genesis}, Prev[c] \in S PROVE c \in S
  <2> SUFFICES ASSUME NEW d \in Path[c], d # c PROVE Height[d] < Height[c] /\ Work[d] < Work[c]
    OBVIOUS
  <2>1. d \in Path[Prev[c]] /\ d \in Block /\ Prev[c] \in Block OBVIOUS
  <2>2. Height[d] <= Height[Prev[c]] /\ Work[d] <= Work[Prev[c]]
    <3>1. Height[Prev[c]] \in Nat /\ Work[Prev[c]] \in Nat BY <2>1
    <3>2. CASE d = Prev[c] BY <3>1, <3>2
    <3>3. CASE d # Prev[c]
      <4>1. Height[d] < Height[Prev[c]] /\ Work[d] < Work[Prev[c]] BY <2>1, <3>3, <1>2
      <4>2. Height[d] \in Nat /\ Work[d] \in Nat BY <2>1
      <4> QED BY <3>1, <4>1, <4>2
    <3> QED BY <3>2, <3>3
  <2>3. Proof[c] \in Nat \ {0} /\ Height[d] \in Nat /\ Work[d] \in Nat /\ Height[Prev[c]] \in Nat
        /\ Work[Prev[c]] \in Nat /\ Height[c] = 1 + Height[Prev[c]] /\ Work[c] = Proof[c] + Work[Prev[c]]
    BY <2>1
  <2> QED BY <2>2, <2>3
<1>3. S \in SUBSET Block OBVIOUS
<1>4. S = Block
  <2> HIDE DEF S
  <2> QED BY <1>1, <1>2, <1>3, Rooted
<1>5. b \in S /\ a \in Block BY <1>4
<1> QED BY <1>5

\* Two blocks that are ancestors of each other are the same.
LEMMA PathAntisymmetric ==
    ASSUME NEW a \in Block, NEW b \in Block, a \in Path[b], b \in Path[a]
    PROVE  a = b
PROOF
<1> SUFFICES ASSUME a # b PROVE FALSE OBVIOUS
<1>1. Height[a] < Height[b] /\ Height[a] \in Nat /\ Height[b] \in Nat BY AncestorIsLess
<1>2. Height[b] < Height[a] BY AncestorIsLess
<1> QED BY <1>1, <1>2

\* The ancestors of a block are in line.
LEMMA PathLinear ==
    ASSUME NEW b \in Block, NEW a \in Path[b], NEW c \in Path[b]
    PROVE  a \in Path[c] \/ c \in Path[a]
PROOF
<1> USE TreeAssumption, PathDef
<1> DEFINE S == {d \in Block : \A x, y \in Path[d] : x \in Path[y] \/ y \in Path[x]}
<1>1. Genesis \in S OBVIOUS
<1>2. \A d \in Block \ {Genesis} : Prev[d] \in S => d \in S OBVIOUS
<1>3. S \in SUBSET Block OBVIOUS
<1>4. S = Block
  <2> HIDE DEF S
  <2> QED BY <1>1, <1>2, <1>3, Rooted
<1>5. b \in S BY <1>4
<1> QED BY <1>5

\* Two ancestors of the same height are one.
LEMMA HeightSeparates ==
    ASSUME NEW b \in Block, NEW a \in Path[b], NEW c \in Path[b], Height[a] = Height[c]
    PROVE  a = c
PROOF
<1>0. a \in Block /\ c \in Block BY PathTransitive
<1>1. CASE a \in Path[c] BY <1>0, <1>1, AncestorIsLess
<1>2. CASE c \in Path[a] BY <1>0, <1>2, AncestorIsLess
<1> QED BY <1>1, <1>2, PathLinear

\* GetAncestor: there is an ancestor at every height up to the block's.
LEMMA AncestorAt ==
    ASSUME NEW b \in Block, NEW h \in 0..Height[b]
    PROVE  GetAncestor(b, h) \in Path[b] /\ Height[GetAncestor(b, h)] = h
PROOF
<1> USE TreeAssumption, PathDef, HeightDef
<1> DEFINE S == {d \in Block : \A i \in 0..Height[d] : \E a \in Path[d] : Height[a] = i}
<1>1. Genesis \in S OBVIOUS
<1>2. ASSUME NEW d \in Block \ {Genesis}, Prev[d] \in S PROVE d \in S
  <2> SUFFICES ASSUME NEW i \in 0..Height[d] PROVE \E a \in Path[d] : Height[a] = i
    OBVIOUS
  <2>1. CASE i = Height[d] BY <2>1
  <2>2. CASE i # Height[d]
    <3>0. Height[d] = 1 + Height[Prev[d]] /\ Height[Prev[d]] \in Nat OBVIOUS
    <3>1. i \in 0..Height[Prev[d]] BY <2>2, <3>0
    <3>2. PICK a \in Path[Prev[d]] : Height[a] = i BY <3>1, <1>2
    <3> QED BY <3>2
  <2> QED BY <2>1, <2>2
<1>3. S \in SUBSET Block OBVIOUS
<1>4. S = Block
  <2> HIDE DEF S
  <2> QED BY <1>1, <1>2, <1>3, Rooted
<1>5. \E a \in Path[b] : Height[a] = h BY <1>4
<1> QED BY <1>5 DEF GetAncestor

\* FindFork: the common ancestors of two blocks are the ancestors of the fork.
LEMMA ForkIs ==
    ASSUME NEW a \in Block, NEW b \in Block
    PROVE  /\ FindFork(a, b) \in Block
           /\ FindFork(a, b) \in Path[a] /\ FindFork(a, b) \in Path[b]
           /\ Path[FindFork(a, b)] = Path[a] \cap Path[b]
PROOF
<1> USE TreeAssumption, PathDef
<1> DEFINE S == {d \in Block : \E f \in Block : Path[f] = Path[a] \cap Path[d]}
<1>1. Genesis \in S
  <2>1. Path[Genesis] = Path[a] \cap Path[Genesis] BY PathEnds
  <2> QED BY <2>1
<1>2. ASSUME NEW d \in Block \ {Genesis}, Prev[d] \in S PROVE d \in S
  <2>1. CASE d \in Path[a]
    <3>1. Path[d] = Path[a] \cap Path[d] BY <2>1, PathTransitive
    <3> QED BY <3>1
  <2>2. CASE d \notin Path[a] BY <2>2, <1>2
  <2> QED BY <2>1, <2>2
<1>3. S \in SUBSET Block OBVIOUS
<1>4. S = Block
  <2> HIDE DEF S
  <2> QED BY <1>1, <1>2, <1>3, Rooted
<1>5. PICK f \in Block : Path[f] = Path[a] \cap Path[b] BY <1>4
<1>6. f \in Path[f] /\ Path[f] \subseteq Block BY PathEnds
<1>7. \A c \in Path[f] : Height[c] \in Nat /\ Height[c] <= Height[f]
  BY <1>6, HeightDef, AncestorIsLess
<1>8. ASSUME NEW g \in Path[f], \A c \in Path[f] : Height[c] <= Height[g] PROVE g = f
  <2>1. Height[f] \in Nat /\ Height[g] \in Nat /\ Height[f] <= Height[g] BY <1>6, <1>7, <1>8
  <2> QED BY <2>1, AncestorIsLess
<1>9. Highest(Path[f]) = f BY <1>6, <1>7, <1>8 DEF Highest
<1>10. FindFork(a, b) = f BY <1>5, <1>9 DEF FindFork
<1> QED BY <1>5, <1>6, <1>10

\* The fork of a block with one of its ancestors is the ancestor.
LEMMA ForkOfAncestor ==
    ASSUME NEW a \in Block, NEW b \in Block, FindFork(a, b) = b \/ b \in Path[a]
    PROVE  FindFork(a, b) = b /\ b \in Path[a]
PROOF
<1>1. b \in Path[a] BY ForkIs
<1>2. b \in Path[FindFork(a, b)] BY <1>1, ForkIs, PathEnds
<1>3. FindFork(a, b) \in Path[b] BY ForkIs
<1> QED BY <1>1, <1>2, <1>3, ForkIs, PathAntisymmetric

\* A proper ancestor has a child on the way to the block.
LEMMA ChildOnPath ==
    ASSUME NEW b \in Block, NEW a \in Path[b], a # b
    PROVE  \E c \in Path[b] : c # Genesis /\ Prev[c] = a
PROOF
<1> USE TreeAssumption, PathDef
<1> DEFINE S == {d \in Block : \A x \in Path[d] : x # d => \E c \in Path[d] : c # Genesis /\ Prev[c] = x}
<1>1. Genesis \in S OBVIOUS
<1>2. ASSUME NEW d \in Block \ {Genesis}, Prev[d] \in S PROVE d \in S
  <2> SUFFICES ASSUME NEW x \in Path[d], x # d PROVE \E c \in Path[d] : c # Genesis /\ Prev[c] = x
    OBVIOUS
  <2>1. CASE x = Prev[d] BY <2>1
  <2>2. CASE x # Prev[d] BY <2>2, <1>2
  <2> QED BY <2>1, <2>2
<1>3. S \in SUBSET Block OBVIOUS
<1>4. S = Block
  <2> HIDE DEF S
  <2> QED BY <1>1, <1>2, <1>3, Rooted
<1>5. b \in S BY <1>4
<1> QED BY <1>5

\* A block has one child on the way to another.
LEMMA ChildUnique ==
    ASSUME NEW b \in Block, NEW c \in Path[b], NEW d \in Path[b],
           c # Genesis, d # Genesis, Prev[c] = Prev[d]
    PROVE  c = d
PROOF
<1>1. c \in Block /\ d \in Block BY PathTransitive
<1>2. Height[c] = Height[d] BY <1>1, HeightDef
<1> QED BY <1>2, HeightSeparates
=============================================================================
