--------------------------- MODULE MPTNodeProofs ----------------------------
(*****************************************************************************)
(* What holds of the operators of MPTNode for tries of any key length, known *)
(* in any part: a trie of which some nodes are digests stands for a full     *)
(* one, and keeps standing for it while it is hashed, hydrated, sent and     *)
(* pruned; get, insert and remove do to it what they do to the full one, or  *)
(* panic; and the full one is determined by its map.                         *)
(*****************************************************************************)
EXTENDS MPTNode, MPTWalkProofs

-----------------------------------------------------------------------------
\* The recursion over a tree, whatever it makes of the tree.

RefOp           == [t |-> "ref"]
MemoizeOp       == [t |-> "memoize"]
DecodeOp        == [t |-> "decode"]
\* The folds of MPTNode, each as a record.
ResolveOp(rlps) == [t |-> "resolve", rlps |-> rlps]
UncachedOp      == [t |-> "uncached"]
PruneOp(keys)   == [t |-> "prune", keys |-> keys]
TrieOp          == [t |-> "trie"]
ExpandOp        == [t |-> "expand"]
InlinedOp       == [t |-> "inlined"]
DigestPathsOp   == [t |-> "digestpaths"]
NodePathsOp     == [t |-> "nodepaths"]
ShapeOp         == [t |-> "shape"]
ProofOp         == [t |-> "proof"]

\* What a proof of a key takes from a place of it, and from the next.
ProofFrom(at, below) == IF below = <<>> THEN {} ELSE {Walk(at.node, at.key).node.of} \cup below[1]

\* What a fold goes down to.
BelowAt(op, x) ==
  CASE op.t = "resolve" -> IF IsSupplied(x, op.rlps) THEN BelowDigests(x) ELSE <<>>
    [] op.t = "expand"  -> BelowDigests(x)
    [] op.t = "trie"    -> MapsBelow(x)
    [] op.t = "shape"   -> PlacesBelow(x)
    [] op.t = "proof"   -> NextDigest(x)
    [] OTHER            -> ChildrenOf(x)

\* What a fold makes of a node and of what it made below.
MadeAt(op, x, below) ==
  CASE op.t = "ref"      -> RefFrom(x, below)
    [] op.t = "memoize"  -> MemoizeFrom(x, below)
    [] op.t = "decode"   -> DecodeFrom(x, below)
    [] op.t = "resolve"  -> ResolveFrom(x, below)
    [] op.t = "uncached" -> UncachedFrom(x, below)
    [] op.t = "prune"    -> PruneFrom(op.keys, x, below)
    [] op.t = "trie"     -> TrieFrom(x, below)
    [] op.t = "expand"   -> ExpandedFrom(x, below)
    [] op.t = "inlined"  -> HasInlinedFrom(x, below)
    [] op.t = "digestpaths" -> DigestPathsFrom(x, below)
    [] op.t = "nodepaths"   -> NodePathsFrom(x, below)
    [] op.t = "shape"    -> ShapeFrom(x, below)
    [] op.t = "proof"    -> ProofFrom(x, below)

\* The nodes below these.
NextLevel(op, nodes) == UNION {Range(BelowAt(op, x)): x \in nodes}

\* The nodes n steps below a root, as far as level m, or for every n.
IsLevel(f, op, root, m) ==
  f = [n \in 0..m |-> IF n = 0 THEN {root} ELSE NextLevel(op, f[n - 1])]
\* The levels of a fold, from its root.
AreLevels(f, op, root) ==
  f = [n \in Nat |-> IF n = 0 THEN {root} ELSE NextLevel(op, f[n - 1])]
Levels(op, root) == CHOOSE f: AreLevels(f, op, root)

\* What a fold makes at every level.
IsFold(f, op, root) ==
  f = [n \in Nat |-> [x \in Levels(op, root)[n] |->
         MadeAt(op, x, [i \in DOMAIN BelowAt(op, x) |-> f[n + 1][BelowAt(op, x)[i]]])]]
Fold(op, root) == (CHOOSE f: IsFold(f, op, root))[0][root]

\* There are levels as far as any number.
LEMMA LevelsExist ==
  ASSUME NEW op, NEW root
  PROVE  \A n \in Nat: \E f: IsLevel(f, op, root, n)
<1> DEFINE S == {n \in Nat: \E f: IsLevel(f, op, root, n)}
<1>1. 0 \in S
  <2>1. IsLevel([k \in 0..0 |-> {root}], op, root, 0)
    BY DEF IsLevel
  <2> QED
    BY <2>1
<1>2. ASSUME NEW n \in Nat, n \in S PROVE n + 1 \in S
  <2>1. PICK f: IsLevel(f, op, root, n)
    BY <1>2
  <2> DEFINE next == [k \in 0..(n + 1) |-> IF k = n + 1 THEN NextLevel(op, f[n]) ELSE f[k]]
  <2>2. \A k \in 0..n: f[k] = IF k = 0 THEN {root} ELSE NextLevel(op, f[k - 1])
    BY <2>1 DEF IsLevel
  <2>3. \A k \in 0..(n + 1): next[k] = IF k = 0 THEN {root} ELSE NextLevel(op, next[k - 1])
    <3>1. \A k \in 0..n: next[k] = f[k]
      OBVIOUS
    <3>2. next[n + 1] = NextLevel(op, f[n])
      OBVIOUS
    <3> HIDE DEF next
    <3>3. \A k \in 1..(n + 1): k - 1 \in 0..n
      OBVIOUS
    <3> QED
      BY <2>2, <3>1, <3>2, <3>3
  <2>4. next = [k \in 0..(n + 1) |-> next[k]]
    OBVIOUS
  <2> HIDE DEF next
  <2>5. IsLevel(next, op, root, n + 1)
    BY <2>3, <2>4 DEF IsLevel
  <2> QED
    BY <2>5
<1> HIDE DEF S
<1>3. \A n \in Nat: n \in S
  BY <1>1, <1>2, StepInduction
<1> QED
  BY <1>3 DEF S

\* They agree as far as they go.
LEMMA LevelsAgree ==
  ASSUME NEW op, NEW root, NEW m \in Nat, NEW f, IsLevel(f, op, root, m),
         NEW n \in Nat, NEW g, IsLevel(g, op, root, n)
  PROVE  \A k \in Nat: k <= m /\ k <= n => f[k] = g[k]
<1> DEFINE S == {k \in Nat: k <= m /\ k <= n => f[k] = g[k]}
<1>a. \A k \in 0..m: f[k] = IF k = 0 THEN {root} ELSE NextLevel(op, f[k - 1])
  BY DEF IsLevel
<1>b. \A k \in 0..n: g[k] = IF k = 0 THEN {root} ELSE NextLevel(op, g[k - 1])
  BY DEF IsLevel
<1>1. 0 \in S
  BY <1>a, <1>b
<1>2. ASSUME NEW k \in Nat, k \in S PROVE k + 1 \in S
  BY <1>a, <1>b, <1>2
<1> HIDE DEF S
<1>3. \A k \in Nat: k \in S
  BY <1>1, <1>2, StepInduction
<1> QED
  BY <1>3 DEF S

\* The levels of a tree, one below another.
LEMMA LevelSteps ==
  ASSUME NEW op, NEW root
  PROVE  /\ Levels(op, root)[0] = {root}
         /\ \A n \in Nat: Levels(op, root)[n + 1] = NextLevel(op, Levels(op, root)[n])
<1> DEFINE w(n) == CHOOSE f: IsLevel(f, op, root, n)
           f == [n \in Nat |-> w(n)[n]]
<1>1. \A n \in Nat: IsLevel(w(n), op, root, n)
  BY LevelsExist
<1> HIDE DEF w
<1>2. \A n \in Nat: f[n] = IF n = 0 THEN {root} ELSE NextLevel(op, f[n - 1])
  <2> SUFFICES ASSUME NEW n \in Nat
               PROVE  f[n] = IF n = 0 THEN {root} ELSE NextLevel(op, f[n - 1])
    OBVIOUS
  <2>1. w(n)[n] = IF n = 0 THEN {root} ELSE NextLevel(op, w(n)[n - 1])
    <3>1. IsLevel(w(n), op, root, n) /\ n \in 0..n
      BY <1>1
    <3> QED
      BY <3>1 DEF IsLevel
  <2>2. CASE n = 0
    BY <2>1, <2>2
  <2>3. CASE n # 0
    <3>1. n - 1 \in Nat
      BY <2>3
    <3>2. w(n)[n - 1] = w(n - 1)[n - 1]
      BY <1>1, <3>1, LevelsAgree
    <3> QED
      BY <2>1, <2>3, <3>1, <3>2
  <2> QED
    BY <2>2, <2>3
<1>3. f = [n \in Nat |-> f[n]]
  OBVIOUS
<1> HIDE DEF f
<1>4. AreLevels(f, op, root)
  BY <1>2, <1>3 DEF AreLevels
<1>5. AreLevels(Levels(op, root), op, root)
  BY <1>4 DEF Levels
<1>6. ASSUME NEW n \in Nat PROVE Levels(op, root)[n + 1] = NextLevel(op, Levels(op, root)[n])
  <2>1. n + 1 \in Nat /\ n + 1 # 0 /\ (n + 1) - 1 = n
    OBVIOUS
  <2> QED
    BY <1>5, <2>1 DEF AreLevels
<1> QED
  BY <1>5, <1>6 DEF AreLevels

\* A tree of finite depth: what is below has a smaller rank.
AreRanked(S, op) ==
  \A x, l: <<x, l>> \in S =>
    l \in Nat /\ \A i \in DOMAIN BelowAt(op, x): \E k \in 0..(l - 1): <<BelowAt(op, x)[i], k>> \in S
\* The fold from x ends within l levels.
HasRank(op, x, l) == \E S: <<x, l>> \in S /\ AreRanked(S, op)

\* What the fold makes of a node of what it has made below.
MadeOver(op, x) == MadeAt(op, x, [i \in DOMAIN BelowAt(op, x) |-> Fold(op, BelowAt(op, x)[i])])

\* The fold of a tree of finite depth is what its recursion says.
LEMMA FoldUnfolds ==
  ASSUME NEW op, NEW top, NEW depth, HasRank(op, top, depth)
  PROVE  Fold(op, top) = MadeOver(op, top)
<1>1. PICK S: <<top, depth>> \in S /\ AreRanked(S, op)
  BY DEF HasRank
<1> DEFINE T == {l \in Nat: \A x: <<x, l>> \in S => Fold(op, x) = MadeOver(op, x)}
           Parts(x) == BelowAt(op, x)
<1>2. ASSUME NEW x, NEW l, <<x, l>> \in S
      PROVE  l \in Nat /\ \A i \in DOMAIN Parts(x): \E k \in 0..(l - 1): <<Parts(x)[i], k>> \in S
  BY <1>1, <1>2 DEF AreRanked
<1>3. ASSUME NEW l \in Nat, \A m \in 0..(l - 1): m \in T PROVE l \in T
  <2> SUFFICES ASSUME NEW root, <<root, l>> \in S PROVE Fold(op, root) = MadeOver(op, root)
    OBVIOUS
  <2> DEFINE L == Levels(op, root)
             IsIn(n, x) == \E m \in Nat: m + n <= l /\ <<x, m>> \in S
             N == {n \in Nat: \A x \in L[n]: IsIn(n, x)}
             f == [n \in Nat |-> [x \in L[n] |-> MadeOver(op, x)]]
  <2>1. L[0] = {root} /\ \A n \in Nat: L[n + 1] = UNION {Range(Parts(x)): x \in L[n]}
    BY LevelSteps DEF NextLevel
  <2>2. \A n \in Nat: \A x \in L[n]: \A i \in DOMAIN Parts(x): Parts(x)[i] \in L[n + 1]
    BY <2>1 DEF Range
  <2> HIDE DEF L, Parts
  <2>3. \A n \in Nat: n \in N
    <3>1. 0 \in N
      BY <2>1
    <3>2. ASSUME NEW n \in Nat, n \in N PROVE n + 1 \in N
      <4> SUFFICES ASSUME NEW y \in L[n + 1] PROVE IsIn(n + 1, y)
        OBVIOUS
      <4>1. PICK x \in L[n]: \E i \in DOMAIN Parts(x): y = Parts(x)[i]
        BY <2>1 DEF Range
      <4>2. PICK i \in DOMAIN Parts(x): y = Parts(x)[i]
        BY <4>1
      <4>3. PICK m \in Nat: m + n <= l /\ <<x, m>> \in S
        BY <3>2
      <4>4. PICK k \in 0..(m - 1): <<y, k>> \in S
        BY <1>2, <4>2, <4>3
      <4>5. k \in Nat /\ k + (n + 1) <= l
        BY <4>3
      <4> QED
        BY <4>4, <4>5
    <3> HIDE DEF N
    <3> QED
      BY <3>1, <3>2, StepInduction
  <2>4. ASSUME NEW n \in Nat, NEW x \in L[n], NEW i \in DOMAIN Parts(x)
        PROVE  Fold(op, Parts(x)[i]) = MadeOver(op, Parts(x)[i])
    <3>1. n + 1 \in N /\ Parts(x)[i] \in L[n + 1]
      BY <2>2, <2>3
    <3>2. PICK m \in Nat: m + (n + 1) <= l /\ <<Parts(x)[i], m>> \in S
      BY <3>1
    <3>3. m \in 0..(l - 1)
      BY <3>2
    <3>4. m \in T
      BY <1>3, <3>3
    <3> QED
      BY <3>2, <3>4
  <2>5. IsFold(f, op, root)
    <3>1. ASSUME NEW n \in Nat, NEW x \in L[n]
          PROVE  MadeOver(op, x) = MadeAt(op, x, [i \in DOMAIN Parts(x) |-> f[n + 1][Parts(x)[i]]])
      <4>1. \A i \in DOMAIN Parts(x): f[n + 1][Parts(x)[i]] = Fold(op, Parts(x)[i])
        BY <2>2, <2>4
      <4> HIDE DEF f
      <4>2. [i \in DOMAIN Parts(x) |-> f[n + 1][Parts(x)[i]]] = [i \in DOMAIN Parts(x) |-> Fold(op, Parts(x)[i])]
        BY <4>1
      <4> QED
        BY <4>2 DEF MadeOver, Parts
    <3> DEFINE g == [n \in Nat |-> [x \in L[n] |-> MadeAt(op, x, [i \in DOMAIN Parts(x) |-> f[n + 1][Parts(x)[i]]])]]
    <3>2. f = g
      <4> DEFINE h == f
      <4>1. \A n \in Nat: \A x \in L[n]: MadeOver(op, x) = MadeAt(op, x, [i \in DOMAIN Parts(x) |-> h[n + 1][Parts(x)[i]]])
        BY <3>1
      <4> HIDE DEF h
      <4>2. f = [n \in Nat |-> [x \in L[n] |-> MadeAt(op, x, [i \in DOMAIN Parts(x) |-> h[n + 1][Parts(x)[i]]])]]
        BY <4>1
      <4> QED
        BY <4>2 DEF h
    <3> HIDE DEF f
    <3> QED
      BY <3>2 DEF IsFold, L, Parts
  <2>6. ASSUME NEW g, IsFold(g, op, root) PROVE g[0][root] = MadeOver(op, root)
    <3>1. g = [n \in Nat |-> [x \in L[n] |-> MadeAt(op, x, [i \in DOMAIN Parts(x) |-> g[n + 1][Parts(x)[i]]])]]
      BY <2>6 DEF IsFold, L, Parts
    <3>2. ASSUME NEW n \in Nat, NEW x \in L[n]
          PROVE  g[n][x] = MadeAt(op, x, [i \in DOMAIN Parts(x) |-> g[n + 1][Parts(x)[i]]])
      <4> DEFINE E(k, y) == MadeAt(op, y, [i \in DOMAIN Parts(y) |-> g[k + 1][Parts(y)[i]]])
      <4>1. g = [k \in Nat |-> [y \in L[k] |-> E(k, y)]]
        BY <3>1
      <4> HIDE DEF E
      <4>2. g[n][x] = E(n, x)
        BY <4>1
      <4> QED
        BY <4>2 DEF E
    <3> DEFINE R == {m \in Nat: \A n \in Nat: \A x \in L[n]: <<x, m>> \in S => g[n][x] = MadeOver(op, x)}
    <3>3. ASSUME NEW m \in Nat, \A k \in 0..(m - 1): k \in R PROVE m \in R
      <4> SUFFICES ASSUME NEW n \in Nat, NEW x \in L[n], <<x, m>> \in S PROVE g[n][x] = MadeOver(op, x)
        OBVIOUS
      <4>1. ASSUME NEW i \in DOMAIN Parts(x) PROVE g[n + 1][Parts(x)[i]] = Fold(op, Parts(x)[i])
        <5>1. PICK k \in 0..(m - 1): <<Parts(x)[i], k>> \in S
          BY <1>2
        <5>2. n + 1 \in Nat /\ Parts(x)[i] \in L[n + 1] /\ k \in R
          BY <2>2, <3>3, <5>1
        <5>3. g[n + 1][Parts(x)[i]] = MadeOver(op, Parts(x)[i])
          BY <5>1, <5>2
        <5> QED
          BY <5>3, <2>4
      <4>2. [i \in DOMAIN Parts(x) |-> g[n + 1][Parts(x)[i]]] = [i \in DOMAIN Parts(x) |-> Fold(op, Parts(x)[i])]
        BY <4>1
      <4> QED
        BY <3>2, <4>2 DEF MadeOver, Parts
    <3> HIDE DEF R
    <3>4. \A m \in Nat: m \in R
      BY <3>3, SetInduction
    <3>5. l \in R /\ root \in L[0]
      BY <3>4, <2>1
    <3> QED
      BY <3>5 DEF R
  <2>7. IsFold(CHOOSE g: IsFold(g, op, root), op, root)
    BY <2>5
  <2> QED
    BY <2>6, <2>7 DEF Fold
<1> HIDE DEF T
<1>4. \A l \in Nat: l \in T
  BY <1>3, SetInduction
<1>5. depth \in Nat
  BY <1>1, <1>2
<1> QED
  BY <1>1, <1>4, <1>5 DEF T

\* NodeRef is one of them.
LEMMA RefIsFold ==
  ASSUME NEW x
  PROVE  NodeRef(x) = Fold(RefOp, x)
<1> DEFINE op == RefOp
<1>0. \A y: BelowAt(op, y) = ChildrenOf(y) /\ \A b: MadeAt(op, y, b) = RefFrom(y, b)
  BY DEF BelowAt, MadeAt, RefOp
<1> HIDE DEF op
<1> DEFINE EqL(f) == f = [n \in Nat |-> IF n = 0 THEN {x} ELSE UNION {Range(ChildrenOf(y)): y \in f[n - 1]}]
           L == CHOOSE f: EqL(f)
           Sub(f, n, y) == [i \in DOMAIN ChildrenOf(y) |-> f[n + 1][ChildrenOf(y)[i]]]
           EqM(f) == f = [n \in Nat |-> [y \in L[n] |-> RefFrom(y, Sub(f, n, y))]]
<1>1. NodeRef(x) = (CHOOSE f: EqM(f))[0][x]
  BY DEF NodeRef, FoldTree
<1>2. ASSUME NEW f PROVE EqL(f) <=> AreLevels(f, op, x)
  BY <1>0 DEF AreLevels, NextLevel
<1> HIDE DEF EqL
<1>3. L = Levels(op, x)
  BY <1>2 DEF Levels
<1> HIDE DEF L
<1>4. ASSUME NEW f PROVE EqM(f) <=> IsFold(f, op, x)
  <2> DEFINE SubAt(n, y) == [i \in DOMAIN BelowAt(op, y) |-> f[n + 1][BelowAt(op, y)[i]]]
  <2>1. \A n, y: Sub(f, n, y) = SubAt(n, y)
    BY <1>0
  <2>2. IsFold(f, op, x) <=> f = [n \in Nat |-> [y \in L[n] |-> MadeAt(op, y, SubAt(n, y))]]
    BY <1>3 DEF IsFold
  <2> HIDE DEF Sub, SubAt
  <2>3. \A n, y: RefFrom(y, Sub(f, n, y)) = MadeAt(op, y, SubAt(n, y))
    BY <1>0, <2>1
  <2> QED
    BY <2>2, <2>3
<1> HIDE DEF EqM
<1>5. (CHOOSE f: EqM(f)) = CHOOSE f: IsFold(f, op, x)
  BY <1>4
<1> QED
  BY <1>1, <1>5 DEF Fold, op

\* Memoize is one of them.
LEMMA MemoizeIsFold ==
  ASSUME NEW x
  PROVE  Memoize(x) = Fold(MemoizeOp, x)
<1> DEFINE op == MemoizeOp
<1>0. \A y: BelowAt(op, y) = ChildrenOf(y) /\ \A b: MadeAt(op, y, b) = MemoizeFrom(y, b)
  BY DEF BelowAt, MadeAt, MemoizeOp
<1> HIDE DEF op
<1> DEFINE EqL(f) == f = [n \in Nat |-> IF n = 0 THEN {x} ELSE UNION {Range(ChildrenOf(y)): y \in f[n - 1]}]
           L == CHOOSE f: EqL(f)
           Sub(f, n, y) == [i \in DOMAIN ChildrenOf(y) |-> f[n + 1][ChildrenOf(y)[i]]]
           EqM(f) == f = [n \in Nat |-> [y \in L[n] |-> MemoizeFrom(y, Sub(f, n, y))]]
<1>1. Memoize(x) = (CHOOSE f: EqM(f))[0][x]
  BY DEF Memoize, FoldTree
<1>2. ASSUME NEW f PROVE EqL(f) <=> AreLevels(f, op, x)
  BY <1>0 DEF AreLevels, NextLevel
<1> HIDE DEF EqL
<1>3. L = Levels(op, x)
  BY <1>2 DEF Levels
<1> HIDE DEF L
<1>4. ASSUME NEW f PROVE EqM(f) <=> IsFold(f, op, x)
  <2> DEFINE SubAt(n, y) == [i \in DOMAIN BelowAt(op, y) |-> f[n + 1][BelowAt(op, y)[i]]]
  <2>1. \A n, y: Sub(f, n, y) = SubAt(n, y)
    BY <1>0
  <2>2. IsFold(f, op, x) <=> f = [n \in Nat |-> [y \in L[n] |-> MadeAt(op, y, SubAt(n, y))]]
    BY <1>3 DEF IsFold
  <2> HIDE DEF Sub, SubAt
  <2>3. \A n, y: MemoizeFrom(y, Sub(f, n, y)) = MadeAt(op, y, SubAt(n, y))
    BY <1>0, <2>1
  <2> QED
    BY <2>2, <2>3
<1> HIDE DEF EqM
<1>5. (CHOOSE f: EqM(f)) = CHOOSE f: IsFold(f, op, x)
  BY <1>4
<1> QED
  BY <1>1, <1>5 DEF Fold, op

\* Decode is one of them.
LEMMA DecodeIsFold ==
  ASSUME NEW x
  PROVE  Decode(x) = Fold(DecodeOp, x)
<1> DEFINE op == DecodeOp
<1>0. \A y: BelowAt(op, y) = ChildrenOf(y) /\ \A b: MadeAt(op, y, b) = DecodeFrom(y, b)
  BY DEF BelowAt, MadeAt, DecodeOp
<1> HIDE DEF op
<1> DEFINE EqL(f) == f = [n \in Nat |-> IF n = 0 THEN {x} ELSE UNION {Range(ChildrenOf(y)): y \in f[n - 1]}]
           L == CHOOSE f: EqL(f)
           Sub(f, n, y) == [i \in DOMAIN ChildrenOf(y) |-> f[n + 1][ChildrenOf(y)[i]]]
           EqM(f) == f = [n \in Nat |-> [y \in L[n] |-> DecodeFrom(y, Sub(f, n, y))]]
<1>1. Decode(x) = (CHOOSE f: EqM(f))[0][x]
  BY DEF Decode, FoldTree
<1>2. ASSUME NEW f PROVE EqL(f) <=> AreLevels(f, op, x)
  BY <1>0 DEF AreLevels, NextLevel
<1> HIDE DEF EqL
<1>3. L = Levels(op, x)
  BY <1>2 DEF Levels
<1> HIDE DEF L
<1>4. ASSUME NEW f PROVE EqM(f) <=> IsFold(f, op, x)
  <2> DEFINE SubAt(n, y) == [i \in DOMAIN BelowAt(op, y) |-> f[n + 1][BelowAt(op, y)[i]]]
  <2>1. \A n, y: Sub(f, n, y) = SubAt(n, y)
    BY <1>0
  <2>2. IsFold(f, op, x) <=> f = [n \in Nat |-> [y \in L[n] |-> MadeAt(op, y, SubAt(n, y))]]
    BY <1>3 DEF IsFold
  <2> HIDE DEF Sub, SubAt
  <2>3. \A n, y: DecodeFrom(y, Sub(f, n, y)) = MadeAt(op, y, SubAt(n, y))
    BY <1>0, <2>1
  <2> QED
    BY <2>2, <2>3
<1> HIDE DEF EqM
<1>5. (CHOOSE f: EqM(f)) = CHOOSE f: IsFold(f, op, x)
  BY <1>4
<1> QED
  BY <1>1, <1>5 DEF Fold, op

\* ResolveDigests is one of them.
LEMMA ResolveIsFold ==
  ASSUME NEW x, NEW rlps
  PROVE  ResolveDigests(x, rlps) = Fold(ResolveOp(rlps), x)
<1> DEFINE op == ResolveOp(rlps)
<1>0. \A y: BelowAt(op, y) = (IF IsSupplied(y, rlps) THEN BelowDigests(y) ELSE <<>>) /\ \A b: MadeAt(op, y, b) = ResolveFrom(y, b)
  BY DEF BelowAt, MadeAt, ResolveOp
<1> HIDE DEF op
<1> DEFINE EqL(f) == f = [n \in Nat |-> IF n = 0 THEN {x} ELSE UNION {Range((IF IsSupplied(y, rlps) THEN BelowDigests(y) ELSE <<>>)): y \in f[n - 1]}]
           L == CHOOSE f: EqL(f)
           Sub(f, n, y) == [i \in DOMAIN (IF IsSupplied(y, rlps) THEN BelowDigests(y) ELSE <<>>) |-> f[n + 1][(IF IsSupplied(y, rlps) THEN BelowDigests(y) ELSE <<>>)[i]]]
           EqM(f) == f = [n \in Nat |-> [y \in L[n] |-> ResolveFrom(y, Sub(f, n, y))]]
<1>1. ResolveDigests(x, rlps) = (CHOOSE f: EqM(f))[0][x]
  BY DEF ResolveDigests, FoldTree
<1>2. ASSUME NEW f PROVE EqL(f) <=> AreLevels(f, op, x)
  BY <1>0 DEF AreLevels, NextLevel
<1> HIDE DEF EqL
<1>3. L = Levels(op, x)
  BY <1>2 DEF Levels
<1> HIDE DEF L
<1>4. ASSUME NEW f PROVE EqM(f) <=> IsFold(f, op, x)
  <2> DEFINE SubAt(n, y) == [i \in DOMAIN BelowAt(op, y) |-> f[n + 1][BelowAt(op, y)[i]]]
  <2>1. \A n, y: Sub(f, n, y) = SubAt(n, y)
    BY <1>0
  <2>2. IsFold(f, op, x) <=> f = [n \in Nat |-> [y \in L[n] |-> MadeAt(op, y, SubAt(n, y))]]
    BY <1>3 DEF IsFold
  <2> HIDE DEF Sub, SubAt
  <2>3. \A n, y: ResolveFrom(y, Sub(f, n, y)) = MadeAt(op, y, SubAt(n, y))
    BY <1>0, <2>1
  <2> QED
    BY <2>2, <2>3
<1> HIDE DEF EqM
<1>5. (CHOOSE f: EqM(f)) = CHOOSE f: IsFold(f, op, x)
  BY <1>4
<1> QED
  BY <1>1, <1>5 DEF Fold, op

\* Uncached is one of them.
LEMMA UncachedIsFold ==
  ASSUME NEW x
  PROVE  Uncached(x) = Fold(UncachedOp, x)
<1> DEFINE op == UncachedOp
<1>0. \A y: BelowAt(op, y) = ChildrenOf(y) /\ \A b: MadeAt(op, y, b) = UncachedFrom(y, b)
  BY DEF BelowAt, MadeAt, UncachedOp
<1> HIDE DEF op
<1> DEFINE EqL(f) == f = [n \in Nat |-> IF n = 0 THEN {x} ELSE UNION {Range(ChildrenOf(y)): y \in f[n - 1]}]
           L == CHOOSE f: EqL(f)
           Sub(f, n, y) == [i \in DOMAIN ChildrenOf(y) |-> f[n + 1][ChildrenOf(y)[i]]]
           EqM(f) == f = [n \in Nat |-> [y \in L[n] |-> UncachedFrom(y, Sub(f, n, y))]]
<1>1. Uncached(x) = (CHOOSE f: EqM(f))[0][x]
  BY DEF Uncached, FoldTree
<1>2. ASSUME NEW f PROVE EqL(f) <=> AreLevels(f, op, x)
  BY <1>0 DEF AreLevels, NextLevel
<1> HIDE DEF EqL
<1>3. L = Levels(op, x)
  BY <1>2 DEF Levels
<1> HIDE DEF L
<1>4. ASSUME NEW f PROVE EqM(f) <=> IsFold(f, op, x)
  <2> DEFINE SubAt(n, y) == [i \in DOMAIN BelowAt(op, y) |-> f[n + 1][BelowAt(op, y)[i]]]
  <2>1. \A n, y: Sub(f, n, y) = SubAt(n, y)
    BY <1>0
  <2>2. IsFold(f, op, x) <=> f = [n \in Nat |-> [y \in L[n] |-> MadeAt(op, y, SubAt(n, y))]]
    BY <1>3 DEF IsFold
  <2> HIDE DEF Sub, SubAt
  <2>3. \A n, y: UncachedFrom(y, Sub(f, n, y)) = MadeAt(op, y, SubAt(n, y))
    BY <1>0, <2>1
  <2> QED
    BY <2>2, <2>3
<1> HIDE DEF EqM
<1>5. (CHOOSE f: EqM(f)) = CHOOSE f: IsFold(f, op, x)
  BY <1>4
<1> QED
  BY <1>1, <1>5 DEF Fold, op

\* NodePrune is one of them.
LEMMA PruneIsFold ==
  ASSUME NEW x, NEW path, NEW keys
  PROVE  NodePrune(x, path, keys) = Fold(PruneOp(keys), x)[path][keys]
<1> DEFINE op == PruneOp(keys)
<1>0. \A y: BelowAt(op, y) = ChildrenOf(y) /\ \A b: MadeAt(op, y, b) = PruneFrom(keys, y, b)
  BY DEF BelowAt, MadeAt, PruneOp
<1> HIDE DEF op
<1> DEFINE EqL(f) == f = [n \in Nat |-> IF n = 0 THEN {x} ELSE UNION {Range(ChildrenOf(y)): y \in f[n - 1]}]
           L == CHOOSE f: EqL(f)
           Sub(f, n, y) == [i \in DOMAIN ChildrenOf(y) |-> f[n + 1][ChildrenOf(y)[i]]]
           EqM(f) == f = [n \in Nat |-> [y \in L[n] |-> PruneFrom(keys, y, Sub(f, n, y))]]
<1>1. NodePrune(x, path, keys) = (CHOOSE f: EqM(f))[0][x][path][keys]
  BY DEF NodePrune, FoldTree
<1>2. ASSUME NEW f PROVE EqL(f) <=> AreLevels(f, op, x)
  BY <1>0 DEF AreLevels, NextLevel
<1> HIDE DEF EqL
<1>3. L = Levels(op, x)
  BY <1>2 DEF Levels
<1> HIDE DEF L
<1>4. ASSUME NEW f PROVE EqM(f) <=> IsFold(f, op, x)
  <2> DEFINE SubAt(n, y) == [i \in DOMAIN BelowAt(op, y) |-> f[n + 1][BelowAt(op, y)[i]]]
  <2>1. \A n, y: Sub(f, n, y) = SubAt(n, y)
    BY <1>0
  <2>2. IsFold(f, op, x) <=> f = [n \in Nat |-> [y \in L[n] |-> MadeAt(op, y, SubAt(n, y))]]
    BY <1>3 DEF IsFold
  <2> HIDE DEF Sub, SubAt
  <2>3. \A n, y: PruneFrom(keys, y, Sub(f, n, y)) = MadeAt(op, y, SubAt(n, y))
    BY <1>0, <2>1
  <2> QED
    BY <2>2, <2>3
<1> HIDE DEF EqM
<1>5. (CHOOSE f: EqM(f)) = CHOOSE f: IsFold(f, op, x)
  BY <1>4
<1> QED
  BY <1>1, <1>5 DEF Fold, op

\* TrieOf is one of them.
LEMMA TrieIsFold ==
  ASSUME NEW x
  PROVE  TrieOf(x) = Fold(TrieOp, x)
<1> DEFINE op == TrieOp
<1>0. \A y: BelowAt(op, y) = MapsBelow(y) /\ \A b: MadeAt(op, y, b) = TrieFrom(y, b)
  BY DEF BelowAt, MadeAt, TrieOp
<1> HIDE DEF op
<1> DEFINE EqL(f) == f = [n \in Nat |-> IF n = 0 THEN {x} ELSE UNION {Range(MapsBelow(y)): y \in f[n - 1]}]
           L == CHOOSE f: EqL(f)
           Sub(f, n, y) == [i \in DOMAIN MapsBelow(y) |-> f[n + 1][MapsBelow(y)[i]]]
           EqM(f) == f = [n \in Nat |-> [y \in L[n] |-> TrieFrom(y, Sub(f, n, y))]]
<1>1. TrieOf(x) = (CHOOSE f: EqM(f))[0][x]
  BY DEF TrieOf, FoldTree
<1>2. ASSUME NEW f PROVE EqL(f) <=> AreLevels(f, op, x)
  BY <1>0 DEF AreLevels, NextLevel
<1> HIDE DEF EqL
<1>3. L = Levels(op, x)
  BY <1>2 DEF Levels
<1> HIDE DEF L
<1>4. ASSUME NEW f PROVE EqM(f) <=> IsFold(f, op, x)
  <2> DEFINE SubAt(n, y) == [i \in DOMAIN BelowAt(op, y) |-> f[n + 1][BelowAt(op, y)[i]]]
  <2>1. \A n, y: Sub(f, n, y) = SubAt(n, y)
    BY <1>0
  <2>2. IsFold(f, op, x) <=> f = [n \in Nat |-> [y \in L[n] |-> MadeAt(op, y, SubAt(n, y))]]
    BY <1>3 DEF IsFold
  <2> HIDE DEF Sub, SubAt
  <2>3. \A n, y: TrieFrom(y, Sub(f, n, y)) = MadeAt(op, y, SubAt(n, y))
    BY <1>0, <2>1
  <2> QED
    BY <2>2, <2>3
<1> HIDE DEF EqM
<1>5. (CHOOSE f: EqM(f)) = CHOOSE f: IsFold(f, op, x)
  BY <1>4
<1> QED
  BY <1>1, <1>5 DEF Fold, op

\* Expanded is one of them.
LEMMA ExpandedIsFold ==
  ASSUME NEW x
  PROVE  Expanded(x) = Fold(ExpandOp, x)
<1> DEFINE op == ExpandOp
<1>0. \A y: BelowAt(op, y) = BelowDigests(y) /\ \A b: MadeAt(op, y, b) = ExpandedFrom(y, b)
  BY DEF BelowAt, MadeAt, ExpandOp
<1> HIDE DEF op
<1> DEFINE EqL(f) == f = [n \in Nat |-> IF n = 0 THEN {x} ELSE UNION {Range(BelowDigests(y)): y \in f[n - 1]}]
           L == CHOOSE f: EqL(f)
           Sub(f, n, y) == [i \in DOMAIN BelowDigests(y) |-> f[n + 1][BelowDigests(y)[i]]]
           EqM(f) == f = [n \in Nat |-> [y \in L[n] |-> ExpandedFrom(y, Sub(f, n, y))]]
<1>1. Expanded(x) = (CHOOSE f: EqM(f))[0][x]
  BY DEF Expanded, FoldTree
<1>2. ASSUME NEW f PROVE EqL(f) <=> AreLevels(f, op, x)
  BY <1>0 DEF AreLevels, NextLevel
<1> HIDE DEF EqL
<1>3. L = Levels(op, x)
  BY <1>2 DEF Levels
<1> HIDE DEF L
<1>4. ASSUME NEW f PROVE EqM(f) <=> IsFold(f, op, x)
  <2> DEFINE SubAt(n, y) == [i \in DOMAIN BelowAt(op, y) |-> f[n + 1][BelowAt(op, y)[i]]]
  <2>1. \A n, y: Sub(f, n, y) = SubAt(n, y)
    BY <1>0
  <2>2. IsFold(f, op, x) <=> f = [n \in Nat |-> [y \in L[n] |-> MadeAt(op, y, SubAt(n, y))]]
    BY <1>3 DEF IsFold
  <2> HIDE DEF Sub, SubAt
  <2>3. \A n, y: ExpandedFrom(y, Sub(f, n, y)) = MadeAt(op, y, SubAt(n, y))
    BY <1>0, <2>1
  <2> QED
    BY <2>2, <2>3
<1> HIDE DEF EqM
<1>5. (CHOOSE f: EqM(f)) = CHOOSE f: IsFold(f, op, x)
  BY <1>4
<1> QED
  BY <1>1, <1>5 DEF Fold, op

\* HasInlined is one of them.
LEMMA InlinedIsFold ==
  ASSUME NEW x
  PROVE  HasInlined(x) = Fold(InlinedOp, x)
<1> DEFINE op == InlinedOp
<1>0. \A y: BelowAt(op, y) = ChildrenOf(y) /\ \A b: MadeAt(op, y, b) = HasInlinedFrom(y, b)
  BY DEF BelowAt, MadeAt, InlinedOp
<1> HIDE DEF op
<1> DEFINE EqL(f) == f = [n \in Nat |-> IF n = 0 THEN {x} ELSE UNION {Range(ChildrenOf(y)): y \in f[n - 1]}]
           L == CHOOSE f: EqL(f)
           Sub(f, n, y) == [i \in DOMAIN ChildrenOf(y) |-> f[n + 1][ChildrenOf(y)[i]]]
           EqM(f) == f = [n \in Nat |-> [y \in L[n] |-> HasInlinedFrom(y, Sub(f, n, y))]]
<1>1. HasInlined(x) = (CHOOSE f: EqM(f))[0][x]
  BY DEF HasInlined, FoldTree
<1>2. ASSUME NEW f PROVE EqL(f) <=> AreLevels(f, op, x)
  BY <1>0 DEF AreLevels, NextLevel
<1> HIDE DEF EqL
<1>3. L = Levels(op, x)
  BY <1>2 DEF Levels
<1> HIDE DEF L
<1>4. ASSUME NEW f PROVE EqM(f) <=> IsFold(f, op, x)
  <2> DEFINE SubAt(n, y) == [i \in DOMAIN BelowAt(op, y) |-> f[n + 1][BelowAt(op, y)[i]]]
  <2>1. \A n, y: Sub(f, n, y) = SubAt(n, y)
    BY <1>0
  <2>2. IsFold(f, op, x) <=> f = [n \in Nat |-> [y \in L[n] |-> MadeAt(op, y, SubAt(n, y))]]
    BY <1>3 DEF IsFold
  <2> HIDE DEF Sub, SubAt
  <2>3. \A n, y: HasInlinedFrom(y, Sub(f, n, y)) = MadeAt(op, y, SubAt(n, y))
    BY <1>0, <2>1
  <2> QED
    BY <2>2, <2>3
<1> HIDE DEF EqM
<1>5. (CHOOSE f: EqM(f)) = CHOOSE f: IsFold(f, op, x)
  BY <1>4
<1> QED
  BY <1>1, <1>5 DEF Fold, op

\* DigestPaths is one of them.
LEMMA DigestPathsIsFold ==
  ASSUME NEW x
  PROVE  DigestPaths(x) = Fold(DigestPathsOp, x)
<1> DEFINE op == DigestPathsOp
<1>0. \A y: BelowAt(op, y) = ChildrenOf(y) /\ \A b: MadeAt(op, y, b) = DigestPathsFrom(y, b)
  BY DEF BelowAt, MadeAt, DigestPathsOp
<1> HIDE DEF op
<1> DEFINE EqL(f) == f = [n \in Nat |-> IF n = 0 THEN {x} ELSE UNION {Range(ChildrenOf(y)): y \in f[n - 1]}]
           L == CHOOSE f: EqL(f)
           Sub(f, n, y) == [i \in DOMAIN ChildrenOf(y) |-> f[n + 1][ChildrenOf(y)[i]]]
           EqM(f) == f = [n \in Nat |-> [y \in L[n] |-> DigestPathsFrom(y, Sub(f, n, y))]]
<1>1. DigestPaths(x) = (CHOOSE f: EqM(f))[0][x]
  BY DEF DigestPaths, FoldTree
<1>2. ASSUME NEW f PROVE EqL(f) <=> AreLevels(f, op, x)
  BY <1>0 DEF AreLevels, NextLevel
<1> HIDE DEF EqL
<1>3. L = Levels(op, x)
  BY <1>2 DEF Levels
<1> HIDE DEF L
<1>4. ASSUME NEW f PROVE EqM(f) <=> IsFold(f, op, x)
  <2> DEFINE SubAt(n, y) == [i \in DOMAIN BelowAt(op, y) |-> f[n + 1][BelowAt(op, y)[i]]]
  <2>1. \A n, y: Sub(f, n, y) = SubAt(n, y)
    BY <1>0
  <2>2. IsFold(f, op, x) <=> f = [n \in Nat |-> [y \in L[n] |-> MadeAt(op, y, SubAt(n, y))]]
    BY <1>3 DEF IsFold
  <2> HIDE DEF Sub, SubAt
  <2>3. \A n, y: DigestPathsFrom(y, Sub(f, n, y)) = MadeAt(op, y, SubAt(n, y))
    BY <1>0, <2>1
  <2> QED
    BY <2>2, <2>3
<1> HIDE DEF EqM
<1>5. (CHOOSE f: EqM(f)) = CHOOSE f: IsFold(f, op, x)
  BY <1>4
<1> QED
  BY <1>1, <1>5 DEF Fold, op

\* NodePaths is one of them.
LEMMA NodePathsIsFold ==
  ASSUME NEW x
  PROVE  NodePaths(x) = Fold(NodePathsOp, x)
<1> DEFINE op == NodePathsOp
<1>0. \A y: BelowAt(op, y) = ChildrenOf(y) /\ \A b: MadeAt(op, y, b) = NodePathsFrom(y, b)
  BY DEF BelowAt, MadeAt, NodePathsOp
<1> HIDE DEF op
<1> DEFINE EqL(f) == f = [n \in Nat |-> IF n = 0 THEN {x} ELSE UNION {Range(ChildrenOf(y)): y \in f[n - 1]}]
           L == CHOOSE f: EqL(f)
           Sub(f, n, y) == [i \in DOMAIN ChildrenOf(y) |-> f[n + 1][ChildrenOf(y)[i]]]
           EqM(f) == f = [n \in Nat |-> [y \in L[n] |-> NodePathsFrom(y, Sub(f, n, y))]]
<1>1. NodePaths(x) = (CHOOSE f: EqM(f))[0][x]
  BY DEF NodePaths, FoldTree
<1>2. ASSUME NEW f PROVE EqL(f) <=> AreLevels(f, op, x)
  BY <1>0 DEF AreLevels, NextLevel
<1> HIDE DEF EqL
<1>3. L = Levels(op, x)
  BY <1>2 DEF Levels
<1> HIDE DEF L
<1>4. ASSUME NEW f PROVE EqM(f) <=> IsFold(f, op, x)
  <2> DEFINE SubAt(n, y) == [i \in DOMAIN BelowAt(op, y) |-> f[n + 1][BelowAt(op, y)[i]]]
  <2>1. \A n, y: Sub(f, n, y) = SubAt(n, y)
    BY <1>0
  <2>2. IsFold(f, op, x) <=> f = [n \in Nat |-> [y \in L[n] |-> MadeAt(op, y, SubAt(n, y))]]
    BY <1>3 DEF IsFold
  <2> HIDE DEF Sub, SubAt
  <2>3. \A n, y: NodePathsFrom(y, Sub(f, n, y)) = MadeAt(op, y, SubAt(n, y))
    BY <1>0, <2>1
  <2> QED
    BY <2>2, <2>3
<1> HIDE DEF EqM
<1>5. (CHOOSE f: EqM(f)) = CHOOSE f: IsFold(f, op, x)
  BY <1>4
<1> QED
  BY <1>1, <1>5 DEF Fold, op

\* WellFormedNode is one of them.
LEMMA ShapeIsFold ==
  ASSUME NEW node, NEW rest, NEW x, x = <<node, rest>>
  PROVE  WellFormedNode(node, rest) = Fold(ShapeOp, x)
<1> DEFINE op == ShapeOp
<1>0. \A y: BelowAt(op, y) = PlacesBelow(y) /\ \A b: MadeAt(op, y, b) = ShapeFrom(y, b)
  BY DEF BelowAt, MadeAt, ShapeOp
<1> HIDE DEF op
<1> DEFINE EqL(f) == f = [n \in Nat |-> IF n = 0 THEN {x} ELSE UNION {Range(PlacesBelow(y)): y \in f[n - 1]}]
           L == CHOOSE f: EqL(f)
           Sub(f, n, y) == [i \in DOMAIN PlacesBelow(y) |-> f[n + 1][PlacesBelow(y)[i]]]
           EqM(f) == f = [n \in Nat |-> [y \in L[n] |-> ShapeFrom(y, Sub(f, n, y))]]
<1>1. WellFormedNode(node, rest) = (CHOOSE f: EqM(f))[0][x]
  BY DEF WellFormedNode, FoldTree
<1>2. ASSUME NEW f PROVE EqL(f) <=> AreLevels(f, op, x)
  BY <1>0 DEF AreLevels, NextLevel
<1> HIDE DEF EqL
<1>3. L = Levels(op, x)
  BY <1>2 DEF Levels
<1> HIDE DEF L
<1>4. ASSUME NEW f PROVE EqM(f) <=> IsFold(f, op, x)
  <2> DEFINE SubAt(n, y) == [i \in DOMAIN BelowAt(op, y) |-> f[n + 1][BelowAt(op, y)[i]]]
  <2>1. \A n, y: Sub(f, n, y) = SubAt(n, y)
    BY <1>0
  <2>2. IsFold(f, op, x) <=> f = [n \in Nat |-> [y \in L[n] |-> MadeAt(op, y, SubAt(n, y))]]
    BY <1>3 DEF IsFold
  <2> HIDE DEF Sub, SubAt
  <2>3. \A n, y: ShapeFrom(y, Sub(f, n, y)) = MadeAt(op, y, SubAt(n, y))
    BY <1>0, <2>1
  <2> QED
    BY <2>2, <2>3
<1> HIDE DEF EqM
<1>5. (CHOOSE f: EqM(f)) = CHOOSE f: IsFold(f, op, x)
  BY <1>4
<1> QED
  BY <1>1, <1>5 DEF Fold, op

\* Proof is one of them.
LEMMA ProofIsFold ==
  ASSUME NEW node, NEW key, NEW x, x = Place(node, key)
  PROVE  Proof(node, key) = Fold(ProofOp, x)
<1> DEFINE op == ProofOp
<1>0. \A y: BelowAt(op, y) = NextDigest(y) /\ \A b: MadeAt(op, y, b) = ProofFrom(y, b)
  BY DEF BelowAt, MadeAt, ProofOp
<1> HIDE DEF op
<1> DEFINE EqL(f) == f = [n \in Nat |-> IF n = 0 THEN {x} ELSE UNION {Range(NextDigest(y)): y \in f[n - 1]}]
           L == CHOOSE f: EqL(f)
           Sub(f, n, y) == [i \in DOMAIN NextDigest(y) |-> f[n + 1][NextDigest(y)[i]]]
           EqM(f) == f = [n \in Nat |-> [y \in L[n] |-> ProofFrom(y, Sub(f, n, y))]]
<1>1. Proof(node, key) = (CHOOSE f: EqM(f))[0][x]
  BY DEF Proof, FoldTree, ProofFrom, Place
<1>2. ASSUME NEW f PROVE EqL(f) <=> AreLevels(f, op, x)
  BY <1>0 DEF AreLevels, NextLevel
<1> HIDE DEF EqL
<1>3. L = Levels(op, x)
  BY <1>2 DEF Levels
<1> HIDE DEF L
<1>4. ASSUME NEW f PROVE EqM(f) <=> IsFold(f, op, x)
  <2> DEFINE SubAt(n, y) == [i \in DOMAIN BelowAt(op, y) |-> f[n + 1][BelowAt(op, y)[i]]]
  <2>1. \A n, y: Sub(f, n, y) = SubAt(n, y)
    BY <1>0
  <2>2. IsFold(f, op, x) <=> f = [n \in Nat |-> [y \in L[n] |-> MadeAt(op, y, SubAt(n, y))]]
    BY <1>3 DEF IsFold
  <2> HIDE DEF Sub, SubAt
  <2>3. \A n, y: ProofFrom(y, Sub(f, n, y)) = MadeAt(op, y, SubAt(n, y))
    BY <1>0, <2>1
  <2> QED
    BY <2>2, <2>3
<1> HIDE DEF EqM
<1>5. (CHOOSE f: EqM(f)) = CHOOSE f: IsFold(f, op, x)
  BY <1>4
<1> QED
  BY <1>1, <1>5 DEF Fold, op

-----------------------------------------------------------------------------
\* Tries without a digest or a cache: the ones that the others stand for.

\* A node of a full trie has no digest and no cache.
FullHere(node, rest) == Made(node, rest) /\ node.t # "digest" /\ node.cache = NoCache

AreFull(S) ==
  \A node, rest: <<node, rest>> \in S =>
    FullHere(node, rest) /\ \A below \in Children(node, rest): below \in S

\* Full tries whose keys have a length of rest.
Full(node, rest) == \E S: <<node, rest>> \in S /\ AreFull(S)

\* They are tries, and so is what is below them.
LEMMA FullBelow ==
  ASSUME NEW node, NEW rest, Full(node, rest)
  PROVE  /\ Shape(node, rest) /\ FullHere(node, rest)
         /\ \A n, r: <<n, r>> \in Children(node, rest) => Full(n, r)
<1>1. PICK S: <<node, rest>> \in S /\ AreFull(S)
  BY DEF Full
<1>2. IsClosed(S)
  BY <1>1 DEF AreFull, IsClosed, FullHere
<1> QED
  BY <1>1, <1>2 DEF Shape, Full, AreFull

\* A node over such tries is one.
LEMMA FullAbove ==
  ASSUME NEW node, NEW rest, FullHere(node, rest),
         \A below \in Children(node, rest): \E n, r: below = <<n, r>> /\ Full(n, r)
  PROVE  Full(node, rest)
<1> DEFINE Holds(below, S) == below \in S /\ AreFull(S)
           C(below) == CHOOSE S: Holds(below, S)
           T == {<<node, rest>>} \cup UNION {C(below): below \in Children(node, rest)}
<1>1. \A below \in Children(node, rest): Holds(below, C(below))
  <2> SUFFICES ASSUME NEW below \in Children(node, rest) PROVE Holds(below, C(below))
    OBVIOUS
  <2>1. \E S: Holds(below, S)
    BY DEF Full
  <2> QED
    BY <2>1
<1> HIDE DEF C
<1>2. <<node, rest>> \in T
  OBVIOUS
<1>3. ASSUME NEW n, NEW r, <<n, r>> \in T
      PROVE  FullHere(n, r) /\ \A below \in Children(n, r): below \in T
  <2>1. CASE <<n, r>> = <<node, rest>>
    <3>1. n = node /\ r = rest
      BY <2>1
    <3>2. \A below \in Children(node, rest): below \in T
      BY <1>1
    <3> QED
      BY <3>1, <3>2
  <2>2. CASE <<n, r>> # <<node, rest>>
    <3>1. PICK b \in Children(node, rest): <<n, r>> \in C(b)
      BY <1>3, <2>2
    <3>2. AreFull(C(b))
      BY <1>1
    <3>3. FullHere(n, r) /\ \A below \in Children(n, r): below \in C(b)
      BY <3>1, <3>2 DEF AreFull
    <3>4. \A x \in C(b): x \in T
      OBVIOUS
    <3> QED
      BY <3>3, <3>4
  <2> QED
    BY <2>1, <2>2
<1> HIDE DEF T
<1>4. AreFull(T)
  BY <1>3 DEF AreFull
<1> QED
  BY <1>2, <1>4 DEF Full

\* The kinds of such tries, and their parts.
FullExtension(node, l, n, path, child) ==
  IsExtension(node, l, n, path, child, NoCache) /\ child.t = "branch" /\ Full(child, l - n)

\* A branch of full tries.
FullBranch(node, l, nibs, children) ==
  IsBranch(node, l, nibs, children, NoCache) /\ \A i \in nibs: Full(children[i], l - 1)

\* A full trie is of one of three kinds.
LEMMA FullCases ==
  ASSUME NEW node, NEW l, Full(node, l)
  PROVE  /\ l \in Nat
         /\ \/ \E path, value: IsLeaf(node, l, path, value, NoCache)
            \/ \E n, path, child: FullExtension(node, l, n, path, child)
            \/ \E nibs, children: FullBranch(node, l, nibs, children)
<1>1. Shape(node, l) /\ node.t # "digest" /\ node.cache = NoCache
  BY FullBelow DEF FullHere
<1>2. l \in Nat
  BY <1>1, ShapeCases
<1>3. CASE \E path, value, cache: IsLeaf(node, l, path, value, cache)
  BY <1>1, <1>2, <1>3 DEF IsLeaf, LeafNode
<1>4. CASE \E n, path, child, cache: IsExtension(node, l, n, path, child, cache)
  <2>1. PICK n, path, child, cache: IsExtension(node, l, n, path, child, cache)
    BY <1>4
  <2>2. node.t = "extension" /\ node.cache = cache /\ node.child = child /\ Len(node.path) = n
    BY <2>1 DEF IsExtension, ExtensionNode, Key
  <2>3. <<child, l - n>> \in Children(node, l)
    BY <2>2 DEF Children
  <2>4. Full(child, l - n)
    BY <2>3, FullBelow
  <2>5. child.t # "digest"
    BY <2>4, FullBelow DEF FullHere
  <2>6. FullExtension(node, l, n, path, child)
    BY <1>1, <2>1, <2>2, <2>4, <2>5 DEF FullExtension, IsExtension
  <2> QED
    BY <1>2, <2>6
<1>5. CASE \E nibs, children, cache: IsBranch(node, l, nibs, children, cache)
  <2>1. PICK nibs, children, cache: IsBranch(node, l, nibs, children, cache)
    BY <1>5
  <2>2. node.t = "branch" /\ node.cache = cache /\ node.children = children /\ DOMAIN node.children = nibs
    BY <2>1 DEF IsBranch, BranchNode
  <2>3. ASSUME NEW i \in nibs PROVE Full(children[i], l - 1)
    <3>1. <<children[i], l - 1>> \in Children(node, l)
      BY <2>2 DEF Children
    <3> QED
      BY <3>1, FullBelow
  <2>4. FullBranch(node, l, nibs, children)
    BY <1>1, <2>1, <2>2, <2>3 DEF FullBranch
  <2> QED
    BY <1>2, <2>4
<1> QED
  BY <1>1, <1>3, <1>4, <1>5, ShapeCases

\* A full leaf.
LEMMA FullLeaf ==
  ASSUME NEW l \in Nat, NEW path \in Key(l), NEW value \in Values
  PROVE  Full(LeafNode(path, value, NoCache), l)
<1> DEFINE node == LeafNode(path, value, NoCache)
<1>1. FullHere(node, l) /\ Children(node, l) = {}
  BY DEF FullHere, Made, Proper, WellMade, Children, Key, LeafNode
<1> QED
  BY <1>1, FullAbove

\* A full extension.
LEMMA FullExtensionIs ==
  ASSUME NEW l \in Nat, NEW n \in 1..l, NEW path \in Key(n),
         NEW child, child.t = "branch", Full(child, l - n)
  PROVE  Full(ExtensionNode(path, child, NoCache), l)
<1> DEFINE node == ExtensionNode(path, child, NoCache)
<1>1. FullHere(node, l) /\ Children(node, l) = {<<child, l - n>>}
  BY DEF FullHere, Made, Proper, WellMade, Children, Key, ExtensionNode
<1> QED
  BY <1>1, FullAbove

\* A full branch.
LEMMA FullBranchIs ==
  ASSUME NEW l \in Nat, l > 0, NEW D \in SUBSET Nibble, Cardinality(D) >= 2,
         NEW children, children = [i \in D |-> children[i]],
         \A i \in D: Full(children[i], l - 1)
  PROVE  Full(BranchNode(children, NoCache), l)
<1> DEFINE node == BranchNode(children, NoCache)
<1>0. DOMAIN children = D
  OBVIOUS
<1>1. FullHere(node, l)
  BY <1>0 DEF FullHere, Made, Proper, WellMade, BranchNode
<1>2. Children(node, l) = {<<children[i], l - 1>>: i \in D}
  BY <1>0 DEF Children, BranchNode
<1> QED
  BY <1>1, <1>2, FullAbove

-----------------------------------------------------------------------------
\* A sparse trie that stands for a full one.

\* How a full trie is referred to, by its parent or as the root.
Refs(full, atop) == {NodeRef(full)} \cup IF atop THEN {Digest(RlpEncoded(full))} ELSE {}

\* A node is a digest, or like the one it stands for and with no cache or a right one.
StandsHere(node, full, atop) ==
  \/ node.t = "digest" /\ node \in Refs(full, atop)
  \/ node.t # "digest" /\ Proper(node) /\ SameHere(node, full) /\ node.cache \in {NoCache} \cup Refs(full, atop)

\* What is below it, with what it stands for.
StandInsBelow(node, full, rest) ==
  CASE node.t = "extension" -> {<<node.child, full.child, rest - Len(node.path)>>}
    [] node.t = "branch"    -> {<<node.children[i], full.children[i], rest - 1>>: i \in DOMAIN node.children}
    [] OTHER                -> {}

AreStandIns(S) ==
  \A node, full, rest: <<node, full, rest>> \in S =>
    /\ Full(full, rest) /\ StandsHere(node, full, FALSE)
    /\ \A below \in StandInsBelow(node, full, rest): below \in S

\* The node stands for the full trie.
StandsIn(node, full, rest) == \E S: <<node, full, rest>> \in S /\ AreStandIns(S)

\* The same of a node below, or of the root.
Stands(node, full, rest, atop) ==
  /\ Full(full, rest) /\ StandsHere(node, full, atop)
  /\ \A n, f, r: <<n, f, r>> \in StandInsBelow(node, full, rest) => StandsIn(n, f, r)

\* A node below stands for a trie if what is below it does.
LEMMA StandsBelow ==
  ASSUME NEW node, NEW full, NEW rest
  PROVE  StandsIn(node, full, rest) <=> Stands(node, full, rest, FALSE)
<1>1. ASSUME StandsIn(node, full, rest) PROVE Stands(node, full, rest, FALSE)
  BY <1>1 DEF StandsIn, AreStandIns, Stands
<1>2. ASSUME Stands(node, full, rest, FALSE) PROVE StandsIn(node, full, rest)
  <2> DEFINE Beneath == StandInsBelow(node, full, rest)
             Holds(below, S) == below \in S /\ AreStandIns(S)
             C(below) == CHOOSE S: Holds(below, S)
             T == {<<node, full, rest>>} \cup UNION {C(below): below \in Beneath}
  <2>0. \A below \in Beneath: \E n, f, r: below = <<n, f, r>>
    BY DEF StandInsBelow
  <2>1. \A below \in Beneath: Holds(below, C(below))
    <3> SUFFICES ASSUME NEW below \in Beneath PROVE Holds(below, C(below))
      OBVIOUS
    <3>1. PICK n, f, r: below = <<n, f, r>>
      BY <2>0
    <3>2. StandsIn(n, f, r)
      BY <1>2, <3>1 DEF Stands
    <3>3. \E S: Holds(below, S)
      BY <3>1, <3>2 DEF StandsIn
    <3> QED
      BY <3>3
  <2> HIDE DEF C
  <2>2. <<node, full, rest>> \in T
    OBVIOUS
  <2>3. ASSUME NEW n, NEW f, NEW r, <<n, f, r>> \in T
        PROVE  /\ Full(f, r) /\ StandsHere(n, f, FALSE)
               /\ \A below \in StandInsBelow(n, f, r): below \in T
    <3>1. CASE <<n, f, r>> = <<node, full, rest>>
      <4>1. n = node /\ f = full /\ r = rest
        BY <3>1
      <4>2. \A below \in Beneath: below \in T
        BY <2>1
      <4> HIDE DEF T
      <4> QED
        BY <1>2, <4>1, <4>2 DEF Stands
    <3>2. CASE <<n, f, r>> # <<node, full, rest>>
      <4>1. PICK b \in Beneath: <<n, f, r>> \in C(b)
        BY <2>3, <3>2
      <4>2. AreStandIns(C(b))
        BY <2>1
      <4>3. /\ Full(f, r) /\ StandsHere(n, f, FALSE)
            /\ \A below \in StandInsBelow(n, f, r): below \in C(b)
        BY <4>1, <4>2 DEF AreStandIns
      <4>4. \A x \in C(b): x \in T
        OBVIOUS
      <4> QED
        BY <4>3, <4>4
    <3> QED
      BY <3>1, <3>2
  <2> HIDE DEF T
  <2>4. AreStandIns(T)
    BY <2>3 DEF AreStandIns
  <2> QED
    BY <2>2, <2>4 DEF StandsIn
<1> QED
  BY <1>1, <1>2

\* The kinds of stand-ins, and their parts.
Caches(full, atop) == {NoCache} \cup Refs(full, atop)

\* The three kinds of nodes that are no digests, each as what it stands for.
LeafStands(node, full, l, atop, path, value, cache) ==
  /\ IsLeaf(full, l, path, value, NoCache)
  /\ node = LeafNode(path, value, cache) /\ cache \in Caches(full, atop)

ExtensionStands(node, full, l, atop, n, path, child, below, cache) ==
  /\ FullExtension(full, l, n, path, below)
  /\ node = ExtensionNode(path, child, cache) /\ cache \in Caches(full, atop)
  /\ Stands(child, below, l - n, FALSE)

BranchStands(node, full, l, atop, nibs, children, belows, cache) ==
  /\ FullBranch(full, l, nibs, belows)
  /\ node = BranchNode(children, cache) /\ cache \in Caches(full, atop)
  /\ children = [i \in nibs |-> children[i]]
  /\ \A i \in nibs: Stands(children[i], belows[i], l - 1, FALSE)

\* A stand-in is a digest, or of one of three kinds.
LEMMA StandsCases ==
  ASSUME NEW node, NEW full, NEW l, NEW atop, Stands(node, full, l, atop)
  PROVE  /\ l \in Nat /\ Full(full, l)
         /\ \/ node.t = "digest" /\ node \in Refs(full, atop)
            \/ \E path, value, cache: LeafStands(node, full, l, atop, path, value, cache)
            \/ \E n, path, child, below, cache:
                 ExtensionStands(node, full, l, atop, n, path, child, below, cache)
            \/ \E nibs, children, belows, cache:
                 BranchStands(node, full, l, atop, nibs, children, belows, cache)
<1>1. Full(full, l) /\ StandsHere(node, full, atop) /\ l \in Nat
  BY FullCases DEF Stands
<1>2. CASE node.t = "digest"
  BY <1>1, <1>2 DEF StandsHere
<1>3. ASSUME node.t # "digest"
      PROVE  Proper(node) /\ SameHere(node, full) /\ node.cache \in Caches(full, atop)
  BY <1>1, <1>3 DEF StandsHere, Caches
<1>4. CASE node.t # "digest" /\ \E path, value: IsLeaf(full, l, path, value, NoCache)
  <2>1. PICK path, value: IsLeaf(full, l, path, value, NoCache)
    BY <1>4
  <2>2. node = LeafNode(path, value, node.cache)
    BY <1>3, <1>4, <2>1 DEF IsLeaf, LeafNode, Proper, SameHere
  <2>3. LeafStands(node, full, l, atop, path, value, node.cache)
    BY <1>3, <1>4, <2>1, <2>2 DEF LeafStands
  <2> QED
    BY <1>1, <2>3
<1>5. CASE node.t # "digest" /\ \E n, path, below: FullExtension(full, l, n, path, below)
  <2>1. PICK n, path, below: FullExtension(full, l, n, path, below)
    BY <1>5
  <2>2. full = ExtensionNode(path, below, NoCache) /\ path \in Key(n)
    BY <2>1 DEF FullExtension, IsExtension
  <2>3. node.t = "extension" /\ node.path = path /\ full.child = below /\ Len(path) = n
    BY <1>3, <1>5, <2>2 DEF ExtensionNode, SameHere, Key
  <2>4. node = ExtensionNode(path, node.child, node.cache)
    BY <1>3, <1>5, <2>3 DEF Proper
  <2>5. <<node.child, below, l - n>> \in StandInsBelow(node, full, l)
    BY <2>3 DEF StandInsBelow
  <2>6. Stands(node.child, below, l - n, FALSE)
    <3>1. StandsIn(node.child, below, l - n)
      BY <2>5 DEF Stands
    <3> QED
      BY <3>1, StandsBelow
  <2>7. ExtensionStands(node, full, l, atop, n, path, node.child, below, node.cache)
    BY <1>3, <1>5, <2>1, <2>4, <2>6 DEF ExtensionStands
  <2> QED
    BY <1>1, <2>7
<1>6. CASE node.t # "digest" /\ \E nibs, belows: FullBranch(full, l, nibs, belows)
  <2>1. PICK nibs, belows: FullBranch(full, l, nibs, belows)
    BY <1>6
  <2>2. full = BranchNode(belows, NoCache) /\ belows = [i \in nibs |-> belows[i]]
    BY <2>1 DEF FullBranch, IsBranch
  <2>3. node.t = "branch" /\ full.children = belows /\ DOMAIN belows = nibs /\ DOMAIN node.children = nibs
    <3>1. full.t = "branch" /\ full.children = belows
      BY <2>2 DEF BranchNode
    <3>2. DOMAIN belows = nibs
      BY <2>2
    <3> QED
      BY <1>3, <1>6, <3>1, <3>2 DEF SameHere
  <2>4. node = BranchNode(node.children, node.cache) /\ node.children = [i \in nibs |-> node.children[i]]
    BY <1>3, <1>6, <2>3 DEF Proper
  <2>5. ASSUME NEW i \in nibs PROVE Stands(node.children[i], belows[i], l - 1, FALSE)
    <3>1. <<node.children[i], belows[i], l - 1>> \in StandInsBelow(node, full, l)
      BY <2>3 DEF StandInsBelow
    <3>2. StandsIn(node.children[i], belows[i], l - 1)
      BY <3>1 DEF Stands
    <3> QED
      BY <3>2, StandsBelow
  <2>6. BranchStands(node, full, l, atop, nibs, node.children, belows, node.cache)
    BY <1>3, <1>6, <2>1, <2>4, <2>5 DEF BranchStands
  <2> QED
    BY <1>1, <2>6
<1> QED
  BY <1>1, <1>2, <1>4, <1>5, <1>6, FullCases

\* The converse: a digest.
LEMMA DigestStands ==
  ASSUME NEW full, NEW l, Full(full, l), NEW atop, NEW node, node.t = "digest", node \in Refs(full, atop)
  PROVE  Stands(node, full, l, atop)
<1>1. StandInsBelow(node, full, l) = {}
  BY DEF StandInsBelow
<1>2. StandsHere(node, full, atop)
  BY DEF StandsHere
<1> QED
  BY <1>1, <1>2 DEF Stands

\* A leaf.
LEMMA LeafStandsIn ==
  ASSUME NEW node, NEW full, NEW l \in Nat, NEW atop, NEW path, NEW value, NEW cache,
         LeafStands(node, full, l, atop, path, value, cache)
  PROVE  Stands(node, full, l, atop)
<1>1. /\ path \in Key(l) /\ value \in Values /\ full = LeafNode(path, value, NoCache)
      /\ node = LeafNode(path, value, cache) /\ cache \in {NoCache} \cup Refs(full, atop)
  BY DEF LeafStands, IsLeaf, Caches
<1>2. Full(full, l)
  BY <1>1, FullLeaf
<1>3. StandInsBelow(node, full, l) = {}
  BY <1>1 DEF StandInsBelow, LeafNode
<1>4. Proper(node) /\ SameHere(node, full) /\ node.t # "digest"
  BY <1>1 DEF Proper, SameHere, LeafNode, Key
<1>5. node.cache = cache
  BY <1>1 DEF LeafNode
<1>6. StandsHere(node, full, atop)
  BY <1>1, <1>4, <1>5 DEF StandsHere
<1> QED
  BY <1>2, <1>3, <1>6 DEF Stands

\* An extension.
LEMMA ExtensionStandsIn ==
  ASSUME NEW node, NEW full, NEW l \in Nat, NEW atop, NEW n, NEW path, NEW child, NEW below, NEW cache,
         ExtensionStands(node, full, l, atop, n, path, child, below, cache)
  PROVE  Stands(node, full, l, atop)
<1>1. /\ n \in 1..l /\ path \in Key(n) /\ full = ExtensionNode(path, below, NoCache)
      /\ below.t = "branch" /\ Full(below, l - n) /\ Stands(child, below, l - n, FALSE)
      /\ node = ExtensionNode(path, child, cache) /\ cache \in {NoCache} \cup Refs(full, atop)
  BY DEF ExtensionStands, FullExtension, IsExtension, Caches
<1>2. Full(full, l)
  BY <1>1, FullExtensionIs
<1>3. StandInsBelow(node, full, l) = {<<child, below, l - n>>}
  BY <1>1 DEF StandInsBelow, ExtensionNode, Key
<1>4. Proper(node) /\ SameHere(node, full) /\ node.t # "digest"
  BY <1>1 DEF Proper, SameHere, ExtensionNode, Key
<1>5. node.cache = cache
  BY <1>1 DEF ExtensionNode
<1>6. StandsHere(node, full, atop)
  BY <1>1, <1>4, <1>5 DEF StandsHere
<1>7. StandsIn(child, below, l - n)
  BY <1>1, StandsBelow
<1> QED
  BY <1>2, <1>3, <1>6, <1>7 DEF Stands

\* A branch.
LEMMA BranchStandsIn ==
  ASSUME NEW node, NEW full, NEW l \in Nat, NEW atop, NEW nibs, NEW children, NEW belows, NEW cache,
         BranchStands(node, full, l, atop, nibs, children, belows, cache)
  PROVE  Stands(node, full, l, atop)
<1>1. /\ l > 0 /\ nibs \in SUBSET Nibble /\ Cardinality(nibs) >= 2
      /\ full = BranchNode(belows, NoCache) /\ belows = [i \in nibs |-> belows[i]]
      /\ node = BranchNode(children, cache) /\ cache \in {NoCache} \cup Refs(full, atop)
      /\ children = [i \in nibs |-> children[i]]
  BY DEF BranchStands, FullBranch, IsBranch, Caches
<1>a. \A i \in nibs: Full(belows[i], l - 1)
  BY DEF BranchStands, FullBranch
<1>b. \A i \in nibs: Stands(children[i], belows[i], l - 1, FALSE)
  BY DEF BranchStands
<1>2. Full(full, l)
  BY <1>1, <1>a, FullBranchIs
<1>d. DOMAIN children = nibs /\ DOMAIN belows = nibs
  BY <1>1
<1>3. StandInsBelow(node, full, l) = {<<children[i], belows[i], l - 1>>: i \in nibs}
  BY <1>1, <1>d DEF StandInsBelow, BranchNode
<1>4. Proper(node) /\ SameHere(node, full) /\ node.t # "digest"
  BY <1>1, <1>d DEF Proper, SameHere, BranchNode
<1>5. node.cache = cache
  BY <1>1 DEF BranchNode
<1>6. StandsHere(node, full, atop)
  BY <1>1, <1>4, <1>5 DEF StandsHere
<1>7. \A i \in nibs: StandsIn(children[i], belows[i], l - 1)
  BY <1>b, StandsBelow
<1> QED
  BY <1>2, <1>3, <1>6, <1>7 DEF Stands

\* A full trie stands for itself.
LEMMA FullStands ==
  \A l \in Nat: \A full, atop: Full(full, l) => Stands(full, full, l, atop)
<1> DEFINE S == {l \in Nat: \A full, atop: Full(full, l) => Stands(full, full, l, atop)}
<1>1. ASSUME NEW l \in Nat, \A m \in 0..(l - 1): m \in S PROVE l \in S
  <2> SUFFICES ASSUME NEW full, NEW atop, Full(full, l) PROVE Stands(full, full, l, atop)
    OBVIOUS
  <2>b. ASSUME NEW m \in 0..(l - 1), NEW f, Full(f, m) PROVE Stands(f, f, m, FALSE)
    <3>1. m \in S
      BY <1>1
    <3> QED
      BY <2>b, <3>1
  <2> HIDE DEF S
  <2>c. NoCache \in Caches(full, atop)
    BY DEF Caches
  <2>1. ASSUME NEW path, NEW value, IsLeaf(full, l, path, value, NoCache) PROVE Stands(full, full, l, atop)
    <3>1. LeafStands(full, full, l, atop, path, value, NoCache)
      BY <2>1, <2>c DEF LeafStands, IsLeaf
    <3> QED
      BY <3>1, LeafStandsIn
  <2>2. ASSUME NEW n, NEW path, NEW child, FullExtension(full, l, n, path, child) PROVE Stands(full, full, l, atop)
    <3>1. l - n \in 0..(l - 1) /\ Full(child, l - n) /\ full = ExtensionNode(path, child, NoCache)
      BY <2>2 DEF FullExtension, IsExtension
    <3>2. Stands(child, child, l - n, FALSE)
      BY <2>b, <3>1
    <3>3. ExtensionStands(full, full, l, atop, n, path, child, child, NoCache)
      BY <2>2, <2>c, <3>1, <3>2 DEF ExtensionStands
    <3> QED
      BY <3>3, ExtensionStandsIn
  <2>3. ASSUME NEW nibs, NEW children, FullBranch(full, l, nibs, children) PROVE Stands(full, full, l, atop)
    <3>1. /\ l - 1 \in 0..(l - 1) /\ full = BranchNode(children, NoCache)
          /\ children = [i \in nibs |-> children[i]] /\ \A i \in nibs: Full(children[i], l - 1)
      BY <2>3 DEF FullBranch, IsBranch
    <3>2. \A i \in nibs: Stands(children[i], children[i], l - 1, FALSE)
      BY <2>b, <3>1
    <3>3. BranchStands(full, full, l, atop, nibs, children, children, NoCache)
      BY <2>3, <2>c, <3>1, <3>2 DEF BranchStands
    <3> QED
      BY <3>3, BranchStandsIn
  <2> QED
    BY <2>1, <2>2, <2>3, FullCases
<1> HIDE DEF S
<1>2. \A l \in Nat: l \in S
  BY <1>1, SetInduction
<1> QED
  BY <1>2 DEF S

\* A stand-in has the shape of a trie, and is no panic and not empty.
LEMMA StandsShape ==
  ASSUME NEW l, NEW node, NEW full, NEW atop, Stands(node, full, l, atop)
  PROVE  /\ l \in Nat /\ Shape(node, l) /\ Shape(full, l) /\ Full(full, l)
         /\ node.t \in {"digest", full.t} /\ full.t \in {"leaf", "extension", "branch"}
         /\ node # Panic /\ node # Null /\ full # Panic /\ full # Null
<1> DEFINE S == {m \in Nat: \A n, f, a: Stands(n, f, m, a) => Shape(n, m)}
<1>1. ASSUME NEW m \in Nat, \A k \in 0..(m - 1): k \in S PROVE m \in S
  <2> SUFFICES ASSUME NEW n, NEW f, NEW a, Stands(n, f, m, a) PROVE Shape(n, m)
    OBVIOUS
  <2>b. ASSUME NEW k \in 0..(m - 1), NEW x, NEW y, Stands(x, y, k, FALSE) PROVE Shape(x, k)
    <3>1. k \in S
      BY <1>1
    <3> QED
      BY <2>b, <3>1
  <2> HIDE DEF S
  <2>1. CASE n.t = "digest"
    BY <2>1, ShapeDigest
  <2>2. ASSUME NEW path, NEW value, NEW cache, LeafStands(n, f, m, a, path, value, cache) PROVE Shape(n, m)
    BY <2>2, ShapeLeaf DEF LeafStands, IsLeaf
  <2>3. ASSUME NEW d, NEW path, NEW child, NEW below, NEW cache,
               ExtensionStands(n, f, m, a, d, path, child, below, cache)
        PROVE  Shape(n, m)
    <3>0. /\ d \in 1..m /\ path \in Key(d) /\ n = ExtensionNode(path, child, cache)
          /\ Stands(child, below, m - d, FALSE) /\ below.t = "branch"
      BY <2>3 DEF ExtensionStands, FullExtension, IsExtension
    <3>1. d \in 1..m /\ m - d \in 0..(m - 1)
      BY <3>0
    <3>2. child.t \in {"branch", "digest"}
      BY <3>0 DEF Stands, StandsHere, SameHere
    <3>3. Shape(child, m - d)
      BY <2>b, <3>0, <3>1
    <3> QED
      BY <3>0, <3>1, <3>2, <3>3, ShapeExtension
  <2>4. ASSUME NEW nibs, NEW children, NEW belows, NEW cache,
               BranchStands(n, f, m, a, nibs, children, belows, cache)
        PROVE  Shape(n, m)
    <3>1. /\ m > 0 /\ nibs \in SUBSET Nibble /\ Cardinality(nibs) >= 2 /\ n = BranchNode(children, cache)
          /\ children = [i \in nibs |-> children[i]] /\ m - 1 \in 0..(m - 1)
      BY <2>4 DEF BranchStands, FullBranch, IsBranch
    <3>2. \A i \in nibs: Shape(children[i], m - 1)
      BY <2>b, <2>4, <3>1 DEF BranchStands
    <3> QED
      BY <3>1, <3>2, ShapeBranch
  <2> QED
    BY <2>1, <2>2, <2>3, <2>4, StandsCases
<1> HIDE DEF S
<1>2. \A m \in Nat: m \in S
  BY <1>1, SetInduction
<1>3. l \in Nat /\ Full(full, l)
  BY StandsCases
<1>4. Shape(node, l)
  BY <1>2, <1>3 DEF S
<1>5. Shape(full, l) /\ full.t # "digest"
  BY <1>3, FullBelow DEF FullHere
<1>6. full.t \in {"leaf", "extension", "branch"}
  BY <1>5, ShapeIsNode
<1>7. node.t \in {"digest", full.t}
  BY DEF Stands, StandsHere, SameHere
<1> QED
  BY <1>3, <1>4, <1>5, <1>6, <1>7, ShapeIsNode

-----------------------------------------------------------------------------
\* Encodings.

\* What is below a node.
LEMMA ChildrenOfKinds ==
  /\ \A path, value, cache: ChildrenOf(LeafNode(path, value, cache)) = <<>>
  /\ \A path, child, cache: ChildrenOf(ExtensionNode(path, child, cache)) = <<child>>
  /\ \A children, cache: ChildrenOf(BranchNode(children, cache)) = children
  /\ \A x: x.t \notin {"extension", "branch"} => ChildrenOf(x) = <<>>
<1>1. \A path, value, cache: ChildrenOf(LeafNode(path, value, cache)) = <<>>
  BY DEF ChildrenOf, LeafNode
<1>2. \A path, child, cache: ChildrenOf(ExtensionNode(path, child, cache)) = <<child>>
  BY DEF ChildrenOf, ExtensionNode
<1>3. \A children, cache: ChildrenOf(BranchNode(children, cache)) = children
  BY DEF ChildrenOf, BranchNode
<1>4. \A x: x.t \notin {"extension", "branch"} => ChildrenOf(x) = <<>>
  BY DEF ChildrenOf
<1> QED
  BY <1>1, <1>2, <1>3, <1>4

\* The operations that recur to what is below a node.
DescendsOp(op) == op.t \notin {"resolve", "expand", "trie", "shape", "proof"}

\* A trie has finite depth.
LEMMA ShapeHasRank ==
  ASSUME NEW op, DescendsOp(op), NEW l, NEW node, Shape(node, l)
  PROVE  HasRank(op, node, l)
<1>1. PICK S: <<node, l>> \in S /\ IsClosed(S)
  BY DEF Shape
<1>2. ASSUME NEW x, NEW m, <<x, m>> \in S
      PROVE  m \in Nat /\ \A i \in DOMAIN BelowAt(op, x): \E k \in 0..(m - 1): <<BelowAt(op, x)[i], k>> \in S
  <2>1. /\ m \in Nat /\ WellMade(x, m) /\ Proper(x)
        /\ \A below \in Children(x, m): below \in S
    BY <1>1, <1>2 DEF IsClosed, Made
  <2>2. BelowAt(op, x) = ChildrenOf(x)
    BY DEF BelowAt, DescendsOp
  <2>3. CASE x.t = "extension"
    <3>1. ChildrenOf(x) = <<x.child>> /\ Len(x.path) \in 1..m
      BY <2>1, <2>3 DEF ChildrenOf, WellMade
    <3>2. <<x.child, m - Len(x.path)>> \in S
      BY <2>1, <2>3 DEF Children
    <3>3. m - Len(x.path) \in 0..(m - 1)
      BY <2>1, <3>1
    <3> QED
      BY <2>1, <2>2, <3>1, <3>2, <3>3
  <2>4. CASE x.t = "branch"
    <3>1. ChildrenOf(x) = x.children /\ m > 0
      BY <2>1, <2>4 DEF ChildrenOf, WellMade
    <3>2. \A i \in DOMAIN x.children: <<x.children[i], m - 1>> \in S
      BY <2>1, <2>4 DEF Children
    <3>3. m - 1 \in 0..(m - 1)
      BY <2>1, <3>1
    <3> QED
      BY <2>1, <2>2, <3>1, <3>2, <3>3
  <2>5. CASE x.t \notin {"extension", "branch"}
    <3>1. ChildrenOf(x) = <<>>
      BY <2>5 DEF ChildrenOf
    <3> QED
      BY <2>1, <2>2, <3>1
  <2> QED
    BY <2>3, <2>4, <2>5
<1>3. AreRanked(S, op)
  BY <1>2 DEF AreRanked
<1> QED
  BY <1>1, <1>3 DEF HasRank

\* So has what has nothing below it.
LEMMA NothingBelow ==
  ASSUME NEW op, NEW x, DOMAIN BelowAt(op, x) = {}
  PROVE  \A l \in Nat: HasRank(op, x, l)
<1> SUFFICES ASSUME NEW l \in Nat PROVE HasRank(op, x, l)
  OBVIOUS
<1>1. AreRanked({<<x, l>>}, op)
  BY DEF AreRanked
<1> QED
  BY <1>1 DEF HasRank

\* And what is above something that has.
LEMMA RankAbove ==
  ASSUME NEW op, NEW x, NEW l \in Nat,
         \A i \in DOMAIN BelowAt(op, x): \E k \in 0..(l - 1): HasRank(op, BelowAt(op, x)[i], k)
  PROVE  HasRank(op, x, l)
<1> DEFINE D == DOMAIN BelowAt(op, x)
           Holds(i, S) == AreRanked(S, op) /\ \E k \in 0..(l - 1): <<BelowAt(op, x)[i], k>> \in S
           C(i) == CHOOSE S: Holds(i, S)
           T == {<<x, l>>} \cup UNION {C(i): i \in D}
<1>1. \A i \in D: Holds(i, C(i))
  <2> SUFFICES ASSUME NEW i \in D PROVE Holds(i, C(i))
    OBVIOUS
  <2>1. \E S: Holds(i, S)
    BY DEF HasRank
  <2> QED
    BY <2>1
<1> HIDE DEF C
<1>2. <<x, l>> \in T
  OBVIOUS
<1>3. ASSUME NEW y, NEW m, <<y, m>> \in T
      PROVE  m \in Nat /\ \A i \in DOMAIN BelowAt(op, y): \E k \in 0..(m - 1): <<BelowAt(op, y)[i], k>> \in T
  <2>1. CASE <<y, m>> = <<x, l>>
    <3>1. y = x /\ m = l
      BY <2>1
    <3>2. \A i \in D: \E k \in 0..(l - 1): <<BelowAt(op, x)[i], k>> \in T
      BY <1>1
    <3> HIDE DEF T
    <3> QED
      BY <3>1, <3>2
  <2>2. CASE <<y, m>> # <<x, l>>
    <3>1. PICK j \in D: <<y, m>> \in C(j)
      BY <1>3, <2>2
    <3>2. AreRanked(C(j), op)
      BY <1>1
    <3>3. m \in Nat /\ \A i \in DOMAIN BelowAt(op, y): \E k \in 0..(m - 1): <<BelowAt(op, y)[i], k>> \in C(j)
      BY <3>1, <3>2 DEF AreRanked
    <3>4. \A z \in C(j): z \in T
      OBVIOUS
    <3> HIDE DEF T
    <3> QED
      BY <3>3, <3>4
  <2> QED
    BY <2>1, <2>2
<1> HIDE DEF T
<1>4. AreRanked(T, op)
  BY <1>3 DEF AreRanked
<1> QED
  BY <1>2, <1>4 DEF HasRank

\* How a node is referred to.
LEMMA NodeRefOf ==
  ASSUME NEW node, NEW l, Shape(node, l)
  PROVE  NodeRef(node) = IF node.t = "digest" THEN node
                         ELSE IF node.cache # NoCache THEN node.cache ELSE InlineOrDigest(RlpEncoded(node))
<1> DEFINE refs == [i \in DOMAIN ChildrenOf(node) |-> NodeRef(ChildrenOf(node)[i])]
<1>1. HasRank(RefOp, node, l)
  BY ShapeHasRank DEF DescendsOp, RefOp
<1>2. NodeRef(node) = MadeOver(RefOp, node)
  BY <1>1, RefIsFold, FoldUnfolds
<1>3. BelowAt(RefOp, node) = ChildrenOf(node)
  BY DEF BelowAt, RefOp
<1>4. \A x: MadeAt(RefOp, node, x) = RefFrom(node, x)
  BY DEF MadeAt, RefOp
<1>5. \A x: Fold(RefOp, x) = NodeRef(x)
  BY RefIsFold
<1>6. NodeRef(node) = RefFrom(node, refs)
  BY <1>2, <1>3, <1>4, <1>5 DEF MadeOver
<1>7. RlpEncoded(node) = RlpFrom(node, refs)
  BY DEF RlpEncoded
<1>8. HasCache(node) <=> node.t # "digest"
  BY ShapeIsNode DEF HasCache
<1> HIDE DEF refs
<1> QED
  BY <1>6, <1>7, <1>8 DEF RefFrom

\* How it is encoded.
LEMMA RlpOfKinds ==
  /\ \A path, value, cache:
       RlpEncoded(LeafNode(path, value, cache)) = [t |-> "leaf", path |-> path, value |-> value]
  /\ \A path, child, cache:
       RlpEncoded(ExtensionNode(path, child, cache)) = [t |-> "extension", path |-> path, child |-> NodeRef(child)]
  /\ \A children, cache:
       RlpEncoded(BranchNode(children, cache)) =
         [t |-> "branch", children |-> [i \in DOMAIN children |-> NodeRef(children[i])]]
<1>1. ASSUME NEW path, NEW value, NEW cache
      PROVE  RlpEncoded(LeafNode(path, value, cache)) = [t |-> "leaf", path |-> path, value |-> value]
  BY DEF RlpEncoded, RlpFrom, LeafNode
<1>2. ASSUME NEW path, NEW child, NEW cache
      PROVE  RlpEncoded(ExtensionNode(path, child, cache)) = [t |-> "extension", path |-> path, child |-> NodeRef(child)]
  <2> DEFINE node == ExtensionNode(path, child, cache)
             refs == [i \in DOMAIN ChildrenOf(node) |-> NodeRef(ChildrenOf(node)[i])]
  <2>1. ChildrenOf(node) = <<child>>
    BY ChildrenOfKinds
  <2>2. refs[1] = NodeRef(child)
    BY <2>1
  <2>3. RlpEncoded(node) = RlpFrom(node, refs)
    BY DEF RlpEncoded
  <2>4. node.t = "extension" /\ node.path = path
    BY DEF ExtensionNode
  <2> HIDE DEF refs, node
  <2>5. RlpEncoded(node) = [t |-> "extension", path |-> path, child |-> NodeRef(child)]
    BY <2>2, <2>3, <2>4 DEF RlpFrom
  <2> QED
    BY <2>5 DEF node
<1>3. ASSUME NEW children, NEW cache
      PROVE  RlpEncoded(BranchNode(children, cache)) =
               [t |-> "branch", children |-> [i \in DOMAIN children |-> NodeRef(children[i])]]
  <2> DEFINE node == BranchNode(children, cache)
             refs == [i \in DOMAIN children |-> NodeRef(children[i])]
  <2>1. ChildrenOf(node) = children
    BY ChildrenOfKinds
  <2>3. RlpEncoded(node) = RlpFrom(node, refs)
    BY <2>1 DEF RlpEncoded
  <2>4. node.t = "branch"
    BY DEF BranchNode
  <2> HIDE DEF refs, node
  <2>5. RlpEncoded(node) = [t |-> "branch", children |-> refs]
    BY <2>3, <2>4 DEF RlpFrom
  <2> QED
    BY <2>5 DEF node, refs
<1> QED
  BY <1>1, <1>2, <1>3

\* A full trie is referred to by its digest or is part of its parent.
LEMMA RefOfFull ==
  ASSUME NEW full, NEW l, Full(full, l)
  PROVE  /\ NodeRef(full) = InlineOrDigest(RlpEncoded(full))
         /\ RlpEncoded(full).t = full.t
         /\ NodeRef(full) \in {RlpEncoded(full), Digest(RlpEncoded(full))}
         /\ \A atop: \A ref \in Refs(full, atop):
              /\ ref # NoCache /\ ref \in {RlpEncoded(full), Digest(RlpEncoded(full))}
              /\ ref.t \in {"digest", full.t}
              /\ ref.t = "digest" => ref = Digest(RlpEncoded(full))
<1> DEFINE rlp == RlpEncoded(full)
<1>1. Shape(full, l) /\ full.t # "digest" /\ full.cache = NoCache
  BY FullBelow DEF FullHere
<1>2. NodeRef(full) = InlineOrDigest(rlp)
  BY <1>1, NodeRefOf
<1>3. rlp.t = full.t /\ full.t \in {"leaf", "extension", "branch"}
  <2>1. ASSUME NEW path, NEW value, NEW cache, full = LeafNode(path, value, cache)
        PROVE  rlp.t = "leaf" /\ full.t = "leaf"
    <3>1. rlp = [t |-> "leaf", path |-> path, value |-> value]
      BY <2>1, RlpOfKinds
    <3> HIDE DEF rlp
    <3> QED
      BY <2>1, <3>1 DEF LeafNode
  <2>2. ASSUME NEW path, NEW child, NEW cache, full = ExtensionNode(path, child, cache)
        PROVE  rlp.t = "extension" /\ full.t = "extension"
    <3>1. rlp = [t |-> "extension", path |-> path, child |-> NodeRef(child)]
      BY <2>2, RlpOfKinds
    <3> HIDE DEF rlp
    <3> QED
      BY <2>2, <3>1 DEF ExtensionNode
  <2>3. ASSUME NEW children, NEW cache, full = BranchNode(children, cache)
        PROVE  rlp.t = "branch" /\ full.t = "branch"
    <3>1. rlp = [t |-> "branch", children |-> [i \in DOMAIN children |-> NodeRef(children[i])]]
      BY <2>3, RlpOfKinds
    <3> HIDE DEF rlp
    <3> QED
      BY <2>3, <3>1 DEF BranchNode
  <2> HIDE DEF rlp
  <2> QED
    BY <2>1, <2>2, <2>3, FullCases DEF FullExtension, FullBranch, IsLeaf, IsExtension, IsBranch
<1> HIDE DEF rlp
<1>4. NodeRef(full) \in {rlp, Digest(rlp)}
  BY <1>2 DEF InlineOrDigest
<1>5. Digest(rlp).t = "digest" /\ NoCache.t = "nocache"
  BY DEF Digest, NoCache
<1>6. ASSUME NEW atop, NEW ref \in Refs(full, atop)
      PROVE  /\ ref # NoCache /\ ref \in {rlp, Digest(rlp)} /\ ref.t \in {"digest", full.t}
             /\ ref.t = "digest" => ref = Digest(rlp)
  <2>1. ref \in {rlp, Digest(rlp)}
    BY <1>4, <1>6 DEF Refs, rlp
  <2> QED
    BY <2>1, <1>3, <1>5
<1> QED
  BY <1>2, <1>3, <1>4, <1>6 DEF rlp

\* A stand-in is encoded, and referred to, as what it stands for.
LEMMA EncodedAlike ==
  ASSUME NEW l, NEW node, NEW full, NEW atop, Stands(node, full, l, atop)
  PROVE  /\ node.t # "digest" => RlpEncoded(node) = RlpEncoded(full)
         /\ ~atop => NodeRef(node) = NodeRef(full)
<1> DEFINE Agree(x, f, a) == /\ x.t # "digest" => RlpEncoded(x) = RlpEncoded(f)
                             /\ ~a => NodeRef(x) = NodeRef(f)
           S == {m \in Nat: \A x, f, a: Stands(x, f, m, a) => Agree(x, f, a)}
<1>1. ASSUME NEW m \in Nat, \A k \in 0..(m - 1): k \in S PROVE m \in S
  <2> SUFFICES ASSUME NEW x, NEW f, NEW a, Stands(x, f, m, a) PROVE Agree(x, f, a)
    OBVIOUS
  <2>b. ASSUME NEW k \in 0..(m - 1), NEW y, NEW g, Stands(y, g, k, FALSE) PROVE NodeRef(y) = NodeRef(g)
    <3>1. k \in S
      BY <1>1
    <3> QED
      BY <2>b, <3>1
  <2> HIDE DEF S
  <2>1. ASSUME NEW path, NEW value, NEW cache, LeafStands(x, f, m, a, path, value, cache)
        PROVE  RlpEncoded(x) = RlpEncoded(f) /\ x.cache \in Caches(f, a)
    <3>1. x = LeafNode(path, value, cache) /\ f = LeafNode(path, value, NoCache) /\ cache \in Caches(f, a)
      BY <2>1 DEF LeafStands, IsLeaf
    <3>2. x.cache = cache
      BY <3>1 DEF LeafNode
    <3> QED
      BY <3>1, <3>2, RlpOfKinds
  <2>2. ASSUME NEW d, NEW path, NEW child, NEW below, NEW cache,
               ExtensionStands(x, f, m, a, d, path, child, below, cache)
        PROVE  RlpEncoded(x) = RlpEncoded(f) /\ x.cache \in Caches(f, a)
    <3>1. /\ x = ExtensionNode(path, child, cache) /\ f = ExtensionNode(path, below, NoCache)
          /\ cache \in Caches(f, a) /\ Stands(child, below, m - d, FALSE) /\ d \in 1..m
      BY <2>2 DEF ExtensionStands, FullExtension, IsExtension
    <3>2. m - d \in 0..(m - 1)
      BY <3>1
    <3>3. NodeRef(child) = NodeRef(below)
      BY <2>b, <3>1, <3>2
    <3>4. x.cache = cache
      BY <3>1 DEF ExtensionNode
    <3> QED
      BY <3>1, <3>3, <3>4, RlpOfKinds
  <2>3. ASSUME NEW nibs, NEW children, NEW belows, NEW cache,
               BranchStands(x, f, m, a, nibs, children, belows, cache)
        PROVE  RlpEncoded(x) = RlpEncoded(f) /\ x.cache \in Caches(f, a)
    <3>1. /\ x = BranchNode(children, cache) /\ f = BranchNode(belows, NoCache)
          /\ cache \in Caches(f, a) /\ m > 0
          /\ children = [i \in nibs |-> children[i]] /\ belows = [i \in nibs |-> belows[i]]
      BY <2>3 DEF BranchStands, FullBranch, IsBranch
    <3>2. m - 1 \in 0..(m - 1)
      BY <3>1
    <3>3. \A i \in nibs: NodeRef(children[i]) = NodeRef(belows[i])
      BY <2>3, <2>b, <3>2 DEF BranchStands
    <3>4. DOMAIN children = nibs /\ DOMAIN belows = nibs
      BY <3>1
    <3>5. [i \in DOMAIN children |-> NodeRef(children[i])] = [i \in DOMAIN belows |-> NodeRef(belows[i])]
      BY <3>3, <3>4
    <3>6. x.cache = cache
      BY <3>1 DEF BranchNode
    <3> QED
      BY <3>1, <3>5, <3>6, RlpOfKinds
  <2>4. x.t # "digest" => RlpEncoded(x) = RlpEncoded(f) /\ x.cache \in Caches(f, a)
    BY <2>1, <2>2, <2>3, StandsCases
  <2>5. ASSUME ~a PROVE NodeRef(x) = NodeRef(f)
    <3>1. Shape(x, m) /\ Full(f, m)
      BY StandsShape
    <3>2. Refs(f, a) = {NodeRef(f)}
      BY <2>5 DEF Refs
    <3>a. x.t = "digest" => x \in Refs(f, a)
      BY DEF Stands, StandsHere
    <3>3. x.t = "digest" => x = NodeRef(f)
      BY <3>a, <3>2
    <3>4. x.t # "digest" => x.cache \in {NoCache, NodeRef(f)}
      BY <2>4, <3>2 DEF Caches
    <3>5. NodeRef(f) = InlineOrDigest(RlpEncoded(f))
      BY <3>1, RefOfFull
    <3> QED
      BY <2>4, <3>1, <3>3, <3>4, <3>5, NodeRefOf
  <2> QED
    BY <2>4, <2>5
<1> HIDE DEF S
<1>2. \A m \in Nat: m \in S
  BY <1>1, SetInduction
<1>3. l \in S
  BY <1>2, StandsCases
<1> QED
  BY <1>3 DEF S

\* The root is hashed as what it stands for.
LEMMA HashOfStandIn ==
  ASSUME NEW l, NEW node, NEW full, NEW atop, Stands(node, full, l, atop)
  PROVE  Hash(node) = Digest(RlpEncoded(full))
<1> DEFINE rlp == RlpEncoded(full)
<1>1. Shape(node, l) /\ Full(full, l) /\ node.t \in {"digest", full.t} /\ full.t \in {"leaf", "extension", "branch"}
  BY StandsShape
<1>2. \A ref \in Refs(full, atop): /\ ref # NoCache /\ ref \in {rlp, Digest(rlp)} /\ ref.t \in {"digest", full.t}
                                   /\ ref.t = "digest" => ref = Digest(rlp)
  BY <1>1, RefOfFull
<1>3. node.t # "digest" => RlpEncoded(node) = rlp
  BY EncodedAlike
<1>4. /\ node.t = "digest" => node \in Refs(full, atop)
      /\ node.t # "digest" => node.cache \in {NoCache} \cup Refs(full, atop)
  BY DEF Stands, StandsHere
<1>5. HasCache(node) <=> node.t # "digest"
  BY <1>1 DEF HasCache
<1> HIDE DEF rlp
<1>6. CASE node.t = "digest"
  <2>1. ~HasCache(node) /\ node.t # "null"
    BY <1>5, <1>6
  <2>1a. Hash(node) = node
    BY <1>6, <2>1 DEF Hash
  <2>2. node = Digest(rlp)
    BY <1>2, <1>4, <1>6
  <2> QED
    BY <2>1a, <2>2 DEF rlp
<1>7. CASE node.t # "digest" /\ node.cache = NoCache
  <2>1. Hash(node) = Digest(RlpEncoded(node))
    BY <1>1, <1>5, <1>7 DEF Hash
  <2> QED
    BY <1>3, <1>7, <2>1 DEF rlp
<1>8. CASE node.t # "digest" /\ node.cache # NoCache
  <2>1. Hash(node) = IF node.cache.t = "digest" THEN node.cache ELSE Digest(node.cache)
    BY <1>1, <1>5, <1>8 DEF Hash
  <2>2. node.cache \in Refs(full, atop)
    BY <1>4, <1>8
  <2>3. node.cache = rlp => node.cache.t # "digest"
    <3>1. rlp.t = full.t
      BY <1>1, RefOfFull DEF rlp
    <3> QED
      BY <1>1, <3>1
  <2>4. Digest(rlp).t = "digest"
    BY DEF Digest
  <2>5. Hash(node) = Digest(rlp)
    BY <1>2, <2>1, <2>2, <2>3, <2>4
  <2> QED
    BY <2>5 DEF rlp
<1> QED
  BY <1>6, <1>7, <1>8

\* The node with another cache.
WithCache(node, cache) == [node EXCEPT !.cache = cache]

\* Nodes that stand for whatever those below a node do.
StandAlike(node, below, l) ==
  /\ DOMAIN below = DOMAIN ChildrenOf(node) /\ below = [i \in DOMAIN below |-> below[i]]
  /\ \A i \in DOMAIN ChildrenOf(node): \A m \in 0..(l - 1): \A f:
       Stands(ChildrenOf(node)[i], f, m, FALSE) => Stands(below[i], f, m, FALSE)

\* A node whose parts are replaced by others that stand for the same.
LEMMA Rebuilt ==
  ASSUME NEW l, NEW node, NEW full, NEW atop, Stands(node, full, l, atop), node.t # "digest",
         NEW below, StandAlike(node, below, l), NEW new, new = WithChildren(node, below)
  PROVE  /\ Stands(new, full, l, atop) /\ new.t = node.t /\ new.cache = node.cache
         /\ \A top, cache: cache \in Caches(full, top) => Stands(WithCache(new, cache), full, l, top)
         /\ \A cache: WithCache(new, cache).t = node.t
<1>0. l \in Nat
  BY StandsCases
<1>a. DOMAIN below = DOMAIN ChildrenOf(node) /\ below = [i \in DOMAIN below |-> below[i]]
  BY DEF StandAlike
<1>b. \A i \in DOMAIN ChildrenOf(node): \A m \in 0..(l - 1): \A f:
        Stands(ChildrenOf(node)[i], f, m, FALSE) => Stands(below[i], f, m, FALSE)
  BY DEF StandAlike
<1>1. ASSUME NEW path, NEW value, NEW cache, LeafStands(node, full, l, atop, path, value, cache)
      PROVE  /\ Stands(new, full, l, atop) /\ new.t = node.t /\ new.cache = node.cache
             /\ \A top, c: c \in Caches(full, top) => Stands(WithCache(new, c), full, l, top)
             /\ \A c: WithCache(new, c).t = node.t
  <2>1. node = LeafNode(path, value, cache) /\ IsLeaf(full, l, path, value, NoCache)
    BY <1>1 DEF LeafStands
  <2>2. new = node
    BY <2>1 DEF WithChildren, LeafNode
  <2>3. \A c: WithCache(new, c) = LeafNode(path, value, c)
    BY <2>1, <2>2 DEF LeafNode, WithCache
  <2>4. ASSUME NEW top, NEW c \in Caches(full, top) PROVE Stands(LeafNode(path, value, c), full, l, top)
    <3>1. LeafStands(LeafNode(path, value, c), full, l, top, path, value, c)
      BY <2>1, <2>4 DEF LeafStands
    <3> QED
      BY <1>0, <3>1, LeafStandsIn
  <2>5. node.t = "leaf" /\ \A c: LeafNode(path, value, c).t = "leaf"
    BY <2>1 DEF LeafNode
  <2> QED
    BY <2>2, <2>3, <2>4, <2>5
<1>2. ASSUME NEW n, NEW path, NEW child, NEW part, NEW cache,
             ExtensionStands(node, full, l, atop, n, path, child, part, cache)
      PROVE  /\ Stands(new, full, l, atop) /\ new.t = node.t /\ new.cache = node.cache
             /\ \A top, c: c \in Caches(full, top) => Stands(WithCache(new, c), full, l, top)
             /\ \A c: WithCache(new, c).t = node.t
  <2>1. /\ node = ExtensionNode(path, child, cache) /\ FullExtension(full, l, n, path, part)
        /\ Stands(child, part, l - n, FALSE) /\ cache \in Caches(full, atop)
    BY <1>2 DEF ExtensionStands
  <2>2. new = ExtensionNode(path, below[1], cache)
    BY <2>1 DEF WithChildren, ExtensionNode
  <2>3. \A c: WithCache(new, c) = ExtensionNode(path, below[1], c)
    BY <2>2 DEF ExtensionNode, WithCache
  <2>4. Stands(below[1], part, l - n, FALSE)
    <3>1. ChildrenOf(node) = <<child>>
      BY <2>1, ChildrenOfKinds
    <3>2. 1 \in DOMAIN ChildrenOf(node) /\ ChildrenOf(node)[1] = child
      BY <3>1
    <3>3. n \in 1..l
      BY <2>1 DEF FullExtension, IsExtension
    <3>4. l - n \in 0..(l - 1)
      BY <1>0, <3>3
    <3> QED
      BY <1>b, <2>1, <3>2, <3>4
  <2>5. ASSUME NEW top, NEW c \in Caches(full, top) PROVE Stands(ExtensionNode(path, below[1], c), full, l, top)
    <3>1. ExtensionStands(ExtensionNode(path, below[1], c), full, l, top, n, path, below[1], part, c)
      BY <2>1, <2>4, <2>5 DEF ExtensionStands
    <3> QED
      BY <1>0, <3>1, ExtensionStandsIn
  <2>6. /\ node.t = "extension" /\ node.cache = cache /\ new.cache = cache
        /\ \A c: ExtensionNode(path, below[1], c).t = "extension"
    BY <2>1, <2>2 DEF ExtensionNode
  <2> QED
    BY <2>1, <2>2, <2>3, <2>5, <2>6
<1>3. ASSUME NEW nibs, NEW children, NEW parts, NEW cache,
             BranchStands(node, full, l, atop, nibs, children, parts, cache)
      PROVE  /\ Stands(new, full, l, atop) /\ new.t = node.t /\ new.cache = node.cache
             /\ \A top, c: c \in Caches(full, top) => Stands(WithCache(new, c), full, l, top)
             /\ \A c: WithCache(new, c).t = node.t
  <2>1. /\ node = BranchNode(children, cache) /\ FullBranch(full, l, nibs, parts)
        /\ children = [i \in nibs |-> children[i]] /\ cache \in Caches(full, atop)
    BY <1>3 DEF BranchStands
  <2>a. \A i \in nibs: Stands(children[i], parts[i], l - 1, FALSE)
    BY <1>3 DEF BranchStands
  <2>2. new = BranchNode(below, cache)
    BY <2>1 DEF WithChildren, BranchNode
  <2>3. \A c: WithCache(new, c) = BranchNode(below, c)
    BY <2>2 DEF BranchNode, WithCache
  <2>4. DOMAIN below = nibs /\ \A i \in nibs: Stands(below[i], parts[i], l - 1, FALSE)
    <3>1. ChildrenOf(node) = children
      BY <2>1, ChildrenOfKinds
    <3>2. DOMAIN children = nibs
      BY <2>1
    <3>3. l > 0
      BY <2>1 DEF FullBranch, IsBranch
    <3>4. l - 1 \in 0..(l - 1)
      BY <1>0, <3>3
    <3> QED
      BY <1>a, <1>b, <2>a, <3>1, <3>2, <3>4
  <2>5. ASSUME NEW top, NEW c \in Caches(full, top) PROVE Stands(BranchNode(below, c), full, l, top)
    <3>1. below = [i \in nibs |-> below[i]]
      BY <1>a, <2>4
    <3>2. BranchStands(BranchNode(below, c), full, l, top, nibs, below, parts, c)
      BY <2>1, <2>4, <2>5, <3>1 DEF BranchStands
    <3> QED
      BY <1>0, <3>2, BranchStandsIn
  <2>6. /\ node.t = "branch" /\ node.cache = cache /\ new.cache = cache
        /\ \A c: BranchNode(below, c).t = "branch"
    BY <2>1, <2>2 DEF BranchNode
  <2> QED
    BY <2>1, <2>2, <2>3, <2>5, <2>6
<1> QED
  BY <1>1, <1>2, <1>3, StandsCases

\* A right cache in the place of another.
LEMMA Recached ==
  ASSUME NEW l, NEW node, NEW full, NEW atop, Stands(node, full, l, atop), node.t # "digest",
         NEW top, NEW cache, cache \in Caches(full, top)
  PROVE  Stands(WithCache(node, cache), full, l, top) /\ WithCache(node, cache).t = node.t
<1> DEFINE below == ChildrenOf(node)
<1>1. node.t \in {"leaf", "extension", "branch"}
  BY StandsShape
<1>2. WithChildren(node, below) = node /\ below = [i \in DOMAIN below |-> below[i]]
  <2>1. CASE node.t = "leaf"
    BY <2>1 DEF WithChildren, ChildrenOf
  <2>2. CASE node.t = "extension"
    <3>1. node = ExtensionNode(node.path, node.child, node.cache)
      BY <2>2 DEF Stands, StandsHere, Proper
    <3>2. below = <<node.child>>
      BY <2>2 DEF ChildrenOf
    <3>3. WithChildren(node, below) = [node EXCEPT !.child = node.child]
      BY <2>2, <3>2 DEF WithChildren
    <3>4. [node EXCEPT !.child = node.child] = node
      BY <3>1 DEF ExtensionNode
    <3> QED
      BY <3>2, <3>3, <3>4
  <2>3. CASE node.t = "branch"
    <3>1. node = BranchNode(node.children, node.cache) /\ node.children = [i \in DOMAIN node.children |-> node.children[i]]
      BY <2>3 DEF Stands, StandsHere, Proper
    <3>2. below = node.children
      BY <2>3 DEF ChildrenOf
    <3>3. WithChildren(node, below) = [node EXCEPT !.children = node.children]
      BY <2>3, <3>2 DEF WithChildren
    <3>4. [node EXCEPT !.children = node.children] = node
      BY <3>1 DEF BranchNode
    <3> QED
      BY <3>1, <3>2, <3>3, <3>4
  <2> QED
    BY <1>1, <2>1, <2>2, <2>3
<1>3. StandAlike(node, below, l)
  BY <1>2 DEF StandAlike
<1> HIDE DEF below
<1>4. WithChildren(node, below) = node
  BY <1>2
<1> QED
  BY <1>3, <1>4, Rebuilt

\* What is below stands for a trie as the root does.
LEMMA StandsAtop ==
  ASSUME NEW l, NEW node, NEW full, Stands(node, full, l, FALSE)
  PROVE  Stands(node, full, l, TRUE)
<1>1. Refs(full, FALSE) \subseteq Refs(full, TRUE)
  BY DEF Refs
<1> QED
  BY <1>1 DEF Stands, StandsHere

-----------------------------------------------------------------------------
\* Decoding and resolving.

\* An operation of a node whose parts have finite depth.
LEMMA FoldAbove ==
  ASSUME NEW op, NEW x, NEW l \in Nat,
         \A i \in DOMAIN BelowAt(op, x): \E k \in 0..(l - 1): HasRank(op, BelowAt(op, x)[i], k)
  PROVE  HasRank(op, x, l) /\ Fold(op, x) = MadeOver(op, x)
BY RankAbove, FoldUnfolds

\* What a reference decodes to, and how deep it is.
LEMMA Decoding ==
  ASSUME NEW rlp, NEW l \in Nat,
         \A i \in DOMAIN ChildrenOf(rlp): \E k \in 0..(l - 1): HasRank(DecodeOp, ChildrenOf(rlp)[i], k)
  PROVE  /\ HasRank(DecodeOp, rlp, l)
         /\ Decode(rlp) = DecodeFrom(rlp, [i \in DOMAIN ChildrenOf(rlp) |-> Decode(ChildrenOf(rlp)[i])])
<1>1. BelowAt(DecodeOp, rlp) = ChildrenOf(rlp) /\ \A below: MadeAt(DecodeOp, rlp, below) = DecodeFrom(rlp, below)
  BY DEF BelowAt, MadeAt, DecodeOp
<1>2. HasRank(DecodeOp, rlp, l) /\ Fold(DecodeOp, rlp) = MadeOver(DecodeOp, rlp)
  BY <1>1, FoldAbove
<1>3. \A x: Fold(DecodeOp, x) = Decode(x)
  BY DecodeIsFold
<1> QED
  BY <1>1, <1>2, <1>3 DEF MadeOver

\* Without a cache, the nodes of the three kinds.
LEMMA BareNodes ==
  /\ \A path, value: Leaf(path, value) = LeafNode(path, value, NoCache)
  /\ \A path, child: Extension(path, child) = ExtensionNode(path, child, NoCache)
  /\ \A children: Branch(children) = BranchNode(children, NoCache)
BY DEF Leaf, Extension, Branch, LeafNode, ExtensionNode, BranchNode

\* A reference to a trie decodes to what stands for it.
LEMMA DecodeStands ==
  ASSUME NEW l, NEW full, Full(full, l)
  PROVE  /\ \A ref \in {RlpEncoded(full), NodeRef(full)}:
              HasRank(DecodeOp, ref, l) /\ Stands(Decode(ref), full, l, FALSE)
         /\ Decode(RlpEncoded(full)).t = full.t
<1> DEFINE Right(x, f, m) == HasRank(DecodeOp, x, m) /\ Stands(Decode(x), f, m, FALSE)
           S == {m \in Nat: \A f: Full(f, m) =>
                   Right(RlpEncoded(f), f, m) /\ Right(NodeRef(f), f, m) /\ Decode(RlpEncoded(f)).t = f.t}
<1>1. ASSUME NEW m \in Nat, \A k \in 0..(m - 1): k \in S PROVE m \in S
  <2> SUFFICES ASSUME NEW f, Full(f, m)
               PROVE  Right(RlpEncoded(f), f, m) /\ Right(NodeRef(f), f, m) /\ Decode(RlpEncoded(f)).t = f.t
    OBVIOUS
  <2>b. ASSUME NEW k \in 0..(m - 1), NEW g, Full(g, k)
        PROVE  HasRank(DecodeOp, NodeRef(g), k) /\ Stands(Decode(NodeRef(g)), g, k, FALSE)
    <3>1. k \in S
      BY <1>1
    <3> QED
      BY <2>b, <3>1
  <2> HIDE DEF S
  <2> DEFINE rlp == RlpEncoded(f)
             decoded == [i \in DOMAIN ChildrenOf(rlp) |-> Decode(ChildrenOf(rlp)[i])]
  <2>1. ASSUME NEW path, NEW value, IsLeaf(f, m, path, value, NoCache)
        PROVE  HasRank(DecodeOp, rlp, m) /\ Stands(Decode(rlp), f, m, FALSE) /\ Decode(rlp).t = f.t
    <3>1. f = LeafNode(path, value, NoCache)
      BY <2>1 DEF IsLeaf
    <3>2. rlp = [t |-> "leaf", path |-> path, value |-> value]
      BY <3>1, RlpOfKinds
    <3>3. rlp.t = "leaf" /\ rlp.path = path /\ rlp.value = value
      BY <3>2
    <3> HIDE DEF rlp
    <3>4. ChildrenOf(rlp) = <<>>
      BY <3>3 DEF ChildrenOf
    <3>4a. DOMAIN ChildrenOf(rlp) = {}
      BY <3>4
    <3>5. HasRank(DecodeOp, rlp, m) /\ Decode(rlp) = DecodeFrom(rlp, decoded)
      BY <3>4a, Decoding
    <3>6. Decode(rlp) = Leaf(path, value)
      BY <3>3, <3>5 DEF DecodeFrom
    <3>7. Decode(rlp) = f
      BY <3>1, <3>6, BareNodes
    <3> QED
      BY <3>5, <3>7, FullStands
  <2>2. ASSUME NEW n, NEW path, NEW child, FullExtension(f, m, n, path, child)
        PROVE  HasRank(DecodeOp, rlp, m) /\ Stands(Decode(rlp), f, m, FALSE) /\ Decode(rlp).t = f.t
    <3>1. f = ExtensionNode(path, child, NoCache) /\ Full(child, m - n) /\ n \in 1..m
      BY <2>2 DEF FullExtension, IsExtension
    <3>2. rlp = [t |-> "extension", path |-> path, child |-> NodeRef(child)]
      BY <3>1, RlpOfKinds
    <3>3. rlp.t = "extension" /\ rlp.path = path /\ rlp.child = NodeRef(child)
      BY <3>2
    <3> HIDE DEF rlp
    <3>4. ChildrenOf(rlp) = <<NodeRef(child)>>
      BY <3>3 DEF ChildrenOf
    <3>5. m - n \in 0..(m - 1)
      BY <3>1
    <3>6. HasRank(DecodeOp, NodeRef(child), m - n) /\ Stands(Decode(NodeRef(child)), child, m - n, FALSE)
      BY <2>b, <3>1, <3>5
    <3>7. HasRank(DecodeOp, rlp, m) /\ Decode(rlp) = DecodeFrom(rlp, decoded)
      BY <3>4, <3>5, <3>6, Decoding
    <3>8. decoded[1] = Decode(NodeRef(child))
      BY <3>4
    <3>9. Decode(rlp) = Extension(path, Decode(NodeRef(child)))
      BY <3>3, <3>7, <3>8 DEF DecodeFrom
    <3>10. ExtensionStands(ExtensionNode(path, Decode(NodeRef(child)), NoCache), f, m, FALSE,
                           n, path, Decode(NodeRef(child)), child, NoCache)
      BY <2>2, <3>6 DEF ExtensionStands, Caches
    <3>11. Decode(rlp) = ExtensionNode(path, Decode(NodeRef(child)), NoCache)
      BY <3>9, BareNodes
    <3>12. Decode(rlp).t = "extension" /\ f.t = "extension"
      BY <3>1, <3>11 DEF ExtensionNode
    <3> QED
      BY <3>7, <3>10, <3>11, <3>12, ExtensionStandsIn
  <2>3. ASSUME NEW nibs, NEW children, FullBranch(f, m, nibs, children)
        PROVE  HasRank(DecodeOp, rlp, m) /\ Stands(Decode(rlp), f, m, FALSE) /\ Decode(rlp).t = f.t
    <3>1. /\ f = BranchNode(children, NoCache) /\ m > 0 /\ children = [i \in nibs |-> children[i]]
          /\ \A i \in nibs: Full(children[i], m - 1)
      BY <2>3 DEF FullBranch, IsBranch
    <3>2. rlp = [t |-> "branch", children |-> [i \in DOMAIN children |-> NodeRef(children[i])]]
      BY <3>1, RlpOfKinds
    <3>3. rlp.t = "branch" /\ rlp.children = [i \in nibs |-> NodeRef(children[i])]
      <4>1. DOMAIN children = nibs
        BY <3>1
      <4> QED
        BY <3>2, <4>1
    <3> HIDE DEF rlp
    <3>4. ChildrenOf(rlp) = [i \in nibs |-> NodeRef(children[i])]
      BY <3>3 DEF ChildrenOf
    <3>5. m - 1 \in 0..(m - 1)
      BY <3>1
    <3>6. \A i \in nibs: HasRank(DecodeOp, NodeRef(children[i]), m - 1)
                         /\ Stands(Decode(NodeRef(children[i])), children[i], m - 1, FALSE)
      BY <2>b, <3>1, <3>5
    <3>6a. \A i \in nibs: ChildrenOf(rlp)[i] = NodeRef(children[i])
      BY <3>4
    <3>6b. DOMAIN ChildrenOf(rlp) = nibs
      BY <3>4
    <3>6c. \A i \in DOMAIN ChildrenOf(rlp): \E k \in 0..(m - 1): HasRank(DecodeOp, ChildrenOf(rlp)[i], k)
      BY <3>5, <3>6, <3>6a, <3>6b
    <3>7. HasRank(DecodeOp, rlp, m) /\ Decode(rlp) = DecodeFrom(rlp, decoded)
      BY <3>6c, Decoding
    <3>8. Decode(rlp) = Branch(decoded)
      BY <3>3, <3>7 DEF DecodeFrom
    <3>9. decoded = [i \in nibs |-> decoded[i]] /\ \A i \in nibs: Stands(decoded[i], children[i], m - 1, FALSE)
      BY <3>4, <3>6
    <3> HIDE DEF decoded
    <3>10. BranchStands(BranchNode(decoded, NoCache), f, m, FALSE, nibs, decoded, children, NoCache)
      BY <2>3, <3>9 DEF BranchStands, Caches
    <3>11. Decode(rlp) = BranchNode(decoded, NoCache)
      BY <3>8, BareNodes
    <3>12. Decode(rlp).t = "branch" /\ f.t = "branch"
      BY <3>1, <3>11 DEF BranchNode
    <3> QED
      BY <3>7, <3>10, <3>11, <3>12, BranchStandsIn
  <2> HIDE DEF decoded
  <2>4. HasRank(DecodeOp, rlp, m) /\ Stands(Decode(rlp), f, m, FALSE) /\ Decode(rlp).t = f.t
    BY <2>1, <2>2, <2>3, FullCases
  <2> HIDE DEF rlp
  <2>5. Right(NodeRef(f), f, m)
    <3>1. NodeRef(f) \in {rlp, Digest(rlp)}
      BY RefOfFull DEF rlp
    <3>2. CASE NodeRef(f) = Digest(rlp)
      <4> DEFINE ref == Digest(rlp)
      <4>1. ref.t = "digest"
        BY DEF Digest
      <4>2. NodeRef(f) = ref
        BY <3>2
      <4> HIDE DEF ref
      <4>3. ChildrenOf(ref) = <<>>
        BY <4>1 DEF ChildrenOf
      <4>3a. DOMAIN ChildrenOf(ref) = {}
        BY <4>3
      <4>4. HasRank(DecodeOp, ref, m) /\ Decode(ref) = DecodeFrom(ref, [i \in DOMAIN ChildrenOf(ref) |-> Decode(ChildrenOf(ref)[i])])
        BY <4>3a, Decoding
      <4>5. Decode(ref) = ref
        BY <4>1, <4>4 DEF DecodeFrom
      <4>6. ref \in Refs(f, FALSE)
        BY <4>2 DEF Refs
      <4>7. Stands(ref, f, m, FALSE)
        BY <4>1, <4>6, DigestStands
      <4> QED
        BY <4>2, <4>4, <4>5, <4>7
    <3> QED
      BY <2>4, <3>1, <3>2
  <2> QED
    BY <2>4, <2>5 DEF rlp
<1> HIDE DEF S
<1>2. \A m \in Nat: m \in S
  BY <1>1, SetInduction
<1>3. l \in S
  BY <1>2, FullCases
<1> QED
  BY <1>3 DEF S

\* What is below a stand-in is one.
LEMMA ChildStands ==
  ASSUME NEW l, NEW node, NEW full, NEW atop, Stands(node, full, l, atop),
         NEW i \in DOMAIN ChildrenOf(node)
  PROVE  \E m \in 0..(l - 1): \E f: Stands(ChildrenOf(node)[i], f, m, FALSE)
<1>0. l \in Nat
  BY StandsCases
<1>1. ASSUME NEW path, NEW value, NEW cache, LeafStands(node, full, l, atop, path, value, cache) PROVE FALSE
  <2>1. ChildrenOf(node) = <<>>
    BY <1>1, ChildrenOfKinds DEF LeafStands
  <2> QED
    BY <2>1
<1>2. ASSUME NEW n, NEW path, NEW child, NEW part, NEW cache,
             ExtensionStands(node, full, l, atop, n, path, child, part, cache)
      PROVE  \E m \in 0..(l - 1): \E f: Stands(ChildrenOf(node)[i], f, m, FALSE)
  <2>1. node = ExtensionNode(path, child, cache) /\ n \in 1..l /\ Stands(child, part, l - n, FALSE)
    BY <1>2 DEF ExtensionStands, FullExtension, IsExtension
  <2>2. ChildrenOf(node) = <<child>>
    BY <2>1, ChildrenOfKinds
  <2>3. ChildrenOf(node)[i] = child
    BY <2>2
  <2>4. l - n \in 0..(l - 1)
    BY <1>0, <2>1
  <2> QED
    BY <2>1, <2>3, <2>4
<1>3. ASSUME NEW nibs, NEW children, NEW parts, NEW cache,
             BranchStands(node, full, l, atop, nibs, children, parts, cache)
      PROVE  \E m \in 0..(l - 1): \E f: Stands(ChildrenOf(node)[i], f, m, FALSE)
  <2>1. /\ node = BranchNode(children, cache) /\ l > 0 /\ children = [j \in nibs |-> children[j]]
        /\ \A j \in nibs: Stands(children[j], parts[j], l - 1, FALSE)
    BY <1>3 DEF BranchStands, FullBranch, IsBranch
  <2>2. ChildrenOf(node) = children
    BY <2>1, ChildrenOfKinds
  <2>3. i \in nibs
    BY <2>1, <2>2
  <2>4. l - 1 \in 0..(l - 1)
    BY <1>0, <2>1
  <2> QED
    BY <2>1, <2>2, <2>3, <2>4
<1>4. node.t # "digest"
  <2>1. node.t = "digest" => ChildrenOf(node) = <<>>
    BY ChildrenOfKinds
  <2>2. DOMAIN ChildrenOf(node) # {}
    OBVIOUS
  <2> QED
    BY <2>1, <2>2
<1> QED
  BY <1>1, <1>2, <1>3, <1>4, StandsCases

\* Operations that recur to what is below a node.
LEMMA FoldDescends ==
  ASSUME NEW op, DescendsOp(op), NEW l, NEW node, Shape(node, l)
  PROVE  Fold(op, node) = MadeAt(op, node, [i \in DOMAIN ChildrenOf(node) |-> Fold(op, ChildrenOf(node)[i])])
<1>1. Fold(op, node) = MadeOver(op, node)
  BY ShapeHasRank, FoldUnfolds
<1>2. BelowAt(op, node) = ChildrenOf(node)
  BY DEF BelowAt, DescendsOp
<1> QED
  BY <1>1, <1>2 DEF MadeOver

\* The node of an encoding remembers the reference to it.
LEMMA DecodeCachedStands ==
  ASSUME NEW l, NEW full, Full(full, l), NEW top, NEW cache, cache \in Caches(full, top)
  PROVE  /\ Stands(DecodeCached(RlpEncoded(full), cache), full, l, top)
         /\ DecodeCached(RlpEncoded(full), cache).t # "digest"
<1> DEFINE decoded == Decode(RlpEncoded(full))
<1>1. Stands(decoded, full, l, FALSE) /\ decoded.t = full.t
  BY DecodeStands
<1>2. full.t \in {"leaf", "extension", "branch"}
  BY <1>1, StandsShape
<1>3. DecodeCached(RlpEncoded(full), cache) = WithCache(decoded, cache)
  BY <1>1, <1>2 DEF DecodeCached, HasCache, WithCache
<1>4. decoded.t # "digest"
  BY <1>1, <1>2
<1> HIDE DEF decoded
<1>5. \A x, a: Stands(x, full, l, a) /\ x.t # "digest" =>
        Stands(WithCache(x, cache), full, l, top) /\ WithCache(x, cache).t = x.t
  BY Recached
<1>6. Stands(WithCache(decoded, cache), full, l, top) /\ WithCache(decoded, cache).t = decoded.t
  BY <1>1, <1>4, <1>5
<1> QED
  BY <1>3, <1>4, <1>6

\* Digests whose encodings are supplied, or are not, become what they stand for.
LEMMA ResolveRanked ==
  ASSUME NEW l, NEW node, NEW full, NEW atop, Stands(node, full, l, atop), NEW rlps
  PROVE  /\ \E depth: HasRank(ResolveOp(rlps), node, depth)
         /\ Stands(ResolveDigests(node, rlps), full, l, atop)
<1> DEFINE op == ResolveOp(rlps)
           Rank(x, m) == IF x.t = "digest" THEN 2 * m + 1 ELSE 2 * m
           Right(x, f, m, a) == HasRank(op, x, Rank(x, m)) /\ Stands(Fold(op, x), f, m, a)
           S == {m \in Nat: \A x, f, a: Stands(x, f, m, a) => Right(x, f, m, a)}
<1>0. \A x: /\ BelowAt(op, x) = IF IsSupplied(x, rlps) THEN BelowDigests(x) ELSE <<>>
            /\ \A below: MadeAt(op, x, below) = ResolveFrom(x, below)
  BY DEF BelowAt, MadeAt, ResolveOp
<1> HIDE DEF op
<1>1. ASSUME NEW m \in Nat, \A k \in 0..(m - 1): k \in S PROVE m \in S
  <2>b. ASSUME NEW k \in 0..(m - 1), NEW y, NEW g, Stands(y, g, k, FALSE)
        PROVE  HasRank(op, y, Rank(y, k)) /\ Stands(Fold(op, y), g, k, FALSE)
    <3>1. k \in S
      BY <1>1
    <3> QED
      BY <2>b, <3>1
  <2> HIDE DEF S
  <2>1. ASSUME NEW x, NEW f, NEW a, Stands(x, f, m, a), x.t # "digest"
        PROVE  HasRank(op, x, 2 * m) /\ Stands(Fold(op, x), f, m, a)
    <3> DEFINE below == [i \in DOMAIN ChildrenOf(x) |-> Fold(op, ChildrenOf(x)[i])]
    <3>1. BelowAt(op, x) = ChildrenOf(x)
      BY <1>0, <2>1 DEF IsSupplied, BelowDigests
    <3>2. ASSUME NEW i \in DOMAIN ChildrenOf(x)
          PROVE  \E k \in 0..(2 * m - 1): HasRank(op, ChildrenOf(x)[i], k)
      <4> DEFINE y == ChildrenOf(x)[i]
      <4>1. PICK k \in 0..(m - 1): \E g: Stands(y, g, k, FALSE)
        BY <2>1, ChildStands
      <4>2. HasRank(op, y, Rank(y, k))
        BY <2>b, <4>1
      <4>3. Rank(y, k) \in 0..(2 * m - 1)
        OBVIOUS
      <4> QED
        BY <4>2, <4>3
    <3>3. 2 * m \in Nat
      OBVIOUS
    <3>4. HasRank(op, x, 2 * m) /\ Fold(op, x) = MadeOver(op, x)
      BY <3>1, <3>2, <3>3, FoldAbove
    <3>5. Fold(op, x) = ResolveFrom(x, below)
      BY <1>0, <3>1, <3>4 DEF MadeOver
    <3>6. Fold(op, x) = WithChildren(x, below)
      BY <2>1, <3>5 DEF ResolveFrom
    <3>7. StandAlike(x, below, m)
      <4>1. below = [i \in DOMAIN below |-> below[i]] /\ DOMAIN below = DOMAIN ChildrenOf(x)
        OBVIOUS
      <4>2. \A i \in DOMAIN ChildrenOf(x): below[i] = Fold(op, ChildrenOf(x)[i])
        OBVIOUS
      <4> HIDE DEF below
      <4>3. \A i \in DOMAIN ChildrenOf(x): \A k \in 0..(m - 1): \A g:
              Stands(ChildrenOf(x)[i], g, k, FALSE) => Stands(below[i], g, k, FALSE)
        BY <2>b, <4>2
      <4> QED
        BY <4>1, <4>3 DEF StandAlike
    <3> HIDE DEF below
    <3>8. Stands(Fold(op, x), f, m, a)
      BY <2>1, <3>6, <3>7, Rebuilt
    <3> QED
      BY <3>4, <3>8
  <2>2. ASSUME NEW x, NEW f, NEW a, Stands(x, f, m, a), x.t = "digest"
        PROVE  HasRank(op, x, 2 * m + 1) /\ Stands(Fold(op, x), f, m, a)
    <3> DEFINE below == [i \in DOMAIN BelowAt(op, x) |-> Fold(op, BelowAt(op, x)[i])]
    <3>1. x \in Refs(f, a) /\ Full(f, m)
      BY <2>2 DEF Stands, StandsHere
    <3>2. x = Digest(RlpEncoded(f))
      BY <2>2, <3>1, RefOfFull
    <3>3. x.of = RlpEncoded(f)
      BY <3>2 DEF Digest
    <3>4. 2 * m + 1 \in Nat
      OBVIOUS
    <3>5. CASE IsSupplied(x, rlps)
      <4> DEFINE y == DecodeCached(x.of, x)
      <4>1. Stands(y, f, m, a) /\ y.t # "digest"
        <5>1. x \in Caches(f, a)
          BY <3>1 DEF Caches
        <5> QED
          BY <3>1, <3>3, <5>1, DecodeCachedStands
      <4>2. HasRank(op, y, 2 * m) /\ Stands(Fold(op, y), f, m, a)
        BY <2>1, <4>1
      <4>3. BelowAt(op, x) = <<y>>
        BY <1>0, <2>2, <3>5 DEF BelowDigests
      <4> HIDE DEF y
      <4>4. 2 * m \in 0..(2 * m + 1 - 1)
        OBVIOUS
      <4>5. \A i \in DOMAIN BelowAt(op, x): BelowAt(op, x)[i] = y
        BY <4>3
      <4>6. HasRank(op, x, 2 * m + 1) /\ Fold(op, x) = MadeOver(op, x)
        BY <3>4, <4>2, <4>4, <4>5, FoldAbove
      <4>7. Fold(op, x) = ResolveFrom(x, below)
        BY <1>0, <4>6 DEF MadeOver
      <4>8. below[1] = Fold(op, y) /\ below # <<>>
        <5>1. DOMAIN below = {1} /\ BelowAt(op, x)[1] = y
          BY <4>3
        <5>2. DOMAIN <<>> = {}
          OBVIOUS
        <5> QED
          BY <5>1, <5>2
      <4> HIDE DEF below
      <4>9. Fold(op, x) = Fold(op, y)
        BY <2>2, <4>7, <4>8 DEF ResolveFrom
      <4> QED
        BY <4>2, <4>6, <4>9
    <3>6. CASE ~IsSupplied(x, rlps)
      <4>1. BelowAt(op, x) = <<>>
        BY <1>0, <3>6
      <4>2. DOMAIN BelowAt(op, x) = {}
        BY <4>1
      <4>3. HasRank(op, x, 2 * m + 1) /\ Fold(op, x) = MadeOver(op, x)
        BY <3>4, <4>2, FoldAbove
      <4>4. Fold(op, x) = ResolveFrom(x, below)
        BY <1>0, <4>3 DEF MadeOver
      <4>5. below = <<>>
        BY <4>2
      <4> HIDE DEF below
      <4>6. Fold(op, x) = WithChildren(x, below)
        BY <4>4, <4>5 DEF ResolveFrom
      <4>7. Fold(op, x) = x
        BY <2>2, <4>6 DEF WithChildren
      <4> QED
        BY <2>2, <4>3, <4>7
    <3> QED
      BY <3>5, <3>6
  <2>3. \A x, f, a: Stands(x, f, m, a) => Right(x, f, m, a)
    BY <2>1, <2>2
  <2> QED
    BY <2>3 DEF S
<1> HIDE DEF S
<1>2. \A m \in Nat: m \in S
  BY <1>1, SetInduction
<1>3. l \in S
  BY <1>2, StandsCases
<1>4. HasRank(op, node, Rank(node, l)) /\ Stands(Fold(op, node), full, l, atop)
  BY <1>3 DEF S
<1>5. ResolveDigests(node, rlps) = Fold(op, node)
  BY ResolveIsFold DEF op
<1> HIDE DEF Rank
<1> QED
  BY <1>4, <1>5 DEF op

\* Hydrating keeps what the node stands for.
LEMMA ResolveKeeps ==
  ASSUME NEW l, NEW node, NEW full, NEW atop, Stands(node, full, l, atop), NEW rlps
  PROVE  Stands(ResolveDigests(node, rlps), full, l, atop)
BY ResolveRanked

\* What an operation makes of what is below a stand-in, if it keeps what that
\* stands for, is put below it.
LEMMA FoldAlike ==
  ASSUME NEW op, NEW node, NEW l,
         \A i \in DOMAIN ChildrenOf(node): \A m \in 0..(l - 1): \A f:
           Stands(ChildrenOf(node)[i], f, m, FALSE) => Stands(Fold(op, ChildrenOf(node)[i]), f, m, FALSE)
  PROVE  StandAlike(node, [i \in DOMAIN ChildrenOf(node) |-> Fold(op, ChildrenOf(node)[i])], l)
<1> DEFINE below == [i \in DOMAIN ChildrenOf(node) |-> Fold(op, ChildrenOf(node)[i])]
<1>1. below = [i \in DOMAIN below |-> below[i]] /\ DOMAIN below = DOMAIN ChildrenOf(node)
  OBVIOUS
<1>2. \A i \in DOMAIN ChildrenOf(node): below[i] = Fold(op, ChildrenOf(node)[i])
  OBVIOUS
<1> HIDE DEF below
<1>3. \A i \in DOMAIN ChildrenOf(node): \A m \in 0..(l - 1): \A f:
        Stands(ChildrenOf(node)[i], f, m, FALSE) => Stands(below[i], f, m, FALSE)
  BY <1>2
<1>4. StandAlike(node, below, l)
  BY <1>1, <1>3 DEF StandAlike
<1> QED
  BY <1>4 DEF below

\* Memoize fills in right caches.
LEMMA MemoizeKeeps ==
  ASSUME NEW l, NEW node, NEW full, NEW atop, Stands(node, full, l, atop)
  PROVE  Stands(Memoize(node), full, l, atop)
<1> DEFINE op == MemoizeOp
           S == {m \in Nat: \A x, f, a: Stands(x, f, m, a) => Stands(Fold(op, x), f, m, a)}
<1>0. DescendsOp(op) /\ \A x, below: MadeAt(op, x, below) = MemoizeFrom(x, below)
  BY DEF DescendsOp, MadeAt, MemoizeOp
<1> HIDE DEF op
<1>1. ASSUME NEW m \in Nat, \A k \in 0..(m - 1): k \in S PROVE m \in S
  <2> SUFFICES ASSUME NEW x, NEW f, NEW a, Stands(x, f, m, a) PROVE Stands(Fold(op, x), f, m, a)
    OBVIOUS
  <2>b. ASSUME NEW k \in 0..(m - 1), NEW y, NEW g, Stands(y, g, k, FALSE) PROVE Stands(Fold(op, y), g, k, FALSE)
    <3>1. k \in S
      BY <1>1
    <3> QED
      BY <2>b, <3>1
  <2> HIDE DEF S
  <2> DEFINE memoized == [i \in DOMAIN ChildrenOf(x) |-> Fold(op, ChildrenOf(x)[i])]
             below == WithChildren(x, memoized)
  <2>1. Shape(x, m) /\ Full(f, m) /\ (HasCache(x) <=> x.t # "digest")
    BY StandsShape DEF HasCache
  <2>2. Fold(op, x) = MemoizeFrom(x, memoized)
    BY <1>0, <2>1, FoldDescends
  <2>3. StandAlike(x, memoized, m)
    BY <2>b, FoldAlike
  <2> HIDE DEF memoized
  <2>4. CASE ~HasCache(x) \/ x.cache # NoCache
    BY <2>2, <2>4 DEF MemoizeFrom
  <2>5. CASE HasCache(x) /\ x.cache = NoCache
    <3>1. Fold(op, x) = WithCache(below, InlineOrDigest(RlpEncoded(below)))
      BY <2>2, <2>5 DEF MemoizeFrom, WithCache
    <3>2. x.t # "digest"
      BY <2>1, <2>5
    <3> HIDE DEF below
    <3>3. below = WithChildren(x, memoized)
      BY DEF below
    <3>4. Stands(below, f, m, a) /\ below.t = x.t
      BY <2>3, <3>2, <3>3, Rebuilt
    <3>5. \A top, cache: cache \in Caches(f, top) => Stands(WithCache(below, cache), f, m, top)
      BY <2>3, <3>2, <3>3, Rebuilt
    <3>6. RlpEncoded(below) = RlpEncoded(f)
      BY <3>2, <3>4, EncodedAlike
    <3>7. InlineOrDigest(RlpEncoded(below)) = NodeRef(f)
      BY <2>1, <3>6, RefOfFull
    <3>8. NodeRef(f) \in Caches(f, a)
      BY DEF Caches, Refs
    <3> QED
      BY <3>1, <3>5, <3>7, <3>8
  <2> QED
    BY <2>4, <2>5
<1> HIDE DEF S
<1>2. \A m \in Nat: m \in S
  BY <1>1, SetInduction
<1>3. l \in S
  BY <1>2, StandsCases
<1>4. Stands(Fold(op, node), full, l, atop)
  BY <1>3 DEF S
<1>5. Memoize(node) = Fold(op, node)
  BY MemoizeIsFold DEF op
<1> QED
  BY <1>4, <1>5

\* Without caches it stands for the same.
LEMMA UncachedKeeps ==
  ASSUME NEW l, NEW node, NEW full, NEW atop, Stands(node, full, l, atop)
  PROVE  Stands(Uncached(node), full, l, atop) /\ Uncached(node).t = node.t
<1> DEFINE op == UncachedOp
           S == {m \in Nat: \A x, f, a: Stands(x, f, m, a) => Stands(Fold(op, x), f, m, a) /\ Fold(op, x).t = x.t}
<1>0. DescendsOp(op) /\ \A x, below: MadeAt(op, x, below) = UncachedFrom(x, below)
  BY DEF DescendsOp, MadeAt, UncachedOp
<1> HIDE DEF op
<1>1. ASSUME NEW m \in Nat, \A k \in 0..(m - 1): k \in S PROVE m \in S
  <2> SUFFICES ASSUME NEW x, NEW f, NEW a, Stands(x, f, m, a) PROVE Stands(Fold(op, x), f, m, a) /\ Fold(op, x).t = x.t
    OBVIOUS
  <2>b. ASSUME NEW k \in 0..(m - 1), NEW y, NEW g, Stands(y, g, k, FALSE) PROVE Stands(Fold(op, y), g, k, FALSE)
    <3>1. k \in S
      BY <1>1
    <3> QED
      BY <2>b, <3>1
  <2> HIDE DEF S
  <2> DEFINE uncached == [i \in DOMAIN ChildrenOf(x) |-> Fold(op, ChildrenOf(x)[i])]
             below == WithChildren(x, uncached)
  <2>1. Shape(x, m) /\ (HasCache(x) <=> x.t # "digest")
    BY StandsShape DEF HasCache
  <2>2. Fold(op, x) = UncachedFrom(x, uncached)
    BY <1>0, <2>1, FoldDescends
  <2>3. StandAlike(x, uncached, m)
    BY <2>b, FoldAlike
  <2> HIDE DEF uncached
  <2>4. CASE ~HasCache(x)
    BY <2>2, <2>4 DEF UncachedFrom
  <2>5. CASE HasCache(x)
    <3>1. Fold(op, x) = WithCache(below, NoCache)
      BY <2>2, <2>5 DEF UncachedFrom, WithCache
    <3>2. x.t # "digest"
      BY <2>1, <2>5
    <3> HIDE DEF below
    <3>3. below = WithChildren(x, uncached)
      BY DEF below
    <3>5. \A top, cache: cache \in Caches(f, top) => Stands(WithCache(below, cache), f, m, top)
      BY <2>3, <3>2, <3>3, Rebuilt
    <3>6. \A cache: WithCache(below, cache).t = x.t
      BY <2>3, <3>2, <3>3, Rebuilt
    <3>8. NoCache \in Caches(f, a)
      BY DEF Caches
    <3> QED
      BY <3>1, <3>5, <3>6, <3>8
  <2> QED
    BY <2>4, <2>5
<1> HIDE DEF S
<1>2. \A m \in Nat: m \in S
  BY <1>1, SetInduction
<1>3. l \in S
  BY <1>2, StandsCases
<1>4. Stands(Fold(op, node), full, l, atop) /\ Fold(op, node).t = node.t
  BY <1>3 DEF S
<1>5. Uncached(node) = Fold(op, node)
  BY UncachedIsFold DEF op
<1> QED
  BY <1>4, <1>5

\* A trie that is read from encodings, the first of them that of its root.
LEMMA FromRlpStands ==
  ASSUME NEW l, NEW full, Full(full, l), NEW rlps
  PROVE  Stands(NodeFromRlp(RlpEncoded(full), rlps), full, l, TRUE)
<1> DEFINE rlp == RlpEncoded(full)
           read == DecodeCached(rlp, InlineOrDigest(rlp))
<1>1. InlineOrDigest(rlp) = NodeRef(full)
  BY RefOfFull
<1>2. NodeRef(full) \in Caches(full, TRUE)
  BY DEF Caches, Refs
<1>3. Stands(read, full, l, TRUE)
  BY <1>1, <1>2, DecodeCachedStands
<1> HIDE DEF rlp, read
<1>4. Stands(ResolveDigests(read, rlps), full, l, TRUE)
  BY <1>3, ResolveKeeps
<1> QED
  BY <1>4 DEF NodeFromRlp, rlp, read

\* A trie that is written node by node, and read again.
LEMMA RewrittenStands ==
  ASSUME NEW l, NEW node, NEW full, Stands(node, full, l, TRUE), NEW rlps
  PROVE  Stands(NodeFromRlp(RlpRoot(node), rlps), full, l, TRUE)
<1>1. Full(full, l) /\ (HasCache(node) <=> node.t # "digest")
  BY StandsShape DEF HasCache
<1>2. CASE node.t # "digest"
  <2>1. Stands(Uncached(node), full, l, TRUE) /\ Uncached(node).t = node.t
    BY UncachedKeeps
  <2>2. RlpEncoded(Uncached(node)) = RlpEncoded(full)
    BY <1>2, <2>1, EncodedAlike
  <2>3. RlpRoot(node) = RlpEncoded(full)
    BY <1>1, <1>2, <2>2 DEF RlpRoot
  <2> QED
    BY <1>1, <2>3, FromRlpStands
<1>3. CASE node.t = "digest"
  <2>1. RlpRoot(node) = node
    BY <1>1, <1>3 DEF RlpRoot
  <2>2. DOMAIN ChildrenOf(node) = {}
    <3>1. ChildrenOf(node) = <<>>
      BY <1>3, ChildrenOfKinds
    <3> QED
      BY <3>1
  <2>3. Decode(node) = DecodeFrom(node, [i \in DOMAIN ChildrenOf(node) |-> Decode(ChildrenOf(node)[i])])
    <3>1. 0 \in Nat
      OBVIOUS
    <3> QED
      BY <2>2, <3>1, Decoding
  <2>4. Decode(node) = node
    BY <1>3, <2>3 DEF DecodeFrom
  <2>5. NodeFromRlp(node, rlps) = ResolveDigests(node, rlps)
    BY <1>1, <1>3, <2>4 DEF NodeFromRlp, DecodeCached
  <2> QED
    BY <2>1, <2>5, ResolveKeeps
<1> QED
  BY <1>2, <1>3

\* The parts of what a stand-in stands for.
ArePartsOf(below, node, l) ==
  /\ DOMAIN below = DOMAIN ChildrenOf(node) /\ below = [i \in DOMAIN below |-> below[i]]
  /\ \A i \in DOMAIN ChildrenOf(node): \A m \in 0..(l - 1): \A f:
       Stands(ChildrenOf(node)[i], f, m, FALSE) => below[i] = f

\* Over them, and without a cache, it is what it stands for.
LEMMA RebuiltFull ==
  ASSUME NEW l, NEW node, NEW full, NEW atop, Stands(node, full, l, atop), node.t # "digest",
         NEW below, ArePartsOf(below, node, l)
  PROVE  WithCache(WithChildren(node, below), NoCache) = full
<1>0. l \in Nat
  BY StandsCases
<1>a. DOMAIN below = DOMAIN ChildrenOf(node) /\ below = [i \in DOMAIN below |-> below[i]]
  BY DEF ArePartsOf
<1>b. \A i \in DOMAIN ChildrenOf(node): \A m \in 0..(l - 1): \A f:
        Stands(ChildrenOf(node)[i], f, m, FALSE) => below[i] = f
  BY DEF ArePartsOf
<1>1. ASSUME NEW path, NEW value, NEW cache, LeafStands(node, full, l, atop, path, value, cache)
      PROVE  WithCache(WithChildren(node, below), NoCache) = full
  BY <1>1 DEF LeafStands, IsLeaf, LeafNode, WithCache, WithChildren
<1>2. ASSUME NEW n, NEW path, NEW child, NEW part, NEW cache,
             ExtensionStands(node, full, l, atop, n, path, child, part, cache)
      PROVE  WithCache(WithChildren(node, below), NoCache) = full
  <2>1. /\ node = ExtensionNode(path, child, cache) /\ full = ExtensionNode(path, part, NoCache)
        /\ Stands(child, part, l - n, FALSE) /\ n \in 1..l
    BY <1>2 DEF ExtensionStands, FullExtension, IsExtension
  <2>2. ChildrenOf(node) = <<child>>
    BY <2>1, ChildrenOfKinds
  <2>3. 1 \in DOMAIN ChildrenOf(node) /\ ChildrenOf(node)[1] = child
    BY <2>2
  <2>4. l - n \in 0..(l - 1)
    BY <1>0, <2>1
  <2>5. below[1] = part
    BY <1>b, <2>1, <2>3, <2>4
  <2>6. WithChildren(node, below) = ExtensionNode(path, part, cache)
    BY <2>1, <2>5 DEF WithChildren, ExtensionNode
  <2>7. WithCache(ExtensionNode(path, part, cache), NoCache) = ExtensionNode(path, part, NoCache)
    BY DEF WithCache, ExtensionNode
  <2> QED
    BY <2>1, <2>6, <2>7
<1>3. ASSUME NEW nibs, NEW children, NEW parts, NEW cache,
             BranchStands(node, full, l, atop, nibs, children, parts, cache)
      PROVE  WithCache(WithChildren(node, below), NoCache) = full
  <2>1. /\ node = BranchNode(children, cache) /\ full = BranchNode(parts, NoCache) /\ l > 0
        /\ children = [i \in nibs |-> children[i]] /\ parts = [i \in nibs |-> parts[i]]
        /\ \A i \in nibs: Stands(children[i], parts[i], l - 1, FALSE)
    BY <1>3 DEF BranchStands, FullBranch, IsBranch
  <2>2. ChildrenOf(node) = children
    BY <2>1, ChildrenOfKinds
  <2>3. l - 1 \in 0..(l - 1)
    BY <1>0, <2>1
  <2>4. DOMAIN below = nibs /\ \A i \in nibs: below[i] = parts[i]
    <3>1. DOMAIN children = nibs
      BY <2>1
    <3> QED
      BY <1>a, <1>b, <2>1, <2>2, <2>3, <3>1
  <2>5. below = parts
    BY <1>a, <2>1, <2>4
  <2>6. WithChildren(node, below) = BranchNode(parts, cache)
    BY <2>1, <2>5 DEF WithChildren, BranchNode
  <2>7. WithCache(BranchNode(parts, cache), NoCache) = BranchNode(parts, NoCache)
    BY DEF WithCache, BranchNode
  <2> QED
    BY <2>1, <2>6, <2>7
<1> QED
  BY <1>1, <1>2, <1>3, StandsCases

\* With every digest replaced by what it is the digest of, it is what it stands for.
LEMMA ExpandedIsFull ==
  ASSUME NEW l, NEW node, NEW full, NEW atop, Stands(node, full, l, atop)
  PROVE  Expanded(node) = full
<1> DEFINE op == ExpandOp
           Rank(x, m) == IF x.t = "digest" THEN 2 * m + 1 ELSE 2 * m
           Right(x, f, m) == HasRank(op, x, Rank(x, m)) /\ Fold(op, x) = f
           S == {m \in Nat: \A x, f, a: Stands(x, f, m, a) => Right(x, f, m)}
<1>0. \A x: /\ BelowAt(op, x) = BelowDigests(x)
            /\ \A below: MadeAt(op, x, below) = ExpandedFrom(x, below)
  BY DEF BelowAt, MadeAt, ExpandOp
<1> HIDE DEF op
<1>1. ASSUME NEW m \in Nat, \A k \in 0..(m - 1): k \in S PROVE m \in S
  <2>b. ASSUME NEW k \in 0..(m - 1), NEW y, NEW g, Stands(y, g, k, FALSE)
        PROVE  HasRank(op, y, Rank(y, k)) /\ Fold(op, y) = g
    <3>1. k \in S
      BY <1>1
    <3> QED
      BY <2>b, <3>1
  <2> HIDE DEF S
  <2>1. ASSUME NEW x, NEW f, NEW a, Stands(x, f, m, a), x.t # "digest"
        PROVE  HasRank(op, x, 2 * m) /\ Fold(op, x) = f
    <3> DEFINE below == [i \in DOMAIN ChildrenOf(x) |-> Fold(op, ChildrenOf(x)[i])]
    <3>1. BelowAt(op, x) = ChildrenOf(x)
      BY <1>0, <2>1 DEF BelowDigests
    <3>2. ASSUME NEW i \in DOMAIN ChildrenOf(x)
          PROVE  \E k \in 0..(2 * m - 1): HasRank(op, ChildrenOf(x)[i], k)
      <4> DEFINE y == ChildrenOf(x)[i]
      <4>1. PICK k \in 0..(m - 1): \E g: Stands(y, g, k, FALSE)
        BY <2>1, ChildStands
      <4>2. HasRank(op, y, Rank(y, k))
        BY <2>b, <4>1
      <4>3. Rank(y, k) \in 0..(2 * m - 1)
        OBVIOUS
      <4> QED
        BY <4>2, <4>3
    <3>3. 2 * m \in Nat
      OBVIOUS
    <3>4. HasRank(op, x, 2 * m) /\ Fold(op, x) = MadeOver(op, x)
      BY <3>1, <3>2, <3>3, FoldAbove
    <3>5. Fold(op, x) = ExpandedFrom(x, below)
      BY <1>0, <3>1, <3>4 DEF MadeOver
    <3>6. HasCache(x)
      BY <2>1, StandsShape DEF HasCache
    <3>7. Fold(op, x) = WithCache(WithChildren(x, below), NoCache)
      BY <2>1, <3>5, <3>6 DEF ExpandedFrom, UncachedFrom, WithCache
    <3>8. ArePartsOf(below, x, m)
      <4>1. below = [i \in DOMAIN below |-> below[i]] /\ DOMAIN below = DOMAIN ChildrenOf(x)
        OBVIOUS
      <4>2. \A i \in DOMAIN ChildrenOf(x): below[i] = Fold(op, ChildrenOf(x)[i])
        OBVIOUS
      <4> HIDE DEF below
      <4>3. \A i \in DOMAIN ChildrenOf(x): \A k \in 0..(m - 1): \A g:
              Stands(ChildrenOf(x)[i], g, k, FALSE) => below[i] = g
        BY <2>b, <4>2
      <4> QED
        BY <4>1, <4>3 DEF ArePartsOf
    <3> HIDE DEF below
    <3>9. Fold(op, x) = f
      BY <2>1, <3>7, <3>8, RebuiltFull
    <3> QED
      BY <3>4, <3>9
  <2>2. ASSUME NEW x, NEW f, NEW a, Stands(x, f, m, a), x.t = "digest"
        PROVE  HasRank(op, x, 2 * m + 1) /\ Fold(op, x) = f
    <3> DEFINE below == [i \in DOMAIN BelowAt(op, x) |-> Fold(op, BelowAt(op, x)[i])]
               y == DecodeCached(x.of, x)
    <3>1. x \in Refs(f, a) /\ Full(f, m)
      BY <2>2 DEF Stands, StandsHere
    <3>2. x = Digest(RlpEncoded(f))
      BY <2>2, <3>1, RefOfFull
    <3>3. x.of = RlpEncoded(f)
      BY <3>2 DEF Digest
    <3>4. 2 * m + 1 \in Nat
      OBVIOUS
    <3>5. Stands(y, f, m, a) /\ y.t # "digest"
      <5>1. x \in Caches(f, a)
        BY <3>1 DEF Caches
      <5> QED
        BY <3>1, <3>3, <5>1, DecodeCachedStands
    <3>6. HasRank(op, y, 2 * m) /\ Fold(op, y) = f
      BY <2>1, <3>5
    <3>7. BelowAt(op, x) = <<y>>
      BY <1>0, <2>2 DEF BelowDigests
    <3> HIDE DEF y
    <3>8. 2 * m \in 0..(2 * m + 1 - 1)
      OBVIOUS
    <3>9. \A i \in DOMAIN BelowAt(op, x): BelowAt(op, x)[i] = y
      BY <3>7
    <3>10. HasRank(op, x, 2 * m + 1) /\ Fold(op, x) = MadeOver(op, x)
      BY <3>4, <3>6, <3>8, <3>9, FoldAbove
    <3>11. Fold(op, x) = ExpandedFrom(x, below)
      BY <1>0, <3>10 DEF MadeOver
    <3>12. below[1] = Fold(op, y)
      <5>1. DOMAIN below = {1} /\ BelowAt(op, x)[1] = y
        BY <3>7
      <5> QED
        BY <5>1
    <3> HIDE DEF below
    <3> QED
      BY <2>2, <3>6, <3>10, <3>11, <3>12 DEF ExpandedFrom
  <2>3. \A x, f, a: Stands(x, f, m, a) => Right(x, f, m)
    BY <2>1, <2>2
  <2> QED
    BY <2>3 DEF S
<1> HIDE DEF S
<1>2. \A m \in Nat: m \in S
  BY <1>1, SetInduction
<1>3. l \in S
  BY <1>2, StandsCases
<1>4. Fold(op, node) = full
  BY <1>3 DEF S
<1>5. Expanded(node) = Fold(op, node)
  BY ExpandedIsFold DEF op
<1> QED
  BY <1>4, <1>5

\* What is below a place in a trie, and less of the keys there.
LEMMA ChildPlaces ==
  ASSUME NEW node, NEW l, Shape(node, l), NEW place \in Children(node, l)
  PROVE  \E n: \E m \in 0..(l - 1): place = <<n, m>> /\ Shape(n, m)
<1>1. l \in Nat /\ Proper(node) /\ WellMade(node, l) /\ \A n, r: <<n, r>> \in Children(node, l) => Shape(n, r)
  BY ShapeBelow DEF Made
<1>2. CASE node.t = "extension"
  <2>1. place = <<node.child, l - Len(node.path)>>
    BY <1>2 DEF Children
  <2>2. Len(node.path) \in 1..l
    BY <1>1, <1>2 DEF WellMade
  <2>3. l - Len(node.path) \in 0..(l - 1)
    BY <1>1, <2>2
  <2> QED
    BY <1>1, <2>1, <2>3
<1>3. CASE node.t = "branch"
  <2>1. PICK i \in DOMAIN node.children: place = <<node.children[i], l - 1>>
    BY <1>3 DEF Children
  <2>2. l > 0
    BY <1>1, <1>3 DEF WellMade
  <2>3. l - 1 \in 0..(l - 1)
    BY <1>1, <2>2
  <2> QED
    BY <1>1, <2>1, <2>3
<1> QED
  BY <1>2, <1>3 DEF Children

\* A trie has the shape of one all the way down.
LEMMA ShapeIsWellFormed ==
  ASSUME NEW node, NEW l, Shape(node, l)
  PROVE  WellFormedNode(node, l) = TRUE
<1> DEFINE op == ShapeOp
           S == {m \in Nat: \A x: Shape(x, m) => HasRank(op, <<x, m>>, m) /\ Fold(op, <<x, m>>) = TRUE}
<1>0. \A x: BelowAt(op, x) = PlacesBelow(x) /\ \A below: MadeAt(op, x, below) = ShapeFrom(x, below)
  BY DEF BelowAt, MadeAt, ShapeOp
<1> HIDE DEF op
<1>1. ASSUME NEW m \in Nat, \A k \in 0..(m - 1): k \in S PROVE m \in S
  <2> SUFFICES ASSUME NEW x, Shape(x, m) PROVE HasRank(op, <<x, m>>, m) /\ Fold(op, <<x, m>>) = TRUE
    OBVIOUS
  <2> DEFINE at == <<x, m>>
             below == [i \in DOMAIN BelowAt(op, at) |-> Fold(op, BelowAt(op, at)[i])]
  <2>1. DOMAIN BelowAt(op, at) = Children(x, m) /\ \A i \in Children(x, m): BelowAt(op, at)[i] = i
    BY <1>0 DEF PlacesBelow
  <2>2. ASSUME NEW i \in Children(x, m)
        PROVE  (\E k \in 0..(m - 1): HasRank(op, BelowAt(op, at)[i], k)) /\ Fold(op, BelowAt(op, at)[i]) = TRUE
    <3>0. PICK y: \E k \in 0..(m - 1): i = <<y, k>> /\ Shape(y, k)
      BY ChildPlaces
    <3>1. PICK k \in 0..(m - 1): i = <<y, k>> /\ Shape(y, k)
      BY <3>0
    <3>2. k \in S
      BY <1>1
    <3>3. HasRank(op, <<y, k>>, k) /\ Fold(op, <<y, k>>) = TRUE
      BY <3>1, <3>2
    <3> QED
      BY <2>1, <3>1, <3>3
  <2> HIDE DEF S
  <2>a. at[1] = x /\ at[2] = m
    OBVIOUS
  <2> HIDE DEF at
  <2>3. HasRank(op, at, m) /\ Fold(op, at) = MadeOver(op, at)
    BY <2>1, <2>2, FoldAbove
  <2>4. Fold(op, at) = ShapeFrom(at, below)
    BY <1>0, <2>3 DEF MadeOver
  <2>5. \A i \in DOMAIN below: below[i] = TRUE
    BY <2>1, <2>2
  <2> HIDE DEF below
  <2>6. WellMade(x, m)
    BY ShapeBelow DEF Made
  <2>7. Fold(op, at) = (WellMade(x, m) /\ \A i \in DOMAIN below: below[i])
    BY <2>4, <2>a DEF ShapeFrom
  <2>8. Fold(op, at) = TRUE
    BY <2>5, <2>6, <2>7
  <2> QED
    BY <2>3, <2>8 DEF at
<1> HIDE DEF S
<1>2. \A m \in Nat: m \in S
  BY <1>1, SetInduction
<1>3. l \in S
  BY <1>2, ShapeBelow DEF Made
<1>4. Fold(op, <<node, l>>) = TRUE
  BY <1>3 DEF S
<1>5. WellFormedNode(node, l) = Fold(op, <<node, l>>)
  BY ShapeIsFold DEF op
<1> QED
  BY <1>4, <1>5

-----------------------------------------------------------------------------
\* Pruning.

\* Nothing below a trie that has nothing inlined is inlined, or has.
LEMMA InlinedBelow ==
  ASSUME NEW node, NEW l, Shape(node, l), ~HasInlined(node), NEW i \in DOMAIN ChildrenOf(node)
  PROVE  HasCache(ChildrenOf(node)[i]) => IsHashed(ChildrenOf(node)[i]) /\ ~HasInlined(ChildrenOf(node)[i])
<1> DEFINE op == InlinedOp
           below == [k \in DOMAIN ChildrenOf(node) |-> Fold(op, ChildrenOf(node)[k])]
<1>0. DescendsOp(op) /\ \A x, b: MadeAt(op, x, b) = HasInlinedFrom(x, b)
  BY DEF DescendsOp, MadeAt, InlinedOp
<1>1. \A x: HasInlined(x) = Fold(op, x)
  BY InlinedIsFold
<1> HIDE DEF op
<1>2. Fold(op, node) = HasInlinedFrom(node, below)
  BY <1>0, FoldDescends
<1>3. DOMAIN below = DOMAIN ChildrenOf(node) /\ below[i] = HasInlined(ChildrenOf(node)[i])
  BY <1>1
<1>4. ~HasInlinedFrom(node, below)
  BY <1>1, <1>2
<1> HIDE DEF below
<1>5. HasCache(ChildrenOf(node)[i]) => ~(~IsHashed(ChildrenOf(node)[i]) \/ below[i])
  BY <1>3, <1>4 DEF HasInlinedFrom
<1> QED
  BY <1>3, <1>5

\* A digest has nothing below it.
LEMMA DigestHasNone ==
  ASSUME NEW node, NEW l, Shape(node, l), node.t = "digest"
  PROVE  ~HasInlined(node)
<1> DEFINE op == InlinedOp
           below == [k \in DOMAIN ChildrenOf(node) |-> Fold(op, ChildrenOf(node)[k])]
<1>0. DescendsOp(op) /\ \A x, b: MadeAt(op, x, b) = HasInlinedFrom(x, b)
  BY DEF DescendsOp, MadeAt, InlinedOp
<1>1. HasInlined(node) = Fold(op, node)
  BY InlinedIsFold
<1> HIDE DEF op
<1>2. Fold(op, node) = HasInlinedFrom(node, below)
  BY <1>0, FoldDescends
<1>3. ChildrenOf(node) = <<>>
  BY ChildrenOfKinds
<1>4. DOMAIN below = {}
  BY <1>3
<1> HIDE DEF below
<1>5. ~HasInlinedFrom(node, below)
  BY <1>4 DEF HasInlinedFrom
<1> QED
  BY <1>1, <1>2, <1>5

\* A part of a trie that is not inlined is referred to by its digest.
LEMMA HashedRef ==
  ASSUME NEW l, NEW node, NEW full, Stands(node, full, l, FALSE), HasCache(node) => IsHashed(node)
  PROVE  NodeRef(full) = Digest(RlpEncoded(full))
<1>1. Full(full, l) /\ (HasCache(node) <=> node.t # "digest")
  BY StandsShape DEF HasCache
<1>2. CASE node.t = "digest"
  <2>1. node \in Refs(full, FALSE)
    BY <1>2 DEF Stands, StandsHere
  <2>2. node = Digest(RlpEncoded(full))
    BY <1>1, <1>2, <2>1, RefOfFull
  <2>3. node = NodeRef(full)
    BY <2>1 DEF Refs
  <2> QED
    BY <2>2, <2>3
<1>3. CASE node.t # "digest"
  <2>1. Stands(Uncached(node), full, l, FALSE) /\ Uncached(node).t = node.t
    BY UncachedKeeps
  <2>2. RlpEncoded(Uncached(node)) = RlpEncoded(full)
    BY <1>3, <2>1, EncodedAlike
  <2>3. RlpRoot(node) = RlpEncoded(full)
    BY <1>1, <1>3, <2>2 DEF RlpRoot
  <2>4. RlpSize(RlpEncoded(full)) >= DigestSize
    BY <1>1, <1>3, <2>3 DEF IsHashed
  <2>5. NodeRef(full) = InlineOrDigest(RlpEncoded(full))
    BY <1>1, RefOfFull
  <2> QED
    BY <2>4, <2>5 DEF InlineOrDigest
<1> QED
  BY <1>2, <1>3

\* Can a node be replaced by its digest?
MayPrune(full, atop) == Digest(RlpEncoded(full)) \in Refs(full, atop)

\* So is, with all that is below it, whatever is below a trie that has nothing inlined.
LEMMA PrunableBelow ==
  ASSUME NEW l, NEW node, NEW full, NEW atop, Stands(node, full, l, atop), ~HasInlined(node),
         NEW i \in DOMAIN ChildrenOf(node), NEW m, NEW f, Stands(ChildrenOf(node)[i], f, m, FALSE)
  PROVE  ~HasInlined(ChildrenOf(node)[i]) /\ MayPrune(f, FALSE)
<1> DEFINE x == ChildrenOf(node)[i]
<1>1. Shape(node, l) /\ Shape(x, m) /\ (HasCache(x) <=> x.t # "digest")
  BY StandsShape DEF HasCache
<1>2. HasCache(x) => IsHashed(x) /\ ~HasInlined(x)
  BY <1>1, InlinedBelow
<1>3. ~HasInlined(x)
  BY <1>1, <1>2, DigestHasNone
<1>4. NodeRef(f) = Digest(RlpEncoded(f))
  BY <1>2, HashedRef
<1> HIDE DEF x
<1>5. MayPrune(f, FALSE)
  BY <1>4 DEF MayPrune, Refs
<1> QED
  BY <1>3, <1>5 DEF x

\* What pruning gives: a node that stands for the same, and keys of the cursor.
Prunes(result, full, l, atop, keys) ==
  Stands(result.node, full, l, atop) /\ result.cursor \in SUBSET keys

\* Pruning what is below a node, on any path and with any cursor.
PrunesAll(pruned, full, l, keys) ==
  \A path \in Seq(Nibble), cursor \in SUBSET keys: Prunes(pruned[path][cursor], full, l, FALSE, keys)

\* The children of a branch, one after the other.
PruneDone(done, node, pruned, path, cursor, m) ==
  done = [n \in 0..m |->
    IF n = 0 THEN [node |-> node, cursor |-> cursor]
    ELSE IF n - 1 \in DOMAIN node.children
    THEN LET at == pruned[n - 1][Append(path, n - 1)][done[n - 1].cursor]
         IN  [node |-> [done[n - 1].node EXCEPT !.children[n - 1] = at.node], cursor |-> at.cursor]
    ELSE done[n - 1]]

\* The children can be pruned one after the other as far as any of them.
LEMMA PruneDoneExists ==
  ASSUME NEW node, NEW pruned, NEW path, NEW cursor
  PROVE  \A m \in Nat: \E done: PruneDone(done, node, pruned, path, cursor, m)
<1> DEFINE After(was, n) ==
             IF n - 1 \in DOMAIN node.children
             THEN LET at == pruned[n - 1][Append(path, n - 1)][was.cursor]
                  IN  [node |-> [was.node EXCEPT !.children[n - 1] = at.node], cursor |-> at.cursor]
             ELSE was
           First == [node |-> node, cursor |-> cursor]
           Is(f, m) == f = [n \in 0..m |-> IF n = 0 THEN First ELSE After(f[n - 1], n)]
           S == {m \in Nat: \E f: Is(f, m)}
<1>0. \A f, m: Is(f, m) => PruneDone(f, node, pruned, path, cursor, m)
  BY DEF PruneDone
<1> HIDE DEF After, First
<1>1. 0 \in S
  <2> DEFINE g == [n \in 0..0 |-> First]
  <2>1. g = [n \in 0..0 |-> IF n = 0 THEN First ELSE After(g[n - 1], n)]
    OBVIOUS
  <2> HIDE DEF g
  <2>2. Is(g, 0)
    BY <2>1
  <2> QED
    BY <2>2
<1>2. ASSUME NEW m \in Nat, m \in S PROVE m + 1 \in S
  <2>1. PICK f: Is(f, m)
    BY <1>2
  <2> DEFINE next == [k \in 0..(m + 1) |-> IF k = m + 1 THEN After(f[m], m + 1) ELSE f[k]]
  <2>2. \A k \in 0..m: f[k] = IF k = 0 THEN First ELSE After(f[k - 1], k)
    BY <2>1
  <2>3. \A k \in 0..(m + 1): next[k] = IF k = 0 THEN First ELSE After(next[k - 1], k)
    <3>1. \A k \in 0..m: next[k] = f[k]
      OBVIOUS
    <3>2. next[m + 1] = After(f[m], m + 1)
      OBVIOUS
    <3> HIDE DEF next
    <3>3. \A k \in 1..(m + 1): k - 1 \in 0..m
      OBVIOUS
    <3> QED
      BY <2>2, <3>1, <3>2, <3>3
  <2>4. next = [k \in 0..(m + 1) |-> next[k]]
    OBVIOUS
  <2> HIDE DEF next
  <2>5. Is(next, m + 1)
    BY <2>3, <2>4
  <2> QED
    BY <2>5
<1> HIDE DEF S
<1>3. \A m \in Nat: m \in S
  BY <1>1, <1>2, StepInduction
<1>4. \A m \in Nat: \E f: Is(f, m)
  BY <1>3 DEF S
<1> HIDE DEF Is
<1> QED
  BY <1>0, <1>4

\* One step of them.
PruneNext(was, node, pruned, path, n) ==
  IF n \in DOMAIN node.children
  THEN LET at == pruned[n][Append(path, n)][was.cursor]
       IN  [node |-> [was.node EXCEPT !.children[n] = at.node], cursor |-> at.cursor]
  ELSE was

\* The cursor goes through the children in their order.
LEMMA PruneDoneSteps ==
  ASSUME NEW node, NEW pruned, NEW path, NEW cursor, NEW m \in Nat, NEW done,
         PruneDone(done, node, pruned, path, cursor, m)
  PROVE  /\ done[0] = [node |-> node, cursor |-> cursor]
         /\ \A n \in Nat: n < m => done[n + 1] = PruneNext(done[n], node, pruned, path, n)
<1> DEFINE First == [node |-> node, cursor |-> cursor]
           Next1(was, n) ==
             IF n - 1 \in DOMAIN node.children
             THEN LET at == pruned[n - 1][Append(path, n - 1)][was.cursor]
                  IN  [node |-> [was.node EXCEPT !.children[n - 1] = at.node], cursor |-> at.cursor]
             ELSE was
<1>1. done = [n \in 0..m |-> IF n = 0 THEN First ELSE Next1(done[n - 1], n)]
  BY DEF PruneDone
<1>2. \A was, n: Next1(was, n) = PruneNext(was, node, pruned, path, n - 1)
  BY DEF PruneNext
<1> HIDE DEF First, Next1
<1>3. 0 \in 0..m /\ \A n \in Nat: n < m => n + 1 \in 0..m /\ n + 1 # 0 /\ (n + 1) - 1 = n
  OBVIOUS
<1>4. done[0] = First
  BY <1>1, <1>3
<1>5. \A n \in Nat: n < m => done[n + 1] = Next1(done[n], n + 1)
  BY <1>1, <1>3
<1> QED
  BY <1>2, <1>3, <1>4, <1>5 DEF First

\* Pruning the children of a branch goes through sixteen of them.
LEMMA PruneChildrenSteps ==
  ASSUME NEW node, NEW pruned, NEW path, NEW cursor
  PROVE  \E done: /\ done[0] = [node |-> node, cursor |-> cursor]
                  /\ \A n \in 0..15: done[n + 1] = PruneNext(done[n], node, pruned, path, n)
                  /\ PruneChildren(node, pruned, path, cursor) = done[16]
<1> DEFINE top == 16
           Is(f) == PruneDone(f, node, pruned, path, cursor, top)
<1>1. PruneChildren(node, pruned, path, cursor) = (CHOOSE f: Is(f))[16]
  BY DEF PruneChildren, PruneDone
<1>2. top \in Nat /\ \A n \in 0..15: n \in Nat /\ n < top
  OBVIOUS
<1> HIDE DEF top
<1>3. \E f: Is(f)
  BY <1>2, PruneDoneExists
<1>4. ASSUME NEW f, Is(f)
      PROVE  /\ f[0] = [node |-> node, cursor |-> cursor]
             /\ \A n \in 0..15: f[n + 1] = PruneNext(f[n], node, pruned, path, n)
  <2>1. /\ f[0] = [node |-> node, cursor |-> cursor]
        /\ \A n \in Nat: n < top => f[n + 1] = PruneNext(f[n], node, pruned, path, n)
    BY <1>2, <1>4, PruneDoneSteps
  <2> QED
    BY <1>2, <2>1
<1> HIDE DEF Is
<1> QED
  BY <1>1, <1>3, <1>4

\* A branch some of whose children are pruned.
LEMMA PruneChildrenKeeps ==
  ASSUME NEW l \in Nat, NEW node, NEW full, NEW atop, NEW nibs, NEW children, NEW parts, NEW cache,
         BranchStands(node, full, l, atop, nibs, children, parts, cache),
         NEW keys, NEW path \in Seq(Nibble), NEW cursor \in SUBSET keys, NEW pruned,
         \A i \in nibs: PrunesAll(pruned[i], parts[i], l - 1, keys)
  PROVE  Prunes(PruneChildren(node, pruned, path, cursor), full, l, atop, keys)
<1>1. PICK done: /\ done[0] = [node |-> node, cursor |-> cursor]
                 /\ \A n \in 0..15: done[n + 1] = PruneNext(done[n], node, pruned, path, n)
                 /\ PruneChildren(node, pruned, path, cursor) = done[16]
  BY PruneChildrenSteps
<1>2. PruneChildren(node, pruned, path, cursor) = done[16]
  BY <1>1
<1> DEFINE Is(r, C) == BranchStands(r.node, full, l, atop, nibs, C, parts, cache) /\ r.cursor \in SUBSET keys
           S == {n \in Nat: n <= 16 => \E C: Is(done[n], C)}
<1>3. /\ node = BranchNode(children, cache) /\ cache \in Caches(full, atop)
      /\ children = [i \in nibs |-> children[i]] /\ FullBranch(full, l, nibs, parts) /\ nibs \in SUBSET Nibble
  BY DEF BranchStands, FullBranch, IsBranch
<1>4. DOMAIN node.children = nibs
  <2>1. DOMAIN children = nibs
    BY <1>3
  <2>2. node.children = children
    BY <1>3 DEF BranchNode
  <2> QED
    BY <2>1, <2>2
<1>5. 0 \in S
  <2>1. done[0] = [node |-> node, cursor |-> cursor]
    BY <1>1
  <2>2. done[0].node = node /\ done[0].cursor = cursor
    BY <2>1
  <2>3. Is(done[0], children)
    BY <2>2
  <2> QED
    BY <2>3
<1>6. ASSUME NEW n \in Nat, n \in S PROVE n + 1 \in S
  <2> SUFFICES ASSUME n + 1 <= 16 PROVE \E C: Is(done[n + 1], C)
    OBVIOUS
  <2>1. n + 1 \in 0..16 /\ n + 1 # 0 /\ (n + 1) - 1 = n /\ n <= 16
    OBVIOUS
  <2>2. PICK C: Is(done[n], C)
    BY <1>6, <2>1
  <2> HIDE DEF S
  <2> DEFINE was == done[n]
             at == pruned[n][Append(path, n)][was.cursor]
  <2>3. done[n + 1] =
          IF n \in nibs THEN [node |-> [was.node EXCEPT !.children[n] = at.node], cursor |-> at.cursor] ELSE was
    <3>1. n \in 0..15
      BY <2>1
    <3>2. done[n + 1] = PruneNext(done[n], node, pruned, path, n)
      BY <1>1, <3>1
    <3> QED
      BY <1>4, <3>2 DEF PruneNext
  <2>4. CASE n \notin nibs
    BY <2>2, <2>3, <2>4
  <2>5. CASE n \in nibs
    <3>1. n \in Nibble /\ Append(path, n) \in Seq(Nibble) /\ was.cursor \in SUBSET keys
      BY <1>3, <2>2, <2>5
    <3>2. PrunesAll(pruned[n], parts[n], l - 1, keys)
      BY <2>5
    <3>3. Prunes(at, parts[n], l - 1, FALSE, keys)
      BY <3>1, <3>2 DEF PrunesAll
    <3>4. Stands(at.node, parts[n], l - 1, FALSE) /\ at.cursor \in SUBSET keys
      BY <3>3 DEF Prunes
    <3>5. BranchStands(was.node, full, l, atop, nibs, C, parts, cache)
      BY <2>2
    <3>6. was.node = BranchNode(C, cache) /\ C = [i \in nibs |-> C[i]]
          /\ \A i \in nibs: Stands(C[i], parts[i], l - 1, FALSE)
      BY <3>5 DEF BranchStands
    <3> DEFINE new == [C EXCEPT ![n] = at.node]
               made == [was.node EXCEPT !.children[n] = at.node]
    <3> HIDE DEF at, was
    <3>7. made = BranchNode(new, cache)
      BY <3>6 DEF BranchNode
    <3>8. new = [i \in nibs |-> new[i]]
      BY <3>6
    <3>9. \A i \in nibs: new[i] = IF i = n THEN at.node ELSE C[i]
      BY <3>6
    <3> HIDE DEF new, made
    <3>10. \A i \in nibs: Stands(new[i], parts[i], l - 1, FALSE)
      BY <3>4, <3>6, <3>9
    <3>11. BranchStands(made, full, l, atop, nibs, new, parts, cache)
      BY <1>3, <3>7, <3>8, <3>10 DEF BranchStands
    <3>12. done[n + 1] = [node |-> made, cursor |-> at.cursor]
      BY <2>3, <2>5 DEF made
    <3>13. done[n + 1].node = made /\ done[n + 1].cursor = at.cursor
      BY <3>12
    <3>14. Is(done[n + 1], new)
      BY <3>4, <3>11, <3>13
    <3> QED
      BY <3>14
  <2> QED
    BY <2>4, <2>5
<1> HIDE DEF S
<1>7. \A n \in Nat: n \in S
  BY <1>5, <1>6, StepInduction
<1>8. PICK C: Is(done[16], C)
  BY <1>7 DEF S
<1>9. Stands(done[16].node, full, l, atop) /\ done[16].cursor \in SUBSET keys
  BY <1>8, BranchStandsIn
<1> QED
  BY <1>2, <1>9 DEF Prunes

\* Pruning a node, on any path and with any cursor.
LEMMA PruneAtKeeps ==
  ASSUME NEW l, NEW node, NEW full, NEW atop, Stands(node, full, l, atop), MayPrune(full, atop),
         NEW keys, NEW path \in Seq(Nibble), NEW cursor \in SUBSET keys, NEW pruned,
         \A i \in DOMAIN ChildrenOf(node): \A m \in 0..(l - 1): \A f:
           Stands(ChildrenOf(node)[i], f, m, FALSE) => PrunesAll(pruned[i], f, m, keys)
  PROVE  Prunes(PruneAt(node, pruned, path, cursor), full, l, atop, keys)
<1> DEFINE rest == Seek(cursor, path)
           isReached == PeekWithPrefix(rest, path)
           child == pruned[1][path \o node.path][rest]
           result == PruneAt(node, pruned, path, cursor)
           Keeps(x) == result = [node |-> x, cursor |-> rest]
<1>0. l \in Nat /\ Full(full, l)
  BY StandsCases
<1>1. rest \in SUBSET keys
  BY DEF Seek
<1>2. result =
        CASE ~isReached -> [node |-> Hash(node), cursor |-> rest]
          [] isReached /\ node.t = "extension" ->
               [node |-> [node EXCEPT !.child = child.node], cursor |-> child.cursor]
          [] isReached /\ node.t = "branch" -> PruneChildren(node, pruned, path, rest)
          [] OTHER -> [node |-> node, cursor |-> rest]
  BY DEF PruneAt
<1> HIDE DEF rest, isReached, result
<1>a. ASSUME NEW x, Keeps(x), Stands(x, full, l, atop) PROVE Prunes(result, full, l, atop, keys)
  <2>1. result.node = x /\ result.cursor = rest
    BY <1>a
  <2> QED
    BY <1>1, <1>a, <2>1 DEF Prunes
<1>3. CASE ~isReached
  <2>1. result = [node |-> Hash(node), cursor |-> rest]
    BY <1>2, <1>3
  <2>2. Hash(node) = Digest(RlpEncoded(full))
    BY HashOfStandIn
  <2> DEFINE d == Digest(RlpEncoded(full))
  <2>3. d.t = "digest"
    BY DEF Digest
  <2>4. d \in Refs(full, atop)
    BY DEF MayPrune
  <2> HIDE DEF d
  <2>5. Stands(d, full, l, atop)
    BY <1>0, <2>3, <2>4, DigestStands
  <2>6. Hash(node) = d
    BY <2>2 DEF d
  <2>7. Stands(Hash(node), full, l, atop)
    BY <2>5, <2>6
  <2> QED
    BY <1>a, <2>1, <2>7 DEF result
<1>4. CASE isReached /\ node.t \notin {"extension", "branch"}
  <2>1. result = [node |-> node, cursor |-> rest]
    BY <1>2, <1>4
  <2> QED
    BY <1>a, <2>1 DEF result
<1>5. ASSUME isReached, NEW n, NEW p, NEW c, NEW part, NEW cache,
             ExtensionStands(node, full, l, atop, n, p, c, part, cache)
      PROVE  Prunes(result, full, l, atop, keys)
  <2>1. /\ node = ExtensionNode(p, c, cache) /\ FullExtension(full, l, n, p, part) /\ cache \in Caches(full, atop)
        /\ Stands(c, part, l - n, FALSE) /\ n \in 1..l /\ p \in Seq(Nibble)
    BY <1>5 DEF ExtensionStands, FullExtension, IsExtension, Key
  <2>2. ChildrenOf(node) = <<c>>
    BY <2>1, ChildrenOfKinds
  <2>3. 1 \in DOMAIN ChildrenOf(node) /\ ChildrenOf(node)[1] = c
    BY <2>2
  <2>4. l - n \in 0..(l - 1)
    BY <1>0, <2>1
  <2>5. PrunesAll(pruned[1], part, l - n, keys)
    BY <2>1, <2>3, <2>4
  <2>6. node.t = "extension" /\ node.path = p
    BY <2>1 DEF ExtensionNode
  <2>7. path \o p \in Seq(Nibble)
    BY <2>1
  <2>8. path \o node.path \in Seq(Nibble)
    BY <2>6, <2>7
  <2>9. Prunes(child, part, l - n, FALSE, keys)
    BY <1>1, <2>5, <2>8 DEF PrunesAll
  <2>10. Stands(child.node, part, l - n, FALSE) /\ child.cursor \in SUBSET keys
    BY <2>9 DEF Prunes
  <2> HIDE DEF child
  <2>11. result = [node |-> [node EXCEPT !.child = child.node], cursor |-> child.cursor]
    BY <1>2, <1>5, <2>6
  <2>12. [node EXCEPT !.child = child.node] = ExtensionNode(p, child.node, cache)
    BY <2>1 DEF ExtensionNode
  <2>13. ExtensionStands(ExtensionNode(p, child.node, cache), full, l, atop, n, p, child.node, part, cache)
    BY <2>1, <2>10 DEF ExtensionStands
  <2>14. Stands(ExtensionNode(p, child.node, cache), full, l, atop)
    BY <1>0, <2>13, ExtensionStandsIn
  <2>15. result.node = ExtensionNode(p, child.node, cache) /\ result.cursor = child.cursor
    BY <2>11, <2>12
  <2> QED
    BY <2>10, <2>14, <2>15 DEF Prunes
<1>6. ASSUME isReached, NEW nibs, NEW children, NEW parts, NEW cache,
             BranchStands(node, full, l, atop, nibs, children, parts, cache)
      PROVE  Prunes(result, full, l, atop, keys)
  <2>1. /\ node = BranchNode(children, cache) /\ children = [i \in nibs |-> children[i]] /\ l > 0
        /\ \A i \in nibs: Stands(children[i], parts[i], l - 1, FALSE)
    BY <1>6 DEF BranchStands, FullBranch, IsBranch
  <2>2. ChildrenOf(node) = children
    BY <2>1, ChildrenOfKinds
  <2>3. DOMAIN children = nibs
    BY <2>1
  <2>4. l - 1 \in 0..(l - 1)
    BY <1>0, <2>1
  <2>5. \A i \in nibs: PrunesAll(pruned[i], parts[i], l - 1, keys)
    BY <2>1, <2>2, <2>3, <2>4
  <2>6. node.t = "branch"
    BY <2>1 DEF BranchNode
  <2>7. result = PruneChildren(node, pruned, path, rest)
    BY <1>2, <1>6, <2>6
  <2>8. Prunes(PruneChildren(node, pruned, path, rest), full, l, atop, keys)
    BY <1>0, <1>1, <1>6, <2>5, PruneChildrenKeeps
  <2> QED
    BY <2>7, <2>8
<1>7. ASSUME NEW path1, NEW value, NEW cache, LeafStands(node, full, l, atop, path1, value, cache)
      PROVE  node.t = "leaf"
  BY <1>7 DEF LeafStands, LeafNode
<1>8. CASE isReached /\ node.t \in {"extension", "branch"}
  <2>1. \/ \E n, p, c, part, cache: ExtensionStands(node, full, l, atop, n, p, c, part, cache)
        \/ \E nibs, children, parts, cache: BranchStands(node, full, l, atop, nibs, children, parts, cache)
    BY <1>7, <1>8, StandsCases
  <2>2. CASE \E n, p, c, part, cache: ExtensionStands(node, full, l, atop, n, p, c, part, cache)
    BY <1>5, <1>8, <2>2 DEF result
  <2>3. CASE \E nibs, children, parts, cache: BranchStands(node, full, l, atop, nibs, children, parts, cache)
    BY <1>6, <1>8, <2>3 DEF result
  <2> QED
    BY <2>1, <2>2, <2>3
<1> QED
  BY <1>3, <1>4, <1>8

\* A trie that has nothing inlined, pruned to keys, stands for what it did.
LEMMA PruneKeeps ==
  ASSUME NEW l, NEW node, NEW full, Stands(node, full, l, TRUE), ~HasInlined(node), NEW keys
  PROVE  Stands(NodePrune(node, <<>>, keys).node, full, l, TRUE)
<1> DEFINE op == PruneOp(keys)
           All(x, f, m, a) == \A path \in Seq(Nibble), cursor \in SUBSET keys: Prunes(Fold(op, x)[path][cursor], f, m, a, keys)
           S == {m \in Nat: \A x, f, a: Stands(x, f, m, a) /\ ~HasInlined(x) /\ MayPrune(f, a) => All(x, f, m, a)}
<1>0. DescendsOp(op) /\ \A x, below: MadeAt(op, x, below) = PruneFrom(keys, x, below)
  BY DEF DescendsOp, MadeAt, PruneOp
<1> HIDE DEF op
<1>1. ASSUME NEW m \in Nat, \A k \in 0..(m - 1): k \in S PROVE m \in S
  <2> SUFFICES ASSUME NEW x, NEW f, NEW a, Stands(x, f, m, a), ~HasInlined(x), MayPrune(f, a)
               PROVE  All(x, f, m, a)
    OBVIOUS
  <2>b. ASSUME NEW k \in 0..(m - 1), NEW y, NEW g, Stands(y, g, k, FALSE), ~HasInlined(y), MayPrune(g, FALSE)
        PROVE  PrunesAll(Fold(op, y), g, k, keys)
    <3>1. k \in S
      BY <1>1
    <3>2. All(y, g, k, FALSE)
      BY <2>b, <3>1
    <3> QED
      BY <3>2 DEF PrunesAll
  <2> HIDE DEF S
  <2> DEFINE pruned == [i \in DOMAIN ChildrenOf(x) |-> Fold(op, ChildrenOf(x)[i])]
  <2>1. Shape(x, m)
    BY StandsShape
  <2>2. Fold(op, x) = PruneFrom(keys, x, pruned)
    BY <1>0, <2>1, FoldDescends
  <2>3. \A i \in DOMAIN ChildrenOf(x): pruned[i] = Fold(op, ChildrenOf(x)[i])
    OBVIOUS
  <2> HIDE DEF pruned
  <2>4. ASSUME NEW i \in DOMAIN ChildrenOf(x), NEW k \in 0..(m - 1), NEW g, Stands(ChildrenOf(x)[i], g, k, FALSE)
        PROVE  PrunesAll(pruned[i], g, k, keys)
    <3>1. ~HasInlined(ChildrenOf(x)[i]) /\ MayPrune(g, FALSE)
      BY <2>4, PrunableBelow
    <3>2. PrunesAll(Fold(op, ChildrenOf(x)[i]), g, k, keys)
      BY <2>4, <2>b, <3>1
    <3> QED
      BY <2>3, <3>2
  <2>5. ASSUME NEW path \in Seq(Nibble), NEW cursor \in SUBSET keys
        PROVE  Prunes(Fold(op, x)[path][cursor], f, m, a, keys)
    <3>1. Fold(op, x)[path][cursor] = PruneAt(x, pruned, path, cursor)
      BY <2>2 DEF PruneFrom
    <3>2. Prunes(PruneAt(x, pruned, path, cursor), f, m, a, keys)
      BY <2>4, PruneAtKeeps
    <3> QED
      BY <3>1, <3>2
  <2> QED
    BY <2>5
<1> HIDE DEF S
<1>2. \A m \in Nat: m \in S
  BY <1>1, SetInduction
<1>3. l \in S
  BY <1>2, StandsCases
<1>4. MayPrune(full, TRUE)
  BY DEF MayPrune, Refs
<1>5. All(node, full, l, TRUE)
  BY <1>3, <1>4 DEF S
<1>6. <<>> \in Seq(Nibble) /\ keys \in SUBSET keys
  OBVIOUS
<1>7. Prunes(Fold(op, node)[<<>>][keys], full, l, TRUE, keys)
  BY <1>5, <1>6
<1>8. NodePrune(node, <<>>, keys) = Fold(op, node)[<<>>][keys]
  BY PruneIsFold DEF op
<1> QED
  BY <1>7, <1>8 DEF Prunes

-----------------------------------------------------------------------------
\* The operations on a key: on a stand-in they do what they do on the trie it stands for.

\* The parts of an extension and of the one it stands for.
LEMMA ExtensionParts ==
  ASSUME NEW l \in Nat, NEW node, NEW full, NEW atop, NEW n, NEW path, NEW child, NEW part, NEW cache,
         ExtensionStands(node, full, l, atop, n, path, child, part, cache)
  PROVE  /\ IsExtension(node, l, n, path, child, cache) /\ IsExtension(full, l, n, path, part, NoCache)
         /\ Stands(child, part, l - n, FALSE) /\ part.t = "branch" /\ l - n \in 0..(l - 1)
         /\ FullExtension(full, l, n, path, part)
<1>1. /\ node = ExtensionNode(path, child, cache) /\ FullExtension(full, l, n, path, part)
      /\ Stands(child, part, l - n, FALSE)
  BY DEF ExtensionStands
<1>2. IsExtension(full, l, n, path, part, NoCache) /\ part.t = "branch"
  BY <1>1 DEF FullExtension
<1>3. Shape(child, l - n) /\ child.t \in {"branch", "digest"}
  BY <1>1, <1>2, StandsShape
<1>4. n \in 1..l /\ path \in Key(n)
  BY <1>2 DEF IsExtension
<1>5. IsExtension(node, l, n, path, child, cache)
  BY <1>1, <1>3, <1>4 DEF IsExtension
<1>6. l - n \in 0..(l - 1)
  BY <1>4
<1> QED
  BY <1>1, <1>2, <1>5, <1>6

\* The parts of a branch and of the one it stands for.
LEMMA BranchParts ==
  ASSUME NEW l \in Nat, NEW node, NEW full, NEW atop, NEW nibs, NEW children, NEW parts, NEW cache,
         BranchStands(node, full, l, atop, nibs, children, parts, cache)
  PROVE  /\ IsBranch(node, l, nibs, children, cache) /\ IsBranch(full, l, nibs, parts, NoCache)
         /\ \A i \in nibs: Stands(children[i], parts[i], l - 1, FALSE)
         /\ l > 0 /\ l - 1 \in 0..(l - 1) /\ FullBranch(full, l, nibs, parts)
<1>1. /\ node = BranchNode(children, cache) /\ FullBranch(full, l, nibs, parts)
      /\ children = [i \in nibs |-> children[i]]
      /\ \A i \in nibs: Stands(children[i], parts[i], l - 1, FALSE)
  BY DEF BranchStands
<1>2. IsBranch(full, l, nibs, parts, NoCache)
  BY <1>1 DEF FullBranch
<1>3. \A i \in nibs: Shape(children[i], l - 1)
  BY <1>1, StandsShape
<1>4. l > 0 /\ nibs \in SUBSET Nibble /\ Cardinality(nibs) >= 2 /\ IsFiniteSet(nibs)
  BY <1>2 DEF IsBranch
<1>5. IsBranch(node, l, nibs, children, cache)
  BY <1>1, <1>3, <1>4 DEF IsBranch
<1>6. l - 1 \in 0..(l - 1)
  BY <1>4
<1> QED
  BY <1>1, <1>2, <1>4, <1>5, <1>6

\* get panics, or answers from the trie it stands for.
LEMMA GetOfStandIn ==
  ASSUME NEW l, NEW node, NEW full, NEW atop, Stands(node, full, l, atop), NEW key \in Key(l)
  PROVE  NodeGet(node, key) \in {Panic, NodeGet(full, key)}
<1> DEFINE S == {m \in Nat: \A x, f, a, k: Stands(x, f, m, a) /\ k \in Key(m) => NodeGet(x, k) \in {Panic, NodeGet(f, k)}}
<1>1. ASSUME NEW m \in Nat, \A j \in 0..(m - 1): j \in S PROVE m \in S
  <2> SUFFICES ASSUME NEW x, NEW f, NEW a, NEW k, Stands(x, f, m, a), k \in Key(m)
               PROVE  NodeGet(x, k) \in {Panic, NodeGet(f, k)}
    OBVIOUS
  <2>b. ASSUME NEW j \in 0..(m - 1), NEW y, NEW g, NEW r, Stands(y, g, j, FALSE), r \in Key(j)
        PROVE  NodeGet(y, r) \in {Panic, NodeGet(g, r)}
    <3>1. j \in S
      BY <1>1
    <3> QED
      BY <2>b, <3>1
  <2> HIDE DEF S
  <2>1. CASE x.t = "digest"
    BY <2>1, AtEnd
  <2>2. ASSUME NEW path, NEW value, NEW cache, LeafStands(x, f, m, a, path, value, cache)
        PROVE  NodeGet(x, k) \in {Panic, NodeGet(f, k)}
    <3>1. x = LeafNode(path, value, cache) /\ f = LeafNode(path, value, NoCache)
      BY <2>2 DEF LeafStands, IsLeaf
    <3>2. x.t = "leaf" /\ x.path = path /\ x.value = value /\ f.t = "leaf" /\ f.path = path /\ f.value = value
      BY <3>1 DEF LeafNode
    <3>3. NodeGet(x, k) = IF path = k THEN value ELSE NoValue
      BY <3>2, AtEnd
    <3>4. NodeGet(f, k) = IF path = k THEN value ELSE NoValue
      BY <3>2, AtEnd
    <3> QED
      BY <3>3, <3>4
  <2>3. ASSUME NEW n, NEW path, NEW child, NEW part, NEW cache,
               ExtensionStands(x, f, m, a, n, path, child, part, cache)
        PROVE  NodeGet(x, k) \in {Panic, NodeGet(f, k)}
    <3>1. /\ IsExtension(x, m, n, path, child, cache) /\ IsExtension(f, m, n, path, part, NoCache)
          /\ Stands(child, part, m - n, FALSE) /\ m - n \in 0..(m - 1)
      BY <2>3, ExtensionParts
    <3>2. CASE ~IsPrefix(path, k)
      BY <3>1, <3>2, AtExtension
    <3>3. CASE IsPrefix(path, k)
      <4>1. Drop(k, n) \in Key(m - n)
        <5>1. n \in 0..m
          BY <3>1 DEF IsExtension
        <5> QED
          BY <5>1, DropKey
      <4>2. NodeGet(child, Drop(k, n)) \in {Panic, NodeGet(part, Drop(k, n))}
        BY <2>b, <3>1, <4>1
      <4>3. NodeGet(x, k) = NodeGet(child, Drop(k, n)) /\ NodeGet(f, k) = NodeGet(part, Drop(k, n))
        BY <3>1, <3>3, AtExtension
      <4> QED
        BY <4>2, <4>3
    <3> QED
      BY <3>2, <3>3
  <2>4. ASSUME NEW nibs, NEW children, NEW parts, NEW cache,
               BranchStands(x, f, m, a, nibs, children, parts, cache)
        PROVE  NodeGet(x, k) \in {Panic, NodeGet(f, k)}
    <3>1. /\ IsBranch(x, m, nibs, children, cache) /\ IsBranch(f, m, nibs, parts, NoCache)
          /\ \A i \in nibs: Stands(children[i], parts[i], m - 1, FALSE)
          /\ m > 0 /\ m - 1 \in 0..(m - 1)
      BY <2>4, BranchParts
    <3> DEFINE nib == k[1]
               rest == Drop(k, 1)
    <3>2. rest \in Key(m - 1)
      <4>1. 1 \in 0..m
        BY <3>1
      <4> QED
        BY <4>1, DropKey
    <3>3. nib = k[1] /\ rest = Drop(k, 1)
      OBVIOUS
    <3> HIDE DEF nib, rest
    <3>4. CASE nib \notin nibs
      <4>1. NodeGet(x, k) = NoValue
        BY <3>1, <3>3, <3>4, AtBranch
      <4>2. NodeGet(f, k) = NoValue
        BY <3>1, <3>3, <3>4, AtBranch
      <4> QED
        BY <4>1, <4>2
    <3>5. CASE nib \in nibs
      <4>1. NodeGet(children[nib], rest) \in {Panic, NodeGet(parts[nib], rest)}
        BY <2>b, <3>1, <3>2, <3>5
      <4>2. NodeGet(x, k) = NodeGet(children[nib], rest)
        BY <3>1, <3>3, <3>5, AtBranch
      <4>3. NodeGet(f, k) = NodeGet(parts[nib], rest)
        BY <3>1, <3>3, <3>5, AtBranch
      <4> QED
        BY <4>1, <4>2, <4>3
    <3> QED
      BY <3>4, <3>5
  <2> QED
    BY <2>1, <2>2, <2>3, <2>4, StandsCases
<1> HIDE DEF S
<1>2. \A m \in Nat: m \in S
  BY <1>1, SetInduction
<1>3. l \in S
  BY <1>2, StandsCases
<1> QED
  BY <1>3 DEF S

\* Every key is answered by a full trie.
LEMMA FullResolved ==
  \A l \in Nat: \A full: Full(full, l) => Resolved(full, l)
<1> DEFINE S == {m \in Nat: \A f, k: Full(f, m) /\ k \in Key(m) => NodeGet(f, k) # Panic}
<1>1. ASSUME NEW m \in Nat, \A j \in 0..(m - 1): j \in S PROVE m \in S
  <2> SUFFICES ASSUME NEW f, NEW k, Full(f, m), k \in Key(m) PROVE NodeGet(f, k) # Panic
    OBVIOUS
  <2>b. ASSUME NEW j \in 0..(m - 1), NEW g, NEW r, Full(g, j), r \in Key(j) PROVE NodeGet(g, r) # Panic
    <3>1. j \in S
      BY <1>1
    <3> QED
      BY <2>b, <3>1
  <2> HIDE DEF S
  <2>0. NoValue # Panic /\ \A value \in Values: value # Panic
    BY ValuesAssumption DEF NoValue, Panic
  <2>1. ASSUME NEW path, NEW value, IsLeaf(f, m, path, value, NoCache) PROVE NodeGet(f, k) # Panic
    <3>1. f.t = "leaf" /\ f.value = value /\ value \in Values
      BY <2>1 DEF IsLeaf, LeafNode
    <3>2. NodeGet(f, k) \in {f.value, NoValue}
      BY <3>1, AtEnd
    <3> QED
      BY <2>0, <3>1, <3>2
  <2>2. ASSUME NEW n, NEW path, NEW child, FullExtension(f, m, n, path, child) PROVE NodeGet(f, k) # Panic
    <3>1. IsExtension(f, m, n, path, child, NoCache) /\ Full(child, m - n) /\ n \in 1..m
      BY <2>2 DEF FullExtension, IsExtension
    <3>2. m - n \in 0..(m - 1) /\ n \in 0..m
      BY <3>1
    <3>3. Drop(k, n) \in Key(m - n)
      BY <3>2, DropKey
    <3>4. NodeGet(child, Drop(k, n)) # Panic
      BY <2>b, <3>1, <3>2, <3>3
    <3>5. NodeGet(f, k) \in {NoValue, NodeGet(child, Drop(k, n))}
      BY <3>1, AtExtension
    <3> QED
      BY <2>0, <3>4, <3>5
  <2>3. ASSUME NEW nibs, NEW parts, FullBranch(f, m, nibs, parts) PROVE NodeGet(f, k) # Panic
    <3>1. IsBranch(f, m, nibs, parts, NoCache) /\ m > 0 /\ \A i \in nibs: Full(parts[i], m - 1)
      BY <2>3 DEF FullBranch, IsBranch
    <3> DEFINE nib == k[1]
               rest == Drop(k, 1)
    <3>2. m - 1 \in 0..(m - 1) /\ 1 \in 0..m
      BY <3>1
    <3>3. rest \in Key(m - 1)
      BY <3>2, DropKey
    <3>4. nib = k[1] /\ rest = Drop(k, 1)
      OBVIOUS
    <3> HIDE DEF nib, rest
    <3>5. nib \in nibs => NodeGet(parts[nib], rest) # Panic
      BY <2>b, <3>1, <3>2, <3>3
    <3>6. /\ nib \in nibs => NodeGet(f, k) = NodeGet(parts[nib], rest)
          /\ nib \notin nibs => NodeGet(f, k) = NoValue
      BY <3>1, <3>4, AtBranch
    <3> QED
      BY <2>0, <3>5, <3>6
  <2> QED
    BY <2>1, <2>2, <2>3, FullCases
<1> HIDE DEF S
<1>2. \A m \in Nat: m \in S
  BY <1>1, SetInduction
<1> SUFFICES ASSUME NEW l \in Nat, NEW full, Full(full, l), NEW key \in Key(l) PROVE NodeGet(full, key) # Panic
  BY DEF Resolved
<1>3. l \in S
  BY <1>2
<1> QED
  BY <1>3 DEF S

-----------------------------------------------------------------------------
\* insert.

\* The lower part of a node with a path stands for the lower part of what that stands for.
LEMMA LowerStands ==
  ASSUME NEW l, NEW node, NEW full, NEW atop, Stands(node, full, l, atop),
         NEW n, HasPath(node, l, n), NEW m \in 1..n
  PROVE  Stands(LowerPart(node, m), LowerPart(full, m), l - m, FALSE)
<1>0. l \in Nat /\ node.t \in {"leaf", "extension"} /\ n = Len(node.path)
  BY StandsCases DEF HasPath
<1>1. ASSUME NEW path, NEW value, NEW cache, LeafStands(node, full, l, atop, path, value, cache)
      PROVE  Stands(LowerPart(node, m), LowerPart(full, m), l - m, FALSE)
  <2>1. node = LeafNode(path, value, cache) /\ full = LeafNode(path, value, NoCache) /\ path \in Key(l) /\ value \in Values
    BY <1>1 DEF LeafStands, IsLeaf
  <2>2. n = l
    BY <1>0, <2>1 DEF LeafNode, Key
  <2>3. m \in 0..l /\ l - m \in Nat
    BY <1>0, <2>2
  <2>4. Drop(path, m) \in Key(l - m)
    BY <1>0, <2>1, <2>3, DropKey
  <2>5. LowerPart(node, m) = LeafNode(Drop(path, m), value, NoCache)
    BY <2>1 DEF LowerPart, LeafNode, Leaf
  <2>6. LowerPart(full, m) = LeafNode(Drop(path, m), value, NoCache)
    BY <2>1 DEF LowerPart, LeafNode, Leaf
  <2>7. Full(LeafNode(Drop(path, m), value, NoCache), l - m)
    BY <2>1, <2>3, <2>4, FullLeaf
  <2> QED
    BY <2>3, <2>5, <2>6, <2>7, FullStands
<1>2. ASSUME NEW d, NEW path, NEW child, NEW part, NEW cache,
             ExtensionStands(node, full, l, atop, d, path, child, part, cache)
      PROVE  Stands(LowerPart(node, m), LowerPart(full, m), l - m, FALSE)
  <2>1. /\ IsExtension(node, l, d, path, child, cache) /\ IsExtension(full, l, d, path, part, NoCache)
        /\ Stands(child, part, l - d, FALSE) /\ part.t = "branch" /\ FullExtension(full, l, d, path, part)
    BY <1>0, <1>2, ExtensionParts
  <2>2. node = ExtensionNode(path, child, cache) /\ full = ExtensionNode(path, part, NoCache) /\ d \in 1..l /\ path \in Key(d)
    BY <2>1 DEF IsExtension
  <2>3. n = d
    BY <1>0, <2>2 DEF ExtensionNode, Key
  <2>4. m \in 0..d /\ d \in Nat /\ l - m \in Nat
    BY <1>0, <2>2, <2>3
  <2>5. Drop(path, m) \in Key(d - m)
    BY <2>2, <2>4, DropKey
  <2>6. /\ node.t = "extension" /\ node.path = path /\ node.child = child
        /\ full.t = "extension" /\ full.path = path /\ full.child = part
    BY <2>2 DEF ExtensionNode
  <2>7. CASE m = d
    <3>1. Drop(path, m) = <<>>
      BY <2>5, <2>7, NoNibbles
    <3>2. LowerPart(node, m) = child /\ LowerPart(full, m) = part
      BY <2>6, <3>1 DEF LowerPart
    <3> QED
      BY <2>1, <2>7, <3>2
  <2>8. CASE m # d
    <3>1. d - m \in 1..(l - m) /\ (l - m) - (d - m) = l - d /\ d - m # 0
      BY <1>0, <2>2, <2>3, <2>4, <2>8
    <3>2. Drop(path, m) # <<>>
      <4>1. Len(Drop(path, m)) # 0
        BY <2>5, <3>1 DEF Key
      <4>2. Len(<<>>) = 0
        OBVIOUS
      <4> QED
        BY <4>1, <4>2
    <3>3. LowerPart(node, m) = ExtensionNode(Drop(path, m), child, NoCache)
          /\ LowerPart(full, m) = ExtensionNode(Drop(path, m), part, NoCache)
      BY <2>6, <3>2, BareNodes DEF LowerPart
    <3> DEFINE rest == Drop(path, m)
               low == ExtensionNode(rest, child, NoCache)
               fow == ExtensionNode(rest, part, NoCache)
    <3>4. Full(part, l - d)
      BY <2>1 DEF FullExtension
    <3>5. FullExtension(fow, l - m, d - m, rest, part)
      <4>1. Shape(part, l - d)
        BY <3>4, FullBelow
      <4>2. rest \in Key(d - m)
        BY <2>5
      <4> HIDE DEF rest
      <4> QED
        BY <2>1, <3>1, <3>4, <4>1, <4>2 DEF FullExtension, IsExtension
    <3>6. ExtensionStands(low, fow, l - m, FALSE, d - m, rest, child, part, NoCache)
      <4> HIDE DEF rest, fow
      <4> QED
        BY <2>1, <3>1, <3>5 DEF ExtensionStands, Caches
    <3> HIDE DEF rest, low, fow
    <3>7. Stands(low, fow, l - m, FALSE)
      BY <2>4, <3>6, ExtensionStandsIn
    <3> QED
      BY <3>3, <3>7 DEF low, fow, rest
  <2> QED
    BY <2>7, <2>8
<1>3. ASSUME NEW nibs, NEW children, NEW parts, NEW cache,
             BranchStands(node, full, l, atop, nibs, children, parts, cache)
      PROVE  FALSE
  BY <1>0, <1>3 DEF BranchStands, BranchNode
<1> QED
  BY <1>0, <1>1, <1>2, <1>3, StandsCases

\* A branch of two.
Forked(here, there, new, old) == Branch([i \in {there, here} |-> IF i = here THEN new ELSE old])

\* A branch of a new trie and a stand-in.
LEMMA ForkBranchStands ==
  ASSUME NEW l \in Nat, NEW m \in Nat, l = m + 1, NEW here \in Nibble, NEW there \in Nibble, here # there,
         NEW new, Full(new, m), NEW old, NEW part, Stands(old, part, m, FALSE),
         NEW branch, branch = Forked(here, there, new, old),
         NEW full, full = Forked(here, there, new, part)
  PROVE  Stands(branch, full, l, FALSE)
<1> DEFINE nibs == {there, here}
           children == [i \in nibs |-> IF i = here THEN new ELSE old]
           parts == [i \in nibs |-> IF i = here THEN new ELSE part]
<1>1. IsFiniteSet(nibs) /\ Cardinality(nibs) = 2
  <2>1. IsFiniteSet({there}) /\ Cardinality({there}) = 1
    BY FS_Singleton
  <2>2. {there} \cup {here} = nibs /\ here \notin {there}
    OBVIOUS
  <2>3. IsFiniteSet({there} \cup {here}) /\ Cardinality({there} \cup {here}) = 1 + 1
    BY <2>1, <2>2, FS_AddElement
  <2>4. 1 + 1 = 2
    OBVIOUS
  <2> HIDE DEF nibs
  <2> QED
    BY <2>2, <2>3, <2>4, Zenon
<1>2. branch = BranchNode(children, NoCache) /\ full = BranchNode(parts, NoCache)
  BY BareNodes DEF Forked
<1>0. l > 0 /\ m = l - 1
  OBVIOUS
<1>3. l - 1 \in Nat /\ Full(part, l - 1)
  BY <1>0, StandsShape
<1>4. Full(new, l - 1) /\ Stands(new, new, l - 1, FALSE)
  BY <1>0, <1>3, FullStands
<1>5. \A i \in nibs: Stands(children[i], parts[i], l - 1, FALSE) /\ Full(parts[i], l - 1)
  BY <1>0, <1>3, <1>4
<1>6. children = [i \in nibs |-> children[i]] /\ parts = [i \in nibs |-> parts[i]]
  OBVIOUS
<1>7. nibs \in SUBSET Nibble
  OBVIOUS
<1> HIDE DEF nibs, children, parts
<1>8. \A i \in nibs: Shape(parts[i], l - 1)
  BY <1>5, FullBelow
<1>9. FullBranch(full, l, nibs, parts)
  <2>1. Cardinality(nibs) >= 2
    BY <1>1
  <2>2. IsBranch(full, l, nibs, parts, NoCache)
    BY <1>0, <1>1, <1>2, <1>6, <1>7, <1>8, <2>1 DEF IsBranch
  <2> QED
    BY <1>5, <2>2 DEF FullBranch
<1>10. BranchStands(branch, full, l, FALSE, nibs, children, parts, NoCache)
  BY <1>2, <1>5, <1>6, <1>9 DEF BranchStands, Caches
<1> QED
  BY <1>10, BranchStandsIn

\* An extension over a branch.
LEMMA ExtendedStands ==
  ASSUME NEW l \in Nat, NEW n \in 1..l, NEW path \in Key(n), NEW child, NEW part,
         Stands(child, part, l - n, FALSE), part.t = "branch"
  PROVE  Stands(ExtensionNode(path, child, NoCache), ExtensionNode(path, part, NoCache), l, FALSE)
<1> DEFINE node == ExtensionNode(path, child, NoCache)
           full == ExtensionNode(path, part, NoCache)
<1>1. Full(part, l - n) /\ Shape(part, l - n)
  BY StandsShape
<1>2. IsExtension(full, l, n, path, part, NoCache)
  BY <1>1 DEF IsExtension
<1> HIDE DEF full
<1>3. FullExtension(full, l, n, path, part)
  BY <1>1, <1>2 DEF FullExtension
<1>4. ExtensionStands(node, full, l, FALSE, n, path, child, part, NoCache)
  BY <1>3 DEF ExtensionStands, Caches
<1> HIDE DEF node
<1>5. Stands(node, full, l, FALSE)
  BY <1>4, ExtensionStandsIn
<1> QED
  BY <1>5 DEF node, full

\* Where a new key parts from the path of a node.
LEMMA ForkStands ==
  ASSUME NEW l, NEW node, NEW full, NEW atop, Stands(node, full, l, atop),
         NEW n, HasPath(node, l, n), NEW key \in Key(l), ~Follows(node, key, n), NEW value \in Values
  PROVE  Stands(Fork(node, key, value), Fork(full, key, value), l, FALSE)
<1> DEFINE path == node.path
           common == LongestCommonPrefix({path, key})
<1>l. l \in Nat
  BY StandsCases
<1>s. full.path = path
  <2>1. node.t \in {"leaf", "extension"}
    BY DEF HasPath
  <2> QED
    BY <2>1 DEF Stands, StandsHere, SameHere
<1>0. n \in 0..l /\ path \in Key(n)
  BY <1>l, PathOf
<1>1. PICK c \in Nat: /\ c < n /\ c < l /\ common \in Key(c)
                      /\ path[c + 1] # key[c + 1]
  <2>1. \E i \in 1..n: i <= l /\ path[i] # key[i]
    BY <1>l, <1>0 DEF Follows
  <2>2. common = LongestCommonPrefix({path, key})
    OBVIOUS
  <2> HIDE DEF path, common
  <2> QED
    BY <1>l, <1>0, <2>1, <2>2, CommonPart
<1> DEFINE h == c + 1
           lower == LowerPart(node, h)
           fower == LowerPart(full, h)
           new == Leaf(Drop(key, h), value)
           branch == Branch([i \in {path[h], key[h]} |-> IF i = key[h] THEN new ELSE lower])
           franch == Branch([i \in {path[h], key[h]} |-> IF i = key[h] THEN new ELSE fower])
<1>2. /\ Fork(node, key, value) = IF common = <<>> THEN branch ELSE Extension(common, branch)
      /\ Fork(full, key, value) = IF common = <<>> THEN franch ELSE Extension(common, franch)
  <2>1. Len(common) = c
    BY <1>1 DEF Key
  <2> QED
    BY <1>s, <2>1 DEF Fork
<1>3. h \in Nat /\ h \in 1..n /\ h \in 1..l /\ h \in 0..l /\ l - c \in Nat /\ l - c > 0 /\ (l - c) - 1 = l - h
  BY <1>l, <1>0, <1>1
<1>4. path[h] \in Nibble /\ key[h] \in Nibble
  BY <1>0, <1>3, ElementOfSeq DEF Key
<1> HIDE DEF common
<1>5. Stands(lower, fower, l - h, FALSE)
  <2> HIDE DEF h
  <2> QED
    BY <1>3, LowerStands
<1>6. Full(new, l - h)
  <2>1. new = LeafNode(Drop(key, h), value, NoCache)
    BY BareNodes
  <2>2. Drop(key, h) \in Key(l - h) /\ l - h \in Nat
    BY <1>l, <1>3, DropKey
  <2> HIDE DEF new, h
  <2> QED
    BY <2>1, <2>2, FullLeaf
<1>7. Stands(branch, franch, l - c, FALSE) /\ franch.t = "branch"
  <2> DEFINE here == key[h]
             there == path[h]
  <2>1. here # there /\ here \in Nibble /\ there \in Nibble
    BY <1>1, <1>4
  <2>2. branch = Forked(here, there, new, lower) /\ franch = Forked(here, there, new, fower)
    BY DEF Forked
  <2> DEFINE d == l - c
             m == l - h
  <2>3. d \in Nat /\ m \in Nat /\ d = m + 1
    <3> HIDE DEF here, there, new, lower, fower, branch, franch, path
    <3> QED
      BY <1>l, <1>0, <1>1
  <2>4. Full(new, m) /\ Stands(lower, fower, m, FALSE)
    BY <1>5, <1>6
  <2> HIDE DEF here, there, new, lower, fower, branch, franch, d, m
  <2>5. Stands(branch, franch, d, FALSE)
    BY <2>1, <2>2, <2>3, <2>4, ForkBranchStands
  <2>6. franch.t = "branch"
    BY <2>2 DEF Forked, Branch
  <2> QED
    BY <2>5, <2>6 DEF d
<1> HIDE DEF branch, franch
<1>8. CASE common = <<>>
  <2>1. c = 0
    BY <1>1, <1>8, NoNibbles
  <2>2. l - c = l
    BY <1>l, <2>1
  <2> QED
    BY <1>2, <1>7, <1>8, <2>2
<1>9. CASE common # <<>>
  <2>1. c # 0
    BY <1>1, <1>9, NoNibbles
  <2>2. c \in 1..l
    BY <1>l, <1>1, <2>1
  <2>3. /\ Fork(node, key, value) = ExtensionNode(common, branch, NoCache)
        /\ Fork(full, key, value) = ExtensionNode(common, franch, NoCache)
    BY <1>2, <1>9, BareNodes
  <2>4. Stands(ExtensionNode(common, branch, NoCache), ExtensionNode(common, franch, NoCache), l, FALSE)
    BY <1>l, <1>1, <1>7, <2>2, ExtendedStands
  <2> QED
    BY <2>3, <2>4
<1> QED
  BY <1>8, <1>9

\* Children that stand for others, one by one.
ChildrenStand(children, parts, nibs, l) ==
  /\ nibs \in SUBSET Nibble /\ IsFiniteSet(nibs)
  /\ children = [i \in nibs |-> children[i]] /\ parts = [i \in nibs |-> parts[i]]
  /\ \A i \in nibs: Stands(children[i], parts[i], l - 1, FALSE)

\* A branch of them.
LEMMA ChildrenStandIn ==
  ASSUME NEW l \in Nat, l > 0, NEW children, NEW parts, NEW nibs,
         ChildrenStand(children, parts, nibs, l), Cardinality(nibs) >= 2
  PROVE  Stands(BranchNode(children, NoCache), BranchNode(parts, NoCache), l, FALSE)
<1> DEFINE node == BranchNode(children, NoCache)
           full == BranchNode(parts, NoCache)
<1>1. /\ nibs \in SUBSET Nibble /\ IsFiniteSet(nibs)
      /\ children = [i \in nibs |-> children[i]] /\ parts = [i \in nibs |-> parts[i]]
      /\ \A i \in nibs: Stands(children[i], parts[i], l - 1, FALSE)
  BY DEF ChildrenStand
<1>2. \A i \in nibs: Full(parts[i], l - 1) /\ Shape(parts[i], l - 1)
  BY <1>1, StandsShape
<1>3. IsBranch(full, l, nibs, parts, NoCache)
  BY <1>1, <1>2 DEF IsBranch
<1> HIDE DEF full
<1>4. FullBranch(full, l, nibs, parts)
  BY <1>2, <1>3 DEF FullBranch
<1>5. BranchStands(node, full, l, FALSE, nibs, children, parts, NoCache)
  BY <1>1, <1>4 DEF BranchStands, Caches
<1> HIDE DEF node
<1>6. Stands(node, full, l, FALSE)
  BY <1>5, BranchStandsIn
<1> QED
  BY <1>6 DEF node, full

\* Those of a stand-in, with one of them set.
LEMMA WithChildStand ==
  ASSUME NEW l \in Nat, NEW node, NEW full, NEW atop, NEW nibs, NEW children, NEW parts, NEW cache,
         BranchStands(node, full, l, atop, nibs, children, parts, cache), NEW nib \in Nibble,
         NEW child, NEW part, Stands(child, part, l - 1, FALSE)
  PROVE  /\ ChildrenStand(WithChild(children, nib, child), WithChild(parts, nib, part), nibs \cup {nib}, l)
         /\ Cardinality(nibs \cup {nib}) >= 2
<1>1. /\ IsBranch(node, l, nibs, children, cache) /\ IsBranch(full, l, nibs, parts, NoCache)
      /\ \A i \in nibs: Stands(children[i], parts[i], l - 1, FALSE)
  BY BranchParts
<1>2. /\ nibs \in SUBSET Nibble /\ Cardinality(nibs) >= 2 /\ IsFiniteSet(nibs)
      /\ children = [i \in nibs |-> children[i]] /\ parts = [i \in nibs |-> parts[i]]
  BY <1>1 DEF IsBranch
<1>3. DOMAIN children = nibs /\ DOMAIN parts = nibs
  BY <1>2
<1>4. child # Null /\ part # Null
  BY StandsShape
<1> DEFINE more == nibs \cup {nib}
           new == [i \in more |-> IF i = nib THEN child ELSE children[i]]
           fnew == [i \in more |-> IF i = nib THEN part ELSE parts[i]]
<1>5. WithChild(children, nib, child) = new /\ WithChild(parts, nib, part) = fnew
  BY <1>3, <1>4 DEF WithChild
<1>6. more \in SUBSET Nibble /\ IsFiniteSet(more) /\ Cardinality(more) >= 2
  <2>1. IsFiniteSet(more) /\ Cardinality(nibs) <= Cardinality(more)
    <3>1. IsFiniteSet(more)
      BY <1>2, FS_AddElement
    <3>2. nibs \subseteq more
      OBVIOUS
    <3> HIDE DEF more
    <3> QED
      BY <3>1, <3>2, FS_Subset
  <2>2. Cardinality(nibs) \in Nat /\ Cardinality(more) \in Nat
    <3> HIDE DEF more
    <3> QED
      BY <1>2, <2>1, FS_CardinalityType
  <2>3. Cardinality(more) >= 2
    <3> HIDE DEF more
    <3> QED
      BY <1>2, <2>1, <2>2
  <2> QED
    BY <1>2, <2>1, <2>3
<1>7. /\ new = [i \in more |-> new[i]] /\ fnew = [i \in more |-> fnew[i]]
      /\ \A i \in more: Stands(new[i], fnew[i], l - 1, FALSE)
  BY <1>1
<1>8. ChildrenStand(new, fnew, more, l)
  <2> HIDE DEF new, fnew, more
  <2> QED
    BY <1>6, <1>7 DEF ChildrenStand
<1> QED
  BY <1>5, <1>6, <1>8

\* Or taken away.
LEMMA WithoutChildStand ==
  ASSUME NEW l \in Nat, NEW node, NEW full, NEW atop, NEW nibs, NEW children, NEW parts, NEW cache,
         BranchStands(node, full, l, atop, nibs, children, parts, cache), NEW nib
  PROVE  /\ ChildrenStand(WithChild(children, nib, Null), WithChild(parts, nib, Null), nibs \ {nib}, l)
         /\ nibs \ {nib} # {}
<1>1. /\ IsBranch(node, l, nibs, children, cache) /\ IsBranch(full, l, nibs, parts, NoCache)
      /\ \A i \in nibs: Stands(children[i], parts[i], l - 1, FALSE)
  BY BranchParts
<1>2. /\ nibs \in SUBSET Nibble /\ Cardinality(nibs) >= 2 /\ IsFiniteSet(nibs)
      /\ children = [i \in nibs |-> children[i]] /\ parts = [i \in nibs |-> parts[i]]
  BY <1>1 DEF IsBranch
<1>3. DOMAIN children = nibs /\ DOMAIN parts = nibs
  BY <1>2
<1> DEFINE less == nibs \ {nib}
           new == [i \in less |-> children[i]]
           fnew == [i \in less |-> parts[i]]
<1>5. WithChild(children, nib, Null) = new /\ WithChild(parts, nib, Null) = fnew
  BY <1>3 DEF WithChild
<1>6. IsFiniteSet(less)
  BY <1>2, FS_Subset
<1>7. less # {}
  <2>1. PICK i \in nibs: \E j \in nibs: i # j
    BY <1>2, TwoChildren
  <2> QED
    BY <2>1
<1>8. /\ new = [i \in less |-> new[i]] /\ fnew = [i \in less |-> fnew[i]]
      /\ \A i \in less: Stands(new[i], fnew[i], l - 1, FALSE)
  BY <1>1
<1>9. ChildrenStand(new, fnew, less, l)
  <2>1. less \in SUBSET Nibble
    BY <1>2
  <2> HIDE DEF new, fnew, less
  <2> QED
    BY <1>6, <1>8, <2>1 DEF ChildrenStand
<1> QED
  BY <1>5, <1>7, <1>9

\* insert, on a stand-in for a trie, leaves a stand-in for what it leaves of that trie.
InsertStandsAt(l, value) ==
  \A node, full, key: (\E atop: Stands(node, full, l, atop)) /\ key \in Key(l)
      /\ NodeInsert(node, key, value) # Panic =>
    Stands(NodeInsert(node, key, value), NodeInsert(full, key, value), l, FALSE)

\* It does at an extension if it does below it.
LEMMA InsertStandsExtension ==
  ASSUME NEW l \in Nat, NEW value \in Values, \A m \in 0..(l - 1): InsertStandsAt(m, value),
         NEW node, NEW full, NEW atop, NEW n, NEW path, NEW child, NEW part, NEW cache,
         ExtensionStands(node, full, l, atop, n, path, child, part, cache), NEW key \in Key(l),
         NodeInsert(node, key, value) # Panic
  PROVE  Stands(NodeInsert(node, key, value), NodeInsert(full, key, value), l, FALSE)
<1>1. /\ IsExtension(node, l, n, path, child, cache) /\ IsExtension(full, l, n, path, part, NoCache)
      /\ Stands(child, part, l - n, FALSE) /\ part.t = "branch" /\ l - n \in 0..(l - 1)
  BY ExtensionParts
<1>2. n \in 1..l /\ path \in Key(n)
  BY <1>1 DEF IsExtension
<1>3. CASE IsPrefix(path, key)
  <2> DEFINE rest == Drop(key, n)
             new == NodeInsert(child, rest, value)
             fnew == NodeInsert(part, rest, value)
  <2>1. rest \in Key(l - n)
    BY <1>2, DropKey
  <2>2. /\ NodeInsert(node, key, value) = IF new = Panic THEN Panic ELSE ExtensionNode(path, new, NoCache)
        /\ NodeInsert(full, key, value) = IF fnew = Panic THEN Panic ELSE ExtensionNode(path, fnew, NoCache)
    BY <1>1, <1>3, AtExtension
  <2>3. new # Panic
    BY <2>2
  <2>4. InsertStandsAt(l - n, value)
    BY <1>1
  <2>5. Stands(new, fnew, l - n, FALSE)
    <3> HIDE DEF rest
    <3> QED
      BY <1>1, <2>1, <2>3, <2>4 DEF InsertStandsAt
  <2>6. fnew.t = "branch"
    <3>1. Shape(part, l - n) /\ l - n \in Nat
      BY <1>1, StandsShape
    <3>2. Inserted(part, rest, value, l - n, fnew)
      <4> HIDE DEF rest
      <4> QED
        BY <2>1, <3>1, InsertInduction
    <3>3. fnew # Panic
      BY <2>5, StandsShape
    <3> HIDE DEF fnew
    <3> QED
      BY <1>1, <3>2, <3>3 DEF Inserted
  <2> HIDE DEF new, fnew
  <2>7. fnew # Panic
    BY <2>5, StandsShape
  <2>8. Stands(ExtensionNode(path, new, NoCache), ExtensionNode(path, fnew, NoCache), l, FALSE)
    BY <1>2, <2>5, <2>6, ExtendedStands
  <2> QED
    BY <2>2, <2>3, <2>7, <2>8
<1>4. CASE ~IsPrefix(path, key)
  <2>1. /\ NodeInsert(node, key, value) = Fork(node, key, value)
        /\ NodeInsert(full, key, value) = Fork(full, key, value)
    BY <1>1, <1>4, AtExtension
  <2>2. Stands(node, full, l, atop)
    BY ExtensionStandsIn
  <2>3. node.t = "extension" /\ node.path = path
    BY <1>1 DEF IsExtension, ExtensionNode
  <2>4. HasPath(node, l, n)
    BY <1>2, <2>2, <2>3, StandsShape DEF HasPath, Key
  <2>5. ~Follows(node, key, n)
    <3>1. IsPrefix(path, key) <=> n <= l /\ \A i \in 1..n: path[i] = key[i]
      BY <1>2, PrefixNibbles
    <3> QED
      BY <1>2, <1>4, <2>3, <3>1 DEF Follows
  <2> QED
    BY <2>1, <2>2, <2>4, <2>5, ForkStands
<1> QED
  BY <1>3, <1>4

\* And at a branch.
LEMMA InsertStandsBranch ==
  ASSUME NEW l \in Nat, NEW value \in Values, \A m \in 0..(l - 1): InsertStandsAt(m, value),
         NEW node, NEW full, NEW atop, NEW nibs, NEW children, NEW parts, NEW cache,
         BranchStands(node, full, l, atop, nibs, children, parts, cache), NEW key \in Key(l),
         NodeInsert(node, key, value) # Panic
  PROVE  Stands(NodeInsert(node, key, value), NodeInsert(full, key, value), l, FALSE)
<1> DEFINE nib == key[1]
           rest == Drop(key, 1)
<1>1. /\ IsBranch(node, l, nibs, children, cache) /\ IsBranch(full, l, nibs, parts, NoCache)
      /\ \A i \in nibs: Stands(children[i], parts[i], l - 1, FALSE)
      /\ l > 0 /\ l - 1 \in 0..(l - 1)
  BY BranchParts
<1>0. l - 1 \in Nat
  BY <1>1
<1>2. nib \in Nibble /\ rest \in Key(l - 1)
  BY <1>1, HeadTail
<1>3. ASSUME NEW child, NEW part, Stands(child, part, l - 1, FALSE),
             NodeInsert(node, key, value) = BranchNode(WithChild(children, nib, child), NoCache),
             NodeInsert(full, key, value) = BranchNode(WithChild(parts, nib, part), NoCache)
      PROVE  Stands(NodeInsert(node, key, value), NodeInsert(full, key, value), l, FALSE)
  <2>1. child # Null
    BY <1>3, StandsShape
  <2> HIDE DEF nib
  <2>2. /\ ChildrenStand(WithChild(children, nib, child), WithChild(parts, nib, part), nibs \cup {nib}, l)
        /\ Cardinality(nibs \cup {nib}) >= 2
    BY <1>2, <1>3, WithChildStand
  <2>3. Stands(BranchNode(WithChild(children, nib, child), NoCache),
               BranchNode(WithChild(parts, nib, part), NoCache), l, FALSE)
    BY <1>1, <2>2, ChildrenStandIn
  <2> QED
    BY <1>3, <2>3
<1>4. CASE nib \in nibs
  <2> DEFINE new == NodeInsert(children[nib], rest, value)
             fnew == NodeInsert(parts[nib], rest, value)
  <2>1. /\ NodeInsert(node, key, value) =
             IF new = Panic THEN Panic ELSE BranchNode(WithChild(children, nib, new), NoCache)
        /\ NodeInsert(full, key, value) =
             IF fnew = Panic THEN Panic ELSE BranchNode(WithChild(parts, nib, fnew), NoCache)
    BY <1>1, <1>4, AtBranch
  <2>2. new # Panic
    BY <2>1
  <2>3. Stands(new, fnew, l - 1, FALSE)
    <3>1. InsertStandsAt(l - 1, value)
      BY <1>1
    <3>2. Stands(children[nib], parts[nib], l - 1, FALSE)
      BY <1>1, <1>4
    <3> HIDE DEF rest, nib
    <3> QED
      BY <1>2, <2>2, <3>1, <3>2 DEF InsertStandsAt
  <2>4. fnew # Panic
    BY <2>3, StandsShape
  <2> HIDE DEF new, fnew
  <2> QED
    BY <1>3, <2>1, <2>2, <2>3, <2>4
<1>5. CASE nib \notin nibs
  <2> DEFINE new == Leaf(rest, value)
  <2>1. /\ NodeInsert(node, key, value) = BranchNode(WithChild(children, nib, new), NoCache)
        /\ NodeInsert(full, key, value) = BranchNode(WithChild(parts, nib, new), NoCache)
    BY <1>1, <1>5, AtBranch
  <2>2. Full(new, l - 1)
    <3> HIDE DEF rest
    <3> QED
      BY <1>0, <1>2, BareNodes, FullLeaf
  <2>3. Stands(new, new, l - 1, FALSE)
    BY <1>0, <2>2, FullStands
  <2> HIDE DEF new
  <2> QED
    BY <1>3, <2>1, <2>3
<1> QED
  BY <1>4, <1>5

\* It does at a leaf.
LEMMA InsertStandsLeaf ==
  ASSUME NEW l \in Nat, NEW value \in Values,
         NEW node, NEW full, NEW atop, NEW path, NEW old, NEW cache,
         LeafStands(node, full, l, atop, path, old, cache), NEW key \in Key(l)
  PROVE  Stands(NodeInsert(node, key, value), NodeInsert(full, key, value), l, FALSE)
<1>1. /\ IsLeaf(full, l, path, old, NoCache) /\ node = LeafNode(path, old, cache)
  BY DEF LeafStands
<1>2. full = LeafNode(path, old, NoCache) /\ path \in Key(l)
  BY <1>1 DEF IsLeaf
<1>3. node.t = "leaf" /\ node.path = path /\ full.t = "leaf" /\ full.path = path
  BY <1>1, <1>2 DEF LeafNode
<1>4. /\ NodeInsert(node, key, value) = InsertedAt(Place(node, key), value)
      /\ NodeInsert(full, key, value) = InsertedAt(Place(full, key), value)
  BY <1>3, AtEnd
<1>5. CASE path = key
  <2>1. /\ NodeInsert(node, key, value) = SetValue(node, value)
        /\ NodeInsert(full, key, value) = SetValue(full, value)
    BY <1>3, <1>4, <1>5 DEF InsertedAt, Place
  <2>2. SetValue(node, value) = LeafNode(path, value, NoCache) /\ SetValue(full, value) = LeafNode(path, value, NoCache)
    BY <1>1, <1>2, UpdatesInPlace
  <2>3. Full(LeafNode(path, value, NoCache), l)
    BY <1>2, FullLeaf
  <2> QED
    BY <2>1, <2>2, <2>3, FullStands
<1>6. CASE path # key
  <2>1. /\ NodeInsert(node, key, value) = Fork(node, key, value)
        /\ NodeInsert(full, key, value) = Fork(full, key, value)
    BY <1>3, <1>4, <1>6 DEF InsertedAt, Place
  <2>2. Stands(node, full, l, atop)
    BY LeafStandsIn
  <2>3. HasPath(node, l, l)
    BY <1>2, <1>3, <2>2, StandsShape DEF HasPath, Key
  <2>4. ~Follows(node, key, l)
    BY <1>2, <1>3, <1>6, KeyEqual DEF Follows
  <2> QED
    BY <2>1, <2>2, <2>3, <2>4, ForkStands
<1> QED
  BY <1>5, <1>6

\* It does everywhere.
LEMMA InsertStandsAll ==
  ASSUME NEW value \in Values
  PROVE  \A l \in Nat: InsertStandsAt(l, value)
<1> DEFINE S == {l \in Nat: InsertStandsAt(l, value)}
<1>1. ASSUME NEW l \in Nat, \A m \in 0..(l - 1): m \in S
      PROVE  l \in S
  <2>1. \A m \in 0..(l - 1): InsertStandsAt(m, value)
    BY <1>1
  <2>2. ASSUME NEW node, NEW full, NEW key, NEW atop, Stands(node, full, l, atop), key \in Key(l),
               NodeInsert(node, key, value) # Panic
        PROVE  Stands(NodeInsert(node, key, value), NodeInsert(full, key, value), l, FALSE)
    <3>1. CASE node.t = "digest"
      <4>1. NodeInsert(node, key, value) = InsertedAt(Place(node, key), value)
        BY <3>1, AtEnd
      <4>2. InsertedAt(Place(node, key), value) = Panic
        BY <3>1 DEF InsertedAt, Place
      <4> QED
        BY <2>2, <4>1, <4>2
    <3>2. CASE \E path, old, cache: LeafStands(node, full, l, atop, path, old, cache)
      BY <2>2, <3>2, InsertStandsLeaf
    <3>3. CASE \E n, path, child, part, cache: ExtensionStands(node, full, l, atop, n, path, child, part, cache)
      <4>1. PICK n, path, child, part, cache: ExtensionStands(node, full, l, atop, n, path, child, part, cache)
        BY <3>3
      <4> QED
        BY <2>1, <2>2, <4>1, InsertStandsExtension
    <3>4. CASE \E nibs, children, parts, cache: BranchStands(node, full, l, atop, nibs, children, parts, cache)
      <4>1. PICK nibs, children, parts, cache: BranchStands(node, full, l, atop, nibs, children, parts, cache)
        BY <3>4
      <4> QED
        BY <2>1, <2>2, <4>1, InsertStandsBranch
    <3> QED
      BY <2>2, <3>1, <3>2, <3>3, <3>4, StandsCases
  <2>3. InsertStandsAt(l, value)
    BY <2>2 DEF InsertStandsAt
  <2> QED
    BY <2>3
<1> HIDE DEF S
<1>2. \A l \in Nat: l \in S
  BY <1>1, SetInduction
<1> QED
  BY <1>2 DEF S

\* insert on a stand-in.
LEMMA InsertStands ==
  ASSUME NEW l, NEW node, NEW full, NEW atop, Stands(node, full, l, atop), NEW key \in Key(l),
         NEW value \in Values, NodeInsert(node, key, value) # Panic
  PROVE  Stands(NodeInsert(node, key, value), NodeInsert(full, key, value), l, FALSE)
BY InsertStandsAll, StandsCases DEF InsertStandsAt

-----------------------------------------------------------------------------
\* remove.

\* What becomes of a node whose path is prolonged upwards.
Upwards(p, below) ==
  CASE below.t = "leaf"      -> Leaf(Joined(p, below.path), below.value)
    [] below.t = "extension" -> Extension(Joined(p, below.path), below.child)
    [] below.t = "branch"    -> Extension(p, below)

\* With a path put before its own, a stand-in stands for the trie with that path
\* before its own.
LEMMA UpwardsStands ==
  ASSUME NEW l \in Nat, NEW n \in 1..l, NEW p \in Key(n),
         NEW below, NEW part, Stands(below, part, l - n, FALSE), below.t # "digest"
  PROVE  Stands(Upwards(p, below), Upwards(p, part), l, FALSE)
<1>0. l - n \in Nat /\ n \in Nat
  OBVIOUS
<1>1. ASSUME NEW path, NEW value, NEW cache, LeafStands(below, part, l - n, FALSE, path, value, cache)
      PROVE  Stands(Upwards(p, below), Upwards(p, part), l, FALSE)
  <2>1. below = LeafNode(path, value, cache) /\ part = LeafNode(path, value, NoCache) /\ path \in Key(l - n) /\ value \in Values
    BY <1>1 DEF LeafStands, IsLeaf
  <2>2. Upwards(p, below) = Leaf(Joined(p, path), value) /\ Upwards(p, part) = Leaf(Joined(p, path), value)
    BY <2>1 DEF LeafNode, Upwards
  <2>3. Joined(p, path) \in Key(l)
    <3>1. Joined(p, path) \in Key(n + (l - n))
      BY <1>0, <2>1, JoinedPath
    <3>2. n + (l - n) = l
      OBVIOUS
    <3> QED
      BY <3>1, <3>2
  <2>4. Full(Leaf(Joined(p, path), value), l)
    BY <2>1, <2>3, BareNodes, FullLeaf
  <2> QED
    BY <2>2, <2>4, FullStands
<1>2. ASSUME NEW d, NEW path, NEW child, NEW low, NEW cache,
             ExtensionStands(below, part, l - n, FALSE, d, path, child, low, cache)
      PROVE  Stands(Upwards(p, below), Upwards(p, part), l, FALSE)
  <2> DEFINE r == l - n
  <2>0. r \in Nat /\ ExtensionStands(below, part, r, FALSE, d, path, child, low, cache)
    BY <1>0, <1>2
  <2>1. /\ IsExtension(below, r, d, path, child, cache) /\ IsExtension(part, r, d, path, low, NoCache)
        /\ Stands(child, low, r - d, FALSE) /\ low.t = "branch"
    <3> HIDE DEF r
    <3> QED
      BY <2>0, ExtensionParts
  <2>2. /\ below = ExtensionNode(path, child, cache) /\ part = ExtensionNode(path, low, NoCache)
        /\ d \in 1..r /\ path \in Key(d)
    BY <2>1 DEF IsExtension
  <2>3. /\ Upwards(p, below) = Extension(Joined(p, path), child)
        /\ Upwards(p, part) = Extension(Joined(p, path), low)
    BY <2>2 DEF ExtensionNode, Upwards
  <2>4. n + d \in 1..l /\ d \in Nat /\ l - (n + d) = r - d
    BY <2>2
  <2>5. Joined(p, path) \in Key(n + d)
    BY <1>0, <2>2, <2>4, JoinedPath
  <2>6. Stands(child, low, l - (n + d), FALSE)
    BY <2>1, <2>4
  <2> DEFINE m == n + d
             q == Joined(p, path)
  <2>7. m \in 1..l /\ q \in Key(m) /\ Stands(child, low, l - m, FALSE)
    BY <2>4, <2>5, <2>6
  <2>8. /\ Upwards(p, below) = ExtensionNode(q, child, NoCache) /\ Upwards(p, part) = ExtensionNode(q, low, NoCache)
    BY <2>3, BareNodes
  <2> HIDE DEF m, q
  <2> QED
    BY <2>1, <2>7, <2>8, ExtendedStands
<1>3. ASSUME NEW nibs, NEW children, NEW parts, NEW cache,
             BranchStands(below, part, l - n, FALSE, nibs, children, parts, cache)
      PROVE  Stands(Upwards(p, below), Upwards(p, part), l, FALSE)
  <2>1. below = BranchNode(children, cache) /\ part = BranchNode(parts, NoCache)
    BY <1>3 DEF BranchStands, FullBranch, IsBranch
  <2>2. below.t = "branch" /\ part.t = "branch"
    BY <2>1 DEF BranchNode
  <2>3. Upwards(p, below) = ExtensionNode(p, below, NoCache) /\ Upwards(p, part) = ExtensionNode(p, part, NoCache)
    BY <2>2, BareNodes DEF Upwards
  <2> QED
    BY <2>2, <2>3, ExtendedStands
<1> QED
  BY <1>1, <1>2, <1>3, StandsCases

\* A branch that has lost children, or had one replaced.
LEMMA CollapsedStands ==
  ASSUME NEW l \in Nat, l > 0, NEW children, NEW parts, NEW nibs,
         ChildrenStand(children, parts, nibs, l), nibs # {},
         Collapsed(BranchNode(children, NoCache)) # Panic
  PROVE  Stands(Collapsed(BranchNode(children, NoCache)), Collapsed(BranchNode(parts, NoCache)), l, FALSE)
<1> DEFINE node == BranchNode(children, NoCache)
           full == BranchNode(parts, NoCache)
<1>1. /\ nibs \in SUBSET Nibble /\ IsFiniteSet(nibs)
      /\ children = [i \in nibs |-> children[i]] /\ parts = [i \in nibs |-> parts[i]]
      /\ \A i \in nibs: Stands(children[i], parts[i], l - 1, FALSE)
  BY DEF ChildrenStand
<1>2. node.children = children /\ DOMAIN children = nibs /\ full.children = parts /\ DOMAIN parts = nibs
  BY <1>1 DEF BranchNode
<1>3. CASE Cardinality(nibs) # 1
  <2>1. Cardinality(nibs) >= 2
    <3>1. Cardinality(nibs) \in Nat /\ Cardinality(nibs) # 0
      BY <1>1, FS_CardinalityType, FS_EmptySet
    <3> QED
      BY <1>3, <3>1
  <2>2. Collapsed(node) = node /\ Collapsed(full) = full
    <3> HIDE DEF node, full
    <3> QED
      BY <1>2, <1>3, Collapsing
  <2> QED
    BY <2>1, <2>2, ChildrenStandIn
<1>4. CASE Cardinality(nibs) = 1
  <2> DEFINE i == CHOOSE j \in nibs: TRUE
             child == children[i]
             part == parts[i]
  <2>1. i \in nibs
    OBVIOUS
  <2>2. (CHOOSE j \in DOMAIN node.children: TRUE) = i /\ node.children[i] = child
    BY <1>2
  <2>f. (CHOOSE j \in DOMAIN full.children: TRUE) = i /\ full.children[i] = part
    BY <1>2
  <2> HIDE DEF i
  <2>3. Stands(child, part, l - 1, FALSE)
    BY <1>1, <2>1
  <2> HIDE DEF child, part
  <2>c. Cardinality(DOMAIN node.children) = 1
    BY <1>2, <1>4
  <2>d. Cardinality(DOMAIN full.children) = 1
    BY <1>2, <1>4
  <2>4. /\ child.t = "leaf" => Collapsed(node) = Leaf(<<i>> \o child.path, child.value)
        /\ child.t = "extension" => Collapsed(node) = Extension(<<i>> \o child.path, child.child)
        /\ child.t = "branch" => Collapsed(node) = Extension(<<i>>, child)
        /\ child.t = "digest" => Collapsed(node) = Panic
    <3>1. PICK r: r = Collapsed(node)
      OBVIOUS
    <3> HIDE DEF node
    <3>2. /\ child.t = "leaf" => r = Leaf(<<i>> \o child.path, child.value)
          /\ child.t = "extension" => r = Extension(<<i>> \o child.path, child.child)
          /\ child.t = "branch" => r = Extension(<<i>>, child)
          /\ child.t = "digest" => r = Panic
      BY <2>2, <2>c, <3>1, Collapsing
    <3> QED
      BY <3>1, <3>2
  <2>5. /\ part.t = "leaf" => Collapsed(full) = Leaf(<<i>> \o part.path, part.value)
        /\ part.t = "extension" => Collapsed(full) = Extension(<<i>> \o part.path, part.child)
        /\ part.t = "branch" => Collapsed(full) = Extension(<<i>>, part)
    <3>1. PICK r: r = Collapsed(full)
      OBVIOUS
    <3> HIDE DEF full
    <3>2. /\ part.t = "leaf" => r = Leaf(<<i>> \o part.path, part.value)
          /\ part.t = "extension" => r = Extension(<<i>> \o part.path, part.child)
          /\ part.t = "branch" => r = Extension(<<i>>, part)
          /\ part.t = "digest" => r = Panic
      BY <2>f, <2>d, <3>1, Collapsing
    <3> QED
      BY <3>1, <3>2
  <2>6. child.t # "digest"
    BY <2>4
  <2>7. child.t = part.t /\ part.t \in {"leaf", "extension", "branch"}
    BY <2>3, <2>6, StandsShape
  <2>8. Collapsed(node) = Upwards(<<i>>, child) /\ Collapsed(full) = Upwards(<<i>>, part)
    <3> HIDE DEF node, full
    <3> QED
      BY <2>4, <2>5, <2>7 DEF Upwards, Joined
  <2>9. <<i>> \in Key(1)
    BY <1>1, <2>1, OneNibble
  <2>10. Stands(Upwards(<<i>>, child), Upwards(<<i>>, part), l, FALSE)
    <3> DEFINE p == <<i>>
               one == 1
    <3>1. one \in 1..l
      OBVIOUS
    <3>0. p \in Key(one) /\ Stands(child, part, l - one, FALSE)
      BY <2>3, <2>9
    <3> HIDE DEF p, one
    <3>2. Stands(Upwards(p, child), Upwards(p, part), l, FALSE)
      BY <2>6, <3>0, <3>1, UpwardsStands
    <3> QED
      BY <3>2 DEF p
  <2> QED
    BY <2>8, <2>10
<1> QED
  BY <1>3, <1>4

\* What remove leaves: nothing of either, or a stand-in.
StandOrGone(node, full, l) == (node = Null /\ full = Null) \/ Stands(node, full, l, FALSE)

\* The removal of a key that is there does to the node what it does to the full trie.
RemoveStandsAt(l) ==
  \A node, full, key: (\E atop: Stands(node, full, l, atop)) /\ key \in Key(l)
      /\ NodeGet(node, key) # NoValue /\ RemoveFound(node, key) # Panic =>
    StandOrGone(RemoveFound(node, key), RemoveFound(full, key), l)

\* remove at an extension, if it does so below it.
LEMMA RemoveStandsExtension ==
  ASSUME NEW l \in Nat, \A m \in 0..(l - 1): RemoveStandsAt(m),
         NEW node, NEW full, NEW atop, NEW n, NEW path, NEW child, NEW part, NEW cache,
         ExtensionStands(node, full, l, atop, n, path, child, part, cache), NEW key \in Key(l),
         NodeGet(node, key) # NoValue, RemoveFound(node, key) # Panic
  PROVE  StandOrGone(RemoveFound(node, key), RemoveFound(full, key), l)
<1> DEFINE rest == Drop(key, n)
           new == RemoveFound(child, rest)
           fnew == RemoveFound(part, rest)
<1>1. /\ IsExtension(node, l, n, path, child, cache) /\ IsExtension(full, l, n, path, part, NoCache)
      /\ Stands(child, part, l - n, FALSE) /\ part.t = "branch" /\ l - n \in 0..(l - 1)
  BY ExtensionParts
<1>2. n \in 1..l /\ path \in Key(n) /\ node = ExtensionNode(path, child, cache) /\ full = ExtensionNode(path, part, NoCache)
  BY <1>1 DEF IsExtension
<1>3. IsPrefix(path, key)
  BY <1>1, AtExtension
<1>4. rest \in Key(l - n)
  BY <1>2, DropKey
<1>5. NodeGet(child, rest) # NoValue /\ RemoveFound(node, key) = Merged(node, new) /\ RemoveFound(full, key) = Merged(full, fnew)
  BY <1>1, <1>3, AtExtension
<1>6. node.path = path /\ full.path = path
  BY <1>2 DEF ExtensionNode
<1>7. new # Panic
  <2>1. new = Panic => new.t = "panic"
    BY DEF Panic
  <2> HIDE DEF new
  <2> QED
    BY <1>5, <2>1, Merging
<1>8. StandOrGone(new, fnew, l - n)
  <2>1. RemoveStandsAt(l - n)
    BY <1>1
  <2> HIDE DEF rest
  <2> QED
    BY <1>1, <1>4, <1>5, <1>7, <2>1 DEF RemoveStandsAt
<1> HIDE DEF new, fnew
<1>9. CASE new = Null /\ fnew = Null
  <2>1. new.t = "null" /\ fnew.t = "null"
    BY <1>9 DEF Null
  <2>2. Merged(node, new) = Null /\ Merged(full, fnew) = Null
    BY <2>1, Merging
  <2> QED
    BY <1>5, <2>2 DEF StandOrGone
<1>10. CASE Stands(new, fnew, l - n, FALSE)
  <2>1. new.t \in {"digest", fnew.t} /\ fnew.t \in {"leaf", "extension", "branch"}
    BY <1>10, StandsShape
  <2>2. new.t # "digest"
    <3>1. Removed(child, rest, l - n, new)
      <4>1. Shape(child, l - n) /\ l - n \in Nat
        BY <1>1, StandsShape
      <4> HIDE DEF rest
      <4> QED
        BY <1>4, <1>5, <4>1, RemoveInduction DEF new
    <3>2. new # Null
      BY <2>1 DEF Null
    <3> QED
      BY <1>7, <3>1, <3>2 DEF Removed
  <2>3. Merged(node, new) = Upwards(path, new)
    <3>1. new.t = "branch" => SetChild(node, new) = ExtensionNode(path, new, NoCache)
      BY <1>2, UpdatesInPlace
    <3> QED
      BY <1>6, <2>1, <2>2, <3>1, BareNodes, Merging DEF Upwards, Joined
  <2>4. Merged(full, fnew) = Upwards(path, fnew)
    <3>1. fnew.t = "branch" => SetChild(full, fnew) = ExtensionNode(path, fnew, NoCache)
      BY <1>2, UpdatesInPlace
    <3> QED
      BY <1>6, <2>1, <3>1, BareNodes, Merging DEF Upwards, Joined
  <2>5. Stands(Upwards(path, new), Upwards(path, fnew), l, FALSE)
    BY <1>2, <1>10, <2>2, UpwardsStands
  <2> QED
    BY <1>5, <2>3, <2>4, <2>5 DEF StandOrGone
<1> QED
  BY <1>8, <1>9, <1>10 DEF StandOrGone

\* And at a branch.
LEMMA RemoveStandsBranch ==
  ASSUME NEW l \in Nat, \A m \in 0..(l - 1): RemoveStandsAt(m),
         NEW node, NEW full, NEW atop, NEW nibs, NEW children, NEW parts, NEW cache,
         BranchStands(node, full, l, atop, nibs, children, parts, cache), NEW key \in Key(l),
         NodeGet(node, key) # NoValue, RemoveFound(node, key) # Panic
  PROVE  StandOrGone(RemoveFound(node, key), RemoveFound(full, key), l)
<1> DEFINE nib == key[1]
           rest == Drop(key, 1)
           new == RemoveFound(children[nib], rest)
           fnew == RemoveFound(parts[nib], rest)
<1>1. /\ IsBranch(node, l, nibs, children, cache) /\ IsBranch(full, l, nibs, parts, NoCache)
      /\ \A i \in nibs: Stands(children[i], parts[i], l - 1, FALSE)
      /\ l > 0 /\ l - 1 \in 0..(l - 1)
  BY BranchParts
<1>2. nib \in Nibble /\ rest \in Key(l - 1)
  BY <1>1, HeadTail
<1>3. nib \in nibs
  BY <1>1, AtBranch
<1>4. /\ NodeGet(children[nib], rest) # NoValue
      /\ RemoveFound(node, key) =
           IF new = Panic THEN Panic ELSE Collapsed(BranchNode(WithChild(children, nib, new), NoCache))
      /\ RemoveFound(full, key) =
           IF fnew = Panic THEN Panic ELSE Collapsed(BranchNode(WithChild(parts, nib, fnew), NoCache))
  BY <1>1, <1>3, AtBranch
<1>5. new # Panic
  BY <1>4
<1>6. StandOrGone(new, fnew, l - 1)
  <2>1. RemoveStandsAt(l - 1)
    BY <1>1
  <2>2. Stands(children[nib], parts[nib], l - 1, FALSE)
    BY <1>1, <1>3
  <2> HIDE DEF rest, nib
  <2> QED
    BY <1>2, <1>4, <1>5, <2>1, <2>2 DEF RemoveStandsAt
<1> HIDE DEF new, fnew
<1>7. ASSUME NEW left, ChildrenStand(WithChild(children, nib, new), WithChild(parts, nib, fnew), left, l),
             left # {}, fnew # Panic
      PROVE  StandOrGone(RemoveFound(node, key), RemoveFound(full, key), l)
  <2> DEFINE a == WithChild(children, nib, new)
             b == WithChild(parts, nib, fnew)
  <2>1. Collapsed(BranchNode(a, NoCache)) # Panic
    BY <1>4, <1>5
  <2>2. ChildrenStand(a, b, left, l)
    BY <1>7
  <2>3. RemoveFound(node, key) = Collapsed(BranchNode(a, NoCache)) /\ RemoveFound(full, key) = Collapsed(BranchNode(b, NoCache))
    BY <1>4, <1>5, <1>7
  <2> HIDE DEF a, b
  <2>4. Stands(Collapsed(BranchNode(a, NoCache)), Collapsed(BranchNode(b, NoCache)), l, FALSE)
    BY <1>1, <1>7, <2>1, <2>2, CollapsedStands
  <2> QED
    BY <2>3, <2>4 DEF StandOrGone
<1> HIDE DEF nib
<1>8. CASE new = Null /\ fnew = Null
  <2>1. ChildrenStand(WithChild(children, nib, Null), WithChild(parts, nib, Null), nibs \ {nib}, l) /\ nibs \ {nib} # {}
    BY WithoutChildStand
  <2>2. Null # Panic
    BY DEF Null, Panic
  <2> QED
    BY <1>7, <1>8, <2>1, <2>2
<1>9. CASE Stands(new, fnew, l - 1, FALSE)
  <2>1. ChildrenStand(WithChild(children, nib, new), WithChild(parts, nib, fnew), nibs \cup {nib}, l)
    BY <1>2, <1>9, WithChildStand
  <2>2. fnew # Panic
    BY <1>9, StandsShape
  <2> QED
    BY <1>7, <2>1, <2>2
<1> QED
  BY <1>6, <1>8, <1>9 DEF StandOrGone

\* It does so everywhere.
LEMMA RemoveStandsAll ==
  \A l \in Nat: RemoveStandsAt(l)
<1> DEFINE S == {l \in Nat: RemoveStandsAt(l)}
<1>1. ASSUME NEW l \in Nat, \A m \in 0..(l - 1): m \in S
      PROVE  l \in S
  <2>1. \A m \in 0..(l - 1): RemoveStandsAt(m)
    BY <1>1
  <2>2. ASSUME NEW node, NEW full, NEW key, NEW atop, Stands(node, full, l, atop), key \in Key(l),
               NodeGet(node, key) # NoValue, RemoveFound(node, key) # Panic
        PROVE  StandOrGone(RemoveFound(node, key), RemoveFound(full, key), l)
    <3>1. CASE node.t = "digest"
      BY <2>2, <3>1, AtEnd
    <3>2. CASE \E path, old, cache: LeafStands(node, full, l, atop, path, old, cache)
      <4>1. PICK path, old, cache: LeafStands(node, full, l, atop, path, old, cache)
        BY <3>2
      <4>2. node.t = "leaf" /\ full.t = "leaf"
        BY <4>1 DEF LeafStands, IsLeaf, LeafNode
      <4>3. RemoveFound(node, key) = Null /\ RemoveFound(full, key) = Null
        BY <4>2, AtEnd
      <4> QED
        BY <4>3 DEF StandOrGone
    <3>3. CASE \E n, path, child, part, cache: ExtensionStands(node, full, l, atop, n, path, child, part, cache)
      <4>1. PICK n, path, child, part, cache: ExtensionStands(node, full, l, atop, n, path, child, part, cache)
        BY <3>3
      <4> QED
        BY <2>1, <2>2, <4>1, RemoveStandsExtension
    <3>4. CASE \E nibs, children, parts, cache: BranchStands(node, full, l, atop, nibs, children, parts, cache)
      <4>1. PICK nibs, children, parts, cache: BranchStands(node, full, l, atop, nibs, children, parts, cache)
        BY <3>4
      <4> QED
        BY <2>1, <2>2, <4>1, RemoveStandsBranch
    <3> QED
      BY <2>2, <3>1, <3>2, <3>3, <3>4, StandsCases
  <2>3. RemoveStandsAt(l)
    BY <2>2 DEF RemoveStandsAt
  <2> QED
    BY <2>3
<1> HIDE DEF S
<1>2. \A l \in Nat: l \in S
  BY <1>1, SetInduction
<1> QED
  BY <1>2 DEF S

\* remove on a stand-in, of a key that is found.
LEMMA RemoveStands ==
  ASSUME NEW l, NEW node, NEW full, NEW atop, Stands(node, full, l, atop), NEW key \in Key(l),
         NodeGet(node, key) # NoValue, RemoveFound(node, key) # Panic
  PROVE  StandOrGone(RemoveFound(node, key), RemoveFound(full, key), l)
BY RemoveStandsAll, StandsCases DEF RemoveStandsAt

-----------------------------------------------------------------------------
\* Full tries with the same keys and values are equal.

\* What is below tries that are alike is alike.
LEMMA AlikeBelow ==
  ASSUME NEW a, NEW b, Alike(a, b)
  PROVE  /\ SameHere(a, b)
         /\ \A c, d: <<c, d>> \in Pairs(a, b) => Alike(c, d)
<1>1. PICK R: <<a, b>> \in R /\ AreAlike(R)
  BY DEF Alike
<1>2. SameHere(a, b) /\ \A pair \in Pairs(a, b): pair \in R
  BY <1>1 DEF AreAlike
<1>3. ASSUME NEW c, NEW d, <<c, d>> \in Pairs(a, b)
      PROVE  Alike(c, d)
  BY <1>1, <1>2, <1>3 DEF Alike
<1> QED
  BY <1>2, <1>3

\* Full tries with the same values are the same.
AlikeAreEqual(l) == \A a, b: Full(a, l) /\ Full(b, l) /\ Alike(a, b) => a = b

\* Full tries that are alike are equal: neither has a cache.
LEMMA AlikeFullEqual ==
  \A l \in Nat: AlikeAreEqual(l)
<1> DEFINE S == {l \in Nat: AlikeAreEqual(l)}
<1>1. ASSUME NEW l \in Nat, \A m \in 0..(l - 1): m \in S
      PROVE  l \in S
  <2>0. \A m \in 0..(l - 1): AlikeAreEqual(m)
    BY <1>1
  <2>1. ASSUME NEW a, NEW b, Full(a, l), Full(b, l), Alike(a, b)
        PROVE  a = b
    <3>s. SameHere(a, b) /\ \A c, d: <<c, d>> \in Pairs(a, b) => Alike(c, d)
      BY <2>1, AlikeBelow
    <3>1. CASE \E path, value: IsLeaf(a, l, path, value, NoCache)
      <4>1. PICK path, value: IsLeaf(a, l, path, value, NoCache)
        BY <3>1
      <4>2. a = LeafNode(path, value, NoCache)
        BY <4>1 DEF IsLeaf
      <4>3. a.t = "leaf" /\ a.path = path /\ a.value = value
        BY <4>2 DEF LeafNode
      <4>4. b.t = "leaf" /\ b.path = path /\ b.value = value
        BY <3>s, <4>3 DEF SameHere
      <4>5. PICK other, old: IsLeaf(b, l, other, old, NoCache)
        BY <2>1, <4>4, FullCases DEF FullExtension, IsExtension, FullBranch, IsBranch, ExtensionNode, BranchNode
      <4>6. b = LeafNode(other, old, NoCache)
        BY <4>5 DEF IsLeaf
      <4>7. other = path /\ old = value
        BY <4>4, <4>6 DEF LeafNode
      <4> QED
        BY <4>2, <4>6, <4>7
    <3>2. CASE \E n, path, child: FullExtension(a, l, n, path, child)
      <4>1. PICK n, path, child: FullExtension(a, l, n, path, child)
        BY <3>2
      <4>2. a = ExtensionNode(path, child, NoCache) /\ n \in 1..l /\ path \in Key(n) /\ Full(child, l - n)
        BY <4>1 DEF FullExtension, IsExtension
      <4>3. a.t = "extension" /\ a.path = path /\ a.child = child
        BY <4>2 DEF ExtensionNode
      <4>4. b.t = "extension" /\ b.path = path
        BY <3>s, <4>3 DEF SameHere
      <4>5. PICK m, other, below: FullExtension(b, l, m, other, below)
        BY <2>1, <4>4, FullCases DEF IsLeaf, FullBranch, IsBranch, LeafNode, BranchNode
      <4>6. b = ExtensionNode(other, below, NoCache) /\ other \in Key(m) /\ Full(below, l - m)
        BY <4>5 DEF FullExtension, IsExtension
      <4>7. other = path /\ b.child = below
        BY <4>4, <4>6 DEF ExtensionNode
      <4>8. m = n
        BY <4>2, <4>6, <4>7 DEF Key
      <4>9. <<child, below>> \in Pairs(a, b)
        BY <4>3, <4>7 DEF Pairs
      <4>10. Alike(child, below)
        BY <3>s, <4>9
      <4>11. l - n \in 0..(l - 1)
        BY <4>2
      <4>12. child = below
        BY <2>0, <4>2, <4>6, <4>8, <4>10, <4>11 DEF AlikeAreEqual
      <4> QED
        BY <4>2, <4>6, <4>7, <4>12
    <3>3. CASE \E nibs, children: FullBranch(a, l, nibs, children)
      <4>1. PICK nibs, children: FullBranch(a, l, nibs, children)
        BY <3>3
      <4>2. /\ a = BranchNode(children, NoCache) /\ l > 0 /\ children = [i \in nibs |-> children[i]]
            /\ \A i \in nibs: Full(children[i], l - 1)
        BY <4>1 DEF FullBranch, IsBranch
      <4>3. a.t = "branch" /\ a.children = children /\ DOMAIN children = nibs
        BY <4>2 DEF BranchNode
      <4>4. b.t = "branch" /\ DOMAIN b.children = nibs
        BY <3>s, <4>3 DEF SameHere
      <4>5. PICK others, below: FullBranch(b, l, others, below)
        BY <2>1, <4>4, FullCases DEF IsLeaf, FullExtension, IsExtension, LeafNode, ExtensionNode
      <4>6. /\ b = BranchNode(below, NoCache) /\ below = [i \in others |-> below[i]]
            /\ \A i \in others: Full(below[i], l - 1)
        BY <4>5 DEF FullBranch, IsBranch
      <4>7. b.children = below
        BY <4>6 DEF BranchNode
      <4>8. others = nibs
        BY <4>4, <4>6, <4>7
      <4>9. \A i \in nibs: Alike(children[i], below[i])
        <5>1. \A i \in nibs: <<children[i], below[i]>> \in Pairs(a, b)
          BY <4>3, <4>7 DEF Pairs
        <5> QED
          BY <3>s, <5>1
      <4>10. l - 1 \in 0..(l - 1)
        BY <4>2
      <4>11. AlikeAreEqual(l - 1)
        BY <2>0, <4>10
      <4>12. \A i \in nibs: children[i] = below[i]
        BY <4>2, <4>6, <4>8, <4>9, <4>11 DEF AlikeAreEqual
      <4>13. children = below
        BY <4>2, <4>6, <4>8, <4>12
      <4> QED
        BY <4>2, <4>6, <4>13
    <3> QED
      BY <2>1, <3>1, <3>2, <3>3, FullCases
  <2>2. AlikeAreEqual(l)
    BY <2>1 DEF AlikeAreEqual
  <2> QED
    BY <2>2
<1> HIDE DEF S
<1>2. \A l \in Nat: l \in S
  BY <1>1, SetInduction
<1> QED
  BY <1>2 DEF S

\* Full tries with the same values for the same keys are equal.
LEMMA FullSameEqual ==
  ASSUME NEW l \in Nat, NEW a, Full(a, l), NEW b, Full(b, l), Same(a, b, l)
  PROVE  a = b
<1>1. Shape(a, l) /\ Shape(b, l) /\ Resolved(a, l)
  BY FullBelow, FullResolved
<1>2. Alike(a, b)
  BY <1>1, AlikeInduction
<1> QED
  BY <1>2, AlikeFullEqual DEF AlikeAreEqual

-----------------------------------------------------------------------------
\* The trie of a map.

\* Where keys agree in their first c nibbles, and not in the next, those are what they
\* have in common.
LEMMA CommonIs ==
  ASSUME NEW l \in Nat, NEW S \in SUBSET Key(l), NEW p \in S, NEW c \in 0..l,
         \A j \in S: \A i \in 1..c: j[i] = p[i], c < l => \E j \in S: j[c + 1] # p[c + 1],
         NEW common, common = LongestCommonPrefix(S)
  PROVE  common \in Key(c) /\ \A j \in S: \A i \in 1..c: common[i] = j[i]
<1> DEFINE s == SubSeq(p, 1, c)
           C == CommonPrefixes(S)
<1>4. s \in Key(c) /\ \A i \in 1..c: s[i] = p[i]
  <2>1. \A i \in 1..c: p[i] \in Nibble
    BY ElementOfSeq DEF Key
  <2>2. /\ s \in Seq(Nibble) /\ Len(s) = (IF 1 <= c THEN c - 1 + 1 ELSE 0)
        /\ \A i \in 1..(c - 1 + 1): s[i] = p[1 + i - 1]
    BY <2>1, SubSeqProperties
  <2> QED
    BY <2>2 DEF Key
<1>6. s \in C
  <2>1. s \in Prefixes(p)
    BY DEF Prefixes, Key
  <2>2. c \in Nat
    OBVIOUS
  <2>3. \A j \in S: IsPrefix(s, j)
    <3> HIDE DEF s
    <3>1. \A j \in S: c <= l /\ \A i \in 1..c: s[i] = j[i]
      BY <1>4
    <3> QED
      BY <1>4, <2>2, <3>1, PrefixNibbles
  <2> QED
    BY <2>1, <2>3 DEF CommonPrefixes
<1>7. ASSUME NEW r \in C
      PROVE  \E k \in Nat: r \in Key(k) /\ k <= c
  <2>1. (\A j \in S: IsPrefix(r, j)) /\ \E key \in S: r \in Prefixes(key)
    BY <1>7 DEF CommonPrefixes
  <2>2. \E k \in Nat: r \in Key(k)
    <3>0. PICK key \in S: r \in Prefixes(key)
      BY <2>1
    <3>1. PICK k \in 0..l: r = SubSeq(key, 1, k)
      BY <3>0 DEF Prefixes, Key
    <3>2. \A i \in 1..k: key[i] \in Nibble
      BY ElementOfSeq DEF Key
    <3>3. r \in Seq(Nibble)
      BY <3>1, <3>2, SubSeqProperties
    <3> QED
      BY <3>3, LenProperties DEF Key
  <2>3. PICK k \in Nat: r \in Key(k)
    BY <2>2
  <2>4. \A j \in S: k <= l /\ \A i \in 1..k: r[i] = j[i]
    BY <2>1, <2>3, PrefixNibbles
  <2>5. k <= c
    <3>1. CASE c < l
      <4>1. PICK j \in S: j[c + 1] # p[c + 1]
        BY <3>1
      <4>2. c + 1 \notin 1..k
        BY <2>4, <4>1
      <4> QED
        BY <4>2
    <3>2. CASE ~(c < l)
      BY <2>4, <3>2
    <3> QED
      BY <3>1, <3>2
  <2> QED
    BY <2>3, <2>5
<1> HIDE DEF C
<1>l. Len(s) = c
  BY <1>4 DEF Key
<1>8. common \in C /\ \A r \in C: Len(r) <= Len(common)
  <2>1. \E r \in C: \A other \in C: Len(other) <= Len(r)
    <3>1. \A r \in C: Len(r) <= c
      BY <1>7 DEF Key
    <3> QED
      BY <1>6, <1>l, <3>1
  <2>2. common = CHOOSE r \in C: \A other \in C: Len(other) <= Len(r)
    BY DEF LongestCommonPrefix, C
  <2> QED
    BY <2>1, <2>2
<1>9. common \in Key(c)
  <2>1. PICK k \in Nat: common \in Key(k) /\ k <= c
    BY <1>7, <1>8
  <2>2. Len(common) = k
    BY <2>1 DEF Key
  <2>3. c <= k
    BY <1>6, <1>8, <1>l, <2>2
  <2>4. k = c
    BY <2>1, <2>3
  <2> QED
    BY <2>1, <2>4
<1>10. \A j \in S: IsPrefix(common, j)
  BY <1>8 DEF C, CommonPrefixes
<1>11. c \in Nat
  OBVIOUS
<1> QED
  BY <1>9, <1>10, <1>11, PrefixNibbles

\* A map from keys of length l to values.
IsMap(content, l) ==
  /\ content = [key \in DOMAIN content |-> content[key]] /\ IsFiniteSet(DOMAIN content)
  /\ DOMAIN content \in SUBSET Key(l) /\ \A key \in DOMAIN content: content[key] \in Values

\* What a map has at a key.
ValueIn(content, key) == IF key \in DOMAIN content THEN content[key] ELSE NoValue

\* The trie that holds what a map does.
HoldsMap(trie, content, l) ==
  Full(trie, l) /\ \A key \in Key(l): NodeGet(trie, key) = ValueIn(content, key)

\* What a map becomes below its branch, at nibble i.
IsPart(part, content, common, c, l, i) ==
  /\ IsMap(part, l - (c + 1)) /\ DOMAIN part # {}
  /\ \A key \in Key(l): IsPrefix(common, key) /\ key[c + 1] = i =>
       ValueIn(part, Drop(key, c + 1)) = ValueIn(content, key)

\* A key of the map, put together again.
Behind(common, i, rest) == common \o <<i>> \o rest

\* It is the one key with this prefix, nibble and rest.
LEMMA BehindIs ==
  ASSUME NEW l \in Nat, NEW c \in 0..(l - 1), NEW common \in Key(c), NEW i \in Nibble,
         NEW rest \in Key(l - (c + 1))
  PROVE  /\ Behind(common, i, rest) \in Key(l)
         /\ IsPrefix(common, Behind(common, i, rest)) /\ Behind(common, i, rest)[c + 1] = i
         /\ Drop(Behind(common, i, rest), c + 1) = rest
         /\ \A key \in Key(l): IsPrefix(common, key) /\ key[c + 1] = i /\ Drop(key, c + 1) = rest =>
              key = Behind(common, i, rest)
<1> DEFINE head == Joined(common, <<i>>)
           all == Joined(head, rest)
           h == c + 1
           r == l - h
<1>1. c \in Nat /\ h \in Nat /\ r \in Nat /\ h + r = l /\ h \in 0..l /\ 1 \in Nat /\ c <= l
  OBVIOUS
<1>2. <<i>> \in Key(1) /\ <<i>>[1] = i
  BY OneNibble
<1>3. head \in Key(h) /\ (\A j \in 1..c: head[j] = common[j]) /\ head[h] = i
  <2>1. /\ Joined(common, <<i>>) \in Key(c + 1)
        /\ \A j \in 1..c: Joined(common, <<i>>)[j] = common[j]
        /\ \A j \in 1..1: Joined(common, <<i>>)[c + j] = <<i>>[j]
    BY <1>1, <1>2, JoinedPath
  <2> QED
    BY <1>2, <2>1
<1>4. Behind(common, i, rest) = all
  BY DEF Behind, Joined
<1> HIDE DEF head
<1>r. rest \in Key(r)
  OBVIOUS
<1>5. all \in Key(l) /\ (\A j \in 1..h: all[j] = head[j]) /\ \A j \in 1..r: all[h + j] = rest[j]
  <2> HIDE DEF h, r
  <2>1. /\ Joined(head, rest) \in Key(h + r)
        /\ \A j \in 1..h: Joined(head, rest)[j] = head[j]
        /\ \A j \in 1..r: Joined(head, rest)[h + j] = rest[j]
    BY <1>1, <1>3, <1>r, JoinedPath
  <2>2. h + r = l
    BY <1>1
  <2> QED
    BY <2>1, <2>2
<1> HIDE DEF all
<1>6. (\A j \in 1..c: all[j] = common[j]) /\ all[h] = i
  BY <1>1, <1>3, <1>5
<1>7. IsPrefix(common, all)
  <2>1. \A j \in 1..c: common[j] = all[j]
    BY <1>6
  <2> QED
    BY <1>1, <1>5, <2>1, PrefixNibbles
<1>8. Drop(all, h) = rest
  <2>1. Drop(all, h) \in Key(l - h) /\ \A j \in 1..(l - h): Drop(all, h)[j] = all[h + j]
    <3> HIDE DEF h
    <3> QED
      BY <1>1, <1>5, DropKey
  <2>2. \A j \in 1..r: Drop(all, h)[j] = rest[j]
    BY <1>5, <2>1
  <2> HIDE DEF h
  <2> QED
    BY <1>1, <1>r, <2>1, <2>2, KeyEqual DEF r
<1>9. ASSUME NEW key \in Key(l), IsPrefix(common, key), key[h] = i, Drop(key, h) = rest
      PROVE  key = all
  <2>1. \A j \in 1..c: common[j] = key[j]
    BY <1>1, <1>9, PrefixNibbles
  <2>2. \A j \in 1..h: key[j] = all[j]
    BY <1>6, <1>9, <2>1
  <2> HIDE DEF h
  <2> QED
    BY <1>1, <1>5, <1>8, <1>9, <2>2, KeySplit
<1> QED
  BY <1>4, <1>5, <1>6, <1>7, <1>8, <1>9

\* What a function makes of finitely many is finite.
LEMMA ImageFinite ==
  ASSUME NEW K, IsFiniteSet(K), NEW f, NEW T, T = {f[x]: x \in K}
  PROVE  IsFiniteSet(T)
<1> DEFINE g == [x \in K |-> f[x]]
<1>1. g \in Surjection(K, T)
  BY DEF Surjection
<1> HIDE DEF g
<1> QED
  BY <1>1, FS_Surjection

\* A set with two members has two or more.
LEMMA TwoMembers ==
  ASSUME NEW S, IsFiniteSet(S), NEW i \in S, NEW j \in S, i # j
  PROVE  Cardinality(S) \in Nat /\ Cardinality(S) >= 2
<1>1. IsFiniteSet({i}) /\ Cardinality({i}) = 1
  BY FS_Singleton
<1>2. Cardinality({i} \cup {j}) = 1 + 1
  BY <1>1, FS_AddElement
<1>3. Cardinality({i} \cup {j}) <= Cardinality(S)
  BY FS_Subset
<1>4. Cardinality(S) \in Nat
  BY FS_CardinalityType
<1> QED
  BY <1>2, <1>3, <1>4

\* Where the keys of a map part.
Parting(content, l, c, common) ==
  /\ c \in 0..(l - 1) /\ common \in Key(c) /\ common = Common(content)
  /\ \A k \in DOMAIN content: IsPrefix(common, k)
  /\ \E j, k \in DOMAIN content: j[c + 1] # k[c + 1]

\* The keys of a map with more than one part somewhere.
LEMMA PartingExists ==
  ASSUME NEW l \in Nat, NEW content, IsMap(content, l), NEW j \in DOMAIN content, NEW k \in DOMAIN content, j # k
  PROVE  \E c, common: Parting(content, l, c, common)
<1> DEFINE S == DOMAIN content
           D == {i \in 1..l: \E a, b \in S: a[i] # b[i]}
<1>1. S \in SUBSET Key(l) /\ j \in S /\ k \in S
  BY DEF IsMap
<1>2. D # {}
  <2>1. \E i \in 1..l: j[i] # k[i]
    BY <1>1, KeyEqual
  <2> QED
    BY <1>1, <2>1
<1>3. PICK d \in D: \A i \in D: d <= i
  <2>1. D \in SUBSET Nat
    OBVIOUS
  <2> HIDE DEF D
  <2> QED
    BY <1>2, <2>1, LeastNumber
<1> DEFINE c == d - 1
<1>4. d \in 1..l /\ \E a, b \in S: a[d] # b[d]
  BY <1>3
<1>5. c \in 0..(l - 1) /\ c \in 0..l /\ c + 1 = d /\ c < l /\ c \in Nat
  BY <1>4
<1>6. \A i \in 1..c: i \notin D /\ i \in 1..l
  BY <1>3, <1>5
<1>7. \A a, b \in S: \A i \in 1..c: a[i] = b[i]
  BY <1>6
<1> HIDE DEF D, c
<1>8. \E b \in S: b[c + 1] # j[c + 1]
  BY <1>1, <1>4, <1>5
<1> DEFINE common == Common(content)
<1>9. common = LongestCommonPrefix(S)
  BY DEF Common
<1> HIDE DEF common, S
<1>10. \A b \in S: \A i \in 1..c: b[i] = j[i]
  BY <1>1, <1>7
<1>11. common \in Key(c) /\ \A b \in S: \A i \in 1..c: common[i] = b[i]
  BY <1>1, <1>5, <1>8, <1>9, <1>10, CommonIs
<1>12. \A b \in S: IsPrefix(common, b)
  <2>1. \A b \in S: c <= l /\ \A i \in 1..c: common[i] = b[i]
    BY <1>5, <1>11
  <2> QED
    BY <1>1, <1>5, <1>11, <2>1, PrefixNibbles
<1>13. Parting(content, l, c, common)
  BY <1>1, <1>4, <1>5, <1>11, <1>12 DEF Parting, common, S
<1> QED
  BY <1>13

\* The maps below.
PartOf(content, common, h, i) ==
  [rest \in {Drop(key, h): key \in {k \in DOMAIN content: k[h] = i}} |-> content[Behind(common, i, rest)]]

\* The nibbles that keys of a map have at h.
NibblesAt(content, h) == {key[h]: key \in DOMAIN content}

\* What is below the branch at a nibble is a map of what is left of the keys.
LEMMA PartIs ==
  ASSUME NEW l \in Nat, NEW content, IsMap(content, l), NEW c, NEW common, Parting(content, l, c, common),
         NEW h, h = c + 1, NEW i \in NibblesAt(content, h)
  PROVE  i \in Nibble /\ IsPart(PartOf(content, common, h, i), content, common, c, l, i)
<1> DEFINE K == {k \in DOMAIN content: k[h] = i}
           T == {Drop(key, h): key \in K}
           part == [rest \in T |-> content[Behind(common, i, rest)]]
<1>0. /\ c \in 0..(l - 1) /\ common \in Key(c) /\ c \in Nat /\ h \in 1..l /\ h \in 0..l
      /\ \A k \in DOMAIN content: IsPrefix(common, k)
  BY DEF Parting
<1>m. IsFiniteSet(DOMAIN content) /\ DOMAIN content \in SUBSET Key(l) /\ \A key \in DOMAIN content: content[key] \in Values
  BY DEF IsMap
<1>1. i \in Nibble
  BY <1>0, <1>m, ElementOfSeq DEF NibblesAt, Key
<1>2. K # {}
  BY DEF NibblesAt
<1>3. IsFiniteSet(T)
  <2>1. IsFiniteSet(K)
    BY <1>m, FS_Subset
  <2> DEFINE f == [key \in K |-> Drop(key, h)]
  <2>2. T = {f[x]: x \in K}
    OBVIOUS
  <2> HIDE DEF f, K
  <2> QED
    BY <2>1, <2>2, ImageFinite
<1>4. ASSUME NEW key \in DOMAIN content, key[h] = i
      PROVE  /\ Drop(key, h) \in Key(l - h)
             /\ Behind(common, i, Drop(key, h)) = key
  <2>1. key \in Key(l) /\ IsPrefix(common, key)
    BY <1>0, <1>m
  <2>2. Drop(key, h) \in Key(l - h)
    BY <1>0, <2>1, DropKey
  <2>3. Drop(key, c + 1) \in Key(l - (c + 1)) /\ key[c + 1] = i
    BY <1>4, <2>2
  <2> QED
    BY <1>0, <1>1, <2>1, <2>2, <2>3, BehindIs
<1>5. \A rest \in T: rest \in Key(l - h) /\ Behind(common, i, rest) \in DOMAIN content
  BY <1>4
<1>6. DOMAIN part = T /\ part = [rest \in T |-> part[rest]]
      /\ \A rest \in T: part[rest] \in Values
  BY <1>m, <1>5
<1>7. T # {}
  BY <1>2
<1>8. ASSUME NEW key \in Key(l), IsPrefix(common, key), key[c + 1] = i
      PROVE  ValueIn(part, Drop(key, c + 1)) = ValueIn(content, key)
  <2>1. Drop(key, h) \in Key(l - h)
    BY <1>0, DropKey
  <2> DEFINE rest == Drop(key, c + 1)
  <2>2. rest \in Key(l - (c + 1))
    BY <2>1
  <2>3. key = Behind(common, i, rest)
    <3> HIDE DEF rest
    <3>1. /\ Behind(common, i, rest) \in Key(l)
          /\ \A k \in Key(l): IsPrefix(common, k) /\ k[c + 1] = i /\ Drop(k, c + 1) = rest =>
               k = Behind(common, i, rest)
      BY <1>0, <1>1, <2>2, BehindIs
    <3> QED
      BY <1>8, <3>1 DEF rest
  <2>4. CASE key \in DOMAIN content
    <3>1. rest \in T
      BY <1>8, <2>4
    <3>2. part[rest] = content[key]
      BY <2>3, <3>1
    <3> QED
      BY <1>6, <2>4, <3>1, <3>2 DEF ValueIn
  <2>5. CASE key \notin DOMAIN content
    <3>1. rest \notin T
      BY <1>5, <2>3, <2>5
    <3> QED
      BY <1>6, <2>5, <3>1 DEF ValueIn
  <2> QED
    BY <2>4, <2>5
<1> HIDE DEF part, T
<1>9. IsMap(part, l - (c + 1))
  BY <1>3, <1>5, <1>6 DEF IsMap
<1>10. IsPart(part, content, common, c, l, i)
  BY <1>6, <1>7, <1>8, <1>9 DEF IsPart
<1> QED
  BY <1>1, <1>10 DEF PartOf, part, T

\* The maps below the branch are these, and there are two or more of them.
LEMMA MapsBelowAre ==
  ASSUME NEW l \in Nat, NEW content, IsMap(content, l), NEW c, NEW common, Parting(content, l, c, common),
         NEW h, h = c + 1, NEW nibs, nibs = NibblesAt(content, h)
  PROVE  /\ MapsBelow(content) = [i \in nibs |-> PartOf(content, common, h, i)]
         /\ IsFiniteSet(nibs) /\ Cardinality(nibs) >= 2 /\ nibs \in SUBSET Nibble
         /\ Cardinality(DOMAIN content) # 1 /\ DOMAIN content # {}
<1>0. common \in Key(c) /\ common = Common(content) /\ c \in Nat
      /\ \E j, k \in DOMAIN content: j[h] # k[h]
  BY DEF Parting
<1>m. IsFiniteSet(DOMAIN content)
  BY DEF IsMap
<1>1. Len(Common(content)) + 1 = h
  BY <1>0 DEF Key
<1>2. PICK j, k \in DOMAIN content: j[h] # k[h]
  BY <1>0
<1>3. Cardinality(DOMAIN content) \in Nat /\ Cardinality(DOMAIN content) >= 2
  BY <1>m, <1>2, TwoMembers
<1>4. MapsBelow(content) = [i \in nibs |-> PartOf(content, common, h, i)]
  <2> DEFINE point == Common(content)
             here == Len(point) + 1
  <2>1. ~(Cardinality(DOMAIN content) <= 1)
    BY <1>3
  <2>2. MapsBelow(content) = [i \in NibblesAt(content, here) |-> PartOf(content, point, here, i)]
    BY <2>1 DEF MapsBelow, NibblesAt, PartOf, Behind
  <2>3. point = common /\ here = h
    BY <1>0, <1>1
  <2> HIDE DEF point, here
  <2> QED
    BY <2>2, <2>3
<1>5. IsFiniteSet(nibs)
  <2> DEFINE f == [key \in DOMAIN content |-> key[h]]
  <2>1. nibs = {f[x]: x \in DOMAIN content}
    BY DEF NibblesAt
  <2> HIDE DEF f
  <2> QED
    BY <1>m, <2>1, ImageFinite
<1>6. Cardinality(nibs) >= 2
  <2>1. j[h] \in nibs /\ k[h] \in nibs
    BY <1>2 DEF NibblesAt
  <2> QED
    BY <1>2, <1>5, <2>1, TwoMembers
<1>7. nibs \in SUBSET Nibble
  BY PartIs
<1> QED
  BY <1>2, <1>3, <1>4, <1>5, <1>6, <1>7

\* The trie of a map over those of the maps below.
LEMMA TrieOverParts ==
  ASSUME NEW l \in Nat, NEW content, IsMap(content, l), NEW c, NEW common, Parting(content, l, c, common),
         NEW h, h = c + 1, NEW nibs, nibs = NibblesAt(content, h),
         NEW tries, tries = [i \in nibs |-> tries[i]],
         \A i \in nibs: HoldsMap(tries[i], PartOf(content, common, h, i), l - h)
  PROVE  HoldsMap(TrieFrom(content, tries), content, l)
<1> DEFINE branch == BranchNode(tries, NoCache)
           d == l - c
<1>0. /\ c \in 0..(l - 1) /\ common \in Key(c) /\ c \in Nat /\ d \in Nat /\ d > 0 /\ d - 1 = l - h
      /\ common = Common(content) /\ \A k \in DOMAIN content: IsPrefix(common, k)
  BY DEF Parting
<1>1. /\ IsFiniteSet(nibs) /\ Cardinality(nibs) >= 2 /\ nibs \in SUBSET Nibble
      /\ Cardinality(DOMAIN content) # 1 /\ DOMAIN content # {}
  BY MapsBelowAre
<1>2. \A i \in nibs: Full(tries[i], d - 1)
  BY <1>0 DEF HoldsMap
<1>3. Full(branch, d)
  <2> HIDE DEF d
  <2> QED
    BY <1>0, <1>1, <1>2, FullBranchIs
<1>4. IsBranch(branch, d, nibs, tries, NoCache)
  <2>1. \A i \in nibs: Shape(tries[i], d - 1)
    BY <1>2, FullBelow
  <2> HIDE DEF d
  <2> QED
    BY <1>0, <1>1, <2>1 DEF IsBranch
<1>5. TrieFrom(content, tries) = IF common = <<>> THEN branch ELSE ExtensionNode(common, branch, NoCache)
  BY <1>0, <1>1, BareNodes DEF TrieFrom
<1> HIDE DEF branch
<1>6. ASSUME NEW key \in Key(l), IsPrefix(common, key)
      PROVE  NodeGet(branch, Drop(key, c)) = ValueIn(content, key)
  <2> DEFINE k == Drop(key, c)
             i == key[h]
             rest == Drop(key, h)
  <2>1. k \in Key(d) /\ k[1] = i
    <3>1. k \in Key(l - c) /\ \A m \in 1..(l - c): k[m] = key[c + m]
      BY <1>0, DropKey
    <3>2. 1 \in 1..(l - c)
      BY <1>0
    <3> QED
      BY <3>1, <3>2
  <2>2. Drop(k, 1) = rest
    <3>1. c \in 0..l /\ 1 \in 0..(l - c)
      BY <1>0
    <3> QED
      BY <3>1, DropTwice
  <2>3. rest \in Key(d - 1)
    <3>1. h \in 0..l
      BY <1>0
    <3> QED
      BY <1>0, <3>1, DropKey
  <2>4. CASE i \in nibs
    <3> DEFINE part == PartOf(content, common, h, i)
    <3>1. NodeGet(branch, k) = NodeGet(tries[i], rest)
      <4> HIDE DEF k, rest, i, d
      <4> QED
        BY <1>0, <1>4, <2>1, <2>2, <2>4, AtBranch
    <3>2. NodeGet(tries[i], rest) = ValueIn(part, rest)
      BY <1>0, <2>3, <2>4 DEF HoldsMap
    <3>3. IsPart(part, content, common, c, l, i)
      BY <2>4, PartIs
    <3>4. ValueIn(part, rest) = ValueIn(content, key)
      BY <1>6, <3>3 DEF IsPart
    <3> QED
      BY <3>1, <3>2, <3>4
  <2>5. CASE i \notin nibs
    <3>1. NodeGet(branch, k) = NoValue
      <4> HIDE DEF k, i, d
      <4> QED
        BY <1>0, <1>4, <2>1, <2>5, AtBranch
    <3>2. key \notin DOMAIN content
      BY <2>5 DEF NibblesAt
    <3> QED
      BY <3>1, <3>2 DEF ValueIn
  <2> QED
    BY <2>4, <2>5
<1>7. CASE common = <<>>
  <2>1. c = 0
    BY <1>0, <1>7, NoNibbles
  <2>2. d = l
    BY <2>1
  <2>3. ASSUME NEW key \in Key(l) PROVE NodeGet(branch, key) = ValueIn(content, key)
    <3>1. Drop(key, c) = key
      BY <2>1, DropNone
    <3>2. IsPrefix(common, key)
      <4>1. c <= l /\ \A i \in 1..c: common[i] = key[i]
        BY <1>0, <2>1
      <4> QED
        BY <1>0, <4>1, PrefixNibbles
    <3> QED
      BY <1>6, <3>1, <3>2
  <2> QED
    BY <1>3, <1>5, <1>7, <2>2, <2>3 DEF HoldsMap
<1>8. CASE common # <<>>
  <2>1. c # 0
    BY <1>0, <1>8, NoNibbles
  <2>2. c \in 1..l
    BY <1>0, <2>1
  <2>3. branch.t = "branch" /\ Full(branch, l - c) /\ Shape(branch, l - c)
    BY <1>3, FullBelow DEF branch, BranchNode
  <2> DEFINE node == ExtensionNode(common, branch, NoCache)
  <2>4. IsExtension(node, l, c, common, branch, NoCache)
    BY <1>0, <2>2, <2>3 DEF IsExtension
  <2>5. Full(node, l)
    BY <1>0, <2>2, <2>3, FullExtensionIs
  <2> HIDE DEF node
  <2>6. ASSUME NEW key \in Key(l) PROVE NodeGet(node, key) = ValueIn(content, key)
    <3>1. CASE IsPrefix(common, key)
      <4>1. NodeGet(node, key) = NodeGet(branch, Drop(key, c))
        BY <2>4, <3>1, AtExtension
      <4> QED
        BY <1>6, <3>1, <4>1
    <3>2. CASE ~IsPrefix(common, key)
      <4>1. NodeGet(node, key) = NoValue
        BY <2>4, <3>2, AtExtension
      <4>2. key \notin DOMAIN content
        BY <1>0, <3>2
      <4> QED
        BY <4>1, <4>2 DEF ValueIn
    <3> QED
      BY <3>1, <3>2
  <2> QED
    BY <1>5, <1>8, <2>5, <2>6 DEF HoldsMap, node
<1> QED
  BY <1>7, <1>8

\* A map with one key.
LEMMA TrieOfOne ==
  ASSUME NEW l \in Nat, NEW content, IsMap(content, l), NEW k, DOMAIN content = {k}
  PROVE  /\ MapsBelow(content) = <<>>
         /\ \A tries: TrieFrom(content, tries) = LeafNode(k, content[k], NoCache)
         /\ HoldsMap(LeafNode(k, content[k], NoCache), content, l)
<1>1. k \in Key(l) /\ content[k] \in Values
  BY DEF IsMap
<1>2. Cardinality(DOMAIN content) = 1
  BY FS_Singleton
<1>3. MapsBelow(content) = <<>>
  BY <1>2 DEF MapsBelow
<1>4. Common(content) = k
  <2> DEFINE S == DOMAIN content
             common == Common(content)
  <2>1. /\ S \in SUBSET Key(l) /\ k \in S /\ l \in 0..l /\ ~(l < l)
        /\ \A j \in S: \A i \in 1..l: j[i] = k[i]
    BY <1>1
  <2>2. common = LongestCommonPrefix(S)
    BY DEF Common
  <2> HIDE DEF common, S
  <2>3. common \in Key(l) /\ \A j \in S: \A i \in 1..l: common[i] = j[i]
    BY <2>1, <2>2, CommonIs
  <2>4. common = k
    BY <1>1, <2>1, <2>3, KeyEqual
  <2> QED
    BY <2>4 DEF common
<1>5. \A tries: TrieFrom(content, tries) = LeafNode(k, content[k], NoCache)
  BY <1>2, <1>4, BareNodes DEF TrieFrom
<1> DEFINE leaf == LeafNode(k, content[k], NoCache)
<1>6. Full(leaf, l)
  BY <1>1, FullLeaf
<1>7. leaf.t = "leaf" /\ leaf.path = k /\ leaf.value = content[k]
  BY DEF LeafNode
<1> HIDE DEF leaf
<1>8. \A key \in Key(l): NodeGet(leaf, key) = ValueIn(content, key)
  BY <1>7, AtEnd DEF ValueIn
<1>9. HoldsMap(leaf, content, l)
  BY <1>6, <1>8 DEF HoldsMap
<1> QED
  BY <1>3, <1>5, <1>9 DEF leaf

\* The trie of every map.
TrieHoldsAt(l) ==
  \A content: IsMap(content, l) =>
    /\ HasRank(TrieOp, content, l)
    /\ DOMAIN content = {} => TrieOf(content) = Null
    /\ DOMAIN content # {} => HoldsMap(TrieOf(content), content, l)

\* The trie of a map holds the map, if those of the maps below do.
LEMMA TrieAbove ==
  ASSUME NEW l \in Nat, \A m \in 0..(l - 1): TrieHoldsAt(m), NEW content, IsMap(content, l)
  PROVE  /\ HasRank(TrieOp, content, l)
         /\ DOMAIN content = {} => TrieOf(content) = Null
         /\ DOMAIN content # {} => HoldsMap(TrieOf(content), content, l)
<1>b. BelowAt(TrieOp, content) = MapsBelow(content) /\ TrieOf(content) = Fold(TrieOp, content)
  BY TrieIsFold DEF BelowAt, TrieOp
<1>o. \A below: MadeAt(TrieOp, content, below) = TrieFrom(content, below)
  BY DEF MadeAt, TrieOp
<1>1. CASE MapsBelow(content) = <<>>
  <2>1. DOMAIN BelowAt(TrieOp, content) = {}
    BY <1>b, <1>1
  <2>2. \A i \in DOMAIN BelowAt(TrieOp, content): \E k \in 0..(l - 1): HasRank(TrieOp, BelowAt(TrieOp, content)[i], k)
    BY <2>1
  <2>3. HasRank(TrieOp, content, l) /\ Fold(TrieOp, content) = MadeOver(TrieOp, content)
    BY <2>2, FoldAbove
  <2>4. \E below: TrieOf(content) = TrieFrom(content, below)
    BY <1>b, <1>o, <2>3 DEF MadeOver
  <2>5. CASE DOMAIN content = {}
    <3>1. \A below: TrieFrom(content, below) = Null
      <4>1. Cardinality(DOMAIN content) # 1
        BY <2>5, FS_EmptySet
      <4> QED
        BY <2>5, <4>1 DEF TrieFrom
    <3> QED
      BY <2>3, <2>4, <2>5, <3>1
  <2>6. CASE \E k: DOMAIN content = {k}
    <3>1. PICK k: DOMAIN content = {k}
      BY <2>6
    <3> QED
      BY <2>3, <2>4, <3>1, TrieOfOne
  <2>7. CASE \E j, k \in DOMAIN content: j # k
    <3>1. PICK j, k \in DOMAIN content: j # k
      BY <2>7
    <3>2. PICK c, common: Parting(content, l, c, common)
      BY <3>1, PartingExists
    <3>3. PICK h: h = c + 1
      OBVIOUS
    <3>4. PICK nibs: nibs = NibblesAt(content, h)
      OBVIOUS
    <3>5. MapsBelow(content) = [i \in nibs |-> PartOf(content, common, h, i)] /\ IsFiniteSet(nibs) /\ Cardinality(nibs) >= 2
      BY <3>2, <3>3, <3>4, MapsBelowAre
    <3>6. nibs # {}
      BY <3>5, TwoChildren
    <3>7. DOMAIN MapsBelow(content) = nibs /\ DOMAIN MapsBelow(content) = {}
      BY <1>1, <3>5
    <3> QED
      BY <3>6, <3>7
  <2> QED
    BY <2>5, <2>6, <2>7
<1>2. CASE MapsBelow(content) # <<>>
  <2>1. PICK j, k \in DOMAIN content: j # k
    <3>1. DOMAIN content # {}
      <4>1. DOMAIN content = {} => Cardinality(DOMAIN content) = 0
        BY FS_EmptySet
      <4> QED
        BY <1>2, <4>1 DEF MapsBelow
    <3>2. \A k: DOMAIN content # {k}
      BY <1>2, TrieOfOne
    <3>3. PICK j \in DOMAIN content: TRUE
      BY <3>1
    <3>4. \E k \in DOMAIN content: j # k
      BY <3>2, <3>3
    <3> QED
      BY <3>3, <3>4
  <2>2. PICK c, common: Parting(content, l, c, common)
    BY <2>1, PartingExists
  <2>3. PICK h: h = c + 1
    OBVIOUS
  <2>4. PICK nibs: nibs = NibblesAt(content, h)
    OBVIOUS
  <2>5. MapsBelow(content) = [i \in nibs |-> PartOf(content, common, h, i)] /\ DOMAIN content # {}
    BY <2>2, <2>3, <2>4, MapsBelowAre
  <2>6. c \in 0..(l - 1) /\ l - h \in 0..(l - 1)
    BY <2>2, <2>3 DEF Parting
  <2>7. ASSUME NEW i \in nibs
        PROVE  /\ HasRank(TrieOp, PartOf(content, common, h, i), l - h)
               /\ HoldsMap(TrieOf(PartOf(content, common, h, i)), PartOf(content, common, h, i), l - h)
    <3> DEFINE part == PartOf(content, common, h, i)
    <3>1. IsPart(part, content, common, c, l, i)
      BY <2>2, <2>3, <2>4, PartIs
    <3>2. IsMap(part, l - h) /\ DOMAIN part # {}
      BY <2>3, <3>1 DEF IsPart
    <3>3. TrieHoldsAt(l - h)
      BY <2>6
    <3> HIDE DEF part
    <3>4. HasRank(TrieOp, part, l - h) /\ HoldsMap(TrieOf(part), part, l - h)
      BY <3>2, <3>3 DEF TrieHoldsAt
    <3> QED
      BY <3>4 DEF part
  <2> DEFINE below == MapsBelow(content)
  <2>8. DOMAIN below = nibs /\ \A i \in nibs: below[i] = PartOf(content, common, h, i)
    BY <2>5
  <2> HIDE DEF below
  <2>9. \A i \in DOMAIN BelowAt(TrieOp, content): \E m \in 0..(l - 1): HasRank(TrieOp, BelowAt(TrieOp, content)[i], m)
    BY <1>b, <2>6, <2>7, <2>8 DEF below
  <2>10. HasRank(TrieOp, content, l) /\ Fold(TrieOp, content) = MadeOver(TrieOp, content)
    BY <2>9, FoldAbove
  <2> DEFINE tries == [i \in nibs |-> Fold(TrieOp, below[i])]
  <2>11. TrieOf(content) = TrieFrom(content, tries)
    <3>1. MadeOver(TrieOp, content) = MadeAt(TrieOp, content, [i \in DOMAIN below |-> Fold(TrieOp, below[i])])
      BY <1>b DEF MadeOver, below
    <3> QED
      BY <1>b, <1>o, <2>8, <2>10, <3>1
  <2>12. tries = [i \in nibs |-> tries[i]]
         /\ \A i \in nibs: HoldsMap(tries[i], PartOf(content, common, h, i), l - h)
    BY <2>7, <2>8, TrieIsFold
  <2> HIDE DEF tries
  <2>13. HoldsMap(TrieFrom(content, tries), content, l)
    BY <2>2, <2>3, <2>4, <2>12, TrieOverParts
  <2> QED
    BY <2>5, <2>10, <2>11, <2>13
<1> QED
  BY <1>1, <1>2

\* It always does.
LEMMA TrieHoldsAll ==
  \A l \in Nat: TrieHoldsAt(l)
<1> DEFINE S == {l \in Nat: TrieHoldsAt(l)}
<1>1. ASSUME NEW l \in Nat, \A m \in 0..(l - 1): m \in S
      PROVE  l \in S
  <2>1. \A m \in 0..(l - 1): TrieHoldsAt(m)
    BY <1>1
  <2>2. TrieHoldsAt(l)
    BY <2>1, TrieAbove DEF TrieHoldsAt
  <2> QED
    BY <2>2
<1> HIDE DEF S
<1>2. \A l \in Nat: l \in S
  BY <1>1, SetInduction
<1> QED
  BY <1>2 DEF S

\* The trie of a map holds what the map does, and nothing else; it is the only full
\* trie that does.
LEMMA TrieHolds ==
  ASSUME NEW l \in Nat, NEW content, IsMap(content, l)
  PROVE  /\ DOMAIN content = {} => TrieOf(content) = Null
         /\ DOMAIN content # {} => HoldsMap(TrieOf(content), content, l)
         /\ \A full: HoldsMap(full, content, l) => full = TrieOf(content)
<1>1. /\ DOMAIN content = {} => TrieOf(content) = Null
      /\ DOMAIN content # {} => HoldsMap(TrieOf(content), content, l)
  BY TrieHoldsAll DEF TrieHoldsAt
<1>2. ASSUME NEW full, HoldsMap(full, content, l)
      PROVE  full = TrieOf(content)
  <2>1. DOMAIN content # {}
    <3>1. Shape(full, l) /\ Resolved(full, l)
      BY <1>2, FullBelow, FullResolved DEF HoldsMap
    <3>2. PICK key \in Key(l): NodeGet(full, key) # NoValue
      BY <3>1, SomeKey
    <3> QED
      BY <1>2, <3>2 DEF HoldsMap, ValueIn
  <2>2. HoldsMap(TrieOf(content), content, l)
    BY <1>1, <2>1
  <2>3. Full(full, l) /\ Full(TrieOf(content), l) /\ Same(full, TrieOf(content), l)
    BY <1>2, <2>2 DEF HoldsMap, Same
  <2> QED
    BY <2>3, FullSameEqual
<1> QED
  BY <1>1, <1>2

-----------------------------------------------------------------------------
\* The empty trie, and its digest.

\* The root of an empty trie.
EmptyRoot(node) == node \in {Null, Digest(Null)}

\* A fold of a root with nothing below it.
LEMMA FoldOfOne ==
  ASSUME NEW op, NEW x, DOMAIN BelowAt(op, x) = {}
  PROVE  Fold(op, x) = MadeAt(op, x, <<>>)
<1>1. Fold(op, x) = MadeOver(op, x)
  <2>1. \A i \in DOMAIN BelowAt(op, x): \E k \in 0..(0 - 1): HasRank(op, BelowAt(op, x)[i], k)
    OBVIOUS
  <2> QED
    BY <2>1, FoldAbove
<1>2. [i \in DOMAIN BelowAt(op, x) |-> Fold(op, BelowAt(op, x)[i])] = <<>>
  OBVIOUS
<1> QED
  BY <1>1, <1>2 DEF MadeOver

\* A fold of a root with one node below it, below which there is nothing.
LEMMA FoldOfTwo ==
  ASSUME NEW op, NEW x, NEW y, BelowAt(op, x) = <<y>>, DOMAIN BelowAt(op, y) = {}
  PROVE  Fold(op, x) = MadeAt(op, x, <<Fold(op, y)>>)
<1>1. HasRank(op, y, 0)
  BY NothingBelow
<1>2. \A i \in DOMAIN BelowAt(op, x): \E k \in 0..(1 - 1): HasRank(op, BelowAt(op, x)[i], k)
  BY <1>1
<1>3. Fold(op, x) = MadeOver(op, x)
  BY <1>2, FoldAbove
<1>4. [i \in DOMAIN BelowAt(op, x) |-> Fold(op, BelowAt(op, x)[i])] = <<Fold(op, y)>>
  OBVIOUS
<1> QED
  BY <1>3, <1>4 DEF MadeOver

\* Nothing is cached in them, encoded or decoded.
LEMMA EmptyKinds ==
  ASSUME NEW node, EmptyRoot(node)
  PROVE  /\ node.t \in {"null", "digest"} /\ ~HasCache(node) /\ ChildrenOf(node) = <<>>
         /\ node.t = "digest" => node.of = Null
         /\ Decode(node) = node /\ \A ref: DecodeCached(node, ref) = node
<1>1. node.t \in {"null", "digest"} /\ (node.t = "digest" => node.of = Null)
  BY DEF EmptyRoot, Null, Digest
<1>2. ~HasCache(node) /\ ChildrenOf(node) = <<>>
  BY <1>1 DEF HasCache, ChildrenOf
<1>3. BelowAt(DecodeOp, node) = <<>>
  BY <1>2 DEF BelowAt, DecodeOp
<1>4. Fold(DecodeOp, node) = MadeAt(DecodeOp, node, <<>>)
  BY <1>3, FoldOfOne
<1>5. MadeAt(DecodeOp, node, <<>>) = node
  BY <1>1 DEF MadeAt, DecodeOp, DecodeFrom
<1>6. Decode(node) = node
  BY <1>4, <1>5, DecodeIsFold
<1> QED
  BY <1>1, <1>2, <1>6 DEF DecodeCached

\* What becomes of them.
LEMMA EmptyKept ==
  ASSUME NEW node, EmptyRoot(node)
  PROVE  /\ Memoize(node) = node /\ Uncached(node) = node /\ RlpRoot(node) = node
         /\ Hash(node) = Digest(Null)
         /\ \A l: WellFormed(node, l) <=> node = Null \/ WellFormedNode(node, l)
<1>1. /\ node.t \in {"null", "digest"} /\ ~HasCache(node) /\ ChildrenOf(node) = <<>>
      /\ node.t = "digest" => node.of = Null
  BY EmptyKinds
<1>2. BelowAt(MemoizeOp, node) = <<>> /\ BelowAt(UncachedOp, node) = <<>>
  BY <1>1 DEF BelowAt, MemoizeOp, UncachedOp
<1>3. MadeAt(MemoizeOp, node, <<>>) = node
  BY <1>1 DEF MadeAt, MemoizeOp, MemoizeFrom
<1>4. MadeAt(UncachedOp, node, <<>>) = node
  BY <1>1 DEF MadeAt, UncachedOp, UncachedFrom
<1>5. Memoize(node) = node
  BY <1>2, <1>3, FoldOfOne, MemoizeIsFold
<1>6. Uncached(node) = node
  BY <1>2, <1>4, FoldOfOne, UncachedIsFold
<1>7. RlpRoot(node) = node
  BY <1>1 DEF RlpRoot
<1>8. Hash(node) = Digest(Null)
  <2>1. CASE node = Null
    <3>1. node.t = "null"
      BY <2>1 DEF Null
    <3> QED
      BY <1>1, <3>1 DEF Hash
  <2>2. CASE node = Digest(Null)
    BY <2>2, <1>1 DEF Hash, Digest
  <2> QED
    BY <2>1, <2>2 DEF EmptyRoot
<1> QED
  BY <1>5, <1>6, <1>7, <1>8 DEF WellFormed

\* Resolved, the digest of the empty trie is the empty trie, or stays.
LEMMA EmptyResolved ==
  ASSUME NEW node, EmptyRoot(node), NEW rlps
  PROVE  /\ EmptyRoot(ResolveDigests(node, rlps))
         /\ EmptyRoot(NodeFromRlp(node, rlps))
<1> DEFINE op == ResolveOp(rlps)
<1>0. \A x: /\ BelowAt(op, x) = IF IsSupplied(x, rlps) THEN BelowDigests(x) ELSE <<>>
            /\ \A below: MadeAt(op, x, below) = ResolveFrom(x, below)
  BY DEF BelowAt, MadeAt, ResolveOp
<1> HIDE DEF op
<1>1. BelowAt(op, Null) = <<>>
  BY <1>0 DEF IsSupplied, BelowDigests, ChildrenOf, Null
<1>2. Fold(op, Null) = Null
  <2>1. MadeAt(op, Null, <<>>) = Null
    BY <1>0 DEF ResolveFrom, WithChildren, Null
  <2> QED
    BY <1>1, <2>1, FoldOfOne
<1>3. Fold(op, Digest(Null)) \in {Null, Digest(Null)}
  <2> DEFINE x == Digest(Null)
  <2>1. x.t = "digest" /\ x.of = Null
    BY DEF Digest
  <2>2. CASE IsSupplied(x, rlps)
    <3>1. DecodeCached(Null, x) = Null
      BY EmptyKinds DEF EmptyRoot
    <3>2. BelowAt(op, x) = <<Null>>
      BY <1>0, <2>1, <2>2, <3>1 DEF BelowDigests
    <3> HIDE DEF x
    <3>3. Fold(op, x) = MadeAt(op, x, <<Null>>)
      BY <1>1, <1>2, <3>2, FoldOfTwo
    <3>4. MadeAt(op, x, <<Null>>) = Null
      <4>1. <<Null>> # <<>> /\ <<Null>>[1] = Null
        OBVIOUS
      <4> QED
        BY <1>0, <2>1, <4>1 DEF ResolveFrom
    <3> QED
      BY <3>3, <3>4 DEF x
  <2>3. CASE ~IsSupplied(x, rlps)
    <3>1. BelowAt(op, x) = <<>>
      BY <1>0, <2>3
    <3> HIDE DEF x
    <3>2. Fold(op, x) = MadeAt(op, x, <<>>)
      BY <3>1, FoldOfOne
    <3>3. MadeAt(op, x, <<>>) = x
      BY <1>0, <2>1 DEF ResolveFrom, WithChildren
    <3> QED
      BY <3>2, <3>3 DEF x
  <2> QED
    BY <2>2, <2>3
<1>4. Fold(op, node) \in {Null, Digest(Null)}
  BY <1>2, <1>3 DEF EmptyRoot
<1>5. ResolveDigests(node, rlps) = Fold(op, node)
  BY ResolveIsFold DEF op
<1>6. NodeFromRlp(node, rlps) = ResolveDigests(node, rlps)
  BY EmptyKinds DEF NodeFromRlp
<1> QED
  BY <1>4, <1>5, <1>6 DEF EmptyRoot

\* Both stand for the empty trie.
LEMMA EmptyExpanded ==
  ASSUME NEW node, EmptyRoot(node)
  PROVE  Expanded(node) = Null
<1> DEFINE op == ExpandOp
<1>0. \A x: /\ BelowAt(op, x) = BelowDigests(x)
            /\ \A below: MadeAt(op, x, below) = ExpandedFrom(x, below)
  BY DEF BelowAt, MadeAt, ExpandOp
<1> HIDE DEF op
<1>1. BelowAt(op, Null) = <<>>
  BY <1>0 DEF BelowDigests, ChildrenOf, Null
<1>2. Fold(op, Null) = Null
  <2>1. MadeAt(op, Null, <<>>) = Null
    BY <1>0 DEF ExpandedFrom, UncachedFrom, HasCache, Null
  <2> QED
    BY <1>1, <2>1, FoldOfOne
<1>3. Fold(op, Digest(Null)) = Null
  <2> DEFINE x == Digest(Null)
  <2>1. x.t = "digest" /\ x.of = Null
    BY DEF Digest
  <2>2. DecodeCached(Null, x) = Null
    BY EmptyKinds DEF EmptyRoot
  <2>3. BelowAt(op, x) = <<Null>>
    BY <1>0, <2>1, <2>2 DEF BelowDigests
  <2> HIDE DEF x
  <2>4. Fold(op, x) = MadeAt(op, x, <<Null>>)
    BY <1>1, <1>2, <2>3, FoldOfTwo
  <2>5. MadeAt(op, x, <<Null>>) = Null
    BY <1>0, <2>1 DEF ExpandedFrom
  <2> QED
    BY <2>4, <2>5 DEF x
<1>4. Expanded(node) = Fold(op, node)
  BY ExpandedIsFold DEF op
<1> QED
  BY <1>2, <1>3, <1>4 DEF EmptyRoot

\* Pruned, the empty trie becomes its digest.
LEMMA EmptyPruned ==
  ASSUME NEW node, EmptyRoot(node), NEW keys
  PROVE  EmptyRoot(NodePrune(node, <<>>, keys).node)
<1> DEFINE op == PruneOp(keys)
<1>1. /\ node.t \in {"null", "digest"} /\ ChildrenOf(node) = <<>>
  BY EmptyKinds
<1>2. BelowAt(op, node) = <<>> /\ MadeAt(op, node, <<>>) = PruneFrom(keys, node, <<>>)
  BY <1>1 DEF BelowAt, MadeAt, PruneOp
<1> HIDE DEF op
<1>3. Fold(op, node) = PruneFrom(keys, node, <<>>)
  BY <1>2, FoldOfOne
<1>4. NodePrune(node, <<>>, keys) = Fold(op, node)[<<>>][keys]
  BY PruneIsFold DEF op
<1>5. PruneFrom(keys, node, <<>>)[<<>>][keys] = PruneAt(node, <<>>, <<>>, keys)
  <2>1. <<>> \in Seq(Nibble) /\ keys \in SUBSET keys
    OBVIOUS
  <2> QED
    BY <2>1 DEF PruneFrom
<1>6. PruneAt(node, <<>>, <<>>, keys).node \in {node, Hash(node)}
  BY <1>1 DEF PruneAt
<1>7. Hash(node) = Digest(Null)
  BY EmptyKept
<1> QED
  BY <1>3, <1>4, <1>5, <1>6, <1>7 DEF EmptyRoot

\* It has the shape of a trie.
LEMMA EmptyWellFormed ==
  ASSUME NEW node, EmptyRoot(node), NEW l \in Nat
  PROVE  WellFormed(node, l)
<1>1. CASE node = Null
  BY <1>1 DEF WellFormed
<1>2. CASE node = Digest(Null)
  <2>1. node.t = "digest"
    BY <1>2 DEF Digest
  <2>2. WellFormedNode(node, l) = TRUE
    BY <2>1, ShapeDigest, ShapeIsWellFormed
  <2> QED
    BY <2>2 DEF WellFormed
<1> QED
  BY <1>1, <1>2 DEF EmptyRoot

\* No key is found in it, and one inserted is alone; with the digest alone nothing is done.
LEMMA EmptyWalked ==
  ASSUME NEW node, EmptyRoot(node), NEW key
  PROVE  /\ node = Null => /\ NodeGet(node, key) = NoValue
                           /\ \A value: NodeInsert(node, key, value) = LeafNode(key, value, NoCache)
         /\ node # Null => /\ NodeGet(node, key) = Panic
                           /\ \A value: NodeInsert(node, key, value) = Panic
                           /\ NodeRemove(node, key) = Panic
<1> DEFINE at == Place(node, key)
<1>0. node.t \in {"null", "digest"} /\ (node = Null <=> node.t = "null") /\ at.node = node /\ at.key = key
  BY DEF EmptyRoot, Null, Digest, Place
<1>1. /\ NodeGet(node, key) = IF node.t = "digest" THEN Panic
                              ELSE IF node.t = "leaf" /\ node.path = key THEN node.value ELSE NoValue
      /\ \A value: NodeInsert(node, key, value) = InsertedAt(at, value)
      /\ RemoveFound(node, key) = IF node.t = "digest" THEN Panic ELSE Null
  BY <1>0, AtEnd
<1> HIDE DEF at
<1>2. CASE node = Null
  <2>1. \A value: InsertedAt(at, value) = Leaf(key, value)
    BY <1>0, <1>2 DEF InsertedAt
  <2> QED
    BY <1>0, <1>1, <1>2, <2>1, BareNodes
<1>3. CASE node # Null
  <2>1. \A value: InsertedAt(at, value) = Panic
    BY <1>0, <1>3 DEF InsertedAt
  <2>2. Panic # NoValue
    BY DEF Panic, NoValue
  <2> QED
    BY <1>0, <1>1, <1>3, <2>1, <2>2 DEF NodeRemove
<1> QED
  BY <1>2, <1>3

-----------------------------------------------------------------------------
\* The root of a trie of which some is known.

\* The root of the trie of the map.
RootOf(node, content, l) ==
  \/ DOMAIN content = {} /\ EmptyRoot(node)
  \/ DOMAIN content # {} /\ Stands(node, TrieOf(content), l, TRUE)

\* A trie that holds a map is the trie of the map, and holds something.
LEMMA HoldsSome ==
  ASSUME NEW l \in Nat, NEW content, IsMap(content, l), NEW full, HoldsMap(full, content, l)
  PROVE  DOMAIN content # {} /\ full = TrieOf(content)
<1>1. Shape(full, l) /\ Resolved(full, l)
  BY FullBelow, FullResolved DEF HoldsMap
<1>2. PICK key \in Key(l): NodeGet(full, key) # NoValue
  BY <1>1, SomeKey
<1>3. DOMAIN content # {}
  BY <1>2 DEF HoldsMap, ValueIn
<1> QED
  BY <1>3, TrieHolds

\* The root that stands for a trie which holds a map.
LEMMA RootHolds ==
  ASSUME NEW l \in Nat, NEW content, IsMap(content, l), NEW full, NEW node, NEW atop,
         Stands(node, full, l, atop), atop \in BOOLEAN, \A key \in Key(l): NodeGet(full, key) = ValueIn(content, key)
  PROVE  RootOf(node, content, l)
<1>1. HoldsMap(full, content, l)
  BY StandsShape DEF HoldsMap
<1>2. DOMAIN content # {} /\ full = TrieOf(content)
  BY <1>1, HoldsSome
<1>3. Stands(node, full, l, TRUE)
  <2>1. CASE atop = TRUE
    BY <2>1
  <2>2. CASE atop = FALSE
    BY <2>2, StandsAtop
  <2> QED
    BY <2>1, <2>2
<1> QED
  BY <1>2, <1>3 DEF RootOf

\* What stands for a root that is not empty.
LEMMA RootStands ==
  ASSUME NEW l \in Nat, NEW content, IsMap(content, l), NEW node, RootOf(node, content, l)
  PROVE  \/ DOMAIN content = {} /\ EmptyRoot(node) /\ TrieOf(content) = Null
         \/ /\ DOMAIN content # {} /\ Stands(node, TrieOf(content), l, TRUE)
            /\ Full(TrieOf(content), l) /\ Shape(TrieOf(content), l) /\ Resolved(TrieOf(content), l)
            /\ \A key \in Key(l): NodeGet(TrieOf(content), key) = ValueIn(content, key)
<1>1. CASE DOMAIN content = {}
  BY <1>1, TrieHolds DEF RootOf
<1>2. CASE DOMAIN content # {}
  <2>1. HoldsMap(TrieOf(content), content, l)
    BY <1>2, TrieHolds
  <2>2. Full(TrieOf(content), l)
    BY <2>1 DEF HoldsMap
  <2>3. Shape(TrieOf(content), l) /\ Resolved(TrieOf(content), l)
    BY <2>2, FullBelow, FullResolved
  <2> QED
    BY <1>2, <2>1, <2>2, <2>3 DEF RootOf, HoldsMap
<1> QED
  BY <1>1, <1>2

\* A map with one key set, or taken away.
WithKey(content, key, value) ==
  [k \in DOMAIN content \cup {key} |-> IF k = key THEN value ELSE content[k]]
\* The map without the key.
WithoutKey(content, key) == [k \in DOMAIN content \ {key} |-> content[k]]

\* It has the value for the key, and otherwise what it had.
LEMMA WithKeyIs ==
  ASSUME NEW l \in Nat, NEW content, IsMap(content, l), NEW key \in Key(l), NEW value \in Values,
         NEW after, after = WithKey(content, key, value)
  PROVE  /\ IsMap(after, l) /\ DOMAIN after = DOMAIN content \cup {key}
         /\ \A k \in Key(l): ValueIn(after, k) = IF k = key THEN value ELSE ValueIn(content, k)
<1>1. /\ DOMAIN after = DOMAIN content \cup {key}
      /\ after = [k \in DOMAIN after |-> after[k]]
      /\ \A k \in DOMAIN after: after[k] = IF k = key THEN value ELSE content[k]
  BY DEF WithKey
<1>2. IsFiniteSet(DOMAIN content \cup {key})
  BY FS_AddElement DEF IsMap
<1>3. IsMap(after, l)
  BY <1>1, <1>2 DEF IsMap
<1>4. ASSUME NEW k \in Key(l) PROVE ValueIn(after, k) = IF k = key THEN value ELSE ValueIn(content, k)
  BY <1>1 DEF ValueIn
<1> QED
  BY <1>1, <1>3, <1>4

\* It has nothing for the key, and otherwise what it had.
LEMMA WithoutKeyIs ==
  ASSUME NEW l \in Nat, NEW content, IsMap(content, l), NEW key \in Key(l),
         NEW after, after = WithoutKey(content, key)
  PROVE  /\ IsMap(after, l)
         /\ \A k \in Key(l): ValueIn(after, k) = IF k = key THEN NoValue ELSE ValueIn(content, k)
<1>1. /\ DOMAIN after = DOMAIN content \ {key}
      /\ after = [k \in DOMAIN after |-> after[k]]
      /\ \A k \in DOMAIN after: after[k] = content[k]
  BY DEF WithoutKey
<1>2. IsFiniteSet(DOMAIN content \ {key})
  BY FS_Subset DEF IsMap
<1>3. IsMap(after, l)
  BY <1>1, <1>2 DEF IsMap
<1>4. ASSUME NEW k \in Key(l) PROVE ValueIn(after, k) = IF k = key THEN NoValue ELSE ValueIn(content, k)
  BY <1>1 DEF ValueIn
<1> QED
  BY <1>1, <1>3, <1>4

\* get at the root answers from the map, or not at all.
LEMMA RootGet ==
  ASSUME NEW l \in Nat, NEW content, IsMap(content, l), NEW node, RootOf(node, content, l), NEW key \in Key(l)
  PROVE  NodeGet(node, key) \in {Panic, ValueIn(content, key)}
<1>1. CASE DOMAIN content = {} /\ EmptyRoot(node)
  BY <1>1, EmptyWalked DEF ValueIn
<1>2. CASE Stands(node, TrieOf(content), l, TRUE)
           /\ \A k \in Key(l): NodeGet(TrieOf(content), k) = ValueIn(content, k)
  <2>1. NodeGet(node, key) \in {Panic, NodeGet(TrieOf(content), key)}
    BY <1>2, GetOfStandIn
  <2> QED
    BY <1>2, <2>1
<1> QED
  BY <1>1, <1>2, RootStands

\* insert at the root gives the root of the map with the key.
LEMMA RootInsert ==
  ASSUME NEW l \in Nat, NEW content, IsMap(content, l), NEW node, RootOf(node, content, l),
         NEW key \in Key(l), NEW value \in Values, NodeInsert(node, key, value) # Panic
  PROVE  RootOf(NodeInsert(node, key, value), WithKey(content, key, value), l)
<1> DEFINE after == WithKey(content, key, value)
<1>1. /\ IsMap(after, l) /\ DOMAIN after = DOMAIN content \cup {key}
      /\ \A k \in Key(l): ValueIn(after, k) = IF k = key THEN value ELSE ValueIn(content, k)
  BY WithKeyIs
<1> HIDE DEF after
<1>2. CASE DOMAIN content = {} /\ EmptyRoot(node)
  <2>1. NodeInsert(node, key, value) = LeafNode(key, value, NoCache)
    BY <1>2, EmptyWalked
  <2>2. DOMAIN after = {key} /\ after[key] = value
    BY <1>1, <1>2 DEF ValueIn
  <2>3. HoldsMap(LeafNode(key, after[key], NoCache), after, l)
    BY <1>1, <2>2, TrieOfOne
  <2>4. HoldsMap(LeafNode(key, value, NoCache), after, l)
    BY <2>2, <2>3
  <2>5. Full(LeafNode(key, value, NoCache), l)
        /\ \A k \in Key(l): NodeGet(LeafNode(key, value, NoCache), k) = ValueIn(after, k)
    BY <2>4 DEF HoldsMap
  <2>6. Stands(LeafNode(key, value, NoCache), LeafNode(key, value, NoCache), l, TRUE)
    BY <2>5, FullStands
  <2>7. RootOf(LeafNode(key, value, NoCache), after, l)
    BY <1>1, <2>5, <2>6, RootHolds
  <2> QED
    BY <2>1, <2>7 DEF after
<1>3. CASE /\ Stands(node, TrieOf(content), l, TRUE)
           /\ Shape(TrieOf(content), l)
           /\ \A k \in Key(l): NodeGet(TrieOf(content), k) = ValueIn(content, k)
  <2> DEFINE full == TrieOf(content)
             new  == NodeInsert(full, key, value)
  <2>1. Stands(NodeInsert(node, key, value), new, l, FALSE)
    BY <1>3, InsertStands
  <2>2. new # Panic
    BY <2>1, StandsShape
  <2>3. Inserted(full, key, value, l, new)
    BY <1>3, InsertInduction
  <2>4. \A k \in Key(l): NodeGet(new, k) = ValueIn(after, k)
    BY <1>1, <1>3, <2>2, <2>3 DEF Inserted
  <2> HIDE DEF new
  <2>5. RootOf(NodeInsert(node, key, value), after, l)
    BY <1>1, <2>1, <2>4, RootHolds
  <2> QED
    BY <2>5 DEF after
<1> QED
  BY <1>2, <1>3, RootStands

\* remove of a key that is found gives the root of the map without it.
LEMMA RootRemove ==
  ASSUME NEW l \in Nat, NEW content, IsMap(content, l), NEW node, RootOf(node, content, l),
         NEW key \in Key(l), NodeGet(node, key) \in Values, NodeRemove(node, key) # Panic
  PROVE  RootOf(NodeRemove(node, key), WithoutKey(content, key), l)
<1> DEFINE after == WithoutKey(content, key)
<1>0. after = WithoutKey(content, key)
  OBVIOUS
<1> HIDE DEF after
<1>1. /\ IsMap(after, l)
      /\ \A k \in Key(l): ValueIn(after, k) = IF k = key THEN NoValue ELSE ValueIn(content, k)
  BY <1>0, WithoutKeyIs
<1>2. NodeGet(node, key) \notin {Panic, NoValue}
  BY ValuesAssumption
<1>3. /\ Stands(node, TrieOf(content), l, TRUE)
      /\ Shape(TrieOf(content), l) /\ Resolved(TrieOf(content), l)
      /\ \A k \in Key(l): NodeGet(TrieOf(content), k) = ValueIn(content, k)
  <2>1. CASE EmptyRoot(node)
    BY <1>2, <2>1, EmptyWalked
  <2> QED
    BY <2>1, RootStands
<1> DEFINE full == TrieOf(content)
           new  == RemoveFound(full, key)
<1>4. NodeRemove(node, key) = RemoveFound(node, key)
  BY <1>2 DEF NodeRemove
<1>5. StandOrGone(RemoveFound(node, key), new, l)
  BY <1>2, <1>3, <1>4, RemoveStands
<1>6. NodeGet(full, key) # NoValue
  <2>1. NodeGet(node, key) \in {Panic, NodeGet(full, key)}
    BY <1>3, GetOfStandIn
  <2> QED
    BY <1>2, <2>1
<1>7. Removed(full, key, l, new)
  BY <1>3, <1>6, RemoveInduction
<1>8. new # Panic
  <2>1. Null # Panic
    BY DEF Null, Panic
  <2> QED
    BY <1>5, <2>1, StandsShape DEF StandOrGone
<1>9. \A k \in Key(l): NodeGet(new, k) = ValueIn(after, k)
  BY <1>1, <1>3, <1>7, <1>8 DEF Removed
<1> HIDE DEF new
<1>10. CASE Stands(RemoveFound(node, key), new, l, FALSE)
  <2>1. RootOf(RemoveFound(node, key), after, l)
    BY <1>1, <1>9, <1>10, RootHolds
  <2> QED
    BY <1>4, <2>1 DEF after
<1>11. CASE RemoveFound(node, key) = Null /\ new = Null
  <2>1. EmptyRoot(Null)
    BY DEF EmptyRoot
  <2>2. ASSUME NEW k \in DOMAIN after PROVE FALSE
    <3>1. k \in Key(l) /\ after[k] \in Values
      BY <1>1 DEF IsMap
    <3>2. ValueIn(after, k) = after[k]
      BY DEF ValueIn
    <3>3. NodeGet(Null, k) = NoValue
      BY <2>1, EmptyWalked
    <3> QED
      BY <1>9, <1>11, <3>1, <3>2, <3>3, ValuesAssumption
  <2>3. RootOf(Null, after, l)
    BY <2>1, <2>2 DEF RootOf
  <2> QED
    BY <1>4, <1>11, <2>3 DEF after
<1> QED
  BY <1>5, <1>10, <1>11 DEF StandOrGone

\* Hashing, hydrating, sending and receiving the trie leave it what it is.
LEMMA RootKept ==
  ASSUME NEW l \in Nat, NEW content, NEW node, RootOf(node, content, l)
  PROVE  /\ RootOf(Memoize(node), content, l)
         /\ RootOf(Uncached(node), content, l)
         /\ \A rlps: RootOf(ResolveDigests(node, rlps), content, l)
         /\ \A rlps: RootOf(NodeFromRlp(RlpRoot(node), rlps), content, l)
<1>1. CASE DOMAIN content = {} /\ EmptyRoot(node)
  BY <1>1, EmptyKept, EmptyResolved DEF RootOf
<1>2. CASE DOMAIN content # {} /\ Stands(node, TrieOf(content), l, TRUE)
  BY <1>2, MemoizeKeeps, UncachedKeeps, ResolveKeeps, RewrittenStands DEF RootOf
<1> QED
  BY <1>1, <1>2 DEF RootOf

\* So does pruning, where no node is part of the encoding of another.
LEMMA RootPruned ==
  ASSUME NEW l \in Nat, NEW content, NEW node, RootOf(node, content, l), ~HasInlined(node), NEW keys
  PROVE  RootOf(NodePrune(node, <<>>, keys).node, content, l)
<1>1. CASE DOMAIN content = {} /\ EmptyRoot(node)
  BY <1>1, EmptyPruned DEF RootOf
<1>2. CASE DOMAIN content # {} /\ Stands(node, TrieOf(content), l, TRUE)
  BY <1>2, PruneKeeps DEF RootOf
<1> QED
  BY <1>1, <1>2 DEF RootOf

\* The hash of the trie of a map.
LEMMA HashOfTrie ==
  ASSUME NEW l \in Nat, NEW content, IsMap(content, l)
  PROVE  /\ DOMAIN content = {} => Hash(TrieOf(content)) = Digest(Null)
         /\ DOMAIN content # {} => /\ Hash(TrieOf(content)) = Digest(RlpEncoded(TrieOf(content)))
                                   /\ RlpEncoded(TrieOf(content)) # Null
<1>1. CASE DOMAIN content = {}
  BY <1>1, TrieHolds, EmptyKept DEF EmptyRoot
<1>2. CASE DOMAIN content # {}
  <2>1. Full(TrieOf(content), l)
    BY <1>2, TrieHolds DEF HoldsMap
  <2>2. Stands(TrieOf(content), TrieOf(content), l, TRUE)
    BY <2>1, FullStands
  <2>3. RlpEncoded(TrieOf(content)).t = TrieOf(content).t /\ TrieOf(content).t \in {"leaf", "extension", "branch"}
    BY <2>1, <2>2, RefOfFull, StandsShape
  <2>4. RlpEncoded(TrieOf(content)) # Null
    BY <2>3 DEF Null
  <2> QED
    BY <1>2, <2>2, <2>4, HashOfStandIn
<1> QED
  BY <1>1, <1>2

\* The hash of a root is that of the trie of its map, it stands for that trie, and
\* it has the shape of a trie.
LEMMA RootIs ==
  ASSUME NEW l \in Nat, NEW content, IsMap(content, l), NEW node, RootOf(node, content, l)
  PROVE  /\ Hash(node) = Hash(TrieOf(content)) /\ Expanded(node) = TrieOf(content)
         /\ WellFormed(node, l) = TRUE
<1>1. CASE DOMAIN content = {} /\ EmptyRoot(node) /\ TrieOf(content) = Null
  BY <1>1, EmptyKept, EmptyExpanded, EmptyWellFormed, HashOfTrie DEF WellFormed
<1>2. CASE DOMAIN content # {} /\ Stands(node, TrieOf(content), l, TRUE)
  <2>1. Hash(node) = Hash(TrieOf(content))
    BY <1>2, HashOfStandIn, HashOfTrie
  <2>2. Expanded(node) = TrieOf(content)
    BY <1>2, ExpandedIsFull
  <2>3. WellFormedNode(node, l) = TRUE
    BY <1>2, StandsShape, ShapeIsWellFormed
  <2> QED
    BY <2>1, <2>2, <2>3 DEF WellFormed
<1> QED
  BY <1>1, <1>2, RootStands

\* The roots that are known by their digest, or by a witness.
LEMMA RootFrom ==
  ASSUME NEW l \in Nat, NEW content, IsMap(content, l), NEW root, root = Hash(TrieOf(content))
  PROVE  /\ RootOf(root, content, l) /\ root.t = "digest"
         /\ DOMAIN content = {} <=> root = Digest(Null)
         /\ DOMAIN content # {} => \A rlps: RootOf(NodeFromRlp(root.of, rlps), content, l)
         /\ TrieOf(content) # Null => DOMAIN content # {}
<1>1. CASE DOMAIN content = {}
  <2>1. root = Digest(Null) /\ TrieOf(content) = Null
    BY <1>1, HashOfTrie, TrieHolds
  <2>2. root.t = "digest"
    BY <2>1 DEF Digest
  <2> QED
    BY <1>1, <2>1, <2>2 DEF RootOf, EmptyRoot
<1>2. CASE DOMAIN content # {}
  <2> DEFINE full == TrieOf(content)
  <2>1. Full(full, l)
    BY <1>2, TrieHolds DEF HoldsMap
  <2>2. root = Digest(RlpEncoded(full)) /\ RlpEncoded(full) # Null
    BY <1>2, HashOfTrie
  <2>3. root.t = "digest" /\ root.of = RlpEncoded(full) /\ root # Digest(Null)
    BY <2>2 DEF Digest
  <2>4. root \in Refs(full, TRUE)
    BY <2>2 DEF Refs
  <2>5. Stands(root, full, l, TRUE)
    BY <2>1, <2>3, <2>4, DigestStands
  <2>6. \A rlps: Stands(NodeFromRlp(root.of, rlps), full, l, TRUE)
    BY <2>1, <2>3, FromRlpStands
  <2> QED
    BY <1>2, <2>3, <2>5, <2>6 DEF RootOf
<1> QED
  BY <1>1, <1>2

-----------------------------------------------------------------------------
\* Orphans.

\* A walk ends at none of the branches it could go on from.
EndsRight(end) ==
  \/ end.node.t \in {"null", "digest", "leaf", "extension"}
  \/ end.node.t = "branch" /\ end.key # <<>>

\* The walk of a key does not end at a branch with nothing left of the key.
LEMMA WalkEnds ==
  \A l \in Nat: \A node, key: Shape(node, l) /\ key \in Key(l) => EndsRight(Walk(node, key))
<1> DEFINE S == {l \in Nat: \A node, key: Shape(node, l) /\ key \in Key(l) => EndsRight(Walk(node, key))}
<1>1. ASSUME NEW l \in Nat, \A m \in 0..(l - 1): m \in S PROVE l \in S
  <2>b. ASSUME NEW m \in 0..(l - 1), NEW n, NEW k, Shape(n, m), k \in Key(m) PROVE EndsRight(Walk(n, k))
    <3>1. m \in S
      BY <1>1
    <3> QED
      BY <2>b, <3>1
  <2> HIDE DEF S
  <2>1. ASSUME NEW node, NEW key, Shape(node, l), key \in Key(l)
        PROVE  EndsRight(Walk(node, key))
    <3>0. Place(node, key).node = node /\ Place(node, key).key = key
      BY DEF Place
    <3>1. CASE node.t \in {"digest", "leaf"}
      <4>1. Walk(node, key) = Place(node, key)
        BY <3>1, AtEnd
      <4> QED
        BY <3>0, <3>1, <4>1 DEF EndsRight
    <3>2. ASSUME NEW n, NEW path, NEW child, NEW cache, IsExtension(node, l, n, path, child, cache)
          PROVE  EndsRight(Walk(node, key))
      <4>1. CASE IsPrefix(path, key)
        <5>1. Walk(node, key) = Walk(child, Drop(key, n))
          BY <2>1, <3>2, <4>1, AtExtension
        <5>2. n \in 1..l /\ Shape(child, l - n)
          BY <3>2 DEF IsExtension
        <5>3. n \in 0..l /\ l - n \in 0..(l - 1)
          BY <5>2
        <5>4. Drop(key, n) \in Key(l - n)
          BY <2>1, <5>3, DropKey
        <5> QED
          BY <2>b, <5>1, <5>2, <5>3, <5>4
      <4>2. CASE ~IsPrefix(path, key)
        <5>1. Walk(node, key) = Place(node, key)
          BY <2>1, <3>2, <4>2, AtExtension
        <5>2. node.t = "extension"
          BY <3>2 DEF IsExtension, ExtensionNode
        <5> QED
          BY <3>0, <5>1, <5>2 DEF EndsRight
      <4> QED
        BY <4>1, <4>2
    <3>3. ASSUME NEW nibs, NEW children, NEW cache, IsBranch(node, l, nibs, children, cache)
          PROVE  EndsRight(Walk(node, key))
      <4> DEFINE nib == key[1]
                 rest == Drop(key, 1)
      <4>0. l > 0
        BY <3>3 DEF IsBranch
      <4>1. CASE nib \in nibs
        <5>1. Walk(node, key) = Walk(children[nib], rest)
          BY <2>1, <3>3, <4>1, AtBranch
        <5>2. Shape(children[nib], l - 1)
          BY <3>3, <4>1 DEF IsBranch
        <5>3. 1 \in 0..l /\ l - 1 \in 0..(l - 1)
          BY <4>0
        <5>4. rest \in Key(l - 1)
          BY <2>1, <5>3, DropKey
        <5> QED
          BY <2>b, <5>1, <5>2, <5>3, <5>4
      <4>2. CASE nib \notin nibs
        <5>1. Walk(node, key) = Place(node, key)
          BY <2>1, <3>3, <4>2, AtBranch
        <5>2. node.t = "branch"
          BY <3>3 DEF IsBranch, BranchNode
        <5>3. key # <<>>
          BY <2>1, <4>0, HeadTail
        <5> QED
          BY <3>0, <5>1, <5>2, <5>3 DEF EndsRight
      <4> QED
        BY <4>1, <4>2
    <3>4. ASSUME NEW path, NEW value, NEW cache, IsLeaf(node, l, path, value, cache)
          PROVE  EndsRight(Walk(node, key))
      <4>1. node.t = "leaf"
        BY <3>4 DEF IsLeaf, LeafNode
      <4> QED
        BY <3>1, <4>1
    <3> QED
      BY <2>1, <3>1, <3>2, <3>3, <3>4, ShapeCases
  <2> QED
    BY <2>1 DEF S
<1> HIDE DEF S
<1>2. \A l \in Nat: l \in S
  BY <1>1, SetInduction
<1> QED
  BY <1>2 DEF S

\* Where a key leaves a trie it is found, or meets what resolve_orphan tells apart.
LEMMA DivergesAt ==
  ASSUME NEW end, EndsRight(end)
  PROVE  DivergingAt(end) = Found \/ DivergingAt(end).node.t \in {"null", "digest", "leaf", "extension"}
<1>1. CASE end.node.t = "leaf" /\ end.node.path = end.key
  BY <1>1 DEF DivergingAt
<1>2. CASE end.node.t = "branch" /\ end.key # <<>>
  BY <1>2 DEF DivergingAt, Null
<1>3. CASE ~(end.node.t = "leaf" /\ end.node.path = end.key) /\ ~(end.node.t = "branch" /\ end.key # <<>>)
  BY <1>3 DEF DivergingAt, EndsRight
<1> QED
  BY <1>1, <1>2, <1>3

\* resolve_orphan leaves the trie as it is, or resolves digests of it.
LEMMA OrphanAnswers ==
  ASSUME NEW diverging, diverging = Found \/ diverging.node.t \in {"null", "digest", "leaf", "extension"},
         NEW node, NEW key
  PROVE  \/ ResolveOrphanAt(diverging, node, key).node = node
         \/ \E rlps: ResolveOrphanAt(diverging, node, key).node = ResolveDigests(node, rlps)
<1> DEFINE matched   == SubSeq(key, 1, Len(key) - Len(diverging.key))
           prefix    == diverging.node.path
           common    == LongestCommonPrefix({prefix, diverging.key})
           nib       == prefix[Len(common) + 1]
           suffix    == Drop(prefix, Len(common) + 1)
           isOrphan  == IsBranchWithDigest(Walk(node, matched \o common), nib)
           child     == diverging.node.child
           resolved(sibling) == ResolveDigests(node, {RlpEncoded(sibling)})
           answer    == ResolveOrphanAt(diverging, node, key)
<1>1. CASE diverging.node.t \notin {"null", "digest", "leaf", "extension"}
  BY <1>1 DEF ResolveOrphanAt
<1>2. CASE diverging.node.t \in {"null", "digest"}
  BY <1>2 DEF ResolveOrphanAt
<1>3. CASE diverging.node.t = "leaf"
  <2>1. answer.node \in {node, resolved(Leaf(suffix, diverging.node.value))}
    BY <1>3 DEF ResolveOrphanAt
  <2> QED
    BY <2>1
<1>4. CASE diverging.node.t = "extension"
  <2>1. CASE ~isOrphan
    BY <1>4, <2>1 DEF ResolveOrphanAt
  <2>2. CASE isOrphan /\ suffix # <<>>
    <3>1. answer.node \in {node, resolved(Extension(suffix, child))}
      BY <1>4, <2>2 DEF ResolveOrphanAt
    <3> QED
      BY <3>1
  <2>3. CASE isOrphan /\ suffix = <<>>
    <3>1. answer.node \in {node, resolved(child)}
      BY <1>4, <2>3 DEF ResolveOrphanAt
    <3> QED
      BY <3>1
  <2> QED
    BY <2>1, <2>2, <2>3
<1> QED
  BY <1>1, <1>2, <1>3, <1>4

\* So the root stands for what it did.
LEMMA RootWithOrphan ==
  ASSUME NEW l \in Nat, NEW content, NEW node, RootOf(node, content, l), NEW key \in Key(l),
         NEW other, other = Null \/ Shape(other, l)
  PROVE  RootOf(ResolveOrphan(node, key, other).node, content, l)
<1>1. EndsRight(Walk(other, key))
  <2>1. CASE other = Null
    <3>1. Walk(other, key) = Place(other, key)
      BY <2>1, AtEnd DEF Null
    <3> QED
      BY <2>1, <3>1 DEF EndsRight, Place, Null
  <2> QED
    BY <2>1, WalkEnds
<1> DEFINE diverging == Diverging(other, key)
<1>2. diverging = Found \/ diverging.node.t \in {"null", "digest", "leaf", "extension"}
  BY <1>1, DivergesAt DEF Diverging
<1> HIDE DEF diverging
<1>3. \/ ResolveOrphanAt(diverging, node, key).node = node
      \/ \E rlps: ResolveOrphanAt(diverging, node, key).node = ResolveDigests(node, rlps)
  BY <1>2, OrphanAnswers
<1>4. ResolveOrphan(node, key, other) = ResolveOrphanAt(diverging, node, key)
  BY DEF ResolveOrphan, diverging
<1>5. \A rlps: RootOf(ResolveDigests(node, rlps), content, l)
  BY RootKept
<1> QED
  BY <1>3, <1>4, <1>5

-----------------------------------------------------------------------------
\* Where the digests are.

\* The path p leads to a digest below child i of a branch.
PathIn(p, children, i) == \E q \in DigestPaths(children[i]): p = Joined(<<i>>, q)

\* The paths to the digests of a trie, by its kind.
LEMMA DigestPathsAt ==
  ASSUME NEW node, NEW l, Shape(node, l)
  PROVE  /\ node.t = "digest" => DigestPaths(node) = {<<>>}
         /\ node.t = "leaf" => DigestPaths(node) = {}
         /\ \A n, path, child, cache: IsExtension(node, l, n, path, child, cache) =>
              \A p: p \in DigestPaths(node) <=> \E q \in DigestPaths(child): p = Joined(path, q)
         /\ \A nibs, children, cache: IsBranch(node, l, nibs, children, cache) =>
              \A p: p \in DigestPaths(node) <=> \E i \in nibs: PathIn(p, children, i)
<1> DEFINE op == DigestPathsOp
           below == [i \in DOMAIN ChildrenOf(node) |-> Fold(op, ChildrenOf(node)[i])]
<1>0. DescendsOp(op) /\ \A x, b: MadeAt(op, x, b) = DigestPathsFrom(x, b)
  BY DEF DescendsOp, MadeAt, DigestPathsOp
<1> HIDE DEF op
<1>1. Fold(op, node) = DigestPathsFrom(node, below)
  BY <1>0, FoldDescends
<1>2. \A x: DigestPaths(x) = Fold(op, x)
  BY DigestPathsIsFold DEF op
<1>3. CASE node.t = "digest"
  BY <1>1, <1>2, <1>3 DEF DigestPathsFrom, IsExtension, ExtensionNode, IsBranch, BranchNode
<1>4. CASE node.t = "leaf"
  <2>1. below = <<>>
    BY <1>4, ChildrenOfKinds
  <2> HIDE DEF below
  <2>2. DigestPathsFrom(node, below) = {}
    BY <1>4, <2>1 DEF DigestPathsFrom, PathsFrom
  <2> QED
    BY <1>1, <1>2, <1>4, <2>2 DEF IsExtension, ExtensionNode, IsBranch, BranchNode
<1>5. ASSUME NEW n, NEW path, NEW child, NEW cache, IsExtension(node, l, n, path, child, cache)
      PROVE  \A p: p \in DigestPaths(node) <=> \E q \in DigestPaths(child): p = Joined(path, q)
  <2>1. node = ExtensionNode(path, child, cache)
    BY <1>5 DEF IsExtension
  <2>2. ChildrenOf(node) = <<child>>
    BY <2>1, ChildrenOfKinds
  <2>3. below[1] = DigestPaths(child)
    BY <1>2, <2>2
  <2>4. node.t = "extension" /\ node.path = path
    BY <2>1 DEF ExtensionNode
  <2> HIDE DEF below
  <2>5. DigestPaths(node) = {path \o q: q \in DigestPaths(child)}
    BY <1>1, <1>2, <2>3, <2>4 DEF DigestPathsFrom, PathsFrom
  <2> QED
    BY <2>5 DEF Joined
<1>6. ASSUME NEW nibs, NEW children, NEW cache, IsBranch(node, l, nibs, children, cache)
      PROVE  \A p: p \in DigestPaths(node) <=> \E i \in nibs: PathIn(p, children, i)
  <2>1. node = BranchNode(children, cache) /\ DOMAIN children = nibs
    BY <1>6 DEF IsBranch
  <2>2. ChildrenOf(node) = children
    BY <2>1, ChildrenOfKinds
  <2>3. DOMAIN below = nibs /\ \A i \in nibs: below[i] = DigestPaths(children[i])
    BY <1>2, <2>1, <2>2
  <2>4. node.t = "branch"
    BY <2>1 DEF BranchNode
  <2> HIDE DEF below
  <2>5. DigestPaths(node) = UNION {{<<i>> \o q: q \in below[i]}: i \in DOMAIN below}
    BY <1>1, <1>2, <2>4 DEF DigestPathsFrom, PathsFrom
  <2>6. ASSUME NEW i \in nibs, NEW p
        PROVE  p \in {<<i>> \o q: q \in below[i]} <=> PathIn(p, children, i)
    BY <2>3 DEF Joined, PathIn
  <2> DEFINE In(i) == {<<i>> \o q: q \in below[i]}
  <2>7. \A i \in nibs: \A p: p \in In(i) <=> PathIn(p, children, i)
    BY <2>6
  <2>8. DigestPaths(node) = UNION {In(i): i \in DOMAIN below}
    BY <2>5
  <2> HIDE DEF In
  <2> QED
    BY <2>3, <2>7, <2>8
<1> QED
  BY <1>3, <1>4, <1>5, <1>6

\* They are paths, no longer than a key.
LEMMA DigestPathsAreKeys ==
  \A l \in Nat: \A node: Shape(node, l) => \A p \in DigestPaths(node): \E m \in 0..l: p \in Key(m)
<1> DEFINE S == {l \in Nat: \A node: Shape(node, l) => \A p \in DigestPaths(node): \E m \in 0..l: p \in Key(m)}
<1>1. ASSUME NEW l \in Nat, \A m \in 0..(l - 1): m \in S PROVE l \in S
  <2>b. ASSUME NEW k \in 0..(l - 1), NEW n, Shape(n, k), NEW p \in DigestPaths(n)
        PROVE  \E m \in 0..k: p \in Key(m)
    <3>1. k \in S
      BY <1>1
    <3> QED
      BY <2>b, <3>1
  <2> HIDE DEF S
  <2>1. ASSUME NEW node, Shape(node, l), NEW p \in DigestPaths(node)
        PROVE  \E m \in 0..l: p \in Key(m)
    <3>1. CASE node.t = "digest"
      BY <2>1, <3>1, DigestPathsAt, NoNibbles
    <3>2. CASE node.t = "leaf"
      BY <2>1, <3>2, DigestPathsAt
    <3>3. ASSUME NEW n, NEW path, NEW child, NEW cache, IsExtension(node, l, n, path, child, cache)
          PROVE  \E m \in 0..l: p \in Key(m)
      <4>1. PICK q \in DigestPaths(child): p = Joined(path, q)
        BY <2>1, <3>3, DigestPathsAt
      <4>2. n \in 1..l /\ path \in Key(n) /\ Shape(child, l - n)
        BY <3>3 DEF IsExtension
      <4>3. l - n \in 0..(l - 1)
        BY <4>2
      <4>4. PICK m \in 0..(l - n): q \in Key(m)
        BY <2>b, <4>2, <4>3
      <4>5. n \in Nat /\ m \in Nat /\ n + m \in 0..l
        BY <4>2
      <4>6. p \in Key(n + m)
        BY <4>1, <4>2, <4>4, <4>5, JoinedPath
      <4> QED
        BY <4>5, <4>6
    <3>4. ASSUME NEW nibs, NEW children, NEW cache, IsBranch(node, l, nibs, children, cache)
          PROVE  \E m \in 0..l: p \in Key(m)
      <4>1. PICK i \in nibs: PathIn(p, children, i)
        BY <2>1, <3>4, DigestPathsAt
      <4>2. PICK q \in DigestPaths(children[i]): p = Joined(<<i>>, q)
        BY <4>1 DEF PathIn
      <4>3. l > 0 /\ i \in Nibble /\ Shape(children[i], l - 1)
        BY <3>4 DEF IsBranch
      <4>4. l - 1 \in 0..(l - 1)
        BY <4>3
      <4>5. PICK m \in 0..(l - 1): q \in Key(m)
        BY <2>b, <4>3, <4>4
      <4>6. <<i>> \in Key(1) /\ m \in Nat /\ 1 + m \in 0..l
        BY <4>3, OneNibble
      <4>7. p \in Key(1 + m)
        BY <4>2, <4>5, <4>6, JoinedPath
      <4> QED
        BY <4>6, <4>7
    <3> QED
      BY <2>1, <3>1, <3>2, <3>3, <3>4, ShapeCases DEF IsLeaf, LeafNode
  <2> QED
    BY <2>1 DEF S
<1> HIDE DEF S
<1>2. \A l \in Nat: l \in S
  BY <1>1, SetInduction
<1> QED
  BY <1>2 DEF S

\* The way of the key meets a digest.
Meets(node, key) == \E p \in DigestPaths(node): IsPrefix(p, key)

\* get panics where a digest is on the way of the key, and nowhere else.
LEMMA GetPanics ==
  \A l \in Nat: \A node, key: Shape(node, l) /\ key \in Key(l) => (NodeGet(node, key) = Panic <=> Meets(node, key))
<1> DEFINE S == {l \in Nat: \A node, key: Shape(node, l) /\ key \in Key(l) =>
                   (NodeGet(node, key) = Panic <=> Meets(node, key))}
<1>1. ASSUME NEW l \in Nat, \A m \in 0..(l - 1): m \in S PROVE l \in S
  <2>b. ASSUME NEW m \in 0..(l - 1), NEW n, NEW k, Shape(n, m), k \in Key(m)
        PROVE  NodeGet(n, k) = Panic <=> Meets(n, k)
    <3>1. m \in S
      BY <1>1
    <3> QED
      BY <2>b, <3>1
  <2> HIDE DEF S
  <2>1. ASSUME NEW node, NEW key, Shape(node, l), key \in Key(l)
        PROVE  NodeGet(node, key) = Panic <=> Meets(node, key)
    <3>0. NoValue # Panic
      BY DEF NoValue, Panic
    <3>1. CASE node.t = "digest"
      <4>1. NodeGet(node, key) = Panic
        BY <3>1, AtEnd
      <4>2. IsPrefix(<<>>, key)
        BY <2>1, NoNibbles, PrefixNibbles
      <4> QED
        BY <2>1, <3>1, <4>1, <4>2, DigestPathsAt DEF Meets
    <3>2. ASSUME NEW path, NEW value, NEW cache, IsLeaf(node, l, path, value, cache)
          PROVE  NodeGet(node, key) = Panic <=> Meets(node, key)
      <4>1. node.t = "leaf" /\ node.value \in Values
        BY <3>2 DEF IsLeaf, LeafNode
      <4>2. NodeGet(node, key) \in {node.value, NoValue}
        BY <4>1, AtEnd
      <4>3. DigestPaths(node) = {}
        BY <2>1, <4>1, DigestPathsAt
      <4> QED
        BY <3>0, <4>1, <4>2, <4>3, ValuesAssumption DEF Meets
    <3>3. ASSUME NEW n, NEW path, NEW child, NEW cache, IsExtension(node, l, n, path, child, cache)
          PROVE  NodeGet(node, key) = Panic <=> Meets(node, key)
      <4> DEFINE rest == Drop(key, n)
      <4>1. n \in 1..l /\ path \in Key(n) /\ Shape(child, l - n)
        BY <3>3 DEF IsExtension
      <4>2. l - n \in 0..(l - 1) /\ n \in Nat /\ l - n \in Nat /\ n \in 0..l
        BY <4>1
      <4>3. \A p: p \in DigestPaths(node) <=> \E q \in DigestPaths(child): p = Joined(path, q)
        BY <2>1, <3>3, DigestPathsAt
      <4>4. rest \in Key(l - n)
        BY <2>1, <4>2, DropKey
      <4> HIDE DEF rest
      <4>5. ASSUME NEW q \in DigestPaths(child)
            PROVE  IsPrefix(Joined(path, q), key) <=> IsPrefix(path, key) /\ IsPrefix(q, rest)
        <5>1. PICK m \in 0..(l - n): q \in Key(m)
          BY <4>1, <4>2, DigestPathsAreKeys
        <5> QED
          BY <2>1, <4>1, <4>2, <5>1, JoinedPrefix DEF rest
      <4>6. Meets(node, key) <=> IsPrefix(path, key) /\ Meets(child, rest)
        BY <4>3, <4>5 DEF Meets
      <4>7. IsPrefix(path, key) => NodeGet(node, key) = NodeGet(child, rest)
        BY <2>1, <3>3, AtExtension DEF rest
      <4>8. ~IsPrefix(path, key) => NodeGet(node, key) = NoValue
        BY <2>1, <3>3, AtExtension
      <4>9. NodeGet(child, rest) = Panic <=> Meets(child, rest)
        BY <2>b, <4>1, <4>2, <4>4
      <4> QED
        BY <3>0, <4>6, <4>7, <4>8, <4>9
    <3>4. ASSUME NEW nibs, NEW children, NEW cache, IsBranch(node, l, nibs, children, cache)
          PROVE  NodeGet(node, key) = Panic <=> Meets(node, key)
      <4> DEFINE nib == key[1]
                 rest == Drop(key, 1)
      <4>1. l > 0 /\ \A i \in nibs: i \in Nibble /\ Shape(children[i], l - 1)
        BY <3>4 DEF IsBranch
      <4>2. l - 1 \in 0..(l - 1) /\ l - 1 \in Nat /\ 1 \in 0..l
        BY <4>1
      <4>3. \A p: p \in DigestPaths(node) <=> \E i \in nibs: PathIn(p, children, i)
        BY <2>1, <3>4, DigestPathsAt
      <4>4. rest \in Key(l - 1)
        BY <2>1, <4>2, DropKey
      <4> HIDE DEF rest
      <4>5. ASSUME NEW i \in nibs, NEW q \in DigestPaths(children[i])
            PROVE  IsPrefix(Joined(<<i>>, q), key) <=> nib = i /\ IsPrefix(q, rest)
        <5>1. PICK m \in 0..(l - 1): q \in Key(m)
          BY <4>1, <4>2, DigestPathsAreKeys
        <5>2. <<i>> \in Key(1) /\ <<i>>[1] = i /\ 1 \in Nat /\ m \in Nat
          BY <4>1, OneNibble
        <5>3. IsPrefix(Joined(<<i>>, q), key) <=> IsPrefix(<<i>>, key) /\ IsPrefix(q, rest)
          BY <2>1, <5>1, <5>2, JoinedPrefix DEF rest
        <5>4. IsPrefix(<<i>>, key) <=> 1 <= l /\ \A j \in 1..1: <<i>>[j] = key[j]
          BY <2>1, <5>2, PrefixNibbles
        <5>5. IsPrefix(<<i>>, key) <=> key[1] = i
          BY <4>1, <5>2, <5>4
        <5> QED
          BY <5>3, <5>5
      <4> HIDE DEF nib
      <4>p. ASSUME NEW i \in nibs
            PROVE  (\E p: PathIn(p, children, i) /\ IsPrefix(p, key)) <=> nib = i /\ Meets(children[i], rest)
        BY <4>5 DEF Meets, PathIn
      <4>6. Meets(node, key) <=> nib \in nibs /\ Meets(children[nib], rest)
        <5>1. Meets(node, key) <=> \E i \in nibs: \E p: PathIn(p, children, i) /\ IsPrefix(p, key)
          BY <4>3 DEF Meets
        <5> QED
          BY <4>p, <5>1
      <4>7. nib \in nibs => NodeGet(node, key) = NodeGet(children[nib], rest)
        BY <2>1, <3>4, AtBranch DEF nib, rest
      <4>8. nib \notin nibs => NodeGet(node, key) = NoValue
        BY <2>1, <3>4, AtBranch DEF nib
      <4>9. nib \in nibs => (NodeGet(children[nib], rest) = Panic <=> Meets(children[nib], rest))
        BY <2>b, <4>1, <4>2, <4>4
      <4> QED
        BY <3>0, <4>6, <4>7, <4>8, <4>9
    <3> QED
      BY <2>1, <3>1, <3>2, <3>3, <3>4, ShapeCases
  <2> QED
    BY <2>1 DEF S
<1> HIDE DEF S
<1>2. \A l \in Nat: l \in S
  BY <1>1, SetInduction
<1> QED
  BY <1>2 DEF S

-----------------------------------------------------------------------------
\* Where the removal of a key leaves a digest alone.

\* The path has the first n nibbles of the key.
Shares(p, key, n) == \A i \in 1..n: p[i] = key[i]

\* The parent of the digest at path p, of length m, is on the way of the key, and of
\* the other keys there none but those of the digest.
OnlyBeside(p, m, full, l, key) ==
  /\ p \in Key(m) /\ m \in 1..l
  /\ Shares(p, key, m - 1)
  /\ \A k \in Key(l): k # key /\ NodeGet(full, k) # NoValue /\ Shares(p, k, m - 1) => Shares(p, k, m)

\* A digest is all that is beside the way of the key somewhere.
HasOnlyBeside(node, full, l, key) == \E p \in DigestPaths(node): \E m: OnlyBeside(p, m, full, l, key)

\* A path after another shares what each shares.
LEMMA SharesBelow ==
  ASSUME NEW l \in Nat, NEW n \in 0..l, NEW q \in Key(n), NEW m \in Nat, NEW p \in Key(m),
         NEW j \in 0..m, n + j <= l, NEW k \in Key(l)
  PROVE  Shares(Joined(q, p), k, n + j) <=> IsPrefix(q, k) /\ Shares(p, Drop(k, n), j)
<1>0. n \in Nat /\ j \in Nat
  OBVIOUS
<1>1. /\ \A i \in 1..n: Joined(q, p)[i] = q[i]
      /\ \A i \in 1..m: Joined(q, p)[n + i] = p[i]
  BY <1>0, JoinedPath
<1>2. \A i \in 1..(l - n): Drop(k, n)[i] = k[n + i]
  BY DropKey
<1>3. IsPrefix(q, k) <=> \A i \in 1..n: q[i] = k[i]
  BY <1>0, PrefixNibbles
<1> DEFINE r == Joined(q, p)
           d == Drop(k, n)
<1>4. ASSUME Shares(r, k, n + j) PROVE IsPrefix(q, k) /\ Shares(p, d, j)
  <2>1. \A i \in 1..n: i \in 1..(n + j)
    BY <1>0
  <2>2. \A i \in 1..j: n + i \in 1..(n + j) /\ i \in 1..m /\ i \in 1..(l - n)
    BY <1>0
  <2> HIDE DEF r, d
  <2>3. \A i \in 1..n: q[i] = k[i]
    BY <1>1, <1>4, <2>1 DEF Shares, r
  <2>4. \A i \in 1..j: p[i] = d[i]
    BY <1>1, <1>2, <1>4, <2>2 DEF Shares, r, d
  <2> QED
    BY <1>3, <2>3, <2>4 DEF Shares
<1>5. ASSUME IsPrefix(q, k), Shares(p, d, j) PROVE Shares(r, k, n + j)
  <2> SUFFICES ASSUME NEW i \in 1..(n + j) PROVE r[i] = k[i]
    BY DEF Shares
  <2>1. CASE i \in 1..n
    BY <1>1, <1>3, <1>5, <2>1
  <2>2. CASE i \notin 1..n
    <3> DEFINE h == i - n
    <3>1. h \in 1..j /\ h \in 1..m /\ h \in 1..(l - n) /\ i = n + h
      BY <1>0, <2>2
    <3> HIDE DEF h
    <3>2. p[h] = d[h]
      BY <1>5, <3>1 DEF Shares
    <3>3. d[h] = k[n + h] /\ r[n + h] = p[h]
      BY <1>1, <1>2, <3>1
    <3> QED
      BY <3>1, <3>2, <3>3
  <2> QED
    BY <2>1, <2>2
<1> QED
  BY <1>4, <1>5

\* Further down it is the same.
LEMMA OnlyBesideBelow ==
  ASSUME NEW l \in Nat, NEW n \in 0..l, NEW q \in Key(n), NEW d, d = l - n, NEW full, NEW part,
         \A k \in Key(l): IsPrefix(q, k) => NodeGet(full, k) = NodeGet(part, Drop(k, n)),
         NEW key \in Key(l), IsPrefix(q, key), NEW m \in 1..d, NEW p \in Key(m)
  PROVE  OnlyBeside(Joined(q, p), n + m, full, l, key) <=> OnlyBeside(p, m, part, d, Drop(key, n))
<1> DEFINE r == Joined(q, p)
           rest == Drop(key, n)
<1>0. /\ n \in Nat /\ m \in Nat /\ d \in Nat /\ n + m \in 1..l /\ m - 1 \in 0..m /\ m \in 0..m
      /\ n + (m - 1) <= l /\ n + m <= l /\ (n + m) - 1 = n + (m - 1) /\ l = n + d
  OBVIOUS
<1>1. \A k \in Key(l): /\ Shares(r, k, n + (m - 1)) <=> IsPrefix(q, k) /\ Shares(p, Drop(k, n), m - 1)
                       /\ Shares(r, k, n + m) <=> IsPrefix(q, k) /\ Shares(p, Drop(k, n), m)
  BY <1>0, SharesBelow
<1>2. r \in Key(n + m)
  BY <1>0, JoinedPath
<1>3. \A k \in Key(l): Drop(k, n) \in Key(d)
  BY DropKey
<1>4. \A k \in Key(l): IsPrefix(q, k) /\ Drop(k, n) = rest => k = key
  <2>1. ASSUME NEW k \in Key(l), IsPrefix(q, k), Drop(k, n) = rest PROVE k = key
    <3>1. Joined(q, rest) = k /\ Joined(q, rest) = key
      BY <1>0, <1>3, <2>1, JoinedPrefix
    <3> QED
      BY <3>1
  <2> QED
    BY <2>1
<1>5. ASSUME NEW k \in Key(d)
      PROVE  \E j \in Key(l): IsPrefix(q, j) /\ Drop(j, n) = k
  <2>1. Joined(q, k) \in Key(l)
    BY <1>0, JoinedPath
  <2>2. IsPrefix(q, Joined(q, k)) /\ k = Drop(Joined(q, k), n)
    BY <1>0, <2>1, JoinedPrefix
  <2> QED
    BY <2>1, <2>2
<1> HIDE DEF r, rest
<1>6. ASSUME OnlyBeside(r, n + m, full, l, key) PROVE OnlyBeside(p, m, part, d, rest)
  <2>1. Shares(r, key, n + (m - 1))
    BY <1>0, <1>6 DEF OnlyBeside
  <2>2. Shares(p, rest, m - 1)
    BY <1>1, <2>1 DEF rest
  <2>3. ASSUME NEW k \in Key(d), k # rest, NodeGet(part, k) # NoValue, Shares(p, k, m - 1)
        PROVE  Shares(p, k, m)
    <3>1. PICK j \in Key(l): IsPrefix(q, j) /\ Drop(j, n) = k
      BY <1>5
    <3>2. j # key /\ NodeGet(full, j) # NoValue
      BY <2>3, <3>1 DEF rest
    <3>3. Shares(r, j, n + (m - 1))
      BY <1>1, <2>3, <3>1
    <3>4. Shares(r, j, n + m)
      BY <1>0, <1>6, <3>2, <3>3 DEF OnlyBeside
    <3> QED
      BY <1>1, <3>1, <3>4
  <2> QED
    BY <2>2, <2>3 DEF OnlyBeside
<1>7. ASSUME OnlyBeside(p, m, part, d, rest) PROVE OnlyBeside(r, n + m, full, l, key)
  <2>1. Shares(p, rest, m - 1)
    BY <1>7 DEF OnlyBeside
  <2>2. Shares(r, key, n + (m - 1))
    BY <1>1, <2>1 DEF rest
  <2>3. ASSUME NEW k \in Key(l), k # key, NodeGet(full, k) # NoValue, Shares(r, k, n + (m - 1))
        PROVE  Shares(r, k, n + m)
    <3>1. IsPrefix(q, k) /\ Shares(p, Drop(k, n), m - 1)
      BY <1>1, <2>3
    <3>2. Drop(k, n) \in Key(d) /\ Drop(k, n) # rest /\ NodeGet(part, Drop(k, n)) # NoValue
      BY <1>3, <1>4, <2>3, <3>1
    <3>3. Shares(p, Drop(k, n), m)
      BY <1>7, <3>1, <3>2 DEF OnlyBeside
    <3> QED
      BY <1>1, <3>1, <3>3
  <2> QED
    BY <1>0, <1>2, <2>2, <2>3 DEF OnlyBeside
<1> QED
  BY <1>6, <1>7 DEF r, rest

\* A path that is empty leads to a digest, and is the only one to it.
LEMMA EmptyPath ==
  ASSUME NEW l, NEW node, Shape(node, l), <<>> \in DigestPaths(node)
  PROVE  node.t = "digest"
<1>0. l \in Nat
  BY ShapeCases
<1>1. ASSUME NEW n, NEW path, NEW child, NEW cache, IsExtension(node, l, n, path, child, cache) PROVE FALSE
  <2>1. PICK q \in DigestPaths(child): <<>> = Joined(path, q)
    BY <1>1, DigestPathsAt
  <2>2. n \in Nat /\ n > 0 /\ path \in Key(n) /\ Shape(child, l - n) /\ l - n \in Nat
    BY <1>0, <1>1 DEF IsExtension
  <2>3. PICK m \in 0..(l - n): q \in Key(m)
    BY <2>2, DigestPathsAreKeys
  <2>4. Joined(path, q) \in Key(n + m) /\ n + m \in Nat /\ n + m # 0
    BY <2>2, <2>3, JoinedPath
  <2> QED
    BY <2>1, <2>4, NoNibbles
<1>2. ASSUME NEW nibs, NEW children, NEW cache, IsBranch(node, l, nibs, children, cache) PROVE FALSE
  <2>1. PICK i \in nibs: PathIn(<<>>, children, i)
    BY <1>2, DigestPathsAt
  <2>2. PICK q \in DigestPaths(children[i]): <<>> = Joined(<<i>>, q)
    BY <2>1 DEF PathIn
  <2>3. i \in Nibble /\ Shape(children[i], l - 1) /\ l - 1 \in Nat
    BY <1>0, <1>2 DEF IsBranch
  <2>4. PICK m \in 0..(l - 1): q \in Key(m)
    BY <2>3, DigestPathsAreKeys
  <2>5. <<i>> \in Key(1)
    BY <2>3, OneNibble
  <2>6. Joined(<<i>>, q) \in Key(1 + m) /\ 1 + m \in Nat /\ 1 + m # 0
    BY <2>4, <2>5, JoinedPath
  <2> QED
    BY <2>2, <2>6, NoNibbles
<1>3. node.t # "leaf"
  BY DigestPathsAt
<1> QED
  BY <1>1, <1>2, <1>3, ShapeCases DEF IsLeaf, LeafNode

\* The trie has part below path q, of length n.
HasPart(full, l, q, n, part) ==
  \A k \in Key(l): IsPrefix(q, k) => NodeGet(full, k) = NodeGet(part, Drop(k, n))

\* Below path q, where child is, the removal of the key leaves a digest alone.
BesideVia(q, child, full, l, key) ==
  \E p \in DigestPaths(child): \E m: OnlyBeside(Joined(q, p), m, full, l, key)

\* The digests below a child that the key leads to, seen from the parent.
LEMMA BesideThrough ==
  ASSUME NEW l \in Nat, NEW n \in 1..l, NEW q \in Key(n), NEW d, d = l - n, NEW full, NEW part,
         HasPart(full, l, q, n, part),
         NEW key \in Key(l), IsPrefix(q, key), NEW rest, rest = Drop(key, n),
         NEW child, Shape(child, d), NodeGet(child, rest) # Panic
  PROVE  BesideVia(q, child, full, l, key) <=> HasOnlyBeside(child, part, d, rest)
<1>0. n \in Nat /\ d \in Nat /\ n \in 0..l
  OBVIOUS
<1>1. rest \in Key(d)
  BY <1>0, DropKey
<1>p. \A k \in Key(l): IsPrefix(q, k) => NodeGet(full, k) = NodeGet(part, Drop(k, n))
  BY DEF HasPart
<1>2. ASSUME NEW p \in DigestPaths(child), NEW m, OnlyBeside(Joined(q, p), m, full, l, key)
      PROVE  HasOnlyBeside(child, part, d, rest)
  <2>1. PICK j \in 0..d: p \in Key(j)
    BY <1>0, DigestPathsAreKeys
  <2>2. j # 0
    <3>1. ASSUME j = 0 PROVE FALSE
      <4>1. p = <<>>
        BY <2>1, <3>1, NoNibbles
      <4>2. IsPrefix(p, rest)
        BY <1>0, <1>1, <2>1, <3>1, PrefixNibbles
      <4> QED
        BY <1>0, <1>1, <4>2, GetPanics DEF Meets
    <3> QED
      BY <3>1
  <2>3. j \in 1..d /\ j \in Nat
    BY <2>2
  <2>4. Joined(q, p) \in Key(n + j) /\ Joined(q, p) \in Key(m)
    BY <1>0, <1>2, <2>1, <2>3, JoinedPath DEF OnlyBeside
  <2>5. m = n + j
    BY <2>4 DEF Key
  <2>6. OnlyBeside(p, j, part, d, Drop(key, n))
    BY <1>0, <1>2, <1>p, <2>1, <2>3, <2>5, OnlyBesideBelow
  <2> QED
    BY <2>6 DEF HasOnlyBeside
<1>3. ASSUME NEW p \in DigestPaths(child), NEW m, OnlyBeside(p, m, part, d, rest)
      PROVE  OnlyBeside(Joined(q, p), n + m, full, l, key)
  <2>1. p \in Key(m) /\ m \in 1..d
    BY <1>3 DEF OnlyBeside
  <2> QED
    BY <1>0, <1>3, <1>p, <2>1, OnlyBesideBelow
<1> QED
  BY <1>2, <1>3 DEF HasOnlyBeside, BesideVia

\* Of a trie, every key but this one leads to the child at nibble i.
OnlyBelow(full, l, key, i) == \A k \in Key(l): k # key /\ NodeGet(full, k) # NoValue => k[1] = i

\* A digest right below the root.
LEMMA BesideChild ==
  ASSUME NEW l \in Nat, l > 0, NEW i \in Nibble, NEW full, NEW key \in Key(l),
         NEW p, NEW j \in 0..(l - 1), p \in Key(j), NEW m, i # key[1] \/ j = 0
  PROVE  OnlyBeside(Joined(<<i>>, p), m, full, l, key) <=> j = 0 /\ m = 1 /\ OnlyBelow(full, l, key, i)
<1> DEFINE r == Joined(<<i>>, p)
<1>0. <<i>> \in Key(1) /\ <<i>>[1] = i
  BY OneNibble
<1>1. r \in Key(1 + j) /\ r[1] = i
  <2>0. 1 \in Nat /\ j \in Nat /\ 1 \in 1..1
    OBVIOUS
  <2>1. r \in Key(1 + j) /\ \A h \in 1..1: r[h] = <<i>>[h]
    BY <1>0, <2>0, JoinedPath
  <2> QED
    BY <1>0, <2>0, <2>1
<1> HIDE DEF r
<1>2. r \in Key(m) => m = 1 + j
  BY <1>1 DEF Key
<1>3. \A k: Shares(r, k, 0)
  BY DEF Shares
<1>4. \A k: Shares(r, k, 1) <=> k[1] = i
  BY <1>1 DEF Shares
<1>5. CASE j = 0
  <2>1. OnlyBeside(r, 1, full, l, key) <=> OnlyBelow(full, l, key, i)
    <3>1. r \in Key(1) /\ 1 \in 1..l /\ 1 - 1 = 0
      BY <1>1, <1>5
    <3>2. \A k: Shares(r, k, 1 - 1)
      BY <1>3, <3>1
    <3> QED
      BY <1>4, <3>1, <3>2 DEF OnlyBeside, OnlyBelow
  <2>2. OnlyBeside(r, m, full, l, key) => m = 1
    BY <1>2, <1>5 DEF OnlyBeside
  <2> QED
    BY <1>5, <2>1, <2>2 DEF r
<1>6. CASE j # 0
  <2>1. ASSUME OnlyBeside(r, m, full, l, key) PROVE FALSE
    <3>1. m = 1 + j /\ Shares(r, key, m - 1)
      BY <1>2, <2>1 DEF OnlyBeside
    <3>2. 1 \in 1..(m - 1)
      BY <1>6, <3>1
    <3>3. r[1] = key[1]
      BY <3>1, <3>2 DEF Shares
    <3> QED
      BY <1>1, <1>6, <3>3
  <2> QED
    BY <1>6, <2>1 DEF r
<1> QED
  BY <1>5, <1>6

\* A key is its first nibble and the rest.
LEMMA SameFirst ==
  ASSUME NEW l \in Nat, l > 0, NEW j \in Key(l), NEW k \in Key(l), j[1] = k[1], Drop(j, 1) = Drop(k, 1)
  PROVE  j = k
<1> DEFINE first == <<k[1]>>
<1>1. k[1] \in Nibble
  BY DEF Key
<1>2. first \in Key(1) /\ first[1] = k[1]
  BY <1>1, OneNibble
<1> HIDE DEF first
<1>3. 1 \in Nat /\ l - 1 \in Nat /\ 1 + (l - 1) = l /\ 1 \in 0..l /\ 1 <= l /\ \A i \in 1..1: i = 1
  OBVIOUS
<1>4. IsPrefix(first, k) /\ IsPrefix(first, j)
  BY <1>2, <1>3, PrefixNibbles
<1>5. Drop(k, 1) \in Key(l - 1)
  BY <1>3, DropKey
<1>6. Joined(first, Drop(k, 1)) = k /\ Joined(first, Drop(k, 1)) = j
  BY <1>2, <1>3, <1>4, <1>5, JoinedPrefix
<1> QED
  BY <1>6

\* The removal of the key leaves a digest alone below a branch where all other keys lead
\* to the digest.
LEMMA LastOfBranch ==
  ASSUME NEW l \in Nat, NEW node, NEW full, NEW atop, NEW nibs, NEW children, NEW parts, NEW cache,
         BranchStands(node, full, l, atop, nibs, children, parts, cache),
         NEW key \in Key(l), NEW nib, nib = key[1], nib \in nibs, NEW rest, rest = Drop(key, 1),
         NodeGet(children[nib], rest) \notin {Panic, NoValue}
  PROVE  children[nib].t = "leaf" /\ OnlyDigest(nibs \ {nib}, children) <=>
           \E i \in nibs \ {nib}: children[i].t = "digest" /\ OnlyBelow(full, l, key, i)
<1>1. /\ IsBranch(full, l, nibs, parts, NoCache)
      /\ \A i \in nibs: Stands(children[i], parts[i], l - 1, FALSE)
      /\ l > 0 /\ l - 1 \in Nat /\ 1 \in 0..l
  <2>1. /\ IsBranch(full, l, nibs, parts, NoCache)
        /\ \A i \in nibs: Stands(children[i], parts[i], l - 1, FALSE)
        /\ l > 0
    BY BranchParts
  <2>2. l > 0 => l - 1 \in Nat /\ 1 \in 0..l
    OBVIOUS
  <2> QED
    BY <2>1, <2>2
<1>2. rest \in Key(l - 1)
  BY <1>1, DropKey
<1>3. /\ NodeGet(children[nib], rest) # Panic
      /\ NodeGet(parts[nib], rest) # NoValue
      /\ Stands(children[nib], parts[nib], l - 1, FALSE)
  <2>1. Stands(children[nib], parts[nib], l - 1, FALSE)
    BY <1>1
  <2>2. NodeGet(children[nib], rest) \in {Panic, NodeGet(parts[nib], rest)}
    BY <1>2, <2>1, GetOfStandIn
  <2> QED
    BY <2>1, <2>2
<1>4. \A i \in nibs: Shape(parts[i], l - 1) /\ Resolved(parts[i], l - 1)
  BY <1>1, StandsShape, FullResolved
<1>5. ASSUME children[nib].t = "leaf", NEW i, nibs \ {nib} = {i}, children[i].t = "digest"
      PROVE  OnlyBelow(full, l, key, i)
  <2>1. ASSUME NEW k \in Key(l), k # key, NodeGet(full, k) # NoValue PROVE k[1] = i
    <3>1. k[1] \in nibs
      BY <1>1, <2>1, AtBranch
    <3>2. ASSUME k[1] = nib PROVE FALSE
      <4>1. NodeGet(parts[nib], Drop(k, 1)) # NoValue
        BY <1>1, <2>1, <3>2, AtBranch
      <4>2. parts[nib].t = "leaf"
        <5>1. children[nib].t \in {"digest", parts[nib].t}
          BY <1>3, StandsShape
        <5> QED
          BY <1>5, <5>1
      <4>3. parts[nib].path = Drop(k, 1) /\ parts[nib].path = rest
        BY <1>3, <4>1, <4>2, AtEnd
      <4> QED
        BY <1>1, <2>1, <3>2, <4>3, SameFirst
    <3> QED
      BY <1>5, <3>1, <3>2
  <2> QED
    BY <2>1 DEF OnlyBelow
<1>6. ASSUME NEW i \in nibs \ {nib}, children[i].t = "digest", OnlyBelow(full, l, key, i)
      PROVE  children[nib].t = "leaf" /\ OnlyDigest(nibs \ {nib}, children)
  <2>1. ASSUME NEW j \in nibs, j # nib PROVE j = i
    <3>1. PICK r \in Key(l - 1): NodeGet(parts[j], r) # NoValue
      BY <1>1, <1>4, SomeKey
    <3>2. PICK k \in Key(l): k[1] = j /\ NodeGet(full, k) = NodeGet(parts[j], r)
      BY <1>1, ReachBranch
    <3> QED
      BY <1>6, <2>1, <3>1, <3>2 DEF OnlyBelow
  <2>2. nibs \ {nib} = {i}
    BY <2>1
  <2>3. ASSUME NEW r \in Key(l - 1), r # rest, NodeGet(parts[nib], r) # NoValue PROVE FALSE
    <3>1. PICK k \in Key(l): k[1] = nib /\ Drop(k, 1) = r /\ NodeGet(full, k) = NodeGet(parts[nib], r)
      BY <1>1, ReachBranch
    <3>2. k # key
      BY <2>3, <3>1
    <3> QED
      BY <1>6, <2>3, <3>1, <3>2 DEF OnlyBelow
  <2>4. PICK c \in 0..(l - 1):
           /\ IsPoint(parts[nib], l - 1, c)
           /\ parts[nib].t = "leaf" \/ c < l - 1
    BY <1>1, <1>4, PointOfTrie
  <2>5. parts[nib].t = "leaf"
    <3>1. ASSUME c < l - 1 PROVE FALSE
      <4>1. PICK j \in Key(l - 1), k \in Key(l - 1):
              NodeGet(parts[nib], j) # NoValue /\ NodeGet(parts[nib], k) # NoValue /\ j[c + 1] # k[c + 1]
        BY <2>4, <3>1 DEF IsPoint
      <4>2. j = rest /\ k = rest
        BY <2>3, <4>1
      <4> QED
        BY <4>1, <4>2
    <3> QED
      BY <2>4, <3>1
  <2>6. children[nib].t \in {"digest", "leaf"}
    BY <1>3, <2>5, StandsShape
  <2>7. children[nib].t # "digest"
    BY <1>3, AtEnd
  <2> QED
    BY <1>6, <2>2, <2>6, <2>7 DEF OnlyDigest
<1> QED
  BY <1>5, <1>6 DEF OnlyDigest

\* The key of a trie whose removal leaves a digest alone.
Bereaves(node, full, l, key) == LeavesOrphan(node, key) <=> HasOnlyBeside(node, full, l, key)

\* At an extension it does so if it does so below.
LEMMA OrphanAtExtension ==
  ASSUME NEW l \in Nat, NEW node, NEW full, NEW atop, NEW n, NEW path, NEW child, NEW part, NEW cache,
         ExtensionStands(node, full, l, atop, n, path, child, part, cache), Shape(node, l),
         NEW key \in Key(l), NodeGet(node, key) \notin {Panic, NoValue},
         NEW rest, rest = Drop(key, n), NEW d, d = l - n,
         NodeGet(child, rest) \notin {Panic, NoValue} => Bereaves(child, part, d, rest)
  PROVE  Bereaves(node, full, l, key)
<1> DEFINE at == Place(node, key)
<1>1. /\ IsExtension(node, l, n, path, child, cache) /\ IsExtension(full, l, n, path, part, NoCache)
      /\ Stands(child, part, d, FALSE)
  BY ExtensionParts
<1>2. /\ n \in 1..l /\ path \in Key(n) /\ Shape(child, d) /\ Shape(node, l)
      /\ Len(path) = n /\ node.t = "extension" /\ node.path = path /\ node.child = child
  <2>1. n \in 1..l /\ path \in Key(n) /\ Shape(child, d)
    BY <1>1 DEF IsExtension
  <2>2. Len(path) = n
    BY <2>1 DEF Key
  <2>3. node.t = "extension" /\ node.path = path /\ node.child = child
    BY <1>1 DEF IsExtension, ExtensionNode
  <2> QED
    BY <2>1, <2>2, <2>3
<1>3. IsPrefix(path, key)
  BY <1>1, AtExtension
<1>4. NodeGet(node, key) = NodeGet(child, rest)
  BY <1>1, <1>3, AtExtension
<1>5. Descends(at) /\ Into(at).node = child /\ Into(at).key = rest /\ at.node = node
  BY <1>2, <1>3 DEF Descends, Into, Place
<1>6. LeavesOrphan(node, key) <=> LeavesOrphan(child, rest)
  <2>1. ~Orphaning(at)
    BY <1>2, <1>5 DEF Orphaning
  <2> QED
    BY <1>5, <2>1, OrphanOnTheWay
<1> HIDE DEF at
<1>7. HasPart(full, l, path, n, part)
  BY <1>1, AtExtension DEF HasPart
<1>8. BesideVia(path, child, full, l, key) <=> HasOnlyBeside(child, part, d, rest)
  BY <1>2, <1>3, <1>4, <1>7, BesideThrough
<1>9. \A p: p \in DigestPaths(node) <=> \E q \in DigestPaths(child): p = Joined(path, q)
  BY <1>1, <1>2, DigestPathsAt
<1>10. HasOnlyBeside(node, full, l, key) <=> HasOnlyBeside(child, part, d, rest)
  BY <1>8, <1>9 DEF HasOnlyBeside, BesideVia
<1> QED
  BY <1>4, <1>6, <1>10 DEF Bereaves

\* At a branch it does so below, or leaves nothing but a digest right below the branch.
LEMMA OrphanAtBranch ==
  ASSUME NEW l \in Nat, NEW node, NEW full, NEW atop, NEW nibs, NEW children, NEW parts, NEW cache,
         BranchStands(node, full, l, atop, nibs, children, parts, cache), Shape(node, l),
         NEW key \in Key(l), NodeGet(node, key) \notin {Panic, NoValue},
         NEW nib, nib = key[1], NEW rest, rest = Drop(key, 1), NEW d, d = l - 1,
         NodeGet(children[nib], rest) \notin {Panic, NoValue} =>
           Bereaves(children[nib], parts[nib], d, rest)
  PROVE  Bereaves(node, full, l, key)
<1> DEFINE at == Place(node, key)
           Beside(i) == BesideVia(<<i>>, children[i], full, l, key)
           Alone(i) == children[i].t = "digest" /\ OnlyBelow(full, l, key, i)
<1>1. /\ IsBranch(node, l, nibs, children, cache) /\ IsBranch(full, l, nibs, parts, NoCache)
      /\ \A i \in nibs: Stands(children[i], parts[i], d, FALSE)
      /\ l > 0
  BY BranchParts
<1>2. /\ \A i \in nibs: i \in Nibble /\ Shape(children[i], d)
      /\ node.t = "branch" /\ node.children = children /\ DOMAIN children = nibs
  BY <1>1 DEF IsBranch, BranchNode
<1>d. d \in Nat /\ 1 \in 1..l /\ 1 \in Nat /\ 1 <= l
  BY <1>1
<1>3. nib \in nibs
  BY <1>1, AtBranch
<1>4. NodeGet(node, key) = NodeGet(children[nib], rest)
  BY <1>1, <1>3, AtBranch
<1>5. Bereaves(children[nib], parts[nib], d, rest)
  BY <1>4
<1>6. LeavesOrphan(node, key) <=>
        (children[nib].t = "leaf" /\ OnlyDigest(nibs \ {nib}, children)) \/ LeavesOrphan(children[nib], rest)
  <2>1. key # <<>> /\ Head(key) = nib /\ Tail(key) = rest
    BY <1>1, HeadTail
  <2>2. /\ Descends(at) /\ Into(at).node = children[nib] /\ Into(at).key = rest
        /\ at.node = node /\ Head(at.key) = nib
    BY <1>2, <1>3, <2>1 DEF Descends, Into, Place
  <2>3. Orphaning(at) <=> children[nib].t = "leaf" /\ OnlyDigest(nibs \ {nib}, children)
    BY <1>2, <2>2 DEF Orphaning
  <2> HIDE DEF at
  <2> QED
    BY <2>2, <2>3, OrphanOnTheWay DEF at
<1> HIDE DEF at
<1>7. children[nib].t = "leaf" /\ OnlyDigest(nibs \ {nib}, children) <=> \E i \in nibs \ {nib}: Alone(i)
  BY <1>3, <1>4, LastOfBranch
<1>8. ASSUME NEW i \in nibs, i # nib PROVE Beside(i) <=> Alone(i)
  <2>1. ASSUME NEW p \in DigestPaths(children[i]), NEW m, OnlyBeside(Joined(<<i>>, p), m, full, l, key)
        PROVE  Alone(i)
    <3>1. PICK j \in 0..d: p \in Key(j)
      BY <1>2, <1>d, DigestPathsAreKeys
    <3>2. j = 0 /\ OnlyBelow(full, l, key, i)
      BY <1>1, <1>2, <1>8, <2>1, <3>1, BesideChild
    <3>3. p = <<>>
      BY <3>1, <3>2, NoNibbles
    <3> QED
      BY <1>2, <2>1, <3>2, <3>3, EmptyPath
  <2>2. ASSUME Alone(i) PROVE Beside(i)
    <3>1. <<>> \in DigestPaths(children[i])
      BY <1>2, <2>2, DigestPathsAt
    <3>2. <<>> \in Key(0) /\ 0 \in 0..d /\ 0 \in 0..(l - 1)
      BY <1>d, NoNibbles
    <3>3. OnlyBeside(Joined(<<i>>, <<>>), 1, full, l, key)
      BY <1>1, <1>2, <2>2, <3>2, BesideChild
    <3> QED
      BY <3>1, <3>3 DEF BesideVia
  <2> QED
    BY <2>1, <2>2 DEF BesideVia
<1>9. Beside(nib) <=> HasOnlyBeside(children[nib], parts[nib], d, rest)
  <2> DEFINE first == <<nib>>
  <2>1. first \in Key(1) /\ first[1] = nib
    BY <1>2, <1>3, OneNibble
  <2>2. Beside(nib) <=> BesideVia(first, children[nib], full, l, key)
    OBVIOUS
  <2> HIDE DEF first, Beside
  <2>3. ASSUME NEW k \in Key(l) PROVE IsPrefix(first, k) <=> k[1] = nib
    <3>1. \A i \in 1..1: i = 1
      OBVIOUS
    <3> QED
      BY <1>d, <2>1, <3>1, PrefixNibbles
  <2>4. HasPart(full, l, first, 1, parts[nib])
    <3>1. ASSUME NEW k \in Key(l), k[1] = nib PROVE NodeGet(full, k) = NodeGet(parts[nib], Drop(k, 1))
      BY <1>1, <1>3, <3>1, AtBranch
    <3> QED
      BY <2>3, <3>1 DEF HasPart
  <2> QED
    BY <1>2, <1>3, <1>4, <1>d, <2>1, <2>2, <2>3, <2>4, BesideThrough
<1>10. HasOnlyBeside(node, full, l, key) <=> \E i \in nibs: Beside(i)
  <2>2. \A p: p \in DigestPaths(node) <=> \E i \in nibs: PathIn(p, children, i)
    BY <1>1, DigestPathsAt
  <2>3. \A i \in nibs: (\E p: PathIn(p, children, i) /\ \E m: OnlyBeside(p, m, full, l, key)) <=> Beside(i)
    BY DEF PathIn, BesideVia
  <2> HIDE DEF Beside
  <2> QED
    BY <2>2, <2>3 DEF HasOnlyBeside
<1> HIDE DEF Beside, Alone
<1> QED
  BY <1>3, <1>5, <1>6, <1>7, <1>8, <1>9, <1>10 DEF Bereaves

\* remove panics for the want of a sibling where the trie has nothing else left beside
\* the key: in the code, where the one child that is left is a digest.
LEMMA OrphanIsOnly ==
  ASSUME NEW l, NEW node, NEW full, NEW atop, Stands(node, full, l, atop),
         NEW key \in Key(l), NodeGet(node, key) \notin {Panic, NoValue}
  PROVE  Bereaves(node, full, l, key)
<1> DEFINE S == {m \in Nat: \A x, f, a, k: Stands(x, f, m, a) /\ k \in Key(m) /\ NodeGet(x, k) \notin {Panic, NoValue}
                              => Bereaves(x, f, m, k)}
<1>1. ASSUME NEW m \in Nat, \A j \in 0..(m - 1): j \in S PROVE m \in S
  <2> SUFFICES ASSUME NEW x, NEW f, NEW a, NEW k, Stands(x, f, m, a), k \in Key(m),
                      NodeGet(x, k) \notin {Panic, NoValue}
               PROVE  Bereaves(x, f, m, k)
    OBVIOUS
  <2>b. ASSUME NEW j \in 0..(m - 1), NEW y, NEW g, NEW r, Stands(y, g, j, FALSE), r \in Key(j),
               NodeGet(y, r) \notin {Panic, NoValue}
        PROVE  Bereaves(y, g, j, r)
    <3>1. j \in S
      BY <1>1
    <3> QED
      BY <2>b, <3>1
  <2> HIDE DEF S
  <2>s. Shape(x, m)
    BY StandsShape
  <2>1. CASE x.t = "digest"
    BY <2>1, AtEnd
  <2>2. ASSUME NEW path, NEW value, NEW cache, LeafStands(x, f, m, a, path, value, cache)
        PROVE  Bereaves(x, f, m, k)
    <3>1. x.t = "leaf"
      BY <2>2 DEF LeafStands, LeafNode
    <3>2. DigestPaths(x) = {}
      BY <3>1, StandsShape, DigestPathsAt
    <3>3. ~Descends(Place(x, k))
      BY <3>1 DEF Descends, Place
    <3> QED
      BY <3>2, <3>3, OrphanOnTheWay DEF Bereaves, HasOnlyBeside
  <2>3. ASSUME NEW n, NEW path, NEW child, NEW part, NEW cache,
               ExtensionStands(x, f, m, a, n, path, child, part, cache)
        PROVE  Bereaves(x, f, m, k)
    <3>1. Stands(child, part, m - n, FALSE) /\ m - n \in 0..(m - 1) /\ n \in 1..m
      <4>1. IsExtension(x, m, n, path, child, cache) /\ Stands(child, part, m - n, FALSE) /\ m - n \in 0..(m - 1)
        BY <2>3, ExtensionParts
      <4> QED
        BY <4>1 DEF IsExtension
    <3>2. n \in 0..m
      BY <3>1
    <3>3. Drop(k, n) \in Key(m - n)
      BY <3>2, DropKey
    <3>4. NodeGet(child, Drop(k, n)) \notin {Panic, NoValue} => Bereaves(child, part, m - n, Drop(k, n))
      BY <2>b, <3>1, <3>3
    <3> QED
      BY <2>3, <2>s, <3>4, OrphanAtExtension
  <2>4. ASSUME NEW nibs, NEW children, NEW parts, NEW cache,
               BranchStands(x, f, m, a, nibs, children, parts, cache)
        PROVE  Bereaves(x, f, m, k)
    <3>1. /\ IsBranch(x, m, nibs, children, cache)
          /\ \A i \in nibs: Stands(children[i], parts[i], m - 1, FALSE)
          /\ m > 0 /\ m - 1 \in 0..(m - 1)
      BY <2>4, BranchParts
    <3>2. 1 \in 0..m
      BY <3>1
    <3>3. Drop(k, 1) \in Key(m - 1)
      BY <3>2, DropKey
    <3>4. k[1] \in nibs
      BY <3>1, AtBranch
    <3>5. NodeGet(children[k[1]], Drop(k, 1)) \notin {Panic, NoValue} =>
            Bereaves(children[k[1]], parts[k[1]], m - 1, Drop(k, 1))
      BY <2>b, <3>1, <3>3, <3>4
    <3> QED
      BY <2>4, <2>s, <3>5, OrphanAtBranch
  <2> QED
    BY <2>1, <2>2, <2>3, <2>4, StandsCases
<1> HIDE DEF S
<1>2. \A m \in Nat: m \in S
  BY <1>1, SetInduction
<1>3. l \in S
  BY <1>2, StandsCases
<1> QED
  BY <1>3 DEF S

-----------------------------------------------------------------------------
\* The order of keys, and the cursor over them.

\* Path a is behind where b begins: they part, and a goes on with the smaller nibble.
Past(a, b) == \E x \in 1..Len(a): x <= Len(b) /\ a[x] < b[x] /\ \A i \in 1..(x - 1): a[i] = b[i]

\* Where two keys part, and the first is the smaller.
PartsAt(a, n, b, x) == (x > n \/ a[x] < b[x]) /\ \A i \in 1..(x - 1): i <= n /\ a[i] = b[i]

\* A key is before a path where they part with the lower nibble.
LEMMA LessIs ==
  ASSUME NEW n \in Nat, NEW k \in Key(n), NEW m \in Nat, NEW a \in Key(m)
  PROVE  Less(k, a) <=> \E x \in 1..m: PartsAt(k, n, a, x)
BY DEF Less, Key, PartsAt

\* Nibbles are numbers.
LEMMA NibblesAreNumbers ==
  ASSUME NEW n \in Nat, NEW k \in Key(n)
  PROVE  \A i \in 1..n: k[i] \in Int
<1>1. \A i \in 1..n: k[i] \in Nibble
  BY ElementOfSeq DEF Key
<1> QED
  BY <1>1 DEF Nibble

\* A key is past a path where they part with the higher nibble.
LEMMA PastIs ==
  ASSUME NEW n \in Nat, NEW a \in Key(n), NEW m \in Nat, NEW b \in Key(m)
  PROVE  Past(a, b) <=> \E x \in 1..n: x <= m /\ a[x] < b[x] /\ \A i \in 1..(x - 1): a[i] = b[i]
BY DEF Past, Key

\* No key is less than itself,
LEMMA LessNotSelf ==
  ASSUME NEW n \in Nat, NEW k \in Key(n)
  PROVE  ~Less(k, k)
<1>1. \A x \in 1..n: ~(k[x] < k[x]) /\ ~(x > n)
  BY NibblesAreNumbers
<1> QED
  BY <1>1, LessIs DEF PartsAt

\* and what is less than a lesser one is less.
LEMMA LessTransitive ==
  ASSUME NEW n \in Nat, NEW a \in Key(n), NEW b \in Key(n), NEW c \in Key(n), Less(a, b), Less(b, c)
  PROVE  Less(a, c)
<1>1. PICK x \in 1..n: PartsAt(a, n, b, x)
  BY LessIs
<1>2. PICK y \in 1..n: PartsAt(b, n, c, y)
  BY LessIs
<1>3. \A i \in 1..n: a[i] \in Int /\ b[i] \in Int /\ c[i] \in Int
  BY NibblesAreNumbers
<1>4. a[x] < b[x] /\ \A i \in 1..(x - 1): a[i] = b[i]
  BY <1>1 DEF PartsAt
<1>5. b[y] < c[y] /\ \A i \in 1..(y - 1): b[i] = c[i]
  BY <1>2 DEF PartsAt
<1>6. CASE x < y
  <2>1. a[x] < c[x] /\ \A i \in 1..(x - 1): i <= n /\ a[i] = c[i]
    BY <1>4, <1>5, <1>6
  <2> QED
    BY <2>1, LessIs DEF PartsAt
<1>7. CASE ~(x < y)
  <2>1. a[y] < c[y]
    BY <1>3, <1>4, <1>5, <1>7
  <2>2. \A i \in 1..(y - 1): i <= n /\ a[i] = c[i]
    BY <1>4, <1>5, <1>7
  <2> QED
    BY <2>1, <2>2, LessIs DEF PartsAt
<1> QED
  BY <1>6, <1>7

\* A key that is less than a path is less than every longer one,
LEMMA LessJoined ==
  ASSUME NEW n \in Nat, NEW k \in Key(n), NEW m \in Nat, NEW a \in Key(m), NEW j \in Nat, NEW r \in Key(j), Less(k, a)
  PROVE  Less(k, Joined(a, r))
<1>1. PICK x \in 1..m: PartsAt(k, n, a, x)
  BY LessIs
<1>2. Joined(a, r) \in Key(m + j) /\ \A i \in 1..m: Joined(a, r)[i] = a[i]
  BY JoinedPath
<1>3. PartsAt(k, n, Joined(a, r), x)
  BY <1>1, <1>2 DEF PartsAt
<1>4. m + j \in Nat /\ x \in 1..(m + j)
  OBVIOUS
<1> QED
  BY <1>2, <1>3, <1>4, LessIs

\* and than every one that the path is behind of.
LEMMA PastLess ==
  ASSUME NEW n \in Nat, NEW k \in Key(n), NEW m \in Nat, NEW a \in Key(m), NEW j \in Nat, NEW b \in Key(j),
         Past(a, b), Less(k, a)
  PROVE  Less(k, b)
<1>1. PICK y \in 1..m: PartsAt(k, n, a, y)
  BY LessIs
<1>2. PICK x \in 1..m: x <= j /\ a[x] < b[x] /\ \A i \in 1..(x - 1): a[i] = b[i]
  BY PastIs
<1>3. (\A i \in 1..n: k[i] \in Int) /\ (\A i \in 1..m: a[i] \in Int) /\ (\A i \in 1..j: b[i] \in Int)
  BY NibblesAreNumbers
<1>4. (y > n \/ k[y] < a[y]) /\ \A i \in 1..(y - 1): i <= n /\ k[i] = a[i]
  BY <1>1 DEF PartsAt
<1>5. CASE y <= x
  <2>1. y > n \/ k[y] < b[y]
    <3>1. a[y] <= b[y]
      BY <1>2, <1>3, <1>5
    <3> QED
      BY <1>3, <1>4, <1>5, <1>2, <3>1
  <2>2. \A i \in 1..(y - 1): i <= n /\ k[i] = b[i]
    BY <1>2, <1>4, <1>5
  <2>3. y \in 1..j
    BY <1>2, <1>5
  <2> QED
    BY <2>1, <2>2, <2>3, LessIs DEF PartsAt
<1>6. CASE ~(y <= x)
  <2>1. x <= n /\ k[x] < b[x]
    BY <1>2, <1>4, <1>6
  <2>2. \A i \in 1..(x - 1): i <= n /\ k[i] = b[i]
    BY <1>2, <1>4, <1>6
  <2>3. x \in 1..j
    BY <1>2
  <2> QED
    BY <2>1, <2>2, <2>3, LessIs DEF PartsAt
<1> QED
  BY <1>5, <1>6

\* What a path is behind of, what is below the path is, too;
LEMMA PastJoined ==
  ASSUME NEW m \in Nat, NEW a \in Key(m), NEW j \in Nat, NEW b \in Key(j), Past(a, b), NEW n \in Nat, NEW r \in Key(n)
  PROVE  Past(Joined(a, r), b)
<1>1. PICK x \in 1..m: x <= j /\ a[x] < b[x] /\ \A i \in 1..(x - 1): a[i] = b[i]
  BY PastIs
<1>2. Joined(a, r) \in Key(m + n) /\ \A i \in 1..m: Joined(a, r)[i] = a[i]
  BY JoinedPath
<1>3. m + n \in Nat /\ x \in 1..(m + n)
  OBVIOUS
<1>4. Joined(a, r)[x] < b[x] /\ \A i \in 1..(x - 1): Joined(a, r)[i] = b[i]
  BY <1>1, <1>2
<1> QED
  BY <1>1, <1>2, <1>3, <1>4, PastIs

\* and a child of a branch is behind the children that follow it.
LEMMA PastSibling ==
  ASSUME NEW m \in Nat, NEW path \in Key(m), NEW i \in Nibble, NEW j \in Nibble, i < j
  PROVE  Past(Joined(path, <<i>>), Joined(path, <<j>>))
<1>1. ASSUME NEW c \in Nibble
      PROVE  /\ Joined(path, <<c>>) \in Key(m + 1) /\ (\A k \in 1..m: Joined(path, <<c>>)[k] = path[k])
             /\ Joined(path, <<c>>)[m + 1] = c
  <2> DEFINE one == <<c>>
  <2>1. one \in Key(1) /\ one[1] = c /\ 1 \in Nat /\ 1 \in 1..1
    BY OneNibble
  <2> HIDE DEF one
  <2>2. /\ Joined(path, one) \in Key(m + 1) /\ (\A k \in 1..m: Joined(path, one)[k] = path[k])
        /\ \A k \in 1..1: Joined(path, one)[m + k] = one[k]
    BY <2>1, JoinedPath
  <2>3. Joined(path, one)[m + 1] = c
    BY <2>1, <2>2
  <2> QED
    BY <2>2, <2>3 DEF one
<1> DEFINE a == Joined(path, <<i>>)
           b == Joined(path, <<j>>)
<1>2. /\ a \in Key(m + 1) /\ (\A k \in 1..m: a[k] = path[k])
      /\ b \in Key(m + 1) /\ (\A k \in 1..m: b[k] = path[k])
  BY <1>1
<1>3. a[m + 1] = i /\ b[m + 1] = j
  BY <1>1
<1> HIDE DEF a, b
<1>4. m + 1 \in Nat /\ m + 1 \in 1..(m + 1) /\ m + 1 <= m + 1 /\ (m + 1) - 1 = m
  OBVIOUS
<1>5. a[m + 1] < b[m + 1] /\ \A k \in 1..((m + 1) - 1): a[k] = b[k]
  BY <1>2, <1>3, <1>4
<1> QED
  BY <1>2, <1>4, <1>5, PastIs DEF a, b

\* One of some keys is the least.
LEMMA LeastKey ==
  ASSUME NEW n \in Nat, NEW keys \in SUBSET Key(n), IsFiniteSet(keys), keys # {}
  PROVE  \E k \in keys: \A other \in keys: ~Less(other, k)
<1> DEFINE HasLeast(T) == \E k \in T: \A other \in T: ~Less(other, k)
           S == {c \in Nat: \A T \in SUBSET Key(n): IsFiniteSet(T) /\ Cardinality(T) = c /\ T # {} => HasLeast(T)}
<1>1. 0 \in S
  <2>1. \A T: IsFiniteSet(T) /\ Cardinality(T) = 0 => T = {}
    BY FS_EmptySet
  <2> QED
    BY <2>1
<1>2. ASSUME NEW c \in Nat, c \in S PROVE c + 1 \in S
  <2> SUFFICES ASSUME NEW T \in SUBSET Key(n), IsFiniteSet(T), Cardinality(T) = c + 1, T # {}
               PROVE  HasLeast(T)
    OBVIOUS
  <2>1. PICK x \in T: TRUE
    OBVIOUS
  <2>2. IsFiniteSet(T \ {x}) /\ Cardinality(T \ {x}) = c
    <3>1. IsFiniteSet(T \ {x}) /\ Cardinality(T \ {x}) = Cardinality(T) - 1
      BY FS_RemoveElement
    <3> QED
      BY <3>1
  <2>3. T \ {x} # {} => HasLeast(T \ {x})
    BY <1>2, <2>2
  <2> HIDE DEF S
  <2>4. x \in Key(n) /\ ~Less(x, x)
    BY LessNotSelf
  <2>5. CASE T \ {x} = {}
    <3>1. \A other \in T: other = x
      BY <2>5
    <3> QED
      BY <2>4, <3>1
  <2>6. ASSUME NEW k \in T \ {x}, \A other \in T \ {x}: ~Less(other, k)
        PROVE  HasLeast(T)
    <3>1. CASE ~Less(x, k)
      <4>1. \A other \in T: ~Less(other, k)
        BY <2>6, <3>1
      <4> QED
        BY <4>1
    <3>2. CASE Less(x, k)
      <4>1. ASSUME NEW other \in T \ {x} PROVE ~Less(other, x)
        <5>1. other \in Key(n) /\ k \in Key(n) /\ ~Less(other, k)
          BY <2>6
        <5> QED
          BY <2>4, <3>2, <5>1, LessTransitive
      <4>2. \A other \in T: ~Less(other, x)
        BY <2>4, <4>1
      <4> QED
        BY <4>2
    <3> QED
      BY <3>1, <3>2
  <2> QED
    BY <2>3, <2>5, <2>6
<1> HIDE DEF S
<1>3. \A c \in Nat: c \in S
  BY <1>1, <1>2, StepInduction
<1>4. Cardinality(keys) \in Nat
  BY FS_CardinalityType
<1>5. HasLeast(keys)
  BY <1>3, <1>4 DEF S
<1> QED
  BY <1>5

\* What a path is a prefix of is not less.
LEMMA PrefixNotLess ==
  ASSUME NEW n \in Nat, NEW k \in Key(n), NEW m \in Nat, NEW path \in Key(m), IsPrefix(path, k)
  PROVE  ~Less(k, path)
<1>1. m <= n /\ \A i \in 1..m: path[i] = k[i]
  BY PrefixNibbles
<1>2. \A i \in 1..m: ~(i > n) /\ ~(k[i] < path[i])
  BY <1>1, NibblesAreNumbers
<1> QED
  BY <1>2, LessIs DEF PartsAt

\* A key between a path and a key below it is below it.
LEMMA Between ==
  ASSUME NEW n \in Nat, NEW k \in Key(n), NEW f \in Key(n), NEW m \in Nat, NEW path \in Key(m),
         IsPrefix(path, k), ~Less(f, path), ~Less(k, f)
  PROVE  IsPrefix(path, f)
<1>1. m <= n /\ \A i \in 1..m: path[i] = k[i]
  BY PrefixNibbles
<1> DEFINE D == {i \in 1..m: path[i] # f[i]}
<1>2. CASE D = {}
  <2>1. \A i \in 1..m: path[i] = f[i]
    BY <1>2
  <2> QED
    BY <1>1, <2>1, PrefixNibbles
<1>3. CASE D # {}
  <2>1. PICK x \in D: \A i \in D: x <= i
    <3>1. D \in SUBSET Nat
      OBVIOUS
    <3> HIDE DEF D
    <3> QED
      BY <1>3, <3>1, LeastNumber
  <2>2. x \in 1..m /\ path[x] # f[x] /\ \A i \in 1..(x - 1): path[i] = f[i]
    BY <2>1
  <2> HIDE DEF D
  <2>3. x \in 1..n /\ path[x] \in Int /\ f[x] \in Int /\ k[x] = path[x]
    BY <1>1, <2>2, NibblesAreNumbers
  <2>4. CASE f[x] < path[x]
    <3>1. PartsAt(f, n, path, x)
      BY <1>1, <2>2, <2>4 DEF PartsAt
    <3> QED
      BY <2>2, <3>1, LessIs
  <2>5. CASE path[x] < f[x]
    <3>1. k[x] < f[x] /\ \A i \in 1..(x - 1): i <= n /\ k[i] = f[i]
      BY <1>1, <2>2, <2>3, <2>5
    <3>2. PartsAt(k, n, f, x)
      BY <3>1 DEF PartsAt
    <3> QED
      BY <2>3, <3>2, LessIs
  <2> QED
    BY <2>2, <2>3, <2>4, <2>5
<1> QED
  BY <1>2, <1>3

\* What is joined to a joined path.
LEMMA JoinedTwice ==
  ASSUME NEW n \in Nat, NEW p \in Key(n), NEW m \in Nat, NEW q \in Key(m), NEW j \in Nat, NEW r \in Key(j)
  PROVE  /\ Joined(Joined(p, q), r) = Joined(p, Joined(q, r))
         /\ Joined(p, <<>>) = p
<1> HIDE DEF Nibble
<1>1. p \in Seq(Nibble) /\ q \in Seq(Nibble) /\ r \in Seq(Nibble)
  BY DEF Key
<1> QED
  BY <1>1, ConcatAssociative, ConcatEmptySeq DEF Joined

\* A path with one nibble more.
LEMMA AppendJoins ==
  ASSUME NEW n \in Nat, NEW p \in Key(n), NEW i \in Nibble
  PROVE  Append(p, i) = Joined(p, <<i>>)
<1> HIDE DEF Nibble
<1>1. p \in Seq(Nibble)
  BY DEF Key
<1> QED
  BY <1>1, AppendIsConcat DEF Joined

\* One of the keys is below a path.
Wanted(path, keys) == \E k \in keys: IsPrefix(path, k)

\* So one is below each beginning of the path.
LEMMA WantedAbove ==
  ASSUME NEW n \in Nat, NEW keys \in SUBSET Key(n), NEW m \in Nat, NEW path \in Key(m), NEW j \in Nat, NEW r \in Key(j),
         Wanted(Joined(path, r), keys)
  PROVE  Wanted(path, keys)
BY JoinedPrefix DEF Wanted

\* A key is below each of its beginnings.
LEMMA KeyIsWanted ==
  ASSUME NEW n \in Nat, NEW keys \in SUBSET Key(n), NEW m \in Nat, NEW path \in Key(m), NEW j \in Nat, NEW r \in Key(j),
         Joined(path, r) \in keys
  PROVE  Wanted(path, keys)
<1> DEFINE k == Joined(path, r)
<1>1. k \in keys /\ k \in Key(n)
  OBVIOUS
<1>2. Joined(path, r) = k
  OBVIOUS
<1> HIDE DEF k
<1>3. IsPrefix(path, k)
  BY <1>1, <1>2, JoinedPrefix
<1> QED
  BY <1>1, <1>3 DEF Wanted

\* A cursor that has been at a path, or below it: it has the keys of whatever the path is behind of.
HasWhatFollows(cursor, path, keys) == \A m \in Nat: \A q \in Key(m): Past(path, q) => Seek(keys, q) \subseteq cursor
\* The cursor has the keys that follow the path, and others of these keys.
Reached(cursor, path, keys) == cursor \in SUBSET keys /\ HasWhatFollows(cursor, path, keys)

\* A cursor that has the keys from a path on may be any.
LEMMA SeekAgain ==
  ASSUME NEW keys, NEW path, NEW cursor \in SUBSET keys, Seek(keys, path) \subseteq cursor
  PROVE  Seek(cursor, path) = Seek(keys, path)
BY DEF Seek

\* A key below a path is found by looking at the first one.
LEMMA PeekIs ==
  ASSUME NEW n \in Nat, NEW keys \in SUBSET Key(n), IsFiniteSet(keys), NEW m \in Nat, NEW path \in Key(m)
  PROVE  PeekWithPrefix(Seek(keys, path), path) <=> Wanted(path, keys)
<1> DEFINE rest == Seek(keys, path)
<1>1. rest \in SUBSET keys /\ \A k \in keys: k \in rest <=> ~Less(k, path)
  BY DEF Seek
<1> HIDE DEF rest
<1>2. ASSUME PeekWithPrefix(rest, path) PROVE Wanted(path, keys)
  BY <1>1, <1>2 DEF PeekWithPrefix, Wanted
<1>3. ASSUME NEW k \in keys, IsPrefix(path, k) PROVE PeekWithPrefix(rest, path)
  <2>1. k \in rest
    BY <1>1, <1>3, PrefixNotLess
  <2>2. IsFiniteSet(rest) /\ rest \in SUBSET Key(n) /\ rest # {}
    BY <1>1, <2>1, FS_Subset
  <2>3. PICK f \in rest: \A other \in rest: ~Less(other, f)
    BY <2>2, LeastKey
  <2>4. f \in Key(n) /\ ~Less(f, path) /\ ~Less(k, f)
    BY <1>1, <2>1, <2>2, <2>3
  <2>5. IsPrefix(path, f)
    BY <1>3, <2>4, Between
  <2> QED
    BY <2>3, <2>5 DEF PeekWithPrefix
<1> QED
  BY <1>2, <1>3 DEF Wanted, rest

\* A cursor that seeks a path has been there,
LEMMA SeekReached ==
  ASSUME NEW n \in Nat, NEW keys \in SUBSET Key(n), NEW m \in Nat, NEW path \in Key(m)
  PROVE  Reached(Seek(keys, path), path, keys)
<1>1. ASSUME NEW j \in Nat, NEW q \in Key(j), Past(path, q), NEW k \in Seek(keys, q)
      PROVE  k \in Seek(keys, path)
  <2>1. k \in keys /\ k \in Key(n) /\ ~Less(k, q)
    BY DEF Seek
  <2>2. ~Less(k, path)
    BY <1>1, <2>1, PastLess
  <2> QED
    BY <2>1, <2>2 DEF Seek
<1>2. HasWhatFollows(Seek(keys, path), path, keys)
  BY <1>1 DEF HasWhatFollows
<1>3. Seek(keys, path) \in SUBSET keys
  BY DEF Seek
<1> QED
  BY <1>2, <1>3 DEF Reached

\* has the keys of what is below it,
LEMMA SeekBelow ==
  ASSUME NEW n \in Nat, NEW keys \in SUBSET Key(n), NEW m \in Nat, NEW path \in Key(m), NEW j \in Nat, NEW r \in Key(j)
  PROVE  Seek(keys, Joined(path, r)) \subseteq Seek(keys, path)
<1>1. ASSUME NEW k \in keys, ~Less(k, Joined(path, r)) PROVE ~Less(k, path)
  BY <1>1, LessJoined
<1> QED
  BY <1>1 DEF Seek

\* and a cursor that has been below a path has been at the path.
LEMMA ReachedAbove ==
  ASSUME NEW m \in Nat, NEW path \in Key(m), NEW j \in Nat, NEW r \in Key(j), NEW cursor, NEW keys,
         Reached(cursor, Joined(path, r), keys)
  PROVE  Reached(cursor, path, keys)
<1>1. ASSUME NEW i \in Nat, NEW q \in Key(i), Past(path, q) PROVE Seek(keys, q) \subseteq cursor
  <2>1. Past(Joined(path, r), q)
    BY <1>1, PastJoined
  <2> QED
    BY <2>1 DEF Reached, HasWhatFollows
<1> QED
  BY <1>1 DEF Reached, HasWhatFollows

\* Nothing is less than no nibbles.
LEMMA SeekAll ==
  ASSUME NEW n \in Nat, NEW keys \in SUBSET Key(n)
  PROVE  Seek(keys, <<>>) = keys
<1>1. ASSUME NEW k \in keys PROVE ~Less(k, <<>>)
  <2>1. k \in Key(n) /\ <<>> \in Key(0) /\ 0 \in Nat /\ 1..0 = {}
    BY NoNibbles
  <2> QED
    BY <2>1, LessIs
<1> QED
  BY <1>1 DEF Seek

-----------------------------------------------------------------------------
\* Where the nodes are.

\* The path p leads to a node below child i of a branch.
NodeIn(p, children, i) == \E q \in NodePaths(children[i]): p = Joined(<<i>>, q)

\* The paths to the nodes of a trie, by its kind.
LEMMA NodePathsAt ==
  ASSUME NEW node, NEW l, Shape(node, l)
  PROVE  /\ node.t = "digest" => NodePaths(node) = {}
         /\ node.t = "leaf" => NodePaths(node) = {<<>>}
         /\ \A n, path, child, cache: IsExtension(node, l, n, path, child, cache) =>
              \A p: p \in NodePaths(node) <=> p = <<>> \/ \E q \in NodePaths(child): p = Joined(path, q)
         /\ \A nibs, children, cache: IsBranch(node, l, nibs, children, cache) =>
              \A p: p \in NodePaths(node) <=> p = <<>> \/ \E i \in nibs: NodeIn(p, children, i)
<1> DEFINE op == NodePathsOp
           below == [i \in DOMAIN ChildrenOf(node) |-> Fold(op, ChildrenOf(node)[i])]
<1>0. DescendsOp(op) /\ \A x, b: MadeAt(op, x, b) = NodePathsFrom(x, b)
  BY DEF DescendsOp, MadeAt, NodePathsOp
<1> HIDE DEF op
<1>1. Fold(op, node) = NodePathsFrom(node, below)
  BY <1>0, FoldDescends
<1>2. \A x: NodePaths(x) = Fold(op, x)
  BY NodePathsIsFold DEF op
<1>3. CASE node.t = "digest"
  <2>1. ~HasCache(node)
    BY <1>3 DEF HasCache
  <2>2. NodePathsFrom(node, below) = {}
    BY <2>1 DEF NodePathsFrom
  <2> QED
    BY <1>1, <1>2, <1>3, <2>2 DEF IsExtension, ExtensionNode, IsBranch, BranchNode
<1>4. CASE node.t = "leaf"
  <2>1. below = <<>>
    BY <1>4, ChildrenOfKinds
  <2> HIDE DEF below
  <2>2. NodePathsFrom(node, below) = {<<>>}
    BY <1>4, <2>1 DEF NodePathsFrom, PathsFrom, HasCache
  <2> QED
    BY <1>1, <1>2, <1>4, <2>2 DEF IsExtension, ExtensionNode, IsBranch, BranchNode
<1>5. ASSUME NEW n, NEW path, NEW child, NEW cache, IsExtension(node, l, n, path, child, cache)
      PROVE  \A p: p \in NodePaths(node) <=> p = <<>> \/ \E q \in NodePaths(child): p = Joined(path, q)
  <2>1. node = ExtensionNode(path, child, cache)
    BY <1>5 DEF IsExtension
  <2>2. ChildrenOf(node) = <<child>>
    BY <2>1, ChildrenOfKinds
  <2>3. below[1] = NodePaths(child)
    BY <1>2, <2>2
  <2>4. node.t = "extension" /\ node.path = path
    BY <2>1 DEF ExtensionNode
  <2> HIDE DEF below
  <2>5. PathsFrom(node, below) = {path \o q: q \in NodePaths(child)}
    BY <2>3, <2>4 DEF PathsFrom
  <2>6. NodePaths(node) = {<<>>} \cup PathsFrom(node, below)
    BY <1>1, <1>2, <2>4 DEF NodePathsFrom, HasCache
  <2> QED
    BY <2>5, <2>6 DEF Joined
<1>6. ASSUME NEW nibs, NEW children, NEW cache, IsBranch(node, l, nibs, children, cache)
      PROVE  \A p: p \in NodePaths(node) <=> p = <<>> \/ \E i \in nibs: NodeIn(p, children, i)
  <2>1. node = BranchNode(children, cache) /\ DOMAIN children = nibs
    BY <1>6 DEF IsBranch
  <2>2. ChildrenOf(node) = children
    BY <2>1, ChildrenOfKinds
  <2>3. DOMAIN below = nibs /\ \A i \in nibs: below[i] = NodePaths(children[i])
    BY <1>2, <2>1, <2>2
  <2>4. node.t = "branch"
    BY <2>1 DEF BranchNode
  <2> HIDE DEF below
  <2>5. PathsFrom(node, below) = UNION {{<<i>> \o q: q \in below[i]}: i \in DOMAIN below}
    BY <2>4 DEF PathsFrom
  <2>6. ASSUME NEW i \in nibs, NEW p
        PROVE  p \in {<<i>> \o q: q \in below[i]} <=> NodeIn(p, children, i)
    BY <2>3 DEF Joined, NodeIn
  <2> DEFINE In(i) == {<<i>> \o q: q \in below[i]}
  <2>7. \A i \in nibs: \A p: p \in In(i) <=> NodeIn(p, children, i)
    BY <2>6
  <2>8. PathsFrom(node, below) = UNION {In(i): i \in DOMAIN below}
    BY <2>5
  <2> HIDE DEF In
  <2>9. NodePaths(node) = {<<>>} \cup PathsFrom(node, below)
    BY <1>1, <1>2, <2>4 DEF NodePathsFrom, HasCache
  <2> QED
    BY <2>3, <2>7, <2>8, <2>9
<1> QED
  BY <1>3, <1>4, <1>5, <1>6

\* They are paths, no longer than a key.
LEMMA NodePathsAreKeys ==
  \A l \in Nat: \A node: Shape(node, l) => \A p \in NodePaths(node): \E m \in 0..l: p \in Key(m)
<1> DEFINE S == {l \in Nat: \A node: Shape(node, l) => \A p \in NodePaths(node): \E m \in 0..l: p \in Key(m)}
<1>1. ASSUME NEW l \in Nat, \A m \in 0..(l - 1): m \in S PROVE l \in S
  <2>b. ASSUME NEW k \in 0..(l - 1), NEW n, Shape(n, k), NEW p \in NodePaths(n)
        PROVE  \E m \in 0..k: p \in Key(m)
    <3>1. k \in S
      BY <1>1
    <3> QED
      BY <2>b, <3>1
  <2> HIDE DEF S
  <2>e. \E m \in 0..l: <<>> \in Key(m)
    <3>1. 0 \in 0..l
      OBVIOUS
    <3> QED
      BY <3>1, NoNibbles
  <2>1. ASSUME NEW node, Shape(node, l), NEW p \in NodePaths(node)
        PROVE  \E m \in 0..l: p \in Key(m)
    <3>1. CASE node.t = "digest"
      BY <2>1, <3>1, NodePathsAt
    <3>2. CASE node.t = "leaf"
      <4>1. p = <<>>
        BY <2>1, <3>2, NodePathsAt
      <4> QED
        BY <2>e, <4>1
    <3>3. ASSUME NEW n, NEW path, NEW child, NEW cache, IsExtension(node, l, n, path, child, cache), p # <<>>
          PROVE  \E m \in 0..l: p \in Key(m)
      <4>1. PICK q \in NodePaths(child): p = Joined(path, q)
        BY <2>1, <3>3, NodePathsAt
      <4>2. n \in 1..l /\ path \in Key(n) /\ Shape(child, l - n)
        BY <3>3 DEF IsExtension
      <4>3. l - n \in 0..(l - 1)
        BY <4>2
      <4>4. PICK m \in 0..(l - n): q \in Key(m)
        BY <2>b, <4>2, <4>3
      <4>5. n \in Nat /\ m \in Nat /\ n + m \in 0..l
        BY <4>2
      <4>6. p \in Key(n + m)
        BY <4>1, <4>2, <4>4, <4>5, JoinedPath
      <4> QED
        BY <4>5, <4>6
    <3>4. ASSUME NEW nibs, NEW children, NEW cache, IsBranch(node, l, nibs, children, cache), p # <<>>
          PROVE  \E m \in 0..l: p \in Key(m)
      <4>1. PICK i \in nibs: NodeIn(p, children, i)
        BY <2>1, <3>4, NodePathsAt
      <4>2. PICK q \in NodePaths(children[i]): p = Joined(<<i>>, q)
        BY <4>1 DEF NodeIn
      <4>3. l > 0 /\ i \in Nibble /\ Shape(children[i], l - 1)
        BY <3>4 DEF IsBranch
      <4>4. l - 1 \in 0..(l - 1)
        BY <4>3
      <4>5. PICK m \in 0..(l - 1): q \in Key(m)
        BY <2>b, <4>3, <4>4
      <4>6. <<i>> \in Key(1) /\ m \in Nat /\ 1 + m \in 0..l
        BY <4>3, OneNibble
      <4>7. p \in Key(1 + m)
        BY <4>2, <4>5, <4>6, JoinedPath
      <4> QED
        BY <4>6, <4>7
    <3> QED
      BY <2>1, <2>e, <3>1, <3>2, <3>3, <3>4, ShapeCases DEF IsLeaf, LeafNode
  <2> QED
    BY <2>1 DEF S
<1> HIDE DEF S
<1>2. \A l \in Nat: l \in S
  BY <1>1, SetInduction
<1> QED
  BY <1>2 DEF S

\* What is left of a node, found on a path, when it is pruned to some keys: the
\* nodes on the ways of the keys, and what the keys get.
KeepsNodes(new, node, path, keys) ==
  \A p: p \in NodePaths(new) <=> p \in NodePaths(node) /\ Wanted(Joined(path, p), keys)
\* What pruning keeps: the values of the keys.
KeepsKeys(new, node, l, path, keys) ==
  \A k \in Key(l): Joined(path, k) \in keys => NodeGet(new, k) = NodeGet(node, k)
PrunedTo(new, node, l, path, keys) ==
  /\ Shape(new, l) /\ new.t \in {"digest", node.t}
  /\ KeepsNodes(new, node, path, keys) /\ KeepsKeys(new, node, l, path, keys)

\* The hash of a node is a digest.
LEMMA HashIsDigest ==
  ASSUME NEW node, NEW l, Shape(node, l)
  PROVE  Hash(node).t = "digest"
<1>1. node.t \in {"digest", "leaf", "extension", "branch"}
  BY ShapeCases DEF IsLeaf, LeafNode, IsExtension, ExtensionNode, IsBranch, BranchNode
<1>2. \A x: Digest(x).t = "digest"
  BY DEF Digest
<1>3. CASE node.t = "digest"
  <2>1. node.t # "null" /\ ~HasCache(node)
    BY <1>3 DEF HasCache
  <2>2. Hash(node) = node
    BY <1>3, <2>1 DEF Hash
  <2> QED
    BY <1>3, <2>2
<1>4. CASE node.t # "digest"
  <2>1. node.t \notin {"digest", "null"} /\ HasCache(node)
    BY <1>1, <1>4 DEF HasCache
  <2>2. Hash(node) = IF node.cache = NoCache THEN Digest(RlpEncoded(node))
                     ELSE IF node.cache.t = "digest" THEN node.cache ELSE Digest(node.cache)
    BY <2>1 DEF Hash
  <2> QED
    BY <1>2, <2>2
<1> QED
  BY <1>3, <1>4

\* A node no key reaches becomes its digest.
LEMMA PrunedAway ==
  ASSUME NEW node, NEW l, Shape(node, l), NEW n \in Nat, NEW keys \in SUBSET Key(n),
         NEW m \in Nat, NEW path \in Key(m), ~Wanted(path, keys)
  PROVE  PrunedTo(Hash(node), node, l, path, keys)
<1> DEFINE new == Hash(node)
<1>0. l \in Nat
  BY ShapeCases
<1>1. new.t = "digest"
  BY HashIsDigest
<1> HIDE DEF new
<1>2. Shape(new, l)
  BY <1>0, <1>1, ShapeDigest
<1>3. NodePaths(new) = {}
  BY <1>1, <1>2, NodePathsAt
<1>4. ASSUME NEW p \in NodePaths(node) PROVE ~Wanted(Joined(path, p), keys)
  <2>1. PICK j \in 0..l: p \in Key(j)
    BY <1>0, NodePathsAreKeys
  <2> QED
    BY <2>1, WantedAbove
<1>5. \A k \in Key(l): Joined(path, k) \notin keys
  BY <1>0, KeyIsWanted
<1>6. KeepsNodes(new, node, path, keys)
  BY <1>3, <1>4 DEF KeepsNodes
<1>7. KeepsKeys(new, node, l, path, keys)
  BY <1>5 DEF KeepsKeys
<1> QED
  BY <1>1, <1>2, <1>6, <1>7 DEF PrunedTo, new

\* A leaf or a digest that a key reaches stays.
LEMMA Unpruned ==
  ASSUME NEW node, NEW l, Shape(node, l), node.t \notin {"extension", "branch"},
         NEW m \in Nat, NEW path \in Key(m), NEW keys, Wanted(path, keys)
  PROVE  PrunedTo(node, node, l, path, keys)
<1>1. node.t \in {"digest", "leaf"}
  BY ShapeCases DEF IsLeaf, LeafNode, IsExtension, ExtensionNode, IsBranch, BranchNode
<1>2. \A p \in NodePaths(node): p = <<>>
  BY <1>1, NodePathsAt
<1>3. Joined(path, <<>>) = path
  BY NoNibbles, JoinedTwice
<1>4. KeepsNodes(node, node, path, keys)
  BY <1>2, <1>3 DEF KeepsNodes
<1>5. KeepsKeys(node, node, l, path, keys)
  BY DEF KeepsKeys
<1> QED
  BY <1>4, <1>5 DEF PrunedTo

\* An extension whose child is pruned.
LEMMA PrunedExtension ==
  ASSUME NEW l \in Nat, NEW node, NEW h, NEW p, NEW child, NEW cache, IsExtension(node, l, h, p, child, cache),
         NEW n \in Nat, NEW keys \in SUBSET Key(n), NEW m \in Nat, NEW path \in Key(m), Wanted(path, keys),
         NEW new, PrunedTo(new, child, l - h, Joined(path, p), keys)
  PROVE  PrunedTo(ExtensionNode(p, new, cache), node, l, path, keys)
<1> DEFINE result == ExtensionNode(p, new, cache)
<1>1. /\ h \in 1..l /\ p \in Key(h) /\ Shape(child, l - h) /\ child.t \in {"branch", "digest"}
      /\ node = ExtensionNode(p, child, cache)
  BY DEF IsExtension
<1>2. l - h \in Nat /\ h \in Nat /\ h \in 0..l
  BY <1>1
<1>3. /\ Shape(new, l - h) /\ new.t \in {"branch", "digest"}
      /\ KeepsNodes(new, child, Joined(path, p), keys) /\ KeepsKeys(new, child, l - h, Joined(path, p), keys)
  BY <1>1 DEF PrunedTo
<1>4. Shape(result, l) /\ Shape(node, l)
  BY <1>1, <1>3, ShapeExtension
<1>5. IsExtension(result, l, h, p, new, cache)
  BY <1>1, <1>3 DEF IsExtension
<1>t. result.t = node.t
  BY <1>1 DEF ExtensionNode
<1> HIDE DEF result
<1>6. ASSUME NEW q \in NodePaths(child)
      PROVE  q \in NodePaths(new) <=> Wanted(Joined(path, Joined(p, q)), keys)
  <2>1. PICK j \in 0..(l - h): q \in Key(j)
    BY <1>1, <1>2, NodePathsAreKeys
  <2>2. j \in Nat
    OBVIOUS
  <2>3. Joined(Joined(path, p), q) = Joined(path, Joined(p, q))
    BY <1>1, <1>2, <2>1, <2>2, JoinedTwice
  <2> QED
    BY <1>3, <2>3 DEF KeepsNodes
<1>7. NodePaths(new) \subseteq NodePaths(child)
  BY <1>3 DEF KeepsNodes
<1>8. Joined(path, <<>>) = path
  BY NoNibbles, JoinedTwice
<1>9. KeepsNodes(result, node, path, keys)
  <2>1. \A x: x \in NodePaths(node) <=> x = <<>> \/ \E q \in NodePaths(child): x = Joined(p, q)
    BY <1>4, NodePathsAt
  <2>2. \A x: x \in NodePaths(result) <=> x = <<>> \/ \E q \in NodePaths(new): x = Joined(p, q)
    BY <1>4, <1>5, NodePathsAt
  <2> QED
    BY <1>6, <1>7, <1>8, <2>1, <2>2 DEF KeepsNodes
<1>10. ASSUME NEW k \in Key(l), Joined(path, k) \in keys PROVE NodeGet(result, k) = NodeGet(node, k)
  <2> DEFINE rest == Drop(k, h)
  <2>1. rest \in Key(l - h)
    BY <1>2, DropKey
  <2>2. IsPrefix(p, k) => Joined(p, rest) = k
    BY <1>1, <1>2, <2>1, JoinedPrefix
  <2>3. /\ IsPrefix(p, k) => NodeGet(node, k) = NodeGet(child, rest) /\ NodeGet(result, k) = NodeGet(new, rest)
        /\ ~IsPrefix(p, k) => NodeGet(node, k) = NoValue /\ NodeGet(result, k) = NoValue
    BY <1>5, AtExtension
  <2> HIDE DEF rest
  <2>4. Joined(Joined(path, p), rest) = Joined(path, Joined(p, rest))
    BY <1>1, <1>2, <2>1, JoinedTwice
  <2>5. IsPrefix(p, k) => NodeGet(new, rest) = NodeGet(child, rest)
    BY <1>3, <1>10, <2>1, <2>2, <2>4 DEF KeepsKeys
  <2> QED
    BY <2>3, <2>5
<1>11. KeepsKeys(result, node, l, path, keys)
  BY <1>10 DEF KeepsKeys
<1> QED
  BY <1>4, <1>t, <1>9, <1>11 DEF PrunedTo, result

\* Child i of a branch on a path.
ChildPath(path, i) == Joined(path, <<i>>)
\* What pruning keeps of a child.
ChildPruned(new, children, l, path, keys, i) == PrunedTo(new[i], children[i], l, ChildPath(path, i), keys)

\* What is below child i is below the branch.
LEMMA BelowChild ==
  ASSUME NEW m \in Nat, NEW path \in Key(m), NEW i \in Nibble, NEW j \in Nat, NEW q \in Key(j)
  PROVE  /\ ChildPath(path, i) \in Key(m + 1)
         /\ Joined(ChildPath(path, i), q) = Joined(path, Joined(<<i>>, q))
<1> DEFINE one == <<i>>
<1>1. one \in Key(1) /\ 1 \in Nat
  BY OneNibble
<1> HIDE DEF one
<1>2. Joined(path, one) \in Key(m + 1)
  BY <1>1, JoinedPath
<1>3. Joined(Joined(path, one), q) = Joined(path, Joined(one, q))
  BY <1>1, JoinedTwice
<1> QED
  BY <1>2, <1>3 DEF ChildPath, one

\* A key is its first nibble and the rest of it.
LEMMA KeyIsJoined ==
  ASSUME NEW l \in Nat, l > 0, NEW k \in Key(l)
  PROVE  k[1] \in Nibble /\ Drop(k, 1) \in Key(l - 1) /\ Joined(<<k[1]>>, Drop(k, 1)) = k
<1> DEFINE i == k[1]
           one == <<i>>
           rest == Drop(k, 1)
<1>1. i \in Nibble /\ rest \in Key(l - 1)
  BY HeadTail
<1> HIDE DEF i, rest
<1>2. one \in Key(1) /\ one[1] = i /\ 1 \in Nat /\ 1 <= l /\ l - 1 \in Nat
  BY <1>1, OneNibble
<1> HIDE DEF one
<1>3. \A x \in 1..1: one[x] = k[x]
  BY <1>2 DEF i
<1>4. IsPrefix(one, k)
  BY <1>2, <1>3, PrefixNibbles
<1>5. Joined(one, rest) = k
  BY <1>1, <1>2, <1>4, JoinedPrefix DEF rest
<1> QED
  BY <1>1, <1>5 DEF i, one, rest

\* A branch whose children are pruned.
LEMMA PrunedBranch ==
  ASSUME NEW l \in Nat, NEW node, NEW nibs, NEW children, NEW cache, IsBranch(node, l, nibs, children, cache),
         NEW n \in Nat, NEW keys \in SUBSET Key(n), NEW m \in Nat, NEW path \in Key(m), Wanted(path, keys),
         NEW new, new = [i \in nibs |-> new[i]],
         \A i \in nibs: ChildPruned(new, children, l - 1, path, keys, i)
  PROVE  PrunedTo(BranchNode(new, cache), node, l, path, keys)
<1> DEFINE result == BranchNode(new, cache)
           d == l - 1
<1>1. /\ l > 0 /\ nibs \in SUBSET Nibble /\ Cardinality(nibs) >= 2 /\ IsFiniteSet(nibs)
      /\ node = BranchNode(children, cache) /\ children = [i \in nibs |-> children[i]]
      /\ \A i \in nibs: Shape(children[i], l - 1)
  BY DEF IsBranch
<1>2. d \in Nat /\ \A i \in nibs: Shape(children[i], d)
  BY <1>1
<1>3. \A i \in nibs: /\ Shape(new[i], d) /\ KeepsNodes(new[i], children[i], ChildPath(path, i), keys)
                     /\ KeepsKeys(new[i], children[i], d, ChildPath(path, i), keys)
  BY DEF ChildPruned, PrunedTo
<1>4. Shape(result, l) /\ Shape(node, l)
  BY <1>1, <1>3, ShapeBranch
<1>5. IsBranch(result, l, nibs, new, cache)
  BY <1>1, <1>3 DEF IsBranch
<1>t. result.t = node.t
  BY <1>1 DEF BranchNode
<1>d. l - 1 = d
  OBVIOUS
<1> HIDE DEF result, d
<1>6. ASSUME NEW i \in nibs, NEW x
      PROVE  NodeIn(x, new, i) <=> NodeIn(x, children, i) /\ Wanted(Joined(path, x), keys)
  <2>1. ASSUME NEW q \in NodePaths(children[i])
        PROVE  q \in NodePaths(new[i]) <=> Wanted(Joined(path, Joined(<<i>>, q)), keys)
    <3>1. PICK j \in 0..d: q \in Key(j)
      BY <1>2, NodePathsAreKeys
    <3>2. j \in Nat /\ i \in Nibble
      BY <1>1
    <3>3. Joined(ChildPath(path, i), q) = Joined(path, Joined(<<i>>, q))
      BY <3>1, <3>2, BelowChild
    <3> QED
      BY <1>3, <3>3 DEF KeepsNodes
  <2>2. NodePaths(new[i]) \subseteq NodePaths(children[i])
    BY <1>3 DEF KeepsNodes
  <2> QED
    BY <2>1, <2>2 DEF NodeIn
<1>8. Joined(path, <<>>) = path
  BY NoNibbles, JoinedTwice
<1>9. KeepsNodes(result, node, path, keys)
  <2>1. \A x: x \in NodePaths(node) <=> x = <<>> \/ \E i \in nibs: NodeIn(x, children, i)
    BY <1>4, NodePathsAt
  <2>2. \A x: x \in NodePaths(result) <=> x = <<>> \/ \E i \in nibs: NodeIn(x, new, i)
    BY <1>4, <1>5, NodePathsAt
  <2> QED
    BY <1>6, <1>8, <2>1, <2>2 DEF KeepsNodes
<1>10. ASSUME NEW k \in Key(l), Joined(path, k) \in keys PROVE NodeGet(result, k) = NodeGet(node, k)
  <2> DEFINE nib == k[1]
             rest == Drop(k, 1)
  <2>1. nib \in Nibble /\ rest \in Key(d) /\ Joined(<<nib>>, rest) = k
    BY <1>1, <1>d, KeyIsJoined
  <2>2. /\ nib \in nibs => NodeGet(node, k) = NodeGet(children[nib], rest)
        /\ nib \notin nibs => NodeGet(node, k) = NoValue
    BY AtBranch
  <2>3. /\ nib \in nibs => NodeGet(result, k) = NodeGet(new[nib], rest)
        /\ nib \notin nibs => NodeGet(result, k) = NoValue
    BY <1>5, AtBranch
  <2> HIDE DEF nib, rest
  <2>4. Joined(ChildPath(path, nib), rest) = Joined(path, Joined(<<nib>>, rest))
    BY <1>2, <2>1, BelowChild
  <2>5. nib \in nibs => NodeGet(new[nib], rest) = NodeGet(children[nib], rest)
    BY <1>3, <1>10, <2>1, <2>4 DEF KeepsKeys
  <2> QED
    BY <2>2, <2>3, <2>5
<1>11. KeepsKeys(result, node, l, path, keys)
  BY <1>10 DEF KeepsKeys
<1> QED
  BY <1>4, <1>t, <1>9, <1>11 DEF PrunedTo, result

\* What pruning a node on a path gives: what the keys need of it, and a cursor
\* that has been there.
Walked(result, node, l, path, keys) ==
  Reached(result.cursor, path, keys) /\ PrunedTo(result.node, node, l, path, keys)
\* Pruning with every cursor that is not past the path.
WalksAll(pruned, node, l, keys) ==
  \A m \in Nat: \A path \in Key(m): \A cursor \in SUBSET keys:
    Seek(keys, path) \subseteq cursor => Walked(pruned[path][cursor], node, l, path, keys)

\* The loop over the children, before child n: those before it are pruned, and the
\* cursor has the keys of those that follow.
PrunedSoFar(new, children, l, path, keys, nibs, n) ==
  \A i \in nibs: IF i < n THEN ChildPruned(new, children, l, path, keys, i) ELSE new[i] = children[i]
\* The cursor is not past the children from n on.
HasKeysFrom(cursor, path, keys, n) ==
  \A i \in Nibble: n <= i => Seek(keys, ChildPath(path, i)) \subseteq cursor

\* The cursor after child n has the keys of those that follow it.
LEMMA CursorGoesOn ==
  ASSUME NEW m \in Nat, NEW path \in Key(m), NEW keys, NEW n \in Nibble, NEW cursor,
         Reached(cursor, ChildPath(path, n), keys)
  PROVE  Reached(cursor, path, keys) /\ HasKeysFrom(cursor, path, keys, n + 1)
<1>1. Reached(cursor, path, keys)
  <2> DEFINE one == <<n>>
  <2>1. one \in Key(1) /\ 1 \in Nat
    BY OneNibble
  <2>2. Reached(cursor, Joined(path, one), keys)
    BY DEF ChildPath
  <2> HIDE DEF one
  <2> QED
    BY <2>1, <2>2, ReachedAbove
<1>2. ASSUME NEW i \in Nibble, n + 1 <= i PROVE Seek(keys, ChildPath(path, i)) \subseteq cursor
  <2>1. n < i
    BY <1>2 DEF Nibble
  <2>2. Past(ChildPath(path, n), ChildPath(path, i))
    BY <2>1, PastSibling DEF ChildPath
  <2>3. ChildPath(path, i) \in Key(m + 1)
    BY NoNibbles, BelowChild
  <2>4. m + 1 \in Nat
    OBVIOUS
  <2> QED
    BY <2>2, <2>3, <2>4 DEF Reached, HasWhatFollows
<1> QED
  BY <1>1, <1>2 DEF HasKeysFrom

\* The children of a branch, pruned one after the other.
LEMMA PruneChildrenWalks ==
  ASSUME NEW l \in Nat, NEW node, NEW nibs, NEW children, NEW cache, IsBranch(node, l, nibs, children, cache),
         NEW n \in Nat, NEW keys \in SUBSET Key(n), NEW m \in Nat, NEW path \in Key(m), Wanted(path, keys),
         NEW pruned, \A i \in nibs: WalksAll(pruned[i], children[i], l - 1, keys)
  PROVE  Walked(PruneChildren(node, pruned, path, Seek(keys, path)), node, l, path, keys)
<1> DEFINE rest == Seek(keys, path)
           d == l - 1
<1>1. PICK done: /\ done[0] = [node |-> node, cursor |-> rest]
                 /\ \A k \in 0..15: done[k + 1] = PruneNext(done[k], node, pruned, path, k)
                 /\ PruneChildren(node, pruned, path, rest) = done[16]
  BY PruneChildrenSteps
<1>r. Reached(rest, path, keys)
  BY SeekReached
<1>s. HasKeysFrom(rest, path, keys, 0)
  <2>1. ASSUME NEW i \in Nibble PROVE Seek(keys, ChildPath(path, i)) \subseteq rest
    <3> DEFINE one == <<i>>
    <3>1. one \in Key(1) /\ 1 \in Nat
      BY OneNibble
    <3> HIDE DEF one
    <3>2. Seek(keys, Joined(path, one)) \subseteq Seek(keys, path)
      BY <3>1, SeekBelow
    <3> QED
      BY <3>2 DEF ChildPath, one
  <2> QED
    BY <2>1 DEF HasKeysFrom
<1> HIDE DEF rest
<1>2. PruneChildren(node, pruned, path, rest) = done[16]
  BY <1>1
<1>3. /\ node = BranchNode(children, cache) /\ children = [i \in nibs |-> children[i]] /\ nibs \in SUBSET Nibble
      /\ node.children = children /\ DOMAIN node.children = nibs
  BY DEF IsBranch, BranchNode
<1>w. \A i \in nibs: WalksAll(pruned[i], children[i], d, keys)
  OBVIOUS
<1>d. l - 1 = d
  OBVIOUS
<1> HIDE DEF d
<1> DEFINE Is(r, C, k) ==
             /\ r.node = BranchNode(C, cache) /\ C = [i \in nibs |-> C[i]]
             /\ PrunedSoFar(C, children, d, path, keys, nibs, k)
             /\ Reached(r.cursor, path, keys) /\ HasKeysFrom(r.cursor, path, keys, k)
           S == {k \in Nat: k <= 16 => \E C: Is(done[k], C, k)}
<1>4. 0 \in S
  <2>1. done[0].node = node /\ done[0].cursor = rest
    BY <1>1
  <2>2. PrunedSoFar(children, children, d, path, keys, nibs, 0)
    BY <1>3 DEF PrunedSoFar, Nibble
  <2>3. Is(done[0], children, 0)
    BY <1>3, <1>r, <1>s, <2>1, <2>2
  <2> HIDE DEF Is
  <2> QED
    BY <2>3
<1>5. ASSUME NEW k \in Nat, k \in S PROVE k + 1 \in S
  <2> SUFFICES ASSUME k + 1 <= 16 PROVE \E C: Is(done[k + 1], C, k + 1)
    OBVIOUS
  <2>1. k \in 0..15 /\ k \in Nibble /\ k <= 16 /\ \A i \in Nibble: (i < k + 1 /\ i # k => i < k) /\ (k + 1 <= i => k <= i)
    BY DEF Nibble
  <2>2. PICK C: Is(done[k], C, k)
    BY <1>5, <2>1
  <2> HIDE DEF S
  <2> DEFINE was == done[k]
             at == pruned[k][Append(path, k)][was.cursor]
  <2>3. done[k + 1] =
          IF k \in nibs THEN [node |-> [was.node EXCEPT !.children[k] = at.node], cursor |-> at.cursor] ELSE was
    <3>1. done[k + 1] = PruneNext(done[k], node, pruned, path, k)
      BY <1>1, <2>1
    <3> QED
      BY <1>3, <3>1 DEF PruneNext
  <2>4. /\ was.node = BranchNode(C, cache) /\ C = [i \in nibs |-> C[i]]
        /\ PrunedSoFar(C, children, d, path, keys, nibs, k)
        /\ Reached(was.cursor, path, keys) /\ HasKeysFrom(was.cursor, path, keys, k)
    BY <2>2
  <2>5. CASE k \notin nibs
    <3>1. PrunedSoFar(C, children, d, path, keys, nibs, k + 1)
      <4>1. \A i \in nibs: i \in Nibble /\ i # k
        BY <1>3, <2>5
      <4>2. \A i \in nibs: i < k + 1 <=> i < k
        BY <2>1, <4>1 DEF Nibble
      <4> QED
        BY <2>4, <4>2 DEF PrunedSoFar
    <3>2. HasKeysFrom(was.cursor, path, keys, k + 1)
      BY <2>1, <2>4 DEF HasKeysFrom
    <3>3. Is(was, C, k + 1)
      BY <2>4, <3>1, <3>2
    <3> HIDE DEF Is
    <3> QED
      BY <2>3, <2>5, <3>3
  <2>6. CASE k \in nibs
    <3>1. Append(path, k) = ChildPath(path, k) /\ ChildPath(path, k) \in Key(m + 1) /\ m + 1 \in Nat
      BY <2>1, AppendJoins, BelowChild, NoNibbles DEF ChildPath
    <3>2. was.cursor \in SUBSET keys /\ Seek(keys, ChildPath(path, k)) \subseteq was.cursor
      BY <2>1, <2>4 DEF Reached, HasKeysFrom
    <3>3. WalksAll(pruned[k], children[k], d, keys)
      BY <1>w, <2>6
    <3> HIDE DEF was
    <3>4. Walked(at, children[k], d, ChildPath(path, k), keys)
      BY <3>1, <3>2, <3>3 DEF WalksAll
    <3> HIDE DEF at
    <3>5. Reached(at.cursor, ChildPath(path, k), keys) /\ PrunedTo(at.node, children[k], d, ChildPath(path, k), keys)
      BY <3>4 DEF Walked
    <3>6. Reached(at.cursor, path, keys) /\ HasKeysFrom(at.cursor, path, keys, k + 1)
      BY <2>1, <3>5, CursorGoesOn
    <3> DEFINE new == [C EXCEPT ![k] = at.node]
               made == [was.node EXCEPT !.children[k] = at.node]
    <3>7. made = BranchNode(new, cache)
      BY <2>4 DEF BranchNode
    <3>8. new = [i \in nibs |-> new[i]]
      BY <2>4
    <3>9. \A i \in nibs: new[i] = IF i = k THEN at.node ELSE C[i]
      BY <2>4
    <3> HIDE DEF new, made
    <3>10. PrunedSoFar(new, children, d, path, keys, nibs, k + 1)
      <4>1. ASSUME NEW i \in nibs, i = k PROVE i < k + 1 /\ ChildPruned(new, children, d, path, keys, i)
        BY <3>5, <3>9, <4>1 DEF ChildPruned
      <4>2. ASSUME NEW i \in nibs, i # k
            PROVE  IF i < k + 1 THEN ChildPruned(new, children, d, path, keys, i) ELSE new[i] = children[i]
        <5>1. new[i] = C[i] /\ (i < k + 1 <=> i < k)
          BY <1>3, <2>1, <3>9, <4>2 DEF Nibble
        <5>2. IF i < k THEN ChildPruned(C, children, d, path, keys, i) ELSE C[i] = children[i]
          BY <2>4 DEF PrunedSoFar
        <5> QED
          BY <5>1, <5>2 DEF ChildPruned
      <4> QED
        BY <4>1, <4>2 DEF PrunedSoFar
    <3>11. done[k + 1].node = made /\ done[k + 1].cursor = at.cursor
      BY <2>3, <2>6 DEF made
    <3>12. Is(done[k + 1], new, k + 1)
      BY <3>6, <3>7, <3>8, <3>10, <3>11
    <3> HIDE DEF Is
    <3> QED
      BY <3>12
  <2> QED
    BY <2>5, <2>6
<1> HIDE DEF S
<1>6. \A k \in Nat: k \in S
  BY <1>4, <1>5, StepInduction
<1>7. PICK C: Is(done[16], C, 16)
  <2> HIDE DEF Is
  <2> QED
    BY <1>6 DEF S
<1>8. \A i \in nibs: ChildPruned(C, children, d, path, keys, i)
  <2>1. \A i \in nibs: i < 16
    BY <1>3 DEF Nibble
  <2> QED
    BY <1>7, <2>1 DEF PrunedSoFar
<1>9. PrunedTo(BranchNode(C, cache), node, l, path, keys)
  <2>1. C = [i \in nibs |-> C[i]]
    BY <1>7
  <2>2. \A i \in nibs: ChildPruned(C, children, l - 1, path, keys, i)
    BY <1>8 DEF d
  <2> HIDE DEF Is
  <2> QED
    BY <2>1, <2>2, PrunedBranch
<1>10. done[16].node = BranchNode(C, cache) /\ Reached(done[16].cursor, path, keys)
  BY <1>7
<1> HIDE DEF Is
<1> QED
  BY <1>2, <1>9, <1>10 DEF Walked, rest

\* Pruning a node, on any path and with any cursor that has the keys from there on.
LEMMA PruneAtWalks ==
  ASSUME NEW l, NEW node, Shape(node, l), NEW n \in Nat, NEW keys \in SUBSET Key(n), IsFiniteSet(keys),
         NEW m \in Nat, NEW path \in Key(m), NEW cursor \in SUBSET keys, Seek(keys, path) \subseteq cursor,
         NEW pruned,
         \A i \in DOMAIN ChildrenOf(node): \A k \in 0..(l - 1):
           Shape(ChildrenOf(node)[i], k) => WalksAll(pruned[i], ChildrenOf(node)[i], k, keys)
  PROVE  Walked(PruneAt(node, pruned, path, cursor), node, l, path, keys)
<1> DEFINE rest == Seek(keys, path)
           isReached == Wanted(path, keys)
           child == pruned[1][path \o node.path][rest]
           result == PruneAt(node, pruned, path, cursor)
<1>0. l \in Nat
  BY ShapeCases
<1>1. Seek(cursor, path) = rest
  BY SeekAgain
<1>2. PeekWithPrefix(rest, path) = isReached
  <2>1. PeekWithPrefix(rest, path) <=> isReached
    BY PeekIs
  <2>2. PeekWithPrefix(rest, path) \in BOOLEAN /\ isReached \in BOOLEAN
    BY DEF PeekWithPrefix, Wanted
  <2> QED
    BY <2>1, <2>2
<1>r. rest \in SUBSET keys /\ Reached(rest, path, keys)
  BY SeekReached DEF Seek
<1> HIDE DEF rest, isReached
<1>3. result =
        CASE ~isReached -> [node |-> Hash(node), cursor |-> rest]
          [] isReached /\ node.t = "extension" ->
               [node |-> [node EXCEPT !.child = child.node], cursor |-> child.cursor]
          [] isReached /\ node.t = "branch" -> PruneChildren(node, pruned, path, rest)
          [] OTHER -> [node |-> node, cursor |-> rest]
  BY <1>1, <1>2 DEF PruneAt
<1> HIDE DEF result
<1>a. ASSUME NEW x, result = [node |-> x, cursor |-> rest], PrunedTo(x, node, l, path, keys)
      PROVE  Walked(result, node, l, path, keys)
  <2>1. result.node = x /\ result.cursor = rest
    BY <1>a
  <2> QED
    BY <1>r, <1>a, <2>1 DEF Walked
<1>4. CASE ~isReached
  <2>1. result = [node |-> Hash(node), cursor |-> rest]
    BY <1>3, <1>4
  <2>2. PrunedTo(Hash(node), node, l, path, keys)
    BY <1>4, PrunedAway DEF isReached
  <2> QED
    BY <1>a, <2>1, <2>2 DEF result
<1>5. CASE isReached /\ node.t \notin {"extension", "branch"}
  <2>1. result = [node |-> node, cursor |-> rest]
    BY <1>3, <1>5
  <2>2. PrunedTo(node, node, l, path, keys)
    BY <1>5, Unpruned DEF isReached
  <2> QED
    BY <1>a, <2>1, <2>2 DEF result
<1>6. ASSUME isReached, NEW h, NEW p, NEW c, NEW cache, IsExtension(node, l, h, p, c, cache)
      PROVE  Walked(result, node, l, path, keys)
  <2>1. node = ExtensionNode(p, c, cache) /\ h \in 1..l /\ p \in Key(h) /\ Shape(c, l - h)
    BY <1>6 DEF IsExtension
  <2>2. ChildrenOf(node) = <<c>>
    BY <2>1, ChildrenOfKinds
  <2>3. 1 \in DOMAIN ChildrenOf(node) /\ ChildrenOf(node)[1] = c
    BY <2>2
  <2>4. l - h \in 0..(l - 1) /\ h \in Nat /\ m + h \in Nat
    BY <1>0, <2>1
  <2>5. WalksAll(pruned[1], c, l - h, keys)
    BY <2>1, <2>3, <2>4
  <2>6. node.t = "extension" /\ node.path = p
    BY <2>1 DEF ExtensionNode
  <2>7. Joined(path, p) \in Key(m + h)
    BY <2>1, <2>4, JoinedPath
  <2>8. Seek(keys, Joined(path, p)) \subseteq rest
    BY <2>1, <2>4, SeekBelow DEF rest
  <2>9. Walked(pruned[1][Joined(path, p)][rest], c, l - h, Joined(path, p), keys)
    BY <1>r, <2>4, <2>5, <2>7, <2>8 DEF WalksAll
  <2>10. child = pruned[1][Joined(path, p)][rest]
    BY <2>6 DEF Joined
  <2> HIDE DEF child
  <2>11. Reached(child.cursor, Joined(path, p), keys) /\ PrunedTo(child.node, c, l - h, Joined(path, p), keys)
    BY <2>9, <2>10 DEF Walked
  <2>12. Reached(child.cursor, path, keys)
    BY <2>1, <2>4, <2>11, ReachedAbove
  <2>13. PrunedTo(ExtensionNode(p, child.node, cache), node, l, path, keys)
    BY <1>0, <1>6, <2>11, PrunedExtension DEF isReached
  <2>14. result = [node |-> [node EXCEPT !.child = child.node], cursor |-> child.cursor]
    BY <1>3, <1>6, <2>6
  <2>15. [node EXCEPT !.child = child.node] = ExtensionNode(p, child.node, cache)
    BY <2>1 DEF ExtensionNode
  <2>16. result.node = ExtensionNode(p, child.node, cache) /\ result.cursor = child.cursor
    BY <2>14, <2>15
  <2> QED
    BY <2>12, <2>13, <2>16 DEF Walked
<1>7. ASSUME isReached, NEW nibs, NEW children, NEW cache, IsBranch(node, l, nibs, children, cache)
      PROVE  Walked(result, node, l, path, keys)
  <2>1. /\ node = BranchNode(children, cache) /\ children = [i \in nibs |-> children[i]] /\ l > 0
        /\ \A i \in nibs: Shape(children[i], l - 1)
    BY <1>7 DEF IsBranch
  <2>2. ChildrenOf(node) = children
    BY <2>1, ChildrenOfKinds
  <2>3. DOMAIN children = nibs
    BY <2>1
  <2>4. l - 1 \in 0..(l - 1)
    BY <1>0, <2>1
  <2>5. \A i \in nibs: WalksAll(pruned[i], children[i], l - 1, keys)
    BY <2>1, <2>2, <2>3, <2>4
  <2>6. node.t = "branch"
    BY <2>1 DEF BranchNode
  <2>7. result = PruneChildren(node, pruned, path, rest)
    BY <1>3, <1>7, <2>6
  <2>8. Walked(PruneChildren(node, pruned, path, rest), node, l, path, keys)
    BY <1>0, <1>7, <2>5, PruneChildrenWalks DEF isReached, rest
  <2> QED
    BY <2>7, <2>8
<1>8. CASE isReached /\ node.t \in {"extension", "branch"}
  <2>1. \/ \E h, p, c, cache: IsExtension(node, l, h, p, c, cache)
        \/ \E nibs, children, cache: IsBranch(node, l, nibs, children, cache)
    BY <1>8, ShapeCases DEF IsLeaf, LeafNode
  <2>2. CASE \E h, p, c, cache: IsExtension(node, l, h, p, c, cache)
    BY <1>6, <1>8, <2>2 DEF result
  <2>3. CASE \E nibs, children, cache: IsBranch(node, l, nibs, children, cache)
    BY <1>7, <1>8, <2>3 DEF result
  <2> QED
    BY <2>1, <2>2, <2>3
<1> QED
  BY <1>4, <1>5, <1>8 DEF result

\* One pass of the cursor leaves of a trie what each of the keys needs.
LEMMA PruneWalks ==
  ASSUME NEW l, NEW node, Shape(node, l), NEW n \in Nat, NEW keys \in SUBSET Key(n), IsFiniteSet(keys)
  PROVE  PrunedTo(NodePrune(node, <<>>, keys).node, node, l, <<>>, keys)
<1> DEFINE op == PruneOp(keys)
           S == {j \in Nat: \A x: Shape(x, j) => WalksAll(Fold(op, x), x, j, keys)}
<1>0. DescendsOp(op) /\ \A x, below: MadeAt(op, x, below) = PruneFrom(keys, x, below)
  BY DEF DescendsOp, MadeAt, PruneOp
<1> HIDE DEF op
<1>1. ASSUME NEW j \in Nat, \A k \in 0..(j - 1): k \in S PROVE j \in S
  <2> SUFFICES ASSUME NEW x, Shape(x, j) PROVE WalksAll(Fold(op, x), x, j, keys)
    OBVIOUS
  <2>b. ASSUME NEW k \in 0..(j - 1), NEW y, Shape(y, k) PROVE WalksAll(Fold(op, y), y, k, keys)
    <3>1. k \in S
      BY <1>1
    <3> QED
      BY <2>b, <3>1
  <2> HIDE DEF S
  <2> DEFINE pruned == [i \in DOMAIN ChildrenOf(x) |-> Fold(op, ChildrenOf(x)[i])]
  <2>1. Fold(op, x) = PruneFrom(keys, x, pruned)
    BY <1>0, FoldDescends
  <2>2. \A i \in DOMAIN ChildrenOf(x): pruned[i] = Fold(op, ChildrenOf(x)[i])
    OBVIOUS
  <2> HIDE DEF pruned
  <2>3. ASSUME NEW i \in DOMAIN ChildrenOf(x), NEW k \in 0..(j - 1), Shape(ChildrenOf(x)[i], k)
        PROVE  WalksAll(pruned[i], ChildrenOf(x)[i], k, keys)
    BY <2>b, <2>2, <2>3
  <2>4. ASSUME NEW m \in Nat, NEW path \in Key(m), NEW cursor \in SUBSET keys, Seek(keys, path) \subseteq cursor
        PROVE  Walked(Fold(op, x)[path][cursor], x, j, path, keys)
    <3>1. path \in Seq(Nibble)
      BY DEF Key
    <3>2. Fold(op, x)[path][cursor] = PruneAt(x, pruned, path, cursor)
      BY <2>1, <3>1 DEF PruneFrom
    <3>3. Walked(PruneAt(x, pruned, path, cursor), x, j, path, keys)
      BY <2>3, <2>4, PruneAtWalks
    <3> QED
      BY <3>2, <3>3
  <2> QED
    BY <2>4 DEF WalksAll
<1> HIDE DEF S
<1>2. \A j \in Nat: j \in S
  BY <1>1, SetInduction
<1>3. l \in S
  BY <1>2, ShapeCases
<1>4. WalksAll(Fold(op, node), node, l, keys)
  BY <1>3 DEF S
<1>5. 0 \in Nat /\ <<>> \in Key(0) /\ keys \in SUBSET keys /\ Seek(keys, <<>>) \subseteq keys
  BY NoNibbles, SeekAll
<1>6. Walked(Fold(op, node)[<<>>][keys], node, l, <<>>, keys)
  BY <1>4, <1>5 DEF WalksAll
<1>7. NodePrune(node, <<>>, keys) = Fold(op, node)[<<>>][keys]
  BY PruneIsFold DEF op
<1> QED
  BY <1>6, <1>7 DEF Walked

\* Of the empty trie nothing is pruned that a key asks for, and it has no nodes.
LEMMA PrunedNull ==
  ASSUME NEW n \in Nat, NEW keys \in SUBSET Key(n), IsFiniteSet(keys)
  PROVE  /\ keys # {} => NodePrune(Null, <<>>, keys).node = Null
         /\ NodePaths(Null) = {}
<1> DEFINE op == PruneOp(keys)
           node == Null
<1>1. node.t = "null" /\ ChildrenOf(node) = <<>> /\ ~HasCache(node)
  BY DEF Null, ChildrenOf, HasCache
<1>a. NodePaths(node) = {}
  <2> HIDE DEF node
  <2>1. BelowAt(NodePathsOp, node) = <<>>
    BY <1>1 DEF BelowAt, NodePathsOp
  <2>2. Fold(NodePathsOp, node) = MadeAt(NodePathsOp, node, <<>>)
    BY <2>1, FoldOfOne
  <2>3. MadeAt(NodePathsOp, node, <<>>) = {}
    BY <1>1 DEF MadeAt, NodePathsOp, NodePathsFrom
  <2> QED
    BY <2>2, <2>3, NodePathsIsFold
<1> HIDE DEF node
<1>2. BelowAt(op, node) = <<>> /\ MadeAt(op, node, <<>>) = PruneFrom(keys, node, <<>>)
  BY <1>1 DEF BelowAt, MadeAt, PruneOp
<1> HIDE DEF op
<1>3. Fold(op, node) = PruneFrom(keys, node, <<>>)
  BY <1>2, FoldOfOne
<1>4. NodePrune(node, <<>>, keys) = Fold(op, node)[<<>>][keys]
  BY PruneIsFold DEF op
<1>5. PruneFrom(keys, node, <<>>)[<<>>][keys] = PruneAt(node, <<>>, <<>>, keys)
  <2>1. <<>> \in Seq(Nibble) /\ keys \in SUBSET keys
    OBVIOUS
  <2> QED
    BY <2>1 DEF PruneFrom
<1>6. ASSUME NEW k \in keys PROVE NodePrune(node, <<>>, keys).node = node
  <2>1. <<>> \in Key(0) /\ 0 \in Nat /\ k \in Key(n) /\ 0 <= n /\ 1..0 = {}
    BY NoNibbles
  <2>2. IsPrefix(<<>>, k)
    BY <2>1, PrefixNibbles
  <2>3. PeekWithPrefix(Seek(keys, <<>>), <<>>)
    BY <2>1, <2>2, PeekIs DEF Wanted
  <2>4. PruneAt(node, <<>>, <<>>, keys).node = node
    BY <1>1, <2>3 DEF PruneAt
  <2> QED
    BY <1>3, <1>4, <1>5, <2>4
<1> QED
  BY <1>6, <1>a DEF node

=============================================================================
