-------------------------- MODULE CachedTrieProofs --------------------------
(*****************************************************************************)
(* What holds of CachedTrie, for keys of any length, any values and any      *)
(* tries to start from: its root stands for the trie of its map, every cache *)
(* it keeps is right, and it panics where its documentation says.            *)
(*****************************************************************************)
EXTENDS CachedTrie, MPTNodeProofs

-----------------------------------------------------------------------------
\* The trie with a memory.

\* The maps of the specification are maps.
LEMMA MapIs ==
  ASSUME NEW content \in Map!Maps
  PROVE  IsMap(content, KeyLength) /\ KeyLength \in Nat
<1>1. KeyLength \in Nat /\ IsFiniteSet(Keys) /\ Keys \subseteq Key(KeyLength)
  BY KeysAssumption DEF Key
<1>2. PICK keys \in SUBSET Keys: content \in [keys -> Values]
  BY DEF Map!Maps
<1>3. IsFiniteSet(keys)
  BY <1>1, FS_Subset
<1>4. DOMAIN content = keys
  BY <1>2
<1> QED
  BY <1>1, <1>2, <1>3, <1>4 DEF IsMap

\* A key is a key.
LEMMA KeyIs ==
  ASSUME NEW key \in Keys
  PROVE  key \in Key(KeyLength)
  BY KeysAssumption DEF Key

\* The empty map is one of them.
LEMMA EmptyMapIs ==
  <<>> \in Map!Maps
<1>1. <<>> \in [{} -> Values] /\ {} \in SUBSET Keys
  OBVIOUS
<1> QED
  BY <1>1 DEF Map!Maps

\* Set and removed, the keys remain keys of the specification.
LEMMA MapStays ==
  ASSUME NEW content \in Map!Maps, NEW key \in Keys
  PROVE  /\ \A value \in Values: WithKey(content, key, value) \in Map!Maps
         /\ WithoutKey(content, key) \in Map!Maps
<1>1. PICK keys \in SUBSET Keys: content \in [keys -> Values]
  BY DEF Map!Maps
<1>2. ASSUME NEW value \in Values PROVE WithKey(content, key, value) \in Map!Maps
  <2>1. keys \cup {key} \in SUBSET Keys
    BY <1>1
  <2>2. WithKey(content, key, value) \in [keys \cup {key} -> Values]
    BY <1>1 DEF WithKey
  <2> QED
    BY <2>1, <2>2 DEF Map!Maps
<1>3. WithoutKey(content, key) \in Map!Maps
  <2>1. keys \ {key} \in SUBSET Keys
    BY <1>1
  <2>2. WithoutKey(content, key) \in [keys \ {key} -> Values]
    BY <1>1 DEF WithoutKey
  <2> QED
    BY <2>1, <2>2 DEF Map!Maps
<1> QED
  BY <1>2, <1>3

\* What each step keeps: the root stands for the trie of the map, whatever is known
\* of it, every cache that is kept is right, and so is the remembered hash.
IInv ==
  /\ status \in {"ok", "panicked"} /\ map \in Map!Maps
  /\ hash \in {NoHash, Hash(TrieOf(map))}
  /\ RootOf(inner, map, KeyLength)

\* It holds of a new trie: the empty one, one known by its digest, and one with a
\* witness (mod.rs).
LEMMA InitIInv ==
  ASSUME Init
  PROVE  IInv
<1>1. CASE Default /\ map = <<>>
  <2>1. DOMAIN map = {}
    BY <1>1
  <2>2. RootOf(inner, map, KeyLength)
    BY <1>1, <2>1 DEF RootOf, EmptyRoot, Default
  <2>3. hash = Hash(TrieOf(map))
    <3>1. map \in Map!Maps
      BY <1>1, EmptyMapIs
    <3> QED
      BY <1>1, <2>1, <3>1, MapIs, HashOfTrie DEF Default
  <2>4. map \in Map!Maps
    BY <1>1, EmptyMapIs
  <2> QED
    BY <2>2, <2>3, <2>4 DEF IInv, Init
<1>2. CASE map \in Starts
  <2>1. map \in Map!Maps
    BY <1>2, KeysAssumption DEF Map!Maps
  <2>2. IsMap(map, KeyLength) /\ KeyLength \in Nat
    BY <2>1, MapIs
  <2> DEFINE root == Hash(TrieOf(map))
  <2>3. /\ RootOf(root, map, KeyLength)
        /\ DOMAIN map = {} <=> root = Digest(Null)
        /\ DOMAIN map # {} => \A rlps: RootOf(NodeFromRlp(root.of, rlps), map, KeyLength)
        /\ TrieOf(map) # Null => DOMAIN map # {}
    BY <2>2, RootFrom
  <2> HIDE DEF root
  <2>4. CASE FromDigest(root)
    <3>1. CASE root = Digest(Null)
      <4>1. inner = Null /\ hash = root /\ DOMAIN map = {}
        BY <2>3, <2>4, <3>1 DEF FromDigest, Default
      <4>2. RootOf(inner, map, KeyLength)
        BY <4>1 DEF RootOf, EmptyRoot
      <4> QED
        BY <2>1, <4>1, <4>2 DEF IInv, Init, root
    <3>2. CASE root # Digest(Null)
      <4>1. inner = root /\ hash = root
        BY <2>4, <3>2 DEF FromDigest
      <4> QED
        BY <2>1, <2>3, <4>1 DEF IInv, Init, root
    <3> QED
      BY <3>1, <3>2
  <2>5. ASSUME TrieOf(map) # Null, NEW rlps, FromRlp(root.of, rlps)
        PROVE  IInv
    <3>1. inner = NodeFromRlp(root.of, rlps) /\ hash = NoHash
      BY <2>5 DEF FromRlp
    <3>2. RootOf(inner, map, KeyLength)
      BY <2>3, <2>5, <3>1
    <3> QED
      BY <2>1, <3>1, <3>2 DEF IInv, Init
  <2>6. FromDigest(root) \/ Default \/ (TrieOf(map) # Null /\ \E rlps: FromRlp(root.of, rlps))
    BY DEF Init, root
  <2> QED
    BY <1>1, <2>4, <2>5, <2>6 DEF Init, root
<1> QED
  BY <1>1, <1>2 DEF Init

\* insert keeps it.
LEMMA InsertIInv ==
  ASSUME IInv, NEW key \in Keys, NEW value \in Values, InsertKey(key, value)
  PROVE  IInv'
<1>1. /\ inner' = NodeInsert(inner, key, value) /\ NodeInsert(inner, key, value) # Panic
      /\ hash' = NoHash /\ status' = status
      /\ map' = WithKey(map, key, value)
  BY DEF InsertKey, Map!Insert, WithKey
<1>2. map \in Map!Maps /\ RootOf(inner, map, KeyLength)
  BY DEF IInv
<1>3. IsMap(map, KeyLength) /\ KeyLength \in Nat /\ key \in Key(KeyLength)
  BY <1>2, MapIs, KeyIs
<1>4. RootOf(NodeInsert(inner, key, value), WithKey(map, key, value), KeyLength)
  BY <1>1, <1>2, <1>3, RootInsert
<1>5. WithKey(map, key, value) \in Map!Maps
  BY <1>2, MapStays
<1>6. RootOf(inner', map', KeyLength) /\ map' \in Map!Maps
  BY <1>1, <1>4, <1>5
<1> QED
  BY <1>1, <1>6 DEF IInv

\* remove of a key that is found keeps it.
LEMMA RemoveIInv ==
  ASSUME IInv, NEW key \in Keys, RemoveKey(key)
  PROVE  IInv'
<1>1. /\ inner' = NodeRemove(inner, key) /\ NodeRemove(inner, key) # Panic
      /\ NodeGet(inner, key) \in Values
      /\ hash' = NoHash /\ status' = status
      /\ map' = WithoutKey(map, key)
  BY DEF RemoveKey, Map!Remove, WithoutKey
<1>2. map \in Map!Maps /\ RootOf(inner, map, KeyLength)
  BY DEF IInv
<1>3. IsMap(map, KeyLength) /\ KeyLength \in Nat /\ key \in Key(KeyLength)
  BY <1>2, MapIs, KeyIs
<1>4. RootOf(NodeRemove(inner, key), WithoutKey(map, key), KeyLength)
  BY <1>1, <1>2, <1>3, RootRemove
<1>5. WithoutKey(map, key) \in Map!Maps
  BY <1>2, MapStays
<1>6. RootOf(inner', map', KeyLength) /\ map' \in Map!Maps
  BY <1>1, <1>4, <1>5
<1> QED
  BY <1>1, <1>6 DEF IInv

\* A step that leaves the map as it is, forgets the hash or keeps it, and has a
\* root that stands for the map.
LEMMA KeptIInv ==
  ASSUME IInv, RootOf(inner', map, KeyLength), map' = map, status' \in {"ok", "panicked"},
         hash' \in {NoHash, hash, Hash(inner')}
  PROVE  IInv'
<1>1. IsMap(map, KeyLength) /\ KeyLength \in Nat
  BY MapIs DEF IInv
<1>2. Hash(inner') = Hash(TrieOf(map))
  BY <1>1, RootIs
<1> QED
  BY <1>2 DEF IInv

\* So does every step, where what is pruned has no node that is part of the encoding
\* of another.
LEMMA NextIInv ==
  ASSUME IInv, [Next]_vars, ~PruneInlined
  PROVE  IInv'
<1>0. map \in Map!Maps /\ RootOf(inner, map, KeyLength) /\ status \in {"ok", "panicked"}
  BY DEF IInv
<1>1. IsMap(map, KeyLength) /\ KeyLength \in Nat
  BY <1>0, MapIs
<1>2. /\ RootOf(Memoize(inner), map, KeyLength)
      /\ RootOf(Uncached(inner), map, KeyLength)
      /\ \A rlps: RootOf(ResolveDigests(inner, rlps), map, KeyLength)
      /\ \A rlps: RootOf(NodeFromRlp(RlpRoot(inner), rlps), map, KeyLength)
  BY <1>0, <1>1, RootKept
<1>3. ASSUME NEW key \in Keys, NEW value \in Values, InsertKey(key, value) PROVE IInv'
  BY <1>3, InsertIInv
<1>4. ASSUME NEW key \in Keys, NEW value \in Values, Panics(key, value) PROVE IInv'
  BY <1>0, <1>4, KeptIInv DEF Panics, Map!Panic
<1>5. ASSUME NEW key \in Keys, RemoveKey(key) PROVE IInv'
  BY <1>5, RemoveIInv
<1>6. ASSUME NEW key \in Keys, RemoveMissing(key) PROVE IInv'
  <2>1. inner' = inner
    BY <1>6 DEF RemoveMissing, NodeRemove
  <2> QED
    BY <1>0, <1>6, <2>1, KeptIInv DEF RemoveMissing
<1>7. CASE HashRoot
  <2>1. inner' = Memoize(inner) /\ hash' = Hash(inner') /\ map' = map /\ status' = status
    BY <1>7 DEF HashRoot
  <2>2. RootOf(inner', map, KeyLength)
    BY <1>2, <2>1
  <2> QED
    BY <1>0, <2>1, <2>2, KeptIInv
<1>8. CASE Clear
  <2>1. inner' = Null /\ hash' = Digest(Null) /\ map' = <<>> /\ status' = status
    BY <1>8 DEF Clear, Map!Clear
  <2>2. <<>> \in Map!Maps /\ DOMAIN <<>> = {}
    BY EmptyMapIs
  <2>3. Hash(TrieOf(<<>>)) = Digest(Null)
    BY <2>2, MapIs, HashOfTrie
  <2>4. RootOf(Null, <<>>, KeyLength)
    BY <2>2 DEF RootOf, EmptyRoot
  <2> QED
    BY <1>0, <2>1, <2>2, <2>3, <2>4 DEF IInv
<1>9. ASSUME NEW rlps, HydrateFromRlp(rlps) PROVE IInv'
  <2>1. inner' = ResolveDigests(inner, rlps) /\ hash' = hash /\ map' = map /\ status' = status
    BY <1>9 DEF HydrateFromRlp
  <2>2. RootOf(inner', map, KeyLength)
    BY <1>2, <2>1
  <2> QED
    BY <1>0, <2>1, <2>2, KeptIInv
<1>10. CASE SerializeDeserialize
  <2>1. inner' = Uncached(inner) /\ hash' = NoHash /\ map' = map /\ status' = status
    BY <1>10 DEF SerializeDeserialize
  <2>2. RootOf(inner', map, KeyLength)
    BY <1>2, <2>1
  <2> QED
    BY <1>0, <2>1, <2>2, KeptIInv
<1>11. CASE RlpSerializeDeserialize
  <2>1. inner' = NodeFromRlp(RlpRoot(inner), RlpNodes(inner)) /\ hash' = NoHash /\ map' = map /\ status' = status
    BY <1>11 DEF RlpSerializeDeserialize
  <2>2. RootOf(inner', map, KeyLength)
    BY <1>2, <2>1
  <2> QED
    BY <1>0, <2>1, <2>2, KeptIInv
<1>12. ASSUME NEW key \in Keys, ResolveOrphanOf(key) PROVE IInv'
  <2>1. PICK other \in Proved(Without(key), key): inner' = ResolveOrphan(inner, key, other).node
    BY <1>12 DEF ResolveOrphanOf
  <2>2. hash' = hash /\ map' = map /\ status' = status
    BY <1>12 DEF ResolveOrphanOf
  <2>3. other = Null \/ Shape(other, KeyLength)
    <3> DEFINE rest == WithoutKey(map, key)
               root == Hash(TrieOf(rest))
    <3>1. rest \in Map!Maps
      BY <1>0, MapStays
    <3>2. Without(key) = rest
      BY DEF Without, WithoutKey
    <3>3. other = Null \/ (TrieOf(rest) # Null /\ \E rlps: other = NodeFromRlp(root.of, rlps))
      BY <2>1, <3>2 DEF Proved
    <3> HIDE DEF rest
    <3>4. IsMap(rest, KeyLength) /\ KeyLength \in Nat
      BY <3>1, MapIs
    <3>5. /\ DOMAIN rest # {} => \A rlps: RootOf(NodeFromRlp(root.of, rlps), rest, KeyLength)
          /\ TrieOf(rest) # Null => DOMAIN rest # {}
      BY <3>4, RootFrom
    <3> HIDE DEF root
    <3>6. ASSUME TrieOf(rest) # Null, NEW rlps, other = NodeFromRlp(root.of, rlps)
          PROVE  Shape(other, KeyLength)
      <4>1. RootOf(other, rest, KeyLength) /\ DOMAIN rest # {}
        BY <3>5, <3>6
      <4> QED
        BY <4>1, StandsShape DEF RootOf
    <3> QED
      BY <3>3, <3>6
  <2>4. RootOf(inner', map, KeyLength)
    BY <1>0, <1>1, <2>1, <2>3, KeyIs, RootWithOrphan
  <2> QED
    BY <1>0, <2>2, <2>4, KeptIInv
<1>13. ASSUME NEW key \in Keys, ResolveOrphanPanics(key) PROVE IInv'
  BY <1>0, <1>13, KeptIInv DEF ResolveOrphanPanics, Map!Panic
<1>14. CASE PruneToKeys
  <2>1. PICK keys \in SUBSET Keys: inner' = NodePrune(inner, <<>>, keys).node
    BY <1>14 DEF PruneToKeys, Pruned
  <2>2. hash' = NoHash /\ map' = map /\ status' = status /\ ~HasInlined(inner)
    BY <1>14 DEF PruneToKeys
  <2>3. RootOf(inner', map, KeyLength)
    BY <1>0, <1>1, <2>1, <2>2, RootPruned
  <2> QED
    BY <1>0, <2>2, <2>3, KeptIInv
<1>15. CASE UNCHANGED vars
  BY <1>15 DEF vars, IInv
<1> QED
  BY <1>3, <1>4, <1>5, <1>6, <1>7, <1>8, <1>9, <1>10, <1>11, <1>12, <1>13, <1>14, <1>15 DEF Next, Ended

\* Whatever is done with the trie, in whatever order (mod.rs), as long as nothing is pruned
\* that is part of the encoding of another node.
THEOREM InvariantHolds ==
  ASSUME ~PruneInlined
  PROVE  Spec => []IInv
<1>1. Init => IInv
  BY InitIInv
<1>2. IInv /\ [Next]_vars => IInv'
  BY NextIInv
<1> QED
  BY <1>1, <1>2, PTL DEF Spec

\* What the invariant says of the root and of its hash.
LEMMA InvariantSays ==
  ASSUME IInv
  PROVE  TypeOK /\ IsTrieOfMap /\ HashIsRoot
<1>1. IsMap(map, KeyLength) /\ KeyLength \in Nat /\ RootOf(inner, map, KeyLength)
  BY MapIs DEF IInv
<1>2. Hash(inner) = Hash(TrieOf(map)) /\ Expanded(inner) = TrieOf(map) /\ WellFormed(inner, KeyLength)
  BY <1>1, RootIs
<1>3. TypeOK
  <2>1. Hash(TrieOf(map)).t = "digest"
    BY <1>1, RootFrom
  <2>2. hash.t \in {"nohash", "digest"}
    BY <2>1 DEF IInv, NoHash
  <2> QED
    BY <1>2, <2>2 DEF TypeOK, IInv
<1> QED
  BY <1>2, <1>3 DEF IsTrieOfMap, HashIsRoot, HashSlow, IInv

\* The nodes keep their shape: no branch with one child, no extension over anything but a
\* branch, no Null child (node.rs:212, children.rs:23).
THEOREM TypeCorrect ==
  ASSUME ~PruneInlined
  PROVE  Spec => []TypeOK
<1>1. IInv => TypeOK
  BY InvariantSays
<1>2. Spec => []IInv
  BY InvariantHolds
<1> QED
  BY <1>1, <1>2, PTL

\* However much of it is known, and in whatever order it was changed, hydrated, hashed,
\* pruned and sent, the trie is the one trie of the map it was told to be (mod.rs, node.rs).
THEOREM TrieOfMap ==
  ASSUME ~PruneInlined
  PROVE  Spec => []IsTrieOfMap
<1>1. IInv => IsTrieOfMap
  BY InvariantSays
<1>2. Spec => []IInv
  BY InvariantHolds
<1> QED
  BY <1>1, <1>2, PTL

\* Its hash is the root of its map, however much of it comes from caches (mod.rs:191).
THEOREM RootHash ==
  ASSUME ~PruneInlined
  PROVE  Spec => []HashIsRoot
<1>1. IInv => HashIsRoot
  BY InvariantSays
<1>2. Spec => []IInv
  BY InvariantHolds
<1> QED
  BY <1>1, <1>2, PTL

-----------------------------------------------------------------------------
\* The cases of a panic.

\* The beginning of a key.
LEMMA StartOfKey ==
  ASSUME NEW l \in Nat, NEW m \in 0..l, NEW k \in Key(l)
  PROVE  SubSeq(k, 1, m) \in Key(m) /\ \A i \in 1..m: SubSeq(k, 1, m)[i] = k[i]
<1>0. m \in Nat /\ m <= l
  OBVIOUS
<1>1. \A i \in 1..m: k[i] \in Nibble
  BY <1>0, ElementOfSeq DEF Key
<1>2. /\ SubSeq(k, 1, m) \in Seq(Nibble)
      /\ Len(SubSeq(k, 1, m)) = IF 1 <= m THEN m - 1 + 1 ELSE 0
      /\ \A i \in 1..(m - 1 + 1): SubSeq(k, 1, m)[i] = k[1 + i - 1]
  BY <1>0, <1>1, SubSeqProperties
<1> QED
  BY <1>0, <1>2 DEF Key

\* A path is the beginning of a key.
LEMMA PathOfKey ==
  ASSUME NEW l \in Nat, NEW m \in 0..l, NEW p \in Key(m), NEW k \in Key(l)
  PROVE  /\ Len(p) = m
         /\ SubSeq(k, 1, m) = p <=> Shares(p, k, m)
         /\ IsPrefix(p, k) <=> Shares(p, k, m)
<1>0. m \in Nat /\ m <= l
  OBVIOUS
<1>1. SubSeq(k, 1, m) = p <=> Shares(p, k, m)
  <2> DEFINE s == SubSeq(k, 1, m)
  <2>1. s \in Key(m) /\ \A i \in 1..m: s[i] = k[i]
    BY StartOfKey
  <2> HIDE DEF s
  <2>2. s = p <=> \A i \in 1..m: s[i] = p[i]
    BY <1>0, <2>1, KeyEqual
  <2> QED
    BY <2>1, <2>2 DEF Shares, s
<1>2. IsPrefix(p, k) <=> Shares(p, k, m)
  BY <1>0, PrefixNibbles DEF Shares
<1> QED
  BY <1>1, <1>2 DEF Key

\* A digest is on the way of a key.
LEMMA OnTheWayIs ==
  ASSUME NEW l \in Nat, NEW node, Shape(node, l), NEW key \in Key(l)
  PROVE  OnTheWay(key, DigestPaths(node)) <=> Meets(node, key)
<1>1. ASSUME NEW p \in DigestPaths(node) PROVE key \in Below({key}, p) <=> IsPrefix(p, key)
  <2>1. PICK m \in 0..l: p \in Key(m)
    BY DigestPathsAreKeys
  <2>2. key \in Below({key}, p) <=> SubSeq(key, 1, Len(p)) = p
    BY DEF Below
  <2> QED
    BY <2>1, <2>2, PathOfKey
<1> QED
  BY <1>1 DEF OnTheWay, Meets

\* A key of the map has a sibling that is a digest, and no other.
LEMMA OnlySiblingIs ==
  ASSUME NEW l \in Nat, NEW node, Shape(node, l), NEW full, NEW key \in Key(l),
         DOMAIN map \in SUBSET Key(l),
         \A k \in Key(l): NodeGet(full, k) # NoValue <=> k \in DOMAIN map
  PROVE  OnlySibling(key, DigestPaths(node)) <=> HasOnlyBeside(node, full, l, key)
<1> DEFINE Up(p) == SubSeq(p, 1, Len(p) - 1)
           others == DOMAIN map \ {key}
           Sibling(p) == key \in Below({key}, Up(p)) /\ Below(others, Up(p)) = Below(others, p)
<1>1. ASSUME NEW p \in DigestPaths(node), p # <<>> PROVE Sibling(p) <=> \E m: OnlyBeside(p, m, full, l, key)
  <2>1. PICK m \in 0..l: p \in Key(m)
    BY DigestPathsAreKeys
  <2>2. m # 0
    BY <1>1, <2>1, NoNibbles
  <2>3. Len(p) = m
    BY <2>1 DEF Key
  <2> DEFINE n == m - 1
             up == Up(p)
  <2>4. m \in 1..l /\ n \in 0..l /\ n \in 0..m /\ m \in Nat /\ n \in Nat /\ 1..n \subseteq 1..m
    BY <2>2
  <2>5. up = SubSeq(p, 1, n)
    BY <2>3
  <2> HIDE DEF n, up
  <2>6. up \in Key(n) /\ \A i \in 1..n: up[i] = p[i]
    BY <2>1, <2>4, <2>5, StartOfKey
  <2>7. \A k \in Key(l): SubSeq(k, 1, Len(up)) = up <=> Shares(p, k, n)
    <3>1. \A k \in Key(l): SubSeq(k, 1, Len(up)) = up <=> Shares(up, k, n)
      BY <2>4, <2>6, PathOfKey
    <3>2. \A k: Shares(up, k, n) <=> Shares(p, k, n)
      BY <2>6 DEF Shares
    <3> QED
      BY <3>1, <3>2
  <2>8. \A k \in Key(l): SubSeq(k, 1, Len(p)) = p <=> Shares(p, k, m)
    BY <2>1, <2>4, PathOfKey
  <2>9. \A k: Shares(p, k, m) => Shares(p, k, n)
    BY <2>4 DEF Shares
  <2>10. key \in Below({key}, up) <=> Shares(p, key, n)
    BY <2>7 DEF Below
  <2>11. Below(others, up) = Below(others, p) <=> \A k \in others: Shares(p, k, n) => Shares(p, k, m)
    <3>1. \A k \in others: /\ k \in Below(others, up) <=> Shares(p, k, n)
                           /\ k \in Below(others, p) <=> Shares(p, k, m)
      BY <2>7, <2>8 DEF Below
    <3>2. Below(others, up) \subseteq others /\ Below(others, p) \subseteq others
      BY DEF Below
    <3> HIDE DEF others
    <3> QED
      BY <2>9, <3>1, <3>2
  <2>12. \A h: p \in Key(h) => h = m
    BY <2>3 DEF Key
  <2>13. (\E h: OnlyBeside(p, h, full, l, key)) <=> OnlyBeside(p, m, full, l, key)
    BY <2>12 DEF OnlyBeside
  <2>14. OnlyBeside(p, m, full, l, key) <=>
           Shares(p, key, n) /\ \A k \in others: Shares(p, k, n) => Shares(p, k, m)
    BY <2>1, <2>4 DEF OnlyBeside, n
  <2> QED
    BY <2>10, <2>11, <2>13, <2>14 DEF up
<1>2. ASSUME <<>> \in DigestPaths(node) PROVE \A m: ~OnlyBeside(<<>>, m, full, l, key)
  <2>1. ASSUME NEW m, OnlyBeside(<<>>, m, full, l, key) PROVE FALSE
    <3>1. <<>> \in Key(m) /\ m \in 1..l
      BY <2>1 DEF OnlyBeside
    <3> QED
      BY <3>1, NoNibbles DEF Key
  <2> QED
    BY <2>1
<1>3. OnlySibling(key, DigestPaths(node)) <=> \E p \in DigestPaths(node) \ {<<>>}: Sibling(p)
  BY DEF OnlySibling
<1> HIDE DEF Sibling
<1> QED
  BY <1>1, <1>2, <1>3 DEF HasOnlyBeside

\* The empty trie, known or not, has nothing below its root.
LEMMA EmptyPaths ==
  DigestPaths(Null) = {}
<1>1. Null.t = "null" /\ ChildrenOf(Null) = <<>>
  BY DEF Null, ChildrenOf
<1>2. BelowAt(DigestPathsOp, Null) = <<>>
  BY <1>1 DEF BelowAt, DigestPathsOp
<1>3. Fold(DigestPathsOp, Null) = MadeAt(DigestPathsOp, Null, <<>>)
  BY <1>2, FoldOfOne
<1>4. MadeAt(DigestPathsOp, Null, <<>>) = {}
  BY <1>1 DEF MadeAt, DigestPathsOp, DigestPathsFrom, PathsFrom
<1> QED
  BY <1>3, <1>4, DigestPathsIsFold

\* What PanicsAsDocumented says of a key.
PanicsAt(key) ==
  LET paths == DigestPaths(inner)
  IN  /\ NodeGet(inner, key) = IF OnTheWay(key, paths) THEN Panic
                               ELSE IF key \in DOMAIN map THEN map[key] ELSE NoValue
      /\ \A value \in Values: NodeInsert(inner, key, value) = Panic <=> OnTheWay(key, paths)
      /\ NodeRemove(inner, key) = Panic <=>
           OnTheWay(key, paths) \/ (key \in DOMAIN map /\ OnlySibling(key, paths))

\* It is so of the empty trie,
LEMMA EmptyPanics ==
  ASSUME DOMAIN map = {}, inner = Null, NEW key
  PROVE  PanicsAt(key)
<1>1. DigestPaths(inner) = {}
  BY EmptyPaths
<1>2. /\ NodeGet(inner, key) = NoValue
      /\ \A value: NodeInsert(inner, key, value) = LeafNode(key, value, NoCache)
  BY EmptyWalked DEF EmptyRoot
<1>3. \A value: LeafNode(key, value, NoCache) # Panic
  <2>1. \A value: LeafNode(key, value, NoCache).t = "leaf"
    BY DEF LeafNode
  <2>2. Panic.t = "panic"
    BY DEF Panic
  <2> QED
    BY <2>1, <2>2
<1>4. NodeRemove(inner, key) # Panic
  BY <1>2 DEF NodeRemove, Null, Panic
<1>5. ~OnTheWay(key, DigestPaths(inner))
  BY <1>1 DEF OnTheWay
<1> QED
  BY <1>2, <1>3, <1>4, <1>5 DEF PanicsAt

\* and of any other.
LEMMA TriePanics ==
  ASSUME NEW l \in Nat, Shape(inner, l), IsMap(map, l), NEW key \in Key(l),
         NodeGet(inner, key) \in {Panic, ValueIn(map, key)},
         NodeGet(inner, key) \notin {Panic, NoValue} =>
           (LeavesOrphan(inner, key) <=> OnlySibling(key, DigestPaths(inner)))
  PROVE  PanicsAt(key)
<1> DEFINE way == OnTheWay(key, DigestPaths(inner))
           only == OnlySibling(key, DigestPaths(inner))
           got == NodeGet(inner, key)
<1>1. got = Panic <=> way
  BY GetPanics, OnTheWayIs
<1>2. got # Panic => got = IF key \in DOMAIN map THEN map[key] ELSE NoValue
  BY DEF ValueIn
<1>3. got # Panic => (got # NoValue <=> key \in DOMAIN map)
  BY <1>2, ValuesAssumption DEF IsMap
<1>4. \A value \in Values: NodeInsert(inner, key, value) = Panic <=> got = Panic
  BY InsertSets DEF Trie
<1>5. NodeRemove(inner, key) = Panic <=> got = Panic \/ (got # NoValue /\ LeavesOrphan(inner, key))
  BY RemoveUnsets DEF Trie
<1>6. got \notin {Panic, NoValue} => (LeavesOrphan(inner, key) <=> only)
  OBVIOUS
<1> HIDE DEF way, only, got
<1>7. got = IF way THEN Panic ELSE IF key \in DOMAIN map THEN map[key] ELSE NoValue
  BY <1>1, <1>2
<1>8. \A value \in Values: NodeInsert(inner, key, value) = Panic <=> way
  BY <1>1, <1>4
<1>9. NodeRemove(inner, key) = Panic <=> way \/ (key \in DOMAIN map /\ only)
  BY <1>1, <1>3, <1>5, <1>6
<1> QED
  BY <1>7, <1>8, <1>9 DEF PanicsAt, way, only, got

\* The invariant says when get, insert and remove panic.
LEMMA InvariantPanics ==
  ASSUME IInv
  PROVE  PanicsAsDocumented
<1>1. IsMap(map, KeyLength) /\ KeyLength \in Nat /\ RootOf(inner, map, KeyLength)
  BY MapIs DEF IInv
<1>2. ASSUME NEW key \in Keys PROVE PanicsAt(key)
  <2>1. key \in Key(KeyLength)
    BY KeyIs
  <2>2. NodeGet(inner, key) \in {Panic, ValueIn(map, key)}
    BY <1>1, <2>1, RootGet
  <2>3. CASE DOMAIN map = {} /\ inner = Null
    BY <2>3, EmptyPanics
  <2>4. CASE DOMAIN map = {} /\ inner = Digest(Null)
    <3>1. Shape(inner, KeyLength)
      BY <1>1, <2>4, ShapeDigest DEF Digest
    <3>2. NodeGet(inner, key) = Panic
      BY <2>4, EmptyWalked DEF EmptyRoot, Null, Digest
    <3> QED
      BY <1>1, <2>1, <3>1, <3>2, TriePanics
  <2>5. ASSUME Stands(inner, TrieOf(map), KeyLength, TRUE),
               \A k \in Key(KeyLength): NodeGet(TrieOf(map), k) = ValueIn(map, k)
        PROVE  PanicsAt(key)
    <3>1. Shape(inner, KeyLength)
      BY <2>5, StandsShape
    <3>2. NodeGet(inner, key) \notin {Panic, NoValue} =>
            (LeavesOrphan(inner, key) <=> HasOnlyBeside(inner, TrieOf(map), KeyLength, key))
      BY <2>1, <2>5, OrphanIsOnly DEF Bereaves
    <3>3. \A k \in Key(KeyLength): NodeGet(TrieOf(map), k) # NoValue <=> k \in DOMAIN map
      BY <1>1, <2>5, ValuesAssumption DEF IsMap, ValueIn
    <3>4. DOMAIN map \in SUBSET Key(KeyLength)
      BY <1>1 DEF IsMap
    <3>5. OnlySibling(key, DigestPaths(inner)) <=> HasOnlyBeside(inner, TrieOf(map), KeyLength, key)
      BY <1>1, <2>1, <3>1, <3>3, <3>4, OnlySiblingIs
    <3> QED
      BY <1>1, <2>1, <2>2, <3>1, <3>2, <3>5, TriePanics
  <2> QED
    BY <1>1, <2>3, <2>4, <2>5, RootStands DEF EmptyRoot
<1> QED
  BY <1>2 DEF PanicsAsDocumented, PanicsAt

\* get answers from the map or meets a digest; get, insert and remove panic where there is a
\* digest on the way, remove also where it is the only sibling, and nowhere else (mod.rs:53,
\* 63, 80).
THEOREM PanicsOnlyAsDocumented ==
  ASSUME ~PruneInlined
  PROVE  Spec => []PanicsAsDocumented
<1>1. IInv => PanicsAsDocumented
  BY InvariantPanics
<1>2. Spec => []IInv
  BY InvariantHolds
<1> QED
  BY <1>1, <1>2, PTL

\* What PruneKeepsPaths says of some keys.
PruneKeepsPathsOf(keys) ==
  /\ \A p: p \in NodePaths(Pruned(keys)) <=> p \in NodePaths(inner) /\ \E key \in keys: IsPrefix(p, key)
  /\ \A key \in keys: NodeGet(Pruned(keys), key) = NodeGet(inner, key)

\* It is so of a trie that has nodes, or is known by its digest,
LEMMA TriePrunes ==
  ASSUME NEW l \in Nat, Shape(inner, l), NEW keys \in SUBSET Key(l), IsFiniteSet(keys)
  PROVE  PruneKeepsPathsOf(keys)
<1>1. PrunedTo(Pruned(keys), inner, l, <<>>, keys)
  BY PruneWalks DEF Pruned
<1>2. ASSUME NEW m \in Nat, NEW p \in Key(m) PROVE Joined(<<>>, p) = p
  <2> HIDE DEF Nibble
  <2> QED
    BY ConcatEmptySeq DEF Joined, Key
<1>3. ASSUME NEW p \in NodePaths(inner) PROVE Joined(<<>>, p) = p
  BY <1>2, NodePathsAreKeys
<1>4. \A p: p \in NodePaths(Pruned(keys)) <=> p \in NodePaths(inner) /\ \E key \in keys: IsPrefix(p, key)
  BY <1>1, <1>3 DEF PrunedTo, KeepsNodes, Wanted
<1>5. \A key \in keys: NodeGet(Pruned(keys), key) = NodeGet(inner, key)
  BY <1>1, <1>2 DEF PrunedTo, KeepsKeys
<1> QED
  BY <1>4, <1>5 DEF PruneKeepsPathsOf

\* and of the empty one.
LEMMA EmptyPrunes ==
  ASSUME inner = Null, NEW l \in Nat, NEW keys \in SUBSET Key(l), IsFiniteSet(keys)
  PROVE  PruneKeepsPathsOf(keys)
<1>1. NodePaths(inner) = {}
  BY PrunedNull
<1>2. NodePaths(Pruned(keys)) = {}
  <2>1. CASE Pruned(keys) = Null
    BY <1>1, <2>1
  <2>2. CASE Pruned(keys) = Digest(Null)
    <3>1. Pruned(keys).t = "digest"
      BY <2>2 DEF Digest
    <3>2. Shape(Pruned(keys), l)
      BY <3>1, ShapeDigest
    <3> QED
      BY <3>1, <3>2, NodePathsAt
  <2>3. EmptyRoot(Pruned(keys))
    BY EmptyPruned DEF EmptyRoot, Pruned
  <2> QED
    BY <2>1, <2>2, <2>3 DEF EmptyRoot
<1>3. ASSUME NEW key \in keys PROVE NodeGet(Pruned(keys), key) = NodeGet(inner, key)
  BY PrunedNull DEF Pruned
<1> QED
  BY <1>1, <1>2, <1>3 DEF PruneKeepsPathsOf

\* One pass of the cursor over the sorted keys keeps exactly the nodes on the ways of the keys
\* (node.rs:298), and what each of the keys gets.
THEOREM PruneKeepsWays ==
  ASSUME ~PruneInlined
  PROVE  Spec => []PruneKeepsPaths
<1>1. ASSUME IInv PROVE PruneKeepsPaths
  <2>1. IsMap(map, KeyLength) /\ KeyLength \in Nat /\ RootOf(inner, map, KeyLength)
    BY <1>1, MapIs DEF IInv
  <2>2. inner = Null \/ Shape(inner, KeyLength)
    <3>1. CASE inner = Digest(Null)
      BY <2>1, <3>1, ShapeDigest DEF Digest
    <3>2. CASE \E full: Stands(inner, full, KeyLength, TRUE)
      BY <3>2, StandsShape
    <3> QED
      BY <2>1, <3>1, <3>2 DEF RootOf, EmptyRoot
  <2>3. ASSUME NEW keys \in SUBSET Keys PROVE PruneKeepsPathsOf(keys)
    <3>1. keys \in SUBSET Key(KeyLength) /\ IsFiniteSet(keys)
      BY KeyIs, FS_Subset, KeysAssumption
    <3> QED
      BY <2>1, <2>2, <3>1, TriePrunes, EmptyPrunes
  <2>4. ASSUME NEW keys \in SUBSET Keys
        PROVE  /\ NodePaths(Pruned(keys)) = {p \in NodePaths(inner): \E key \in keys: IsPrefix(p, key)}
               /\ \A key \in keys: key \in Keys /\ NodeGet(Pruned(keys), key) = NodeGet(inner, key)
    BY <2>3 DEF PruneKeepsPathsOf
  <2> QED
    BY <2>4 DEF PruneKeepsPaths
<1>2. Spec => []IInv
  BY InvariantHolds
<1> QED
  BY <1>1, <1>2, PTL

-----------------------------------------------------------------------------
\* What is resolved.

\* A node is resolved by resolving what is below it; a digest, if its encoding is
\* supplied, by resolving its node.
LEMMA ResolvedAt ==
  ASSUME NEW l, NEW node, NEW full, NEW atop, Stands(node, full, l, atop), NEW rlps
  PROVE  ResolveDigests(node, rlps) =
           IF node.t # "digest"
           THEN WithChildren(node, [i \in DOMAIN ChildrenOf(node) |-> ResolveDigests(ChildrenOf(node)[i], rlps)])
           ELSE IF node.of \in rlps THEN ResolveDigests(DecodeCached(node.of, node), rlps) ELSE node
<1> DEFINE op == ResolveOp(rlps)
           parts == BelowAt(op, node)
           below == [i \in DOMAIN parts |-> Fold(op, parts[i])]
<1>0. /\ parts = IF IsSupplied(node, rlps) THEN BelowDigests(node) ELSE <<>>
      /\ \A b: MadeAt(op, node, b) = ResolveFrom(node, b)
  BY DEF BelowAt, MadeAt, ResolveOp
<1>1. \A x: ResolveDigests(x, rlps) = Fold(op, x)
  BY ResolveIsFold
<1>2. \E depth: HasRank(op, node, depth)
  BY ResolveRanked
<1>3. Fold(op, node) = ResolveFrom(node, below)
  <2>1. Fold(op, node) = MadeOver(op, node)
    BY <1>2, FoldUnfolds
  <2> QED
    BY <1>0, <2>1 DEF MadeOver
<1> HIDE DEF op
<1>4. CASE node.t # "digest"
  <2>1. parts = ChildrenOf(node)
    BY <1>0, <1>4 DEF IsSupplied, BelowDigests
  <2> DEFINE resolved == [i \in DOMAIN ChildrenOf(node) |-> ResolveDigests(ChildrenOf(node)[i], rlps)]
  <2>2. below = resolved
    BY <1>1, <2>1
  <2> HIDE DEF below, resolved
  <2>3. Fold(op, node) = WithChildren(node, resolved)
    BY <1>3, <1>4, <2>2 DEF ResolveFrom
  <2> QED
    BY <1>1, <1>4, <2>3 DEF resolved
<1>5. CASE node.t = "digest" /\ node.of \in rlps
  <2> DEFINE y == DecodeCached(node.of, node)
  <2>1. parts = <<y>>
    BY <1>0, <1>5 DEF IsSupplied, BelowDigests
  <2> HIDE DEF y
  <2>2. DOMAIN below = {1} /\ below[1] = Fold(op, y)
    BY <2>1
  <2>3. DOMAIN <<>> = {}
    OBVIOUS
  <2> HIDE DEF below
  <2>4. below # <<>>
    BY <2>2, <2>3
  <2>5. Fold(op, node) = Fold(op, y)
    BY <1>3, <1>5, <2>2, <2>4 DEF ResolveFrom
  <2> QED
    BY <1>1, <1>5, <2>5 DEF y
<1>6. CASE node.t = "digest" /\ node.of \notin rlps
  <2>1. parts = <<>>
    BY <1>0, <1>6 DEF IsSupplied
  <2>2. below = <<>>
    BY <2>1
  <2> HIDE DEF below
  <2>3. Fold(op, node) = node
    BY <1>3, <1>6, <2>2 DEF ResolveFrom, WithChildren
  <2> QED
    BY <1>1, <1>6, <2>3
<1> QED
  BY <1>4, <1>5, <1>6

\* So a leaf stays,
LEMMA LeafResolved ==
  ASSUME NEW l, NEW node, NEW full, NEW atop, Stands(node, full, l, atop), NEW rlps, node.t = "leaf"
  PROVE  ResolveDigests(node, rlps) = node
<1> DEFINE below == [i \in DOMAIN ChildrenOf(node) |-> ResolveDigests(ChildrenOf(node)[i], rlps)]
<1>1. ResolveDigests(node, rlps) = WithChildren(node, below)
  BY ResolvedAt
<1> HIDE DEF below
<1> QED
  BY <1>1 DEF WithChildren

\* and an extension and a branch keep all but their children.
LEMMA ExtensionResolved ==
  ASSUME NEW l \in Nat, NEW node, NEW full, NEW atop, NEW n, NEW path, NEW child, NEW part, NEW cache,
         ExtensionStands(node, full, l, atop, n, path, child, part, cache), NEW rlps,
         NEW resolved, resolved = ResolveDigests(child, rlps)
  PROVE  /\ ResolveDigests(node, rlps) = ExtensionNode(path, resolved, cache)
         /\ ExtensionStands(ResolveDigests(node, rlps), full, l, atop, n, path, resolved, part, cache)
<1> DEFINE below == [i \in DOMAIN ChildrenOf(node) |-> ResolveDigests(ChildrenOf(node)[i], rlps)]
<1>1. /\ node = ExtensionNode(path, child, cache) /\ FullExtension(full, l, n, path, part)
      /\ cache \in Caches(full, atop) /\ Stands(child, part, l - n, FALSE)
  BY DEF ExtensionStands
<1>2. Stands(node, full, l, atop)
  BY ExtensionStandsIn
<1>3. node.t = "extension"
  BY <1>1 DEF ExtensionNode
<1>4. ResolveDigests(node, rlps) = WithChildren(node, below)
  BY <1>2, <1>3, ResolvedAt
<1>5. below[1] = resolved
  <2>1. ChildrenOf(node) = <<child>>
    BY <1>1, ChildrenOfKinds
  <2> QED
    BY <2>1
<1> HIDE DEF below
<1>6. ResolveDigests(node, rlps) = [node EXCEPT !.child = resolved]
  BY <1>3, <1>4, <1>5 DEF WithChildren
<1>7. ResolveDigests(node, rlps) = ExtensionNode(path, resolved, cache)
  BY <1>1, <1>6 DEF ExtensionNode
<1>8. Stands(resolved, part, l - n, FALSE)
  BY <1>1, ResolveKeeps
<1> QED
  BY <1>1, <1>7, <1>8 DEF ExtensionStands

\* Resolving a branch resolves each of its children.
LEMMA BranchResolved ==
  ASSUME NEW l \in Nat, NEW node, NEW full, NEW atop, NEW nibs, NEW children, NEW parts, NEW cache,
         BranchStands(node, full, l, atop, nibs, children, parts, cache), NEW rlps,
         NEW resolved, resolved = [i \in nibs |-> ResolveDigests(children[i], rlps)]
  PROVE  /\ ResolveDigests(node, rlps) = BranchNode(resolved, cache)
         /\ BranchStands(ResolveDigests(node, rlps), full, l, atop, nibs, resolved, parts, cache)
<1> DEFINE below == [i \in DOMAIN ChildrenOf(node) |-> ResolveDigests(ChildrenOf(node)[i], rlps)]
<1>1. /\ node = BranchNode(children, cache) /\ FullBranch(full, l, nibs, parts)
      /\ cache \in Caches(full, atop) /\ children = [i \in nibs |-> children[i]]
      /\ \A i \in nibs: Stands(children[i], parts[i], l - 1, FALSE)
  BY DEF BranchStands
<1>2. Stands(node, full, l, atop)
  BY BranchStandsIn
<1>3. node.t = "branch"
  BY <1>1 DEF BranchNode
<1>4. ResolveDigests(node, rlps) = WithChildren(node, below)
  BY <1>2, <1>3, ResolvedAt
<1>5. below = resolved
  <2>1. ChildrenOf(node) = children /\ DOMAIN children = nibs
    BY <1>1, ChildrenOfKinds
  <2> QED
    BY <2>1
<1> HIDE DEF below
<1>6. ResolveDigests(node, rlps) = [node EXCEPT !.children = resolved]
  BY <1>3, <1>4, <1>5 DEF WithChildren
<1>7. ResolveDigests(node, rlps) = BranchNode(resolved, cache)
  BY <1>1, <1>6 DEF BranchNode
<1>8. \A i \in nibs: Stands(resolved[i], parts[i], l - 1, FALSE)
  BY <1>1, ResolveKeeps
<1>9. resolved = [i \in nibs |-> resolved[i]]
  OBVIOUS
<1> QED
  BY <1>1, <1>7, <1>8, <1>9 DEF BranchStands

\* A digest is that of the node it stands for, and resolved like it if it is supplied.
LEMMA DigestResolved ==
  ASSUME NEW l, NEW node, NEW full, NEW atop, Stands(node, full, l, atop), node.t = "digest", NEW rlps
  PROVE  /\ node = Digest(RlpEncoded(full)) /\ node.of = RlpEncoded(full)
         /\ RlpEncoded(full) \in rlps =>
              \E y: Stands(y, full, l, atop) /\ y.t # "digest" /\ ResolveDigests(node, rlps) = ResolveDigests(y, rlps)
         /\ RlpEncoded(full) \notin rlps => ResolveDigests(node, rlps) = node
<1>1. node \in Refs(full, atop) /\ Full(full, l)
  BY DEF Stands, StandsHere
<1>2. node = Digest(RlpEncoded(full))
  BY <1>1, RefOfFull
<1>3. node.of = RlpEncoded(full)
  BY <1>2 DEF Digest
<1>4. Stands(DecodeCached(node.of, node), full, l, atop) /\ DecodeCached(node.of, node).t # "digest"
  BY <1>1, <1>3, DecodeCachedStands DEF Caches
<1>5. ResolveDigests(node, rlps) =
        IF node.of \in rlps THEN ResolveDigests(DecodeCached(node.of, node), rlps) ELSE node
  BY ResolvedAt
<1> QED
  BY <1>2, <1>3, <1>4, <1>5

\* The walk of the first nibbles of a key ends, too.
LEMMA ShortInto ==
  ASSUME NEW l \in Nat, NEW node, Shape(node, l), NEW m \in 0..l, NEW q \in Key(m),
         NEW at, at = Place(node, q), Descends(at)
  PROVE  \E d \in 0..(l - 1): \E j \in 0..d: Shape(Into(at).node, d) /\ Into(at).key \in Key(j)
<1>0. at.node = node /\ at.key = q /\ m \in Nat
  BY DEF Place
<1>1. ASSUME NEW n, NEW path, NEW child, NEW cache, IsExtension(node, l, n, path, child, cache)
      PROVE  \E d \in 0..(l - 1): \E j \in 0..d: Shape(Into(at).node, d) /\ Into(at).key \in Key(j)
  <2>1. /\ node.t = "extension" /\ node.path = path /\ node.child = child /\ Len(path) = n
        /\ n \in 1..l /\ path \in Key(n) /\ Shape(child, l - n)
    BY <1>1 DEF IsExtension, ExtensionNode, Key
  <2>2. IsPrefix(path, q)
    BY <1>0, <2>1 DEF Descends
  <2>3. n \in Nat /\ l - n \in 0..(l - 1)
    BY <2>1
  <2>4. n <= m
    BY <1>0, <2>1, <2>2, <2>3, PrefixNibbles
  <2>5. n \in 0..m /\ m - n \in 0..(l - n)
    BY <2>1, <2>4
  <2>6. Drop(q, n) \in Key(m - n)
    BY <1>0, <2>5, DropKey
  <2>7. Into(at).node = child /\ Into(at).key = Drop(q, n)
    BY <1>0, <2>1 DEF Into
  <2> QED
    BY <2>1, <2>3, <2>5, <2>6, <2>7
<1>2. ASSUME NEW nibs, NEW children, NEW cache, IsBranch(node, l, nibs, children, cache)
      PROVE  \E d \in 0..(l - 1): \E j \in 0..d: Shape(Into(at).node, d) /\ Into(at).key \in Key(j)
  <2>1. /\ node.t = "branch" /\ node.children = children /\ DOMAIN children = nibs /\ l > 0
        /\ \A i \in nibs: Shape(children[i], l - 1)
    BY <1>2 DEF IsBranch, BranchNode
  <2>2. q # <<>> /\ Head(q) \in nibs
    BY <1>0, <2>1 DEF Descends
  <2>3. m > 0
    BY <1>0, <2>2, NoNibbles
  <2>4. Tail(q) \in Key(m - 1)
    BY <1>0, <2>3, HeadTail
  <2>5. l - 1 \in 0..(l - 1) /\ m - 1 \in 0..(l - 1)
    BY <2>1, <2>3
  <2>6. Into(at).node = children[Head(q)] /\ Into(at).key = Tail(q)
    BY <1>0, <2>1 DEF Into
  <2>7. Shape(Into(at).node, l - 1) /\ Into(at).key \in Key(m - 1)
    BY <2>1, <2>2, <2>4, <2>6
  <2> QED
    BY <2>5, <2>7
<1>3. node.t \in {"extension", "branch"}
  BY <1>0 DEF Descends
<1> QED
  BY <1>1, <1>2, <1>3, ShapeCases DEF IsLeaf, LeafNode

\* Every key that is not longer than those of the node has a way in it.
LEMMA ShortWays ==
  \A l \in Nat: \A node, q: \A m \in 0..l: Shape(node, l) /\ q \in Key(m) => \E x: HasResult(WalkOp, node, q, x)
<1> DEFINE S == {l \in Nat: \A node, q: \A m \in 0..l:
                   Shape(node, l) /\ q \in Key(m) => \E x: HasResult(WalkOp, node, q, x)}
<1>1. ASSUME NEW l \in Nat, \A d \in 0..(l - 1): d \in S PROVE l \in S
  <2> SUFFICES ASSUME NEW node, NEW q, NEW m \in 0..l, Shape(node, l), q \in Key(m)
               PROVE  \E x: HasResult(WalkOp, node, q, x)
    OBVIOUS
  <2> DEFINE at == Place(node, q)
  <2>1. CASE ~Descends(at)
    BY <2>1, ResultAtEnd
  <2>2. CASE Descends(at)
    <3>1. PICK d \in 0..(l - 1): \E j \in 0..d: Shape(Into(at).node, d) /\ Into(at).key \in Key(j)
      BY <2>2, ShortInto
    <3>2. d \in S
      BY <1>1
    <3>3. PICK x: HasResult(WalkOp, Into(at).node, Into(at).key, x)
      BY <3>1, <3>2
    <3> HIDE DEF S
    <3> QED
      BY <2>2, <3>3, ResultAbove
  <2> QED
    BY <2>1, <2>2
<1> HIDE DEF S
<1>2. \A l \in Nat: l \in S
  BY <1>1, SetInduction
<1> QED
  BY <1>2 DEF S

\* Such a way goes on in the next node.
LEMMA ShortWalk ==
  ASSUME NEW l \in Nat, NEW node, Shape(node, l), NEW m \in 0..l, NEW q \in Key(m),
         NEW at, at = Place(node, q), Descends(at)
  PROVE  Walk(node, q) = Walk(Into(at).node, Into(at).key)
<1>1. PICK d \in 0..(l - 1): \E j \in 0..d: Shape(Into(at).node, d) /\ Into(at).key \in Key(j)
  BY ShortInto
<1>2. d \in Nat
  OBVIOUS
<1>3. PICK x: HasResult(WalkOp, Into(at).node, Into(at).key, x)
  BY <1>1, <1>2, ShortWays
<1>4. HasResult(WalkOp, node, q, Above(WalkOp, at, x))
  BY <1>3, ResultAbove
<1>5. HasResult(WalkOp, node, q, x)
  BY <1>4, OperationsAt
<1> QED
  BY <1>3, <1>5, WalkResult

\* Through an extension: past its path, or no further than the extension.
LEMMA ShortWalkExtension ==
  ASSUME NEW l \in Nat, NEW node, NEW n, NEW path, NEW child, NEW cache,
         IsExtension(node, l, n, path, child, cache), NEW m \in 0..l, NEW q \in Key(m)
  PROVE  /\ IsPrefix(path, q) => Walk(node, q) = Walk(child, Drop(q, n))
         /\ ~IsPrefix(path, q) => Walk(node, q) = Place(node, q)
<1> DEFINE at == Place(node, q)
<1>0. /\ node.t = "extension" /\ node.path = path /\ node.child = child /\ Len(path) = n
      /\ at.node = node /\ at.key = q
  BY DEF IsExtension, ExtensionNode, Key, Place
<1>1. Shape(node, l)
  BY ShapeExtension DEF IsExtension
<1>2. Descends(at) <=> IsPrefix(path, q)
  BY <1>0 DEF Descends
<1>3. Into(at).node = child /\ Into(at).key = Drop(q, n)
  BY <1>0 DEF Into
<1> HIDE DEF at
<1> QED
  BY <1>1, <1>2, <1>3, ShortWalk, EndOfWay DEF at

\* Through a branch: to the child of the first nibble, or no further than the branch.
LEMMA ShortWalkBranch ==
  ASSUME NEW l \in Nat, NEW node, NEW nibs, NEW children, NEW cache,
         IsBranch(node, l, nibs, children, cache), NEW m \in 0..l, NEW q \in Key(m)
  PROVE  /\ m > 0 /\ q[1] \in nibs => Walk(node, q) = Walk(children[q[1]], Drop(q, 1))
         /\ m = 0 \/ q[1] \notin nibs => Walk(node, q) = Place(node, q)
<1> DEFINE at == Place(node, q)
<1>0. /\ node.t = "branch" /\ node.children = children /\ DOMAIN children = nibs
      /\ at.node = node /\ at.key = q /\ m \in Nat
  BY DEF IsBranch, BranchNode, Place
<1>1. Shape(node, l)
  BY ShapeBranch DEF IsBranch
<1>2. m > 0 => q # <<>> /\ Head(q) = q[1] /\ Tail(q) = Drop(q, 1)
  BY <1>0, HeadTail
<1>3. m = 0 => q = <<>>
  BY <1>0, NoNibbles
<1>4. Descends(at) <=> m > 0 /\ q[1] \in nibs
  BY <1>0, <1>2, <1>3 DEF Descends
<1>5. m > 0 => Into(at).node = children[q[1]] /\ Into(at).key = Drop(q, 1)
  BY <1>0, <1>2 DEF Into
<1> HIDE DEF at
<1> QED
  BY <1>0, <1>1, <1>4, <1>5, ShortWalk, EndOfWay DEF at

\* No nibble leads nowhere.
LEMMA WalkNowhere ==
  ASSUME NEW l \in Nat, NEW node, Shape(node, l)
  PROVE  Walk(node, <<>>) = Place(node, <<>>)
<1>0. <<>> \in Key(0) /\ 0 \in 0..l
  BY NoNibbles
<1>1. CASE node.t \notin {"extension", "branch"}
  BY <1>1, AtEnd
<1>2. ASSUME NEW n, NEW path, NEW child, NEW cache, IsExtension(node, l, n, path, child, cache)
      PROVE  Walk(node, <<>>) = Place(node, <<>>)
  <2>1. path \in Key(n) /\ n \in Nat /\ n > 0
    BY <1>2 DEF IsExtension
  <2>2. ~IsPrefix(path, <<>>)
    BY <1>0, <2>1, PrefixNibbles
  <2> QED
    BY <1>0, <1>2, <2>2, ShortWalkExtension
<1>3. ASSUME NEW nibs, NEW children, NEW cache, IsBranch(node, l, nibs, children, cache)
      PROVE  Walk(node, <<>>) = Place(node, <<>>)
  BY <1>0, <1>3, ShortWalkBranch
<1> QED
  BY <1>1, <1>2, <1>3, ShapeCases DEF IsLeaf, LeafNode

\* A part of a part is a part.
LEMMA PartOfPart ==
  ASSUME NEW l \in Nat, NEW n \in 0..l, NEW p \in Key(n), NEW d, d = l - n, NEW full, NEW part,
         HasPart(full, l, p, n, part),
         NEW m \in 0..d, NEW q \in Key(m), NEW sub, HasPart(part, d, q, m, sub)
  PROVE  HasPart(full, l, Joined(p, q), n + m, sub)
<1> SUFFICES ASSUME NEW k \in Key(l), IsPrefix(Joined(p, q), k)
             PROVE  NodeGet(full, k) = NodeGet(sub, Drop(k, n + m))
  BY DEF HasPart
<1>0. n \in Nat /\ m \in Nat
  OBVIOUS
<1>1. IsPrefix(p, k) /\ IsPrefix(q, Drop(k, n)) /\ Drop(k, n + m) = Drop(Drop(k, n), m)
  BY <1>0, JoinedPrefix
<1>2. Drop(k, n) \in Key(d)
  BY DropKey
<1>3. NodeGet(full, k) = NodeGet(part, Drop(k, n))
  BY <1>1 DEF HasPart
<1>4. NodeGet(part, Drop(k, n)) = NodeGet(sub, Drop(Drop(k, n), m))
  BY <1>1, <1>2 DEF HasPart
<1> QED
  BY <1>1, <1>3, <1>4

\* A full trie is its own part under the empty path.
LEMMA WholePart ==
  ASSUME NEW l \in Nat, NEW full
  PROVE  HasPart(full, l, <<>>, 0, full)
BY DropNone DEF HasPart

\* The child of an extension is the part under the path.
LEMMA ExtensionPart ==
  ASSUME NEW l \in Nat, NEW node, NEW n, NEW path, NEW child, NEW cache,
         IsExtension(node, l, n, path, child, cache)
  PROVE  HasPart(node, l, path, n, child)
BY AtExtension DEF HasPart

\* A path of one nibble is a prefix of the keys that start with it.
LEMMA FirstNibble ==
  ASSUME NEW i \in Nibble, NEW l \in Nat, l > 0, NEW k \in Key(l)
  PROVE  IsPrefix(<<i>>, k) <=> k[1] = i
<1> DEFINE first == <<i>>
<1>1. first \in Key(1) /\ first[1] = i
  BY OneNibble
<1> HIDE DEF first
<1>2. 1 <= l /\ 1 \in Nat /\ \A j \in 1..1: j = 1
  OBVIOUS
<1>3. IsPrefix(first, k) <=> k[1] = i
  BY <1>1, <1>2, PrefixNibbles
<1> QED
  BY <1>3 DEF first

\* A child of a branch is the part under its nibble.
LEMMA BranchPart ==
  ASSUME NEW l \in Nat, NEW node, NEW nibs, NEW children, NEW cache,
         IsBranch(node, l, nibs, children, cache), NEW i \in nibs
  PROVE  HasPart(node, l, <<i>>, 1, children[i])
<1>1. i \in Nibble /\ l > 0
  BY DEF IsBranch
<1>2. ASSUME NEW k \in Key(l), k[1] = i PROVE NodeGet(node, k) = NodeGet(children[i], Drop(k, 1))
  BY <1>2, AtBranch
<1> QED
  BY <1>1, <1>2, FirstNibble DEF HasPart

\* What a digest at the end of a path is: that of a part of the trie, to which the
\* walk of the path leads, and which is there once it is supplied.
LeadsToNode(node, p) == \E x: x.t # "digest" /\ Walk(node, p) = Place(x, <<>>)
\* A digest of a part, under the path p of the node, that its encoding resolves.
SuppliedBy(node, p, rlp) == \A rlps: rlp \in rlps => LeadsToNode(ResolveDigests(node, rlps), p)
DigestOf(node, full, l, p, m, sub) ==
  /\ m \in 0..l /\ p \in Key(m) /\ Full(sub, l - m) /\ HasPart(full, l, p, m, sub)
  /\ Walk(node, p) = Place(Digest(RlpEncoded(sub)), <<>>)
  /\ SuppliedBy(node, p, RlpEncoded(sub))
HasDigestAt(node, full, l, p) == \E m, sub: DigestOf(node, full, l, p, m, sub)

\* A digest in a part of the node is one of the node, under the joined path.
LEMMA DigestBelow ==
  ASSUME NEW l \in Nat, NEW n \in 0..l, NEW q \in Key(n), NEW d, d = l - n, NEW node, NEW full,
         NEW child, NEW part, HasPart(full, l, q, n, part),
         NEW p, HasDigestAt(child, part, d, p), NEW r, r = Joined(q, p),
         Walk(node, r) = Walk(child, p),
         \A rlps: Walk(ResolveDigests(node, rlps), r) = Walk(ResolveDigests(child, rlps), p)
  PROVE  HasDigestAt(node, full, l, r)
<1>1. PICK m, sub: DigestOf(child, part, d, p, m, sub)
  BY DEF HasDigestAt
<1>2. m \in 0..d /\ p \in Key(m) /\ Full(sub, d - m) /\ HasPart(part, d, p, m, sub)
  BY <1>1 DEF DigestOf
<1>3. d \in Nat /\ n \in Nat /\ m \in Nat /\ n + m \in 0..l /\ l - (n + m) = d - m
  BY <1>2
<1>4. r \in Key(n + m)
  BY <1>2, <1>3, JoinedPath
<1>5. HasPart(full, l, r, n + m, sub)
  BY <1>2, PartOfPart
<1>6. Walk(node, r) = Place(Digest(RlpEncoded(sub)), <<>>)
  BY <1>1 DEF DigestOf
<1>7. SuppliedBy(node, r, RlpEncoded(sub))
  BY <1>1 DEF DigestOf, SuppliedBy, LeadsToNode
<1>8. Full(sub, l - (n + m))
  BY <1>2, <1>3
<1>9. DigestOf(node, full, l, r, n + m, sub)
  BY <1>3, <1>4, <1>5, <1>6, <1>7, <1>8 DEF DigestOf
<1> QED
  BY <1>9 DEF HasDigestAt

\* What is no digest is none once it is resolved.
LEMMA ResolvedKind ==
  ASSUME NEW l, NEW node, NEW full, NEW atop, Stands(node, full, l, atop), node.t # "digest", NEW rlps
  PROVE  ResolveDigests(node, rlps).t = node.t
<1>0. l \in Nat
  BY StandsCases
<1>1. ASSUME NEW path, NEW value, NEW cache, LeafStands(node, full, l, atop, path, value, cache)
      PROVE  ResolveDigests(node, rlps).t = node.t
  <2>1. node.t = "leaf"
    BY <1>1 DEF LeafStands, LeafNode
  <2> QED
    BY <2>1, LeafResolved
<1>2. ASSUME NEW n, NEW path, NEW child, NEW part, NEW cache,
             ExtensionStands(node, full, l, atop, n, path, child, part, cache)
      PROVE  ResolveDigests(node, rlps).t = node.t
  <2>1. node = ExtensionNode(path, child, cache)
    BY <1>2 DEF ExtensionStands
  <2>2. ResolveDigests(node, rlps) = ExtensionNode(path, ResolveDigests(child, rlps), cache)
    BY <1>0, <1>2, ExtensionResolved
  <2> QED
    BY <2>1, <2>2 DEF ExtensionNode
<1>3. ASSUME NEW nibs, NEW children, NEW parts, NEW cache,
             BranchStands(node, full, l, atop, nibs, children, parts, cache)
      PROVE  ResolveDigests(node, rlps).t = node.t
  <2>1. node = BranchNode(children, cache)
    BY <1>3 DEF BranchStands
  <2>2. ResolveDigests(node, rlps) = BranchNode([i \in nibs |-> ResolveDigests(children[i], rlps)], cache)
    BY <1>0, <1>3, BranchResolved
  <2> QED
    BY <2>1, <2>2 DEF BranchNode
<1> QED
  BY <1>1, <1>2, <1>3, StandsCases

\* A digest is found under the empty path.
LEMMA DigestItself ==
  ASSUME NEW l, NEW node, NEW full, NEW atop, Stands(node, full, l, atop), node.t = "digest"
  PROVE  HasDigestAt(node, full, l, <<>>)
<1>1. l \in Nat /\ Full(full, l) /\ Shape(node, l)
  BY StandsShape
<1>2. node = Digest(RlpEncoded(full))
  BY DigestResolved
<1>3. Walk(node, <<>>) = Place(Digest(RlpEncoded(full)), <<>>)
  BY <1>1, <1>2, WalkNowhere
<1>4. SuppliedBy(node, <<>>, RlpEncoded(full))
  <2> SUFFICES ASSUME NEW rlps, RlpEncoded(full) \in rlps PROVE LeadsToNode(ResolveDigests(node, rlps), <<>>)
    BY DEF SuppliedBy
  <2> DEFINE resolved == ResolveDigests(node, rlps)
  <2>1. PICK y: Stands(y, full, l, atop) /\ y.t # "digest" /\ resolved = ResolveDigests(y, rlps)
    BY DigestResolved
  <2>2. resolved.t = y.t
    BY <2>1, ResolvedKind
  <2>3. Stands(resolved, full, l, atop)
    BY ResolveKeeps
  <2> HIDE DEF resolved
  <2>4. Shape(resolved, l)
    BY <2>3, StandsShape
  <2>5. Walk(resolved, <<>>) = Place(resolved, <<>>)
    BY <1>1, <2>4, WalkNowhere
  <2>6. LeadsToNode(resolved, <<>>)
    BY <2>1, <2>2, <2>5 DEF LeadsToNode
  <2> QED
    BY <2>6 DEF resolved
<1>5. 0 \in 0..l /\ <<>> \in Key(0) /\ l - 0 = l
  BY <1>1, NoNibbles
<1>6. HasPart(full, l, <<>>, 0, full)
  BY <1>1, WholePart
<1>7. DigestOf(node, full, l, <<>>, 0, full)
  BY <1>1, <1>3, <1>4, <1>5, <1>6 DEF DigestOf
<1> QED
  BY <1>7 DEF HasDigestAt

\* A digest below an extension.
LEMMA DigestThroughExtension ==
  ASSUME NEW l \in Nat, NEW node, NEW full, NEW atop, NEW n, NEW path, NEW child, NEW part, NEW cache,
         ExtensionStands(node, full, l, atop, n, path, child, part, cache), NEW d, d = l - n,
         NEW p, HasDigestAt(child, part, d, p)
  PROVE  HasDigestAt(node, full, l, Joined(path, p))
<1> DEFINE r == Joined(path, p)
<1>1. /\ IsExtension(node, l, n, path, child, cache) /\ IsExtension(full, l, n, path, part, NoCache)
      /\ d \in 0..(l - 1)
  BY ExtensionParts
<1>2. n \in 0..l /\ n \in Nat /\ path \in Key(n)
  BY <1>1 DEF IsExtension
<1>3. PICK m \in 0..d: p \in Key(m)
  BY DEF HasDigestAt, DigestOf
<1>4. m \in Nat /\ n + m \in 0..l /\ n + m \in Nat
  BY <1>1, <1>2
<1>5. r \in Key(n + m) /\ IsPrefix(path, r) /\ Drop(r, n) = p
  <2>1. r \in Key(n + m)
    BY <1>2, <1>3, <1>4, JoinedPath
  <2> QED
    BY <1>2, <1>3, <1>4, <2>1, JoinedPrefix
<1> HIDE DEF r
<1>6. Walk(node, r) = Walk(child, p)
  BY <1>1, <1>4, <1>5, ShortWalkExtension
<1>7. ASSUME NEW rlps PROVE Walk(ResolveDigests(node, rlps), r) = Walk(ResolveDigests(child, rlps), p)
  <2> DEFINE resolved == ResolveDigests(child, rlps)
             new == ResolveDigests(node, rlps)
  <2>1. ExtensionStands(new, full, l, atop, n, path, resolved, part, cache)
    BY ExtensionResolved
  <2> HIDE DEF new, resolved
  <2>2. IsExtension(new, l, n, path, resolved, cache)
    BY <2>1, ExtensionParts
  <2>3. Walk(new, r) = Walk(resolved, p)
    BY <1>4, <1>5, <2>2, ShortWalkExtension
  <2> QED
    BY <2>3 DEF new, resolved
<1>8. HasPart(full, l, path, n, part)
  BY <1>1, ExtensionPart
<1>9. HasDigestAt(node, full, l, r)
  BY <1>2, <1>6, <1>7, <1>8, DigestBelow DEF r
<1> QED
  BY <1>9 DEF r

\* A digest below a branch.
LEMMA DigestThroughBranch ==
  ASSUME NEW l \in Nat, NEW node, NEW full, NEW atop, NEW nibs, NEW children, NEW parts, NEW cache,
         BranchStands(node, full, l, atop, nibs, children, parts, cache), NEW d, d = l - 1,
         NEW i \in nibs, NEW p, HasDigestAt(children[i], parts[i], d, p)
  PROVE  HasDigestAt(node, full, l, Joined(<<i>>, p))
<1> DEFINE first == <<i>>
           r == Joined(first, p)
<1>1. /\ IsBranch(node, l, nibs, children, cache) /\ IsBranch(full, l, nibs, parts, NoCache)
      /\ d \in 0..(l - 1) /\ l > 0
  BY BranchParts
<1>2. i \in Nibble /\ 1 \in 0..l /\ 1 \in Nat
  BY <1>1 DEF IsBranch
<1>3. PICK m \in 0..d: p \in Key(m)
  BY DEF HasDigestAt, DigestOf
<1>4. m \in Nat /\ 1 + m \in 0..l /\ 1 + m \in Nat /\ 1 + m > 0
  BY <1>1, <1>2
<1>5. first \in Key(1)
  BY <1>2, OneNibble
<1>6. HasPart(full, l, first, 1, parts[i])
  BY <1>1, BranchPart
<1>7. \A j \in Nat: \A k \in Key(j): j > 0 => (IsPrefix(first, k) <=> k[1] = i)
  BY <1>2, FirstNibble
<1> HIDE DEF first
<1>8. r \in Key(1 + m) /\ r[1] = i /\ Drop(r, 1) = p
  <2>1. r \in Key(1 + m)
    BY <1>2, <1>3, <1>4, <1>5, JoinedPath
  <2>2. IsPrefix(first, r) /\ Drop(r, 1) = p
    BY <1>2, <1>3, <1>4, <1>5, <2>1, JoinedPrefix
  <2> QED
    BY <1>4, <1>7, <2>1, <2>2
<1> HIDE DEF r
<1>9. Walk(node, r) = Walk(children[i], p)
  BY <1>1, <1>4, <1>8, ShortWalkBranch
<1>10. ASSUME NEW rlps PROVE Walk(ResolveDigests(node, rlps), r) = Walk(ResolveDigests(children[i], rlps), p)
  <2> DEFINE resolved == [j \in nibs |-> ResolveDigests(children[j], rlps)]
             new == ResolveDigests(node, rlps)
  <2>1. BranchStands(new, full, l, atop, nibs, resolved, parts, cache)
    BY BranchResolved
  <2>2. resolved[i] = ResolveDigests(children[i], rlps)
    OBVIOUS
  <2> HIDE DEF new, resolved
  <2>3. IsBranch(new, l, nibs, resolved, cache)
    BY <2>1, BranchParts
  <2>4. Walk(new, r) = Walk(resolved[i], p)
    BY <1>4, <1>8, <2>3, ShortWalkBranch
  <2> QED
    BY <2>2, <2>4 DEF new
<1>11. HasDigestAt(node, full, l, r)
  BY <1>2, <1>5, <1>6, <1>9, <1>10, DigestBelow DEF r
<1> QED
  BY <1>11 DEF r, first

\* So is every digest of a trie.
LEMMA DigestsStand ==
  ASSUME NEW l, NEW node, NEW full, NEW atop, Stands(node, full, l, atop), NEW p \in DigestPaths(node)
  PROVE  HasDigestAt(node, full, l, p)
<1> DEFINE S == {m \in Nat: \A x, f, a, r: Stands(x, f, m, a) /\ r \in DigestPaths(x) => HasDigestAt(x, f, m, r)}
<1>1. ASSUME NEW m \in Nat, \A j \in 0..(m - 1): j \in S PROVE m \in S
  <2> SUFFICES ASSUME NEW x, NEW f, NEW a, NEW r, Stands(x, f, m, a), r \in DigestPaths(x)
               PROVE  HasDigestAt(x, f, m, r)
    OBVIOUS
  <2>b. ASSUME NEW j \in 0..(m - 1), NEW y, NEW g, NEW q, Stands(y, g, j, FALSE), q \in DigestPaths(y)
        PROVE  HasDigestAt(y, g, j, q)
    <3>1. j \in S
      BY <1>1
    <3> QED
      BY <2>b, <3>1
  <2> HIDE DEF S
  <2>s. Shape(x, m)
    BY StandsShape
  <2>1. CASE x.t = "digest"
    <3>1. r = <<>>
      BY <2>1, <2>s, DigestPathsAt
    <3> QED
      BY <2>1, <3>1, DigestItself
  <2>2. ASSUME NEW path, NEW value, NEW cache, LeafStands(x, f, m, a, path, value, cache)
        PROVE  HasDigestAt(x, f, m, r)
    <3>1. x.t = "leaf"
      BY <2>2 DEF LeafStands, LeafNode
    <3> QED
      BY <2>s, <3>1, DigestPathsAt
  <2>3. ASSUME NEW n, NEW path, NEW child, NEW part, NEW cache,
               ExtensionStands(x, f, m, a, n, path, child, part, cache)
        PROVE  HasDigestAt(x, f, m, r)
    <3>1. IsExtension(x, m, n, path, child, cache) /\ Stands(child, part, m - n, FALSE) /\ m - n \in 0..(m - 1)
      BY <2>3, ExtensionParts
    <3>2. PICK q \in DigestPaths(child): r = Joined(path, q)
      BY <2>s, <3>1, DigestPathsAt
    <3>3. HasDigestAt(child, part, m - n, q)
      BY <2>b, <3>1, <3>2
    <3> QED
      BY <2>3, <3>2, <3>3, DigestThroughExtension
  <2>4. ASSUME NEW nibs, NEW children, NEW parts, NEW cache,
               BranchStands(x, f, m, a, nibs, children, parts, cache)
        PROVE  HasDigestAt(x, f, m, r)
    <3>1. /\ IsBranch(x, m, nibs, children, cache) /\ m - 1 \in 0..(m - 1)
          /\ \A i \in nibs: Stands(children[i], parts[i], m - 1, FALSE)
      BY <2>4, BranchParts
    <3>2. PICK i \in nibs: PathIn(r, children, i)
      BY <2>s, <3>1, DigestPathsAt
    <3>3. PICK q \in DigestPaths(children[i]): r = Joined(<<i>>, q)
      BY <3>2 DEF PathIn
    <3>4. HasDigestAt(children[i], parts[i], m - 1, q)
      BY <2>b, <3>1, <3>3
    <3>5. HasDigestAt(x, f, m, Joined(<<i>>, q))
      BY <2>4, <3>4, DigestThroughBranch
    <3> QED
      BY <3>3, <3>5
  <2> QED
    BY <2>1, <2>2, <2>3, <2>4, StandsCases
<1> HIDE DEF S
<1>2. \A m \in Nat: m \in S
  BY <1>1, SetInduction
<1>3. l \in S
  BY <1>2, StandsCases
<1> QED
  BY <1>3 DEF S

\* A joined path starts with the first.
LEMMA JoinedStart ==
  ASSUME NEW n \in Nat, NEW p \in Key(n), NEW m \in Nat, NEW q \in Key(m), NEW i \in 1..n
  PROVE  Joined(p, q)[i] = p[i]
BY JoinedPath

\* And is as long as both.
LEMMA JoinedLength ==
  ASSUME NEW n \in Nat, NEW p \in Key(n), NEW m \in Nat, NEW q \in Key(m)
  PROVE  Joined(p, q) \in Key(n + m)
BY JoinedPath

\* Once it is supplied, a digest is gone.
LEMMA DigestGone ==
  ASSUME NEW l, NEW node, NEW full, NEW atop, Stands(node, full, l, atop), NEW p, NEW m, NEW sub,
         DigestOf(node, full, l, p, m, sub), NEW rlps, RlpEncoded(sub) \in rlps
  PROVE  p \notin DigestPaths(ResolveDigests(node, rlps))
<1> SUFFICES ASSUME p \in DigestPaths(ResolveDigests(node, rlps)) PROVE FALSE
  OBVIOUS
<1> DEFINE resolved == ResolveDigests(node, rlps)
<1>1. PICK x: x.t # "digest" /\ Walk(resolved, p) = Place(x, <<>>)
  BY DEF DigestOf, SuppliedBy, LeadsToNode
<1>2. Stands(resolved, full, l, atop)
  BY ResolveKeeps
<1> HIDE DEF resolved
<1>3. HasDigestAt(resolved, full, l, p)
  BY <1>2, DigestsStand DEF resolved
<1>4. PICK other: Walk(resolved, p) = Place(Digest(RlpEncoded(other)), <<>>)
  BY <1>3 DEF HasDigestAt, DigestOf
<1>5. x = Digest(RlpEncoded(other))
  BY <1>1, <1>4 DEF Place
<1> QED
  BY <1>1, <1>5 DEF Digest

\* A digest is on the way of some key.
LEMMA DigestHasKey ==
  ASSUME NEW l, NEW node, NEW full, NEW atop, Stands(node, full, l, atop), NEW p \in DigestPaths(node)
  PROVE  \E k \in Key(l): IsPrefix(p, k) /\ NodeGet(full, k) # NoValue
<1>1. PICK m, sub: DigestOf(node, full, l, p, m, sub)
  BY DigestsStand DEF HasDigestAt
<1>2. l \in Nat /\ m \in 0..l /\ p \in Key(m) /\ Full(sub, l - m) /\ HasPart(full, l, p, m, sub)
  BY <1>1, StandsCases DEF DigestOf
<1>3. l - m \in Nat /\ m \in Nat /\ m + (l - m) = l
  BY <1>2
<1>4. PICK rest \in Key(l - m): NodeGet(sub, rest) # NoValue
  <2>1. Shape(sub, l - m) /\ Resolved(sub, l - m)
    <3>1. Stands(sub, sub, l - m, FALSE)
      BY <1>2, <1>3, FullStands
    <3> QED
      BY <1>2, <1>3, <3>1, StandsShape, FullResolved
  <2> QED
    BY <1>3, <2>1, SomeKey
<1> DEFINE k == Joined(p, rest)
<1>5. k \in Key(l)
  <2>1. k \in Key(m + (l - m))
    BY <1>2, <1>3, JoinedPath
  <2> QED
    BY <1>3, <2>1
<1>6. IsPrefix(p, k) /\ Drop(k, m) = rest
  BY <1>2, <1>3, <1>5, JoinedPrefix
<1>7. NodeGet(full, k) = NodeGet(sub, rest)
  BY <1>2, <1>5, <1>6 DEF HasPart
<1> QED
  BY <1>4, <1>5, <1>6, <1>7

\* What is joined to the same path is the same.
LEMMA JoinedSame ==
  ASSUME NEW n \in Nat, NEW p \in Key(n), NEW i \in Nat, NEW a \in Key(i), NEW j \in Nat, NEW b \in Key(j),
         Joined(p, a) = Joined(p, b)
  PROVE  a = b
<1>1. Joined(p, a) \in Key(n + i) /\ Joined(p, b) \in Key(n + j) /\ n + i \in Nat /\ n + j \in Nat
  BY JoinedPath
<1>2. a = Drop(Joined(p, a), n)
  BY <1>1, JoinedPrefix
<1>3. b = Drop(Joined(p, b), n)
  BY <1>1, JoinedPrefix
<1> QED
  BY <1>2, <1>3

\* A prefix of a key, from where a shorter one ends.
LEMMA PrefixBelow ==
  ASSUME NEW l \in Nat, NEW key \in Key(l), NEW m \in 0..l, NEW q \in Key(m), IsPrefix(q, key),
         NEW n \in 0..l, NEW path \in Key(n), IsPrefix(path, key)
  PROVE  /\ n <= m => /\ IsPrefix(path, q) /\ Joined(path, Drop(q, n)) = q
                      /\ Drop(q, n) \in Key(m - n) /\ IsPrefix(Drop(q, n), Drop(key, n))
         /\ n > m => ~IsPrefix(path, q)
<1>0. m \in Nat /\ n \in Nat
  OBVIOUS
<1>1. /\ \A i \in 1..m: q[i] = key[i]
      /\ \A i \in 1..n: path[i] = key[i]
  BY <1>0, PrefixNibbles
<1>2. ASSUME n <= m
      PROVE  /\ IsPrefix(path, q) /\ Joined(path, Drop(q, n)) = q
             /\ Drop(q, n) \in Key(m - n) /\ IsPrefix(Drop(q, n), Drop(key, n))
  <2>1. \A i \in 1..n: i \in 1..m
    BY <1>2
  <2>2. IsPrefix(path, q)
    BY <1>0, <1>1, <1>2, <2>1, PrefixNibbles
  <2>3. n \in 0..m /\ m - n \in Nat
    BY <1>2
  <2>4. Drop(q, n) \in Key(m - n)
    BY <1>0, <2>3, DropKey
  <2>5. Joined(path, Drop(q, n)) = q
    BY <1>0, <2>2, <2>3, <2>4, JoinedPrefix
  <2>6. IsPrefix(Drop(q, n), Drop(key, n))
    BY <1>0, <2>3, <2>4, <2>5, JoinedPrefix
  <2> QED
    BY <2>2, <2>4, <2>5, <2>6
<1>3. ASSUME n > m PROVE ~IsPrefix(path, q)
  BY <1>0, <1>3, PrefixNibbles
<1> QED
  BY <1>2, <1>3

\* A digest beside the way of a key that is there is one of the children of a
\* branch on the way.
IsBeside(node, q, nib) == Joined(q, <<nib>>) \in DigestPaths(node) <=> IsBranchWithDigest(Walk(node, q), nib)

\* A nibble beside the key below an extension, or on its path, is beside it in the extension.
LEMMA BesideThroughExtension ==
  ASSUME NEW l \in Nat, NEW node, NEW n, NEW path, NEW child, NEW cache,
         IsExtension(node, l, n, path, child, cache), NEW key \in Key(l), IsPrefix(path, key),
         NEW m \in 0..(l - 1), NEW q \in Key(m), IsPrefix(q, key), NEW nib \in Nibble, nib # key[m + 1],
         n <= m => IsBeside(child, Drop(q, n), nib)
  PROVE  IsBeside(node, q, nib)
<1> DEFINE last == <<nib>>
           r == Joined(q, last)
<1>0. /\ n \in 0..l /\ n \in Nat /\ path \in Key(n) /\ m \in 0..l /\ m \in Nat /\ m + 1 \in Nat
      /\ Shape(child, l - n) /\ l - n \in Nat
  BY DEF IsExtension
<1>1. last \in Key(1) /\ last[1] = nib /\ 1 \in Nat /\ 1 \in 1..1
  BY OneNibble
<1> HIDE DEF last
<1>2. r \in Key(m + 1) /\ r[m + 1] = nib
  BY <1>0, <1>1, JoinedPath
<1>s. Shape(node, l)
  BY ShapeExtension DEF IsExtension
<1>3. r \in DigestPaths(node) <=> \E p \in DigestPaths(child): r = Joined(path, p)
  BY <1>s, DigestPathsAt
<1>4. ASSUME NEW p \in DigestPaths(child) PROVE \E j \in Nat: p \in Key(j)
  <2>1. PICK j \in 0..(l - n): p \in Key(j)
    BY <1>0, DigestPathsAreKeys
  <2> QED
    BY <2>1
<1>5. CASE n <= m
  <2> DEFINE rest == Drop(q, n)
  <2>1. IsPrefix(path, q) /\ Joined(path, rest) = q /\ rest \in Key(m - n) /\ m - n \in Nat
    BY <1>0, <1>5, PrefixBelow
  <2>2. Walk(node, q) = Walk(child, rest)
    BY <1>0, <2>1, ShortWalkExtension
  <2> HIDE DEF rest
  <2>3. r = Joined(path, Joined(rest, last))
    BY <1>0, <1>1, <2>1, JoinedTwice
  <2> DEFINE d == m - n
  <2>d. d \in Nat /\ rest \in Key(d)
    BY <2>1
  <2> HIDE DEF d
  <2>e. d + 1 \in Nat
    BY <2>d
  <2>4. Joined(rest, last) \in Key(d + 1)
    BY <1>1, <2>d, JoinedPath
  <2>5. ASSUME NEW p \in DigestPaths(child), r = Joined(path, p) PROVE p = Joined(rest, last)
    <3>1. PICK j \in Nat: p \in Key(j)
      BY <1>4
    <3>2. Joined(path, p) = Joined(path, Joined(rest, last))
      BY <2>3, <2>5
    <3> DEFINE b == Joined(rest, last)
               e == d + 1
    <3>3. b \in Key(e) /\ e \in Nat
      BY <2>4, <2>e
    <3>4. Joined(path, p) = Joined(path, b)
      BY <3>2
    <3> HIDE DEF b, e
    <3>5. p = b
      BY <1>0, <3>1, <3>3, <3>4, JoinedSame
    <3> QED
      BY <3>5 DEF b
  <2>6. r \in DigestPaths(node) <=> Joined(rest, last) \in DigestPaths(child)
    BY <1>3, <2>3, <2>5
  <2> QED
    BY <1>5, <2>2, <2>6 DEF IsBeside, rest, last
<1>6. CASE n > m
  <2>1. ~IsPrefix(path, q)
    BY <1>0, <1>6, PrefixBelow
  <2>2. Walk(node, q) = Place(node, q)
    BY <1>0, <2>1, ShortWalkExtension
  <2>3. ~IsBranchWithDigest(Walk(node, q), nib)
    BY <2>2 DEF IsBranchWithDigest, Place, IsExtension, ExtensionNode
  <2>4. ASSUME NEW p \in DigestPaths(child), r = Joined(path, p) PROVE FALSE
    <3>1. PICK j \in Nat: p \in Key(j)
      BY <1>4
    <3>2. m + 1 \in 1..n
      BY <1>0, <1>6
    <3>3. r[m + 1] = path[m + 1]
      <4>1. Joined(path, p)[m + 1] = path[m + 1]
        BY <1>0, <3>1, <3>2, JoinedStart
      <4> HIDE DEF r
      <4> QED
        BY <2>4, <4>1
    <3>4. path[m + 1] = key[m + 1]
      BY <1>0, <3>2, PrefixNibbles
    <3> QED
      BY <1>2, <3>3, <3>4
  <2> QED
    BY <1>3, <2>3, <2>4 DEF IsBeside, last
<1> QED
  BY <1>0, <1>5, <1>6

\* A nibble beside the key below a branch, or at it, is beside it in the branch.
LEMMA BesideThroughBranch ==
  ASSUME NEW l \in Nat, NEW node, NEW nibs, NEW children, NEW cache,
         IsBranch(node, l, nibs, children, cache), NEW key \in Key(l), NEW first, first = key[1], first \in nibs,
         NEW m \in 0..(l - 1), NEW q \in Key(m), IsPrefix(q, key), NEW nib \in Nibble, nib # key[m + 1],
         m > 0 => IsBeside(children[first], Drop(q, 1), nib)
  PROVE  IsBeside(node, q, nib)
<1> DEFINE last == <<nib>>
           r == Joined(q, last)
<1>0. /\ l > 0 /\ nibs \in SUBSET Nibble /\ m \in 0..l /\ m \in Nat /\ m + 1 \in Nat /\ l - 1 \in Nat /\ 1 \in Nat
      /\ \A i \in nibs: Shape(children[i], l - 1)
      /\ children = [i \in nibs |-> children[i]] /\ node = BranchNode(children, cache)
  BY DEF IsBranch
<1>1. last \in Key(1) /\ last[1] = nib /\ 1 \in 1..1
  BY OneNibble
<1> HIDE DEF last
<1>2. r \in Key(m + 1) /\ \A i \in 1..m: r[i] = q[i]
  BY <1>0, <1>1, JoinedPath
<1>s. Shape(node, l)
  BY ShapeBranch DEF IsBranch
<1>3. r \in DigestPaths(node) <=> \E i \in nibs: PathIn(r, children, i)
  BY <1>s, DigestPathsAt
<1>4. ASSUME NEW i \in nibs, NEW p \in DigestPaths(children[i]) PROVE \E j \in Nat: p \in Key(j)
  <2>1. PICK j \in 0..(l - 1): p \in Key(j)
    BY <1>0, DigestPathsAreKeys
  <2> QED
    BY <2>1
<1> HIDE DEF r
<1>5. CASE m = 0
  <2>1. q = <<>>
    BY <1>0, <1>5, NoNibbles
  <2>2. r = last
    BY <1>1, <2>1 DEF r, Joined, Key
  <2>3. Walk(node, q) = Place(node, <<>>)
    BY <1>0, <1>5, <2>1, ShortWalkBranch
  <2>4. IsBranchWithDigest(Walk(node, q), nib) <=> nib \in nibs /\ children[nib].t = "digest"
    <3>1. Place(node, <<>>).node = node /\ Place(node, <<>>).key = <<>>
      BY DEF Place
    <3>2. node.t = "branch" /\ node.children = children /\ DOMAIN children = nibs
      BY <1>0 DEF BranchNode
    <3> QED
      BY <2>3, <3>1, <3>2 DEF IsBranchWithDigest
  <2>5. ASSUME nib \in nibs, children[nib].t = "digest" PROVE PathIn(r, children, nib)
    <3>1. <<>> \in DigestPaths(children[nib])
      BY <1>0, <2>5, DigestPathsAt
    <3>2. Joined(last, <<>>) = last
      BY <1>1 DEF Joined, Key
    <3> QED
      BY <2>2, <3>1, <3>2 DEF PathIn, last
  <2>6. ASSUME NEW i \in nibs, PathIn(r, children, i) PROVE i = nib /\ children[nib].t = "digest"
    <3>1. PICK p \in DigestPaths(children[i]): r = Joined(<<i>>, p)
      BY <2>6 DEF PathIn
    <3>2. PICK j \in Nat: p \in Key(j)
      BY <1>4
    <3> DEFINE one == <<i>>
    <3>3. one \in Key(1) /\ one[1] = i
      BY <1>0, OneNibble
    <3> HIDE DEF one
    <3>4. Joined(one, p) \in Key(1 + j) /\ Joined(one, p)[1] = i
      <4>1. 1 \in Nat /\ 1 \in 1..1
        BY <1>0, <1>1
      <4>2. Joined(one, p)[1] = one[1]
        BY <3>2, <3>3, <4>1, JoinedStart
      <4>3. Joined(one, p) \in Key(1 + j)
        BY <3>2, <3>3, <4>1, JoinedLength
      <4> QED
        BY <3>3, <4>2, <4>3
    <3>5. Joined(one, p) = last
      BY <2>2, <3>1 DEF one
    <3>6. j = 0
      <4>1. Len(last) = 1
        BY <1>1 DEF Key
      <4>2. Len(Joined(one, p)) = 1 + j
        BY <3>4 DEF Key
      <4> QED
        BY <3>2, <3>5, <4>1, <4>2
    <3>7. p = <<>>
      BY <3>2, <3>6, NoNibbles
    <3>8. i = nib
      BY <1>1, <3>4, <3>5
    <3>9. Shape(children[i], l - 1) /\ <<>> \in DigestPaths(children[i])
      BY <1>0, <3>7
    <3> QED
      BY <3>8, <3>9, EmptyPath
  <2> QED
    BY <1>3, <2>4, <2>5, <2>6 DEF IsBeside, r, last
<1>6. CASE m > 0
  <2> DEFINE rest == Drop(q, 1)
             d == m - 1
             one == <<first>>
             b == Joined(rest, last)
             e == d + 1
  <2>1. 1 \in 1..m /\ d \in Nat /\ e \in Nat /\ m \in Nat
    BY <1>0, <1>6
  <2>2. q[1] = first
    BY <1>0, <2>1, PrefixNibbles
  <2>3. rest \in Key(d) /\ Joined(<<q[1]>>, rest) = q
    BY <1>0, <1>6, KeyIsJoined
  <2>4. Walk(node, q) = Walk(children[first], rest)
    BY <1>0, <1>6, <2>2, ShortWalkBranch
  <2>5. one \in Key(1) /\ one[1] = first
    BY <1>0, OneNibble
  <2>6. Joined(one, rest) = q
    BY <2>2, <2>3
  <2> HIDE DEF rest, d, one
  <2>7. b \in Key(e)
    BY <1>0, <1>1, <2>1, <2>3, JoinedPath
  <2>8. r = Joined(one, b)
    <3>1. Joined(Joined(one, rest), last) = Joined(one, Joined(rest, last))
      BY <1>0, <1>1, <2>1, <2>3, <2>5, JoinedTwice
    <3> QED
      BY <2>6, <3>1 DEF r
  <2> HIDE DEF b, e
  <2>9. ASSUME NEW i \in nibs, PathIn(r, children, i) PROVE i = first /\ b \in DigestPaths(children[first])
    <3>1. PICK p \in DigestPaths(children[i]): r = Joined(<<i>>, p)
      BY <2>9 DEF PathIn
    <3>2. PICK j \in Nat: p \in Key(j)
      BY <1>4
    <3> DEFINE two == <<i>>
    <3>3. two \in Key(1) /\ two[1] = i
      BY <1>0, OneNibble
    <3>a. r = Joined(two, p)
      BY <3>1
    <3> HIDE DEF two
    <3>4. Joined(two, p)[1] = i
      <4>1. 1 \in Nat /\ 1 \in 1..1
        BY <1>0, <1>1
      <4>2. Joined(two, p)[1] = two[1]
        BY <3>2, <3>3, <4>1, JoinedStart
      <4> QED
        BY <3>3, <4>2
    <3>5. Joined(one, b)[1] = first
      <4>1. 1 \in 1..1 /\ 1 \in Nat /\ one \in Key(1) /\ e \in Nat /\ b \in Key(e)
        BY <2>1, <2>5, <2>7
      <4>2. Joined(one, b)[1] = one[1]
        BY <4>1, JoinedPath
      <4> QED
        BY <2>5, <4>2
    <3>6. i = first
      BY <2>8, <3>a, <3>4, <3>5
    <3>7. two = one
      BY <3>6 DEF one, two
    <3>8. Joined(one, p) = Joined(one, b)
      BY <2>8, <3>a, <3>7
    <3>9. p = b
      BY <1>0, <2>1, <2>5, <2>7, <3>2, <3>8, JoinedSame
    <3> QED
      BY <3>1, <3>6, <3>9
  <2>10. ASSUME b \in DigestPaths(children[first]) PROVE PathIn(r, children, first)
    BY <2>8, <2>10 DEF PathIn, one
  <2>11. r \in DigestPaths(node) <=> b \in DigestPaths(children[first])
    BY <1>3, <2>9, <2>10
  <2> QED
    BY <1>6, <2>4, <2>11 DEF IsBeside, r, b, rest, last
<1> QED
  BY <1>0, <1>5, <1>6

\* Where a key has a value, another nibble at the end of a prefix of it is beside its way.
BesideAt(l) ==
  \A node, key, q, nib: \A m \in 0..(l - 1):
    /\ Shape(node, l) /\ key \in Key(l) /\ NodeGet(node, key) \notin {Panic, NoValue}
    /\ q \in Key(m) /\ IsPrefix(q, key) /\ nib \in Nibble /\ nib # key[m + 1]
    => IsBeside(node, q, nib)

\* So it is in tries of every key length.
LEMMA BesideIs ==
  \A l \in Nat: BesideAt(l)
<1> DEFINE S == {l \in Nat: BesideAt(l)}
<1>1. ASSUME NEW l \in Nat, \A d \in 0..(l - 1): d \in S PROVE l \in S
  <2> SUFFICES ASSUME NEW node, NEW key, NEW q, NEW nib, NEW m \in 0..(l - 1),
                      Shape(node, l), key \in Key(l), NodeGet(node, key) \notin {Panic, NoValue},
                      q \in Key(m), IsPrefix(q, key), nib \in Nibble, nib # key[m + 1]
               PROVE  IsBeside(node, q, nib)
    BY DEF BesideAt
  <2>0. m \in 0..l /\ m \in Nat
    OBVIOUS
  <2>1. CASE node.t = "digest"
    BY <2>1, AtEnd
  <2>2. ASSUME NEW path, NEW value, NEW cache, IsLeaf(node, l, path, value, cache) PROVE IsBeside(node, q, nib)
    <3>1. node.t = "leaf"
      BY <2>2 DEF IsLeaf, LeafNode
    <3>2. DigestPaths(node) = {}
      BY <3>1, DigestPathsAt
    <3>3. Walk(node, q) = Place(node, q)
      BY <3>1, AtEnd DEF Place
    <3>4. Place(node, q).node = node
      BY DEF Place
    <3> QED
      BY <3>1, <3>2, <3>3, <3>4 DEF IsBeside, IsBranchWithDigest
  <2>3. ASSUME NEW n, NEW path, NEW child, NEW cache, IsExtension(node, l, n, path, child, cache)
        PROVE  IsBeside(node, q, nib)
    <3>0. n \in 1..l /\ n \in 0..l /\ n \in Nat /\ path \in Key(n) /\ Shape(child, l - n) /\ l - n \in 0..(l - 1)
      BY <2>3 DEF IsExtension
    <3>1. IsPrefix(path, key) /\ NodeGet(node, key) = NodeGet(child, Drop(key, n))
      BY <2>3, AtExtension
    <3>2. ASSUME n <= m PROVE IsBeside(child, Drop(q, n), nib)
      <4> DEFINE d == l - n
                 j == m - n
      <4>1. Drop(q, n) \in Key(j) /\ IsPrefix(Drop(q, n), Drop(key, n))
        BY <2>0, <3>0, <3>1, <3>2, PrefixBelow
      <4>2. Drop(key, n) \in Key(d) /\ \A i \in 1..d: Drop(key, n)[i] = key[n + i]
        BY <3>0, DropKey
      <4>3. j \in 0..(d - 1) /\ j + 1 \in 1..d /\ n + (j + 1) = m + 1
        BY <3>0, <3>2
      <4>4. Drop(key, n)[j + 1] = key[m + 1]
        BY <4>2, <4>3
      <4>5. BesideAt(d)
        BY <1>1, <3>0
      <4>6. Shape(child, d)
        BY <3>0
      <4> HIDE DEF d, j
      <4> QED
        BY <3>1, <4>1, <4>2, <4>3, <4>4, <4>5, <4>6 DEF BesideAt
    <3> QED
      BY <2>3, <3>1, <3>2, BesideThroughExtension
  <2>4. ASSUME NEW nibs, NEW children, NEW cache, IsBranch(node, l, nibs, children, cache)
        PROVE  IsBeside(node, q, nib)
    <3> DEFINE first == key[1]
               child == children[first]
               d == l - 1
               j == m - 1
    <3>0. l > 0 /\ 1 \in 0..l /\ d \in 0..(l - 1) /\ 1 \in Nat
      BY <2>4 DEF IsBranch
    <3>1. first \in nibs /\ NodeGet(node, key) = NodeGet(child, Drop(key, 1))
      BY <2>4, AtBranch
    <3>a. Shape(child, d)
      BY <2>4, <3>1 DEF IsBranch
    <3>2. ASSUME m > 0 PROVE IsBeside(child, Drop(q, 1), nib)
      <4>0. l > 0 /\ key[1] \in Nibble /\ 1 <= m
        BY <3>0, <3>2, HeadTail
      <4> DEFINE one == <<first>>
      <4>a. one \in Key(1) /\ IsPrefix(one, key)
        BY <3>0, <4>0, OneNibble, FirstNibble
      <4> HIDE DEF one
      <4>1. Drop(q, 1) \in Key(j) /\ IsPrefix(Drop(q, 1), Drop(key, 1))
        BY <2>0, <3>0, <4>0, <4>a, PrefixBelow
      <4>2. Drop(key, 1) \in Key(d) /\ \A i \in 1..d: Drop(key, 1)[i] = key[1 + i]
        BY <3>0, DropKey
      <4>3. j \in 0..(d - 1) /\ j + 1 \in 1..d /\ 1 + (j + 1) = m + 1
        BY <3>0, <4>0
      <4>4. Drop(key, 1)[j + 1] = key[m + 1]
        BY <4>2, <4>3
      <4>5. BesideAt(d)
        BY <1>1, <3>0
      <4> HIDE DEF d, j, child
      <4> QED
        BY <3>1, <3>a, <4>1, <4>2, <4>3, <4>4, <4>5 DEF BesideAt
    <3> HIDE DEF first
    <3>3. first = key[1]
      BY DEF first
    <3> QED
      BY <2>4, <3>1, <3>2, <3>3, BesideThroughBranch
  <2> QED
    BY <2>1, <2>2, <2>3, <2>4, ShapeCases
<1> HIDE DEF S
<1>2. \A l \in Nat: l \in S
  BY <1>1, SetInduction
<1> QED
  BY <1>2 DEF S

\* The first nibbles of a key.
LEMMA FirstPart ==
  ASSUME NEW l \in Nat, NEW key \in Key(l), NEW m \in 0..l, NEW q, q = SubSeq(key, 1, m)
  PROVE  q \in Key(m) /\ IsPrefix(q, key) /\ \A i \in 1..m: q[i] = key[i]
<1>1. q \in Key(m) /\ \A i \in 1..m: q[i] = key[i]
  BY DEF Key
<1>2. m \in Nat /\ m <= l
  OBVIOUS
<1>3. IsPrefix(q, key)
  BY <1>1, <1>2, PrefixNibbles
<1> QED
  BY <1>1, <1>3

\* The other keys of a trie, and the nibble that all of them have that are as
\* close to key as any.
IsOther(full, l, key, k) == k \in Key(l) /\ k # key /\ NodeGet(full, k) # NoValue

\* All the other keys that share j nibbles with the key go on with the one nibble, and there are some.
Deserted(full, l, key, j, nib) ==
  /\ j \in 0..(l - 1) /\ nib \in Nibble /\ nib # key[j + 1]
  /\ \E k: IsOther(full, l, key, k) /\ Shares(k, key, j)
  /\ \A k: IsOther(full, l, key, k) /\ Shares(k, key, j) => k[j + 1] = nib

\* The other keys that share j nibbles with the key go on with two nibbles or more, none the key's.
Crowded(full, l, key, j) ==
  /\ j \in 0..(l - 1)
  /\ \E a, b: /\ IsOther(full, l, key, a) /\ Shares(a, key, j)
              /\ IsOther(full, l, key, b) /\ Shares(b, key, j) /\ a[j + 1] # b[j + 1]
  /\ \A k: IsOther(full, l, key, k) /\ Shares(k, key, j) => k[j + 1] # key[j + 1]

\* An orphan leads to another key, which leaves the key where the orphan does.
LEMMA OrphanHasOther ==
  ASSUME NEW l, NEW node, NEW full, NEW atop, Stands(node, full, l, atop), NEW key \in Key(l),
         NodeGet(node, key) # Panic, NEW p \in DigestPaths(node), NEW m, OnlyBeside(p, m, full, l, key)
  PROVE  /\ l \in Nat /\ m \in 1..l /\ p \in Key(m) /\ \A i \in 1..(m - 1): p[i] = key[i]
         /\ p[m] # key[m]
         /\ \A k: IsOther(full, l, key, k) /\ Shares(k, key, m - 1) => k[m] = p[m]
         /\ \E k: IsOther(full, l, key, k) /\ \A i \in 1..m: k[i] = p[i]
<1>1. l \in Nat /\ Shape(node, l)
  BY StandsShape
<1>2. m \in 1..l /\ m \in Nat /\ p \in Key(m) /\ \A i \in 1..(m - 1): p[i] = key[i]
  BY <1>1 DEF OnlyBeside, Shares
<1>3. ~IsPrefix(p, key)
  BY <1>1, GetPanics DEF Meets
<1>4. p[m] # key[m]
  <2>1. SUFFICES ASSUME p[m] = key[m] PROVE FALSE
    OBVIOUS
  <2>2. \A i \in 1..m: p[i] = key[i]
    BY <1>2, <2>1
  <2> QED
    BY <1>1, <1>2, <1>3, <2>2, PrefixNibbles
<1>5. ASSUME NEW k, IsOther(full, l, key, k), Shares(k, key, m - 1) PROVE k[m] = p[m]
  <2>1. Shares(p, k, m - 1)
    BY <1>2, <1>5 DEF Shares
  <2>2. Shares(p, k, m)
    BY <1>5, <2>1 DEF OnlyBeside, IsOther
  <2> QED
    BY <1>2, <2>2 DEF Shares
<1>6. \E k: IsOther(full, l, key, k) /\ \A i \in 1..m: k[i] = p[i]
  <2>1. PICK k \in Key(l): IsPrefix(p, k) /\ NodeGet(full, k) # NoValue
    BY DigestHasKey
  <2>2. \A i \in 1..m: p[i] = k[i]
    BY <1>1, <1>2, <2>1, PrefixNibbles
  <2>3. k # key
    BY <1>3, <2>1
  <2>4. IsOther(full, l, key, k)
    BY <2>1, <2>3 DEF IsOther
  <2> QED
    BY <2>2, <2>4
<1> QED
  BY <1>1, <1>2, <1>4, <1>5, <1>6

\* So that it is where the last of the other keys leave the key.
LEMMA OrphanIsAt ==
  ASSUME NEW l, NEW node, NEW full, NEW atop, Stands(node, full, l, atop), NEW key \in Key(l),
         NodeGet(node, key) # Panic, NEW p \in DigestPaths(node), NEW m, OnlyBeside(p, m, full, l, key),
         NEW j \in 0..(l - 1), NEW a, IsOther(full, l, key, a), Shares(a, key, j),
         \A k: IsOther(full, l, key, k) /\ Shares(k, key, j) => k[j + 1] # key[j + 1]
  PROVE  /\ m = j + 1 /\ p \in Key(m) /\ \A i \in 1..j: p[i] = key[i]
         /\ \A k: IsOther(full, l, key, k) /\ Shares(k, key, j) => k[j + 1] = p[j + 1]
<1>1. /\ l \in Nat /\ m \in 1..l /\ p \in Key(m) /\ \A i \in 1..(m - 1): p[i] = key[i]
      /\ p[m] # key[m]
      /\ \A k: IsOther(full, l, key, k) /\ Shares(k, key, m - 1) => k[m] = p[m]
  BY OrphanHasOther
<1>2. PICK b: IsOther(full, l, key, b) /\ \A i \in 1..m: b[i] = p[i]
  BY OrphanHasOther
<1>3. ~(m <= j)
  <2> SUFFICES ASSUME m <= j PROVE FALSE
    OBVIOUS
  <2>1. \A i \in 1..j: a[i] = key[i]
    BY DEF Shares
  <2>2. m \in 1..j /\ \A i \in 1..(m - 1): i \in 1..j
    BY <1>1
  <2>3. Shares(a, key, m - 1) /\ a[m] = key[m]
    BY <2>1, <2>2 DEF Shares
  <2> QED
    BY <1>1, <2>3
<1>4. ~(m > j + 1)
  <2> SUFFICES ASSUME m > j + 1 PROVE FALSE
    OBVIOUS
  <2>1. j + 1 \in 1..(m - 1) /\ \A i \in 1..(j + 1): i \in 1..(m - 1) /\ i \in 1..m
    BY <1>1
  <2>2. \A i \in 1..(j + 1): b[i] = key[i]
    BY <1>1, <1>2, <2>1
  <2>3. \A i \in 1..j: i \in 1..(j + 1)
    OBVIOUS
  <2>4. j + 1 \in 1..(j + 1)
    OBVIOUS
  <2>5. Shares(b, key, j)
    BY <2>2, <2>3 DEF Shares
  <2> QED
    BY <1>2, <2>2, <2>4, <2>5
<1>5. m = j + 1 /\ m - 1 = j
  BY <1>1, <1>3, <1>4
<1> QED
  BY <1>1, <1>5

\* The nibble that is alone beside the key is a digest where the removal leaves only a digest.
LEMMA DesertedDigest ==
  ASSUME NEW l, NEW node, NEW full, NEW atop, Stands(node, full, l, atop), NEW key \in Key(l),
         NodeGet(node, key) # Panic, NEW j, NEW nib, Deserted(full, l, key, j, nib),
         NEW q, q = SubSeq(key, 1, j)
  PROVE  HasOnlyBeside(node, full, l, key) <=> Joined(q, <<nib>>) \in DigestPaths(node)
<1> DEFINE last == <<nib>>
           r == Joined(q, last)
           m == j + 1
<1>1. l \in Nat /\ j \in 0..(l - 1) /\ j \in Nat /\ m \in 1..l /\ m \in Nat /\ j \in 0..l /\ nib \in Nibble
  BY StandsShape DEF Deserted
<1>2. q \in Key(j) /\ \A i \in 1..j: q[i] = key[i]
  BY <1>1, FirstPart
<1>3. last \in Key(1) /\ last[1] = nib /\ 1 \in Nat /\ 1 \in 1..1
  BY <1>1, OneNibble
<1> HIDE DEF last
<1>4. r \in Key(m) /\ (\A i \in 1..j: r[i] = q[i]) /\ r[m] = nib
  BY <1>1, <1>2, <1>3, JoinedPath
<1> HIDE DEF r
<1>5. ASSUME HasOnlyBeside(node, full, l, key) PROVE r \in DigestPaths(node)
  <2>1. PICK p, n: p \in DigestPaths(node) /\ OnlyBeside(p, n, full, l, key)
    BY <1>5 DEF HasOnlyBeside
  <2>2. PICK a: IsOther(full, l, key, a) /\ Shares(a, key, j)
    BY DEF Deserted
  <2>3. \A k: IsOther(full, l, key, k) /\ Shares(k, key, j) => k[j + 1] # key[j + 1]
    BY DEF Deserted
  <2>4. /\ n = j + 1 /\ p \in Key(n) /\ \A i \in 1..j: p[i] = key[i]
        /\ \A k: IsOther(full, l, key, k) /\ Shares(k, key, j) => k[j + 1] = p[j + 1]
    BY <1>1, <2>1, <2>2, <2>3, OrphanIsAt
  <2>5. p[j + 1] = nib
    BY <2>2, <2>4 DEF Deserted
  <2>6. ASSUME NEW i \in 1..m PROVE p[i] = r[i]
    <3>1. i \in 1..j \/ i = m
      BY <1>1
    <3> QED
      BY <1>2, <1>4, <2>4, <2>5, <3>1
  <2>7. p = r
    BY <1>1, <1>4, <2>4, <2>6, KeyEqual
  <2> QED
    BY <2>1, <2>7
<1>6. ASSUME r \in DigestPaths(node) PROVE HasOnlyBeside(node, full, l, key)
  <2>1. m - 1 = j /\ \A i \in 1..m: i \in 1..j \/ i = m
    BY <1>1
  <2>2. Shares(r, key, m - 1)
    BY <1>2, <1>4, <2>1 DEF Shares
  <2>3. ASSUME NEW k \in Key(l), k # key, NodeGet(full, k) # NoValue, Shares(r, k, m - 1) PROVE Shares(r, k, m)
    <3>1. IsOther(full, l, key, k)
      BY <2>3 DEF IsOther
    <3>2. Shares(k, key, j)
      BY <2>1, <2>2, <2>3 DEF Shares
    <3>3. k[m] = nib
      BY <3>1, <3>2 DEF Deserted
    <3> QED
      BY <1>4, <2>1, <2>3, <3>3 DEF Shares
  <2>4. OnlyBeside(r, m, full, l, key)
    BY <1>1, <1>4, <2>2, <2>3 DEF OnlyBeside
  <2> QED
    BY <1>6, <2>4 DEF HasOnlyBeside
<1> QED
  BY <1>5, <1>6 DEF r, last

\* With two nibbles beside the key, its removal leaves no branch with one child.
LEMMA CrowdedHasNone ==
  ASSUME NEW l, NEW node, NEW full, NEW atop, Stands(node, full, l, atop), NEW key \in Key(l),
         NodeGet(node, key) # Panic, NEW j, Crowded(full, l, key, j)
  PROVE  ~HasOnlyBeside(node, full, l, key)
<1> SUFFICES ASSUME NEW p \in DigestPaths(node), NEW n, OnlyBeside(p, n, full, l, key) PROVE FALSE
  BY DEF HasOnlyBeside
<1>1. PICK a, b: /\ IsOther(full, l, key, a) /\ Shares(a, key, j)
                 /\ IsOther(full, l, key, b) /\ Shares(b, key, j) /\ a[j + 1] # b[j + 1]
  BY DEF Crowded
<1>2. j \in 0..(l - 1) /\ \A k: IsOther(full, l, key, k) /\ Shares(k, key, j) => k[j + 1] # key[j + 1]
  BY DEF Crowded
<1>3. \A k: IsOther(full, l, key, k) /\ Shares(k, key, j) => k[j + 1] = p[j + 1]
  BY <1>1, <1>2, OrphanIsAt
<1> QED
  BY <1>1, <1>3

\* The removal of the only key leaves no digest.
LEMMA AloneHasNone ==
  ASSUME NEW l, NEW node, NEW full, NEW atop, Stands(node, full, l, atop), NEW key \in Key(l),
         NodeGet(node, key) # Panic, \A k: ~IsOther(full, l, key, k)
  PROVE  ~HasOnlyBeside(node, full, l, key)
<1> SUFFICES ASSUME NEW p \in DigestPaths(node), NEW n, OnlyBeside(p, n, full, l, key) PROVE FALSE
  BY DEF HasOnlyBeside
<1>1. \E k: IsOther(full, l, key, k) /\ \A i \in 1..n: k[i] = p[i]
  BY OrphanHasOther
<1> QED
  BY <1>1

\* A key that is there cannot be removed where it would leave an orphan.
LEMMA RemovalPanics ==
  ASSUME NEW l, NEW node, NEW full, NEW atop, Stands(node, full, l, atop), NEW key \in Key(l),
         NodeGet(node, key) \notin {Panic, NoValue}
  PROVE  NodeRemove(node, key) = Panic <=> HasOnlyBeside(node, full, l, key)
<1>1. l \in Nat /\ Shape(node, l)
  BY StandsShape
<1>2. NodeRemove(node, key) = RemoveFound(node, key)
  BY DEF NodeRemove
<1>3. Removed(node, key, l, RemoveFound(node, key))
  BY <1>1, RemoveInduction
<1>4. RemoveFound(node, key) = Panic <=> NodeGet(node, key) = Panic \/ LeavesOrphan(node, key)
  BY <1>3 DEF Removed
<1>5. LeavesOrphan(node, key) <=> HasOnlyBeside(node, full, l, key)
  BY OrphanIsOnly DEF Bereaves
<1> QED
  BY <1>2, <1>4, <1>5

\* The part of a trie that has the keys that share their first nibbles.
PartAt(full, l, key, h, sub) ==
  \A k \in Key(l): Shares(k, key, h) => NodeGet(full, k) = NodeGet(sub, Drop(k, h))

\* A part along the key of a part along the key.
LEMMA PartAtBelow ==
  ASSUME NEW l \in Nat, NEW n \in 0..l, NEW q \in Key(n), NEW full, NEW part, HasPart(full, l, q, n, part),
         NEW d, d = l - n, NEW key \in Key(l), IsPrefix(q, key),
         NEW h \in 0..d, NEW sub, PartAt(part, d, Drop(key, n), h, sub)
  PROVE  PartAt(full, l, key, n + h, sub)
<1> SUFFICES ASSUME NEW k \in Key(l), Shares(k, key, n + h)
             PROVE  NodeGet(full, k) = NodeGet(sub, Drop(k, n + h))
  BY DEF PartAt
<1> DEFINE p == Drop(k, n)
<1>0. n \in Nat /\ d \in Nat /\ h \in Nat /\ n + h <= l /\ d = l - n /\ h \in 0..(l - n)
  OBVIOUS
<1>1. \A i \in 1..(n + h): k[i] = key[i]
  BY DEF Shares
<1>2. \A i \in 1..n: i \in 1..(n + h)
  BY <1>0
<1>3. \A i \in 1..n: q[i] = k[i]
  <2>1. \A i \in 1..n: q[i] = key[i]
    BY <1>0, PrefixNibbles
  <2> QED
    BY <1>1, <1>2, <2>1
<1>4. IsPrefix(q, k)
  BY <1>0, <1>3, PrefixNibbles
<1>5. p \in Key(d) /\ \A i \in 1..d: p[i] = k[n + i]
  BY <1>0, DropKey
<1>6. Drop(key, n) \in Key(d) /\ \A i \in 1..d: Drop(key, n)[i] = key[n + i]
  BY <1>0, DropKey
<1>7. ASSUME NEW i \in 1..h PROVE p[i] = Drop(key, n)[i]
  <2>1. i \in 1..d /\ n + i \in 1..(n + h)
    BY <1>0
  <2> QED
    BY <1>1, <1>5, <1>6, <2>1
<1>8. NodeGet(full, k) = NodeGet(part, p)
  BY <1>4 DEF HasPart
<1>9. NodeGet(part, p) = NodeGet(sub, Drop(p, h))
  BY <1>5, <1>7 DEF PartAt, Shares
<1>10. Drop(p, h) = Drop(k, n + h)
  BY <1>0, DropTwice
<1> QED
  BY <1>8, <1>9, <1>10

\* The whole trie is the part along the key at its start.
LEMMA PartAtTop ==
  ASSUME NEW l \in Nat, NEW full, NEW key
  PROVE  PartAt(full, l, key, 0, full)
BY DropNone DEF PartAt

\* Where the walk of a key ends that is not there.
Stops(node, rest) ==
  /\ node.t # "digest"
  /\ node.t = "leaf" => node.path # rest
  /\ node.t = "extension" => ~IsPrefix(node.path, rest)
  /\ node.t = "branch" => rest # <<>> /\ rest[1] \notin DOMAIN node.children

\* The walk along the key ends after h nibbles, at a node that stands for the part there.
StopsAt(end, full, l, key, h) ==
  \E sub, atop, x: /\ end = Place(x, Drop(key, h)) /\ Stops(x, Drop(key, h))
                   /\ Stands(x, sub, l - h, atop) /\ PartAt(full, l, key, h, sub)

\* The walk of a key that the trie lacks stops somewhere along it.
MissingAt(l) ==
  \A node, full, atop, key:
    Stands(node, full, l, atop) /\ key \in Key(l) /\ NodeGet(node, key) = NoValue =>
      \E h \in 0..l: StopsAt(Walk(node, key), full, l, key, h)

\* The walk stops where it starts.
LEMMA StopsHere ==
  ASSUME NEW l \in Nat, NEW node, NEW full, NEW atop, Stands(node, full, l, atop), NEW key \in Key(l),
         Walk(node, key) = Place(node, key), Stops(node, key)
  PROVE  \E h \in 0..l: StopsAt(Walk(node, key), full, l, key, h)
<1>1. Drop(key, 0) = key /\ l - 0 = l /\ 0 \in 0..l
  BY DropNone
<1>2. PartAt(full, l, key, 0, full)
  BY PartAtTop
<1>3. StopsAt(Walk(node, key), full, l, key, 0)
  BY <1>1, <1>2 DEF StopsAt
<1> QED
  BY <1>1, <1>3

\* Where the walk of the rest of the key stops, the walk of the key stops.
LEMMA StopsBelow ==
  ASSUME NEW l \in Nat, NEW n \in 1..l, NEW q \in Key(n), NEW full, NEW part, HasPart(full, l, q, n, part),
         NEW key \in Key(l), IsPrefix(q, key), NEW d, d = l - n, NEW rest, rest = Drop(key, n),
         NEW end, NEW j \in 0..d, StopsAt(end, part, d, rest, j)
  PROVE  \E h \in 0..l: StopsAt(end, full, l, key, h)
<1>0. n \in 0..l /\ n \in Nat /\ d \in Nat /\ j \in Nat /\ n + j \in 0..l /\ l - (n + j) = d - j /\ j \in 0..(l - n)
  OBVIOUS
<1>1. PICK sub, atop, x: /\ end = Place(x, Drop(rest, j)) /\ Stops(x, Drop(rest, j))
                         /\ Stands(x, sub, d - j, atop) /\ PartAt(part, d, rest, j, sub)
  BY DEF StopsAt
<1>2. Drop(rest, j) = Drop(key, n + j)
  BY <1>0, DropTwice
<1>3. PartAt(full, l, key, n + j, sub)
  BY <1>0, <1>1, PartAtBelow
<1>4. StopsAt(end, full, l, key, n + j)
  BY <1>0, <1>1, <1>2, <1>3 DEF StopsAt
<1> QED
  BY <1>0, <1>4

\* So it is in tries of every key length.
LEMMA WalkOfMissing ==
  \A l \in Nat: MissingAt(l)
<1> DEFINE S == {l \in Nat: MissingAt(l)}
<1>1. ASSUME NEW l \in Nat, \A d \in 0..(l - 1): d \in S PROVE l \in S
  <2> SUFFICES ASSUME NEW node, NEW full, NEW atop, NEW key,
                      Stands(node, full, l, atop), key \in Key(l), NodeGet(node, key) = NoValue
               PROVE  \E h \in 0..l: StopsAt(Walk(node, key), full, l, key, h)
    BY DEF MissingAt
  <2>v. NoValue # Panic /\ NoValue \notin Values
    BY ValuesAssumption DEF NoValue, Panic
  <2>1. CASE node.t = "digest"
    BY <2>1, <2>v, AtEnd
  <2>2. ASSUME NEW path, NEW value, NEW cache, LeafStands(node, full, l, atop, path, value, cache)
        PROVE  \E h \in 0..l: StopsAt(Walk(node, key), full, l, key, h)
    <3>1. node.t = "leaf" /\ node.value \in Values
      BY <2>2 DEF LeafStands, IsLeaf, LeafNode
    <3>2. node.path # key
      BY <2>v, <3>1, AtEnd
    <3>3. Walk(node, key) = Place(node, key)
      BY <3>1, AtEnd DEF Place
    <3>4. Stops(node, key)
      BY <3>1, <3>2 DEF Stops
    <3> QED
      BY <3>3, <3>4, StopsHere
  <2>3. ASSUME NEW n, NEW path, NEW child, NEW part, NEW cache,
               ExtensionStands(node, full, l, atop, n, path, child, part, cache)
        PROVE  \E h \in 0..l: StopsAt(Walk(node, key), full, l, key, h)
    <3> DEFINE d == l - n
               rest == Drop(key, n)
    <3>1. /\ IsExtension(node, l, n, path, child, cache) /\ IsExtension(full, l, n, path, part, NoCache)
          /\ Stands(child, part, d, FALSE) /\ d \in 0..(l - 1)
      BY <2>3, ExtensionParts
    <3>2. n \in 1..l /\ n \in 0..l /\ path \in Key(n)
      BY <3>1 DEF IsExtension
    <3>3. CASE IsPrefix(path, key)
      <4>1. NodeGet(child, rest) = NoValue /\ Walk(node, key) = Walk(child, rest)
        BY <3>1, <3>3, AtExtension
      <4>2. rest \in Key(d)
        BY <3>2, DropKey
      <4>3. MissingAt(d)
        BY <1>1, <3>1
      <4>4. HasPart(full, l, path, n, part)
        BY <3>1, ExtensionPart
      <4> HIDE DEF d, rest
      <4>5. PICK j \in 0..d: StopsAt(Walk(child, rest), part, d, rest, j)
        BY <3>1, <4>1, <4>2, <4>3 DEF MissingAt
      <4>6. d = l - n /\ rest = Drop(key, n)
        BY DEF d, rest
      <4>7. \E h \in 0..l: StopsAt(Walk(child, rest), full, l, key, h)
        BY <3>2, <3>3, <4>4, <4>5, <4>6, StopsBelow
      <4> QED
        BY <4>1, <4>7
    <3>4. CASE ~IsPrefix(path, key)
      <4>1. Walk(node, key) = Place(node, key)
        BY <3>1, <3>4, AtExtension
      <4>2. node.t = "extension" /\ node.path = path
        BY <3>1 DEF IsExtension, ExtensionNode
      <4>3. Stops(node, key)
        BY <3>4, <4>2 DEF Stops
      <4> QED
        BY <4>1, <4>3, StopsHere
    <3> QED
      BY <3>3, <3>4
  <2>4. ASSUME NEW nibs, NEW children, NEW parts, NEW cache,
               BranchStands(node, full, l, atop, nibs, children, parts, cache)
        PROVE  \E h \in 0..l: StopsAt(Walk(node, key), full, l, key, h)
    <3> DEFINE d == l - 1
               rest == Drop(key, 1)
               nib == key[1]
               one == <<nib>>
    <3>1. /\ IsBranch(node, l, nibs, children, cache) /\ IsBranch(full, l, nibs, parts, NoCache)
          /\ \A i \in nibs: Stands(children[i], parts[i], d, FALSE)
          /\ l > 0 /\ d \in 0..(l - 1) /\ 1 \in 1..l /\ 1 \in 0..l
      <4>1. /\ IsBranch(node, l, nibs, children, cache) /\ IsBranch(full, l, nibs, parts, NoCache)
            /\ \A i \in nibs: Stands(children[i], parts[i], l - 1, FALSE)
            /\ l > 0
        BY <2>4, BranchParts
      <4>2. d \in 0..(l - 1) /\ 1 \in 1..l /\ 1 \in 0..l
        BY <4>1
      <4> QED
        BY <4>1, <4>2
    <3>2. nib \in Nibble /\ key # <<>>
      BY <3>1, HeadTail
    <3>n. nib = key[1]
      OBVIOUS
    <3> HIDE DEF nib
    <3>3. one \in Key(1) /\ IsPrefix(one, key)
      BY <3>1, <3>2, <3>n, OneNibble, FirstNibble
    <3>4. CASE nib \in nibs
      <4>1. NodeGet(children[nib], rest) = NoValue /\ Walk(node, key) = Walk(children[nib], rest)
        BY <3>1, <3>4, <3>n, AtBranch
      <4>2. rest \in Key(d)
        BY <3>1, DropKey
      <4>3. MissingAt(d)
        BY <1>1, <3>1
      <4>4. HasPart(full, l, one, 1, parts[nib])
        BY <3>1, <3>4, BranchPart
      <4> HIDE DEF d, rest, one
      <4>5. PICK j \in 0..d: StopsAt(Walk(children[nib], rest), parts[nib], d, rest, j)
        BY <3>1, <3>4, <4>1, <4>2, <4>3 DEF MissingAt
      <4>6. d = l - 1 /\ rest = Drop(key, 1)
        BY DEF d, rest
      <4>7. \E h \in 0..l: StopsAt(Walk(children[nib], rest), full, l, key, h)
        BY <3>1, <3>3, <4>4, <4>5, <4>6, StopsBelow
      <4> QED
        BY <4>1, <4>7
    <3>5. CASE nib \notin nibs
      <4>1. Walk(node, key) = Place(node, key)
        BY <3>1, <3>5, <3>n, AtBranch
      <4>2. node.t = "branch" /\ DOMAIN node.children = nibs
        BY <3>1 DEF IsBranch, BranchNode
      <4>3. Stops(node, key)
        BY <3>2, <3>5, <3>n, <4>2 DEF Stops
      <4> QED
        BY <4>1, <4>3, StopsHere
    <3> QED
      BY <3>4, <3>5
  <2> QED
    BY <2>1, <2>2, <2>3, <2>4, StandsCases
<1> HIDE DEF S
<1>2. \A l \in Nat: l \in S
  BY <1>1, SetInduction
<1> QED
  BY <1>2 DEF S

\* The trie without a key.
Lacks(less, full, l, key) ==
  NodeGet(less, key) = NoValue /\ \A k \in Key(l): k # key => NodeGet(less, k) = NodeGet(full, k)

\* A key of a part of the trie that lacks the key is one of the other keys.
LEMMA KeyThere ==
  ASSUME NEW l \in Nat, NEW key \in Key(l), NEW full, NEW less, Lacks(less, full, l, key),
         NEW h \in 0..l, NEW d, d = l - h, NEW sub, PartAt(less, l, key, h, sub),
         NEW r \in Key(d), NodeGet(sub, r) # NoValue
  PROVE  \E k: /\ IsOther(full, l, key, k) /\ Shares(k, key, h)
               /\ Drop(k, h) = r /\ \A i \in 1..d: k[h + i] = r[i]
<1> DEFINE q == SubSeq(key, 1, h)
           k == Joined(q, r)
<1>0. h \in Nat /\ d \in Nat /\ h + d = l
  OBVIOUS
<1>1. q \in Key(h) /\ \A i \in 1..h: q[i] = key[i]
  BY FirstPart
<1> HIDE DEF q
<1>2. k \in Key(l) /\ (\A i \in 1..h: k[i] = q[i]) /\ \A i \in 1..d: k[h + i] = r[i]
  <2>1. k \in Key(h + d) /\ (\A i \in 1..h: k[i] = q[i]) /\ \A i \in 1..d: k[h + i] = r[i]
    <3>1. Joined(q, r) \in Key(h + d)
      BY <1>0, <1>1, JoinedPath
    <3>2. \A i \in 1..h: Joined(q, r)[i] = q[i]
      BY <1>0, <1>1, JoinedPath
    <3>3. \A i \in 1..d: Joined(q, r)[h + i] = r[i]
      BY <1>0, <1>1, JoinedPath
    <3> QED
      BY <3>1, <3>2, <3>3
  <2> QED
    BY <1>0, <2>1
<1>3. Drop(k, h) = r
  BY <1>0, <1>1, <1>2, JoinedPrefix
<1> HIDE DEF k
<1>4. Shares(k, key, h)
  BY <1>1, <1>2 DEF Shares
<1>5. NodeGet(less, k) = NodeGet(sub, r)
  BY <1>2, <1>3, <1>4 DEF PartAt
<1>6. k # key /\ NodeGet(full, k) # NoValue
  BY <1>2, <1>5 DEF Lacks
<1> QED
  BY <1>2, <1>3, <1>4, <1>6 DEF IsOther

\* What another key that shares its start has in that part.
LEMMA OtherBelow ==
  ASSUME NEW l \in Nat, NEW key \in Key(l), NEW full, NEW less, Lacks(less, full, l, key),
         NEW h \in 0..l, NEW d, d = l - h, NEW sub, PartAt(less, l, key, h, sub),
         NEW k, IsOther(full, l, key, k), Shares(k, key, h)
  PROVE  /\ k \in Key(l) /\ Drop(k, h) \in Key(d) /\ \A i \in 1..d: Drop(k, h)[i] = k[h + i]
         /\ NodeGet(sub, Drop(k, h)) = NodeGet(full, k) /\ NodeGet(full, k) # NoValue
<1>1. k \in Key(l) /\ k # key /\ NodeGet(full, k) # NoValue
  BY DEF IsOther
<1>2. Drop(k, h) \in Key(d) /\ \A i \in 1..d: Drop(k, h)[i] = k[h + i]
  BY <1>1, DropKey
<1>3. NodeGet(less, k) = NodeGet(full, k)
  BY <1>1 DEF Lacks
<1>4. NodeGet(less, k) = NodeGet(sub, Drop(k, h))
  BY <1>1 DEF PartAt
<1> QED
  BY <1>1, <1>2, <1>3, <1>4

\* A path and what is left of a key part after what they have in common.
PartsFrom(x, n, d, rest, c, common) ==
  /\ HasPath(x, d, n) /\ n \in 0..d /\ x.path \in Key(n)
  /\ c \in Nat /\ c < n /\ c < d /\ common \in Key(c)
  /\ \A i \in 1..c: common[i] = x.path[i] /\ common[i] = rest[i]
  /\ x.path[c + 1] # rest[c + 1]

\* A leaf or an extension at which the walk stops leaves the rest of the key inside its path.
LEMMA StopsParts ==
  ASSUME NEW d \in Nat, NEW rest \in Key(d), NEW x, Shape(x, d), x.t \in {"leaf", "extension"}, Stops(x, rest),
         NEW common, common = LongestCommonPrefix({x.path, rest})
  PROVE  \E n, c: PartsFrom(x, n, d, rest, c, common)
<1> DEFINE n == Len(x.path)
<1>1. HasPath(x, d, n)
  BY DEF HasPath
<1> HIDE DEF n
<1>2. n \in 0..d /\ n \in Nat /\ n <= d /\ x.path \in Key(n) /\ (x.t = "leaf" => n = d)
  <2>1. n \in 0..d /\ x.path \in Key(n) /\ (x.t = "leaf" => n = d)
    BY <1>1, PathOf
  <2> QED
    BY <2>1
<1>3. \E i \in 1..n: x.path[i] # rest[i]
  <2> SUFFICES ASSUME \A i \in 1..n: x.path[i] = rest[i] PROVE FALSE
    OBVIOUS
  <2>1. CASE x.t = "leaf"
    <3>1. x.path = rest
      BY <1>2, <2>1, KeyEqual
    <3> QED
      BY <2>1, <3>1 DEF Stops
  <2>2. CASE x.t = "extension"
    <3>1. IsPrefix(x.path, rest)
      BY <1>2, PrefixNibbles
    <3> QED
      BY <2>2, <3>1 DEF Stops
  <2> QED
    BY <2>1, <2>2
<1>4. \E i \in 1..n: i <= d /\ x.path[i] # rest[i]
  BY <1>2, <1>3
<1>5. PICK c \in Nat: /\ c < n /\ c < d /\ common \in Key(c)
                      /\ IsPrefix(common, x.path) /\ IsPrefix(common, rest)
                      /\ x.path[c + 1] # rest[c + 1]
  BY <1>2, <1>4, CommonPart
<1>6. \A i \in 1..c: common[i] = x.path[i] /\ common[i] = rest[i]
  <2>1. \A i \in 1..c: common[i] = x.path[i]
    BY <1>2, <1>5, PrefixNibbles
  <2>2. \A i \in 1..c: common[i] = rest[i]
    BY <1>5, PrefixNibbles
  <2> QED
    BY <2>1, <2>2
<1>7. PartsFrom(x, n, d, rest, c, common)
  BY <1>1, <1>2, <1>5, <1>6 DEF PartsFrom
<1> QED
  BY <1>7

\* The keys with a value start with the path.
LEMMA OnPath ==
  ASSUME NEW d \in Nat, NEW x, NEW sub, NEW atop, Stands(x, sub, d, atop), NEW n, HasPath(x, d, n),
         NEW k \in Key(d), NodeGet(sub, k) # NoValue
  PROVE  \A i \in 1..n: x.path[i] = k[i]
<1>1. NodeGet(x, k) \in {Panic, NodeGet(sub, k)}
  BY GetOfStandIn
<1>2. NodeGet(x, k) # NoValue
  BY <1>1 DEF Panic, NoValue
<1>3. Follows(x, k, n)
  BY <1>2, OffPath
<1> QED
  BY <1>3 DEF Follows

\* All other keys that are as close to the key as any have the nibble of the path.
LEMMA StopsDeserted ==
  ASSUME NEW l \in Nat, NEW key \in Key(l), NEW full, NEW less, Lacks(less, full, l, key),
         NEW h \in 0..l, NEW d, d = l - h, NEW rest, rest = Drop(key, h),
         NEW x, NEW sub, NEW atop, Stands(x, sub, d, atop), PartAt(less, l, key, h, sub),
         NEW n, NEW c, NEW common, PartsFrom(x, n, d, rest, c, common)
  PROVE  /\ Deserted(full, l, key, h + c, x.path[c + 1])
         /\ Joined(SubSeq(key, 1, h), common) = SubSeq(key, 1, h + c)
<1> DEFINE j == h + c
           nib == x.path[c + 1]
<1>0. /\ d \in Nat /\ h \in Nat /\ c \in Nat /\ j \in 0..(l - 1) /\ j \in 0..l /\ j \in Nat
      /\ c + 1 \in 1..d /\ c + 1 \in 1..n /\ h + (c + 1) = j + 1
      /\ n \in Nat /\ c < n /\ c < d
  BY DEF PartsFrom
<1>1. /\ HasPath(x, d, n) /\ x.path \in Key(n) /\ common \in Key(c) /\ nib # rest[c + 1]
      /\ \A i \in 1..c: common[i] = x.path[i] /\ common[i] = rest[i]
  BY DEF PartsFrom
<1>2. rest \in Key(d) /\ \A i \in 1..d: rest[i] = key[h + i]
  BY DropKey
<1>3. nib \in Nibble
  BY <1>0, <1>1 DEF Key
<1>4. nib # key[j + 1]
  BY <1>0, <1>1, <1>2
<1> HIDE DEF nib
<1>5. ASSUME NEW i \in 1..j, i \notin 1..h PROVE \E y \in 1..c: y \in 1..d /\ y \in 1..n /\ h + y = i
  <2>1. i - h \in 1..c /\ i - h \in 1..d /\ i - h \in 1..n /\ h + (i - h) = i
    BY <1>0, <1>5
  <2> QED
    BY <2>1
<1>6. ASSUME NEW k, IsOther(full, l, key, k), Shares(k, key, j) PROVE k[j + 1] = nib
  <2>1. \A i \in 1..h: i \in 1..j
    BY <1>0
  <2>2. Shares(k, key, h)
    BY <1>6, <2>1 DEF Shares
  <2>3. /\ Drop(k, h) \in Key(d) /\ \A i \in 1..d: Drop(k, h)[i] = k[h + i]
        /\ NodeGet(sub, Drop(k, h)) # NoValue
    BY <1>6, <2>2, OtherBelow
  <2>4. x.path[c + 1] = Drop(k, h)[c + 1]
    BY <1>0, <1>1, <2>3, OnPath
  <2> QED
    BY <1>0, <2>3, <2>4 DEF nib
<1>7. \E k: IsOther(full, l, key, k) /\ Shares(k, key, j)
  <2>1. Shape(sub, d) /\ Resolved(sub, d)
    BY <1>0, StandsShape, FullResolved
  <2>2. PICK r \in Key(d): NodeGet(sub, r) # NoValue
    BY <1>0, <2>1, SomeKey
  <2>3. PICK k: /\ IsOther(full, l, key, k) /\ Shares(k, key, h)
                /\ \A i \in 1..d: k[h + i] = r[i]
    BY <2>2, KeyThere
  <2>4. \A i \in 1..n: x.path[i] = r[i]
    BY <1>0, <1>1, <2>2, OnPath
  <2>5. ASSUME NEW i \in 1..j PROVE k[i] = key[i]
    <3>1. CASE i \in 1..h
      BY <2>3, <3>1 DEF Shares
    <3>2. CASE i \notin 1..h
      <4>1. PICK y \in 1..c: y \in 1..d /\ y \in 1..n /\ h + y = i
        BY <1>5, <3>2
      <4>2. k[i] = r[y] /\ key[i] = rest[y]
        BY <1>2, <2>3, <4>1
      <4>3. r[y] = rest[y]
        BY <1>1, <2>4, <4>1
      <4> QED
        BY <4>2, <4>3
    <3> QED
      BY <3>1, <3>2
  <2> QED
    BY <2>3, <2>5 DEF Shares
<1>8. Deserted(full, l, key, j, nib)
  BY <1>0, <1>3, <1>4, <1>6, <1>7 DEF Deserted
<1>9. Joined(SubSeq(key, 1, h), common) = SubSeq(key, 1, j)
  <2> DEFINE q == SubSeq(key, 1, h)
             p == SubSeq(key, 1, j)
             s == Joined(q, common)
  <2>1. q \in Key(h) /\ \A i \in 1..h: q[i] = key[i]
    BY FirstPart
  <2>2. p \in Key(j) /\ \A i \in 1..j: p[i] = key[i]
    BY <1>0, FirstPart
  <2> HIDE DEF p, q
  <2>3. s \in Key(j) /\ (\A i \in 1..h: s[i] = q[i]) /\ \A i \in 1..c: s[h + i] = common[i]
    <3>1. Joined(q, common) \in Key(j)
      BY <1>0, <1>1, <2>1, JoinedPath
    <3>2. \A i \in 1..h: Joined(q, common)[i] = q[i]
      BY <1>0, <1>1, <2>1, JoinedPath
    <3>3. \A i \in 1..c: Joined(q, common)[h + i] = common[i]
      BY <1>0, <1>1, <2>1, JoinedPath
    <3> QED
      BY <3>1, <3>2, <3>3
  <2> HIDE DEF s
  <2>4. ASSUME NEW i \in 1..j PROVE s[i] = p[i]
    <3>1. CASE i \in 1..h
      BY <2>1, <2>2, <2>3, <3>1
    <3>2. CASE i \notin 1..h
      <4>1. PICK y \in 1..c: y \in 1..d /\ y \in 1..n /\ h + y = i
        BY <1>5, <3>2
      <4>2. s[i] = common[y] /\ key[i] = rest[y]
        BY <1>2, <2>3, <4>1
      <4> QED
        BY <1>1, <2>2, <4>1, <4>2
    <3> QED
      BY <3>1, <3>2
  <2>5. s = p
    BY <1>0, <2>2, <2>3, <2>4, KeyEqual
  <2> QED
    BY <2>5 DEF s, p, q
<1> QED
  BY <1>8, <1>9 DEF nib

\* A branch whose children the key is not among leaves no orphan behind.
LEMMA StopsCrowded ==
  ASSUME NEW l \in Nat, NEW key \in Key(l), NEW full, NEW less, Lacks(less, full, l, key),
         NEW h \in 0..l, NEW d, d = l - h, NEW rest, rest = Drop(key, h),
         NEW x, NEW sub, NEW atop, Stands(x, sub, d, atop), PartAt(less, l, key, h, sub),
         x.t = "branch", Stops(x, rest)
  PROVE  Crowded(full, l, key, h)
<1>0. d \in Nat /\ rest \in Key(d) /\ \A i \in 1..d: rest[i] = key[h + i]
  BY DropKey
<1>1. PICK nibs, children, parts, cache: BranchStands(x, sub, d, atop, nibs, children, parts, cache)
  <2>1. ASSUME NEW path, NEW value, NEW cache, LeafStands(x, sub, d, atop, path, value, cache) PROVE FALSE
    BY <2>1 DEF LeafStands, LeafNode
  <2>2. ASSUME NEW n, NEW path, NEW child, NEW part, NEW cache,
               ExtensionStands(x, sub, d, atop, n, path, child, part, cache)
        PROVE  FALSE
    BY <2>2 DEF ExtensionStands, ExtensionNode
  <2> QED
    BY <2>1, <2>2, StandsCases
<1>2. /\ IsBranch(x, d, nibs, children, cache) /\ IsBranch(sub, d, nibs, parts, NoCache)
      /\ d > 0 /\ FullBranch(sub, d, nibs, parts)
  BY <1>0, <1>1, BranchParts
<1>3. h \in 0..(l - 1) /\ 1 \in 1..d /\ d - 1 \in Nat
  BY <1>0, <1>2
<1>4. x.children = children /\ DOMAIN children = nibs /\ IsFiniteSet(nibs) /\ Cardinality(nibs) >= 2
  BY <1>2 DEF IsBranch, BranchNode
<1>5. key[h + 1] \notin nibs
  BY <1>0, <1>3, <1>4 DEF Stops
<1>6. ASSUME NEW k, IsOther(full, l, key, k), Shares(k, key, h) PROVE k[h + 1] # key[h + 1]
  <2>1. /\ Drop(k, h) \in Key(d) /\ \A i \in 1..d: Drop(k, h)[i] = k[h + i]
        /\ NodeGet(sub, Drop(k, h)) # NoValue
    BY <1>6, OtherBelow
  <2>2. Drop(k, h)[1] \in nibs
    BY <1>0, <1>2, <2>1, AtBranch
  <2>3. Drop(k, h)[1] = k[h + 1]
    BY <1>3, <2>1
  <2> QED
    BY <1>5, <2>2, <2>3
<1>7. ASSUME NEW i \in nibs PROVE \E k: IsOther(full, l, key, k) /\ Shares(k, key, h) /\ k[h + 1] = i
  <2> DEFINE e == d - 1
  <2>1. Full(parts[i], e) /\ e \in Nat
    BY <1>2, <1>3 DEF FullBranch
  <2>a. Shape(parts[i], e) /\ Resolved(parts[i], e)
    <3>1. Shape(parts[i], e)
      BY <1>2 DEF IsBranch
    <3> QED
      BY <2>1, <3>1, FullResolved
  <2>2. PICK r \in Key(e): NodeGet(parts[i], r) # NoValue
    BY <2>1, <2>a, SomeKey
  <2>3. PICK s \in Key(d): s[1] = i /\ NodeGet(sub, s) = NodeGet(parts[i], r)
    BY <1>0, <1>2, <2>2, ReachBranch
  <2>4. PICK k: IsOther(full, l, key, k) /\ Shares(k, key, h) /\ \A y \in 1..d: k[h + y] = s[y]
    BY <2>2, <2>3, KeyThere
  <2>5. k[h + 1] = i
    BY <1>3, <2>3, <2>4
  <2> QED
    BY <2>4, <2>5
<1>8. PICK i, j \in nibs: i # j
  BY <1>4, TwoChildren
<1>9. PICK a: IsOther(full, l, key, a) /\ Shares(a, key, h) /\ a[h + 1] = i
  BY <1>7
<1>10. PICK b: IsOther(full, l, key, b) /\ Shares(b, key, h) /\ b[h + 1] = j
  BY <1>7
<1> QED
  BY <1>3, <1>6, <1>8, <1>9, <1>10 DEF Crowded

\* What is behind the first of two joined paths is the second.
LEMMA JoinedBehind ==
  ASSUME NEW m \in Nat, NEW p \in Key(m), NEW e \in Nat, NEW r \in Key(e), NEW l, l = m + e
  PROVE  /\ Joined(p, r) \in Key(l) /\ IsPrefix(p, Joined(p, r)) /\ Drop(Joined(p, r), m) = r
<1>1. Joined(p, r) \in Key(l) /\ l \in Nat
  BY JoinedPath
<1>2. IsPrefix(p, Joined(p, r)) /\ Drop(Joined(p, r), m) = r
  BY <1>1, JoinedPrefix
<1> QED
  BY <1>1, <1>2

\* A path joined with one nibble.
LEMMA OneMore ==
  ASSUME NEW j \in Nat, NEW q \in Key(j), NEW i \in Nibble
  PROVE  /\ Joined(q, <<i>>) \in Key(j + 1) /\ Joined(q, <<i>>)[j + 1] = i
         /\ \A y \in 1..j: Joined(q, <<i>>)[y] = q[y]
<1> DEFINE last == <<i>>
<1>1. last \in Key(1) /\ last[1] = i /\ 1 \in 1..1 /\ 1 \in Nat
  BY OneNibble
<1> HIDE DEF last
<1>2. /\ Joined(q, last) \in Key(j + 1) /\ Joined(q, last)[j + 1] = i
      /\ \A y \in 1..j: Joined(q, last)[y] = q[y]
  BY <1>1, JoinedPath
<1> QED
  BY <1>2 DEF last

\* The sibling is the lower part of where the walk stops.
LEMMA SiblingStands ==
  ASSUME NEW l \in Nat, NEW key \in Key(l), NEW full, NEW less, Lacks(less, full, l, key),
         NEW h \in 0..l, NEW d, d = l - h, NEW rest, rest = Drop(key, h),
         NEW x, NEW sub, NEW atop, Stands(x, sub, d, atop), PartAt(less, l, key, h, sub),
         NEW n, NEW c, NEW common, PartsFrom(x, n, d, rest, c, common),
         NEW node, NEW p, p = Joined(SubSeq(key, 1, h + c), <<x.path[c + 1]>>),
         NEW m, NEW s, DigestOf(node, full, l, p, m, s)
  PROVE  Stands(LowerPart(x, c + 1), s, l - m, FALSE)
<1> DEFINE j == h + c
           nib == x.path[c + 1]
           last == <<nib>>
           q == SubSeq(key, 1, j)
           b == c + 1
           low == LowerPart(sub, b)
           e == l - m
<1>0. /\ d \in Nat /\ h \in Nat /\ c \in Nat /\ j \in 0..(l - 1) /\ j \in 0..l /\ j \in Nat
      /\ b \in 1..d /\ b \in 1..n /\ h + b = j + 1 /\ j + 1 \in 0..l /\ b \in 0..d
  BY DEF PartsFrom
<1>1. /\ HasPath(x, d, n) /\ x.path \in Key(n) /\ nib # rest[c + 1] /\ x.t \in {"leaf", "extension"}
      /\ \A i \in 1..c: rest[i] = x.path[i]
  BY DEF PartsFrom, HasPath
<1>2. rest \in Key(d) /\ \A i \in 1..d: rest[i] = key[h + i]
  BY DropKey
<1>3. nib \in Nibble /\ nib # key[j + 1]
  BY <1>0, <1>1, <1>2 DEF Key
<1>4. q \in Key(j) /\ \A i \in 1..j: q[i] = key[i]
  <2>1. q \in Key(j)
    BY <1>0, FirstPart
  <2>2. \A i \in 1..j: q[i] = key[i]
    BY <1>0, FirstPart
  <2> QED
    BY <2>1, <2>2
<1>5. last \in Key(1) /\ last[1] = nib /\ 1 \in 1..1 /\ 1 \in Nat
  BY <1>3, OneNibble
<1>p. p = Joined(q, last)
  OBVIOUS
<1> HIDE DEF last, nib, q, low, e
<1>6. p \in Key(j + 1) /\ (\A i \in 1..j: p[i] = key[i]) /\ p[j + 1] = nib
  <2>1. p \in Key(j + 1) /\ (\A i \in 1..j: p[i] = q[i]) /\ p[j + 1] = nib
    BY <1>0, <1>3, <1>4, <1>p, OneMore DEF last
  <2> QED
    BY <1>4, <2>1
<1>7. m = j + 1 /\ Full(s, e) /\ HasPart(full, l, p, m, s)
  <2>1. p \in Key(m) /\ Full(s, e) /\ HasPart(full, l, p, m, s)
    BY DEF DigestOf, e
  <2>2. m = Len(p) /\ j + 1 = Len(p)
    BY <1>6, <2>1 DEF Key
  <2> QED
    BY <2>1, <2>2
<1>8. e = d - b /\ e \in Nat /\ m \in 0..l /\ m \in Nat /\ m + e = l
  BY <1>0, <1>7 DEF e
<1>9. Stands(LowerPart(x, b), low, d - b, FALSE)
  BY <1>0, <1>1, LowerStands DEF low
<1>10. Full(low, e)
  <2>1. Full(low, d - b)
    BY <1>9, StandsShape
  <2> QED
    BY <1>8, <2>1
<1>11. HasPath(sub, d, n) /\ sub.path = x.path
  <2>1. SameHere(x, sub) /\ Shape(sub, d)
    BY <1>1, StandsShape DEF Stands, StandsHere
  <2>2. sub.t = x.t /\ sub.path = x.path
    BY <1>1, <2>1 DEF SameHere
  <2> QED
    BY <1>1, <2>1, <2>2 DEF HasPath
<1>12. ASSUME NEW r \in Key(e) PROVE NodeGet(s, r) = NodeGet(low, r)
  <2> DEFINE k == Joined(p, r)
             y == Drop(k, h)
  <2>0. p \in Key(m) /\ m \in Nat /\ e \in Nat /\ l = m + e
    BY <1>6, <1>7, <1>8
  <2>2. k \in Key(l) /\ IsPrefix(p, k) /\ Drop(k, m) = r
    BY <2>0, JoinedBehind
  <2> HIDE DEF k
  <2>1. k \in Key(l) /\ \A i \in 1..m: k[i] = p[i]
    BY <2>0, <2>2, PrefixNibbles
  <2>3. NodeGet(full, k) = NodeGet(s, r)
    BY <1>7, <2>1, <2>2 DEF HasPart
  <2>4. (\A i \in 1..j: k[i] = key[i]) /\ k[j + 1] = nib
    <3>1. (\A i \in 1..j: i \in 1..m) /\ j + 1 \in 1..m
      BY <1>0, <1>7
    <3> QED
      BY <1>6, <2>1, <3>1
  <2>5. NodeGet(less, k) = NodeGet(full, k)
    BY <1>3, <2>1, <2>4 DEF Lacks
  <2>6. Shares(k, key, h)
    <3>1. \A i \in 1..h: i \in 1..j
      BY <1>0
    <3> QED
      BY <2>4, <3>1 DEF Shares
  <2>7. NodeGet(less, k) = NodeGet(sub, y)
    BY <2>1, <2>6 DEF PartAt
  <2>8. y \in Key(d) /\ \A i \in 1..d: y[i] = k[h + i]
    BY <2>1, DropKey
  <2>9. Drop(y, b) = r
    <3>1. Drop(y, b) = Drop(k, h + b)
      BY <1>0, <2>1, DropTwice
    <3> QED
      BY <1>0, <1>7, <2>2, <3>1
  <2> HIDE DEF y
  <2>10. ASSUME NEW i \in 1..b PROVE sub.path[i] = y[i]
    <3>1. CASE i = c + 1
      <4>1. i \in 1..d /\ h + i = j + 1
        BY <1>0, <3>1
      <4>2. y[i] = nib
        BY <2>4, <2>8, <4>1
      <4> QED
        BY <1>11, <3>1, <4>2 DEF nib
    <3>2. CASE i # c + 1
      <4>1. i \in 1..c /\ i \in 1..d /\ h + i \in 1..j
        BY <1>0, <3>2
      <4>2. y[i] = key[h + i]
        BY <2>4, <2>8, <4>1
      <4>3. sub.path[i] = key[h + i]
        BY <1>1, <1>2, <1>11, <4>1
      <4> QED
        BY <4>2, <4>3
    <3> QED
      BY <3>1, <3>2
  <2>11. NodeGet(low, Drop(y, b)) = NodeGet(sub, y)
    <3>1. Follows(sub, y, b)
      BY <2>10 DEF Follows
    <3> QED
      BY <1>0, <1>11, <2>8, <3>1, LowerPartIsTrie DEF low
  <2> QED
    BY <2>3, <2>5, <2>7, <2>9, <2>11
<1>13. s = low
  BY <1>7, <1>8, <1>10, <1>12, FullSameEqual DEF Same
<1> QED
  BY <1>8, <1>9, <1>13 DEF e

\* A proof of a key, from a node and what is left of the key there, is found in
\* finitely many steps.
ProofRanked(x, key) == \E d \in Nat: HasRank(ProofOp, Place(x, key), d)

\* A proof goes on from the digest at which its walk ends.
LEMMA NextOfProof ==
  ASSUME NEW x, NEW key, NEW end, end = Walk(x, key), NEW at, at = Place(x, key)
  PROVE  /\ BelowAt(ProofOp, at) = IF end.node.t = "digest" THEN <<Place(Decode(end.node.of), end.key)>> ELSE <<>>
         /\ \A below: MadeAt(ProofOp, at, below) = IF below = <<>> THEN {} ELSE {end.node.of} \cup below[1]
<1>1. at.node = x /\ at.key = key
  BY DEF Place
<1>2. BelowAt(ProofOp, at) = NextDigest(at) /\ \A below: MadeAt(ProofOp, at, below) = ProofFrom(at, below)
  BY DEF BelowAt, MadeAt, ProofOp
<1> QED
  BY <1>1, <1>2 DEF NextDigest, ProofFrom, Place

\* It is that of the place where the walk of the key ends.
LEMMA SameProof ==
  ASSUME NEW x, NEW key, NEW y, NEW rest, Walk(x, key) = Walk(y, rest), ProofRanked(y, rest)
  PROVE  ProofRanked(x, key) /\ Proof(x, key) = Proof(y, rest)
<1> DEFINE op == ProofOp
           a == Place(x, key)
           b == Place(y, rest)
<1> DEFINE end == Walk(x, key)
           next == IF end.node.t = "digest" THEN <<Place(Decode(end.node.of), end.key)>> ELSE <<>>
           made(below) == IF below = <<>> THEN {} ELSE {end.node.of} \cup below[1]
<1>0. end = Walk(x, key) /\ end = Walk(y, rest)
  OBVIOUS
<1>1. BelowAt(op, a) = BelowAt(op, b) /\ \A below: MadeAt(op, a, below) = MadeAt(op, b, below)
  <2>1. BelowAt(op, a) = next /\ BelowAt(op, b) = next
    BY <1>0, NextOfProof
  <2>2. ASSUME NEW below PROVE MadeAt(op, a, below) = MadeAt(op, b, below)
    <3>1. MadeAt(op, a, below) = made(below)
      BY NextOfProof
    <3>2. MadeAt(op, b, below) = made(below)
      BY <1>0, NextOfProof
    <3> QED
      BY <3>1, <3>2
  <2> QED
    BY <2>1, <2>2
<1>2. Proof(x, key) = Fold(op, a) /\ Proof(y, rest) = Fold(op, b)
  BY ProofIsFold
<1>3. PICK d \in Nat: HasRank(op, b, d)
  BY DEF ProofRanked
<1> HIDE DEF op, a, b
<1>4. PICK S: <<b, d>> \in S /\ AreRanked(S, op)
  BY <1>3 DEF HasRank
<1>5. \A i \in DOMAIN BelowAt(op, a): \E k \in 0..(d - 1): HasRank(op, BelowAt(op, a)[i], k)
  <2>1. \A i \in DOMAIN BelowAt(op, b): \E k \in 0..(d - 1): <<BelowAt(op, b)[i], k>> \in S
    BY <1>4 DEF AreRanked
  <2>2. \A z, k: <<z, k>> \in S => HasRank(op, z, k)
    BY <1>4 DEF HasRank
  <2> QED
    BY <1>1, <2>1, <2>2
<1>6. HasRank(op, a, d) /\ Fold(op, a) = MadeOver(op, a)
  BY <1>5, FoldAbove
<1>7. Fold(op, b) = MadeOver(op, b)
  BY <1>3, FoldUnfolds
<1>8. MadeOver(op, a) = MadeOver(op, b)
  BY <1>1 DEF MadeOver
<1> QED
  BY <1>2, <1>6, <1>7, <1>8 DEF ProofRanked, op, a

\* A walk that ends at no digest ends the proof.
LEMMA ProofNowhere ==
  ASSUME NEW x, NEW key, Walk(x, key).node.t # "digest"
  PROVE  ProofRanked(x, key)
<1>1. BelowAt(ProofOp, Place(x, key)) = <<>>
  BY NextOfProof
<1>2. HasRank(ProofOp, Place(x, key), 0)
  BY <1>1, NothingBelow
<1> QED
  BY <1>2 DEF ProofRanked

\* The proof from a digest has its encoding and goes on from what it decodes to.
LEMMA ProofAtDigest ==
  ASSUME NEW rlp, NEW key, ProofRanked(Decode(rlp), key)
  PROVE  ProofRanked(Digest(rlp), key) /\ Proof(Digest(rlp), key) = {rlp} \cup Proof(Decode(rlp), key)
<1> DEFINE op == ProofOp
           x == Digest(rlp)
           a == Place(x, key)
           b == Place(Decode(rlp), key)
<1>1. x.t = "digest" /\ x.of = rlp
  BY DEF Digest
<1>2. Walk(x, key) = a
  BY <1>1, AtEnd
<1>3. a.node = x /\ a.key = key
  BY DEF Place
<1>4. BelowAt(op, a) = <<b>> /\ \A below: MadeAt(op, a, below) = IF below = <<>> THEN {} ELSE {rlp} \cup below[1]
  <2>1. Walk(x, key).node.t = "digest" /\ Walk(x, key).node.of = rlp /\ Walk(x, key).key = key
    BY <1>1, <1>2, <1>3
  <2> QED
    BY <2>1, NextOfProof
<1>5. Proof(x, key) = Fold(op, a) /\ Proof(Decode(rlp), key) = Fold(op, b)
  BY ProofIsFold
<1>6. PICK d \in Nat: HasRank(op, b, d)
  BY DEF ProofRanked
<1> HIDE DEF op, a, b, x
<1>7. \A i \in DOMAIN BelowAt(op, a): \E k \in 0..((d + 1) - 1): HasRank(op, BelowAt(op, a)[i], k)
  BY <1>4, <1>6
<1>8. HasRank(op, a, d + 1) /\ Fold(op, a) = MadeOver(op, a)
  BY <1>7, FoldAbove
<1>9. [i \in DOMAIN BelowAt(op, a) |-> Fold(op, BelowAt(op, a)[i])] = <<Fold(op, b)>>
  BY <1>4
<1>10. MadeOver(op, a) = {rlp} \cup Fold(op, b)
  BY <1>4, <1>9 DEF MadeOver
<1>11. d + 1 \in Nat
  OBVIOUS
<1>12. ProofRanked(x, key)
  BY <1>8, <1>11 DEF ProofRanked, op, a
<1> QED
  BY <1>5, <1>8, <1>10, <1>12 DEF x

\* From the reference to a trie, it may have the encoding of the trie, too.
LEMMA ProofOfRef ==
  ASSUME NEW d, NEW part, Full(part, d), NEW rest, ProofRanked(Decode(RlpEncoded(part)), rest),
         NEW x, x = Decode(NodeRef(part))
  PROVE  /\ ProofRanked(x, rest) /\ Proof(Decode(RlpEncoded(part)), rest) \subseteq Proof(x, rest)
         /\ NodeRef(part).t = "digest" => RlpEncoded(part) \in Proof(x, rest)
<1> DEFINE rlp == RlpEncoded(part)
<1>1. NodeRef(part) \in {rlp, Digest(rlp)} /\ rlp.t = part.t
  BY RefOfFull
<1>2. part.t \in {"leaf", "extension", "branch"}
  <2>1. Stands(part, part, d, FALSE)
    BY FullCases, FullStands
  <2> QED
    BY <2>1, StandsShape
<1>3. Decode(Digest(rlp)) = Digest(rlp)
  <2>1. Digest(rlp).t = "digest" /\ ChildrenOf(Digest(rlp)) = <<>>
    BY DEF Digest, ChildrenOf
  <2>2. \A i \in DOMAIN ChildrenOf(Digest(rlp)): \E k \in 0..(0 - 1): HasRank(DecodeOp, ChildrenOf(Digest(rlp))[i], k)
    BY <2>1
  <2>3. \E below: Decode(Digest(rlp)) = DecodeFrom(Digest(rlp), below)
    BY <2>2, Decoding
  <2> QED
    BY <2>1, <2>3 DEF DecodeFrom
<1>4. CASE NodeRef(part) = rlp
  BY <1>1, <1>2, <1>4
<1>5. CASE NodeRef(part) = Digest(rlp)
  BY <1>3, <1>5, ProofAtDigest
<1> QED
  BY <1>1, <1>4, <1>5

\* What the encodings of an extension and of a branch decode to.
LEMMA DecodedExtension ==
  ASSUME NEW l, NEW full, Full(full, l), NEW n, NEW path, NEW part, FullExtension(full, l, n, path, part),
         NEW child, child = Decode(NodeRef(part)), NEW node, node = Decode(RlpEncoded(full))
  PROVE  ExtensionStands(node, full, l, FALSE, n, path, child, part, NoCache)
<1> DEFINE rlp == RlpEncoded(full)
           decoded == [i \in DOMAIN ChildrenOf(rlp) |-> Decode(ChildrenOf(rlp)[i])]
<1>0. l \in Nat
  BY FullCases
<1>1. full = ExtensionNode(path, part, NoCache) /\ Full(part, l - n) /\ n \in 1..l
  BY DEF FullExtension, IsExtension
<1>2. rlp = [t |-> "extension", path |-> path, child |-> NodeRef(part)]
  BY <1>1, RlpOfKinds
<1>3. rlp.t = "extension" /\ rlp.path = path /\ rlp.child = NodeRef(part)
  BY <1>2
<1>3a. node = Decode(rlp)
  OBVIOUS
<1> HIDE DEF rlp
<1>4. ChildrenOf(rlp) = <<NodeRef(part)>>
  BY <1>3 DEF ChildrenOf
<1>5. l - n \in 0..(l - 1)
  BY <1>0, <1>1
<1>6. HasRank(DecodeOp, NodeRef(part), l - n) /\ Stands(child, part, l - n, FALSE)
  BY <1>1, DecodeStands
<1>6a. \A i \in DOMAIN ChildrenOf(rlp): \E k \in 0..(l - 1): HasRank(DecodeOp, ChildrenOf(rlp)[i], k)
  BY <1>4, <1>5, <1>6
<1>7. Decode(rlp) = DecodeFrom(rlp, decoded)
  BY <1>0, <1>6a, Decoding
<1>8. decoded[1] = child
  BY <1>4
<1> HIDE DEF decoded
<1>9. Decode(rlp) = Extension(path, child)
  BY <1>3, <1>7, <1>8 DEF DecodeFrom
<1>10. node = ExtensionNode(path, child, NoCache)
  BY <1>3a, <1>9, BareNodes
<1> QED
  BY <1>6, <1>10 DEF ExtensionStands, Caches

\* A decoded branch stands for the branch, with the references of its children decoded.
LEMMA DecodedBranch ==
  ASSUME NEW l, NEW full, Full(full, l), NEW nibs, NEW parts, FullBranch(full, l, nibs, parts),
         NEW children, children = [i \in nibs |-> Decode(NodeRef(parts[i]))],
         NEW node, node = Decode(RlpEncoded(full))
  PROVE  BranchStands(node, full, l, FALSE, nibs, children, parts, NoCache)
<1> DEFINE rlp == RlpEncoded(full)
           decoded == [i \in DOMAIN ChildrenOf(rlp) |-> Decode(ChildrenOf(rlp)[i])]
<1>0. l \in Nat
  BY FullCases
<1>1. /\ full = BranchNode(parts, NoCache) /\ l > 0 /\ parts = [i \in nibs |-> parts[i]]
      /\ \A i \in nibs: Full(parts[i], l - 1)
  BY DEF FullBranch, IsBranch
<1>2. rlp = [t |-> "branch", children |-> [i \in DOMAIN parts |-> NodeRef(parts[i])]]
  BY <1>1, RlpOfKinds
<1>3. rlp.t = "branch" /\ rlp.children = [i \in nibs |-> NodeRef(parts[i])]
  <2>1. DOMAIN parts = nibs
    BY <1>1
  <2> QED
    BY <1>2, <2>1
<1>3a. node = Decode(rlp)
  OBVIOUS
<1> HIDE DEF rlp
<1>4. ChildrenOf(rlp) = [i \in nibs |-> NodeRef(parts[i])]
  BY <1>3 DEF ChildrenOf
<1>5. l - 1 \in 0..(l - 1)
  BY <1>0, <1>1
<1>6. \A i \in nibs: HasRank(DecodeOp, NodeRef(parts[i]), l - 1)
                     /\ Stands(Decode(NodeRef(parts[i])), parts[i], l - 1, FALSE)
  BY <1>1, DecodeStands
<1>6a. \A i \in nibs: ChildrenOf(rlp)[i] = NodeRef(parts[i])
  BY <1>4
<1>6b. DOMAIN ChildrenOf(rlp) = nibs
  BY <1>4
<1>6c. \A i \in DOMAIN ChildrenOf(rlp): \E k \in 0..(l - 1): HasRank(DecodeOp, ChildrenOf(rlp)[i], k)
  BY <1>5, <1>6, <1>6a, <1>6b
<1>7. Decode(rlp) = DecodeFrom(rlp, decoded)
  BY <1>0, <1>6c, Decoding
<1>8. decoded = children
  BY <1>4
<1> HIDE DEF decoded
<1>9. Decode(rlp) = Branch(children)
  BY <1>3, <1>7, <1>8 DEF DecodeFrom
<1>10. node = BranchNode(children, NoCache)
  BY <1>3a, <1>9, BareNodes
<1>11. \A i \in nibs: Stands(children[i], parts[i], l - 1, FALSE)
  BY <1>6
<1>12. children = [i \in nibs |-> children[i]]
  OBVIOUS
<1> QED
  BY <1>10, <1>11, <1>12 DEF BranchStands, Caches

\* A proof of any key of a trie is found in finitely many steps.
ProofsRankedAt(l) ==
  \A full, key: Full(full, l) /\ key \in Key(l) => ProofRanked(Decode(RlpEncoded(full)), key)

\* Proofs end, in tries of every key length.
LEMMA ProofsRanked ==
  \A l \in Nat: ProofsRankedAt(l)
<1> DEFINE S == {l \in Nat: ProofsRankedAt(l)}
<1>1. ASSUME NEW l \in Nat, \A m \in 0..(l - 1): m \in S PROVE l \in S
  <2> SUFFICES ASSUME NEW full, NEW key, Full(full, l), key \in Key(l)
               PROVE  ProofRanked(Decode(RlpEncoded(full)), key)
    BY DEF ProofsRankedAt
  <2> DEFINE node == Decode(RlpEncoded(full))
  <2>1. Stands(node, full, l, FALSE) /\ node.t = full.t
    BY DecodeStands
  <2> HIDE DEF S
  <2>2. ASSUME NEW path, NEW value, IsLeaf(full, l, path, value, NoCache)
        PROVE  ProofRanked(node, key)
    <3>1. node.t = "leaf"
      BY <2>1, <2>2 DEF IsLeaf, LeafNode
    <3> HIDE DEF node
    <3>2. Walk(node, key) = Place(node, key)
      BY <3>1, AtEnd
    <3>3. Walk(node, key).node.t # "digest"
      BY <3>1, <3>2 DEF Place
    <3> QED
      BY <3>3, ProofNowhere
  <2>3. ASSUME NEW n, NEW path, NEW part, FullExtension(full, l, n, path, part)
        PROVE  ProofRanked(node, key)
    <3> DEFINE child == Decode(NodeRef(part))
               rest == Drop(key, n)
    <3>1. ExtensionStands(node, full, l, FALSE, n, path, child, part, NoCache)
      BY <2>3, DecodedExtension
    <3> HIDE DEF node
    <3>2. IsExtension(node, l, n, path, child, NoCache)
      BY <3>1, ExtensionParts
    <3>3. n \in 1..l /\ Full(part, l - n) /\ node.t = "extension" /\ l - n \in 0..(l - 1)
      BY <2>3, <3>2 DEF FullExtension, IsExtension, ExtensionNode
    <3> HIDE DEF child, rest
    <3>4. CASE IsPrefix(path, key)
      <4>1. Walk(node, key) = Walk(child, rest)
        BY <3>2, <3>4, AtExtension DEF rest
      <4>2. rest \in Key(l - n)
        BY <3>3, DropKey DEF rest
      <4>3. ProofRanked(Decode(RlpEncoded(part)), rest)
        BY <1>1, <3>3, <4>2 DEF S, ProofsRankedAt
      <4>4. ProofRanked(child, rest)
        BY <3>3, <4>3, ProofOfRef DEF child
      <4> QED
        BY <4>1, <4>4, SameProof
    <3>5. CASE ~IsPrefix(path, key)
      <4>1. Walk(node, key) = Place(node, key)
        BY <3>2, <3>5, AtExtension
      <4>2. Walk(node, key).node.t # "digest"
        BY <3>3, <4>1 DEF Place
      <4> QED
        BY <4>2, ProofNowhere
    <3> QED
      BY <3>4, <3>5
  <2>4. ASSUME NEW nibs, NEW parts, FullBranch(full, l, nibs, parts)
        PROVE  ProofRanked(node, key)
    <3> DEFINE children == [i \in nibs |-> Decode(NodeRef(parts[i]))]
               nib == key[1]
               rest == Drop(key, 1)
    <3>0. \A i \in nibs: children[i] = Decode(NodeRef(parts[i]))
      OBVIOUS
    <3>1. BranchStands(node, full, l, FALSE, nibs, children, parts, NoCache)
      BY <2>4, DecodedBranch
    <3> HIDE DEF node, children
    <3>2. IsBranch(node, l, nibs, children, NoCache)
      BY <3>1, BranchParts
    <3>3. /\ l > 0 /\ node.t = "branch" /\ l - 1 \in 0..(l - 1)
          /\ \A i \in nibs: Full(parts[i], l - 1)
      BY <2>4, <3>2 DEF FullBranch, IsBranch, BranchNode
    <3> HIDE DEF nib, rest
    <3>4. CASE nib \in nibs
      <4>1. Walk(node, key) = Walk(children[nib], rest)
        BY <3>2, <3>4, AtBranch DEF rest, nib
      <4>2. rest \in Key(l - 1)
        BY <3>3, DropKey DEF rest
      <4>3. ProofRanked(Decode(RlpEncoded(parts[nib])), rest)
        BY <1>1, <3>3, <3>4, <4>2 DEF S, ProofsRankedAt
      <4>4. ProofRanked(children[nib], rest)
        BY <3>0, <3>3, <3>4, <4>3, ProofOfRef
      <4> QED
        BY <4>1, <4>4, SameProof
    <3>5. CASE nib \notin nibs
      <4>1. Walk(node, key) = Place(node, key)
        BY <3>2, <3>5, AtBranch DEF nib
      <4>2. Walk(node, key).node.t # "digest"
        BY <3>3, <4>1 DEF Place
      <4> QED
        BY <4>2, ProofNowhere
    <3> QED
      BY <3>4, <3>5
  <2> HIDE DEF node
  <2>5. ProofRanked(node, key)
    BY <2>2, <2>3, <2>4, FullCases
  <2> QED
    BY <2>5 DEF node
<1> HIDE DEF S
<1>2. \A l \in Nat: l \in S
  BY <1>1, SetInduction
<1> QED
  BY <1>2 DEF S

\* The encodings given are those that a proof of the key has, and that of a trie of
\* which nothing but the digest is known.
Given(node, full, key, rlps) ==
  /\ node.t = "digest" => RlpEncoded(full) \in rlps
  /\ Proof(Decode(RlpEncoded(full)), key) \subseteq rlps

\* So they are for the child that the key leads to.
LEMMA GivenBelow ==
  ASSUME NEW d \in Nat, NEW child, NEW part, Stands(child, part, d, FALSE), NEW rest \in Key(d), NEW rlps,
         NEW x, NEW key, Walk(x, key) = Walk(Decode(NodeRef(part)), rest), Proof(x, key) \subseteq rlps
  PROVE  Given(child, part, rest, rlps)
<1> DEFINE y == Decode(NodeRef(part))
<1>0. Full(part, d)
  BY StandsShape
<1>1. ProofRanked(Decode(RlpEncoded(part)), rest)
  BY <1>0, ProofsRanked DEF ProofsRankedAt
<1>2. /\ ProofRanked(y, rest) /\ Proof(Decode(RlpEncoded(part)), rest) \subseteq Proof(y, rest)
      /\ NodeRef(part).t = "digest" => RlpEncoded(part) \in Proof(y, rest)
  BY <1>0, <1>1, ProofOfRef
<1>3. Proof(x, key) = Proof(y, rest)
  BY <1>2, SameProof
<1>4. ASSUME child.t = "digest" PROVE NodeRef(part).t = "digest"
  <2>1. child \in Refs(part, FALSE)
    BY <1>4 DEF Stands, StandsHere
  <2> QED
    BY <1>4, <2>1 DEF Refs
<1> QED
  BY <1>2, <1>3, <1>4 DEF Given

\* They are given, or the walk of the key meets no digest anyway.
Provided(node, full, key, rlps) == NodeGet(node, key) # Panic \/ Given(node, full, key, rlps)

\* With them the walk of the key ends at no digest.
ResolvesAt(l) ==
  \A node, full, atop, key, rlps:
    Stands(node, full, l, atop) /\ key \in Key(l) /\ Provided(node, full, key, rlps) =>
      NodeGet(ResolveDigests(node, rlps), key) # Panic

\* With the encodings of its proof supplied, a key is found or missing, and get does not panic.
LEMMA ProofResolves ==
  \A l \in Nat: ResolvesAt(l)
<1> DEFINE S == {l \in Nat: ResolvesAt(l)}
<1>1. ASSUME NEW l \in Nat, \A m \in 0..(l - 1): m \in S PROVE l \in S
  <2>a. ASSUME NEW m \in 0..(l - 1), NEW node, NEW full, NEW key \in Key(m), NEW rlps,
               Stands(node, full, m, FALSE), Provided(node, full, key, rlps)
        PROVE  NodeGet(ResolveDigests(node, rlps), key) # Panic
    BY <1>1, <2>a DEF ResolvesAt
  <2> HIDE DEF S
  <2>b. ASSUME NEW node, NEW full, NEW atop, NEW key \in Key(l), NEW rlps,
               Stands(node, full, l, atop), Provided(node, full, key, rlps), node.t # "digest"
        PROVE  NodeGet(ResolveDigests(node, rlps), key) # Panic
    <3> DEFINE root == Decode(RlpEncoded(full))
               new == ResolveDigests(node, rlps)
    <3>0. Full(full, l) /\ (NodeGet(node, key) = Panic => Proof(root, key) \subseteq rlps)
      BY <2>b, StandsShape DEF Given, Provided
    <3>1. ASSUME NEW path, NEW value, NEW cache, LeafStands(node, full, l, atop, path, value, cache)
          PROVE  NodeGet(new, key) # Panic
      <4>1. node = LeafNode(path, value, cache) /\ value \in Values
        BY <3>1 DEF LeafStands, IsLeaf
      <4>2. node.t = "leaf" /\ node.value = value
        BY <4>1 DEF LeafNode
      <4>3. new = node
        BY <2>b, <4>2, LeafResolved
      <4> HIDE DEF new
      <4>4. NodeGet(node, key) \in {value, NoValue}
        BY <4>2, AtEnd
      <4>5. value # Panic /\ NoValue # Panic
        BY <4>1, ValuesAssumption DEF NoValue, Panic
      <4> QED
        BY <4>3, <4>4, <4>5
    <3>2. ASSUME NEW n, NEW path, NEW child, NEW part, NEW cache,
                 ExtensionStands(node, full, l, atop, n, path, child, part, cache)
          PROVE  NodeGet(new, key) # Panic
      <4> DEFINE resolved == ResolveDigests(child, rlps)
                 decoded == Decode(NodeRef(part))
                 rest == Drop(key, n)
      <4>1. /\ Stands(child, part, l - n, FALSE) /\ l - n \in 0..(l - 1) /\ FullExtension(full, l, n, path, part)
            /\ n \in 1..l
        <5>1. /\ IsExtension(full, l, n, path, part, NoCache) /\ FullExtension(full, l, n, path, part)
              /\ Stands(child, part, l - n, FALSE) /\ l - n \in 0..(l - 1)
          BY <3>2, ExtensionParts
        <5> QED
          BY <5>1 DEF IsExtension
      <4>2. ExtensionStands(new, full, l, atop, n, path, resolved, part, cache)
        BY <3>2, ExtensionResolved
      <4>3. ExtensionStands(root, full, l, FALSE, n, path, decoded, part, NoCache)
        BY <3>0, <4>1, DecodedExtension
      <4> HIDE DEF new, root, resolved, decoded
      <4>4. IsExtension(new, l, n, path, resolved, cache)
        BY <4>2, ExtensionParts
      <4>4a. IsExtension(node, l, n, path, child, cache)
        BY <3>2, ExtensionParts
      <4>5. IsExtension(root, l, n, path, decoded, NoCache)
        BY <4>3, ExtensionParts
      <4>6. rest \in Key(l - n) /\ l - n \in Nat
        BY <4>1, DropKey
      <4> HIDE DEF rest
      <4>7. CASE IsPrefix(path, key)
        <5>1. NodeGet(new, key) = NodeGet(resolved, rest)
          BY <4>4, <4>7, AtExtension DEF rest
        <5>2. Walk(root, key) = Walk(decoded, rest)
          BY <4>5, <4>7, AtExtension DEF rest
        <5>3. Provided(child, part, rest, rlps)
          <6>1. NodeGet(node, key) = NodeGet(child, rest)
            BY <4>4a, <4>7, AtExtension DEF rest
          <6>2. CASE NodeGet(node, key) = Panic
            BY <3>0, <4>1, <4>6, <5>2, <6>2, GivenBelow DEF decoded, Provided
          <6> QED
            BY <6>1, <6>2 DEF Provided
        <5>4. NodeGet(resolved, rest) # Panic
          BY <2>a, <4>1, <4>6, <5>3 DEF resolved
        <5> QED
          BY <5>1, <5>4
      <4>8. CASE ~IsPrefix(path, key)
        <5>1. NodeGet(new, key) = NoValue
          BY <4>4, <4>8, AtExtension
        <5> QED
          BY <5>1 DEF NoValue, Panic
      <4> QED
        BY <4>7, <4>8
    <3>3. ASSUME NEW nibs, NEW children, NEW parts, NEW cache,
                 BranchStands(node, full, l, atop, nibs, children, parts, cache)
          PROVE  NodeGet(new, key) # Panic
      <4> DEFINE resolved == [i \in nibs |-> ResolveDigests(children[i], rlps)]
                 decoded == [i \in nibs |-> Decode(NodeRef(parts[i]))]
                 rest == Drop(key, 1)
                 nib == key[1]
      <4>0. \A i \in nibs: resolved[i] = ResolveDigests(children[i], rlps) /\ decoded[i] = Decode(NodeRef(parts[i]))
        OBVIOUS
      <4>1. /\ \A i \in nibs: Stands(children[i], parts[i], l - 1, FALSE)
            /\ l - 1 \in 0..(l - 1) /\ l > 0 /\ FullBranch(full, l, nibs, parts)
        BY <3>3, BranchParts
      <4>2. BranchStands(new, full, l, atop, nibs, resolved, parts, cache)
        BY <3>3, BranchResolved
      <4>3. BranchStands(root, full, l, FALSE, nibs, decoded, parts, NoCache)
        BY <3>0, <4>1, DecodedBranch
      <4> HIDE DEF new, root, resolved, decoded
      <4>4. IsBranch(new, l, nibs, resolved, cache)
        BY <4>2, BranchParts
      <4>4a. IsBranch(node, l, nibs, children, cache)
        BY <3>3, BranchParts
      <4>5. IsBranch(root, l, nibs, decoded, NoCache)
        BY <4>3, BranchParts
      <4>6. rest \in Key(l - 1) /\ l - 1 \in Nat
        BY <4>1, DropKey
      <4> HIDE DEF rest, nib
      <4>7. CASE nib \in nibs
        <5>1. NodeGet(new, key) = NodeGet(resolved[nib], rest)
          BY <4>4, <4>7, AtBranch DEF rest, nib
        <5>2. Walk(root, key) = Walk(decoded[nib], rest)
          BY <4>5, <4>7, AtBranch DEF rest, nib
        <5>3. Stands(children[nib], parts[nib], l - 1, FALSE) /\ decoded[nib] = Decode(NodeRef(parts[nib]))
          BY <4>0, <4>1, <4>7
        <5>4. Provided(children[nib], parts[nib], rest, rlps)
          <6>1. NodeGet(node, key) = NodeGet(children[nib], rest)
            BY <4>4a, <4>7, AtBranch DEF rest, nib
          <6>2. CASE NodeGet(node, key) = Panic
            BY <3>0, <4>6, <5>2, <5>3, <6>2, GivenBelow DEF Provided
          <6> QED
            BY <6>1, <6>2 DEF Provided
        <5>5. NodeGet(resolved[nib], rest) # Panic
          BY <2>a, <4>0, <4>1, <4>6, <4>7, <5>3, <5>4
        <5> QED
          BY <5>1, <5>5
      <4>8. CASE nib \notin nibs
        <5>1. NodeGet(new, key) = NoValue
          BY <4>5, <4>4, <4>8, AtBranch DEF nib
        <5> QED
          BY <5>1 DEF NoValue, Panic
      <4> QED
        BY <4>7, <4>8
    <3> HIDE DEF new
    <3>4. NodeGet(new, key) # Panic
      BY <2>b, <3>1, <3>2, <3>3, StandsCases
    <3> QED
      BY <3>4 DEF new
  <2>1. ASSUME NEW node, NEW full, NEW atop, NEW key, NEW rlps,
               Stands(node, full, l, atop), key \in Key(l), Provided(node, full, key, rlps)
        PROVE  NodeGet(ResolveDigests(node, rlps), key) # Panic
    <3>1. CASE node.t # "digest"
      BY <2>1, <2>b, <3>1
    <3>2. CASE node.t = "digest"
      <4>0. Given(node, full, key, rlps)
        <5>1. NodeGet(node, key) = Panic
          BY <3>2, AtEnd
        <5> QED
          BY <2>1, <5>1 DEF Provided
      <4>1. RlpEncoded(full) \in rlps
        BY <3>2, <4>0 DEF Given
      <4>2. PICK y: Stands(y, full, l, atop) /\ y.t # "digest" /\ ResolveDigests(node, rlps) = ResolveDigests(y, rlps)
        BY <2>1, <3>2, <4>1, DigestResolved
      <4>3. Provided(y, full, key, rlps)
        BY <4>0, <4>2 DEF Given, Provided
      <4> QED
        BY <2>1, <2>b, <4>2, <4>3
    <3> QED
      BY <3>1, <3>2
  <2>2. ResolvesAt(l)
    BY <2>1 DEF ResolvesAt
  <2> QED
    BY <2>2 DEF S
<1> HIDE DEF S
<1>2. \A l \in Nat: l \in S
  BY <1>1, SetInduction
<1> QED
  BY <1>2 DEF S

\* The answer of resolve_orphan where the walk of the key has left the trie without
\* the key: at a node with a path, or at a branch.

\* What resolve_orphan reads from the node x at which the proof of the key diverges, and its answer.
PathInCommon(x, rest) == LongestCommonPrefix({x.path, rest})
IsOrphanAt(node, key, x, rest) ==
  IsBranchWithDigest(Walk(node, Joined(SubSeq(key, 1, Len(key) - Len(rest)), PathInCommon(x, rest))),
                     x.path[Len(PathInCommon(x, rest)) + 1])
SiblingAt(x, rest) == LowerPart(x, Len(PathInCommon(x, rest)) + 1)
OrphanAnswer(after, answer, prefix) == [node |-> after, answer |-> answer, prefix |-> prefix]

\* The node where the proof of the key diverges is where its walk stops, unless at a branch.
LEMMA DivergesHere ==
  ASSUME NEW x, NEW rest, Stops(x, rest), NEW at, at.node = x, at.key = rest, x.t # "branch"
  PROVE  DivergingAt(at) = at
<1>1. ~(x.t = "leaf" /\ x.path = rest)
  BY DEF Stops
<1> QED
  BY <1>1 DEF DivergingAt

\* From a branch it is the missing child.
LEMMA DivergesBelow ==
  ASSUME NEW x, NEW rest, Stops(x, rest), NEW end, end = Place(x, rest), x.t = "branch"
  PROVE  DivergingAt(end) = Place(Null, Tail(rest))
<1>1. end.node = x /\ end.key = rest
  BY DEF Place
<1>2. rest # <<>>
  BY DEF Stops
<1>3. DivergingAt(end) = [node |-> Null, key |-> Tail(rest)]
  BY <1>1, <1>2 DEF DivergingAt
<1> QED
  BY <1>3 DEF Place

\* A place is not the answer for a key that is there.
LEMMA NotFound ==
  ASSUME NEW x, NEW rest
  PROVE  Place(x, rest) # Found
<1>1. DOMAIN Place(x, rest) = {"node", "key"} /\ DOMAIN Found = {"t"}
  BY DEF Place, Found
<1> QED
  BY <1>1

\* No orphan at the missing child of a branch (orphan.rs:36).
LEMMA AnswerAtBranch ==
  ASSUME NEW node, NEW key, NEW rest, NEW end, end = Place(Null, rest)
  PROVE  ResolveOrphanAt(end, node, key) = OrphanAnswer(node, "ok", <<>>)
<1>1. end # Found /\ end.node.t = "null"
  <2>1. end.node = Null
    BY DEF Place
  <2> QED
    BY <2>1, NotFound DEF Null
<1> QED
  BY <1>1 DEF ResolveOrphanAt, OrphanAnswer

\* A leaf gives its own encoding, shortened, for an orphan (orphan.rs:61).
LEMMA AnswerAtLeaf ==
  ASSUME NEW node, NEW key, NEW rest, NEW x, x.t = "leaf", NEW end, end = Place(x, rest)
  PROVE  ResolveOrphanAt(end, node, key) =
           OrphanAnswer(IF IsOrphanAt(node, key, x, rest)
                        THEN ResolveDigests(node, {RlpEncoded(SiblingAt(x, rest))}) ELSE node, "ok", <<>>)
<1>1. end # Found /\ end.node = x /\ end.key = rest
  BY NotFound DEF Place
<1>2. SiblingAt(x, rest) = Leaf(Drop(x.path, Len(PathInCommon(x, rest)) + 1), x.value)
  BY DEF SiblingAt, LowerPart
<1> QED
  BY <1>1, <1>2 DEF ResolveOrphanAt, OrphanAnswer, IsOrphanAt, PathInCommon, Joined

\* What is left of its path behind the sibling, the path itself, and the branch there.
SuffixAt(x, rest) == Drop(x.path, Len(PathInCommon(x, rest)) + 1)
\* The prefix named at an extension, the trie with the child of the extension, and the answer.
PrefixAt(key, x, rest) == Joined(SubSeq(key, 1, Len(key) - Len(rest)), x.path)
BranchAt(node, x) == IF x.child.t = "digest" THEN node ELSE ResolveDigests(node, {RlpEncoded(x.child)})
AnswerFrom(node, key, x, rest, suffix, prefix, branch) ==
  IF ~IsOrphanAt(node, key, x, rest) THEN OrphanAnswer(node, "ok", <<>>)
  ELSE IF suffix # <<>>
  THEN OrphanAnswer(ResolveDigests(node, {RlpEncoded(SiblingAt(x, rest))}), "ok", <<>>)
  ELSE IF ContainsPrefix(branch, prefix) THEN OrphanAnswer(branch, "ok", <<>>)
  ELSE OrphanAnswer(branch, "unresolvable", prefix)

\* An extension gives its own, its child's, or the prefix to ask for (orphan.rs:61).
LEMMA AnswerAtExtension ==
  ASSUME NEW node, NEW key, NEW rest, NEW x, x.t = "extension", NEW end, end = Place(x, rest)
  PROVE  ResolveOrphanAt(end, node, key) =
           AnswerFrom(node, key, x, rest, SuffixAt(x, rest), PrefixAt(key, x, rest), BranchAt(node, x))
<1> DEFINE suffix == SuffixAt(x, rest)
<1>1. end # Found /\ end.node = x /\ end.key = rest
  BY NotFound DEF Place
<1>2. suffix # <<>> => SiblingAt(x, rest) = Extension(suffix, x.child)
  BY DEF SiblingAt, LowerPart, SuffixAt
<1>3. CASE ~IsOrphanAt(node, key, x, rest)
  BY <1>1, <1>3 DEF ResolveOrphanAt, OrphanAnswer, IsOrphanAt, PathInCommon, Joined,
     AnswerFrom, BranchAt, SuffixAt, PrefixAt
<1>4. CASE IsOrphanAt(node, key, x, rest) /\ suffix # <<>>
  BY <1>1, <1>2, <1>4 DEF ResolveOrphanAt, OrphanAnswer, IsOrphanAt, PathInCommon, Joined,
     AnswerFrom, BranchAt, SuffixAt, PrefixAt
<1>5. CASE IsOrphanAt(node, key, x, rest) /\ suffix = <<>>
  BY <1>1, <1>5 DEF ResolveOrphanAt, OrphanAnswer, IsOrphanAt, PathInCommon, Joined,
     AnswerFrom, BranchAt, SuffixAt, PrefixAt
<1> QED
  BY <1>3, <1>4, <1>5

-----------------------------------------------------------------------------
\* What is found stays found when digests are resolved.
LEMMA ValueStays ==
  ASSUME NEW l, NEW node, NEW full, NEW atop, Stands(node, full, l, atop), NEW key \in Key(l),
         NodeGet(node, key) \notin {Panic, NoValue}, NEW rlps, NEW new, new = ResolveDigests(node, rlps)
  PROVE  /\ Stands(new, full, l, atop) /\ NodeGet(new, key) \notin {Panic, NoValue}
         /\ NodeRemove(new, key) = Panic <=> HasOnlyBeside(new, full, l, key)
<1>0. l \in Nat
  BY StandsShape
<1>1. Stands(new, full, l, atop)
  BY ResolveKeeps
<1>2. NodeGet(new, key) # Panic
  BY <1>0, ProofResolves DEF ResolvesAt, Provided
<1>3. NodeGet(node, key) = NodeGet(full, key)
  BY GetOfStandIn
<1>4. NodeGet(new, key) = NodeGet(full, key)
  BY <1>1, <1>2, GetOfStandIn
<1> QED
  BY <1>1, <1>2, <1>3, <1>4, RemovalPanics

\* With its encoding supplied, the orphan no longer keeps the key from being removed.
LEMMA OrphanGone ==
  ASSUME NEW l, NEW node, NEW full, NEW atop, Stands(node, full, l, atop), NEW key \in Key(l),
         NodeGet(node, key) \notin {Panic, NoValue}, NEW j, NEW nib, Deserted(full, l, key, j, nib),
         NEW p, p = Joined(SubSeq(key, 1, j), <<nib>>), NEW m, NEW s, DigestOf(node, full, l, p, m, s),
         NEW rlps, RlpEncoded(s) \in rlps
  PROVE  NodeRemove(ResolveDigests(node, rlps), key) # Panic
<1> DEFINE new == ResolveDigests(node, rlps)
           q == SubSeq(key, 1, j)
<1>1. p \notin DigestPaths(new)
  BY DigestGone
<1>2. /\ Stands(new, full, l, atop) /\ NodeGet(new, key) \notin {Panic, NoValue}
      /\ NodeRemove(new, key) = Panic <=> HasOnlyBeside(new, full, l, key)
  BY ValueStays
<1>3. p = Joined(q, <<nib>>)
  OBVIOUS
<1> HIDE DEF new, q
<1>4. HasOnlyBeside(new, full, l, key) <=> Joined(q, <<nib>>) \in DigestPaths(new)
  BY <1>2, DesertedDigest DEF q
<1>5. NodeRemove(new, key) # Panic
  BY <1>1, <1>2, <1>3, <1>4
<1> QED
  BY <1>5 DEF new

\* Nor does it once the proofs of the keys below it are supplied.
LEMMA OrphanProved ==
  ASSUME NEW l, NEW node, NEW full, NEW atop, Stands(node, full, l, atop), NEW key \in Key(l),
         NodeGet(node, key) \notin {Panic, NoValue}, NEW j, NEW nib, Deserted(full, l, key, j, nib),
         NEW p, p = Joined(SubSeq(key, 1, j), <<nib>>), NEW rlps,
         \A k \in Key(l): IsPrefix(p, k) /\ NodeGet(full, k) # NoValue => Given(node, full, k, rlps)
  PROVE  NodeRemove(ResolveDigests(node, rlps), key) # Panic
<1> DEFINE new == ResolveDigests(node, rlps)
           q == SubSeq(key, 1, j)
<1>0. l \in Nat
  BY StandsShape
<1>2. /\ Stands(new, full, l, atop) /\ NodeGet(new, key) \notin {Panic, NoValue}
      /\ NodeRemove(new, key) = Panic <=> HasOnlyBeside(new, full, l, key)
  BY ValueStays
<1>1. p \notin DigestPaths(new)
  <2> SUFFICES ASSUME p \in DigestPaths(new) PROVE FALSE
    OBVIOUS
  <2>1. PICK k \in Key(l): IsPrefix(p, k) /\ NodeGet(full, k) # NoValue
    BY <1>2, DigestHasKey
  <2>2. NodeGet(new, k) # Panic
    BY <1>0, <2>1, ProofResolves DEF ResolvesAt, Provided
  <2> HIDE DEF new
  <2>3. Shape(new, l)
    BY <1>2, StandsShape
  <2>4. Meets(new, k)
    BY <2>1 DEF Meets
  <2> QED
    BY <1>0, <2>2, <2>3, <2>4, GetPanics
<1>3. p = Joined(q, <<nib>>)
  OBVIOUS
<1> HIDE DEF new, q
<1>4. HasOnlyBeside(new, full, l, key) <=> Joined(q, <<nib>>) \in DigestPaths(new)
  BY <1>2, DesertedDigest DEF q
<1>5. NodeRemove(new, key) # Panic
  BY <1>1, <1>2, <1>3, <1>4
<1> QED
  BY <1>5 DEF new

\* The key can be removed.
Removable(node, key) == NodeRemove(node, key) # Panic

\* The encodings are those of the proofs of the keys that begin with the prefix.
ProvesBelow(rlps, full, l, prefix) ==
  /\ RlpEncoded(full) \in rlps
  /\ \A k \in Key(l): IsPrefix(prefix, k) /\ NodeGet(full, k) # NoValue => Proof(Decode(RlpEncoded(full)), k) \subseteq rlps

\* What resolve_orphan promises: where it answers Ok the key can be removed, where it
\* names a prefix it cannot, but can once what is below the prefix is resolved.
Answers(result, full, l, key) ==
  \/ result.answer = "ok" /\ Removable(result.node, key)
  \/ /\ result.answer = "unresolvable" /\ ~Removable(result.node, key)
     /\ \E m \in 0..l: result.prefix \in Key(m)
     /\ \E k \in Key(l): IsPrefix(result.prefix, k) /\ NodeGet(full, k) # NoValue
     /\ \A rlps: ProvesBelow(rlps, full, l, result.prefix) => Removable(ResolveDigests(result.node, rlps), key)

\* Ok, and the key can be removed.
LEMMA AnswersOk ==
  ASSUME NEW node, NEW full, NEW l, NEW key, Removable(node, key), NEW prefix
  PROVE  Answers(OrphanAnswer(node, "ok", prefix), full, l, key)
<1>1. OrphanAnswer(node, "ok", prefix).answer = "ok" /\ OrphanAnswer(node, "ok", prefix).node = node
  BY DEF OrphanAnswer
<1> QED
  BY <1>1 DEF Answers

\* A prefix, and the key can be removed once the trie is proved under it.
LEMMA AnswersPrefix ==
  ASSUME NEW node, NEW full, NEW l, NEW key, ~Removable(node, key), NEW prefix,
         NEW m \in 0..l, prefix \in Key(m), NEW k \in Key(l), IsPrefix(prefix, k), NodeGet(full, k) # NoValue,
         \A rlps: ProvesBelow(rlps, full, l, prefix) => Removable(ResolveDigests(node, rlps), key)
  PROVE  Answers(OrphanAnswer(node, "unresolvable", prefix), full, l, key)
<1> DEFINE result == OrphanAnswer(node, "unresolvable", prefix)
<1>1. result.answer = "unresolvable" /\ result.node = node /\ result.prefix = prefix
  BY DEF OrphanAnswer
<1> HIDE DEF result
<1>2. Answers(result, full, l, key)
  BY <1>1 DEF Answers
<1> QED
  BY <1>2 DEF result

\* What resolve_orphan takes for an orphan is what the removal would panic on.
OrphanIs(node, full, l, key, x, rest, h, c, nib, p) ==
  /\ IsOrphanAt(node, key, x, rest) <=> p \in DigestPaths(node)
  /\ IsOrphanAt(node, key, x, rest) <=> ~Removable(node, key)
  /\ SiblingAt(x, rest) = LowerPart(x, c + 1)
  /\ Deserted(full, l, key, h + c, nib)

\* The orphan that is looked for is the digest whose parent the removal would leave
\* with it only.
LEMMA OrphanFound ==
  ASSUME NEW l \in Nat, NEW key \in Key(l), NEW full, NEW less, Lacks(less, full, l, key),
         NEW h \in 0..l, NEW d, d = l - h, NEW rest, rest = Drop(key, h),
         NEW x, NEW sub, NEW b, Stands(x, sub, d, b), PartAt(less, l, key, h, sub),
         NEW n, NEW c, NEW common, common = PathInCommon(x, rest), PartsFrom(x, n, d, rest, c, common),
         NEW node, NEW atop, Stands(node, full, l, atop), NodeGet(node, key) \notin {Panic, NoValue},
         NEW q, q = SubSeq(key, 1, h + c), NEW nib, nib = x.path[c + 1], NEW p, p = Joined(q, <<nib>>)
  PROVE  OrphanIs(node, full, l, key, x, rest, h, c, nib, p)
<1>1. d \in Nat /\ rest \in Key(d) /\ h \in Nat
  BY DropKey
<1>2. Len(key) = l /\ Len(rest) = d
  BY <1>1 DEF Key
<1>3. Len(key) - Len(rest) = h
  BY <1>2
<1>4. c \in Nat /\ common \in Key(c) /\ c < d
  BY DEF PartsFrom
<1>5. Len(common) = c
  BY <1>4 DEF Key
<1>6. Deserted(full, l, key, h + c, nib) /\ Joined(SubSeq(key, 1, h), common) = q
  BY StopsDeserted
<1>7. h + c \in 0..(l - 1) /\ nib \in Nibble /\ nib # key[h + c + 1]
  BY <1>6 DEF Deserted
<1>8. h + c \in 0..l
  BY <1>7
<1>9. q \in Key(h + c) /\ IsPrefix(q, key)
  BY <1>8, FirstPart
<1>10. Shape(node, l)
  BY StandsShape
<1>11. IsBeside(node, q, nib)
  BY <1>7, <1>9, <1>10, BesideIs DEF BesideAt
<1>12. p \in DigestPaths(node) <=> IsBranchWithDigest(Walk(node, q), nib)
  BY <1>11 DEF IsBeside
<1>13. IsOrphanAt(node, key, x, rest) <=> IsBranchWithDigest(Walk(node, q), nib)
  BY <1>3, <1>5, <1>6 DEF IsOrphanAt
<1>14. HasOnlyBeside(node, full, l, key) <=> p \in DigestPaths(node)
  BY <1>6, DesertedDigest
<1>15. NodeRemove(node, key) = Panic <=> HasOnlyBeside(node, full, l, key)
  BY RemovalPanics
<1>16. SiblingAt(x, rest) = LowerPart(x, c + 1)
  BY <1>5 DEF SiblingAt
<1> QED
  BY <1>6, <1>12, <1>13, <1>14, <1>15, <1>16 DEF Removable, OrphanIs

\* The sibling of the key in the trie without it has the encoding of the orphan.
LEMMA SiblingResolves ==
  ASSUME NEW l \in Nat, NEW key \in Key(l), NEW full, NEW less, Lacks(less, full, l, key),
         NEW h \in 0..l, NEW d, d = l - h, NEW rest, rest = Drop(key, h),
         NEW x, NEW sub, NEW b, Stands(x, sub, d, b), PartAt(less, l, key, h, sub),
         NEW n, NEW c, NEW common, PartsFrom(x, n, d, rest, c, common),
         NEW node, NEW atop, Stands(node, full, l, atop), NodeGet(node, key) \notin {Panic, NoValue},
         NEW nib, nib = x.path[c + 1], Deserted(full, l, key, h + c, nib),
         NEW p, p = Joined(SubSeq(key, 1, h + c), <<nib>>), p \in DigestPaths(node),
         NEW sibling, sibling = LowerPart(x, c + 1), sibling.t # "digest",
         NEW new, new = ResolveDigests(node, {RlpEncoded(sibling)})
  PROVE  Removable(new, key) /\ LeadsToNode(new, p)
<1>1. PICK m, s: DigestOf(node, full, l, p, m, s)
  BY DigestsStand DEF HasDigestAt
<1>2. Stands(sibling, s, l - m, FALSE)
  BY <1>1, SiblingStands
<1>3. RlpEncoded(sibling) = RlpEncoded(s)
  BY <1>2, EncodedAlike
<1>4. RlpEncoded(s) \in {RlpEncoded(sibling)}
  BY <1>3
<1>5. NodeRemove(new, key) # Panic
  BY <1>1, <1>4, OrphanGone
<1>6. LeadsToNode(new, p)
  BY <1>1, <1>4 DEF DigestOf, SuppliedBy
<1> QED
  BY <1>5, <1>6 DEF Removable

\* The prefix that is named is the path of the orphan.
LEMMA PrefixOfOrphan ==
  ASSUME NEW h \in Nat, NEW first \in Key(h), NEW c \in Nat, NEW common \in Key(c),
         NEW path \in Key(c + 1), \A i \in 1..c: common[i] = path[i],
         NEW q, q = Joined(first, common), NEW nib \in Nibble, nib = path[c + 1]
  PROVE  Joined(first, path) = Joined(q, <<nib>>) /\ Joined(first, path) \in Key(h + c + 1)
<1> DEFINE a == Joined(first, path)
           z == Joined(q, <<nib>>)
<1>0. c + 1 \in Nat /\ h + c \in Nat /\ h + (c + 1) = h + c + 1 /\ h + c + 1 \in Nat
  OBVIOUS
<1>2. /\ a \in Key(h + (c + 1)) /\ \A i \in 1..h: a[i] = first[i]
      /\ \A i \in 1..(c + 1): a[h + i] = path[i]
  <2> DEFINE e == c + 1
  <2>0. e \in Nat /\ path \in Key(e)
    OBVIOUS
  <2> HIDE DEF e
  <2>1. a \in Key(h + e)
    BY <1>0, <2>0, JoinedPath
  <2>2. \A i \in 1..h: a[i] = first[i]
    BY <1>0, <2>0, JoinedPath
  <2>3. \A i \in 1..e: a[h + i] = path[i]
    BY <1>0, <2>0, JoinedPath
  <2> QED
    BY <2>1, <2>2, <2>3 DEF e
<1>3. /\ q \in Key(h + c) /\ \A i \in 1..h: q[i] = first[i]
      /\ \A i \in 1..c: q[h + i] = common[i]
  <2>1. q \in Key(h + c)
    BY <1>0, JoinedPath
  <2>2. \A i \in 1..h: q[i] = first[i]
    BY <1>0, JoinedPath
  <2>3. \A i \in 1..c: q[h + i] = common[i]
    BY <1>0, JoinedPath
  <2> QED
    BY <2>1, <2>2, <2>3
<1>4. z \in Key(h + c + 1) /\ z[h + c + 1] = nib /\ \A i \in 1..(h + c): z[i] = q[i]
  BY <1>0, <1>3, OneMore
<1> HIDE DEF a, z
<1>5. \A i \in 1..(h + c + 1): a[i] = z[i]
  <2> SUFFICES ASSUME NEW i \in 1..(h + c + 1) PROVE a[i] = z[i]
    OBVIOUS
  <2>1. CASE i \in 1..h
    <3>1. i \in 1..(h + c)
      BY <1>0, <2>1
    <3> QED
      BY <1>2, <1>3, <1>4, <2>1, <3>1
  <2>2. CASE i > h /\ i <= h + c
    <3> DEFINE e == i - h
    <3>1. e \in 1..c /\ e \in 1..(c + 1) /\ h + e = i /\ i \in 1..(h + c)
      BY <1>0, <2>2
    <3> HIDE DEF e
    <3>2. a[h + e] = path[e] /\ q[h + e] = common[e] /\ common[e] = path[e]
      BY <1>2, <1>3, <3>1
    <3>3. z[i] = q[i]
      BY <1>4, <3>1
    <3> QED
      BY <3>1, <3>2, <3>3
  <2>3. CASE i = h + c + 1
    <3>1. c + 1 \in 1..(c + 1)
      OBVIOUS
    <3>2. a[h + (c + 1)] = path[c + 1]
      BY <1>2, <3>1
    <3> QED
      BY <1>0, <1>4, <2>3, <3>2
  <2>4. i \in 1..h \/ (i > h /\ i <= h + c) \/ i = h + c + 1
    BY <1>0
  <2> QED
    BY <2>1, <2>2, <2>3, <2>4
<1>6. a \in Key(h + c + 1)
  BY <1>0, <1>2
<1>7. a = z
  BY <1>0, <1>4, <1>5, <1>6, KeyEqual
<1> QED
  BY <1>6, <1>7 DEF a, z

\* The key leaves the trie without it at a leaf.
LEMMA LeafAnswers ==
  ASSUME NEW l \in Nat, NEW key \in Key(l), NEW full, NEW less, Lacks(less, full, l, key),
         NEW h \in 0..l, NEW d, d = l - h, NEW rest, rest = Drop(key, h),
         NEW x, NEW sub, NEW b, Stands(x, sub, d, b), PartAt(less, l, key, h, sub),
         NEW n, NEW c, NEW common, common = PathInCommon(x, rest), PartsFrom(x, n, d, rest, c, common),
         NEW node, NEW atop, Stands(node, full, l, atop), NodeGet(node, key) \notin {Panic, NoValue},
         x.t = "leaf", NEW at, at = Place(x, rest)
  PROVE  Answers(ResolveOrphanAt(at, node, key), full, l, key)
<1> DEFINE nib == x.path[c + 1]
           q == SubSeq(key, 1, h + c)
           p == Joined(q, <<nib>>)
           sibling == SiblingAt(x, rest)
           new == ResolveDigests(node, {RlpEncoded(sibling)})
<1>0. nib = x.path[c + 1] /\ q = SubSeq(key, 1, h + c) /\ p = Joined(q, <<nib>>)
  OBVIOUS
<1> HIDE DEF nib, q, p
<1>1. /\ IsOrphanAt(node, key, x, rest) <=> p \in DigestPaths(node)
      /\ IsOrphanAt(node, key, x, rest) <=> ~Removable(node, key)
      /\ sibling = LowerPart(x, c + 1)
      /\ Deserted(full, l, key, h + c, nib)
  <2>1. OrphanIs(node, full, l, key, x, rest, h, c, nib, p)
    BY <1>0, OrphanFound
  <2> QED
    BY <2>1 DEF OrphanIs
<1>2. sibling.t # "digest"
  <2>1. sibling = Leaf(Drop(x.path, c + 1), x.value)
    BY <1>1 DEF LowerPart
  <2> HIDE DEF sibling
  <2> QED
    BY <2>1 DEF Leaf
<1>3. ResolveOrphanAt(at, node, key) =
        OrphanAnswer(IF IsOrphanAt(node, key, x, rest) THEN new ELSE node, "ok", <<>>)
  BY AnswerAtLeaf
<1> HIDE DEF sibling
<1>4. CASE IsOrphanAt(node, key, x, rest)
  <2>1. Removable(new, key)
    <3>1. p = Joined(SubSeq(key, 1, h + c), <<nib>>)
      BY <1>0
    <3> QED
      BY <1>0, <1>1, <1>2, <1>4, <3>1, SiblingResolves
  <2> HIDE DEF new
  <2>2. Answers(OrphanAnswer(new, "ok", <<>>), full, l, key)
    BY <2>1, AnswersOk
  <2> QED
    BY <1>3, <1>4, <2>2
<1>5. CASE ~IsOrphanAt(node, key, x, rest)
  <2> HIDE DEF new
  <2>1. Answers(OrphanAnswer(node, "ok", <<>>), full, l, key)
    BY <1>1, <1>5, AnswersOk
  <2> QED
    BY <1>3, <1>5, <2>1
<1> QED
  BY <1>4, <1>5

\* Where an extension leaves nothing of its path, the orphan is a branch, which is
\* below the extension: as a node, or as a digest, too.
LEMMA BranchOrphan ==
  ASSUME NEW l \in Nat, NEW key \in Key(l), NEW full, NEW less, Lacks(less, full, l, key),
         NEW h \in 0..l, NEW d, d = l - h, NEW rest, rest = Drop(key, h),
         NEW x, NEW sub, NEW b, Stands(x, sub, d, b), PartAt(less, l, key, h, sub),
         NEW n, NEW c, NEW common, PartsFrom(x, n, d, rest, c, common),
         NEW node, NEW atop, Stands(node, full, l, atop), NodeGet(node, key) \notin {Panic, NoValue},
         NEW nib, nib = x.path[c + 1], Deserted(full, l, key, h + c, nib),
         NEW prefix, prefix = Joined(SubSeq(key, 1, h + c), <<nib>>), prefix \in DigestPaths(node),
         NEW m \in 0..l, prefix \in Key(m),
         x.t = "extension", LowerPart(x, c + 1) = x.child, ~Removable(node, key),
         NEW branch, branch = IF x.child.t = "digest" THEN node ELSE ResolveDigests(node, {RlpEncoded(x.child)})
  PROVE  Answers(IF ContainsPrefix(branch, prefix) THEN OrphanAnswer(branch, "ok", <<>>)
                 ELSE OrphanAnswer(branch, "unresolvable", prefix), full, l, key)
<1>1. CASE x.child.t # "digest"
  <2> DEFINE child == x.child
             new == ResolveDigests(node, {RlpEncoded(child)})
  <2>0. child.t # "digest" /\ child = LowerPart(x, c + 1) /\ branch = new
    BY <1>1
  <2> HIDE DEF child
  <2>1. Removable(new, key) /\ LeadsToNode(new, prefix)
    BY <2>0, SiblingResolves
  <2> HIDE DEF new
  <2>2. PICK y: y.t # "digest" /\ Walk(new, prefix) = Place(y, <<>>)
    BY <2>1 DEF LeadsToNode
  <2>3. ContainsPrefix(new, prefix)
    <3> DEFINE end == Place(y, <<>>)
    <3>1. end.node = y /\ end.key = <<>>
      BY DEF Place
    <3> HIDE DEF end
    <3>2. DivergingAt(end) \in {Found, end}
      BY <3>1 DEF DivergingAt
    <3>3. Diverging(new, prefix) = DivergingAt(end)
      BY <2>2 DEF Diverging, end
    <3> QED
      BY <2>2, <3>1, <3>2, <3>3 DEF ContainsPrefix
  <2>4. Answers(OrphanAnswer(new, "ok", <<>>), full, l, key)
    BY <2>1, AnswersOk
  <2> QED
    BY <2>0, <2>3, <2>4
<1>2. CASE x.child.t = "digest"
  <2>0. branch = node
    BY <1>2
  <2>1. PICK i, s: DigestOf(node, full, l, prefix, i, s)
    BY DigestsStand DEF HasDigestAt
  <2>2. ~ContainsPrefix(node, prefix)
    <3> DEFINE y == Digest(RlpEncoded(s))
               end == Place(y, <<>>)
    <3>1. end.node.t = "digest" /\ Walk(node, prefix) = end
      BY <2>1 DEF Place, Digest, DigestOf
    <3>2. end # Found
      BY NotFound
    <3> HIDE DEF end, y
    <3>3. DivergingAt(end) = end
      BY <3>1 DEF DivergingAt
    <3>4. Diverging(node, prefix) = end
      BY <3>1, <3>3 DEF Diverging
    <3> QED
      BY <3>1, <3>2, <3>4 DEF ContainsPrefix
  <2>3. ASSUME NEW rlps, ProvesBelow(rlps, full, l, prefix)
        PROVE  Removable(ResolveDigests(node, rlps), key)
    <3>1. \A k \in Key(l): IsPrefix(prefix, k) /\ NodeGet(full, k) # NoValue => Given(node, full, k, rlps)
      BY <2>3 DEF ProvesBelow, Given
    <3>2. NodeRemove(ResolveDigests(node, rlps), key) # Panic
      BY <3>1, OrphanProved
    <3> QED
      BY <3>2 DEF Removable
  <2>4. PICK k \in Key(l): IsPrefix(prefix, k) /\ NodeGet(full, k) # NoValue
    BY DigestHasKey
  <2>5. Answers(OrphanAnswer(node, "unresolvable", prefix), full, l, key)
    BY <2>3, <2>4, AnswersPrefix
  <2> QED
    BY <2>0, <2>2, <2>5
<1> QED
  BY <1>1, <1>2

\* The key leaves the trie without it at an extension.
LEMMA ExtensionAnswers ==
  ASSUME NEW l \in Nat, NEW key \in Key(l), NEW full, NEW less, Lacks(less, full, l, key),
         NEW h \in 0..l, NEW d, d = l - h, NEW rest, rest = Drop(key, h),
         NEW x, NEW sub, NEW b, Stands(x, sub, d, b), PartAt(less, l, key, h, sub),
         NEW n, NEW c, NEW common, common = PathInCommon(x, rest), PartsFrom(x, n, d, rest, c, common),
         NEW node, NEW atop, Stands(node, full, l, atop), NodeGet(node, key) \notin {Panic, NoValue},
         x.t = "extension", NEW at, at = Place(x, rest)
  PROVE  Answers(ResolveOrphanAt(at, node, key), full, l, key)
<1> DEFINE nib == x.path[c + 1]
           q == SubSeq(key, 1, h + c)
           p == Joined(q, <<nib>>)
           sibling == SiblingAt(x, rest)
           suffix == Drop(x.path, c + 1)
           prefix == Joined(SubSeq(key, 1, h), x.path)
           new == ResolveDigests(node, {RlpEncoded(sibling)})
           branch == IF x.child.t = "digest" THEN node ELSE ResolveDigests(node, {RlpEncoded(x.child)})
<1>0. nib = x.path[c + 1] /\ q = SubSeq(key, 1, h + c) /\ p = Joined(q, <<nib>>)
  OBVIOUS
<1> HIDE DEF nib, q, p
<1>1. /\ IsOrphanAt(node, key, x, rest) <=> p \in DigestPaths(node)
      /\ IsOrphanAt(node, key, x, rest) <=> ~Removable(node, key)
      /\ sibling = LowerPart(x, c + 1)
      /\ Deserted(full, l, key, h + c, nib)
  <2>1. OrphanIs(node, full, l, key, x, rest, h, c, nib, p)
    BY <1>0, OrphanFound
  <2> QED
    BY <2>1 DEF OrphanIs
<1>1a. /\ c \in Nat /\ c < n /\ common \in Key(c) /\ n \in 0..d /\ n \in Nat /\ x.path \in Key(n)
       /\ \A i \in 1..c: common[i] = x.path[i]
  BY DEF PartsFrom
<1>2. Len(PathInCommon(x, rest)) = c
  BY <1>1a DEF Key
<1>3. Len(key) - Len(rest) = h
  <2>1. rest \in Key(l - h)
    BY DropKey
  <2>2. Len(key) = l /\ Len(rest) = l - h
    BY <2>1 DEF Key
  <2> QED
    BY <2>2
<1>4. ResolveOrphanAt(at, node, key) =
        IF ~IsOrphanAt(node, key, x, rest) THEN OrphanAnswer(node, "ok", <<>>)
        ELSE IF suffix # <<>> THEN OrphanAnswer(new, "ok", <<>>)
        ELSE IF ContainsPrefix(branch, prefix) THEN OrphanAnswer(branch, "ok", <<>>)
        ELSE OrphanAnswer(branch, "unresolvable", prefix)
  <2>1. suffix = SuffixAt(x, rest)
    BY <1>2 DEF SuffixAt
  <2>2. prefix = PrefixAt(key, x, rest)
    BY <1>3 DEF PrefixAt
  <2>3. branch = BranchAt(node, x)
    BY DEF BranchAt
  <2> HIDE DEF suffix, prefix, branch
  <2>4. ResolveOrphanAt(at, node, key) =
          AnswerFrom(node, key, x, rest, SuffixAt(x, rest), PrefixAt(key, x, rest), BranchAt(node, x))
    BY AnswerAtExtension
  <2>5. ResolveOrphanAt(at, node, key) = AnswerFrom(node, key, x, rest, suffix, prefix, branch)
    BY <2>1, <2>2, <2>3, <2>4
  <2> QED
    BY <2>5 DEF AnswerFrom
<1>5. CASE ~IsOrphanAt(node, key, x, rest)
  <2> HIDE DEF new, branch, suffix, prefix, sibling
  <2>1. Answers(OrphanAnswer(node, "ok", <<>>), full, l, key)
    BY <1>1, <1>5, AnswersOk
  <2> QED
    BY <1>4, <1>5, <2>1
<1>6. CASE IsOrphanAt(node, key, x, rest) /\ suffix # <<>>
  <2>1. sibling = Extension(suffix, x.child)
    BY <1>1, <1>6 DEF LowerPart
  <2> HIDE DEF sibling, suffix
  <2>2. sibling.t # "digest"
    BY <2>1 DEF Extension
  <2>3. Removable(new, key)
    <3>1. p = Joined(SubSeq(key, 1, h + c), <<nib>>)
      BY <1>0
    <3> QED
      BY <1>0, <1>1, <1>6, <2>2, <3>1, SiblingResolves
  <2> HIDE DEF new, branch, prefix
  <2>4. Answers(OrphanAnswer(new, "ok", <<>>), full, l, key)
    BY <2>3, AnswersOk
  <2> QED
    BY <1>4, <1>6, <2>4
<1>7. CASE IsOrphanAt(node, key, x, rest) /\ suffix = <<>>
  <2>1. LowerPart(x, c + 1) = x.child
    BY <1>7 DEF LowerPart
  <2>2. n = c + 1
    <3>1. c + 1 \in 0..n /\ Len(suffix) = 0
      BY <1>1a, <1>7
    <3>2. suffix \in Key(n - (c + 1))
      BY <1>1a, <3>1, DropKey
    <3>3. Len(suffix) = n - (c + 1)
      BY <3>2 DEF Key
    <3> QED
      BY <1>1a, <3>1, <3>3
  <2>3. x.path \in Key(c + 1)
    BY <1>1a, <2>2
  <2>4. h \in Nat /\ nib \in Nibble /\ h + c \in 0..(l - 1)
    BY <1>1 DEF Deserted
  <2>5. SubSeq(key, 1, h) \in Key(h)
    BY FirstPart
  <2>6. Joined(SubSeq(key, 1, h), common) = q
    BY <1>0, StopsDeserted
  <2>7. prefix = p /\ prefix \in Key(h + c + 1)
    <3>0. p = Joined(q, <<nib>>)
      BY <1>0
    <3> DEFINE first == SubSeq(key, 1, h)
    <3>1. first \in Key(h) /\ q = Joined(first, common) /\ nib = x.path[c + 1]
      BY <1>0, <2>5, <2>6
    <3> HIDE DEF first
    <3>2. Joined(first, x.path) = Joined(q, <<nib>>) /\ Joined(first, x.path) \in Key(h + c + 1)
      BY <1>1a, <2>3, <2>4, <3>1, PrefixOfOrphan
    <3> QED
      BY <3>0, <3>2 DEF first
  <2> DEFINE m == h + c + 1
  <2>8. m \in 0..l /\ prefix \in Key(m)
    BY <1>1a, <2>4, <2>7
  <2>9. prefix = Joined(SubSeq(key, 1, h + c), <<nib>>) /\ prefix \in DigestPaths(node)
    BY <1>0, <1>1, <1>7, <2>7
  <2>10. nib = x.path[c + 1] /\ Deserted(full, l, key, h + c, nib) /\ ~Removable(node, key)
    BY <1>0, <1>1, <1>7
  <2> HIDE DEF prefix, m, suffix, sibling, new, branch
  <2>11. Answers(IF ContainsPrefix(branch, prefix) THEN OrphanAnswer(branch, "ok", <<>>)
                 ELSE OrphanAnswer(branch, "unresolvable", prefix), full, l, key)
    BY <2>1, <2>8, <2>9, <2>10, BranchOrphan DEF branch
  <2> QED
    BY <1>4, <1>7, <2>11
<1> QED
  BY <1>5, <1>6, <1>7

\* With a trie without the key, in which enough is known to see that the key is
\* missing, resolve_orphan keeps its promise.
LEMMA OrphanAnswered ==
  ASSUME NEW l, NEW node, NEW full, NEW atop, Stands(node, full, l, atop), NEW key \in Key(l),
         NodeGet(node, key) \notin {Panic, NoValue}, NEW less, Lacks(less, full, l, key),
         NEW other, NEW b, Stands(other, less, l, b), NodeGet(other, key) = NoValue
  PROVE  Answers(ResolveOrphan(node, key, other), full, l, key)
<1>0. l \in Nat
  BY StandsShape
<1>1. PICK h \in 0..l: StopsAt(Walk(other, key), less, l, key, h)
  BY <1>0, WalkOfMissing DEF MissingAt
<1> DEFINE d == l - h
           rest == Drop(key, h)
<1>2. PICK sub, a, x: /\ Walk(other, key) = Place(x, rest) /\ Stops(x, rest)
                      /\ Stands(x, sub, d, a) /\ PartAt(less, l, key, h, sub)
  BY <1>1 DEF StopsAt
<1>3. d = l - h /\ rest = Drop(key, h) /\ d \in Nat /\ rest \in Key(d)
  BY <1>0, DropKey
<1> DEFINE at == Place(x, rest)
<1>4. at = Place(x, rest) /\ ResolveOrphan(node, key, other) = ResolveOrphanAt(DivergingAt(at), node, key)
  BY <1>2 DEF ResolveOrphan, Diverging
<1> HIDE DEF d, rest, at
<1>5. x.t \in {"leaf", "extension", "branch"} /\ Shape(x, d)
  <2>1. x.t # "digest"
    BY <1>2 DEF Stops
  <2> QED
    BY <1>2, <2>1, StandsShape
<1>6. CASE x.t = "branch"
  <2>1. DivergingAt(at) = Place(Null, Tail(rest))
    BY <1>2, <1>4, <1>6, DivergesBelow
  <2>2. ResolveOrphanAt(DivergingAt(at), node, key) = OrphanAnswer(node, "ok", <<>>)
    BY <2>1, AnswerAtBranch
  <2>3. Crowded(full, l, key, h)
    BY <1>0, <1>2, <1>3, <1>6, StopsCrowded
  <2>4. ~HasOnlyBeside(node, full, l, key)
    BY <2>3, CrowdedHasNone
  <2>5. Removable(node, key)
    BY <2>4, RemovalPanics DEF Removable
  <2>6. Answers(OrphanAnswer(node, "ok", <<>>), full, l, key)
    BY <2>5, AnswersOk
  <2> QED
    BY <1>4, <2>2, <2>6
<1>7. CASE x.t \in {"leaf", "extension"}
  <2>1. at.node = x /\ at.key = rest
    BY <1>4 DEF Place
  <2>2. DivergingAt(at) = at
    BY <1>2, <1>7, <2>1, DivergesHere
  <2> DEFINE common == PathInCommon(x, rest)
  <2>3. common = PathInCommon(x, rest) /\ common = LongestCommonPrefix({x.path, rest})
    BY DEF PathInCommon
  <2> HIDE DEF common
  <2>4. PICK n, c: PartsFrom(x, n, d, rest, c, common)
    BY <1>2, <1>3, <1>5, <1>7, <2>3, StopsParts
  <2>5. CASE x.t = "leaf"
    <3>1. Answers(ResolveOrphanAt(at, node, key), full, l, key)
      BY <1>0, <1>2, <1>3, <1>4, <2>3, <2>4, <2>5, LeafAnswers
    <3> QED
      BY <1>4, <2>2, <3>1
  <2>6. CASE x.t = "extension"
    <3>1. Answers(ResolveOrphanAt(at, node, key), full, l, key)
      BY <1>0, <1>2, <1>3, <1>4, <2>3, <2>4, <2>6, ExtensionAnswers
    <3> QED
      BY <1>4, <2>2, <3>1
  <2> QED
    BY <1>7, <2>5, <2>6
<1> QED
  BY <1>5, <1>6, <1>7

\* So it does with the empty trie, if there is no other key.
LEMMA LastAnswered ==
  ASSUME NEW l, NEW node, NEW full, NEW atop, Stands(node, full, l, atop), NEW key \in Key(l),
         NodeGet(node, key) \notin {Panic, NoValue}, \A k: ~IsOther(full, l, key, k)
  PROVE  Answers(ResolveOrphan(node, key, Null), full, l, key)
<1> DEFINE at == Place(Null, key)
<1>1. Null.t = "null"
  BY DEF Null
<1>2. Walk(Null, key) = at
  BY <1>1, AtEnd
<1>3. at.node = Null /\ at = Place(Null, key)
  BY DEF Place
<1>4. DivergingAt(at) = at
  <2>1. at.node.t = "null"
    BY <1>1, <1>3
  <2> HIDE DEF at
  <2> QED
    BY <2>1 DEF DivergingAt
<1>5. ResolveOrphan(node, key, Null) = ResolveOrphanAt(at, node, key)
  BY <1>2, <1>4 DEF ResolveOrphan, Diverging
<1>6. ResolveOrphanAt(at, node, key) = OrphanAnswer(node, "ok", <<>>)
  BY <1>3, AnswerAtBranch
<1>7. ~HasOnlyBeside(node, full, l, key)
  BY AloneHasNone
<1>8. Removable(node, key)
  BY <1>7, RemovalPanics DEF Removable
<1>9. Answers(OrphanAnswer(node, "ok", <<>>), full, l, key)
  BY <1>8, AnswersOk
<1> QED
  BY <1>5, <1>6, <1>9

\* The proof of a key from the root has the encoding of the root.
LEMMA RootProof ==
  ASSUME NEW l, NEW full, Full(full, l), NEW key \in Key(l), NEW rlp, rlp = RlpEncoded(full)
  PROVE  Proof(Digest(rlp), key) = {rlp} \cup Proof(Decode(rlp), key)
<1>1. l \in Nat
  BY FullCases
<1>2. ProofRanked(Decode(rlp), key)
  BY <1>1, ProofsRanked DEF ProofsRankedAt
<1> QED
  BY <1>2, ProofAtDigest

\* The node is decoded from encodings with a proof of the key in the full trie.
IsDecoded(other, full, l, key, rlp, rlps) ==
  /\ Full(full, l) /\ key \in Key(l)
  /\ rlp = RlpEncoded(full)
  /\ Proof(Digest(rlp), key) \subseteq rlps
  /\ other = NodeFromRlp(rlp, rlps)

\* The node stands for the full trie and has its value at the key.
StandsAt(other, full, l, key) == Stands(other, full, l, TRUE) /\ NodeGet(other, key) = NodeGet(full, key)

\* What is decoded from a proof of the key answers it.
LEMMA ProofDecoded ==
  ASSUME NEW l, NEW full, NEW key, NEW rlp, NEW rlps, NEW other, IsDecoded(other, full, l, key, rlp, rlps)
  PROVE  StandsAt(other, full, l, key)
<1>a. /\ Full(full, l) /\ key \in Key(l)
      /\ rlp = RlpEncoded(full)
      /\ Proof(Digest(rlp), key) \subseteq rlps
      /\ other = NodeFromRlp(rlp, rlps)
  BY DEF IsDecoded
<1> DEFINE ref == InlineOrDigest(rlp)
           node == DecodeCached(rlp, ref)
<1>0. l \in Nat
  BY <1>a, FullCases
<1>1. ref = NodeRef(full)
  BY <1>a, RefOfFull
<1>2. ref \in Caches(full, TRUE)
  BY <1>1 DEF Caches, Refs
<1>3. Stands(node, full, l, TRUE) /\ node.t # "digest"
  BY <1>a, <1>2, DecodeCachedStands
<1>4. other = ResolveDigests(node, rlps)
  BY <1>a DEF NodeFromRlp
<1> HIDE DEF node
<1>5. Stands(other, full, l, TRUE)
  BY <1>a, <1>3, <1>4, ResolveKeeps
<1>6. Proof(Decode(RlpEncoded(full)), key) \subseteq rlps
  BY <1>a, RootProof
<1>7. Provided(node, full, key, rlps)
  BY <1>a, <1>3, <1>6 DEF Given, Provided
<1>8. NodeGet(other, key) # Panic
  BY <1>a, <1>0, <1>3, <1>4, <1>7, ProofResolves DEF ResolvesAt
<1>9. NodeGet(other, key) \in {Panic, NodeGet(full, key)}
  BY <1>a, <1>5, GetOfStandIn
<1> QED
  BY <1>5, <1>8, <1>9 DEF StandsAt

\* The trie of the map without the key lacks it, or the key is the last.
LEMMA TrieWithout ==
  ASSUME NEW l \in Nat, NEW content, IsMap(content, l), NEW key \in Key(l), DOMAIN content # {},
         NEW after, after = WithoutKey(content, key), NEW full, full = TrieOf(content), NEW less, less = TrieOf(after)
  PROVE  /\ IsMap(after, l)
         /\ DOMAIN after # {} => Lacks(less, full, l, key) /\ Full(less, l)
         /\ DOMAIN after = {} => \A k: ~IsOther(full, l, key, k)
<1>1. /\ IsMap(after, l)
      /\ \A k \in Key(l): ValueIn(after, k) = IF k = key THEN NoValue ELSE ValueIn(content, k)
  BY WithoutKeyIs
<1>2. HoldsMap(full, content, l)
  BY TrieHolds
<1>3. \A k \in Key(l): NodeGet(full, k) = ValueIn(content, k)
  BY <1>2 DEF HoldsMap
<1>4. ASSUME DOMAIN after # {} PROVE Lacks(less, full, l, key) /\ Full(less, l)
  <2>1. HoldsMap(less, after, l)
    BY <1>1, <1>4, TrieHolds
  <2>2. Full(less, l) /\ \A k \in Key(l): NodeGet(less, k) = ValueIn(after, k)
    BY <2>1 DEF HoldsMap
  <2>3. NodeGet(less, key) = NoValue
    BY <1>1, <2>2
  <2>4. ASSUME NEW k \in Key(l), k # key PROVE NodeGet(less, k) = NodeGet(full, k)
    BY <1>1, <1>3, <2>2, <2>4
  <2> QED
    BY <2>2, <2>3, <2>4 DEF Lacks
<1>5. ASSUME DOMAIN after = {}, NEW k, IsOther(full, l, key, k) PROVE FALSE
  <2>1. k \in Key(l) /\ k # key /\ NodeGet(full, k) # NoValue
    BY <1>5 DEF IsOther
  <2>2. ValueIn(after, k) = NoValue
    BY <1>5 DEF ValueIn
  <2> QED
    BY <1>1, <1>3, <2>1, <2>2
<1> QED
  BY <1>1, <1>4, <1>5

-----------------------------------------------------------------------------
\* In the specification.

\* A proof of the key in the trie of the content, as resolve_orphan is given one.
LEMMA ProvedIs ==
  ASSUME NEW content, NEW key \in Keys, NEW other \in Proved(content, key),
         NEW root, root = TrieOf(content)
  PROVE  \/ root = Null /\ other = Null
         \/ /\ root # Null
            /\ \E rlps: Proof(Hash(root), key) \subseteq rlps /\ other = NodeFromRlp(Hash(root).of, rlps)
<1> DEFINE every == UNION {Proof(Hash(root), k): k \in Keys}
<1>1. Proof(Hash(root), key) \subseteq every
  OBVIOUS
<1> HIDE DEF every
<1>2. CASE root = Null
  BY <1>2 DEF Proved
<1>3. CASE root # Null
  <2>1. other \in {NodeFromRlp(Hash(root).of, rlps): rlps \in {Proof(Hash(root), key), every}}
    BY <1>3 DEF Proved, every
  <2>2. PICK rlps \in {Proof(Hash(root), key), every}: other = NodeFromRlp(Hash(root).of, rlps)
    BY <2>1
  <2> QED
    BY <1>1, <1>3, <2>2
<1> QED
  BY <1>2, <1>3

\* resolve_orphan answers so in every state where the invariant holds.
LEMMA OrphanIsAnswered ==
  ASSUME IInv, NEW key \in DOMAIN map, NodeGet(inner, key) \in Values, NEW other \in Proved(Without(key), key)
  PROVE  /\ Answers(ResolveOrphan(inner, key, other), TrieOf(map), KeyLength, key)
         /\ IsMap(map, KeyLength) /\ KeyLength \in Nat /\ DOMAIN map # {}
<1> DEFINE full == TrieOf(map)
           after == WithoutKey(map, key)
           less == TrieOf(after)
           l == KeyLength
<1>0. full = TrieOf(map) /\ after = WithoutKey(map, key) /\ less = TrieOf(after) /\ after = Without(key)
  BY DEF WithoutKey, Without
<1> HIDE DEF full, after, less
<1>1. IsMap(map, l) /\ l \in Nat /\ RootOf(inner, map, l) /\ DOMAIN map # {}
  BY MapIs DEF IInv
<1>2. Stands(inner, full, l, TRUE)
  BY <1>0, <1>1 DEF RootOf
<1>3. key \in Key(l) /\ key \in Keys
  <2>1. map \in Map!Maps
    BY DEF IInv
  <2>2. key \in Keys
    BY <2>1 DEF Map!Maps
  <2> QED
    BY <2>2, KeyIs
<1>4. NodeGet(inner, key) \notin {Panic, NoValue}
  BY ValuesAssumption
<1>5. /\ IsMap(after, l)
      /\ DOMAIN after # {} => Lacks(less, full, l, key) /\ Full(less, l)
      /\ DOMAIN after = {} => \A k: ~IsOther(full, l, key, k)
  BY <1>0, <1>1, <1>3, TrieWithout
<1>6. \/ less = Null /\ other = Null
      \/ less # Null /\ \E rlps: Proof(Hash(less), key) \subseteq rlps /\ other = NodeFromRlp(Hash(less).of, rlps)
  BY <1>0, <1>3, ProvedIs
<1>7. CASE DOMAIN after = {}
  <2>1. less = Null
    BY <1>0, <1>1, <1>5, <1>7, TrieHolds
  <2>2. Answers(ResolveOrphan(inner, key, Null), full, l, key)
    BY <1>2, <1>3, <1>4, <1>5, <1>7, LastAnswered
  <2> QED
    BY <1>0, <1>1, <1>6, <2>1, <2>2
<1>8. CASE DOMAIN after # {}
  <2> DEFINE rlp == RlpEncoded(less)
  <2>1. Hash(less) = Digest(rlp) /\ Hash(less).of = rlp
    <3>1. Hash(less) = Digest(rlp)
      BY <1>0, <1>1, <1>5, <1>8, HashOfTrie
    <3> QED
      BY <3>1 DEF Digest
  <2>2. less # Null
    <3>1. Full(less, l)
      BY <1>5, <1>8
    <3>2. Stands(less, less, l, TRUE)
      BY <1>1, <3>1, FullStands
    <3> QED
      BY <3>2, StandsShape
  <2>3. PICK rlps: Proof(Digest(rlp), key) \subseteq rlps /\ other = NodeFromRlp(rlp, rlps)
    BY <1>6, <2>1, <2>2
  <2>3a. rlp = RlpEncoded(less)
    OBVIOUS
  <2> HIDE DEF rlp
  <2>3b. Full(less, l) /\ key \in Key(l)
    BY <1>3, <1>5, <1>8
  <2>3c. /\ Proof(Digest(rlp), key) \subseteq rlps
         /\ other = NodeFromRlp(rlp, rlps)
    BY <2>3
  <2>3d. IsDecoded(other, less, l, key, rlp, rlps)
    BY <2>3a, <2>3b, <2>3c DEF IsDecoded
  <2>3e. StandsAt(other, less, l, key)
    BY <2>3d, ProofDecoded
  <2>4. Stands(other, less, l, TRUE) /\ NodeGet(other, key) = NodeGet(less, key)
    BY <2>3e DEF StandsAt
  <2>5. NodeGet(other, key) = NoValue
    BY <1>5, <1>8, <2>4 DEF Lacks
  <2>6. Answers(ResolveOrphan(inner, key, other), full, l, key)
    BY <1>2, <1>3, <1>4, <1>5, <1>8, <2>4, <2>5, OrphanAnswered
  <2> QED
    BY <1>0, <1>1, <2>6
<1> QED
  BY <1>7, <1>8

\* What OrphansResolved says of a key and a proof.
OrphanResolvedBy(key, other) ==
  LET result == ResolveOrphan(inner, key, other)
      below  == UNION {Proof(Hash(TrieOf(map)), k): k \in Below(DOMAIN map, result.prefix)}
  IN  CASE result.answer = "ok" -> NodeRemove(result.node, key) # Panic
        [] result.answer = "unresolvable" -> /\ ~(NodeRemove(result.node, key) # Panic)
                                             /\ NodeRemove(ResolveDigests(result.node, below), key) # Panic
        [] OTHER -> FALSE

\* And what it answers is what OrphansResolved says.
LEMMA OrphanIsResolved ==
  ASSUME IInv, NEW key \in DOMAIN map, NodeGet(inner, key) \in Values, NEW other \in Proved(Without(key), key)
  PROVE  OrphanResolvedBy(key, other)
<1> DEFINE result == ResolveOrphan(inner, key, other)
           full == TrieOf(map)
           l == KeyLength
           proof(k) == Proof(Hash(full), k)
           below == UNION {proof(k): k \in Below(DOMAIN map, result.prefix)}
           rlp == RlpEncoded(full)
<1>1. Answers(result, full, l, key) /\ IsMap(map, l) /\ l \in Nat /\ DOMAIN map # {}
  BY OrphanIsAnswered
<1>2. HoldsMap(full, map, l) /\ Hash(full) = Digest(rlp)
  BY <1>1, TrieHolds, HashOfTrie
<1>3. /\ Full(full, l) /\ \A k \in Key(l): NodeGet(full, k) # NoValue <=> k \in DOMAIN map
      /\ DOMAIN map \in SUBSET Key(l)
  <2>1. Full(full, l) /\ \A k \in Key(l): NodeGet(full, k) = ValueIn(map, k)
    BY <1>2 DEF HoldsMap
  <2>2. DOMAIN map \in SUBSET Key(l) /\ \A k \in DOMAIN map: map[k] # NoValue
    BY <1>1, ValuesAssumption DEF IsMap
  <2>3. ASSUME NEW k \in Key(l) PROVE NodeGet(full, k) # NoValue <=> k \in DOMAIN map
    BY <2>1, <2>2 DEF ValueIn
  <2> QED
    BY <2>1, <2>2, <2>3
<1>4. \A k \in Key(l): proof(k) = {rlp} \cup Proof(Decode(rlp), k)
  BY <1>2, <1>3, RootProof
<1> HIDE DEF result, proof, full, rlp
<1>5. ASSUME NEW m \in 0..l, result.prefix \in Key(m), NEW k \in Key(l), IsPrefix(result.prefix, k),
             NodeGet(full, k) # NoValue
      PROVE  k \in Below(DOMAIN map, result.prefix)
  <2>1. Len(result.prefix) = m /\ SubSeq(k, 1, m) = result.prefix
    BY <1>1, <1>5, PathOfKey
  <2>2. k \in DOMAIN map
    BY <1>3, <1>5
  <2> QED
    BY <2>1, <2>2 DEF Below
<1>6. ASSUME result.answer = "unresolvable", ~Removable(result.node, key), NEW m \in 0..l, result.prefix \in Key(m),
             NEW key1 \in Key(l), IsPrefix(result.prefix, key1), NodeGet(full, key1) # NoValue
      PROVE  ProvesBelow(below, full, l, result.prefix)
  <2>1. ASSUME NEW k \in Key(l), IsPrefix(result.prefix, k), NodeGet(full, k) # NoValue
        PROVE  {rlp} \cup Proof(Decode(rlp), k) \subseteq below
    <3>1. k \in Below(DOMAIN map, result.prefix)
      BY <1>5, <1>6, <2>1
    <3>2. proof(k) \subseteq below
      BY <3>1
    <3> QED
      BY <1>4, <3>2
  <2>2. rlp \in below
    BY <1>6, <2>1
  <2> HIDE DEF below
  <2> QED
    BY <2>1, <2>2 DEF ProvesBelow, rlp
<1>7. below = UNION {Proof(Hash(TrieOf(map)), k): k \in Below(DOMAIN map, result.prefix)}
  BY DEF proof, full
<1> HIDE DEF below
<1>8. CASE result.answer = "ok" /\ Removable(result.node, key)
  BY <1>8 DEF OrphanResolvedBy, Removable, result
<1>9. CASE result.answer = "unresolvable" /\ ~Removable(result.node, key) /\ Removable(ResolveDigests(result.node, below), key)
  BY <1>7, <1>9 DEF OrphanResolvedBy, Removable, result
<1>10. \/ result.answer = "ok" /\ Removable(result.node, key)
       \/ result.answer = "unresolvable" /\ ~Removable(result.node, key) /\ Removable(ResolveDigests(result.node, below), key)
  BY <1>1, <1>6 DEF Answers
<1> QED
  BY <1>8, <1>9, <1>10

\* With a proof of the trie without the key, the removal does not panic where resolve_orphan
\* answers Ok, and where it names a prefix it would, and does not once that prefix is resolved
\* (orphan.rs:36, 61).
THEOREM OrphansAreResolved ==
  ASSUME ~PruneInlined
  PROVE  Spec => []OrphansResolved
<1>1. ASSUME IInv PROVE OrphansResolved
  <2>1. ASSUME NEW key \in {k \in DOMAIN map: Alive /\ NodeGet(inner, k) \in Values},
               NEW other \in Proved(Without(key), key)
        PROVE  OrphanResolvedBy(key, other)
    BY <1>1, OrphanIsResolved
  <2> QED
    BY <2>1 DEF OrphansResolved, OrphanResolvedBy
<1>2. Spec => []IInv
  BY InvariantHolds
<1>3. IInv => OrphansResolved
  BY <1>1
<1> QED
  BY <1>2, <1>3, PTL

=============================================================================
