------------------------------- MODULE MPTNode -------------------------------
(***************************************************************************)
(* The nodes of the sparse Merkle Patricia trie                             *)
(* (src/risc0-ethereum-trie/src/mpt: node.rs, rlp.rs, memoize.rs, orphan.rs, *)
(* prune.rs, serde.rs, rkyv.rs): encoding, caches, orphans, pruning.        *)
(*                                                                         *)
(* A node is a record with a cache; its encoding is the same record without *)
(* one, in which a child whose encoding is not shorter than a digest is     *)
(* replaced by the digest.  A digest is a record that holds what was        *)
(* hashed: keccak256 is taken to be injective, and nothing but the test     *)
(* that a preimage is supplied ever looks into it.  Only the size of an     *)
(* encoding is kept of its bytes.                                           *)
(***************************************************************************)
EXTENDS MPTWalk

CONSTANTS
  ValueSize,  \* size of the encoded leaf that holds a value
  DigestSize  \* encodings of this size (32 bytes) or more are hashed

HasCache(node) == node.t \in {"leaf", "extension", "branch"}

\* The nodes right below a node, or the references right below an encoding.
ChildrenOf(node) ==
  CASE node.t = "extension" -> <<node.child>>
    [] node.t = "branch"    -> node.children
    [] OTHER                -> <<>>

\* A node with others below it.
WithChildren(node, below) ==
  CASE node.t = "extension" -> [node EXCEPT !.child = below[1]]
    [] node.t = "branch"    -> [node EXCEPT !.children = below]
    [] OTHER                -> node

\* Recursion over a tree: what Made makes of the root, from what it has made of
\* each of those BelowOf it.
FoldTree(root, BelowOf(_), Made(_, _)) ==
  LET level[n \in Nat] ==
        IF n = 0 THEN {root} ELSE UNION {Range(BelowOf(x)): x \in level[n - 1]}
      made[n \in Nat] ==
        LET next == made[n + 1]
        IN  [x \in level[n] |-> Made(x, [i \in DOMAIN BelowOf(x) |-> next[BelowOf(x)[i]]])]
  IN  made[0][root]

-----------------------------------------------------------------------------
\* Encoding.

SizeFrom(rlp, sizes) ==
  CASE rlp.t = "null"   -> 1
    [] rlp.t = "digest" -> DigestSize
    [] rlp.t = "leaf"   -> ValueSize[rlp.value]
    [] OTHER            -> 1 + SumFunction(sizes)
RlpSize(rlp) == FoldTree(rlp, ChildrenOf, SizeFrom)

\* RlpNode::from_rlp
InlineOrDigest(rlp) == IF RlpSize(rlp) >= DigestSize THEN Digest(rlp) ELSE rlp

\* How a node is encoded, from the references to those below it, and how it is
\* referred to by its parent, the cached reference being used where there is one.
RlpFrom(node, refs) ==
  CASE node.t = "leaf"      -> [t |-> "leaf", path |-> node.path, value |-> node.value]
    [] node.t = "extension" -> [t |-> "extension", path |-> node.path, child |-> refs[1]]
    [] node.t = "branch"    -> [t |-> "branch", children |-> refs]
RefFrom(node, refs) ==
  CASE ~HasCache(node)       -> node
    [] HasCache(node) /\ node.cache # NoCache -> node.cache
    [] OTHER                 -> InlineOrDigest(RlpFrom(node, refs))

\* NodeRef::from_node and rlp_encoded
NodeRef(node)    == FoldTree(node, ChildrenOf, RefFrom)
RlpEncoded(node) == RlpFrom(node, [i \in DOMAIN ChildrenOf(node) |-> NodeRef(ChildrenOf(node)[i])])

\* NodeRef::hash: the root is hashed however short it is.
Hash(node) ==
  CASE node.t = "digest" -> node
    [] node.t = "null"   -> Digest(Null)
    [] HasCache(node) ->
         IF node.cache = NoCache THEN Digest(RlpEncoded(node))
         ELSE IF node.cache.t = "digest" THEN node.cache ELSE Digest(node.cache)

MemoizeFrom(node, memoized) ==
  IF ~HasCache(node) \/ node.cache # NoCache THEN node
  ELSE LET below == WithChildren(node, memoized)
       IN  [below EXCEPT !.cache = InlineOrDigest(RlpEncoded(below))]
Memoize(node) == FoldTree(node, ChildrenOf, MemoizeFrom)

\* Node::decode, of the encoding of a node of a trie.
DecodeFrom(rlp, decoded) ==
  CASE rlp.t = "leaf"      -> Leaf(rlp.path, rlp.value)
    [] rlp.t = "extension" -> Extension(rlp.path, decoded[1])
    [] rlp.t = "branch"    -> Branch(decoded)
    [] OTHER               -> rlp
Decode(rlp) == FoldTree(rlp, ChildrenOf, DecodeFrom)

\* Decoded from an encoding, a node remembers the reference to it.
DecodeCached(rlp, ref) ==
  LET decoded == Decode(rlp)
  IN  IF HasCache(decoded) THEN [decoded EXCEPT !.cache = ref] ELSE decoded

\* What is below a node if a digest is taken for the node it stands for.
BelowDigests(node) == IF node.t = "digest" THEN <<DecodeCached(node.of, node)>> ELSE ChildrenOf(node)

\* resolve_digests: each digest of a supplied encoding becomes its node, which
\* remembers the digest, and is resolved in turn.
IsSupplied(node, rlps) == node.t = "digest" => node.of \in rlps
ResolveFrom(node, below) == IF node.t = "digest" /\ below # <<>> THEN below[1] ELSE WithChildren(node, below)
ResolveDigests(node, rlps) ==
  FoldTree(node, LAMBDA x: IF IsSupplied(x, rlps) THEN BelowDigests(x) ELSE <<>>, ResolveFrom)

\* from_rlp: the first node is the root, and remembers its encoding.
NodeFromRlp(root, rlps) == ResolveDigests(DecodeCached(root, InlineOrDigest(root)), rlps)

\* The node without caches.
UncachedFrom(node, below) ==
  IF HasCache(node) THEN [WithChildren(node, below) EXCEPT !.cache = NoCache] ELSE node
Uncached(node) == FoldTree(node, ChildrenOf, UncachedFrom)

\* rlp_nodes, without the order of all nodes but the root: no cache is used, and
\* what is shorter than a digest is part of its parent.
RlpRoot(node) == IF HasCache(node) THEN RlpEncoded(Uncached(node)) ELSE node

IsHashed(node) == HasCache(node) /\ RlpSize(RlpRoot(node)) >= DigestSize
RlpNodesFrom(node, below) ==
  UNION Range(below) \cup IF IsHashed(node) THEN {RlpRoot(node)} ELSE {}
RlpNodes(node) == FoldTree(node, ChildrenOf, RlpNodesFrom)

-----------------------------------------------------------------------------
\* Orphans: nodes that a removal would merge with their parent, known by their
\* digest only.

\* Where the walk of a key fails, and what is left of the key.
Found == [t |-> "found"]
DivergingAt(end) ==
  CASE end.node.t = "leaf" /\ end.node.path = end.key -> Found
    [] end.node.t = "branch" /\ end.key # <<>>        -> [node |-> Null, key |-> Tail(end.key)]
    [] OTHER -> end

Diverging(node, key) == DivergingAt(Walk(node, key))

\* Mistake: a digest at the end of the key is taken for a node.
ContainsPrefixOrDigest(node, key) ==
  LET diverging == Diverging(node, key) IN diverging = Found \/ diverging.key = <<>>

ContainsPrefix(node, key) ==
  LET diverging == Diverging(node, key)
  IN  diverging = Found \/ (diverging.node.t # "digest" /\ diverging.key = <<>>)

IsBranchWithDigest(at, nib) ==
  /\ at.node.t = "branch" /\ at.key = <<>>
  /\ nib \in DOMAIN at.node.children /\ at.node.children[nib].t = "digest"

\* resolve_orphan, with where the key leaves the trie the proof decodes to: the
\* node it leaves, and its answer.  The sibling of key, as it is in the trie without key, gives the
\* node it was before.
ResolveOrphanAt(diverging, node, key) ==
  LET matched   == SubSeq(key, 1, Len(key) - Len(diverging.key))
      prefix    == diverging.node.path
      common    == LongestCommonPrefix({prefix, diverging.key})
      nib       == prefix[Len(common) + 1]
      suffix    == Drop(prefix, Len(common) + 1)
      isOrphan  == IsBranchWithDigest(Walk(node, matched \o common), nib)
      child     == diverging.node.child
      Resolved(sibling)     == ResolveDigests(node, {RlpEncoded(sibling)})
      Answer(after, answer) == [node |-> after, answer |-> answer, prefix |-> <<>>]
      \* The orphan is a branch, and its parent has become an extension.
      branch    == IF child.t = "digest" THEN node ELSE Resolved(child)
  IN  CASE diverging = Found -> Answer(node, "ok")
        [] diverging.node.t = "null" -> Answer(node, "ok")
        [] diverging.node.t = "digest" -> Answer(node, "invalid_proof")
        [] diverging.node.t = "leaf" ->
             Answer(IF isOrphan THEN Resolved(Leaf(suffix, diverging.node.value)) ELSE node, "ok")
        [] diverging.node.t = "extension" /\ ~isOrphan -> Answer(node, "ok")
        [] diverging.node.t = "extension" /\ isOrphan /\ suffix # <<>> ->
             Answer(Resolved(Extension(suffix, child)), "ok")
        [] diverging.node.t = "extension" /\ isOrphan /\ suffix = <<>> ->
             IF ContainsPrefix(branch, matched \o prefix) THEN Answer(branch, "ok")
             ELSE [node |-> branch, answer |-> "unresolvable", prefix |-> matched \o prefix]

ResolveOrphan(node, key, other) == ResolveOrphanAt(Diverging(other, key), node, key)

-----------------------------------------------------------------------------
\* Pruning.

\* The order of slices of nibbles.
Less(a, b) ==
  \E n \in 1..Len(b):
    /\ n > Len(a) \/ a[n] < b[n]
    /\ \A m \in 1..(n - 1): m <= Len(a) /\ a[m] = b[m]

\* SortedKeysCursor: the keys it has not passed, of which it shows the first.

\* Mistake: a key that is the whole path is passed, too.
SeekPast(cursor, path) == {key \in cursor: Less(path, key)}

Seek(cursor, path) == {key \in cursor: ~Less(key, path)}

PeekWithPrefix(cursor, path) ==
  \E first \in cursor: IsPrefix(path, first) /\ \A key \in cursor: ~Less(key, first)

\* prune_to_keys of a branch: the cursor goes on from child to child.
PruneChildren(node, pruned, path, cursor) ==
  LET PruneChild(done, nib) ==
        LET at == pruned[nib][Append(path, nib)][done.cursor]
        IN  [node |-> [done.node EXCEPT !.children[nib] = at.node], cursor |-> at.cursor]
      done[n \in 0..16] ==
        IF n = 0 THEN [node |-> node, cursor |-> cursor]
        ELSE IF n - 1 \in DOMAIN node.children THEN PruneChild(done[n - 1], n - 1)
        ELSE done[n - 1]
  IN  done[16]

\* prune_to_keys of a node, from that of each below it: what no key of the cursor
\* reaches becomes its digest.  The caches stay.
PruneAt(node, pruned, path, cursor) ==
  LET rest      == Seek(cursor, path)
      isReached == PeekWithPrefix(rest, path)
      child     == pruned[1][path \o node.path][rest]
  IN  CASE ~isReached -> [node |-> Hash(node), cursor |-> rest]
        [] isReached /\ node.t = "extension" ->
             [node |-> [node EXCEPT !.child = child.node], cursor |-> child.cursor]
        [] isReached /\ node.t = "branch" -> PruneChildren(node, pruned, path, rest)
        [] OTHER -> [node |-> node, cursor |-> rest]

PruneFrom(keys, node, pruned) ==
  [path \in Seq(Nibble) |-> [cursor \in SUBSET keys |-> PruneAt(node, pruned, path, cursor)]]
NodePrune(node, path, keys) ==
  FoldTree(node, ChildrenOf, LAMBDA x, pruned: PruneFrom(keys, x, pruned))[path][keys]

-----------------------------------------------------------------------------
\* The reference: what a trie stands for.

\* The trie of a map, as Ethereum defines it, from those of the maps below the
\* branch at the end of the prefix that its keys have in common.
Common(map) == LongestCommonPrefix(DOMAIN map)
MapsBelow(map) ==
  LET common   == Common(map)
      here     == Len(common) + 1
      below(i) == {Drop(key, here): key \in {k \in DOMAIN map: k[here] = i}}
  IN  IF Cardinality(DOMAIN map) <= 1 THEN <<>>
      ELSE [i \in {key[here]: key \in DOMAIN map} |->
              [rest \in below(i) |-> map[common \o <<i>> \o rest]]]
TrieFrom(map, tries) ==
  CASE DOMAIN map = {} -> Null
    [] Cardinality(DOMAIN map) = 1 -> Leaf(Common(map), map[Common(map)])
    [] OTHER -> IF Common(map) = <<>> THEN Branch(tries) ELSE Extension(Common(map), Branch(tries))
TrieOf(map) == FoldTree(map, MapsBelow, TrieFrom)

\* Every digest replaced by the trie it is the digest of.
ExpandedFrom(node, below) == IF node.t = "digest" THEN below[1] ELSE UncachedFrom(node, below)
Expanded(node) == FoldTree(node, BelowDigests, ExpandedFrom)

\* The encodings a witness needs for the walk of a key: one for each digest on it.
NextDigest(at) ==
  LET end == Walk(at.node, at.key)
  IN  IF end.node.t = "digest" THEN <<[node |-> Decode(end.node.of), key |-> end.key]>> ELSE <<>>
Proof(node, key) ==
  FoldTree([node |-> node, key |-> key], NextDigest,
           LAMBDA at, below: IF below = <<>> THEN {} ELSE {Walk(at.node, at.key).node.of} \cup below[1])

\* The paths to what is below a node, from those that begin there.
PathsFrom(node, below) ==
  IF node.t = "extension" THEN {node.path \o p: p \in below[1]}
  ELSE UNION {{<<i>> \o p: p \in below[i]}: i \in DOMAIN below}

\* Where the digests are.
DigestPathsFrom(node, below) == IF node.t = "digest" THEN {<<>>} ELSE PathsFrom(node, below)
DigestPaths(node) == FoldTree(node, ChildrenOf, DigestPathsFrom)

\* Where the nodes are.
NodePathsFrom(node, below) == IF HasCache(node) THEN {<<>>} \cup PathsFrom(node, below) ELSE {}
NodePaths(node) == FoldTree(node, ChildrenOf, NodePathsFrom)

\* Is a node below this one part of the encoding of its parent?
HasInlinedFrom(node, below) ==
  \E i \in DOMAIN below: HasCache(ChildrenOf(node)[i]) /\ (~IsHashed(ChildrenOf(node)[i]) \/ below[i])
HasInlined(node) == FoldTree(node, ChildrenOf, HasInlinedFrom)

\* The shape of a trie: an empty one, or each node is made as it should be.
PlacesBelow(at) == [below \in Children(at[1], at[2]) |-> below]
ShapeFrom(at, below) == WellMade(at[1], at[2]) /\ \A i \in DOMAIN below: below[i]
WellFormedNode(node, rest) == FoldTree(<<node, rest>>, PlacesBelow, ShapeFrom)

WellFormed(node, rest) == node = Null \/ WellFormedNode(node, rest)
=============================================================================
