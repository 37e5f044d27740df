------------------------------ MODULE CachedTrie ------------------------------
(***************************************************************************)
(* CachedTrie (src/risc0-ethereum-trie/src/mpt/mod.rs): a sparse trie that  *)
(* remembers the hash of its root and the encoding of each of its nodes.    *)
(*                                                                         *)
(* It starts from the digest of a trie that exists elsewhere, or from a     *)
(* witness of it, is hydrated, sent to the guest and changed.  Trie, the    *)
(* variant without caches, is the same with a hash that is never kept.      *)
(***************************************************************************)
EXTENDS MPTNode

CONSTANTS
  Keys,      \* the keys, sequences of nibbles of the same length
  KeyLength,
  Starts,    \* the maps whose tries are the pre-states
  PruneInlined \* are tries pruned that hold nodes shorter than a digest?

ASSUME KeysAssumption ==
  /\ KeyLength \in Nat \ {0}
  /\ IsFiniteSet(Keys) /\ Keys \subseteq Seq(Nibble)
  /\ \A key \in Keys: Len(key) = KeyLength
  /\ Starts \subseteq UNION {[keys -> Values]: keys \in SUBSET Keys}
  /\ ValueSize \in [Values -> Nat \ {0}] /\ DigestSize \in Nat
  /\ PruneInlined \in BOOLEAN

VARIABLES
  inner,  \* the root node
  hash,   \* the remembered root hash, or NoHash
  status, \* "ok", or "panicked": the program has ended
  map     \* history: what was inserted and not removed

vars == <<inner, hash, status, map>>

\* The map the trie is told to be.
Map == INSTANCE AuthenticatedMap WITH content <- map

NoHash == [t |-> "nohash"]

\* The encodings of the nodes that prove a set of keys of one of the tries: what
\* an execution witness lists.
Witnesses ==
  UNION {{UNION {Proof(Hash(TrieOf(start)), key): key \in keys}: keys \in SUBSET Keys}:
          start \in Starts}

\* CachedTrie::default, which clear sets, too.
Default == inner = Null /\ hash = Digest(Null)

FromDigest(digest) ==
  IF digest = Digest(Null) THEN Default
  ELSE inner = digest /\ hash = digest

FromRlp(root, rlps) == inner = NodeFromRlp(root, rlps) /\ hash = NoHash

Init ==
  /\ status = "ok"
  /\ \/ Default /\ map = <<>>
     \/ map \in Starts /\ FromDigest(Hash(TrieOf(map)))
     \/ /\ map \in Starts /\ TrieOf(map) # Null
        /\ \E rlps \in Witnesses: FromRlp(Hash(TrieOf(map)).of, rlps)

Alive == status = "ok"

InsertKey(key, value) ==
  /\ Alive
  /\ inner' = NodeInsert(inner, key, value)
  /\ inner' # Panic
  /\ hash' = NoHash
  /\ Map!Insert(key, value)

RemoveKey(key) ==
  /\ Alive
  /\ NodeGet(inner, key) \in Values
  /\ inner' = NodeRemove(inner, key)
  /\ inner' # Panic
  /\ hash' = NoHash
  /\ Map!Remove(key)

\* remove returns false before it forgets the hash.
RemoveMissing(key) ==
  /\ Alive
  /\ NodeGet(inner, key) = NoValue
  /\ inner' = NodeRemove(inner, key)
  /\ UNCHANGED <<hash, status, map>>

\* get, insert or remove reaches a node that is not there.
Panics(key, value) ==
  /\ Alive
  /\ Panic \in {NodeGet(inner, key), NodeInsert(inner, key, value), NodeRemove(inner, key)}
  /\ Map!Panic
  /\ UNCHANGED <<inner, hash>>

\* hash(), the one with a memory.
HashRoot ==
  /\ Alive
  /\ hash = NoHash
  /\ inner' = Memoize(inner)
  /\ hash' = Hash(inner')
  /\ UNCHANGED <<status, map>>

\* hash_slow()
HashSlow == IF hash = NoHash THEN Hash(inner) ELSE hash

Clear ==
  /\ Alive
  /\ inner' = Null /\ hash' = Digest(Null)
  /\ Map!Clear

\* The remembered hash stays.
HydrateFromRlp(rlps) ==
  /\ Alive
  /\ inner' = ResolveDigests(inner, rlps)
  /\ UNCHANGED <<hash, status, map>>

\* The trie is written on the host and read in the guest: no cache is written.
SerializeDeserialize ==
  /\ Alive
  /\ inner' = Uncached(inner)
  /\ hash' = NoHash
  /\ UNCHANGED <<status, map>>

\* The same with the feature rlp_serialize, and with rkyv: the nodes are written
\* once each, and looked up by their hashes.
RlpSerializeDeserialize ==
  /\ Alive
  /\ inner' = NodeFromRlp(RlpRoot(inner), RlpNodes(inner))
  /\ hash' = NoHash
  /\ UNCHANGED <<status, map>>

\* What a proof of key in the trie of a map decodes to: one that stops where the
\* walk of key does, or one that goes on.
Proved(content, key) ==
  LET root == TrieOf(content)
      proofs == {Proof(Hash(root), key), UNION {Proof(Hash(root), k): k \in Keys}}
  IN  IF root = Null THEN {Null} ELSE {NodeFromRlp(Hash(root).of, rlps): rlps \in proofs}

Without(key) == [k \in DOMAIN map \ {key} |-> map[k]]

\* With a proof of the trie without the key.  The remembered hash stays.
ResolveOrphanOf(key) ==
  /\ Alive
  /\ NodeGet(inner, key) \in Values
  /\ \E other \in Proved(Without(key), key): inner' = ResolveOrphan(inner, key, other).node
  /\ UNCHANGED <<hash, status, map>>

\* "key not contained"
ResolveOrphanPanics(key) ==
  /\ Alive
  /\ NodeGet(inner, key) = NoValue
  /\ Map!Panic
  /\ UNCHANGED <<inner, hash>>

Pruned(keys) == NodePrune(inner, <<>>, keys).node

PruneToKeys ==
  /\ Alive
  /\ PruneInlined \/ ~HasInlined(inner)
  /\ \E keys \in SUBSET Keys: inner' = Pruned(keys)
  /\ hash' = NoHash
  /\ UNCHANGED <<status, map>>

Ended == ~Alive /\ UNCHANGED vars

Next ==
  \/ \E key \in Keys, value \in Values: InsertKey(key, value) \/ Panics(key, value)
  \/ \E key \in Keys: RemoveKey(key) \/ RemoveMissing(key)
  \/ HashRoot
  \/ Clear
  \/ \E rlps \in Witnesses: HydrateFromRlp(rlps)
  \/ SerializeDeserialize \/ RlpSerializeDeserialize
  \/ \E key \in Keys: ResolveOrphanOf(key) \/ ResolveOrphanPanics(key)
  \/ PruneToKeys
  \/ Ended

Spec == Init /\ [][Next]_vars

-----------------------------------------------------------------------------
\* The nodes keep their shape: no branch with one child, no extension to
\* anything but a branch, no Null child (node.rs:212, children.rs:23).
TypeOK ==
  /\ WellFormed(inner, KeyLength)
  /\ hash.t \in {"nohash", "digest"}
  /\ status \in {"ok", "panicked"}
  /\ map \in Map!Maps

\* With every digest resolved the trie is the one trie of its map: insert sets its
\* key, remove takes its key away, and nothing else changes any key, in whatever
\* order it was changed, hydrated, hashed and sent.  It has the nodes that any
\* other way to the same map leads to.
IsTrieOfMap == Expanded(inner) = TrieOf(map)

\* The hash of the trie is the root of its map, however much of it comes from
\* caches ("automatically updating cached hashes as the trie is modified",
\* mod.rs:191).
HashIsRoot == HashSlow = Hash(TrieOf(map))

\* A digest on the way of a key, and a key whose removal would leave nothing but
\* a digest beside it.
Below(keys, path) == {k \in keys: SubSeq(k, 1, Len(path)) = path}
OnTheWay(key, paths) == \E p \in paths: key \in Below({key}, p)
OnlySibling(key, paths) ==
  \E p \in paths \ {<<>>}:
    LET up == SubSeq(p, 1, Len(p) - 1)
    IN  /\ key \in Below({key}, up)
        /\ Below(DOMAIN map \ {key}, up) = Below(DOMAIN map \ {key}, p)

\* get, insert and remove panic in the cases their documentation gives
\* (mod.rs:53, 63, 80), and in no other; a get that answers answers from the map.
PanicsAsDocumented ==
  LET paths == DigestPaths(inner)
  IN  \A key \in Keys:
        /\ NodeGet(inner, key) = IF OnTheWay(key, paths) THEN Panic
                                 ELSE IF key \in DOMAIN map THEN map[key] ELSE NoValue
        /\ \A value \in Values: NodeInsert(inner, key, value) = Panic <=> OnTheWay(key, paths)
        /\ NodeRemove(inner, key) = Panic <=>
             OnTheWay(key, paths) \/ (key \in DOMAIN map /\ OnlySibling(key, paths))

\* resolve_orphan with a proof of the trie without the key: where it answers Ok
\* the removal does not panic, where it names a prefix the removal would panic, and
\* does not once that prefix is resolved, and it never calls the proof invalid
\* (orphan.rs:36, 61).
OrphansResolved ==
  \A key \in {k \in DOMAIN map: Alive /\ NodeGet(inner, k) \in Values}:
    \A other \in Proved(Without(key), key):
      LET result == ResolveOrphan(inner, key, other)
          isRemovable(node) == NodeRemove(node, key) # Panic
          below == UNION {Proof(Hash(TrieOf(map)), k): k \in Below(DOMAIN map, result.prefix)}
      IN  CASE result.answer = "ok" -> isRemovable(result.node)
            [] result.answer = "unresolvable" ->
                 ~isRemovable(result.node) /\ isRemovable(ResolveDigests(result.node, below))
            [] OTHER -> FALSE

\* "Returns `Ok(())` if the orphan was successfully resolved. Returns `Error` if the
\* proof is invalid" (orphan.rs:61), where invalid is one that "does not prove the
\* non-inclusion of the key" (orphan.rs:36): of a proof of the trie that still holds
\* the key.
OkMeansResolved ==
  \A key \in {k \in DOMAIN map: NodeGet(inner, k) \in Values}:
    \A other \in Proved(map, key):
      LET result == ResolveOrphan(inner, key, other)
      IN  result.answer = "ok" => NodeRemove(result.node, key) # Panic

\* prune_to_keys keeps exactly the nodes on the ways of the keys: what it finds by
\* one pass of a cursor over the sorted keys is what each key by itself asks for.
PruneKeepsPaths ==
  LET paths == NodePaths(inner)
      got   == [key \in Keys |-> NodeGet(inner, key)]
  IN  Alive => \A keys \in SUBSET Keys:
        LET pruned == Pruned(keys)
        IN  /\ NodePaths(pruned) = {p \in paths: \E key \in keys: IsPrefix(p, key)}
            /\ \A key \in keys: NodeGet(pruned, key) = got[key]

\* "Unused parts of the trie are replaced with their digest representation"
\* (mod.rs:355): the hash is that of the trie that was pruned.
PrunedHashIsRoot == HashIsRoot
=============================================================================
