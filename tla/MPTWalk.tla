------------------------------- MODULE MPTWalk -------------------------------
(***************************************************************************)
(* The operations of the sparse Merkle Patricia trie that follow one key:   *)
(* get, insert and remove (src/risc0-ethereum-trie/src/mpt: node.rs,        *)
(* children.rs, nibbles.rs).                                                *)
(*                                                                         *)
(* A node is a record with a cache.  The recursion of the code is over the  *)
(* nodes that a key passes: Way yields them from the top, and what an       *)
(* operation makes of each is a function of its place on the way, which     *)
(* refers to the place below.                                               *)
(***************************************************************************)
EXTENDS Naturals, FiniteSets, Sequences, SequencesExt

CONSTANTS
  Values      \* the values, none of them empty

Nibble == 0..15

Null         == [t |-> "null"]
Panic        == [t |-> "panic"]
NoCache      == [t |-> "nocache"]
NoValue      == [t |-> "novalue"]
Digest(rlp)  == [t |-> "digest", of |-> rlp]

\* The answers that are no values are told from them.
ASSUME ValuesAssumption == NoValue \notin Values /\ Panic \notin Values

Leaf(path, value)      == [t |-> "leaf", path |-> path, value |-> value, cache |-> NoCache]
Extension(path, child) == [t |-> "extension", path |-> path, child |-> child, cache |-> NoCache]
Branch(children)       == [t |-> "branch", children |-> children, cache |-> NoCache]

\* key without its first n nibbles.
Drop(key, n) == SubSeq(key, n + 1, Len(key))

\* The children with the one at nib set, or removed if it became Null.
WithChild(children, nib, child) ==
  IF child = Null
  THEN [i \in DOMAIN children \ {nib} |-> children[i]]
  ELSE [i \in DOMAIN children \cup {nib} |-> IF i = nib THEN child ELSE children[i]]

-----------------------------------------------------------------------------
\* The way of a key.

\* Does the key lead on from a place, a node and what is left of the key there?
Descends(at) ==
  \/ at.node.t = "extension" /\ IsPrefix(at.node.path, at.key)
  \/ at.node.t = "branch" /\ at.key # <<>> /\ Head(at.key) \in DOMAIN at.node.children

\* The place it leads to.
Into(at) ==
  IF at.node.t = "extension"
  THEN [node |-> at.node.child, key |-> Drop(at.key, Len(at.node.path))]
  ELSE [node |-> at.node.children[Head(at.key)], key |-> Tail(at.key)]

\* The places a key passes.  It stays where it leads no further, as it does
\* at the latest when nothing is left of it.
Way(node, key) ==
  LET way[n \in Nat] ==
        IF n = 0 THEN [node |-> node, key |-> key]
        ELSE LET at == way[n - 1] IN IF Descends(at) THEN Into(at) ELSE at
  IN  way

\* The node at which the walk of a key ends, and what is left of the key.
Walk(node, key) ==
  LET way == Way(node, key)
      end[n \in Nat] == LET at == way[n] IN IF Descends(at) THEN end[n + 1] ELSE at
  IN  end[0]

\* get where the way ends.
ValueAt(end) ==
  CASE end.node.t = "digest" -> Panic
    [] end.node.t = "leaf" /\ end.node.path = end.key -> end.node.value
    [] OTHER -> NoValue

NodeGet(node, key) == ValueAt(Walk(node, key))

-----------------------------------------------------------------------------
\* Insertion.

\* What is below a node, n nibbles further down its path.
LowerPart(node, n) ==
  LET rest == Drop(node.path, n)
  IN  CASE node.t = "leaf" -> Leaf(rest, node.value)
        [] node.t = "extension" /\ rest = <<>> -> node.child
        [] node.t = "extension" /\ rest # <<>> -> Extension(rest, node.child)

\* A branch where the path of a node and the key part, below what they have in
\* common.
Fork(node, key, value) ==
  LET common == LongestCommonPrefix({node.path, key})
      here   == Len(common) + 1
      branch == Branch([i \in {node.path[here], key[here]} |->
                          IF i = key[here] THEN Leaf(Drop(key, here), value) ELSE LowerPart(node, here)])
  IN  IF common = <<>> THEN branch ELSE Extension(common, branch)

\* Mistake: the cache is left as it is.
SetChildrenOnly(node, children) == [node EXCEPT !.children = children]

\* An update in place forgets the cache of the node.
SetValue(node, value)       == [node EXCEPT !.value = value, !.cache = NoCache]
SetChild(node, child)       == [node EXCEPT !.child = child, !.cache = NoCache]
SetChildren(node, children) == [node EXCEPT !.children = children, !.cache = NoCache]

\* insert where the way ends.
InsertedAt(at, value) ==
  CASE at.node.t = "null"   -> Leaf(at.key, value)
    [] at.node.t = "leaf" /\ at.node.path = at.key -> SetValue(at.node, value)
    [] at.node.t = "leaf" /\ at.node.path # at.key -> Fork(at.node, at.key, value)
    [] at.node.t = "extension" -> Fork(at.node, at.key, value)
    [] at.node.t = "branch" ->
         SetChildren(at.node, WithChild(at.node.children, Head(at.key), Leaf(Tail(at.key), value)))
    [] at.node.t = "digest" -> Panic

\* insert on the way, once the node below is done.
InsertedAbove(at, child) ==
  CASE child = Panic -> Panic
    [] child # Panic /\ at.node.t = "extension" -> SetChild(at.node, child)
    [] child # Panic /\ at.node.t = "branch" ->
         SetChildren(at.node, WithChild(at.node.children, Head(at.key), child))

NodeInsert(node, key, value) ==
  LET way == Way(node, key)
      new[n \in Nat] ==
        LET at == way[n]
        IN  IF Descends(at) THEN InsertedAbove(at, new[n + 1]) ELSE InsertedAt(at, value)
  IN  new[0]

-----------------------------------------------------------------------------
\* Removal.

\* Mistake: an extension stays, whatever its child has become.
MergedNever(node, child) ==
  CASE child.t = "null"  -> Null
    [] child.t = "panic" -> Panic
    [] OTHER             -> SetChild(node, child)

\* An extension whose child changed: it always points to a branch.
Merged(node, child) ==
  CASE child.t = "null"      -> Null
    [] child.t = "leaf"      -> Leaf(node.path \o child.path, child.value)
    [] child.t = "extension" -> Extension(node.path \o child.path, child.child)
    [] child.t = "branch"    -> SetChild(node, child)
    [] child.t = "panic"     -> Panic

\* Mistake: an unresolved only child is taken for a branch.
CollapsedBlindly(node) ==
  LET nib   == CHOOSE i \in DOMAIN node.children: TRUE
      child == node.children[nib]
  IN  IF Cardinality(DOMAIN node.children) # 1 THEN node
      ELSE CASE child.t = "leaf"      -> Leaf(<<nib>> \o child.path, child.value)
             [] child.t = "extension" -> Extension(<<nib>> \o child.path, child.child)
             [] OTHER                 -> Extension(<<nib>>, child)

\* Mistake: an only child that is an extension keeps its path to itself.
CollapsedNested(node) ==
  LET nib   == CHOOSE i \in DOMAIN node.children: TRUE
      child == node.children[nib]
  IN  IF Cardinality(DOMAIN node.children) # 1 THEN node
      ELSE CASE child.t = "leaf"   -> Leaf(<<nib>> \o child.path, child.value)
             [] child.t = "digest" -> Panic
             [] OTHER              -> Extension(<<nib>>, child)

\* A branch that has lost a child: no branch keeps a single one.
Collapsed(node) ==
  LET nib   == CHOOSE i \in DOMAIN node.children: TRUE
      child == node.children[nib]
  IN  IF Cardinality(DOMAIN node.children) # 1 THEN node
      ELSE CASE child.t = "leaf"      -> Leaf(<<nib>> \o child.path, child.value)
             [] child.t = "extension" -> Extension(<<nib>> \o child.path, child.child)
             [] child.t = "branch"    -> Extension(<<nib>>, child)
             [] child.t = "digest"    -> Panic

\* remove where the way ends, of a key that is there unless a digest is met.
RemovedAt(at) == IF at.node.t = "digest" THEN Panic ELSE Null

\* remove on the way, once the node below is done.
RemovedAbove(at, child) ==
  CASE at.node.t = "extension" -> Merged(at.node, child)
    [] at.node.t = "branch" /\ child = Panic -> Panic
    [] at.node.t = "branch" /\ child # Panic ->
         Collapsed(SetChildren(at.node, WithChild(at.node.children, Head(at.key), child)))

RemoveFound(node, key) ==
  LET way == Way(node, key)
      new[n \in Nat] ==
        LET at == way[n]
        IN  IF Descends(at) THEN RemovedAbove(at, new[n + 1]) ELSE RemovedAt(at)
  IN  new[0]

\* A key that is not found leaves every node, and every cache, as it is.
NodeRemove(node, key) == IF NodeGet(node, key) = NoValue THEN node ELSE RemoveFound(node, key)

-----------------------------------------------------------------------------
\* The shape of a trie.

\* What every node is, for keys of which rest nibbles are left, apart from what
\* is below it: a branch has two children at least, none of them Null, and below
\* an extension there is a branch.
WellMade(node, rest) ==
  CASE node.t = "digest" -> TRUE
    [] node.t = "leaf" -> Len(node.path) = rest /\ node.value \in Values
    [] node.t = "extension" ->
         Len(node.path) \in 1..rest /\ node.child.t \in {"branch", "digest"}
    [] node.t = "branch" ->
         /\ rest > 0
         /\ DOMAIN node.children \subseteq Nibble
         /\ Cardinality(DOMAIN node.children) >= 2
    [] OTHER -> FALSE

\* The nodes below, with what is left of the keys there.
Children(node, rest) ==
  CASE node.t = "extension" -> {<<node.child, rest - Len(node.path)>>}
    [] node.t = "branch"    -> {<<node.children[i], rest - 1>>: i \in DOMAIN node.children}
    [] OTHER                -> {}
=============================================================================
