---------------------------- MODULE MCCachedTrie ----------------------------
\* Keys of three nibbles, with common prefixes of length two, one and zero.
EXTENDS CachedTrie, TLC

CONSTANTS Short, Long

MCKeys == {<<0, 0, 0>>, <<0, 0, 1>>, <<0, 1, 0>>, <<1, 1, 1>>}

\* Two short leaves, or a short one and a branch, make an encoding that is
\* still inlined; a long leaf is always hashed.
MCValueSize == (Short :> 1 @@ Long :> 9)

MCStarts == {
  (<<0, 0, 0>> :> Short),
  (<<0, 0, 0>> :> Long @@ <<0, 0, 1>> :> Short @@ <<0, 1, 0>> :> Long),
  [key \in MCKeys |-> Long] }
=============================================================================
