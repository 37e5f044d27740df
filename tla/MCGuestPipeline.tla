--------------------------- MODULE MCGuestPipeline ---------------------------
\* Two accounts; the first has storage in some worlds, the second is absent,
\* plain or empty.
EXTENDS GuestPipeline, Sequences, TLC

CONSTANTS Rich, Empty, W, X, Code

Acc(info, storage) == [info |-> info, storage_root |-> storage]
NoSlots == EmptyStorage
Full    == (1 :> W @@ 2 :> X)

MCInitWorlds == {
  (1 :> Acc(Rich, Full)),
  (1 :> Acc(Rich, (1 :> W)) @@ 2 :> Acc(Rich, NoSlots)),
  (1 :> Acc(Empty, (2 :> W)) @@ 2 :> Acc(Rich, Full)) }

Change(wiped, slots) == [wiped |-> wiped, slots |-> slots]
Post(accounts, storages) == [accounts |-> accounts, storages |-> storages]

\* What may happen to an account: <<info, storage change>>, the empty sequence if
\* nothing does.  Slots are set and zeroed, a storage is wiped and set again; the
\* account is changed, emptied, deleted, with storage and without.
Few == {<<>>, <<None, Change(TRUE, NoSlots)>>, <<Rich, Change(FALSE, (1 :> Zero @@ 2 :> W))>>}
Many == Few \cup {<<Rich>>, <<Empty>>, <<Rich, Change(TRUE, (2 :> X))>>,
        <<Empty, Change(FALSE, (1 :> Zero @@ 2 :> Zero))>>}

PostOf(changes) ==
  Post([a \in {b \in 1..2: changes[b] # <<>>} |-> changes[a][1]],
       [a \in {b \in 1..2: Len(changes[b]) = 2} |-> changes[a][2]])

MCInitPosts == {PostOf(changes): changes \in Many \X Few}
=============================================================================
