---------------------------- MODULE EthereumState ----------------------------
(***************************************************************************)
(* The state of a block's accounts over sparse tries                        *)
(* (src/reth-trie-risc0-zkvm/src/lib.rs and mpt.rs, Risc0ZkvmTrie): built   *)
(* from an execution witness, validated, read while the block executes, and *)
(* updated with what the block changed.                                     *)
(*                                                                         *)
(* A trie is the map it stands for, with the set of keys whose nodes are    *)
(* there (CachedTrie shows that this is what a trie is: it answers from its *)
(* map or panics); its root hash is the map itself, as hashes are taken to  *)
(* be injective.                                                            *)
(***************************************************************************)
EXTENDS Naturals, FiniteSets

CONSTANTS
  Addresses, \* hashed addresses, which update sorts
  Slots,     \* hashed storage slots
  Words,     \* values of a slot other than zero
  Zero,
  Infos,     \* nonce, balance and code hash of an account
  EmptyInfo, \* no nonce, no balance, no code
  None       \* no account

ASSUME EthereumStateAssumption ==
  /\ Addresses \subseteq Nat
  /\ Zero \notin Words
  /\ EmptyInfo \in Infos
  /\ None \notin Infos

VARIABLES
  state_trie,        \* [content, known]: the accounts
  storage_tries,     \* hashed address |-> [content, known]
  siblings,          \* does the witness hold the nodes beside what is removed?
  post,              \* the HashedPostState to apply
  new_storage_roots, \* the roots update has computed so far
  updated            \* the accounts update has walked so far

stateVars == <<state_trie, storage_tries, siblings, post, new_storage_roots, updated>>

\* A partial function, changed or cut at a key.
Partial(A, B) == UNION {[keys -> B]: keys \in SUBSET A}
IsPartial(f, A, B) == DOMAIN f \subseteq A /\ f \in [DOMAIN f -> B]
Set(f, a, b)  == [x \in DOMAIN f \cup {a} |-> IF x = a THEN b ELSE f[x]]
Unset(f, a)   == [x \in DOMAIN f \ {a} |-> f[x]]

Storages     == Partial(Slots, Words)
EmptyStorage == [s \in {} |-> Zero]  \* its root is EMPTY_ROOT
Accounts     == [info: Infos, storage_root: Storages]
IsWorld(w)   == IsPartial(w, Addresses, Accounts)

StorageTries == [content: Storages, known: SUBSET Slots]
DefaultTrie  == [content |-> EmptyStorage, known |-> Slots]

\* reth_trie_common::HashedStorage and HashedPostState.
HashedStorages == [wiped: BOOLEAN, slots: Partial(Slots, Words \cup {Zero})]
IsPostState(p) ==
  /\ p = [storages |-> p.storages, accounts |-> p.accounts]
  /\ IsPartial(p.storages, Addresses, HashedStorages)
  /\ IsPartial(p.accounts, Addresses, Infos \cup {None})

-----------------------------------------------------------------------------
\* build_validated_tries, on the host, from the nodes of a world.

\* Mistake: the accounts without storage get a trie, the others none.
DetectedEmpty(world, keys) == {a \in keys \cap DOMAIN world: world[a].storage_root = EmptyStorage}

\* The accounts whose storage is needed: those of the witness keys.
Detected(world, keys) == {a \in keys \cap DOMAIN world: world[a].storage_root # EmptyStorage}

Build(world, keys, knownAddresses, knownSlots) ==
  /\ keys \subseteq knownAddresses
  /\ state_trie' = [content |-> world, known |-> knownAddresses]
  /\ storage_tries' = [a \in Detected(world, keys) |->
                         [content |-> world[a].storage_root, known |-> knownSlots]]

\* The account of a key cannot be reached.
BuildPanics(keys, knownAddresses) == ~(keys \subseteq knownAddresses)

\* validate_state_trie and validate_storage_tries.
StateTrieValid(root) == state_trie.content = root

StorageTriesValid ==
  \A a \in DOMAIN storage_tries:
    /\ a \in state_trie.known
    /\ a \in DOMAIN state_trie.content
    /\ state_trie.content[a].storage_root = storage_tries[a].content

-----------------------------------------------------------------------------
\* account and storage, as the executed block reads them.

AccountPanics(a) == a \notin state_trie.known
Account(a) == IF a \in DOMAIN state_trie.content THEN state_trie.content[a] ELSE None

\* Mistake: without a storage trie every slot is zero.
StoragePanicsWithTrie(a, s) == a \in DOMAIN storage_tries /\ s \notin storage_tries[a].known

\* Without a storage trie the account must be there and have no storage: the
\* two other cases are not implemented.
StoragePanics(a, s) ==
  IF a \in DOMAIN storage_tries THEN s \notin storage_tries[a].known
  ELSE \/ AccountPanics(a)
       \/ a \notin DOMAIN state_trie.content
       \/ state_trie.content[a].storage_root # EmptyStorage

Storage(a, s) ==
  IF a \in DOMAIN storage_tries /\ s \in DOMAIN storage_tries[a].content
  THEN storage_tries[a].content[s]
  ELSE Zero

-----------------------------------------------------------------------------
\* update.

\* Mistake: a slot that becomes zero is written, not removed.
AppliedZeros(content, storage) ==
  LET base == IF storage.wiped THEN EmptyStorage ELSE content
  IN  [s \in DOMAIN base \cup DOMAIN storage.slots |->
         IF s \in DOMAIN storage.slots THEN storage.slots[s] ELSE base[s]]

\* A storage wiped if so requested, with its slots set, those with zero removed.
Applied(content, storage) ==
  LET base == IF storage.wiped THEN EmptyStorage ELSE content
      kept == (DOMAIN base \ DOMAIN storage.slots)
              \cup {s \in DOMAIN storage.slots: storage.slots[s] # Zero}
  IN  [s \in kept |-> IF s \in DOMAIN storage.slots THEN storage.slots[s] ELSE base[s]]

Trie(a) == IF a \in DOMAIN storage_tries THEN storage_tries[a] ELSE DefaultTrie
Cleared(a) == IF post.storages[a].wiped THEN DefaultTrie ELSE Trie(a)

\* A removal may leave a branch with one child that is not there.
MayCollapse(trie, removed) ==
  /\ ~siblings
  /\ removed \cap DOMAIN trie.content # {}
  /\ ~(DOMAIN trie.content \subseteq trie.known)

ZeroSlots(a) == {s \in DOMAIN post.storages[a].slots: post.storages[a].slots[s] = Zero}

\* Storages are updated in the order of the addresses.
NextStorage(a) ==
  /\ a \in DOMAIN post.storages \ DOMAIN new_storage_roots
  /\ \A b \in DOMAIN post.storages \ DOMAIN new_storage_roots: a <= b

UpdateStorage(a) ==
  /\ NextStorage(a)
  /\ DOMAIN post.storages[a].slots \subseteq Cleared(a).known
  /\ LET content == Applied(Trie(a).content, post.storages[a])
     IN  /\ storage_tries' = Set(storage_tries, a, [content |-> content, known |-> Cleared(a).known])
         /\ new_storage_roots' = Set(new_storage_roots, a, content)
  /\ UNCHANGED <<state_trie, siblings, post, updated>>

UpdateStoragePanics(a) ==
  /\ NextStorage(a)
  /\ \/ ~(DOMAIN post.storages[a].slots \subseteq Cleared(a).known)
     \/ MayCollapse(Cleared(a), ZeroSlots(a))

\* Accounts are walked in the order of a hash map, after all storages.
NextAccount(a) ==
  /\ DOMAIN new_storage_roots = DOMAIN post.storages
  /\ a \in DOMAIN post.accounts \ updated

\* Mistake: only the roots of this update are looked up.
StorageRootOfUpdate(a) == IF a \in DOMAIN new_storage_roots THEN new_storage_roots[a] ELSE EmptyStorage

\* The root of this update, of the storage trie, or of no storage.
StorageRoot(a) ==
  IF a \in DOMAIN new_storage_roots THEN new_storage_roots[a] ELSE Trie(a).content

Deletes(a) ==
  \/ post.accounts[a] = None
  \/ post.accounts[a] = EmptyInfo /\ StorageRoot(a) = EmptyStorage

InsertAccount(a) ==
  /\ NextAccount(a) /\ ~Deletes(a)
  /\ a \in state_trie.known
  /\ state_trie' = [state_trie EXCEPT
       !.content = Set(@, a, [info |-> post.accounts[a], storage_root |-> StorageRoot(a)])]
  /\ updated' = updated \cup {a}
  /\ UNCHANGED <<storage_tries, siblings, post, new_storage_roots>>

\* Mistake: the storage trie of a deleted account is kept.
DeleteAccountOnly(a) ==
  /\ NextAccount(a) /\ Deletes(a)
  /\ a \in state_trie.known
  /\ state_trie' = [state_trie EXCEPT !.content = Unset(@, a)]
  /\ updated' = updated \cup {a}
  /\ UNCHANGED <<storage_tries, siblings, post, new_storage_roots>>

DeleteAccount(a) ==
  /\ NextAccount(a) /\ Deletes(a)
  /\ a \in state_trie.known
  /\ state_trie' = [state_trie EXCEPT !.content = Unset(@, a)]
  /\ storage_tries' = Unset(storage_tries, a)
  /\ updated' = updated \cup {a}
  /\ UNCHANGED <<siblings, post, new_storage_roots>>

UpdateAccountPanics(a) ==
  /\ NextAccount(a)
  /\ \/ a \notin state_trie.known
     \/ Deletes(a) /\ MayCollapse(state_trie, {a})

UpdateStep   == \E a \in Addresses: UpdateStorage(a) \/ InsertAccount(a) \/ DeleteAccount(a)
UpdatePanics == \E a \in Addresses: UpdateStoragePanics(a) \/ UpdateAccountPanics(a)

\* Mistake: done with the storages.
UpdateDoneEarly == DOMAIN new_storage_roots = DOMAIN post.storages

UpdateDone ==
  /\ DOMAIN new_storage_roots = DOMAIN post.storages
  /\ updated = DOMAIN post.accounts

-----------------------------------------------------------------------------
StateTypeOK ==
  /\ state_trie = [content |-> state_trie.content, known |-> state_trie.known]
  /\ IsWorld(state_trie.content)
  /\ state_trie.known \subseteq Addresses
  /\ IsPartial(storage_tries, Addresses, StorageTries)
  /\ siblings \in BOOLEAN
  /\ IsPostState(post)
  /\ IsPartial(new_storage_roots, Addresses, Storages)
  /\ updated \subseteq Addresses

\* The reference: what a post-state makes of a world, slot by slot and account by
\* account.
StorageAfter(world, change, a) ==
  LET before(s) == IF a \in DOMAIN world /\ s \in DOMAIN world[a].storage_root
                   THEN world[a].storage_root[s] ELSE Zero
      after(s)  == CASE a \notin DOMAIN change.storages -> before(s)
                     [] a \in DOMAIN change.storages /\ s \in DOMAIN change.storages[a].slots ->
                          change.storages[a].slots[s]
                     [] OTHER -> IF change.storages[a].wiped THEN Zero ELSE before(s)
  IN  [s \in {t \in Slots: after(t) # Zero} |-> after(s)]

SurvivesIn(world, change, a) ==
  IF a \in DOMAIN change.accounts
  THEN /\ change.accounts[a] # None
       /\ change.accounts[a] # EmptyInfo \/ StorageAfter(world, change, a) # EmptyStorage
  ELSE a \in DOMAIN world

WorldAfter(world, change) ==
  [a \in {b \in Addresses: SurvivesIn(world, change, b)} |->
     IF a \in DOMAIN change.accounts
     THEN [info |-> change.accounts[a], storage_root |-> StorageAfter(world, change, a)]
     ELSE world[a]]
=============================================================================
