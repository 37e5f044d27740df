------------------------ MODULE GuestPipelineProofs -------------------------
(*****************************************************************************)
(* What holds of GuestPipeline for every set of addresses, slots and values, *)
(* every state a block may start from and every change it may make; first,   *)
(* what the operators of EthereumState return.                               *)
(*****************************************************************************)
EXTENDS GuestPipeline, TLAPS

-----------------------------------------------------------------------------
\* Partial functions.

\* The two ways to say that a function is partial agree.
LEMMA PartialIs ==
  ASSUME NEW A, NEW B, NEW f
  PROVE  f \in Partial(A, B) <=> IsPartial(f, A, B)
<1>1. ASSUME f \in Partial(A, B) PROVE IsPartial(f, A, B)
  <2>1. PICK keys \in SUBSET A: f \in [keys -> B]
    BY <1>1 DEF Partial
  <2> QED
    BY <2>1 DEF IsPartial
<1>2. ASSUME IsPartial(f, A, B) PROVE f \in Partial(A, B)
  BY <1>2 DEF Partial, IsPartial
<1> QED
  BY <1>1, <1>2

\* The values of a partial function.
LEMMA PartialValue ==
  ASSUME NEW A, NEW B, NEW f, IsPartial(f, A, B), NEW a \in DOMAIN f
  PROVE  a \in A /\ f[a] \in B
BY DEF IsPartial

\* Functions with one domain and the same values are the same.
LEMMA PartialEqual ==
  ASSUME NEW A, NEW B, NEW f, IsPartial(f, A, B), NEW g, IsPartial(g, A, B),
         DOMAIN f = DOMAIN g, \A x \in DOMAIN f: f[x] = g[x]
  PROVE  f = g
<1>1. f = [x \in DOMAIN f |-> f[x]] /\ g = [x \in DOMAIN f |-> g[x]]
  BY DEF IsPartial
<1> QED
  BY <1>1

-----------------------------------------------------------------------------
\* Storages.

\* No storage, and the trie of one.
LEMMA EmptyStorageType ==
  /\ DOMAIN EmptyStorage = {}
  /\ EmptyStorage \in Storages
  /\ IsPartial(EmptyStorage, Slots, Words)
  /\ DefaultTrie \in StorageTries
<1>1. DOMAIN EmptyStorage = {} /\ IsPartial(EmptyStorage, Slots, Words)
  BY DEF EmptyStorage, IsPartial
<1>2. EmptyStorage \in Storages
  BY <1>1, PartialIs DEF Storages
<1> QED
  BY <1>1, <1>2 DEF DefaultTrie, StorageTries

\* A storage that nothing is in is EmptyStorage.
LEMMA NothingIsEmpty ==
  ASSUME NEW content \in Storages, DOMAIN content = {}
  PROVE  content = EmptyStorage
<1>1. IsPartial(content, Slots, Words)
  BY PartialIs DEF Storages
<1> QED
  BY <1>1, EmptyStorageType, PartialEqual

\* A storage change has slots, and says whether to wipe.
LEMMA HashedStorageType ==
  ASSUME NEW storage \in HashedStorages
  PROVE  storage.wiped \in BOOLEAN /\ IsPartial(storage.slots, Slots, Words \cup {Zero})
BY PartialIs DEF HashedStorages

\* What a slot is worth in a storage.
Worth(content, s) == IF s \in DOMAIN content THEN content[s] ELSE Zero

\* A changed storage is a storage, and each slot is worth what the change says, or
\* what it was worth before, or nothing if the storage is wiped.
LEMMA AppliedWorth ==
  ASSUME NEW content \in Storages, NEW storage \in HashedStorages
  PROVE  /\ Applied(content, storage) \in Storages
         /\ \A s \in Slots:
              Worth(Applied(content, storage), s) =
                IF s \in DOMAIN storage.slots THEN storage.slots[s]
                ELSE IF storage.wiped THEN Zero ELSE Worth(content, s)
<1> DEFINE base == IF storage.wiped THEN EmptyStorage ELSE content
           kept == (DOMAIN base \ DOMAIN storage.slots)
                   \cup {s \in DOMAIN storage.slots: storage.slots[s] # Zero}
           f == [s \in kept |-> IF s \in DOMAIN storage.slots THEN storage.slots[s] ELSE base[s]]
<1>1. Applied(content, storage) = f
  BY DEF Applied
<1>2. IsPartial(storage.slots, Slots, Words \cup {Zero}) /\ storage.wiped \in BOOLEAN
  BY HashedStorageType
<1>3. IsPartial(base, Slots, Words)
  BY PartialIs, EmptyStorageType DEF Storages
<1>4. Zero \notin Words
  BY EthereumStateAssumption
<1>5. DOMAIN f = kept
  OBVIOUS
<1>6. \A s \in DOMAIN base: s \in Slots /\ base[s] \in Words
  BY <1>3, PartialValue
<1>7. \A s \in DOMAIN storage.slots: s \in Slots /\ storage.slots[s] \in Words \cup {Zero}
  BY <1>2, PartialValue
<1>8. \A s \in kept: s \in Slots /\ f[s] \in Words
  BY <1>6, <1>7
<1>9. IsPartial(f, Slots, Words)
  BY <1>5, <1>8 DEF IsPartial
<1>10. f \in Storages
  BY <1>9, PartialIs DEF Storages
<1>11. ASSUME NEW s \in Slots
       PROVE Worth(f, s) = IF s \in DOMAIN storage.slots THEN storage.slots[s]
                           ELSE IF storage.wiped THEN Zero ELSE Worth(content, s)
  <2>1. CASE s \in DOMAIN storage.slots
    <3>1. s \in DOMAIN f <=> storage.slots[s] # Zero
      BY <2>1, <1>5
    <3>2. s \in DOMAIN f => f[s] = storage.slots[s]
      BY <2>1, <1>5
    <3> QED
      BY <2>1, <3>1, <3>2 DEF Worth
  <2>2. CASE s \notin DOMAIN storage.slots
    <3>1. s \in DOMAIN f <=> s \in DOMAIN base
      BY <2>2, <1>5
    <3>2. s \in DOMAIN f => f[s] = base[s]
      BY <2>2, <1>5
    <3>3. Worth(f, s) = Worth(base, s)
      BY <3>1, <3>2 DEF Worth
    <3>4. Worth(EmptyStorage, s) = Zero
      BY EmptyStorageType DEF Worth
    <3> QED
      BY <2>2, <3>3, <3>4
  <2> QED
    BY <2>1, <2>2
<1> HIDE DEF f
<1> QED
  BY <1>1, <1>10, <1>11

\* Storages in which every slot is worth the same are the same.
LEMMA SameWorth ==
  ASSUME NEW c \in Storages, NEW d \in Storages, \A s \in Slots: Worth(c, s) = Worth(d, s)
  PROVE  c = d
<1>1. IsPartial(c, Slots, Words) /\ IsPartial(d, Slots, Words)
  BY PartialIs DEF Storages
<1>2. \A s \in DOMAIN c: s \in Slots /\ c[s] # Zero
  BY <1>1, PartialValue, EthereumStateAssumption
<1>3. \A s \in DOMAIN d: s \in Slots /\ d[s] # Zero
  BY <1>1, PartialValue, EthereumStateAssumption
<1>4. \A s \in Slots: (s \in DOMAIN c <=> s \in DOMAIN d) /\ (s \in DOMAIN c => c[s] = d[s])
  BY <1>2, <1>3 DEF Worth
<1>5. DOMAIN c = DOMAIN d
  BY <1>2, <1>3, <1>4
<1> QED
  BY <1>1, <1>2, <1>4, <1>5, PartialEqual

-----------------------------------------------------------------------------
\* The storage of an account in a world.

\* An account's storage in a world, none if it is not there.
StorageIn(pre, a) == IF a \in DOMAIN pre THEN pre[a].storage_root ELSE EmptyStorage

LEMMA StorageInType ==
  ASSUME NEW pre, IsWorld(pre), NEW a
  PROVE  StorageIn(pre, a) \in Storages
<1>1. a \in DOMAIN pre => pre[a] \in Accounts
  BY PartialValue DEF IsWorld
<1> QED
  BY <1>1, EmptyStorageType DEF StorageIn, Accounts

\* What the reference says a slot is worth after a change.
WorthAfter(pre, change, a, s) ==
  IF a \notin DOMAIN change.storages THEN Worth(StorageIn(pre, a), s)
  ELSE IF s \in DOMAIN change.storages[a].slots THEN change.storages[a].slots[s]
  ELSE IF change.storages[a].wiped THEN Zero ELSE Worth(StorageIn(pre, a), s)

\* The reference as a function of the slots that are worth something.
LEMMA StorageAfterIs ==
  ASSUME NEW pre, NEW change, NEW a
  PROVE  StorageAfter(pre, change, a) =
           [s \in {t \in Slots: WorthAfter(pre, change, a, t) # Zero} |->
              WorthAfter(pre, change, a, s)]
<1> DEFINE before(s) == IF a \in DOMAIN pre /\ s \in DOMAIN pre[a].storage_root
                        THEN pre[a].storage_root[s] ELSE Zero
           after(s)  == CASE a \notin DOMAIN change.storages -> before(s)
                          [] a \in DOMAIN change.storages /\ s \in DOMAIN change.storages[a].slots ->
                               change.storages[a].slots[s]
                          [] OTHER -> IF change.storages[a].wiped THEN Zero ELSE before(s)
<1>1. StorageAfter(pre, change, a) = [s \in {t \in Slots: after(t) # Zero} |-> after(s)]
  BY DEF StorageAfter
<1>2. ASSUME NEW s PROVE before(s) = Worth(StorageIn(pre, a), s)
  BY EmptyStorageType DEF StorageIn, Worth
<1>3. ASSUME NEW s PROVE after(s) = WorthAfter(pre, change, a, s)
  <2> HIDE DEF before
  <2>1. CASE a \notin DOMAIN change.storages
    BY <2>1, <1>2 DEF WorthAfter
  <2>2. CASE a \in DOMAIN change.storages /\ s \in DOMAIN change.storages[a].slots
    BY <2>2 DEF WorthAfter
  <2>3. CASE a \in DOMAIN change.storages /\ s \notin DOMAIN change.storages[a].slots
    BY <2>3, <1>2 DEF WorthAfter
  <2> QED
    BY <2>1, <2>2, <2>3
<1> HIDE DEF after
<1> QED
  BY <1>1, <1>3

\* What update makes of the storage the account had is what the reference says.
LEMMA AppliedIsStorageAfter ==
  ASSUME NEW pre, IsWorld(pre), NEW change, IsPostState(change), NEW a
  PROVE  /\ StorageAfter(pre, change, a) \in Storages
         /\ a \in DOMAIN change.storages =>
              Applied(StorageIn(pre, a), change.storages[a]) = StorageAfter(pre, change, a)
         /\ a \notin DOMAIN change.storages =>
              StorageIn(pre, a) = StorageAfter(pre, change, a)
<1> DEFINE before == StorageIn(pre, a)
           after  == StorageAfter(pre, change, a)
<1>1. before \in Storages
  BY StorageInType
<1>2. a \in DOMAIN change.storages => change.storages[a] \in HashedStorages
  BY PartialValue DEF IsPostState
<1>3. \A s \in Slots: Worth(before, s) \in Words \cup {Zero}
  <2>1. IsPartial(before, Slots, Words)
    BY <1>1, PartialIs DEF Storages
  <2> QED
    BY <2>1, PartialValue DEF Worth
<1>4. a \in DOMAIN change.storages => IsPartial(change.storages[a].slots, Slots, Words \cup {Zero})
  BY <1>2, HashedStorageType
<1>5. \A s \in Slots: WorthAfter(pre, change, a, s) \in Words \cup {Zero}
  BY <1>3, <1>4, PartialValue DEF WorthAfter
<1>6. IsPartial(after, Slots, Words)
  BY <1>5, StorageAfterIs DEF IsPartial
<1>7. after \in Storages
  BY <1>6, PartialIs DEF Storages
<1>8. ASSUME NEW s \in Slots PROVE Worth(after, s) = WorthAfter(pre, change, a, s)
  BY StorageAfterIs DEF Worth
<1>9. ASSUME a \in DOMAIN change.storages
      PROVE Applied(before, change.storages[a]) = after
  <2> DEFINE applied == Applied(before, change.storages[a])
  <2>1. applied \in Storages
    BY <1>1, <1>2, <1>9, AppliedWorth
  <2>2. \A s \in Slots: Worth(applied, s) = WorthAfter(pre, change, a, s)
    BY <1>1, <1>2, <1>9, AppliedWorth DEF WorthAfter
  <2> HIDE DEF applied, before, after
  <2>3. applied = after
    BY <2>1, <2>2, <1>7, <1>8, SameWorth
  <2> QED
    BY <2>3 DEF applied
<1>10. ASSUME a \notin DOMAIN change.storages PROVE before = after
  <2>1. \A s \in Slots: Worth(before, s) = WorthAfter(pre, change, a, s)
    BY <1>10 DEF WorthAfter
  <2> HIDE DEF before, after
  <2> QED
    BY <2>1, <1>1, <1>7, <1>8, SameWorth
<1> QED
  BY <1>7, <1>9, <1>10

-----------------------------------------------------------------------------
\* The steps.

\* The tries a state has are tries.
LEMMA TrieType ==
  ASSUME StateTypeOK, NEW a
  PROVE  Trie(a) \in StorageTries /\ Trie(a).content \in Storages /\ Trie(a).known \in SUBSET Slots
<1>1. a \in DOMAIN storage_tries => storage_tries[a] \in StorageTries
  BY PartialValue DEF StateTypeOK
<1>2. Trie(a) \in StorageTries
  BY <1>1, EmptyStorageType DEF Trie
<1> QED
  BY <1>2 DEF StorageTries

\* build_validated_tries gives tries.
LEMMA BuildType ==
  ASSUME StateTypeOK, NEW pre, IsWorld(pre), NEW keys, NEW knownAddresses \in SUBSET Addresses,
         NEW knownSlots \in SUBSET Slots, Build(pre, keys, knownAddresses, knownSlots),
         UNCHANGED <<siblings, post, new_storage_roots, updated>>
  PROVE  StateTypeOK'
<1>1. state_trie' = [content |-> pre, known |-> knownAddresses]
  BY DEF Build
<1>2. \A a \in Detected(pre, keys): a \in Addresses /\ pre[a] \in Accounts
  BY PartialValue DEF Detected, IsWorld
<1>3. storage_tries' = [a \in Detected(pre, keys) |->
                         [content |-> pre[a].storage_root, known |-> knownSlots]]
  BY DEF Build
<1>4. \A a \in Detected(pre, keys): storage_tries'[a] \in StorageTries
  BY <1>2, <1>3 DEF Accounts, StorageTries
<1>5. IsPartial(storage_tries', Addresses, StorageTries)
  BY <1>2, <1>3, <1>4 DEF IsPartial
<1> QED
  BY <1>1, <1>5 DEF StateTypeOK

\* What UpdateStorage does.
LEMMA UpdateStorageIs ==
  ASSUME StateTypeOK, NEW a \in Addresses, UpdateStorage(a)
  PROVE  /\ StateTypeOK'
         /\ a \in DOMAIN post.storages \ DOMAIN new_storage_roots
         /\ UNCHANGED <<state_trie, siblings, post, updated>>
         /\ DOMAIN new_storage_roots' = DOMAIN new_storage_roots \cup {a}
         /\ new_storage_roots'[a] = Applied(Trie(a).content, post.storages[a])
         /\ \A b \in DOMAIN new_storage_roots: new_storage_roots'[b] = new_storage_roots[b]
         /\ DOMAIN storage_tries' = DOMAIN storage_tries \cup {a}
         /\ storage_tries'[a].content = Applied(Trie(a).content, post.storages[a])
         /\ storage_tries'[a].known = Cleared(a).known
         /\ \A b \in DOMAIN storage_tries \ {a}: storage_tries'[b] = storage_tries[b]
<1> DEFINE content == Applied(Trie(a).content, post.storages[a])
           trie == [content |-> content, known |-> Cleared(a).known]
<1>1. /\ a \in DOMAIN post.storages \ DOMAIN new_storage_roots
      /\ UNCHANGED <<state_trie, siblings, post, updated>>
      /\ storage_tries' = Set(storage_tries, a, trie)
      /\ new_storage_roots' = Set(new_storage_roots, a, content)
  BY DEF UpdateStorage, NextStorage
<1>2. post.storages[a] \in HashedStorages
  BY <1>1, PartialValue DEF StateTypeOK, IsPostState
<1>3. content \in Storages
  BY <1>2, TrieType, AppliedWorth
<1>4. Cleared(a).known \in SUBSET Slots
  BY TrieType DEF Cleared, DefaultTrie
<1>5. trie \in StorageTries
  BY <1>3, <1>4 DEF StorageTries
<1>6. trie.content = content /\ trie.known = Cleared(a).known
  OBVIOUS
<1> HIDE DEF content, trie
<1>7. /\ IsPartial(storage_tries', Addresses, StorageTries)
      /\ DOMAIN storage_tries' = DOMAIN storage_tries \cup {a}
      /\ storage_tries'[a] = trie
      /\ \A b \in DOMAIN storage_tries \ {a}: storage_tries'[b] = storage_tries[b]
  BY <1>1, <1>5 DEF StateTypeOK, IsPartial, Set
<1>8. /\ IsPartial(new_storage_roots', Addresses, Storages)
      /\ DOMAIN new_storage_roots' = DOMAIN new_storage_roots \cup {a}
      /\ new_storage_roots'[a] = content
      /\ \A b \in DOMAIN new_storage_roots \ {a}: new_storage_roots'[b] = new_storage_roots[b]
  BY <1>1, <1>3 DEF StateTypeOK, IsPartial, Set
<1>9. StateTypeOK'
  BY <1>1, <1>7, <1>8 DEF StateTypeOK
<1> QED
  BY <1>1, <1>6, <1>7, <1>8, <1>9 DEF content

\* What InsertAccount does.
LEMMA InsertAccountIs ==
  ASSUME StateTypeOK, NEW a \in Addresses, InsertAccount(a)
  PROVE  /\ StateTypeOK'
         /\ UNCHANGED <<storage_tries, siblings, post, new_storage_roots>>
         /\ updated' = updated \cup {a}
         /\ state_trie'.known = state_trie.known
         /\ DOMAIN state_trie'.content = DOMAIN state_trie.content \cup {a}
         /\ state_trie'.content[a] = [info |-> post.accounts[a], storage_root |-> StorageRoot(a)]
         /\ \A b \in DOMAIN state_trie.content \ {a}: state_trie'.content[b] = state_trie.content[b]
<1> DEFINE account == [info |-> post.accounts[a], storage_root |-> StorageRoot(a)]
<1>1. /\ a \in DOMAIN post.accounts /\ ~Deletes(a)
      /\ state_trie' = [state_trie EXCEPT !.content = Set(@, a, account)]
      /\ updated' = updated \cup {a}
      /\ UNCHANGED <<storage_tries, siblings, post, new_storage_roots>>
  BY DEF InsertAccount, NextAccount
<1>2. post.accounts[a] \in Infos
  BY <1>1, PartialValue DEF StateTypeOK, IsPostState, Deletes
<1>3. StorageRoot(a) \in Storages
  BY TrieType, PartialValue DEF StateTypeOK, StorageRoot
<1>4. account \in Accounts
  BY <1>2, <1>3 DEF Accounts
<1>5. state_trie = [content |-> state_trie.content, known |-> state_trie.known]
  BY DEF StateTypeOK
<1>6. state_trie' = [content |-> Set(state_trie.content, a, account), known |-> state_trie.known]
  BY <1>1, <1>5
<1>7. state_trie'.content = Set(state_trie.content, a, account) /\ state_trie'.known = state_trie.known
  BY <1>6
<1> HIDE DEF account
<1>8. /\ IsWorld(state_trie'.content)
      /\ DOMAIN state_trie'.content = DOMAIN state_trie.content \cup {a}
      /\ state_trie'.content[a] = account
      /\ \A b \in DOMAIN state_trie.content \ {a}: state_trie'.content[b] = state_trie.content[b]
  BY <1>4, <1>7 DEF StateTypeOK, IsWorld, IsPartial, Set
<1>9. StateTypeOK'
  BY <1>1, <1>6, <1>7, <1>8 DEF StateTypeOK
<1> QED
  BY <1>1, <1>7, <1>8, <1>9 DEF account

\* What DeleteAccount does.
LEMMA DeleteAccountIs ==
  ASSUME StateTypeOK, NEW a \in Addresses, DeleteAccount(a)
  PROVE  /\ StateTypeOK'
         /\ UNCHANGED <<siblings, post, new_storage_roots>>
         /\ updated' = updated \cup {a}
         /\ state_trie'.known = state_trie.known
         /\ DOMAIN state_trie'.content = DOMAIN state_trie.content \ {a}
         /\ \A b \in DOMAIN state_trie.content \ {a}: state_trie'.content[b] = state_trie.content[b]
         /\ DOMAIN storage_tries' = DOMAIN storage_tries \ {a}
         /\ \A b \in DOMAIN storage_tries \ {a}: storage_tries'[b] = storage_tries[b]
<1>1. /\ state_trie' = [state_trie EXCEPT !.content = Unset(@, a)]
      /\ storage_tries' = Unset(storage_tries, a)
      /\ updated' = updated \cup {a}
      /\ UNCHANGED <<siblings, post, new_storage_roots>>
  BY DEF DeleteAccount
<1>2. state_trie = [content |-> state_trie.content, known |-> state_trie.known]
  BY DEF StateTypeOK
<1>3. state_trie' = [content |-> Unset(state_trie.content, a), known |-> state_trie.known]
  BY <1>1, <1>2
<1>4. state_trie'.content = Unset(state_trie.content, a) /\ state_trie'.known = state_trie.known
  BY <1>3
<1>5. /\ IsWorld(state_trie'.content)
      /\ DOMAIN state_trie'.content = DOMAIN state_trie.content \ {a}
      /\ \A b \in DOMAIN state_trie.content \ {a}: state_trie'.content[b] = state_trie.content[b]
  BY <1>4 DEF StateTypeOK, IsWorld, IsPartial, Unset
<1>6. /\ IsPartial(storage_tries', Addresses, StorageTries)
      /\ DOMAIN storage_tries' = DOMAIN storage_tries \ {a}
      /\ \A b \in DOMAIN storage_tries \ {a}: storage_tries'[b] = storage_tries[b]
  BY <1>1 DEF StateTypeOK, IsPartial, Unset
<1>7. StateTypeOK'
  BY <1>1, <1>3, <1>4, <1>5, <1>6 DEF StateTypeOK
<1> QED
  BY <1>1, <1>4, <1>5, <1>6, <1>7

-----------------------------------------------------------------------------
\* Where each route has not yet done what.
Ended3 == {"accepted", "rejected", "panicked"}
Walked == {"update"} \cup Ended3

Unbuilt ==
  <<route, phase>> \in
    {<<"zkvm", "recover">>, <<"zkvm", "build">>,
     <<"stateless", "recover">>, <<"stateless", "seal">>, <<"stateless", "consensus">>, <<"stateless", "build">>,
     <<"prototype", "seal">>, <<"prototype", "build">>}

Unsealed ==
  <<route, phase>> \in
    {<<"zkvm", "recover">>, <<"zkvm", "build">>, <<"zkvm", "seal">>,
     <<"stateless", "recover">>, <<"stateless", "seal">>,
     <<"prototype", "seal">>}

Unrecovered ==
  <<route, phase>> \in
    {<<"zkvm", "recover">>, <<"stateless", "recover">>,
     <<"prototype", "seal">>, <<"prototype", "build">>, <<"prototype", "recover">>}

Unjudged ==
  \/ route = "prototype"
  \/ <<route, phase>> \in
       {<<"zkvm", "recover">>, <<"zkvm", "build">>, <<"zkvm", "seal">>, <<"zkvm", "validate">>, <<"zkvm", "consensus">>,
        <<"stateless", "recover">>, <<"stateless", "seal">>, <<"stateless", "consensus">>}

\* The steps from one phase to the next, route by route.
Moves ==
  {<<"zkvm", "recover", "build">>, <<"zkvm", "build", "seal">>, <<"zkvm", "seal", "validate">>,
   <<"zkvm", "validate", "consensus">>, <<"zkvm", "consensus", "execute">>,
   <<"zkvm", "execute", "check">>, <<"zkvm", "check", "update">>,
   <<"stateless", "recover", "seal">>, <<"stateless", "seal", "consensus">>,
   <<"stateless", "consensus", "build">>, <<"stateless", "build", "execute">>,
   <<"stateless", "execute", "check">>, <<"stateless", "check", "update">>,
   <<"prototype", "seal", "build">>, <<"prototype", "build", "recover">>,
   <<"prototype", "recover", "execute">>,
   <<"prototype", "execute", "check">>, <<"prototype", "check", "update">>}

LEMMA GoIs ==
  ASSUME route \in Routes, NEW from, Go(from)
  PROVE  phase = from /\ <<route, phase, phase'>> \in Moves
BY DEF Go, Order, ZkvmOrder, StatelessOrder, PrototypeOrder, Routes, Moves

\* Each check is passed before the steps after it.
ChecksPassed ==
  phase \notin {"rejected", "panicked"} =>
    /\ Unsealed \/ block.connected
    /\ Unrecovered \/ ~BadTransactions
    /\ Unjudged \/ ~BadForConsensus
    /\ phase \in {"update", "accepted"} => block.validity # "bad_receipts"

\* Init has done nothing.
LEMMA InitChecks == Init => ChecksPassed
BY DEF Init, ChecksPassed, Unsealed, Unrecovered, Unjudged, Routes

\* A step to the next phase of the route passes the check of the phase it leaves.
LEMMA GoChecks ==
  ASSUME route \in Routes, ChecksPassed, NEW from, Go(from), UNCHANGED <<route, block>>,
         from = "seal" => block.connected,
         from = "recover" => ~BadTransactions,
         from = "consensus" => ~BadForConsensus,
         from = "check" => block.validity # "bad_receipts"
  PROVE  ChecksPassed'
<1>1. phase = from /\ <<route, phase, phase'>> \in Moves
  BY GoIs
<1>2. BadTransactions' = BadTransactions /\ BadForConsensus' = BadForConsensus
  BY DEF BadTransactions, BadForConsensus
<1> QED
  BY <1>1, <1>2 DEF Moves, ChecksPassed, Unsealed, Unrecovered, Unjudged

\* Every step passes the check of the phase it leaves.
LEMMA NextChecks == ASSUME route \in Routes, ChecksPassed, [Next]_vars PROVE ChecksPassed'
<1>1. CASE Recover \/ BuildState \/ SealHeaders \/ Validate \/ CheckConsensus \/ Execute
           \/ CheckPostExecution
  <2>1. PICK from \in Phase:
          /\ Go(from)
          /\ UNCHANGED <<route, block>>
          /\ from = "seal" => block.connected
          /\ from = "recover" => ~BadTransactions
          /\ from = "consensus" => ~BadForConsensus
          /\ from = "check" => block.validity # "bad_receipts"
    BY <1>1 DEF Recover, BuildState, SealHeaders, Validate, CheckConsensus, Execute,
                CheckPostExecution, Inputs, Phase
  <2> QED
    BY <2>1, GoChecks
<1>2. CASE RejectTransactions \/ BuildStatePanics \/ RejectHeaders \/ RejectConsensus
           \/ ExecutePanics \/ RejectReceipts \/ UpdateFails
  BY <1>2 DEF RejectTransactions, BuildStatePanics, RejectHeaders, RejectConsensus,
              ExecutePanics, RejectReceipts, UpdateFails, Fail, ChecksPassed
<1>3. CASE Update \/ CompareRoots
  <2>1. phase = "update" /\ phase' \in {"update", "accepted", "rejected"} /\ UNCHANGED <<route, block>>
    BY <1>3 DEF Update, CompareRoots, Inputs
  <2>2. BadTransactions' = BadTransactions /\ BadForConsensus' = BadForConsensus
    BY <2>1 DEF BadTransactions, BadForConsensus
  <2> QED
    BY <2>1, <2>2 DEF ChecksPassed, Unsealed, Unrecovered, Unjudged
<1>4. CASE Ended \/ UNCHANGED vars
  BY <1>4 DEF Ended, vars, ChecksPassed, Unsealed, Unrecovered, Unjudged, BadTransactions, BadForConsensus
<1> QED
  BY <1>1, <1>2, <1>3, <1>4 DEF Next

-----------------------------------------------------------------------------
\* The types.

\* What a run never changes.
InputsOK ==
  /\ world \in InitWorlds
  /\ block.post \in InitPosts
  /\ block.validity \in Validity

\* The step of a phase that leaves the state alone keeps its types.
LEMMA StateStays == StateTypeOK /\ UNCHANGED stateVars => StateTypeOK'
BY DEF StateTypeOK, stateVars

LEMMA InitTypeOK == Init => TypeOK /\ InputsOK
<1> SUFFICES ASSUME Init PROVE TypeOK /\ InputsOK
  OBVIOUS
<1> USE DEF Init
<1>1. IsWorld(world)
  BY GuestAssumption
<1>2. /\ IsPartial([a \in {} |-> None], Addresses, StorageTries)
      /\ IsPartial([a \in {} |-> None], Addresses, Storages)
      /\ IsPartial([a \in {} |-> None], Addresses, Accounts)
      /\ IsPartial([a \in {} |-> None], Addresses, HashedStorages)
      /\ IsPartial([a \in {} |-> None], Addresses, Infos \cup {None})
  BY DEF IsPartial
<1>3. IsPostState(post)
  BY <1>2 DEF IsPostState, NoPost
<1>4. StateTypeOK
  BY <1>2, <1>3 DEF StateTypeOK, IsWorld
<1>5. DOMAIN bytecodes \subseteq Codes
  OBVIOUS
<1>6. TypeOK
  BY <1>1, <1>4, <1>5 DEF TypeOK, Phase
<1> QED
  BY <1>6 DEF InputsOK

LEMMA NextTypeOK == ASSUME TypeOK, InputsOK, [Next]_vars PROVE TypeOK' /\ InputsOK'
<1> USE DEF TypeOK
<1>1. UNCHANGED <<route, world, block, witness>>
  BY DEF Next, vars, Inputs, Recover, RejectTransactions, BuildState, BuildStatePanics, SealHeaders,
         RejectHeaders, Validate, CheckConsensus, RejectConsensus, Execute, ExecutePanics,
         CheckPostExecution, RejectReceipts, Update, UpdateFails, CompareRoots, Ended
<1>2. InputsOK'
  BY <1>1 DEF InputsOK
<1>3. phase' \in Phase
  BY DEF Next, vars, Go, Fail, Phase, Recover, RejectTransactions, BuildState, BuildStatePanics,
         SealHeaders, RejectHeaders, Validate, CheckConsensus, RejectConsensus, Execute,
         ExecutePanics, CheckPostExecution, RejectReceipts, Update, UpdateFails, CompareRoots, Ended
<1>4. CASE UNCHANGED <<stateVars, bytecodes>>
  <2>1. StateTypeOK'
    BY <1>4, StateStays
  <2> QED
    BY <1>1, <1>2, <1>3, <1>4, <2>1
<1>5. CASE BuildState
  <2>1. witness.knownAddresses \in SUBSET Addresses /\ witness.knownSlots \in SUBSET Slots
        /\ witness.codes \in SUBSET Codes
    BY DEF WitnessSet
  <2>2. StateTypeOK'
    BY <1>5, <2>1, BuildType DEF BuildState
  <2>3. DOMAIN bytecodes' \subseteq Codes
    BY <1>5, <2>1 DEF BuildState, BuildMap
  <2> QED
    BY <1>1, <1>2, <1>3, <2>2, <2>3
<1>6. CASE Execute
  <2>1. IsPostState(post')
    BY <1>6, GuestAssumption DEF Execute, InputsOK
  <2>2. StateTypeOK'
    BY <1>6, <2>1 DEF Execute, StateTypeOK
  <2> QED
    BY <1>1, <1>2, <1>3, <1>6, <2>2 DEF Execute
<1>7. CASE Update
  <2>1. PICK a \in Addresses: UpdateStorage(a) \/ InsertAccount(a) \/ DeleteAccount(a)
    BY <1>7 DEF Update, UpdateStep
  <2>2. StateTypeOK'
    BY <2>1, UpdateStorageIs, InsertAccountIs, DeleteAccountIs
  <2> QED
    BY <1>1, <1>2, <1>3, <1>7, <2>2 DEF Update
<1> QED
  BY <1>4, <1>5, <1>6, <1>7 DEF Next, vars, stateVars, Recover, RejectTransactions, BuildStatePanics,
     SealHeaders, RejectHeaders, Validate, CheckConsensus, RejectConsensus, ExecutePanics,
     CheckPostExecution, RejectReceipts, UpdateFails, CompareRoots, Ended

-----------------------------------------------------------------------------
\* The state, from the tries that are built to the last account that is walked.

\* The storage the state has of an account, and what the block makes of it: of the
\* accounts of the witness keys the storage it had, of others none.
StorageSeen(a) ==
  IF a \in Detected(world, witness.keys) THEN world[a].storage_root ELSE EmptyStorage

StorageMade(a) ==
  IF a \in DOMAIN block.post.storages THEN Applied(StorageSeen(a), block.post.storages[a])
  ELSE StorageSeen(a)

Gone(a) ==
  \/ block.post.accounts[a] = None
  \/ block.post.accounts[a] = EmptyInfo /\ StorageMade(a) = EmptyStorage

\* Just built.
Fresh ==
  /\ witness.keys \subseteq witness.knownAddresses
  /\ state_trie = [content |-> world, known |-> witness.knownAddresses]
  /\ storage_tries = [a \in Detected(world, witness.keys) |->
                        [content |-> world[a].storage_root, known |-> witness.knownSlots]]
  /\ DOMAIN bytecodes = witness.codes

\* The walk over the storages, then the accounts.
StoragesWalked ==
  /\ DOMAIN new_storage_roots \subseteq DOMAIN block.post.storages
  /\ \A a \in DOMAIN new_storage_roots: new_storage_roots[a] = StorageMade(a)

AccountsWalked ==
  /\ updated \subseteq DOMAIN block.post.accounts \cap state_trie.known
  /\ updated # {} => DOMAIN new_storage_roots = DOMAIN block.post.storages
  /\ \A a \in Addresses \ updated:
       /\ a \in DOMAIN state_trie.content <=> a \in DOMAIN world
       /\ a \in DOMAIN world => state_trie.content[a] = world[a]
  /\ \A a \in updated:
       /\ a \in DOMAIN state_trie.content <=> ~Gone(a)
       /\ ~Gone(a) => state_trie.content[a] =
                        [info |-> block.post.accounts[a], storage_root |-> StorageMade(a)]

TriesWalked ==
  /\ \A a \in Addresses \ updated:
       Trie(a).content = IF a \in DOMAIN new_storage_roots THEN StorageMade(a) ELSE StorageSeen(a)
  /\ \A a \in DOMAIN storage_tries \ DOMAIN new_storage_roots:
       a \in Detected(world, witness.keys)
  /\ \A a \in DOMAIN storage_tries \cap updated:
       ~Gone(a) /\ storage_tries[a].content = StorageMade(a)
  /\ \A a \in DOMAIN storage_tries: storage_tries[a].known \in {witness.knownSlots, Slots}

Walk ==
  /\ witness.keys \subseteq witness.knownAddresses
  /\ state_trie.known = witness.knownAddresses
  /\ post = block.post
  /\ StoragesWalked
  /\ AccountsWalked
  /\ TriesWalked

\* How far the state is in each phase.
StateInv ==
  /\ Unbuilt => DOMAIN storage_tries = {}
  /\ phase \notin Walked => DOMAIN new_storage_roots = {} /\ updated = {}
  /\ phase \notin Walked /\ ~Unbuilt => Fresh
  /\ phase = "check" => post = block.post
  /\ phase \in {"update", "accepted"} => Walk
  /\ phase = "accepted" => UpdateDone /\ state_trie.content = block.state_root

\* Nothing is walked of a state just built.
LEMMA FreshWalk ==
  ASSUME TypeOK, Fresh, DOMAIN new_storage_roots = {}, updated = {}, post = block.post
  PROVE  Walk
<1>1. state_trie.content = world /\ state_trie.known = witness.knownAddresses
  BY DEF Fresh
<1>2. StoragesWalked
  BY DEF StoragesWalked
<1>3. AccountsWalked
  BY <1>1 DEF AccountsWalked
<1>4. \A a \in DOMAIN storage_tries:
        /\ a \in Detected(world, witness.keys)
        /\ storage_tries[a].content = world[a].storage_root
        /\ storage_tries[a].known = witness.knownSlots
  BY DEF Fresh
<1>5. DOMAIN storage_tries = Detected(world, witness.keys)
  BY DEF Fresh
<1>6. DefaultTrie.content = EmptyStorage
  BY DEF DefaultTrie
<1>7. \A a \in Addresses: Trie(a).content = StorageSeen(a)
  BY <1>4, <1>5, <1>6 DEF Trie, StorageSeen
<1>8. TriesWalked
  BY <1>4, <1>7 DEF TriesWalked
<1> QED
  BY <1>1, <1>2, <1>3, <1>8 DEF Walk, Fresh

\* A storage is walked.
LEMMA UpdateStorageWalk ==
  ASSUME TypeOK, Walk, NEW a \in Addresses, UpdateStorage(a), UNCHANGED <<world, block, witness>>
  PROVE  Walk'
<1>1. /\ a \in DOMAIN post.storages \ DOMAIN new_storage_roots
      /\ UNCHANGED <<state_trie, siblings, post, updated>>
      /\ DOMAIN new_storage_roots' = DOMAIN new_storage_roots \cup {a}
      /\ new_storage_roots'[a] = Applied(Trie(a).content, post.storages[a])
      /\ \A b \in DOMAIN new_storage_roots: new_storage_roots'[b] = new_storage_roots[b]
      /\ DOMAIN storage_tries' = DOMAIN storage_tries \cup {a}
      /\ storage_tries'[a].content = Applied(Trie(a).content, post.storages[a])
      /\ storage_tries'[a].known = Cleared(a).known
      /\ \A b \in DOMAIN storage_tries \ {a}: storage_tries'[b] = storage_tries[b]
  BY UpdateStorageIs DEF TypeOK
<1>2. updated = {}
  BY <1>1 DEF Walk, AccountsWalked
<1>3. \A b: StorageMade(b)' = StorageMade(b) /\ StorageSeen(b)' = StorageSeen(b) /\ (Gone(b)' <=> Gone(b))
  BY DEF StorageMade, StorageSeen, Gone
<1>4. Applied(Trie(a).content, post.storages[a]) = StorageMade(a)
  BY <1>1, <1>2 DEF Walk, TriesWalked, StorageMade
<1>5. StoragesWalked'
  BY <1>1, <1>3, <1>4 DEF Walk, StoragesWalked
<1>6. AccountsWalked'
  BY <1>1, <1>2, <1>3 DEF Walk, AccountsWalked
<1>7. \A b \in Addresses:
        Trie(b)'.content = IF b \in DOMAIN new_storage_roots' THEN StorageMade(b) ELSE StorageSeen(b)
  <2> SUFFICES ASSUME NEW b \in Addresses
               PROVE Trie(b)'.content = IF b \in DOMAIN new_storage_roots' THEN StorageMade(b)
                                        ELSE StorageSeen(b)
    OBVIOUS
  <2>1. CASE b = a
    BY <2>1, <1>1, <1>4 DEF Trie
  <2>2. CASE b # a
    <3>1. Trie(b)' = Trie(b)
      BY <2>2, <1>1 DEF Trie
    <3> QED
      BY <2>2, <3>1, <1>1, <1>2 DEF Walk, TriesWalked
  <2> QED
    BY <2>1, <2>2
<1>8. storage_tries'[a].known \in {witness.knownSlots, Slots}
  <2>1. Trie(a).known \in {witness.knownSlots, Slots} /\ DefaultTrie.known = Slots
    BY DEF Trie, DefaultTrie, Walk, TriesWalked
  <2> QED
    BY <2>1, <1>1 DEF Cleared
<1>9. TriesWalked'
  BY <1>1, <1>2, <1>3, <1>7, <1>8 DEF Walk, TriesWalked
<1> QED
  BY <1>1, <1>5, <1>6, <1>9 DEF Walk

\* The storage root an account is given.
LEMMA StorageRootIs ==
  ASSUME TypeOK, Walk, NEW a \in Addresses, NextAccount(a)
  PROVE  StorageRoot(a) = StorageMade(a) /\ (Deletes(a) <=> Gone(a)) /\ a \notin updated
         /\ a \in DOMAIN post.accounts /\ DOMAIN new_storage_roots = DOMAIN block.post.storages
<1>1. /\ DOMAIN new_storage_roots = DOMAIN block.post.storages
      /\ a \in DOMAIN post.accounts \ updated
      /\ post = block.post
  BY DEF NextAccount, Walk
<1>2. StorageRoot(a) = StorageMade(a)
  <2>1. CASE a \in DOMAIN new_storage_roots
    BY <2>1 DEF StorageRoot, Walk, StoragesWalked
  <2>2. CASE a \notin DOMAIN new_storage_roots
    BY <2>2, <1>1 DEF StorageRoot, StorageMade, Walk, TriesWalked
  <2> QED
    BY <2>1, <2>2
<1>3. Deletes(a) <=> Gone(a)
  BY <1>1, <1>2 DEF Deletes, Gone
<1> QED
  BY <1>1, <1>2, <1>3

\* An account is walked and stays.
LEMMA InsertAccountWalk ==
  ASSUME TypeOK, Walk, NEW a \in Addresses, InsertAccount(a), UNCHANGED <<world, block, witness>>
  PROVE  Walk'
<1>1. /\ UNCHANGED <<storage_tries, siblings, post, new_storage_roots>>
      /\ updated' = updated \cup {a}
      /\ state_trie'.known = state_trie.known
      /\ DOMAIN state_trie'.content = DOMAIN state_trie.content \cup {a}
      /\ state_trie'.content[a] = [info |-> post.accounts[a], storage_root |-> StorageRoot(a)]
      /\ \A b \in DOMAIN state_trie.content \ {a}: state_trie'.content[b] = state_trie.content[b]
  BY InsertAccountIs DEF TypeOK
<1>2. NextAccount(a) /\ ~Deletes(a) /\ a \in state_trie.known
  BY DEF InsertAccount
<1>3. StorageRoot(a) = StorageMade(a) /\ ~Gone(a) /\ a \notin updated
      /\ a \in DOMAIN post.accounts /\ DOMAIN new_storage_roots = DOMAIN block.post.storages
  BY <1>2, StorageRootIs
<1>4. \A b: StorageMade(b)' = StorageMade(b) /\ StorageSeen(b)' = StorageSeen(b) /\ (Gone(b)' <=> Gone(b))
            /\ Trie(b)' = Trie(b)
  BY <1>1 DEF StorageMade, StorageSeen, Gone, Trie
<1>5. StoragesWalked'
  BY <1>1, <1>4 DEF Walk, StoragesWalked
<1>6. AccountsWalked'
  <2>1. updated' \subseteq DOMAIN block.post.accounts \cap state_trie'.known
    BY <1>1, <1>2, <1>3 DEF Walk, AccountsWalked
  <2>2. \A b \in Addresses \ updated':
          /\ b \in DOMAIN state_trie'.content <=> b \in DOMAIN world
          /\ b \in DOMAIN world => state_trie'.content[b] = world[b]
    BY <1>1 DEF Walk, AccountsWalked
  <2>3. \A b \in updated':
          /\ b \in DOMAIN state_trie'.content <=> ~Gone(b)
          /\ ~Gone(b) => state_trie'.content[b] =
                           [info |-> block.post.accounts[b], storage_root |-> StorageMade(b)]
    <3> SUFFICES ASSUME NEW b \in updated'
                 PROVE  /\ b \in DOMAIN state_trie'.content <=> ~Gone(b)
                        /\ ~Gone(b) => state_trie'.content[b] =
                             [info |-> block.post.accounts[b], storage_root |-> StorageMade(b)]
      OBVIOUS
    <3>1. CASE b = a
      BY <3>1, <1>1, <1>3 DEF Walk
    <3>2. CASE b # a
      BY <3>2, <1>1 DEF Walk, AccountsWalked
    <3> QED
      BY <3>1, <3>2
  <2> QED
    BY <2>1, <2>2, <2>3, <1>1, <1>3, <1>4 DEF AccountsWalked
<1>7. TriesWalked'
  <2>1. a \in DOMAIN storage_tries => storage_tries[a].content = StorageMade(a)
    <3>1. Trie(a).content = StorageMade(a)
      BY <1>3 DEF Walk, TriesWalked, StorageMade
    <3> QED
      BY <3>1 DEF Trie
  <2> QED
    BY <2>1, <1>1, <1>3, <1>4 DEF Walk, TriesWalked
<1> QED
  BY <1>1, <1>5, <1>6, <1>7 DEF Walk

\* An account is walked and goes, with its storage trie.
LEMMA DeleteAccountWalk ==
  ASSUME TypeOK, Walk, NEW a \in Addresses, DeleteAccount(a), UNCHANGED <<world, block, witness>>
  PROVE  Walk'
<1>1. /\ UNCHANGED <<siblings, post, new_storage_roots>>
      /\ updated' = updated \cup {a}
      /\ state_trie'.known = state_trie.known
      /\ DOMAIN state_trie'.content = DOMAIN state_trie.content \ {a}
      /\ \A b \in DOMAIN state_trie.content \ {a}: state_trie'.content[b] = state_trie.content[b]
      /\ DOMAIN storage_tries' = DOMAIN storage_tries \ {a}
      /\ \A b \in DOMAIN storage_tries \ {a}: storage_tries'[b] = storage_tries[b]
  BY DeleteAccountIs DEF TypeOK
<1>2. NextAccount(a) /\ Deletes(a) /\ a \in state_trie.known
  BY DEF DeleteAccount
<1>3. Gone(a) /\ a \notin updated
      /\ a \in DOMAIN post.accounts /\ DOMAIN new_storage_roots = DOMAIN block.post.storages
  BY <1>2, StorageRootIs
<1>4. \A b: StorageMade(b)' = StorageMade(b) /\ StorageSeen(b)' = StorageSeen(b) /\ (Gone(b)' <=> Gone(b))
  BY <1>1 DEF StorageMade, StorageSeen, Gone
<1>5. StoragesWalked'
  BY <1>1, <1>4 DEF Walk, StoragesWalked
<1>6. AccountsWalked'
  <2>1. updated' \subseteq DOMAIN block.post.accounts \cap state_trie'.known
    BY <1>1, <1>2, <1>3 DEF Walk, AccountsWalked
  <2>2. \A b \in Addresses \ updated':
          /\ b \in DOMAIN state_trie'.content <=> b \in DOMAIN world
          /\ b \in DOMAIN world => state_trie'.content[b] = world[b]
    BY <1>1 DEF Walk, AccountsWalked
  <2>3. \A b \in updated':
          /\ b \in DOMAIN state_trie'.content <=> ~Gone(b)
          /\ ~Gone(b) => state_trie'.content[b] =
                           [info |-> block.post.accounts[b], storage_root |-> StorageMade(b)]
    BY <1>1, <1>3 DEF Walk, AccountsWalked
  <2> QED
    BY <2>1, <2>2, <2>3, <1>1, <1>3, <1>4 DEF AccountsWalked
<1>7. TriesWalked'
  <2>1. \A b \in Addresses \ updated': Trie(b)' = Trie(b)
    BY <1>1 DEF Trie
  <2> QED
    BY <2>1, <1>1, <1>3, <1>4 DEF Walk, TriesWalked
<1> QED
  BY <1>1, <1>5, <1>6, <1>7 DEF Walk

\* Nothing is built in the initial states.
LEMMA InitStateInv == Init => StateInv
<1> SUFFICES ASSUME Init PROVE StateInv
  OBVIOUS
<1>1. Unbuilt /\ phase \notin Walked \cup {"check"}
  BY DEF Init, Unbuilt, Routes, Walked, Ended3
<1>2. DOMAIN storage_tries = {} /\ DOMAIN new_storage_roots = {} /\ updated = {}
  BY DEF Init
<1> QED
  BY <1>1, <1>2 DEF StateInv, Walked, Ended3

\* What is said of the state stays true while nothing of it changes.
LEMMA StateKept ==
  ASSUME UNCHANGED <<stateVars, world, block, witness, bytecodes>>
  PROVE  Fresh' = Fresh /\ Walk' = Walk /\ UpdateDone' = UpdateDone
<1>1. \A b: StorageMade(b)' = StorageMade(b) /\ StorageSeen(b)' = StorageSeen(b) /\ (Gone(b)' <=> Gone(b))
            /\ Trie(b)' = Trie(b)
  BY DEF StorageMade, StorageSeen, Gone, Trie, stateVars
<1>2. Fresh' = Fresh /\ UpdateDone' = UpdateDone
  BY DEF Fresh, UpdateDone, stateVars
<1>3. StoragesWalked' = StoragesWalked /\ AccountsWalked' = AccountsWalked
  BY <1>1 DEF StoragesWalked, AccountsWalked, stateVars
<1>4. TriesWalked' = TriesWalked
  BY <1>1 DEF TriesWalked, stateVars
<1> QED
  BY <1>2, <1>3, <1>4 DEF Walk, stateVars

\* Every step leaves the state as far as the phase it leads to says.
LEMMA NextStateInv ==
  ASSUME TypeOK, TypeOK', StateInv, [Next]_vars
  PROVE  StateInv'
<1>1. UNCHANGED <<route, world, block, witness>>
  BY DEF Next, vars, Inputs, Recover, RejectTransactions, BuildState, BuildStatePanics, SealHeaders,
         RejectHeaders, Validate, CheckConsensus, RejectConsensus, Execute, ExecutePanics,
         CheckPostExecution, RejectReceipts, Update, UpdateFails, CompareRoots, Ended
<1>2. route \in Routes /\ phase \in Phase
  BY DEF TypeOK
<1>3. CASE Recover \/ SealHeaders \/ Validate \/ CheckConsensus
  <2>1. PICK from \in {"recover", "seal", "validate", "consensus"}: Go(from)
    BY <1>3 DEF Recover, SealHeaders, Validate, CheckConsensus
  <2>2. UNCHANGED <<stateVars, bytecodes>>
    BY <1>3 DEF Recover, SealHeaders, Validate, CheckConsensus
  <2>3. phase = from /\ <<route, phase, phase'>> \in Moves
    BY <2>1, <1>2, GoIs
  <2>4. phase \notin Walked /\ phase' \notin Walked \cup {"check"} /\ (Unbuilt' <=> Unbuilt)
    BY <2>3, <1>1 DEF Moves, Unbuilt, Walked, Ended3
  <2>5. Fresh' = Fresh
    BY <1>1, <2>2, StateKept
  <2> QED
    BY <2>2, <2>4, <2>5 DEF StateInv, stateVars, Walked, Ended3
<1>4. CASE BuildState
  <2>1. Go("build") /\ Build(world, witness.keys, witness.knownAddresses, witness.knownSlots)
        /\ bytecodes' = [c \in witness.codes |-> c] /\ UNCHANGED <<new_storage_roots, updated>>
    BY <1>4 DEF BuildState, BuildMap
  <2>2. phase = "build" /\ <<route, phase, phase'>> \in Moves
    BY <2>1, <1>2, GoIs
  <2>3. phase \notin Walked /\ phase' \notin Walked \cup {"check"} /\ ~Unbuilt'
    BY <2>2, <1>1 DEF Moves, Unbuilt, Walked, Ended3
  <2>4. Fresh'
    BY <2>1, <1>1 DEF Fresh, Build, Detected
  <2> QED
    BY <2>1, <2>3, <2>4 DEF StateInv, Walked, Ended3
<1>5. CASE Execute
  <2>1. Go("execute") /\ post' = block.post
        /\ UNCHANGED <<state_trie, storage_tries, new_storage_roots, updated, bytecodes>>
    BY <1>5 DEF Execute
  <2>2. phase = "execute" /\ <<route, phase, phase'>> \in Moves
    BY <2>1, <1>2, GoIs
  <2>3. phase' = "check" /\ ~Unbuilt /\ ~Unbuilt' /\ phase \notin Walked
    BY <2>2, <1>1 DEF Moves, Unbuilt, Walked, Ended3
  <2>4. Fresh'
    BY <2>1, <2>3, <1>1 DEF Fresh, StateInv, Detected
  <2> QED
    BY <2>1, <2>3, <2>4, <1>1 DEF StateInv, Walked, Ended3
<1>6. CASE RejectTransactions \/ BuildStatePanics \/ RejectHeaders \/ RejectConsensus
           \/ ExecutePanics \/ RejectReceipts \/ UpdateFails
  BY <1>6 DEF RejectTransactions, BuildStatePanics, RejectHeaders, RejectConsensus,
              ExecutePanics, RejectReceipts, UpdateFails, Fail, StateInv, Unbuilt, Walked, Ended3
<1>7. CASE Ended \/ UNCHANGED vars
  <2>1. UNCHANGED <<stateVars, bytecodes, phase>>
    BY <1>7 DEF Ended, vars
  <2>2. Fresh' = Fresh /\ Walk' = Walk /\ UpdateDone' = UpdateDone
    BY <1>1, <2>1, StateKept
  <2>3. Unbuilt' <=> Unbuilt
    BY <2>1, <1>1 DEF Unbuilt
  <2> QED
    BY <2>1, <2>2, <2>3, <1>1 DEF StateInv, stateVars
<1>8. CASE CheckPostExecution
  <2>1. Go("check") /\ UNCHANGED <<stateVars, bytecodes>>
    BY <1>8 DEF CheckPostExecution
  <2>2. phase = "check" /\ <<route, phase, phase'>> \in Moves
    BY <2>1, <1>2, GoIs
  <2>3. phase' = "update" /\ ~Unbuilt /\ ~Unbuilt' /\ phase \notin Walked
    BY <2>2, <1>1 DEF Moves, Unbuilt, Walked, Ended3
  <2>4. Walk
    BY <2>2, <2>3, FreshWalk DEF StateInv
  <2>5. Walk'
    BY <2>1, <2>4, <1>1, StateKept
  <2> QED
    BY <2>3, <2>5 DEF StateInv, Walked, Ended3
<1>9. CASE Update
  <2>1. phase = "update" /\ phase' = "update"
    BY <1>9 DEF Update
  <2>2. PICK a \in Addresses: UpdateStorage(a) \/ InsertAccount(a) \/ DeleteAccount(a)
    BY <1>9 DEF Update, UpdateStep
  <2>3. Walk
    BY <2>1 DEF StateInv
  <2>4. Walk'
    BY <2>2, <2>3, <1>1, UpdateStorageWalk, InsertAccountWalk, DeleteAccountWalk
  <2>5. ~Unbuilt'
    BY <2>1 DEF Unbuilt
  <2> QED
    BY <2>1, <2>4, <2>5 DEF StateInv, Walked, Ended3
<1>10. CASE CompareRoots
  <2>1. /\ phase = "update" /\ UpdateDone /\ UNCHANGED <<stateVars, bytecodes>>
        /\ phase' = IF state_trie.content = block.state_root THEN "accepted" ELSE "rejected"
    BY <1>10 DEF CompareRoots
  <2>2. Walk' /\ UpdateDone'
    BY <2>1, <1>1, StateKept DEF StateInv
  <2>3. phase' = "accepted" => state_trie'.content = block'.state_root
    BY <2>1, <1>1 DEF stateVars
  <2>4. ~Unbuilt'
    BY <2>1 DEF Unbuilt
  <2> QED
    BY <2>1, <2>2, <2>3, <2>4 DEF StateInv, Walked, Ended3
<1> QED
  BY <1>3, <1>4, <1>5, <1>6, <1>7, <1>8, <1>9, <1>10 DEF Next

-----------------------------------------------------------------------------
\* The theorems.

\* The inductive invariant.
Inv == TypeOK /\ InputsOK /\ ChecksPassed /\ StateInv

THEOREM Invariance == Spec => []Inv
<1>1. Init => Inv
  BY InitTypeOK, InitChecks, InitStateInv DEF Inv
<1>2. Inv /\ [Next]_vars => Inv'
  <2> SUFFICES ASSUME Inv, [Next]_vars PROVE Inv'
    OBVIOUS
  <2>1. TypeOK' /\ InputsOK'
    BY NextTypeOK DEF Inv
  <2>2. ChecksPassed'
    BY NextChecks DEF Inv, TypeOK
  <2>3. StateInv'
    BY <2>1, NextStateInv DEF Inv
  <2> QED
    BY <2>1, <2>2, <2>3 DEF Inv
<1> QED
  BY <1>1, <1>2, PTL DEF Spec

\* The variables have their types: the tries stay partial functions of addresses
\* and slots, with no slot that is worth zero.
THEOREM TypeCorrect == Spec => []TypeOK
BY Invariance, PTL DEF Inv

\* What the executor asks for is answered with the pre-state's value or not at all.
THEOREM ReadsPreState == Spec => []ReadsAreOfPreState
<1>1. Inv => ReadsAreOfPreState
  <2> SUFFICES ASSUME Inv, InGuest, NEW a \in Addresses
               PROVE  /\ ~AccountPanics(a) => Account(a) = IF a \in DOMAIN world THEN world[a] ELSE None
                      /\ \A s \in Slots: ~StoragePanics(a, s) =>
                           Storage(a, s) = IF a \in DOMAIN world /\ s \in DOMAIN world[a].storage_root
                                           THEN world[a].storage_root[s] ELSE Zero
    BY DEF ReadsAreOfPreState
  <2>1. phase \in {"execute", "check"} /\ ~Unbuilt /\ phase \notin Walked
    BY DEF InGuest, Unbuilt, Walked, Ended3
  <2>2. Fresh
    BY <2>1 DEF Inv, StateInv
  <2>3. state_trie.content = world
    BY <2>2 DEF Fresh
  <2>4. Account(a) = IF a \in DOMAIN world THEN world[a] ELSE None
    BY <2>3 DEF Account
  <2>5. ASSUME NEW s \in Slots, ~StoragePanics(a, s)
        PROVE Storage(a, s) = IF a \in DOMAIN world /\ s \in DOMAIN world[a].storage_root
                              THEN world[a].storage_root[s] ELSE Zero
    <3>1. CASE a \in DOMAIN storage_tries
      <4>1. a \in DOMAIN world /\ storage_tries[a].content = world[a].storage_root
        BY <2>2, <3>1 DEF Fresh, Detected
      <4> QED
        BY <3>1, <4>1 DEF Storage
    <3>2. CASE a \notin DOMAIN storage_tries
      <4>1. a \in DOMAIN world /\ world[a].storage_root = EmptyStorage
        BY <2>3, <2>5, <3>2 DEF StoragePanics
      <4> QED
        BY <3>2, <4>1, EmptyStorageType DEF Storage
    <3> QED
      BY <3>1, <3>2
  <2> QED
    BY <2>4, <2>5
<1> QED
  BY <1>1, Invariance, PTL

\* The storage tries agree with the storage roots in the state trie before update
\* and after it.
THEOREM MapsStayInSync == Spec => []MapsInSync
<1>1. Inv => MapsInSync
  <2> SUFFICES ASSUME Inv, phase \notin {"update", "rejected", "panicked"} \/ (phase = "update" /\ UpdateDone),
                      NEW a \in DOMAIN storage_tries
               PROVE  /\ a \in state_trie.known
                      /\ a \in DOMAIN state_trie.content
                      /\ state_trie.content[a].storage_root = storage_tries[a].content
    BY DEF MapsInSync, StorageTriesValid
  <2>1. a \in Addresses
    BY PartialValue DEF Inv, TypeOK, StateTypeOK
  <2>2. CASE phase \notin Walked
    <3>1. Fresh
      BY <2>2 DEF Inv, StateInv
    <3> QED
      BY <3>1 DEF Fresh, Detected
  <2>3. CASE phase \in {"update", "accepted"}
    <3>1. Walk /\ UpdateDone
      BY <2>3 DEF Inv, StateInv
    <3>2. updated = DOMAIN block.post.accounts /\ DOMAIN block.post.storages \subseteq updated
          /\ DOMAIN new_storage_roots = DOMAIN block.post.storages
      BY <3>1, GuestAssumption DEF Walk, UpdateDone, Inv, InputsOK
    <3>3. CASE a \in updated
      <4>1. ~Gone(a) /\ storage_tries[a].content = StorageMade(a)
        BY <3>1, <3>3 DEF Walk, TriesWalked
      <4>2. AccountsWalked
        BY <3>1 DEF Walk
      <4>3. a \in state_trie.known /\ a \in DOMAIN state_trie.content
        BY <3>3, <4>1, <4>2 DEF AccountsWalked
      <4>4. state_trie.content[a] = [info |-> block.post.accounts[a], storage_root |-> StorageMade(a)]
        BY <3>3, <4>1, <4>2 DEF AccountsWalked
      <4> QED
        BY <4>1, <4>3, <4>4
    <3>4. CASE a \notin updated
      <4>1. a \in Detected(world, witness.keys)
        BY <3>1, <3>2, <3>4 DEF Walk, TriesWalked
      <4>2. Trie(a).content = StorageSeen(a)
        BY <2>1, <3>1, <3>2, <3>4 DEF Walk, TriesWalked
      <4>3. storage_tries[a].content = world[a].storage_root
        BY <4>1, <4>2 DEF Trie, StorageSeen
      <4>4. a \in state_trie.known /\ a \in DOMAIN world
        BY <3>1, <4>1 DEF Walk, Detected
      <4> QED
        BY <2>1, <3>1, <3>4, <4>3, <4>4 DEF Walk, AccountsWalked
    <3> QED
      BY <3>3, <3>4
  <2> QED
    BY <2>2, <2>3 DEF Walked, Ended3
<1> QED
  BY <1>1, Invariance, PTL

-----------------------------------------------------------------------------
\* The end of the walk, with any witness.

\* The state as presented is a state with the accounts of the pre-state, and only
\* touched accounts differ in it.
LEMMA PresentedIs ==
  ASSUME IsWorld(world)
  PROVE  /\ IsWorld(Presented)
         /\ DOMAIN Presented = DOMAIN world
         /\ \A a \in DOMAIN world \ Touched: Presented[a] = world[a]
         /\ \A a \in DOMAIN world: a \in witness.keys => Presented[a] = world[a]
         /\ \A a \in Touched \cap DOMAIN world:
              a \notin witness.keys => Presented[a].storage_root = EmptyStorage
<1>1. Presented = [a \in DOMAIN world |->
                     IF a \in DOMAIN block.post.accounts \ witness.keys
                     THEN [world[a] EXCEPT !.storage_root = EmptyStorage] ELSE world[a]]
  BY DEF Presented, PresentedState
<1>2. \A a \in DOMAIN world: a \in Addresses /\ world[a] \in Accounts
  BY PartialValue DEF IsWorld
<1>3. \A a \in DOMAIN world:
        /\ [world[a] EXCEPT !.storage_root = EmptyStorage] \in Accounts
        /\ [world[a] EXCEPT !.storage_root = EmptyStorage].storage_root = EmptyStorage
  BY <1>2, EmptyStorageType DEF Accounts
<1>4. \A a \in DOMAIN world: Presented[a] \in Accounts
  BY <1>1, <1>2, <1>3
<1>5. IsWorld(Presented)
  BY <1>1, <1>2, <1>4 DEF IsWorld, IsPartial
<1> QED
  BY <1>1, <1>3, <1>5 DEF Touched

\* If the storages that matter are listed, the pre-state is what is presented.
LEMMA ListedIsPresented ==
  ASSUME IsWorld(world), StorageListed
  PROVE  Presented = world
<1>1. /\ IsWorld(Presented)
      /\ DOMAIN Presented = DOMAIN world
  BY PresentedIs
<1>2. ASSUME NEW a \in DOMAIN world, a \in DOMAIN block.post.accounts \ witness.keys
      PROVE  [world[a] EXCEPT !.storage_root = EmptyStorage] = world[a]
  <2>1. world[a].storage_root = EmptyStorage
    BY <1>2 DEF StorageListed, Touched
  <2>2. world[a] \in Accounts
    BY PartialValue DEF IsWorld
  <2> QED
    BY <2>1, <2>2 DEF Accounts
<1>3. \A a \in DOMAIN Presented: Presented[a] = world[a]
  BY <1>1, <1>2 DEF Presented, PresentedState
<1> QED
  BY <1>1, <1>3, PartialEqual DEF IsWorld

\* What the state makes of a storage is what the reference makes of the account's
\* storage as presented.
LEMMA MadeIsAfter ==
  ASSUME InputsOK, IsWorld(world), NEW a \in DOMAIN block.post.accounts
  PROVE  StorageMade(a) = StorageAfter(Presented, block.post, a)
<1>1. StorageSeen(a) = StorageIn(Presented, a)
  <2>1. CASE a \in DOMAIN world /\ a \in witness.keys
    BY <2>1, PresentedIs DEF StorageSeen, StorageIn, Detected
  <2>2. CASE a \in DOMAIN world /\ a \notin witness.keys
    BY <2>2, PresentedIs DEF StorageSeen, StorageIn, Detected, Touched
  <2>3. CASE a \notin DOMAIN world
    BY <2>3, PresentedIs DEF StorageSeen, StorageIn, Detected
  <2> QED
    BY <2>1, <2>2, <2>3
<1>2. IsPostState(block.post)
  BY GuestAssumption DEF InputsOK
<1>3. IsWorld(Presented)
  BY PresentedIs
<1> QED
  BY <1>1, <1>2, <1>3, AppliedIsStorageAfter DEF StorageMade

\* At the end of the walk the state trie is what the reference makes of it.
LEMMA WalkIsReference ==
  ASSUME InputsOK, TypeOK, Walk, UpdateDone
  PROVE  state_trie.content = WorldAfter(Presented, block.post)
<1> DEFINE content == state_trie.content
           survive == {b \in Addresses: SurvivesIn(Presented, block.post, b)}
           after(a) == IF a \in DOMAIN block.post.accounts
                       THEN [info |-> block.post.accounts[a],
                             storage_root |-> StorageAfter(Presented, block.post, a)]
                       ELSE Presented[a]
<1>1. /\ post = block.post /\ AccountsWalked
      /\ updated = DOMAIN block.post.accounts
      /\ DOMAIN block.post.accounts \subseteq Addresses
  BY DEF Walk, UpdateDone, TypeOK, StateTypeOK
<1>2. IsPartial(content, Addresses, Accounts) /\ IsPartial(world, Addresses, Accounts)
  BY DEF TypeOK, StateTypeOK, IsWorld
<1>3. /\ DOMAIN Presented = DOMAIN world
       /\ \A a \in DOMAIN world \ updated: Presented[a] = world[a]
  BY <1>1, PresentedIs DEF TypeOK, Touched
<1>4. \A a \in updated: StorageMade(a) = StorageAfter(Presented, block.post, a)
  BY <1>1, MadeIsAfter DEF TypeOK
<1>5. \A a \in updated: Gone(a) <=> ~SurvivesIn(Presented, block.post, a)
  BY <1>1, <1>4 DEF Gone, SurvivesIn
<1>6. \A a \in Addresses: a \in DOMAIN content <=> SurvivesIn(Presented, block.post, a)
  <2>1. \A a \in updated: a \in DOMAIN content <=> SurvivesIn(Presented, block.post, a)
    BY <1>1, <1>5 DEF AccountsWalked
  <2>2. \A a \in Addresses \ updated: a \in DOMAIN content <=> SurvivesIn(Presented, block.post, a)
    BY <1>1, <1>3 DEF AccountsWalked, SurvivesIn
  <2> QED
    BY <2>1, <2>2
<1>7. DOMAIN content = survive
  BY <1>2, <1>6 DEF IsPartial
<1>8. \A a \in DOMAIN content: content[a] = after(a)
  <2> SUFFICES ASSUME NEW a \in DOMAIN content PROVE content[a] = after(a)
    OBVIOUS
  <2>1. CASE a \in updated
    <3>1. content[a] = [info |-> block.post.accounts[a], storage_root |-> StorageMade(a)]
      BY <2>1, <1>1 DEF AccountsWalked
    <3> QED
      BY <2>1, <3>1, <1>1, <1>4
  <2>2. CASE a \notin updated
    <3>1. a \in Addresses \ updated /\ a \in DOMAIN world
      BY <2>2, <1>1, <1>2, PartialValue DEF AccountsWalked
    <3>2. content[a] = world[a]
      BY <3>1, <1>1 DEF AccountsWalked
    <3>3. Presented[a] = world[a]
      BY <2>2, <3>1, <1>3
    <3> QED
      BY <2>2, <3>2, <3>3, <1>1
  <2> QED
    BY <2>1, <2>2
<1>9. content = [a \in DOMAIN content |-> content[a]]
  BY <1>2 DEF IsPartial
<1>10. WorldAfter(Presented, block.post) = [a \in survive |-> after(a)]
  BY DEF WorldAfter
<1> HIDE DEF content, survive, after
<1>11. content = WorldAfter(Presented, block.post)
  BY <1>7, <1>8, <1>9, <1>10
<1> QED
  BY <1>11 DEF content

\* update makes of the state as presented what the reference makes of it, and of the
\* pre-state if the touched accounts with storage are listed.
THEOREM UpdateImplementsReference == Spec => []UpdateIsReference
<1>1. Inv => UpdateIsReference
  <2> SUFFICES ASSUME Inv, phase = "update", UpdateDone
               PROVE  /\ state_trie.content = WorldAfter(Presented, post)
                      /\ StorageListed => state_trie.content = WorldAfter(world, post)
    BY DEF UpdateIsReference
  <2>1. Walk /\ post = block.post
    BY DEF Inv, StateInv, Walk
  <2>2. state_trie.content = WorldAfter(Presented, post)
    BY <2>1, WalkIsReference DEF Inv
  <2>3. StorageListed => Presented = world
    BY ListedIsPresented DEF Inv, TypeOK
  <2> QED
    BY <2>2, <2>3
<1> QED
  BY <1>1, Invariance, PTL

\* What the end of a route says of the block, whatever witness it came with.
THEOREM Soundness == Spec => []AcceptedOnlyIfValid
<1>1. Inv => AcceptedOnlyIfValid
  <2> SUFFICES ASSUME Inv, phase = "accepted"
               PROVE  /\ block.connected
                      /\ block.validity = "valid" \/ (block.validity = "bad_header" /\ route = "prototype")
                      /\ block.state_root = WorldAfter(Presented, block.post)
                      /\ StorageListed => block.state_root = WorldAfter(world, block.post)
    BY DEF AcceptedOnlyIfValid
  <2>1. /\ Unsealed \/ block.connected
        /\ Unrecovered \/ ~BadTransactions
        /\ Unjudged \/ ~BadForConsensus
        /\ block.validity # "bad_receipts"
    BY DEF Inv, ChecksPassed
  <2>2. ~Unsealed /\ ~Unrecovered /\ (Unjudged => route = "prototype")
    BY DEF Unsealed, Unrecovered, Unjudged
  <2>3. block.validity \in Validity
    BY DEF Inv, InputsOK
  <2>4. block.validity = "valid" \/ (block.validity = "bad_header" /\ route = "prototype")
    BY <2>1, <2>2, <2>3 DEF BadTransactions, BadForConsensus, Validity
  <2>5. Walk /\ UpdateDone /\ state_trie.content = block.state_root
    BY DEF Inv, StateInv
  <2>6. block.state_root = WorldAfter(Presented, block.post)
    BY <2>5, WalkIsReference DEF Inv
  <2>7. StorageListed => Presented = world
    BY ListedIsPresented DEF Inv, TypeOK
  <2> QED
    BY <2>1, <2>2, <2>4, <2>6, <2>7
<1> QED
  BY <1>1, Invariance, PTL

\* A block and a witness with which nothing can fail.
Blameless == ValidBlock /\ NodesComplete /\ StorageListed

\* Executing such a block reads nothing that is not there.
LEMMA NothingMissing ==
  ASSUME Inv, Blameless, Fresh
  PROVE  ReadsAnswered
<1>1. \A a \in Touched: ~AccountPanics(a)
  BY DEF Blameless, NodesComplete, Fresh, AccountPanics
<1>2. ASSUME NEW a \in DOMAIN block.post.storages \cap DOMAIN world,
             NEW s \in DOMAIN block.post.storages[a].slots
      PROVE  ~StoragePanics(a, s)
  <2>1. a \in Touched
    BY GuestAssumption DEF Touched, Inv, InputsOK
  <2>2. a \in witness.keys \/ world[a].storage_root = EmptyStorage
    BY <2>1 DEF Blameless, StorageListed
  <2>3. CASE a \in DOMAIN storage_tries
    <3>1. storage_tries[a].known = witness.knownSlots
      BY <2>3 DEF Fresh
    <3>2. s \in witness.knownSlots
      BY DEF Blameless, NodesComplete
    <3> QED
      BY <2>3, <3>1, <3>2 DEF StoragePanics
  <2>4. CASE a \notin DOMAIN storage_tries
    <3>1. world[a].storage_root = EmptyStorage
      BY <2>2, <2>4 DEF Fresh, Detected
    <3>2. state_trie.content = world
      BY DEF Fresh
    <3> QED
      BY <2>1, <2>4, <3>1, <3>2, <1>1 DEF StoragePanics
  <2> QED
    BY <2>3, <2>4
<1>3. \A r \in SlotReads: ~StoragePanics(r[1], r[2])
  BY <1>2 DEF SlotReads
<1>4. block.codes \subseteq DOMAIN bytecodes
  BY DEF Blameless, NodesComplete, Fresh
<1> QED
  BY <1>1, <1>3, <1>4 DEF ReadsAnswered, CodesAnswered

\* Updating with its changes touches nothing that is not there.
LEMMA UpdateNeverPanics ==
  ASSUME Inv, Blameless, Walk
  PROVE  ~UpdatePanics
<1> SUFFICES ASSUME NEW a \in Addresses, UpdateStoragePanics(a) \/ UpdateAccountPanics(a) PROVE FALSE
  BY DEF UpdatePanics
<1>1. siblings /\ post = block.post
  BY DEF Blameless, NodesComplete, Walk
<1>2. CASE UpdateStoragePanics(a)
  <2>1. a \in DOMAIN post.storages /\ ~(DOMAIN post.storages[a].slots \subseteq Cleared(a).known)
    BY <1>1, <1>2 DEF UpdateStoragePanics, NextStorage, MayCollapse
  <2>2. Cleared(a).known \in {witness.knownSlots, Slots}
    BY DEF Cleared, Trie, DefaultTrie, Walk, TriesWalked
  <2>3. DOMAIN post.storages[a].slots \subseteq witness.knownSlots
    BY <1>1, <2>1 DEF Blameless, NodesComplete
  <2>4. post.storages[a] \in HashedStorages
    BY <2>1, PartialValue DEF Inv, TypeOK, StateTypeOK, IsPostState
  <2>5. DOMAIN post.storages[a].slots \subseteq Slots
    BY <2>4, HashedStorageType DEF IsPartial
  <2> QED
    BY <2>1, <2>2, <2>3, <2>5
<1>3. CASE UpdateAccountPanics(a)
  <2>1. a \in DOMAIN post.accounts /\ a \notin state_trie.known
    BY <1>1, <1>3 DEF UpdateAccountPanics, NextAccount, MayCollapse
  <2>2. a \in witness.knownAddresses
    BY <1>1, <2>1 DEF Blameless, NodesComplete, Touched
  <2> QED
    BY <2>1, <2>2 DEF Walk
<1> QED
  BY <1>2, <1>3

\* A valid block is never refused with a witness that has every node and code and
\* lists the touched accounts with storage.
THEOREM Completeness == Spec => []ValidBlockAccepted
<1>1. Init => ValidBlockAccepted
  BY DEF Init, ValidBlockAccepted
<1>2. Inv /\ ValidBlockAccepted /\ [Next]_vars => ValidBlockAccepted'
  <2> SUFFICES ASSUME Inv, ValidBlockAccepted, [Next]_vars, Blameless'
               PROVE  phase' \notin {"rejected", "panicked"}
    BY DEF ValidBlockAccepted, Blameless
  <2>1. UNCHANGED <<route, world, block, witness, siblings>>
    BY DEF Next, vars, Inputs, stateVars, Recover, RejectTransactions, BuildState, BuildStatePanics,
           SealHeaders, RejectHeaders, Validate, CheckConsensus, RejectConsensus, Execute,
           ExecutePanics, CheckPostExecution, RejectReceipts, Update, UpdateStep, UpdateStorage,
           InsertAccount, DeleteAccount, UpdateFails, CompareRoots, Ended
  <2>2. Blameless
    BY <2>1 DEF Blameless, ValidBlock, NodesComplete, StorageListed, Touched
  <2>3. phase \notin {"rejected", "panicked"}
    BY <2>2 DEF ValidBlockAccepted, Blameless
  <2>4. route \in Routes
    BY DEF Inv, TypeOK
  <2>5. CASE Recover \/ BuildState \/ SealHeaders \/ Validate \/ CheckConsensus \/ Execute
             \/ CheckPostExecution
    <3>1. PICK from: Go(from)
      BY <2>5 DEF Recover, BuildState, SealHeaders, Validate, CheckConsensus, Execute, CheckPostExecution
    <3>2. <<route, phase, phase'>> \in Moves
      BY <3>1, <2>4, GoIs
    <3> QED
      BY <3>2 DEF Moves
  <2>6. ~(RejectTransactions \/ RejectHeaders \/ RejectConsensus \/ RejectReceipts)
    BY <2>2 DEF RejectTransactions, RejectHeaders, RejectConsensus, RejectReceipts, BadTransactions,
                BadForConsensus, Blameless, ValidBlock
  <2>7. ~BuildStatePanics
    BY <2>2 DEF BuildStatePanics, BuildPanics, Blameless, NodesComplete
  <2>8. ~ExecutePanics
    <3> SUFFICES ASSUME phase = "execute" PROVE ReadsAnswered
      BY DEF ExecutePanics, Fail
    <3>1. ~Unbuilt /\ phase \notin Walked
      BY DEF Unbuilt, Walked, Ended3
    <3>2. Fresh
      BY <3>1 DEF Inv, StateInv
    <3> QED
      BY <3>2, <2>2, NothingMissing
  <2>9. ~UpdateFails
    BY <2>2, UpdateNeverPanics DEF UpdateFails, Fail, Inv, StateInv
  <2>10. CASE Update \/ Ended \/ UNCHANGED vars
    BY <2>10, <2>3 DEF Update, Ended, vars
  <2>11. CASE CompareRoots
    <3>1. phase = "update" /\ UpdateDone
      BY <2>11 DEF CompareRoots
    <3>2. state_trie.content = WorldAfter(Presented, block.post)
      BY <3>1, WalkIsReference DEF Inv, StateInv
    <3>3. Presented = world
      BY <2>2, ListedIsPresented DEF Inv, TypeOK, Blameless
    <3> QED
      BY <3>2, <3>3, <2>2, <2>11 DEF CompareRoots, Blameless, ValidBlock
  <2> QED
    BY <2>5, <2>6, <2>7, <2>8, <2>9, <2>10, <2>11 DEF Next
<1> QED
  BY <1>1, <1>2, Invariance, PTL DEF Spec

=============================================================================
