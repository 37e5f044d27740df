---------------------------- MODULE GuestPipeline ----------------------------
(***************************************************************************)
(* From the data of an RPC node to an accepted block, over EthereumState,   *)
(* by each of the three routes of the code:                                 *)
(*   "zkvm"       the host builds the input (ZkvmInput, core/src/input.rs)  *)
(*                and the guest checks it in fourteen steps                 *)
(*                (guest_handler, zkvm-common-guest/src/lib.rs);            *)
(*   "stateless"  the guest builds the state itself, driven by the external *)
(*                reth_stateless (guest_alt_handler, StatelessTrie);        *)
(*   "prototype"  no guest (execute_block, prototype/src/lib.rs, and        *)
(*                TrieDB::from_execution_witness, core/src/triedb.rs).      *)
(*                                                                         *)
(* The headers are those of HeaderChain: here they are connected or not.    *)
(* The executor is external: it reads what the block touches and gives a    *)
(* post-state, or ends at the first read that panics.                       *)
(***************************************************************************)
EXTENDS EthereumState

CONSTANTS
  Codes,        \* bytecodes, each its own hash
  InitWorlds,   \* bound: the states a block may start from
  InitPosts     \* bound: the changes it may make

ASSUME GuestAssumption ==
  /\ \A w \in InitWorlds: IsWorld(w)
  /\ \A p \in InitPosts: IsPostState(p)
  \* from_bundle_state: storage changes only of accounts that changed.
  /\ \A p \in InitPosts: DOMAIN p.storages \subseteq DOMAIN p.accounts

VARIABLES
  route,     \* which of the three
  world,     \* the state headers.first() commits to
  block,     \* [post, codes, state_root, validity, connected]
  witness,   \* [keys, knownAddresses, knownSlots, codes]
  bytecodes, \* bytecode_by_hash
  phase      \* what comes next, or how it ended

vars == <<stateVars, route, world, block, witness, bytecodes, phase>>

Routes   == {"zkvm", "stateless", "prototype"}
Validity == {"valid", "no_transactions", "bad_signature", "bad_header", "bad_receipts"}
Phase    == {"recover", "build", "seal", "validate", "consensus", "execute", "check", "update",
             "accepted", "rejected", "panicked"}

\* What follows what on each route.
ZkvmOrder ==
  {<<"recover", "build">>, <<"build", "seal">>, <<"seal", "validate">>, <<"validate", "consensus">>,
   <<"consensus", "execute">>, <<"execute", "check">>, <<"check", "update">>}

StatelessOrder ==
  {<<"recover", "seal">>, <<"seal", "consensus">>, <<"consensus", "build">>, <<"build", "execute">>,
   <<"execute", "check">>, <<"check", "update">>}

PrototypeOrder ==
  {<<"seal", "build">>, <<"build", "recover">>, <<"recover", "execute">>, <<"execute", "check">>,
   <<"check", "update">>}

Order ==
  CASE route = "zkvm"      -> ZkvmOrder
    [] route = "stateless" -> StatelessOrder
    [] route = "prototype" -> PrototypeOrder

\* What executing the block reads of the state: the accounts it changes, and the
\* old value of the slots it changes, unless the account is new.
Touched == DOMAIN block.post.accounts
SlotReads ==
  UNION {{<<a, s>>: s \in DOMAIN block.post.storages[a].slots}:
          a \in DOMAIN block.post.storages \cap DOMAIN world}

\* A state as update is given it: without the storage of the accounts it changes
\* and has no trie for, as no key of the witness lists them.
PresentedState(pre, change, keys) ==
  [a \in DOMAIN pre |->
     IF a \in DOMAIN change.accounts \ keys THEN [pre[a] EXCEPT !.storage_root = EmptyStorage]
     ELSE pre[a]]

NoPost == [storages |-> [a \in {} |-> None], accounts |-> [a \in {} |-> None]]

WitnessSet ==
  [keys: SUBSET Addresses, knownAddresses: SUBSET Addresses, knownSlots: SUBSET Slots,
   codes: SUBSET Codes]

\* The roots a header may commit to: the old one, the right one, and the one that
\* update comes to if the witness keeps a storage back.
ClaimedRoots(pre, change, keys) ==
  {pre, WorldAfter(pre, change), WorldAfter(PresentedState(pre, change, keys), change)}

Init ==
  /\ route \in Routes
  /\ world \in InitWorlds
  /\ witness \in WitnessSet
  /\ \E change \in InitPosts:
       block \in [post: {change}, codes: SUBSET Codes,
                 state_root: ClaimedRoots(world, change, witness.keys),
                 validity: Validity,
                 connected: BOOLEAN]
  /\ siblings \in BOOLEAN
  /\ state_trie = [content |-> [a \in {} |-> None], known |-> {}]
  /\ storage_tries = [a \in {} |-> None]
  /\ post = NoPost
  /\ new_storage_roots = [a \in {} |-> None]
  /\ updated = {}
  /\ bytecodes = [c \in {} |-> None]
  /\ phase = IF route = "prototype" THEN "seal" ELSE "recover"

Inputs == <<route, world, block, witness>>
Go(from) ==
  /\ phase = from
  /\ phase' \in {to \in Phase: <<from, to>> \in Order}
Fail(from, how) == phase = from /\ phase' = how

\* The signer of every transaction, recovered from its signature: on the host for
\* "zkvm", whose guest only verifies (step 9).
BadTransactions ==
  \/ block.validity = "bad_signature"
  \/ block.validity = "no_transactions" /\ route = "prototype"  \* is_full

Recover ==
  /\ Go("recover") /\ ~BadTransactions
  /\ UNCHANGED <<Inputs, stateVars, bytecodes>>

RejectTransactions ==
  /\ Fail("recover", "rejected") /\ BadTransactions
  /\ UNCHANGED <<Inputs, stateVars, bytecodes>>

\* Each bytecode of the witness by its hash, on all three routes.
BuildMap(codes) == [c \in codes |-> c]

\* On the host for "zkvm", in the guest for "stateless".
BuildState ==
  /\ Go("build")
  /\ Build(world, witness.keys, witness.knownAddresses, witness.knownSlots)
  /\ bytecodes' = BuildMap(witness.codes)
  /\ UNCHANGED <<Inputs, siblings, post, new_storage_roots, updated>>

BuildStatePanics ==
  /\ Fail("build", "panicked")
  /\ BuildPanics(witness.keys, witness.knownAddresses)
  /\ UNCHANGED <<Inputs, stateVars, bytecodes>>

\* Step 3.
SealHeaders ==
  /\ Go("seal") /\ block.connected
  /\ UNCHANGED <<Inputs, stateVars, bytecodes>>

RejectHeaders ==
  /\ Fail("seal", "rejected") /\ ~block.connected
  /\ UNCHANGED <<Inputs, stateVars, bytecodes>>

\* Steps 4 to 6.  They panic if a test fails, which no input of the host does:
\* it would be stuck here.
Validate ==
  /\ Go("validate")
  /\ StateTrieValid(world)
  /\ StorageTriesValid
  /\ \A h \in DOMAIN bytecodes: bytecodes[h] = h
  /\ UNCHANGED <<Inputs, stateVars, bytecodes>>

\* Steps 9 and 9.5: the header, alone and against its parent's, and the roots of
\* the body.  The prototype has no such step.
BadForConsensus == block.validity \in {"bad_header", "no_transactions"}

\* The guest of "zkvm" verifies each signature with the signer it was given.
HintVerifies == route = "zkvm" => block.validity # "bad_signature"

CheckConsensus ==
  /\ Go("consensus") /\ HintVerifies /\ ~BadForConsensus
  /\ UNCHANGED <<Inputs, stateVars, bytecodes>>

RejectConsensus ==
  /\ Fail("consensus", "rejected") /\ BadForConsensus
  /\ UNCHANGED <<Inputs, stateVars, bytecodes>>

CodesAnswered == block.codes \subseteq DOMAIN bytecodes

ReadsAnswered ==
  /\ \A a \in Touched: ~AccountPanics(a)
  /\ \A r \in SlotReads: ~StoragePanics(r[1], r[2])
  /\ CodesAnswered

\* Steps 10 and 12.
Execute ==
  /\ Go("execute") /\ ReadsAnswered
  /\ post' = block.post
  /\ UNCHANGED <<Inputs, state_trie, storage_tries, siblings, new_storage_roots, updated, bytecodes>>

ExecutePanics ==
  /\ Fail("execute", "panicked") /\ ~ReadsAnswered
  /\ UNCHANGED <<Inputs, stateVars, bytecodes>>

\* Step 11.
CheckPostExecution ==
  /\ Go("check") /\ block.validity # "bad_receipts"
  /\ UNCHANGED <<Inputs, stateVars, bytecodes>>

RejectReceipts ==
  /\ Fail("check", "rejected") /\ block.validity = "bad_receipts"
  /\ UNCHANGED <<Inputs, stateVars, bytecodes>>

\* Step 13.
Update ==
  /\ phase = "update"
  /\ UpdateStep
  /\ UNCHANGED <<Inputs, bytecodes, phase>>

UpdateFails ==
  /\ Fail("update", "panicked")
  /\ UpdatePanics
  /\ UNCHANGED <<Inputs, stateVars, bytecodes>>

\* Step 14.
CompareRoots ==
  /\ phase = "update" /\ UpdateDone
  /\ phase' = IF state_trie.content = block.state_root THEN "accepted" ELSE "rejected"
  /\ UNCHANGED <<Inputs, stateVars, bytecodes>>

Ended == phase \in {"accepted", "rejected", "panicked"} /\ UNCHANGED vars

Next ==
  \/ Recover \/ RejectTransactions \/ BuildState \/ BuildStatePanics
  \/ SealHeaders \/ RejectHeaders \/ Validate \/ CheckConsensus \/ RejectConsensus
  \/ Execute \/ ExecutePanics \/ CheckPostExecution \/ RejectReceipts
  \/ Update \/ UpdateFails \/ CompareRoots
  \/ Ended

Spec == Init /\ [][Next]_vars

-----------------------------------------------------------------------------
TypeOK ==
  /\ StateTypeOK
  /\ route \in Routes
  /\ IsWorld(world)
  /\ witness \in WitnessSet
  /\ DOMAIN bytecodes \subseteq Codes
  /\ phase \in Phase

InGuest == phase \in {"execute", "check"}

\* While the block executes, whatever of the state it asks for is answered with
\* the pre-state's value or not at all, also for accounts and slots the witness
\* is not complete for.
ReadsAreOfPreState ==
  InGuest =>
    \A a \in Addresses:
      /\ ~AccountPanics(a) => Account(a) = IF a \in DOMAIN world THEN world[a] ELSE None
      /\ \A s \in Slots: ~StoragePanics(a, s) =>
           Storage(a, s) = IF a \in DOMAIN world /\ s \in DOMAIN world[a].storage_root
                           THEN world[a].storage_root[s] ELSE Zero

\* The pre-state as the witness presents it to update, and whether that is the
\* pre-state: every account the block touches is listed or has no storage.
Presented == PresentedState(world, block.post, witness.keys)

StorageListed ==
  \A a \in Touched \cap DOMAIN world: a \in witness.keys \/ world[a].storage_root = EmptyStorage

\* update leaves the state that the changes make of the pre-state account by
\* account, whatever the order in which its hash map is walked, with accounts
\* deleted, emptied, wiped and made again.  A touched account that the witness does
\* not list counts as one without storage (reth-trie-risc0-zkvm/src/lib.rs:199), and
\* nothing else of the result depends on the witness.
UpdateIsReference ==
  phase = "update" /\ UpdateDone =>
    /\ state_trie.content = WorldAfter(Presented, post)
    /\ StorageListed => state_trie.content = WorldAfter(world, post)

\* "keep maps in sync" (reth-trie-risc0-zkvm/src/lib.rs:204): after the update the storage tries are
\* valid for the new state trie as they were for the old.
MapsInSync ==
  phase \notin {"update", "rejected", "panicked"} \/ (phase = "update" /\ UpdateDone)
  => StorageTriesValid

\* What the end of a route says of the block, for any witness at all, also one of
\* another block: its headers are connected, its transactions signed, its header
\* one that consensus accepts (which the prototype does not ask), its receipts and
\* its state root those of its own execution.  The root is that of the state the
\* changes make of the pre-state as presented.  That is the pre-state if the
\* witness lists every touched account with storage; no step asks whether it does,
\* and if not, a block whose header has the root without those storages ends well.
AcceptedOnlyIfValid ==
  phase = "accepted" =>
    /\ block.connected
    /\ block.validity = "valid" \/ (block.validity = "bad_header" /\ route = "prototype")
    /\ block.state_root = WorldAfter(Presented, block.post)
    /\ StorageListed => block.state_root = WorldAfter(world, block.post)

\* Every node and code the block needs.
NodesComplete ==
  /\ Touched \cup witness.keys \subseteq witness.knownAddresses
  /\ \A a \in DOMAIN block.post.storages: DOMAIN block.post.storages[a].slots \subseteq witness.knownSlots
  /\ siblings
  /\ block.codes \subseteq witness.codes

ValidBlock ==
  /\ block.connected /\ block.validity = "valid"
  /\ block.state_root = WorldAfter(world, block.post)

\* A valid block is never refused, neither on the host nor at any step of a guest,
\* on any route, if the witness has every node and code and lists the touched
\* accounts with storage, as reth's does.
ValidBlockAccepted ==
  ValidBlock /\ NodesComplete /\ StorageListed => phase \notin {"rejected", "panicked"}

\* "Witness `keys` are not used" (src/core/src/input.rs:14): a valid block whose
\* witness has every node and code is accepted, whatever keys it lists.
KeysNotUsed == ValidBlock /\ NodesComplete => phase \notin {"rejected", "panicked"}
=============================================================================
