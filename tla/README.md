# Verification of reth-proofs

reth-proofs proves Ethereum blocks in a zkVM. A host takes a block, its ancestors' headers and an
execution witness from an RPC node; a guest program, run inside ZisK or RISC Zero, executes the
block over the witness and checks the resulting state root; two orchestrators, `gevulot3` and
`gevulot2`, do this for the heads of a chain and report to Ethproofs.

This directory holds TLA+ models of the parts with logic of their own, the TLC configurations that
check them, and TLAPS proofs of their safety properties and of one refinement, for every value of the constants.

    tlc -workers 2 -config MCGevulot3_keep.cfg MCGevulot3.tla     # every run of PROJECT.json alike
    tlapm Gevulot3Proofs.tla                                      # every *Proofs module alike

Contents: [the system](#the-system), [the modules](#the-modules), [the runs](#the-runs),
[fairness](#fairness), [findings](#findings), [the proofs](#the-proofs),
[what is left out](#what-is-left-out), [what comes next](#what-comes-next).

## The system

### gevulot3 (`gevulot3/src/main.rs`, `zisk.rs`)

*State*: the subscription to new heads; a bounded `mpsc` queue of prove jobs; the files
`/tmp/{block_number}.bin`; `pending_jobs`, a map from the coordinator's job ids to one-shot
senders; a cancellation token. *Actors*: the main task, the worker task, the webhook server (one
task per request), and outside the process the ZisK coordinator.
*Operations*: for each head the main task fetches witness and block, encodes the input and puts a
job into the queue; when the queue is full, or at once with `--skip-pending-blocks`, it first takes
out everything that waits. The worker takes one job at a time, writes the file, submits the path
to the coordinator, registers the id it got, waits for the webhook, uploads the proof and removes
the file. Ctrl-C or the end of the stream cancels the token, drops the sender and waits for the
worker for 30 seconds.
*Hard*: both tasks receive from one queue; the worker's wait for a webhook has no timeout;
webhooks may be late, early, lost or repeated; after a reorganisation two heads share a file.
*Correct means*: the main loop never waits for the prover; heads are proved in order, dropped only
for newer ones, and none disappears; a proof is of the block it is uploaded for; no sender stays in
the map; results arrive; the shutdown ends.

### Ethproofs client (`ethproofs/src/lib.rs`)

*State*: the detached tasks in flight. Each report (`queued`, `proving`, `proved`) spawns a task
that posts it, with three retries after transient failures. *Hard*: reports overtake each other and
die with the process. *Correct means*: the callers never wait, every report ends.

### gevulot2 (`gevulot2/src/main.rs`)

*State*: one task; the sessions of a Bento cluster, which outlive the interest in them. For every
hundredth block it prepares, uploads, creates a session, polls it, downloads the receipt and
reports. *Hard*: an error while polling abandons a session that goes on beside the next one's; the
loop must go on after every failure. *Correct means*: the proof reported is the block's own, and
the loop returns to the subscription.

### Sparse Merkle Patricia trie (`risc0-ethereum-trie/src/mpt`)

*State*: a tree of leaves, extensions, branches and digests (subtrees known by hash only); each
node's cached reference; `CachedTrie`'s cached root hash. *Operations*: `get`, `insert`, `remove`,
`clear`, `hydrate_from_rlp`, `hash`, `hash_slow`, `prune_to_keys`, `resolve_orphan`, (de)serialization of
nodes and of encoded nodes. *Hard*: the shape after
removals (branches collapse, extensions merge), unresolved nodes met in the middle of an operation,
caches that have to be forgotten on every way down, one cursor over sorted keys for a whole pruning,
an orphan told from a node that is there by a proof of the trie after the removal. *Correct means*: the
trie is the canonical one of its map, the hash is the hash of that trie, it panics exactly where it has to,
pruning keeps what the keys need, and a resolved orphan can be removed.

### Ethereum state (`reth-trie-risc0-zkvm/src/lib.rs`, `mpt.rs`)

*State*: the state trie and a map of storage tries by hashed address. *Operations*:
`build_validated_tries` on the host, `validate_state_trie`, `validate_storage_tries`, `account`,
`storage`, and `update` with a hashed post-state. *Hard*: which storage tries exist, wiped storages,
accounts deleted and made again, a map walked in no order. *Correct means*: reads are of the
pre-state; `update` is the account-by-account reference, in any order.

### Guest inputs (`core/src/lib.rs`, `input.rs`, `triedb.rs`, `input_alt.rs`)

*State*: the headers, the bytecodes, the tries and the signers the host passes to the guest, and
the map of block hashes made of the headers. *Operations*: `from_offline_rpc_data`,
`seal_and_validate`, `block_hash_ref`, validation of bytecodes, recovery and verification of
signers. *Hard*: order of the headers, arithmetic at block 0. *Correct means*: exactly the connected
witnesses are accepted and only ancestors' hashes are answered.

### Guest pipeline (`zkvm-common-guest/src/lib.rs`, `prototype/src/lib.rs`)

Seal and check headers, validate the tries and bytecodes, recover signers, check consensus, execute,
check the receipts, update the state, compare the root. The steps are written out three times, in three
orders: `guest_handler` (fourteen steps, input prepared by the host), `guest_alt_handler` (everything in the guest,
driven by the external `reth_stateless` over `StatelessTrie`), and `execute_block` of the prototype (no guest,
no consensus checks). *Hard*: what one route leaves to another step or leaves out. *Correct means*: each ends well for
valid blocks only, and for every valid block with a complete witness.

### RISC Zero hosts (`zkvm/risc0-host/src`)

`main-recursive.rs` proves an execution segment by segment and joins the receipts pairwise, level by
level. *Correct means*: no join is refused, each receipt is used once, the last one covers the
execution. `main.rs` and `main-bonsai.rs` call the prover once.

### Without logic to model

The guests' entry points, `zkvm-common-host`, the prototype's commands, RPC and files, and the
build files; see [what is left out](#what-is-left-out).

### How they interact

    node --heads--> gevulot3 --file, job--> coordinator --(zisk-guest: guest pipeline)--> webhook --> gevulot3
    node --heads--> gevulot2 --input-----> Bento -------(risc0-guest: guest pipeline)--> receipt --> gevulot2
    both --reports--> Ethproofs
    guest pipeline: headers (HeaderChain) + Ethereum state over tries (CachedTrie) + executor (external)

The orchestrators never look into an input or a proof, and the guest never sees an orchestrator: the
only thing that passes is the input, identified in the models by the head it was prepared for.
Thus the two halves are separate compositions.

## The modules

| module | models | built on |
|---|---|---|
| `ProvePipeline` | abstract: what gevulot3 promises of the heads it is told of | |
| `Zisk` | the webhook server, `pending_jobs`, one-shot channels, input files; the coordinator (external) | |
| `Gevulot3` | main task, queue, worker, shutdown | EXTENDS `Zisk`, implements `ProvePipeline` |
| `EthproofsClient` | reports and their retrying tasks | |
| `Gevulot2` | the Bento orchestrator's task; Bento (external) | EXTENDS `EthproofsClient` |
| `MPTWalk` | the trie's nodes and the operations that follow one key: `get`, `insert`, `remove` | |
| `MPTNode` | encoding, caches, hydration, orphans, pruning | EXTENDS `MPTWalk` |
| `AuthenticatedMap` | abstract: a map that may give up but never answers wrongly | |
| `CachedTrie` | the trie with its root hash, as a state machine | EXTENDS `MPTNode`, steps `AuthenticatedMap` |
| `EthereumState` | the tries of accounts and storage, validation, reads, `update` | |
| `GuestPipeline` | from the node's data to an accepted block, by each of the three routes | EXTENDS `EthereumState` |
| `HeaderChain` | sealing and validation of headers, answers to `BLOCKHASH` | |
| `JoinReceipts` | the recursive host's segments and joins | |
| `Gevulot3Proofs`, `HeaderChainProofs`, `JoinReceiptsProofs`, `Gevulot2Proofs`, `GuestPipelineProofs` | lemmas and theorems of the module they are named after | EXTENDS it |
| `MPTWalkProofs` | what the walks along one key do | EXTENDS `MPTWalk` |
| `MPTNodeProofs` | what the operations do that recur into every child | EXTENDS `MPTNode`, `MPTWalkProofs` |
| `CachedTrieProofs` | the invariants of the trie as a state machine | EXTENDS `CachedTrie`, `MPTNodeProofs` |
| `MC*` | instances for TLC, one .cfg for each run | |

Definitions keep the names of the source; `PROJECT.json` maps each to its lines. Operators headed
"Mistake:" are plausible bugs, used by nothing: with one of them in the place of the definition that
follows, TLC must find a property violated, which shows that the property can fail.

### Gevulot3 and Zisk

A head is the k-th number the subscription yields, so that two heads can share a number, and with it
a file. A prove job, an input and the content of a file are the index of the head they belong to:
`ProofIsOfItsBlock` compares the head an upload is made for with the input that was proved.
`main` and `worker` are the places at which a task awaits or touches something shared, and each
action runs from one such place to the next. `DrainOne` is a single `try_recv`, as the worker
receives between any two of them; the worker's `select!` is a choice of whatever is ready.
Error arms are the actions `...Fails`, `...Rejected`, `...AnswerLost` and `GiveUp`. A failed fetch panics
the main task (`PrepareInputPanics`), because `prepare_input` unwraps what it fetches.
A file write that fails leaves the old content or a torn one. The runtime dies with the main task,
so that every other action needs `Running`.

The coordinator (`LaunchProof`, `ReadInput`, `FinishJob`) reads the file some time after it accepted the
job, ends the job with any outcome in `Outcomes`, and posts one webhook, which `DisturbWebhook` may lose
or repeat. `Handle` is `webhook_handler`: the sender leaves the map with the lookup, and the payload of
an unknown job is dropped with the answer OK.

A process may be started after another that ended anywhere. Nothing of the code handles a restart as such, but
what outlives a process is there when the next one starts: `ZiskInit` lets `/tmp` hold the files
in `LeftFiles` (`Stale` is an input an earlier process wrote) and lets the coordinator have up to `MaxLeft`
jobs of earlier processes, not begun, which read whatever is in their file by then and post their webhooks to
the new process. What an earlier process had in its queue and its map is gone.

`ProvePipeline` is the promise: heads wait in a set, the oldest is proved, one at a time, an older one
gives way to a newer, uploads are of the head itself. `Pipeline` maps the queue to its set, the
worker's job to the head being proved, and hides files, jobs, webhooks and channels.
The property `ImplementsPipeline` is the refinement.

### EthproofsClient and Gevulot2

A report is posted by a task of its own with the retries it has left; `Report` is what `queued`,
`proving` and `proved` do to their caller, which is nothing. In `Gevulot2` each call of the loop is an
action with its failure. Sessions are Bento's: `SessionEnds` ends any of them at any time, also one
nobody polls any more; a session that succeeded may lack stats or a URL, which panics the task.

### MPTWalk, MPTNode and CachedTrie

A node is a record with its cached reference; a digest is a record that holds the encoding it is the
digest of, as keccak256 is taken to be injective. Only the size of an encoding is kept, to
decide between inlining and hashing. `InsertedAt`, `Fork`, `Collapsed`, `Merged`, `Memoize`,
`ResolveDigests` follow node.rs, children.rs and rlp.rs case by case; a result `Panic` is the panic of
the code.

`get`, `insert` and `remove` recur along one key. In `MPTWalk` this recursion is a function of the place on
the way: `Way(node, key)` yields the places (a node and what is left of the key), each by `Into` from the one
above it as long as the key `Descends`; `NodeInsert` and `RemoveFound` are the functions of these places that
refer to the place below, `ValueAt`, `InsertedAt` and `RemovedAt` say what happens where the way ends, `InsertedAbove` and `RemovedAbove` on the
way. So no RECURSIVE operator is needed, and the module can be proved about. What recurs into every child
(encoding, hashing, hydration, orphans, pruning) is in `MPTNode`: `FoldTree` is the recursion over a tree, a function that
takes the nodes by the length of the longest way below them, and each of these operations is a fold that says what is
made of a node and of what its children became. The pruning cursor is a function of the keys' length in the same way.

`TrieOf` is the reference: the trie of a map as Ethereum defines it, by recursion over
prefixes, without inserts. `CachedTrie` does the operations in any order on a trie that
starts empty, from a digest, or from the nodes of any witness; its history `map` takes the steps of
`AuthenticatedMap` with it.

`ResolveOrphan` follows orphan.rs from the diverging node to each of its answers, over genuine EIP-1186 proofs
of the trie without the key (`Proved`, `Without`); `OkMeansResolved` also hands it proofs of the trie that still
holds it. `NodePrune` with `Seek` and `PeekWithPrefix` is prune.rs, the cursor passed along
the traversal as in the code; `RlpNodes` is what rkyv and serde write with `rlp_serialize`, `NodeFromRlp` what
they read. Pruning is in the passing run only for nodes of at least a digest's size (`PruneInlined = FALSE`), because below it the code
changes the hash, which `trie_prune` shows; the state's tries have keys of 32 hashed bytes, whose nodes are
that small only if two keys share almost all of them.

### EthereumState and GuestPipeline

Here a trie is the map it stands for and the keys that are known, which is what `IsTrieOfMap` and
`PanicsAsDocumented` of `CachedTrie` justify: a trie answers from its map or panics on a key that is
not known, and a removal may also panic for want of the sibling (`siblings`, `MayCollapse`). A root hash is
the map itself. `Build` makes the two kinds of tries from a world (the pre-state) and a witness;
`UpdateStorage`, `InsertAccount` and `DeleteAccount` are the bodies of the loops of `update`, the
first in ascending order of addresses, the others in any order, which is the hash map's.
`WorldAfter` is the reference: account by account, slot by slot. `Presented` is the pre-state as a witness
presents it to `update`: a storage trie is built only for an account among the keys, and a changed account without
one is given the root of no storage. No step asks whether the keys list the changed accounts, so
the witness is any, and what is accepted is stated of `Presented`; if the keys list the changed accounts with storage
(`StorageListed`), that is the pre-state.
`GuestPipeline` has one action per step or group of steps; `ZkvmOrder`, `StatelessOrder` and `PrototypeOrder` say
what follows what on each `route`. A failing step is a `rejected`, a missing part of the witness a `panicked`. On
the route `zkvm` the signers are recovered on the host and verified in the guest, on the others recovered only.
`reth_stateless` is external; its order of steps is that of the version the repository depends on, and of the
code only what it is handed is its own: the public keys, `StatelessTrie`, the configuration. `no_transactions` is a block that
was fetched with hashes for transactions, which the prototype tests for itself and the other
routes find by the transactions' root. The executor is external: it reads what
the block touches and yields the block's post-state. A header's state root is that of the pre-state, the right one, or the one `update` comes to from `Presented`.

### HeaderChain

A header is its identity; `Number`, `ParentHash` and `Hash` are constant functions. Numbers are words of
`0..MaxNumber`. `checked` says whether the build panics at an arithmetic underflow or wraps: both are
possible. `ParentAndChild`, what the documentation means by connected, knows no wrap; what a release build accepts
besides, a header above number 0, is `Wrapped`. The current block and the witness are any header and any list of headers. Each pass
of the loop in `seal_and_validate` is an action, with its panics as `RejectAncestor` and `NoParent`.

### JoinReceipts

A receipt is the range of segments it covers. `JoinPair` and `CarryOdd` take the chunks of a level in
turn, `NextLevel` passes on. The external prover joins two receipts only if they are adjacent.

## The runs

Times are for two workers on a small machine.

**g3_keep** (617 610 states, 2 min). Queue of two, four heads of one number, both kinds of answers,
webhooks before the registration, shutdown and panic at any moment, no `--skip-pending-blocks`. Four
heads are one with the worker, two that fill the queue and one that overflows it, so that each drain
races with the worker. Shows the queue's invariants, the refinement of
`ProvePipeline` (also proved), and, with fairness for the main task alone, that the main loop and the shutdown get
through though the worker, the coordinator and the network may stand still.

**g3_skip** (1 474 948 states, 2 min). `--skip-pending-blocks`, three heads of one number, so that all share a file, a
file and a job left by an earlier process, webhooks lost, repeated, late and early. The outcomes
hold a proof, of which one is to be taken: the others differ in what the worker logs only. One head being proved,
one waiting and one arriving, beside an older job, is the least in which a late answer, a file left over and another job's input can be confused; heads of
other numbers only add files nobody confuses.
Shows that proofs are of their own block and nothing stays registered, also after a restart.

**g3_live** (28 959 states, 20 s). Queue of one, three heads, fairness for all, no webhook before its
registration: every queued head is proved, failed or dropped, unless the process ends.

**g3_race** (violation). One head, the same fairness, webhooks before the registration allowed: the
worker waits for ever. See [findings](#findings).

**gevulot2** (131 524 states, 2.5 min). Two heads, one a target or both or none, three retries, every call
failing or not. Two targets suffice for a session left behind by the first beside the second's.

**cached_trie** (4 697 states, 30 s). Four keys of three nibbles with common prefixes of two, one and no
nibbles, so that there are leaves, branches and extensions at every depth and each collapse occurs
(onto a leaf, an extension, a branch, a digest). Two values, one inlined and one hashed, and a
`DigestSize` at which small branches are inlined too. Every witness that proves
any set of keys, all orders of operations without a bound on their number. The proofs are for any keys.

**trie_orphan**, **trie_prune** (violations). A proof of the trie that still holds the key is answered Ok;
pruning nodes that are part of their parent's encoding changes the hash. See [findings](#findings).

**guest** (6 899 772 states, 80 s). Three routes; two accounts, two slots, three worlds, twenty-one changes: an account
created, changed, emptied, deleted, wiped and refilled, beside one that is also changed, in both
orders; every witness, complete or not, with any accounts among its keys; the header's root the old one, the right one or the
one without the storages that are not listed; connected headers or not; each kind of invalid block. Two accounts suffice because
`update` handles accounts independently but for the maps they share; the proofs are for any number. Shows what each
route accepts with any witness, and what it does not refuse.

**guest_keys** (violation). The same without bytecodes: a witness whose keys do not list an account the block reads storage of.

**header_chain** (37 130 states, 5 s). Eight headers: a chain of four, a fork, a skipped and a repeated number,
and a header with the number that 0 - 1 wraps to, named by block 0 as its parent. All lists of up to
three of them, for every current block. One parent, one grandparent and one more is what the loop's
three cases need (first, second, further); the proofs cover every length.

**join_receipts** (704 states, 1 s). One to seventeen segments: five levels, with an odd receipt at each of them.

Bounds are constants named `Max...`, or `Init...` for the sets of inputs. No run relies on a state
constraint. Deadlock is checked in all of them: the actions `Ended` are the ends of the program.

## Fairness

* `MainFairSpec`: weak fairness of `MainStep`. The runtime polls a task that is ready, and what the
  main task awaits in those steps ends: the fetches from the node are answered or fail, which the code
  takes for granted (it sets no timeout of its own), and the shutdown has its 30 seconds. `Send` is in it but is enabled only with room in the queue: that there
  is room is what `MainLoopReturns` shows. Receiving a head and leaving the loop are not in it.
* `FairSpec` adds weak fairness of `WorkerStep`, of each job's reading and finishing, and of the
  delivery of each webhook. This is more than the code can promise (a coordinator may die), and
  used only to show that gevulot3 adds no waiting of its own, and that it does so in `g3_race`.
* `Gevulot2`'s `Fairness`: weak fairness of `Works`, the steps taken when calls succeed or a session ended,
  and of the end of each session. Calls may fail at any time, and failures are not assumed.
  Without it `LoopReturns` is false in the code: the poll has no limit.
* `ReportSettles` assumes, inside the property, that the requests of that one report end, which is up to the
  service (the client sets no timeout): it shows that the retries are bounded; `LoopReturns` assumes nothing of reports, which is its point.
* The other specifications are of sequential programs, and only safety is stated.

## Findings

**A webhook that overtakes its registration is lost** (`g3_race`). The worker submits a job
(`gevulot3/src/main.rs:114`) before it registers it (line 123, "Register the job with the webhook server to
receive the result"), and `webhook_handler` drops the payload of an unknown job (`zisk.rs:64`) with an OK
answer. A job that ends in between, at once with an error, say, leaves the worker in a wait without a timeout:
from then on blocks are queued and dropped but none is proved, until a restart. Real proofs take seconds;
errors need not. `g3_live` shows that nothing else stands in the way of results.

**Witness keys are used** (`guest_keys`). `core/src/input.rs:14` notes that "Witness `keys` are not used", but
`build_validated_tries` builds storage tries for the accounts among the keys only
(`reth-trie-risc0-zkvm/src/lib.rs:92`). With a witness that has all nodes and codes but lists not every
account, a valid block is refused: a read of the storage ends in `todo!()` (line 273), or `update` gives
the account the root of no storage (line 199). In the second case a block whose header has that root instead ends well,
as no step looks whether a changed account has its trie. `AcceptedOnlyIfValid` says exactly this much of an accepted block, for every
witness, and `ValidBlockAccepted` names the condition under which a valid one is not refused, `StorageListed`.

**Ok for an orphan that is not resolved** (`trie_orphan`). `resolve_orphan` documents that it "Returns `Ok(())` if
the orphan was successfully resolved. Returns `Error` if the proof is invalid" (`risc0-ethereum-trie/src/mpt/orphan.rs:61`), and line 36
calls a proof invalid that "does not prove the non-inclusion of the key". Given a proof of the trie
that still holds the key, say one made before the removal, it returns Ok early (line 102) and resolves nothing;
the removal then panics.

**Pruning inlined nodes changes the hash** (`trie_prune`). `prune_to_keys` replaces whatever no key reaches by the digest
of its encoding (`node.rs:298`), also a node of less than 32 bytes, which its parent's encoding holds as it is. Unless
the parent's cached encoding hides it, the root hash is another afterwards, though "Unused parts of the trie are replaced with their digest
representation" (`mod.rs:355`). The tries of the state have no such nodes in practice, and no binary prunes.

## The proofs

Eight modules hold theorems, checked by TLAPS, about every value of the constants under the modules' named
ASSUMEs: block numbers any set, capacity any positive number, outcomes any set, any number of jobs and any
files left by earlier processes, any headers, any number of segments, keys of any length and any values, any accounts, slots,
states, changes and witnesses. Each argument about a specification is an inductive invariant, one lemma for each action or
group of actions, and a theorem that combines them. The invariants of the runs are seldom inductive;
what has to be added is this.

**Gevulot3Proofs** (1308 obligations). `TypeInv`: types, the worker has a job exactly between taking
it and being done, the main task has a head while preparing. `ProofInv`, for
`ProofIsOfItsBlock`, `NoAbandonedSender` and `InputStaysInPlace`: from the write on, the file of the worker's
head holds that head's input, as only the worker writes; so the worker's job reads that or nothing (`JobIsOurs`);
webhooks and payloads under its id carry it (`HooksAreOurs`; ids are fresh, so older answers have
other ids, and so have the jobs of earlier processes); a sender is used once (`OneAnswer`). `QueueInv`, for the queue's five invariants: the head
in hand is nowhere else yet, and a head is proved before its file is removed. `ProofInv` rests on `TypeInv`, and
`QueueInv` on both. Two more theorems are the safety half of liveness properties: `MainLoopBounded`, that each step of the main
task lowers a rank of at most `Capacity + 4` and that no other task raises it, and `AnswerNotLost`, that with webhooks which are
neither lost nor earlier than their registration, an answer the worker waits for is always somewhere on its way.

`Implements` is the refinement: every step of `Gevulot3` is a step of `ProvePipeline` or leaves what it sees as it was. `View`
is what it sees, as plain expressions; `RefInv` adds to the three invariants above that the worker's head is the last one
started (`HasLast`). One lemma for each action that is not a stutter: that the head it takes from the queue is the oldest
(`FirstIsOldest`, from the order in `QueueInv`), and that the set of what waits stays within the capacity (`QueueIsFinite`).

**HeaderChainProofs** (628). `ChainInv`: after `next` headers the chain is linked so far, its numbers are
the current one counted down with a wrap at 0, the parent is the second header if it was reached, and the
map holds the ancestors so far. Because the list is not longer than there are numbers
(`AncestorsAssumption`; in the code 2^64) each number comes once, so that no entry is overwritten and the
number test finds the first ancestor only. From it follow that exactly the connected witnesses are accepted, and in a release build those that
wrap at 0, that the parent is the one the block names, and that answers are reached by parent hashes.

**JoinReceiptsProofs** (418). `JoinInv`: a receipt for each segment while proving; while joining
the level covers the segments without a gap, the next level covers what was taken, and joins and receipts add up.
`HostEnds`: each step lowers a rank of at most five times the number of segments and two, so the host ends.

**Gevulot2Proofs** (291). `Inv`: while the task works, the latest head is a target; while it polls or
downloads, its session was given that head's input; reports are of heads received.

**MPTWalkProofs** (3864). What `insert` and `remove` do on every trie, with keys of any length and any parts
unresolved:

* `InsertSets`, `RemoveUnsets`: the trie is well made afterwards (no branch with a single child, an extension over nothing but a
  branch, paths of the right length), has the key's value or has it no more, and answers every other key as before; it panics
  exactly where `get` does, and `remove` also where a branch is left with a child that is not resolved (`LeavesOrphan`).
* `MapHasOneTrie`: two tries that answer every key alike are equal as `Node::eq` compares them. With it `RemoveUndoesInsert` and
  `InsertsCommute`: a key inserted and removed leaves the trie that was there, and two inserts may be swapped.
* `CachesForgotten`: the new trie is made of nodes of the old one, with all that was below them, and of nodes
  without a cache; so a cache is never kept for a node that changed.

The library's induction theorems take an operator as a parameter and cannot be cited; but the lengths of keys are numbers, and from
the least element of a finite set follows an induction over *sets* of numbers (`SetInduction`), which suffices: each
induction names the set of lengths for which the claim holds of all nodes and keys. Trees are not defined by
recursion either: `Shape(node, l)` says that some set of nodes, closed under what is below its members and made well throughout, holds the
node, `Alike` and `MadeOf` likewise with a set of pairs and of nodes; the lemmas `ShapeCases`, `AlikeAbove`, `MadeOfBranch` and
their like go one level down or up. That the functions of `NodeInsert` and `RemoveFound` exist and have one value at the top
(`ResultExists`) is proved by the same induction, as a key gets shorter where it descends, and from it the equations of the code's recursion
(`AtEnd`, `AtExtension`, `AtBranch`). Then `insert` and `remove` are one lemma for each kind of node and an
induction. For `MapHasOneTrie` the point at which the keys of a trie first part (`IsPoint`) is a matter of the map alone and determines
whether the node is a leaf, a branch or an extension and how long its path is.

**MPTNodeProofs** (7540), **CachedTrieProofs** (4180). The trie with its caches and digests, for keys of any length, any values, any
maps to start from and any witnesses. A trie as it is kept is partly known (digests stand for subtrees) and partly remembered
(caches). `Stands(node, full, l, atop)` says what such a node is a picture of: `full` is the canonical trie of some map,
without digests and caches, and `node` is `full` with any subtrees replaced by the digests of their encodings and with any encodings
remembered, each of which is the right one. `IInv` says that the root stands for the one trie of `map`
(`RootOf`), that a remembered hash is its root's, and that the map's keys are of `KeyLength`. It is inductive: one lemma for each of insert, remove,
hydration, hashing, pruning, orphan resolution and both ways into the guest shows that the operation keeps a node standing
for what it should. From it:

* `TypeCorrect` (`TypeOK`), `TrieOfMap` (`IsTrieOfMap`): whatever it went through, the trie with its digests resolved is the trie `TrieOf`
  makes of the map from scratch;
* `RootHash` (`HashIsRoot`): the hash, from whatever caches it is made, is the root of that trie: no cache is ever stale;
* `PanicsOnlyAsDocumented` (`PanicsAsDocumented`): both halves, that nothing else panics and that those cases do;
* `PruneKeepsWays` (`PruneKeepsPaths`): one cursor passed over the sorted keys keeps the nodes on the ways of all of them and
  nothing else. Its invariant: a subtree at a prefix is entered with a cursor that still has all keys from that
  prefix on, and left with one that still has all keys that follow it (`Reached`), the subtree being pruned to those below it
  (`PrunedTo`; both: `Walked`); what `peek_with_prefix` finds is therefore whether the subtree is wanted (`PeekIs`), and
  `PruneChildrenWalks` takes the children of a branch in turn;
* `OrphansAreResolved` (`OrphansResolved`): with a proof of the trie without the key, the key can be removed where `resolve_orphan` answers
  Ok, and where it names a prefix the removal would panic, and does not once the trie is proved under that prefix.

The last one rests on `IInv` and on one observation, which makes an algorithm over three tries (the node, the trie it stands for, and
what is decoded from the proof) a matter of the map alone. The removal panics exactly where all other keys that share some `j` nibbles with the removed one
go on with one nibble, and a digest is there in the node (`Deserted`, `DesertedDigest`, `RemovalPanics`). The proof of the missing key ends,
in the trie without it, at a leaf or an extension whose path leaves the key after those `j` nibbles (`WalkOfMissing`, `StopsParts`), or at a branch,
and then no place is deserted (`Crowded`, `CrowdedHasNone`). So what `resolve_orphan` takes for an orphan is what the removal would
panic on (`OrphanFound`), and the encodings it makes of a leaf, of an extension that is not used up, or of the child of one that is, are those of the
subtree behind that digest in the trie of the map (`SiblingResolves`, `PrefixOfOrphan`); otherwise the prefix it
names is the way to it. That the proof it is given answers the key at all is `ProofResolves`.

An operation of `MPTNode` is handed to the general lemmas about folds as a record that says which one it is (`Fold(op, node)`), because a lemma with an
operator as parameter cannot be cited; they show once that every fold exists, has one value, and satisfies the equations of
the code's recursion. Claims about all nodes are proved by induction on the length of the keys below them.

**GuestPipelineProofs** (1108). First what the operators of the state do: `AppliedIsStorageAfter`,
that setting the changed slots one after another, removing those that became zero, is the storage the reference
makes, and the effect of each body of `update` on one account and on the others. Then all six
properties of the run `guest`. The invariant `Inv` is `TypeOK`, `InputsOK` (the inputs are what `Init`
allows), `ChecksPassed` (what each phase on each route may rely on: which tests lie behind it) and `StateInv`:
before the update the tries are the world's (`Fresh`), during it they are `Walk`: each
storage is the old one or the changed one and its root is recorded exactly if it is the changed one, and each account is the old one
or, once among `updated`, what the change makes of it. When nothing is left to update, `Walk` is `WorldAfter` of the state as
presented (`WalkIsReference`), and with `StorageListed` that is the pre-state (`ListedIsPresented`). So all six theorems hold for every
witness: `UpdateImplementsReference`, `Soundness` (`AcceptedOnlyIfValid`) and `Completeness`
(`ValidBlockAccepted`) have `StorageListed` inside their properties, as a premise of what needs it. Completeness needs
besides that no operation panics on a complete witness (`NothingMissing`, `UpdateNeverPanics`).

There is one assumption beyond those of the constants: `~PruneInlined` in the theorems of `CachedTrieProofs`, that tries are pruned
only when they hold no inlined nodes, which the finding of `trie_prune` shows to be necessary. It is a constant of the
passing run as well. The proofs speak of the modules' specifications
without fairness (`Gevulot2`'s `Spec` has it, but its theorems do not use it).

Proving found two flaws of the model, both a CASE whose arms overlapped: in `Collapsed`, and in the value `get` should have in `PanicsAsDocumented`. Of
such a CASE the logic says only that its value is that of one of the arms that apply; TLC takes
the first one. They are IFs now.

Only checked by TLC is liveness under fairness, which TLAPS does not prove here: `MainLoopReturns`, `ShutdownCompletes`, `RegisteredResultArrives`,
  `QueuedHeadSettles`, `ReportSettles`, `LoopReturns`.

## What is left out

* Of the trie crate: `size`, which counts; decoding errors, as the encodings come from real tries; keys of
  different lengths, as hashed keys have one; rkyv's wrappers of bytes. `Trie`, the variant without a cached root hash, is `CachedTrie` with a hash
  that is never kept.
* Inputs of a guest that no host builds: the steps 4 to 6 of `guest_handler` are passed by every input the
  host makes. `input_alt.rs` is a record, and what `reth_stateless` does with it is external.
* `prepare` and `prove-block` of both orchestrators: the same calls, once.
* The guests' entry points and the KZG shim, `zkvm-common-host`, the hosts `main.rs` and `main-bonsai.rs`, the
  prototype's commands, files, RPC and the printing of witnesses, and the build: input, output and calls of external code without state of their own.
* Encodings: command lines, the bincode of an input and its 32-bit frame, JSON, RLP but for what it decides.
* Time: timeouts are choices that may be taken whenever what they limit has not happened.
* Arms no run of the program reaches: `Err` of `prepare_input` (failed fetches panic before),
  `TrySendError::Closed` (the worker outlives the loop), the receiver's `Err` (a sender is dropped by sending only).
* External, modelled by how they are used: the ZisK coordinator, the node, Ethproofs, Bento, the HTTP
  client's notion of a transient failure, the executor, consensus checks, keccak256 (injective).

The models are of one commit: a change of the code has to be followed in the definition whose lines it touches.

## What comes next

The order so far: `Zisk`, `Gevulot3`, `ProvePipeline` and their proofs, as the only concurrent part;
`HeaderChain` and `JoinReceipts` with proofs; the trie; the state and the pipeline over it; `Gevulot2`; orphan
resolution and pruning; the other two routes of the pipeline; proofs of the state and the pipeline; what an earlier
process leaves to gevulot3; the proof of the refinement; the trie's walks and the proofs about them; the proofs about the
trie with its caches and digests, last about its orphans. Planned:

* One-shot commands, if they get a life of their own, and the composition of `HeaderChain` with `GuestPipeline`
  in the place of the flag `connected`.
