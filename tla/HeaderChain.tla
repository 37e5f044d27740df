----------------------------- MODULE HeaderChain -----------------------------
(***************************************************************************)
(* The ancestor headers of a block (src/core/src/lib.rs): how the host      *)
(* takes them from the execution witness, how the guest seals them and      *)
(* checks that they are connected, and how the executed block then asks for *)
(* the hashes of its ancestors (src/core/src/triedb.rs).                    *)
(*                                                                         *)
(* A header is its identity: Number, ParentHash and Hash say what the code  *)
(* reads of it.  A header number is an unsigned word of 0..MaxNumber.       *)
(***************************************************************************)
EXTENDS Naturals, Sequences, SequencesExt

CONSTANTS
  Headers,        \* the headers there are, those of forks included
  Hashes,
  Number,         \* header.number
  ParentHash,     \* header.parent_hash
  Hash,           \* keccak256 of the encoded header
  NoHeader,
  MaxNumber,      \* the largest word: u64::MAX in the code
  MaxAncestors    \* bound: the length of the list of ancestors

ASSUME HeadersAssumption ==
  /\ MaxNumber \in Nat \ {0}
  /\ Number \in [Headers -> 0..MaxNumber]
  /\ ParentHash \in [Headers -> Hashes]
  /\ Hash \in [Headers -> Hashes]
  /\ NoHeader \notin Headers

\* Fewer ancestors than numbers, so that no number comes twice in a chain.
ASSUME AncestorsAssumption == MaxAncestors \in 0..MaxNumber

VARIABLES
  checked,      \* the build: does arithmetic that overflows panic, or wrap?
  current,      \* the header of the block to prove
  witness,      \* the headers of the execution witness
  next,         \* how many headers of the chain <<current>> \o ancestors were sealed
  sealedPrev,   \* sealed_prev: the last of them
  parentSealed, \* parent_sealed
  blockHashes,  \* block_hashes: number |-> hash
  answers,      \* history: <<number, hash>> given to the executed block
  result        \* where seal_and_validate is, or how it ended

vars == <<checked, current, witness, next, sealedPrev, parentSealed, blockHashes, answers, result>>

Result == {"input", "loop", "returned", "rejected", "unanswered"}

\* The subtraction of a release build wraps, that of a checked one panics.
Pred(n) == IF n = 0 THEN MaxNumber ELSE n - 1
Underflows(n) == checked /\ n = 0

\* Mistake: the headers stay in the order of the witness.
InOrderOfWitness(headers) == headers

\* The witness lists ancestors in ascending, the guest wants them in
\* descending order.
FromExecutionWitness(headers) == Reverse(headers)

Ancestors == FromExecutionWitness(witness)

\* The k-th header of the loop: the current one, then its ancestors.
Chain(k) == IF k = 1 THEN current ELSE Ancestors[k - 1]
Length   == Len(Ancestors) + 1

Lists == UNION {[1..n -> Headers]: n \in 0..MaxAncestors}

-----------------------------------------------------------------------------
\* The input names any current block and any list of headers.
Init ==
  /\ checked \in BOOLEAN
  /\ current \in Headers
  /\ witness \in Lists
  /\ next = 0
  /\ sealedPrev = NoHeader /\ parentSealed = NoHeader
  /\ blockHashes = <<>>
  /\ answers = {}
  /\ result = "input"

Reject ==
  /\ result' = "rejected"
  /\ UNCHANGED <<checked, current, witness, next, sealedPrev, parentSealed, blockHashes, answers>>

\* parent_block_number of block 0.
NoParentNumber ==
  /\ result = "input"
  /\ Underflows(Number[current])
  /\ Reject

Start ==
  /\ result = "input"
  /\ ~Underflows(Number[current])
  /\ result' = "loop"
  /\ UNCHANGED <<checked, current, witness, next, sealedPrev, parentSealed, blockHashes, answers>>

InLoop == result = "loop" /\ next < Length

\* Mistake: the last match counts, whatever its number.
IsAnyParent(h) == sealedPrev # NoHeader

\* `sealed.number() == parent_block_number`
IsParent(h) == Number[h] = Pred(Number[current])

\* Mistake: every other header is passed over.
SealTwo(h) ==
  /\ parentSealed' = IF IsParent(h) THEN h ELSE parentSealed
  /\ sealedPrev' = h
  /\ next' = next + 2
  /\ UNCHANGED <<checked, current, witness, answers, result>>

Seal(h) ==
  /\ parentSealed' = IF IsParent(h) THEN h ELSE parentSealed
  /\ sealedPrev' = h
  /\ next' = next + 1
  /\ UNCHANGED <<checked, current, witness, answers, result>>

\* The first header has no predecessor and gets no entry.
SealCurrent ==
  /\ InLoop /\ sealedPrev = NoHeader
  /\ Seal(Chain(next + 1))
  /\ UNCHANGED blockHashes

\* Mistake: only the numbers are compared.
ConnectedByNumber(h) ==
  /\ ~Underflows(Number[sealedPrev])
  /\ Number[h] = Pred(Number[sealedPrev])

\* The two panics of the loop, on the number and on the hash.
Connected(h) ==
  /\ ~Underflows(Number[sealedPrev])
  /\ Number[h] = Pred(Number[sealedPrev])
  /\ Hash[h] = ParentHash[sealedPrev]

\* Mistake: the entry is made under the number of the predecessor.
InsertHashOfChild(h) ==
  blockHashes' = [n \in DOMAIN blockHashes \cup {Number[sealedPrev]} |->
                    IF n = Number[sealedPrev] THEN Hash[h] ELSE blockHashes[n]]

InsertHash(h) ==
  blockHashes' = [n \in DOMAIN blockHashes \cup {Number[h]} |->
                    IF n = Number[h] THEN Hash[h] ELSE blockHashes[n]]

SealAncestor ==
  /\ InLoop /\ sealedPrev # NoHeader
  /\ Connected(Chain(next + 1))
  /\ InsertHash(Chain(next + 1))
  /\ Seal(Chain(next + 1))

RejectAncestor ==
  /\ InLoop /\ sealedPrev # NoHeader
  /\ ~Connected(Chain(next + 1))
  /\ Reject

\* After the loop, the parent must have been seen.
Return ==
  /\ result = "loop" /\ next = Length
  /\ parentSealed # NoHeader
  /\ result' = "returned"
  /\ UNCHANGED <<checked, current, witness, next, sealedPrev, parentSealed, blockHashes, answers>>

NoParent ==
  /\ result = "loop" /\ next = Length
  /\ parentSealed = NoHeader
  /\ Reject

\* The executed block asks for the hash of a block (BLOCKHASH).
BlockHashRef(n) ==
  /\ result = "returned"
  /\ n \in DOMAIN blockHashes
  /\ answers' = answers \cup {<<n, blockHashes[n]>>}
  /\ UNCHANGED <<checked, current, witness, next, sealedPrev, parentSealed, blockHashes, result>>

BlockHashMissing(n) ==
  /\ result = "returned"
  /\ n \notin DOMAIN blockHashes
  /\ result' = "unanswered"
  /\ UNCHANGED <<checked, current, witness, next, sealedPrev, parentSealed, blockHashes, answers>>

\* A panic ends the guest, and with it the proof.
Ended == result \in {"rejected", "unanswered"} /\ UNCHANGED vars

Next ==
  \/ NoParentNumber \/ Start
  \/ SealCurrent \/ SealAncestor \/ RejectAncestor
  \/ Return \/ NoParent
  \/ \E n \in 0..MaxNumber: BlockHashRef(n) \/ BlockHashMissing(n)
  \/ Ended

Spec == Init /\ [][Next]_vars

-----------------------------------------------------------------------------
TypeOK ==
  /\ checked \in BOOLEAN
  /\ current \in Headers
  /\ witness \in Seq(Headers) /\ Len(witness) <= MaxAncestors
  /\ next \in 0..Length
  /\ sealedPrev \in Headers \cup {NoHeader}
  /\ parentSealed \in Headers \cup {NoHeader}
  /\ DOMAIN blockHashes \subseteq 0..MaxNumber
  /\ \A n \in DOMAIN blockHashes: blockHashes[n] \in Hashes
  /\ answers \subseteq (0..MaxNumber) \X Hashes
  /\ result \in Result

\* The relation of a parent to its child.
ParentAndChild(parent, child) ==
  /\ Hash[parent] = ParentHash[child]
  /\ Number[child] = Number[parent] + 1

\* What a release build takes for it: a header above number 0, at the end of the word.
Wrapped(parent, child) ==
  /\ ~checked
  /\ Hash[parent] = ParentHash[child]
  /\ Number[child] = 0 /\ Number[parent] = MaxNumber

\* The header that follows the k-th of the witness; the current one comes last.
Child(k) == IF k = Len(witness) THEN current ELSE witness[k + 1]

GoodWitness ==
  witness # <<>> /\ \A k \in 1..Len(witness): ParentAndChild(witness[k], Child(k))

Accepted == result \in {"returned", "unanswered"}

\* The header the pre-state root is read from is headers.first() (guest
\* lib.rs:26); the one the block is checked against is the sealed parent. They
\* are the same header, and it is the one the current block names by its hash.
ParentIsFirstAncestor ==
  Accepted =>
    /\ Ancestors # <<>>
    /\ parentSealed = Ancestors[1]
    /\ Hash[parentSealed] = ParentHash[current]

\* Every hash the executed block is given is that of its own ancestor of that
\* number: it is reached from the current header by parent hashes only.
AnswersAreAncestors ==
  \A a \in answers: \E k \in 1..Len(Ancestors):
    /\ a = <<Number[Ancestors[k]], Hash[Ancestors[k]]>>
    /\ \A i \in 1..k: Hash[Chain(i + 1)] = ParentHash[Chain(i)]

\* No entry of the map is overwritten by a later header: once the headers are
\* accepted each ancestor is found under its number, and nothing else is.
EveryAncestorAnswered ==
  Accepted =>
    /\ DOMAIN blockHashes = {Number[Ancestors[k]]: k \in 1..Len(Ancestors)}
    /\ \A k \in 1..Len(Ancestors): blockHashes[Number[Ancestors[k]]] = Hash[Ancestors[k]]

\* "Validates that headers (current block + ancestors) are connected correctly
\* (parent-child relationship)" (lib.rs:85): whatever the order and the origin of
\* the headers, no good witness is rejected, and no bad one is accepted, but that a
\* release build goes on above a header of number 0.
AcceptedIffConnected ==
  /\ Accepted =>
       /\ witness # <<>>
       /\ \A k \in 1..Len(witness):
            ParentAndChild(witness[k], Child(k)) \/ Wrapped(witness[k], Child(k))
  /\ result = "rejected" => ~GoodWitness
=============================================================================
