-------------------------- MODULE HeaderChainProofs --------------------------
(***************************************************************************)
(* Proofs about HeaderChain, for any headers, any hash function without     *)
(* collisions, any width of the block number and any list of ancestors that *)
(* is shorter than there are numbers.                                       *)
(***************************************************************************)
EXTENDS HeaderChain, TLAPS, SequenceTheorems

USE HeadersAssumption, AncestorsAssumption

-----------------------------------------------------------------------------
\* The list of the guest is the witness read backwards.
LEMMA AncestorsReversed ==
  ASSUME witness \in Seq(Headers)
  PROVE  /\ Ancestors \in Seq(Headers)
         /\ Len(Ancestors) = Len(witness)
         /\ \A k \in 1..Len(witness): Ancestors[k] = witness[Len(witness) + 1 - k]
<1>1. Ancestors = [i \in 1..Len(witness) |-> witness[(Len(witness) - i) + 1]]
  BY DEF Ancestors, FromExecutionWitness, Reverse
<1>2. Len(witness) \in Nat
  BY LenProperties
<1>3. \A i \in 1..Len(witness): witness[(Len(witness) - i) + 1] \in Headers
  BY <1>2, ElementOfSeq
<1>4. Ancestors \in [1..Len(witness) -> Headers]
  BY <1>1, <1>3
<1> QED BY <1>1, <1>2, <1>4, LenProperties, SeqDef

\* Every header of the loop is a header.
LEMMA ChainHeaders ==
  ASSUME TypeOK
  PROVE  /\ Length \in Nat /\ Length = Len(witness) + 1 /\ Length <= MaxNumber + 1
         /\ \A k \in 1..Length: Chain(k) \in Headers
         /\ Chain(1) = current
<1>1. witness \in Seq(Headers) /\ Len(witness) <= MaxAncestors /\ current \in Headers
  BY DEF TypeOK
<1>2. /\ Ancestors \in Seq(Headers)
      /\ Len(Ancestors) = Len(witness)
  BY <1>1, AncestorsReversed
<1>3. Len(witness) \in Nat
  BY <1>1, LenProperties
<1>4. \A k \in 1..Len(witness): Ancestors[k] \in Headers
  BY <1>2, ElementOfSeq
<1>5. \A k \in 1..Length: k = 1 \/ k - 1 \in 1..Len(witness)
  BY <1>2, <1>3 DEF Length
<1> QED BY <1>1, <1>2, <1>3, <1>4, <1>5 DEF Chain, Length

\* Two headers that the loop takes for parent and child.
Linked(parent, child) == ParentAndChild(parent, child) \/ Wrapped(parent, child)

\* Such headers have the numbers of the loop's test.
LEMMA LinkedNumbers ==
  ASSUME NEW parent \in Headers, NEW child \in Headers
  PROVE  /\ Linked(parent, child) =>
              Hash[parent] = ParentHash[child] /\ Number[parent] = Pred(Number[child])
         /\ /\ Hash[parent] = ParentHash[child] /\ Number[parent] = Pred(Number[child])
            /\ ~Underflows(Number[child]) /\ checked \in BOOLEAN
            => Linked(parent, child)
         /\ ParentAndChild(parent, child) =>
              Number[child] # 0 /\ Number[parent] = Pred(Number[child])
<1>1. Number[parent] \in 0..MaxNumber /\ Number[child] \in 0..MaxNumber
  OBVIOUS
<1> QED BY <1>1 DEF Linked, ParentAndChild, Wrapped, Pred, Underflows

\* The loop meets the witness from its end: the k-th header from the end, then the
\* one before it.
LEMMA WitnessChain ==
  ASSUME TypeOK
  PROVE  /\ Len(witness) \in Nat /\ Length = Len(witness) + 1
         /\ witness = <<>> <=> Len(witness) = 0
         /\ \A k \in 1..Len(witness):
              /\ Len(witness) + 1 - k \in 1..Len(witness)
              /\ Chain(k + 1) = witness[Len(witness) + 1 - k]
              /\ Chain(k) = Child(Len(witness) + 1 - k)
<1> DEFINE n == Len(witness)
<1>1. witness \in Seq(Headers) /\ n \in Nat
  BY LenProperties DEF TypeOK
<1>2. Length = n + 1
  BY ChainHeaders
<1>3. \A k \in 1..n: Ancestors[k] = witness[n + 1 - k]
  BY <1>1, AncestorsReversed
<1>4. witness = <<>> <=> n = 0
  BY <1>1, EmptySeq
<1>5. ASSUME NEW k \in 1..n
      PROVE  n + 1 - k \in 1..n /\ Chain(k + 1) = witness[n + 1 - k] /\ Chain(k) = Child(n + 1 - k)
  <2>1. n + 1 - k \in 1..n /\ (n + 1 - k = n <=> k = 1)
    BY <1>1
  <2>2. Chain(k + 1) = witness[n + 1 - k]
    BY <1>1, <1>3 DEF Chain
  <2>3. CASE k = 1
    BY <2>1, <2>2, <2>3 DEF Chain, Child, n
  <2>4. CASE k # 1
    <3>1. k - 1 \in 1..n /\ n + 1 - (k - 1) = (n + 1 - k) + 1
      BY <1>1, <2>4
    <3>2. Chain(k) = witness[(n + 1 - k) + 1]
      BY <3>1, <2>4, <1>3 DEF Chain
    <3> QED BY <3>2, <2>1, <2>2, <2>4 DEF Child, n
  <2> QED BY <2>1, <2>2, <2>3, <2>4
<1> QED BY <1>1, <1>2, <1>4, <1>5

\* The links of a good witness, as the loop meets them.
LEMMA GoodWitnessChain ==
  ASSUME TypeOK, GoodWitness
  PROVE  Length > 1 /\ \A k \in 1..Length - 1: ParentAndChild(Chain(k + 1), Chain(k))
<1>1. Length > 1 /\ Length - 1 = Len(witness)
  BY WitnessChain DEF GoodWitness
<1>2. ASSUME NEW k \in 1..Length - 1 PROVE ParentAndChild(Chain(k + 1), Chain(k))
  <2>1. /\ Len(witness) + 1 - k \in 1..Len(witness)
        /\ Chain(k + 1) = witness[Len(witness) + 1 - k]
        /\ Chain(k) = Child(Len(witness) + 1 - k)
    BY <1>1, WitnessChain
  <2>2. ParentAndChild(witness[Len(witness) + 1 - k], Child(Len(witness) + 1 - k))
    BY <2>1 DEF GoodWitness
  <2> QED BY <2>1, <2>2
<1> QED BY <1>1, <1>2

-----------------------------------------------------------------------------
\* Type correctness: the loop never leaves the list, and nothing but hashes
\* gets into the map and to the executed block.
THEOREM TypeCorrect == Spec => []TypeOK
<1>1. Init => TypeOK
  <2> SUFFICES ASSUME Init PROVE TypeOK
    OBVIOUS
  <2>1. PICK n \in 0..MaxAncestors: witness \in [1..n -> Headers]
    BY DEF Init, Lists
  <2>2. witness \in Seq(Headers) /\ Len(witness) = n
    BY <2>1, SeqDef, LenProperties
  <2>3. Length \in Nat
    BY <2>2, AncestorsReversed DEF Length
  <2> QED BY <2>1, <2>2, <2>3 DEF Init, TypeOK, Result
<1>2. TypeOK /\ [Next]_vars => TypeOK'
  <2> SUFFICES ASSUME TypeOK, [Next]_vars PROVE TypeOK'
    OBVIOUS
  <2>1. checked' = checked /\ current' = current /\ witness' = witness
    BY DEF Next, vars, NoParentNumber, Start, SealCurrent, SealAncestor, RejectAncestor,
           Return, NoParent, BlockHashRef, BlockHashMissing, Ended, Reject, Seal
  <2>2. Length' = Length
    BY <2>1 DEF Length, Ancestors
  <2>3. /\ Length \in Nat
        /\ InLoop => next + 1 \in 1..Length /\ Chain(next + 1) \in Headers
    BY ChainHeaders DEF InLoop, TypeOK
  <2>4. ASSUME NEW h \in Headers, InLoop, Seal(h)
        PROVE  /\ next' \in 0..Length' /\ sealedPrev' \in Headers
               /\ parentSealed' \in Headers \cup {NoHeader}
               /\ answers' = answers /\ result' = result
    BY <2>2, <2>3, <2>4 DEF Seal, TypeOK
  <2>5. CASE SealCurrent
    BY <2>1, <2>2, <2>3, <2>4, <2>5 DEF SealCurrent, TypeOK, Result
  <2>6. CASE SealAncestor
    <3> DEFINE h == Chain(next + 1)
    <3>1. h \in Headers /\ InLoop /\ Seal(h) /\ InsertHash(h)
      BY <2>3, <2>6 DEF SealAncestor
    <3> HIDE DEF h
    <3>2. Number[h] \in 0..MaxNumber /\ Hash[h] \in Hashes
      BY <3>1
    <3>3. DOMAIN blockHashes' \subseteq 0..MaxNumber
      BY <3>1, <3>2 DEF InsertHash, TypeOK
    <3>4. \A n \in DOMAIN blockHashes': blockHashes'[n] \in Hashes
      BY <3>1, <3>2 DEF InsertHash, TypeOK
    <3> QED BY <2>1, <2>2, <2>4, <3>1, <3>3, <3>4 DEF TypeOK, Result
  <2>7. CASE \E n \in 0..MaxNumber: BlockHashRef(n)
    BY <2>1, <2>2, <2>7 DEF BlockHashRef, TypeOK, Result
  <2>8. CASE NoParentNumber \/ Start \/ RejectAncestor \/ Return \/ NoParent
             \/ (\E n \in 0..MaxNumber: BlockHashMissing(n)) \/ Ended \/ UNCHANGED vars
    <3>1. UNCHANGED <<next, sealedPrev, parentSealed, blockHashes, answers>> /\ result' \in Result
      BY <2>8 DEF NoParentNumber, Start, RejectAncestor, Return, NoParent, BlockHashMissing,
                  Ended, vars, Reject, TypeOK, Result
    <3> QED BY <2>1, <2>2, <3>1 DEF TypeOK
  <2> QED BY <2>5, <2>6, <2>7, <2>8 DEF Next
<1> QED BY <1>1, <1>2, PTL DEF Spec

-----------------------------------------------------------------------------
\* What the loop has established after `next` headers.

\* The number of the k-th header of a connected chain, with the wrap at 0.
NumberAt(k) ==
  IF k - 1 <= Number[current] THEN Number[current] - (k - 1)
                              ELSE Number[current] + (MaxNumber + 1) - (k - 1)

LinkedSoFar ==
  /\ sealedPrev = IF next = 0 THEN NoHeader ELSE Chain(next)
  /\ \A k \in 1..Length: k < next => Linked(Chain(k + 1), Chain(k))
  /\ \A k \in 1..Length: k <= next => Number[Chain(k)] = NumberAt(k)

ParentSoFar == parentSealed = IF next > 1 THEN Chain(2) ELSE NoHeader

MapSoFar ==
  /\ \A n \in DOMAIN blockHashes: \E k \in 2..Length: k <= next /\ n = Number[Chain(k)]
  /\ \A k \in 2..Length: k <= next =>
       /\ Number[Chain(k)] \in DOMAIN blockHashes
       /\ blockHashes[Number[Chain(k)]] = Hash[Chain(k)]

EndsWell ==
  /\ result = "input" => next = 0
  /\ Accepted => next = Length /\ parentSealed # NoHeader
  /\ answers # {} => Accepted
  /\ \A a \in answers: \E k \in 2..Length: a = <<Number[Chain(k)], Hash[Chain(k)]>>
  /\ result = "rejected" => ~GoodWitness

ChainInv == TypeOK /\ LinkedSoFar /\ ParentSoFar /\ MapSoFar /\ EndsWell

\* A chain that is not longer than there are numbers has each of them once.
LEMMA NumbersDistinct ==
  ASSUME TypeOK, NEW i \in 1..Length, NEW j \in 1..Length, i # j
  PROVE  NumberAt(i) # NumberAt(j)
<1>1. Length \in Nat /\ Length <= MaxNumber + 1
  BY ChainHeaders
<1>2. Number[current] \in 0..MaxNumber
  BY DEF TypeOK
<1> QED BY <1>1, <1>2 DEF NumberAt

\* The number before that of the k-th header is that of the next one.
LEMMA NumberBefore ==
  ASSUME TypeOK, NEW k \in 1..Length, k + 1 <= Length
  PROVE  Pred(NumberAt(k)) = NumberAt(k + 1)
<1>1. Length \in Nat /\ Length <= MaxNumber + 1
  BY ChainHeaders
<1>2. Number[current] \in 0..MaxNumber
  BY DEF TypeOK
<1> QED BY <1>1, <1>2 DEF NumberAt, Pred

\* The input is never changed, and so neither is the chain.
LEMMA InputFixed ==
  ASSUME [Next]_vars
  PROVE  /\ checked' = checked /\ current' = current /\ witness' = witness
         /\ Length' = Length /\ Ancestors' = Ancestors
         /\ \A k \in Nat: Chain(k)' = Chain(k)
         /\ \A p, c: Linked(p, c)' <=> Linked(p, c)
         /\ GoodWitness' <=> GoodWitness
<1>1. checked' = checked /\ current' = current /\ witness' = witness
  BY DEF Next, vars, NoParentNumber, Start, SealCurrent, SealAncestor, RejectAncestor,
         Return, NoParent, BlockHashRef, BlockHashMissing, Ended, Reject, Seal
<1>2. Ancestors' = Ancestors
  BY <1>1 DEF Ancestors
<1>3. \A p, c: Linked(p, c)' <=> Linked(p, c)
  BY <1>1 DEF Linked, ParentAndChild, Wrapped
<1>4. GoodWitness' <=> GoodWitness
  BY <1>1 DEF GoodWitness, ParentAndChild, Child
<1> QED BY <1>1, <1>2, <1>3, <1>4 DEF Length, Chain

LEMMA ChainInvInit == ASSUME Init, TypeOK PROVE ChainInv
<1>1. Length \in Nat
  BY ChainHeaders
<1> QED BY <1>1 DEF Init, ChainInv, LinkedSoFar, ParentSoFar, MapSoFar, EndsWell, Accepted

\* The steps that leave the loop's variables alone.
LEMMA ChainInvOutside ==
  ASSUME ChainInv, [Next]_vars, TypeOK',
         UNCHANGED <<next, sealedPrev, parentSealed, blockHashes>>, EndsWell'
  PROVE  ChainInv'
<1>1. Length \in Nat /\ Length' = Length /\ current' = current
      /\ \A k \in Nat: Chain(k)' = Chain(k)
      /\ \A p, c: Linked(p, c)' <=> Linked(p, c)
  BY InputFixed, ChainHeaders DEF ChainInv
<1>2. next \in Nat
  BY <1>1 DEF ChainInv, TypeOK
<1>3. LinkedSoFar'
  <2>1. sealedPrev' = (IF next = 0 THEN NoHeader ELSE Chain(next))'
    BY <1>1, <1>2 DEF ChainInv, LinkedSoFar
  <2>2. \A k \in 1..Length: k < next' => Linked(Chain(k + 1), Chain(k))'
    BY <1>1, <1>2 DEF ChainInv, LinkedSoFar, Linked, ParentAndChild, Wrapped
  <2> QED BY <1>1, <1>2, <2>1, <2>2 DEF ChainInv, LinkedSoFar, NumberAt
<1>4. ParentSoFar'
  BY <1>1 DEF ChainInv, ParentSoFar
<1>5. MapSoFar'
  BY <1>1 DEF ChainInv, MapSoFar
<1> QED BY <1>3, <1>4, <1>5 DEF ChainInv

LEMMA ChainInvSealCurrent ==
  ASSUME ChainInv, SealCurrent, TypeOK'
  PROVE  ChainInv'
<1>1. /\ Length \in Nat /\ Length' = Length /\ current' = current /\ 1 \in 1..Length
      /\ \A k \in Nat: Chain(k)' = Chain(k)
      /\ \A k \in 1..Length: Chain(k) \in Headers
      /\ Chain(1) = current
  BY InputFixed, ChainHeaders DEF ChainInv, Next
<1>2. next = 0
  BY <1>1 DEF ChainInv, LinkedSoFar, SealCurrent, InLoop, TypeOK
<1>3. /\ next' = 1 /\ sealedPrev' = current /\ result' = result /\ answers' = answers
      /\ blockHashes' = blockHashes /\ result = "loop"
  BY <1>1, <1>2 DEF SealCurrent, Seal, InLoop
<1>4. Number[current] \in 0..MaxNumber /\ Number[current] # Pred(Number[current])
  BY DEF ChainInv, TypeOK, Pred
<1>5. parentSealed' = NoHeader
  BY <1>1, <1>2, <1>4 DEF SealCurrent, Seal, IsParent, ChainInv, ParentSoFar
<1>6. LinkedSoFar'
  BY <1>1, <1>3, <1>4 DEF LinkedSoFar, NumberAt
<1>7. ParentSoFar'
  BY <1>3, <1>5 DEF ParentSoFar
<1>8. MapSoFar'
  BY <1>1, <1>2, <1>3 DEF ChainInv, MapSoFar
<1>9. EndsWell'
  BY <1>1, <1>3 DEF ChainInv, EndsWell, Accepted
<1> QED BY <1>6, <1>7, <1>8, <1>9 DEF ChainInv

LEMMA ChainInvSealAncestor ==
  ASSUME ChainInv, SealAncestor, TypeOK'
  PROVE  ChainInv'
<1> DEFINE h == Chain(next + 1)
<1>1. /\ Length \in Nat /\ Length' = Length /\ current' = current
      /\ \A k \in Nat: Chain(k)' = Chain(k)
      /\ \A k \in 1..Length: Chain(k) \in Headers
  BY InputFixed, ChainHeaders DEF ChainInv, Next
<1>2. next \in 1..Length /\ next + 1 \in 2..Length /\ next + 1 \in 1..Length /\ sealedPrev = Chain(next)
  BY <1>1 DEF ChainInv, LinkedSoFar, SealAncestor, InLoop, TypeOK
<1>3. /\ next' = next + 1 /\ sealedPrev' = h /\ h \in Headers
      /\ result' = result /\ answers' = answers /\ result = "loop"
  BY <1>1, <1>2 DEF SealAncestor, Seal, InLoop
<1>4. Linked(h, Chain(next)) /\ Number[h] = Pred(Number[Chain(next)])
  <2>1. Connected(h) /\ Chain(next) \in Headers /\ checked \in BOOLEAN
    BY <1>1, <1>2 DEF SealAncestor, ChainInv, TypeOK
  <2> QED BY <1>2, <1>3, <2>1, LinkedNumbers DEF Connected
<1>5. Number[h] = NumberAt(next + 1)
  <2>1. Number[Chain(next)] = NumberAt(next)
    BY <1>2 DEF ChainInv, LinkedSoFar
  <2>2. Pred(NumberAt(next)) = NumberAt(next + 1)
    BY <1>1, <1>2, NumberBefore DEF ChainInv
  <2>3. Number[h] = Pred(Number[Chain(next)])
    BY <1>4
  <2> QED BY <2>1, <2>2, <2>3 DEF Pred
<1>6. LinkedSoFar'
  <2>1. sealedPrev' = (IF next = 0 THEN NoHeader ELSE Chain(next))'
    <3>1. Ancestors' = Ancestors
      BY InputFixed DEF Next
    <3> QED BY <1>1, <1>2, <1>3, <3>1 DEF Chain
  <2>2. \A k \in 1..Length: k < next + 1 => Linked(Chain(k + 1), Chain(k))
    <3> SUFFICES ASSUME NEW k \in 1..Length, k < next + 1
                 PROVE  Linked(Chain(k + 1), Chain(k))
      OBVIOUS
    <3>1. CASE k = next
      BY <3>1, <1>4
    <3>2. CASE k # next
      BY <3>2, <1>1, <1>2 DEF ChainInv, LinkedSoFar
    <3> QED BY <3>1, <3>2
  <2>3. \A k \in 1..Length: k <= next + 1 => Number[Chain(k)] = NumberAt(k)
    <3> SUFFICES ASSUME NEW k \in 1..Length, k <= next + 1
                 PROVE  Number[Chain(k)] = NumberAt(k)
      OBVIOUS
    <3>1. CASE k = next + 1
      BY <3>1, <1>5
    <3>2. CASE k # next + 1
      BY <3>2, <1>1, <1>2 DEF ChainInv, LinkedSoFar
    <3> QED BY <3>1, <3>2
  <2>4. \A k \in 1..Length: k < next' => Linked(Chain(k + 1), Chain(k))'
    <3>1. checked' = checked
      BY InputFixed DEF Next
    <3> QED BY <1>1, <1>2, <1>3, <2>2, <3>1 DEF Linked, ParentAndChild, Wrapped
  <2> QED BY <1>1, <1>2, <1>3, <2>1, <2>3, <2>4 DEF LinkedSoFar, NumberAt
<1>7. ParentSoFar'
  <2>1. IsParent(h) <=> next = 1
    <3>1. Number[current] = NumberAt(1) /\ Pred(NumberAt(1)) = NumberAt(2)
      <4>1. 1 \in 1..Length /\ 1 + 1 <= Length
        BY <1>1, <1>2
      <4>2. Pred(NumberAt(1)) = NumberAt(1 + 1)
        BY <4>1, NumberBefore DEF ChainInv
      <4>3. Number[current] \in 0..MaxNumber
        BY DEF ChainInv, TypeOK
      <4> QED BY <4>2, <4>3 DEF NumberAt
    <3>2. 2 \in 1..Length
      BY <1>1, <1>2
    <3>3. next # 1 => NumberAt(next + 1) # NumberAt(2)
      BY <1>2, <3>2, NumbersDistinct DEF ChainInv
    <3>4. IsParent(h) <=> NumberAt(next + 1) = NumberAt(2)
      BY <1>5, <3>1 DEF IsParent
    <3> QED BY <3>3, <3>4 DEF NumberAt
  <2>2. parentSealed' = IF IsParent(h) THEN h ELSE parentSealed
    BY DEF SealAncestor, Seal
  <2>3. CASE next = 1
    BY <1>1, <1>3, <2>1, <2>2, <2>3 DEF ParentSoFar, Chain
  <2>4. CASE next # 1
    BY <1>1, <1>2, <1>3, <2>1, <2>2, <2>4 DEF ChainInv, ParentSoFar
  <2> QED BY <2>3, <2>4
<1>8. MapSoFar'
  <2>1. blockHashes' = [n \in DOMAIN blockHashes \cup {Number[h]} |->
                          IF n = Number[h] THEN Hash[h] ELSE blockHashes[n]]
    BY DEF SealAncestor, InsertHash
  <2>2. \A n \in DOMAIN blockHashes': \E k \in 2..Length: k <= next + 1 /\ n = Number[Chain(k)]
    <3> SUFFICES ASSUME NEW n \in DOMAIN blockHashes'
                 PROVE  \E k \in 2..Length: k <= next + 1 /\ n = Number[Chain(k)]
      OBVIOUS
    <3>1. CASE n = Number[h]
      BY <3>1, <1>2
    <3>2. CASE n # Number[h]
      BY <3>2, <2>1, <1>1, <1>2 DEF ChainInv, MapSoFar
    <3> QED BY <3>1, <3>2
  <2>3. ASSUME NEW k \in 2..Length, k <= next + 1
        PROVE  Number[Chain(k)] \in DOMAIN blockHashes' /\ blockHashes'[Number[Chain(k)]] = Hash[Chain(k)]
    <3>1. CASE k = next + 1
      BY <3>1, <2>1
    <3>2. CASE k # next + 1
      <4>1. k <= next /\ k \in 1..Length
        BY <3>2, <2>3, <1>1, <1>2
      <4>2. Number[Chain(k)] = NumberAt(k)
        BY <4>1 DEF ChainInv, LinkedSoFar
      <4>3. NumberAt(k) # NumberAt(next + 1)
        BY <3>2, <4>1, <1>2, NumbersDistinct DEF ChainInv
      <4>4. Number[Chain(k)] # Number[h]
        BY <4>2, <4>3, <1>5
      <4>5. Number[Chain(k)] \in DOMAIN blockHashes /\ blockHashes[Number[Chain(k)]] = Hash[Chain(k)]
        BY <4>1, <2>3 DEF ChainInv, MapSoFar
      <4> QED BY <2>1, <4>4, <4>5
    <3> QED BY <3>1, <3>2
  <2> QED BY <1>1, <1>3, <2>2, <2>3 DEF MapSoFar
<1>9. EndsWell'
  BY <1>1, <1>3 DEF ChainInv, EndsWell, Accepted
<1> QED BY <1>6, <1>7, <1>8, <1>9 DEF ChainInv

\* The steps that end the loop or come after it.
LEMMA ChainInvEnds ==
  ASSUME ChainInv, TypeOK', [Next]_vars, ~SealCurrent, ~SealAncestor
  PROVE  ChainInv'
<1>1. /\ Length \in Nat /\ Length' = Length /\ current' = current
      /\ \A k \in Nat: Chain(k)' = Chain(k)
      /\ Length > 0 /\ Chain(1) = current
  BY InputFixed, ChainHeaders, LenProperties DEF ChainInv, TypeOK
<1>2. GoodWitness' <=> GoodWitness
  BY InputFixed
<1>3. UNCHANGED <<next, sealedPrev, parentSealed, blockHashes>>
  BY DEF Next, vars, NoParentNumber, Start, RejectAncestor, Return, NoParent,
         BlockHashRef, BlockHashMissing, Ended, Reject
<1>4. GoodWitness => /\ Length > 1
                     /\ \A k \in 1..Length - 1: ParentAndChild(Chain(k + 1), Chain(k))
  BY GoodWitnessChain DEF ChainInv
<1>5. EndsWell'
  <2>1. CASE NoParentNumber
    <3>1. GoodWitness => ParentAndChild(Chain(2), current)
      <4>1. GoodWitness => 1 \in 1..Length - 1 /\ 1 + 1 = 2
        BY <1>1, <1>4
      <4> QED BY <1>1, <1>4, <4>1
    <3>2. ~GoodWitness
      <4>1. GoodWitness => Chain(2) \in Headers
        BY <1>1, <1>4, ChainHeaders DEF ChainInv
      <4>2. Number[current] = 0 /\ current \in Headers
        BY <2>1 DEF NoParentNumber, Underflows, ChainInv, TypeOK
      <4> QED BY <3>1, <4>1, <4>2, LinkedNumbers
    <3> QED BY <1>1, <1>2, <2>1, <3>2 DEF NoParentNumber, Reject, ChainInv, EndsWell, Accepted
  <2>2. CASE Start
    BY <1>1, <1>2, <2>2 DEF Start, ChainInv, EndsWell, Accepted
  <2>3. CASE RejectAncestor
    <3>1. next \in 1..Length /\ next < Length /\ sealedPrev = Chain(next)
      BY <1>1, <2>3 DEF RejectAncestor, InLoop, ChainInv, LinkedSoFar, TypeOK
    <3>2. ~ParentAndChild(Chain(next + 1), Chain(next))
      <4>1. ~Connected(Chain(next + 1))
        BY <2>3 DEF RejectAncestor
      <4>2. Chain(next) \in Headers /\ Chain(next + 1) \in Headers
        BY <1>1, <3>1, ChainHeaders DEF ChainInv
      <4> QED BY <3>1, <4>1, <4>2, LinkedNumbers DEF Connected, Underflows, ParentAndChild
    <3>3. ~GoodWitness
      BY <1>1, <1>4, <3>1, <3>2
    <3> QED BY <1>1, <1>2, <1>3, <2>3, <3>3 DEF RejectAncestor, InLoop, Reject, ChainInv, EndsWell, Accepted
  <2>4. CASE Return
    BY <1>1, <1>2, <1>3, <2>4 DEF Return, ChainInv, EndsWell, Accepted
  <2>5. CASE NoParent
    <3>1. Length = 1
      BY <1>1, <2>5, ChainHeaders DEF NoParent, ChainInv, ParentSoFar, TypeOK
    <3> QED BY <1>1, <1>2, <1>3, <1>4, <2>5, <3>1 DEF NoParent, Reject, ChainInv, EndsWell, Accepted
  <2>6. ASSUME NEW n \in 0..MaxNumber, BlockHashRef(n)
        PROVE  EndsWell'
    <3>1. \E k \in 2..Length: <<n, blockHashes[n]>> = <<Number[Chain(k)], Hash[Chain(k)]>>
      BY <2>6 DEF BlockHashRef, ChainInv, MapSoFar
    <3>2. answers' = answers \cup {<<n, blockHashes[n]>>} /\ result' = result /\ result = "returned"
      BY <2>6 DEF BlockHashRef
    <3>3. \A a \in answers': \E k \in 2..Length: a = <<Number[Chain(k)], Hash[Chain(k)]>>
      BY <3>1, <3>2 DEF ChainInv, EndsWell
    <3> QED BY <1>1, <1>2, <1>3, <3>2, <3>3 DEF ChainInv, EndsWell, Accepted
  <2>7. CASE (\E n \in 0..MaxNumber: BlockHashMissing(n)) \/ Ended \/ UNCHANGED vars
    <3>1. answers' = answers /\ (result' = result \/ (result = "returned" /\ result' = "unanswered"))
      BY <2>7 DEF BlockHashMissing, Ended, vars
    <3> QED BY <1>1, <1>2, <1>3, <3>1 DEF ChainInv, EndsWell, Accepted
  <2> QED BY <2>1, <2>2, <2>3, <2>4, <2>5, <2>6, <2>7 DEF Next
<1> QED BY <1>3, <1>5, ChainInvOutside

THEOREM ChainInvariant == Spec => []ChainInv
<1>1. Init /\ TypeOK => ChainInv
  BY ChainInvInit
<1>2. ChainInv /\ TypeOK' /\ [Next]_vars => ChainInv'
  BY ChainInvSealCurrent, ChainInvSealAncestor, ChainInvEnds
<1> QED BY <1>1, <1>2, TypeCorrect, PTL DEF Spec

\* The code accepts the witnesses in which each header names the one before it by
\* hash and number, and the current block names the last of them; besides them, in a
\* release build, only those that go on above number 0.
THEOREM ExactlyGoodWitnesses == Spec => []AcceptedIffConnected
<1>1. ChainInv => AcceptedIffConnected
  <2> SUFFICES ASSUME ChainInv PROVE AcceptedIffConnected
    OBVIOUS
  <2> DEFINE n == Len(witness)
  <2>1. Accepted => Length > 1 /\ next = Length
    BY ChainHeaders DEF ChainInv, EndsWell, ParentSoFar
  <2>2. Accepted => \A k \in 1..Length - 1: Linked(Chain(k + 1), Chain(k))
    BY <2>1, ChainHeaders DEF ChainInv, LinkedSoFar
  <2>3. n \in Nat /\ Length = n + 1 /\ (witness = <<>> <=> n = 0)
    BY WitnessChain DEF ChainInv
  <2>4. ASSUME Accepted, NEW k \in 1..n PROVE Linked(witness[k], Child(k))
    <3>1. n + 1 - k \in 1..Length - 1 /\ n + 1 - k \in 1..n /\ n + 1 - (n + 1 - k) = k
      BY <2>3
    <3>2. Chain((n + 1 - k) + 1) = witness[k] /\ Chain(n + 1 - k) = Child(k)
      BY <3>1, WitnessChain DEF ChainInv
    <3>3. Linked(Chain((n + 1 - k) + 1), Chain(n + 1 - k))
      BY <2>2, <2>4, <3>1
    <3> QED BY <3>2, <3>3
  <2>5. Accepted => witness # <<>>
    BY <2>1, <2>3
  <2>6. result = "rejected" => ~GoodWitness
    BY DEF ChainInv, EndsWell
  <2> QED BY <2>4, <2>5, <2>6 DEF AcceptedIffConnected, Linked
<1> QED BY <1>1, ChainInvariant, PTL

\* The sealed parent is the first ancestor, and the one the current block names.
THEOREM ParentIsFirst == Spec => []ParentIsFirstAncestor
<1>1. ChainInv => ParentIsFirstAncestor
  <2> SUFFICES ASSUME ChainInv, Accepted
               PROVE  Ancestors # <<>> /\ parentSealed = Ancestors[1]
                      /\ Hash[parentSealed] = ParentHash[current]
    BY DEF ParentIsFirstAncestor
  <2>1. /\ Length \in Nat /\ Length > 1 /\ next = Length /\ parentSealed = Chain(2)
        /\ Chain(1) = current
    BY ChainHeaders DEF ChainInv, EndsWell, ParentSoFar
  <2>2. Linked(Chain(2), Chain(1))
    <3>1. 1 \in 1..Length /\ 1 < next /\ 1 + 1 = 2
      BY <2>1
    <3>2. Linked(Chain(1 + 1), Chain(1))
      BY <3>1 DEF ChainInv, LinkedSoFar
    <3> QED BY <3>2
  <2>3. Chain(2) = Ancestors[1]
    BY DEF Chain
  <2>4. Len(Ancestors) > 0
    BY <2>1, AncestorsReversed, LenProperties DEF Length, ChainInv, TypeOK
  <2> QED BY <2>1, <2>2, <2>3, <2>4 DEF Linked, ParentAndChild, Wrapped
<1> QED BY <1>1, ChainInvariant, PTL

\* The map of hashes has one entry for each ancestor, and no other.
THEOREM MapIsAncestors == Spec => []EveryAncestorAnswered
<1>1. ChainInv => EveryAncestorAnswered
  <2> SUFFICES ASSUME ChainInv, Accepted
               PROVE  /\ DOMAIN blockHashes = {Number[Ancestors[k]]: k \in 1..Len(Ancestors)}
                      /\ \A k \in 1..Len(Ancestors): blockHashes[Number[Ancestors[k]]] = Hash[Ancestors[k]]
    BY DEF EveryAncestorAnswered
  <2>1. next = Length /\ Len(Ancestors) \in Nat /\ Length = Len(Ancestors) + 1
    BY AncestorsReversed, LenProperties DEF ChainInv, EndsWell, TypeOK, Length
  <2>2. \A k \in 1..Len(Ancestors): k + 1 \in 2..Length /\ k + 1 <= next /\ Chain(k + 1) = Ancestors[k]
    BY <2>1 DEF Chain
  <2>3. \A k \in 2..Length: k - 1 \in 1..Len(Ancestors) /\ Chain(k) = Ancestors[k - 1]
    BY <2>1 DEF Chain
  <2>4. \A n: n \in DOMAIN blockHashes <=> \E k \in 1..Len(Ancestors): n = Number[Ancestors[k]]
    <3>1. ASSUME NEW n \in DOMAIN blockHashes
          PROVE  \E k \in 1..Len(Ancestors): n = Number[Ancestors[k]]
      <4>1. PICK k \in 2..Length: n = Number[Chain(k)]
        BY DEF ChainInv, MapSoFar
      <4> QED BY <4>1, <2>3
    <3>2. ASSUME NEW k \in 1..Len(Ancestors)
          PROVE  Number[Ancestors[k]] \in DOMAIN blockHashes
      BY <2>2 DEF ChainInv, MapSoFar
    <3> QED BY <3>1, <3>2
  <2>5. \A k \in 1..Len(Ancestors): blockHashes[Number[Ancestors[k]]] = Hash[Ancestors[k]]
    BY <2>2 DEF ChainInv, MapSoFar
  <2> QED BY <2>4, <2>5
<1> QED BY <1>1, ChainInvariant, PTL

\* What BLOCKHASH answers is reached from the current block by parent hashes.
THEOREM AnswersReached == Spec => []AnswersAreAncestors
<1>1. ChainInv => AnswersAreAncestors
  <2> SUFFICES ASSUME ChainInv, NEW a \in answers
               PROVE  \E k \in 1..Len(Ancestors):
                        /\ a = <<Number[Ancestors[k]], Hash[Ancestors[k]]>>
                        /\ \A i \in 1..k: Hash[Chain(i + 1)] = ParentHash[Chain(i)]
    BY DEF AnswersAreAncestors
  <2>1. next = Length /\ Len(Ancestors) \in Nat /\ Length = Len(Ancestors) + 1
    BY AncestorsReversed, LenProperties DEF ChainInv, EndsWell, TypeOK, Length
  <2>2. PICK k \in 2..Length: a = <<Number[Chain(k)], Hash[Chain(k)]>>
    BY DEF ChainInv, EndsWell
  <2>3. k - 1 \in 1..Len(Ancestors) /\ Chain(k) = Ancestors[k - 1]
    BY <2>1 DEF Chain
  <2>4. \A i \in 1..k - 1: Hash[Chain(i + 1)] = ParentHash[Chain(i)]
    <3>1. \A i \in 1..k - 1: i \in 1..Length /\ i < next
      BY <2>1
    <3> QED BY <3>1 DEF ChainInv, LinkedSoFar, Linked, ParentAndChild, Wrapped
  <2> QED BY <2>2, <2>3, <2>4
<1> QED BY <1>1, ChainInvariant, PTL
=============================================================================
