--------------------------- MODULE MPTWalkProofs ---------------------------
(***************************************************************************)
(* What get, insert and remove of the sparse Merkle Patricia trie do, for   *)
(* tries of any size with keys of any length: proofs about MPTWalk.         *)
(***************************************************************************)
EXTENDS MPTWalk, FiniteSetTheorems, SequenceTheorems, WellFoundedInduction, TLAPS

-----------------------------------------------------------------------------
\* Induction.  The lengths of keys are numbers, and a set of numbers that is not
\* empty has a least one, because the intervals below its members are finite.

\* A set of numbers has a least one.
LEMMA LeastNumber ==
  ASSUME NEW S \in SUBSET Nat, S # {}
  PROVE  \E m \in S: \A k \in S: m <= k
<1> DEFINE U == {0..m: m \in S}
<1>1. U \subseteq FiniteSubsetsOf(Nat) /\ U # {}
  <2>1. \A m \in S: IsFiniteSet(0..m) /\ 0..m \in SUBSET Nat
    BY FS_Interval
  <2> QED
    BY <2>1 DEF FiniteSubsetsOf
<1>2. PICK u \in U: \A v \in U: <<v, u>> \notin StrictSubsetOrdering(Nat)
  <2> HIDE DEF U
  <2> QED
    BY <1>1, WFMin, FS_StrictSubsetOrderingWellFounded
<1>3. PICK m \in S: u = 0..m
  OBVIOUS
<1>4. ASSUME NEW k \in S, k < m PROVE FALSE
  <2>1. 0..k \in SUBSET Nat /\ 0..m \in SUBSET Nat /\ 0..k \subseteq 0..m /\ m \in 0..m /\ m \notin 0..k
    BY <1>4
  <2>2. 0..k # 0..m
    BY <2>1
  <2>3. <<0..k, 0..m>> \in StrictSubsetOrdering(Nat)
    BY <2>1, <2>2 DEF StrictSubsetOrdering
  <2>4. 0..k \in U
    OBVIOUS
  <2> QED
    BY <1>2, <1>3, <2>3, <2>4
<1>5. \A k \in S: m <= k
  BY <1>4
<1> QED
  BY <1>5

\* A set that has each number if it has those below it has them all.
LEMMA SetInduction ==
  ASSUME NEW S, \A n \in Nat: (\A m \in 0..(n - 1): m \in S) => n \in S
  PROVE  \A n \in Nat: n \in S
<1> SUFFICES ASSUME NEW n \in Nat, n \notin S PROVE FALSE
  OBVIOUS
<1> DEFINE T == {k \in Nat: k \notin S}
<1>1. T \in SUBSET Nat /\ T # {}
  OBVIOUS
<1>2. PICK m \in T: \A k \in T: m <= k
  <2> HIDE DEF T
  <2> QED
    BY <1>1, LeastNumber
<1>3. \A k \in 0..(m - 1): k \in S
  BY <1>2
<1> QED
  BY <1>3

\* The same with a step from each number to the next.
LEMMA StepInduction ==
  ASSUME NEW S, 0 \in S, \A n \in Nat: n \in S => n + 1 \in S
  PROVE  \A n \in Nat: n \in S
<1>1. ASSUME NEW n \in Nat, \A m \in 0..(n - 1): m \in S PROVE n \in S
  <2>1. CASE n = 0
    BY <2>1
  <2>2. CASE n # 0
    <3>1. n - 1 \in Nat /\ n - 1 \in 0..(n - 1) /\ (n - 1) + 1 = n
      BY <2>2
    <3> QED
      BY <1>1, <3>1
  <2> QED
    BY <2>1, <2>2
<1> QED
  BY <1>1, SetInduction

-----------------------------------------------------------------------------
\* Keys, and the paths of nodes.

\* The sequences of n nibbles.
Key(n) == {key \in Seq(Nibble): Len(key) = n}

\* Keys are equal if their nibbles are.
LEMMA KeyEqual ==
  ASSUME NEW n \in Nat, NEW p \in Key(n), NEW q \in Key(n), \A i \in 1..n: p[i] = q[i]
  PROVE  p = q
BY SeqEqual DEF Key

\* What Drop leaves of a key.
LEMMA DropKey ==
  ASSUME NEW n \in Nat, NEW key \in Key(n), NEW m \in 0..n
  PROVE  /\ Drop(key, m) \in Key(n - m)
         /\ \A i \in 1..(n - m): Drop(key, m)[i] = key[m + i]
<1>1. \A i \in 1..n: key[i] \in Nibble
  BY ElementOfSeq DEF Key
<1>2. m + 1 \in Int /\ Len(key) \in Int /\ Len(key) = n /\ \A i \in (m + 1)..Len(key): key[i] \in Nibble
  BY <1>1 DEF Key
<1>3. /\ Drop(key, m) \in Seq(Nibble)
      /\ Len(Drop(key, m)) = IF m + 1 <= n THEN n - (m + 1) + 1 ELSE 0
      /\ \A i \in 1..(n - (m + 1) + 1): Drop(key, m)[i] = key[m + 1 + i - 1]
  BY <1>2, SubSeqProperties DEF Drop
<1> QED
  BY <1>3 DEF Key

\* A path is a prefix of a key if the key has its nibbles.
LEMMA PrefixNibbles ==
  ASSUME NEW n \in Nat, NEW path \in Key(n), NEW l \in Nat, NEW key \in Key(l)
  PROVE  IsPrefix(path, key) <=> n <= l /\ \A i \in 1..n: path[i] = key[i]
<1>1. CASE n <= l
  <2>1. \A i \in 1..n: path[i] \in Nibble /\ key[i] \in Nibble
    BY <1>1, ElementOfSeq DEF Key
  <2>2. SubSeq(path, 1, n) \in Key(n) /\ \A i \in 1..n: SubSeq(path, 1, n)[i] = path[i]
    <3>1. /\ SubSeq(path, 1, n) \in Seq(Nibble)
          /\ Len(SubSeq(path, 1, n)) = IF 1 <= n THEN n - 1 + 1 ELSE 0
          /\ \A i \in 1..(n - 1 + 1): SubSeq(path, 1, n)[i] = path[1 + i - 1]
      BY <2>1, SubSeqProperties
    <3> QED BY <3>1 DEF Key
  <2>3. SubSeq(key, 1, n) \in Key(n) /\ \A i \in 1..n: SubSeq(key, 1, n)[i] = key[i]
    <3>1. /\ SubSeq(key, 1, n) \in Seq(Nibble)
          /\ Len(SubSeq(key, 1, n)) = IF 1 <= n THEN n - 1 + 1 ELSE 0
          /\ \A i \in 1..(n - 1 + 1): SubSeq(key, 1, n)[i] = key[1 + i - 1]
      BY <2>1, SubSeqProperties
    <3> QED BY <3>1 DEF Key
  <2>4. SubSeq(path, 1, n) = SubSeq(key, 1, n) <=> \A i \in 1..n: path[i] = key[i]
    BY <2>2, <2>3, KeyEqual
  <2>5. Len(path) = n /\ Len(key) = l
    BY DEF Key
  <2> QED
    BY <1>1, <2>4, <2>5 DEF IsPrefix
<1>2. CASE ~ n <= l
  BY <1>2 DEF IsPrefix, Key
<1> QED
  BY <1>1, <1>2

\* The path of a node that takes the place of its child.
Joined(p, q) == p \o q

\* Its nibbles.
LEMMA JoinedPath ==
  ASSUME NEW n \in Nat, NEW p \in Key(n), NEW m \in Nat, NEW q \in Key(m)
  PROVE  /\ Joined(p, q) \in Key(n + m)
         /\ \A i \in 1..n: Joined(p, q)[i] = p[i]
         /\ \A i \in 1..m: Joined(p, q)[n + i] = q[i]
<1>0. p \in Seq(Nibble) /\ q \in Seq(Nibble) /\ Len(p) = n /\ Len(q) = m
  BY DEF Key
<1>1. /\ Joined(p, q) \in Seq(Nibble) /\ Len(Joined(p, q)) = n + m
      /\ \A i \in 1..(n + m): Joined(p, q)[i] = IF i <= n THEN p[i] ELSE q[i - n]
  <2> HIDE DEF Nibble
  <2> QED BY <1>0, ConcatProperties DEF Joined
<1>2. Joined(p, q) \in Key(n + m)
  BY <1>1 DEF Key
<1>3. ASSUME NEW i \in 1..m PROVE Joined(p, q)[n + i] = q[i]
  <2>1. n + i \in 1..(n + m) /\ ~ n + i <= n /\ (n + i) - n = i
    OBVIOUS
  <2> QED BY <1>1, <2>1
<1> QED
  BY <1>1, <1>2, <1>3

\* The first nibble of a key, and the rest of it.
LEMMA HeadTail ==
  ASSUME NEW n \in Nat, n > 0, NEW key \in Key(n)
  PROVE  /\ key # <<>> /\ Head(key) = key[1] /\ key[1] \in Nibble
         /\ Tail(key) = Drop(key, 1) /\ Tail(key) \in Key(n - 1)
<1>1. key \in Seq(Nibble) /\ Len(key) = n
  BY DEF Key
<1>2. key # <<>>
  BY <1>1
<1>3. Head(key) = key[1]
  BY <1>1, <1>2
<1>4. key[1] \in Nibble
  BY <1>1, ElementOfSeq
<1>5. Tail(key) = Drop(key, 1)
  BY <1>1, <1>2, TailIsSubSeq DEF Drop
<1>6. Drop(key, 1) \in Key(n - 1)
  BY DropKey
<1> QED
  BY <1>2, <1>3, <1>4, <1>5, <1>6

\* A single nibble.
LEMMA OneNibble ==
  ASSUME NEW i \in Nibble
  PROVE  <<i>> \in Key(1) /\ <<i>>[1] = i
BY DEF Key

\* No nibbles.
LEMMA NoNibbles ==
  /\ <<>> \in Key(0)
  /\ \A n \in Nat: \A key \in Key(n): key = <<>> <=> n = 0
BY EmptySeq DEF Key

\* A key begins with a joined path if it begins with its parts, one after another.
LEMMA JoinedPrefix ==
  ASSUME NEW n \in Nat, NEW p \in Key(n), NEW m \in Nat, NEW q \in Key(m),
         NEW l \in Nat, NEW key \in Key(l)
  PROVE  /\ IsPrefix(Joined(p, q), key) <=> IsPrefix(p, key) /\ IsPrefix(q, Drop(key, n))
         /\ IsPrefix(Joined(p, q), key) => Drop(key, n + m) = Drop(Drop(key, n), m)
         /\ Joined(p, q) = key <=> IsPrefix(p, key) /\ q = Drop(key, n)
<1> DEFINE pq == Joined(p, q)
<1>0. /\ n + m \in Nat /\ pq \in Key(n + m)
      /\ \A i \in 1..n: pq[i] = p[i]
      /\ \A i \in 1..m: pq[n + i] = q[i]
  <2>1. pq \in Key(n + m)
    BY JoinedPath
  <2>2. \A i \in 1..n: pq[i] = p[i]
    BY JoinedPath
  <2>3. \A i \in 1..m: pq[n + i] = q[i]
    BY JoinedPath
  <2> HIDE DEF pq
  <2> QED
    BY <2>1, <2>2, <2>3
<1> HIDE DEF pq
<1>1. IsPrefix(pq, key) <=> n + m <= l /\ \A i \in 1..(n + m): pq[i] = key[i]
  BY <1>0, PrefixNibbles
<1>2. IsPrefix(p, key) <=> n <= l /\ \A i \in 1..n: p[i] = key[i]
  BY PrefixNibbles
<1>3. ASSUME n <= l
      PROVE  /\ Drop(key, n) \in Key(l - n) /\ \A i \in 1..(l - n): Drop(key, n)[i] = key[n + i]
             /\ IsPrefix(q, Drop(key, n)) <=> m <= l - n /\ \A i \in 1..m: q[i] = Drop(key, n)[i]
  <2>1. n \in 0..l /\ l - n \in Nat
    BY <1>3
  <2>2. Drop(key, n) \in Key(l - n) /\ \A i \in 1..(l - n): Drop(key, n)[i] = key[n + i]
    BY <2>1, DropKey
  <2> QED
    BY <2>1, <2>2, PrefixNibbles
<1>4. IsPrefix(pq, key) => IsPrefix(p, key) /\ IsPrefix(q, Drop(key, n))
  <2> SUFFICES ASSUME IsPrefix(pq, key) PROVE IsPrefix(p, key) /\ IsPrefix(q, Drop(key, n))
    OBVIOUS
  <2>1. n <= l /\ m <= l - n
    BY <1>1
  <2>2. \A i \in 1..n: p[i] = key[i]
    BY <1>0, <1>1
  <2>3. \A i \in 1..m: q[i] = key[n + i] /\ key[n + i] = Drop(key, n)[i]
    BY <1>0, <1>1, <1>3, <2>1
  <2> QED
    BY <2>1, <2>2, <2>3, <1>2, <1>3
<1>5. ASSUME IsPrefix(p, key), IsPrefix(q, Drop(key, n)) PROVE IsPrefix(pq, key)
  <2>1. n + m <= l
    BY <1>5, <1>2, <1>3
  <2>2. ASSUME NEW i \in 1..(n + m) PROVE pq[i] = key[i]
    <3>1. CASE i \in 1..n
      BY <3>1, <1>5, <1>2, <1>0
    <3>2. CASE i \notin 1..n
      <4>1. i - n \in 1..m /\ n + (i - n) = i /\ i - n \in 1..(l - n)
        BY <3>2, <2>1
      <4> QED
        BY <4>1, <1>5, <1>2, <1>3, <1>0
    <3> QED
      BY <3>1, <3>2
  <2> QED
    BY <2>1, <2>2, <1>1
<1>6. ASSUME IsPrefix(pq, key) PROVE Drop(key, n + m) = Drop(Drop(key, n), m)
  <2>1. n + m \in 0..l /\ n \in 0..l /\ m \in 0..(l - n) /\ l - n \in Nat /\ (l - n) - m = l - (n + m)
    BY <1>6, <1>1
  <2>2. Drop(key, n + m) \in Key(l - (n + m)) /\ \A i \in 1..(l - (n + m)): Drop(key, n + m)[i] = key[n + m + i]
    BY <2>1, DropKey
  <2>3. Drop(key, n) \in Key(l - n) /\ \A i \in 1..(l - n): Drop(key, n)[i] = key[n + i]
    BY <2>1, DropKey
  <2>4. /\ Drop(Drop(key, n), m) \in Key(l - (n + m))
        /\ \A i \in 1..(l - (n + m)): Drop(Drop(key, n), m)[i] = Drop(key, n)[m + i]
    BY <2>1, <2>3, DropKey
  <2>5. ASSUME NEW i \in 1..(l - (n + m)) PROVE Drop(key, n + m)[i] = Drop(Drop(key, n), m)[i]
    <3>1. m + i \in 1..(l - n) /\ n + (m + i) = n + m + i
      BY <2>1
    <3> QED
      BY <3>1, <2>2, <2>3, <2>4
  <2>6. l - (n + m) \in Nat
    BY <2>1
  <2> QED
    BY <2>2, <2>4, <2>5, <2>6, KeyEqual
<1>7. pq = key => IsPrefix(p, key) /\ q = Drop(key, n)
  <2> SUFFICES ASSUME pq = key PROVE IsPrefix(p, key) /\ q = Drop(key, n)
    OBVIOUS
  <2>1. l = n + m
    BY <1>0 DEF Key
  <2>2. l - n = m /\ n <= l
    BY <2>1
  <2>3. IsPrefix(p, key)
    BY <1>2, <2>2, <1>0
  <2>4. \A i \in 1..m: q[i] = Drop(key, n)[i]
    BY <1>3, <2>2, <1>0
  <2> QED
    BY <2>2, <2>3, <2>4, <1>3, KeyEqual
<1>8. ASSUME IsPrefix(p, key), q = Drop(key, n) PROVE pq = key
  <2>1. n <= l /\ m = l - n
    BY <1>8, <1>2, <1>3 DEF Key
  <2>2. n + m = l
    BY <2>1
  <2>3. IsPrefix(q, Drop(key, n))
    BY <1>8, <1>3, <2>1
  <2>4. \A i \in 1..(n + m): pq[i] = key[i]
    BY <1>5, <1>8, <2>3, <1>1
  <2> QED
    BY <2>2, <2>4, <1>0, KeyEqual
<1> QED
  BY <1>4, <1>5, <1>6, <1>7, <1>8 DEF pq

\* Nibbles dropped in two steps.
LEMMA DropTwice ==
  ASSUME NEW l \in Nat, NEW key \in Key(l), NEW n \in 0..l, NEW m \in 0..(l - n)
  PROVE  Drop(Drop(key, n), m) = Drop(key, n + m)
<1>1. n + m \in 0..l /\ l - n \in Nat /\ (l - n) - m = l - (n + m) /\ l - (n + m) \in Nat
  OBVIOUS
<1>2. Drop(key, n + m) \in Key(l - (n + m)) /\ \A i \in 1..(l - (n + m)): Drop(key, n + m)[i] = key[n + m + i]
  BY <1>1, DropKey
<1>3. Drop(key, n) \in Key(l - n) /\ \A i \in 1..(l - n): Drop(key, n)[i] = key[n + i]
  BY DropKey
<1>4. /\ Drop(Drop(key, n), m) \in Key(l - (n + m))
      /\ \A i \in 1..(l - (n + m)): Drop(Drop(key, n), m)[i] = Drop(key, n)[m + i]
  BY <1>1, <1>3, DropKey
<1>5. ASSUME NEW i \in 1..(l - (n + m)) PROVE Drop(key, n + m)[i] = Drop(Drop(key, n), m)[i]
  <2>1. m + i \in 1..(l - n) /\ n + (m + i) = n + m + i
    BY <1>1
  <2> QED
    BY <2>1, <1>2, <1>3, <1>4
<1> QED
  BY <1>1, <1>2, <1>4, <1>5, KeyEqual

\* Keys with the same beginning and the same rest are the same.
LEMMA KeySplit ==
  ASSUME NEW l \in Nat, NEW a \in Key(l), NEW b \in Key(l), NEW n \in 0..l,
         \A i \in 1..n: a[i] = b[i], Drop(a, n) = Drop(b, n)
  PROVE  a = b
<1>1. /\ \A i \in 1..(l - n): Drop(a, n)[i] = a[n + i]
      /\ \A i \in 1..(l - n): Drop(b, n)[i] = b[n + i]
  BY DropKey
<1>2. ASSUME NEW i \in 1..l PROVE a[i] = b[i]
  <2>1. CASE i \in 1..n
    BY <2>1
  <2>2. CASE i \notin 1..n
    <3>1. i - n \in 1..(l - n) /\ n + (i - n) = i
      BY <2>2
    <3> QED
      BY <1>1, <3>1
  <2> QED
    BY <2>1, <2>2
<1> QED
  BY <1>2, KeyEqual

\* Dropping nothing.
LEMMA DropNone ==
  ASSUME NEW l \in Nat, NEW key \in Key(l)
  PROVE  Drop(key, 0) = key
<1>1. Drop(key, 0) \in Key(l - 0) /\ \A i \in 1..(l - 0): Drop(key, 0)[i] = key[0 + i]
  <2>1. 0 \in 0..l
    OBVIOUS
  <2> QED
    BY <2>1, DropKey
<1>2. Drop(key, 0) \in Key(l) /\ \A i \in 1..l: Drop(key, 0)[i] = key[i]
  BY <1>1
<1> QED
  BY <1>2, KeyEqual

\* What two paths have in common ends where they first differ.
LEMMA CommonPart ==
  ASSUME NEW n \in Nat, NEW p \in Key(n), NEW m \in Nat, NEW q \in Key(m),
         \E i \in 1..n: i <= m /\ p[i] # q[i],
         NEW common, common = LongestCommonPrefix({p, q})
  PROVE  \E c \in Nat: /\ c < n /\ c < m /\ common \in Key(c)
                       /\ IsPrefix(common, p) /\ IsPrefix(common, q)
                       /\ p[c + 1] # q[c + 1]
<1> DEFINE D == {i \in 1..n: i <= m /\ p[i] # q[i]}
<1>1. PICK d \in D: \A i \in D: d <= i
  <2>1. D \in SUBSET Nat /\ D # {}
    OBVIOUS
  <2> HIDE DEF D
  <2> QED
    BY <2>1, LeastNumber
<1>2. d \in 1..n /\ d <= m /\ p[d] # q[d] /\ \A i \in 1..(d - 1): p[i] = q[i]
  BY <1>1
<1> HIDE DEF D
<1> DEFINE c == d - 1
           s == SubSeq(p, 1, c)
           C == CommonPrefixes({p, q})
<1>3. c \in Nat /\ c < n /\ c < m /\ c + 1 = d
  BY <1>2
<1>4. s \in Key(c) /\ \A i \in 1..c: s[i] = p[i]
  <2>1. \A i \in 1..c: p[i] \in Nibble
    BY <1>3, ElementOfSeq DEF Key
  <2>2. /\ s \in Seq(Nibble) /\ Len(s) = (IF 1 <= c THEN c - 1 + 1 ELSE 0)
        /\ \A i \in 1..(c - 1 + 1): s[i] = p[1 + i - 1]
    BY <1>3, <2>1, SubSeqProperties
  <2> QED
    BY <1>3, <2>2 DEF Key
<1>5. IsPrefix(s, p) /\ IsPrefix(s, q)
  <2> HIDE DEF s
  <2>1. c <= n /\ c <= m /\ \A i \in 1..c: s[i] = p[i] /\ s[i] = q[i]
    BY <1>2, <1>3, <1>4
  <2> HIDE DEF c
  <2> QED
    BY <1>3, <1>4, <2>1, PrefixNibbles
<1>6. s \in C
  <2>1. s \in Prefixes(p)
    BY <1>3 DEF Prefixes, Key
  <2> QED
    BY <1>5, <2>1 DEF CommonPrefixes
<1>7. ASSUME NEW r \in C
      PROVE  \E k \in Nat: r \in Key(k) /\ k <= c /\ IsPrefix(r, p) /\ IsPrefix(r, q)
  <2>1. IsPrefix(r, p) /\ IsPrefix(r, q) /\ (r \in Prefixes(p) \/ r \in Prefixes(q))
    BY <1>7 DEF CommonPrefixes
  <2>2. \E k \in Nat: r \in Key(k)
    <3>1. ASSUME NEW l \in Nat, NEW key \in Key(l), r \in Prefixes(key) PROVE \E k \in Nat: r \in Key(k)
      <4>1. PICK k \in 0..l: r = SubSeq(key, 1, k)
        BY <3>1 DEF Prefixes, Key
      <4>2. \A i \in 1..k: key[i] \in Nibble
        BY ElementOfSeq DEF Key
      <4>3. r \in Seq(Nibble)
        BY <4>1, <4>2, SubSeqProperties
      <4> QED
        BY <4>3, LenProperties DEF Key
    <3> QED
      BY <2>1, <3>1
  <2>3. PICK k \in Nat: r \in Key(k)
    BY <2>2
  <2>4. /\ k <= n /\ \A i \in 1..k: r[i] = p[i]
        /\ k <= m /\ \A i \in 1..k: r[i] = q[i]
    BY <2>1, <2>3, PrefixNibbles
  <2>5. d \notin 1..k
    BY <1>2, <2>4
  <2> QED
    BY <1>2, <2>1, <2>3, <2>5
<1> HIDE DEF C, s, c
<1>8. common \in C /\ \A r \in C: Len(r) <= Len(common)
  <2>1. \E r \in C: \A other \in C: Len(other) <= Len(r)
    <3>1. \A r \in C: Len(r) <= c
      BY <1>7 DEF Key
    <3>2. Len(s) = c
      BY <1>4 DEF Key
    <3> QED
      BY <1>6, <3>1, <3>2
  <2>2. common = CHOOSE r \in C: \A other \in C: Len(other) <= Len(r)
    BY DEF LongestCommonPrefix, C
  <2> QED
    BY <2>1, <2>2
<1>9. common \in Key(c)
  <2>1. PICK k \in Nat: common \in Key(k) /\ k <= c
    BY <1>7, <1>8
  <2>2. c <= k
    BY <1>4, <1>6, <1>8, <2>1 DEF Key
  <2>3. k = c
    BY <1>3, <2>1, <2>2
  <2> QED
    BY <2>1, <2>3
<1>10. p[c + 1] # q[c + 1]
  BY <1>2, <1>3
<1> QED
  BY <1>3, <1>7, <1>8, <1>9, <1>10

-----------------------------------------------------------------------------
\* The way of a key exists: a function with the equation that defines it.

Place(node, key) == [node |-> node, key |-> key]

Step(at) == IF Descends(at) THEN Into(at) ELSE at

\* The way as far as place n.
IsWay(way, node, key, n) ==
  way = [k \in 0..n |-> IF k = 0 THEN Place(node, key) ELSE Step(way[k - 1])]

\* There is a way as far as any place.
LEMMA WayExists ==
  ASSUME NEW node, NEW key
  PROVE  \A n \in Nat: \E way: IsWay(way, node, key, n)
<1> DEFINE S == {n \in Nat: \E way: IsWay(way, node, key, n)}
<1>1. 0 \in S
  <2> DEFINE way == [k \in 0..0 |-> Place(node, key)]
  <2>1. IsWay(way, node, key, 0)
    BY DEF IsWay
  <2> QED
    BY <2>1
<1>2. ASSUME NEW n \in Nat, n \in S PROVE n + 1 \in S
  <2>1. PICK way: IsWay(way, node, key, n)
    BY <1>2
  <2> DEFINE next == [k \in 0..(n + 1) |-> IF k = n + 1 THEN Step(way[n]) ELSE way[k]]
  <2>2. \A k \in 0..n: way[k] = IF k = 0 THEN Place(node, key) ELSE Step(way[k - 1])
    BY <2>1 DEF IsWay
  <2>3. \A k \in 0..(n + 1): next[k] = IF k = 0 THEN Place(node, key) ELSE Step(next[k - 1])
    <3>1. \A k \in 0..n: next[k] = way[k]
      OBVIOUS
    <3>2. next[n + 1] = Step(way[n])
      OBVIOUS
    <3> HIDE DEF next
    <3>3. \A k \in 1..(n + 1): k - 1 \in 0..n
      OBVIOUS
    <3> QED
      BY <2>2, <3>1, <3>2, <3>3
  <2>4. next = [k \in 0..(n + 1) |-> next[k]]
    OBVIOUS
  <2> HIDE DEF next
  <2>5. IsWay(next, node, key, n + 1)
    BY <2>3, <2>4 DEF IsWay
  <2> QED
    BY <2>5
<1> HIDE DEF S
<1>3. \A n \in Nat: n \in S
  BY <1>1, <1>2, StepInduction
<1> QED
  BY <1>3 DEF S

\* Any two of them agree as far as both go.
LEMMA WaysAgree ==
  ASSUME NEW node, NEW key, NEW m \in Nat, NEW v, IsWay(v, node, key, m),
         NEW n \in Nat, NEW w, IsWay(w, node, key, n)
  PROVE  \A k \in Nat: k <= m /\ k <= n => v[k] = w[k]
<1> DEFINE S == {k \in Nat: k <= m /\ k <= n => v[k] = w[k]}
<1>a. \A k \in 0..m: v[k] = IF k = 0 THEN Place(node, key) ELSE Step(v[k - 1])
  BY DEF IsWay
<1>b. \A k \in 0..n: w[k] = IF k = 0 THEN Place(node, key) ELSE Step(w[k - 1])
  BY DEF IsWay
<1>1. 0 \in S
  BY <1>a, <1>b
<1>2. ASSUME NEW k \in Nat, k \in S PROVE k + 1 \in S
  BY <1>a, <1>b, <1>2
<1> HIDE DEF S
<1>3. \A k \in Nat: k \in S
  BY <1>1, <1>2, StepInduction
<1> QED
  BY <1>3 DEF S

\* Way is what its equation says.
LEMMA WayDef ==
  ASSUME NEW node, NEW key
  PROVE  Way(node, key) = [n \in Nat |-> IF n = 0 THEN Place(node, key) ELSE Step(Way(node, key)[n - 1])]
<1> DEFINE w(n) == CHOOSE way: IsWay(way, node, key, n)
           f == [n \in Nat |-> w(n)[n]]
<1>1. \A n \in Nat: IsWay(w(n), node, key, n)
  BY WayExists
<1> HIDE DEF w
<1>2. \A n \in Nat: f[n] = IF n = 0 THEN Place(node, key) ELSE Step(f[n - 1])
  <2> SUFFICES ASSUME NEW n \in Nat
               PROVE  f[n] = IF n = 0 THEN Place(node, key) ELSE Step(f[n - 1])
    OBVIOUS
  <2>1. w(n)[n] = IF n = 0 THEN Place(node, key) ELSE Step(w(n)[n - 1])
    BY <1>1 DEF IsWay
  <2>2. CASE n = 0
    BY <2>1, <2>2
  <2>3. CASE n # 0
    <3>1. n - 1 \in Nat
      BY <2>3
    <3>2. w(n)[n - 1] = w(n - 1)[n - 1]
      BY <1>1, <3>1, WaysAgree
    <3> QED
      BY <2>1, <2>3, <3>1, <3>2
  <2> QED
    BY <2>2, <2>3
<1>3. f = [n \in Nat |-> f[n]]
  OBVIOUS
<1> HIDE DEF f
<1>4. f = [n \in Nat |-> IF n = 0 THEN Place(node, key) ELSE Step(f[n - 1])]
  BY <1>2, <1>3
<1> DEFINE Eq(g) == g = [n \in Nat |-> IF n = 0 THEN Place(node, key) ELSE Step(g[n - 1])]
<1>5. Way(node, key) = CHOOSE g: Eq(g)
  BY DEF Way, Place, Step
<1>6. Eq(CHOOSE g: Eq(g))
  BY <1>4
<1> QED
  BY <1>5, <1>6

\* The places of a way, one after another.
LEMMA WaySteps ==
  ASSUME NEW node, NEW key
  PROVE  /\ Way(node, key)[0] = Place(node, key)
         /\ \A n \in Nat: Way(node, key)[n + 1] = Step(Way(node, key)[n])
<1> DEFINE w == Way(node, key)
<1>1. w = [n \in Nat |-> IF n = 0 THEN Place(node, key) ELSE Step(w[n - 1])]
  BY WayDef
<1> HIDE DEF w
<1>2. w[0] = Place(node, key)
  BY <1>1
<1>3. ASSUME NEW n \in Nat PROVE w[n + 1] = Step(w[n])
  <2>1. n + 1 \in Nat /\ n + 1 # 0 /\ (n + 1) - 1 = n
    OBVIOUS
  <2> QED
    BY <1>1, <2>1
<1> QED
  BY <1>2, <1>3 DEF w

\* A key that does not descend stays; one that does goes the way of the node
\* below from there.
LEMMA WayBelow ==
  ASSUME NEW node, NEW key, NEW at, at = Place(node, key)
  PROVE  /\ ~Descends(at) => \A n \in Nat: Way(node, key)[n] = at
         /\ Descends(at) =>
              \A n \in Nat: Way(node, key)[n + 1] = Way(Into(at).node, Into(at).key)[n]
<1> DEFINE w == Way(node, key)
           b == Way(Into(at).node, Into(at).key)
<1>0. w[0] = at /\ \A n \in Nat: w[n + 1] = Step(w[n])
  BY WaySteps
<1>1. b[0] = Into(at) /\ \A n \in Nat: b[n + 1] = Step(b[n])
  <2>1. Place(Into(at).node, Into(at).key) = Into(at)
    BY DEF Place, Into
  <2> QED
    BY <2>1, WaySteps
<1> HIDE DEF w, b
<1>2. ASSUME ~Descends(at) PROVE \A n \in Nat: w[n] = at
  <2> DEFINE S == {n \in Nat: w[n] = at}
  <2>1. 0 \in S
    BY <1>0
  <2>2. ASSUME NEW n \in Nat, n \in S PROVE n + 1 \in S
    BY <1>0, <1>2, <2>2 DEF Step
  <2> HIDE DEF S
  <2>3. \A n \in Nat: n \in S
    BY <2>1, <2>2, StepInduction
  <2> QED
    BY <2>3 DEF S
<1>3. ASSUME Descends(at) PROVE \A n \in Nat: w[n + 1] = b[n]
  <2> DEFINE S == {n \in Nat: w[n + 1] = b[n]}
  <2>1. 0 \in S
    <3>1. w[0 + 1] = Step(at)
      BY <1>0
    <3> QED
      BY <1>1, <1>3, <3>1 DEF Step
  <2>2. ASSUME NEW n \in Nat, n \in S PROVE n + 1 \in S
    <3>1. n + 1 \in Nat /\ w[n + 1] = b[n]
      BY <2>2
    <3>2. w[(n + 1) + 1] = Step(b[n]) /\ b[n + 1] = Step(b[n])
      BY <1>0, <1>1, <3>1
    <3> QED
      BY <3>1, <3>2
  <2> HIDE DEF S
  <2>3. \A n \in Nat: n \in S
    BY <2>1, <2>2, StepInduction
  <2> QED
    BY <2>3 DEF S
<1> QED
  BY <1>2, <1>3 DEF w, b

-----------------------------------------------------------------------------
\* The shape of a trie: what WellFormed of MPTNode says by recursion, as a set of
\* nodes that holds what is below each of them.

LeafNode(path, value, cache) == [t |-> "leaf", path |-> path, value |-> value, cache |-> cache]
ExtensionNode(path, child, cache) ==
  [t |-> "extension", path |-> path, child |-> child, cache |-> cache]
BranchNode(children, cache) == [t |-> "branch", children |-> children, cache |-> cache]

\* A node has the fields of its kind.
Proper(node) ==
  /\ node.t = "leaf" =>
       node.path \in Seq(Nibble) /\ node = LeafNode(node.path, node.value, node.cache)
  /\ node.t = "extension" =>
       node.path \in Seq(Nibble) /\ node = ExtensionNode(node.path, node.child, node.cache)
  /\ node.t = "branch" =>
       /\ node = BranchNode(node.children, node.cache)
       /\ node.children = [i \in DOMAIN node.children |-> node.children[i]]

Made(node, rest) == rest \in Nat /\ Proper(node) /\ WellMade(node, rest)

IsClosed(S) ==
  \A node, rest: <<node, rest>> \in S =>
    Made(node, rest) /\ \A below \in Children(node, rest): below \in S

\* A trie that is not empty, for keys of length rest.
Shape(node, rest) == \E S: <<node, rest>> \in S /\ IsClosed(S)

\* What is below a node of a trie is a trie.
LEMMA ShapeBelow ==
  ASSUME NEW node, NEW rest, Shape(node, rest)
  PROVE  /\ Made(node, rest)
         /\ \A n, r: <<n, r>> \in Children(node, rest) => Shape(n, r)
BY DEF Shape, IsClosed

\* A node over tries is one.
LEMMA ShapeAbove ==
  ASSUME NEW node, NEW rest, Made(node, rest),
         \A below \in Children(node, rest): \E n, r: below = <<n, r>> /\ Shape(n, r)
  PROVE  Shape(node, rest)
<1> DEFINE Holds(below, S) == below \in S /\ IsClosed(S)
           C(below) == CHOOSE S: Holds(below, S)
           T == {<<node, rest>>} \cup UNION {C(below): below \in Children(node, rest)}
<1>1. \A below \in Children(node, rest): Holds(below, C(below))
  <2> SUFFICES ASSUME NEW below \in Children(node, rest) PROVE Holds(below, C(below))
    OBVIOUS
  <2>1. \E S: Holds(below, S)
    BY DEF Shape
  <2> QED
    BY <2>1
<1> HIDE DEF C
<1>2. <<node, rest>> \in T
  OBVIOUS
<1>3. ASSUME NEW n, NEW r, <<n, r>> \in T
      PROVE  Made(n, r) /\ \A below \in Children(n, r): below \in T
  <2>1. CASE <<n, r>> = <<node, rest>>
    <3>1. n = node /\ r = rest
      BY <2>1
    <3>2. \A below \in Children(node, rest): below \in T
      BY <1>1
    <3> QED
      BY <3>1, <3>2
  <2>2. CASE <<n, r>> # <<node, rest>>
    <3>1. PICK b \in Children(node, rest): <<n, r>> \in C(b)
      BY <1>3, <2>2
    <3>2. IsClosed(C(b))
      BY <1>1
    <3>3. Made(n, r) /\ \A below \in Children(n, r): below \in C(b)
      BY <3>1, <3>2 DEF IsClosed
    <3>4. \A x \in C(b): x \in T
      OBVIOUS
    <3> QED
      BY <3>3, <3>4
  <2> QED
    BY <2>1, <2>2
<1> HIDE DEF T
<1>4. IsClosed(T)
  BY <1>3 DEF IsClosed
<1> QED
  BY <1>2, <1>4 DEF Shape

\* The four kinds of tries, from their parts: a digest.
LEMMA ShapeDigest ==
  ASSUME NEW node, node.t = "digest", NEW l \in Nat
  PROVE  Shape(node, l)
<1>1. Made(node, l) /\ Children(node, l) = {}
  BY DEF Made, Proper, WellMade, Children
<1> QED
  BY <1>1, ShapeAbove

\* A leaf.
LEMMA ShapeLeaf ==
  ASSUME NEW l \in Nat, NEW path \in Key(l), NEW value \in Values, NEW cache
  PROVE  Shape(LeafNode(path, value, cache), l)
<1> DEFINE node == LeafNode(path, value, cache)
<1>1. Made(node, l) /\ Children(node, l) = {}
  BY DEF Made, Proper, WellMade, Children, Key, LeafNode
<1> QED
  BY <1>1, ShapeAbove

\* An extension.
LEMMA ShapeExtension ==
  ASSUME NEW l \in Nat, NEW n \in 1..l, NEW path \in Key(n),
         NEW child, child.t \in {"branch", "digest"}, Shape(child, l - n), NEW cache
  PROVE  Shape(ExtensionNode(path, child, cache), l)
<1> DEFINE node == ExtensionNode(path, child, cache)
<1>1. Made(node, l) /\ Children(node, l) = {<<child, l - n>>}
  BY DEF Made, Proper, WellMade, Children, Key, ExtensionNode
<1> QED
  BY <1>1, ShapeAbove

\* A branch.
LEMMA ShapeBranch ==
  ASSUME NEW l \in Nat, l > 0, NEW D \in SUBSET Nibble, Cardinality(D) >= 2,
         NEW children, children = [i \in D |-> children[i]],
         \A i \in D: Shape(children[i], l - 1), NEW cache
  PROVE  Shape(BranchNode(children, cache), l)
<1> DEFINE node == BranchNode(children, cache)
<1>0. DOMAIN children = D
  OBVIOUS
<1>1. Made(node, l)
  BY <1>0 DEF Made, Proper, WellMade, BranchNode
<1>2. Children(node, l) = {<<children[i], l - 1>>: i \in D}
  BY <1>0 DEF Children, BranchNode
<1> QED
  BY <1>1, <1>2, ShapeAbove

\* The kinds of nodes, and their parts.
IsLeaf(node, l, path, value, cache) ==
  path \in Key(l) /\ value \in Values /\ node = LeafNode(path, value, cache)

IsExtension(node, l, n, path, child, cache) ==
  /\ node = ExtensionNode(path, child, cache)
  /\ n \in 1..l /\ path \in Key(n)
  /\ child.t \in {"branch", "digest"} /\ Shape(child, l - n)

IsBranch(node, l, nibs, children, cache) ==
  /\ node = BranchNode(children, cache)
  /\ l > 0 /\ nibs \in SUBSET Nibble /\ Cardinality(nibs) >= 2 /\ IsFiniteSet(nibs)
  /\ children = [i \in nibs |-> children[i]]
  /\ \A i \in nibs: Shape(children[i], l - 1)

\* A trie is of one of the four kinds.
LEMMA ShapeCases ==
  ASSUME NEW node, NEW l, Shape(node, l)
  PROVE  /\ l \in Nat
         /\ \/ node.t = "digest"
            \/ \E path, value, cache: IsLeaf(node, l, path, value, cache)
            \/ \E n, path, child, cache: IsExtension(node, l, n, path, child, cache)
            \/ \E nibs, children, cache: IsBranch(node, l, nibs, children, cache)
<1>1. l \in Nat /\ Proper(node) /\ WellMade(node, l)
  BY ShapeBelow DEF Made
<1>2. CASE node.t = "digest"
  BY <1>1, <1>2
<1>3. CASE node.t = "leaf"
  <2>1. node.path \in Key(l) /\ node.value \in Values
    BY <1>1, <1>3 DEF Proper, WellMade, Key
  <2>2. node = LeafNode(node.path, node.value, node.cache)
    BY <1>1, <1>3 DEF Proper
  <2>3. IsLeaf(node, l, node.path, node.value, node.cache)
    BY <2>1, <2>2 DEF IsLeaf
  <2> QED
    BY <1>1, <2>3
<1>4. CASE node.t = "extension"
  <2>1. Len(node.path) \in 1..l /\ node.child.t \in {"branch", "digest"}
    BY <1>1, <1>4 DEF WellMade
  <2>2. node.path \in Key(Len(node.path)) /\ node = ExtensionNode(node.path, node.child, node.cache)
    BY <1>1, <1>4 DEF Proper, Key
  <2>3. <<node.child, l - Len(node.path)>> \in Children(node, l)
    BY <1>4 DEF Children
  <2>4. Shape(node.child, l - Len(node.path))
    BY <2>3, ShapeBelow
  <2>5. IsExtension(node, l, Len(node.path), node.path, node.child, node.cache)
    BY <1>1, <2>1, <2>2, <2>4 DEF IsExtension
  <2> QED
    BY <1>1, <2>5
<1>5. CASE node.t = "branch"
  <2> DEFINE D == DOMAIN node.children
  <2>1. l > 0 /\ D \in SUBSET Nibble /\ Cardinality(D) >= 2
    BY <1>1, <1>5 DEF WellMade
  <2>2. node = BranchNode(node.children, node.cache) /\ node.children = [i \in D |-> node.children[i]]
    BY <1>1, <1>5 DEF Proper
  <2>3. ASSUME NEW i \in D PROVE Shape(node.children[i], l - 1)
    <3>1. <<node.children[i], l - 1>> \in Children(node, l)
      BY <1>5 DEF Children
    <3> QED
      BY <3>1, ShapeBelow
  <2>4. IsFiniteSet(D)
    <3>1. IsFiniteSet(Nibble)
      <4>1. 0 \in Int /\ 15 \in Int
        OBVIOUS
      <4> QED
        BY <4>1, FS_Interval DEF Nibble
    <3> QED
      BY <2>1, <3>1, FS_Subset
  <2> HIDE DEF D
  <2>5. IsBranch(node, l, D, node.children, node.cache)
    BY <1>1, <2>1, <2>2, <2>3, <2>4 DEF IsBranch
  <2> QED
    BY <1>1, <2>5
<1>6. node.t \in {"digest", "leaf", "extension", "branch"}
  BY <1>1 DEF WellMade
<1> QED
  BY <1>2, <1>3, <1>4, <1>5, <1>6

-----------------------------------------------------------------------------
\* The recursion along the way of a key, for the three operations alike.

WalkOp          == [t |-> "walk"]
InsertOp(value) == [t |-> "insert", value |-> value]
RemoveOp        == [t |-> "remove"]

Above(op, at, child) ==
  CASE op.t = "walk"   -> child
    [] op.t = "insert" -> InsertedAbove(at, child)
    [] op.t = "remove" -> RemovedAbove(at, child)

At(op, at) ==
  CASE op.t = "walk"   -> at
    [] op.t = "insert" -> InsertedAt(at, op.value)
    [] op.t = "remove" -> RemovedAt(at)

IsResult(f, op, node, key) ==
  f = [n \in Nat |-> IF Descends(Way(node, key)[n]) THEN Above(op, Way(node, key)[n], f[n + 1])
                                                   ELSE At(op, Way(node, key)[n])]

HasResult(op, node, key, x) ==
  (\E f: IsResult(f, op, node, key)) /\ \A f: IsResult(f, op, node, key) => f[0] = x

\* A key leads to a smaller trie, and is shorter there.
LEMMA DescendsInto ==
  ASSUME NEW l \in Nat, NEW node, Shape(node, l), NEW key \in Key(l),
         NEW at, at = Place(node, key), Descends(at)
  PROVE  \E m \in 0..(l - 1): Shape(Into(at).node, m) /\ Into(at).key \in Key(m)
<1>0. at.node = node /\ at.key = key
  BY DEF Place
<1>1. CASE node.t = "extension"
  <2>1. PICK n, path, child, cache: IsExtension(node, l, n, path, child, cache)
    BY <1>1, ShapeCases DEF IsLeaf, LeafNode, BranchNode, IsBranch
  <2>2. n \in 1..l /\ Len(node.path) = n /\ Shape(node.child, l - n)
    BY <2>1 DEF IsExtension, ExtensionNode, Key
  <2>3. Into(at).node = node.child /\ Into(at).key = Drop(key, n)
    BY <1>0, <1>1, <2>2 DEF Into
  <2>4. n \in 0..l /\ l - n \in 0..(l - 1)
    BY <2>2
  <2> QED
    BY <2>2, <2>3, <2>4, DropKey
<1>2. CASE node.t = "branch"
  <2>1. PICK nibs, children, cache: IsBranch(node, l, nibs, children, cache)
    BY <1>2, ShapeCases DEF IsLeaf, LeafNode, ExtensionNode, IsExtension
  <2>2. Head(key) \in DOMAIN node.children
    BY <1>0, <1>2 DEF Descends
  <2>3. Shape(node.children[Head(key)], l - 1)
    BY <2>1, <2>2 DEF BranchNode, IsBranch
  <2>4. Into(at).node = node.children[Head(key)] /\ Into(at).key = Tail(key)
    BY <1>0, <1>2 DEF Into
  <2>5. Tail(key) \in Key(l - 1) /\ l - 1 \in 0..(l - 1)
    BY <2>1, HeadTail DEF IsBranch
  <2> QED
    BY <2>3, <2>4, <2>5
<1> QED
  BY <1>0, <1>1, <1>2 DEF Descends

\* Where the key leads no further, there is nothing to recur to.
LEMMA ResultAtEnd ==
  ASSUME NEW op, NEW node, NEW key, NEW at, at = Place(node, key), ~Descends(at)
  PROVE  HasResult(op, node, key, At(op, at))
<1>1. \A n \in Nat: Way(node, key)[n] = at
  BY WayBelow
<1> DEFINE f == [n \in Nat |-> At(op, at)]
<1>2. IsResult(f, op, node, key)
  <2>1. f = [n \in Nat |-> IF Descends(Way(node, key)[n]) THEN Above(op, Way(node, key)[n], f[n + 1])
                                                   ELSE At(op, Way(node, key)[n])]
    BY <1>1
  <2> QED
    BY <2>1 DEF IsResult
<1>3. ASSUME NEW g, IsResult(g, op, node, key) PROVE g[0] = At(op, at)
  BY <1>1, <1>3 DEF IsResult
<1> QED
  BY <1>2, <1>3 DEF HasResult

\* Elsewhere the result is made of that of the node below.
LEMMA ResultAbove ==
  ASSUME NEW op, NEW node, NEW key, NEW at, at = Place(node, key), Descends(at),
         NEW x, HasResult(op, Into(at).node, Into(at).key, x)
  PROVE  HasResult(op, node, key, Above(op, at, x))
<1> DEFINE w == Way(node, key)
           b == Way(Into(at).node, Into(at).key)
           Entry(p, y) == IF Descends(p) THEN Above(op, p, y) ELSE At(op, p)
<1>0. w[0] = at /\ \A n \in Nat: w[n + 1] = b[n]
  BY WayBelow, WaySteps
<1>r. \A f, n, k: IsResult(f, op, n, k) <=> f = [i \in Nat |-> Entry(Way(n, k)[i], f[i + 1])]
  BY DEF IsResult
<1> HIDE DEF w, b, Entry
<1>1. ASSUME NEW g, IsResult(g, op, Into(at).node, Into(at).key)
      PROVE  IsResult([n \in Nat |-> IF n = 0 THEN Entry(at, g[0]) ELSE g[n - 1]], op, node, key)
  <2> DEFINE f == [n \in Nat |-> IF n = 0 THEN Entry(at, g[0]) ELSE g[n - 1]]
  <2>1. g = [i \in Nat |-> Entry(b[i], g[i + 1])]
    BY <1>1, <1>r DEF b
  <2>2. f[0] = Entry(w[0], f[0 + 1])
    BY <1>0
  <2>3. ASSUME NEW n \in Nat, n # 0 PROVE f[n] = Entry(w[n], f[n + 1])
    <3>1. n - 1 \in Nat /\ n + 1 \in Nat /\ n + 1 # 0 /\ (n - 1) + 1 = n /\ (n + 1) - 1 = n
      BY <2>3
    <3>2. f[n] = g[n - 1] /\ f[n + 1] = g[n]
      BY <2>3, <3>1
    <3>3. g[n - 1] = Entry(b[n - 1], g[n])
      BY <2>1, <3>1
    <3>4. w[n] = b[n - 1]
      BY <1>0, <3>1
    <3> QED
      BY <3>2, <3>3, <3>4
  <2>4. f = [n \in Nat |-> f[n]]
    OBVIOUS
  <2> HIDE DEF f
  <2>5. f = [n \in Nat |-> Entry(w[n], f[n + 1])]
    BY <2>2, <2>3, <2>4
  <2> QED
    BY <2>5, <1>r DEF w, f
<1>2. ASSUME NEW f, IsResult(f, op, node, key) PROVE f[0] = Above(op, at, x)
  <2>1. f = [i \in Nat |-> Entry(w[i], f[i + 1])]
    BY <1>2, <1>r DEF w
  <2> DEFINE g == [n \in Nat |-> f[n + 1]]
  <2>2. \A n \in Nat: g[n] = Entry(b[n], g[n + 1])
    BY <1>0, <2>1
  <2>3. g = [n \in Nat |-> g[n]]
    OBVIOUS
  <2>4. g[0] = f[1]
    OBVIOUS
  <2> HIDE DEF g
  <2>5. g = [n \in Nat |-> Entry(b[n], g[n + 1])]
    BY <2>2, <2>3
  <2>6. IsResult(g, op, Into(at).node, Into(at).key)
    BY <2>5, <1>r DEF b
  <2>7. g[0] = x
    BY <2>6 DEF HasResult
  <2>8. f[0] = Entry(at, f[1])
    BY <1>0, <2>1
  <2> QED
    BY <2>4, <2>7, <2>8 DEF Entry
<1>3. \E g: IsResult(g, op, Into(at).node, Into(at).key)
  BY DEF HasResult
<1> QED
  BY <1>1, <1>2, <1>3 DEF HasResult

\* So there is one result, on every trie.
LEMMA ResultExists ==
  ASSUME NEW op
  PROVE  \A l \in Nat: \A node, key: Shape(node, l) /\ key \in Key(l) => \E x: HasResult(op, node, key, x)
<1> DEFINE S == {l \in Nat: \A node, key:
                   Shape(node, l) /\ key \in Key(l) => \E x: HasResult(op, node, key, x)}
<1>1. ASSUME NEW l \in Nat, \A m \in 0..(l - 1): m \in S PROVE l \in S
  <2> SUFFICES ASSUME NEW node, NEW key, Shape(node, l), key \in Key(l)
               PROVE  \E x: HasResult(op, node, key, x)
    OBVIOUS
  <2> DEFINE at == Place(node, key)
  <2>1. CASE ~Descends(at)
    BY <2>1, ResultAtEnd
  <2>2. CASE Descends(at)
    <3>1. PICK m \in 0..(l - 1): Shape(Into(at).node, m) /\ Into(at).key \in Key(m)
      BY <2>2, DescendsInto
    <3>2. m \in S
      BY <1>1
    <3>3. PICK x: HasResult(op, Into(at).node, Into(at).key, x)
      BY <3>1, <3>2
    <3> HIDE DEF S
    <3> QED
      BY <2>2, <3>3, ResultAbove
  <2> QED
    BY <2>1, <2>2
<1> HIDE DEF S
<1>2. \A l \in Nat: l \in S
  BY <1>1, SetInduction
<1> QED
  BY <1>2 DEF S

\* What each operation does at a place.
LEMMA OperationsAt ==
  ASSUME NEW at
  PROVE  /\ At(WalkOp, at) = at /\ \A x: Above(WalkOp, at, x) = x
         /\ \A value: At(InsertOp(value), at) = InsertedAt(at, value)
         /\ \A value, x: Above(InsertOp(value), at, x) = InsertedAbove(at, x)
         /\ At(RemoveOp, at) = RemovedAt(at) /\ \A x: Above(RemoveOp, at, x) = RemovedAbove(at, x)
<1>1. At(WalkOp, at) = at /\ \A x: Above(WalkOp, at, x) = x
  BY DEF At, Above, WalkOp
<1>2. \A value: At(InsertOp(value), at) = InsertedAt(at, value)
  BY DEF At, InsertOp
<1>3. \A value, x: Above(InsertOp(value), at, x) = InsertedAbove(at, x)
  BY DEF Above, InsertOp
<1>4. At(RemoveOp, at) = RemovedAt(at) /\ \A x: Above(RemoveOp, at, x) = RemovedAbove(at, x)
  BY DEF At, Above, RemoveOp
<1> QED
  BY <1>1, <1>2, <1>3, <1>4

\* What the walk of a key answers.
LEMMA WalkResult ==
  ASSUME NEW node, NEW key, NEW x, HasResult(WalkOp, node, key, x)
  PROVE  Walk(node, key) = x
<1> DEFINE w == Way(node, key)
           Eq(f) == f = [n \in Nat |-> IF Descends(w[n]) THEN f[n + 1] ELSE w[n]]
<1>1. ASSUME NEW f PROVE Eq(f) <=> IsResult(f, WalkOp, node, key)
  <2>1. \A at, y: Above(WalkOp, at, y) = y
    BY OperationsAt
  <2>2. \A at: At(WalkOp, at) = at
    BY OperationsAt
  <2> QED
    BY <2>1, <2>2 DEF IsResult
<1>2. Walk(node, key) = (CHOOSE f: Eq(f))[0]
  BY DEF Walk
<1> HIDE DEF Eq
<1>3. Eq(CHOOSE f: Eq(f))
  BY <1>1 DEF HasResult
<1> QED
  BY <1>1, <1>2, <1>3 DEF HasResult

\* What insert answers.
LEMMA InsertResult ==
  ASSUME NEW node, NEW key, NEW value, NEW x, HasResult(InsertOp(value), node, key, x)
  PROVE  NodeInsert(node, key, value) = x
<1> DEFINE w == Way(node, key)
           Eq(f) == f = [n \in Nat |-> IF Descends(w[n]) THEN InsertedAbove(w[n], f[n + 1]) ELSE InsertedAt(w[n], value)]
<1>1. ASSUME NEW f PROVE Eq(f) <=> IsResult(f, InsertOp(value), node, key)
  <2>1. \A at, y: Above(InsertOp(value), at, y) = InsertedAbove(at, y)
    BY OperationsAt
  <2>2. \A at: At(InsertOp(value), at) = InsertedAt(at, value)
    BY OperationsAt
  <2> QED
    BY <2>1, <2>2 DEF IsResult
<1>2. NodeInsert(node, key, value) = (CHOOSE f: Eq(f))[0]
  BY DEF NodeInsert
<1> HIDE DEF Eq
<1>3. Eq(CHOOSE f: Eq(f))
  BY <1>1 DEF HasResult
<1> QED
  BY <1>1, <1>2, <1>3 DEF HasResult

\* What remove answers, of a key that is found.
LEMMA RemoveResult ==
  ASSUME NEW node, NEW key, NEW x, HasResult(RemoveOp, node, key, x)
  PROVE  RemoveFound(node, key) = x
<1> DEFINE w == Way(node, key)
           Eq(f) == f = [n \in Nat |-> IF Descends(w[n]) THEN RemovedAbove(w[n], f[n + 1]) ELSE RemovedAt(w[n])]
<1>1. ASSUME NEW f PROVE Eq(f) <=> IsResult(f, RemoveOp, node, key)
  <2>1. \A at, y: Above(RemoveOp, at, y) = RemovedAbove(at, y)
    BY OperationsAt
  <2>2. \A at: At(RemoveOp, at) = RemovedAt(at)
    BY OperationsAt
  <2> QED
    BY <2>1, <2>2 DEF IsResult
<1>2. RemoveFound(node, key) = (CHOOSE f: Eq(f))[0]
  BY DEF RemoveFound
<1> HIDE DEF Eq
<1>3. Eq(CHOOSE f: Eq(f))
  BY <1>1 DEF HasResult
<1> QED
  BY <1>1, <1>2, <1>3 DEF HasResult

\* The code's recursion: at the end of the way.
LEMMA EndOfWay ==
  ASSUME NEW node, NEW key, NEW at, at = Place(node, key), ~Descends(at)
  PROVE  /\ Walk(node, key) = at
         /\ \A value: NodeInsert(node, key, value) = InsertedAt(at, value)
         /\ RemoveFound(node, key) = RemovedAt(at)
<1>1. \A op: HasResult(op, node, key, At(op, at))
  BY ResultAtEnd
<1>2. Walk(node, key) = at
  BY <1>1, WalkResult, OperationsAt
<1>3. ASSUME NEW value PROVE NodeInsert(node, key, value) = InsertedAt(at, value)
  <2>1. HasResult(InsertOp(value), node, key, InsertedAt(at, value))
    BY <1>1, OperationsAt
  <2> QED
    BY <2>1, InsertResult
<1>4. RemoveFound(node, key) = RemovedAt(at)
  <2>1. HasResult(RemoveOp, node, key, RemovedAt(at))
    BY <1>1, OperationsAt
  <2> QED
    BY <2>1, RemoveResult
<1> QED
  BY <1>2, <1>3, <1>4

\* The code's recursion: on the way.
LEMMA DownTheWay ==
  ASSUME NEW l \in Nat, NEW node, Shape(node, l), NEW key \in Key(l),
         NEW at, at = Place(node, key), Descends(at),
         NEW child, NEW rest, child = Into(at).node, rest = Into(at).key
  PROVE  /\ Walk(node, key) = Walk(child, rest)
         /\ \A value: NodeInsert(node, key, value) = InsertedAbove(at, NodeInsert(child, rest, value))
         /\ RemoveFound(node, key) = RemovedAbove(at, RemoveFound(child, rest))
<1>1. PICK m \in 0..(l - 1): Shape(child, m) /\ rest \in Key(m)
  BY DescendsInto
<1>2. m \in Nat
  OBVIOUS
<1>3. ASSUME NEW op PROVE \E x: HasResult(op, child, rest, x) /\ HasResult(op, node, key, Above(op, at, x))
  <2>1. PICK x: HasResult(op, child, rest, x)
    BY <1>1, <1>2, ResultExists
  <2> QED
    BY <2>1, ResultAbove
<1>4. Walk(node, key) = Walk(child, rest)
  <2>1. PICK x: HasResult(WalkOp, child, rest, x) /\ HasResult(WalkOp, node, key, Above(WalkOp, at, x))
    BY <1>3
  <2>2. Walk(child, rest) = x
    BY <2>1, WalkResult
  <2>3. HasResult(WalkOp, node, key, x)
    BY <2>1, OperationsAt
  <2> QED
    BY <2>2, <2>3, WalkResult
<1>5. ASSUME NEW value
      PROVE  NodeInsert(node, key, value) = InsertedAbove(at, NodeInsert(child, rest, value))
  <2>1. PICK x: /\ HasResult(InsertOp(value), child, rest, x)
                /\ HasResult(InsertOp(value), node, key, Above(InsertOp(value), at, x))
    BY <1>3
  <2>2. NodeInsert(child, rest, value) = x
    BY <2>1, InsertResult
  <2>3. HasResult(InsertOp(value), node, key, InsertedAbove(at, x))
    BY <2>1, OperationsAt
  <2>4. NodeInsert(node, key, value) = InsertedAbove(at, x)
    BY <2>3, InsertResult
  <2> QED
    BY <2>2, <2>4
<1>6. RemoveFound(node, key) = RemovedAbove(at, RemoveFound(child, rest))
  <2>1. PICK x: HasResult(RemoveOp, child, rest, x) /\ HasResult(RemoveOp, node, key, Above(RemoveOp, at, x))
    BY <1>3
  <2>2. RemoveFound(child, rest) = x
    BY <2>1, RemoveResult
  <2>3. HasResult(RemoveOp, node, key, RemovedAbove(at, x))
    BY <2>1, OperationsAt
  <2>4. RemoveFound(node, key) = RemovedAbove(at, x)
    BY <2>3, RemoveResult
  <2> QED
    BY <2>2, <2>4
<1> QED
  BY <1>4, <1>5, <1>6

-----------------------------------------------------------------------------
\* The operations on each kind of node, as the code writes them.

\* An update in place changes one part of a node and forgets its cache.
LEMMA UpdatesInPlace ==
  /\ \A path, old, cache, new: SetValue(LeafNode(path, old, cache), new) = LeafNode(path, new, NoCache)
  /\ \A path, old, cache, new:
       SetChild(ExtensionNode(path, old, cache), new) = ExtensionNode(path, new, NoCache)
  /\ \A old, cache, new: SetChildren(BranchNode(old, cache), new) = BranchNode(new, NoCache)
<1>1. ASSUME NEW path, NEW old, NEW cache, NEW new
      PROVE  SetValue(LeafNode(path, old, cache), new) = LeafNode(path, new, NoCache)
  <2> DEFINE node == LeafNode(path, old, cache)
             updated == [node EXCEPT !.value = new]
  <2>1. updated = LeafNode(path, new, cache)
    BY DEF LeafNode
  <2>2. [updated EXCEPT !.cache = NoCache] = LeafNode(path, new, NoCache)
    <3> HIDE DEF updated
    <3> QED
      BY <2>1 DEF LeafNode
  <2> QED
    BY <2>2 DEF SetValue
<1>2. ASSUME NEW path, NEW old, NEW cache, NEW new
      PROVE  SetChild(ExtensionNode(path, old, cache), new) = ExtensionNode(path, new, NoCache)
  <2> DEFINE node == ExtensionNode(path, old, cache)
             updated == [node EXCEPT !.child = new]
  <2>1. updated = ExtensionNode(path, new, cache)
    BY DEF ExtensionNode
  <2>2. [updated EXCEPT !.cache = NoCache] = ExtensionNode(path, new, NoCache)
    <3> HIDE DEF updated
    <3> QED
      BY <2>1 DEF ExtensionNode
  <2> QED
    BY <2>2 DEF SetChild
<1>3. ASSUME NEW old, NEW cache, NEW new
      PROVE  SetChildren(BranchNode(old, cache), new) = BranchNode(new, NoCache)
  <2> DEFINE node == BranchNode(old, cache)
             updated == [node EXCEPT !.children = new]
  <2>1. updated = BranchNode(new, cache)
    BY DEF BranchNode
  <2>2. [updated EXCEPT !.cache = NoCache] = BranchNode(new, NoCache)
    <3> HIDE DEF updated
    <3> QED
      BY <2>1 DEF BranchNode
  <2> QED
    BY <2>2 DEF SetChildren
<1> QED
  BY <1>1, <1>2, <1>3

\* At a leaf, a digest and nothing every key ends.
LEMMA AtEnd ==
  ASSUME NEW node, node.t \notin {"extension", "branch"}, NEW key, NEW at, at = Place(node, key)
  PROVE  /\ NodeGet(node, key) = IF node.t = "digest" THEN Panic
                                 ELSE IF node.t = "leaf" /\ node.path = key THEN node.value ELSE NoValue
         /\ Walk(node, key) = at
         /\ \A value: NodeInsert(node, key, value) = InsertedAt(at, value)
         /\ RemoveFound(node, key) = IF node.t = "digest" THEN Panic ELSE Null
<1>1. ~Descends(at) /\ at.node = node /\ at.key = key
  BY DEF Descends, Place
<1>2. /\ Walk(node, key) = at
      /\ \A value: NodeInsert(node, key, value) = InsertedAt(at, value)
      /\ RemoveFound(node, key) = RemovedAt(at)
  BY <1>1, EndOfWay
<1> QED
  BY <1>1, <1>2 DEF NodeGet, ValueAt, RemovedAt

\* At an extension.
LEMMA AtExtension ==
  ASSUME NEW l \in Nat, NEW node, NEW n, NEW path, NEW child, NEW cache,
         IsExtension(node, l, n, path, child, cache), NEW key \in Key(l)
  PROVE  /\ IsPrefix(path, key) =>
              /\ NodeGet(node, key) = NodeGet(child, Drop(key, n))
              /\ Walk(node, key) = Walk(child, Drop(key, n))
              /\ \A value: LET new == NodeInsert(child, Drop(key, n), value)
                           IN  NodeInsert(node, key, value) =
                                 IF new = Panic THEN Panic ELSE ExtensionNode(path, new, NoCache)
              /\ RemoveFound(node, key) = Merged(node, RemoveFound(child, Drop(key, n)))
         /\ ~IsPrefix(path, key) =>
              /\ NodeGet(node, key) = NoValue
              /\ Walk(node, key) = Place(node, key)
              /\ \A value: NodeInsert(node, key, value) = Fork(node, key, value)
<1> DEFINE at == Place(node, key)
<1>0. /\ node.t = "extension" /\ node.path = path /\ node.child = child /\ Len(path) = n
      /\ at.node = node /\ at.key = key
  BY DEF IsExtension, ExtensionNode, Key, Place
<1>1. Shape(node, l)
  BY ShapeExtension DEF IsExtension
<1>2. Descends(at) <=> IsPrefix(path, key)
  BY <1>0 DEF Descends
<1>3. Into(at).node = child /\ Into(at).key = Drop(key, n)
  BY <1>0 DEF Into
<1> HIDE DEF at
<1>4. ASSUME IsPrefix(path, key)
      PROVE  /\ NodeGet(node, key) = NodeGet(child, Drop(key, n))
             /\ Walk(node, key) = Walk(child, Drop(key, n))
             /\ \A value: LET new == NodeInsert(child, Drop(key, n), value)
                          IN  NodeInsert(node, key, value) =
                                IF new = Panic THEN Panic ELSE ExtensionNode(path, new, NoCache)
             /\ RemoveFound(node, key) = Merged(node, RemoveFound(child, Drop(key, n)))
  <2>1. /\ Walk(node, key) = Walk(child, Drop(key, n))
        /\ \A value: NodeInsert(node, key, value) = InsertedAbove(at, NodeInsert(child, Drop(key, n), value))
        /\ RemoveFound(node, key) = RemovedAbove(at, RemoveFound(child, Drop(key, n)))
    BY <1>1, <1>2, <1>3, <1>4, DownTheWay DEF at
  <2>2. \A new: InsertedAbove(at, new) = IF new = Panic THEN Panic ELSE ExtensionNode(path, new, NoCache)
    <3>1. \A new: SetChild(node, new) = ExtensionNode(path, new, NoCache)
      BY UpdatesInPlace DEF IsExtension
    <3> QED
      BY <1>0, <3>1 DEF InsertedAbove
  <2>3. \A new: RemovedAbove(at, new) = Merged(node, new)
    BY <1>0 DEF RemovedAbove
  <2>4. NodeGet(node, key) = NodeGet(child, Drop(key, n))
    BY <2>1 DEF NodeGet
  <2> QED
    BY <2>1, <2>2, <2>3, <2>4
<1>5. ASSUME ~IsPrefix(path, key)
      PROVE  /\ NodeGet(node, key) = NoValue
             /\ Walk(node, key) = at
             /\ \A value: NodeInsert(node, key, value) = Fork(node, key, value)
  <2>1. Walk(node, key) = at /\ \A value: NodeInsert(node, key, value) = InsertedAt(at, value)
    BY <1>2, <1>5, EndOfWay DEF at
  <2>2. NodeGet(node, key) = NoValue
    BY <1>0, <2>1 DEF NodeGet, ValueAt
  <2>3. \A value: InsertedAt(at, value) = Fork(node, key, value)
    BY <1>0 DEF InsertedAt
  <2> QED
    BY <2>1, <2>2, <2>3
<1> QED
  BY <1>4, <1>5 DEF at

\* At a branch.
LEMMA AtBranch ==
  ASSUME NEW l \in Nat, NEW node, NEW nibs, NEW children, NEW cache,
         IsBranch(node, l, nibs, children, cache), NEW key \in Key(l),
         NEW nib, nib = key[1], NEW rest, rest = Drop(key, 1)
  PROVE  /\ nib \in nibs =>
              /\ NodeGet(node, key) = NodeGet(children[nib], rest)
              /\ Walk(node, key) = Walk(children[nib], rest)
              /\ \A value: LET new == NodeInsert(children[nib], rest, value)
                           IN  NodeInsert(node, key, value) =
                                 IF new = Panic THEN Panic
                                 ELSE BranchNode(WithChild(children, nib, new), NoCache)
              /\ LET new == RemoveFound(children[nib], rest)
                 IN  RemoveFound(node, key) =
                       IF new = Panic THEN Panic
                       ELSE Collapsed(BranchNode(WithChild(children, nib, new), NoCache))
         /\ nib \notin nibs =>
              /\ NodeGet(node, key) = NoValue
              /\ Walk(node, key) = Place(node, key)
              /\ \A value: NodeInsert(node, key, value) =
                             BranchNode(WithChild(children, nib, Leaf(rest, value)), NoCache)
<1> DEFINE at == Place(node, key)
<1>0. /\ node.t = "branch" /\ node.children = children /\ DOMAIN children = nibs
      /\ at.node = node /\ at.key = key
  BY DEF IsBranch, BranchNode, Place
<1>h. key # <<>> /\ Head(key) = nib /\ Tail(key) = rest
  BY HeadTail DEF IsBranch
<1>1. Shape(node, l)
  BY ShapeBranch DEF IsBranch
<1>2. Descends(at) <=> nib \in nibs
  BY <1>0, <1>h DEF Descends
<1>3. Into(at).node = children[nib] /\ Into(at).key = rest
  BY <1>0, <1>h DEF Into
<1>s. \A new: SetChildren(node, new) = BranchNode(new, NoCache)
  BY UpdatesInPlace DEF IsBranch
<1> HIDE DEF at
<1>4. ASSUME nib \in nibs
      PROVE  /\ NodeGet(node, key) = NodeGet(children[nib], rest)
             /\ Walk(node, key) = Walk(children[nib], rest)
             /\ \A value: LET new == NodeInsert(children[nib], rest, value)
                          IN  NodeInsert(node, key, value) =
                                IF new = Panic THEN Panic
                                ELSE BranchNode(WithChild(children, nib, new), NoCache)
             /\ LET new == RemoveFound(children[nib], rest)
                IN  RemoveFound(node, key) =
                      IF new = Panic THEN Panic
                      ELSE Collapsed(BranchNode(WithChild(children, nib, new), NoCache))
  <2>1. /\ Walk(node, key) = Walk(children[nib], rest)
        /\ \A value: NodeInsert(node, key, value) = InsertedAbove(at, NodeInsert(children[nib], rest, value))
        /\ RemoveFound(node, key) = RemovedAbove(at, RemoveFound(children[nib], rest))
    <3> DEFINE child == children[nib]
    <3>1. at = Place(node, key) /\ Descends(at) /\ child = Into(at).node /\ rest = Into(at).key
      BY <1>2, <1>3, <1>4 DEF at
    <3> HIDE DEF child
    <3>2. Walk(node, key) = Walk(child, rest)
      BY <1>1, <3>1, DownTheWay
    <3>3. \A value: NodeInsert(node, key, value) = InsertedAbove(at, NodeInsert(child, rest, value))
      BY <1>1, <3>1, DownTheWay
    <3>4. RemoveFound(node, key) = RemovedAbove(at, RemoveFound(child, rest))
      BY <1>1, <3>1, DownTheWay
    <3> QED
      BY <3>2, <3>3, <3>4 DEF child
  <2>2. \A new: InsertedAbove(at, new) = IF new = Panic THEN Panic
                                         ELSE BranchNode(WithChild(children, nib, new), NoCache)
    BY <1>0, <1>h, <1>s DEF InsertedAbove
  <2>3. \A new: RemovedAbove(at, new) = IF new = Panic THEN Panic
                                        ELSE Collapsed(BranchNode(WithChild(children, nib, new), NoCache))
    BY <1>0, <1>h, <1>s DEF RemovedAbove
  <2>4. NodeGet(node, key) = NodeGet(children[nib], rest)
    BY <2>1 DEF NodeGet
  <2> QED
    BY <2>1, <2>2, <2>3, <2>4
<1>5. ASSUME nib \notin nibs
      PROVE  /\ NodeGet(node, key) = NoValue
             /\ Walk(node, key) = at
             /\ \A value: NodeInsert(node, key, value) =
                            BranchNode(WithChild(children, nib, Leaf(rest, value)), NoCache)
  <2>1. Walk(node, key) = at /\ \A value: NodeInsert(node, key, value) = InsertedAt(at, value)
    BY <1>2, <1>5, EndOfWay DEF at
  <2>2. NodeGet(node, key) = NoValue
    BY <1>0, <2>1 DEF NodeGet, ValueAt
  <2>3. \A value: InsertedAt(at, value) = BranchNode(WithChild(children, nib, Leaf(rest, value)), NoCache)
    BY <1>0, <1>h, <1>s DEF InsertedAt
  <2> QED
    BY <2>1, <2>2, <2>3
<1> QED
  BY <1>4, <1>5 DEF at

-----------------------------------------------------------------------------
\* A node whose path parts from the key.

\* Does a key follow the path of a node for n nibbles?
Follows(node, key, n) == \A i \in 1..n: node.path[i] = key[i]

HasPath(node, l, n) ==
  Shape(node, l) /\ node.t \in {"leaf", "extension"} /\ n = Len(node.path)

\* A node with a path is a leaf or an extension, and its path is not too long.
LEMMA PathOf ==
  ASSUME NEW l \in Nat, NEW node, NEW n, HasPath(node, l, n)
  PROVE  /\ n \in 0..l /\ node.path \in Key(n)
         /\ node.t = "leaf" =>
              /\ n = l /\ node.value \in Values
              /\ node = LeafNode(node.path, node.value, node.cache)
         /\ node.t = "extension" => IsExtension(node, l, n, node.path, node.child, node.cache)
<1>1. CASE node.t = "leaf"
  <2>1. PICK path, value, cache: IsLeaf(node, l, path, value, cache)
    BY <1>1, ShapeCases DEF HasPath, IsExtension, ExtensionNode, IsBranch, BranchNode
  <2>2. Len(path) = l
    BY <2>1 DEF IsLeaf, Key
  <2> QED
    BY <1>1, <2>1, <2>2 DEF IsLeaf, LeafNode, HasPath
<1>2. CASE node.t = "extension"
  <2>1. PICK m, path, child, cache: IsExtension(node, l, m, path, child, cache)
    BY <1>2, ShapeCases DEF HasPath, IsLeaf, LeafNode, IsBranch, BranchNode
  <2>2. node.path = path /\ node.child = child /\ node.cache = cache
    BY <2>1 DEF IsExtension, ExtensionNode
  <2>3. m = n
    BY <2>1, <2>2 DEF IsExtension, HasPath, Key
  <2>4. IsExtension(node, l, n, node.path, node.child, node.cache)
    BY <2>1, <2>2, <2>3
  <2> QED
    BY <1>2, <2>4 DEF IsExtension
<1> QED
  BY <1>1, <1>2 DEF HasPath

\* A key that leaves the path has no value there.
LEMMA OffPath ==
  ASSUME NEW l \in Nat, NEW node, NEW n, HasPath(node, l, n), NEW key \in Key(l), ~Follows(node, key, n)
  PROVE  NodeGet(node, key) = NoValue
<1>1. CASE node.t = "leaf"
  <2>1. node.path # key
    BY DEF Follows
  <2> QED
    BY <1>1, <2>1, AtEnd
<1>2. CASE node.t = "extension"
  <2>1. IsExtension(node, l, n, node.path, node.child, node.cache)
    BY <1>2, PathOf
  <2>2. ~IsPrefix(node.path, key)
    BY PathOf, PrefixNibbles DEF Follows
  <2> QED
    BY <2>1, <2>2, AtExtension
<1> QED
  BY <1>1, <1>2 DEF HasPath

\* The lower part of a node is a trie, and has what the node has.
LEMMA LowerPartIsTrie ==
  ASSUME NEW l \in Nat, NEW node, NEW n, HasPath(node, l, n), NEW m \in 1..n,
         NEW lower, lower = LowerPart(node, m)
  PROVE  /\ Shape(lower, l - m)
         /\ \A key \in Key(l): Follows(node, key, m) => NodeGet(lower, Drop(key, m)) = NodeGet(node, key)
<1>0. n \in 0..l /\ node.path \in Key(n) /\ m \in 0..n /\ m \in 0..l /\ l - m \in Nat /\ n - m \in Nat
  BY PathOf
<1>1. /\ Drop(node.path, m) \in Key(n - m)
      /\ \A i \in 1..(n - m): Drop(node.path, m)[i] = node.path[m + i]
  BY <1>0, DropKey
<1>2. \A key \in Key(l): Drop(key, m) \in Key(l - m) /\ \A i \in 1..(l - m): Drop(key, m)[i] = key[m + i]
  BY <1>0, DropKey
<1>3. CASE node.t = "leaf"
  <2>1. n = l /\ node.value \in Values
    BY <1>3, PathOf
  <2>2. lower = LeafNode(Drop(node.path, m), node.value, NoCache)
    BY <1>3 DEF LowerPart, Leaf, LeafNode
  <2>3. Shape(lower, l - m)
    BY <1>0, <1>1, <2>1, <2>2, ShapeLeaf
  <2>4. ASSUME NEW key \in Key(l), Follows(node, key, m)
        PROVE  NodeGet(lower, Drop(key, m)) = NodeGet(node, key)
    <3>1. Drop(node.path, m) = Drop(key, m) <=> node.path = key
      <4>1. node.path \in Key(l)
        BY <1>0, <2>1
      <4> QED
        BY <1>0, <4>1, <2>4, KeySplit DEF Follows
    <3>2. NodeGet(node, key) = IF node.path = key THEN node.value ELSE NoValue
      BY <1>3, AtEnd
    <3>3. lower.t = "leaf" /\ lower.path = Drop(node.path, m) /\ lower.value = node.value
      BY <2>2 DEF LeafNode
    <3>4. NodeGet(lower, Drop(key, m)) = IF Drop(node.path, m) = Drop(key, m) THEN node.value ELSE NoValue
      BY <3>3, AtEnd
    <3> QED
      BY <3>1, <3>2, <3>4
  <2> QED
    BY <2>3, <2>4
<1>4. CASE node.t = "extension"
  <2>0. IsExtension(node, l, n, node.path, node.child, node.cache)
    BY <1>4, PathOf
  <2>1. CASE m = n
    <3>1. lower = node.child
      <4>1. Drop(node.path, m) = <<>>
        BY <1>0, <1>1, <2>1, NoNibbles
      <4> QED
        BY <1>4, <4>1 DEF LowerPart
    <3>2. Shape(lower, l - m)
      BY <2>0, <2>1, <3>1 DEF IsExtension
    <3>3. ASSUME NEW key \in Key(l), Follows(node, key, m)
          PROVE  NodeGet(lower, Drop(key, m)) = NodeGet(node, key)
      <4>1. IsPrefix(node.path, key)
        BY <1>0, <2>1, <3>3, PrefixNibbles DEF Follows
      <4> QED
        BY <2>0, <2>1, <3>1, <4>1, AtExtension
    <3> QED
      BY <3>2, <3>3
  <2>2. CASE m # n
    <3>0. n - m \in 1..(l - m) /\ (l - m) - (n - m) = l - n
      BY <1>0, <2>2
    <3>1. lower = ExtensionNode(Drop(node.path, m), node.child, NoCache)
      <4>1. Drop(node.path, m) # <<>>
        BY <1>0, <1>1, <2>2, NoNibbles
      <4> QED
        BY <1>4, <4>1 DEF LowerPart, Extension, ExtensionNode
    <3>2. IsExtension(lower, l - m, n - m, Drop(node.path, m), node.child, NoCache)
      BY <1>1, <2>0, <3>0, <3>1 DEF IsExtension
    <3>3. Shape(lower, l - m)
      BY <1>0, <3>2, ShapeExtension DEF IsExtension
    <3>4. ASSUME NEW key \in Key(l), Follows(node, key, m)
          PROVE  NodeGet(lower, Drop(key, m)) = NodeGet(node, key)
      <4>1. IsPrefix(node.path, key) <=> \A i \in 1..n: node.path[i] = key[i]
        BY <1>0, PrefixNibbles
      <4>2. IsPrefix(Drop(node.path, m), Drop(key, m))
              <=> \A i \in 1..(n - m): Drop(node.path, m)[i] = Drop(key, m)[i]
        BY <1>0, <1>1, <1>2, <3>0, PrefixNibbles
      <4>3. IsPrefix(node.path, key) => IsPrefix(Drop(node.path, m), Drop(key, m))
        <5> SUFFICES ASSUME IsPrefix(node.path, key), NEW i \in 1..(n - m)
                     PROVE  Drop(node.path, m)[i] = Drop(key, m)[i]
          BY <4>2
        <5>1. m + i \in 1..n /\ i \in 1..(l - m)
          BY <1>0, <3>0
        <5> QED
          BY <1>1, <1>2, <4>1, <5>1
      <4>4. IsPrefix(Drop(node.path, m), Drop(key, m)) => IsPrefix(node.path, key)
        <5> SUFFICES ASSUME IsPrefix(Drop(node.path, m), Drop(key, m)), NEW i \in 1..n
                     PROVE  node.path[i] = key[i]
          BY <4>1
        <5>1. CASE i \in 1..m
          BY <3>4, <5>1 DEF Follows
        <5>2. CASE i \notin 1..m
          <6>1. i - m \in 1..(n - m) /\ i - m \in 1..(l - m) /\ m + (i - m) = i
            BY <1>0, <5>2
          <6> QED
            BY <1>1, <1>2, <4>2, <6>1
        <5> QED
          BY <5>1, <5>2
      <4>5. Drop(Drop(key, m), n - m) = Drop(key, n)
        <5>1. n - m \in 0..(l - m) /\ m + (n - m) = n
          BY <1>0, <3>0
        <5> QED
          BY <1>0, <5>1, DropTwice
      <4>6. IsPrefix(node.path, key) => NodeGet(node, key) = NodeGet(node.child, Drop(key, n))
        BY <2>0, AtExtension
      <4>7. ~IsPrefix(node.path, key) => NodeGet(node, key) = NoValue
        BY <2>0, AtExtension
      <4>8. Drop(key, m) \in Key(l - m)
        BY <1>2
      <4>9. IsPrefix(Drop(node.path, m), Drop(key, m)) =>
              NodeGet(lower, Drop(key, m)) = NodeGet(node.child, Drop(Drop(key, m), n - m))
        BY <1>0, <3>2, <4>8, AtExtension
      <4>10. ~IsPrefix(Drop(node.path, m), Drop(key, m)) => NodeGet(lower, Drop(key, m)) = NoValue
        BY <1>0, <3>2, <4>8, AtExtension
      <4> QED
        BY <4>3, <4>4, <4>5, <4>6, <4>7, <4>9, <4>10
    <3> QED
      BY <3>3, <3>4
  <2> QED
    BY <2>1, <2>2
<1> QED
  BY <1>3, <1>4 DEF HasPath

\* A branch of two.
LEMMA ForkBranch ==
  ASSUME NEW l \in Nat, l > 0, NEW here \in Nibble, NEW there \in Nibble, here # there,
         NEW new, Shape(new, l - 1), NEW old, Shape(old, l - 1),
         NEW branch, branch = Branch([i \in {there, here} |-> IF i = here THEN new ELSE old])
  PROVE  /\ Shape(branch, l) /\ branch.t = "branch"
         /\ \A key \in Key(l): NodeGet(branch, key) =
              IF key[1] = here THEN NodeGet(new, Drop(key, 1))
              ELSE IF key[1] = there THEN NodeGet(old, Drop(key, 1)) ELSE NoValue
<1> DEFINE nibs == {there, here}
           children == [i \in nibs |-> IF i = here THEN new ELSE old]
<1>1. IsFiniteSet(nibs) /\ Cardinality(nibs) = 2
  <2>1. IsFiniteSet({there}) /\ Cardinality({there}) = 1
    BY FS_Singleton
  <2>2. {there} \cup {here} = nibs /\ here \notin {there}
    OBVIOUS
  <2>3. IsFiniteSet({there} \cup {here}) /\ Cardinality({there} \cup {here}) = 1 + 1
    BY <2>1, <2>2, FS_AddElement
  <2> QED
    BY <2>2, <2>3
<1>2. branch = BranchNode(children, NoCache)
  BY DEF Branch, BranchNode
<1>3. children[here] = new /\ children[there] = old
  OBVIOUS
<1>4. children = [i \in nibs |-> children[i]]
  OBVIOUS
<1>5. nibs \in SUBSET Nibble /\ \A i \in nibs: i = here \/ i = there
  OBVIOUS
<1>6. here \in nibs /\ there \in nibs
  OBVIOUS
<1> HIDE DEF nibs, children
<1>7. Cardinality(nibs) >= 2
  BY <1>1
<1>8. IsBranch(branch, l, nibs, children, NoCache)
  BY <1>1, <1>2, <1>3, <1>4, <1>5, <1>7 DEF IsBranch
<1>9. Shape(branch, l)
  BY <1>8, ShapeBranch DEF IsBranch
<1>10. ASSUME NEW key \in Key(l)
       PROVE  NodeGet(branch, key) = IF key[1] = here THEN NodeGet(new, Drop(key, 1))
              ELSE IF key[1] = there THEN NodeGet(old, Drop(key, 1)) ELSE NoValue
  <2> DEFINE nib == key[1]
             rest == Drop(key, 1)
  <2>1. /\ nib \in nibs => NodeGet(branch, key) = NodeGet(children[nib], rest)
        /\ nib \notin nibs => NodeGet(branch, key) = NoValue
    <3> HIDE DEF nib, rest
    <3>1. nib = key[1] /\ rest = Drop(key, 1)
      BY DEF nib, rest
    <3> QED
      BY <1>8, <3>1, AtBranch
  <2> QED
    BY <1>3, <1>5, <1>6, <2>1
<1>11. branch.t = "branch"
  BY <1>2 DEF BranchNode
<1> QED
  BY <1>9, <1>10, <1>11

\* Where a new key parts from the path of a node, both are in the trie that takes
\* the place of the node, and nothing else is.
LEMMA ForkHasBoth ==
  ASSUME NEW l \in Nat, NEW node, NEW n, HasPath(node, l, n),
         NEW key \in Key(l), ~Follows(node, key, n), NEW value \in Values,
         NEW r, r = Fork(node, key, value)
  PROVE  /\ Shape(r, l)
         /\ \A k \in Key(l): NodeGet(r, k) = IF k = key THEN value ELSE NodeGet(node, k)
<1> DEFINE path == node.path
           common == LongestCommonPrefix({path, key})
<1>0. n \in 0..l /\ path \in Key(n)
  BY PathOf
<1>1. PICK c \in Nat: /\ c < n /\ c < l /\ common \in Key(c)
                      /\ IsPrefix(common, path) /\ IsPrefix(common, key)
                      /\ path[c + 1] # key[c + 1]
  <2>1. \E i \in 1..n: i <= l /\ path[i] # key[i]
    BY <1>0 DEF Follows
  <2>2. common = LongestCommonPrefix({path, key})
    OBVIOUS
  <2> HIDE DEF path, common
  <2> QED
    BY <1>0, <2>1, <2>2, CommonPart
<1> DEFINE h == c + 1
           lower == LowerPart(node, h)
           new == Leaf(Drop(key, h), value)
           branch == Branch([i \in {path[h], key[h]} |-> IF i = key[h] THEN new ELSE lower])
<1>2. r = IF common = <<>> THEN branch ELSE Extension(common, branch)
  <2>1. Len(common) = c
    BY <1>1 DEF Key
  <2> QED
    BY <2>1 DEF Fork
<1>3. h \in Nat /\ h \in 1..n /\ h \in 1..l /\ h \in 0..l /\ l - c \in Nat /\ l - c > 0 /\ (l - c) - 1 = l - h
  BY <1>0, <1>1
<1>4. path[h] \in Nibble /\ key[h] \in Nibble
  BY <1>0, <1>3, ElementOfSeq DEF Key
<1>p. \A i \in 1..c: common[i] = path[i] /\ common[i] = key[i]
  BY <1>0, <1>1, PrefixNibbles
<1> HIDE DEF common
<1>5. /\ Shape(lower, l - h)
      /\ \A k \in Key(l): Follows(node, k, h) => NodeGet(lower, Drop(k, h)) = NodeGet(node, k)
  <2> HIDE DEF h
  <2> QED
    BY <1>3, LowerPartIsTrie
<1>6. /\ Shape(new, l - h)
      /\ \A k: NodeGet(new, k) = IF Drop(key, h) = k THEN value ELSE NoValue
  <2>1. new = LeafNode(Drop(key, h), value, NoCache)
    BY DEF Leaf, LeafNode
  <2>2. Drop(key, h) \in Key(l - h) /\ l - h \in Nat
    BY <1>3, DropKey
  <2>3. Shape(new, l - h)
    <3> HIDE DEF new, h
    <3> QED
      BY <2>1, <2>2, ShapeLeaf
  <2>4. new.t = "leaf" /\ new.path = Drop(key, h) /\ new.value = value
    BY DEF Leaf
  <2> HIDE DEF new, h
  <2>5. \A k: NodeGet(new, k) = IF Drop(key, h) = k THEN value ELSE NoValue
    BY <2>4, AtEnd
  <2> QED
    BY <2>3, <2>5
<1>7. /\ Shape(branch, l - c) /\ branch.t = "branch"
      /\ \A k \in Key(l - c): NodeGet(branch, k) =
           IF k[1] = key[h] THEN NodeGet(new, Drop(k, 1))
           ELSE IF k[1] = path[h] THEN NodeGet(lower, Drop(k, 1)) ELSE NoValue
  <2> DEFINE here == key[h]
             there == path[h]
  <2>1. here # there /\ here \in Nibble /\ there \in Nibble
    BY <1>1, <1>4
  <2>2. branch = Branch([i \in {there, here} |-> IF i = here THEN new ELSE lower])
    OBVIOUS
  <2>3. Shape(new, (l - c) - 1) /\ Shape(lower, (l - c) - 1)
    BY <1>3, <1>5, <1>6
  <2> HIDE DEF here, there, new, lower, branch
  <2>4. /\ Shape(branch, l - c) /\ branch.t = "branch"
        /\ \A k \in Key(l - c): NodeGet(branch, k) =
             IF k[1] = here THEN NodeGet(new, Drop(k, 1))
             ELSE IF k[1] = there THEN NodeGet(lower, Drop(k, 1)) ELSE NoValue
    BY <1>3, <2>1, <2>2, <2>3, ForkBranch
  <2> QED
    BY <2>4 DEF here, there
<1> HIDE DEF branch, lower, new
<1>d. \A k \in Key(l): /\ Drop(k, c) \in Key(l - c) /\ Drop(k, c)[1] = k[h]
                       /\ Drop(Drop(k, c), 1) = Drop(k, h)
  <2> SUFFICES ASSUME NEW k \in Key(l)
               PROVE  /\ Drop(k, c) \in Key(l - c) /\ Drop(k, c)[1] = k[h]
                      /\ Drop(Drop(k, c), 1) = Drop(k, h)
    OBVIOUS
  <2>1. c \in 0..l /\ 1 \in 1..(l - c) /\ 1 \in 0..(l - c)
    BY <1>1, <1>3
  <2> QED
    BY <2>1, DropKey, DropTwice
<1>8. /\ Shape(r, l)
      /\ \A k \in Key(l): NodeGet(r, k) = IF \A i \in 1..c: common[i] = k[i]
                                          THEN NodeGet(branch, Drop(k, c)) ELSE NoValue
  <2>1. CASE common = <<>>
    <3>1. c = 0
      BY <1>1, <2>1, NoNibbles
    <3>2. \A k \in Key(l): Drop(k, c) = k
      BY <3>1, DropNone
    <3>3. r = branch /\ l - c = l
      BY <1>2, <2>1, <3>1
    <3>4. \A k: \A i \in 1..c: common[i] = k[i]
      BY <3>1
    <3> QED
      BY <1>7, <3>2, <3>3, <3>4
  <2>2. CASE common # <<>>
    <3>1. c # 0
      BY <1>1, <2>2, NoNibbles
    <3>2. r = ExtensionNode(common, branch, NoCache)
      BY <1>2, <2>2 DEF Extension, ExtensionNode
    <3>3. c \in 1..l
      BY <1>1, <3>1
    <3>4. IsExtension(r, l, c, common, branch, NoCache)
      BY <1>1, <1>7, <3>2, <3>3 DEF IsExtension
    <3>5. Shape(r, l)
      BY <3>4, ShapeExtension DEF IsExtension
    <3>6. ASSUME NEW k \in Key(l)
          PROVE  NodeGet(r, k) = IF \A i \in 1..c: common[i] = k[i]
                                 THEN NodeGet(branch, Drop(k, c)) ELSE NoValue
      <4>1. IsPrefix(common, k) <=> \A i \in 1..c: common[i] = k[i]
        BY <1>1, PrefixNibbles
      <4>2. /\ IsPrefix(common, k) => NodeGet(r, k) = NodeGet(branch, Drop(k, c))
            /\ ~IsPrefix(common, k) => NodeGet(r, k) = NoValue
        BY <3>4, AtExtension
      <4> QED
        BY <4>1, <4>2
    <3> QED
      BY <3>5, <3>6
  <2> QED
    BY <2>1, <2>2
<1>9. ASSUME NEW k \in Key(l) PROVE NodeGet(r, k) = IF k = key THEN value ELSE NodeGet(node, k)
  <2>1. NodeGet(branch, Drop(k, c)) = IF k[h] = key[h] THEN NodeGet(new, Drop(k, h))
                                     ELSE IF k[h] = path[h] THEN NodeGet(lower, Drop(k, h)) ELSE NoValue
    BY <1>7, <1>d
  <2>2. CASE ~ \A i \in 1..c: common[i] = k[i]
    <3>1. ~Follows(node, k, n)
      BY <1>0, <1>1, <1>p, <2>2 DEF Follows
    <3>2. NodeGet(node, k) = NoValue
      BY <3>1, OffPath
    <3>3. k # key
      BY <1>p, <2>2
    <3> QED
      BY <1>8, <2>2, <3>2, <3>3
  <2>3. CASE \A i \in 1..c: common[i] = k[i]
    <3>0. NodeGet(r, k) = NodeGet(branch, Drop(k, c))
      BY <1>8, <2>3
    <3>1. CASE k[h] = key[h]
      <4>1. \A i \in 1..h: k[i] = key[i]
        BY <1>1, <1>p, <2>3, <3>1
      <4>2. Drop(key, h) = Drop(k, h) <=> k = key
        BY <1>3, <4>1, KeySplit
      <4>3. ~Follows(node, k, n)
        BY <1>1, <1>3, <3>1 DEF Follows
      <4>4. NodeGet(node, k) = NoValue
        BY <4>3, OffPath
      <4> QED
        BY <1>6, <2>1, <3>0, <3>1, <4>2, <4>4
    <3>2. CASE k[h] # key[h]
      <4>1. k # key
        BY <3>2
      <4>2. CASE k[h] = path[h]
        <5>1. Follows(node, k, h)
          BY <1>1, <1>p, <2>3, <4>2 DEF Follows
        <5> QED
          BY <1>5, <2>1, <3>0, <3>2, <4>1, <4>2, <5>1
      <4>3. CASE k[h] # path[h]
        <5>1. ~Follows(node, k, n)
          BY <1>3, <4>3 DEF Follows
        <5>2. NodeGet(node, k) = NoValue
          BY <5>1, OffPath
        <5> QED
          BY <2>1, <3>0, <3>2, <4>1, <4>3, <5>2
      <4> QED
        BY <4>2, <4>3
    <3> QED
      BY <3>1, <3>2
  <2> QED
    BY <2>2, <2>3
<1> QED
  BY <1>8, <1>9

-----------------------------------------------------------------------------
\* insert.

\* A trie, or nothing.
Trie(node, l) == node = Null \/ Shape(node, l)

\* What insert leaves in the place of a node.
Inserted(node, key, value, l, new) ==
  /\ new # Panic => /\ Shape(new, l)
                    /\ node.t = "branch" => new.t = "branch"
                    /\ \A k \in Key(l): NodeGet(new, k) = IF k = key THEN value ELSE NodeGet(node, k)
  /\ new = Panic <=> NodeGet(node, key) = Panic

\* None of the tries is the panic.
LEMMA ShapeIsNode ==
  ASSUME NEW node, NEW l, Shape(node, l)
  PROVE  node # Panic /\ node # Null /\ node.t \in {"digest", "leaf", "extension", "branch"}
<1>1. WellMade(node, l)
  BY ShapeBelow DEF Made
<1>2. node.t \in {"digest", "leaf", "extension", "branch"}
  BY <1>1 DEF WellMade
<1> QED
  BY <1>2 DEF Panic, Null

\* Children with one of them set.
LEMMA SetOneChild ==
  ASSUME NEW l \in Nat, NEW node, NEW nibs, NEW children, NEW cache,
         IsBranch(node, l, nibs, children, cache), NEW nib \in Nibble,
         NEW child, Shape(child, l - 1),
         NEW new, new = BranchNode(WithChild(children, nib, child), NoCache)
  PROVE  /\ Shape(new, l) /\ new.t = "branch"
         /\ \A k \in Key(l): NodeGet(new, k) = IF k[1] = nib THEN NodeGet(child, Drop(k, 1))
                                                             ELSE NodeGet(node, k)
<1> DEFINE after == WithChild(children, nib, child)
           more == nibs \cup {nib}
<1>1. /\ l > 0 /\ nibs \in SUBSET Nibble /\ Cardinality(nibs) >= 2 /\ IsFiniteSet(nibs)
      /\ children = [i \in nibs |-> children[i]] /\ \A i \in nibs: Shape(children[i], l - 1)
  BY DEF IsBranch
<1>2. child # Null
  BY ShapeIsNode
<1>3. after = [i \in more |-> IF i = nib THEN child ELSE children[i]]
  <2>1. DOMAIN children = nibs
    BY <1>1
  <2> QED
    BY <1>2, <2>1 DEF WithChild
<1>4. IsFiniteSet(more) /\ Cardinality(more) >= 2
  <2>1. IsFiniteSet(more) /\ Cardinality(more) = IF nib \in nibs THEN Cardinality(nibs) ELSE Cardinality(nibs) + 1
    BY <1>1, FS_AddElement
  <2>2. Cardinality(nibs) \in Nat
    BY <1>1, FS_CardinalityType
  <2> QED
    BY <1>1, <2>1, <2>2
<1>5. more \in SUBSET Nibble /\ nib \in more /\ \A i: i \in more <=> i \in nibs \/ i = nib
  BY <1>1
<1> HIDE DEF after, more
<1>6. \A i \in more: after[i] = IF i = nib THEN child ELSE children[i]
  BY <1>3
<1>7. after = [i \in more |-> after[i]]
  BY <1>3
<1>8. IsBranch(new, l, more, after, NoCache)
  BY <1>1, <1>4, <1>5, <1>6, <1>7 DEF IsBranch, after
<1>9. Shape(new, l)
  BY <1>8, ShapeBranch DEF IsBranch
<1>10. ASSUME NEW k \in Key(l)
       PROVE  NodeGet(new, k) = IF k[1] = nib THEN NodeGet(child, Drop(k, 1)) ELSE NodeGet(node, k)
  <2> DEFINE i == k[1]
             rest == Drop(k, 1)
  <2>0. i = k[1] /\ rest = Drop(k, 1)
    OBVIOUS
  <2> HIDE DEF i, rest
  <2>1. /\ i \in more => NodeGet(new, k) = NodeGet(after[i], rest)
        /\ i \notin more => NodeGet(new, k) = NoValue
    BY <1>8, <2>0, AtBranch
  <2>2. /\ i \in nibs => NodeGet(node, k) = NodeGet(children[i], rest)
        /\ i \notin nibs => NodeGet(node, k) = NoValue
    BY <2>0, AtBranch
  <2> QED
    BY <1>5, <1>6, <2>0, <2>1, <2>2
<1>11. new.t = "branch"
  BY DEF BranchNode
<1> QED
  BY <1>9, <1>10, <1>11

\* insert at an extension, given what it does below.
LEMMA InsertAtExtension ==
  ASSUME NEW l \in Nat, NEW node, NEW n, NEW path, NEW child, NEW cache,
         IsExtension(node, l, n, path, child, cache), NEW key \in Key(l), NEW value \in Values,
         Inserted(child, Drop(key, n), value, l - n, NodeInsert(child, Drop(key, n), value)),
         NEW new, new = NodeInsert(node, key, value)
  PROVE  Inserted(node, key, value, l, new)
<1>0. /\ n \in 1..l /\ n \in 0..l /\ path \in Key(n) /\ Shape(child, l - n) /\ child.t \in {"branch", "digest"}
      /\ n \in Nat /\ l - n \in Nat
  BY DEF IsExtension
<1>1. node.t = "extension" /\ node.path = path /\ Shape(node, l)
  BY ShapeExtension DEF IsExtension, ExtensionNode
<1>2. HasPath(node, l, n)
  BY <1>0, <1>1 DEF HasPath, Key
<1>3. \A k \in Key(l): IsPrefix(path, k) <=> \A i \in 1..n: path[i] = k[i]
  BY <1>0, PrefixNibbles
<1>4. CASE ~IsPrefix(path, key)
  <2>1. ~Follows(node, key, n)
    BY <1>1, <1>3, <1>4 DEF Follows
  <2>2. new = Fork(node, key, value) /\ NodeGet(node, key) = NoValue
    BY <1>4, AtExtension
  <2>3. /\ Shape(new, l)
        /\ \A k \in Key(l): NodeGet(new, k) = IF k = key THEN value ELSE NodeGet(node, k)
    BY <1>2, <2>1, <2>2, ForkHasBoth
  <2>4. new # Panic
    BY <2>3, ShapeIsNode
  <2>5. NoValue # Panic
    BY DEF NoValue, Panic
  <2> QED
    BY <1>1, <2>2, <2>3, <2>4, <2>5 DEF Inserted
<1>5. CASE IsPrefix(path, key)
  <2> DEFINE rest == Drop(key, n)
             below == NodeInsert(child, rest, value)
  <2>1. NodeGet(node, key) = NodeGet(child, rest)
    BY <1>5, AtExtension
  <2>2. new = IF below = Panic THEN Panic ELSE ExtensionNode(path, below, NoCache)
    BY <1>5, AtExtension
  <2>i. Inserted(child, rest, value, l - n, below)
    OBVIOUS
  <2>r. rest \in Key(l - n)
    BY <1>0, DropKey
  <2>k. rest = Drop(key, n)
    OBVIOUS
  <2> HIDE DEF below, rest
  <2>3. CASE below = Panic
    BY <1>1, <2>1, <2>2, <2>3, <2>i DEF Inserted
  <2>4. CASE below # Panic
    <3>1. /\ Shape(below, l - n) /\ (child.t = "branch" => below.t = "branch")
          /\ \A k \in Key(l - n): NodeGet(below, k) = IF k = rest THEN value ELSE NodeGet(child, k)
      BY <2>4, <2>i DEF Inserted
    <3>2. below.t = "branch"
      <4>1. CASE child.t = "digest"
        <5>1. NodeGet(child, rest) = Panic
          BY <4>1, AtEnd
        <5> QED
          BY <2>4, <2>i, <5>1 DEF Inserted
      <4> QED
        BY <1>0, <3>1, <4>1
    <3>3. IsExtension(new, l, n, path, below, NoCache)
      BY <1>0, <2>2, <2>4, <3>1, <3>2 DEF IsExtension
    <3>4. Shape(new, l)
      BY <3>3, ShapeExtension DEF IsExtension
    <3>5. ASSUME NEW k \in Key(l)
          PROVE  NodeGet(new, k) = IF k = key THEN value ELSE NodeGet(node, k)
      <4>1. /\ IsPrefix(path, k) => NodeGet(new, k) = NodeGet(below, Drop(k, n))
            /\ ~IsPrefix(path, k) => NodeGet(new, k) = NoValue
        BY <3>3, AtExtension
      <4>2. /\ IsPrefix(path, k) => NodeGet(node, k) = NodeGet(child, Drop(k, n))
            /\ ~IsPrefix(path, k) => NodeGet(node, k) = NoValue
        BY AtExtension
      <4>3. Drop(k, n) \in Key(l - n)
        BY <1>0, DropKey
      <4>4. IsPrefix(path, k) => (Drop(k, n) = rest <=> k = key)
        <5> SUFFICES ASSUME IsPrefix(path, k), Drop(k, n) = rest PROVE k = key
          BY <2>k
        <5>1. \A i \in 1..n: k[i] = key[i]
          BY <1>3, <1>5
        <5> QED
          BY <1>0, <2>k, <5>1, KeySplit
      <4> QED
        BY <1>5, <3>1, <4>1, <4>2, <4>3, <4>4
    <3>6. NodeGet(child, rest) # Panic
      BY <2>4, <2>i DEF Inserted
    <3>7. new # Panic
      BY <3>4, ShapeIsNode
    <3> QED
      BY <1>1, <2>1, <3>4, <3>5, <3>6, <3>7 DEF Inserted
  <2> QED
    BY <2>3, <2>4
<1> QED
  BY <1>4, <1>5

\* insert at a branch, given what it does below.
LEMMA InsertAtBranch ==
  ASSUME NEW l \in Nat, NEW node, NEW nibs, NEW children, NEW cache,
         IsBranch(node, l, nibs, children, cache), NEW key \in Key(l), NEW value \in Values,
         NEW nib, nib = key[1], NEW rest, rest = Drop(key, 1),
         nib \in nibs => Inserted(children[nib], rest, value, l - 1, NodeInsert(children[nib], rest, value)),
         NEW new, new = NodeInsert(node, key, value)
  PROVE  Inserted(node, key, value, l, new)
<1>0. l > 0 /\ l - 1 \in Nat /\ node.t = "branch" /\ \A i \in nibs: Shape(children[i], l - 1)
  BY DEF IsBranch, BranchNode
<1>1. nib \in Nibble /\ rest \in Key(l - 1)
  BY <1>0, HeadTail
<1>2. NoValue # Panic
  BY DEF NoValue, Panic
<1>3. ASSUME NEW k \in Key(l) PROVE k[1] = nib /\ Drop(k, 1) = rest <=> k = key
  <2> SUFFICES ASSUME k[1] = nib, Drop(k, 1) = rest PROVE k = key
    OBVIOUS
  <2>1. 1 \in 0..l /\ \A i \in 1..1: k[i] = key[i]
    BY <1>0
  <2> QED
    BY <2>1, KeySplit
<1>4. \A k \in Key(l): Drop(k, 1) \in Key(l - 1)
  <2>1. 1 \in 0..l
    BY <1>0
  <2> QED
    BY <2>1, DropKey
<1>5. CASE nib \notin nibs
  <2> DEFINE child == Leaf(rest, value)
  <2>1. new = BranchNode(WithChild(children, nib, child), NoCache) /\ NodeGet(node, key) = NoValue
    BY <1>5, AtBranch
  <2>2. child = LeafNode(rest, value, NoCache)
    BY DEF Leaf, LeafNode
  <2>3. child.t = "leaf" /\ child.path = rest /\ child.value = value
    BY <2>2 DEF LeafNode
  <2> HIDE DEF child
  <2>4. Shape(child, l - 1)
    BY <1>0, <1>1, <2>2, ShapeLeaf
  <2>5. \A k: NodeGet(child, k) = IF rest = k THEN value ELSE NoValue
    BY <2>3, AtEnd
  <2>6. /\ Shape(new, l) /\ new.t = "branch"
        /\ \A k \in Key(l): NodeGet(new, k) = IF k[1] = nib THEN NodeGet(child, Drop(k, 1))
                                                            ELSE NodeGet(node, k)
    BY <1>1, <2>1, <2>4, SetOneChild
  <2>7. \A k \in Key(l): k[1] = nib => NodeGet(node, k) = NoValue
    <3> SUFFICES ASSUME NEW k \in Key(l), k[1] = nib PROVE NodeGet(node, k) = NoValue
      OBVIOUS
    <3> DEFINE tail == Drop(k, 1)
    <3>1. tail = Drop(k, 1) /\ nib = k[1]
      OBVIOUS
    <3> HIDE DEF tail
    <3> QED
      BY <1>5, <3>1, AtBranch
  <2>8. \A k \in Key(l): NodeGet(new, k) = IF k = key THEN value ELSE NodeGet(node, k)
    BY <1>3, <2>5, <2>6, <2>7
  <2>9. new # Panic
    BY <2>6, ShapeIsNode
  <2> QED
    BY <1>2, <2>1, <2>6, <2>8, <2>9 DEF Inserted
<1>6. CASE nib \in nibs
  <2> DEFINE old == children[nib]
             below == NodeInsert(old, rest, value)
  <2>1. /\ NodeGet(node, key) = NodeGet(old, rest)
        /\ new = IF below = Panic THEN Panic ELSE BranchNode(WithChild(children, nib, below), NoCache)
    BY <1>6, AtBranch
  <2>2. Inserted(old, rest, value, l - 1, below)
    BY <1>6
  <2>3. \A k \in Key(l): k[1] = nib => NodeGet(node, k) = NodeGet(old, Drop(k, 1))
    <3> SUFFICES ASSUME NEW k \in Key(l), k[1] = nib PROVE NodeGet(node, k) = NodeGet(old, Drop(k, 1))
      OBVIOUS
    <3> DEFINE tail == Drop(k, 1)
    <3>1. tail = Drop(k, 1) /\ nib = k[1]
      OBVIOUS
    <3> HIDE DEF tail
    <3> QED
      BY <1>6, <3>1, AtBranch
  <2> HIDE DEF old, below
  <2>4. CASE below = Panic
    BY <1>0, <2>1, <2>2, <2>4 DEF Inserted
  <2>5. CASE below # Panic
    <3>1. /\ Shape(below, l - 1)
          /\ \A k \in Key(l - 1): NodeGet(below, k) = IF k = rest THEN value ELSE NodeGet(old, k)
      BY <2>2, <2>5 DEF Inserted
    <3>2. /\ Shape(new, l) /\ new.t = "branch"
          /\ \A k \in Key(l): NodeGet(new, k) = IF k[1] = nib THEN NodeGet(below, Drop(k, 1))
                                                              ELSE NodeGet(node, k)
      BY <1>1, <2>1, <2>5, <3>1, SetOneChild
    <3>3. \A k \in Key(l): NodeGet(new, k) = IF k = key THEN value ELSE NodeGet(node, k)
      BY <1>3, <1>4, <2>3, <3>1, <3>2
    <3>4. new # Panic /\ NodeGet(node, key) # Panic
      BY <2>1, <2>2, <2>5, <3>2, ShapeIsNode DEF Inserted
    <3> QED
      BY <3>2, <3>3, <3>4 DEF Inserted
  <2> QED
    BY <2>4, <2>5
<1> QED
  BY <1>5, <1>6

\* insert on every trie, by induction on the length of the keys.
LEMMA InsertInduction ==
  ASSUME NEW value \in Values
  PROVE  \A l \in Nat: \A node, key: Shape(node, l) /\ key \in Key(l) =>
           Inserted(node, key, value, l, NodeInsert(node, key, value))
<1> DEFINE S == {l \in Nat: \A node, key: Shape(node, l) /\ key \in Key(l) =>
                   Inserted(node, key, value, l, NodeInsert(node, key, value))}
<1>1. ASSUME NEW l \in Nat, \A m \in 0..(l - 1): m \in S PROVE l \in S
  <2> SUFFICES ASSUME NEW node, NEW key, Shape(node, l), key \in Key(l)
               PROVE  Inserted(node, key, value, l, NodeInsert(node, key, value))
    OBVIOUS
  <2>b. ASSUME NEW m \in 0..(l - 1), NEW n, NEW k, Shape(n, m), k \in Key(m)
        PROVE  Inserted(n, k, value, m, NodeInsert(n, k, value))
    <3>1. m \in S
      BY <1>1
    <3> QED
      BY <2>b, <3>1
  <2> HIDE DEF S
  <2> DEFINE new == NodeInsert(node, key, value)
  <2>1. CASE node.t = "digest"
    <3>1. new = InsertedAt(Place(node, key), value) /\ NodeGet(node, key) = Panic
      BY <2>1, AtEnd
    <3>2. new = Panic
      BY <2>1, <3>1 DEF InsertedAt, Place
    <3> QED
      BY <3>1, <3>2 DEF Inserted
  <2>2. ASSUME NEW path \in Key(l), NEW old \in Values, NEW cache, node = LeafNode(path, old, cache)
        PROVE  Inserted(node, key, value, l, new)
    <3>1. node.t = "leaf" /\ node.path = path /\ node.value = old
      BY <2>2 DEF LeafNode
    <3>2. new = InsertedAt(Place(node, key), value) /\ \A k: NodeGet(node, k) = IF path = k THEN old ELSE NoValue
      BY <3>1, AtEnd
    <3>3. NodeGet(node, key) # Panic
      BY <3>2, ValuesAssumption DEF NoValue, Panic
    <3>4. CASE path = key
      <4>1. new = SetValue(node, value)
        BY <3>1, <3>2, <3>4 DEF InsertedAt, Place
      <4>2. new = LeafNode(path, value, NoCache)
        BY <2>2, <4>1, UpdatesInPlace
      <4>3. new.t = "leaf" /\ new.path = path /\ new.value = value
        BY <4>2 DEF LeafNode
      <4>4. \A k: NodeGet(new, k) = IF path = k THEN value ELSE NoValue
        BY <4>3, AtEnd
      <4>5. Shape(new, l)
        BY <4>2, ShapeLeaf
      <4>6. new # Panic
        BY <4>5, ShapeIsNode
      <4>7. \A k \in Key(l): NodeGet(new, k) = IF k = key THEN value ELSE NodeGet(node, k)
        BY <3>2, <3>4, <4>4
      <4> HIDE DEF new
      <4> QED
        BY <3>1, <3>3, <4>5, <4>6, <4>7 DEF Inserted
    <3>5. CASE path # key
      <4>1. new = Fork(node, key, value)
        BY <3>1, <3>2, <3>5 DEF InsertedAt, Place
      <4>2. HasPath(node, l, l)
        BY <3>1 DEF HasPath, Key
      <4>3. ~Follows(node, key, l)
        BY <3>1, <3>5, KeyEqual DEF Follows
      <4> HIDE DEF new
      <4>4. /\ Shape(new, l)
            /\ \A k \in Key(l): NodeGet(new, k) = IF k = key THEN value ELSE NodeGet(node, k)
        BY <4>1, <4>2, <4>3, ForkHasBoth
      <4>5. new # Panic
        BY <4>4, ShapeIsNode
      <4> QED
        BY <3>1, <3>3, <4>4, <4>5 DEF Inserted
    <3> QED
      BY <3>4, <3>5
  <2>3. ASSUME NEW n, NEW path, NEW child, NEW cache, IsExtension(node, l, n, path, child, cache)
        PROVE  Inserted(node, key, value, l, new)
    <3>1. n \in 0..l /\ l - n \in 0..(l - 1) /\ Shape(child, l - n)
      BY <2>3 DEF IsExtension
    <3>2. Drop(key, n) \in Key(l - n)
      BY <3>1, DropKey
    <3>3. Inserted(child, Drop(key, n), value, l - n, NodeInsert(child, Drop(key, n), value))
      BY <2>b, <3>1, <3>2
    <3> QED
      BY <2>3, <3>3, InsertAtExtension
  <2>4. ASSUME NEW nibs, NEW children, NEW cache, IsBranch(node, l, nibs, children, cache)
        PROVE  Inserted(node, key, value, l, new)
    <3> DEFINE nib == key[1]
               rest == Drop(key, 1)
    <3>1. l > 0 /\ l - 1 \in 0..(l - 1) /\ 1 \in 0..l /\ \A i \in nibs: Shape(children[i], l - 1)
      BY <2>4 DEF IsBranch
    <3>2. rest \in Key(l - 1)
      BY <3>1, DropKey
    <3>3. nib = key[1] /\ rest = Drop(key, 1)
      OBVIOUS
    <3> HIDE DEF nib, rest
    <3>4. nib \in nibs => Inserted(children[nib], rest, value, l - 1, NodeInsert(children[nib], rest, value))
      BY <2>b, <3>1, <3>2
    <3> QED
      BY <2>4, <3>3, <3>4, InsertAtBranch
  <2> QED
    BY <2>1, <2>2, <2>3, <2>4, ShapeCases DEF IsLeaf
<1> HIDE DEF S
<1>2. \A l \in Nat: l \in S
  BY <1>1, SetInduction
<1> QED
  BY <1>2 DEF S

\* insert, on any trie and any key that meets no digest, leaves a trie that has the
\* value for the key and every other key's value as before (node.rs:97-186); it panics
\* exactly where get does.
THEOREM InsertSets ==
  ASSUME NEW l \in Nat, NEW node, Trie(node, l), NEW key \in Key(l), NEW value \in Values,
         NEW new, new = NodeInsert(node, key, value)
  PROVE  /\ new # Panic => /\ Trie(new, l)
                           /\ \A k \in Key(l): NodeGet(new, k) = IF k = key THEN value ELSE NodeGet(node, k)
         /\ new = Panic <=> NodeGet(node, key) = Panic
<1>1. CASE Shape(node, l)
  BY <1>1, InsertInduction DEF Inserted, Trie
<1>2. CASE node = Null
  <2>1. node.t = "null"
    BY <1>2 DEF Null
  <2>2. new = InsertedAt(Place(node, key), value) /\ \A k: NodeGet(node, k) = NoValue
    BY <2>1, AtEnd
  <2>3. new = LeafNode(key, value, NoCache)
    BY <2>1, <2>2 DEF InsertedAt, Place, Leaf, LeafNode
  <2>4. new.t = "leaf" /\ new.path = key /\ new.value = value
    BY <2>3 DEF LeafNode
  <2>5. \A k: NodeGet(new, k) = IF key = k THEN value ELSE NoValue
    BY <2>4, AtEnd
  <2>6. Shape(new, l)
    BY <2>3, ShapeLeaf
  <2>7. new # Panic /\ NoValue # Panic
    BY <2>6, ShapeIsNode DEF NoValue, Panic
  <2> QED
    BY <2>2, <2>5, <2>6, <2>7 DEF Trie
<1> QED
  BY <1>1, <1>2 DEF Trie

-----------------------------------------------------------------------------
\* remove.

\* A node whose path is prolonged upwards: what becomes of an extension over it, and
\* of a branch it is the only child of.
LEMMA Prolonged ==
  ASSUME NEW l \in Nat, NEW n \in 1..l, NEW p \in Key(n),
         NEW below, Shape(below, l - n), below.t # "digest",
         NEW r,
         below.t = "leaf" => r = Leaf(p \o below.path, below.value),
         below.t = "extension" => r = Extension(p \o below.path, below.child),
         below.t = "branch" => r = ExtensionNode(p, below, NoCache)
  PROVE  /\ Shape(r, l) /\ r.t \in {"leaf", "extension"}
         /\ \A k \in Key(l): NodeGet(r, k) = IF IsPrefix(p, k) THEN NodeGet(below, Drop(k, n)) ELSE NoValue
<1>0. n \in Nat /\ n \in 0..l /\ l - n \in Nat
  OBVIOUS
<1>1. \A k \in Key(l): Drop(k, n) \in Key(l - n)
  BY <1>0, DropKey
<1>2. ASSUME NEW path \in Key(l - n), NEW value \in Values, NEW cache, below = LeafNode(path, value, cache)
      PROVE  /\ Shape(r, l) /\ r.t \in {"leaf", "extension"}
             /\ \A k \in Key(l): NodeGet(r, k) = IF IsPrefix(p, k) THEN NodeGet(below, Drop(k, n)) ELSE NoValue
  <2>1. below.t = "leaf" /\ below.path = path /\ below.value = value
    BY <1>2 DEF LeafNode
  <2>2. r = LeafNode(Joined(p, path), value, NoCache)
    BY <2>1 DEF Joined, Leaf, LeafNode
  <2>3. Joined(p, path) \in Key(l)
    <3>1. Joined(p, path) \in Key(n + (l - n)) /\ n + (l - n) = l
      BY <1>0, JoinedPath
    <3> QED
      BY <3>1
  <2>4. Shape(r, l)
    BY <2>2, <2>3, ShapeLeaf
  <2>5. r.t = "leaf" /\ r.path = Joined(p, path) /\ r.value = value
    BY <2>2 DEF LeafNode
  <2>6. /\ \A k: NodeGet(r, k) = IF Joined(p, path) = k THEN value ELSE NoValue
        /\ \A k: NodeGet(below, k) = IF path = k THEN value ELSE NoValue
    BY <2>1, <2>5, AtEnd
  <2>7. \A k \in Key(l): Joined(p, path) = k <=> IsPrefix(p, k) /\ path = Drop(k, n)
    BY <1>0, JoinedPrefix
  <2> QED
    BY <2>4, <2>5, <2>6, <2>7
<1>3. ASSUME NEW m, NEW path, NEW child, NEW cache, IsExtension(below, l - n, m, path, child, cache)
      PROVE  /\ Shape(r, l) /\ r.t \in {"leaf", "extension"}
             /\ \A k \in Key(l): NodeGet(r, k) = IF IsPrefix(p, k) THEN NodeGet(below, Drop(k, n)) ELSE NoValue
  <2>1. below.t = "extension" /\ below.path = path /\ below.child = child
    BY <1>3 DEF IsExtension, ExtensionNode
  <2>2. /\ m \in 1..(l - n) /\ path \in Key(m) /\ child.t \in {"branch", "digest"}
        /\ Shape(child, (l - n) - m)
    BY <1>3 DEF IsExtension
  <2>3. m \in Nat /\ n + m \in 1..l /\ (l - n) - m = l - (n + m)
    BY <2>2
  <2>4. Joined(p, path) \in Key(n + m)
    BY <1>0, <2>2, <2>3, JoinedPath
  <2>5. r = ExtensionNode(Joined(p, path), child, NoCache)
    BY <2>1 DEF Joined, Extension, ExtensionNode
  <2>6. IsExtension(r, l, n + m, Joined(p, path), child, NoCache)
    BY <2>2, <2>3, <2>4, <2>5 DEF IsExtension
  <2>7. Shape(r, l) /\ r.t = "extension"
    BY <2>5, <2>6, ShapeExtension DEF IsExtension, ExtensionNode
  <2>8. ASSUME NEW k \in Key(l)
        PROVE  NodeGet(r, k) = IF IsPrefix(p, k) THEN NodeGet(below, Drop(k, n)) ELSE NoValue
    <3>1. /\ IsPrefix(Joined(p, path), k) <=> IsPrefix(p, k) /\ IsPrefix(path, Drop(k, n))
          /\ IsPrefix(Joined(p, path), k) => Drop(k, n + m) = Drop(Drop(k, n), m)
      BY <1>0, <2>2, <2>3, JoinedPrefix
    <3>2. /\ IsPrefix(Joined(p, path), k) => NodeGet(r, k) = NodeGet(child, Drop(k, n + m))
          /\ ~IsPrefix(Joined(p, path), k) => NodeGet(r, k) = NoValue
      BY <2>6, AtExtension
    <3> DEFINE rest == Drop(k, n)
    <3>3. rest \in Key(l - n)
      BY <1>1
    <3> HIDE DEF rest
    <3>4. /\ IsPrefix(path, rest) => NodeGet(below, rest) = NodeGet(child, Drop(rest, m))
          /\ ~IsPrefix(path, rest) => NodeGet(below, rest) = NoValue
      BY <1>0, <1>3, <3>3, AtExtension
    <3> QED
      BY <3>1, <3>2, <3>4 DEF rest
  <2> QED
    BY <2>7, <2>8
<1>4. ASSUME NEW nibs, NEW children, NEW cache, IsBranch(below, l - n, nibs, children, cache)
      PROVE  /\ Shape(r, l) /\ r.t \in {"leaf", "extension"}
             /\ \A k \in Key(l): NodeGet(r, k) = IF IsPrefix(p, k) THEN NodeGet(below, Drop(k, n)) ELSE NoValue
  <2>1. below.t = "branch"
    BY <1>4 DEF IsBranch, BranchNode
  <2>2. IsExtension(r, l, n, p, below, NoCache)
    BY <2>1 DEF IsExtension
  <2>3. Shape(r, l) /\ r.t = "extension"
    BY <2>1, <2>2, ShapeExtension DEF IsExtension, ExtensionNode
  <2>4. \A k \in Key(l): /\ IsPrefix(p, k) => NodeGet(r, k) = NodeGet(below, Drop(k, n))
                         /\ ~IsPrefix(p, k) => NodeGet(r, k) = NoValue
    BY <2>2, AtExtension
  <2> QED
    BY <2>3, <2>4
<1> QED
  BY <1>2, <1>3, <1>4, ShapeCases DEF IsLeaf

\* A branch with several children left stays one, and one with a single child gives way
\* to what the child becomes under its nibble.
LEMMA Collapsing ==
  ASSUME NEW node
  PROVE  /\ Cardinality(DOMAIN node.children) # 1 => Collapsed(node) = node
         /\ \A i, child:
              (/\ Cardinality(DOMAIN node.children) = 1
               /\ i = (CHOOSE j \in DOMAIN node.children: TRUE) /\ child = node.children[i])
              => /\ child.t = "leaf" => Collapsed(node) = Leaf(<<i>> \o child.path, child.value)
                 /\ child.t = "extension" => Collapsed(node) = Extension(<<i>> \o child.path, child.child)
                 /\ child.t = "branch" => Collapsed(node) = Extension(<<i>>, child)
                 /\ child.t = "digest" => Collapsed(node) = Panic
<1>1. Cardinality(DOMAIN node.children) # 1 => Collapsed(node) = node
  BY DEF Collapsed
<1>2. ASSUME NEW i, NEW child, Cardinality(DOMAIN node.children) = 1,
             i = (CHOOSE j \in DOMAIN node.children: TRUE), child = node.children[i]
      PROVE  /\ child.t = "leaf" => Collapsed(node) = Leaf(<<i>> \o child.path, child.value)
             /\ child.t = "extension" => Collapsed(node) = Extension(<<i>> \o child.path, child.child)
             /\ child.t = "branch" => Collapsed(node) = Extension(<<i>>, child)
             /\ child.t = "digest" => Collapsed(node) = Panic
  <2>1. Collapsed(node) = CASE child.t = "leaf"      -> Leaf(<<i>> \o child.path, child.value)
                            [] child.t = "extension" -> Extension(<<i>> \o child.path, child.child)
                            [] child.t = "branch"    -> Extension(<<i>>, child)
                            [] child.t = "digest"    -> Panic
    BY <1>2 DEF Collapsed
  <2> DEFINE a == Leaf(<<i>> \o child.path, child.value)
             b == Extension(<<i>> \o child.path, child.child)
             c == Extension(<<i>>, child)
  <2>2. Collapsed(node) = CASE child.t = "leaf" -> a [] child.t = "extension" -> b
                            [] child.t = "branch" -> c [] child.t = "digest" -> Panic
    BY <2>1
  <2> HIDE DEF a, b, c
  <2>3. /\ child.t = "leaf" => Collapsed(node) = a
        /\ child.t = "extension" => Collapsed(node) = b
        /\ child.t = "branch" => Collapsed(node) = c
        /\ child.t = "digest" => Collapsed(node) = Panic
    BY <2>2
  <2> QED
    BY <2>3 DEF a, b, c
<1> QED
  BY <1>1, <1>2

\* Is the one child of those at nibs not resolved?
OnlyDigest(nibs, children) == \E i: nibs = {i} /\ children[i].t = "digest"

\* A branch that has lost children, or had one replaced, but has one left.
LEMMA CollapsedIsTrie ==
  ASSUME NEW l \in Nat, l > 0, NEW nibs \in SUBSET Nibble, IsFiniteSet(nibs), nibs # {},
         NEW children, children = [i \in nibs |-> children[i]],
         \A i \in nibs: Shape(children[i], l - 1),
         NEW r, r = Collapsed(BranchNode(children, NoCache))
  PROVE  /\ r # Panic =>
              /\ Shape(r, l) /\ r.t # "digest"
              /\ \A k \in Key(l): NodeGet(r, k) = IF k[1] \in nibs THEN NodeGet(children[k[1]], Drop(k, 1))
                                                                   ELSE NoValue
         /\ r = Panic <=> OnlyDigest(nibs, children)
<1> DEFINE node == BranchNode(children, NoCache)
<1>0. node.children = children /\ DOMAIN children = nibs
  BY DEF BranchNode
<1>1. Cardinality(nibs) \in Nat /\ Cardinality(nibs) # 0
  BY FS_CardinalityType, FS_EmptySet
<1>s. Cardinality(nibs) = 1 <=> \E i: nibs = {i}
  BY ONLY IsFiniteSet(nibs), FS_Singleton, Zenon
<1>2. CASE Cardinality(nibs) # 1
  <2>1. r = node
    BY <1>0, <1>2, Collapsing
  <2>2. Cardinality(nibs) >= 2
    BY <1>1, <1>2
  <2>3. IsBranch(r, l, nibs, children, NoCache)
    BY <2>1, <2>2 DEF IsBranch
  <2>4. Shape(r, l) /\ r.t = "branch"
    BY <2>1, <2>3, ShapeBranch DEF IsBranch, BranchNode
  <2>5. ASSUME NEW k \in Key(l)
        PROVE  NodeGet(r, k) = IF k[1] \in nibs THEN NodeGet(children[k[1]], Drop(k, 1)) ELSE NoValue
    <3> DEFINE nib == k[1]
               rest == Drop(k, 1)
    <3>1. nib = k[1] /\ rest = Drop(k, 1)
      OBVIOUS
    <3> HIDE DEF nib, rest
    <3>2. /\ nib \in nibs => NodeGet(r, k) = NodeGet(children[nib], rest)
          /\ nib \notin nibs => NodeGet(r, k) = NoValue
      BY <2>3, <3>1, AtBranch
    <3> QED
      BY <3>1, <3>2
  <2>6. r # Panic
    BY <2>4, ShapeIsNode
  <2>7. ~OnlyDigest(nibs, children)
    BY <1>2, <1>s DEF OnlyDigest
  <2>8. r.t # "digest"
    BY <2>4
  <2>9. Shape(r, l) /\ \A k \in Key(l): NodeGet(r, k) = IF k[1] \in nibs THEN NodeGet(children[k[1]], Drop(k, 1))
                                                                       ELSE NoValue
    BY <2>4, <2>5
  <2> QED
    BY <2>6, <2>7, <2>8, <2>9
<1>3. CASE Cardinality(nibs) = 1
  <2>1. PICK i: nibs = {i}
    BY <1>3, <1>s
  <2> DEFINE child == children[i]
  <2>2. (CHOOSE j \in DOMAIN node.children: TRUE) = i
    BY <1>0, <2>1
  <2>3. /\ child.t = "leaf" => r = Leaf(<<i>> \o child.path, child.value)
        /\ child.t = "extension" => r = Extension(<<i>> \o child.path, child.child)
        /\ child.t = "branch" => r = Extension(<<i>>, child)
        /\ child.t = "digest" => r = Panic
    <3>1. Cardinality(DOMAIN node.children) = 1
      BY <1>0, <1>3
    <3>2. node.children[i] = child
      BY <1>0
    <3>3. r = Collapsed(node)
      OBVIOUS
    <3> HIDE DEF node, child
    <3> QED
      BY <2>2, <3>1, <3>2, <3>3, Collapsing
  <2>4. i \in Nibble /\ Shape(child, l - 1) /\ l - 1 \in Nat
    BY <2>1
  <2>5. child.t \in {"digest", "leaf", "extension", "branch"}
    BY <2>4, ShapeIsNode
  <2>6. CASE child.t = "digest"
    <3>1. r = Panic
      BY <2>3, <2>6
    <3>2. OnlyDigest(nibs, children)
      BY <2>1, <2>6 DEF OnlyDigest
    <3> QED
      BY <3>1, <3>2
  <2>7. CASE child.t # "digest"
    <3> DEFINE p == <<i>>
    <3>1. p \in Key(1) /\ 1 \in 1..l /\ p[1] = i
      BY <2>4, OneNibble
    <3>2. /\ child.t = "leaf" => r = Leaf(p \o child.path, child.value)
          /\ child.t = "extension" => r = Extension(p \o child.path, child.child)
          /\ child.t = "branch" => r = ExtensionNode(p, child, NoCache)
      BY <2>3 DEF Extension, ExtensionNode
    <3> HIDE DEF p, child
    <3>3. /\ Shape(r, l) /\ r.t \in {"leaf", "extension"}
          /\ \A k \in Key(l): NodeGet(r, k) = IF IsPrefix(p, k) THEN NodeGet(child, Drop(k, 1)) ELSE NoValue
      BY <2>4, <2>7, <3>1, <3>2, Prolonged
    <3>4. ASSUME NEW k \in Key(l) PROVE IsPrefix(p, k) <=> k[1] \in nibs
      <4>1. IsPrefix(p, k) <=> 1 <= l /\ \A j \in 1..1: p[j] = k[j]
        BY <3>1, PrefixNibbles
      <4> QED
        BY <2>1, <3>1, <4>1
    <3>5. ASSUME NEW k \in Key(l)
          PROVE  NodeGet(r, k) = IF k[1] \in nibs THEN NodeGet(children[k[1]], Drop(k, 1)) ELSE NoValue
      <4>1. k[1] \in nibs => children[k[1]] = child
        BY <2>1 DEF child
      <4> QED
        BY <3>3, <3>4, <4>1
    <3>6. r # Panic
      BY <3>3, ShapeIsNode
    <3>7. ~OnlyDigest(nibs, children)
      BY <2>1, <2>7 DEF child, OnlyDigest
    <3> QED
      BY <3>3, <3>5, <3>6, <3>7
  <2> QED
    BY <2>6, <2>7
<1> QED
  BY <1>2, <1>3

\* A removal that leaves nothing of a leaf, and of the branch above it only a child
\* that is not resolved.
Orphaning(at) ==
  /\ Descends(at) /\ at.node.t = "branch"
  /\ Into(at).node.t = "leaf"
  /\ OnlyDigest(DOMAIN at.node.children \ {Head(at.key)}, at.node.children)

LeavesOrphan(node, key) == \E n \in Nat: Orphaning(Way(node, key)[n])

\* It does so at a place on the way.
LEMMA OrphanOnTheWay ==
  ASSUME NEW node, NEW key, NEW at, at = Place(node, key)
  PROVE  /\ ~Descends(at) => ~LeavesOrphan(node, key)
         /\ Descends(at) =>
              (LeavesOrphan(node, key) <=> Orphaning(at) \/ LeavesOrphan(Into(at).node, Into(at).key))
<1>1. Way(node, key)[0] = at
  BY WaySteps
<1>2. ASSUME ~Descends(at) PROVE ~LeavesOrphan(node, key)
  <2>1. \A n \in Nat: Way(node, key)[n] = at
    BY <1>2, WayBelow
  <2>2. ~Orphaning(at)
    BY <1>2 DEF Orphaning
  <2> QED
    BY <2>1, <2>2 DEF LeavesOrphan
<1>3. ASSUME Descends(at)
      PROVE  LeavesOrphan(node, key) <=> Orphaning(at) \/ LeavesOrphan(Into(at).node, Into(at).key)
  <2> DEFINE w == Way(node, key)
             b == Way(Into(at).node, Into(at).key)
  <2>1. w[0] = at /\ \A n \in Nat: w[n + 1] = b[n]
    BY <1>1, <1>3, WayBelow
  <2> HIDE DEF w, b
  <2>2. ASSUME NEW n \in Nat, Orphaning(w[n])
        PROVE  Orphaning(at) \/ \E m \in Nat: Orphaning(b[m])
    <3>1. CASE n = 0
      BY <2>1, <2>2, <3>1
    <3>2. CASE n # 0
      <4>1. n - 1 \in Nat /\ (n - 1) + 1 = n
        BY <3>2
      <4>2. w[n] = b[n - 1]
        BY <2>1, <4>1
      <4> QED
        BY <2>2, <4>1, <4>2
    <3> QED
      BY <3>1, <3>2
  <2>3. ASSUME NEW m \in Nat, Orphaning(b[m]) PROVE \E n \in Nat: Orphaning(w[n])
    <3>1. m + 1 \in Nat
      OBVIOUS
    <3> QED
      BY <2>1, <2>3, <3>1
  <2> QED
    BY <2>1, <2>2, <2>3 DEF LeavesOrphan, w, b
<1> QED
  BY <1>2, <1>3

\* An extension whose child changed, for each kind of child.
LEMMA Merging ==
  ASSUME NEW node, NEW child
  PROVE  /\ child.t = "null" => Merged(node, child) = Null
         /\ child.t = "leaf" => Merged(node, child) = Leaf(node.path \o child.path, child.value)
         /\ child.t = "extension" => Merged(node, child) = Extension(node.path \o child.path, child.child)
         /\ child.t = "branch" => Merged(node, child) = SetChild(node, child)
         /\ child.t = "panic" => Merged(node, child) = Panic
<1> DEFINE a == Leaf(node.path \o child.path, child.value)
           b == Extension(node.path \o child.path, child.child)
           c == SetChild(node, child)
<1>1. Merged(node, child) = CASE child.t = "null" -> Null [] child.t = "leaf" -> a
                              [] child.t = "extension" -> b [] child.t = "branch" -> c
                              [] child.t = "panic" -> Panic
  BY DEF Merged
<1> HIDE DEF a, b, c
<1>2. /\ child.t = "null" => Merged(node, child) = Null
      /\ child.t = "leaf" => Merged(node, child) = a
      /\ child.t = "extension" => Merged(node, child) = b
      /\ child.t = "branch" => Merged(node, child) = c
      /\ child.t = "panic" => Merged(node, child) = Panic
  BY <1>1
<1> QED
  BY <1>2 DEF a, b, c

\* What remove leaves in the place of a node that has the key, or may have it below a
\* digest.
Removed(node, key, l, new) ==
  /\ new # Panic =>
       /\ new = Null \/ (Shape(new, l) /\ new.t # "digest")
       /\ new = Null => node.t = "leaf"
       /\ \A k \in Key(l): NodeGet(new, k) = IF k = key THEN NoValue ELSE NodeGet(node, k)
  /\ new = Panic <=> NodeGet(node, key) = Panic \/ LeavesOrphan(node, key)

\* remove at an extension, given what it does below.
LEMMA RemoveAtExtension ==
  ASSUME NEW l \in Nat, NEW node, NEW n, NEW path, NEW child, NEW cache,
         IsExtension(node, l, n, path, child, cache), NEW key \in Key(l), IsPrefix(path, key),
         NEW rest, rest = Drop(key, n), NEW below, below = RemoveFound(child, rest),
         Removed(child, rest, l - n, below),
         NEW new, new = RemoveFound(node, key)
  PROVE  Removed(node, key, l, new)
<1> DEFINE at == Place(node, key)
<1>0. /\ n \in 1..l /\ n \in 0..l /\ path \in Key(n) /\ Shape(child, l - n) /\ child.t \in {"branch", "digest"}
      /\ n \in Nat /\ l - n \in Nat /\ Len(path) = n
  BY DEF IsExtension, Key
<1>1. node.t = "extension" /\ node.path = path /\ node.child = child
  BY DEF IsExtension, ExtensionNode
<1>2. Descends(at) /\ Into(at).node = child /\ Into(at).key = rest /\ at.node = node
  BY <1>0, <1>1 DEF Descends, Into, Place
<1>3. LeavesOrphan(node, key) <=> LeavesOrphan(child, rest)
  <2>1. ~Orphaning(at)
    BY <1>1, <1>2 DEF Orphaning
  <2> QED
    BY <1>2, <2>1, OrphanOnTheWay
<1>4. NodeGet(node, key) = NodeGet(child, rest) /\ new = Merged(node, below)
  BY AtExtension
<1> HIDE DEF at
<1>5. CASE below = Panic
  <2>1. below.t = "panic"
    BY <1>5 DEF Panic
  <2>2. new = Panic
    BY <1>4, <2>1, Merging
  <2> QED
    BY <1>3, <1>4, <1>5, <2>2 DEF Removed
<1>6. CASE below # Panic
  <2>1. /\ Shape(below, l - n) /\ below.t # "digest"
        /\ \A k \in Key(l - n): NodeGet(below, k) = IF k = rest THEN NoValue ELSE NodeGet(child, k)
        /\ NodeGet(child, rest) # Panic /\ ~LeavesOrphan(child, rest)
    BY <1>0, <1>6 DEF Removed
  <2>2. SetChild(node, below) = ExtensionNode(path, below, NoCache)
    BY UpdatesInPlace DEF IsExtension
  <2>3. /\ below.t = "leaf" => new = Leaf(path \o below.path, below.value)
        /\ below.t = "extension" => new = Extension(path \o below.path, below.child)
        /\ below.t = "branch" => new = ExtensionNode(path, below, NoCache)
    BY <1>1, <1>4, <2>2, Merging
  <2>4. /\ Shape(new, l) /\ new.t \in {"leaf", "extension"}
        /\ \A k \in Key(l): NodeGet(new, k) = IF IsPrefix(path, k) THEN NodeGet(below, Drop(k, n)) ELSE NoValue
    BY <1>0, <2>1, <2>3, Prolonged
  <2>5. ASSUME NEW k \in Key(l)
        PROVE  NodeGet(new, k) = IF k = key THEN NoValue ELSE NodeGet(node, k)
    <3> DEFINE tail == Drop(k, n)
    <3>0. NodeGet(new, k) = IF IsPrefix(path, k) THEN NodeGet(below, tail) ELSE NoValue
      BY <2>4
    <3>1. /\ IsPrefix(path, k) => NodeGet(node, k) = NodeGet(child, tail)
          /\ ~IsPrefix(path, k) => NodeGet(node, k) = NoValue
      BY AtExtension
    <3>2. tail \in Key(l - n)
      BY <1>0, DropKey
    <3>3. IsPrefix(path, k) => (tail = rest <=> k = key)
      <4> SUFFICES ASSUME IsPrefix(path, k), tail = rest PROVE k = key
        OBVIOUS
      <4>1. \A j \in Key(l): IsPrefix(path, j) <=> \A i \in 1..n: path[i] = j[i]
        BY <1>0, PrefixNibbles
      <4>2. \A i \in 1..n: k[i] = key[i]
        BY <4>1
      <4> QED
        BY <1>0, <4>2, KeySplit
    <3> HIDE DEF tail
    <3> QED
      BY <2>1, <3>0, <3>1, <3>2, <3>3
  <2>6. new # Panic /\ new # Null /\ new.t # "digest"
    BY <2>4, ShapeIsNode
  <2>7. NodeGet(node, key) # Panic /\ ~LeavesOrphan(node, key)
    BY <1>3, <1>4, <2>1
  <2> QED
    BY <2>4, <2>5, <2>6, <2>7 DEF Removed
<1> QED
  BY <1>5, <1>6

\* What becomes of a branch whose child at nib was replaced, or lost if below is Null.
Replaced(node, l, nibs, children, nib, below, new) ==
  /\ new # Panic =>
       /\ Shape(new, l) /\ new.t # "digest"
       /\ \A k \in Key(l): NodeGet(new, k) = IF k[1] = nib THEN NodeGet(below, Drop(k, 1))
                                                           ELSE NodeGet(node, k)
  /\ new = Panic <=> below = Null /\ OnlyDigest(nibs \ {nib}, children)

\* It collapses if need be.
LEMMA CollapseOneChild ==
  ASSUME NEW l \in Nat, NEW node, NEW nibs, NEW children, NEW cache,
         IsBranch(node, l, nibs, children, cache), NEW nib \in nibs,
         NEW below, below = Null \/ Shape(below, l - 1),
         NEW new, new = Collapsed(BranchNode(WithChild(children, nib, below), NoCache))
  PROVE  Replaced(node, l, nibs, children, nib, below, new)
<1> DEFINE after == WithChild(children, nib, below)
           left == IF below = Null THEN nibs \ {nib} ELSE nibs
<1>1. /\ l > 0 /\ nibs \in SUBSET Nibble /\ Cardinality(nibs) >= 2 /\ IsFiniteSet(nibs)
      /\ children = [i \in nibs |-> children[i]] /\ \A i \in nibs: Shape(children[i], l - 1)
  BY DEF IsBranch
<1>2. after = [i \in left |-> IF i = nib THEN below ELSE children[i]]
  <2>1. DOMAIN children = nibs
    BY <1>1
  <2>2. CASE below = Null
    <3>1. \A i \in nibs \ {nib}: i # nib
      OBVIOUS
    <3> QED
      BY <2>1, <2>2, <3>1 DEF WithChild
  <2>3. CASE below # Null
    <3>1. nibs \cup {nib} = nibs
      OBVIOUS
    <3> QED
      BY <2>1, <2>3, <3>1 DEF WithChild
  <2> QED
    BY <2>2, <2>3
<1>3. IsFiniteSet(left) /\ Cardinality(left) >= 1 /\ left \in SUBSET Nibble
  <2>1. IsFiniteSet(nibs \ {nib}) /\ Cardinality(nibs \ {nib}) = Cardinality(nibs) - 1
    BY <1>1, FS_RemoveElement
  <2>2. Cardinality(nibs) \in Nat
    BY <1>1, FS_CardinalityType
  <2> QED
    BY <1>1, <2>1, <2>2
<1>4. left # {}
  BY <1>3, FS_EmptySet
<1>5. \A i: i \in left <=> i \in nibs /\ (below = Null => i # nib)
  OBVIOUS
<1> HIDE DEF after, left
<1>6. after = [i \in left |-> after[i]] /\ \A i \in left: after[i] = IF i = nib THEN below ELSE children[i]
  BY <1>2
<1>7. \A i \in left: Shape(after[i], l - 1)
  BY <1>1, <1>5, <1>6
<1>8. new = Collapsed(BranchNode(after, NoCache))
  BY DEF after
<1>9. /\ new # Panic =>
           /\ Shape(new, l) /\ new.t # "digest"
           /\ \A k \in Key(l): NodeGet(new, k) = IF k[1] \in left THEN NodeGet(after[k[1]], Drop(k, 1))
                                                                  ELSE NoValue
      /\ new = Panic <=> OnlyDigest(left, after)
  <2>0. left \in SUBSET Nibble /\ IsFiniteSet(left) /\ after = [i \in left |-> after[i]]
    BY <1>3, <1>6
  <2>1. new # Panic => Shape(new, l) /\ new.t # "digest"
    BY <2>0, <1>1, <1>4, <1>7, <1>8, CollapsedIsTrie
  <2>2. ASSUME new # Panic, NEW k \in Key(l)
        PROVE  NodeGet(new, k) = IF k[1] \in left THEN NodeGet(after[k[1]], Drop(k, 1)) ELSE NoValue
    BY <2>0, <2>2, <1>1, <1>4, <1>7, <1>8, CollapsedIsTrie
  <2>3. new = Panic <=> OnlyDigest(left, after)
    BY <2>0, <1>1, <1>4, <1>7, <1>8, CollapsedIsTrie
  <2> QED
    BY <2>1, <2>2, <2>3
<1>10. ASSUME new # Panic, NEW k \in Key(l)
       PROVE  NodeGet(new, k) = IF k[1] = nib THEN NodeGet(below, Drop(k, 1)) ELSE NodeGet(node, k)
  <2> DEFINE i == k[1]
             rest == Drop(k, 1)
  <2>0. i = k[1] /\ rest = Drop(k, 1)
    OBVIOUS
  <2>1. NodeGet(new, k) = IF i \in left THEN NodeGet(after[i], rest) ELSE NoValue
    BY <1>9, <1>10
  <2> HIDE DEF i, rest
  <2>2. /\ i \in nibs => NodeGet(node, k) = NodeGet(children[i], rest)
        /\ i \notin nibs => NodeGet(node, k) = NoValue
    BY <2>0, AtBranch
  <2>3. below = Null => NodeGet(below, rest) = NoValue
    <3>1. Null.t = "null"
      BY DEF Null
    <3> QED
      BY <3>1, AtEnd
  <2>4. NodeGet(new, k) = IF i = nib THEN NodeGet(below, rest) ELSE NodeGet(node, k)
    BY <1>5, <1>6, <2>1, <2>2, <2>3
  <2> QED
    BY <2>0, <2>4
<1>11. CASE below = Null
  <2>1. left = nibs \ {nib}
    BY <1>11 DEF left
  <2>2. \A i: left = {i} => after[i] = children[i]
    BY <1>5, <1>6, <1>11
  <2>3. OnlyDigest(left, after) <=> OnlyDigest(nibs \ {nib}, children)
    BY <2>1, <2>2 DEF OnlyDigest
  <2> QED
    BY <1>9, <1>10, <1>11, <2>3 DEF Replaced
<1>12. CASE below # Null
  <2>1. left = nibs
    BY <1>12 DEF left
  <2>2. \A i: left # {i}
    <3> SUFFICES ASSUME NEW i, left = {i} PROVE FALSE
      OBVIOUS
    <3>1. Cardinality(left) = 1
      BY FS_Singleton
    <3> QED
      BY <1>1, <2>1, <3>1
  <2>3. new # Panic
    BY <1>9, <2>2 DEF OnlyDigest
  <2> QED
    BY <1>9, <1>10, <1>12, <2>3 DEF Replaced
<1> QED
  BY <1>11, <1>12

\* remove at a branch, given what it does below.
LEMMA RemoveAtBranch ==
  ASSUME NEW l \in Nat, NEW node, NEW nibs, NEW children, NEW cache,
         IsBranch(node, l, nibs, children, cache), NEW key \in Key(l),
         NEW nib, nib = key[1], nib \in nibs, NEW rest, rest = Drop(key, 1),
         NEW old, old = children[nib], NodeGet(old, rest) # NoValue,
         NEW below, below = RemoveFound(old, rest), Removed(old, rest, l - 1, below),
         NEW new, new = RemoveFound(node, key)
  PROVE  Removed(node, key, l, new)
<1> DEFINE at == Place(node, key)
           Bare == OnlyDigest(nibs \ {nib}, children)
<1>0. /\ l > 0 /\ l - 1 \in Nat /\ node.t = "branch" /\ node.children = children /\ DOMAIN children = nibs
      /\ Shape(old, l - 1)
  BY DEF IsBranch, BranchNode
<1>h. key # <<>> /\ Head(key) = nib /\ Tail(key) = rest
  BY <1>0, HeadTail
<1>1. /\ Descends(at) /\ Into(at).node = old /\ Into(at).key = rest
      /\ at.node = node /\ Head(at.key) = nib
  BY <1>0, <1>h DEF Descends, Into, Place
<1>2. Orphaning(at) <=> old.t = "leaf" /\ Bare
  BY <1>0, <1>1 DEF Orphaning
<1> HIDE DEF Bare
<1>3. LeavesOrphan(node, key) <=> (old.t = "leaf" /\ Bare) \/ LeavesOrphan(old, rest)
  BY <1>1, <1>2, OrphanOnTheWay
<1>4. /\ NodeGet(node, key) = NodeGet(old, rest)
      /\ new = IF below = Panic THEN Panic
               ELSE Collapsed(BranchNode(WithChild(children, nib, below), NoCache))
  BY AtBranch
<1> HIDE DEF at
<1>5. CASE below = Panic
  BY <1>3, <1>4, <1>5 DEF Removed
<1>6. CASE below # Panic
  <2>1. /\ below = Null \/ Shape(below, l - 1)
        /\ below = Null => old.t = "leaf"
        /\ \A k \in Key(l - 1): NodeGet(below, k) = IF k = rest THEN NoValue ELSE NodeGet(old, k)
        /\ NodeGet(old, rest) # Panic /\ ~LeavesOrphan(old, rest)
    BY <1>6 DEF Removed
  <2>2. old.t = "leaf" => below = Null
    BY AtEnd
  <2>3. /\ new # Panic =>
             /\ Shape(new, l) /\ new.t # "digest"
             /\ \A k \in Key(l): NodeGet(new, k) = IF k[1] = nib THEN NodeGet(below, Drop(k, 1))
                                                                 ELSE NodeGet(node, k)
        /\ new = Panic <=> below = Null /\ Bare
    <3>0. /\ nib \in nibs /\ (below = Null \/ Shape(below, l - 1))
          /\ new = Collapsed(BranchNode(WithChild(children, nib, below), NoCache))
      BY <1>4, <1>6, <2>1
    <3>1. Replaced(node, l, nibs, children, nib, below, new)
      BY <3>0, CollapseOneChild
    <3> QED
      BY <3>1 DEF Replaced, Bare
  <2>4. new = Panic <=> NodeGet(node, key) = Panic \/ LeavesOrphan(node, key)
    BY <1>3, <1>4, <2>1, <2>2, <2>3
  <2>5. ASSUME new # Panic, NEW k \in Key(l)
        PROVE  NodeGet(new, k) = IF k = key THEN NoValue ELSE NodeGet(node, k)
    <3> DEFINE tail == Drop(k, 1)
    <3>1. NodeGet(new, k) = IF k[1] = nib THEN NodeGet(below, tail) ELSE NodeGet(node, k)
      BY <2>3, <2>5
    <3>2. 1 \in 0..l /\ tail \in Key(l - 1)
      BY <1>0, DropKey
    <3>3. k[1] = nib => NodeGet(node, k) = NodeGet(old, tail)
      <4> SUFFICES ASSUME k[1] = nib PROVE NodeGet(node, k) = NodeGet(old, tail)
        OBVIOUS
      <4>1. tail = Drop(k, 1) /\ nib = k[1]
        OBVIOUS
      <4> HIDE DEF tail
      <4> QED
        BY <4>1, AtBranch
    <3>4. k[1] = nib /\ tail = rest <=> k = key
      <4> SUFFICES ASSUME k[1] = nib, tail = rest PROVE k = key
        OBVIOUS
      <4>1. \A i \in 1..1: k[i] = key[i]
        OBVIOUS
      <4> QED
        BY <3>2, <4>1, KeySplit
    <3> HIDE DEF tail
    <3> QED
      BY <2>1, <3>1, <3>2, <3>3, <3>4
  <2>6. new # Panic => new # Null
    BY <2>3, ShapeIsNode
  <2>7. new # Panic => Shape(new, l) /\ new.t # "digest"
    BY <2>3
  <2> QED
    BY <2>4, <2>5, <2>6, <2>7 DEF Removed
<1> QED
  BY <1>5, <1>6

\* remove on every trie, by induction on the length of the keys.
LEMMA RemoveInduction ==
  \A l \in Nat: \A node, key: Shape(node, l) /\ key \in Key(l) /\ NodeGet(node, key) # NoValue =>
    Removed(node, key, l, RemoveFound(node, key))
<1> DEFINE S == {l \in Nat: \A node, key: Shape(node, l) /\ key \in Key(l) /\ NodeGet(node, key) # NoValue =>
                   Removed(node, key, l, RemoveFound(node, key))}
<1>1. ASSUME NEW l \in Nat, \A m \in 0..(l - 1): m \in S PROVE l \in S
  <2> SUFFICES ASSUME NEW node, NEW key, Shape(node, l), key \in Key(l), NodeGet(node, key) # NoValue
               PROVE  Removed(node, key, l, RemoveFound(node, key))
    OBVIOUS
  <2>b. ASSUME NEW m \in 0..(l - 1), NEW n, NEW k, Shape(n, m), k \in Key(m), NodeGet(n, k) # NoValue
        PROVE  Removed(n, k, m, RemoveFound(n, k))
    <3>1. m \in S
      BY <1>1
    <3> QED
      BY <2>b, <3>1
  <2> HIDE DEF S
  <2> DEFINE new == RemoveFound(node, key)
  <2>1. CASE node.t = "digest"
    <3>1. new = Panic /\ NodeGet(node, key) = Panic
      BY <2>1, AtEnd
    <3> QED
      BY <3>1 DEF Removed
  <2>2. ASSUME NEW path \in Key(l), NEW value \in Values, NEW cache, node = LeafNode(path, value, cache)
        PROVE  Removed(node, key, l, new)
    <3>1. node.t = "leaf" /\ node.path = path /\ node.value = value
      BY <2>2 DEF LeafNode
    <3>2. new = Null /\ \A k: NodeGet(node, k) = IF path = k THEN value ELSE NoValue
      BY <3>1, AtEnd
    <3>3. path = key
      BY <3>2
    <3>4. Null.t = "null" /\ Null # Panic /\ NoValue # Panic
      BY DEF Null, Panic, NoValue
    <3>5. \A k: NodeGet(new, k) = NoValue
      BY <3>2, <3>4, AtEnd
    <3>6. NodeGet(node, key) # Panic
      BY <3>2, ValuesAssumption
    <3>7. ~Descends(Place(node, key))
      BY <3>1 DEF Descends, Place
    <3>8. ~LeavesOrphan(node, key)
      BY <3>7, OrphanOnTheWay
    <3> HIDE DEF new
    <3> QED
      BY <3>1, <3>2, <3>3, <3>4, <3>5, <3>6, <3>8 DEF Removed
  <2>3. ASSUME NEW n, NEW path, NEW child, NEW cache, IsExtension(node, l, n, path, child, cache)
        PROVE  Removed(node, key, l, new)
    <3> DEFINE rest == Drop(key, n)
               below == RemoveFound(child, rest)
    <3>1. n \in 0..l /\ l - n \in 0..(l - 1) /\ Shape(child, l - n)
      BY <2>3 DEF IsExtension
    <3>2. IsPrefix(path, key) /\ NodeGet(node, key) = NodeGet(child, rest)
      BY <2>3, AtExtension
    <3>3. rest \in Key(l - n)
      BY <3>1, DropKey
    <3>4. rest = Drop(key, n) /\ below = RemoveFound(child, rest)
      OBVIOUS
    <3> HIDE DEF rest, below
    <3>5. Removed(child, rest, l - n, below)
      BY <2>b, <3>1, <3>2, <3>3, <3>4
    <3> QED
      BY <2>3, <3>2, <3>4, <3>5, RemoveAtExtension
  <2>4. ASSUME NEW nibs, NEW children, NEW cache, IsBranch(node, l, nibs, children, cache)
        PROVE  Removed(node, key, l, new)
    <3> DEFINE nib == key[1]
               rest == Drop(key, 1)
               old == children[nib]
               below == RemoveFound(old, rest)
    <3>1. l > 0 /\ l - 1 \in 0..(l - 1) /\ 1 \in 0..l /\ \A i \in nibs: Shape(children[i], l - 1)
      BY <2>4 DEF IsBranch
    <3>2. rest \in Key(l - 1)
      BY <3>1, DropKey
    <3>3. nib = key[1] /\ rest = Drop(key, 1)
      OBVIOUS
    <3>4. old = children[nib] /\ below = RemoveFound(old, rest)
      OBVIOUS
    <3> HIDE DEF nib, rest, old, below
    <3>5. nib \in nibs /\ NodeGet(node, key) = NodeGet(old, rest)
      BY <2>4, <3>3, <3>4, AtBranch
    <3>6. Removed(old, rest, l - 1, below)
      BY <2>b, <3>1, <3>2, <3>4, <3>5
    <3> QED
      BY <2>4, <3>3, <3>4, <3>5, <3>6, RemoveAtBranch
  <2> QED
    BY <2>1, <2>2, <2>3, <2>4, ShapeCases DEF IsLeaf
<1> HIDE DEF S
<1>2. \A l \in Nat: l \in S
  BY <1>1, SetInduction
<1> QED
  BY <1>2 DEF S

\* remove, on any trie, leaves a trie without the key and with every other key's value
\* as before (node.rs:189-262): no branch with a single child stays, and no extension
\* over anything but a branch.  A key that is not there changes nothing.  It panics
\* exactly where get does and where a branch would be left with an unresolved child only.
THEOREM RemoveUnsets ==
  ASSUME NEW l \in Nat, NEW node, Trie(node, l), NEW key \in Key(l),
         NEW new, new = NodeRemove(node, key)
  PROVE  /\ new # Panic => /\ Trie(new, l)
                           /\ \A k \in Key(l): NodeGet(new, k) = IF k = key THEN NoValue ELSE NodeGet(node, k)
         /\ NodeGet(node, key) = NoValue => new = node
         /\ new = Panic <=> \/ NodeGet(node, key) = Panic
                            \/ NodeGet(node, key) # NoValue /\ LeavesOrphan(node, key)
<1>1. NoValue # Panic
  BY DEF NoValue, Panic
<1>2. node # Panic
  <2>1. Null # Panic
    BY DEF Null, Panic
  <2> QED
    BY <2>1, ShapeIsNode DEF Trie
<1>3. CASE NodeGet(node, key) = NoValue
  <2>1. new = node
    BY <1>3 DEF NodeRemove
  <2> QED
    BY <1>1, <1>2, <1>3, <2>1
<1>4. CASE NodeGet(node, key) # NoValue
  <2>1. Shape(node, l)
    <3>1. Null.t = "null"
      BY DEF Null
    <3>2. node # Null
      BY <1>4, <3>1, AtEnd
    <3> QED
      BY <3>2 DEF Trie
  <2>2. new = RemoveFound(node, key)
    BY <1>4 DEF NodeRemove
  <2>3. Removed(node, key, l, new)
    BY <1>4, <2>1, <2>2, RemoveInduction
  <2> QED
    BY <1>4, <2>3 DEF Removed, Trie
<1> QED
  BY <1>3, <1>4

-----------------------------------------------------------------------------
\* A map has one trie.

\* Is no digest on the way of any key?
Resolved(node, l) == \A key \in Key(l): NodeGet(node, key) # Panic

Same(a, b, l) == \A key \in Key(l): NodeGet(a, key) = NodeGet(b, key)

\* What two nodes share that are equal but for their caches and what is below them.
SameHere(a, b) ==
  /\ a.t = b.t
  /\ a.t = "leaf" => a.path = b.path /\ a.value = b.value
  /\ a.t = "extension" => a.path = b.path
  /\ a.t = "branch" => DOMAIN a.children = DOMAIN b.children

\* What is below them, pair by pair.
Pairs(a, b) ==
  CASE a.t = "extension" -> {<<a.child, b.child>>}
    [] a.t = "branch"    -> {<<a.children[i], b.children[i]>>: i \in DOMAIN a.children}
    [] OTHER             -> {}

AreAlike(R) == \A a, b: <<a, b>> \in R => SameHere(a, b) /\ \A pair \in Pairs(a, b): pair \in R

\* Tries that are equal but for their caches, as Node::eq compares them (node.rs:65-77).
Alike(a, b) == \E R: <<a, b>> \in R /\ AreAlike(R)

\* Nodes are alike if what is below them is.
LEMMA AlikeAbove ==
  ASSUME NEW a, NEW b, SameHere(a, b), \A pair \in Pairs(a, b): \E c, d: pair = <<c, d>> /\ Alike(c, d)
  PROVE  Alike(a, b)
<1> DEFINE Holds(pair, R) == pair \in R /\ AreAlike(R)
           C(pair) == CHOOSE R: Holds(pair, R)
           T == {<<a, b>>} \cup UNION {C(pair): pair \in Pairs(a, b)}
<1>1. \A pair \in Pairs(a, b): Holds(pair, C(pair))
  <2> SUFFICES ASSUME NEW pair \in Pairs(a, b) PROVE Holds(pair, C(pair))
    OBVIOUS
  <2>1. \E R: Holds(pair, R)
    BY DEF Alike
  <2> QED
    BY <2>1
<1> HIDE DEF C
<1>2. <<a, b>> \in T
  OBVIOUS
<1>3. ASSUME NEW c, NEW d, <<c, d>> \in T
      PROVE  SameHere(c, d) /\ \A pair \in Pairs(c, d): pair \in T
  <2>1. CASE <<c, d>> = <<a, b>>
    <3>1. c = a /\ d = b
      BY <2>1
    <3>2. \A pair \in Pairs(a, b): pair \in T
      BY <1>1
    <3> QED
      BY <3>1, <3>2
  <2>2. CASE <<c, d>> # <<a, b>>
    <3>1. PICK p \in Pairs(a, b): <<c, d>> \in C(p)
      BY <1>3, <2>2
    <3>2. AreAlike(C(p))
      BY <1>1
    <3>3. SameHere(c, d) /\ \A pair \in Pairs(c, d): pair \in C(p)
      BY <3>1, <3>2 DEF AreAlike
    <3>4. \A x \in C(p): x \in T
      OBVIOUS
    <3> QED
      BY <3>3, <3>4
  <2> QED
    BY <2>1, <2>2
<1> HIDE DEF T
<1>4. AreAlike(T)
  BY <1>3 DEF AreAlike
<1> QED
  BY <1>2, <1>4 DEF Alike

\* A key for each key of what is below an extension.
LEMMA ReachExtension ==
  ASSUME NEW l \in Nat, NEW node, NEW n, NEW path, NEW child, NEW cache,
         IsExtension(node, l, n, path, child, cache), NEW rest \in Key(l - n)
  PROVE  \E key \in Key(l): /\ IsPrefix(path, key) /\ Drop(key, n) = rest
                            /\ NodeGet(node, key) = NodeGet(child, rest)
<1>0. n \in Nat /\ l - n \in Nat /\ path \in Key(n)
  BY DEF IsExtension
<1> DEFINE key == Joined(path, rest)
<1>1. key \in Key(l)
  <2>1. key \in Key(n + (l - n)) /\ n + (l - n) = l
    BY <1>0, JoinedPath
  <2> QED
    BY <2>1
<1>2. key = Joined(path, rest)
  OBVIOUS
<1> HIDE DEF key
<1>3. IsPrefix(path, key) /\ rest = Drop(key, n)
  BY <1>0, <1>1, <1>2, JoinedPrefix
<1>4. NodeGet(node, key) = NodeGet(child, Drop(key, n))
  BY <1>1, <1>3, AtExtension
<1> QED
  BY <1>1, <1>3, <1>4

\* A key for each key of what is below a branch.
LEMMA ReachBranch ==
  ASSUME NEW l \in Nat, NEW node, NEW nibs, NEW children, NEW cache,
         IsBranch(node, l, nibs, children, cache), NEW i \in nibs, NEW rest \in Key(l - 1)
  PROVE  \E key \in Key(l): /\ key[1] = i /\ Drop(key, 1) = rest
                            /\ NodeGet(node, key) = NodeGet(children[i], rest)
<1>0. l > 0 /\ l - 1 \in Nat /\ i \in Nibble
  BY DEF IsBranch
<1> DEFINE first == <<i>>
<1>f. first \in Key(1) /\ first[1] = i
  BY <1>0, OneNibble
<1> HIDE DEF first
<1> DEFINE key == Joined(first, rest)
<1>1. key \in Key(l) /\ key[1] = i
  <2>1. key \in Key(1 + (l - 1)) /\ 1 + (l - 1) = l /\ \A j \in 1..1: key[j] = first[j]
    BY <1>0, <1>f, JoinedPath
  <2> QED
    BY <1>f, <2>1
<1>2. key = Joined(first, rest)
  OBVIOUS
<1> HIDE DEF key
<1>3. rest = Drop(key, 1)
  BY <1>0, <1>f, <1>1, <1>2, JoinedPrefix
<1>4. NodeGet(node, key) = NodeGet(children[i], rest)
  BY <1>1, <1>3, AtBranch
<1> QED
  BY <1>1, <1>3, <1>4

\* What is below a resolved node is resolved.
LEMMA ResolvedBelow ==
  ASSUME NEW l \in Nat, NEW node, Resolved(node, l)
  PROVE  /\ node.t # "digest"
         /\ \A n, path, child, cache: IsExtension(node, l, n, path, child, cache) => Resolved(child, l - n)
         /\ \A nibs, children, cache: IsBranch(node, l, nibs, children, cache) =>
              \A i \in nibs: Resolved(children[i], l - 1)
<1>1. node.t # "digest"
  <2>1. [i \in 1..l |-> 0] \in Key(l)
    BY DEF Key, Nibble
  <2>2. \E key: key \in Key(l)
    BY <2>1
  <2> QED
    BY <2>2, AtEnd DEF Resolved
<1>2. ASSUME NEW n, NEW path, NEW child, NEW cache, IsExtension(node, l, n, path, child, cache)
      PROVE  Resolved(child, l - n)
  BY <1>2, ReachExtension DEF Resolved
<1>3. ASSUME NEW nibs, NEW children, NEW cache, IsBranch(node, l, nibs, children, cache), NEW i \in nibs
      PROVE  Resolved(children[i], l - 1)
  BY <1>3, ReachBranch DEF Resolved
<1> QED
  BY <1>1, <1>2, <1>3

\* A branch has two children.
LEMMA TwoChildren ==
  ASSUME NEW nibs, IsFiniteSet(nibs), Cardinality(nibs) >= 2
  PROVE  \E i, j \in nibs: i # j
<1>1. nibs # {}
  BY FS_EmptySet
<1>2. PICK i: i \in nibs
  BY <1>1
<1>3. nibs # {i}
  BY FS_Singleton
<1> QED
  BY <1>2, <1>3

\* A trie that is not empty has a key.
LEMMA SomeKey ==
  \A l \in Nat: \A node: Shape(node, l) /\ Resolved(node, l) =>
    \E key \in Key(l): NodeGet(node, key) # NoValue
<1> DEFINE S == {l \in Nat: \A node: Shape(node, l) /\ Resolved(node, l) =>
                   \E key \in Key(l): NodeGet(node, key) # NoValue}
<1>1. ASSUME NEW l \in Nat, \A m \in 0..(l - 1): m \in S PROVE l \in S
  <2> SUFFICES ASSUME NEW node, Shape(node, l), Resolved(node, l)
               PROVE  \E key \in Key(l): NodeGet(node, key) # NoValue
    OBVIOUS
  <2>b. ASSUME NEW m \in 0..(l - 1), NEW n, Shape(n, m), Resolved(n, m)
        PROVE  \E key \in Key(m): NodeGet(n, key) # NoValue
    <3>1. m \in S
      BY <1>1
    <3> QED
      BY <2>b, <3>1
  <2> HIDE DEF S
  <2>1. ASSUME NEW path \in Key(l), NEW value \in Values, NEW cache, node = LeafNode(path, value, cache)
        PROVE  \E key \in Key(l): NodeGet(node, key) # NoValue
    <3>1. node.t = "leaf" /\ node.path = path /\ node.value = value
      BY <2>1 DEF LeafNode
    <3>2. NodeGet(node, path) = value
      BY <3>1, AtEnd
    <3> QED
      BY <3>2, ValuesAssumption
  <2>2. ASSUME NEW n, NEW path, NEW child, NEW cache, IsExtension(node, l, n, path, child, cache)
        PROVE  \E key \in Key(l): NodeGet(node, key) # NoValue
    <3>1. l - n \in 0..(l - 1) /\ Shape(child, l - n) /\ Resolved(child, l - n)
      BY <2>2, ResolvedBelow DEF IsExtension
    <3>2. PICK rest \in Key(l - n): NodeGet(child, rest) # NoValue
      BY <2>b, <3>1
    <3> QED
      BY <2>2, <3>2, ReachExtension
  <2>3. ASSUME NEW nibs, NEW children, NEW cache, IsBranch(node, l, nibs, children, cache)
        PROVE  \E key \in Key(l): NodeGet(node, key) # NoValue
    <3>1. PICK i \in nibs: TRUE
      BY <2>3, TwoChildren DEF IsBranch
    <3>2. l - 1 \in 0..(l - 1) /\ Shape(children[i], l - 1) /\ Resolved(children[i], l - 1)
      BY <2>3, ResolvedBelow DEF IsBranch
    <3>3. PICK rest \in Key(l - 1): NodeGet(children[i], rest) # NoValue
      BY <2>b, <3>2
    <3> QED
      BY <2>3, <3>3, ReachBranch
  <2> QED
    BY <2>1, <2>2, <2>3, ShapeCases, ResolvedBelow DEF IsLeaf
<1> HIDE DEF S
<1>2. \A l \in Nat: l \in S
  BY <1>1, SetInduction
<1> QED
  BY <1>2 DEF S

\* The keys of a trie agree in their first c nibbles, and not in the next.
IsPoint(node, l, c) ==
  /\ \A j, k \in Key(l): NodeGet(node, j) # NoValue /\ NodeGet(node, k) # NoValue =>
       \A i \in 1..c: j[i] = k[i]
  /\ c < l => \E j, k \in Key(l): /\ NodeGet(node, j) # NoValue /\ NodeGet(node, k) # NoValue
                                  /\ j[c + 1] # k[c + 1]

\* The point where the keys of a branch part is its own.
LEMMA PointOfBranch ==
  ASSUME NEW l \in Nat, NEW node, NEW nibs, NEW children, NEW cache,
         IsBranch(node, l, nibs, children, cache), Resolved(node, l)
  PROVE  \E j, k \in Key(l): NodeGet(node, j) # NoValue /\ NodeGet(node, k) # NoValue /\ j[1] # k[1]
<1>0. l - 1 \in Nat /\ \A i \in nibs: Shape(children[i], l - 1)
  BY DEF IsBranch
<1>1. PICK here \in nibs, there \in nibs: here # there
  BY TwoChildren DEF IsBranch
<1>2. ASSUME NEW i \in nibs PROVE \E key \in Key(l): key[1] = i /\ NodeGet(node, key) # NoValue
  <2>1. Resolved(children[i], l - 1)
    BY ResolvedBelow
  <2>2. PICK rest \in Key(l - 1): NodeGet(children[i], rest) # NoValue
    BY <1>0, <2>1, SomeKey
  <2> QED
    BY <2>2, ReachBranch
<1> QED
  BY <1>1, <1>2

\* Where the keys part tells what kind of node the trie is.
LEMMA PointOfTrie ==
  ASSUME NEW l \in Nat, NEW node, Shape(node, l), Resolved(node, l)
  PROVE  \E c \in 0..l:
           /\ IsPoint(node, l, c)
           /\ \/ node.t = "leaf" /\ c = l
              \/ node.t = "extension" /\ c = Len(node.path) /\ 0 < c /\ c < l
              \/ node.t = "branch" /\ c = 0 /\ c < l
<1>1. ASSUME NEW path \in Key(l), NEW value \in Values, NEW cache, node = LeafNode(path, value, cache)
      PROVE  node.t = "leaf" /\ IsPoint(node, l, l)
  <2>1. node.t = "leaf" /\ node.path = path
    BY <1>1 DEF LeafNode
  <2>2. \A k: NodeGet(node, k) # NoValue => k = path
    BY <2>1, AtEnd
  <2> QED
    BY <2>1, <2>2 DEF IsPoint
<1>2. ASSUME NEW n, NEW path, NEW child, NEW cache, IsExtension(node, l, n, path, child, cache)
      PROVE  node.t = "extension" /\ n = Len(node.path) /\ 0 < n /\ n < l /\ IsPoint(node, l, n)
  <2>0. /\ n \in Nat /\ n > 0 /\ path \in Key(n) /\ l - n \in Nat /\ n \in 0..l
        /\ Shape(child, l - n) /\ child.t \in {"branch", "digest"}
    BY <1>2 DEF IsExtension
  <2>1. node.t = "extension" /\ node.path = path /\ Len(path) = n
    BY <1>2 DEF IsExtension, ExtensionNode, Key
  <2>2. Resolved(child, l - n)
    BY <1>2, ResolvedBelow
  <2>3. child.t = "branch"
    BY <2>0, <2>2, ResolvedBelow
  <2>4. PICK nibs, children, below: IsBranch(child, l - n, nibs, children, below)
    BY <2>0, <2>3, ShapeCases DEF IsLeaf, LeafNode, IsExtension, ExtensionNode
  <2>5. n < l
    BY <2>0, <2>4 DEF IsBranch
  <2>6. \E j, k \in Key(l): NodeGet(node, j) # NoValue /\ NodeGet(node, k) # NoValue /\ j[n + 1] # k[n + 1]
    <3>1. PICK p \in Key(l - n), q \in Key(l - n):
            NodeGet(child, p) # NoValue /\ NodeGet(child, q) # NoValue /\ p[1] # q[1]
      BY <2>0, <2>2, <2>4, PointOfBranch
    <3>2. PICK j \in Key(l): Drop(j, n) = p /\ NodeGet(node, j) = NodeGet(child, p)
      BY <1>2, ReachExtension
    <3>3. PICK k \in Key(l): Drop(k, n) = q /\ NodeGet(node, k) = NodeGet(child, q)
      BY <1>2, ReachExtension
    <3>4. p[1] = j[n + 1] /\ q[1] = k[n + 1]
      <4>1. 1 \in 1..(l - n)
        BY <2>0, <2>5
      <4> QED
        BY <2>0, <3>2, <3>3, <4>1, DropKey
    <3> QED
      BY <3>1, <3>2, <3>3, <3>4
  <2>7. ASSUME NEW k \in Key(l), NodeGet(node, k) # NoValue PROVE \A i \in 1..n: k[i] = path[i]
    <3>1. IsPrefix(path, k)
      BY <1>2, <2>7, AtExtension
    <3> QED
      BY <2>0, <3>1, PrefixNibbles
  <2>8. IsPoint(node, l, n)
    <3>1. ASSUME NEW j \in Key(l), NEW k \in Key(l), NodeGet(node, j) # NoValue, NodeGet(node, k) # NoValue,
                 NEW i \in 1..n
          PROVE  j[i] = k[i]
      BY <2>7, <3>1
    <3> QED
      BY <2>6, <3>1 DEF IsPoint
  <2> QED
    BY <2>0, <2>1, <2>5, <2>8
<1>3. ASSUME NEW nibs, NEW children, NEW cache, IsBranch(node, l, nibs, children, cache)
      PROVE  node.t = "branch" /\ 0 < l /\ IsPoint(node, l, 0)
  <2>1. node.t = "branch" /\ 0 < l
    BY <1>3 DEF IsBranch, BranchNode
  <2>2. \E j, k \in Key(l): NodeGet(node, j) # NoValue /\ NodeGet(node, k) # NoValue /\ j[0 + 1] # k[0 + 1]
    BY <1>3, PointOfBranch
  <2>3. \A i: i \notin 1..0
    OBVIOUS
  <2> QED
    BY <2>1, <2>2, <2>3 DEF IsPoint
<1>4. l \in 0..l /\ 0 \in 0..l
  OBVIOUS
<1>5. CASE \E path, value, cache: IsLeaf(node, l, path, value, cache)
  BY <1>1, <1>4, <1>5 DEF IsLeaf
<1>6. CASE \E n, path, child, cache: IsExtension(node, l, n, path, child, cache)
  <2>1. PICK n, path, child, cache: IsExtension(node, l, n, path, child, cache)
    BY <1>6
  <2>2. n \in 0..l
    BY <2>1 DEF IsExtension
  <2> QED
    BY <1>2, <2>1, <2>2
<1>7. CASE \E nibs, children, cache: IsBranch(node, l, nibs, children, cache)
  BY <1>3, <1>4, <1>7
<1> QED
  BY <1>5, <1>6, <1>7, ShapeCases, ResolvedBelow

\* It is the same for the same keys.
LEMMA OnePoint ==
  ASSUME NEW l \in Nat, NEW a, NEW b, Same(a, b, l),
         NEW c \in 0..l, NEW d \in 0..l, IsPoint(a, l, c), IsPoint(b, l, d)
  PROVE  c = d
<1>1. ASSUME c < d PROVE FALSE
  <2>1. PICK j \in Key(l), k \in Key(l): /\ NodeGet(a, j) # NoValue /\ NodeGet(a, k) # NoValue
                                         /\ j[c + 1] # k[c + 1]
    BY <1>1 DEF IsPoint
  <2>2. NodeGet(b, j) # NoValue /\ NodeGet(b, k) # NoValue
    BY <2>1 DEF Same
  <2>3. c + 1 \in 1..d
    BY <1>1
  <2> QED
    BY <2>1, <2>2, <2>3 DEF IsPoint
<1>2. ASSUME d < c PROVE FALSE
  <2>1. PICK j \in Key(l), k \in Key(l): /\ NodeGet(b, j) # NoValue /\ NodeGet(b, k) # NoValue
                                         /\ j[d + 1] # k[d + 1]
    BY <1>2 DEF IsPoint
  <2>2. NodeGet(a, j) # NoValue /\ NodeGet(a, k) # NoValue
    BY <2>1 DEF Same
  <2>3. d + 1 \in 1..c
    BY <1>2
  <2> QED
    BY <2>1, <2>2, <2>3 DEF IsPoint
<1> QED
  BY <1>1, <1>2

\* Two extensions with the same keys, given that what is below them is alike if it
\* has the same keys.
LEMMA AlikeExtensions ==
  ASSUME NEW l \in Nat, NEW a, NEW b, Resolved(a, l), Same(a, b, l), NEW n,
         NEW path, NEW child, NEW cache, IsExtension(a, l, n, path, child, cache),
         NEW other, NEW below, NEW old, IsExtension(b, l, n, other, below, old),
         Same(child, below, l - n) => Alike(child, below)
  PROVE  Alike(a, b)
<1>0. /\ n \in Nat /\ path \in Key(n) /\ other \in Key(n) /\ Shape(a, l)
      /\ a.t = "extension" /\ b.t = "extension"
      /\ a.path = path /\ b.path = other /\ a.child = child /\ b.child = below
  BY ShapeExtension DEF IsExtension, ExtensionNode
<1>1. path = other
  <2>1. PICK key \in Key(l): NodeGet(a, key) # NoValue
    BY <1>0, SomeKey
  <2>2. NodeGet(b, key) # NoValue
    BY <2>1 DEF Same
  <2>3. IsPrefix(path, key)
    BY <2>1, AtExtension
  <2>4. IsPrefix(other, key)
    BY <2>2, AtExtension
  <2>5. \A i \in 1..n: path[i] = key[i]
    BY <1>0, <2>3, PrefixNibbles
  <2>6. \A i \in 1..n: other[i] = key[i]
    BY <1>0, <2>4, PrefixNibbles
  <2> QED
    BY <1>0, <2>5, <2>6, KeyEqual
<1>2. ASSUME NEW rest \in Key(l - n) PROVE NodeGet(child, rest) = NodeGet(below, rest)
  <2>1. PICK key \in Key(l): /\ IsPrefix(path, key) /\ Drop(key, n) = rest
                             /\ NodeGet(a, key) = NodeGet(child, rest)
    BY ReachExtension
  <2>2. NodeGet(b, key) = NodeGet(below, Drop(key, n))
    BY <1>1, <2>1, AtExtension
  <2> QED
    BY <2>1, <2>2 DEF Same
<1>3. Alike(child, below)
  BY <1>2 DEF Same
<1>4. SameHere(a, b) /\ Pairs(a, b) = {<<child, below>>}
  BY <1>0, <1>1 DEF SameHere, Pairs
<1> QED
  BY <1>3, <1>4, AlikeAbove

\* Two branches with the same keys, likewise.
LEMMA AlikeBranches ==
  ASSUME NEW l \in Nat, NEW a, NEW b, Resolved(a, l), Same(a, b, l),
         NEW nibs, NEW children, NEW cache, IsBranch(a, l, nibs, children, cache),
         NEW others, NEW below, NEW old, IsBranch(b, l, others, below, old),
         \A i \in nibs \cap others:
           Resolved(children[i], l - 1) /\ Same(children[i], below[i], l - 1) => Alike(children[i], below[i])
  PROVE  Alike(a, b)
<1>0. /\ l - 1 \in Nat /\ a.t = "branch" /\ b.t = "branch" /\ a.children = children /\ b.children = below
      /\ DOMAIN children = nibs /\ DOMAIN below = others
      /\ \A i \in nibs: Shape(children[i], l - 1)
      /\ \A i \in others: Shape(below[i], l - 1)
  BY DEF IsBranch, BranchNode
<1>1. \A i \in nibs: Resolved(children[i], l - 1)
  BY ResolvedBelow
<1>r. Resolved(b, l)
  BY DEF Resolved, Same
<1>2. \A i \in others: Resolved(below[i], l - 1)
  BY <1>r, ResolvedBelow
<1>3. ASSUME NEW i \in nibs PROVE i \in others
  <2>1. PICK rest \in Key(l - 1): NodeGet(children[i], rest) # NoValue
    BY <1>0, <1>1, SomeKey
  <2>2. PICK key \in Key(l): key[1] = i /\ NodeGet(a, key) = NodeGet(children[i], rest)
    BY ReachBranch
  <2>3. NodeGet(b, key) # NoValue
    BY <2>1, <2>2 DEF Same
  <2> DEFINE tail == Drop(key, 1)
  <2>4. i = key[1] /\ tail = Drop(key, 1)
    BY <2>2
  <2> HIDE DEF tail
  <2> QED
    BY <2>3, <2>4, AtBranch
<1>4. ASSUME NEW i \in others PROVE i \in nibs
  <2>1. PICK rest \in Key(l - 1): NodeGet(below[i], rest) # NoValue
    BY <1>0, <1>2, SomeKey
  <2>2. PICK key \in Key(l): key[1] = i /\ NodeGet(b, key) = NodeGet(below[i], rest)
    BY ReachBranch
  <2>3. NodeGet(a, key) # NoValue
    BY <2>1, <2>2 DEF Same
  <2> DEFINE tail == Drop(key, 1)
  <2>4. i = key[1] /\ tail = Drop(key, 1)
    BY <2>2
  <2> HIDE DEF tail
  <2> QED
    BY <2>3, <2>4, AtBranch
<1>5. nibs = others
  BY <1>3, <1>4
<1>6. ASSUME NEW i \in nibs, NEW rest \in Key(l - 1)
      PROVE  NodeGet(children[i], rest) = NodeGet(below[i], rest)
  <2>1. PICK key \in Key(l): /\ key[1] = i /\ Drop(key, 1) = rest
                             /\ NodeGet(a, key) = NodeGet(children[i], rest)
    BY ReachBranch
  <2>2. i = key[1] /\ rest = Drop(key, 1) /\ i \in others
    BY <1>5, <2>1
  <2>3. NodeGet(b, key) = NodeGet(below[i], rest)
    BY <2>2, AtBranch
  <2> QED
    BY <2>1, <2>3 DEF Same
<1>7. \A i \in nibs: Alike(children[i], below[i])
  BY <1>1, <1>5, <1>6 DEF Same
<1>8. SameHere(a, b) /\ Pairs(a, b) = {<<children[i], below[i]>>: i \in nibs}
  BY <1>0, <1>5 DEF SameHere, Pairs
<1> QED
  BY <1>7, <1>8, AlikeAbove

\* Two tries with the same keys and values, by induction on the length of the keys.
LEMMA AlikeInduction ==
  \A l \in Nat: \A a, b: Shape(a, l) /\ Shape(b, l) /\ Resolved(a, l) /\ Same(a, b, l) => Alike(a, b)
<1> DEFINE S == {l \in Nat: \A a, b:
                   Shape(a, l) /\ Shape(b, l) /\ Resolved(a, l) /\ Same(a, b, l) => Alike(a, b)}
<1>1. ASSUME NEW l \in Nat, \A m \in 0..(l - 1): m \in S PROVE l \in S
  <2> SUFFICES ASSUME NEW a, NEW b, Shape(a, l), Shape(b, l), Resolved(a, l), Same(a, b, l)
               PROVE  Alike(a, b)
    OBVIOUS
  <2>b. ASSUME NEW m \in 0..(l - 1), NEW c, NEW d, Shape(c, m), Shape(d, m), Resolved(c, m), Same(c, d, m)
        PROVE  Alike(c, d)
    <3>1. m \in S
      BY <1>1
    <3> QED
      BY <2>b, <3>1
  <2> HIDE DEF S
  <2>r. Resolved(b, l)
    BY DEF Resolved, Same
  <2>1. PICK c \in 0..l:
          /\ IsPoint(a, l, c)
          /\ \/ a.t = "leaf" /\ c = l
             \/ a.t = "extension" /\ c = Len(a.path) /\ 0 < c /\ c < l
             \/ a.t = "branch" /\ c = 0 /\ c < l
    BY PointOfTrie
  <2>2. PICK d \in 0..l:
          /\ IsPoint(b, l, d)
          /\ \/ b.t = "leaf" /\ d = l
             \/ b.t = "extension" /\ d = Len(b.path) /\ 0 < d /\ d < l
             \/ b.t = "branch" /\ d = 0 /\ d < l
    BY <2>r, PointOfTrie
  <2>3. c = d
    BY <2>1, <2>2, OnePoint
  <2>4. CASE a.t = "leaf"
    <3>0. b.t = "leaf"
      BY <2>1, <2>2, <2>3, <2>4
    <3>1. PICK path, value, cache: IsLeaf(a, l, path, value, cache)
      BY <2>4, ShapeCases DEF IsExtension, ExtensionNode, IsBranch, BranchNode
    <3>2. a.path = path /\ a.value = value /\ path \in Key(l) /\ value \in Values
      BY <3>1 DEF IsLeaf, LeafNode
    <3>3. NodeGet(a, path) = value
      BY <2>4, <3>2, AtEnd
    <3>4. NodeGet(b, path) = value /\ value # NoValue
      BY <3>2, <3>3, ValuesAssumption DEF Same
    <3>5. b.path = path /\ b.value = value
      BY <3>0, <3>4, AtEnd
    <3>6. SameHere(a, b) /\ Pairs(a, b) = {}
      BY <2>4, <3>0, <3>2, <3>5 DEF SameHere, Pairs
    <3> QED
      BY <3>6, AlikeAbove
  <2>5. CASE a.t = "extension"
    <3>0. b.t = "extension" /\ Len(b.path) = Len(a.path)
      BY <2>1, <2>2, <2>3, <2>5
    <3>1. PICK n, path, child, cache: IsExtension(a, l, n, path, child, cache)
      BY <2>5, ShapeCases DEF IsLeaf, LeafNode, IsBranch, BranchNode
    <3>2. PICK m, other, below, old: IsExtension(b, l, m, other, below, old)
      BY <3>0, ShapeCases DEF IsLeaf, LeafNode, IsBranch, BranchNode
    <3>3. Len(a.path) = n
      BY <3>1 DEF IsExtension, ExtensionNode, Key
    <3>4. Len(b.path) = m
      BY <3>2 DEF IsExtension, ExtensionNode, Key
    <3>5. m = n
      BY <3>0, <3>3, <3>4
    <3>6. l - n \in 0..(l - 1) /\ Shape(child, l - n) /\ Shape(below, l - n)
      BY <3>1, <3>2, <3>5 DEF IsExtension
    <3>7. Resolved(child, l - n)
      BY <3>1, ResolvedBelow
    <3>8. Same(child, below, l - n) => Alike(child, below)
      BY <2>b, <3>6, <3>7
    <3> QED
      BY <3>1, <3>2, <3>5, <3>8, AlikeExtensions
  <2>6. CASE a.t = "branch"
    <3>0. b.t = "branch"
      BY <2>1, <2>2, <2>3, <2>6
    <3>1. PICK nibs, children, cache: IsBranch(a, l, nibs, children, cache)
      BY <2>6, ShapeCases DEF IsLeaf, LeafNode, IsExtension, ExtensionNode
    <3>2. PICK others, below, old: IsBranch(b, l, others, below, old)
      BY <3>0, ShapeCases DEF IsLeaf, LeafNode, IsExtension, ExtensionNode
    <3>3. /\ l - 1 \in 0..(l - 1) /\ \A i \in nibs: Shape(children[i], l - 1)
          /\ \A i \in others: Shape(below[i], l - 1)
      BY <3>1, <3>2 DEF IsBranch
    <3>4. \A i \in nibs \cap others:
            Resolved(children[i], l - 1) /\ Same(children[i], below[i], l - 1) => Alike(children[i], below[i])
      BY <2>b, <3>3
    <3> QED
      BY <3>1, <3>2, <3>4, AlikeBranches
  <2> QED
    BY <2>1, <2>4, <2>5, <2>6
<1> HIDE DEF S
<1>2. \A l \in Nat: l \in S
  BY <1>1, SetInduction
<1> QED
  BY <1>2 DEF S

\* A map has one trie: two tries in which every key is answered, and answered alike,
\* are the same node for node, but for the caches.  So with InsertSets and RemoveUnsets
\* neither the order of insertions and removals nor what was removed in between shows
\* in the trie (node.rs:97-262).
THEOREM MapHasOneTrie ==
  ASSUME NEW l \in Nat, NEW a, NEW b, Trie(a, l), Trie(b, l),
         \A key \in Key(l): NodeGet(a, key) # Panic /\ NodeGet(a, key) = NodeGet(b, key)
  PROVE  Alike(a, b)
<1>1. Resolved(a, l) /\ Resolved(b, l) /\ Same(a, b, l)
  BY DEF Resolved, Same
<1>n. Null.t = "null" /\ \A key: NodeGet(Null, key) = NoValue
  <2>1. Null.t = "null"
    BY DEF Null
  <2> QED
    BY <2>1, AtEnd
<1>2. CASE a = Null
  <2>1. \A key \in Key(l): NodeGet(b, key) = NoValue
    BY <1>1, <1>2, <1>n DEF Same
  <2>2. ~Shape(b, l)
    BY <1>1, <2>1, SomeKey
  <2>3. b = Null
    BY <2>2 DEF Trie
  <2>4. SameHere(a, b) /\ Pairs(a, b) = {}
    BY <1>2, <1>n, <2>3 DEF SameHere, Pairs
  <2> QED
    BY <2>4, AlikeAbove
<1>3. CASE b = Null /\ a # Null
  <2>1. \A key \in Key(l): NodeGet(a, key) = NoValue
    BY <1>1, <1>3, <1>n DEF Same
  <2>2. ~Shape(a, l)
    BY <1>1, <2>1, SomeKey
  <2> QED
    BY <1>3, <2>2 DEF Trie
<1>4. CASE Shape(a, l) /\ Shape(b, l)
  BY <1>1, <1>4, AlikeInduction
<1> QED
  BY <1>2, <1>3, <1>4 DEF Trie

\* Where every key is answered no removal leaves an unresolved node alone.
LEMMA NoOrphan ==
  \A l \in Nat: \A node, key: Shape(node, l) /\ Resolved(node, l) /\ key \in Key(l) => ~LeavesOrphan(node, key)
<1> DEFINE S == {l \in Nat: \A node, key:
                   Shape(node, l) /\ Resolved(node, l) /\ key \in Key(l) => ~LeavesOrphan(node, key)}
<1>1. ASSUME NEW l \in Nat, \A m \in 0..(l - 1): m \in S PROVE l \in S
  <2> SUFFICES ASSUME NEW node, NEW key, Shape(node, l), Resolved(node, l), key \in Key(l)
               PROVE  ~LeavesOrphan(node, key)
    OBVIOUS
  <2>b. ASSUME NEW m \in 0..(l - 1), NEW n, NEW k, Shape(n, m), Resolved(n, m), k \in Key(m)
        PROVE  ~LeavesOrphan(n, k)
    <3>1. m \in S
      BY <1>1
    <3> QED
      BY <2>b, <3>1
  <2> DEFINE at == Place(node, key)
  <2> HIDE DEF S
  <2>0. at.node = node /\ at.key = key
    BY DEF Place
  <2>1. CASE ~Descends(at)
    BY <2>1, OrphanOnTheWay
  <2>2. ASSUME Descends(at), NEW n, NEW path, NEW child, NEW cache, IsExtension(node, l, n, path, child, cache)
        PROVE  ~LeavesOrphan(node, key)
    <3> DEFINE rest == Drop(key, n)
    <3>1. n \in 0..l /\ l - n \in 0..(l - 1) /\ Shape(child, l - n) /\ Len(path) = n
      BY <2>2 DEF IsExtension, Key
    <3>2. node.t = "extension" /\ node.child = child /\ node.path = path
      BY <2>2 DEF IsExtension, ExtensionNode
    <3>3. Into(at).node = child /\ Into(at).key = rest
      BY <2>0, <3>1, <3>2 DEF Into
    <3>4. ~LeavesOrphan(child, rest)
      BY <2>2, <2>b, <3>1, DropKey, ResolvedBelow
    <3>5. ~Orphaning(at)
      BY <2>0, <3>2 DEF Orphaning
    <3> QED
      BY <2>2, <3>3, <3>4, <3>5, OrphanOnTheWay
  <2>3. ASSUME Descends(at), NEW nibs, NEW children, NEW cache, IsBranch(node, l, nibs, children, cache)
        PROVE  ~LeavesOrphan(node, key)
    <3>1. l > 0 /\ l - 1 \in 0..(l - 1) /\ \A i \in nibs: Shape(children[i], l - 1)
      BY <2>3 DEF IsBranch
    <3>2. node.t = "branch" /\ node.children = children /\ DOMAIN children = nibs
      BY <2>3 DEF IsBranch, BranchNode
    <3>3. \A i \in nibs: Resolved(children[i], l - 1)
      BY <2>3, ResolvedBelow
    <3>4. \A i \in nibs: children[i].t # "digest"
      BY <3>3, ResolvedBelow, <3>1
    <3>5. ~Orphaning(at)
      BY <2>0, <3>2, <3>4 DEF Orphaning, OnlyDigest
    <3> DEFINE nib == Head(key)
               rest == Tail(key)
    <3>6. nib \in nibs /\ Into(at).node = children[nib] /\ Into(at).key = rest
      BY <2>0, <2>3, <3>2 DEF Descends, Into
    <3>7. rest \in Key(l - 1)
      BY <3>1, HeadTail
    <3> HIDE DEF nib, rest
    <3>8. ~LeavesOrphan(children[nib], rest)
      BY <2>b, <3>1, <3>3, <3>6, <3>7
    <3> QED
      BY <2>3, <3>5, <3>6, <3>8, OrphanOnTheWay
  <2>4. CASE node.t \notin {"extension", "branch"}
    BY <2>0, <2>1, <2>4 DEF Descends
  <2> QED
    BY <2>1, <2>2, <2>3, <2>4, ShapeCases DEF IsLeaf, LeafNode
<1> HIDE DEF S
<1>2. \A l \in Nat: l \in S
  BY <1>1, SetInduction
<1> QED
  BY <1>2 DEF S

\* A key that is inserted and removed again leaves the trie that was there (node.rs:97-262):
\* neither panics, and what is left is the same node for node but for the caches.
THEOREM RemoveUndoesInsert ==
  ASSUME NEW l \in Nat, NEW node, Trie(node, l), \A k \in Key(l): NodeGet(node, k) # Panic,
         NEW key \in Key(l), NodeGet(node, key) = NoValue, NEW value \in Values,
         NEW after, after = NodeInsert(node, key, value), NEW back, back = NodeRemove(after, key)
  PROVE  after # Panic /\ back # Panic /\ Alike(back, node)
<1>1. /\ after # Panic /\ Trie(after, l)
      /\ \A k \in Key(l): NodeGet(after, k) = IF k = key THEN value ELSE NodeGet(node, k)
  BY InsertSets
<1>2. \A k \in Key(l): NodeGet(after, k) # Panic
  BY <1>1, ValuesAssumption
<1>3. Shape(after, l)
  <2>1. NodeGet(after, key) # NoValue
    BY <1>1, ValuesAssumption
  <2>2. Null.t = "null"
    BY DEF Null
  <2>3. after # Null
    BY <2>1, <2>2, AtEnd
  <2> QED
    BY <1>1, <2>3 DEF Trie
<1>4. ~LeavesOrphan(after, key)
  BY <1>2, <1>3, NoOrphan DEF Resolved
<1>5. /\ back # Panic /\ Trie(back, l)
      /\ \A k \in Key(l): NodeGet(back, k) = IF k = key THEN NoValue ELSE NodeGet(after, k)
  BY <1>1, <1>2, <1>4, RemoveUnsets
<1>6. \A k \in Key(l): NodeGet(back, k) # Panic /\ NodeGet(back, k) = NodeGet(node, k)
  <2> SUFFICES ASSUME NEW k \in Key(l) PROVE NodeGet(back, k) = NodeGet(node, k)
    OBVIOUS
  <2> QED
    BY <1>1, <1>5
<1> QED
  BY <1>1, <1>5, <1>6, MapHasOneTrie

\* Two keys inserted in either order leave the same trie, but for the caches (node.rs:97-186).
THEOREM InsertsCommute ==
  ASSUME NEW l \in Nat, NEW node, Trie(node, l), \A k \in Key(l): NodeGet(node, k) # Panic,
         NEW i \in Key(l), NEW j \in Key(l), i # j, NEW v \in Values, NEW w \in Values,
         NEW a, a = NodeInsert(NodeInsert(node, i, v), j, w),
         NEW b, b = NodeInsert(NodeInsert(node, j, w), i, v)
  PROVE  a # Panic /\ b # Panic /\ Alike(a, b)
<1>1. ASSUME NEW x \in Key(l), NEW y \in Key(l), NEW p \in Values, NEW q \in Values,
             NEW c, c = NodeInsert(NodeInsert(node, x, p), y, q)
      PROVE  /\ c # Panic /\ Trie(c, l)
             /\ \A k \in Key(l): NodeGet(c, k) = IF k = y THEN q ELSE IF k = x THEN p ELSE NodeGet(node, k)
  <2> DEFINE m == NodeInsert(node, x, p)
  <2>1. /\ m # Panic /\ Trie(m, l)
        /\ \A k \in Key(l): NodeGet(m, k) = IF k = x THEN p ELSE NodeGet(node, k)
    BY InsertSets
  <2>2. c = NodeInsert(m, y, q)
    BY <1>1
  <2> HIDE DEF m
  <2>3. NodeGet(m, y) # Panic
    BY <2>1, ValuesAssumption
  <2>4. /\ c # Panic /\ Trie(c, l)
        /\ \A k \in Key(l): NodeGet(c, k) = IF k = y THEN q ELSE NodeGet(m, k)
    BY <2>1, <2>2, <2>3, InsertSets
  <2> QED
    BY <2>1, <2>4
<1>2. /\ a # Panic /\ Trie(a, l)
      /\ \A k \in Key(l): NodeGet(a, k) = IF k = j THEN w ELSE IF k = i THEN v ELSE NodeGet(node, k)
  BY <1>1
<1>3. /\ b # Panic /\ Trie(b, l)
      /\ \A k \in Key(l): NodeGet(b, k) = IF k = i THEN v ELSE IF k = j THEN w ELSE NodeGet(node, k)
  BY <1>1
<1>4. \A k \in Key(l): NodeGet(a, k) # Panic /\ NodeGet(a, k) = NodeGet(b, k)
  BY <1>2, <1>3, ValuesAssumption
<1> QED
  BY <1>2, <1>3, <1>4, MapHasOneTrie

-----------------------------------------------------------------------------
\* Caches.

\* A node has its cache and all that is below it, so a node that is kept as it was keeps
\* a cache that was right.  The others must have none.

\* Has a set of nodes all that is below its members?
HasAllBelow(Old) ==
  \A node \in Old: /\ node.t = "extension" => node.child \in Old
                   /\ node.t = "branch" => \A i \in DOMAIN node.children: node.children[i] \in Old

IsMade(S, Old) ==
  \A node \in S:
    \/ node \in Old
    \/ node.t = "leaf" /\ node.cache = NoCache
    \/ node.t = "extension" /\ node.cache = NoCache /\ node.child \in S
    \/ node.t = "branch" /\ node.cache = NoCache /\ \A i \in DOMAIN node.children: node.children[i] \in S

\* A trie of old nodes, and of nodes without a cache over them.
MadeOf(node, Old) == \E S: node \in S /\ IsMade(S, Old)

\* The kinds of nodes it may have: an old one, or a leaf.
LEMMA MadeOfOld ==
  ASSUME NEW Old
  PROVE  /\ \A node \in Old: MadeOf(node, Old)
         /\ \A path, value: MadeOf(LeafNode(path, value, NoCache), Old)
<1>1. IsMade(Old, Old)
  BY DEF IsMade
<1>2. ASSUME NEW path, NEW value PROVE MadeOf(LeafNode(path, value, NoCache), Old)
  <2> DEFINE node == LeafNode(path, value, NoCache)
  <2>1. node.t = "leaf" /\ node.cache = NoCache
    BY DEF LeafNode
  <2>2. IsMade({node}, Old)
    BY <2>1 DEF IsMade
  <2> QED
    BY <2>2 DEF MadeOf
<1> QED
  BY <1>1, <1>2 DEF MadeOf

\* An extension.
LEMMA MadeOfExtension ==
  ASSUME NEW Old, NEW path, NEW child, MadeOf(child, Old)
  PROVE  MadeOf(ExtensionNode(path, child, NoCache), Old)
<1> DEFINE node == ExtensionNode(path, child, NoCache)
<1>1. PICK S: child \in S /\ IsMade(S, Old)
  BY DEF MadeOf
<1>2. node.t = "extension" /\ node.cache = NoCache /\ node.child = child
  BY DEF ExtensionNode
<1> HIDE DEF node
<1>3. IsMade(S \cup {node}, Old)
  BY <1>1, <1>2 DEF IsMade
<1>4. MadeOf(node, Old)
  BY <1>3 DEF MadeOf
<1> QED
  BY <1>4 DEF node

\* A branch.
LEMMA MadeOfBranch ==
  ASSUME NEW Old, NEW children, \A i \in DOMAIN children: MadeOf(children[i], Old)
  PROVE  MadeOf(BranchNode(children, NoCache), Old)
<1> DEFINE node == BranchNode(children, NoCache)
           Holds(i, S) == children[i] \in S /\ IsMade(S, Old)
           C(i) == CHOOSE S: Holds(i, S)
           T == {node} \cup UNION {C(i): i \in DOMAIN children}
<1>1. \A i \in DOMAIN children: Holds(i, C(i))
  <2> SUFFICES ASSUME NEW i \in DOMAIN children PROVE Holds(i, C(i))
    OBVIOUS
  <2>1. \E S: Holds(i, S)
    BY DEF MadeOf
  <2> QED
    BY <2>1
<1>2. node.t = "branch" /\ node.cache = NoCache /\ node.children = children
  BY DEF BranchNode
<1> HIDE DEF C, node
<1>3. \A i \in DOMAIN children: children[i] \in T
  BY <1>1
<1>4. ASSUME NEW x \in T, x # node
      PROVE  \/ x \in Old
             \/ x.t = "leaf" /\ x.cache = NoCache
             \/ x.t = "extension" /\ x.cache = NoCache /\ x.child \in T
             \/ x.t = "branch" /\ x.cache = NoCache /\ \A i \in DOMAIN x.children: x.children[i] \in T
  <2>1. PICK i \in DOMAIN children: x \in C(i)
    BY <1>4
  <2>2. IsMade(C(i), Old)
    BY <1>1
  <2>3. \A y \in C(i): y \in T
    OBVIOUS
  <2> HIDE DEF T
  <2> QED
    BY <2>1, <2>2, <2>3 DEF IsMade
<1>5. node \in T
  OBVIOUS
<1> HIDE DEF T
<1>6. IsMade(T, Old)
  BY <1>2, <1>3, <1>4 DEF IsMade
<1>7. MadeOf(node, Old)
  BY <1>5, <1>6 DEF MadeOf
<1> QED
  BY <1>7 DEF node

\* What is below is made of the same.
LEMMA MadeOfBelow ==
  ASSUME NEW Old, HasAllBelow(Old), NEW node, MadeOf(node, Old)
  PROVE  /\ node.t = "extension" => MadeOf(node.child, Old)
         /\ node.t = "branch" => \A i \in DOMAIN node.children: MadeOf(node.children[i], Old)
<1>1. PICK S: node \in S /\ IsMade(S, Old)
  BY DEF MadeOf
<1>2. CASE node \in Old
  BY <1>2, MadeOfOld DEF HasAllBelow
<1>3. CASE node \notin Old
  <2>1. /\ node.t = "extension" => node.child \in S
        /\ node.t = "branch" => \A i \in DOMAIN node.children: node.children[i] \in S
    BY <1>1, <1>3 DEF IsMade
  <2> QED
    BY <1>1, <2>1 DEF MadeOf
<1> QED
  BY <1>2, <1>3

\* Where insert makes a branch.
LEMMA ForkMadeOf ==
  ASSUME NEW Old, HasAllBelow(Old), NEW node \in Old, node.t \in {"leaf", "extension"},
         NEW key, NEW value
  PROVE  MadeOf(Fork(node, key, value), Old)
<1> DEFINE common == LongestCommonPrefix({node.path, key})
           here == Len(common) + 1
           nibs == {node.path[here], key[here]}
           fresh == Leaf(Drop(key, here), value)
           lower == LowerPart(node, here)
           children == [i \in nibs |-> IF i = key[here] THEN fresh ELSE lower]
           branch == BranchNode(children, NoCache)
<1>1. Fork(node, key, value) = IF common = <<>> THEN branch ELSE ExtensionNode(common, branch, NoCache)
  BY DEF Fork, Branch, BranchNode, Extension, ExtensionNode
<1>2. MadeOf(fresh, Old)
  <2>1. fresh = LeafNode(Drop(key, here), value, NoCache)
    BY DEF Leaf, LeafNode
  <2> QED
    BY <2>1, MadeOfOld
<1>3. MadeOf(lower, Old)
  <2> DEFINE rest == Drop(node.path, here)
  <2>0. rest = Drop(node.path, here) /\ lower = LowerPart(node, here)
    OBVIOUS
  <2> HIDE DEF here, lower, rest
  <2>1. CASE node.t = "leaf"
    <3>1. lower = LeafNode(rest, node.value, NoCache)
      BY <2>0, <2>1 DEF LowerPart, Leaf, LeafNode
    <3> QED
      BY <3>1, MadeOfOld
  <2>2. CASE node.t = "extension" /\ rest = <<>>
    <3>1. lower = node.child
      BY <2>0, <2>2 DEF LowerPart
    <3> QED
      BY <2>2, <3>1, MadeOfOld DEF HasAllBelow
  <2>3. CASE node.t = "extension" /\ rest # <<>>
    <3>1. lower = ExtensionNode(rest, node.child, NoCache)
      BY <2>0, <2>3 DEF LowerPart, Extension, ExtensionNode
    <3>2. MadeOf(node.child, Old)
      BY <2>3, MadeOfOld DEF HasAllBelow
    <3> QED
      BY <3>1, <3>2, MadeOfExtension
  <2> QED
    BY <2>1, <2>2, <2>3
<1> HIDE DEF common, fresh, lower
<1>4. \A i \in DOMAIN children: MadeOf(children[i], Old)
  BY <1>2, <1>3
<1> HIDE DEF children
<1>5. MadeOf(branch, Old)
  BY <1>4, MadeOfBranch
<1> HIDE DEF branch
<1> QED
  BY <1>1, <1>5, MadeOfExtension

\* A branch with one of its children set, or taken away.
LEMMA WithChildMadeOf ==
  ASSUME NEW Old, HasAllBelow(Old), NEW nibs, NEW children, children = [i \in nibs |-> children[i]],
         \A i \in nibs: children[i] \in Old, NEW nib, NEW child, child = Null \/ MadeOf(child, Old),
         NEW after, after = WithChild(children, nib, child)
  PROVE  /\ \A i \in DOMAIN after: MadeOf(after[i], Old)
         /\ MadeOf(BranchNode(after, NoCache), Old)
<1>0. DOMAIN children = nibs
  OBVIOUS
<1>1. CASE child = Null
  <2>1. after = [i \in nibs \ {nib} |-> children[i]]
    BY <1>0, <1>1 DEF WithChild
  <2>2. \A i \in DOMAIN after: MadeOf(after[i], Old)
    BY <2>1, MadeOfOld
  <2> QED
    BY <2>2, MadeOfBranch
<1>2. CASE child # Null
  <2>1. after = [i \in nibs \cup {nib} |-> IF i = nib THEN child ELSE children[i]]
    BY <1>0, <1>2 DEF WithChild
  <2>2. \A i \in DOMAIN after: MadeOf(after[i], Old)
    BY <1>2, <2>1, MadeOfOld
  <2> QED
    BY <2>2, MadeOfBranch
<1> QED
  BY <1>1, <1>2

\* insert on every trie of old nodes.
LEMMA InsertMade ==
  ASSUME NEW Old, HasAllBelow(Old), NEW value
  PROVE  \A l \in Nat: \A node, key: node \in Old /\ Shape(node, l) /\ key \in Key(l) =>
           NodeInsert(node, key, value) = Panic \/ MadeOf(NodeInsert(node, key, value), Old)
<1> DEFINE Keeps(new) == new = Panic \/ MadeOf(new, Old)
           S == {l \in Nat: \A node, key: node \in Old /\ Shape(node, l) /\ key \in Key(l) =>
                   Keeps(NodeInsert(node, key, value))}
<1>1. ASSUME NEW l \in Nat, \A m \in 0..(l - 1): m \in S PROVE l \in S
  <2> SUFFICES ASSUME NEW node \in Old, NEW key, Shape(node, l), key \in Key(l)
               PROVE  Keeps(NodeInsert(node, key, value))
    OBVIOUS
  <2>b. ASSUME NEW m \in 0..(l - 1), NEW n \in Old, NEW k, Shape(n, m), k \in Key(m)
        PROVE  Keeps(NodeInsert(n, k, value))
    <3>1. m \in S
      BY <1>1
    <3> QED
      BY <2>b, <3>1
  <2> DEFINE new == NodeInsert(node, key, value)
  <2> HIDE DEF S, new
  <2>1. CASE node.t = "digest"
    <3>1. new = InsertedAt(Place(node, key), value)
      BY <2>1, AtEnd DEF new
    <3>2. new = Panic
      BY <2>1, <3>1 DEF InsertedAt, Place
    <3> QED
      BY <3>2 DEF new
  <2>2. ASSUME NEW path \in Key(l), NEW old \in Values, NEW cache, node = LeafNode(path, old, cache)
        PROVE  Keeps(new)
    <3>1. node.t = "leaf" /\ node.path = path
      BY <2>2 DEF LeafNode
    <3>2. new = InsertedAt(Place(node, key), value)
      BY <3>1, AtEnd DEF new
    <3>3. CASE path = key
      <4>1. new = SetValue(node, value)
        BY <3>1, <3>2, <3>3 DEF InsertedAt, Place
      <4>2. new = LeafNode(path, value, NoCache)
        BY <2>2, <4>1, UpdatesInPlace
      <4> QED
        BY <4>2, MadeOfOld
    <3>4. CASE path # key
      <4>1. new = Fork(node, key, value)
        BY <3>1, <3>2, <3>4 DEF InsertedAt, Place
      <4> QED
        BY <3>1, <4>1, ForkMadeOf
    <3> QED
      BY <3>3, <3>4
  <2>3. ASSUME NEW n, NEW path, NEW child, NEW cache, IsExtension(node, l, n, path, child, cache)
        PROVE  Keeps(new)
    <3> DEFINE rest == Drop(key, n)
               below == NodeInsert(child, rest, value)
    <3>1. n \in 0..l /\ l - n \in 0..(l - 1) /\ Shape(child, l - n)
      BY <2>3 DEF IsExtension
    <3>2. node.t = "extension" /\ node.child = child
      BY <2>3 DEF IsExtension, ExtensionNode
    <3>3. rest \in Key(l - n) /\ child \in Old
      BY <3>1, <3>2, DropKey DEF HasAllBelow
    <3>4. Keeps(below)
      BY <2>b, <3>1, <3>3
    <3>5. CASE ~IsPrefix(path, key)
      <4>1. new = Fork(node, key, value)
        BY <2>3, <3>5, AtExtension DEF new
      <4> QED
        BY <3>2, <4>1, ForkMadeOf
    <3>6. CASE IsPrefix(path, key)
      <4>1. new = IF below = Panic THEN Panic ELSE ExtensionNode(path, below, NoCache)
        BY <2>3, <3>6, AtExtension DEF new
      <4> HIDE DEF below
      <4> QED
        BY <3>4, <4>1, MadeOfExtension
    <3> QED
      BY <3>5, <3>6
  <2>4. ASSUME NEW nibs, NEW children, NEW cache, IsBranch(node, l, nibs, children, cache)
        PROVE  Keeps(new)
    <3> DEFINE nib == key[1]
               rest == Drop(key, 1)
    <3>1. l > 0 /\ l - 1 \in 0..(l - 1) /\ 1 \in 0..l /\ \A i \in nibs: Shape(children[i], l - 1)
      BY <2>4 DEF IsBranch
    <3>2. rest \in Key(l - 1)
      BY <3>1, DropKey
    <3>3. nib = key[1] /\ rest = Drop(key, 1)
      OBVIOUS
    <3> HIDE DEF nib, rest
    <3>4. node.t = "branch" /\ node.children = children /\ children = [i \in nibs |-> children[i]]
      BY <2>4 DEF IsBranch, BranchNode
    <3>5. \A i \in nibs: children[i] \in Old
      <4>1. DOMAIN children = nibs
        BY <3>4
      <4> QED
        BY <3>4, <4>1 DEF HasAllBelow
    <3>6. \A child: MadeOf(child, Old) => MadeOf(BranchNode(WithChild(children, nib, child), NoCache), Old)
      BY <3>4, <3>5, WithChildMadeOf
    <3>7. CASE nib \in nibs
      <4> DEFINE below == NodeInsert(children[nib], rest, value)
      <4>1. Keeps(below)
        BY <2>b, <3>1, <3>2, <3>5, <3>7
      <4>2. new = IF below = Panic THEN Panic ELSE BranchNode(WithChild(children, nib, below), NoCache)
        BY <2>4, <3>3, <3>7, AtBranch DEF new
      <4> HIDE DEF below
      <4> QED
        BY <3>6, <4>1, <4>2
    <3>8. CASE nib \notin nibs
      <4> DEFINE child == Leaf(rest, value)
      <4>1. new = BranchNode(WithChild(children, nib, child), NoCache)
        BY <2>4, <3>3, <3>8, AtBranch DEF new
      <4>2. child = LeafNode(rest, value, NoCache)
        BY DEF Leaf, LeafNode
      <4> HIDE DEF child
      <4>3. MadeOf(child, Old)
        BY <4>2, MadeOfOld
      <4> QED
        BY <3>6, <4>1, <4>3
    <3> QED
      BY <3>7, <3>8
  <2> QED
    BY <2>1, <2>2, <2>3, <2>4, ShapeCases DEF IsLeaf, new
<1> HIDE DEF S
<1>2. \A l \in Nat: l \in S
  BY <1>1, SetInduction
<1> QED
  BY <1>2 DEF S

\* An extension over what a removal has left of its child.
LEMMA MergedMade ==
  ASSUME NEW Old, HasAllBelow(Old), NEW path, NEW child, NEW cache,
         NEW node, node = ExtensionNode(path, child, cache),
         NEW below, below.t \in {"leaf", "extension", "branch"}, MadeOf(below, Old)
  PROVE  MadeOf(Merged(node, below), Old)
<1> DEFINE long == node.path \o below.path
<1>1. CASE below.t = "leaf"
  <2>1. Merged(node, below) = LeafNode(long, below.value, NoCache)
    BY <1>1, Merging DEF Leaf, LeafNode
  <2> HIDE DEF long
  <2> QED
    BY <2>1, MadeOfOld
<1>2. CASE below.t = "extension"
  <2>1. Merged(node, below) = ExtensionNode(long, below.child, NoCache)
    BY <1>2, Merging DEF Extension, ExtensionNode
  <2>2. MadeOf(below.child, Old)
    BY <1>2, MadeOfBelow
  <2> HIDE DEF long
  <2> QED
    BY <2>1, <2>2, MadeOfExtension
<1>3. CASE below.t = "branch"
  <2>1. Merged(node, below) = SetChild(node, below)
    BY <1>3, Merging
  <2>2. SetChild(node, below) = ExtensionNode(path, below, NoCache)
    BY UpdatesInPlace
  <2> QED
    BY <2>1, <2>2, MadeOfExtension
<1> QED
  BY <1>1, <1>2, <1>3

\* A branch that may collapse.
LEMMA CollapsedMade ==
  ASSUME NEW Old, HasAllBelow(Old), NEW children, \A i \in DOMAIN children: MadeOf(children[i], Old),
         DOMAIN children # {},
         \A i \in DOMAIN children: children[i].t \in {"digest", "leaf", "extension", "branch"}
  PROVE  Collapsed(BranchNode(children, NoCache)) = Panic
           \/ MadeOf(Collapsed(BranchNode(children, NoCache)), Old)
<1> DEFINE node == BranchNode(children, NoCache)
<1>0. node.children = children
  BY DEF BranchNode
<1>i. PICK i: i = (CHOOSE j \in DOMAIN children: TRUE)
  OBVIOUS
<1> DEFINE child == children[i]
           long == <<i>> \o child.path
<1>d. i \in DOMAIN children
  BY <1>i
<1>1. CASE Cardinality(DOMAIN children) # 1
  <2>1. Collapsed(node) = node
    BY <1>0, <1>1, Collapsing
  <2> QED
    BY <2>1, MadeOfBranch
<1>2. CASE Cardinality(DOMAIN children) = 1
  <2>0. MadeOf(child, Old) /\ child.t \in {"digest", "leaf", "extension", "branch"}
    BY <1>d
  <2>1. /\ child.t = "leaf" => Collapsed(node) = Leaf(long, child.value)
        /\ child.t = "extension" => Collapsed(node) = Extension(long, child.child)
        /\ child.t = "branch" => Collapsed(node) = Extension(<<i>>, child)
        /\ child.t = "digest" => Collapsed(node) = Panic
    <3>1. Cardinality(DOMAIN node.children) = 1
      BY <1>0, <1>2
    <3>2. (CHOOSE j \in DOMAIN node.children: TRUE) = i
      BY <1>0, <1>i
    <3>3. node.children[i] = child
      BY <1>0
    <3>4. PICK r: r = Collapsed(node)
      OBVIOUS
    <3> HIDE DEF node, child
    <3>5. /\ child.t = "leaf" => r = Leaf(<<i>> \o child.path, child.value)
          /\ child.t = "extension" => r = Extension(<<i>> \o child.path, child.child)
          /\ child.t = "branch" => r = Extension(<<i>>, child)
          /\ child.t = "digest" => r = Panic
      BY <3>1, <3>2, <3>3, <3>4, Collapsing
    <3> QED
      BY <3>4, <3>5
  <2>2. \A p, v: Leaf(p, v) = LeafNode(p, v, NoCache)
    BY DEF Leaf, LeafNode
  <2>3. \A p, c: Extension(p, c) = ExtensionNode(p, c, NoCache)
    BY DEF Extension, ExtensionNode
  <2>4. child.t = "extension" => MadeOf(child.child, Old)
    BY <2>0, MadeOfBelow
  <2> DEFINE one == <<i>>
             new == Collapsed(node)
  <2>5. /\ child.t = "leaf" => new = LeafNode(long, child.value, NoCache)
        /\ child.t = "extension" => new = ExtensionNode(long, child.child, NoCache)
        /\ child.t = "branch" => new = ExtensionNode(one, child, NoCache)
        /\ child.t = "digest" => new = Panic
    BY <2>1, <2>2, <2>3
  <2> HIDE DEF long, child, one, new
  <2>6. new = Panic \/ MadeOf(new, Old)
    BY <2>0, <2>4, <2>5, MadeOfOld, MadeOfExtension
  <2> QED
    BY <2>6 DEF new
<1> QED
  BY <1>1, <1>2

\* remove on every trie of old nodes.
LEMMA RemoveMade ==
  ASSUME NEW Old, HasAllBelow(Old)
  PROVE  \A l \in Nat: \A node, key:
           node \in Old /\ Shape(node, l) /\ key \in Key(l) /\ NodeGet(node, key) # NoValue =>
             LET new == RemoveFound(node, key) IN new = Panic \/ new = Null \/ MadeOf(new, Old)
<1> DEFINE Keeps(new) == new = Panic \/ new = Null \/ MadeOf(new, Old)
           S == {l \in Nat: \A node, key:
                   node \in Old /\ Shape(node, l) /\ key \in Key(l) /\ NodeGet(node, key) # NoValue =>
                     Keeps(RemoveFound(node, key))}
<1>1. ASSUME NEW l \in Nat, \A m \in 0..(l - 1): m \in S PROVE l \in S
  <2> SUFFICES ASSUME NEW node \in Old, NEW key, Shape(node, l), key \in Key(l), NodeGet(node, key) # NoValue
               PROVE  Keeps(RemoveFound(node, key))
    OBVIOUS
  <2>b. ASSUME NEW m \in 0..(l - 1), NEW n \in Old, NEW k, Shape(n, m), k \in Key(m), NodeGet(n, k) # NoValue
        PROVE  Keeps(RemoveFound(n, k))
    <3>1. m \in S
      BY <1>1
    <3> QED
      BY <2>b, <3>1
  <2> DEFINE new == RemoveFound(node, key)
  <2> HIDE DEF S, new
  <2>1. CASE node.t = "digest"
    <3>1. new = Panic
      BY <2>1, AtEnd DEF new
    <3> QED
      BY <3>1 DEF new
  <2>4. ASSUME NEW path \in Key(l), NEW old \in Values, NEW cache, node = LeafNode(path, old, cache)
        PROVE  Keeps(new)
    <3>1. node.t = "leaf"
      BY <2>4 DEF LeafNode
    <3>2. new = Null
      BY <3>1, AtEnd DEF new
    <3> QED
      BY <3>2
  <2>2. ASSUME NEW n, NEW path, NEW child, NEW cache, IsExtension(node, l, n, path, child, cache)
        PROVE  Keeps(new)
    <3> DEFINE rest == Drop(key, n)
               below == RemoveFound(child, rest)
    <3>1. /\ n \in 0..l /\ l - n \in 0..(l - 1) /\ l - n \in Nat /\ Shape(child, l - n)
          /\ child.t \in {"branch", "digest"}
      BY <2>2 DEF IsExtension
    <3>2. node.t = "extension" /\ node.child = child /\ node = ExtensionNode(path, child, cache)
      BY <2>2 DEF IsExtension, ExtensionNode
    <3>3. rest \in Key(l - n) /\ child \in Old
      BY <3>1, <3>2, DropKey DEF HasAllBelow
    <3>4. IsPrefix(path, key) /\ NodeGet(child, rest) # NoValue
      BY <2>2, AtExtension
    <3>5. Keeps(below)
      BY <2>b, <3>1, <3>3, <3>4
    <3>6. Removed(child, rest, l - n, below)
      BY <3>1, <3>3, <3>4, RemoveInduction
    <3>7. new = Merged(node, below)
      BY <2>2, <3>4, AtExtension DEF new
    <3> HIDE DEF rest, below
    <3>8. CASE below = Panic
      <4>1. below.t = "panic"
        BY <3>8 DEF Panic
      <4> QED
        BY <3>7, <4>1, Merging
    <3>9. CASE below # Panic
      <4>1. below # Null
        BY <3>1, <3>6, <3>9 DEF Removed
      <4>2. Shape(below, l - n) /\ below.t # "digest"
        BY <3>6, <3>9, <4>1 DEF Removed
      <4>3. below.t \in {"leaf", "extension", "branch"}
        BY <4>2, ShapeIsNode
      <4> QED
        BY <3>2, <3>5, <3>7, <3>9, <4>1, <4>3, MergedMade
    <3> QED
      BY <3>8, <3>9
  <2>3. ASSUME NEW nibs, NEW children, NEW cache, IsBranch(node, l, nibs, children, cache)
        PROVE  Keeps(new)
    <3> DEFINE nib == key[1]
               rest == Drop(key, 1)
               old == children[nib]
               below == RemoveFound(old, rest)
               after == WithChild(children, nib, below)
    <3>1. /\ l > 0 /\ l - 1 \in 0..(l - 1) /\ l - 1 \in Nat /\ 1 \in 0..l
          /\ \A i \in nibs: Shape(children[i], l - 1)
          /\ IsFiniteSet(nibs) /\ Cardinality(nibs) >= 2 /\ children = [i \in nibs |-> children[i]]
      BY <2>3 DEF IsBranch
    <3>2. rest \in Key(l - 1)
      BY <3>1, DropKey
    <3>3. nib = key[1] /\ rest = Drop(key, 1) /\ old = children[nib]
      OBVIOUS
    <3>4. below = RemoveFound(old, rest) /\ after = WithChild(children, nib, below)
      OBVIOUS
    <3> HIDE DEF nib, rest, old, below, after
    <3>5. nib \in nibs /\ NodeGet(old, rest) # NoValue
      BY <2>3, <3>3, AtBranch
    <3>6. new = IF below = Panic THEN Panic ELSE Collapsed(BranchNode(after, NoCache))
      BY <2>3, <3>3, <3>4, <3>5, AtBranch DEF new
    <3>7. node.t = "branch" /\ node.children = children /\ DOMAIN children = nibs
      BY <2>3, <3>1 DEF IsBranch, BranchNode
    <3>8. \A i \in nibs: children[i] \in Old
      BY <3>7 DEF HasAllBelow
    <3>9. Keeps(below)
      BY <2>b, <3>1, <3>2, <3>3, <3>4, <3>5, <3>8
    <3>10. Removed(old, rest, l - 1, below)
      BY <3>1, <3>2, <3>3, <3>4, <3>5, RemoveInduction
    <3>11. CASE below = Panic
      BY <3>6, <3>11
    <3>12. CASE below # Panic
      <4>1. below = Null \/ Shape(below, l - 1)
        BY <3>10, <3>12 DEF Removed
      <4>2. below = Null \/ MadeOf(below, Old)
        BY <3>9, <3>12
      <4>3. \A i \in DOMAIN after: MadeOf(after[i], Old)
        BY <3>1, <3>4, <3>8, <4>2, WithChildMadeOf
      <4>4. /\ DOMAIN after = IF below = Null THEN nibs \ {nib} ELSE nibs \cup {nib}
            /\ \A i \in DOMAIN after: after[i] = IF i = nib /\ below # Null THEN below ELSE children[i]
        BY <3>4, <3>7 DEF WithChild
      <4>5. nibs \ {nib} # {}
        <5>1. Cardinality(nibs \ {nib}) = Cardinality(nibs) - 1
          BY <3>1, <3>5, FS_RemoveElement
        <5>2. Cardinality(nibs) \in Nat
          BY <3>1, FS_CardinalityType
        <5> DEFINE others == nibs \ {nib}
        <5>3. Cardinality(others) # 0
          BY <3>1, <5>1, <5>2
        <5> HIDE DEF others
        <5>4. others # {}
          BY <5>3, FS_EmptySet
        <5> QED
          BY <5>4 DEF others
      <4>6. DOMAIN after # {}
        BY <4>4, <4>5
      <4>7. \A i \in DOMAIN after: after[i].t \in {"digest", "leaf", "extension", "branch"}
        <5> SUFFICES ASSUME NEW i \in DOMAIN after PROVE Shape(after[i], l - 1)
          BY ShapeIsNode
        <5> QED
          BY <3>1, <3>5, <4>1, <4>4
      <4>8. Keeps(Collapsed(BranchNode(after, NoCache)))
        BY <4>3, <4>6, <4>7, CollapsedMade
      <4> QED
        BY <3>6, <3>12, <4>8
    <3> QED
      BY <3>11, <3>12
  <2> QED
    BY <2>1, <2>2, <2>3, <2>4, ShapeCases DEF IsLeaf, new
<1> HIDE DEF S
<1>2. \A l \in Nat: l \in S
  BY <1>1, SetInduction
<1> QED
  BY <1>2 DEF S

\* What insert and remove make of a trie (node.rs:97-262) has nodes of that trie, as they
\* were and with all that was below them, and nodes without a cache: so no cache is kept
\* for a node that is not what it was, as the updated hashes of mod.rs:191 need.
THEOREM CachesForgotten ==
  ASSUME NEW l \in Nat, NEW node, Trie(node, l), NEW key \in Key(l), NEW value,
         NEW Old, node \in Old, HasAllBelow(Old), NEW new
  PROVE  /\ new = NodeInsert(node, key, value) /\ new # Panic => MadeOf(new, Old)
         /\ new = NodeRemove(node, key) /\ new # Panic => new = Null \/ MadeOf(new, Old)
<1>1. ASSUME new = NodeInsert(node, key, value), new # Panic PROVE MadeOf(new, Old)
  <2>1. CASE Shape(node, l)
    BY <1>1, <2>1, InsertMade
  <2>2. CASE node = Null
    <3>1. node.t = "null"
      BY <2>2 DEF Null
    <3>2. new = InsertedAt(Place(node, key), value)
      BY <1>1, <3>1, AtEnd
    <3>3. new = LeafNode(key, value, NoCache)
      BY <3>1, <3>2 DEF InsertedAt, Place, Leaf, LeafNode
    <3> QED
      BY <3>3, MadeOfOld
  <2> QED
    BY <2>1, <2>2 DEF Trie
<1>2. ASSUME new = NodeRemove(node, key), new # Panic PROVE new = Null \/ MadeOf(new, Old)
  <2>1. CASE NodeGet(node, key) = NoValue
    <3>1. new = node
      BY <1>2, <2>1 DEF NodeRemove
    <3> QED
      BY <3>1, MadeOfOld
  <2>2. CASE NodeGet(node, key) # NoValue
    <3>1. Null.t = "null"
      BY DEF Null
    <3>2. Shape(node, l)
      BY <2>2, <3>1, AtEnd DEF Trie
    <3>3. new = RemoveFound(node, key)
      BY <1>2, <2>2 DEF NodeRemove
    <3> QED
      BY <1>2, <2>2, <3>2, <3>3, RemoveMade
  <2> QED
    BY <2>1, <2>2
<1> QED
  BY <1>1, <1>2

=============================================================================
