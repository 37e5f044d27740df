------------------------- MODULE JoinReceiptsProofs -------------------------
(***************************************************************************)
(* Proofs about JoinReceipts, for any number of segments.                   *)
(***************************************************************************)
EXTENDS JoinReceipts, TLAPS, SequenceTheorems

\* While segments are proved there is one receipt for each, in order.
OneReceiptEach ==
  phase = "prove" =>
    /\ Len(receipts) <= segments
    /\ \A i \in 1..Len(receipts): receipts[i].first = i /\ receipts[i].last = i
    /\ joined = <<>> /\ taken = 0 /\ joins = 0

\* While they are joined, those of the level and those of the next one each
\* cover the segments without a gap, and the count of them is right.
LevelsCover ==
  phase \in {"join", "done"} =>
    /\ Covers(receipts, segments)
    /\ joined = <<>> <=> taken = 0
    /\ taken > 0 => Covers(joined, receipts[taken].last)
    /\ joins + Len(joined) + Len(receipts) = segments + taken

Finished ==
  /\ phase = "done" => Len(receipts) = 1
  /\ Len(receipts) <= 1 /\ phase \in {"join", "done"} => taken = 0

JoinInv == TypeOK /\ OneReceiptEach /\ LevelsCover /\ Finished

\* The next receipt extends what is covered.
LEMMA CoversAppend ==
  ASSUME NEW rs \in Seq(Receipt), NEW r \in Receipt, NEW last \in Nat,
         rs = <<>> => r.first = 1,
         rs # <<>> => Covers(rs, last) /\ r.first = last + 1
  PROVE  Covers(Append(rs, r), r.last)
<1> DEFINE t == Append(rs, r)
<1>1. /\ Len(rs) \in Nat /\ Len(t) = Len(rs) + 1 /\ t # <<>>
      /\ t[Len(rs) + 1] = r
      /\ \A i \in 1..Len(rs): t[i] = rs[i]
  BY AppendProperties, LenProperties
<1>2. rs = <<>> <=> Len(rs) = 0
  BY EmptySeq
<1> HIDE DEF t
<1>3. t[1].first = 1
  <2>1. CASE rs = <<>>
    BY <1>1, <1>2, <2>1
  <2>2. CASE rs # <<>>
    BY <1>1, <1>2, <2>2 DEF Covers
  <2> QED BY <2>1, <2>2
<1>4. ASSUME NEW i \in 1..Len(t) - 1
      PROVE  Continues(t[i], t[i + 1])
  <2>1. CASE i = Len(rs)
    BY <1>1, <1>2, <2>1 DEF Covers, Continues
  <2>2. CASE i # Len(rs)
    <3>1. i \in 1..Len(rs) - 1 /\ i \in 1..Len(rs) /\ i + 1 \in 1..Len(rs)
      BY <1>1, <2>2
    <3>2. Continues(rs[i], rs[i + 1])
      BY <1>1, <1>2, <3>1 DEF Covers
    <3> QED BY <1>1, <3>1, <3>2
  <2> QED BY <2>1, <2>2
<1> QED BY <1>1, <1>3, <1>4 DEF Covers, t

LEMMA JoinInvInit == Init => JoinInv
BY MaxSegmentsAssumption, EmptySeq
   DEF Init, JoinInv, TypeOK, OneReceiptEach, LevelsCover, Finished, Phase

LEMMA JoinInvProve ==
  ASSUME JoinInv, ProveSegment
  PROVE  JoinInv'
<1> DEFINE r == [first |-> Len(receipts) + 1, last |-> Len(receipts) + 1]
<1>1. receipts \in Seq(Receipt) /\ Len(receipts) \in Nat /\ r \in Receipt
  BY LenProperties DEF JoinInv, TypeOK, Receipt
<1>2. /\ receipts' \in Seq(Receipt) /\ Len(receipts') = Len(receipts) + 1
      /\ receipts'[Len(receipts) + 1] = r
      /\ \A i \in 1..Len(receipts): receipts'[i] = receipts[i]
  BY <1>1, AppendProperties DEF ProveSegment
<1>3. /\ UNCHANGED <<segments, joined, taken, joins, phase>> /\ phase = "prove"
      /\ Len(receipts) < segments
  BY DEF ProveSegment
<1>4. r.first = Len(receipts) + 1 /\ r.last = Len(receipts) + 1
  OBVIOUS
<1> HIDE DEF r
<1>5. TypeOK'
  BY <1>1, <1>2, <1>3 DEF JoinInv, TypeOK, OneReceiptEach
<1>6. \A i \in 1..Len(receipts'): receipts'[i].first = i /\ receipts'[i].last = i
  BY <1>1, <1>2, <1>3, <1>4 DEF JoinInv, OneReceiptEach
<1>7. OneReceiptEach'
  BY <1>1, <1>2, <1>3, <1>6 DEF JoinInv, TypeOK, OneReceiptEach
<1> QED BY <1>3, <1>5, <1>7 DEF JoinInv, LevelsCover, Finished

LEMMA JoinInvStart ==
  ASSUME JoinInv, StartJoining
  PROVE  JoinInv'
<1>1. /\ UNCHANGED <<segments, receipts, joined, taken, joins>>
      /\ phase = "prove" /\ phase' = "join" /\ Len(receipts) = segments
  BY DEF StartJoining
<1>2. Len(receipts) \in Nat /\ Len(receipts) > 0 /\ receipts \in Seq(Receipt)
  BY <1>1 DEF JoinInv, TypeOK
<1>3. Covers(receipts, segments)
  BY <1>1, <1>2, EmptySeq DEF JoinInv, OneReceiptEach, Covers, Continues
<1>4. LevelsCover'
  BY <1>1, <1>2, <1>3, EmptySeq DEF JoinInv, TypeOK, OneReceiptEach, LevelsCover
<1> QED BY <1>1, <1>4 DEF JoinInv, TypeOK, OneReceiptEach, Finished, Phase

\* A level that is being joined has more than one receipt.
LEMMA JoiningGoesOn ==
  ASSUME JoinInv, Joining, UNCHANGED <<receipts, phase>>
  PROVE  Finished'
<1>1. Len(receipts) \in Nat /\ Len(receipts) > 1 /\ phase = "join"
  BY LenProperties DEF JoinInv, TypeOK, Joining
<1>2. ~(Len(receipts)' <= 1) /\ phase' # "done"
  BY <1>1
<1> QED BY <1>2 DEF Finished

\* The steps of a level that add a receipt to the next one.
LEMMA JoinInvAdd ==
  ASSUME JoinInv, Joining, NEW r \in Receipt, NEW n \in 1..2,
         taken + n <= Len(receipts),
         r.first = receipts[taken + 1].first,
         r.last = receipts[taken + n].last,
         joined' = Append(joined, r), taken' = taken + n,
         joins' = joins + (n - 1),
         UNCHANGED <<segments, receipts, phase>>
  PROVE  JoinInv'
<1>1. /\ receipts \in Seq(Receipt) /\ Len(receipts) \in Nat /\ taken \in 0..Len(receipts)
      /\ joined \in Seq(Receipt) /\ Len(joined) \in Nat /\ joins \in Nat /\ segments \in Nat
      /\ phase = "join"
  BY LenProperties DEF JoinInv, TypeOK, Joining
<1>2. Covers(receipts, segments)
  BY <1>1 DEF JoinInv, LevelsCover
<1>3. joined = <<>> => r.first = 1
  BY <1>1, <1>2 DEF JoinInv, LevelsCover, Covers
<1>4. joined # <<>> => taken > 0 /\ Covers(joined, receipts[taken].last)
  BY <1>1 DEF JoinInv, LevelsCover
<1>5. taken > 0 => r.first = receipts[taken].last + 1 /\ receipts[taken].last \in Nat
  <2>1. ASSUME taken > 0
        PROVE  taken \in 1..Len(receipts) - 1 /\ taken \in 1..Len(receipts)
    BY <2>1, <1>1
  <2>2. taken > 0 => Continues(receipts[taken], receipts[taken + 1])
    BY <2>1, <1>2 DEF Covers
  <2>3. taken > 0 => receipts[taken] \in Receipt
    BY <2>1, <1>1, ElementOfSeq
  <2> QED BY <2>2, <2>3 DEF Continues, Receipt
<1>6. Covers(Append(joined, r), r.last)
  <2>1. CASE joined = <<>>
    BY <1>1, <1>3, <2>1, CoversAppend
  <2>2. CASE joined # <<>>
    BY <1>1, <1>4, <1>5, <2>2, CoversAppend
  <2> QED BY <2>1, <2>2
<1>7. /\ joined' \in Seq(Receipt) /\ Len(joined') = Len(joined) + 1 /\ joined' # <<>>
  BY <1>1, AppendProperties
<1>8. taken' \in 0..Len(receipts) /\ taken' > 0 /\ joins' \in Nat
  BY <1>1
<1>9. TypeOK'
  BY <1>7, <1>8 DEF JoinInv, TypeOK
<1>10. receipts'[taken'].last = r.last
  BY <1>1
<1>11. Covers(joined', receipts'[taken'].last)
  BY <1>6, <1>10
<1>12. joins' + Len(joined') + Len(receipts') = segments' + taken'
  <2>1. joins + Len(joined) + Len(receipts) = segments + taken
    BY <1>1 DEF JoinInv, LevelsCover
  <2>2. /\ taken \in Int /\ joins \in Int /\ n \in Int /\ segments \in Int
        /\ Len(joined) \in Int /\ Len(receipts) \in Int
    BY <1>1
  <2>3. (joins + (n - 1)) + (Len(joined) + 1) + Len(receipts) = segments + (taken + n)
    BY <2>1, <2>2
  <2> QED BY <1>7, <2>3
<1>13. LevelsCover'
  BY <1>1, <1>2, <1>7, <1>8, <1>11, <1>12 DEF LevelsCover
<1>14. Finished'
  BY JoiningGoesOn
<1> QED BY <1>1, <1>9, <1>13, <1>14 DEF JoinInv, OneReceiptEach

LEMMA JoinInvNextLevel ==
  ASSUME JoinInv, NextLevel
  PROVE  JoinInv'
<1>1. /\ phase = "join" /\ taken = Len(receipts) /\ receipts' = joined /\ joined' = <<>>
      /\ taken' = 0 /\ UNCHANGED <<segments, joins, phase>> /\ taken > 1
  BY DEF NextLevel, Joining
<1>2. /\ receipts \in Seq(Receipt) /\ joined \in Seq(Receipt)
      /\ Len(joined) \in Nat /\ Len(receipts) \in Nat /\ joins \in Nat /\ segments \in Nat
  BY LenProperties DEF JoinInv, TypeOK
<1>3. Covers(joined, segments)
  BY <1>1, <1>2 DEF JoinInv, LevelsCover, Covers
<1>4. Len(joined') = 0 /\ joined' \in Seq(Receipt)
  BY <1>1, EmptySeq
<1>5. TypeOK'
  BY <1>1, <1>2, <1>4 DEF JoinInv, TypeOK
<1>6. joins + Len(joined) = segments
  BY <1>1, <1>2 DEF JoinInv, LevelsCover
<1>7. LevelsCover'
  BY <1>1, <1>2, <1>3, <1>4, <1>6 DEF LevelsCover
<1> QED BY <1>1, <1>5, <1>7 DEF JoinInv, OneReceiptEach, Finished

LEMMA JoinInvReturn ==
  ASSUME JoinInv, Return
  PROVE  JoinInv'
<1>1. /\ phase = "join" /\ phase' = "done" /\ Len(receipts) = 1
      /\ UNCHANGED <<segments, receipts, joined, taken, joins>>
  BY DEF Return
<1> QED BY <1>1 DEF JoinInv, TypeOK, OneReceiptEach, LevelsCover, Finished, Phase

LEMMA JoinInvNext == JoinInv /\ [Next]_vars => JoinInv'
<1> SUFFICES ASSUME JoinInv, [Next]_vars PROVE JoinInv'
  OBVIOUS
<1>1. /\ receipts \in Seq(Receipt) /\ Len(receipts) \in Nat /\ taken \in 0..Len(receipts)
      /\ \A i \in 1..Len(receipts): receipts[i] \in Receipt
  BY LenProperties, ElementOfSeq DEF JoinInv, TypeOK
<1>2. CASE ProveSegment
  BY <1>2, JoinInvProve
<1>3. CASE StartJoining
  BY <1>3, JoinInvStart
<1>4. CASE JoinPair
  <2> DEFINE r == Join(receipts[taken + 1], receipts[taken + 2])
  <2>1. Joining /\ taken + 2 <= Len(receipts) /\ joined' = Append(joined, r)
        /\ taken' = taken + 2 /\ joins' = joins + (2 - 1) /\ UNCHANGED <<segments, receipts, phase>>
    BY <1>4 DEF JoinPair
  <2>2. receipts[taken + 1] \in Receipt /\ receipts[taken + 2] \in Receipt
    BY <1>1, <2>1
  <2>3. /\ r \in Receipt /\ r.first = receipts[taken + 1].first /\ r.last = receipts[taken + 2].last
    BY <2>2 DEF Receipt, Join
  <2> HIDE DEF r
  <2> QED BY <2>1, <2>3, JoinInvAdd
<1>5. CASE CarryOdd
  <2> DEFINE r == receipts[taken + 1]
  <2>1. Joining /\ taken + 1 <= Len(receipts) /\ joined' = Append(joined, r)
        /\ taken' = taken + 1 /\ joins' = joins + (1 - 1) /\ UNCHANGED <<segments, receipts, phase>>
    BY <1>1, <1>5 DEF CarryOdd, JoinInv, TypeOK
  <2>2. r \in Receipt
    BY <1>1, <2>1
  <2> QED BY <2>1, <2>2, JoinInvAdd
<1>6. CASE NextLevel
  BY <1>6, JoinInvNextLevel
<1>7. CASE Return
  BY <1>7, JoinInvReturn
<1>8. CASE ProveFails \/ JoinPanics
  BY <1>8 DEF ProveFails, JoinPanics, JoinInv, TypeOK, OneReceiptEach, LevelsCover, Finished, Phase
<1>9. CASE Ended \/ UNCHANGED vars
  BY <1>9 DEF Ended, vars, JoinInv, TypeOK, OneReceiptEach, LevelsCover, Finished
<1> QED BY <1>2, <1>3, <1>4, <1>5, <1>6, <1>7, <1>8, <1>9 DEF Next

THEOREM JoinInvariant == Spec => []JoinInv
BY JoinInvInit, JoinInvNext, PTL DEF Spec

\* The variables keep their types: the chunks stay within the level.
THEOREM TypeCorrect == Spec => []TypeOK
BY JoinInvariant, PTL DEF JoinInv

\* On every level the receipts are proofs of consecutive ranges.
THEOREM AllJoinsFit == Spec => []JoinsFit
<1>1. JoinInv => JoinsFit
  BY DEF JoinInv, TypeOK, LevelsCover, JoinsFit
<1> QED BY <1>1, JoinInvariant, PTL

\* The one receipt at the end is a proof of all segments.
THEOREM FinalReceiptCovers == Spec => []FinalCoversExecution
<1>1. JoinInv => FinalCoversExecution
  <2> SUFFICES ASSUME JoinInv, phase = "done"
               PROVE  receipts = <<[first |-> 1, last |-> segments]>>
    BY DEF FinalCoversExecution
  <2>1. /\ receipts \in Seq(Receipt) /\ Len(receipts) = 1
        /\ receipts[1].first = 1 /\ receipts[1].last = segments
    BY DEF JoinInv, TypeOK, LevelsCover, Finished, Covers
  <2>2. receipts[1] \in Receipt
    <3>1. 1 \in 1..Len(receipts)
      BY <2>1
    <3> QED BY <2>1, <3>1, ElementOfSeq
  <2>3. receipts[1] = [first |-> 1, last |-> segments]
    BY <2>1, <2>2 DEF Receipt
  <2> QED BY <2>1, <2>3, SeqEqual
<1> QED BY <1>1, JoinInvariant, PTL

\* Every receipt is used once, so that one join less than segments is made.
THEOREM ReceiptsCounted == Spec => []EachReceiptOnce
<1>1. JoinInv => EachReceiptOnce
  <2> SUFFICES ASSUME JoinInv PROVE EachReceiptOnce
    OBVIOUS
  <2>1. phase \in {"join", "done"} => joins + Len(joined) + Len(receipts) = segments + taken
    BY DEF JoinInv, LevelsCover
  <2>2. phase = "done" => Len(receipts) = 1 /\ taken = 0 /\ joined = <<>>
    <3>1. phase = "done" => Len(receipts) = 1
      BY DEF JoinInv, Finished
    <3>2. Len(receipts) = 1 => Len(receipts) <= 1
      OBVIOUS
    <3>3. phase = "done" => taken = 0
      BY <3>1, <3>2 DEF JoinInv, Finished
    <3> QED BY <3>1, <3>3 DEF JoinInv, LevelsCover
  <2>3. Len(<<>>) = 0 /\ joins \in Int /\ segments \in Int
    BY EmptySeq DEF JoinInv, TypeOK
  <2>4. phase = "done" => joins + 1 = segments
    <3>1. phase = "done" => joins + 0 + 1 = segments + 0
      BY <2>1, <2>2, <2>3
    <3> QED BY <2>3, <3>1
  <2> QED BY <2>1, <2>4 DEF EachReceiptOnce
<1> QED BY <1>1, JoinInvariant, PTL

-----------------------------------------------------------------------------
\* The next level is at most half of what was taken of this one, rounded up once:
\* for the last chunk.
LevelHalves ==
  /\ 2 * Len(joined) <= taken + 1
  /\ taken < Len(receipts) => 2 * Len(joined) <= taken
  /\ Len(receipts) <= segments

LEMMA LevelHalvesInit == Init => LevelHalves
BY EmptySeq DEF Init, LevelHalves

LEMMA LevelHalvesNext ==
  ASSUME JoinInv, LevelHalves, [Next]_vars
  PROVE  LevelHalves'
<1>1. /\ receipts \in Seq(Receipt) /\ joined \in Seq(Receipt)
      /\ Len(receipts) \in Nat /\ Len(joined) \in Nat /\ taken \in 0..Len(receipts)
      /\ segments \in Nat
  BY LenProperties DEF JoinInv, TypeOK
<1>2. CASE ProveSegment
  <2>1. /\ Len(receipts') = Len(receipts) + 1 /\ Len(receipts) < segments
        /\ taken = 0 /\ Len(joined) = 0 /\ UNCHANGED <<segments, joined, taken>>
    BY <1>1, <1>2, AppendProperties, EmptySeq DEF ProveSegment, JoinInv, OneReceiptEach
  <2> QED BY <1>1, <2>1 DEF LevelHalves
<1>3. CASE JoinPair
  <2>1. /\ Len(joined') = Len(joined) + 1 /\ taken' = taken + 2 /\ taken + 2 <= Len(receipts)
        /\ UNCHANGED <<segments, receipts>>
    BY <1>1, <1>3 DEF JoinPair
  <2> QED BY <1>1, <2>1 DEF LevelHalves
<1>4. CASE CarryOdd
  <2>1. /\ Len(joined') = Len(joined) + 1 /\ taken' = taken + 1 /\ taken + 1 = Len(receipts)
        /\ UNCHANGED <<segments, receipts>>
    BY <1>1, <1>4 DEF CarryOdd
  <2> QED BY <1>1, <2>1 DEF LevelHalves
<1>5. CASE NextLevel
  <2>1. /\ Len(receipts') = Len(joined) /\ Len(joined') = 0 /\ taken' = 0
        /\ taken = Len(receipts) /\ Len(receipts) > 1 /\ UNCHANGED segments
    BY <1>1, <1>5, EmptySeq DEF NextLevel, Joining
  <2> QED BY <1>1, <2>1 DEF LevelHalves
<1>6. CASE UNCHANGED <<segments, receipts, joined, taken>>
  BY <1>6 DEF LevelHalves
<1> QED BY <1>2, <1>3, <1>4, <1>5, <1>6
  DEF Next, ProveFails, StartJoining, JoinPanics, Return, Ended, vars

\* The steps the host takes at most before it ends.
Rank ==
  CASE phase = "prove" -> 5 * segments + 2 - Len(receipts)
    [] phase = "join"  -> 4 * Len(receipts) - taken + 1
    [] phase \in {"done", "failed"} -> 0

\* Every step brings the host closer to its end, or it has ended.
HostMovesOn ==
  /\ Rank \in Nat
  /\ phase \notin {"done", "failed"} => Rank' < Rank

\* join_many ends on every number of receipts, the odd ones too: a level is shorter
\* than the one before, and the whole takes at most 5 * segments + 2 steps
\* (main-recursive.rs:12-37).
THEOREM HostEnds == Spec => [][HostMovesOn]_vars
<1>1. JoinInv /\ JoinInv' /\ LevelHalves /\ [Next]_vars => [HostMovesOn]_vars
  <2> SUFFICES ASSUME JoinInv, JoinInv', LevelHalves, Next PROVE HostMovesOn
    BY DEF vars
  <2> USE DEF Rank
  <2>1. /\ receipts \in Seq(Receipt) /\ joined \in Seq(Receipt)
        /\ Len(receipts) \in Nat /\ Len(joined) \in Nat /\ taken \in 0..Len(receipts)
        /\ segments \in Nat /\ Len(receipts) <= segments
    BY LenProperties DEF JoinInv, TypeOK, LevelHalves
  <2>2. Rank \in Nat
    <3>1. CASE phase = "prove"
      BY <2>1, <3>1
    <3>2. CASE phase = "join"
      BY <2>1, <3>2
    <3>3. CASE phase \in {"done", "failed"}
      BY <3>3
    <3> QED BY <3>1, <3>2, <3>3 DEF JoinInv, TypeOK, Phase
  <2>3. ASSUME phase \notin {"done", "failed"} PROVE Rank' < Rank
    <3>1. CASE ProveSegment
      <4>1. Len(receipts') = Len(receipts) + 1 /\ UNCHANGED <<segments, phase>> /\ phase = "prove"
        BY <2>1, <3>1, AppendProperties DEF ProveSegment
      <4> QED BY <2>1, <4>1
    <3>2. CASE StartJoining
      BY <2>1, <3>2 DEF StartJoining, JoinInv, OneReceiptEach
    <3>3. CASE JoinPair \/ CarryOdd
      <4>1. /\ phase = "join" /\ UNCHANGED <<phase, receipts>>
            /\ taken' = taken + 1 \/ taken' = taken + 2
        BY <3>3 DEF JoinPair, CarryOdd, Joining
      <4> QED BY <2>1, <4>1
    <3>4. CASE NextLevel
      <4>1. /\ phase = "join" /\ UNCHANGED phase /\ Len(receipts') = Len(joined)
            /\ taken' = 0 /\ taken = Len(receipts) /\ Len(receipts) > 1
        BY <3>4 DEF NextLevel, Joining
      <4>2. 2 * Len(joined) <= Len(receipts) + 1
        BY <4>1 DEF LevelHalves
      <4>3. Rank = 3 * Len(receipts) + 1 /\ Rank' = 4 * Len(joined) + 1
        BY <2>1, <4>1
      <4>4. 4 * Len(joined) < 3 * Len(receipts)
        <5> DEFINE l == Len(receipts)
                   j == Len(joined)
        <5>1. l \in Nat /\ j \in Nat /\ l > 1 /\ 2 * j <= l + 1
          BY <2>1, <4>1, <4>2
        <5> HIDE DEF l, j
        <5>2. 4 * j < 3 * l
          BY <5>1
        <5> QED BY <5>2 DEF l, j
      <4>5. 4 * Len(joined) + 1 < 3 * Len(receipts) + 1
        BY <2>1, <4>4
      <4> HIDE DEF Rank
      <4> QED BY <4>3, <4>5
    <3>5. CASE ProveFails \/ JoinPanics \/ Return
      <4>1. Rank' = 0
        BY <3>5 DEF ProveFails, JoinPanics, Return
      <4>2. Rank # 0
        <5>1. CASE phase = "prove"
          BY <2>1, <5>1
        <5>2. CASE phase = "join"
          BY <2>1, <5>2
        <5> QED BY <2>3, <5>1, <5>2 DEF JoinInv, TypeOK, Phase
      <4> HIDE DEF Rank
      <4> QED BY <2>2, <4>1, <4>2
    <3> QED BY <2>3, <3>1, <3>2, <3>3, <3>4, <3>5 DEF Next, Ended
  <2> QED BY <2>2, <2>3 DEF HostMovesOn
<1> QED BY <1>1, LevelHalvesInit, LevelHalvesNext, JoinInvariant, PTL DEF Spec
=============================================================================
