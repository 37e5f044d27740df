---------------------------- MODULE JoinReceipts ----------------------------
(***************************************************************************)
(* The recursive risc0 host (src/zkvm/risc0-host/src/main-recursive.rs):    *)
(* every segment of the execution is proved and lifted, in order, and the   *)
(* receipts are joined in pairs, level by level, until one is left.         *)
(*                                                                         *)
(* A receipt is the range of segments it is a proof of.  The prover joins   *)
(* two receipts only if the second continues where the first ends.          *)
(***************************************************************************)
EXTENDS Naturals, Sequences

CONSTANT MaxSegments  \* bound: the segments of an execution

ASSUME MaxSegmentsAssumption == MaxSegments \in Nat

VARIABLES
  segments, \* how many segments the execution has
  receipts, \* the receipts of the current level
  joined,   \* joined_receipts: those of the next level
  taken,    \* how many receipts of the level the chunks have used
  joins,    \* join_idx
  phase     \* where the host is

vars == <<segments, receipts, joined, taken, joins, phase>>

Receipt == [first: Nat, last: Nat]
Phase   == {"prove", "join", "done", "failed"}

\* An execution has at least one segment.
Init ==
  /\ segments \in 1..MaxSegments
  /\ receipts = <<>> /\ joined = <<>>
  /\ taken = 0 /\ joins = 0
  /\ phase = "prove"

\* The next segment is proved and its receipt lifted.
ProveSegment ==
  /\ phase = "prove"
  /\ Len(receipts) < segments
  /\ receipts' = Append(receipts, [first |-> Len(receipts) + 1, last |-> Len(receipts) + 1])
  /\ UNCHANGED <<segments, joined, taken, joins, phase>>

\* Resolving, proving or lifting fails, and main returns the error.
ProveFails ==
  /\ phase = "prove"
  /\ Len(receipts) < segments
  /\ phase' = "failed"
  /\ UNCHANGED <<segments, receipts, joined, taken, joins>>

StartJoining ==
  /\ phase = "prove"
  /\ Len(receipts) = segments
  /\ phase' = "join"
  /\ UNCHANGED <<segments, receipts, joined, taken, joins>>

-----------------------------------------------------------------------------
\* join_many.

Joining == phase = "join" /\ Len(receipts) > 1

\* What the prover checks of two receipts, and what it makes of them.
Continues(a, b) == b.first = a.last + 1
Join(a, b) == [first |-> a.first, last |-> b.last]

\* Mistake: the chunks overlap by one receipt.
JoinPairOverlapping ==
  /\ Joining
  /\ taken + 2 <= Len(receipts)
  /\ Continues(receipts[taken + 1], receipts[taken + 2])
  /\ joined' = Append(joined, Join(receipts[taken + 1], receipts[taken + 2]))
  /\ taken' = taken + 1
  /\ joins' = joins + 1
  /\ UNCHANGED <<segments, receipts, phase>>

\* A chunk of two.
JoinPair ==
  /\ Joining
  /\ taken + 2 <= Len(receipts)
  /\ Continues(receipts[taken + 1], receipts[taken + 2])
  /\ joined' = Append(joined, Join(receipts[taken + 1], receipts[taken + 2]))
  /\ taken' = taken + 2
  /\ joins' = joins + 1
  /\ UNCHANGED <<segments, receipts, phase>>

\* The prover fails, or refuses the pair, and the result is unwrapped.
JoinPanics ==
  /\ Joining
  /\ taken + 2 <= Len(receipts)
  /\ phase' = "failed"
  /\ UNCHANGED <<segments, receipts, joined, taken, joins>>

\* Mistake: a last chunk of one is put before the joined ones.
CarryOddInFront ==
  /\ Joining
  /\ taken + 1 = Len(receipts)
  /\ joined' = <<receipts[taken + 1]>> \o joined
  /\ taken' = taken + 1
  /\ UNCHANGED <<segments, receipts, joins, phase>>

\* Mistake: only full chunks are used.
DropOdd ==
  /\ Joining
  /\ taken + 1 = Len(receipts)
  /\ taken' = taken + 1
  /\ UNCHANGED <<segments, receipts, joined, joins, phase>>

\* A last chunk of one goes to the next level as it is.
CarryOdd ==
  /\ Joining
  /\ taken + 1 = Len(receipts)
  /\ joined' = Append(joined, receipts[taken + 1])
  /\ taken' = taken + 1
  /\ UNCHANGED <<segments, receipts, joins, phase>>

\* Mistake: the position in the level is not reset.
NextLevelGoesOn ==
  /\ Joining
  /\ taken = Len(receipts)
  /\ receipts' = joined
  /\ joined' = <<>>
  /\ UNCHANGED <<segments, taken, joins, phase>>

NextLevel ==
  /\ Joining
  /\ taken = Len(receipts)
  /\ receipts' = joined
  /\ joined' = <<>>
  /\ taken' = 0
  /\ UNCHANGED <<segments, joins, phase>>

\* receipts.remove(0) of the only one left.
Return ==
  /\ phase = "join"
  /\ Len(receipts) = 1
  /\ phase' = "done"
  /\ UNCHANGED <<segments, receipts, joined, taken, joins>>

Ended == phase \in {"done", "failed"} /\ UNCHANGED vars

Next ==
  \/ ProveSegment \/ ProveFails \/ StartJoining
  \/ JoinPair \/ JoinPanics \/ CarryOdd \/ NextLevel \/ Return
  \/ Ended

Spec == Init /\ [][Next]_vars

-----------------------------------------------------------------------------
TypeOK ==
  /\ segments \in 1..MaxSegments
  /\ receipts \in Seq(Receipt) /\ joined \in Seq(Receipt)
  /\ taken \in 0..Len(receipts)
  /\ joins \in Nat
  /\ phase \in Phase

\* The receipts are, in order, proofs of the segments 1..last without a gap.
Covers(rs, last) ==
  /\ rs # <<>>
  /\ rs[1].first = 1
  /\ rs[Len(rs)].last = last
  /\ \A i \in 1..Len(rs) - 1: Continues(rs[i], rs[i + 1])

\* The receipt join_many returns is a proof of the whole execution, first to
\* last segment, whatever their number is.
FinalCoversExecution ==
  phase = "done" => receipts = <<[first |-> 1, last |-> segments]>>

\* No join is refused: on every level each receipt continues the one before it,
\* also after an odd one was carried over, so that the unwrap of a join
\* (main-recursive.rs:27) can only fail for another reason.
JoinsFit ==
  phase \in {"join", "done"} =>
    /\ Covers(receipts, segments)
    /\ joined # <<>> => Covers(joined, receipts[taken].last)

\* Each receipt is used once: the joins made and the receipts left always add up
\* to the segments, and the whole takes one join less than there are segments.
EachReceiptOnce ==
  /\ phase \in {"join", "done"} => joins + Len(joined) + Len(receipts) = segments + taken
  /\ phase = "done" => joins + 1 = segments
=============================================================================
