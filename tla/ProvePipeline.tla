---------------------------- MODULE ProvePipeline ----------------------------
(***************************************************************************)
(* What gevulot3 promises of the blocks it is told about, whatever the      *)
(* queue, the tasks and the coordinator do: heads are numbered in the order *)
(* they were announced, wait in a bounded set, are proved one at a time and *)
(* in that order, and a waiting head is given up, the oldest first, only    *)
(* for a newer one.  A proof is uploaded for the head it proves.            *)
(***************************************************************************)
EXTENDS Naturals, FiniteSets

CONSTANTS Capacity, SkipPending

VARIABLES
  announced,  \* how many heads were announced
  waiting,    \* heads waiting for the prover
  proving,    \* the head being proved, 0 for none
  last,       \* the last head whose proving started
  dropped,    \* heads given up for newer ones
  failed,     \* heads whose proving failed
  proofs      \* <<head, head the uploaded proof is of>>

pvars == <<announced, waiting, proving, last, dropped, failed, proofs>>

PInit ==
  /\ announced = 0 /\ waiting = {} /\ proving = 0 /\ last = 0
  /\ dropped = {} /\ failed = {} /\ proofs = {}

Oldest(S) == CHOOSE k \in S: \A j \in S: k <= j

Announce ==
  /\ announced' = announced + 1
  /\ UNCHANGED <<waiting, proving, last, dropped, failed, proofs>>

\* The newest head joins those waiting, alone if older ones are skipped.
Enqueue ==
  /\ announced \notin waiting \cup dropped
  /\ announced > last
  /\ IF SkipPending THEN waiting = {} ELSE Cardinality(waiting) < Capacity
  /\ waiting' = waiting \cup {announced}
  /\ UNCHANGED <<announced, proving, last, dropped, failed, proofs>>

\* The oldest waiting head gives way to a newer one.
GiveWay ==
  /\ waiting # {}
  /\ Oldest(waiting) < announced
  /\ announced \notin waiting
  /\ waiting' = waiting \ {Oldest(waiting)}
  /\ dropped' = dropped \cup {Oldest(waiting)}
  /\ UNCHANGED <<announced, proving, last, failed, proofs>>

StartProving ==
  /\ proving = 0
  /\ waiting # {}
  /\ proving' = Oldest(waiting)
  /\ last' = Oldest(waiting)
  /\ waiting' = waiting \ {Oldest(waiting)}
  /\ UNCHANGED <<announced, dropped, failed, proofs>>

Fail ==
  /\ proving # 0
  /\ failed' = failed \cup {proving}
  /\ proving' = 0
  /\ UNCHANGED <<announced, waiting, last, dropped, proofs>>

Prove ==
  /\ proving # 0
  /\ proofs' = proofs \cup {<<proving, proving>>}
  /\ proving' = 0
  /\ UNCHANGED <<announced, waiting, last, dropped, failed>>

PNext == Announce \/ Enqueue \/ GiveWay \/ StartProving \/ Fail \/ Prove

PSpec == PInit /\ [][PNext]_pvars
=============================================================================
