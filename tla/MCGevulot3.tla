----------------------------- MODULE MCGevulot3 -----------------------------
(* Small instances of Gevulot3. *)
EXTENDS Gevulot3

\* A proof, and the two answers that hold one and are not taken for it.
ProofOutcomes ==
  {[proof |-> TRUE,  error |-> FALSE, steps |-> TRUE],
   [proof |-> TRUE,  error |-> TRUE,  steps |-> TRUE],
   [proof |-> TRUE,  error |-> FALSE, steps |-> FALSE]}

\* One answer of each kind the worker tells apart.
TwoOutcomes ==
  {[proof |-> TRUE,  error |-> FALSE, steps |-> TRUE],
   [proof |-> FALSE, error |-> TRUE,  steps |-> FALSE]}
=============================================================================
