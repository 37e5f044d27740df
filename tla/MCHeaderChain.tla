--------------------------- MODULE MCHeaderChain ---------------------------
(* A small tree of headers, with forks, gaps and a header before block 0. *)
EXTENDS HeaderChain, TLC

\* A header's hash is its name. a0 <- a1 <- a2 <- a3 is a chain and b2 a fork of
\* a2; x2 skips a number, y1 repeats one, and z has the number 0 - 1 wraps to
\* and is named by a0 as its parent.
MCHeaders == {"a0", "a1", "a2", "a3", "b2", "x2", "y1", "z"}
MCNumber == [a0 |-> 0, a1 |-> 1, a2 |-> 2, a3 |-> 3, b2 |-> 2, x2 |-> 2, y1 |-> 1, z |-> 3]
MCParent == [a0 |-> "z", a1 |-> "a0", a2 |-> "a1", a3 |-> "a2",
             b2 |-> "a1", x2 |-> "a0", y1 |-> "a1", z |-> "none"]
MCHash == [h \in MCHeaders |-> h]
MCHashes == MCHeaders \cup {"none"}
=============================================================================
