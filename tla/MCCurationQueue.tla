--------------------------- MODULE MCCurationQueue ---------------------------
(***************************************************************************)
(* Small instances of the curation queue.                                  *)
(***************************************************************************)
EXTENDS CurationQueue, TLC

CONSTANTS c1, f1, f2, r1, r2, i1, i2, p1, p2

\* Every retry of a posted_items row waits one tick.
MCBackoff == [n \in 0..AttemptBound |-> 1]

Symmetry == Permutations(Posts) \cup Permutations(Flushers) \cup Permutations(Requests)
=============================================================================
