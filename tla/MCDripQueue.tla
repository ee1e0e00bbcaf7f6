----------------------------- MODULE MCDripQueue -----------------------------
(***************************************************************************)
(* Model-checking instances of DripQueue.                                  *)
(***************************************************************************)
EXTENDS DripQueue, TLC

CONSTANTS p1, p2

MCBackoff == [a \in 0..AttemptBound |-> 1]

\* One process runs everything ...
OneProcess == [w \in Workers |-> p1]

\* ... or the flush job runs in another one than the feed checks.
TwoProcesses == [w \in Workers |-> IF w \in Flushers THEN p2 ELSE p1]

\* Items are alike, and so are the flushes of one process: a queue is read as a
\* set, and nothing orders the workers.
Symmetry == Permutations(Items) \cup Permutations(Flushers)
=============================================================================
