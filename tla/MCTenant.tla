------------------------------- MODULE MCTenant -------------------------------
(***************************************************************************)
(* Tenant on a small instance.  Three items, one without a date and two of *)
(* the same date; a retry is due one tick after any attempt.               *)
(***************************************************************************)
EXTENDS Tenant, TLC

CONSTANTS
  i1, i2, i3   \* items of the reader

Dates == (i1 :> 0) @@ (i2 :> 1) @@ (i3 :> 1)

NextTick == [n \in 0..AttemptBound |-> 1]

Symmetry == Permutations(Requests) \cup Permutations(Users)
=============================================================================
