--------------------------- MODULE MCFeedDelivery ----------------------------
(***************************************************************************)
(* Model-checking instances of FeedDelivery.  One tick stands for five     *)
(* minutes: a claim may be reclaimed after 2 ticks, a lease lapses after 3 *)
(* and a failed post is due again after 1 (retry_backoff_minutes = 5).     *)
(***************************************************************************)
EXTENDS FeedDelivery

MCBackoff  == [a \in 0..AttemptBound |-> 1]
CONSTANTS e1, i1
MCFiltered == {<<e1, i1>>}
=============================================================================
