---------------------------- MODULE MCDigestQueue ----------------------------
(***************************************************************************)
(* Small instances of the digest.                                          *)
(***************************************************************************)
EXTENDS DigestQueue, TLC

CONSTANTS c1, f1, f2, i1, i2, n1, n2

MCBackoff == [n \in 0..AttemptBound |-> 1]

\* One run in each process.
Apart == (c1 :> n1) @@ (f1 :> n1) @@ (f2 :> n2)

\* One short item and one that does not fit any mail.
Weights == (i1 :> 1) @@ (i2 :> 3)
=============================================================================
