-------------------------------- MODULE Outbox --------------------------------
(***************************************************************************)
(* What the delivery engine promises of every post ("Idempotent posting"), *)
(* whichever path the post takes: it is sent once, and again only if one   *)
(* of its sends could not be recorded; it is called delivered only after   *)
(* it was sent, and then for good.  Feed checks (FeedDelivery) and digests *)
(* (DigestQueue) implement this specification.                             *)
(***************************************************************************)
EXTENDS Integers

CONSTANT Posts

VARIABLE outbox  \* what became of each post

Entry == [state : {"open", "delivered", "dropped"},
          sent  : 0..2,       \* how often it was sent; 2 is more than once
          doubt : BOOLEAN]    \* one of its sends could not be recorded

Fresh == [state |-> "open", sent |-> 0, doubt |-> FALSE]

TypeOK == outbox \in [Posts -> Entry]

Init == outbox = [p \in Posts |-> Fresh]

-----------------------------------------------------------------------------
(* What may become of the entry r of one post in one step.                 *)

Stays(r, s) == s = r

Send(r, s) ==
  /\ s.sent = IF r.sent = 2 THEN 2 ELSE r.sent + 1
  /\ r.doubt \/ r.sent > 0 => s.doubt
  /\ s.state = r.state

Doubt(r, s) == s.doubt /\ s.state = r.state /\ s.sent = r.sent

Deliver(r, s) == r.sent > 0 /\ s = [r EXCEPT !.state = "delivered"]

\* Given up or suppressed; or taken up again.
Drop(r, s)   == r.state = "open" /\ s = [r EXCEPT !.state = "dropped"]
Reopen(r, s) == r.state = "dropped" /\ s = [r EXCEPT !.state = "open"]

Moves(r, s) == \/ Stays(r, s) \/ Send(r, s) \/ Doubt(r, s)
               \/ Deliver(r, s) \/ Drop(r, s) \/ Reopen(r, s)

\* The posts move independently.
Next == /\ outbox' \in [Posts -> Entry]
        /\ \A p \in Posts : Moves(outbox[p], outbox'[p])

Spec == Init /\ [][Next]_outbox
=============================================================================
