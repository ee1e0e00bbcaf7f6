----------------------------- MODULE PostedItems -----------------------------
(***************************************************************************)
(* One row of the posted_items table and what each SQL statement of the    *)
(* delivery engine does to it (src/scheduler.py, src/app.py).              *)
(*                                                                         *)
(* A row records the delivery of one feed item to one echo.  The module    *)
(* holds no state: every operator maps a row to the row a transaction      *)
(* leaves behind, so that the state machines which share the table (feed   *)
(* checks, drip release, digests, curation queue) share one definition.    *)
(*                                                                         *)
(* Timestamps are kept as the time that is left: `stale' counts down from  *)
(* ReclaimTicks to 0, when a pending row may be reclaimed, and `retry'     *)
(* counts down to 0, when a failed row is due.  claimed_at = NULL is       *)
(* stale = 0.                                                           *)
(***************************************************************************)
EXTENDS Integers

CONSTANTS
  Workers,      \* claim tokens; a worker uses a fresh token per attempt
  Null,         \* SQL NULL (and Python None)
  ReclaimTicks, \* PENDING_RECLAIM_SECONDS
  MaxAttempts,  \* the tenant's retry_max_attempts; 0 retries forever
  AttemptBound, \* attempt_count saturates here (bound of the model)
  Backoff       \* next_retry_delay: attempts made -> ticks to wait

ASSUME NullAssumption    == Null \notin Workers /\ Null \notin Nat
ASSUME ReclaimAssumption == ReclaimTicks \in Nat \ {0}
ASSUME AttemptAssumption ==
  /\ MaxAttempts \in Nat
  /\ AttemptBound \in Nat
  /\ AttemptBound > MaxAttempts
ASSUME BackoffAssumption == Backoff \in [0..AttemptBound -> Nat \ {0}]

Statuses == {"absent", "pending", "success", "failed", "gave_up", "filtered", "queued"}

\* What _post_succeeded counts as handled: never retried, never in the way of
\* the feed cursor.
Handled == {"success", "filtered", "gave_up", "queued"}

Row == [status   : Statuses,
        token    : Workers \cup {Null},
        stale    : Nat,
        retry    : Nat \cup {Null},
        attempts : 0..AttemptBound]

\* No row: nothing was ever recorded for this echo and item.
Absent == [status |-> "absent", token |-> Null, stale |-> 0,
           retry |-> Null, attempts |-> 0]

-----------------------------------------------------------------------------
\* _claim_post: who may claim a row, and the claimed row.  next_retry_at
\* survives the claim.

\* (slips the properties must notice)
ClaimableUnlessPending(r) ==
  r.status = "absent" \/ (r.status = "failed" /\ r.retry \in {Null, 0})
ClaimableWithoutBackoff(r) ==
  \/ r.status = "absent"
  \/ r.status = "failed"  /\ r.retry = Null
  \/ r.status = "pending" /\ r.stale = 0

Claimable(r) ==
  \/ r.status = "absent"
  \/ r.status = "failed"  /\ r.retry \in {Null, 0}
  \/ r.status = "pending" /\ r.stale = 0

ClaimRow(r, w) ==
  [r EXCEPT !.status   = "pending",
            !.token    = w,
            !.stale    = ReclaimTicks,
            !.attempts = IF @ < AttemptBound THEN @ + 1 ELSE @]

\* _still_owns_claim, and the fence of every finalizing UPDATE.
Owns(r, w) == r.status = "pending" /\ r.token = w

\* _update_post: finalize the row, only for the worker that owns the claim.
FinalizeRow(r, w, status) ==
  IF Owns(r, w)
  THEN [r EXCEPT !.status = status, !.token = Null, !.stale = 0]
  ELSE r

\* _fail_post: the status it decides on from the attempts it reads, which is
\* also what it answers its caller, and the fenced update.
FailureStatus(r, permanent) ==
  IF permanent \/ (MaxAttempts > 0 /\ r.attempts >= MaxAttempts)
  THEN "gave_up"
  ELSE "failed"

FailRowUnfenced(r, w, permanent) ==
  [r EXCEPT !.status = FailureStatus(r, permanent), !.token = Null, !.stale = 0,
            !.retry  = IF FailureStatus(r, permanent) = "gave_up" THEN Null
                       ELSE Backoff[r.attempts]]

FailRow(r, w, permanent) ==
  IF Owns(r, w)
  THEN LET final == FailureStatus(r, permanent) IN
       [r EXCEPT !.status = final, !.token = Null, !.stale = 0,
                 !.retry  = IF final = "gave_up" THEN Null
                            ELSE Backoff[r.attempts]]
  ELSE r

\* _record_filtered: an upsert that only ever touches a missing or an already
\* filtered row.
FilterRow(r) ==
  IF r.status = "absent" THEN [r EXCEPT !.status = "filtered"] ELSE r

\* The retry sweep's verdict on a row whose item left the feed.
AbandonRow(r) ==
  IF r.status = "failed" THEN [r EXCEPT !.status = "gave_up", !.retry = Null] ELSE r

\* _reclaim_queued: a held row becomes pending again; the attempt is not counted.
TakeQueuedRow(r, w) ==
  IF r.status = "queued"
  THEN [r EXCEPT !.status = "pending", !.token = w, !.stale = ReclaimTicks] ELSE r

\* _requeue_drip_failure: back to the queue, if nobody has moved the row on ...
RequeueRow(r) ==
  IF r.status = "failed"
  THEN [r EXCEPT !.status = "queued", !.token = Null, !.stale = 0, !.retry = Null] ELSE r

\* ... or, at the limit of attempts, given up whatever it is by now.
DropRow(r) == [r EXCEPT !.status = "gave_up", !.token = Null, !.stale = 0]

\* (slip: the fence on the claim token forgotten)
ReturnRowUnfenced(r, w) ==
  [r EXCEPT !.status = "queued", !.token = Null, !.stale = 0, !.retry = Null]

\* _requeue_drip_release_error: back to the queue, if the claim is still w's.
ReturnRow(r, w) ==
  IF Owns(r, w)
  THEN [r EXCEPT !.status = "queued", !.token = Null, !.stale = 0, !.retry = Null] ELSE r

\* _discard_drip_backlog.
DiscardRow(r) == IF r.status = "queued" THEN DropRow(r) ELSE r

\* A row the retry sweep selects.
RetryDue(r) == r.status = "failed" /\ r.retry = 0

-----------------------------------------------------------------------------
\* The two buttons of the history page, and the passing of one tick.

RetryRow(r)  == [r EXCEPT !.status = "failed", !.attempts = 0, !.retry = Null]
GiveUpRow(r) == [r EXCEPT !.status = "gave_up", !.retry = Null]

CountDownPastZero(n) == n - 1
CountDown(n) == IF n = 0 THEN 0 ELSE n - 1

AgeRow(r) ==
  [r EXCEPT !.stale = CountDown(@),
            !.retry = IF @ = Null THEN @ ELSE CountDown(@)]
=============================================================================
