----------------------------- MODULE DigestQueue -----------------------------
(***************************************************************************)
(* The digest of one e-mail echo (src/scheduler.py): feed checks collect   *)
(* items in digest_items, and an hourly job mails what has been collected. *)
(* The job runs under a lease of its process.  A process may run it twice  *)
(* at once: the run at startup and the hourly one are jobs of their own.   *)
(***************************************************************************)
EXTENDS PostedItems, JobLease, Sequences, FiniteSets

CONSTANTS
  Items,
  Flushers,    \* runs of flush_digests; the other workers are feed checks
  Instance,    \* the process each worker lives in
  Weight,      \* the length of each item in the body of a mail
  MailCap,     \* DIGEST_MAX_CHARS
  MaxPresses,  \* uses of the routes (bound of the model)
  MaxFaults    \* crashes, lost answers (bound of the model)

ASSUME DigestAssumption ==
  /\ Flushers \subseteq Workers
  /\ Instance \in [Workers -> Instances]
  /\ Weight \in [Items -> Nat \ {0}]
  /\ {MailCap, MaxPresses, MaxFaults} \subseteq Nat
  /\ IsFiniteSet(Items) /\ Null \notin Items

VARIABLES
  rows,    \* posted_items of the echo
  digest,  \* digest_items of the echo, oldest first; a deleted one leaves a gap
  echo,    \* its mode, whether it is enabled and whether it was deleted
  passed,  \* items the feed cursor has moved past
  lease,   \* scheduler_leases, the row of flush_digests
  worker,  \* program counter and locals of each worker
  presses,
  faults,
  mailed,  \* how often each item was mailed (history)
  doubt    \* items one of whose mails could not be recorded, or which a check
           \* collected after it had lost its claim (history)

vars == <<rows, digest, echo, passed, lease, worker, presses, faults, mailed, doubt>>

Steps == {"idle", "insert", "mark",                   \* a feed check
          "sweep", "discard", "select", "read", "send", "record", "release"}

Rest == [pc |-> "idle", item |-> Null, batch |-> {}]

TypeOK ==
  /\ rows \in [Items -> Row]
  /\ digest \in Seq(Items \cup {Null})
  /\ echo \in [mode : {"digest", "instant"}, enabled : BOOLEAN, deleted : BOOLEAN]
  /\ passed \subseteq Items
  /\ lease \in Lease
  /\ worker \in [Workers -> [pc : Steps, item : Items \cup {Null}, batch : SUBSET Items]]
  /\ presses \in 0..MaxPresses
  /\ faults \in 0..MaxFaults
  /\ mailed \in [Items -> 0..2]
  /\ doubt \subseteq Items

Init ==
  /\ rows = [i \in Items |-> Absent]
  /\ digest = <<>>
  /\ echo = [mode |-> "digest", enabled |-> TRUE, deleted |-> FALSE]
  /\ passed = {}
  /\ lease = FreeLease
  /\ worker = [w \in Workers |-> Rest]
  /\ presses = 0
  /\ faults = 0
  /\ mailed = [i \in Items |-> 0]
  /\ doubt = {}

Becomes(w, j) == worker' = [worker EXCEPT ![w] = j]
Goto(w, step) == Becomes(w, [worker[w] EXCEPT !.pc = step])

Entries   == {k \in DOMAIN digest : digest[k] # Null}
Collected == {digest[k] : k \in Entries}

Without(s, X) == [k \in DOMAIN s |-> IF s[k] \in X THEN Null ELSE s[k]]

-----------------------------------------------------------------------------
(* A feed check: process_echo up to _queue_for_digest.                     *)

Claim(w, i) ==
  /\ w \notin Flushers /\ worker[w].pc = "idle"
  /\ echo.enabled /\ echo.mode = "digest"
  /\ i \notin passed
  /\ Claimable(rows[i])
  /\ rows' = [rows EXCEPT ![i] = ClaimRow(@, w)]
  /\ Becomes(w, [Rest EXCEPT !.pc = "insert", !.item = i])
  /\ UNCHANGED <<digest, echo, passed, lease, presses, faults, mailed, doubt>>

\* The cursor moves past an item whose row another check has settled.
PassHandled(i) ==
  /\ i \notin passed
  /\ rows[i].status \in Handled
  /\ passed' = passed \cup {i}
  /\ UNCHANGED <<rows, digest, echo, lease, worker, presses, faults, mailed, doubt>>

\* INSERT ... ON CONFLICT(echo_id, item_id) DO NOTHING, whoever owns the row by now:
\* a check that lost its claim may collect an item again that was mailed already.
InsertItem(w) ==
  /\ worker[w].pc = "insert"
  /\ LET i == worker[w].item IN
     \/ /\ i \in Collected
        /\ UNCHANGED <<digest, doubt>>
     \/ /\ i \notin Collected
        /\ digest' = Append(digest, i)
        /\ doubt' = IF Owns(rows[i], w) THEN doubt ELSE doubt \cup {i}
  /\ Goto(w, "mark")
  /\ UNCHANGED <<rows, echo, passed, lease, presses, faults, mailed>>

\* The row becomes queued, and the cursor may move on.
MarkQueued(w) ==
  /\ worker[w].pc = "mark"
  /\ LET i == worker[w].item IN
     /\ rows' = [rows EXCEPT ![i] = FinalizeRow(@, w, "queued")]
     /\ passed' = IF Owns(rows[i], w) THEN passed \cup {i} ELSE passed
  /\ Becomes(w, Rest)
  /\ UNCHANGED <<digest, echo, lease, presses, faults, mailed, doubt>>

-----------------------------------------------------------------------------
(* A run of flush_digests.                                                 *)

StartFlush(f) ==
  /\ f \in Flushers /\ worker[f].pc = "idle"
  /\ Takeable(lease, Instance[f])
  /\ lease' = Taken(Instance[f])
  /\ Goto(f, "sweep")
  /\ UNCHANGED <<rows, digest, echo, passed, presses, faults, mailed, doubt>>

\* _discard_orphaned_digest_items: a deleted echo, feed or account ...
Sweep(f) ==
  /\ worker[f].pc = "sweep"
  /\ Goto(f, IF echo.deleted /\ Collected # {} THEN "discard" ELSE "select")
  /\ UNCHANGED <<rows, digest, echo, passed, lease, presses, faults, mailed, doubt>>

\* ... gives up every queued row of the echo and forgets its items.
Discard(f) ==
  /\ worker[f].pc = "discard"
  /\ rows' = [i \in Items |-> DiscardRow(rows[i])]
  /\ digest' = <<>>
  /\ Goto(f, "select")
  /\ UNCHANGED <<echo, passed, lease, presses, faults, mailed, doubt>>

\* The echoes with something to mail: enabled, in digest mode, not deleted.
Select(f) ==
  /\ worker[f].pc = "select"
  /\ LET due == echo.enabled /\ echo.mode = "digest" /\ ~ echo.deleted /\ Collected # {}
     IN  Goto(f, IF due THEN "read" ELSE "release")
  /\ UNCHANGED <<rows, digest, echo, passed, lease, presses, faults, mailed, doubt>>

\* _build_digest_body: every item that still fits, in order; if none fits, the
\* first one, cut.  Used[k] is what the first k entries take up.
Used ==
  LET used[k \in 0..Len(digest)] ==
        IF k = 0 THEN 0
        ELSE LET more == used[k - 1] + (IF k \in Entries THEN Weight[digest[k]] ELSE 0)
             IN  IF more > MailCap THEN used[k - 1] ELSE more
  IN used

Fitting == {digest[k] : k \in {m \in Entries : Used[m - 1] + Weight[digest[m]] <= MailCap}}

Oldest == {digest[k] : k \in {m \in Entries : \A n \in Entries : m <= n}}

\* (slip: an item that never fits is held for ever)
BodyWithoutGiants == Fitting

Body == IF Fitting = {} THEN Oldest ELSE Fitting

ReadItems(f) ==
  /\ worker[f].pc = "read"
  /\ IF Body = {} THEN Goto(f, "release")
     ELSE Becomes(f, [worker[f] EXCEPT !.pc = "send", !.batch = Body])
  /\ UNCHANGED <<rows, digest, echo, passed, lease, presses, faults, mailed, doubt>>

MailOut(f) == mailed' = [i \in Items |->
  IF i \in worker[f].batch /\ mailed[i] < 2 THEN mailed[i] + 1 ELSE mailed[i]]

SendMail(f) ==
  /\ worker[f].pc = "send"
  /\ MailOut(f)
  /\ Goto(f, "record")
  /\ UNCHANGED <<rows, digest, echo, passed, lease, presses, faults, doubt>>

\* The mail server refuses, or takes the mail and loses the answer: the rows are
\* failed without a time to retry, and their items stay for the next run.
MailFails(f) ==
  /\ worker[f].pc = "send"
  /\ faults < MaxFaults /\ faults' = faults + 1
  /\ \/ MailOut(f) /\ doubt' = doubt \cup worker[f].batch
     \/ UNCHANGED <<mailed, doubt>>
  /\ rows' = [i \in Items |->
       IF i \in worker[f].batch /\ rows[i].status \in {"queued", "failed"}
       THEN [rows[i] EXCEPT !.status = "failed", !.retry = Null,
                            !.attempts = IF @ < AttemptBound THEN @ + 1 ELSE @]
       ELSE rows[i]]
  /\ Goto(f, "release")
  /\ UNCHANGED <<digest, echo, passed, lease, presses>>

\* (slip: every queued row of the echo, in the mail or not)
DeliveredAll(f) == [i \in Items |->
  IF rows[i].status \in {"queued", "failed"}
  THEN [rows[i] EXCEPT !.status = "success"] ELSE rows[i]]

Delivered(f) == [i \in Items |->
  IF i \in worker[f].batch /\ rows[i].status \in {"queued", "failed"}
  THEN [rows[i] EXCEPT !.status = "success"] ELSE rows[i]]

\* (slip: everything collected by now is forgotten, not what was mailed)
RecordAll(f) ==
  /\ worker[f].pc = "record"
  /\ rows' = Delivered(f)
  /\ digest' = <<>>
  /\ Goto(f, "release")
  /\ UNCHANGED <<echo, passed, lease, presses, faults, mailed, doubt>>

\* (slip: the items of the mail stay)
RecordRows(f) ==
  /\ worker[f].pc = "record"
  /\ rows' = Delivered(f)
  /\ Goto(f, "release")
  /\ UNCHANGED <<digest, echo, passed, lease, presses, faults, mailed, doubt>>

\* Rows and items of the mail, in one transaction; a row that a check has collected
\* and not marked yet is not updated.
RecordMail(f) ==
  /\ worker[f].pc = "record"
  /\ rows' = Delivered(f)
  /\ digest' = Without(digest, worker[f].batch)
  /\ doubt' = doubt \cup {i \in worker[f].batch : rows[i].status \notin {"queued", "failed"}}
  /\ Goto(f, "release")
  /\ UNCHANGED <<echo, passed, lease, presses, faults, mailed>>

Release(f) ==
  /\ worker[f].pc = "release"
  /\ lease' = Released(lease, Instance[f])
  /\ Becomes(f, Rest)
  /\ UNCHANGED <<rows, digest, echo, passed, presses, faults, mailed, doubt>>

-----------------------------------------------------------------------------
(* The owner, failures and time.                                           *)

Press == presses < MaxPresses /\ presses' = presses + 1

\* toggle_echo, edit_echo (delivery mode), delete_echo
TogglePause ==
  /\ Press /\ ~ echo.deleted
  /\ echo' = [echo EXCEPT !.enabled = ~ @]
  /\ UNCHANGED <<rows, digest, passed, lease, worker, faults, mailed, doubt>>

ChangeMode ==
  /\ Press /\ ~ echo.deleted
  /\ echo' = [echo EXCEPT !.mode = IF @ = "digest" THEN "instant" ELSE "digest"]
  /\ UNCHANGED <<rows, digest, passed, lease, worker, faults, mailed, doubt>>

DeleteEcho ==
  /\ Press /\ ~ echo.deleted
  /\ echo' = [echo EXCEPT !.enabled = FALSE, !.deleted = TRUE]
  /\ UNCHANGED <<rows, digest, passed, lease, worker, faults, mailed, doubt>>

\* The history page gives a failed row up; its item stays collected.
GiveUp(i) ==
  /\ Press
  /\ rows[i].status \in {"failed", "pending"}
  /\ rows' = [rows EXCEPT ![i] = GiveUpRow(@)]
  /\ UNCHANGED <<digest, echo, passed, lease, worker, faults, mailed, doubt>>

\* The process dies, and another one takes its place.
Crash(n) ==
  /\ faults < MaxFaults /\ faults' = faults + 1
  /\ worker' = [w \in Workers |-> IF Instance[w] = n THEN Rest ELSE worker[w]]
  /\ doubt' = doubt \cup UNION {worker[f].batch : f \in {g \in Flushers :
                                   Instance[g] = n /\ worker[g].pc = "record"}}
  /\ lease' = Orphaned(lease, n)
  /\ UNCHANGED <<rows, digest, echo, passed, presses, mailed>>

\* A run is over before its lease has expired.
InTime == lease.left = 1 => \A f \in Flushers : worker[f].pc = "idle"

Tick ==
  /\ lease.left > 0 \/ \E i \in Items : rows[i] # AgeRow(rows[i])
  /\ InTime
  /\ lease' = Aged(lease)
  /\ rows' = [i \in Items |-> AgeRow(rows[i])]
  /\ UNCHANGED <<digest, echo, passed, worker, presses, faults, mailed, doubt>>

Check(w) == \/ \E i \in Items : Claim(w, i)
            \/ InsertItem(w) \/ MarkQueued(w)

Flush(f) == \/ StartFlush(f) \/ Sweep(f) \/ Discard(f) \/ Select(f) \/ ReadItems(f)
            \/ SendMail(f) \/ MailFails(f) \/ RecordMail(f) \/ Release(f)

Owner == TogglePause \/ ChangeMode \/ DeleteEcho \/ \E i \in Items : GiveUp(i)

Next == \/ \E w \in Workers : Check(w)
        \/ \E f \in Flushers : Flush(f)
        \/ \E i \in Items : PassHandled(i)
        \/ \E n \in Instances : Crash(n)
        \/ Owner \/ Tick

\* Checks and the hourly job run on, and time passes.
Spec == Init /\ [][Next]_vars
FairSpec == /\ Spec /\ WF_vars(Tick)
            /\ \A w \in Workers : WF_vars(Check(w))
            /\ \A f \in Flushers : WF_vars(Flush(f))

-----------------------------------------------------------------------------
Flushing == {f \in Flushers : worker[f].pc # "idle"}

\* Two processes never flush at once, as long as a run ends within its lease and
\* no process runs the job twice.
OneInstanceFlushes == \A f, g \in Flushing : Instance[f] = Instance[g]

\* An item is mailed twice only if the first mail could not be recorded, or a check
\* that had lost its claim collected the item again.
NoUnexplainedMail == \A i \in Items : mailed[i] > 1 => i \in doubt

\* What the history calls held is still collected, was mailed, or belongs to an
\* echo that was deleted.
HeldItemsAreKept ==
  \A i \in Items : rows[i].status = "queued" => i \in Collected \/ mailed[i] > 0 \/ echo.deleted

\* Digests implement the outbox: an item is mailed again only if a mail that held
\* it was not recorded, and is delivered only after it was mailed, for good.
RowState(status) ==
  IF status = "success" THEN "delivered" ELSE IF status = "gave_up" THEN "dropped" ELSE "open"

Out == INSTANCE Outbox WITH
  Posts  <- Items,
  outbox <- [i \in Items |-> [state |-> RowState(rows[i].status), sent |-> mailed[i],
                              doubt |-> i \in doubt]]
ImplementsOutbox == Out!Spec

\* What is collected leaves the queue, unless the echo is paused, deleted or moved
\* to another mode.
CollectedItemsAreMailed ==
  \A i \in Items : i \in Collected
    ~> i \notin Collected \/ ~ echo.enabled \/ echo.mode # "digest"
=============================================================================
