----------------------------- MODULE FeedDelivery ----------------------------
(***************************************************************************)
(* Checking one feed and delivering its new items (src/scheduler.py,       *)
(* check_feed and everything below it, with the routes of src/app.py that  *)
(* write the same rows while a check runs).                                *)
(*                                                                         *)
(* A worker is one call of check_feed: the scheduler's interval job, its   *)
(* start-up job, a "fetch now" request, a poke or another instance.  Every *)
(* database transaction and every network call of a worker is one step, so *)
(* workers, the origin server, the operator's routes and the clock may act *)
(* between any two of them.                                                *)
(***************************************************************************)
EXTENDS PostedItems, Sequences, FiniteSets

CONSTANTS
  Echoes,       \* the feed's echoes (instant delivery)
  Items,        \* item ids
  Urls,         \* feed URLs the operator may configure
  LeaseTicks,   \* FEED_LEASE_SECONDS
  Window,       \* items an origin lists (bound of the model)
  Filtered,     \* the <<echo, item>> pairs the keyword filter suppresses
  Validators,   \* do the origins send ETag / Last-Modified?
  Backdating,   \* settings.ALLOW_BACKDATED_ENTRIES
  ReadEnabled,  \* the feed is also read in the reader
  Routes,       \* operator routes in play, a subset of RouteNames
  MaxFaults     \* crashes and escaped exceptions (bound of the model)

RouteNames == {"pause", "delete", "toggle", "edit", "init", "retry", "give_up"}

Posts == Echoes \X Items

ASSUME FeedNullAssumption ==
  Null \notin Items /\ Null \notin Urls /\ Null \notin Echoes /\ Null \notin Seq(Items)
ASSUME BoundAssumption ==
  LeaseTicks \in Nat \ {0} /\ Window \in Nat \ {0} /\ MaxFaults \in Nat
ASSUME FlagAssumption ==
  /\ Filtered \subseteq Posts
  /\ Routes \subseteq RouteNames
  /\ {Validators, Backdating, ReadEnabled} \subseteq BOOLEAN

VARIABLES
  origin,    \* what each URL serves, newest item first
  feed,      \* the feeds row
  enabled,   \* echoes with enabled = 1
  rows,      \* posted_items
  worker,    \* program counter and locals of each worker
  published, \* times each post appeared at its destination (capped at 2)
  doubt,     \* history of each post: its claim was taken from a live worker
             \* ("taken_over"), or a send was not recorded ("unsure")
  faults     \* faults so far

vars == <<origin, feed, enabled, rows, worker, published, doubt, faults>>

Steps == {"idle", "read", "fetch", "save", "init", "renew", "claim", "prepare",
          "send", "record", "cursor", "due", "refetch", "sweep", "release"}

\* A worker between two checks.
Idle == [pc      |-> "idle",
         url     |-> Null,      \* snapshot of the feeds row ...
         cursor  |-> Null,
         etag    |-> Null,
         echoes  |-> {},        \* ... and of its enabled echoes
         items   |-> <<>>,      \* the fetched items, newest first
         phase   |-> "new",     \* which loop called process_echo
         todo    |-> <<>>,      \* items still to process in that loop
         item    |-> Null,      \* the item being processed
         left    |-> {},        \* echoes still to process for it
         echo    |-> Null,      \* the echo being dispatched
         ok      |-> TRUE,      \* all_succeeded
         mark    |-> Null,      \* cursor_id
         due     |-> {},        \* rows the retry sweep selected
         outcome |-> "none"]    \* the destination's answer

Outcomes == {"none", "ok", "lost", "error", "rejected"}

Feed == [status    : {"active", "paused", "deleted"},
         url       : Urls,
         cursor    : Items \cup {Null},
         etag      : Seq(Items) \cup {Null},
         lease     : Workers \cup {Null},
         leaseLeft : Nat]

Worker == [pc      : Steps,
           url     : Urls \cup {Null},
           cursor  : Items \cup {Null},
           etag    : Seq(Items) \cup {Null},
           echoes  : SUBSET Echoes,
           items   : Seq(Items),
           phase   : {"new", "back", "sweep"},
           todo    : Seq(Items),
           item    : Items \cup {Null},
           left    : SUBSET Echoes,
           echo    : Echoes \cup {Null},
           ok      : BOOLEAN,
           mark    : Items \cup {Null},
           due     : SUBSET Posts,
           outcome : Outcomes]

TypeOK ==
  /\ origin \in [Urls -> Seq(Items)]
  /\ feed \in Feed
  /\ enabled \subseteq Echoes
  /\ rows \in [Posts -> Row]
  /\ worker \in [Workers -> Worker]
  /\ published \in [Posts -> 0..2]
  /\ doubt \in [Posts -> SUBSET {"taken_over", "unsure"}]
  /\ faults \in 0..MaxFaults

Init ==
  /\ origin = [u \in Urls |-> <<>>]
  /\ \E u \in Urls :
       feed = [status |-> "active", url |-> u, cursor |-> Null, etag |-> Null,
               lease |-> Null, leaseLeft |-> 0]
  /\ enabled = Echoes
  /\ rows = [p \in Posts |-> Absent]
  /\ worker = [w \in Workers |-> Idle]
  /\ published = [p \in Posts |-> 0]
  /\ doubt = [p \in Posts |-> {}]
  /\ faults = 0

-----------------------------------------------------------------------------
(* Reading a feed document.                                                *)

Listed(items) == {items[k] : k \in DOMAIN items}

Reversed(items) == [k \in DOMAIN items |-> items[Len(items) + 1 - k]]

PositionOf(items, i) == CHOOSE k \in DOMAIN items : items[k] = i

\* get_new_items: the items newer than the cursor, oldest first; only the
\* newest one when the cursor has left the feed.
NewItems(items, cursor) ==
  IF items = <<>> THEN <<>>
  ELSE IF cursor \in Listed(items)
       THEN Reversed(SubSeq(items, 1, PositionOf(items, cursor) - 1))
       ELSE <<Head(items)>>

\* get_backdated_items: the items positioned behind the cursor, oldest first.
\* Every date is inside the window, the 20-item limit is not reached, and the
\* sort by date follows the page.
OlderItems(items, cursor) ==
  LET at == IF cursor \in Listed(items) THEN PositionOf(items, cursor) ELSE 1
  IN  Reversed(SubSeq(items, at + 1, Len(items)))

-----------------------------------------------------------------------------
(* The control flow of one check.  Each operator maps the locals of a      *)
(* worker to its locals at the next database or network step.              *)

Goto(j, step) == [j EXCEPT !.pc = step]

\* The end of both item loops: write the cursor, then sweep.
EndOfLoops(j) == [Goto(j, "cursor") EXCEPT !.todo = <<>>, !.item = Null]

\* The start of the backdated loop, when there is one.
BeginBackdated(j) ==
  LET older == IF Backdating THEN OlderItems(j.items, j.cursor) ELSE <<>> IN
  IF older = <<>> THEN EndOfLoops(j)
  ELSE [Goto(j, "renew") EXCEPT !.phase = "back", !.todo = older]

\* The start of the loop over the new items.
BeginNew(j) ==
  LET new == NewItems(j.items, j.cursor) IN
  IF new = <<>> THEN IF Backdating THEN BeginBackdated(j) ELSE Goto(j, "release")
  ELSE [Goto(j, "renew") EXCEPT !.phase = "new", !.todo = new]

\* (slip: H-2 forgotten, the loop goes on after a failure)
ItemDoneGoOn(j) ==
  LET moved == [j EXCEPT !.todo = Tail(@), !.item = Null, !.ok = TRUE, !.mark = j.item] IN
  IF j.phase = "sweep" THEN [Goto(j, "sweep") EXCEPT !.item = Null, !.ok = TRUE]
  ELSE IF moved.todo = <<>> THEN EndOfLoops(moved) ELSE Goto(moved, "renew")

\* An item of the loop over new items is done.  A failure stops the loop (H-2),
\* success makes the item the new cursor.
NewItemDone(j, rest) ==
  LET moved == [rest EXCEPT !.mark = j.item] IN
  IF ~ j.ok THEN BeginBackdated(rest)
  ELSE IF moved.todo = <<>> THEN BeginBackdated(moved) ELSE Goto(moved, "renew")

\* All echoes of an item are done.  The backdated loop goes on whatever
\* happened, the sweep takes its next row.
ItemDone(j) ==
  LET rest == [j EXCEPT !.todo = Tail(@), !.item = Null, !.ok = TRUE] IN
  IF j.phase = "sweep" THEN [Goto(j, "sweep") EXCEPT !.item = Null, !.ok = TRUE]
  ELSE IF j.phase = "new" THEN NewItemDone(j, rest)
  ELSE IF rest.todo = <<>> THEN EndOfLoops(rest) ELSE Goto(rest, "renew")

\* (slip: the last echo decides)
EchoDoneLastWins(j, e, result) ==
  LET next == [j EXCEPT !.left = @ \ {e}, !.echo = Null, !.outcome = "none", !.ok = result]
  IN  IF next.left = {} THEN ItemDone(next) ELSE Goto(next, "claim")

\* process_echo answered `result' for echo e of the current item.
EchoDone(j, e, result) ==
  LET next == [j EXCEPT !.left = @ \ {e}, !.echo = Null, !.outcome = "none",
                        !.ok = @ /\ result]
  IN  IF next.left = {} THEN ItemDone(next) ELSE Goto(next, "claim")

Post(j) == <<j.echo, j.item>>

Becomes(w, j) == worker' = [worker EXCEPT ![w] = j]

\* (slip: no fence)
Unfenced(w, row) == row

\* `lease_token = ?': the fence on every write of a worker to the feeds row.
Fenced(w, row) == IF feed.lease = w THEN row ELSE feed

-----------------------------------------------------------------------------
(* check_feed: the lease, the snapshot, the fetch.                         *)

\* _acquire_feed_lease; a worker that loses the race does nothing at all.
Acquire(w) ==
  /\ worker[w].pc = "idle"
  /\ feed.lease = Null \/ feed.leaseLeft = 0
  /\ feed' = [feed EXCEPT !.lease = w, !.leaseLeft = LeaseTicks]
  /\ Becomes(w, Goto(Idle, "read"))
  /\ UNCHANGED <<origin, enabled, rows, published, doubt, faults>>

\* The snapshot of the feeds row and of its enabled echoes.
ReadFeed(w) ==
  /\ worker[w].pc = "read"
  /\ Becomes(w,
       IF feed.status # "active" \/ (enabled = {} /\ ~ ReadEnabled)
       THEN Goto(Idle, "release")
       ELSE [Goto(Idle, "fetch") EXCEPT !.url = feed.url, !.cursor = feed.cursor,
                                        !.mark = feed.cursor, !.etag = feed.etag,
                                        !.echoes = enabled])
  /\ UNCHANGED <<origin, feed, enabled, rows, published, doubt, faults>>

\* The origin cannot be reached, or answers with an error.
FetchFails(w) ==
  /\ worker[w].pc = "fetch"
  /\ Becomes(w, Goto(Idle, "release"))
  /\ UNCHANGED <<origin, feed, enabled, rows, published, doubt, faults>>

\* The validators describe what the origin serves: it answers 304.
NotModified(w) == Validators /\ worker[w].etag = origin[worker[w].url]

\* 304 ends the check; the validators the request carried are stored again, even
\* when the URL was edited meanwhile.
FetchNotModified(w) ==
  /\ worker[w].pc = "fetch"
  /\ NotModified(w)
  /\ feed' = Fenced(w, [feed EXCEPT !.etag = worker[w].etag])
  /\ Becomes(w, Goto(Idle, "release"))
  /\ UNCHANGED <<origin, enabled, rows, published, doubt, faults>>

\* 200 with a body.
FetchBody(w) ==
  /\ worker[w].pc = "fetch"
  /\ ~ NotModified(w)
  /\ Becomes(w, [Goto(worker[w], "save") EXCEPT !.items = origin[worker[w].url],
                                                !.url = Null, !.etag = Null])
  /\ UNCHANGED <<origin, feed, enabled, rows, published, doubt, faults>>

\* _save_feed_validators, before anything is delivered, and the early returns
\* that follow it.
SaveValidators(w) ==
  /\ worker[w].pc = "save"
  /\ feed' = Fenced(w, [feed EXCEPT !.etag = IF Validators THEN worker[w].items ELSE Null])
  /\ LET j == worker[w] IN
     Becomes(w, IF j.items = <<>> \/ j.echoes = {} THEN Goto(Idle, "release")
                ELSE IF j.cursor = Null THEN Goto(j, "init")
                ELSE BeginNew(j))
  /\ UNCHANGED <<origin, enabled, rows, published, doubt, faults>>

\* First run: the newest item becomes the cursor, nothing is posted.
InitializeCursor(w) ==
  /\ worker[w].pc = "init"
  /\ feed' = Fenced(w, [feed EXCEPT !.cursor = Head(worker[w].items)])
  /\ Becomes(w, Goto(Idle, "release"))
  /\ UNCHANGED <<origin, enabled, rows, published, doubt, faults>>

-----------------------------------------------------------------------------
(* Delivering one item to one echo.                                        *)

\* _renew_feed_lease before each item of either loop.
Renew(w) ==
  /\ worker[w].pc = "renew"
  /\ feed' = Fenced(w, [feed EXCEPT !.leaseLeft = LeaseTicks])
  /\ LET j == worker[w] IN
     Becomes(w, IF feed.lease # w THEN Goto(Idle, "release")
                ELSE [Goto(j, "claim") EXCEPT !.item = Head(j.todo), !.left = j.echoes])
  /\ UNCHANGED <<origin, enabled, rows, published, doubt, faults>>

\* process_echo, the keyword filter: the item counts as handled.
FilterItem(w) ==
  /\ worker[w].pc = "claim"
  /\ \E e \in worker[w].left :
       LET p == <<e, worker[w].item>> IN
       /\ p \in Filtered
       /\ rows' = [rows EXCEPT ![p] = FilterRow(@)]
       /\ Becomes(w, EchoDone(worker[w], e, TRUE))
  /\ UNCHANGED <<origin, feed, enabled, published, doubt, faults>>

\* History: what claiming post p means for a worker that still holds the claim.
\* The claim is taken over; past its claim guard the old holder sends all the
\* same (or has sent), before it the guard will stop it.
DoubtAfterClaim(p) ==
  LET AtWork(steps) == \E v \in Workers : /\ Owns(rows[p], v)
                                          /\ worker[v].pc \in steps
                                          /\ Post(worker[v]) = p
  IN  doubt[p] \cup (IF AtWork({"prepare", "send", "record"}) THEN {"taken_over"} ELSE {})
               \cup (IF AtWork({"send", "record"}) THEN {"unsure"} ELSE {})

\* _claim_post succeeds.
Claim(w) ==
  /\ worker[w].pc = "claim"
  /\ \E e \in worker[w].left :
       LET p == <<e, worker[w].item>> IN
       /\ p \notin Filtered
       /\ Claimable(rows[p])
       /\ rows' = [rows EXCEPT ![p] = ClaimRow(@, w)]
       /\ doubt' = [doubt EXCEPT ![p] = DoubtAfterClaim(p)]
       /\ Becomes(w, [Goto(worker[w], "prepare") EXCEPT !.echo = e])
  /\ UNCHANGED <<origin, feed, enabled, published, faults>>

\* _claim_post fails: the item is done for this echo, or it is not and gates
\* the cursor (_post_succeeded).
SkipUnclaimable(w) ==
  /\ worker[w].pc = "claim"
  /\ \E e \in worker[w].left :
       LET p == <<e, worker[w].item>> IN
       /\ p \notin Filtered
       /\ ~ Claimable(rows[p])
       /\ Becomes(w, EchoDone(worker[w], e, rows[p].status \in Handled))
  /\ UNCHANGED <<origin, feed, enabled, rows, published, doubt, faults>>

\* _fail_post: the row is fenced, the answer is not.
FailPost(w, permanent) ==
  LET p == Post(worker[w]) IN
  /\ rows' = [rows EXCEPT ![p] = FailRow(@, w, permanent)]
  /\ Becomes(w, EchoDone(worker[w], worker[w].echo,
                         FailureStatus(rows[p], permanent) = "gave_up"))
  /\ UNCHANGED <<origin, feed, enabled, published, doubt, faults>>

\* Rendering fails or comes out empty (retried), the destination account is
\* gone or rejects the upload (permanent).
PreparationFails(w) ==
  /\ worker[w].pc = "prepare"
  /\ \E permanent \in BOOLEAN : FailPost(w, permanent)

\* (slip: no last look)
GuardSkipped(w) ==
  /\ worker[w].pc = "prepare"
  /\ Becomes(w, Goto(worker[w], "send"))
  /\ UNCHANGED <<origin, feed, enabled, rows, published, doubt, faults>>

\* _guard_claim, the last look at the row before the irreversible send.
GuardClaim(w) ==
  /\ worker[w].pc = "prepare"
  /\ Becomes(w, IF Owns(rows[Post(worker[w])], w)
                THEN Goto(worker[w], "send")
                ELSE EchoDone(worker[w], worker[w].echo, FALSE))
  /\ UNCHANGED <<origin, feed, enabled, rows, published, doubt, faults>>

\* The request to the destination: it posts and answers, it posts and the
\* answer is lost, it fails without posting, or it rejects the credentials.
Send(w) ==
  /\ worker[w].pc = "send"
  /\ \E answer \in Outcomes \ {"none"} :
       LET p == Post(worker[w]) IN
       /\ published' = IF answer \in {"ok", "lost"} /\ published[p] < 2
                       THEN [published EXCEPT ![p] = @ + 1] ELSE published
       /\ doubt' = IF answer = "lost" THEN [doubt EXCEPT ![p] = @ \cup {"unsure"}] ELSE doubt
       /\ Becomes(w, [Goto(worker[w], "record") EXCEPT !.outcome = answer])
  /\ UNCHANGED <<origin, feed, enabled, rows, faults>>

\* (slip: a transient failure is taken for a delivery)
RecordAnyAsSuccess(w) ==
  /\ worker[w].pc = "record"
  /\ LET p == Post(worker[w]) IN
     /\ rows' = [rows EXCEPT ![p] = FinalizeRow(@, w, "success")]
     /\ Becomes(w, EchoDone(worker[w], worker[w].echo, Owns(rows[p], w)))
  /\ UNCHANGED <<origin, feed, enabled, published, doubt, faults>>

\* _finalize_success; it answers whether the claim still was this worker's.
RecordSuccess(w) ==
  /\ worker[w].pc = "record"
  /\ worker[w].outcome = "ok"
  /\ LET p == Post(worker[w]) IN
     /\ rows' = [rows EXCEPT ![p] = FinalizeRow(@, w, "success")]
     /\ Becomes(w, EchoDone(worker[w], worker[w].echo, Owns(rows[p], w)))
  /\ UNCHANGED <<origin, feed, enabled, published, doubt, faults>>

RecordFailure(w) ==
  /\ worker[w].pc = "record"
  /\ worker[w].outcome # "ok"
  /\ FailPost(w, worker[w].outcome = "rejected")

-----------------------------------------------------------------------------
(* After the loops: the cursor, the retry sweep, the release.              *)

\* _update_cursor, when an item was completed.
UpdateCursor(w) ==
  /\ worker[w].pc = "cursor"
  /\ feed' = IF worker[w].mark = worker[w].cursor THEN feed
             ELSE Fenced(w, [feed EXCEPT !.cursor = worker[w].mark])
  /\ Becomes(w, [Goto(Idle, "due") EXCEPT !.echoes = worker[w].echoes])
  /\ UNCHANGED <<origin, enabled, rows, published, doubt, faults>>

\* _retry_due_failures selects the failed rows whose backoff has elapsed.
FindDue(w) ==
  /\ worker[w].pc = "due"
  /\ LET due == {p \in worker[w].echoes \X Items : RetryDue(rows[p])} IN
     Becomes(w, IF due = {} THEN Goto(Idle, "release")
                ELSE [Goto(Idle, "refetch") EXCEPT !.due = due, !.phase = "sweep"])
  /\ UNCHANGED <<origin, feed, enabled, rows, published, doubt, faults>>

\* The sweep's unconditional fetch of the URL the feed has now.
Refetch(w) ==
  /\ worker[w].pc = "refetch"
  /\ feed.status # "deleted"
  /\ Becomes(w, [Goto(worker[w], "sweep") EXCEPT !.items = origin[feed.url]])
  /\ UNCHANGED <<origin, feed, enabled, rows, published, doubt, faults>>

\* The fetch fails (a deleted feed has no URL): no sweep this time.
RefetchFails(w) ==
  /\ worker[w].pc = "refetch"
  /\ Becomes(w, Goto(Idle, "release"))
  /\ UNCHANGED <<origin, feed, enabled, rows, published, doubt, faults>>

\* A due row whose item left the feed is given up.
SweepAbandons(w) ==
  /\ worker[w].pc = "sweep"
  /\ \E p \in worker[w].due :
       /\ p[2] \notin Listed(worker[w].items)
       /\ rows' = [rows EXCEPT ![p] = AbandonRow(@)]
       /\ Becomes(w, [worker[w] EXCEPT !.due = @ \ {p}])
  /\ UNCHANGED <<origin, feed, enabled, published, doubt, faults>>

\* Any other due row goes through process_echo again.
SweepRetries(w) ==
  /\ worker[w].pc = "sweep"
  /\ \E p \in worker[w].due :
       /\ p[2] \in Listed(worker[w].items)
       /\ Becomes(w, [Goto(worker[w], "claim") EXCEPT !.due = @ \ {p}, !.item = p[2],
                                                      !.left = {p[1]}])
  /\ UNCHANGED <<origin, feed, enabled, rows, published, doubt, faults>>

SweepEnds(w) ==
  /\ worker[w].pc = "sweep"
  /\ worker[w].due = {}
  /\ Becomes(w, Goto(Idle, "release"))
  /\ UNCHANGED <<origin, feed, enabled, rows, published, doubt, faults>>

\* The `finally' of check_feed: release only the lease this worker holds.
Release(w) ==
  /\ worker[w].pc = "release"
  /\ feed' = Fenced(w, [feed EXCEPT !.lease = Null, !.leaseLeft = 0])
  /\ Becomes(w, Idle)
  /\ UNCHANGED <<origin, enabled, rows, published, doubt, faults>>

\* The worker dies (nothing more runs), or an exception nobody catches below
\* check_feed unwinds it (only the `finally' runs).  If its request was already
\* answered, nothing recorded that.
Fault(w) ==
  /\ worker[w].pc \notin {"idle", "release"}
  /\ faults < MaxFaults
  /\ faults' = faults + 1
  /\ \E step \in {"idle", "release"} : Becomes(w, Goto(Idle, step))
  /\ doubt' = IF worker[w].pc = "record"
              THEN [doubt EXCEPT ![Post(worker[w])] = @ \cup {"unsure"}] ELSE doubt
  /\ UNCHANGED <<origin, feed, enabled, rows, published>>

-----------------------------------------------------------------------------
(* The world around the workers: the origin, the clock and the operator.   *)

\* An item appears in the document at u, on top or, where that matters, at any
\* position; the document keeps Window items.
Publish(u) ==
  /\ \E i \in Items \ Listed(origin[u]), k \in 0..Len(origin[u]) :
       /\ k > 0 => Backdating
       /\ LET doc == SubSeq(origin[u], 1, k) \o <<i>>
                       \o SubSeq(origin[u], k + 1, Len(origin[u])) IN
          origin' = [origin EXCEPT
                       ![u] = SubSeq(doc, 1, IF Len(doc) > Window THEN Window ELSE Len(doc))]
  /\ UNCHANGED <<feed, enabled, rows, worker, published, doubt, faults>>

\* One tick (five minutes in the code's units) of every deadline.
Tick ==
  /\ feed' = [feed EXCEPT !.leaseLeft = CountDown(@)]
  /\ rows' = [p \in Posts |-> AgeRow(rows[p])]
  /\ UNCHANGED <<origin, enabled, worker, published, doubt, faults>>

\* pause_feed toggles the pause.
PauseFeed ==
  /\ "pause" \in Routes
  /\ feed.status # "deleted"
  /\ feed' = [feed EXCEPT !.status = IF @ = "paused" THEN "active" ELSE "paused"]
  /\ UNCHANGED <<origin, enabled, rows, worker, published, doubt, faults>>

\* delete_feed is a soft delete; the echoes and the history stay.
DeleteFeed ==
  /\ "delete" \in Routes
  /\ feed.status # "deleted"
  /\ feed' = [feed EXCEPT !.status = "deleted"]
  /\ UNCHANGED <<origin, enabled, rows, worker, published, doubt, faults>>

ToggleEcho(e) ==
  /\ "toggle" \in Routes
  /\ enabled' = IF e \in enabled THEN enabled \ {e} ELSE enabled \cup {e}
  /\ UNCHANGED <<origin, feed, rows, worker, published, doubt, faults>>

\* edit_feed with a new URL drops the cursor and the validators, whoever holds
\* the lease.
EditFeed(u) ==
  /\ "edit" \in Routes
  /\ feed.status # "deleted"
  /\ feed.url # u
  /\ feed' = [feed EXCEPT !.url = u, !.cursor = Null, !.etag = Null]
  /\ UNCHANGED <<origin, enabled, rows, worker, published, doubt, faults>>

\* init_feed fetches and moves the cursor to the newest item, without a lease.
InitFeed ==
  /\ "init" \in Routes
  /\ feed.status # "deleted"
  /\ origin[feed.url] # <<>>
  /\ feed' = [feed EXCEPT !.cursor = Head(origin[feed.url])]
  /\ UNCHANGED <<origin, enabled, rows, worker, published, doubt, faults>>

\* (slip: any finished row)
RetryAnyPost(p) ==
  /\ "retry" \in Routes
  /\ rows[p].status \notin {"absent", "pending"}
  /\ rows' = [rows EXCEPT ![p] = RetryRow(@)]
  /\ UNCHANGED <<origin, feed, enabled, worker, published, doubt, faults>>

RetryPost(p) ==
  /\ "retry" \in Routes
  /\ rows[p].status \in {"failed", "gave_up"}
  /\ rows' = [rows EXCEPT ![p] = RetryRow(@)]
  /\ UNCHANGED <<origin, feed, enabled, worker, published, doubt, faults>>

GiveUpPost(p) ==
  /\ "give_up" \in Routes
  /\ rows[p].status = "failed"
  /\ rows' = [rows EXCEPT ![p] = GiveUpRow(@)]
  /\ UNCHANGED <<origin, feed, enabled, worker, published, doubt, faults>>

-----------------------------------------------------------------------------
CheckFeed(w) ==
  \/ Acquire(w) \/ ReadFeed(w) \/ FetchFails(w) \/ FetchNotModified(w) \/ FetchBody(w)
  \/ SaveValidators(w) \/ InitializeCursor(w) \/ Renew(w)
  \/ FilterItem(w) \/ Claim(w) \/ SkipUnclaimable(w) \/ PreparationFails(w)
  \/ GuardClaim(w) \/ Send(w) \/ RecordSuccess(w) \/ RecordFailure(w)
  \/ UpdateCursor(w) \/ FindDue(w) \/ Refetch(w) \/ RefetchFails(w)
  \/ SweepAbandons(w) \/ SweepRetries(w) \/ SweepEnds(w) \/ Release(w)

Operator ==
  \/ PauseFeed \/ DeleteFeed \/ InitFeed
  \/ \E e \in Echoes : ToggleEcho(e)
  \/ \E u \in Urls : EditFeed(u)
  \/ \E p \in Posts : RetryPost(p) \/ GiveUpPost(p)

Next ==
  \/ \E w \in Workers : CheckFeed(w) \/ Fault(w)
  \/ \E u \in Urls : Publish(u)
  \/ Tick
  \/ Operator

Spec == Init /\ [][Next]_vars

-----------------------------------------------------------------------------
(* Safety.                                                                 *)

\* The claim protocol prevents duplicates ("Idempotent posting"): a post that
\* appeared twice had a send whose result could not be recorded - the answer
\* was lost, the worker died after it, or the claim lapsed between the claim
\* guard and the record.
NoUnexplainedDuplicate ==
  \A p \in Posts : published[p] > 1 => "unsure" \in doubt[p]

\* A row only ever says `success' for a post that did appear.
SuccessWasPublished ==
  \A p \in Posts : rows[p].status = "success" => published[p] > 0

\* What may happen to the row of a post in one step.
StaysSettled(p) ==
  /\ rows[p].status \in {"success", "filtered"} => rows'[p].status = rows[p].status
  /\ rows[p].status = "gave_up" /\ "retry" \notin Routes => rows'[p].status = "gave_up"

\* Success and suppression are final: no late worker, sweep or button changes
\* them.  Giving up is final but for the retry button.
SettledForGood == [][\A p \in Posts : StaysSettled(p)]_vars

\* The posts a worker declares handled when it writes its cursor_id.
Passed(j) ==
  LET new == NewItems(j.items, j.cursor)
  IN  j.echoes \X {new[k] : k \in 1..PositionOf(new, j.mark)}

CursorWritten(w) ==
  worker[w].pc = "cursor" /\ worker'[w].pc = "due" /\ feed'.cursor # feed.cursor

\* H-2, "never process or advance past a failed earlier item": the cursor moves
\* past a post only when its row is handled ...
CursorPassesOnlyHandled ==
  [][\A w \in Workers : CursorWritten(w) =>
       \A p \in Passed(worker[w]) : rows[p].status \in Handled]_vars

\* ... and the only hole in it is a claim taken from a live worker, to which
\* _fail_post still answers that the row is given up.
CursorPassesHandledOrTakenOver ==
  [][\A w \in Workers : CursorWritten(w) =>
       \A p \in Passed(worker[w]) :
          rows[p].status \in Handled \/ "taken_over" \in doubt[p]]_vars

\* A worker that lost its lease cannot put the cursor back: but for init_feed, a
\* cursor gives way only to an item that is listed as newer in the document of a
\* worker that read this very cursor.
CursorNeverMovesBack ==
  [][feed.cursor # Null /\ feed'.cursor \notin {feed.cursor, Null} =>
       \E w \in Workers : /\ CursorWritten(w)
                          /\ worker[w].cursor = feed.cursor
                          /\ feed'.cursor \in Listed(NewItems(worker[w].items, feed.cursor))]_vars

-----------------------------------------------------------------------------
(* Feed checks implement the outbox.                                       *)

PostState(status) ==
  IF status = "success" THEN "delivered"
  ELSE IF status \in {"gave_up", "filtered"} THEN "dropped" ELSE "open"

Out == INSTANCE Outbox WITH
  outbox <- [p \in Posts |-> [state |-> PostState(rows[p].status), sent |-> published[p],
                              doubt |-> "unsure" \in doubt[p]]]

\* Whatever workers, faults and lapsing claims do, a post is sent a second time
\* only if one of its sends went unrecorded, it is called a success only after it
\* was sent, and a success is final.
ImplementsOutbox == Out!Spec

-----------------------------------------------------------------------------
(* Liveness.  The scheduler starts a check every two minutes and a check   *)
(* runs on until it ends (weak fairness); an origin that is asked again    *)
(* and again answers again and again (strong fairness); time passes.       *)

Fairness ==
  /\ WF_vars(Tick)
  /\ \A w \in Workers : /\ WF_vars(CheckFeed(w))
                        /\ SF_vars(FetchBody(w))
                        /\ SF_vars(FetchNotModified(w))
                        /\ SF_vars(Refetch(w))

FairSpec == Spec /\ Fairness

\* A failed post does not stay failed: it is retried until it appears or is
\* given up.
FailedPostsAreRetried ==
  \A p \in Posts : rows[p].status = "failed" ~> rows[p].status # "failed"

\* Every listed item ahead of the cursor is eventually handled for every echo.
NewItemsAreHandled ==
  \A p \in Posts :
    (feed.cursor # Null /\ p[2] \in Listed(NewItems(origin[feed.url], feed.cursor)))
      ~> rows[p].status \in Handled

=============================================================================
