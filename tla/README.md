# FeedEcho: a TLA+ verification

FeedEcho polls RSS/Atom/JSON feeds and cross-posts every new item to the
configured destinations (*echoes*), at once, through an hourly cap, as an e-mail
digest, or from a queue its owner curates. Its README promises "Idempotent posting —
failed posts are retried, duplicates are prevented". This directory models the
code that has to keep that promise, and the accounts, connections, feeds and
reader around it; checks the models with TLC on small instances; and proves the
central parts with TLAPS for instances of any size.

Paths are relative to the repository root; `scheduler.py:427` means line 427.

## 1. Inventory

| Component | State | Operations | Interacts with |
|---|---|---|---|
| **Feed checks** (`scheduler.py` 188–684) | `feeds` row: cursor `last_item_id`, validators, `lease_token`/`lease_expires_at`, paused, deleted | `check_feed`: acquire lease, snapshot, conditional GET, item loops, cursor write, retry sweep, release | origin servers, `posted_items`, routes |
| **Claims and the `posted_items` row** (697–880, 1333–1437) | status, `claim_token`, `claimed_at`, `attempt_count`, `next_retry_at` | `_claim_post`, `_guard_claim`, `_update_post`, `_fail_post`, `_record_filtered`, retry / give up buttons | everything that delivers |
| **Item selection** (`feed_parser.py` 928–1035) | none (pure) | `get_new_items`, `get_backdated_items` | feed checks |
| **Senders** (`scheduler.py` 1716–3320, one client module per network) | Bluesky session cache | prepare, guard, one irreversible request, record | destinations, claims |
| **Drip queue** (883–986, 3361–3514, 3818–3961) | `drip_items`, one process-local lock per echo | hold, release, re-queue, discard | claims, feed checks |
| **Digests** (3321–3358, 3964–4247) | `digest_items` | queue, flush, keep what does not fit, orphan sweep | claims, e-mail |
| **Curation queue** (989–1256, 3517–3815; `app.py` 2211–2464, 6103–6312) | `queued_posts`, schedule slots, one-shot echoes | enqueue, compose, flush, post now, cancel, retry, edit, reorder | claims, routes |
| **Jobs and job leases** (254–285, 4250–4474) | `scheduler_leases` row | acquire/release, interval jobs | all flushes |
| **Backoff and alerts** (`notify.py`) | failure counter per echo | `next_retry_delay`, `record_failure`, `record_success` | `_fail_post` |
| **Feed, echo and history routes** (`app.py` 5283–5662, 6594–6880) | `feeds`, `echoes`, `posted_items` | pause, delete, edit, init, poke, toggle, retry, give up | run beside all jobs, no lease |
| **Accounts** (`auth.py`, `invites.py`, admin pages, clean-up job) | `users`, `invite_codes` | sign up, suspend, promote, demote, delete, clean up | billing hooks |
| **Sign-in** (`auth.py`, `verification.py`) | session cookies and `session_epoch`, `email_tokens`, throttles | login, logout, verify, forgot, reset, resend | accounts |
| **OAuth** (`oauth.py`) | registered client, `oauth_states`, binding cookie | connect, callback, purge | destinations |
| **Destinations and echoes** (account routes of `app.py`) | nine account tables, `echoes` | connect, reconnect, disconnect, save, boost | senders |
| **Feeds and folders** (feed routes, OPML) | `feeds`, `folders`, muted phrases | add, import, edit, file, mute, delete | feed checks |
| **Reader** (`_store_feed_items`, `prune_feed_items`, reader routes) | `feed_items` | store, prune, page, read, star, mark all, undo | feed checks |
| Plans and trials (`plans.py`) | limits (pure), `users.plan` | quota checks | every route that adds |
| Saved searches | `saved_searches`, a cache of counts | CRUD | reader |
| Parsing, fetching, templates, filters, images | none | pure functions and I/O | feed checks |
| Import/export, migrations, pages, packaging | | batch and deployment | |

Asynchronous routes share one event loop, synchronous ones run in a pool of
threads, the jobs in threads of the scheduler; on PostgreSQL several instances of
the whole run side by side. SQLite opens a transaction at the first *write*, and
PostgreSQL reads what is committed: a route that reads a row and then writes it is
two steps, and anything may happen between them.

What is hard to get right, and hard to reach by a test:

* **Two workers.** The interval job, the start-up job, "fetch now", the poke
  webhook and a second instance all call `check_feed`. The feed lease is meant
  to exclude them, but it lapses after 15 minutes and is only renewed between
  items; below it the row claim is reclaimable after 10 minutes. A slow worker
  therefore overlaps its successor at every step.
* **The irreversible request.** Between the guard and the record no transaction
  can help: a crash or a lost answer leaves a post nobody knows of.
* **Order.** H-2: the cursor must not pass an item that is unhandled for any
  echo, whatever the others did.
* **Routes** write the same rows without a lease or token, from a page that may be
  out of date.
* **Progress.** A 304, an empty list of new items and an expired backoff each
  end a check early; together they decide whether a failed post is ever retried.
  A queued post whose dispatch dies must neither stay `sending` nor go out twice.
* **Several queues share one row.** Drip, digest and curation queue all park an
  item as `queued` in the same table, with their own second table and two
  transactions in between.
* **Check, then write.** Plan caps, invite codes, the last admin, resend limits,
  dependents of a destination: each is read in one transaction and relied upon in
  another, or after a call to Stripe.
* **Secrets that change.** Sessions rotate, refresh tokens work once, passwords are
  reset while a login is under way.

What makes each component correct:

* *Feed checks*: the cursor only passes handled items, is never put back by a
  worker that lost its lease, and every new item is eventually handled.
* *Claims*: a post appears at most once unless a send could not be recorded;
  `success` is only written for a post that appeared; settled rows stay settled.
* *Retries*: a failed post is retried until it appears or is given up.
* *Drip*: at most the hourly cap per echo; a held row always has its queue entry.
* *Digests*: an item is mailed once unless a mail could not be recorded; what the
  history calls held is collected or was mailed; a large item stops nobody.
* *Curation queue*: nothing is reported as sent that did not appear; a draft waits
  for its owner; a deleted feed stays silent; every post is decided in the end.
* *Leases*: one process at a time, as long as its run ends in time.
* *Senders*: no item twice, no image lost, nothing given up without a cause.
* *Sign-in*: a session is as old as the password; a link works once, the newest only.
* *Accounts*: a code signs up one account; an admin remains; nobody pays for a
  deleted account.
* *OAuth*: an account goes to the user who began the flow, in the same browser.
* *Destinations, feeds, folders*: caps, references between rows and stored
  secrets survive requests that overlap, up to what the overlap itself explains.
* *Reader*: who scrolls to the end has seen everything that was there, once.
* *Backoff*: monotone, never zero, at most a day.

The full list of hazards with their lines is `hazards` in `PROJECT.json`.

## 2. Plan

1. `PostedItems` (rows, pure), `FeedDelivery` (feed checks and routes) with
   `FeedDeliveryProofs` — **done**.
2. `DripQueue` with `DripQueueProofs` — **done**.
3. `JobLease`, `DigestQueue`, `CurationQueue` — **done**: each queue composes
   `PostedItems` with its own table, its flush job, the hold in `process_echo`
   and the routes.
4. `Outbox`, the abstract promise — **done**: `FeedDelivery` and `DigestQueue`
   implement it (checked and proved).
5. `Senders`, `SignIn`, `Accounts`, `OAuthConnect`, `Destinations`, `Catalog`,
   `Reader`, composed by `Routes` and `Tenant` and checked as `MCTenant` — **done**.
6. Proofs of all safety properties of delivery and its queues (`DigestQueueProofs`,
   `CurationQueueProofs` and those above), of the senders (`SendersProofs`), of the six
   parts around delivery (`RoutesProofs`) and of their composition (`TenantProofs`) —
   **done**.
7. Left: `ItemSelection` and `RetryBackoff` (the pure functions with dates,
   windows, limits and the doubling delay, against reference definitions over
   bounded inputs); `FailureAlerts` (counter and threshold of `notify.py`); saved
   searches.

No module of the project declares a `RECURSIVE` operator, so any of them can be
proved about.

## 3. The modules

### Delivery

**`PostedItems`** maps a row to the row each SQL statement leaves behind.
Timestamps are kept as the time left (`stale` until a pending row is
reclaimable, `retry` until a failed row is due), so no clock is needed and
"`claimed_at` NULL" and "older than ten minutes" coincide at `stale = 0`, as
they do in the `WHERE` of `_claim_post`. `attempts` saturates at
`AttemptBound`, above `MaxAttempts`, where no comparison can tell it apart.

**`Outbox`** is what every path of a post promises: an entry per post with its
state, how often it was sent, and whether one of its sends went unrecorded. A post
is sent a second time only in doubt, is delivered only after it was sent, and a
delivered one never moves. It knows neither rows nor workers.

**`FeedDelivery`** is one feed, its echoes and any number of workers.

| Model | Code |
|---|---|
| `feed` | the `feeds` row; `etag` is the document it validates (`ETag` and `Last-Modified` together), `leaseLeft` the lease's remaining time |
| `enabled` | `echoes.enabled = 1`; an owner who is suspended, unverified or past the trial acts the same way (455–475) |
| `rows` | `posted_items`, one per echo and item (unique index) |
| `worker[w]` | the locals of one `check_feed`; `pc` names its next transaction or request; the token is the worker's name |
| `origin[u]` | what the URL serves; `published[p]` what the destination received |
| `doubt[p]` | history, read by no action: the claim of `p` was taken from a live worker, or a send of it went unrecorded |

Each transaction and each request is an action; local computation between two
of them (`BeginNew`, `ItemDone`, `EchoDone`…) is part of the action before it.
`CheckFeed(w)` lists them in the order of the code. `Fault` is a process that
dies or an exception that unwinds `check_feed` (its `finally` releases the
lease). `Publish`, `Tick` and `Operator` are the world. `Routes` selects which
routes an instance has. Because a claim is reclaimed as soon as `stale` is 0,
and `Tick` may happen at any time, leases and claims lapse at any step.

**`DripQueue`** is one echo with an hourly cap, the feed checks that hold its
items and the runs of the flush job that release them.

| Model | Code |
|---|---|
| `rows`, `recent` | `posted_items`; `recent` is what is left of the hour since `posted_at` |
| `queue[i]` | the `drip_items` row of an item: `tries` is `attempts`, `readers` the flushes that hold this row's `id` |
| `echo` | `enabled` and `drip_limit` |
| `lock[p]` | the `threading.Lock` of the echo in process `p` |
| `worker[w]` | a `process_echo` or a `_flush_drips`: snapshot of the echo, the batch read, the item |
| `passed` | the items behind the feed cursor, which no check offers again |

Checks and flushes share `Dispatch`, the senders. `Check(w)` and `Flush(w)` list
the transactions in the order of the code. A flush deletes an entry by the `id`
it read; `Without` is that delete, and an entry that was removed and stored
again meanwhile has other readers. `Escape` is an exception: out of a sender
during a release it leads to `_requeue_drip_release_error`, elsewhere it releases
the lock and ends the item (flush) or the check. `Crash` ends every worker of a
process. Left out: the lease of the flush job, which lapses after five minutes
and admits its own process again, so several flushes are allowed at any time;
entries are taken in any order instead of by `id`; a deleted echo acts as a
disabled one; an unreadable payload, since only the program writes it; the keyword
filter, since a filtered item never gets here.

**`JobLease`** is the row of `scheduler_leases`: it belongs to a process, admits
that process again, is never renewed and is free again when it has run out.

**`DigestQueue`** is one e-mail echo, its checks and runs of `flush_digests`.

| Model | Code |
|---|---|
| `digest` | `digest_items` by id; `Null` where a row was deleted |
| `echo` | delivery mode, `enabled`, deleted |
| `lease` | the job's lease; `Instance[w]` is the process a worker lives in |
| `worker[f].batch` | the items that made it into the mail: `Body` is `_build_digest_body` with `Weight` for lengths, the first item cut if nothing fits |
| `mailed`, `doubt` | history: how often an item was mailed, and whether a mail with it went unrecorded |

The hold is two transactions (`InsertItem`, `MarkQueued`), a flush six: orphan
sweep (`Sweep`, `Discard`), `Select`, `ReadItems`, `SendMail` or `MailFails`,
`RecordMail`, `Release`. What is recorded leaves a gap in the sequence, as it does
among the ids of the table. `Tick` leaves a run within its lease (`InTime`): a mail
takes far less than the lease of 15 minutes (scheduler.py:247–249). Left out: an echo
whose last item changed case or title on the way into the subject.

**`CurationQueue`** is one destination, with checks of an echo in queue or review
mode, runs of `flush_queue`, and requests of the owner.

| Model | Code |
|---|---|
| `source` | the item's `posted_items` row under the echo itself |
| `posts[p]` | `queued_posts`; `at` is the time to the slot, `left` what is left of the claim's 15 minutes |
| `posts[p].gen`, `.echo` | the one-shot echo a post is sent under; a dispatch holds the `gen` it read, and an echo replaced meanwhile counts as gone |
| `rows[p]` | the `posted_items` row under the one-shot echo; `readers` hold its `id` |
| `approved`, `doubt`, `appeared` | history |

`Dispatch` is `process_echo` under the one-shot echo with the judgement of its
caller; flush and "post now" share it and settle differently. Cancel, retry and
compose are two steps each. The lease of the job is left out as in `DripQueue`.
Slots are distances in time (`SlotTicks` apart, capped by `LastSlot`), without
time of day; composing with a slot of one's own or to send at once is left out.

**`Senders`** is one item of one echo to one of the nine kinds of destination, with
the parts of each client that hold state: images uploaded one by one, Bluesky's
session with its cache, one-time refresh token and login, the retry after a rejected
session, GitHub's file version, idempotency keys of Mastodon and Matrix (`Keyed`),
and the class of each error (permanent or not). `excuses` counts what nobody can
know of: a lost answer, a death between request and record, and a claim that lapsed past
the guard, each only of a worker that owns the row (`Unknowable`), for one that has
lost its claim was counted when it did. `harm` says that the owner or the destination
did something final.

### Around delivery

Each of these modules has a `worker` whose `pc` is what the request does next,
bounded numbers of requests (`MaxPresses`, `MaxRequests`, `MaxActs`), and history
variables that say which overlap excuses which anomaly. They share no variable.

* **`SignIn`**: one account and the requests against it. A login reads the row,
  verifies the password for a long time, and sets a cookie of the epoch it *read*;
  a reset looks at its link, consumes it, changes password and epoch. `fresh` is
  the 24 hours of links and of the resend limit.
* **`Accounts`**: rows of `users`, codes, and Stripe's view `charged`. The guard of an
  admin action and its update are one step (on PostgreSQL they share a transaction
  under an advisory lock); the guard of a deletion, its hooks and the delete are three.
  Stripe and the billing overlay are external.
* **`OAuthConnect`**: the client registered at one instance and its cache, the
  states, the cookie that binds a flow to a browser, the callback in three steps,
  deletion of the user and the purge at the start. Instance and browser are external.
* **`Destinations`**: destination rows by key, echoes that point at them,
  the cap of the plan, stored secrets and the boost flag. Every route is a step
  that checks and a step that writes.
* **`Catalog`**: feeds, folders, muted phrases, OPML import one outline at a time,
  and the check that stores items and cursor meanwhile. `overtaken` (history) are the
  requests past the cap since when another one took a place, `crossed` counts the feeds
  that such requests stored. Folders that an import creates, renaming and order are left
  out.
* **`Reader`**: items of one feed with the order of the list (undated ones last,
  then by id), keyset pages, pruning by `Cap` and `StarCap`, and "mark all read"
  as the select and the update it is.

**`Routes`** gives each of these modules its own constants and variables (it extends
`SignIn` and instantiates the others as `A`, `C`, `D`, `F` and `R`); **`Tenant`** adds
`Senders` (`E`, with its proofs) and makes one system of them: `part` is chosen at the start, that
part takes all steps and the variables of the others rest. Since the parts share
no variable this loses no behaviour of any of them. **`MCTenant`** is the instance TLC
checks, and the theorems of `TenantProofs` are about the same `TenantSpec`.
**`MCFeedDelivery`**, **`MCDripQueue`**, **`MCDigestQueue`**, **`MCCurationQueue`** give
the functions a `.cfg` cannot write.

### Proofs

**`PostedItemsProofs`** (each statement maps a row to a row),
**`FeedDeliveryProofs`** (types, duplicates, the refinement of `Outbox`, and in its
second half the cursor), **`DripQueueProofs`**, **`DigestQueueProofs`**,
**`CurationQueueProofs`** and **`SendersProofs`** hold the theorems of §5, each about the
module in its name; **`RoutesProofs`** those of the six parts around delivery, one section
each (the lemmas of a part begin with its name: `OAuth…`, `Dest…`, `Feed…`, `Item…`,
`Account…`; those of sign-in have no prefix), and **`TenantProofs`** those of the whole.

### Abstractions, and why they lose nothing the properties look at

* Echoes of one item are processed in any order (the code: by row order), the
  due rows of a sweep likewise; the sweep's `LIMIT 25` is not reached.
* `_fail_post` reads `attempt_count` and then updates: one action. A reclaim
  between the two makes the update a no-op in both, and the answer the smaller
  one; the reclaim before both, which is modelled, is the harmful order.
* `db_feed_url` and the sweep's fetch, `init_feed`'s fetch and its update, and
  a 304 with the re-storing of its validators, are one action each.
* A worker's claim token is the worker. A worker has one attempt at a time, so
  two of its tokens are never in use at once.
* Not modelled: `last_fetched`, `last_error`, `posted_at` outside the drip window,
  texts, alerts. `published` of `FeedDelivery` counts the requests a destination
  without idempotency keys acts on; `Senders` models the keys.
* Item ids are distinct within a document. Dates are not modelled in
  `FeedDelivery`: in `OlderItems` every item is inside the backdating window, the
  order follows the page and the 20-item limit is not reached. In `Reader` an item
  keeps its date.

## 4. What TLC checks

One tick is five minutes in `feed_race`, `feed_echoes` and `feed_catches_up`.

| Run | Instance | Shows |
|---|---|---|
| `feed_race` | 2 workers, 1 echo, 2 items, 1 fault | `TypeOK`; no duplicate without an unrecorded send; `success` only if published; feed checks implement `Outbox`; settled rows stay; the cursor passes only handled items or items whose claim was taken; only a worker that read the current cursor moves it, to an item listed as newer |
| `feed_echoes` | 1 worker, 2 echoes, 2 items, a filter, backdating, 304s, pause, delete, toggle, reader on, 1 fault | alone, a worker's cursor passes only items handled for *every* echo (H-2) |
| `feed_routes` | 1 worker, 2 URLs, and edit, init, retry, give up | an item listed at both URLs is still posted once, and no settled row is reopened, whatever the operator does at any step |
| `feed_catches_up` | 1 worker, no 304s, 1 fault, fairness | every failed post is retried until it settles; every item ahead of the cursor is handled |
| `feed_not_modified` (violation) | as above with 304s | a failed post waits until the feed changes |
| `drip_race` | 2 flushes and 1 check in one process, 3 items (symmetric), caps 1 | the hourly cap and the queue's cap hold; a queued row always has the entry it is released from |
| `drip_routes` | flush and check in two processes, toggle, limit, retry, give up; no attempt limit; 1 fault | a delivered row is never reopened |
| `drip_released` | 1 flush, 1 check, 1 fault, fairness | every held item leaves the queue |
| `digest_race` | 2 processes with a flush each, 1 check, 2 items of which one fits no mail, 1 press, 1 crash or lost mail, fairness | one process flushes at a time; no item is mailed twice without an unrecorded mail or a check that lost its claim; held items are kept; digests implement `Outbox`; what is collected is mailed |
| `queue_race` | review mode, 1 check, 1 flush, 1 request, 1 item, 2 posts (symmetric), plan cap 2, 2 presses, 1 fault | `sent` only if it appeared; no unexplained duplicate; drafts wait for their owner; a deleted feed stays silent; an item called handled has its post |
| `queue_decided` | queue mode, 2 items, 1 press, 1 fault, fairness | every post of the queue is sent, fails for good or is cancelled |
| `tenant` | see below | seven parts: sign-in, accounts, OAuth, destinations, feeds and folders, reader, senders |

The violation is a disagreement between code and README, explained under
`findings` in `PROJECT.json`; §6 lists others.

The instances of `tenant`: two requests everywhere (a checker and the one that
writes in between); 3 mailed links, all limits 1, 3 requests, a crash (sign-in);
2 admins, 2 further users, 1 code, 3 presses, 1 failing hook, the clean-up job
(accounts); 2 users, 2 states, 2 clients, 2 callbacks (OAuth); 6 destinations of 5
kinds under a cap of 2 (destinations); 2 feeds, 2 URLs, 1 folder, 2 phrases, a cap
of 1, one check (catalog); 3 items of which one has no date and two share
one, pages of one row, caps 2 and 1 (reader); 9 kinds, 2 images, 2 sessions, 2 claims,
2 events (senders). Requests and users are symmetric.

*Bounds.* Two workers are enough for every race here, since a claim and a lease
have one holder and one challenger; two items make an earlier and a later one
and let the cursor scroll off (`Window = 1` in the runs that need it); two
echoes let one fail while the other succeeds. `MaxFaults` bounds crashes,
`published` is capped at 2 (a duplicate), `AttemptBound` at one above the limit.
`ReclaimTicks` and `LeaseTicks` are 1 in the larger runs: only their reaching
zero matters to safety, and that is as free as with larger values.

In the `drip_` runs the caps are 1, so that the second item finds the window and
the third the queue full; `MaxAttempts` is 2, so that a release fails, returns
and fails for good, and 0 in `drip_routes`, where the unfenced give-up (§6) would
otherwise hide everything else. All ticks are 1.

In `queue_race` `SendTicks` is 2, so that a claim may lapse during a dispatch or
not; `MaxEchoes` is 2, so that a cancel can take the echo from under a dispatch
and a later send make a new one. In `digest_race` a mail holds a weight of 2 and the
items weigh 1 and 3: one fits, the other never does.

*Deadlock.* The four runs of queues, digests and tenants say
`CHECK_DEADLOCK FALSE`: once every request, item and fault is used up, all is done and
nothing need happen. In the feed and drip runs something always can.

*Fairness* (`FairSpec` of `FeedDelivery`). `WF(Tick)`: time passes.
`WF(CheckFeed(w))`: the scheduler starts a check of a due feed every two minutes
(`start_scheduler`, `check_all_feeds`) and a check runs on to its end; crashes are
bounded by `MaxFaults`. `SF` of `FetchBody`, `FetchNotModified` and `Refetch`: a feed that
is polled again and again is reached again and again; without it "the network
is always down" refutes every liveness property. Nothing is assumed of
`GuardClaim` against `PreparationFails`, or of the destination's answers: with
`MaxAttempts = 0` a post may fail for ever, and the property then says that
each failure is followed by another attempt.

`FairSpec` of `DripQueue`: `WF` of time and of each job, which run every few
minutes and on to their end; `SF` of taking the lock, which a waiting thread gets
in the end; `SF` of `NextItem`: a feed that keeps listing an item keeps offering
it. Nothing is assumed about which releases succeed.

`FairSpec` of `DigestQueue`: `WF` of time, of each check and of each flush, which
the scheduler starts every hour. `FairSpec` of `CurationQueue`: `WF` of time, of the
reclaim and of each flush (every five minutes), and of a dispatch or a request that
has begun; here `InTime` says that a dispatch ends within its claim of 15 minutes
unless its process dies. Nobody owes a press, a fault or a success.

## 5. What is proved

### Feed checks

All of `FeedDelivery`, for any sets of workers, echoes, items and URLs, any
deadlines, flags, routes and bound of faults, under the named `ASSUME`s of the two modules
(`Null` is not a value; deadlines are positive; the backoff is positive).

* **`TypeCorrect`**: `Spec => []TypeOK`. The type alone is not inductive:
  `Head(todo)` or `origin[url]` need to be defined where they are used.
  `TypeInv` adds `LocalsSet`: which locals are set at which step (e.g. a worker
  at `renew` has a non-empty `todo`).
* **`NoDuplicates`**: `Spec => []NoUnexplainedDuplicate`. The inductive
  invariant `OnceInv` says of each post without an unrecorded send (`Once`):
  (1) every worker between guard and record owns the row, so there is at most
  one; (2) unless it already has a positive answer, the post has not appeared;
  (3) it appeared at most once; (4) if it appeared, the row says `success` or
  that worker is about to write it. `Claimable` refuses `success`, which closes
  the circle: after (4) nobody can get to `send` again. Only four actions touch
  this (`Claim`, `GuardClaim`, `Send`, `RecordSuccess`, plus `Fault`); the other
  twenty steps of a worker are `Quiet` and share one lemma.
* **`SuccessIsReal`**: `Spec => []SuccessWasPublished`, from `SuccessInv`: a
  worker about to record a positive answer holds a published post.
* **`SettledStays`**: `Spec => SettledForGood`, an action property: quiet steps
  write only absent, failed or own pending rows, and so do the others.

* **`FeedImplementsOutbox`**: `Spec => ImplementsOutbox`, the refinement. The entry of
  a post is computed from its row, `published`, `doubt` and the workers that hold it.
  The proof takes `TypeInv`, `OnceInv` and `SuccessInv` as they stand, reduces a step of
  the system to a move of each single post (`Outbox` lets all entries move at once, each
  by a move of its own or not at all), and shows the move action by action: a claim
  starts an attempt, a send counts, a record settles, everything else stutters.

The second half of `FeedDeliveryProofs` is about the cursor, the hardest promise of the
feed checks: everything behind it is never looked at again unless it has a retry time.

* **`CursorLeavesNothingBehind`**: `Spec => CursorPassesHandledOrTakenOver`, without the
  retry button (`"retry" \notin Routes`), which reopens a post behind the cursor by
  design. What a worker will write is its `mark`, set item by item while posts fail,
  crash and are taken over, so the invariant must say at *every* step of the loop what
  the mark stands for. `CursorOK` does: `todo` is exactly the new items ahead of the mark
  (`Ahead`, a `SubSeq`; item ids are distinct, `DocInv`), every post up to the mark is in
  a set `D`, and of the current item the echoes tried so far are, unless one failed
  (`ItemOK`). It is proved once for any `D` that only grows, as long as the steps that
  end the work on a post with a good result put it into `D`; the theorem takes for `D`
  the posts that are handled or were taken over (`Dealt`). That such a step does needs
  `GuardInv`: who delivers a post owns its row, unless somebody dealt with it. (The rows
  of two workers that overlap are otherwise unrelated to their locals.) `FilteredInv`
  covers the items that a filter suppresses.
* **`CursorNeverPassesFailure`**: `Spec => CursorPassesOnlyHandled` (H-2) when there is one
  worker: then nobody takes a claim over (`NoneTakenOver`). With two workers the code
  refutes it (§6), so the hypothesis is needed.
* **`CursorOnlyAdvances`**: `Spec => CursorNeverMovesBack` without `init_feed`, which
  replaces the cursor by design. `FreshInv`: the holder of the lease read the cursor that is
  stored, or an edit has cleared it since, for `_update_cursor` is fenced by the lease. The
  property speaks of the document of the worker and not of what the feed serves now: a
  feed that lists an old item as new again moves the cursor to it, and may.

### The drip queue

All of `DripQueue`, for any finite set of items, any checks and flushes, any limit,
window, cap and bound of faults, under the named `ASSUME`s of its two modules.

* **`DripTypeCorrect`**: `Spec => []TypeOK`, from `TypeInv`, which adds that a
  worker away from `idle` and `next` has an item.
* **`HeldItemsKept`**: `Spec => []HeldItemsHavePayload`, if all workers live in one
  process (`OneProcessOnly`) and the echo is not disabled. A hold is two
  transactions (payload, then row), a release at least three (take the row, send,
  delete the entry), so the property says nothing of the states between. `HoldInv`
  adds that whoever is inside (`Inside`) holds the echo's lock, that at `mark` the
  payload is there, and that between take and delete (`Released`) the row is not
  queued. Steps outside the lock are `Mild`: they remove no entry and queue no row,
  so they disturb nobody; the others run alone, and lemma `HoldStep` asks each one
  only for its own result.
* **`CapHolds`**: `Spec => []HourlyCap`, if all workers live in one process and the
  limit is not edited. In `CapInv` a worker between its look at the window and the
  record of its post (`Guarding`) holds the lock, and one that was let through
  (`Reserving`) still has a place: the window holds fewer than `DripLimit` posts. Only
  `RecordSuccess` adds a post to the window, and it fills the place it reserved;
  every other step is `Calm`.
* **`QueueBounded`**: `Spec => []QueueWithinCap`, under the hypotheses of `HeldItemsKept`.
  A release deletes the entry once the sender has returned, and a failed one puts it back
  without a look at the size. `RoomInv`: whoever may still put an entry back (`Placing`)
  has a place for it, since `HoldInv` keeps the others out of the lock.
* **`DeliveredStays`**: `Spec => DeliveredForGood`, if attempts are not limited
  (`MaxAttempts = 0`, the owner's setting for "retry forever"; the default is 5). Every
  statement but the give-up at the limit is fenced; that one is not (§6).

The assumptions are needed: two processes refute the first three properties (§6), a
disabled echo the first and the third (§6), posts sent without a limit may exceed one
that is set later, which is no fault of the code, and a limit of attempts refutes the last.

### Digests

All of `DigestQueue`, for any number of processes, checks, items, presses and faults.
Where a theorem needs it, each process has one run of the job at a time (`OneRunEach`; §6
says what happens otherwise). That a run ends within its lease is the guard `InTime`
of `Tick`.

* **`LeaseExcludes`**: `Spec => []OneInstanceFlushes`, with `OneRunEach`. `LeaseInv`:
  whoever is inside a flush holds a lease that has not run out. A crash leaves the row to
  `Former`, so nobody inherits it before it lapses.
* **`TypeCorrect`**: `Spec => []TypeOK`.
* **`HeldItemsStay`**: `Spec => []HeldItemsAreKept`, without `OneRunEach`. `KeptInv` adds what
  the workers between two transactions hold: a check at `mark` has its item collected or
  mailed, a flush at `record` mailed its batch, one at `discard` found the echo deleted.
* **`MailsAreExplained`**: `Spec => []NoUnexplainedMail`, with `OneRunEach`. `MailInv`: what a
  flush is about to mail is still collected, and an item without doubt was mailed at most
  once, and then its mail is being recorded by the one flush or its row is finished.
* **`DigestImplementsOutbox`**: `Spec => ImplementsOutbox`, with `OneRunEach`, from all of these.

### The curation queue

All of `CurationQueue`, for any number of posts, items, checks, flushes and requests that
overlap, in both modes, with no hypothesis but the named `ASSUME`s of the modules.

* **`TypeCorrect`**: `Spec => []TypeOK`. `TypeInv` adds that a worker between the two halves
  of an operation holds what the second half needs, and that a post that may be dispatched
  or put back has a try left.
* **`SentPostsAppeared`**: `Spec => []SentWasPublished`. `SentInv` says the same of a row
  that is a success and of a worker about to record or settle one.
* **`DuplicatesAreExplained`**: `Spec => []NoUnexplainedDuplicate`. `OnceInv`: a post without
  doubt has not appeared, or appeared once and its row says so, or is being recorded by one
  worker, or its record will find no row. `EchoInv` is needed below it: a row goes with
  its one-shot echo, and no worker has read an echo younger than the stored one, so
  a dispatch under a replaced echo can never record.
* **`DraftsAreHeldBack`**: `Spec => []DraftsWaitForOwner`. `DraftInv` lists who may be at an
  unreleased draft: a cancel, and those a deleted feed turns away.
* **`DeletedFeedsAreSilent`**: `Spec => []DeletedFeedsStaySilent`, from `SilentInv`: a flush
  that claimed after the deletion gets no further than the second look.
* **`HandledItemsStay`**: `Spec => []HandledItemsAreQueued`: the post is stored before the
  row is marked, so a worker at `mark` has one.

### Senders

All of `Senders`, for every kind of destination and any number of workers, images, sessions,
attempts and events, under `Bounds` (the bounds are numbers, there is a session, workers are
finitely many) and the named `ASSUME`s of `PostedItems`. In `tenant` they are the conjuncts
of `SendersAreSound` and a case of `PartsTypeOK`.

* **`TypeCorrect`**: `Spec => []TypeOK`. `LocalsSet`: whoever asks for a new session knows
  what to do with it, nothing is uploaded or retried before there is a session, and GitHub
  has neither sessions nor images. A first step chosen by overlapping cases made
  this false in an earlier version of the model; `FirstStep` is an order now.
* **`ImagesArrive`**: `Spec => []PostsAreWhole`. `ImagesInv`: at every step, a new login in
  the middle of the uploads included, a worker holds the first `image` images once and
  in order, but for those skipped (`Whole`), and past the uploads it has gone through
  all. Of Matrix this says that the image is there to be shown: its event comes after
  the text and may fail (2893–2912).
* **`RepeatsAreExplained`**: `Spec => []NoUnexplainedPost`. A post without an excuse is on
  record, or its one owner is recording it (`Recording`). `CountInv` counts, beside
  the posts that are out, the workers that lost their claim past the guard and may still
  publish (`Excused`): posts and these are at most the excuses and the one post that needs
  none. Most steps are `Quiet`: they publish nothing and excuse nobody. `KeyInv`: while
  the destination remembers the key, there is one post at most.
* **`GivenUpWithCause`**: `Spec => []GivenUpForCause`. `CauseInv` looks at behaviours in which
  nothing was harmed or excused so far (`Clean`): there the account and its password stand,
  every worker past the guard owns the row, a session that a dispatch has opened for its
  retry is still good, GitHub's file is the one the owner of the row looked at, and no
  dispatch holds the verdict "refused". So one rejected session is never taken for a
  second, which is final.

### Around delivery

`PartsKeepTheirTypes`, `SignInHolds`, `AccountsHold`, `ConnectionsHold`, `DestinationsHold`,
`CatalogHolds`, `ReaderHolds`, `SendersHold` and `StepsHold` (`TenantProofs`) state all nine
properties of `tenant`, each as `TenantSpec => []P` (the last as `TenantSpec => StepsAreSound`).
`TenantInv` says that the part that moves keeps its own invariant, as below; a step of the
whole is a step of that part and leaves the others at rest. The assumptions are the named
`ASSUME`s, and TLC evaluates each of them on its instance: `DeploymentAssumption` (the
accounts, below), `BoundsAssumption` and `SendersAssumption` (the `Bounds` of each module: which
sets are finite, that bounds are numbers, that ids are not `Nobody`, that the plan admits a feed
and what there is at the start, that each kind of destination has its own keys) and
`RowAssumption` (that of `PostedItems`). Requests, users, keys, rows, feeds, items and every
limit are arbitrary.

### Signing in

All of `SignIn`, for any finite set of overlapping requests and any limits.

* **`SessionsAreCurrent`**: `Spec => [](TypeOK /\ AcceptedMeansCurrent)`. The property
  alone is not inductive: the cookie of a login under way is not set yet. `SessionInv`
  says of every cookie *and* of every row a login has read that it is not newer than the
  account (`NoNewer`), and of another epoch if its password is another one.
* **`LinksAreSpent`**: `Spec => []ChangesSpendLinks`. Each password, and each change
  under way, has a used link; `ConsumeReset` adds one of both, a crash loses the change
  and never the link. The bound on passwords in `TypeOK` rests on it.
* **`LimitsHold`**: `Spec => [](MailsAreLimited /\ TriesAreLimited)`. A request that has
  passed a limit and is not counted yet holds a place above it, so the count plus those
  requests stays below the limit plus the number of clients (`MailsInv`, `TriesInv`,
  `ForgotInv`). `IssueInv` (links are issued in order) makes a mail a new link.
* **`OldLinksAreDead`**: `Spec => [][NewestLinkOnly]_vars`, an action property, the sign-in
  conjunct of `StepsAreSound`. `NewestInv`: a live link of a purpose is the newest one
  issued. By `LinkSteps` a step issues a link (and supersedes the live ones of
  its purpose), spends one, or lets links age.

### OAuth connections

All of `OAuthConnect`, for any number of users, browsers, states, clients and callbacks
(`OAuthIInv`).

* **`ConnectionsHold`**. `OAuthStateInv`: a state that may still be accepted was not, and one
  that went out has a user who is there or was deleted while a request of theirs ran
  (`OAuthRemembered`). `OAuthFlowInv` says of each callback what it knows: past the second
  read the user it acts for is the one of its state, also when the state's row is
  purged in between. So an account goes to its starter. `OAuthClientInv`: as long as
  nothing is `unsettled` at most one request registers, and a request at any step, and any
  state that went out, has the client of the row. It must speak of the requests at "save" and
  "sign" too, or the client of a state that is about to be written is unknown.

### Destinations and echoes

All of `Destinations`, for any keys, rows, echoes and requests, and any cap (`DestIInv`).

* **`DestinationsHold`**. *The cap*: while nothing crossed, each request past the cap has room
  for its form beside what is connected. Afterwards `DestCapInv` looks at what is connected
  *or coming* in any request: that is within the cap plus the largest form for every request but
  one. The sum does not grow when a request stores, which is why it is inductive. *References*
  (`DestEchoInv`): who deletes a destination has seen that no echo has it, and none gets it
  except through a request that marks it as `torn`. *Boosts* (`DestBoostInv`): an edit that
  read the flag read it where it was switched on, unless it was switched meanwhile. Below them
  `DestPlacedInv`: no destination has two rows, since the upsert finds the one there is.
* *Secrets*, in **`StepsHold`**: `DestSecretInv` says that a form of a webhook with a blank field
  carries the `{}` that keeps what is stored. Of GitHub the same is false (§6).

### Feeds and folders

All of `Catalog`, for any finite set of feeds, any URLs, folders, phrases, requests and checks
(`FeedIInv`).

* **`CatalogHolds`**. `FeedPairsInv` is what the exceptions rest on: whenever two
  workers are past their reads of one folder, of one feed's phrases or of one feed's URL, the
  history has it. With it, what each worker read is still so or excused: the folder it files
  into (`FeedFolderInv`), the phrases it rewrites (`FeedMuteInv`), the URL whose cursor and items
  it is about to store (`FeedCursorInv`). *The cap* (`FeedCapInv`): a request past the check has room
  for its URL unless it was overtaken, and each overtaken one that stores is counted.

  The proof corrected this property. It used to say that requests which crossed exceed the cap by
  less than their number, and the small instance agreed. But an add of a URL that a live feed
  has is let through at the cap; if an edit gives that feed another URL before the insert, the
  add stores a feed above the cap, and the same two requests can do so again. Only the
  number of overtaken requests that stored bounds the excess.

### The reader

All of `Reader`, for any items and dates, page size and caps (`ItemIInv`).

* **`ReaderHolds`**. The order of the list (by date, the undated last, then by id) is strict
  (`ItemStrictOrder`, `ItemRankOrder`), a page is its newest rows behind the cursor, and its last row
  is one that all the others come before (`ItemNewestFirst`, `ItemNewestCount`, `ItemLastIsLast`).
  `ItemPageInv`: what was shown and is still there lies before the cursor, and what stays and
  was not shown lies behind it, so no page can repeat or skip, whatever is stored
  between two pages. `ItemMarkInv`: between the `SELECT` and the `UPDATE` of "mark all read" a row
  that is unread is on the undo list, or became unread meanwhile.
* *Pruning*, in **`StepsHold`**: only a check removes rows; it leaves as many of the kind as the
  cap says, and none of them is older than the one removed, unless that one has no date
  (`ItemOldestGo`).

### Accounts

All of `Accounts`, for any number of users, codes, admins, requests and clean-up jobs, under
`Deployment`: users are finitely many, one of them is an admin from the start, a
worker is a request or a clean-up, and a user is no state of a code. `AccountTypeCorrect` is
`Spec => []TypeOK`. The other four are the conjuncts of `AccountsAreSound` in `tenant`.

* **`CodesAreUsedOnce`** (`OneCodeEach`) and **`LastAdminStays`** (`AnAdminRemains`): lemma
  `AccountFate` sorts all steps into three. An `AccountSteady` one keeps who is there, the codes that are
  used and, but for one of several, the admins; `AccountJoining` stores a row with an address
  nobody has and a code that was free; `AccountLeaving` deletes one. Each keeps both properties,
  the last because it sets `resigned` with an admin: the guard of a deletion is
  evaluated before its hooks run, so without that excuse the code refutes it.
* **`ChargesEndWithAccounts`** (`NoOrphanedCharge`) and **`CleanUpSparesPayers`**
  (`PayersAreSpared`): `AccountChargeInv` says that a deletion past its hook, and one of
  the clean-up past its guard, is of an account nobody charges or whose checkout
  the history records as too late (`AccountSettled`). Any number of deletions of one account may
  overlap: no step but a checkout unsettles an account, and that one is recorded.

TLC checked the invariants and the properties above on small instances before they
were proved; every safety property of a passing run is a theorem.

Only model-checked: the liveness properties (`FailedPostsAreRetried`, `NewItemsAreHandled`,
`HeldItemsAreReleased`,
`QueuedPostsAreDecided`, `CollectedItemsAreMailed`), which are beyond the prover (so is
`ENABLED`). What the recursive `Used` of a digest's body computes is not proved either; no
theorem needs more of it than that the mail holds collected items.

## 6. Known deviations without a run

The models contain these too; a small change of a configuration shows them.

* A failed post behind the cursor is swept only by checks that find new items:
  `_check_feed_with_lease` returns at 559–561 before `_retry_due_failures`, whose
  docstring says "regardless of cursor". (`feed_catches_up` with
  `Routes = {"init"}` refutes `FailedPostsAreRetried`.)
* `edit_feed` drops the cursor but leaves the lease with the worker that is
  checking the old URL, whose `_update_cursor` puts a cursor of the old URL back;
  the docstring says "the next poll re-initializes to the newest item".
* The hourly cap and the hold are safe inside one process only: with
  `Process <- TwoProcesses` `drip_race` refutes `HourlyCap` (both see the last
  place in the window), `QueueWithinCap` (a check takes the place of an entry that a
  failed release puts back) and `HeldItemsHavePayload` (a flush that reads an entry
  before its row is marked removes it as orphaned, 3909–3916).
* The last attempt of a release gives a row up by its id alone (3441–3457), also
  when another worker has claimed it meanwhile; the re-queue a few lines below is
  fenced: "the normal path owns it now".
* `retry_post` "clears backoff … so the next feed check reprocesses it" (app.py:5625), but
  the sweep selects only rows with a `next_retry_at` (645): a row behind the cursor is
  never selected again.
* `_fail_post` answers "gave up" from the attempt count it read, whether or not its
  fenced update matched (1437): a worker whose claim was taken may move the cursor past
  a row that is still pending.
* `_discard_drip_backlog` runs before the echo's lock is taken (3877–3884) and deletes the
  entry of an item whose row is still to be marked; the row is then held for ever, against
  the docstring (3497). A release that dies leaves a pending row behind the cursor, which
  no "ten minute reclaim sweep" (3931) reclaims.
* `_queue_for_digest` inserts into `digest_items` without a look at the claim
  (scheduler.py:3321–3343): a check that lost its claim and works on collects an item again
  that was mailed meanwhile, and the next digest mails it once more. `DigestQueue` counts
  this as doubt; with two checks and without that excuse `NoUnexplainedMail` fails.
* The lease of a job belongs to the process. With two flushers in one process (the run at
  startup and the hourly one) `digest_race` refutes `OneInstanceFlushes` and
  `NoUnexplainedMail`, and the release of the first frees the lease of the second.
* Curation queue: a cancel that overlaps a flush may be overwritten by its settlement, or
  the post goes out after all; the flush deletes a failed row by its id, which may be a
  success that another dispatch recorded; a second click on "retry" revives what the first
  sent; "post now" asks neither for the feed nor stores the echo it replaces; drafts count
  towards the plan in compose and not in the automatic queue; two enqueues may take one slot;
  two flushes that find the echo of a cancelled post gone each create one (3656–3682), and the
  row under the replaced echo is left behind.
* Accounts: the last admin may delete themselves; the guard of an admin's deletion is
  evaluated before the hooks run; the clean-up may delete an account that left "pending"
  meanwhile; a reset that dies after its link was consumed leaves the old password and no
  link; a suspension and a demotion of one account overlap freely.
* OAuth: a callback that is past its check while its user is deleted leaves an account row
  without one; "no concurrent path removes them" (`verify_state`) is not so, and answered
  with a 400.
* Destinations: reconnecting a Bluesky account counts against the cap; the `{}` that stands
  for "keep the stored secret" is stored literally when the row goes away in between; a blank
  field on GitHub restores a token that was cleared meanwhile; an echo saved while its
  destination is deleted dangles, which the docstring near app.py:1137 rules out.
* Feeds: adding a feed's URL again while an edit gives that feed another one exceeds the cap
  each time they overlap (plans.py:124 accepts an overshoot "by one"); filing a feed into a folder
  that is being deleted leaves a dangling id; of two mutes at once one may be lost, and the edit
  form overwrites both; a check may store items of a deleted feed;
  `_store_feed_items` says "ON CONFLICT DO NOTHING" and updates; undated items beyond the
  retention are stored and pruned at every poll; "mark all" may mark a row that its undo
  list lacks. The properties say "unless those requests overlapped" where this is so.
* Senders: a 409 of GitHub is final, although a new look at the file would succeed
  (github.py:116–118 expects one); the second login of Bluesky does not look at the claim
  again; a 403 of Telegram or Discord is retried although the scheduler counts it as
  permanent; so are a 404 and a 422 of Mastodon.

Those of the later items that the models excuse carry a history variable
(`excuses`, `harm`, `crossed`, `torn`, `late`, `doubt`) that is set at the overlap itself.

## 7. Not modelled, and why

* `notify.py`: `next_retry_delay` is an arbitrary positive function here (its doubling and
  its cap of a day are plain arithmetic); the alerts only send mail.
* Saved searches: rows that one request writes and nothing else reads but a count that is
  cached for a minute.
* Parsing, discovery, templates, filters, alt text and the HTTP clients are data and I/O;
  their outcomes (a document, 304, an error; filtered or not; posted, lost, refused for
  good or for now) are the choices of the models.
* The database layer: a transaction is one step. Migrations, import and export, backups,
  pages and packaging: batch work and presentation.
* Of modelled components: composing with a slot of one's own or to send at once, the time of
  day of slots and the search for a free one; the digest of a degenerate title; the leases
  of the drip and queue flushes (any number of flushes may overlap instead); folders that
  an import creates; dates and limits of the item selection (§2, left).
