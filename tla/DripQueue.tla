------------------------------ MODULE DripQueue ------------------------------
(***************************************************************************)
(* The hourly cap of one echo (src/scheduler.py, "drip"): feed checks hold *)
(* the items past the cap in drip_items, and the flush job releases them   *)
(* as the sliding window of 60 minutes has room.                           *)
(*                                                                         *)
(* A worker is either a feed check inside process_echo or a run of the     *)
(* flush job.  Each lives in one process; the workers of a process share   *)
(* the echo's lock, those of different processes share only the database.  *)
(* Every transaction is one step.  The lease of the flush job is left out: *)
(* it lapses after five minutes, is not renewed and lets its own process   *)
(* in again, so that no step below may rely on it.                         *)
(***************************************************************************)
EXTENDS PostedItems, FiniteSets

CONSTANTS
  Items,
  Flushers,       \* the workers that run flush_drips; the others are checks
  Processes,
  Process,        \* the process each worker lives in
  DripLimit,      \* echoes.drip_limit, clamped to the plan
  QueueCap,       \* DRIP_QUEUE_CAP
  DowngradeBatch, \* DRIP_DOWNGRADE_BATCH
  WindowTicks,    \* 60 minutes
  Routes,         \* operator routes in play
  MaxFaults       \* crashes and escaped exceptions (bound of the model)

ASSUME DripWorkerAssumption ==
  /\ Flushers \subseteq Workers
  /\ Process \in [Workers -> Processes]
  /\ Null \notin Items
ASSUME DripBoundAssumption ==
  /\ {DripLimit, QueueCap, DowngradeBatch, WindowTicks} \subseteq Nat \ {0}
  /\ MaxFaults \in Nat
  /\ IsFiniteSet(Items)
ASSUME DripRouteAssumption == Routes \subseteq {"toggle", "limit", "retry", "give_up"}

VARIABLES
  rows,    \* posted_items of the echo
  recent,  \* ticks until a success leaves the window (posted_at)
  queue,   \* drip_items: for each item Null, or its entry
  echo,    \* the echo's enabled and drip_limit columns
  passed,  \* items the feed cursor has moved past
  lock,    \* holder of the echo's lock in each process
  worker,  \* program counter and locals of each worker
  faults   \* faults so far

vars == <<rows, recent, queue, echo, passed, lock, worker, faults>>

Steps == {"idle", "claim", "lock", "rate", "hold", "insert", "mark", "prepare", "record",
          "next", "window", "take", "drop", "judge", "requeue", "recover"}

\* A queue entry: releases that failed, and the flushes that read this very
\* entry (they delete it by its id, which a later entry does not have).
Entry == [tries : 0..AttemptBound, readers : SUBSET Flushers]

ASSUME EntryAssumption == Null \notin Entry

Rest == [pc       |-> "idle",
         item     |-> Null,   \* the item being processed
         tries    |-> 0,      \* row["attempts"] of its entry
         limit    |-> 0,      \* the echo's limit in this worker's snapshot
         open     |-> TRUE,   \* was the echo enabled then?
         batch    |-> {},     \* entries still to look at: <<item, attempts>>
         released |-> 0]      \* releases in this flush

Worker == [pc       : Steps,
           item     : Items \cup {Null},
           tries    : 0..AttemptBound,
           limit    : {0, DripLimit},
           open     : BOOLEAN,
           batch    : SUBSET (Items \X (0..AttemptBound)),
           released : 0..DowngradeBatch]

TypeOK ==
  /\ rows \in [Items -> Row]
  /\ recent \in [Items -> 0..WindowTicks]
  /\ queue \in [Items -> Entry \cup {Null}]
  /\ echo \in [enabled : BOOLEAN, limit : {0, DripLimit}]
  /\ passed \subseteq Items
  /\ lock \in [Processes -> Workers \cup {Null}]
  /\ worker \in [Workers -> Worker]
  /\ faults \in 0..MaxFaults

Init ==
  /\ rows = [i \in Items |-> Absent]
  /\ recent = [i \in Items |-> 0]
  /\ queue = [i \in Items |-> Null]
  /\ echo = [enabled |-> TRUE, limit |-> DripLimit]
  /\ passed = {}
  /\ lock = [p \in Processes |-> Null]
  /\ worker = [w \in Workers |-> Rest]
  /\ faults = 0

-----------------------------------------------------------------------------
(* The window, the queue and the lock.                                     *)

InWindow == {i \in Items : rows[i].status = "success" /\ recent[i] > 0}

\* (slip: every success counts for ever)
EverSent(limit) == Cardinality({i \in Items : rows[i].status = "success"}) >= limit

\* _drip_rate(echo) >= limit
WindowFull(limit) == Cardinality(InWindow) >= limit

Held == {i \in Items : queue[i] # Null}

\* (slip: off by one)
QueueFullLate == Cardinality(Held) > QueueCap

\* DRIP_QUEUE_CAP is reached
QueueFull == Cardinality(Held) >= QueueCap

NewEntry(tries) == [tries |-> tries, readers |-> {}]

\* INSERT ... ON CONFLICT DO UPDATE SET attempts
Upserted(i, tries) ==
  [queue EXCEPT ![i] = IF @ = Null THEN NewEntry(tries) ELSE [@ EXCEPT !.tries = tries]]

\* DELETE FROM drip_items WHERE id = ?, the id flush f read.
Without(f, i) ==
  [queue EXCEPT ![i] = IF @ # Null /\ f \in @.readers THEN Null ELSE @]

Becomes(w, j) == worker' = [worker EXCEPT ![w] = j]

Goto(w, step) == Becomes(w, [worker[w] EXCEPT !.pc = step])

Leave(w) == lock' = [lock EXCEPT ![Process[w]] = IF @ = w THEN Null ELSE @]

\* The worker is done with its item and goes on to the next one.
Done(w) ==
  /\ Leave(w)
  /\ Becomes(w, [worker[w] EXCEPT !.pc = "next", !.item = Null, !.tries = 0])

\* The sender has returned.
Dispatched(w) ==
  IF w \in Flushers THEN Goto(w, "drop") /\ UNCHANGED lock ELSE Done(w)

-----------------------------------------------------------------------------
(* A feed check: process_echo for an echo in instant mode.                 *)

\* A check starts with a snapshot of the echo.
StartCheck(w) ==
  /\ worker[w].pc = "idle" /\ w \notin Flushers
  /\ echo.enabled
  /\ Becomes(w, [Rest EXCEPT !.pc = "next", !.limit = echo.limit])
  /\ UNCHANGED <<rows, recent, queue, echo, passed, lock, faults>>

\* It reaches an item: one ahead of the cursor, or one the retry sweep selected.
NextItem(w, i) ==
  /\ worker[w].pc = "next" /\ w \notin Flushers
  /\ i \notin passed \/ RetryDue(rows[i])
  /\ Becomes(w, [worker[w] EXCEPT !.pc = "claim", !.item = i])
  /\ UNCHANGED <<rows, recent, queue, echo, passed, lock, faults>>

\* The sweep gives up a due row whose item is no longer in the feed.
SweepAbandons(w, i) ==
  /\ worker[w].pc = "next" /\ w \notin Flushers
  /\ RetryDue(rows[i])
  /\ rows' = [rows EXCEPT ![i] = AbandonRow(@)]
  /\ UNCHANGED <<recent, queue, echo, passed, lock, worker, faults>>

EndCheck(w) ==
  /\ worker[w].pc = "next" /\ w \notin Flushers
  /\ Becomes(w, Rest)
  /\ UNCHANGED <<rows, recent, queue, echo, passed, lock, faults>>

\* The claim; a limited echo then waits for its lock.
Claim(w) ==
  /\ worker[w].pc = "claim"
  /\ LET i == worker[w].item IN
     IF Claimable(rows[i])
     THEN /\ rows' = [rows EXCEPT ![i] = ClaimRow(@, w)]
          /\ Goto(w, IF worker[w].limit > 0 THEN "lock" ELSE "prepare")
          /\ UNCHANGED lock
     ELSE UNCHANGED rows /\ Done(w)
  /\ UNCHANGED <<recent, queue, echo, passed, faults>>

\* (slip: no lock)
EnterAnyway(w) ==
  /\ worker[w].pc = "lock"
  /\ Goto(w, "rate")
  /\ UNCHANGED <<rows, recent, queue, echo, passed, lock, faults>>

Enter(w) ==
  /\ worker[w].pc = "lock"
  /\ lock[Process[w]] = Null
  /\ lock' = [lock EXCEPT ![Process[w]] = w]
  /\ Goto(w, "rate")
  /\ UNCHANGED <<rows, recent, queue, echo, passed, faults>>

CheckRate(w) ==
  /\ worker[w].pc = "rate"
  /\ Goto(w, IF WindowFull(worker[w].limit) THEN "hold" ELSE "prepare")
  /\ UNCHANGED <<rows, recent, queue, echo, passed, lock, faults>>

\* _queue_for_drip: an item that finds the queue full is dropped ...
DropWhenFull(w) ==
  /\ worker[w].pc = "hold"
  /\ QueueFull
  /\ rows' = [rows EXCEPT ![worker[w].item] = FailRow(@, w, TRUE)]
  /\ Done(w)
  /\ UNCHANGED <<recent, queue, echo, passed, faults>>

\* ... any other one is stored, in two transactions: the payload, then the row.
FindRoom(w) ==
  /\ worker[w].pc = "hold"
  /\ ~ QueueFull
  /\ Goto(w, "insert")
  /\ UNCHANGED <<rows, recent, queue, echo, passed, lock, faults>>

\* (slip: the payload is not stored)
StoreNothing(w) ==
  /\ worker[w].pc = "insert"
  /\ Goto(w, "mark")
  /\ UNCHANGED <<rows, recent, queue, echo, passed, lock, faults>>

StorePayload(w) ==
  /\ worker[w].pc = "insert"
  /\ queue' = [queue EXCEPT ![worker[w].item] = IF @ = Null THEN NewEntry(0) ELSE @]
  /\ Goto(w, "mark")
  /\ UNCHANGED <<rows, recent, echo, passed, lock, faults>>

MarkQueued(w) ==
  /\ worker[w].pc = "mark"
  /\ rows' = [rows EXCEPT ![worker[w].item] = FinalizeRow(@, w, "queued")]
  /\ Done(w)
  /\ UNCHANGED <<recent, queue, echo, passed, faults>>

-----------------------------------------------------------------------------
(* _render_and_dispatch, for checks and for flushes.                       *)

PreparationFails(w) ==
  /\ worker[w].pc = "prepare"
  /\ \E permanent \in BOOLEAN :
       rows' = [rows EXCEPT ![worker[w].item] = FailRow(@, w, permanent)]
  /\ Dispatched(w)
  /\ UNCHANGED <<recent, queue, echo, passed, faults>>

\* The claim guard and, when it lets the worker through, the request.
GuardAndSend(w) ==
  /\ worker[w].pc = "prepare"
  /\ IF Owns(rows[worker[w].item], w) THEN Goto(w, "record") /\ UNCHANGED lock
                                      ELSE Dispatched(w)
  /\ UNCHANGED <<rows, recent, queue, echo, passed, faults>>

RecordSuccess(w) ==
  /\ worker[w].pc = "record"
  /\ LET i == worker[w].item IN
     /\ rows' = [rows EXCEPT ![i] = FinalizeRow(@, w, "success")]
     /\ recent' = IF Owns(rows[i], w) THEN [recent EXCEPT ![i] = WindowTicks] ELSE recent
  /\ Dispatched(w)
  /\ UNCHANGED <<queue, echo, passed, faults>>

RecordFailure(w) ==
  /\ worker[w].pc = "record"
  /\ \E permanent \in BOOLEAN :
       rows' = [rows EXCEPT ![worker[w].item] = FailRow(@, w, permanent)]
  /\ Dispatched(w)
  /\ UNCHANGED <<recent, queue, echo, passed, faults>>

-----------------------------------------------------------------------------
(* The flush job.                                                          *)

\* _flush_drips reads all entries, with the echo they belong to.
ReadQueue(f) ==
  /\ worker[f].pc = "idle" /\ f \in Flushers
  /\ Held # {}
  /\ Becomes(f, [Rest EXCEPT !.pc = "next", !.limit = echo.limit, !.open = echo.enabled,
                             !.batch = {<<i, queue[i].tries>> : i \in Held}])
  /\ queue' = [i \in Items |-> IF queue[i] = Null THEN Null
                               ELSE [queue[i] EXCEPT !.readers = @ \cup {f}]]
  /\ UNCHANGED <<rows, recent, echo, passed, lock, faults>>

\* The entries of a disabled (or deleted) echo are given up, all of them in one
\* transaction and without its lock.
DiscardBacklog(f) ==
  /\ worker[f].pc = "next" /\ ~ worker[f].open /\ worker[f].batch # {}
  /\ rows' = [i \in Items |-> DiscardRow(rows[i])]
  /\ queue' = [i \in Items |-> Null]
  /\ Becomes(f, [worker[f] EXCEPT !.batch = {}])
  /\ UNCHANGED <<recent, echo, passed, lock, faults>>

\* The next entry, under the echo's lock.
EnterFlush(f) ==
  /\ worker[f].pc = "next" /\ worker[f].open
  /\ lock[Process[f]] = Null
  /\ lock' = [lock EXCEPT ![Process[f]] = f]
  /\ \E d \in worker[f].batch :
       Becomes(f, [worker[f] EXCEPT !.pc = "window", !.item = d[1], !.tries = d[2],
                                    !.batch = @ \ {d}])
  /\ UNCHANGED <<rows, recent, queue, echo, passed, faults>>

\* No room in the window, or the batch of an echo without limit is used up.
CheckWindow(f) ==
  /\ worker[f].pc = "window"
  /\ LET limit == worker[f].limit IN
     IF (limit > 0 /\ WindowFull(limit)) \/ (limit = 0 /\ worker[f].released >= DowngradeBatch)
     THEN Done(f) ELSE Goto(f, "take") /\ UNCHANGED lock
  /\ UNCHANGED <<rows, recent, queue, echo, passed, faults>>

\* _reclaim_queued; the entry of a row that is queued no more is removed.
Take(f) ==
  /\ worker[f].pc = "take"
  /\ LET i == worker[f].item IN
     IF rows[i].status = "queued"
     THEN /\ rows' = [rows EXCEPT ![i] = TakeQueuedRow(@, f)]
          /\ Goto(f, "prepare")
          /\ UNCHANGED <<queue, lock>>
     ELSE queue' = Without(f, i) /\ Done(f) /\ UNCHANGED rows
  /\ UNCHANGED <<recent, echo, passed, faults>>

\* The sender has returned: the entry goes ...
DropEntry(f) ==
  /\ worker[f].pc = "drop"
  /\ queue' = Without(f, worker[f].item)
  /\ Goto(f, "judge")
  /\ UNCHANGED <<rows, recent, echo, passed, lock, faults>>

\* ... and a failed row is to go back to the queue.
Judge(f) ==
  /\ worker[f].pc = "judge"
  /\ IF rows[worker[f].item].status = "failed"
     THEN Goto(f, "requeue") /\ UNCHANGED lock
     ELSE /\ Leave(f)
          /\ Becomes(f, [worker[f] EXCEPT
                           !.pc = "next", !.item = Null, !.tries = 0,
                           !.released = IF @ < DowngradeBatch THEN @ + 1 ELSE @])
  /\ UNCHANGED <<rows, recent, queue, echo, passed, faults>>

\* _requeue_drip_failure
NextTry(f) == IF worker[f].tries < AttemptBound THEN worker[f].tries + 1 ELSE AttemptBound

LastTry(f) == MaxAttempts > 0 /\ NextTry(f) >= MaxAttempts

GiveUpRelease(f) ==
  /\ worker[f].pc = "requeue"
  /\ LastTry(f)
  /\ rows' = [rows EXCEPT ![worker[f].item] = DropRow(@)]
  /\ Done(f)
  /\ UNCHANGED <<recent, queue, echo, passed, faults>>

Requeue(f) ==
  /\ worker[f].pc = "requeue"
  /\ ~ LastTry(f)
  /\ LET i == worker[f].item IN
     /\ rows' = [rows EXCEPT ![i] = RequeueRow(@)]
     /\ queue' = IF rows[i].status = "failed" THEN Upserted(i, NextTry(f)) ELSE queue
  /\ Done(f)
  /\ UNCHANGED <<recent, echo, passed, faults>>

\* _requeue_drip_release_error, after an exception escaped the sender.
Recover(f) ==
  /\ worker[f].pc = "recover"
  /\ LET i == worker[f].item IN
     /\ rows' = [rows EXCEPT ![i] = ReturnRow(@, f)]
     /\ queue' = IF Owns(rows[i], f) THEN Upserted(i, worker[f].tries) ELSE queue
  /\ Done(f)
  /\ UNCHANGED <<recent, echo, passed, faults>>

Unread(q, fs) ==
  [i \in Items |-> IF q[i] = Null THEN Null ELSE [q[i] EXCEPT !.readers = @ \ fs]]

EndFlush(f) ==
  /\ worker[f].pc = "next" /\ f \in Flushers /\ worker[f].batch = {}
  /\ Becomes(f, Rest)
  /\ queue' = Unread(queue, {f})
  /\ UNCHANGED <<rows, recent, echo, passed, lock, faults>>

-----------------------------------------------------------------------------
(* Faults, the feed cursor, the operator and the clock.                    *)

\* An exception releases the lock.  Out of a sender during a release Recover
\* answers it, elsewhere in a flush it ends the work on the entry, in a check it
\* ends the check.
Escape(w) ==
  /\ worker[w].pc \notin {"idle", "next"}
  /\ faults < MaxFaults
  /\ faults' = faults + 1
  /\ IF w \in Flushers /\ worker[w].pc \in {"prepare", "record"}
     THEN Goto(w, "recover") /\ UNCHANGED lock
     ELSE Leave(w) /\ Becomes(w, IF w \in Flushers
                                THEN [worker[w] EXCEPT !.pc = "next", !.item = Null, !.tries = 0]
                                ELSE Rest)
  /\ UNCHANGED <<rows, recent, queue, echo, passed>>

\* A process dies with all its workers and its lock.
Crash(p) ==
  /\ faults < MaxFaults
  /\ \E w \in Workers : Process[w] = p /\ worker[w].pc # "idle"
  /\ faults' = faults + 1
  /\ worker' = [w \in Workers |-> IF Process[w] = p THEN Rest ELSE worker[w]]
  /\ lock' = [lock EXCEPT ![p] = Null]
  /\ queue' = Unread(queue, {f \in Flushers : Process[f] = p})
  /\ UNCHANGED <<rows, recent, echo, passed>>

\* The feed cursor moves past an item that is handled.
MovePast(i) ==
  /\ i \notin passed /\ rows[i].status \in Handled
  /\ passed' = passed \cup {i}
  /\ UNCHANGED <<rows, recent, queue, echo, lock, worker, faults>>

ToggleEcho ==
  /\ "toggle" \in Routes
  /\ echo' = [echo EXCEPT !.enabled = ~ @]
  /\ UNCHANGED <<rows, recent, queue, passed, lock, worker, faults>>

\* edit_echo removes or restores the limit.
EditLimit ==
  /\ "limit" \in Routes
  /\ echo' = [echo EXCEPT !.limit = DripLimit - @]
  /\ UNCHANGED <<rows, recent, queue, passed, lock, worker, faults>>

RetryPost(i) ==
  /\ "retry" \in Routes
  /\ rows[i].status \in {"failed", "gave_up"}
  /\ rows' = [rows EXCEPT ![i] = RetryRow(@)]
  /\ UNCHANGED <<recent, queue, echo, passed, lock, worker, faults>>

GiveUpPost(i) ==
  /\ "give_up" \in Routes
  /\ rows[i].status = "failed"
  /\ rows' = [rows EXCEPT ![i] = GiveUpRow(@)]
  /\ UNCHANGED <<recent, queue, echo, passed, lock, worker, faults>>

Tick ==
  /\ rows' = [i \in Items |-> AgeRow(rows[i])]
  /\ recent' = [i \in Items |-> CountDown(recent[i])]
  /\ UNCHANGED <<queue, echo, passed, lock, worker, faults>>

-----------------------------------------------------------------------------
Check(w) ==
  \/ StartCheck(w) \/ EndCheck(w) \/ Claim(w) \/ Enter(w) \/ CheckRate(w) \/ DropWhenFull(w) \/ FindRoom(w)
  \/ StorePayload(w) \/ MarkQueued(w)

Dispatch(w) ==
  PreparationFails(w) \/ GuardAndSend(w) \/ RecordSuccess(w) \/ RecordFailure(w)

Flush(f) ==
  \/ ReadQueue(f) \/ DiscardBacklog(f) \/ EnterFlush(f) \/ CheckWindow(f) \/ Take(f)
  \/ DropEntry(f) \/ Judge(f) \/ GiveUpRelease(f) \/ Requeue(f) \/ Recover(f) \/ EndFlush(f)

Next ==
  \/ \E w \in Workers : \/ Check(w) \/ Dispatch(w) \/ Flush(w) \/ Escape(w)
                        \/ \E i \in Items : NextItem(w, i) \/ SweepAbandons(w, i)
  \/ \E p \in Processes : Crash(p)
  \/ \E i \in Items : MovePast(i) \/ RetryPost(i) \/ GiveUpPost(i)
  \/ ToggleEcho \/ EditLimit \/ Tick

Spec == Init /\ [][Next]_vars

-----------------------------------------------------------------------------
(* Safety.                                                                 *)

\* "Concurrent workers cannot both see an open window and exceed the hourly
\* cap": at most DripLimit posts of the last 60 minutes, as long as the limit
\* stays what it is.
HourlyCap == Cardinality(InWindow) <= DripLimit

\* The queue is bounded, although failed releases return to it without a look
\* at its size.
QueueWithinCap == Cardinality(Held) <= QueueCap

\* A held item is never lost: a queued row, which every later check takes for
\* handled, has the payload it is to be released from.
HeldItemsHavePayload ==
  \A i \in Items : rows[i].status = "queued" => queue[i] # Null

\* A delivered item stays delivered: no late release, retry or discard reopens or
\* rewrites its row (with MaxAttempts = 0: the give-up at the limit of attempts is
\* not fenced).
DeliveredForGood ==
  [][\A i \in Items : rows[i].status = "success" => rows'[i].status = "success"]_vars

-----------------------------------------------------------------------------
(* Liveness.  Jobs run every few minutes and go on to their end; a thread   *)
(* that waits for the lock gets it in the end, and a check of a feed that   *)
(* keeps listing an item reaches it; time passes.                           *)

Fairness ==
  /\ WF_vars(Tick)
  /\ \A w \in Workers : /\ WF_vars(Check(w)) /\ WF_vars(Dispatch(w)) /\ WF_vars(Flush(w))
                        /\ SF_vars(Enter(w)) /\ SF_vars(EnterFlush(w))
                        /\ \A i \in Items : SF_vars(NextItem(w, i))

FairSpec == Spec /\ Fairness

\* A held item is released (or discarded), also when releases fail, the limit
\* is removed or the process dies.
HeldItemsAreReleased ==
  \A i \in Items : rows[i].status = "queued" ~> rows[i].status # "queued"

=============================================================================
