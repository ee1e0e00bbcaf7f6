---------------------------- MODULE CurationQueue ----------------------------
(***************************************************************************)
(* The curation queue of one destination (src/scheduler.py, src/app.py):   *)
(* feed checks of an echo in queue or review mode and the compose desk put *)
(* posts into queued_posts, the flush job sends the ones that are due, and *)
(* the owner posts now, edits, reorders, cancels or retries them.          *)
(*                                                                         *)
(* Every transaction that writes first is one step.  A route that reads a  *)
(* row and then writes it is two: neither database locks a row that is     *)
(* only read.  The lease of the flush job is left out, as in DripQueue:    *)
(* it may lapse, so that two flushes can run at once.                      *)
(***************************************************************************)
EXTENDS PostedItems, FiniteSets

CONSTANTS
  Items,
  Posts,       \* rows of queued_posts that may come into being
  Checks,      \* workers that check the feed
  Flushers,    \* workers that run flush_queue
  Requests,    \* requests of the owner; the rest of Workers
  Mode,        \* the echo's delivery mode, "queue" or "review"
  SendTicks,   \* the 15 minutes after which a post in sending is reclaimed
  SlotTicks,   \* queue_interval_minutes, and the wait before another try
  LastSlot,    \* the latest slot (bound of the model)
  PlanCap,     \* the plan's limit of waiting posts; 0 is none
  MaxEchoes,   \* one-shot echoes a post goes through (bound of the model)
  MaxPresses,  \* requests of the owner (bound of the model)
  MaxFaults    \* crashes, exceptions, refusals by the hourly cap (bound)

ASSUME QueueWorkerAssumption ==
  /\ Workers = Checks \cup Flushers \cup Requests
  /\ Checks \cap (Flushers \cup Requests) = {}
  /\ Flushers \cap Requests = {}
  /\ Null \notin Items \cup Posts
ASSUME QueueBoundAssumption ==
  /\ {SendTicks, SlotTicks, LastSlot, MaxEchoes} \subseteq Nat \ {0}
  /\ SlotTicks <= LastSlot
  /\ {PlanCap, MaxPresses, MaxFaults} \subseteq Nat
  /\ Mode \in {"queue", "review"}
  /\ IsFiniteSet(Posts)

VARIABLES
  source,   \* posted_items under the echo itself, per item
  posts,    \* queued_posts
  rows,     \* posted_items under the one-shot echo of each post
  live,     \* the feed is not deleted
  worker,   \* program counter and locals of each worker
  presses,  \* requests so far
  faults,   \* faults so far
  appeared, \* how often each post appeared at the destination (history)
  doubt,    \* posts one of whose appearances is not on record (history)
  approved  \* drafts the owner released with "post now" (history)

vars == <<source, posts, rows, live, worker, presses, faults, appeared, doubt, approved>>
history == <<appeared, doubt, approved>>

MaxTries == 3  \* dispatches of a post before it is left as failed

PostStatuses == {"none", "draft", "queued", "sending", "sent", "failed", "cancelled"}

\* `gen' tells the one-shot echoes of a post apart (echo_id) and `echo' says whether
\* the last of them exists; an echo another worker has replaced counts as gone.
\* `readers' are the workers that hold the id of the post's posted_items row.
Post == [status  : PostStatuses,
         item    : Items \cup {Null},
         draft   : BOOLEAN,                 \* it began as a draft
         token   : Workers \cup {Null},     \* claim_token
         left    : 0..SendTicks,            \* ticks before a claim lapses
         at      : 0..LastSlot,             \* ticks until scheduled_at
         tries   : 0..MaxTries,             \* attempt_count
         gen     : 0..MaxEchoes,
         echo    : BOOLEAN,
         readers : SUBSET Workers]

NoPost == [status |-> "none", item |-> Null, draft |-> FALSE, token |-> Null, left |-> 0,
           at |-> 0, tries |-> 0, gen |-> 0, echo |-> FALSE, readers |-> {}]

Steps == {"idle", "room", "insert", "mark",              \* a feed check
          "check", "refuse", "claim", "prepare", "send", "record", "judge", "settle",
          "raised",                                      \* a dispatch
          "cancel", "retry", "compose"}                  \* the second half of a route

Worker == [pc      : Steps,
           item    : Items \cup {Null},
           post    : Posts \cup {Null},
           gen     : 0..MaxEchoes,
           tries   : 0..MaxTries,
           verdict : {"sent", "failed"},
           late    : BOOLEAN]   \* the feed was gone when the post was claimed

Rest == [pc |-> "idle", item |-> Null, post |-> Null, gen |-> 0, tries |-> 0,
         verdict |-> "failed", late |-> FALSE]

TypeOK ==
  /\ source \in [Items -> Row]
  /\ posts \in [Posts -> Post]
  /\ rows \in [Posts -> Row]
  /\ live \in BOOLEAN
  /\ worker \in [Workers -> Worker]
  /\ presses \in 0..MaxPresses
  /\ faults \in 0..MaxFaults
  /\ appeared \in [Posts -> 0..2]
  /\ doubt \subseteq Posts
  /\ approved \subseteq Posts

Init ==
  /\ source = [i \in Items |-> Absent]
  /\ posts = [p \in Posts |-> NoPost]
  /\ rows = [p \in Posts |-> Absent]
  /\ live = TRUE
  /\ worker = [w \in Workers |-> Rest]
  /\ presses = 0
  /\ faults = 0
  /\ appeared = [p \in Posts |-> 0]
  /\ doubt = {}
  /\ approved = {}

-----------------------------------------------------------------------------
Becomes(w, j) == worker' = [worker EXCEPT ![w] = j]
Goto(w, step) == Becomes(w, [worker[w] EXCEPT !.pc = step])

With(status) == {p \in Posts : posts[p].status \in status}

\* plans.check_queue_allowance: one more post would exceed the plan.
NoRoom(waiting) == PlanCap > 0 /\ Cardinality(waiting) + 1 > PlanCap

\* next_free_slot: after the last post that waits, within the model's horizon.
NextSlot ==
  LET taken == {posts[p].at : p \in With({"queued", "sending"})}
      last  == CHOOSE t \in taken \cup {0} : \A u \in taken : u <= t
  IN IF last + SlotTicks <= LastSlot THEN last + SlotTicks ELSE LastSlot

NewPost(i, status, slot) ==
  [NoPost EXCEPT !.status = status, !.item = i, !.draft = (status = "draft"),
                 !.at = slot, !.gen = 1, !.echo = TRUE]

\* The post's own echo still is the one worker w dispatches under.
SameEcho(w) ==
  LET q == posts[worker[w].post] IN q.echo /\ q.gen = worker[w].gen

\* The posted_items row w sees under its echo.
SeenRow(w) == IF SameEcho(w) THEN rows[worker[w].post] ELSE Absent

\* The posted_items row w works on still is there and still is its own.
RowIsMine(w) == SameEcho(w) /\ Owns(rows[worker[w].post], w)

\* UPDATE queued_posts ... WHERE id = ? AND claim_token = ?
Fenced(w, p, new) == IF posts[p].token = w THEN [posts EXCEPT ![p] = new] ELSE posts

-----------------------------------------------------------------------------
(* A feed check: process_echo for an echo in queue or review mode.         *)

ClaimSource(w, i) ==
  /\ w \in Checks /\ worker[w].pc = "idle"
  /\ live
  /\ Claimable(source[i])
  /\ source' = [source EXCEPT ![i] = ClaimRow(@, w)]
  /\ Becomes(w, [Rest EXCEPT !.pc = "room", !.item = i])
  /\ UNCHANGED <<posts, rows, live, presses, faults, history>>

\* _enqueue_for_queue_mode: the plan has no room, or the template fails ...
RefuseItem(w) ==
  /\ worker[w].pc = "room"
  /\ \/ NoRoom(With({"queued", "sending", "draft"}))
     \/ faults < MaxFaults
  /\ faults' = IF NoRoom(With({"queued", "sending", "draft"})) THEN faults ELSE faults + 1
  /\ LET i == worker[w].item IN source' = [source EXCEPT ![i] = FailRow(@, w, FALSE)]
  /\ Becomes(w, Rest)
  /\ UNCHANGED <<posts, rows, live, presses, history>>

\* (slip: the item is marked before its post is stored)
MarkFirst(w) ==
  /\ worker[w].pc = "room"
  /\ ~ NoRoom(With({"queued", "sending", "draft"}))
  /\ LET i == worker[w].item IN source' = [source EXCEPT ![i] = FinalizeRow(@, w, "queued")]
  /\ Goto(w, "insert")
  /\ UNCHANGED <<posts, rows, live, presses, faults, history>>

FindRoom(w) ==
  /\ worker[w].pc = "room"
  /\ ~ NoRoom(With({"queued", "sending", "draft"}))
  /\ Goto(w, "insert")
  /\ UNCHANGED <<source, posts, rows, live, presses, faults, history>>

\* ... the post and its one-shot echo, in one transaction ...
InsertPost(w, p) ==
  /\ worker[w].pc = "insert"
  /\ posts[p].status = "none"
  /\ posts' = [posts EXCEPT ![p] =
       IF Mode = "review" THEN NewPost(worker[w].item, "draft", 0)
                          ELSE NewPost(worker[w].item, "queued", NextSlot)]
  /\ Goto(w, "mark")
  /\ UNCHANGED <<source, rows, live, presses, faults, history>>

\* ... and the item's own row, in another: the cursor may pass it.
MarkSource(w) ==
  /\ worker[w].pc = "mark"
  /\ LET i == worker[w].item IN source' = [source EXCEPT ![i] = FinalizeRow(@, w, "queued")]
  /\ Becomes(w, Rest)
  /\ UNCHANGED <<posts, rows, live, presses, faults, history>>

-----------------------------------------------------------------------------
(* A run of the flush job.                                                 *)

\* (slip: only the token is taken away)
ReclaimToken ==
  /\ \E p \in With({"sending"}) : posts[p].left = 0 /\ posts[p].token # Null
  /\ posts' = [p \in Posts |->
       IF posts[p].status = "sending" /\ posts[p].left = 0
       THEN [posts[p] EXCEPT !.token = Null] ELSE posts[p]]
  /\ UNCHANGED <<source, rows, live, worker, presses, faults, history>>

\* Posts whose claim is 15 minutes old are put back.
ReclaimLapsed ==
  /\ \E p \in With({"sending"}) : posts[p].left = 0
  /\ posts' = [p \in Posts |->
       IF posts[p].status = "sending" /\ posts[p].left = 0
       THEN [posts[p] EXCEPT !.status = "queued", !.token = Null] ELSE posts[p]]
  /\ UNCHANGED <<source, rows, live, worker, presses, faults, history>>

Claimed(w, p) ==
  [posts EXCEPT ![p].status = "sending", ![p].token = w, ![p].left = SendTicks]

\* (slip: a draft that is due is taken like a queued post)
ClaimAnyDue(w, p) ==
  /\ w \in Flushers /\ worker[w].pc = "idle"
  /\ posts[p].status \in {"queued", "draft"} /\ posts[p].at = 0
  /\ posts' = Claimed(w, p)
  /\ Becomes(w, [Rest EXCEPT !.pc = "check", !.post = p, !.gen = posts[p].gen,
                             !.tries = posts[p].tries, !.late = ~ live])
  /\ UNCHANGED <<source, rows, live, presses, faults, history>>

\* A due post is claimed, unless another flush or the owner was faster.
ClaimDue(w, p) ==
  /\ w \in Flushers /\ worker[w].pc = "idle"
  /\ posts[p].status = "queued" /\ posts[p].at = 0
  /\ posts' = Claimed(w, p)
  /\ Becomes(w, [Rest EXCEPT !.pc = "check", !.post = p, !.gen = posts[p].gen,
                             !.tries = posts[p].tries, !.late = ~ live])
  /\ UNCHANGED <<source, rows, live, presses, faults, history>>

\* The hourly cap of the account is reached: the post waits, unless its feed was gone
\* when it was claimed.
OverHourlyCap(w) ==
  /\ w \in Flushers /\ worker[w].pc = "check" /\ ~ worker[w].late
  /\ faults < MaxFaults /\ faults' = faults + 1
  /\ LET p == worker[w].post IN
     posts' = Fenced(w, p, [posts[p] EXCEPT !.status = "queued", !.token = Null])
  /\ Becomes(w, Rest)
  /\ UNCHANGED <<source, rows, live, presses, history>>

\* The post with a one-shot echo: a new one, if the one it names is gone.
NeedsEcho(p, gen) == ~ posts[p].echo \/ posts[p].gen # gen
\* (slip: every dispatch makes an echo of its own)
WithOwnEcho(p, gen) ==
  [posts[p] EXCEPT !.gen = @ + 1, !.echo = TRUE, !.readers = {}]

WithEcho(p, gen) ==
  IF NeedsEcho(p, gen)
  THEN [posts[p] EXCEPT !.gen = @ + 1, !.echo = TRUE, !.readers = {}] ELSE posts[p]

LookUp(w, next) ==
  /\ w \in Flushers /\ worker[w].pc = "check"
  /\ LET p == worker[w].post
         g == worker[w].gen IN
     /\ NeedsEcho(p, g) => posts[p].gen < MaxEchoes
     /\ posts' = [posts EXCEPT ![p] = WithEcho(p, g)]
     /\ rows' = [rows EXCEPT ![p] = IF NeedsEcho(p, g) THEN Absent ELSE @]
     /\ doubt' = IF NeedsEcho(p, g) /\ rows[p].status = "success"
                 THEN doubt \cup {p} ELSE doubt
     /\ Becomes(w, [worker[w] EXCEPT !.gen = WithEcho(p, g).gen, !.pc = next])
  /\ UNCHANGED <<source, live, presses, faults, appeared, approved>>

\* (slip: the feed is not looked at again)
CheckEcho(w) == LookUp(w, "claim")

\* Echo and feed are looked up again before the dispatch.
CheckFeed(w) == LookUp(w, IF live THEN "claim" ELSE "refuse")

\* `Feed deleted'; this update looks at the status and not at the token.
RefusePost(w) ==
  /\ worker[w].pc = "refuse"
  /\ LET p == worker[w].post IN
     posts' = IF posts[p].status = "sending"
              THEN [posts EXCEPT ![p].status = "failed"] ELSE posts
  /\ Becomes(w, Rest)
  /\ UNCHANGED <<source, rows, live, presses, faults, history>>

-----------------------------------------------------------------------------
(* process_echo under the one-shot echo, and what its caller makes of it.  *)

\* (slip: the row is claimed whatever an earlier dispatch left in it)
ClaimAnyRow(w) ==
  /\ worker[w].pc = "claim"
  /\ LET p == worker[w].post IN
     IF ~ SameEcho(w) THEN Goto(w, "raised") /\ UNCHANGED rows
     ELSE rows' = [rows EXCEPT ![p] = ClaimRow(@, w)] /\ Goto(w, "prepare")
  /\ UNCHANGED <<source, posts, live, presses, faults, history>>

\* An echo that is gone makes the claim raise (its row cannot be inserted).
ClaimForSend(w) ==
  /\ worker[w].pc = "claim"
  /\ LET p == worker[w].post IN
     IF ~ SameEcho(w) THEN Goto(w, "raised") /\ UNCHANGED <<rows, posts>>
     ELSE IF Claimable(rows[p])
     THEN rows' = [rows EXCEPT ![p] = ClaimRow(@, w)] /\ Goto(w, "prepare") /\ UNCHANGED posts
     ELSE Goto(w, "judge") /\ UNCHANGED <<rows, posts>>
  /\ UNCHANGED <<source, live, presses, faults, history>>

\* Rendering, the destination or its credentials fail before anything is sent.
PreparationFails(w) ==
  /\ worker[w].pc = "prepare"
  /\ faults < MaxFaults /\ faults' = faults + 1
  /\ LET p == worker[w].post IN
     rows' = [rows EXCEPT ![p] = IF SameEcho(w) THEN FailRow(@, w, FALSE) ELSE @]
  /\ Goto(w, "judge")
  /\ UNCHANGED <<source, posts, live, presses, history>>

\* _guard_claim, right before the request that cannot be taken back.
GuardClaim(w) ==
  /\ worker[w].pc = "prepare"
  /\ Goto(w, IF RowIsMine(w) THEN "send" ELSE "judge")
  /\ UNCHANGED <<source, posts, rows, live, presses, faults, history>>

\* The post appears; its answer may be lost.
Send(w) ==
  /\ worker[w].pc = "send"
  /\ LET p == worker[w].post IN
     /\ appeared' = [appeared EXCEPT ![p] = IF @ < 2 THEN @ + 1 ELSE @]
     /\ \/ Goto(w, "record") /\ UNCHANGED <<doubt, faults, rows>>
        \/ /\ faults < MaxFaults /\ faults' = faults + 1
           /\ doubt' = doubt \cup {p}
           /\ rows' = [rows EXCEPT ![p] = IF SameEcho(w) THEN FailRow(@, w, FALSE) ELSE @]
           /\ Goto(w, "judge")
  /\ UNCHANGED <<source, posts, live, presses, approved>>

\* The destination refuses the post.
SendFails(w) ==
  /\ worker[w].pc = "send"
  /\ faults < MaxFaults /\ faults' = faults + 1
  /\ LET p == worker[w].post IN
     rows' = [rows EXCEPT ![p] = IF SameEcho(w) THEN FailRow(@, w, FALSE) ELSE @]
  /\ Goto(w, "judge")
  /\ UNCHANGED <<source, posts, live, presses, history>>

\* _finalize_success; a claim that is lost by now leaves the appearance unrecorded.
RecordSuccess(w) ==
  /\ worker[w].pc = "record"
  /\ LET p == worker[w].post IN
     /\ doubt' = IF RowIsMine(w) THEN doubt ELSE doubt \cup {p}
     /\ rows' = [rows EXCEPT ![p] = IF SameEcho(w) THEN FinalizeRow(@, w, "success") ELSE @]
  /\ Goto(w, "judge")
  /\ UNCHANGED <<source, posts, live, presses, faults, appeared, approved>>

\* (slip: whatever happened to the row, a dispatch that returned was sent)
JudgeByReturn(w) ==
  /\ worker[w].pc = "judge"
  /\ Becomes(w, [worker[w] EXCEPT !.pc = "settle", !.verdict = "sent"])
  /\ UNCHANGED <<source, posts, rows, live, presses, faults, history>>

\* The caller reads the row the dispatch left behind ...
Judge(w) ==
  /\ worker[w].pc = "judge"
  /\ LET p == worker[w].post IN
     /\ Becomes(w, [worker[w] EXCEPT !.pc = "settle",
                      !.verdict = IF SeenRow(w).status = "success" THEN "sent" ELSE "failed"])
     /\ posts' = IF SeenRow(w) = Absent THEN posts
                 ELSE [posts EXCEPT ![p].readers = @ \cup {w}]
  /\ UNCHANGED <<source, rows, live, presses, faults, history>>

\* A failed dispatch is tried again later or, for the last time, left as failed.
Again(w, p) ==
  IF worker[w].tries + 1 < MaxTries
  THEN [posts[p] EXCEPT !.status = "queued", !.token = Null, !.left = 0,
                        !.at = SlotTicks, !.tries = worker[w].tries + 1]
  ELSE [posts[p] EXCEPT !.status = "failed", !.tries = worker[w].tries + 1]

Finished(p, status) ==
  [posts[p] EXCEPT !.status = status, !.tries = IF @ < MaxTries THEN @ + 1 ELSE @]

\* ... and settles the post.  A flush that will try again deletes the row it
\* read by its id, whatever has become of it.
SettleFlush(w) ==
  /\ w \in Flushers /\ worker[w].pc = "settle"
  /\ LET p       == worker[w].post
         again   == worker[w].verdict = "failed" /\ worker[w].tries + 1 < MaxTries
         deletes == again /\ w \in posts[p].readers
         new     == IF worker[w].verdict = "sent" THEN Finished(p, "sent") ELSE Again(w, p) IN
     /\ rows' = [rows EXCEPT ![p] = IF deletes THEN Absent ELSE @]
     /\ posts' = [Fenced(w, p, new) EXCEPT ![p].readers = IF deletes THEN {} ELSE @ \ {w}]
     /\ doubt' = IF deletes /\ rows[p].status = "success" THEN doubt \cup {p} ELSE doubt
  /\ Becomes(w, Rest)
  /\ UNCHANGED <<source, live, presses, faults, appeared, approved>>

SettleRequest(w) ==
  /\ w \in Requests /\ worker[w].pc = "settle"
  /\ LET p == worker[w].post IN
     posts' = [Fenced(w, p, Finished(p, worker[w].verdict)) EXCEPT ![p].readers = @ \ {w}]
  /\ Becomes(w, Rest)
  /\ UNCHANGED <<source, rows, live, presses, faults, history>>

\* The dispatch raised: the row, if there is one, is left as it is.
SettleRaised(w) ==
  /\ worker[w].pc = "raised"
  /\ LET p == worker[w].post IN
     posts' = Fenced(w, p, IF w \in Flushers THEN Again(w, p) ELSE Finished(p, "failed"))
  /\ Becomes(w, Rest)
  /\ UNCHANGED <<source, rows, live, presses, faults, history>>

-----------------------------------------------------------------------------
(* The owner.                                                              *)

Press(w) ==
  /\ w \in Requests /\ worker[w].pc = "idle"
  /\ presses < MaxPresses /\ presses' = presses + 1

\* queue_post_now: claims a waiting post or a draft; neither slot, plan nor feed
\* is looked at.  (The echo it makes in place of one that is gone is not stored in the
\* post; the model stores it.  Only a cancel that overlaps a dispatch takes an echo away.)
PostNow(w, p) ==
  /\ Press(w)
  /\ posts[p].status \in {"queued", "draft"}
  /\ LET q == WithEcho(p, posts[p].gen) IN
     /\ ~ posts[p].echo => posts[p].gen < MaxEchoes
     /\ posts' = [posts EXCEPT ![p] = [q EXCEPT !.status = "sending", !.token = w,
                                                !.left = SendTicks]]
     /\ rows' = [rows EXCEPT ![p] = IF posts[p].echo THEN @ ELSE Absent]
     /\ Becomes(w, [Rest EXCEPT !.pc = "claim", !.post = p, !.gen = q.gen,
                                !.tries = q.tries, !.late = ~ live])
  /\ approved' = approved \cup {p}
  /\ UNCHANGED <<source, live, faults, appeared, doubt>>

\* queue_cancel: the status is read ...
Cancel(w, p) ==
  /\ Press(w)
  /\ posts[p].status \in {"queued", "failed", "draft"}
  /\ Becomes(w, [Rest EXCEPT !.pc = "cancel", !.post = p, !.gen = posts[p].gen])
  /\ UNCHANGED <<source, posts, rows, live, faults, history>>

\* ... and rows, echo and post are written, whatever the status is by now.
CancelPost(w) ==
  /\ worker[w].pc = "cancel"
  /\ LET p == worker[w].post IN
     /\ posts' = [posts EXCEPT ![p] =
          IF SameEcho(w) THEN [@ EXCEPT !.status = "cancelled", !.echo = FALSE, !.readers = {}]
          ELSE [@ EXCEPT !.status = "cancelled"]]
     /\ rows' = [rows EXCEPT ![p] = IF SameEcho(w) THEN Absent ELSE @]
     /\ doubt' = IF posts[p].status \in {"sending", "sent"} \/ SeenRow(w).status = "success"
                 THEN doubt \cup {p} ELSE doubt
  /\ Becomes(w, Rest)
  /\ UNCHANGED <<source, live, presses, faults, appeared, approved>>

\* queue_retry: reads a failed post ...
Retry(w, p) ==
  /\ Press(w)
  /\ posts[p].status = "failed"
  /\ Becomes(w, [Rest EXCEPT !.pc = "retry", !.post = p, !.gen = posts[p].gen])
  /\ UNCHANGED <<source, posts, rows, live, faults, history>>

\* ... and puts it back, with a row that can be claimed afresh.
RetryPost(w) ==
  /\ worker[w].pc = "retry"
  /\ LET p == worker[w].post IN
     /\ posts' = [posts EXCEPT ![p] =
          [posts[p] EXCEPT !.status = "queued", !.tries = 0,
                           !.readers = IF SameEcho(w) THEN {} ELSE @]]
     /\ rows' = [rows EXCEPT ![p] = IF SameEcho(w) THEN Absent ELSE @]
     /\ doubt' = IF posts[p].status # "failed" \/ SeenRow(w).status = "success"
                 THEN doubt \cup {p} ELSE doubt
  /\ Becomes(w, Rest)
  /\ UNCHANGED <<source, live, presses, faults, appeared, approved>>

\* reader_compose: the plan is checked (drafts are not counted here) ...
Compose(w, i) ==
  /\ Press(w)
  /\ live
  /\ ~ NoRoom(With({"queued", "sending"}))
  /\ Becomes(w, [Rest EXCEPT !.pc = "compose", !.item = i])
  /\ UNCHANGED <<source, posts, rows, live, faults, history>>

\* ... and the post stored; the feed is not looked at again.
ComposePost(w, p) ==
  /\ worker[w].pc = "compose"
  /\ posts[p].status = "none"
  /\ posts' = [posts EXCEPT ![p] = NewPost(worker[w].item, "queued", NextSlot)]
  /\ Becomes(w, Rest)
  /\ UNCHANGED <<source, rows, live, presses, faults, history>>

\* queue_edit: the update repeats the status of the check.
EditPost(p) ==
  /\ presses < MaxPresses /\ presses' = presses + 1
  /\ posts[p].status \in {"queued", "draft"}
  /\ \E slot \in 0..LastSlot : posts' = [posts EXCEPT ![p].at = slot]
  /\ UNCHANGED <<source, rows, live, worker, faults, history>>

\* queue_reorder: two waiting posts swap their slots.
Reorder(p, q) ==
  /\ presses < MaxPresses /\ presses' = presses + 1
  /\ {p, q} \subseteq With({"queued"})
  /\ posts[p].at < posts[q].at
  /\ \A r \in With({"queued"}) : posts[r].at <= posts[p].at \/ posts[r].at >= posts[q].at
  /\ posts' = [posts EXCEPT ![p].at = posts[q].at, ![q].at = posts[p].at]
  /\ UNCHANGED <<source, rows, live, worker, faults, history>>

\* delete_feed: what waits is finalized, what is being sent is left to its worker.
DeleteFeed ==
  /\ presses < MaxPresses /\ presses' = presses + 1
  /\ live /\ live' = FALSE
  /\ posts' = [p \in Posts |->
       IF posts[p].status \in {"queued", "draft"}
       THEN [posts[p] EXCEPT !.status = "failed"] ELSE posts[p]]
  /\ UNCHANGED <<source, rows, worker, faults, history>>

-----------------------------------------------------------------------------
\* The process dies, or an exception leaves the dispatch; what it sent last is lost.
Escape(w) ==
  /\ worker[w].pc # "idle"
  /\ faults < MaxFaults /\ faults' = faults + 1
  /\ doubt' = IF worker[w].pc = "record" THEN doubt \cup {worker[w].post} ELSE doubt
  /\ \/ /\ posts' = [p \in Posts |-> [posts[p] EXCEPT !.readers = @ \ {w}]]
        /\ Becomes(w, Rest)
     \/ /\ worker[w].pc \in {"prepare", "send", "record"}
        /\ Goto(w, "raised") /\ UNCHANGED posts
  /\ UNCHANGED <<source, rows, live, presses, appeared, approved>>

Tick ==
  /\ \/ \E p \in Posts : posts[p].left > 0 \/ posts[p].at > 0 \/ rows[p] # AgeRow(rows[p])
     \/ \E i \in Items : source[i] # AgeRow(source[i])
  /\ posts' = [p \in Posts |-> [posts[p] EXCEPT !.left = CountDown(@), !.at = CountDown(@)]]
  /\ rows' = [p \in Posts |-> AgeRow(rows[p])]
  /\ source' = [i \in Items |-> AgeRow(source[i])]
  /\ UNCHANGED <<live, worker, presses, faults, history>>

Check(w) == \/ \E i \in Items : ClaimSource(w, i)
            \/ RefuseItem(w) \/ FindRoom(w)
            \/ \E p \in Posts : InsertPost(w, p)
            \/ MarkSource(w)

Dispatch(w) == \/ ClaimForSend(w) \/ PreparationFails(w) \/ GuardClaim(w)
               \/ Send(w) \/ SendFails(w) \/ RecordSuccess(w) \/ Judge(w)
               \/ SettleFlush(w) \/ SettleRequest(w) \/ SettleRaised(w)

Flush(w) == \/ \E p \in Posts : ClaimDue(w, p)
            \/ OverHourlyCap(w) \/ CheckFeed(w) \/ RefusePost(w)

Route(w) == \/ \E p \in Posts : PostNow(w, p) \/ Cancel(w, p) \/ Retry(w, p) \/ ComposePost(w, p)
            \/ \E i \in Items : Compose(w, i)
            \/ CancelPost(w) \/ RetryPost(w)

Edit == \/ \E p \in Posts : EditPost(p)
        \/ \E p, q \in Posts : Reorder(p, q)

Act == \/ \E w \in Workers : Check(w) \/ Flush(w) \/ Dispatch(w) \/ Route(w) \/ Escape(w)
       \/ ReclaimLapsed \/ Edit \/ DeleteFeed

Next == Act \/ Tick

Spec == Init /\ [][Next]_vars

\* A dispatch, or a request, ends within the 15 minutes of its claim, unless its process dies.
InTime ==
  \A p \in With({"sending"}) :
    posts[p].left = 1 => \A w \in Workers : worker[w].post # p

\* The scheduler runs the flush job every five minutes and time passes; a dispatch
\* that has begun goes on.  Nobody owes a press or a fault.
FairSpec ==
  /\ Init /\ [][Act \/ (InTime /\ Tick)]_vars
  /\ WF_vars(ReclaimLapsed) /\ WF_vars(InTime /\ Tick)
  /\ \A w \in Workers : WF_vars(Dispatch(w) \/ RefusePost(w) \/ CheckFeed(w)
                                    \/ CancelPost(w) \/ RetryPost(w))
  /\ \A w \in Flushers : WF_vars(Flush(w))

-----------------------------------------------------------------------------
\* A post the queue page reports as sent has appeared.
SentWasPublished == \A p \in Posts : posts[p].status = "sent" => appeared[p] > 0

\* A post appears twice only if one of its appearances was not recorded, or will not
\* be because the claim is gone; or if the row of a success was lost: deleted by a
\* flush that judged it while another dispatch was under way, or by a cancel or a
\* retry pressed on a page that was out of date, or left under an echo that a flush
\* replaces because the one it read when it claimed the post is gone.
Unrecordable(p) ==
  \E w \in Workers : worker[w].post = p /\ worker[w].pc = "record" /\ ~ RowIsMine(w)
NoUnexplainedDuplicate ==
  \A p \in Posts : appeared[p] > 1 => p \in doubt \/ Unrecordable(p)

\* What an echo in review mode found is published only after its owner said so.
DraftsWaitForOwner ==
  \A p \in Posts : posts[p].draft /\ appeared[p] > 0 => p \in approved

\* The flush job never sends a post it claimed after the feed was deleted.
DeletedFeedsStaySilent ==
  \A w \in Flushers : worker[w].pc \in {"prepare", "send", "record"} => ~ worker[w].late

\* An item the feed check calls handled has a post in the queue.
HandledItemsAreQueued ==
  \A i \in Items : source[i].status = "queued" => \E p \in Posts : posts[p].item = i

\* A post leaves the queue, however its dispatches end.
QueuedPostsAreDecided ==
  \A p \in Posts : posts[p].status \in {"queued", "sending"}
                     ~> posts[p].status \in {"sent", "failed", "cancelled"}
=============================================================================
