------------------------- MODULE CurationQueueProofs -------------------------
(***************************************************************************)
(* What the curation queue of one destination guarantees, for any number   *)
(* of posts, feed checks, flushes and requests: the type invariant and the *)
(* five safety properties of CurationQueue.                                *)
(*                                                                         *)
(* The invariants are layered.  TypeInv adds to the types what the actions *)
(* assume of the locals of a worker; NoneInv and EchoInv say which traces  *)
(* a post and its one-shot echo may have left; each of the five invariants *)
(* after them carries one property.                                        *)
(***************************************************************************)
EXTENDS CurationQueue, PostedItemsProofs, FiniteSetTheorems, WellFoundedInduction, TLAPS

-----------------------------------------------------------------------------
(* The invariants.                                                         *)

AtDispatch == {"check", "claim", "prepare", "send", "record", "judge", "settle", "raised"}
AtPost     == AtDispatch \cup {"refuse", "cancel", "retry"}
AtItem     == {"room", "insert", "mark", "compose"}

Waiting    == {"draft", "queued", "sending"}

\* A worker between the two halves of an operation holds what the second half needs,
\* and a dispatch that is under way has a try left.
GoodWorker(j) ==
  /\ j \in Worker
  /\ j.pc \in AtPost => j.post \in Posts
  /\ j.pc \in AtItem => j.item \in Items
  /\ j.pc \in AtDispatch => j.tries < MaxTries

\* A post that may be dispatched has a try left.
GoodPost(q) == q \in Post /\ (q.status \in Waiting => q.tries < MaxTries)

\* A flush that still holds its claim may put the post back.
MayPutBack(w) ==
  worker[w].pc = "check" /\ posts[worker[w].post].token = w
    => posts[worker[w].post].tries < MaxTries

TypeInv ==
  /\ TypeOK
  /\ \A w \in Workers : GoodWorker(worker[w]) /\ MayPutBack(w)
  /\ \A p \in Posts : GoodPost(posts[p])

\* A post that is not there yet has left no trace.
NoTrace(p) ==
  posts[p].status = "none" =>
    /\ posts[p].item = Null
    /\ rows[p] = Absent
    /\ appeared[p] = 0
    /\ \A w \in Workers : worker[w].post # p
NoneInv == \A p \in Posts : NoTrace(p)

\* A row goes with its echo, and an echo is never younger than a worker that read it.
EchoKept(p) == ~ posts[p].echo => rows[p] = Absent
Read(w)     == worker[w].post \in Posts => worker[w].gen <= posts[worker[w].post].gen
EchoInv ==
  /\ \A p \in Posts : EchoKept(p)
  /\ \A w \in Workers : Read(w)

\* Whatever says that a post was published says so of a post that appeared.
SentPost(p) ==
  posts[p].status = "sent" \/ rows[p].status = "success" => appeared[p] > 0
SentBy(w) ==
  worker[w].pc = "record" \/ (worker[w].pc = "settle" /\ worker[w].verdict = "sent")
    => appeared[worker[w].post] > 0
SentInv == (\A p \in Posts : SentPost(p)) /\ (\A w \in Workers : SentBy(w))

\* The one appearance of a post without doubt is on record, or is about to be by the
\* one worker that still owns the row.
Recording(p, w) == worker[w].pc = "record" /\ worker[w].post = p
Unseen(p) == appeared[p] = 0 /\ \A w \in Workers : ~ Recording(p, w)
Recorded(p) ==
  /\ appeared[p] = 1 /\ rows[p].status = "success"
  /\ \A w \in Workers : ~ Recording(p, w)
InRecording(p) == appeared[p] = 1 /\ \E w \in Workers : Recording(p, w)
Once(p) == Unrecordable(p) \/ Unseen(p) \/ Recorded(p) \/ InRecording(p)
OnceInv == \A p \in Posts : p \in doubt \/ Once(p)

\* A draft its owner has not released has not appeared, and the only workers at it are
\* a cancel and, once the feed is deleted, those a flush or a retry turns away.
HeldBack(p) ==
  posts[p].draft /\ p \notin approved =>
    /\ appeared[p] = 0
    /\ live => posts[p].status \in {"draft", "cancelled"}
    /\ \A w \in Workers : worker[w].post = p =>
         \/ worker[w].pc = "cancel"
         \/ ~ live /\ worker[w].pc \in {"check", "refuse", "retry"}
DraftInv == \A p \in Posts : HeldBack(p)

\* A flush knows of a deleted feed only after it is deleted, and then refuses.
Silent(w) ==
  /\ worker[w].late => ~ live
  /\ worker[w].pc \in {"claim", "prepare", "send", "record"} => ~ worker[w].late
SilentInv == \A w \in Flushers : Silent(w)

\* The post comes before the mark.
Stored(i) == \E p \in Posts : posts[p].item = i
Queued(i) == source[i].status = "queued" => Stored(i)
Marking(w)  == worker[w].pc = "mark" => Stored(worker[w].item)
HandledInv == (\A i \in Items : Queued(i)) /\ (\A w \in Workers : Marking(w))

-----------------------------------------------------------------------------
(* Types.                                                                  *)

LEMMA RestGood == GoodWorker(Rest)
<1>1. Rest \in Worker
  <2>1. 0 \in 0..MaxEchoes /\ 0 \in 0..MaxTries
    BY QueueBoundAssumption DEF MaxTries
  <2> QED BY <2>1 DEF Rest, Worker, Steps
<1> QED BY <1>1 DEF GoodWorker, Rest, AtPost, AtDispatch, AtItem

\* The worker that goes on to another step of its dispatch.
LEMMA GotoGood ==
  ASSUME NEW j, GoodWorker(j), NEW step \in AtDispatch \cup {"refuse"}, j.pc \in AtDispatch
  PROVE  /\ GoodWorker([j EXCEPT !.pc = step])
         /\ [j EXCEPT !.pc = step].pc = step /\ [j EXCEPT !.pc = step].post = j.post
BY DEF GoodWorker, Worker, Steps, AtPost, AtDispatch, AtItem

LEMMA NoPostGood == GoodPost(NoPost)
<1>1. 0 \in 0..MaxTries /\ 0 \in 0..SendTicks /\ 0 \in 0..LastSlot /\ 0 \in 0..MaxEchoes
  BY QueueBoundAssumption DEF MaxTries
<1>2. {} \in SUBSET Workers
  OBVIOUS
<1> QED BY <1>1, <1>2 DEF GoodPost, NoPost, Post, PostStatuses, Waiting

LEMMA NewPostGood ==
  ASSUME NEW i \in Items, NEW status \in {"draft", "queued"}, NEW slot \in 0..LastSlot
  PROVE  /\ GoodPost(NewPost(i, status, slot))
         /\ NewPost(i, status, slot).status = status /\ NewPost(i, status, slot).item = i
         /\ NewPost(i, status, slot).echo /\ NewPost(i, status, slot).tries = 0
         /\ NewPost(i, status, slot).draft => status = "draft"
         /\ NewPost(i, status, slot).token = Null
<1>1. 0 \in 0..MaxTries /\ 0 \in 0..SendTicks /\ 1 \in 0..MaxEchoes
  BY QueueBoundAssumption DEF MaxTries
<1>2. {} \in SUBSET Workers /\ (status = "draft") \in BOOLEAN
  OBVIOUS
<1>3. \A b \in BOOLEAN :
        LET n == [NoPost EXCEPT !.status = status, !.item = i, !.draft = b, !.at = slot,
                                !.gen = 1, !.echo = TRUE] IN
        /\ n \in Post
        /\ n.status = status /\ n.item = i /\ n.echo /\ n.tries = 0 /\ n.draft = b
        /\ n.token = Null
  BY <1>1, <1>2 DEF NoPost, Post, PostStatuses
<1>4. PICK b \in BOOLEAN : b = (status = "draft")
  BY <1>2
<1>5. PICK n : n = [NoPost EXCEPT !.status = status, !.item = i, !.draft = b, !.at = slot,
                                  !.gen = 1, !.echo = TRUE]
  OBVIOUS
<1>6. NewPost(i, status, slot) = n
  BY <1>4, <1>5, Zenon DEF NewPost
<1>7. /\ n \in Post
      /\ n.status = status /\ n.item = i /\ n.echo /\ n.tries = 0 /\ n.draft = b
      /\ n.token = Null
  BY <1>3, <1>5, Zenon
<1>8. n.draft => status = "draft"
  BY <1>4, <1>7, Zenon
<1>9. GoodPost(n)
  BY <1>7 DEF GoodPost, MaxTries
<1> QED BY <1>6, <1>7, <1>8, <1>9, Zenon

LEMMA NextSlotType == TypeInv => NextSlot \in 0..LastSlot
<1> SUFFICES ASSUME TypeInv PROVE NextSlot \in 0..LastSlot
  OBVIOUS
<1> DEFINE taken == {posts[p].at : p \in With({"queued", "sending"})}
           later == {LastSlot - t : t \in taken \cup {0}}
<1>1. LastSlot \in Nat /\ SlotTicks \in Nat
  BY QueueBoundAssumption
<1>2. taken \cup {0} \subseteq 0..LastSlot
  BY <1>1 DEF TypeInv, GoodPost, Post, With
<1>3. later \subseteq Nat /\ later # {}
  BY <1>1, <1>2
<1>4. PICK x \in later : \A y \in later : ~ (<<y, x>> \in OpToRel(<, Nat))
  BY <1>3, NatLessThanWellFounded, WFMin
<1>5. \A y \in later : ~ (y < x)
  BY <1>3, <1>4 DEF OpToRel
<1>6. PICK last \in taken \cup {0} : x = LastSlot - last
  OBVIOUS
<1>7. \A u \in taken : u <= last
  <2> SUFFICES ASSUME NEW u \in taken PROVE u <= last
    OBVIOUS
  <2>1. LastSlot - u \in later
    OBVIOUS
  <2>2. u \in Int /\ last \in Int
    BY <1>2
  <2> HIDE DEF taken, later
  <2> QED BY <1>1, <1>5, <1>6, <2>1, <2>2
<1>8. (CHOOSE t \in taken \cup {0} : \A u \in taken : u <= t) \in taken \cup {0}
  BY <1>7
<1>9. (CHOOSE t \in taken \cup {0} : \A u \in taken : u <= t) \in 0..LastSlot
  BY <1>2, <1>8
<1>10. NextSlot = IF (CHOOSE t \in taken \cup {0} : \A u \in taken : u <= t) + SlotTicks <= LastSlot
                 THEN (CHOOSE t \in taken \cup {0} : \A u \in taken : u <= t) + SlotTicks
                 ELSE LastSlot
  BY DEF NextSlot
<1> HIDE DEF taken, later
<1> QED BY <1>1, <1>9, <1>10

LEMMA TypeInit == Init => TypeInv
<1> SUFFICES ASSUME Init PROVE TypeInv
  OBVIOUS
<1>1. Absent \in Row
  BY AttemptAssumption DEF Absent, Row, Statuses
<1>2. 0 \in 0..MaxPresses /\ 0 \in 0..MaxFaults
  BY QueueBoundAssumption
<1>3. \A w \in Workers : MayPutBack(w)
  BY DEF Init, MayPutBack, Rest
<1>4. Rest \in Worker /\ NoPost \in Post
  BY RestGood, NoPostGood DEF GoodWorker, GoodPost
<1>5. TypeOK
  BY <1>1, <1>2, <1>4 DEF Init, TypeOK
<1> QED BY <1>3, <1>5, RestGood, NoPostGood DEF Init, TypeInv

\* What a step that moves one worker has to leave behind ...
LEMMA WorkerStepType ==
  ASSUME TypeInv, NEW w \in Workers, NEW j, GoodWorker(j), Becomes(w, j), j.pc # "check",
         source' \in [Items -> Row], rows' \in [Posts -> Row],
         presses' \in 0..MaxPresses, faults' \in 0..MaxFaults,
         appeared' \in [Posts -> 0..2], doubt' \subseteq Posts, approved' \subseteq Posts,
         UNCHANGED <<posts, live>>
  PROVE  TypeInv'
<1>1. worker' = [worker EXCEPT ![w] = j] /\ worker \in [Workers -> Worker] /\ j \in Worker
  BY DEF Becomes, TypeInv, TypeOK, GoodWorker
<1>2. worker' \in [Workers -> Worker]
  BY <1>1
<1>3. \A v \in Workers : GoodWorker(worker'[v])
  BY <1>1 DEF TypeInv
<1>4. \A v \in Workers : MayPutBack(v)'
  BY <1>1 DEF TypeInv, MayPutBack
<1>5. \A p \in Posts : GoodPost(posts'[p])
  BY DEF TypeInv
<1>6. TypeOK'
  BY <1>2 DEF TypeInv, TypeOK
<1> QED BY <1>3, <1>4, <1>5, <1>6 DEF TypeInv

\* ... and one that changes a post as well.
HoldersKeepTries(w, p, q) ==
  \A v \in Workers \ {w} : q.token = v =>
    q.tries < MaxTries \/ (posts[p].token = v /\ q.tries = posts[p].tries)

LEMMA PostStepType ==
  ASSUME TypeInv, NEW w \in Workers, NEW j, GoodWorker(j), Becomes(w, j),
         NEW p \in Posts, NEW q, GoodPost(q), posts' = [posts EXCEPT ![p] = q],
         j.pc = "check" => j.post = p /\ q.tries < MaxTries,
         HoldersKeepTries(w, p, q),
         source' \in [Items -> Row], rows' \in [Posts -> Row],
         presses' \in 0..MaxPresses, faults' \in 0..MaxFaults,
         appeared' \in [Posts -> 0..2], doubt' \subseteq Posts, approved' \subseteq Posts,
         UNCHANGED live
  PROVE  TypeInv'
<1>1. worker' = [worker EXCEPT ![w] = j] /\ worker \in [Workers -> Worker] /\ j \in Worker
  BY DEF Becomes, TypeInv, TypeOK, GoodWorker
<1>2. worker' \in [Workers -> Worker]
  BY <1>1
<1>3. \A v \in Workers : GoodWorker(worker'[v])
  BY <1>1 DEF TypeInv
<1>4. posts \in [Posts -> Post] /\ q \in Post
  BY DEF TypeInv, TypeOK, GoodPost
<1>5. \A v \in Workers : MayPutBack(v)'
  <2> SUFFICES ASSUME NEW v \in Workers, worker'[v].pc = "check",
                      posts'[worker'[v].post].token = v
               PROVE  posts'[worker'[v].post].tries < MaxTries
    BY DEF MayPutBack
  <2>1. CASE v = w
    BY <1>1, <1>4, <2>1
  <2>2. CASE v # w
    <3>1. worker'[v] = worker[v] /\ MayPutBack(v)
      BY <1>1, <2>2 DEF TypeInv
    <3>2. CASE worker[v].post = p
      BY <1>4, <2>2, <3>1, <3>2 DEF MayPutBack, HoldersKeepTries
    <3>3. CASE worker[v].post # p
      <4>1. posts'[worker[v].post] = posts[worker[v].post]
        <5>1. worker[v].post \in Posts
          BY <3>1 DEF TypeInv, GoodWorker, AtPost, AtDispatch
        <5> QED BY <1>4, <3>3, <5>1
      <4> QED BY <3>1, <4>1 DEF MayPutBack
    <3> QED BY <3>2, <3>3
  <2> QED BY <2>1, <2>2
<1>6. \A r \in Posts : GoodPost(posts'[r])
  BY <1>4 DEF TypeInv
<1>7. TypeOK'
  <2>1. posts' \in [Posts -> Post]
    BY <1>4
  <2> QED BY <1>2, <2>1 DEF TypeInv, TypeOK
<1> QED BY <1>3, <1>5, <1>6, <1>7 DEF TypeInv

\* The worker that claimed a post, or read it for a cancel or a retry.
Holder(step, p, g, t, b) ==
  [Rest EXCEPT !.pc = step, !.post = p, !.gen = g, !.tries = t, !.late = b]

LEMMA HolderGood ==
  ASSUME NEW step \in AtDispatch \cup {"cancel", "retry"}, NEW p \in Posts,
         NEW g \in 0..MaxEchoes, NEW t \in 0..MaxTries, t < MaxTries, NEW b \in BOOLEAN
  PROVE  /\ GoodWorker(Holder(step, p, g, t, b))
         /\ Holder(step, p, g, t, b).pc = step /\ Holder(step, p, g, t, b).post = p
         /\ Holder(step, p, g, t, b).gen = g /\ Holder(step, p, g, t, b).late = b
<1>1. Rest \in Worker /\ Rest.item = Null
  BY RestGood DEF GoodWorker, Rest
<1>2. step \in Steps
  BY DEF Steps, AtDispatch
<1>3. PICK j : j = Holder(step, p, g, t, b)
  OBVIOUS
<1>4. /\ j \in Worker
      /\ j.pc = step /\ j.post = p /\ j.gen = g /\ j.tries = t /\ j.late = b
  BY <1>1, <1>2, <1>3 DEF Holder, Worker
<1>5. GoodWorker(j)
  BY <1>4 DEF GoodWorker, AtDispatch, AtPost, AtItem
<1> QED BY <1>3, <1>4, <1>5

LEMMA WithEchoGood ==
  ASSUME TypeInv, NEW p \in Posts, NEW g, NeedsEcho(p, g) => posts[p].gen < MaxEchoes
  PROVE  /\ GoodPost(WithEcho(p, g)) /\ WithEcho(p, g).gen \in 0..MaxEchoes
         /\ WithEcho(p, g).status = posts[p].status /\ WithEcho(p, g).token = posts[p].token
         /\ WithEcho(p, g).tries = posts[p].tries
<1>1. GoodPost(posts[p]) /\ MaxEchoes \in Nat
  BY QueueBoundAssumption DEF TypeInv
<1>2. CASE ~ NeedsEcho(p, g)
  BY <1>1, <1>2 DEF WithEcho, GoodPost, Post
<1>3. CASE NeedsEcho(p, g)
  <2>1. posts[p].gen + 1 \in 0..MaxEchoes /\ {} \in SUBSET Workers /\ TRUE \in BOOLEAN
    BY <1>1, <1>3 DEF GoodPost, Post
  <2> DEFINE q == posts[p]
             n == [q EXCEPT !.gen = @ + 1, !.echo = TRUE, !.readers = {}]
  <2>2. n \in Post /\ n.status = q.status /\ n.tries = q.tries /\ n.token = q.token
        /\ n.gen = q.gen + 1
    BY <1>1, <2>1 DEF GoodPost, Post
  <2>3. WithEcho(p, g) = n
    BY <1>3 DEF WithEcho
  <2> HIDE DEF q, n
  <2> QED BY <1>1, <2>1, <2>2, <2>3 DEF GoodPost, q
<1> QED BY <1>2, <1>3

LEMMA CheckType == TypeInv /\ (\E w \in Workers : Check(w)) => TypeInv'
<1> SUFFICES ASSUME TypeInv, NEW w \in Workers, Check(w) PROVE TypeInv'
  OBVIOUS
<1> USE DEF history
<1>t. /\ source \in [Items -> Row] /\ rows \in [Posts -> Row] /\ posts \in [Posts -> Post]
      /\ presses \in 0..MaxPresses /\ faults \in 0..MaxFaults /\ faults \in Nat
      /\ appeared \in [Posts -> 0..2] /\ doubt \subseteq Posts /\ approved \subseteq Posts
      /\ GoodWorker(worker[w])
  BY QueueBoundAssumption DEF TypeInv, TypeOK
<1>1. ASSUME NEW i \in Items, ClaimSource(w, i) PROVE TypeInv'
  <2> DEFINE j == [Rest EXCEPT !.pc = "room", !.item = i]
  <2>1. GoodWorker(j) /\ j.pc # "check"
    BY RestGood DEF GoodWorker, Worker, Steps, AtPost, AtDispatch, AtItem
  <2>2. source' \in [Items -> Row]
    BY <1>1, <1>t, ClaimRowType DEF ClaimSource
  <2>3. Becomes(w, j) /\ UNCHANGED <<posts, rows, live, presses, faults, history>>
    BY <1>1 DEF ClaimSource
  <2> HIDE DEF j
  <2> QED BY <1>t, <2>1, <2>2, <2>3, WorkerStepType
<1>2. ASSUME RefuseItem(w) PROVE TypeInv'
  <2>1. worker[w].item \in Items
    BY <1>2, <1>t DEF RefuseItem, GoodWorker, AtItem
  <2>2. source' \in [Items -> Row]
    BY <1>2, <1>t, <2>1, FailRowType DEF RefuseItem
  <2>3. faults' \in 0..MaxFaults
    BY <1>2, <1>t, QueueBoundAssumption DEF RefuseItem
  <2>4. Becomes(w, Rest) /\ UNCHANGED <<posts, rows, live, presses, history>>
    BY <1>2 DEF RefuseItem
  <2>5. Rest.pc # "check"
    BY DEF Rest
  <2> QED BY <1>t, <2>2, <2>3, <2>4, <2>5, RestGood, WorkerStepType
<1>3. ASSUME FindRoom(w) PROVE TypeInv'
  <2> DEFINE j == [worker[w] EXCEPT !.pc = "insert"]
  <2>1. GoodWorker(j) /\ j.pc # "check"
    BY <1>3, <1>t DEF FindRoom, GoodWorker, Worker, Steps, AtPost, AtDispatch, AtItem
  <2>2. Becomes(w, j) /\ UNCHANGED <<source, posts, rows, live, presses, faults, history>>
    BY <1>3 DEF FindRoom, Goto
  <2> HIDE DEF j
  <2> QED BY <1>t, <2>1, <2>2, WorkerStepType
<1>4. ASSUME NEW p \in Posts, InsertPost(w, p) PROVE TypeInv'
  <2> DEFINE j == [worker[w] EXCEPT !.pc = "mark"]
  <2>1. GoodWorker(j) /\ j.pc # "check"
    BY <1>4, <1>t DEF InsertPost, GoodWorker, Worker, Steps, AtPost, AtDispatch, AtItem
  <2>2. worker[w].item \in Items
    BY <1>4, <1>t DEF InsertPost, GoodWorker, AtItem
  <2>3. PICK q : q = IF Mode = "review" THEN NewPost(worker[w].item, "draft", 0)
                                        ELSE NewPost(worker[w].item, "queued", NextSlot)
    OBVIOUS
  <2>4. 0 \in 0..LastSlot
    BY QueueBoundAssumption
  <2>5. GoodPost(q) /\ q.tries < MaxTries
    BY <2>2, <2>3, <2>4, NewPostGood, NextSlotType DEF MaxTries
  <2>6. /\ Becomes(w, j) /\ posts' = [posts EXCEPT ![p] = q]
        /\ UNCHANGED <<source, rows, live, presses, faults, history>>
    BY <1>4, <2>3 DEF InsertPost, Goto
  <2> HIDE DEF j
  <2>7. HoldersKeepTries(w, p, q)
    BY <2>5 DEF HoldersKeepTries
  <2> QED BY <1>t, <2>1, <2>5, <2>6, <2>7, PostStepType
<1>5. ASSUME MarkSource(w) PROVE TypeInv'
  <2>1. worker[w].item \in Items
    BY <1>5, <1>t DEF MarkSource, GoodWorker, AtItem
  <2>2. source' \in [Items -> Row]
    BY <1>5, <1>t, <2>1, FinalizeRowType DEF MarkSource, Statuses
  <2>3. Becomes(w, Rest) /\ UNCHANGED <<posts, rows, live, presses, faults, history>>
    BY <1>5 DEF MarkSource
  <2>4. Rest.pc # "check"
    BY DEF Rest
  <2> QED BY <1>t, <2>2, <2>3, <2>4, RestGood, WorkerStepType
<1> QED BY <1>1, <1>2, <1>3, <1>4, <1>5 DEF Check

LEMMA FlushType == TypeInv /\ (\E w \in Workers : Flush(w)) => TypeInv'
<1> SUFFICES ASSUME TypeInv, NEW w \in Workers, Flush(w) PROVE TypeInv'
  OBVIOUS
<1> USE DEF history
<1>t. /\ source \in [Items -> Row] /\ rows \in [Posts -> Row] /\ posts \in [Posts -> Post]
      /\ presses \in 0..MaxPresses /\ faults \in 0..MaxFaults /\ faults \in Nat
      /\ appeared \in [Posts -> 0..2] /\ doubt \subseteq Posts /\ approved \subseteq Posts
      /\ GoodWorker(worker[w]) /\ MayPutBack(w) /\ live \in BOOLEAN
      /\ MaxFaults \in Nat /\ MaxPresses \in Nat /\ presses \in Nat
  BY QueueBoundAssumption DEF TypeInv, TypeOK
<1>r. GoodWorker(Rest) /\ Rest.pc = "idle" /\ Absent \in Row
  BY RestGood, AttemptAssumption DEF Rest, Absent, Row, Statuses
<1>1. ASSUME NEW p \in Posts, ClaimDue(w, p) PROVE TypeInv'
  <2>1. GoodPost(posts[p]) /\ posts[p].tries < MaxTries
    BY <1>1 DEF TypeInv, GoodPost, ClaimDue, Waiting
  <2>2. PICK q : q = [posts[p] EXCEPT !.status = "sending", !.token = w, !.left = SendTicks]
    OBVIOUS
  <2>3. GoodPost(q) /\ q.tries < MaxTries /\ q.token = w
    <3>1. SendTicks \in 0..SendTicks
      BY QueueBoundAssumption
    <3> QED BY <2>1, <2>2, <3>1 DEF GoodPost, Post, PostStatuses
  <2>4. posts' = [posts EXCEPT ![p] = q]
    BY <1>1, <2>2, <1>t DEF ClaimDue, Claimed
  <2>5. PICK b \in BOOLEAN : b = ~ live
    BY <1>t
  <2>6. PICK j : j = Holder("check", p, posts[p].gen, posts[p].tries, b)
    OBVIOUS
  <2>7. posts[p].gen \in 0..MaxEchoes /\ posts[p].tries \in 0..MaxTries
    BY <2>1 DEF GoodPost, Post
  <2>8. GoodWorker(j) /\ j.post = p
    <3>1. "check" \in AtDispatch \cup {"cancel", "retry"}
      BY DEF AtDispatch
    <3> QED BY <2>1, <2>6, <2>7, <3>1, HolderGood
  <2>9. Becomes(w, j) /\ UNCHANGED <<source, rows, live, presses, faults, history>>
    BY <1>1, <2>5, <2>6 DEF ClaimDue, Holder
  <2>10. HoldersKeepTries(w, p, q)
    BY <2>3 DEF HoldersKeepTries
  <2> QED BY <1>t, <2>3, <2>4, <2>8, <2>9, <2>10, PostStepType
<1>2. ASSUME OverHourlyCap(w) PROVE TypeInv'
  <2>1. worker[w].post \in Posts
    BY <1>2, <1>t DEF OverHourlyCap, GoodWorker, AtPost, AtDispatch
  <2>2. faults' \in 0..MaxFaults
    BY <1>2, <1>t DEF OverHourlyCap
  <2>3. PICK p \in Posts : p = worker[w].post
    BY <2>1
  <2>4. Becomes(w, Rest) /\ UNCHANGED <<source, rows, live, presses, history>>
    BY <1>2 DEF OverHourlyCap
  <2>5. CASE posts[p].token = w
    <3>1. PICK q : q = [posts[p] EXCEPT !.status = "queued", !.token = Null]
      OBVIOUS
    <3>2. GoodPost(posts[p]) /\ posts[p].tries < MaxTries
      BY <1>2, <1>t, <2>3, <2>5 DEF TypeInv, OverHourlyCap, MayPutBack
    <3>3. GoodPost(q) /\ q.tries < MaxTries
      BY <3>1, <3>2 DEF GoodPost, Post, PostStatuses
    <3>4. posts' = [posts EXCEPT ![p] = q]
      BY <1>2, <2>3, <2>5, <3>1 DEF OverHourlyCap, Fenced
    <3>5. HoldersKeepTries(w, p, q)
      BY <3>3 DEF HoldersKeepTries
    <3> QED BY <1>t, <1>r, <2>2, <2>4, <3>3, <3>4, <3>5, PostStepType
  <2>6. CASE posts[p].token # w
    <3>1. UNCHANGED posts
      BY <1>2, <2>3, <2>6 DEF OverHourlyCap, Fenced
    <3> QED BY <1>t, <1>r, <2>2, <2>4, <3>1, WorkerStepType
  <2> QED BY <2>5, <2>6
<1>3. ASSUME NEW next \in {"claim", "refuse"}, LookUp(w, next) PROVE TypeInv'
  <2>1. worker[w].post \in Posts /\ worker[w].pc = "check"
    BY <1>3, <1>t DEF LookUp, GoodWorker, AtPost, AtDispatch
  <2>2. PICK p \in Posts : p = worker[w].post
    BY <2>1
  <2>3. PICK q : q = WithEcho(p, worker[w].gen)
    OBVIOUS
  <2>4. /\ GoodPost(q) /\ q.gen \in 0..MaxEchoes
        /\ q.status = posts[p].status /\ q.token = posts[p].token /\ q.tries = posts[p].tries
    BY <1>3, <2>2, <2>3, WithEchoGood DEF LookUp
  <2>5. PICK j : j = [worker[w] EXCEPT !.gen = q.gen, !.pc = next]
    OBVIOUS
  <2>6. GoodWorker(j) /\ j.pc # "check"
    BY <1>t, <2>1, <2>4, <2>5 DEF GoodWorker, Worker, Steps, AtPost, AtDispatch, AtItem
  <2>7. Becomes(w, j) /\ posts' = [posts EXCEPT ![p] = q]
    BY <1>3, <2>2, <2>3, <2>5 DEF LookUp
  <2>8. rows' \in [Posts -> Row] /\ doubt' \subseteq Posts
    BY <1>3, <1>t, <1>r, <2>2 DEF LookUp
  <2>9. UNCHANGED <<source, live, presses, faults, appeared, approved>>
    BY <1>3 DEF LookUp
  <2>10. HoldersKeepTries(w, p, q)
    BY <2>4 DEF HoldersKeepTries
  <2> QED BY <1>t, <2>4, <2>6, <2>7, <2>8, <2>9, <2>10, PostStepType
<1>4. ASSUME RefusePost(w) PROVE TypeInv'
  <2>1. worker[w].post \in Posts
    BY <1>4, <1>t DEF RefusePost, GoodWorker, AtPost, AtDispatch
  <2>2. PICK p \in Posts : p = worker[w].post
    BY <2>1
  <2>3. Becomes(w, Rest) /\ UNCHANGED <<source, rows, live, presses, faults, history>>
    BY <1>4 DEF RefusePost
  <2>4. CASE posts[p].status = "sending"
    <3>1. PICK q : q = [posts[p] EXCEPT !.status = "failed"]
      OBVIOUS
    <3>2. GoodPost(posts[p])
      BY DEF TypeInv
    <3>3. GoodPost(q) /\ q.tries = posts[p].tries /\ q.token = posts[p].token
      BY <3>1, <3>2 DEF GoodPost, Post, PostStatuses, Waiting
    <3>4. posts' = [posts EXCEPT ![p] = q]
      BY <1>4, <2>2, <2>4, <3>1, <1>t DEF RefusePost
    <3>5. HoldersKeepTries(w, p, q)
      BY <3>3 DEF HoldersKeepTries
    <3> QED BY <1>t, <1>r, <2>3, <3>3, <3>4, <3>5, PostStepType
  <2>5. CASE posts[p].status # "sending"
    <3>1. UNCHANGED posts
      BY <1>4, <2>2, <2>5 DEF RefusePost
    <3> QED BY <1>t, <1>r, <2>3, <3>1, WorkerStepType
  <2> QED BY <2>4, <2>5
<1>5. CheckFeed(w) => TypeInv'
  BY <1>3 DEF CheckFeed
<1> QED BY <1>1, <1>2, <1>4, <1>5 DEF Flush

LEMMA DispatchType == TypeInv /\ (\E w \in Workers : Dispatch(w)) => TypeInv'
<1> SUFFICES ASSUME TypeInv, NEW w \in Workers, Dispatch(w) PROVE TypeInv'
  OBVIOUS
<1> USE DEF history
<1>t. /\ source \in [Items -> Row] /\ rows \in [Posts -> Row] /\ posts \in [Posts -> Post]
      /\ presses \in 0..MaxPresses /\ faults \in 0..MaxFaults /\ faults \in Nat
      /\ appeared \in [Posts -> 0..2] /\ doubt \subseteq Posts /\ approved \subseteq Posts
      /\ GoodWorker(worker[w]) /\ MayPutBack(w) /\ live \in BOOLEAN
      /\ MaxFaults \in Nat /\ MaxPresses \in Nat /\ presses \in Nat
  BY QueueBoundAssumption DEF TypeInv, TypeOK
<1>r. GoodWorker(Rest) /\ Rest.pc = "idle" /\ Absent \in Row
  BY RestGood, AttemptAssumption DEF Rest, Absent, Row, Statuses
<1>p. PICK p : p = worker[w].post
  OBVIOUS
<1>q. worker[w].pc \in AtDispatch => p \in Posts /\ GoodPost(posts[p]) /\ worker[w].tries < MaxTries
  BY <1>t, <1>p DEF TypeInv, GoodWorker, AtPost
\* Another step of the dispatch, with the post as it is.
<1>g. ASSUME NEW step \in AtDispatch \ {"check"}, worker[w].pc \in AtDispatch, Goto(w, step),
             rows' \in [Posts -> Row], faults' \in 0..MaxFaults,
             appeared' \in [Posts -> 0..2], doubt' \subseteq Posts,
             UNCHANGED <<source, posts, live, presses, approved>>
      PROVE  TypeInv'
  <2>1. PICK j : j = [worker[w] EXCEPT !.pc = step]
    OBVIOUS
  <2>2. GoodWorker(j) /\ j.pc # "check"
    BY <1>t, <1>g, <2>1, GotoGood
  <2>3. Becomes(w, j)
    BY <1>g, <2>1 DEF Goto
  <2> QED BY <1>t, <1>g, <2>2, <2>3, WorkerStepType
<1>1. ASSUME ClaimForSend(w) PROVE TypeInv'
  <2>1. worker[w].pc \in AtDispatch /\ p \in Posts
    BY <1>1, <1>q DEF ClaimForSend, AtDispatch
  <2>2. \E step \in {"raised", "prepare", "judge"} : Goto(w, step)
    BY <1>1 DEF ClaimForSend
  <2>3. rows' \in [Posts -> Row]
    BY <1>1, <1>t, <1>p, <2>1, ClaimRowType DEF ClaimForSend
  <2>4. UNCHANGED <<source, posts, live, presses, faults, history>>
    BY <1>1 DEF ClaimForSend
  <2> QED BY <1>t, <1>g, <2>1, <2>2, <2>3, <2>4 DEF AtDispatch
<1>2. ASSUME PreparationFails(w) PROVE TypeInv'
  <2>1. worker[w].pc \in AtDispatch /\ p \in Posts
    BY <1>2, <1>q DEF PreparationFails, AtDispatch
  <2>2. Goto(w, "judge") /\ faults' \in 0..MaxFaults
    BY <1>2, <1>t DEF PreparationFails
  <2>3. rows' \in [Posts -> Row]
    <3>1. FailRow(rows[p], w, FALSE) \in Row
      BY <1>t, <2>1, FailRowType
    <3> QED BY <1>2, <1>t, <1>p, <2>1, <3>1 DEF PreparationFails
  <2>4. UNCHANGED <<source, posts, live, presses, history>>
    BY <1>2 DEF PreparationFails
  <2> QED BY <1>t, <1>g, <2>1, <2>2, <2>3, <2>4 DEF AtDispatch
<1>10. ASSUME SendFails(w) PROVE TypeInv'
  <2>1. worker[w].pc \in AtDispatch /\ p \in Posts
    BY <1>10, <1>q DEF SendFails, AtDispatch
  <2>2. Goto(w, "judge") /\ faults' \in 0..MaxFaults
    BY <1>10, <1>t DEF SendFails
  <2>3. rows' \in [Posts -> Row]
    <3>1. FailRow(rows[p], w, FALSE) \in Row
      BY <1>t, <2>1, FailRowType
    <3> QED BY <1>10, <1>t, <1>p, <2>1, <3>1 DEF SendFails
  <2>4. UNCHANGED <<source, posts, live, presses, history>>
    BY <1>10 DEF SendFails
  <2> QED BY <1>t, <1>g, <2>1, <2>2, <2>3, <2>4 DEF AtDispatch
<1>3. ASSUME GuardClaim(w) PROVE TypeInv'
  <2>1. \E step \in {"send", "judge"} : Goto(w, step)
    BY <1>3 DEF GuardClaim
  <2>2. worker[w].pc \in AtDispatch /\ UNCHANGED <<source, posts, rows, live, presses, faults, history>>
    BY <1>3 DEF GuardClaim, AtDispatch
  <2> QED BY <1>t, <1>g, <2>1, <2>2 DEF AtDispatch
<1>4. ASSUME Send(w) PROVE TypeInv'
  <2>1. worker[w].pc \in AtDispatch /\ p \in Posts
    BY <1>4, <1>q DEF Send, AtDispatch
  <2>2. \E step \in {"record", "judge"} : Goto(w, step)
    BY <1>4 DEF Send
  <2>3. rows' \in [Posts -> Row] /\ doubt' \subseteq Posts /\ faults' \in 0..MaxFaults
    <3>1. FailRow(rows[p], w, FALSE) \in Row
      BY <1>t, <2>1, FailRowType
    <3>2. \/ UNCHANGED <<doubt, faults, rows>>
          \/ /\ faults < MaxFaults /\ faults' = faults + 1 /\ doubt' = doubt \cup {p}
             /\ rows' = [rows EXCEPT ![p] = IF SameEcho(w) THEN FailRow(@, w, FALSE) ELSE @]
      BY <1>4, <1>p DEF Send
    <3>3. CASE UNCHANGED <<doubt, faults, rows>>
      BY <1>t, <3>3
    <3>4. CASE /\ faults < MaxFaults /\ faults' = faults + 1 /\ doubt' = doubt \cup {p}
               /\ rows' = [rows EXCEPT ![p] = IF SameEcho(w) THEN FailRow(@, w, FALSE) ELSE @]
      <4>1. rows' \in [Posts -> Row]
        BY <1>t, <2>1, <3>1, <3>4
      <4>2. doubt' \subseteq Posts /\ faults' \in 0..MaxFaults
        BY <1>t, <2>1, <3>4
      <4> QED BY <4>1, <4>2
    <3> QED BY <3>2, <3>3, <3>4
  <2>4. appeared' \in [Posts -> 0..2]
    BY <1>4, <1>t, <1>p, <2>1 DEF Send
  <2>5. UNCHANGED <<source, posts, live, presses, approved>>
    BY <1>4 DEF Send
  <2> QED BY <1>t, <1>g, <2>1, <2>2, <2>3, <2>4, <2>5 DEF AtDispatch
<1>5. ASSUME RecordSuccess(w) PROVE TypeInv'
  <2>1. worker[w].pc \in AtDispatch /\ p \in Posts /\ Goto(w, "judge")
    BY <1>5, <1>q DEF RecordSuccess, AtDispatch
  <2>2. rows' \in [Posts -> Row] /\ doubt' \subseteq Posts
    BY <1>5, <1>t, <1>p, <2>1, FinalizeRowType DEF RecordSuccess, Statuses
  <2>3. UNCHANGED <<source, posts, live, presses, faults, appeared, approved>>
    BY <1>5 DEF RecordSuccess
  <2> QED BY <1>t, <1>g, <2>1, <2>2, <2>3 DEF AtDispatch
<1>6. ASSUME Judge(w) PROVE TypeInv'
  <2>1. worker[w].pc \in AtDispatch /\ p \in Posts /\ GoodPost(posts[p])
    BY <1>6, <1>q DEF Judge, AtDispatch
  <2>2. PICK d \in {"sent", "failed"} :
          d = IF SeenRow(w).status = "success" THEN "sent" ELSE "failed"
    OBVIOUS
  <2>3. PICK j : j = [worker[w] EXCEPT !.pc = "settle", !.verdict = d]
    OBVIOUS
  <2>4. GoodWorker(j) /\ j.pc # "check"
    BY <1>t, <2>1, <2>3 DEF GoodWorker, Worker, Steps, AtPost, AtDispatch, AtItem
  <2>5. Becomes(w, j) /\ UNCHANGED <<source, rows, live, presses, faults, history>>
    BY <1>6, <2>2, <2>3 DEF Judge
  <2>6. PICK q : q = IF SeenRow(w) = Absent THEN posts[p]
                     ELSE [posts[p] EXCEPT !.readers = @ \cup {w}]
    OBVIOUS
  <2>7. GoodPost(q) /\ q.tries = posts[p].tries /\ q.token = posts[p].token
    BY <2>1, <2>6 DEF GoodPost, Post
  <2>8. posts' = [posts EXCEPT ![p] = q]
    BY <1>6, <1>t, <1>p, <2>1, <2>6 DEF Judge
  <2>9. HoldersKeepTries(w, p, q)
    BY <2>7 DEF HoldersKeepTries
  <2> QED BY <1>t, <2>1, <2>4, <2>5, <2>7, <2>8, <2>9, PostStepType
\* What a worker that settles its post writes.
<1>a. ASSUME worker[w].pc \in AtDispatch
      PROVE  /\ GoodPost(Again(w, p)) /\ Again(w, p).token \in {posts[p].token, Null}
             /\ \A status \in {"sent", "failed"} :
                  GoodPost(Finished(p, status)) /\ Finished(p, status).token = posts[p].token
  <2>1. p \in Posts /\ GoodPost(posts[p]) /\ worker[w].tries < MaxTries /\ worker[w].tries \in 0..MaxTries
    BY <1>a, <1>q, <1>t DEF GoodWorker, Worker
  <2>2. worker[w].tries + 1 \in 0..MaxTries /\ 0 \in 0..SendTicks /\ SlotTicks \in 0..LastSlot
    BY <2>1, QueueBoundAssumption DEF MaxTries
  <2>3. GoodPost(Again(w, p)) /\ Again(w, p).token \in {posts[p].token, Null}
    BY <2>1, <2>2 DEF Again, GoodPost, Post, PostStatuses, Waiting
  <2>4. \A status \in {"sent", "failed"} :
          GoodPost(Finished(p, status)) /\ Finished(p, status).token = posts[p].token
    <3> SUFFICES ASSUME NEW status \in {"sent", "failed"}
                 PROVE  GoodPost(Finished(p, status)) /\ Finished(p, status).token = posts[p].token
      OBVIOUS
    <3>1. PICK t : t = IF posts[p].tries < MaxTries THEN posts[p].tries + 1 ELSE posts[p].tries
      OBVIOUS
    <3>2. t \in 0..MaxTries
      BY <2>1, <3>1 DEF GoodPost, Post, MaxTries
    <3>3. Finished(p, status) = [posts[p] EXCEPT !.status = status, !.tries = t]
      BY <3>1 DEF Finished
    <3>4. status \in PostStatuses /\ status \notin Waiting
      BY DEF PostStatuses, Waiting
    <3> QED BY <2>1, <3>2, <3>3, <3>4 DEF GoodPost, Post
  <2> QED BY <2>3, <2>4
\* A fenced write of one of these, by the worker that then rests.
<1>f. ASSUME worker[w].pc \in AtDispatch, Becomes(w, Rest),
             NEW new, GoodPost(new), new.token \in {posts[p].token, Null}, NEW rs \in SUBSET Workers,
             posts' = [Fenced(w, p, new) EXCEPT ![p].readers = rs],
             rows' \in [Posts -> Row], doubt' \subseteq Posts,
             UNCHANGED <<source, live, presses, faults, appeared, approved>>
      PROVE  TypeInv'
  <2>1. p \in Posts /\ GoodPost(posts[p])
    BY <1>f, <1>q
  <2>2. PICK q : q = [(IF posts[p].token = w THEN new ELSE posts[p]) EXCEPT !.readers = rs]
    OBVIOUS
  <2>3. /\ GoodPost(q)
        /\ posts[p].token = w => q.token \in {w, Null}
        /\ posts[p].token # w => q.token = posts[p].token /\ q.tries = posts[p].tries
    BY <1>f, <2>1, <2>2 DEF GoodPost, Post
  <2>4. posts' = [posts EXCEPT ![p] = q]
    BY <1>f, <1>t, <2>1, <2>2 DEF Fenced
  <2>5. HoldersKeepTries(w, p, q)
    BY <2>3, NullAssumption DEF HoldersKeepTries
  <2>6. Rest.pc # "check"
    BY <1>r
  <2>7. posts' = [posts EXCEPT ![p] = q] /\ GoodPost(q) /\ p \in Posts
    BY <2>1, <2>3, <2>4
  <2> QED BY <1>t, <1>r, <1>f, <2>5, <2>6, <2>7, PostStepType
<1>7. ASSUME SettleFlush(w) PROVE TypeInv'
  <2>1. worker[w].pc \in AtDispatch /\ p \in Posts
    BY <1>7, <1>q DEF SettleFlush, AtDispatch
  <2>2. PICK deletes \in BOOLEAN : deletes = (/\ worker[w].verdict = "failed"
                                             /\ worker[w].tries + 1 < MaxTries
                                             /\ w \in posts[p].readers)
    OBVIOUS
  <2>3. PICK new : new = IF worker[w].verdict = "sent" THEN Finished(p, "sent") ELSE Again(w, p)
    OBVIOUS
  <2>4. PICK rs : rs = IF deletes THEN {} ELSE posts[p].readers \ {w}
    OBVIOUS
  <2>5. GoodPost(new) /\ new.token \in {posts[p].token, Null}
    BY <1>a, <2>1, <2>3
  <2>6. rs \in SUBSET Workers
    BY <1>q, <2>1, <2>4 DEF GoodPost, Post
  <2>7. posts' = [Fenced(w, p, new) EXCEPT ![p].readers = rs]
    <3>1. Fenced(w, p, new)[p].readers = posts[p].readers
      BY <1>t, <2>1, <2>3 DEF Fenced, Finished, Again, Post
    <3> QED BY <1>7, <1>p, <2>2, <2>3, <2>4, <3>1 DEF SettleFlush
  <2>8. rows' \in [Posts -> Row] /\ doubt' \subseteq Posts
    BY <1>7, <1>p, <1>t, <1>r, <2>1 DEF SettleFlush
  <2>9. Becomes(w, Rest) /\ UNCHANGED <<source, live, presses, faults, appeared, approved>>
    BY <1>7 DEF SettleFlush
  <2> QED BY <1>f, <2>1, <2>5, <2>6, <2>7, <2>8, <2>9
<1>8. ASSUME SettleRequest(w) PROVE TypeInv'
  <2>1. worker[w].pc \in AtDispatch /\ p \in Posts /\ worker[w].verdict \in {"sent", "failed"}
    BY <1>8, <1>q, <1>t DEF SettleRequest, AtDispatch, GoodWorker, Worker
  <2>2. PICK new : new = Finished(p, worker[w].verdict)
    OBVIOUS
  <2>3. PICK rs : rs = posts[p].readers \ {w}
    OBVIOUS
  <2>4. GoodPost(new) /\ new.token \in {posts[p].token, Null} /\ rs \in SUBSET Workers
    BY <1>a, <1>q, <2>1, <2>2, <2>3 DEF GoodPost, Post
  <2>5. posts' = [Fenced(w, p, new) EXCEPT ![p].readers = rs]
    <3>1. Fenced(w, p, new)[p].readers = posts[p].readers
      BY <1>t, <2>1, <2>2 DEF Fenced, Finished, Post
    <3> QED BY <1>8, <1>p, <2>2, <2>3, <3>1 DEF SettleRequest
  <2>6. Becomes(w, Rest) /\ UNCHANGED <<source, rows, live, presses, faults, history>>
    BY <1>8 DEF SettleRequest
  <2> QED BY <1>f, <1>t, <2>1, <2>4, <2>5, <2>6
<1>9. ASSUME SettleRaised(w) PROVE TypeInv'
  <2>1. worker[w].pc \in AtDispatch /\ p \in Posts /\ GoodPost(posts[p])
    BY <1>9, <1>q DEF SettleRaised, AtDispatch
  <2>2. PICK new : new = IF w \in Flushers THEN Again(w, p) ELSE Finished(p, "failed")
    OBVIOUS
  <2>3. GoodPost(new) /\ new.token \in {posts[p].token, Null}
    BY <1>a, <2>1, <2>2
  <2>4. PICK rs : rs = posts[p].readers
    OBVIOUS
  <2>5. new.readers = rs /\ rs \in SUBSET Workers
    BY <2>1, <2>2, <2>4 DEF Again, Finished, GoodPost, Post
  <2>6. posts' = [Fenced(w, p, new) EXCEPT ![p].readers = rs]
    <3>1. posts' = Fenced(w, p, new) /\ Fenced(w, p, new) \in [Posts -> Post]
      BY <1>9, <1>p, <1>t, <2>1, <2>2, <2>3 DEF SettleRaised, Fenced, GoodPost
    <3>2. Fenced(w, p, new)[p].readers = rs
      BY <1>t, <2>1, <2>4, <2>5 DEF Fenced
    <3>3. PICK g : g = Fenced(w, p, new)
      OBVIOUS
    <3>4. [g EXCEPT ![p].readers = rs] = g
      BY <2>1, <3>1, <3>2, <3>3 DEF Post
    <3> QED BY <3>1, <3>3, <3>4
  <2>7. Becomes(w, Rest) /\ UNCHANGED <<source, rows, live, presses, faults, history>>
    BY <1>9 DEF SettleRaised
  <2> QED BY <1>f, <1>t, <2>1, <2>3, <2>5, <2>6, <2>7
<1> QED BY <1>1, <1>2, <1>3, <1>4, <1>5, <1>6, <1>7, <1>8, <1>9, <1>10 DEF Dispatch

LEMMA RouteType == TypeInv /\ (\E w \in Workers : Route(w)) => TypeInv'
<1> SUFFICES ASSUME TypeInv, NEW w \in Workers, Route(w) PROVE TypeInv'
  OBVIOUS
<1> USE DEF history
<1>t. /\ source \in [Items -> Row] /\ rows \in [Posts -> Row] /\ posts \in [Posts -> Post]
      /\ presses \in 0..MaxPresses /\ faults \in 0..MaxFaults /\ faults \in Nat
      /\ appeared \in [Posts -> 0..2] /\ doubt \subseteq Posts /\ approved \subseteq Posts
      /\ GoodWorker(worker[w]) /\ MayPutBack(w) /\ live \in BOOLEAN
      /\ MaxFaults \in Nat /\ MaxPresses \in Nat /\ presses \in Nat
  BY QueueBoundAssumption DEF TypeInv, TypeOK
<1>r. GoodWorker(Rest) /\ Rest.pc = "idle" /\ Absent \in Row
  BY RestGood, AttemptAssumption DEF Rest, Absent, Row, Statuses
<1>k. Press(w) => presses' \in 0..MaxPresses
  BY <1>t DEF Press
<1>p. \A p \in Posts : /\ GoodPost(posts[p]) /\ posts[p].gen \in 0..MaxEchoes
                       /\ posts[p].tries \in 0..MaxTries
  BY DEF TypeInv, GoodPost, Post
\* The first half of a cancel or a retry.
<1>h. ASSUME NEW step \in {"cancel", "retry"}, NEW p \in Posts, Press(w),
             Becomes(w, [Rest EXCEPT !.pc = step, !.post = p, !.gen = posts[p].gen]),
             UNCHANGED <<source, posts, rows, live, faults, history>>
      PROVE  TypeInv'
  <2>1. PICK j : j = [Rest EXCEPT !.pc = step, !.post = p, !.gen = posts[p].gen]
    OBVIOUS
  <2>2. GoodWorker(j) /\ j.pc # "check"
    BY <1>p, <2>1, RestGood DEF GoodWorker, Worker, Steps, AtPost, AtDispatch, AtItem
  <2> QED BY <1>h, <1>t, <1>k, <2>1, <2>2, WorkerStepType
<1>1. ASSUME NEW p \in Posts, PostNow(w, p) PROVE TypeInv'
  <2>1. NeedsEcho(p, posts[p].gen) => posts[p].gen < MaxEchoes
    BY <1>1 DEF PostNow, NeedsEcho
  <2>2. PICK e : e = WithEcho(p, posts[p].gen)
    OBVIOUS
  <2>3. GoodPost(e) /\ e.gen \in 0..MaxEchoes /\ e.tries = posts[p].tries
    BY <2>1, <2>2, WithEchoGood
  <2>4. posts[p].tries < MaxTries
    BY <1>1, <1>p DEF PostNow, GoodPost, Waiting
  <2>5. PICK q : q = [e EXCEPT !.status = "sending", !.token = w, !.left = SendTicks]
    OBVIOUS
  <2>6. GoodPost(q) /\ q.tries < MaxTries
    <3>1. SendTicks \in 0..SendTicks
      BY QueueBoundAssumption
    <3> QED BY <2>3, <2>4, <2>5, <3>1 DEF GoodPost, Post, PostStatuses
  <2>7. PICK b \in BOOLEAN : b = ~ live
    BY <1>t
  <2>8. PICK j : j = Holder("claim", p, e.gen, e.tries, b)
    OBVIOUS
  <2>9. GoodWorker(j) /\ j.pc = "claim"
    <3>1. "claim" \in AtDispatch \cup {"cancel", "retry"}
      BY DEF AtDispatch
    <3> QED BY <1>p, <2>3, <2>4, <2>8, <3>1, HolderGood
  <2>10. Becomes(w, j) /\ posts' = [posts EXCEPT ![p] = q]
    BY <1>1, <2>2, <2>5, <2>7, <2>8 DEF PostNow, Holder
  <2>11. rows' \in [Posts -> Row] /\ approved' \subseteq Posts /\ presses' \in 0..MaxPresses
    BY <1>1, <1>t, <1>r, <1>k DEF PostNow
  <2>12. UNCHANGED <<source, live, faults, appeared, doubt>>
    BY <1>1 DEF PostNow
  <2>13. HoldersKeepTries(w, p, q)
    BY <2>6 DEF HoldersKeepTries
  <2> QED BY <1>t, <2>6, <2>9, <2>10, <2>11, <2>12, <2>13, PostStepType
<1>2. ASSUME NEW p \in Posts, Cancel(w, p) PROVE TypeInv'
  BY <1>2, <1>h DEF Cancel
<1>3. ASSUME NEW p \in Posts, Retry(w, p) PROVE TypeInv'
  BY <1>3, <1>h DEF Retry
<1>4. ASSUME NEW p \in Posts, ComposePost(w, p) PROVE TypeInv'
  <2>1. worker[w].item \in Items
    BY <1>4, <1>t DEF ComposePost, GoodWorker, AtItem
  <2>2. PICK q : q = NewPost(worker[w].item, "queued", NextSlot)
    OBVIOUS
  <2>3. GoodPost(q) /\ q.tries < MaxTries
    BY <2>1, <2>2, NewPostGood, NextSlotType DEF MaxTries
  <2>4. /\ Becomes(w, Rest) /\ posts' = [posts EXCEPT ![p] = q]
        /\ UNCHANGED <<source, rows, live, presses, faults, history>>
    BY <1>4, <2>2 DEF ComposePost
  <2>5. HoldersKeepTries(w, p, q)
    BY <2>3 DEF HoldersKeepTries
  <2> QED BY <1>t, <1>r, <2>3, <2>4, <2>5, PostStepType
<1>5. ASSUME NEW i \in Items, Compose(w, i) PROVE TypeInv'
  <2> DEFINE j == [Rest EXCEPT !.pc = "compose", !.item = i]
  <2>1. GoodWorker(j) /\ j.pc # "check"
    BY RestGood DEF GoodWorker, Worker, Steps, AtPost, AtDispatch, AtItem
  <2>2. Becomes(w, j) /\ Press(w) /\ UNCHANGED <<source, posts, rows, live, faults, history>>
    BY <1>5 DEF Compose
  <2> HIDE DEF j
  <2> QED BY <1>t, <1>k, <2>1, <2>2, WorkerStepType
<1>6. ASSUME CancelPost(w) PROVE TypeInv'
  <2>1. worker[w].post \in Posts
    BY <1>6, <1>t DEF CancelPost, GoodWorker, AtPost
  <2>2. PICK p \in Posts : p = worker[w].post
    BY <2>1
  <2>3. PICK q : q = IF SameEcho(w)
                     THEN [posts[p] EXCEPT !.status = "cancelled", !.echo = FALSE, !.readers = {}]
                     ELSE [posts[p] EXCEPT !.status = "cancelled"]
    OBVIOUS
  <2>4. GoodPost(q) /\ q.tries = posts[p].tries /\ q.token = posts[p].token
    <3>1. {} \in SUBSET Workers /\ FALSE \in BOOLEAN
      OBVIOUS
    <3>2. CASE SameEcho(w)
      BY <1>p, <2>3, <3>1, <3>2 DEF GoodPost, Post, PostStatuses, Waiting
    <3>3. CASE ~ SameEcho(w)
      BY <1>p, <2>3, <3>3 DEF GoodPost, Post, PostStatuses, Waiting
    <3> QED BY <3>2, <3>3
  <2>5. Becomes(w, Rest) /\ posts' = [posts EXCEPT ![p] = q]
    BY <1>6, <2>2, <2>3 DEF CancelPost
  <2>6. rows' \in [Posts -> Row] /\ doubt' \subseteq Posts
    BY <1>6, <1>t, <1>r, <2>2 DEF CancelPost
  <2>7. UNCHANGED <<source, live, presses, faults, appeared, approved>>
    BY <1>6 DEF CancelPost
  <2>8. HoldersKeepTries(w, p, q)
    BY <2>4 DEF HoldersKeepTries
  <2> QED BY <1>t, <1>r, <2>4, <2>5, <2>6, <2>7, <2>8, PostStepType
<1>7. ASSUME RetryPost(w) PROVE TypeInv'
  <2>1. worker[w].post \in Posts
    BY <1>7, <1>t DEF RetryPost, GoodWorker, AtPost
  <2>2. PICK p \in Posts : p = worker[w].post
    BY <2>1
  <2>3. PICK rs : rs = IF SameEcho(w) THEN {} ELSE posts[p].readers
    OBVIOUS
  <2>4. PICK q : q = [posts[p] EXCEPT !.status = "queued", !.tries = 0, !.readers = rs]
    OBVIOUS
  <2>5. GoodPost(q) /\ q.tries < MaxTries
    <3>1. rs \in SUBSET Workers
      BY <1>p, <2>3 DEF GoodPost, Post
    <3>2. 0 \in 0..MaxTries /\ 0 < MaxTries
      BY DEF MaxTries
    <3> QED BY <1>p, <2>4, <3>1, <3>2 DEF GoodPost, Post, PostStatuses
  <2>6. Becomes(w, Rest) /\ posts' = [posts EXCEPT ![p] = q]
    <3>1. CASE SameEcho(w)
      BY <1>7, <2>2, <2>3, <2>4, <3>1 DEF RetryPost
    <3>2. CASE ~ SameEcho(w)
      BY <1>7, <1>t, <2>2, <2>3, <2>4, <3>2 DEF RetryPost, Post
    <3> QED BY <3>1, <3>2
  <2>7. rows' \in [Posts -> Row] /\ doubt' \subseteq Posts
    BY <1>7, <1>t, <1>r, <2>2 DEF RetryPost
  <2>8. UNCHANGED <<source, live, presses, faults, appeared, approved>>
    BY <1>7 DEF RetryPost
  <2>9. HoldersKeepTries(w, p, q)
    BY <2>5 DEF HoldersKeepTries
  <2> QED BY <1>t, <1>r, <2>5, <2>6, <2>7, <2>8, <2>9, PostStepType
<1> QED BY <1>1, <1>2, <1>3, <1>4, <1>5, <1>6, <1>7 DEF Route

\* The steps that move no worker leave every post to its holder.
LEMMA PostsStepType ==
  ASSUME TypeInv, UNCHANGED worker,
         \A p \in Posts : /\ GoodPost(posts'[p])
                         /\ posts'[p].token \in {posts[p].token, Null}
                         /\ posts'[p].tries = posts[p].tries,
         posts' \in [Posts -> Post],
         source' \in [Items -> Row], rows' \in [Posts -> Row], live' \in BOOLEAN,
         presses' \in 0..MaxPresses, UNCHANGED <<faults, appeared, doubt, approved>>
  PROVE  TypeInv'
<1>1. \A v \in Workers : MayPutBack(v)'
  <2> SUFFICES ASSUME NEW v \in Workers, worker[v].pc = "check",
                      posts'[worker[v].post].token = v
               PROVE  posts'[worker[v].post].tries < MaxTries
    BY DEF MayPutBack
  <2>1. MayPutBack(v) /\ worker[v].post \in Posts
    BY DEF TypeInv, GoodWorker, AtPost, AtDispatch
  <2> QED BY <2>1, NullAssumption DEF MayPutBack
<1>2. \A v \in Workers : GoodWorker(worker'[v])
  BY DEF TypeInv
<1>3. TypeOK'
  BY DEF TypeInv, TypeOK
<1> QED BY <1>1, <1>2, <1>3 DEF TypeInv

LEMMA EscapeType == TypeInv /\ (\E w \in Workers : Escape(w)) => TypeInv'
<1> SUFFICES ASSUME TypeInv, NEW w \in Workers, Escape(w) PROVE TypeInv'
  OBVIOUS
<1> USE DEF history
<1>t. /\ source \in [Items -> Row] /\ rows \in [Posts -> Row] /\ posts \in [Posts -> Post]
      /\ presses \in 0..MaxPresses /\ faults \in 0..MaxFaults /\ faults \in Nat
      /\ appeared \in [Posts -> 0..2] /\ doubt \subseteq Posts /\ approved \subseteq Posts
      /\ GoodWorker(worker[w]) /\ MayPutBack(w) /\ live \in BOOLEAN
      /\ MaxFaults \in Nat /\ MaxPresses \in Nat /\ presses \in Nat
  BY QueueBoundAssumption DEF TypeInv, TypeOK
<1>r. GoodWorker(Rest) /\ Rest.pc = "idle" /\ Absent \in Row
  BY RestGood, AttemptAssumption DEF Rest, Absent, Row, Statuses
<1>1. faults' \in 0..MaxFaults /\ UNCHANGED <<source, rows, live, presses, appeared, approved>>
  BY <1>t DEF Escape
<1>2. doubt' \subseteq Posts
  <2>1. worker[w].pc = "record" => worker[w].post \in Posts
    BY <1>t DEF GoodWorker, AtPost, AtDispatch
  <2> QED BY <1>t, <2>1 DEF Escape
<1>3. CASE posts' = [p \in Posts |-> [posts[p] EXCEPT !.readers = @ \ {w}]] /\ Becomes(w, Rest)
  <2>1. \A p \in Posts : /\ GoodPost(posts'[p]) /\ posts'[p].token = posts[p].token
                         /\ posts'[p].tries = posts[p].tries
    BY <1>3 DEF TypeInv, GoodPost, Post
  <2>2. worker' = [worker EXCEPT ![w] = Rest] /\ worker \in [Workers -> Worker] /\ Rest \in Worker
    BY <1>3, <1>r DEF Becomes, TypeInv, TypeOK, GoodWorker
  <2>3. \A v \in Workers : GoodWorker(worker'[v])
    BY <1>r, <2>2 DEF TypeInv
  <2>4. \A v \in Workers : MayPutBack(v)'
    <3> SUFFICES ASSUME NEW v \in Workers, worker'[v].pc = "check",
                        posts'[worker'[v].post].token = v
                 PROVE  posts'[worker'[v].post].tries < MaxTries
      BY DEF MayPutBack
    <3>1. v # w /\ worker'[v] = worker[v]
      BY <1>r, <2>2
    <3>2. MayPutBack(v) /\ worker[v].post \in Posts
      BY <3>1 DEF TypeInv, GoodWorker, AtPost, AtDispatch
    <3> QED BY <2>1, <3>1, <3>2 DEF MayPutBack
  <2>5. posts' \in [Posts -> Post]
    BY <1>3, <2>1 DEF GoodPost
  <2>6. worker' \in [Workers -> Worker]
    BY <2>2
  <2>7. TypeOK'
    BY <1>t, <1>1, <1>2, <2>5, <2>6 DEF TypeOK
  <2> QED BY <2>1, <2>3, <2>4, <2>7 DEF TypeInv
<1>4. CASE worker[w].pc \in {"prepare", "send", "record"} /\ Goto(w, "raised") /\ UNCHANGED posts
  <2>1. PICK j : j = [worker[w] EXCEPT !.pc = "raised"]
    OBVIOUS
  <2>2. GoodWorker(j) /\ j.pc # "check"
    BY <1>t, <1>4, <2>1 DEF GoodWorker, Worker, Steps, AtPost, AtDispatch, AtItem
  <2>3. Becomes(w, j)
    BY <1>4, <2>1 DEF Goto
  <2> QED BY <1>t, <1>1, <1>2, <1>4, <2>2, <2>3, WorkerStepType
<1> QED BY <1>3, <1>4 DEF Escape

LEMMA TableType == TypeInv /\ (ReclaimLapsed \/ Edit \/ DeleteFeed \/ Tick) => TypeInv'
<1> SUFFICES ASSUME TypeInv, ReclaimLapsed \/ Edit \/ DeleteFeed \/ Tick PROVE TypeInv'
  OBVIOUS
<1> USE DEF history
<1>t. /\ source \in [Items -> Row] /\ rows \in [Posts -> Row] /\ posts \in [Posts -> Post]
      /\ presses \in 0..MaxPresses /\ live \in BOOLEAN
      /\ MaxPresses \in Nat /\ \A p \in Posts : GoodPost(posts[p])
  BY QueueBoundAssumption DEF TypeInv, TypeOK
<1>1. ASSUME ReclaimLapsed PROVE TypeInv'
  <2>1. posts' = [p \in Posts |->
          IF posts[p].status = "sending" /\ posts[p].left = 0
          THEN [posts[p] EXCEPT !.status = "queued", !.token = Null] ELSE posts[p]]
    BY <1>1 DEF ReclaimLapsed
  <2>2. ASSUME NEW p \in Posts
        PROVE  /\ GoodPost(posts'[p])
               /\ posts'[p].token \in {posts[p].token, Null}
               /\ posts'[p].tries = posts[p].tries
    <3>1. CASE posts[p].status = "sending" /\ posts[p].left = 0
      <4>1. PICK q : q = [posts[p] EXCEPT !.status = "queued", !.token = Null]
        OBVIOUS
      <4>2. posts'[p] = q /\ GoodPost(posts[p])
        BY <1>t, <2>1, <3>1, <4>1
      <4>3. q \in Post /\ q.tries = posts[p].tries /\ q.token = Null
        BY <4>1, <4>2 DEF GoodPost, Post, PostStatuses
      <4>4. posts[p].tries < MaxTries
        BY <3>1, <4>2 DEF GoodPost, Waiting
      <4> QED BY <4>2, <4>3, <4>4 DEF GoodPost
    <3>2. CASE ~ (posts[p].status = "sending" /\ posts[p].left = 0)
      BY <1>t, <2>1, <3>2
    <3> QED BY <3>1, <3>2
  <2>3. posts' \in [Posts -> Post]
    BY <2>1, <2>2 DEF GoodPost
  <2>4. UNCHANGED <<source, rows, live, worker, presses, faults, history>>
    BY <1>1 DEF ReclaimLapsed
  <2> QED BY <1>t, <2>2, <2>3, <2>4, PostsStepType
<1>2. ASSUME NEW p \in Posts, EditPost(p) PROVE TypeInv'
  <2>1. PICK slot \in 0..LastSlot : posts' = [posts EXCEPT ![p].at = slot]
    BY <1>2 DEF EditPost
  <2>2. \A q \in Posts : /\ GoodPost(posts'[q]) /\ posts'[q].token = posts[q].token
                         /\ posts'[q].tries = posts[q].tries
    BY <1>t, <2>1 DEF GoodPost, Post
  <2>3. posts' \in [Posts -> Post]
    BY <1>t, <2>1, <2>2 DEF GoodPost
  <2>4. presses' \in 0..MaxPresses /\ UNCHANGED <<source, rows, live, worker, faults, history>>
    BY <1>t, <1>2 DEF EditPost
  <2> QED BY <1>t, <2>2, <2>3, <2>4, PostsStepType
<1>3. ASSUME NEW p \in Posts, NEW q \in Posts, Reorder(p, q) PROVE TypeInv'
  <2>1. posts' = [posts EXCEPT ![p].at = posts[q].at, ![q].at = posts[p].at]
    BY <1>3 DEF Reorder
  <2>2. \A r \in Posts : posts[r].at \in 0..LastSlot
    BY <1>t DEF GoodPost, Post
  <2>3. \A r \in Posts : /\ GoodPost(posts'[r]) /\ posts'[r].token = posts[r].token
                         /\ posts'[r].tries = posts[r].tries
    BY <1>t, <2>1, <2>2 DEF GoodPost, Post
  <2>4. posts' \in [Posts -> Post]
    BY <1>t, <2>1, <2>3 DEF GoodPost
  <2>5. presses' \in 0..MaxPresses /\ UNCHANGED <<source, rows, live, worker, faults, history>>
    BY <1>t, <1>3 DEF Reorder
  <2> QED BY <1>t, <2>3, <2>4, <2>5, PostsStepType
<1>4. ASSUME DeleteFeed PROVE TypeInv'
  <2>1. posts' = [p \in Posts |->
          IF posts[p].status \in {"queued", "draft"}
          THEN [posts[p] EXCEPT !.status = "failed"] ELSE posts[p]]
    BY <1>4 DEF DeleteFeed
  <2>2. \A p \in Posts : /\ GoodPost(posts'[p]) /\ posts'[p].token = posts[p].token
                         /\ posts'[p].tries = posts[p].tries
    <3> SUFFICES ASSUME NEW p \in Posts
                 PROVE  /\ GoodPost(posts'[p]) /\ posts'[p].token = posts[p].token
                        /\ posts'[p].tries = posts[p].tries
      OBVIOUS
    <3>1. posts'[p] \in {posts[p], [posts[p] EXCEPT !.status = "failed"]} /\ GoodPost(posts[p])
      BY <1>t, <2>1
    <3> QED BY <3>1 DEF GoodPost, Post, PostStatuses, Waiting
  <2>3. posts' \in [Posts -> Post]
    BY <2>1, <2>2 DEF GoodPost
  <2>4. presses' \in 0..MaxPresses /\ UNCHANGED <<source, rows, worker, faults, history>>
    BY <1>t, <1>4 DEF DeleteFeed
  <2>5. live' \in BOOLEAN
    BY <1>4, Zenon DEF DeleteFeed
  <2> QED BY <1>t, <2>2, <2>3, <2>4, <2>5, PostsStepType
<1>5. ASSUME Tick PROVE TypeInv'
  <2>1. \A n \in Nat : CountDown(n) \in 0..n
    BY DEF CountDown
  <2>2. \A p \in Posts : /\ posts[p].left \in 0..SendTicks /\ posts[p].at \in 0..LastSlot
                         /\ CountDown(posts[p].left) \in 0..SendTicks
                         /\ CountDown(posts[p].at) \in 0..LastSlot
    BY <1>t, <2>1, QueueBoundAssumption DEF GoodPost, Post
  <2>3. posts' = [p \in Posts |-> [posts[p] EXCEPT !.left = CountDown(@), !.at = CountDown(@)]]
    BY <1>5 DEF Tick
  <2>4. \A p \in Posts : /\ GoodPost(posts'[p]) /\ posts'[p].token = posts[p].token
                         /\ posts'[p].tries = posts[p].tries
    BY <1>t, <2>2, <2>3 DEF GoodPost, Post
  <2>5. posts' \in [Posts -> Post]
    BY <2>3, <2>4 DEF GoodPost
  <2>6. rows' \in [Posts -> Row] /\ source' \in [Items -> Row]
    BY <1>5, <1>t, AgeRowType DEF Tick
  <2>7. UNCHANGED <<live, worker, presses, faults, history>>
    BY <1>5 DEF Tick
  <2> QED BY <1>t, <2>4, <2>5, <2>6, <2>7, PostsStepType
<1> QED BY <1>1, <1>2, <1>3, <1>4, <1>5 DEF Edit

LEMMA TypeStutter == TypeInv /\ UNCHANGED vars => TypeInv'
BY DEF vars, TypeInv, TypeOK, MayPutBack

LEMMA TypeStep == TypeInv /\ [Next]_vars => TypeInv'
BY CheckType, FlushType, DispatchType, RouteType, EscapeType, TableType, TypeStutter
   DEF Next, Act

LEMMA TypeInvariance == Spec => []TypeInv
BY TypeInit, TypeStep, PTL DEF Spec

\* Every variable of the curation queue keeps its type, and a post that may be
\* dispatched has a try left: attempt_count never passes three.
THEOREM TypeCorrect == Spec => []TypeOK
<1>1. TypeInv => TypeOK
  BY DEF TypeInv
<1> QED BY <1>1, TypeInvariance, PTL

-----------------------------------------------------------------------------
(* Deleted feeds stay silent.                                              *)

LEMMA SilentStep == TypeInv /\ SilentInv /\ [Next]_vars => SilentInv'
<1> SUFFICES ASSUME TypeInv, SilentInv, [Next]_vars, NEW v \in Flushers PROVE Silent(v)'
  BY DEF SilentInv
<1> USE DEF history, Silent, Becomes
<1>t. worker \in [Workers -> Worker] /\ v \in Workers /\ Silent(v) /\ live \in BOOLEAN
  BY QueueWorkerAssumption DEF TypeInv, TypeOK, SilentInv
<1>1. ASSUME NEW w \in Workers, NEW i \in Items, ClaimSource(w, i) PROVE Silent(v)'
  BY <1>t, <1>1 DEF ClaimSource, Rest, Worker
<1>2. ASSUME NEW w \in Workers, RefuseItem(w) PROVE Silent(v)'
  BY <1>t, <1>2 DEF RefuseItem, Rest, Worker
<1>3. ASSUME NEW w \in Workers, FindRoom(w) PROVE Silent(v)'
  BY <1>t, <1>3 DEF FindRoom, Goto, Rest, Worker
<1>4. ASSUME NEW w \in Workers, NEW p \in Posts, InsertPost(w, p) PROVE Silent(v)'
  BY <1>t, <1>4 DEF InsertPost, Goto, Rest, Worker
<1>5. ASSUME NEW w \in Workers, MarkSource(w) PROVE Silent(v)'
  BY <1>t, <1>5 DEF MarkSource, Rest, Worker
<1>6. ASSUME NEW w \in Workers, NEW p \in Posts, ClaimDue(w, p) PROVE Silent(v)'
  BY <1>t, <1>6 DEF ClaimDue, Rest, Worker
<1>7. ASSUME NEW w \in Workers, OverHourlyCap(w) PROVE Silent(v)'
  BY <1>t, <1>7 DEF OverHourlyCap, Rest, Worker
<1>8. ASSUME NEW w \in Workers, CheckFeed(w) PROVE Silent(v)'
  BY <1>t, <1>8 DEF CheckFeed, LookUp, Rest, Worker
<1>9. ASSUME NEW w \in Workers, RefusePost(w) PROVE Silent(v)'
  BY <1>t, <1>9 DEF RefusePost, Rest, Worker
<1>10. ASSUME NEW w \in Workers, ClaimForSend(w) PROVE Silent(v)'
  BY <1>t, <1>10 DEF ClaimForSend, Goto, Rest, Worker
<1>11. ASSUME NEW w \in Workers, PreparationFails(w) PROVE Silent(v)'
  BY <1>t, <1>11 DEF PreparationFails, Goto, Rest, Worker
<1>12. ASSUME NEW w \in Workers, GuardClaim(w) PROVE Silent(v)'
  BY <1>t, <1>12 DEF GuardClaim, Goto, Rest, Worker
<1>13. ASSUME NEW w \in Workers, Send(w) PROVE Silent(v)'
  <2>1. worker[w].pc = "send" /\ UNCHANGED live /\ \E step \in {"record", "judge"} : Goto(w, step)
    BY <1>13 DEF Send
  <2> QED BY <1>t, <2>1 DEF Goto, Worker
<1>14. ASSUME NEW w \in Workers, SendFails(w) PROVE Silent(v)'
  BY <1>t, <1>14 DEF SendFails, Goto, Rest, Worker
<1>15. ASSUME NEW w \in Workers, RecordSuccess(w) PROVE Silent(v)'
  BY <1>t, <1>15 DEF RecordSuccess, Goto, Rest, Worker
<1>16. ASSUME NEW w \in Workers, Judge(w) PROVE Silent(v)'
  BY <1>t, <1>16 DEF Judge, Rest, Worker
<1>17. ASSUME NEW w \in Workers, SettleFlush(w) PROVE Silent(v)'
  BY <1>t, <1>17 DEF SettleFlush, Rest, Worker
<1>18. ASSUME NEW w \in Workers, SettleRequest(w) PROVE Silent(v)'
  BY <1>t, <1>18 DEF SettleRequest, Rest, Worker
<1>19. ASSUME NEW w \in Workers, SettleRaised(w) PROVE Silent(v)'
  BY <1>t, <1>19 DEF SettleRaised, Rest, Worker
<1>20. ASSUME NEW w \in Workers, NEW p \in Posts, PostNow(w, p) PROVE Silent(v)'
  BY <1>t, QueueWorkerAssumption, <1>20 DEF PostNow, Press, Rest, Worker
<1>21. ASSUME NEW w \in Workers, NEW p \in Posts, Cancel(w, p) PROVE Silent(v)'
  BY <1>t, <1>21 DEF Cancel, Press, Rest, Worker
<1>22. ASSUME NEW w \in Workers, NEW p \in Posts, Retry(w, p) PROVE Silent(v)'
  BY <1>t, <1>22 DEF Retry, Press, Rest, Worker
<1>23. ASSUME NEW w \in Workers, NEW p \in Posts, ComposePost(w, p) PROVE Silent(v)'
  BY <1>t, <1>23 DEF ComposePost, Rest, Worker
<1>24. ASSUME NEW w \in Workers, NEW i \in Items, Compose(w, i) PROVE Silent(v)'
  BY <1>t, <1>24 DEF Compose, Press, Rest, Worker
<1>25. ASSUME NEW w \in Workers, CancelPost(w) PROVE Silent(v)'
  BY <1>t, <1>25 DEF CancelPost, Rest, Worker
<1>26. ASSUME NEW w \in Workers, RetryPost(w) PROVE Silent(v)'
  BY <1>t, <1>26 DEF RetryPost, Rest, Worker
<1>27. ASSUME NEW w \in Workers, Escape(w) PROVE Silent(v)'
  BY <1>t, <1>27 DEF Escape, Goto, Rest, Worker
<1>28. ASSUME ReclaimLapsed PROVE Silent(v)'
  BY <1>t, <1>28 DEF ReclaimLapsed, Rest, Worker
<1>29. ASSUME NEW p \in Posts, EditPost(p) PROVE Silent(v)'
  BY <1>t, <1>29 DEF EditPost, Rest, Worker
<1>30. ASSUME NEW p \in Posts, NEW q \in Posts, Reorder(p, q) PROVE Silent(v)'
  BY <1>t, <1>30 DEF Reorder, Rest, Worker
<1>31. ASSUME DeleteFeed PROVE Silent(v)'
  BY <1>t, <1>31 DEF DeleteFeed, Rest, Worker
<1>32. ASSUME Tick PROVE Silent(v)'
  BY <1>t, <1>32 DEF Tick, Rest, Worker
<1>33. ASSUME UNCHANGED vars PROVE Silent(v)'
  BY <1>t, <1>33 DEF vars
<1> QED BY <1>1, <1>2, <1>3, <1>4, <1>5, <1>6, <1>7, <1>8, <1>9, <1>10, <1>11,
     <1>12, <1>13, <1>14, <1>15, <1>16, <1>17, <1>18, <1>19, <1>20, <1>21, <1>22,
     <1>23, <1>24, <1>25, <1>26, <1>27, <1>28, <1>29, <1>30, <1>31, <1>32, <1>33 DEF
     Next, Act, Check, Flush, Dispatch, Route, Edit

\* The flush job never sends a post it claimed after the feed was deleted: _flush_queue
\* looks at the feed when it claims the post and again before it dispatches.
THEOREM DeletedFeedsAreSilent == Spec => []DeletedFeedsStaySilent
<1>1. Init => SilentInv
  BY QueueWorkerAssumption DEF Init, SilentInv, Silent, Rest
<1>2. SilentInv => DeletedFeedsStaySilent
  BY DEF SilentInv, Silent, DeletedFeedsStaySilent
<1> QED BY <1>1, <1>2, TypeInvariance, SilentStep, PTL DEF Spec

-----------------------------------------------------------------------------
(* The traces of a post.                                                   *)

\* What the proofs below use of the types.
Typed ==
  /\ source \in [Items -> Row] /\ posts \in [Posts -> Post] /\ rows \in [Posts -> Row]
  /\ live \in BOOLEAN /\ worker \in [Workers -> Worker] /\ appeared \in [Posts -> 0..2]
  /\ \A w \in Workers : /\ worker[w].pc \in AtPost => worker[w].post \in Posts
                        /\ worker[w].pc \in AtItem => worker[w].item \in Items

LEMMA TypeInvTyped == TypeInv => Typed
BY DEF TypeInv, TypeOK, Typed, GoodWorker

\* The posts that InsertPost and ComposePost store.
NewPosts(i) == {NewPost(i, "draft", 0), NewPost(i, "queued", 0), NewPost(i, "queued", NextSlot)}

LEMMA NewPostsStand ==
  ASSUME TypeInv, NEW w \in Workers, worker[w].pc \in AtItem, NEW new \in NewPosts(worker[w].item)
  PROVE  /\ new.status \in {"draft", "queued"} /\ new.item = worker[w].item /\ new.echo
         /\ new.draft => new.status = "draft"
         /\ new \in Post
<1>1. worker[w].item \in Items
  BY DEF TypeInv, GoodWorker
<1>2. NextSlot \in 0..LastSlot /\ 0 \in 0..LastSlot
  BY NextSlotType, QueueBoundAssumption
<1>3. PICK status \in {"draft", "queued"}, slot \in 0..LastSlot : new = NewPost(worker[w].item, status, slot)
  BY <1>2 DEF NewPosts
<1> QED BY <1>1, <1>3, NewPostGood DEF GoodPost

\* A step that stores a post.
LEMMA StoringStep ==
  ASSUME TypeInv, NEW w \in Workers, NEW p \in Posts, InsertPost(w, p) \/ ComposePost(w, p)
  PROVE  \E new \in NewPosts(worker[w].item) :
           /\ posts' = [posts EXCEPT ![p] = new] /\ posts[p].status = "none"
           /\ worker[w].pc \in AtItem
BY DEF InsertPost, ComposePost, NewPosts, AtItem

LEMMA NoneStep == TypeInv /\ NoneInv /\ [Next]_vars => NoneInv'
<1> SUFFICES ASSUME TypeInv, NoneInv, [Next]_vars, NEW x \in Posts PROVE NoTrace(x)'
  BY DEF NoneInv
<1> USE DEF history, NoTrace, Becomes, AtPost, AtDispatch
<1>t. Typed /\ NoTrace(x) /\ x # Null
  BY TypeInvTyped, QueueWorkerAssumption DEF NoneInv
<1>a. AgeRow(Absent) = Absent
  BY DEF AgeRow, Absent, CountDown
<1>n. ASSUME NEW w \in Workers, NEW p \in Posts, InsertPost(w, p) \/ ComposePost(w, p)
      PROVE  \E new \in Post : posts' = [posts EXCEPT ![p] = new] /\ new.status # "none"
  BY <1>n, StoringStep, NewPostsStand
<1>1. ASSUME NEW w \in Workers, NEW i \in Items, ClaimSource(w, i) PROVE NoTrace(x)'
  BY <1>t, <1>1 DEF ClaimSource, Rest, Typed, Worker, Post
<1>2. ASSUME NEW w \in Workers, RefuseItem(w) PROVE NoTrace(x)'
  BY <1>t, <1>2 DEF RefuseItem, Rest, Typed, Worker, Post
<1>3. ASSUME NEW w \in Workers, FindRoom(w) PROVE NoTrace(x)'
  BY <1>t, <1>3 DEF FindRoom, Goto, Rest, Typed, Worker, Post
<1>4. ASSUME NEW w \in Workers, NEW p \in Posts, InsertPost(w, p) PROVE NoTrace(x)'
  <2>1. PICK new \in Post : posts' = [posts EXCEPT ![p] = new] /\ new.status # "none"
    BY <1>4, <1>n
  <2>2. Goto(w, "mark") /\ UNCHANGED <<rows, appeared>>
    BY <1>4 DEF InsertPost
  <2> QED BY <1>t, <2>1, <2>2 DEF Goto, Typed, Worker
<1>5. ASSUME NEW w \in Workers, MarkSource(w) PROVE NoTrace(x)'
  BY <1>t, <1>5 DEF MarkSource, Rest, Typed, Worker, Post
<1>6. ASSUME NEW w \in Workers, NEW p \in Posts, ClaimDue(w, p) PROVE NoTrace(x)'
  BY <1>t, <1>6 DEF ClaimDue, Claimed, Rest, Typed, Worker, Post
<1>7. ASSUME NEW w \in Workers, OverHourlyCap(w) PROVE NoTrace(x)'
  BY <1>t, <1>7 DEF OverHourlyCap, Fenced, Rest, Typed, Worker, Post
<1>8. ASSUME NEW w \in Workers, CheckFeed(w) PROVE NoTrace(x)'
  BY <1>t, <1>8 DEF CheckFeed, LookUp, WithEcho, NeedsEcho, Rest, Typed, Worker,
     Post
<1>9. ASSUME NEW w \in Workers, RefusePost(w) PROVE NoTrace(x)'
  BY <1>t, <1>9 DEF RefusePost, Rest, Typed, Worker, Post
<1>10. ASSUME NEW w \in Workers, ClaimForSend(w) PROVE NoTrace(x)'
  <2>1. CASE ~ SameEcho(w)
    BY <1>t, <1>10, <2>1 DEF ClaimForSend, Goto, Rest, Typed, Worker, Post
  <2>2. CASE SameEcho(w) /\ Claimable(rows[worker[w].post])
    BY <1>t, <1>10, <2>2 DEF ClaimForSend, Goto, Rest, Typed, Worker, Post
  <2>3. CASE SameEcho(w) /\ ~ Claimable(rows[worker[w].post])
    BY <1>t, <1>10, <2>3 DEF ClaimForSend, Goto, Rest, Typed, Worker, Post
  <2> QED BY <2>1, <2>2, <2>3
<1>11. ASSUME NEW w \in Workers, PreparationFails(w) PROVE NoTrace(x)'
  BY <1>t, <1>11 DEF PreparationFails, Goto, Rest, Typed, Worker, Post
<1>12. ASSUME NEW w \in Workers, GuardClaim(w) PROVE NoTrace(x)'
  BY <1>t, <1>12 DEF GuardClaim, Goto, Rest, Typed, Worker, Post
<1>13. ASSUME NEW w \in Workers, Send(w) PROVE NoTrace(x)'
  <2>1. CASE Goto(w, "record") /\ UNCHANGED <<doubt, faults, rows>>
    BY <1>t, <1>13, <2>1 DEF Send, Goto, Rest, Typed, Worker, Post
  <2>2. CASE /\ Goto(w, "judge") /\ doubt' = doubt \cup {worker[w].post}
             /\ rows' = [rows EXCEPT ![worker[w].post] =
                           IF SameEcho(w) THEN FailRow(@, w, FALSE) ELSE @]
    BY <1>t, <1>13, <2>2 DEF Send, Goto, Rest, Typed, Worker, Post
  <2> QED BY <1>13, <2>1, <2>2 DEF Send
<1>14. ASSUME NEW w \in Workers, SendFails(w) PROVE NoTrace(x)'
  BY <1>t, <1>14 DEF SendFails, Goto, Rest, Typed, Worker, Post
<1>15. ASSUME NEW w \in Workers, RecordSuccess(w) PROVE NoTrace(x)'
  BY <1>t, <1>15 DEF RecordSuccess, Goto, Rest, Typed, Worker, Post
<1>16. ASSUME NEW w \in Workers, Judge(w) PROVE NoTrace(x)'
  BY <1>t, <1>16 DEF Judge, Rest, Typed, Worker, Post
<1>17. ASSUME NEW w \in Workers, SettleFlush(w) PROVE NoTrace(x)'
  BY <1>t, <1>17 DEF SettleFlush, Fenced, Again, Finished, Rest, Typed, Worker, Post
<1>18. ASSUME NEW w \in Workers, SettleRequest(w) PROVE NoTrace(x)'
  BY <1>t, <1>18 DEF SettleRequest, Fenced, Again, Finished, Rest, Typed, Worker,
     Post
<1>19. ASSUME NEW w \in Workers, SettleRaised(w) PROVE NoTrace(x)'
  BY <1>t, <1>19 DEF SettleRaised, Fenced, Again, Finished, Rest, Typed, Worker,
     Post
<1>20. ASSUME NEW w \in Workers, NEW p \in Posts, PostNow(w, p) PROVE NoTrace(x)'
  BY <1>t, <1>20 DEF PostNow, Press, WithEcho, NeedsEcho, Rest, Typed, Worker, Post
<1>21. ASSUME NEW w \in Workers, NEW p \in Posts, Cancel(w, p) PROVE NoTrace(x)'
  BY <1>t, <1>21 DEF Cancel, Press, Rest, Typed, Worker, Post
<1>22. ASSUME NEW w \in Workers, NEW p \in Posts, Retry(w, p) PROVE NoTrace(x)'
  BY <1>t, <1>22 DEF Retry, Press, Rest, Typed, Worker, Post
<1>23. ASSUME NEW w \in Workers, NEW p \in Posts, ComposePost(w, p) PROVE NoTrace(x)'
  BY <1>t, <1>n, <1>23 DEF ComposePost, Rest, Typed, Worker, Post
<1>24. ASSUME NEW w \in Workers, NEW i \in Items, Compose(w, i) PROVE NoTrace(x)'
  BY <1>t, <1>24 DEF Compose, Press, Rest, Typed, Worker, Post
<1>25. ASSUME NEW w \in Workers, CancelPost(w) PROVE NoTrace(x)'
  BY <1>t, <1>25 DEF CancelPost, Rest, Typed, Worker, Post
<1>26. ASSUME NEW w \in Workers, RetryPost(w) PROVE NoTrace(x)'
  BY <1>t, <1>26 DEF RetryPost, Rest, Typed, Worker, Post
<1>27. ASSUME NEW w \in Workers, Escape(w) PROVE NoTrace(x)'
  <2>1. CASE /\ posts' = [p \in Posts |-> [posts[p] EXCEPT !.readers = @ \ {w}]]
             /\ Becomes(w, Rest)
    BY <1>t, <1>27, <2>1 DEF Escape, Rest, Typed, Worker, Post
  <2>2. CASE /\ worker[w].pc \in {"prepare", "send", "record"}
             /\ Goto(w, "raised") /\ UNCHANGED posts
    BY <1>t, <1>27, <2>2 DEF Escape, Goto, Rest, Typed, Worker, Post
  <2> QED BY <1>27, <2>1, <2>2 DEF Escape
<1>28. ASSUME ReclaimLapsed PROVE NoTrace(x)'
  BY <1>t, <1>28 DEF ReclaimLapsed, Rest, Typed, Worker, Post
<1>29. ASSUME NEW p \in Posts, EditPost(p) PROVE NoTrace(x)'
  BY <1>t, <1>29 DEF EditPost, Rest, Typed, Worker, Post
<1>30. ASSUME NEW p \in Posts, NEW q \in Posts, Reorder(p, q) PROVE NoTrace(x)'
  BY <1>t, <1>30 DEF Reorder, Rest, Typed, Worker, Post
<1>31. ASSUME DeleteFeed PROVE NoTrace(x)'
  BY <1>t, <1>31 DEF DeleteFeed, Rest, Typed, Worker, Post
<1>32. ASSUME Tick PROVE NoTrace(x)'
  BY <1>t, <1>a, <1>32 DEF Tick, Rest, Typed, Worker, Post
<1>33. ASSUME UNCHANGED vars PROVE NoTrace(x)'
  BY <1>t, <1>33 DEF vars
<1> QED BY <1>1, <1>2, <1>3, <1>4, <1>5, <1>6, <1>7, <1>8, <1>9, <1>10, <1>11,
     <1>12, <1>13, <1>14, <1>15, <1>16, <1>17, <1>18, <1>19, <1>20, <1>21, <1>22,
     <1>23, <1>24, <1>25, <1>26, <1>27, <1>28, <1>29, <1>30, <1>31, <1>32, <1>33 DEF
     Next, Act, Check, Flush, Dispatch, Route, Edit

LEMMA EchoKeptStep ==
  ASSUME TypeInv, NEW x \in Posts, EchoKept(x), [Next]_vars
  PROVE  EchoKept(x)'
<1> USE DEF history, EchoKept, Becomes, AtPost, AtDispatch
<1>t. Typed
  BY TypeInvTyped
<1>a. AgeRow(Absent) = Absent
  BY DEF AgeRow, Absent, CountDown
<1>n. ASSUME NEW w \in Workers, NEW p \in Posts, InsertPost(w, p) \/ ComposePost(w, p)
      PROVE  \E new \in Post : posts' = [posts EXCEPT ![p] = new] /\ new.echo
  BY <1>n, StoringStep, NewPostsStand
<1>1. ASSUME NEW w \in Workers, NEW i \in Items, ClaimSource(w, i) PROVE EchoKept(x)'
  BY <1>t, <1>1 DEF ClaimSource, Rest, Typed, Worker, Post
<1>2. ASSUME NEW w \in Workers, RefuseItem(w) PROVE EchoKept(x)'
  BY <1>t, <1>2 DEF RefuseItem, Rest, Typed, Worker, Post
<1>3. ASSUME NEW w \in Workers, FindRoom(w) PROVE EchoKept(x)'
  BY <1>t, <1>3 DEF FindRoom, Goto, Rest, Typed, Worker, Post
<1>4. ASSUME NEW w \in Workers, NEW p \in Posts, InsertPost(w, p) PROVE EchoKept(x)'
  <2>1. PICK new \in Post : posts' = [posts EXCEPT ![p] = new] /\ new.echo
    BY <1>4, <1>n
  <2>2. Goto(w, "mark") /\ UNCHANGED rows
    BY <1>4 DEF InsertPost
  <2> QED BY <1>t, <2>1, <2>2 DEF Goto, Typed, Worker
<1>5. ASSUME NEW w \in Workers, MarkSource(w) PROVE EchoKept(x)'
  BY <1>t, <1>5 DEF MarkSource, Rest, Typed, Worker, Post
<1>6. ASSUME NEW w \in Workers, NEW p \in Posts, ClaimDue(w, p) PROVE EchoKept(x)'
  BY <1>t, <1>6 DEF ClaimDue, Claimed, Rest, Typed, Worker, Post
<1>7. ASSUME NEW w \in Workers, OverHourlyCap(w) PROVE EchoKept(x)'
  BY <1>t, <1>7 DEF OverHourlyCap, Fenced, Rest, Typed, Worker, Post
<1>8. ASSUME NEW w \in Workers, CheckFeed(w) PROVE EchoKept(x)'
  BY <1>t, <1>8 DEF CheckFeed, LookUp, WithEcho, NeedsEcho, Rest, Typed, Worker,
     Post
<1>9. ASSUME NEW w \in Workers, RefusePost(w) PROVE EchoKept(x)'
  BY <1>t, <1>9 DEF RefusePost, Rest, Typed, Worker, Post
<1>10. ASSUME NEW w \in Workers, ClaimForSend(w) PROVE EchoKept(x)'
  <2>1. CASE ~ SameEcho(w)
    BY <1>t, <1>10, <2>1 DEF ClaimForSend, Goto, Rest, Typed, Worker, Post, SameEcho
  <2>2. CASE SameEcho(w) /\ Claimable(rows[worker[w].post])
    BY <1>t, <1>10, <2>2 DEF ClaimForSend, Goto, Rest, Typed, Worker, Post, SameEcho
  <2>3. CASE SameEcho(w) /\ ~ Claimable(rows[worker[w].post])
    BY <1>t, <1>10, <2>3 DEF ClaimForSend, Goto, Rest, Typed, Worker, Post, SameEcho
  <2> QED BY <2>1, <2>2, <2>3
<1>11. ASSUME NEW w \in Workers, PreparationFails(w) PROVE EchoKept(x)'
  BY <1>t, <1>11 DEF PreparationFails, Goto, SameEcho, Rest, Typed, Worker, Post
<1>12. ASSUME NEW w \in Workers, GuardClaim(w) PROVE EchoKept(x)'
  BY <1>t, <1>12 DEF GuardClaim, Goto, Rest, Typed, Worker, Post
<1>13. ASSUME NEW w \in Workers, Send(w) PROVE EchoKept(x)'
  <2>1. CASE Goto(w, "record") /\ UNCHANGED <<doubt, faults, rows>>
    BY <1>t, <1>13, <2>1 DEF Send, Goto, Rest, Typed, Worker, Post, SameEcho
  <2>2. CASE /\ Goto(w, "judge") /\ doubt' = doubt \cup {worker[w].post}
             /\ rows' = [rows EXCEPT ![worker[w].post] =
                           IF SameEcho(w) THEN FailRow(@, w, FALSE) ELSE @]
    BY <1>t, <1>13, <2>2 DEF Send, Goto, Rest, Typed, Worker, Post, SameEcho
  <2> QED BY <1>13, <2>1, <2>2 DEF Send
<1>14. ASSUME NEW w \in Workers, SendFails(w) PROVE EchoKept(x)'
  BY <1>t, <1>14 DEF SendFails, Goto, SameEcho, Rest, Typed, Worker, Post
<1>15. ASSUME NEW w \in Workers, RecordSuccess(w) PROVE EchoKept(x)'
  BY <1>t, <1>15 DEF RecordSuccess, Goto, SameEcho, Rest, Typed, Worker, Post
<1>16. ASSUME NEW w \in Workers, Judge(w) PROVE EchoKept(x)'
  BY <1>t, <1>16 DEF Judge, Rest, Typed, Worker, Post
<1>17. ASSUME NEW w \in Workers, SettleFlush(w) PROVE EchoKept(x)'
  BY <1>t, <1>17 DEF SettleFlush, Fenced, Again, Finished, Rest, Typed, Worker, Post
<1>18. ASSUME NEW w \in Workers, SettleRequest(w) PROVE EchoKept(x)'
  BY <1>t, <1>18 DEF SettleRequest, Fenced, Again, Finished, Rest, Typed, Worker,
     Post
<1>19. ASSUME NEW w \in Workers, SettleRaised(w) PROVE EchoKept(x)'
  BY <1>t, <1>19 DEF SettleRaised, Fenced, Again, Finished, Rest, Typed, Worker,
     Post
<1>20. ASSUME NEW w \in Workers, NEW p \in Posts, PostNow(w, p) PROVE EchoKept(x)'
  BY <1>t, <1>20 DEF PostNow, Press, WithEcho, NeedsEcho, Rest, Typed, Worker, Post
<1>21. ASSUME NEW w \in Workers, NEW p \in Posts, Cancel(w, p) PROVE EchoKept(x)'
  BY <1>t, <1>21 DEF Cancel, Press, Rest, Typed, Worker, Post
<1>22. ASSUME NEW w \in Workers, NEW p \in Posts, Retry(w, p) PROVE EchoKept(x)'
  BY <1>t, <1>22 DEF Retry, Press, Rest, Typed, Worker, Post
<1>23. ASSUME NEW w \in Workers, NEW p \in Posts, ComposePost(w, p) PROVE EchoKept(x)'
  BY <1>t, <1>n, <1>23 DEF ComposePost, Rest, Typed, Worker, Post
<1>24. ASSUME NEW w \in Workers, NEW i \in Items, Compose(w, i) PROVE EchoKept(x)'
  BY <1>t, <1>24 DEF Compose, Press, Rest, Typed, Worker, Post
<1>25. ASSUME NEW w \in Workers, CancelPost(w) PROVE EchoKept(x)'
  BY <1>t, <1>25 DEF CancelPost, SameEcho, Rest, Typed, Worker, Post
<1>26. ASSUME NEW w \in Workers, RetryPost(w) PROVE EchoKept(x)'
  BY <1>t, <1>26 DEF RetryPost, SameEcho, Rest, Typed, Worker, Post
<1>27. ASSUME NEW w \in Workers, Escape(w) PROVE EchoKept(x)'
  <2>1. CASE /\ posts' = [p \in Posts |-> [posts[p] EXCEPT !.readers = @ \ {w}]]
             /\ Becomes(w, Rest)
    BY <1>t, <1>27, <2>1 DEF Escape, Rest, Typed, Worker, Post, SameEcho
  <2>2. CASE /\ worker[w].pc \in {"prepare", "send", "record"}
             /\ Goto(w, "raised") /\ UNCHANGED posts
    BY <1>t, <1>27, <2>2 DEF Escape, Goto, Rest, Typed, Worker, Post, SameEcho
  <2> QED BY <1>27, <2>1, <2>2 DEF Escape
<1>28. ASSUME ReclaimLapsed PROVE EchoKept(x)'
  BY <1>t, <1>28 DEF ReclaimLapsed, Rest, Typed, Worker, Post
<1>29. ASSUME NEW p \in Posts, EditPost(p) PROVE EchoKept(x)'
  BY <1>t, <1>29 DEF EditPost, Rest, Typed, Worker, Post
<1>30. ASSUME NEW p \in Posts, NEW q \in Posts, Reorder(p, q) PROVE EchoKept(x)'
  BY <1>t, <1>30 DEF Reorder, Rest, Typed, Worker, Post
<1>31. ASSUME DeleteFeed PROVE EchoKept(x)'
  BY <1>t, <1>31 DEF DeleteFeed, Rest, Typed, Worker, Post
<1>32. ASSUME Tick PROVE EchoKept(x)'
  BY <1>t, <1>a, <1>32 DEF Tick, Rest, Typed, Worker, Post
<1>33. ASSUME UNCHANGED vars PROVE EchoKept(x)'
  BY <1>t, <1>33 DEF vars
<1> QED BY <1>1, <1>2, <1>3, <1>4, <1>5, <1>6, <1>7, <1>8, <1>9, <1>10, <1>11,
     <1>12, <1>13, <1>14, <1>15, <1>16, <1>17, <1>18, <1>19, <1>20, <1>21, <1>22,
     <1>23, <1>24, <1>25, <1>26, <1>27, <1>28, <1>29, <1>30, <1>31, <1>32, <1>33 DEF
     Next, Act, Check, Flush, Dispatch, Route, Edit

LEMMA ReadStep ==
  ASSUME TypeInv, NoneInv, NEW v \in Workers, Read(v), [Next]_vars
  PROVE  Read(v)'
<1> USE DEF history, Read, Becomes, AtPost, AtDispatch
<1>t. Typed /\ Null \notin Posts /\ MaxEchoes \in Nat
  BY TypeInvTyped, QueueWorkerAssumption, QueueBoundAssumption
<1>o. \A p \in Posts : NoTrace(p)
  BY DEF NoneInv
<1>n. ASSUME NEW w \in Workers, NEW p \in Posts, InsertPost(w, p) \/ ComposePost(w, p)
      PROVE  \E new \in Post : posts' = [posts EXCEPT ![p] = new]
  BY <1>n, StoringStep, NewPostsStand
<1>1. ASSUME NEW w \in Workers, NEW i \in Items, ClaimSource(w, i) PROVE Read(v)'
  BY <1>t, <1>1 DEF ClaimSource, Rest, Typed, Worker, Post
<1>2. ASSUME NEW w \in Workers, RefuseItem(w) PROVE Read(v)'
  BY <1>t, <1>2 DEF RefuseItem, Rest, Typed, Worker, Post
<1>3. ASSUME NEW w \in Workers, FindRoom(w) PROVE Read(v)'
  BY <1>t, <1>3 DEF FindRoom, Goto, Rest, Typed, Worker, Post
<1>4. ASSUME NEW w \in Workers, NEW p \in Posts, InsertPost(w, p) PROVE Read(v)'
  <2>1. posts[p].status = "none"
    BY <1>4 DEF InsertPost
  <2>2. PICK new \in Post : posts' = [posts EXCEPT ![p] = new]
    BY <1>4, <1>n
  <2>3. Goto(w, "mark")
    BY <1>4 DEF InsertPost
  <2> QED BY <1>t, <1>o, <2>1, <2>2, <2>3 DEF Goto, Typed, Worker, NoTrace
<1>5. ASSUME NEW w \in Workers, MarkSource(w) PROVE Read(v)'
  BY <1>t, <1>5 DEF MarkSource, Rest, Typed, Worker, Post
<1>6. ASSUME NEW w \in Workers, NEW p \in Posts, ClaimDue(w, p) PROVE Read(v)'
  BY <1>t, <1>6 DEF ClaimDue, Claimed, Rest, Typed, Worker, Post
<1>7. ASSUME NEW w \in Workers, OverHourlyCap(w) PROVE Read(v)'
  BY <1>t, <1>7 DEF OverHourlyCap, Fenced, Rest, Typed, Worker, Post
<1>8. ASSUME NEW w \in Workers, CheckFeed(w) PROVE Read(v)'
  BY <1>t, <1>8 DEF CheckFeed, LookUp, WithEcho, NeedsEcho, Rest, Typed, Worker,
     Post
<1>9. ASSUME NEW w \in Workers, RefusePost(w) PROVE Read(v)'
  BY <1>t, <1>9 DEF RefusePost, Rest, Typed, Worker, Post
<1>10. ASSUME NEW w \in Workers, ClaimForSend(w) PROVE Read(v)'
  <2>1. CASE ~ SameEcho(w)
    BY <1>t, <1>10, <2>1 DEF ClaimForSend, Goto, Rest, Typed, Worker, Post, SameEcho
  <2>2. CASE SameEcho(w) /\ Claimable(rows[worker[w].post])
    BY <1>t, <1>10, <2>2 DEF ClaimForSend, Goto, Rest, Typed, Worker, Post, SameEcho
  <2>3. CASE SameEcho(w) /\ ~ Claimable(rows[worker[w].post])
    BY <1>t, <1>10, <2>3 DEF ClaimForSend, Goto, Rest, Typed, Worker, Post, SameEcho
  <2> QED BY <2>1, <2>2, <2>3
<1>11. ASSUME NEW w \in Workers, PreparationFails(w) PROVE Read(v)'
  BY <1>t, <1>11 DEF PreparationFails, Goto, SameEcho, Rest, Typed, Worker, Post
<1>12. ASSUME NEW w \in Workers, GuardClaim(w) PROVE Read(v)'
  BY <1>t, <1>12 DEF GuardClaim, Goto, Rest, Typed, Worker, Post
<1>13. ASSUME NEW w \in Workers, Send(w) PROVE Read(v)'
  <2>1. CASE Goto(w, "record") /\ UNCHANGED <<doubt, faults, rows>>
    BY <1>t, <1>13, <2>1 DEF Send, Goto, Rest, Typed, Worker, Post, SameEcho
  <2>2. CASE /\ Goto(w, "judge") /\ doubt' = doubt \cup {worker[w].post}
             /\ rows' = [rows EXCEPT ![worker[w].post] =
                           IF SameEcho(w) THEN FailRow(@, w, FALSE) ELSE @]
    BY <1>t, <1>13, <2>2 DEF Send, Goto, Rest, Typed, Worker, Post, SameEcho
  <2> QED BY <1>13, <2>1, <2>2 DEF Send
<1>14. ASSUME NEW w \in Workers, SendFails(w) PROVE Read(v)'
  BY <1>t, <1>14 DEF SendFails, Goto, SameEcho, Rest, Typed, Worker, Post
<1>15. ASSUME NEW w \in Workers, RecordSuccess(w) PROVE Read(v)'
  BY <1>t, <1>15 DEF RecordSuccess, Goto, SameEcho, Rest, Typed, Worker, Post
<1>16. ASSUME NEW w \in Workers, Judge(w) PROVE Read(v)'
  BY <1>t, <1>16 DEF Judge, Rest, Typed, Worker, Post
<1>17. ASSUME NEW w \in Workers, SettleFlush(w) PROVE Read(v)'
  BY <1>t, <1>17 DEF SettleFlush, Fenced, Again, Finished, Rest, Typed, Worker, Post
<1>18. ASSUME NEW w \in Workers, SettleRequest(w) PROVE Read(v)'
  BY <1>t, <1>18 DEF SettleRequest, Fenced, Again, Finished, Rest, Typed, Worker,
     Post
<1>19. ASSUME NEW w \in Workers, SettleRaised(w) PROVE Read(v)'
  BY <1>t, <1>19 DEF SettleRaised, Fenced, Again, Finished, Rest, Typed, Worker,
     Post
<1>20. ASSUME NEW w \in Workers, NEW p \in Posts, PostNow(w, p) PROVE Read(v)'
  BY <1>t, <1>20 DEF PostNow, Press, WithEcho, NeedsEcho, Rest, Typed, Worker, Post
<1>21. ASSUME NEW w \in Workers, NEW p \in Posts, Cancel(w, p) PROVE Read(v)'
  BY <1>t, <1>21 DEF Cancel, Press, Rest, Typed, Worker, Post
<1>22. ASSUME NEW w \in Workers, NEW p \in Posts, Retry(w, p) PROVE Read(v)'
  BY <1>t, <1>22 DEF Retry, Press, Rest, Typed, Worker, Post
<1>23. ASSUME NEW w \in Workers, NEW p \in Posts, ComposePost(w, p) PROVE Read(v)'
  <2>1. posts[p].status = "none"
    BY <1>23 DEF ComposePost
  <2>2. PICK new \in Post : posts' = [posts EXCEPT ![p] = new]
    BY <1>23, <1>n
  <2>3. Becomes(w, Rest)
    BY <1>23 DEF ComposePost
  <2> QED BY <1>t, <1>o, <2>1, <2>2, <2>3 DEF Rest, Typed, Worker, NoTrace
<1>24. ASSUME NEW w \in Workers, NEW i \in Items, Compose(w, i) PROVE Read(v)'
  BY <1>t, <1>24 DEF Compose, Press, Rest, Typed, Worker, Post
<1>25. ASSUME NEW w \in Workers, CancelPost(w) PROVE Read(v)'
  BY <1>t, <1>25 DEF CancelPost, SameEcho, Rest, Typed, Worker, Post
<1>26. ASSUME NEW w \in Workers, RetryPost(w) PROVE Read(v)'
  BY <1>t, <1>26 DEF RetryPost, SameEcho, Rest, Typed, Worker, Post
<1>27. ASSUME NEW w \in Workers, Escape(w) PROVE Read(v)'
  <2>1. CASE /\ posts' = [p \in Posts |-> [posts[p] EXCEPT !.readers = @ \ {w}]]
             /\ Becomes(w, Rest)
    BY <1>t, <1>27, <2>1 DEF Escape, Rest, Typed, Worker, Post, SameEcho
  <2>2. CASE /\ worker[w].pc \in {"prepare", "send", "record"}
             /\ Goto(w, "raised") /\ UNCHANGED posts
    BY <1>t, <1>27, <2>2 DEF Escape, Goto, Rest, Typed, Worker, Post, SameEcho
  <2> QED BY <1>27, <2>1, <2>2 DEF Escape
<1>28. ASSUME ReclaimLapsed PROVE Read(v)'
  <2>1. \A p \in Posts : posts'[p].gen = posts[p].gen
    BY <1>t, <1>28 DEF ReclaimLapsed, Typed, Post
  <2>2. UNCHANGED worker
    BY <1>28 DEF ReclaimLapsed
  <2> QED BY <1>t, <2>1, <2>2
<1>29. ASSUME NEW p \in Posts, EditPost(p) PROVE Read(v)'
  BY <1>t, <1>29 DEF EditPost, Rest, Typed, Worker, Post
<1>30. ASSUME NEW p \in Posts, NEW q \in Posts, Reorder(p, q) PROVE Read(v)'
  BY <1>t, <1>30 DEF Reorder, Rest, Typed, Worker, Post
<1>31. ASSUME DeleteFeed PROVE Read(v)'
  BY <1>t, <1>31 DEF DeleteFeed, Rest, Typed, Worker, Post
<1>32. ASSUME Tick PROVE Read(v)'
  <2>1. /\ posts' = [p \in Posts |-> [posts[p] EXCEPT !.left = CountDown(@), !.at = CountDown(@)]]
        /\ UNCHANGED worker
    BY <1>32 DEF Tick
  <2>2. \A p \in Posts : posts[p] \in Post
    BY <1>t DEF Typed
  <2>3. \A p \in Posts : posts'[p].gen = posts[p].gen
    BY <2>1, <2>2 DEF Post
  <2> QED BY <1>t, <2>1, <2>3
<1>33. ASSUME UNCHANGED vars PROVE Read(v)'
  BY <1>t, <1>33 DEF vars
<1> QED BY <1>1, <1>2, <1>3, <1>4, <1>5, <1>6, <1>7, <1>8, <1>9, <1>10, <1>11,
     <1>12, <1>13, <1>14, <1>15, <1>16, <1>17, <1>18, <1>19, <1>20, <1>21, <1>22,
     <1>23, <1>24, <1>25, <1>26, <1>27, <1>28, <1>29, <1>30, <1>31, <1>32, <1>33 DEF
     Next, Act, Check, Flush, Dispatch, Route, Edit

LEMMA EchoStep == TypeInv /\ NoneInv /\ EchoInv /\ [Next]_vars => EchoInv'
BY EchoKeptStep, ReadStep DEF EchoInv

-----------------------------------------------------------------------------
(* Handled items are in the queue.                                         *)

LEMMA ItemStep ==
  ASSUME TypeInv, NEW x \in Posts, NoTrace(x), posts[x].item # Null, [Next]_vars
  PROVE  posts'[x].item = posts[x].item
<1> USE DEF history, Becomes, AtPost, AtDispatch
<1>t. Typed /\ posts[x].status # "none" /\ posts[x] \in Post
  BY TypeInvTyped DEF NoTrace, Typed
<1>n. ASSUME NEW w \in Workers, NEW p \in Posts, InsertPost(w, p) \/ ComposePost(w, p)
      PROVE  \E new \in Post : posts' = [posts EXCEPT ![p] = new]
  BY <1>n, StoringStep, NewPostsStand
<1>1. ASSUME NEW w \in Workers, NEW i \in Items, ClaimSource(w, i) PROVE posts'[x].item = posts[x].item
  BY <1>t, <1>1 DEF ClaimSource, Rest, Typed, Worker, Post
<1>2. ASSUME NEW w \in Workers, RefuseItem(w) PROVE posts'[x].item = posts[x].item
  BY <1>t, <1>2 DEF RefuseItem, Rest, Typed, Worker, Post
<1>3. ASSUME NEW w \in Workers, FindRoom(w) PROVE posts'[x].item = posts[x].item
  BY <1>t, <1>3 DEF FindRoom, Goto, Rest, Typed, Worker, Post
<1>4. ASSUME NEW w \in Workers, NEW p \in Posts, InsertPost(w, p) PROVE posts'[x].item = posts[x].item
  <2>1. PICK new \in Post : posts' = [posts EXCEPT ![p] = new]
    BY <1>4, <1>n
  <2>2. posts[p].status = "none"
    BY <1>4 DEF InsertPost
  <2> QED BY <1>t, <2>1, <2>2 DEF NoTrace, Typed, Post
<1>5. ASSUME NEW w \in Workers, MarkSource(w) PROVE posts'[x].item = posts[x].item
  BY <1>t, <1>5 DEF MarkSource, Rest, Typed, Worker, Post
<1>6. ASSUME NEW w \in Workers, NEW p \in Posts, ClaimDue(w, p) PROVE posts'[x].item = posts[x].item
  BY <1>t, <1>6 DEF ClaimDue, Claimed, Rest, Typed, Worker, Post
<1>7. ASSUME NEW w \in Workers, OverHourlyCap(w) PROVE posts'[x].item = posts[x].item
  BY <1>t, <1>7 DEF OverHourlyCap, Fenced, Rest, Typed, Worker, Post
<1>8. ASSUME NEW w \in Workers, CheckFeed(w) PROVE posts'[x].item = posts[x].item
  BY <1>t, <1>8 DEF CheckFeed, LookUp, WithEcho, NeedsEcho, Rest, Typed, Worker,
     Post
<1>9. ASSUME NEW w \in Workers, RefusePost(w) PROVE posts'[x].item = posts[x].item
  BY <1>t, <1>9 DEF RefusePost, Rest, Typed, Worker, Post
<1>10. ASSUME NEW w \in Workers, ClaimForSend(w) PROVE posts'[x].item = posts[x].item
  <2>1. CASE ~ SameEcho(w)
    BY <1>t, <1>10, <2>1 DEF ClaimForSend, Goto, Rest, Typed, Worker, Post
  <2>2. CASE SameEcho(w) /\ Claimable(rows[worker[w].post])
    BY <1>t, <1>10, <2>2 DEF ClaimForSend, Goto, Rest, Typed, Worker, Post
  <2>3. CASE SameEcho(w) /\ ~ Claimable(rows[worker[w].post])
    BY <1>t, <1>10, <2>3 DEF ClaimForSend, Goto, Rest, Typed, Worker, Post
  <2> QED BY <2>1, <2>2, <2>3
<1>11. ASSUME NEW w \in Workers, PreparationFails(w) PROVE posts'[x].item = posts[x].item
  BY <1>t, <1>11 DEF PreparationFails, Goto, Rest, Typed, Worker, Post
<1>12. ASSUME NEW w \in Workers, GuardClaim(w) PROVE posts'[x].item = posts[x].item
  BY <1>t, <1>12 DEF GuardClaim, Goto, Rest, Typed, Worker, Post
<1>13. ASSUME NEW w \in Workers, Send(w) PROVE posts'[x].item = posts[x].item
  <2>1. CASE Goto(w, "record") /\ UNCHANGED <<doubt, faults, rows>>
    BY <1>t, <1>13, <2>1 DEF Send, Goto, Rest, Typed, Worker, Post
  <2>2. CASE /\ Goto(w, "judge") /\ doubt' = doubt \cup {worker[w].post}
             /\ rows' = [rows EXCEPT ![worker[w].post] =
                           IF SameEcho(w) THEN FailRow(@, w, FALSE) ELSE @]
    BY <1>t, <1>13, <2>2 DEF Send, Goto, Rest, Typed, Worker, Post
  <2> QED BY <1>13, <2>1, <2>2 DEF Send
<1>14. ASSUME NEW w \in Workers, SendFails(w) PROVE posts'[x].item = posts[x].item
  BY <1>t, <1>14 DEF SendFails, Goto, Rest, Typed, Worker, Post
<1>15. ASSUME NEW w \in Workers, RecordSuccess(w) PROVE posts'[x].item = posts[x].item
  BY <1>t, <1>15 DEF RecordSuccess, Goto, Rest, Typed, Worker, Post
<1>16. ASSUME NEW w \in Workers, Judge(w) PROVE posts'[x].item = posts[x].item
  BY <1>t, <1>16 DEF Judge, Rest, Typed, Worker, Post
<1>17. ASSUME NEW w \in Workers, SettleFlush(w) PROVE posts'[x].item = posts[x].item
  BY <1>t, <1>17 DEF SettleFlush, Fenced, Again, Finished, Rest, Typed, Worker, Post
<1>18. ASSUME NEW w \in Workers, SettleRequest(w) PROVE posts'[x].item = posts[x].item
  BY <1>t, <1>18 DEF SettleRequest, Fenced, Again, Finished, Rest, Typed, Worker,
     Post
<1>19. ASSUME NEW w \in Workers, SettleRaised(w) PROVE posts'[x].item = posts[x].item
  BY <1>t, <1>19 DEF SettleRaised, Fenced, Again, Finished, Rest, Typed, Worker,
     Post
<1>20. ASSUME NEW w \in Workers, NEW p \in Posts, PostNow(w, p) PROVE posts'[x].item = posts[x].item
  BY <1>t, <1>20 DEF PostNow, Press, WithEcho, NeedsEcho, Rest, Typed, Worker, Post
<1>21. ASSUME NEW w \in Workers, NEW p \in Posts, Cancel(w, p) PROVE posts'[x].item = posts[x].item
  BY <1>t, <1>21 DEF Cancel, Press, Rest, Typed, Worker, Post
<1>22. ASSUME NEW w \in Workers, NEW p \in Posts, Retry(w, p) PROVE posts'[x].item = posts[x].item
  BY <1>t, <1>22 DEF Retry, Press, Rest, Typed, Worker, Post
<1>23. ASSUME NEW w \in Workers, NEW p \in Posts, ComposePost(w, p) PROVE posts'[x].item = posts[x].item
  <2>1. PICK new \in Post : posts' = [posts EXCEPT ![p] = new]
    BY <1>23, <1>n
  <2>2. posts[p].status = "none"
    BY <1>23 DEF ComposePost
  <2> QED BY <1>t, <2>1, <2>2 DEF NoTrace, Typed, Post
<1>24. ASSUME NEW w \in Workers, NEW i \in Items, Compose(w, i) PROVE posts'[x].item = posts[x].item
  BY <1>t, <1>24 DEF Compose, Press, Rest, Typed, Worker, Post
<1>25. ASSUME NEW w \in Workers, CancelPost(w) PROVE posts'[x].item = posts[x].item
  BY <1>t, <1>25 DEF CancelPost, Rest, Typed, Worker, Post
<1>26. ASSUME NEW w \in Workers, RetryPost(w) PROVE posts'[x].item = posts[x].item
  BY <1>t, <1>26 DEF RetryPost, Rest, Typed, Worker, Post
<1>27. ASSUME NEW w \in Workers, Escape(w) PROVE posts'[x].item = posts[x].item
  <2>1. CASE /\ posts' = [p \in Posts |-> [posts[p] EXCEPT !.readers = @ \ {w}]]
             /\ Becomes(w, Rest)
    BY <1>t, <1>27, <2>1 DEF Escape, Rest, Typed, Worker, Post
  <2>2. CASE /\ worker[w].pc \in {"prepare", "send", "record"}
             /\ Goto(w, "raised") /\ UNCHANGED posts
    BY <1>t, <1>27, <2>2 DEF Escape, Goto, Rest, Typed, Worker, Post
  <2> QED BY <1>27, <2>1, <2>2 DEF Escape
<1>28. ASSUME ReclaimLapsed PROVE posts'[x].item = posts[x].item
  BY <1>t, <1>28 DEF ReclaimLapsed, Rest, Typed, Worker, Post
<1>29. ASSUME NEW p \in Posts, EditPost(p) PROVE posts'[x].item = posts[x].item
  BY <1>t, <1>29 DEF EditPost, Rest, Typed, Worker, Post
<1>30. ASSUME NEW p \in Posts, NEW q \in Posts, Reorder(p, q) PROVE posts'[x].item = posts[x].item
  BY <1>t, <1>30 DEF Reorder, Rest, Typed, Worker, Post
<1>31. ASSUME DeleteFeed PROVE posts'[x].item = posts[x].item
  BY <1>t, <1>31 DEF DeleteFeed, Rest, Typed, Worker, Post
<1>32. ASSUME Tick PROVE posts'[x].item = posts[x].item
  BY <1>t, <1>32 DEF Tick, Rest, Typed, Worker, Post
<1>33. ASSUME UNCHANGED vars PROVE posts'[x].item = posts[x].item
  BY <1>t, <1>33 DEF vars
<1> QED BY <1>1, <1>2, <1>3, <1>4, <1>5, <1>6, <1>7, <1>8, <1>9, <1>10, <1>11,
     <1>12, <1>13, <1>14, <1>15, <1>16, <1>17, <1>18, <1>19, <1>20, <1>21, <1>22,
     <1>23, <1>24, <1>25, <1>26, <1>27, <1>28, <1>29, <1>30, <1>31, <1>32, <1>33 DEF
     Next, Act, Check, Flush, Dispatch, Route, Edit

\* A post that is stored keeps its item.
LEMMA StoredStep ==
  ASSUME TypeInv, NoneInv, [Next]_vars, NEW i \in Items, Stored(i)
  PROVE  Stored(i)'
<1>1. PICK x \in Posts : posts[x].item = i
  BY DEF Stored
<1>2. posts'[x].item = i
  BY <1>1, ItemStep, QueueWorkerAssumption DEF NoneInv
<1> QED BY <1>2 DEF Stored

LEMMA QueuedStep ==
  ASSUME TypeInv, NoneInv, HandledInv, [Next]_vars, NEW i \in Items
  PROVE  Queued(i)'
<1> USE DEF history, Queued
<1>t. Typed /\ Queued(i) /\ (Stored(i) => Stored(i)')
  BY TypeInvTyped, StoredStep DEF HandledInv
<1>m. \A w \in Workers : worker[w].pc = "mark" /\ worker[w].item = i => Stored(i)
  BY DEF HandledInv, Marking
<1>1. ASSUME NEW w \in Workers, NEW k \in Items, ClaimSource(w, k) PROVE Queued(i)'
  BY <1>t, <1>1 DEF ClaimSource, ClaimRow, Typed
<1>2. ASSUME NEW w \in Workers, RefuseItem(w) PROVE Queued(i)'
  BY <1>t, RowFate, <1>2 DEF RefuseItem, Typed
<1>3. ASSUME NEW w \in Workers, FindRoom(w) PROVE Queued(i)'
  BY <1>t, <1>3 DEF FindRoom, Goto, Typed
<1>4. ASSUME NEW w \in Workers, NEW p \in Posts, InsertPost(w, p) PROVE Queued(i)'
  BY <1>t, <1>4 DEF InsertPost, Goto, Typed
<1>5. ASSUME NEW w \in Workers, MarkSource(w) PROVE Queued(i)'
  BY <1>t, <1>m, <1>5 DEF MarkSource, FinalizeRow, Typed
<1>6. ASSUME NEW w \in Workers, NEW p \in Posts, ClaimDue(w, p) PROVE Queued(i)'
  BY <1>t, <1>6 DEF ClaimDue, Typed
<1>7. ASSUME NEW w \in Workers, OverHourlyCap(w) PROVE Queued(i)'
  BY <1>t, <1>7 DEF OverHourlyCap, Typed
<1>8. ASSUME NEW w \in Workers, CheckFeed(w) PROVE Queued(i)'
  BY <1>t, <1>8 DEF CheckFeed, LookUp, Typed
<1>9. ASSUME NEW w \in Workers, RefusePost(w) PROVE Queued(i)'
  BY <1>t, <1>9 DEF RefusePost, Typed
<1>10. ASSUME NEW w \in Workers, ClaimForSend(w) PROVE Queued(i)'
  BY <1>t, <1>10 DEF ClaimForSend, Goto, Typed
<1>11. ASSUME NEW w \in Workers, PreparationFails(w) PROVE Queued(i)'
  BY <1>t, <1>11 DEF PreparationFails, Goto, Typed
<1>12. ASSUME NEW w \in Workers, GuardClaim(w) PROVE Queued(i)'
  BY <1>t, <1>12 DEF GuardClaim, Goto, Typed
<1>13. ASSUME NEW w \in Workers, Send(w) PROVE Queued(i)'
  BY <1>t, <1>13 DEF Send, Goto, Typed
<1>14. ASSUME NEW w \in Workers, SendFails(w) PROVE Queued(i)'
  BY <1>t, <1>14 DEF SendFails, Goto, Typed
<1>15. ASSUME NEW w \in Workers, RecordSuccess(w) PROVE Queued(i)'
  BY <1>t, <1>15 DEF RecordSuccess, Goto, Typed
<1>16. ASSUME NEW w \in Workers, Judge(w) PROVE Queued(i)'
  BY <1>t, <1>16 DEF Judge, Typed
<1>17. ASSUME NEW w \in Workers, SettleFlush(w) PROVE Queued(i)'
  BY <1>t, <1>17 DEF SettleFlush, Typed
<1>18. ASSUME NEW w \in Workers, SettleRequest(w) PROVE Queued(i)'
  BY <1>t, <1>18 DEF SettleRequest, Typed
<1>19. ASSUME NEW w \in Workers, SettleRaised(w) PROVE Queued(i)'
  BY <1>t, <1>19 DEF SettleRaised, Typed
<1>20. ASSUME NEW w \in Workers, NEW p \in Posts, PostNow(w, p) PROVE Queued(i)'
  BY <1>t, <1>20 DEF PostNow, Press, Typed
<1>21. ASSUME NEW w \in Workers, NEW p \in Posts, Cancel(w, p) PROVE Queued(i)'
  BY <1>t, <1>21 DEF Cancel, Press, Typed
<1>22. ASSUME NEW w \in Workers, NEW p \in Posts, Retry(w, p) PROVE Queued(i)'
  BY <1>t, <1>22 DEF Retry, Press, Typed
<1>23. ASSUME NEW w \in Workers, NEW p \in Posts, ComposePost(w, p) PROVE Queued(i)'
  BY <1>t, <1>23 DEF ComposePost, Typed
<1>24. ASSUME NEW w \in Workers, NEW k \in Items, Compose(w, k) PROVE Queued(i)'
  BY <1>t, <1>24 DEF Compose, Press, Typed
<1>25. ASSUME NEW w \in Workers, CancelPost(w) PROVE Queued(i)'
  BY <1>t, <1>25 DEF CancelPost, Typed
<1>26. ASSUME NEW w \in Workers, RetryPost(w) PROVE Queued(i)'
  BY <1>t, <1>26 DEF RetryPost, Typed
<1>27. ASSUME NEW w \in Workers, Escape(w) PROVE Queued(i)'
  BY <1>t, <1>27 DEF Escape, Goto, Typed
<1>28. ASSUME ReclaimLapsed PROVE Queued(i)'
  BY <1>t, <1>28 DEF ReclaimLapsed, Typed
<1>29. ASSUME NEW p \in Posts, EditPost(p) PROVE Queued(i)'
  BY <1>t, <1>29 DEF EditPost, Typed
<1>30. ASSUME NEW p \in Posts, NEW q \in Posts, Reorder(p, q) PROVE Queued(i)'
  BY <1>t, <1>30 DEF Reorder, Typed
<1>31. ASSUME DeleteFeed PROVE Queued(i)'
  BY <1>t, <1>31 DEF DeleteFeed, Typed
<1>32. ASSUME Tick PROVE Queued(i)'
  BY <1>t, RowFate, <1>32 DEF Tick, Typed
<1>33. ASSUME UNCHANGED vars PROVE Queued(i)'
  BY <1>t, <1>33 DEF vars
<1> QED BY <1>1, <1>2, <1>3, <1>4, <1>5, <1>6, <1>7, <1>8, <1>9, <1>10, <1>11,
     <1>12, <1>13, <1>14, <1>15, <1>16, <1>17, <1>18, <1>19, <1>20, <1>21, <1>22,
     <1>23, <1>24, <1>25, <1>26, <1>27, <1>28, <1>29, <1>30, <1>31, <1>32, <1>33 DEF
     Next, Act, Check, Flush, Dispatch, Route, Edit

LEMMA MarkingStep ==
  ASSUME TypeInv, NoneInv, HandledInv, [Next]_vars, NEW v \in Workers
  PROVE  Marking(v)'
<1> USE DEF history, Marking, Becomes, AtItem
<1>t. /\ Typed /\ Marking(v)
      /\ worker[v].pc = "mark" => \A k \in Items : k = worker[v].item => Stored(k)'
  <2>1. \A k \in Items : Stored(k) => Stored(k)'
    BY StoredStep
  <2> QED BY <2>1, TypeInvTyped DEF HandledInv
<1>1. ASSUME NEW w \in Workers, NEW i \in Items, ClaimSource(w, i) PROVE Marking(v)'
  BY <1>t, <1>1 DEF ClaimSource, Rest, Typed, Worker
<1>2. ASSUME NEW w \in Workers, RefuseItem(w) PROVE Marking(v)'
  BY <1>t, <1>2 DEF RefuseItem, Rest, Typed, Worker
<1>3. ASSUME NEW w \in Workers, FindRoom(w) PROVE Marking(v)'
  BY <1>t, <1>3 DEF FindRoom, Goto, Rest, Typed, Worker
<1>4. ASSUME NEW w \in Workers, NEW p \in Posts, InsertPost(w, p) PROVE Marking(v)'
  <2>1. PICK new \in Post : posts' = [posts EXCEPT ![p] = new] /\ new.item = worker[w].item
    BY <1>4, StoringStep, NewPostsStand
  <2>2. worker[w].item \in Items /\ Goto(w, "mark")
    BY <1>t, <1>4 DEF InsertPost, Typed, AtItem
  <2>3. posts'[p].item = worker[w].item
    BY <1>t, <2>1 DEF Typed
  <2>4. Stored(worker[w].item)'
    <3>1. PICK k : k = worker[w].item
      OBVIOUS
    <3>2. Stored(k)'
      BY <2>3, <3>1 DEF Stored
    <3>3. worker'[w].item = k
      BY <1>t, <2>2, <3>1 DEF Goto, Typed, Worker
    <3> QED BY <3>2, <3>3
  <2> QED BY <1>t, <2>2, <2>4 DEF Goto, Typed, Worker
<1>5. ASSUME NEW w \in Workers, MarkSource(w) PROVE Marking(v)'
  BY <1>t, <1>5 DEF MarkSource, Rest, Typed, Worker
<1>6. ASSUME NEW w \in Workers, NEW p \in Posts, ClaimDue(w, p) PROVE Marking(v)'
  BY <1>t, <1>6 DEF ClaimDue, Rest, Typed, Worker
<1>7. ASSUME NEW w \in Workers, OverHourlyCap(w) PROVE Marking(v)'
  BY <1>t, <1>7 DEF OverHourlyCap, Rest, Typed, Worker
<1>8. ASSUME NEW w \in Workers, CheckFeed(w) PROVE Marking(v)'
  BY <1>t, <1>8 DEF CheckFeed, LookUp, Rest, Typed, Worker
<1>9. ASSUME NEW w \in Workers, RefusePost(w) PROVE Marking(v)'
  BY <1>t, <1>9 DEF RefusePost, Rest, Typed, Worker
<1>10. ASSUME NEW w \in Workers, ClaimForSend(w) PROVE Marking(v)'
  <2>1. CASE ~ SameEcho(w)
    BY <1>t, <1>10, <2>1 DEF ClaimForSend, Goto, Rest, Typed, Worker
  <2>2. CASE SameEcho(w) /\ Claimable(rows[worker[w].post])
    BY <1>t, <1>10, <2>2 DEF ClaimForSend, Goto, Rest, Typed, Worker
  <2>3. CASE SameEcho(w) /\ ~ Claimable(rows[worker[w].post])
    BY <1>t, <1>10, <2>3 DEF ClaimForSend, Goto, Rest, Typed, Worker
  <2> QED BY <2>1, <2>2, <2>3
<1>11. ASSUME NEW w \in Workers, PreparationFails(w) PROVE Marking(v)'
  BY <1>t, <1>11 DEF PreparationFails, Goto, Rest, Typed, Worker
<1>12. ASSUME NEW w \in Workers, GuardClaim(w) PROVE Marking(v)'
  BY <1>t, <1>12 DEF GuardClaim, Goto, Rest, Typed, Worker
<1>13. ASSUME NEW w \in Workers, Send(w) PROVE Marking(v)'
  <2>1. CASE Goto(w, "record") /\ UNCHANGED <<doubt, faults, rows>>
    BY <1>t, <1>13, <2>1 DEF Send, Goto, Rest, Typed, Worker
  <2>2. CASE /\ Goto(w, "judge") /\ doubt' = doubt \cup {worker[w].post}
             /\ rows' = [rows EXCEPT ![worker[w].post] =
                           IF SameEcho(w) THEN FailRow(@, w, FALSE) ELSE @]
    BY <1>t, <1>13, <2>2 DEF Send, Goto, Rest, Typed, Worker
  <2> QED BY <1>13, <2>1, <2>2 DEF Send
<1>14. ASSUME NEW w \in Workers, SendFails(w) PROVE Marking(v)'
  BY <1>t, <1>14 DEF SendFails, Goto, Rest, Typed, Worker
<1>15. ASSUME NEW w \in Workers, RecordSuccess(w) PROVE Marking(v)'
  BY <1>t, <1>15 DEF RecordSuccess, Goto, Rest, Typed, Worker
<1>16. ASSUME NEW w \in Workers, Judge(w) PROVE Marking(v)'
  BY <1>t, <1>16 DEF Judge, Rest, Typed, Worker
<1>17. ASSUME NEW w \in Workers, SettleFlush(w) PROVE Marking(v)'
  BY <1>t, <1>17 DEF SettleFlush, Rest, Typed, Worker
<1>18. ASSUME NEW w \in Workers, SettleRequest(w) PROVE Marking(v)'
  BY <1>t, <1>18 DEF SettleRequest, Rest, Typed, Worker
<1>19. ASSUME NEW w \in Workers, SettleRaised(w) PROVE Marking(v)'
  BY <1>t, <1>19 DEF SettleRaised, Rest, Typed, Worker
<1>20. ASSUME NEW w \in Workers, NEW p \in Posts, PostNow(w, p) PROVE Marking(v)'
  BY <1>t, <1>20 DEF PostNow, Press, Rest, Typed, Worker
<1>21. ASSUME NEW w \in Workers, NEW p \in Posts, Cancel(w, p) PROVE Marking(v)'
  BY <1>t, <1>21 DEF Cancel, Press, Rest, Typed, Worker
<1>22. ASSUME NEW w \in Workers, NEW p \in Posts, Retry(w, p) PROVE Marking(v)'
  BY <1>t, <1>22 DEF Retry, Press, Rest, Typed, Worker
<1>23. ASSUME NEW w \in Workers, NEW p \in Posts, ComposePost(w, p) PROVE Marking(v)'
  BY <1>t, <1>23 DEF ComposePost, Rest, Typed, Worker
<1>24. ASSUME NEW w \in Workers, NEW i \in Items, Compose(w, i) PROVE Marking(v)'
  BY <1>t, <1>24 DEF Compose, Press, Rest, Typed, Worker
<1>25. ASSUME NEW w \in Workers, CancelPost(w) PROVE Marking(v)'
  BY <1>t, <1>25 DEF CancelPost, Rest, Typed, Worker
<1>26. ASSUME NEW w \in Workers, RetryPost(w) PROVE Marking(v)'
  BY <1>t, <1>26 DEF RetryPost, Rest, Typed, Worker
<1>27. ASSUME NEW w \in Workers, Escape(w) PROVE Marking(v)'
  <2>1. CASE /\ posts' = [p \in Posts |-> [posts[p] EXCEPT !.readers = @ \ {w}]]
             /\ Becomes(w, Rest)
    BY <1>t, <1>27, <2>1 DEF Escape, Rest, Typed, Worker
  <2>2. CASE /\ worker[w].pc \in {"prepare", "send", "record"}
             /\ Goto(w, "raised") /\ UNCHANGED posts
    BY <1>t, <1>27, <2>2 DEF Escape, Goto, Rest, Typed, Worker
  <2> QED BY <1>27, <2>1, <2>2 DEF Escape
<1>28. ASSUME ReclaimLapsed PROVE Marking(v)'
  BY <1>t, <1>28 DEF ReclaimLapsed, Rest, Typed, Worker
<1>29. ASSUME NEW p \in Posts, EditPost(p) PROVE Marking(v)'
  BY <1>t, <1>29 DEF EditPost, Rest, Typed, Worker
<1>30. ASSUME NEW p \in Posts, NEW q \in Posts, Reorder(p, q) PROVE Marking(v)'
  BY <1>t, <1>30 DEF Reorder, Rest, Typed, Worker
<1>31. ASSUME DeleteFeed PROVE Marking(v)'
  BY <1>t, <1>31 DEF DeleteFeed, Rest, Typed, Worker
<1>32. ASSUME Tick PROVE Marking(v)'
  BY <1>t, <1>32 DEF Tick, Rest, Typed, Worker
<1>33. ASSUME UNCHANGED vars PROVE Marking(v)'
  BY <1>t, <1>33 DEF vars, Typed
<1> QED BY <1>1, <1>2, <1>3, <1>4, <1>5, <1>6, <1>7, <1>8, <1>9, <1>10, <1>11,
     <1>12, <1>13, <1>14, <1>15, <1>16, <1>17, <1>18, <1>19, <1>20, <1>21, <1>22,
     <1>23, <1>24, <1>25, <1>26, <1>27, <1>28, <1>29, <1>30, <1>31, <1>32, <1>33 DEF
     Next, Act, Check, Flush, Dispatch, Route, Edit

LEMMA HandledStep == TypeInv /\ NoneInv /\ HandledInv /\ [Next]_vars => HandledInv'
BY QueuedStep, MarkingStep DEF HandledInv

LEMMA NoneInvariance == Spec => []NoneInv
<1>1. Init => NoneInv
  BY QueueWorkerAssumption DEF Init, NoneInv, NoTrace, NoPost, Rest
<1> QED BY <1>1, TypeInvariance, NoneStep, PTL DEF Spec

\* An item the feed check calls handled has a post in the queue: the cursor may pass it.
THEOREM HandledItemsStay == Spec => []HandledItemsAreQueued
<1>1. Init => HandledInv
  BY DEF Init, HandledInv, Queued, Marking, Absent, Rest
<1>2. HandledInv => HandledItemsAreQueued
  BY DEF HandledInv, Queued, Stored, HandledItemsAreQueued
<1> QED BY <1>1, <1>2, TypeInvariance, NoneInvariance, HandledStep, PTL DEF Spec

-----------------------------------------------------------------------------
(* What is called sent was published.                                      *)

LEMMA SentPostStep ==
  ASSUME TypeInv, SentInv, [Next]_vars, NEW x \in Posts
  PROVE  SentPost(x)'
<1> USE DEF history, SentPost, Becomes, AtPost, AtDispatch
<1>t. Typed /\ SentPost(x)
  BY TypeInvTyped DEF SentInv
<1>v. \A w \in Workers :
        \/ worker[w].pc = "record" \/ (worker[w].pc = "settle" /\ worker[w].verdict = "sent")
        => appeared[worker[w].post] > 0
  BY DEF SentInv, SentBy
<1>r. Absent.status # "success"
  BY DEF Absent
<1>1. ASSUME NEW w \in Workers, NEW i \in Items, ClaimSource(w, i) PROVE SentPost(x)'
  BY <1>t, <1>v, <1>1 DEF ClaimSource, Rest, Typed, Worker
<1>2. ASSUME NEW w \in Workers, RefuseItem(w) PROVE SentPost(x)'
  BY <1>t, <1>v, <1>2 DEF RefuseItem, Rest, Typed, Worker
<1>3. ASSUME NEW w \in Workers, FindRoom(w) PROVE SentPost(x)'
  BY <1>t, <1>v, <1>3 DEF FindRoom, Goto, Rest, Typed, Worker
<1>4. ASSUME NEW w \in Workers, NEW p \in Posts, InsertPost(w, p) PROVE SentPost(x)'
  <2>1. PICK new \in Post : posts' = [posts EXCEPT ![p] = new] /\ new.status # "sent"
    BY <1>4, StoringStep, NewPostsStand
  <2>2. UNCHANGED <<rows, appeared>>
    BY <1>4 DEF InsertPost
  <2> QED BY <1>t, <2>1, <2>2 DEF Typed, Post
<1>5. ASSUME NEW w \in Workers, MarkSource(w) PROVE SentPost(x)'
  BY <1>t, <1>v, <1>5 DEF MarkSource, Rest, Typed, Worker
<1>6. ASSUME NEW w \in Workers, NEW p \in Posts, ClaimDue(w, p) PROVE SentPost(x)'
  BY <1>t, <1>v, <1>6 DEF ClaimDue, Claimed, Post, Rest, Typed, Worker
<1>7. ASSUME NEW w \in Workers, OverHourlyCap(w) PROVE SentPost(x)'
  BY <1>t, <1>v, <1>7 DEF OverHourlyCap, Fenced, Post, Rest, Typed, Worker
<1>8. ASSUME NEW w \in Workers, CheckFeed(w) PROVE SentPost(x)'
  BY <1>t, <1>v, <1>r, <1>8 DEF CheckFeed, LookUp, WithEcho, NeedsEcho, Post, Rest,
     Typed, Worker
<1>9. ASSUME NEW w \in Workers, RefusePost(w) PROVE SentPost(x)'
  BY <1>t, <1>v, <1>9 DEF RefusePost, Post, Rest, Typed, Worker
<1>10. ASSUME NEW w \in Workers, ClaimForSend(w) PROVE SentPost(x)'
  <2>1. CASE ~ SameEcho(w)
    BY <1>t, <1>10, <2>1 DEF ClaimForSend, Goto, Rest, Typed, Worker, ClaimRow, Row
  <2>2. CASE SameEcho(w) /\ Claimable(rows[worker[w].post])
    <3>1. rows'[x].status = "success" => rows[x].status = "success"
      BY <1>t, <1>10, <2>2 DEF ClaimForSend, ClaimRow, Typed, Row
    <3>2. UNCHANGED <<posts, appeared>>
      BY <1>10, <2>2 DEF ClaimForSend
    <3> QED BY <1>t, <3>1, <3>2
  <2>3. CASE SameEcho(w) /\ ~ Claimable(rows[worker[w].post])
    BY <1>t, <1>10, <2>3 DEF ClaimForSend, Goto, Rest, Typed, Worker, ClaimRow, Row
  <2> QED BY <2>1, <2>2, <2>3
<1>11. ASSUME NEW w \in Workers, PreparationFails(w) PROVE SentPost(x)'
  BY <1>t, <1>v, RowFate, <1>11 DEF PreparationFails, Goto, Rest, Typed, Worker
<1>12. ASSUME NEW w \in Workers, GuardClaim(w) PROVE SentPost(x)'
  BY <1>t, <1>v, <1>12 DEF GuardClaim, Goto, Rest, Typed, Worker
<1>13. ASSUME NEW w \in Workers, Send(w) PROVE SentPost(x)'
  <2>1. CASE Goto(w, "record") /\ UNCHANGED <<doubt, faults, rows>>
    BY <1>t, <1>13, <2>1 DEF Send, Goto, Rest, Typed, Worker
  <2>2. CASE /\ Goto(w, "judge") /\ doubt' = doubt \cup {worker[w].post}
             /\ rows' = [rows EXCEPT ![worker[w].post] =
                           IF SameEcho(w) THEN FailRow(@, w, FALSE) ELSE @]
    <3>1. rows'[x].status = "success" => rows[x].status = "success"
      BY <1>t, <2>2, RowFate DEF Typed
    <3>2. (appeared[x] > 0 => appeared'[x] > 0) /\ UNCHANGED posts
      BY <1>t, <1>13 DEF Send, Typed
    <3> QED BY <1>t, <3>1, <3>2
  <2> QED BY <1>13, <2>1, <2>2 DEF Send
<1>14. ASSUME NEW w \in Workers, SendFails(w) PROVE SentPost(x)'
  BY <1>t, <1>v, RowFate, <1>14 DEF SendFails, Goto, Rest, Typed, Worker
<1>15. ASSUME NEW w \in Workers, RecordSuccess(w) PROVE SentPost(x)'
  BY <1>t, <1>v, <1>15 DEF RecordSuccess, Goto, FinalizeRow, Row, Rest, Typed,
     Worker
<1>16. ASSUME NEW w \in Workers, Judge(w) PROVE SentPost(x)'
  BY <1>t, <1>v, <1>16 DEF Judge, Post, Rest, Typed, Worker
<1>17. ASSUME NEW w \in Workers, SettleFlush(w) PROVE SentPost(x)'
  BY <1>t, <1>v, <1>r, <1>17 DEF SettleFlush, Fenced, Again, Finished, Post, Rest,
     Typed, Worker
<1>18. ASSUME NEW w \in Workers, SettleRequest(w) PROVE SentPost(x)'
  BY <1>t, <1>v, <1>18 DEF SettleRequest, Fenced, Again, Finished, Post, Rest,
     Typed, Worker
<1>19. ASSUME NEW w \in Workers, SettleRaised(w) PROVE SentPost(x)'
  BY <1>t, <1>v, <1>19 DEF SettleRaised, Fenced, Again, Finished, Post, Rest, Typed,
     Worker
<1>20. ASSUME NEW w \in Workers, NEW p \in Posts, PostNow(w, p) PROVE SentPost(x)'
  BY <1>t, <1>v, <1>r, <1>20 DEF PostNow, Press, WithEcho, NeedsEcho, Post, Rest,
     Typed, Worker
<1>21. ASSUME NEW w \in Workers, NEW p \in Posts, Cancel(w, p) PROVE SentPost(x)'
  BY <1>t, <1>v, <1>21 DEF Cancel, Press, Rest, Typed, Worker
<1>22. ASSUME NEW w \in Workers, NEW p \in Posts, Retry(w, p) PROVE SentPost(x)'
  BY <1>t, <1>v, <1>22 DEF Retry, Press, Rest, Typed, Worker
<1>23. ASSUME NEW w \in Workers, NEW p \in Posts, ComposePost(w, p) PROVE SentPost(x)'
  <2>1. PICK new \in Post : posts' = [posts EXCEPT ![p] = new] /\ new.status # "sent"
    BY <1>23, StoringStep, NewPostsStand
  <2>2. UNCHANGED <<rows, appeared>>
    BY <1>23 DEF ComposePost
  <2> QED BY <1>t, <2>1, <2>2 DEF Typed, Post
<1>24. ASSUME NEW w \in Workers, NEW i \in Items, Compose(w, i) PROVE SentPost(x)'
  BY <1>t, <1>v, <1>24 DEF Compose, Press, Rest, Typed, Worker
<1>25. ASSUME NEW w \in Workers, CancelPost(w) PROVE SentPost(x)'
  BY <1>t, <1>v, <1>r, <1>25 DEF CancelPost, Post, Rest, Typed, Worker
<1>26. ASSUME NEW w \in Workers, RetryPost(w) PROVE SentPost(x)'
  BY <1>t, <1>v, <1>r, <1>26 DEF RetryPost, Post, Rest, Typed, Worker
<1>27. ASSUME NEW w \in Workers, Escape(w) PROVE SentPost(x)'
  <2>1. CASE /\ posts' = [p \in Posts |-> [posts[p] EXCEPT !.readers = @ \ {w}]]
             /\ Becomes(w, Rest)
    BY <1>t, <1>27, <2>1 DEF Escape, Rest, Typed, Worker, Post
  <2>2. CASE /\ worker[w].pc \in {"prepare", "send", "record"}
             /\ Goto(w, "raised") /\ UNCHANGED posts
    BY <1>t, <1>27, <2>2 DEF Escape, Goto, Rest, Typed, Worker, Post
  <2> QED BY <1>27, <2>1, <2>2 DEF Escape
<1>28. ASSUME ReclaimLapsed PROVE SentPost(x)'
  BY <1>t, <1>v, <1>28 DEF ReclaimLapsed, Post, Rest, Typed, Worker
<1>29. ASSUME NEW p \in Posts, EditPost(p) PROVE SentPost(x)'
  BY <1>t, <1>v, <1>29 DEF EditPost, Post, Rest, Typed, Worker
<1>30. ASSUME NEW p \in Posts, NEW q \in Posts, Reorder(p, q) PROVE SentPost(x)'
  BY <1>t, <1>v, <1>30 DEF Reorder, Post, Rest, Typed, Worker
<1>31. ASSUME DeleteFeed PROVE SentPost(x)'
  BY <1>t, <1>v, <1>31 DEF DeleteFeed, Post, Rest, Typed, Worker
<1>32. ASSUME Tick PROVE SentPost(x)'
  <2>1. /\ posts' = [p \in Posts |-> [posts[p] EXCEPT !.left = CountDown(@), !.at = CountDown(@)]]
        /\ rows' = [p \in Posts |-> AgeRow(rows[p])] /\ UNCHANGED appeared
    BY <1>32 DEF Tick
  <2>2. posts[x] \in Post
    BY <1>t DEF Typed
  <2>3. posts'[x].status = posts[x].status /\ rows'[x].status = rows[x].status
    BY <2>1, <2>2, RowFate DEF Post
  <2> QED BY <1>t, <2>1, <2>3
<1>33. ASSUME UNCHANGED vars PROVE SentPost(x)'
  BY <1>t, <1>v, <1>33 DEF vars
<1> QED BY <1>1, <1>2, <1>3, <1>4, <1>5, <1>6, <1>7, <1>8, <1>9, <1>10, <1>11,
     <1>12, <1>13, <1>14, <1>15, <1>16, <1>17, <1>18, <1>19, <1>20, <1>21, <1>22,
     <1>23, <1>24, <1>25, <1>26, <1>27, <1>28, <1>29, <1>30, <1>31, <1>32, <1>33 DEF
     Next, Act, Check, Flush, Dispatch, Route, Edit

LEMMA SentByStep ==
  ASSUME TypeInv, SentInv, [Next]_vars, NEW v \in Workers
  PROVE  SentBy(v)'
<1> USE DEF history, SentBy, Becomes, AtPost, AtDispatch
<1>t. Typed /\ SentBy(v)
  BY TypeInvTyped DEF SentInv
<1>v. \A p \in Posts : rows[p].status = "success" => appeared[p] > 0
  BY DEF SentInv, SentPost
<1>r. Absent.status # "success"
  BY DEF Absent
<1>1. ASSUME NEW w \in Workers, NEW i \in Items, ClaimSource(w, i) PROVE SentBy(v)'
  BY <1>t, <1>1 DEF ClaimSource, Rest, Typed, Worker
<1>2. ASSUME NEW w \in Workers, RefuseItem(w) PROVE SentBy(v)'
  BY <1>t, <1>2 DEF RefuseItem, Rest, Typed, Worker
<1>3. ASSUME NEW w \in Workers, FindRoom(w) PROVE SentBy(v)'
  BY <1>t, <1>3 DEF FindRoom, Goto, Rest, Typed, Worker
<1>4. ASSUME NEW w \in Workers, NEW p \in Posts, InsertPost(w, p) PROVE SentBy(v)'
  BY <1>t, <1>4 DEF InsertPost, Goto, Rest, Typed, Worker
<1>5. ASSUME NEW w \in Workers, MarkSource(w) PROVE SentBy(v)'
  BY <1>t, <1>5 DEF MarkSource, Rest, Typed, Worker
<1>6. ASSUME NEW w \in Workers, NEW p \in Posts, ClaimDue(w, p) PROVE SentBy(v)'
  BY <1>t, <1>6 DEF ClaimDue, Rest, Typed, Worker
<1>7. ASSUME NEW w \in Workers, OverHourlyCap(w) PROVE SentBy(v)'
  BY <1>t, <1>7 DEF OverHourlyCap, Rest, Typed, Worker
<1>8. ASSUME NEW w \in Workers, CheckFeed(w) PROVE SentBy(v)'
  BY <1>t, <1>8 DEF CheckFeed, LookUp, Rest, Typed, Worker
<1>9. ASSUME NEW w \in Workers, RefusePost(w) PROVE SentBy(v)'
  BY <1>t, <1>9 DEF RefusePost, Rest, Typed, Worker
<1>10. ASSUME NEW w \in Workers, ClaimForSend(w) PROVE SentBy(v)'
  <2>1. CASE ~ SameEcho(w)
    BY <1>t, <1>10, <2>1 DEF ClaimForSend, Goto, Rest, Typed, Worker
  <2>2. CASE SameEcho(w) /\ Claimable(rows[worker[w].post])
    BY <1>t, <1>10, <2>2 DEF ClaimForSend, Goto, Rest, Typed, Worker
  <2>3. CASE SameEcho(w) /\ ~ Claimable(rows[worker[w].post])
    BY <1>t, <1>10, <2>3 DEF ClaimForSend, Goto, Rest, Typed, Worker
  <2> QED BY <2>1, <2>2, <2>3
<1>11. ASSUME NEW w \in Workers, PreparationFails(w) PROVE SentBy(v)'
  BY <1>t, <1>11 DEF PreparationFails, Goto, Rest, Typed, Worker
<1>12. ASSUME NEW w \in Workers, GuardClaim(w) PROVE SentBy(v)'
  BY <1>t, <1>12 DEF GuardClaim, Goto, Rest, Typed, Worker
<1>13. ASSUME NEW w \in Workers, Send(w) PROVE SentBy(v)'
  <2>1. CASE Goto(w, "record") /\ UNCHANGED <<doubt, faults, rows>>
    BY <1>t, <1>13, <2>1 DEF Send, Goto, Rest, Typed, Worker
  <2>2. CASE /\ Goto(w, "judge") /\ doubt' = doubt \cup {worker[w].post}
             /\ rows' = [rows EXCEPT ![worker[w].post] =
                           IF SameEcho(w) THEN FailRow(@, w, FALSE) ELSE @]
    BY <1>t, <1>13, <2>2 DEF Send, Goto, Rest, Typed, Worker
  <2> QED BY <1>13, <2>1, <2>2 DEF Send
<1>14. ASSUME NEW w \in Workers, SendFails(w) PROVE SentBy(v)'
  BY <1>t, <1>14 DEF SendFails, Goto, Rest, Typed, Worker
<1>15. ASSUME NEW w \in Workers, RecordSuccess(w) PROVE SentBy(v)'
  BY <1>t, <1>15 DEF RecordSuccess, Goto, Rest, Typed, Worker
<1>16. ASSUME NEW w \in Workers, Judge(w) PROVE SentBy(v)'
  <2>1. SeenRow(w).status = "success" => appeared[worker[w].post] > 0
    BY <1>t, <1>v, <1>r, <1>16 DEF Judge, SeenRow, Typed
  <2> QED BY <1>t, <2>1, <1>16 DEF Judge, Typed, Worker
<1>17. ASSUME NEW w \in Workers, SettleFlush(w) PROVE SentBy(v)'
  BY <1>t, <1>17 DEF SettleFlush, Rest, Typed, Worker
<1>18. ASSUME NEW w \in Workers, SettleRequest(w) PROVE SentBy(v)'
  BY <1>t, <1>18 DEF SettleRequest, Rest, Typed, Worker
<1>19. ASSUME NEW w \in Workers, SettleRaised(w) PROVE SentBy(v)'
  BY <1>t, <1>19 DEF SettleRaised, Rest, Typed, Worker
<1>20. ASSUME NEW w \in Workers, NEW p \in Posts, PostNow(w, p) PROVE SentBy(v)'
  BY <1>t, <1>20 DEF PostNow, Press, Rest, Typed, Worker
<1>21. ASSUME NEW w \in Workers, NEW p \in Posts, Cancel(w, p) PROVE SentBy(v)'
  BY <1>t, <1>21 DEF Cancel, Press, Rest, Typed, Worker
<1>22. ASSUME NEW w \in Workers, NEW p \in Posts, Retry(w, p) PROVE SentBy(v)'
  BY <1>t, <1>22 DEF Retry, Press, Rest, Typed, Worker
<1>23. ASSUME NEW w \in Workers, NEW p \in Posts, ComposePost(w, p) PROVE SentBy(v)'
  BY <1>t, <1>23 DEF ComposePost, Rest, Typed, Worker
<1>24. ASSUME NEW w \in Workers, NEW i \in Items, Compose(w, i) PROVE SentBy(v)'
  BY <1>t, <1>24 DEF Compose, Press, Rest, Typed, Worker
<1>25. ASSUME NEW w \in Workers, CancelPost(w) PROVE SentBy(v)'
  BY <1>t, <1>25 DEF CancelPost, Rest, Typed, Worker
<1>26. ASSUME NEW w \in Workers, RetryPost(w) PROVE SentBy(v)'
  BY <1>t, <1>26 DEF RetryPost, Rest, Typed, Worker
<1>27. ASSUME NEW w \in Workers, Escape(w) PROVE SentBy(v)'
  <2>1. CASE /\ posts' = [p \in Posts |-> [posts[p] EXCEPT !.readers = @ \ {w}]]
             /\ Becomes(w, Rest)
    BY <1>t, <1>27, <2>1 DEF Escape, Rest, Typed, Worker
  <2>2. CASE /\ worker[w].pc \in {"prepare", "send", "record"}
             /\ Goto(w, "raised") /\ UNCHANGED posts
    BY <1>t, <1>27, <2>2 DEF Escape, Goto, Rest, Typed, Worker
  <2> QED BY <1>27, <2>1, <2>2 DEF Escape
<1>28. ASSUME ReclaimLapsed PROVE SentBy(v)'
  BY <1>t, <1>28 DEF ReclaimLapsed, Rest, Typed, Worker
<1>29. ASSUME NEW p \in Posts, EditPost(p) PROVE SentBy(v)'
  BY <1>t, <1>29 DEF EditPost, Rest, Typed, Worker
<1>30. ASSUME NEW p \in Posts, NEW q \in Posts, Reorder(p, q) PROVE SentBy(v)'
  BY <1>t, <1>30 DEF Reorder, Rest, Typed, Worker
<1>31. ASSUME DeleteFeed PROVE SentBy(v)'
  BY <1>t, <1>31 DEF DeleteFeed, Rest, Typed, Worker
<1>32. ASSUME Tick PROVE SentBy(v)'
  BY <1>t, <1>32 DEF Tick, Rest, Typed, Worker
<1>33. ASSUME UNCHANGED vars PROVE SentBy(v)'
  BY <1>t, <1>33 DEF vars
<1> QED BY <1>1, <1>2, <1>3, <1>4, <1>5, <1>6, <1>7, <1>8, <1>9, <1>10, <1>11,
     <1>12, <1>13, <1>14, <1>15, <1>16, <1>17, <1>18, <1>19, <1>20, <1>21, <1>22,
     <1>23, <1>24, <1>25, <1>26, <1>27, <1>28, <1>29, <1>30, <1>31, <1>32, <1>33 DEF
     Next, Act, Check, Flush, Dispatch, Route, Edit

LEMMA SentStep == TypeInv /\ SentInv /\ [Next]_vars => SentInv'
BY SentPostStep, SentByStep DEF SentInv

\* A post the queue page reports as sent has appeared: whichever flush or request
\* settles it, it found the row of the dispatch a success.
THEOREM SentPostsAppeared == Spec => []SentWasPublished
<1>1. Init => SentInv
  BY DEF Init, SentInv, SentPost, SentBy, Absent, NoPost, Rest
<1>2. SentInv => SentWasPublished
  BY DEF SentInv, SentPost, SentWasPublished
<1> QED BY <1>1, <1>2, TypeInvariance, SentStep, PTL DEF Spec

-----------------------------------------------------------------------------
(* Drafts wait for their owner.                                            *)

DraftIsDraft(new) == new.draft => new.status = "draft"

LEMMA HeldBackStep ==
  ASSUME TypeInv, NEW x \in Posts, NoTrace(x), HeldBack(x), [Next]_vars
  PROVE  HeldBack(x)'
<1> USE DEF history, HeldBack, Becomes, AtPost, AtDispatch
<1>t. Typed /\ HeldBack(x) /\ NoTrace(x) /\ x # Null /\ posts[x] \in Post
  BY TypeInvTyped, QueueWorkerAssumption DEF Typed
<1>n. ASSUME NEW w \in Workers, NEW p \in Posts, InsertPost(w, p) \/ ComposePost(w, p)
      PROVE  \E new \in Post :
               posts' = [posts EXCEPT ![p] = new] /\ posts[p].status = "none" /\ DraftIsDraft(new)
  BY <1>n, StoringStep, NewPostsStand DEF DraftIsDraft
<1>1. ASSUME NEW w \in Workers, NEW i \in Items, ClaimSource(w, i) PROVE HeldBack(x)'
  BY <1>t, <1>1 DEF ClaimSource, Rest, Typed, Worker, Post
<1>2. ASSUME NEW w \in Workers, RefuseItem(w) PROVE HeldBack(x)'
  BY <1>t, <1>2 DEF RefuseItem, Rest, Typed, Worker, Post
<1>3. ASSUME NEW w \in Workers, FindRoom(w) PROVE HeldBack(x)'
  BY <1>t, <1>3 DEF FindRoom, Goto, Rest, Typed, Worker, Post
<1>4. ASSUME NEW w \in Workers, NEW p \in Posts, InsertPost(w, p) PROVE HeldBack(x)'
  <2>1. PICK new \in Post :
          posts' = [posts EXCEPT ![p] = new] /\ posts[p].status = "none" /\ DraftIsDraft(new)
    BY <1>4, <1>n
  <2>2. Goto(w, "mark") /\ UNCHANGED <<live, appeared, approved>>
    BY <1>4 DEF InsertPost
  <2>3. \A v \in Workers : worker'[v].post = x =>
          worker[v].post = x /\ (v # w => worker'[v].pc = worker[v].pc)
    BY <1>t, <2>2 DEF Goto, Typed, Worker
  <2>6. posts' = [posts EXCEPT ![p] = new] /\ posts \in [Posts -> Post] /\ posts[p].status = "none"
    BY <1>t, <2>1, Zenon DEF Typed
  <2>4. CASE x = p
    <3>1. posts'[x] = new
      BY <2>4, <2>6
    <3>2. appeared'[x] = 0 /\ \A v \in Workers : worker'[v].post # x
      BY <1>t, <2>2, <2>3, <2>4, <2>6 DEF NoTrace
    <3>3. posts'[x].draft => posts'[x].status = "draft"
      BY <2>1, <3>1, Zenon DEF DraftIsDraft
    <3> QED BY <3>2, <3>3, Zenon
  <2>5. CASE x # p
    <3>1. posts'[x] = posts[x]
      BY <2>5, <2>6
    <3>2. worker[w].pc \notin {"cancel", "check", "refuse", "retry"}
      BY <1>4 DEF InsertPost
    <3> QED BY <1>t, <2>2, <2>3, <3>1, <3>2
  <2> QED BY <2>4, <2>5
<1>5. ASSUME NEW w \in Workers, MarkSource(w) PROVE HeldBack(x)'
  BY <1>t, <1>5 DEF MarkSource, Rest, Typed, Worker, Post
<1>6. ASSUME NEW w \in Workers, NEW p \in Posts, ClaimDue(w, p) PROVE HeldBack(x)'
  BY <1>t, <1>6 DEF ClaimDue, Claimed, Rest, Typed, Worker, Post
<1>7. ASSUME NEW w \in Workers, OverHourlyCap(w) PROVE HeldBack(x)'
  BY <1>t, <1>7 DEF OverHourlyCap, Fenced, Rest, Typed, Worker, Post
<1>8. ASSUME NEW w \in Workers, CheckFeed(w) PROVE HeldBack(x)'
  BY <1>t, <1>8 DEF CheckFeed, LookUp, WithEcho, NeedsEcho, Rest, Typed, Worker,
     Post
<1>9. ASSUME NEW w \in Workers, RefusePost(w) PROVE HeldBack(x)'
  BY <1>t, <1>9 DEF RefusePost, Rest, Typed, Worker, Post
<1>10. ASSUME NEW w \in Workers, ClaimForSend(w) PROVE HeldBack(x)'
  <2>1. CASE ~ SameEcho(w)
    BY <1>t, <1>10, <2>1 DEF ClaimForSend, Goto, Rest, Typed, Worker, Post
  <2>2. CASE SameEcho(w) /\ Claimable(rows[worker[w].post])
    BY <1>t, <1>10, <2>2 DEF ClaimForSend, Goto, Rest, Typed, Worker, Post
  <2>3. CASE SameEcho(w) /\ ~ Claimable(rows[worker[w].post])
    BY <1>t, <1>10, <2>3 DEF ClaimForSend, Goto, Rest, Typed, Worker, Post
  <2> QED BY <2>1, <2>2, <2>3
<1>11. ASSUME NEW w \in Workers, PreparationFails(w) PROVE HeldBack(x)'
  BY <1>t, <1>11 DEF PreparationFails, Goto, Rest, Typed, Worker, Post
<1>12. ASSUME NEW w \in Workers, GuardClaim(w) PROVE HeldBack(x)'
  BY <1>t, <1>12 DEF GuardClaim, Goto, Rest, Typed, Worker, Post
<1>13. ASSUME NEW w \in Workers, Send(w) PROVE HeldBack(x)'
  <2>1. CASE Goto(w, "record") /\ UNCHANGED <<doubt, faults, rows>>
    BY <1>t, <1>13, <2>1 DEF Send, Goto, Rest, Typed, Worker, Post
  <2>2. CASE /\ Goto(w, "judge") /\ doubt' = doubt \cup {worker[w].post}
             /\ rows' = [rows EXCEPT ![worker[w].post] =
                           IF SameEcho(w) THEN FailRow(@, w, FALSE) ELSE @]
    BY <1>t, <1>13, <2>2 DEF Send, Goto, Rest, Typed, Worker, Post
  <2> QED BY <1>13, <2>1, <2>2 DEF Send
<1>14. ASSUME NEW w \in Workers, SendFails(w) PROVE HeldBack(x)'
  BY <1>t, <1>14 DEF SendFails, Goto, Rest, Typed, Worker, Post
<1>15. ASSUME NEW w \in Workers, RecordSuccess(w) PROVE HeldBack(x)'
  BY <1>t, <1>15 DEF RecordSuccess, Goto, Rest, Typed, Worker, Post
<1>16. ASSUME NEW w \in Workers, Judge(w) PROVE HeldBack(x)'
  BY <1>t, <1>16 DEF Judge, Rest, Typed, Worker, Post
<1>17. ASSUME NEW w \in Workers, SettleFlush(w) PROVE HeldBack(x)'
  BY <1>t, <1>17 DEF SettleFlush, Fenced, Again, Finished, Rest, Typed, Worker, Post
<1>18. ASSUME NEW w \in Workers, SettleRequest(w) PROVE HeldBack(x)'
  BY <1>t, <1>18 DEF SettleRequest, Fenced, Again, Finished, Rest, Typed, Worker,
     Post
<1>19. ASSUME NEW w \in Workers, SettleRaised(w) PROVE HeldBack(x)'
  BY <1>t, <1>19 DEF SettleRaised, Fenced, Again, Finished, Rest, Typed, Worker,
     Post
<1>20. ASSUME NEW w \in Workers, NEW p \in Posts, PostNow(w, p) PROVE HeldBack(x)'
  BY <1>t, <1>20 DEF PostNow, Press, WithEcho, NeedsEcho, Rest, Typed, Worker, Post
<1>21. ASSUME NEW w \in Workers, NEW p \in Posts, Cancel(w, p) PROVE HeldBack(x)'
  BY <1>t, <1>21 DEF Cancel, Press, Rest, Typed, Worker, Post
<1>22. ASSUME NEW w \in Workers, NEW p \in Posts, Retry(w, p) PROVE HeldBack(x)'
  BY <1>t, <1>22 DEF Retry, Press, Rest, Typed, Worker, Post
<1>23. ASSUME NEW w \in Workers, NEW p \in Posts, ComposePost(w, p) PROVE HeldBack(x)'
  <2>1. PICK new \in Post :
          posts' = [posts EXCEPT ![p] = new] /\ posts[p].status = "none" /\ DraftIsDraft(new)
    BY <1>23, <1>n
  <2>2. Becomes(w, Rest) /\ UNCHANGED <<live, appeared, approved>>
    BY <1>23 DEF ComposePost
  <2>3. \A v \in Workers : worker'[v].post = x =>
          worker[v].post = x /\ (v # w => worker'[v].pc = worker[v].pc)
    BY <1>t, <2>2 DEF Rest, Typed, Worker
  <2>6. posts' = [posts EXCEPT ![p] = new] /\ posts \in [Posts -> Post] /\ posts[p].status = "none"
    BY <1>t, <2>1, Zenon DEF Typed
  <2>4. CASE x = p
    <3>1. posts'[x] = new
      BY <2>4, <2>6
    <3>2. appeared'[x] = 0 /\ \A v \in Workers : worker'[v].post # x
      BY <1>t, <2>2, <2>3, <2>4, <2>6 DEF NoTrace
    <3>3. posts'[x].draft => posts'[x].status = "draft"
      BY <2>1, <3>1, Zenon DEF DraftIsDraft
    <3> QED BY <3>2, <3>3, Zenon
  <2>5. CASE x # p
    <3>1. posts'[x] = posts[x]
      BY <2>5, <2>6
    <3>2. worker[w].pc \notin {"cancel", "check", "refuse", "retry"}
      BY <1>23 DEF ComposePost
    <3> QED BY <1>t, <2>2, <2>3, <3>1, <3>2
  <2> QED BY <2>4, <2>5
<1>24. ASSUME NEW w \in Workers, NEW i \in Items, Compose(w, i) PROVE HeldBack(x)'
  BY <1>t, <1>24 DEF Compose, Press, Rest, Typed, Worker, Post
<1>25. ASSUME NEW w \in Workers, CancelPost(w) PROVE HeldBack(x)'
  BY <1>t, <1>25 DEF CancelPost, Rest, Typed, Worker, Post
<1>26. ASSUME NEW w \in Workers, RetryPost(w) PROVE HeldBack(x)'
  BY <1>t, <1>26 DEF RetryPost, Rest, Typed, Worker, Post
<1>27. ASSUME NEW w \in Workers, Escape(w) PROVE HeldBack(x)'
  <2>1. CASE /\ posts' = [p \in Posts |-> [posts[p] EXCEPT !.readers = @ \ {w}]]
             /\ Becomes(w, Rest)
    BY <1>t, <1>27, <2>1 DEF Escape, Rest, Typed, Worker, Post
  <2>2. CASE /\ worker[w].pc \in {"prepare", "send", "record"}
             /\ Goto(w, "raised") /\ UNCHANGED posts
    BY <1>t, <1>27, <2>2 DEF Escape, Goto, Rest, Typed, Worker, Post
  <2> QED BY <1>27, <2>1, <2>2 DEF Escape
<1>28. ASSUME ReclaimLapsed PROVE HeldBack(x)'
  BY <1>t, <1>28 DEF ReclaimLapsed, Rest, Typed, Worker, Post
<1>29. ASSUME NEW p \in Posts, EditPost(p) PROVE HeldBack(x)'
  BY <1>t, <1>29 DEF EditPost, Rest, Typed, Worker, Post
<1>30. ASSUME NEW p \in Posts, NEW q \in Posts, Reorder(p, q) PROVE HeldBack(x)'
  BY <1>t, <1>30 DEF Reorder, Rest, Typed, Worker, Post
<1>31. ASSUME DeleteFeed PROVE HeldBack(x)'
  BY <1>t, <1>31 DEF DeleteFeed, Rest, Typed, Worker, Post
<1>32. ASSUME Tick PROVE HeldBack(x)'
  BY <1>t, <1>32 DEF Tick, Rest, Typed, Worker, Post
<1>33. ASSUME UNCHANGED vars PROVE HeldBack(x)'
  BY <1>t, <1>33 DEF vars
<1> QED BY <1>1, <1>2, <1>3, <1>4, <1>5, <1>6, <1>7, <1>8, <1>9, <1>10, <1>11,
     <1>12, <1>13, <1>14, <1>15, <1>16, <1>17, <1>18, <1>19, <1>20, <1>21, <1>22,
     <1>23, <1>24, <1>25, <1>26, <1>27, <1>28, <1>29, <1>30, <1>31, <1>32, <1>33 DEF
     Next, Act, Check, Flush, Dispatch, Route, Edit

LEMMA DraftStep == TypeInv /\ NoneInv /\ DraftInv /\ [Next]_vars => DraftInv'
BY HeldBackStep DEF NoneInv, DraftInv

\* What an echo in review mode found is published only after its owner said so.
THEOREM DraftsAreHeldBack == Spec => []DraftsWaitForOwner
<1>1. Init => DraftInv
  BY QueueWorkerAssumption DEF Init, DraftInv, HeldBack, NoPost, Rest
<1>2. TypeInv /\ DraftInv => DraftsWaitForOwner
  <2> SUFFICES ASSUME TypeInv, DraftInv, NEW p \in Posts, posts[p].draft, appeared[p] > 0
               PROVE  p \in approved
    BY DEF DraftsWaitForOwner
  <2>1. HeldBack(p)
    BY DEF DraftInv
  <2> QED BY <2>1 DEF HeldBack
<1> QED BY <1>1, <1>2, TypeInvariance, NoneInvariance, DraftStep, PTL DEF Spec

-----------------------------------------------------------------------------
(* No unexplained duplicate.                                               *)

\* The row of a dispatch that failed for the time being.
Failed(r, u) == FailRow(r, u, FALSE)

\* Only a claim gives a row to a worker.
LEMMA OwnsKept ==
  ASSUME NEW r \in Row, NEW u \in Workers, NEW v \in Workers,
         NEW new \in {r, Absent, AgeRow(r), Failed(r, u), FinalizeRow(r, u, "success")}
  PROVE  Owns(new, v) => Owns(r, v)
<1>1. Owns(Failed(r, u), v) => Owns(r, v)
  BY DEF Owns, Failed, FailRow, FailureStatus, Row
<1>2. Owns(FinalizeRow(r, u, "success"), v) => Owns(r, v)
  BY DEF Owns, FinalizeRow, Row
<1>3. (Owns(AgeRow(r), v) => Owns(r, v)) /\ ~ Owns(Absent, v)
  BY DEF Owns, AgeRow, Absent, Row
<1> QED BY <1>1, <1>2, <1>3

LEMMA OwnsClaimed ==
  ASSUME NEW r \in Row, NEW u \in Workers, NEW v \in Workers, u # v,
         NEW new \in {r, ClaimRow(r, u)}
  PROVE  Owns(new, v) => Owns(r, v)
BY DEF Owns, ClaimRow, Row

\* The worker that is to record an appearance in a row that is no longer its own
\* stays so until the appearance is in doubt.
LEMMA LostStep ==
  ASSUME TypeInv, NEW x \in Posts, NoTrace(x), NEW v \in Workers, Read(v),
         Recording(x, v), ~ RowIsMine(v), [Next]_vars
  PROVE  x \in doubt' \/ (worker'[v] = worker[v] /\ ~ RowIsMine(v)')
<1> DEFINE Lost == worker'[v] = worker[v] /\ ~ RowIsMine(v)'
<1> USE DEF history, Becomes, AtPost, AtDispatch
<1>t. /\ Typed /\ NoTrace(x) /\ Null \notin Posts /\ posts[x] \in Post /\ rows[x] \in Row
      /\ worker[v].pc = "record" /\ worker[v].post = x /\ worker[v].gen <= posts[x].gen
      /\ ~ RowIsMine(v)
  BY TypeInvTyped, QueueWorkerAssumption DEF Typed, Recording, Read
<1>k. ASSUME worker'[v] = worker[v], posts'[x].gen = posts[x].gen, posts'[x].echo = posts[x].echo,
             Owns(rows'[x], v) => Owns(rows[x], v)
      PROVE  Lost
  BY <1>t, <1>k DEF RowIsMine, SameEcho
<1>1. ASSUME NEW w \in Workers, NEW i \in Items, ClaimSource(w, i) PROVE x \in doubt' \/ Lost
  BY <1>t, <1>1 DEF ClaimSource, Rest, Typed, Worker, Post, RowIsMine, SameEcho
<1>2. ASSUME NEW w \in Workers, RefuseItem(w) PROVE x \in doubt' \/ Lost
  BY <1>t, <1>2 DEF RefuseItem, Rest, Typed, Worker, Post, RowIsMine, SameEcho
<1>3. ASSUME NEW w \in Workers, FindRoom(w) PROVE x \in doubt' \/ Lost
  BY <1>t, <1>3 DEF FindRoom, Goto, Rest, Typed, Worker, Post, RowIsMine, SameEcho
<1>4. ASSUME NEW w \in Workers, NEW p \in Posts, InsertPost(w, p) PROVE x \in doubt' \/ Lost
  <2>1. posts[p].status = "none" /\ x # p
    BY <1>t, <1>4 DEF InsertPost, NoTrace
  <2>2. PICK new : posts' = [posts EXCEPT ![p] = new]
    BY <1>4, StoringStep
  <2>3. posts'[x] = posts[x] /\ UNCHANGED rows
    BY <1>t, <1>4, <2>1, <2>2 DEF InsertPost, Typed
  <2>4. Goto(w, "mark") /\ v # w
    BY <1>t, <1>4 DEF InsertPost
  <2>5. worker'[v] = worker[v]
    BY <1>t, <2>4 DEF Goto, Typed
  <2> QED BY <1>t, <2>3, <2>5 DEF RowIsMine, SameEcho
<1>5. ASSUME NEW w \in Workers, MarkSource(w) PROVE x \in doubt' \/ Lost
  BY <1>t, <1>5 DEF MarkSource, Rest, Typed, Worker, Post, RowIsMine, SameEcho
<1>6. ASSUME NEW w \in Workers, NEW p \in Posts, ClaimDue(w, p) PROVE x \in doubt' \/ Lost
  BY <1>t, <1>6 DEF ClaimDue, Claimed, Rest, Typed, Worker, Post, RowIsMine,
     SameEcho
<1>7. ASSUME NEW w \in Workers, OverHourlyCap(w) PROVE x \in doubt' \/ Lost
  BY <1>t, <1>7 DEF OverHourlyCap, Fenced, Rest, Typed, Worker, Post, RowIsMine,
     SameEcho
<1>8. ASSUME NEW w \in Workers, CheckFeed(w) PROVE x \in doubt' \/ Lost
  BY <1>t, OwnsKept, <1>8 DEF CheckFeed, LookUp, WithEcho, NeedsEcho, Rest, Typed,
     Worker, Post, RowIsMine, SameEcho
<1>9. ASSUME NEW w \in Workers, RefusePost(w) PROVE x \in doubt' \/ Lost
  BY <1>t, <1>9 DEF RefusePost, Rest, Typed, Worker, Post, RowIsMine, SameEcho
<1>10. ASSUME NEW w \in Workers, ClaimForSend(w) PROVE x \in doubt' \/ Lost
  <2>1. CASE ~ SameEcho(w)
    BY <1>t, <1>10, <2>1 DEF ClaimForSend, Goto, Rest, Typed, Worker, Post, RowIsMine,
     SameEcho
  <2>2. CASE SameEcho(w) /\ Claimable(rows[worker[w].post])
    <3>1. worker'[v] = worker[v] /\ w # v /\ UNCHANGED posts
      BY <1>t, <1>10, <2>2 DEF ClaimForSend, Goto, Typed
    <3>2. rows'[x] \in {rows[x], ClaimRow(rows[x], w)}
      BY <1>t, <1>10, <2>2 DEF ClaimForSend, Typed
    <3>9. rows[x] \in Row /\ (Owns(rows'[x], v) => Owns(rows[x], v))
      BY <1>t, <3>1, <3>2, OwnsClaimed
    <3> QED BY <1>k, <3>1, <3>9
  <2>3. CASE SameEcho(w) /\ ~ Claimable(rows[worker[w].post])
    BY <1>t, <1>10, <2>3 DEF ClaimForSend, Goto, Rest, Typed, Worker, Post, RowIsMine,
     SameEcho
  <2> QED BY <2>1, <2>2, <2>3
<1>11. ASSUME NEW w \in Workers, PreparationFails(w) PROVE x \in doubt' \/ Lost
  <2>1. worker'[v] = worker[v] /\ UNCHANGED posts
    BY <1>t, <1>11 DEF PreparationFails, Goto, Typed
  <2>2. rows'[x] \in {rows[x], Failed(rows[x], w)}
    BY <1>t, <1>11 DEF PreparationFails, Typed, Failed
  <2>9. rows[x] \in Row /\ (Owns(rows'[x], v) => Owns(rows[x], v))
    BY <1>t, <2>1, <2>2, OwnsKept
  <2> QED BY <1>k, <2>1, <2>9
<1>12. ASSUME NEW w \in Workers, GuardClaim(w) PROVE x \in doubt' \/ Lost
  BY <1>t, <1>12 DEF GuardClaim, Goto, Rest, Typed, Worker, Post, RowIsMine,
     SameEcho
<1>13. ASSUME NEW w \in Workers, Send(w) PROVE x \in doubt' \/ Lost
  <2>1. worker'[v] = worker[v] /\ UNCHANGED posts
    <3>1. \E step \in {"record", "judge"} : Goto(w, step)
      BY <1>13 DEF Send
    <3> QED BY <1>t, <1>13, <3>1 DEF Send, Goto, Typed
  <2>2. rows'[x] \in {rows[x], Failed(rows[x], w)}
    <3>1. CASE UNCHANGED rows
      BY <3>1
    <3>2. CASE rows' = [rows EXCEPT ![worker[w].post] =
                          IF SameEcho(w) THEN FailRow(@, w, FALSE) ELSE @]
      BY <1>t, <3>2 DEF Typed, Failed
    <3> QED BY <1>13, <3>1, <3>2 DEF Send
  <2>9. rows[x] \in Row /\ (Owns(rows'[x], v) => Owns(rows[x], v))
    BY <1>t, <2>1, <2>2, OwnsKept
  <2> QED BY <1>k, <2>1, <2>9
<1>14. ASSUME NEW w \in Workers, SendFails(w) PROVE x \in doubt' \/ Lost
  <2>1. worker'[v] = worker[v] /\ UNCHANGED posts
    BY <1>t, <1>14 DEF SendFails, Goto, Typed
  <2>2. rows'[x] \in {rows[x], Failed(rows[x], w)}
    BY <1>t, <1>14 DEF SendFails, Typed, Failed
  <2>9. rows[x] \in Row /\ (Owns(rows'[x], v) => Owns(rows[x], v))
    BY <1>t, <2>1, <2>2, OwnsKept
  <2> QED BY <1>k, <2>1, <2>9
<1>15. ASSUME NEW w \in Workers, RecordSuccess(w) PROVE x \in doubt' \/ Lost
  <2>1. CASE w = v
    BY <1>t, <1>15, <2>1 DEF RecordSuccess
  <2>2. CASE w # v
    <3>1. worker'[v] = worker[v] /\ UNCHANGED posts
      BY <1>t, <1>15, <2>2 DEF RecordSuccess, Goto, Typed
    <3>2. rows'[x] \in {rows[x], FinalizeRow(rows[x], w, "success")}
      BY <1>t, <1>15 DEF RecordSuccess, Typed
    <3>9. rows[x] \in Row /\ (Owns(rows'[x], v) => Owns(rows[x], v))
      BY <1>t, <3>1, <3>2, OwnsKept
    <3> QED BY <1>k, <3>1, <3>9
  <2> QED BY <2>1, <2>2
<1>16. ASSUME NEW w \in Workers, Judge(w) PROVE x \in doubt' \/ Lost
  BY <1>t, <1>16 DEF Judge, Rest, Typed, Worker, Post, RowIsMine, SameEcho
<1>17. ASSUME NEW w \in Workers, SettleFlush(w) PROVE x \in doubt' \/ Lost
  <2>1. worker'[v] = worker[v]
    BY <1>t, <1>17 DEF SettleFlush, Typed
  <2>2. posts'[x].gen = posts[x].gen /\ posts'[x].echo = posts[x].echo
    BY <1>t, <1>17 DEF SettleFlush, Fenced, Again, Finished, Typed, Post
  <2>3. rows'[x] \in {rows[x], Absent}
    BY <1>t, <1>17 DEF SettleFlush, Typed, Failed
  <2>9. rows[x] \in Row /\ (Owns(rows'[x], v) => Owns(rows[x], v))
    BY <1>t, <2>1, <2>2, <2>3, OwnsKept
  <2> QED BY <1>k, <2>1, <2>2, <2>9
<1>18. ASSUME NEW w \in Workers, SettleRequest(w) PROVE x \in doubt' \/ Lost
  BY <1>t, <1>18 DEF SettleRequest, Fenced, Again, Finished, Rest, Typed, Worker,
     Post, RowIsMine, SameEcho
<1>19. ASSUME NEW w \in Workers, SettleRaised(w) PROVE x \in doubt' \/ Lost
  BY <1>t, <1>19 DEF SettleRaised, Fenced, Again, Finished, Rest, Typed, Worker,
     Post, RowIsMine, SameEcho
<1>20. ASSUME NEW w \in Workers, NEW p \in Posts, PostNow(w, p) PROVE x \in doubt' \/ Lost
  BY <1>t, OwnsKept, <1>20 DEF PostNow, Press, WithEcho, NeedsEcho, Rest, Typed,
     Worker, Post, RowIsMine, SameEcho
<1>21. ASSUME NEW w \in Workers, NEW p \in Posts, Cancel(w, p) PROVE x \in doubt' \/ Lost
  BY <1>t, <1>21 DEF Cancel, Press, Rest, Typed, Worker, Post, RowIsMine, SameEcho
<1>22. ASSUME NEW w \in Workers, NEW p \in Posts, Retry(w, p) PROVE x \in doubt' \/ Lost
  BY <1>t, <1>22 DEF Retry, Press, Rest, Typed, Worker, Post, RowIsMine, SameEcho
<1>23. ASSUME NEW w \in Workers, NEW p \in Posts, ComposePost(w, p) PROVE x \in doubt' \/ Lost
  <2>1. posts[p].status = "none" /\ x # p
    BY <1>t, <1>23 DEF ComposePost, NoTrace
  <2>2. PICK new : posts' = [posts EXCEPT ![p] = new]
    BY <1>23, StoringStep
  <2>3. posts'[x] = posts[x] /\ UNCHANGED rows
    BY <1>t, <1>23, <2>1, <2>2 DEF ComposePost, Typed
  <2>4. Becomes(w, Rest) /\ v # w
    BY <1>t, <1>23 DEF ComposePost
  <2>5. worker'[v] = worker[v]
    BY <1>t, <2>4 DEF Goto, Typed
  <2> QED BY <1>t, <2>3, <2>5 DEF RowIsMine, SameEcho
<1>24. ASSUME NEW w \in Workers, NEW i \in Items, Compose(w, i) PROVE x \in doubt' \/ Lost
  BY <1>t, <1>24 DEF Compose, Press, Rest, Typed, Worker, Post, RowIsMine, SameEcho
<1>25. ASSUME NEW w \in Workers, CancelPost(w) PROVE x \in doubt' \/ Lost
  BY <1>t, OwnsKept, <1>25 DEF CancelPost, Rest, Typed, Worker, Post, RowIsMine,
     SameEcho
<1>26. ASSUME NEW w \in Workers, RetryPost(w) PROVE x \in doubt' \/ Lost
  <2>1. worker'[v] = worker[v]
    BY <1>t, <1>26 DEF RetryPost, Typed
  <2>2. posts'[x].gen = posts[x].gen /\ posts'[x].echo = posts[x].echo
    BY <1>t, <1>26 DEF RetryPost, Typed, Post
  <2>3. rows'[x] \in {rows[x], Absent}
    BY <1>t, <1>26 DEF RetryPost, Typed, Failed
  <2>9. rows[x] \in Row /\ (Owns(rows'[x], v) => Owns(rows[x], v))
    BY <1>t, <2>1, <2>2, <2>3, OwnsKept
  <2> QED BY <1>k, <2>1, <2>2, <2>9
<1>27. ASSUME NEW w \in Workers, Escape(w) PROVE x \in doubt' \/ Lost
  <2>1. CASE /\ posts' = [p \in Posts |-> [posts[p] EXCEPT !.readers = @ \ {w}]]
             /\ Becomes(w, Rest)
    BY <1>t, <1>27, <2>1 DEF Escape, Rest, Typed, Worker, Post, RowIsMine, SameEcho
  <2>2. CASE /\ worker[w].pc \in {"prepare", "send", "record"}
             /\ Goto(w, "raised") /\ UNCHANGED posts
    BY <1>t, <1>27, <2>2 DEF Escape, Goto, Rest, Typed, Worker, Post, RowIsMine, SameEcho
  <2> QED BY <1>27, <2>1, <2>2 DEF Escape
<1>28. ASSUME ReclaimLapsed PROVE x \in doubt' \/ Lost
  BY <1>t, <1>28 DEF ReclaimLapsed, Rest, Typed, Worker, Post, RowIsMine, SameEcho
<1>29. ASSUME NEW p \in Posts, EditPost(p) PROVE x \in doubt' \/ Lost
  BY <1>t, <1>29 DEF EditPost, Rest, Typed, Worker, Post, RowIsMine, SameEcho
<1>30. ASSUME NEW p \in Posts, NEW q \in Posts, Reorder(p, q) PROVE x \in doubt' \/ Lost
  BY <1>t, <1>30 DEF Reorder, Rest, Typed, Worker, Post, RowIsMine, SameEcho
<1>31. ASSUME DeleteFeed PROVE x \in doubt' \/ Lost
  BY <1>t, <1>31 DEF DeleteFeed, Rest, Typed, Worker, Post, RowIsMine, SameEcho
<1>32. ASSUME Tick PROVE x \in doubt' \/ Lost
  <2>1. /\ posts' = [p \in Posts |-> [posts[p] EXCEPT !.left = CountDown(@), !.at = CountDown(@)]]
        /\ rows' = [p \in Posts |-> AgeRow(rows[p])] /\ UNCHANGED worker
    BY <1>32 DEF Tick
  <2>2. posts'[x].gen = posts[x].gen /\ posts'[x].echo = posts[x].echo
    BY <1>t, <2>1 DEF Post
  <2>3. Owns(rows'[x], v) => Owns(rows[x], v)
    BY <1>t, <2>1, OwnsKept
  <2> QED BY <1>t, <2>1, <2>2, <2>3 DEF RowIsMine, SameEcho
<1>33. ASSUME UNCHANGED vars PROVE x \in doubt' \/ Lost
  BY <1>t, <1>33 DEF vars, RowIsMine, SameEcho
<1> QED BY <1>1, <1>2, <1>3, <1>4, <1>5, <1>6, <1>7, <1>8, <1>9, <1>10, <1>11,
     <1>12, <1>13, <1>14, <1>15, <1>16, <1>17, <1>18, <1>19, <1>20, <1>21, <1>22,
     <1>23, <1>24, <1>25, <1>26, <1>27, <1>28, <1>29, <1>30, <1>31, <1>32, <1>33 DEF
     Next, Act, Check, Flush, Dispatch, Route, Edit

\* The row of a success stays, or the appearance is in doubt.
LEMMA SuccessStep ==
  ASSUME TypeInv, NEW x \in Posts, EchoKept(x), rows[x].status = "success", [Next]_vars
  PROVE  x \in doubt' \/ rows'[x].status = "success"
<1> USE DEF history
<1>t. /\ Typed /\ rows[x].status = "success" /\ posts[x].echo
      /\ \A w \in Workers : worker[w].pc \in AtPost => worker[w].post \in Posts
  BY TypeInvTyped DEF Typed, EchoKept, Absent
<1>1. ASSUME NEW w \in Workers, NEW i \in Items, ClaimSource(w, i) PROVE x \in doubt' \/ rows'[x].status = "success"
  BY <1>t, <1>1 DEF ClaimSource, Typed
<1>2. ASSUME NEW w \in Workers, RefuseItem(w) PROVE x \in doubt' \/ rows'[x].status = "success"
  BY <1>t, <1>2 DEF RefuseItem, Typed
<1>3. ASSUME NEW w \in Workers, FindRoom(w) PROVE x \in doubt' \/ rows'[x].status = "success"
  BY <1>t, <1>3 DEF FindRoom, Goto, Typed
<1>4. ASSUME NEW w \in Workers, NEW p \in Posts, InsertPost(w, p) PROVE x \in doubt' \/ rows'[x].status = "success"
  BY <1>t, <1>4 DEF InsertPost, Goto, Typed
<1>5. ASSUME NEW w \in Workers, MarkSource(w) PROVE x \in doubt' \/ rows'[x].status = "success"
  BY <1>t, <1>5 DEF MarkSource, Typed
<1>6. ASSUME NEW w \in Workers, NEW p \in Posts, ClaimDue(w, p) PROVE x \in doubt' \/ rows'[x].status = "success"
  BY <1>t, <1>6 DEF ClaimDue, Claimed, Typed
<1>7. ASSUME NEW w \in Workers, OverHourlyCap(w) PROVE x \in doubt' \/ rows'[x].status = "success"
  BY <1>t, <1>7 DEF OverHourlyCap, Fenced, Typed
<1>8. ASSUME NEW w \in Workers, CheckFeed(w) PROVE x \in doubt' \/ rows'[x].status = "success"
  BY <1>t, <1>8 DEF CheckFeed, LookUp, WithEcho, NeedsEcho, Typed
<1>9. ASSUME NEW w \in Workers, RefusePost(w) PROVE x \in doubt' \/ rows'[x].status = "success"
  BY <1>t, <1>9 DEF RefusePost, Typed
<1>10. ASSUME NEW w \in Workers, ClaimForSend(w) PROVE x \in doubt' \/ rows'[x].status = "success"
  <2>1. CASE ~ SameEcho(w)
    BY <1>t, <1>10, <2>1 DEF ClaimForSend, Goto, Typed, SameEcho, Claimable
  <2>2. CASE SameEcho(w) /\ Claimable(rows[worker[w].post])
    BY <1>t, <1>10, <2>2 DEF ClaimForSend, Goto, Typed, SameEcho, Claimable
  <2>3. CASE SameEcho(w) /\ ~ Claimable(rows[worker[w].post])
    BY <1>t, <1>10, <2>3 DEF ClaimForSend, Goto, Typed, SameEcho, Claimable
  <2> QED BY <2>1, <2>2, <2>3
<1>11. ASSUME NEW w \in Workers, PreparationFails(w) PROVE x \in doubt' \/ rows'[x].status = "success"
  <2>1. rows'[x] \in {rows[x], Failed(rows[x], w)}
    BY <1>t, <1>11 DEF PreparationFails, Typed, Failed
  <2>2. Owns(rows[x], w) \/ Failed(rows[x], w) = rows[x]
    BY DEF Failed, FailRow
  <2> QED BY <1>t, <2>1, <2>2 DEF Owns
<1>12. ASSUME NEW w \in Workers, GuardClaim(w) PROVE x \in doubt' \/ rows'[x].status = "success"
  BY <1>t, <1>12 DEF GuardClaim, Goto, Typed
<1>13. ASSUME NEW w \in Workers, Send(w) PROVE x \in doubt' \/ rows'[x].status = "success"
  <2>1. CASE Goto(w, "record") /\ UNCHANGED <<doubt, faults, rows>>
    BY <1>t, RowFate, <1>13, <2>1 DEF Send, Goto, Typed, SameEcho
  <2>2. CASE /\ Goto(w, "judge") /\ doubt' = doubt \cup {worker[w].post}
             /\ rows' = [rows EXCEPT ![worker[w].post] =
                           IF SameEcho(w) THEN FailRow(@, w, FALSE) ELSE @]
    BY <1>t, RowFate, <1>13, <2>2 DEF Send, Goto, Typed, SameEcho
  <2> QED BY <1>13, <2>1, <2>2 DEF Send
<1>14. ASSUME NEW w \in Workers, SendFails(w) PROVE x \in doubt' \/ rows'[x].status = "success"
  <2>1. rows'[x] \in {rows[x], Failed(rows[x], w)}
    BY <1>t, <1>14 DEF SendFails, Typed, Failed
  <2>2. Owns(rows[x], w) \/ Failed(rows[x], w) = rows[x]
    BY DEF Failed, FailRow
  <2> QED BY <1>t, <2>1, <2>2 DEF Owns
<1>15. ASSUME NEW w \in Workers, RecordSuccess(w) PROVE x \in doubt' \/ rows'[x].status = "success"
  BY <1>t, <1>15 DEF RecordSuccess, Goto, FinalizeRow, Row, Typed
<1>16. ASSUME NEW w \in Workers, Judge(w) PROVE x \in doubt' \/ rows'[x].status = "success"
  BY <1>t, <1>16 DEF Judge, Typed
<1>17. ASSUME NEW w \in Workers, SettleFlush(w) PROVE x \in doubt' \/ rows'[x].status = "success"
  BY <1>t, <1>17 DEF SettleFlush, Typed
<1>18. ASSUME NEW w \in Workers, SettleRequest(w) PROVE x \in doubt' \/ rows'[x].status = "success"
  BY <1>t, <1>18 DEF SettleRequest, Typed
<1>19. ASSUME NEW w \in Workers, SettleRaised(w) PROVE x \in doubt' \/ rows'[x].status = "success"
  BY <1>t, <1>19 DEF SettleRaised, Typed
<1>20. ASSUME NEW w \in Workers, NEW p \in Posts, PostNow(w, p) PROVE x \in doubt' \/ rows'[x].status = "success"
  BY <1>t, <1>20 DEF PostNow, Press, WithEcho, NeedsEcho, Typed
<1>21. ASSUME NEW w \in Workers, NEW p \in Posts, Cancel(w, p) PROVE x \in doubt' \/ rows'[x].status = "success"
  BY <1>t, <1>21 DEF Cancel, Press, Typed
<1>22. ASSUME NEW w \in Workers, NEW p \in Posts, Retry(w, p) PROVE x \in doubt' \/ rows'[x].status = "success"
  BY <1>t, <1>22 DEF Retry, Press, Typed
<1>23. ASSUME NEW w \in Workers, NEW p \in Posts, ComposePost(w, p) PROVE x \in doubt' \/ rows'[x].status = "success"
  BY <1>t, <1>23 DEF ComposePost, Typed
<1>24. ASSUME NEW w \in Workers, NEW i \in Items, Compose(w, i) PROVE x \in doubt' \/ rows'[x].status = "success"
  BY <1>t, <1>24 DEF Compose, Press, Typed
<1>25. ASSUME NEW w \in Workers, CancelPost(w) PROVE x \in doubt' \/ rows'[x].status = "success"
  BY <1>t, <1>25 DEF CancelPost, SeenRow, SameEcho, Typed
<1>26. ASSUME NEW w \in Workers, RetryPost(w) PROVE x \in doubt' \/ rows'[x].status = "success"
  BY <1>t, <1>26 DEF RetryPost, SeenRow, SameEcho, Typed
<1>27. ASSUME NEW w \in Workers, Escape(w) PROVE x \in doubt' \/ rows'[x].status = "success"
  BY <1>t, <1>27 DEF Escape
<1>28. ASSUME ReclaimLapsed PROVE x \in doubt' \/ rows'[x].status = "success"
  BY <1>t, <1>28 DEF ReclaimLapsed, Typed
<1>29. ASSUME NEW p \in Posts, EditPost(p) PROVE x \in doubt' \/ rows'[x].status = "success"
  BY <1>t, <1>29 DEF EditPost, Typed
<1>30. ASSUME NEW p \in Posts, NEW q \in Posts, Reorder(p, q) PROVE x \in doubt' \/ rows'[x].status = "success"
  BY <1>t, <1>30 DEF Reorder, Typed
<1>31. ASSUME DeleteFeed PROVE x \in doubt' \/ rows'[x].status = "success"
  BY <1>t, <1>31 DEF DeleteFeed, Typed
<1>32. ASSUME Tick PROVE x \in doubt' \/ rows'[x].status = "success"
  <2>1. rows' = [p \in Posts |-> AgeRow(rows[p])]
    BY <1>32 DEF Tick
  <2> QED BY <1>t, <2>1, RowFate
<1>33. ASSUME UNCHANGED vars PROVE x \in doubt' \/ rows'[x].status = "success"
  BY <1>t, <1>33 DEF vars
<1> QED BY <1>1, <1>2, <1>3, <1>4, <1>5, <1>6, <1>7, <1>8, <1>9, <1>10, <1>11,
     <1>12, <1>13, <1>14, <1>15, <1>16, <1>17, <1>18, <1>19, <1>20, <1>21, <1>22,
     <1>23, <1>24, <1>25, <1>26, <1>27, <1>28, <1>29, <1>30, <1>31, <1>32, <1>33 DEF
     Next, Act, Check, Flush, Dispatch, Route, Edit

\* The steps that make a post appear, or end the recording of an appearance.
Marks(x) ==
  \E w \in Workers : /\ worker[w].post = x
                     /\ Send(w) \/ RecordSuccess(w) \/ (Escape(w) /\ worker[w].pc = "record")

\* No other step does either.
Quiet(x) ==
  /\ appeared'[x] = appeared[x]
  /\ \A v \in Workers : Recording(x, v)' <=> Recording(x, v)

LEMMA QuietStep ==
  ASSUME TypeInv, NEW x \in Posts, [Next]_vars, ~ Marks(x)
  PROVE  Quiet(x)
<1> USE DEF history, Becomes, Recording, Quiet
<1>t. Typed /\ appeared \in [Posts -> 0..2]
  BY TypeInvTyped DEF Typed
<1>1. ASSUME NEW w \in Workers, NEW i \in Items, ClaimSource(w, i) PROVE Quiet(x)
  BY <1>t, <1>1 DEF ClaimSource, Typed, Rest, Worker
<1>2. ASSUME NEW w \in Workers, RefuseItem(w) PROVE Quiet(x)
  BY <1>t, <1>2 DEF RefuseItem, Typed, Rest, Worker
<1>3. ASSUME NEW w \in Workers, FindRoom(w) PROVE Quiet(x)
  BY <1>t, <1>3 DEF FindRoom, Goto, Typed, Rest, Worker
<1>4. ASSUME NEW w \in Workers, NEW p \in Posts, InsertPost(w, p) PROVE Quiet(x)
  BY <1>t, <1>4 DEF InsertPost, Goto, Typed, Rest, Worker
<1>5. ASSUME NEW w \in Workers, MarkSource(w) PROVE Quiet(x)
  BY <1>t, <1>5 DEF MarkSource, Typed, Rest, Worker
<1>6. ASSUME NEW w \in Workers, NEW p \in Posts, ClaimDue(w, p) PROVE Quiet(x)
  BY <1>t, <1>6 DEF ClaimDue, Typed, Rest, Worker
<1>7. ASSUME NEW w \in Workers, OverHourlyCap(w) PROVE Quiet(x)
  BY <1>t, <1>7 DEF OverHourlyCap, Typed, Rest, Worker
<1>8. ASSUME NEW w \in Workers, CheckFeed(w) PROVE Quiet(x)
  BY <1>t, <1>8 DEF CheckFeed, LookUp, Typed, Rest, Worker
<1>9. ASSUME NEW w \in Workers, RefusePost(w) PROVE Quiet(x)
  BY <1>t, <1>9 DEF RefusePost, Typed, Rest, Worker
<1>10. ASSUME NEW w \in Workers, ClaimForSend(w) PROVE Quiet(x)
  <2>1. PICK step \in {"raised", "prepare", "judge"} : Goto(w, step)
    BY <1>10 DEF ClaimForSend
  <2> QED BY <1>t, <1>10, <2>1 DEF ClaimForSend, Goto, Typed, Worker
<1>11. ASSUME NEW w \in Workers, PreparationFails(w) PROVE Quiet(x)
  BY <1>t, <1>11 DEF PreparationFails, Goto, Typed, Rest, Worker
<1>12. ASSUME NEW w \in Workers, GuardClaim(w) PROVE Quiet(x)
  BY <1>t, <1>12 DEF GuardClaim, Goto, Typed, Rest, Worker
<1>13. ASSUME NEW w \in Workers, Send(w) PROVE Quiet(x)
  <2>1. worker[w].post # x
    BY <1>13 DEF Marks
  <2>2. PICK step \in Steps : Goto(w, step)
    BY <1>13 DEF Send, Steps
  <2>3. worker' = [worker EXCEPT ![w] = [worker[w] EXCEPT !.pc = step]]
    BY <2>2 DEF Goto
  <2>4. appeared'[x] = appeared[x]
    BY <1>t, <1>13, <2>1 DEF Send
  <2> QED BY <1>t, <2>1, <2>3, <2>4 DEF Typed, Worker
<1>14. ASSUME NEW w \in Workers, SendFails(w) PROVE Quiet(x)
  BY <1>t, <1>14 DEF SendFails, Goto, Typed, Rest, Worker
<1>15. ASSUME NEW w \in Workers, RecordSuccess(w) PROVE Quiet(x)
  <2>1. worker[w].post # x
    BY <1>15 DEF Marks
  <2> QED BY <1>t, <1>15, <2>1 DEF RecordSuccess, Goto, Typed, Worker
<1>16. ASSUME NEW w \in Workers, Judge(w) PROVE Quiet(x)
  BY <1>t, <1>16 DEF Judge, Typed, Rest, Worker
<1>17. ASSUME NEW w \in Workers, SettleFlush(w) PROVE Quiet(x)
  BY <1>t, <1>17 DEF SettleFlush, Typed, Rest, Worker
<1>18. ASSUME NEW w \in Workers, SettleRequest(w) PROVE Quiet(x)
  BY <1>t, <1>18 DEF SettleRequest, Typed, Rest, Worker
<1>19. ASSUME NEW w \in Workers, SettleRaised(w) PROVE Quiet(x)
  BY <1>t, <1>19 DEF SettleRaised, Typed, Rest, Worker
<1>20. ASSUME NEW w \in Workers, NEW p \in Posts, PostNow(w, p) PROVE Quiet(x)
  BY <1>t, <1>20 DEF PostNow, Press, Typed, Rest, Worker
<1>21. ASSUME NEW w \in Workers, NEW p \in Posts, Cancel(w, p) PROVE Quiet(x)
  BY <1>t, <1>21 DEF Cancel, Press, Typed, Rest, Worker
<1>22. ASSUME NEW w \in Workers, NEW p \in Posts, Retry(w, p) PROVE Quiet(x)
  BY <1>t, <1>22 DEF Retry, Press, Typed, Rest, Worker
<1>23. ASSUME NEW w \in Workers, NEW p \in Posts, ComposePost(w, p) PROVE Quiet(x)
  BY <1>t, <1>23 DEF ComposePost, Typed, Rest, Worker
<1>24. ASSUME NEW w \in Workers, NEW i \in Items, Compose(w, i) PROVE Quiet(x)
  BY <1>t, <1>24 DEF Compose, Press, Typed, Rest, Worker
<1>25. ASSUME NEW w \in Workers, CancelPost(w) PROVE Quiet(x)
  BY <1>t, <1>25 DEF CancelPost, Typed, Rest, Worker
<1>26. ASSUME NEW w \in Workers, RetryPost(w) PROVE Quiet(x)
  BY <1>t, <1>26 DEF RetryPost, Typed, Rest, Worker
<1>27. ASSUME NEW w \in Workers, Escape(w) PROVE Quiet(x)
  <2>1. (worker[w].pc = "record" => worker[w].post # x) /\ UNCHANGED appeared
    BY <1>27 DEF Marks, Escape
  <2>2. Becomes(w, Rest) \/ Goto(w, "raised")
    BY <1>27 DEF Escape
  <2> QED BY <1>t, <2>1, <2>2 DEF Goto, Rest, Typed, Worker
<1>28. ASSUME ReclaimLapsed PROVE Quiet(x)
  BY <1>t, <1>28 DEF ReclaimLapsed, Typed, Rest, Worker
<1>29. ASSUME NEW p \in Posts, EditPost(p) PROVE Quiet(x)
  BY <1>t, <1>29 DEF EditPost, Typed, Rest, Worker
<1>30. ASSUME NEW p \in Posts, NEW q \in Posts, Reorder(p, q) PROVE Quiet(x)
  BY <1>t, <1>30 DEF Reorder, Typed, Rest, Worker
<1>31. ASSUME DeleteFeed PROVE Quiet(x)
  BY <1>t, <1>31 DEF DeleteFeed, Typed, Rest, Worker
<1>32. ASSUME Tick PROVE Quiet(x)
  BY <1>t, <1>32 DEF Tick, Typed, Rest, Worker
<1>33. ASSUME UNCHANGED vars PROVE Quiet(x)
  BY <1>t, <1>33 DEF vars
<1> QED BY <1>1, <1>2, <1>3, <1>4, <1>5, <1>6, <1>7, <1>8, <1>9, <1>10, <1>11,
     <1>12, <1>13, <1>14, <1>15, <1>16, <1>17, <1>18, <1>19, <1>20, <1>21, <1>22,
     <1>23, <1>24, <1>25, <1>26, <1>27, <1>28, <1>29, <1>30, <1>31, <1>32, <1>33 DEF
     Next, Act, Check, Flush, Dispatch, Route, Edit

\* A step that makes a post appear, or that ends the recording of its appearance.
LEMMA MarkingPostStep ==
  ASSUME TypeInv, NEW x \in Posts, x \notin doubt', Once(x), ~ Unrecordable(x), Marks(x)
  PROVE  Once(x)'
<1> USE DEF Becomes, Recording, AtPost, AtDispatch
<1>t. /\ Typed /\ appeared \in [Posts -> 0..2]
      /\ \A w \in Workers : worker[w].pc = "record" /\ worker[w].post = x => RowIsMine(w)
  BY TypeInvTyped DEF Typed, Unrecordable
<1>m. \A u, w \in Workers : Recording(x, u) /\ Owns(rows[x], w) => u = w
  BY <1>t DEF RowIsMine, Owns
<1>1. ASSUME NEW w \in Workers, worker[w].post = x, Send(w) PROVE Once(x)'
  <2>1. /\ worker[w].pc = "send" /\ UNCHANGED <<rows, posts>>
        /\ worker' = [worker EXCEPT ![w] = [worker[w] EXCEPT !.pc = "record"]]
        /\ appeared' = [appeared EXCEPT ![x] = IF @ < 2 THEN @ + 1 ELSE @]
    BY <1>1 DEF Send, Goto
  <2>2. /\ Recording(x, w)' /\ worker'[w].gen = worker[w].gen
        /\ \A v \in Workers \ {w} : worker'[v] = worker[v]
    BY <1>t, <1>1, <2>1 DEF Typed, Worker
  <2>3. CASE ~ RowIsMine(w)
    <3>1. ~ RowIsMine(w)'
      BY <1>1, <2>1, <2>2, <2>3 DEF RowIsMine, SameEcho
    <3> QED BY <1>1, <2>2, <3>1 DEF Once, Unrecordable
  <2>4. CASE RowIsMine(w)
    <3>1. Owns(rows[x], w)
      BY <1>1, <2>4 DEF RowIsMine
    <3>2. ~ Recorded(x) /\ ~ InRecording(x)
      BY <1>m, <2>1, <3>1 DEF Recorded, InRecording, Owns
    <3>3. appeared[x] = 0
      BY <3>2 DEF Once, Unseen
    <3>4. appeared'[x] = 1
      BY <1>t, <2>1, <3>3
    <3> QED BY <2>2, <3>4 DEF Once, InRecording
  <2> QED BY <2>3, <2>4
<1>2. ASSUME NEW w \in Workers, worker[w].post = x, RecordSuccess(w) PROVE Once(x)'
  <2>1. /\ RowIsMine(w) /\ UNCHANGED appeared /\ worker[w].pc = "record"
        /\ worker' = [worker EXCEPT ![w] = [worker[w] EXCEPT !.pc = "judge"]]
    BY <1>2 DEF RecordSuccess, Goto
  <2>2. SameEcho(w) /\ Owns(rows[x], w)
    BY <1>2, <2>1 DEF RowIsMine
  <2>3. rows'[x] = FinalizeRow(rows[x], w, "success")
    BY <1>t, <1>2, <2>2 DEF RecordSuccess, Typed
  <2>4. rows'[x].status = "success"
    BY <1>t, <2>2, <2>3 DEF FinalizeRow, Typed, Row
  <2>5. \A v \in Workers : ~ Recording(x, v)'
    BY <1>t, <1>m, <2>1, <2>2 DEF Typed, Worker
  <2>6. appeared[x] = 1
    BY <1>2, <2>1 DEF Once, Unseen, Recorded, InRecording
  <2> QED BY <2>1, <2>4, <2>5, <2>6 DEF Once, Recorded
<1>3. ASSUME NEW w \in Workers, worker[w].post = x, Escape(w), worker[w].pc = "record"
      PROVE  Once(x)'
  BY <1>3 DEF Escape
<1> QED BY <1>1, <1>2, <1>3 DEF Marks

LEMMA OnceStep ==
  ASSUME TypeInv, NoneInv, EchoInv, NEW x \in Posts, Once(x), [Next]_vars
  PROVE  x \in doubt' \/ Once(x)'
<1>1. CASE Unrecordable(x)
  <2>1. PICK v \in Workers : Recording(x, v) /\ ~ RowIsMine(v)
    BY <1>1 DEF Unrecordable, Recording
  <2>2. x \in doubt' \/ (worker'[v] = worker[v] /\ ~ RowIsMine(v)')
    BY <2>1, LostStep DEF NoneInv, EchoInv
  <2> QED BY <2>1, <2>2 DEF Once, Unrecordable, Recording
<1>2. CASE ~ Unrecordable(x) /\ Marks(x)
  BY <1>2, MarkingPostStep
<1>3. CASE ~ Unrecordable(x) /\ ~ Marks(x)
  <2>1. /\ appeared'[x] = appeared[x]
        /\ \A v \in Workers : Recording(x, v)' <=> Recording(x, v)
    BY <1>3, QuietStep DEF Quiet
  <2>2. CASE Unseen(x)
    BY <2>1, <2>2 DEF Once, Unseen
  <2>3. CASE Recorded(x)
    <3>1. x \in doubt' \/ rows'[x].status = "success"
      BY <2>3, SuccessStep DEF EchoInv, Recorded
    <3> QED BY <2>1, <2>3, <3>1 DEF Once, Recorded
  <2>4. CASE InRecording(x)
    BY <2>1, <2>4 DEF Once, InRecording
  <2> QED BY <1>3, <2>2, <2>3, <2>4 DEF Once
<1> QED BY <1>1, <1>2, <1>3

LEMMA DoubtStep == [Next]_vars => doubt \subseteq doubt'
<1> USE DEF history
<1>1. ASSUME NEW w \in Workers, NEW i \in Items, ClaimSource(w, i) PROVE doubt \subseteq doubt'
  BY <1>1 DEF ClaimSource
<1>2. ASSUME NEW w \in Workers, RefuseItem(w) PROVE doubt \subseteq doubt'
  BY <1>2 DEF RefuseItem
<1>3. ASSUME NEW w \in Workers, FindRoom(w) PROVE doubt \subseteq doubt'
  BY <1>3 DEF FindRoom, Goto
<1>4. ASSUME NEW w \in Workers, NEW p \in Posts, InsertPost(w, p) PROVE doubt \subseteq doubt'
  BY <1>4 DEF InsertPost, Goto
<1>5. ASSUME NEW w \in Workers, MarkSource(w) PROVE doubt \subseteq doubt'
  BY <1>5 DEF MarkSource
<1>6. ASSUME NEW w \in Workers, NEW p \in Posts, ClaimDue(w, p) PROVE doubt \subseteq doubt'
  BY <1>6 DEF ClaimDue
<1>7. ASSUME NEW w \in Workers, OverHourlyCap(w) PROVE doubt \subseteq doubt'
  BY <1>7 DEF OverHourlyCap
<1>8. ASSUME NEW w \in Workers, CheckFeed(w) PROVE doubt \subseteq doubt'
  BY <1>8 DEF CheckFeed, LookUp
<1>9. ASSUME NEW w \in Workers, RefusePost(w) PROVE doubt \subseteq doubt'
  BY <1>9 DEF RefusePost
<1>10. ASSUME NEW w \in Workers, ClaimForSend(w) PROVE doubt \subseteq doubt'
  BY <1>10 DEF ClaimForSend, Goto
<1>11. ASSUME NEW w \in Workers, PreparationFails(w) PROVE doubt \subseteq doubt'
  BY <1>11 DEF PreparationFails, Goto
<1>12. ASSUME NEW w \in Workers, GuardClaim(w) PROVE doubt \subseteq doubt'
  BY <1>12 DEF GuardClaim, Goto
<1>13. ASSUME NEW w \in Workers, Send(w) PROVE doubt \subseteq doubt'
  BY <1>13 DEF Send, Goto
<1>14. ASSUME NEW w \in Workers, SendFails(w) PROVE doubt \subseteq doubt'
  BY <1>14 DEF SendFails, Goto
<1>15. ASSUME NEW w \in Workers, RecordSuccess(w) PROVE doubt \subseteq doubt'
  BY <1>15 DEF RecordSuccess, Goto
<1>16. ASSUME NEW w \in Workers, Judge(w) PROVE doubt \subseteq doubt'
  BY <1>16 DEF Judge
<1>17. ASSUME NEW w \in Workers, SettleFlush(w) PROVE doubt \subseteq doubt'
  BY <1>17 DEF SettleFlush
<1>18. ASSUME NEW w \in Workers, SettleRequest(w) PROVE doubt \subseteq doubt'
  BY <1>18 DEF SettleRequest
<1>19. ASSUME NEW w \in Workers, SettleRaised(w) PROVE doubt \subseteq doubt'
  BY <1>19 DEF SettleRaised
<1>20. ASSUME NEW w \in Workers, NEW p \in Posts, PostNow(w, p) PROVE doubt \subseteq doubt'
  BY <1>20 DEF PostNow, Press
<1>21. ASSUME NEW w \in Workers, NEW p \in Posts, Cancel(w, p) PROVE doubt \subseteq doubt'
  BY <1>21 DEF Cancel, Press
<1>22. ASSUME NEW w \in Workers, NEW p \in Posts, Retry(w, p) PROVE doubt \subseteq doubt'
  BY <1>22 DEF Retry, Press
<1>23. ASSUME NEW w \in Workers, NEW p \in Posts, ComposePost(w, p) PROVE doubt \subseteq doubt'
  BY <1>23 DEF ComposePost
<1>24. ASSUME NEW w \in Workers, NEW i \in Items, Compose(w, i) PROVE doubt \subseteq doubt'
  BY <1>24 DEF Compose, Press
<1>25. ASSUME NEW w \in Workers, CancelPost(w) PROVE doubt \subseteq doubt'
  BY <1>25 DEF CancelPost
<1>26. ASSUME NEW w \in Workers, RetryPost(w) PROVE doubt \subseteq doubt'
  BY <1>26 DEF RetryPost
<1>27. ASSUME NEW w \in Workers, Escape(w) PROVE doubt \subseteq doubt'
  BY <1>27 DEF Escape, Goto
<1>28. ASSUME ReclaimLapsed PROVE doubt \subseteq doubt'
  BY <1>28 DEF ReclaimLapsed
<1>29. ASSUME NEW p \in Posts, EditPost(p) PROVE doubt \subseteq doubt'
  BY <1>29 DEF EditPost
<1>30. ASSUME NEW p \in Posts, NEW q \in Posts, Reorder(p, q) PROVE doubt \subseteq doubt'
  BY <1>30 DEF Reorder
<1>31. ASSUME DeleteFeed PROVE doubt \subseteq doubt'
  BY <1>31 DEF DeleteFeed
<1>32. ASSUME Tick PROVE doubt \subseteq doubt'
  BY <1>32 DEF Tick
<1>33. ASSUME UNCHANGED vars PROVE doubt \subseteq doubt'
  BY <1>33 DEF vars
<1> QED BY <1>1, <1>2, <1>3, <1>4, <1>5, <1>6, <1>7, <1>8, <1>9, <1>10, <1>11,
     <1>12, <1>13, <1>14, <1>15, <1>16, <1>17, <1>18, <1>19, <1>20, <1>21, <1>22,
     <1>23, <1>24, <1>25, <1>26, <1>27, <1>28, <1>29, <1>30, <1>31, <1>32, <1>33 DEF
     Next, Act, Check, Flush, Dispatch, Route, Edit

LEMMA OnceInvStep == TypeInv /\ NoneInv /\ EchoInv /\ OnceInv /\ [Next]_vars => OnceInv'
BY OnceStep, DoubtStep DEF OnceInv

LEMMA EchoInvariance == Spec => []EchoInv
<1>1. Init => EchoInv
  BY QueueWorkerAssumption DEF Init, EchoInv, EchoKept, Read, Rest
<1> QED BY <1>1, TypeInvariance, NoneInvariance, EchoStep, PTL DEF Spec

\* A post appears twice only if an appearance could not be recorded, or if the row
\* of a success was deleted or left behind: without that, the one worker that may
\* send is the one that owns the claim on the row, and a recorded success is never
\* claimed again.
THEOREM DuplicatesAreExplained == Spec => []NoUnexplainedDuplicate
<1>1. Init => OnceInv
  BY DEF Init, OnceInv, Once, Unseen, Recording, Rest
<1>2. TypeInv /\ OnceInv => NoUnexplainedDuplicate
  BY DEF OnceInv, Once, Unseen, Recorded, InRecording, NoUnexplainedDuplicate, TypeInv, TypeOK
<1> QED BY <1>1, <1>2, TypeInvariance, NoneInvariance, EchoInvariance, OnceInvStep, PTL DEF Spec
=============================================================================
