------------------------- MODULE FeedDeliveryProofs --------------------------
(***************************************************************************)
(* What holds of FeedDelivery for any number of workers, echoes, items and *)
(* URLs, any deadlines and any operator routes: every variable keeps its   *)
(* type, the claim protocol prevents duplicate posts, a settled row stays  *)
(* settled, and every step is a move of the outbox or a stutter.           *)
(*                                                                         *)
(* The second half is about the feed cursor: it passes a post only when    *)
(* the post is handled or its claim was taken over, and a worker that lost *)
(* its lease cannot put it back.  CursorOK says how far a worker has come: *)
(* `mark' is the last item of the loop over the new items of which every   *)
(* post was dealt with, and `todo' is what lies ahead of it.  GuardInv     *)
(* says who may touch the row of a post in delivery; FreshInv, that the    *)
(* lease freezes the cursor.                                               *)
(***************************************************************************)
EXTENDS FeedDelivery, PostedItemsProofs, SequenceTheorems, TLAPS

-----------------------------------------------------------------------------
(* The strengthened type invariant.                                        *)

\* Which locals are meaningful at which step: the shape of the code that
\* assigns them before it gets there.
LocalsSet(j) ==
  /\ j.pc = "fetch" => j.url \in Urls
  /\ j.pc = "init" => j.items # <<>>
  /\ j.pc = "renew" => j.phase # "sweep" /\ j.todo # <<>>
  /\ j.pc \in {"refetch", "sweep"} => j.phase = "sweep"
  /\ j.pc \in {"claim", "prepare", "send", "record"} =>
       j.item \in Items /\ (j.phase # "sweep" => j.todo # <<>>)
  /\ j.pc \in {"prepare", "send", "record"} => j.echo \in Echoes

GoodWorker(j) == j \in Worker /\ LocalsSet(j)

TypeInv == TypeOK /\ \A w \in Workers : LocalsSet(worker[w])

-----------------------------------------------------------------------------
(* Reading a feed document yields sequences of items.                      *)

LEMMA ReversedType ==
  ASSUME NEW s \in Seq(Items)
  PROVE  Reversed(s) \in Seq(Items)
<1>1. \A k \in DOMAIN s : Len(s) + 1 - k \in DOMAIN s
  OBVIOUS
<1>2. \A k \in DOMAIN s : s[Len(s) + 1 - k] \in Items
  BY <1>1
<1> QED BY <1>2 DEF Reversed

LEMMA PositionOfListed ==
  ASSUME NEW s \in Seq(Items), NEW i \in Listed(s)
  PROVE  PositionOf(s, i) \in 1..Len(s) /\ s[PositionOf(s, i)] = i
BY DEF PositionOf, Listed

LEMMA NewItemsType ==
  ASSUME NEW s \in Seq(Items), NEW c
  PROVE  NewItems(s, c) \in Seq(Items)
<1>1. c \in Listed(s) => SubSeq(s, 1, PositionOf(s, c) - 1) \in Seq(Items)
  <2>1. c \in Listed(s) => PositionOf(s, c) \in 1..Len(s) BY PositionOfListed
  <2> QED BY <2>1, SubSeqProperties
<1>2. s # <<>> => <<Head(s)>> \in Seq(Items)
  BY HeadTailProperties
<1>3. <<>> \in Seq(Items)
  OBVIOUS
<1> QED BY <1>1, <1>2, <1>3, ReversedType DEF NewItems

LEMMA OlderItemsType ==
  ASSUME NEW s \in Seq(Items), NEW c
  PROVE  OlderItems(s, c) \in Seq(Items)
<1> DEFINE at == IF c \in Listed(s) THEN PositionOf(s, c) ELSE 1
<1>1. at \in Nat /\ at >= 1 BY PositionOfListed
<1>2. SubSeq(s, at + 1, Len(s)) \in Seq(Items)
  BY <1>1, SubSeqProperties
<1> QED BY <1>2, ReversedType DEF OlderItems
-----------------------------------------------------------------------------
(* The control flow keeps the locals of a worker well-formed and returns   *)
(* to a step outside the delivery of a post.                               *)

\* The steps between a successful claim and the record of its result.
Delivering == {"prepare", "send", "record"}

LEMMA OutcomeGood ==
  ASSUME NEW j \in Worker, NEW a \in Outcomes
  PROVE  LET k == [j EXCEPT !.outcome = a]
         IN  /\ k \in Worker /\ k.pc = j.pc /\ k.echo = j.echo
             /\ k.item = j.item /\ k.phase = j.phase /\ k.todo = j.todo
BY DEF Worker

LEMMA GotoGood ==
  ASSUME NEW j \in Worker, NEW step \in Steps
  PROVE  LET k == Goto(j, step)
         IN  /\ k \in Worker /\ k.pc = step /\ k.echo = j.echo
             /\ k.item = j.item /\ k.phase = j.phase /\ k.todo = j.todo
BY DEF Worker, Goto

LEMMA IdleGood ==
  ASSUME NEW step \in {"idle", "read", "release"}
  PROVE  GoodWorker(Goto(Idle, step)) /\ GoodWorker(Idle)
<1>1. Idle \in Worker
  BY DEF Idle, Worker, Steps, Outcomes
<1>2. Idle.pc = "idle" /\ Goto(Idle, step) \in Worker /\ Goto(Idle, step).pc = step
  BY <1>1 DEF Idle, Goto, Worker, Steps
<1> QED BY <1>1, <1>2 DEF GoodWorker, LocalsSet

LEMMA IdleGoto ==
  ASSUME NEW step \in Steps
  PROVE  Goto(Idle, step) \in Worker /\ Goto(Idle, step).pc = step
<1>1. Idle \in Worker
  BY IdleGood DEF GoodWorker
<1> QED BY <1>1 DEF Goto, Worker

LEMMA EndOfLoopsGood ==
  ASSUME NEW j \in Worker
  PROVE  GoodWorker(EndOfLoops(j)) /\ EndOfLoops(j).pc \notin Delivering
<1>1. Goto(j, "cursor") \in Worker /\ Goto(j, "cursor").pc = "cursor"
  BY DEF Goto, Worker, Steps
<1>2. EndOfLoops(j) \in Worker /\ EndOfLoops(j).pc = "cursor"
  <2>1. ASSUME NEW g \in Worker
        PROVE  /\ [g EXCEPT !.todo = <<>>, !.item = Null] \in Worker
               /\ [g EXCEPT !.todo = <<>>, !.item = Null].pc = g.pc
    <3>1. <<>> \in Seq(Items) OBVIOUS
    <3> QED BY <3>1 DEF Worker
  <2> QED BY <1>1, <2>1 DEF EndOfLoops
<1> QED BY <1>2 DEF GoodWorker, LocalsSet, Delivering

LEMMA RenewGood ==
  ASSUME NEW j \in Worker, j.phase # "sweep", j.todo # <<>>
  PROVE  GoodWorker(Goto(j, "renew")) /\ Goto(j, "renew").pc \notin Delivering
BY DEF GoodWorker, LocalsSet, Goto, Worker, Steps, Delivering

LEMMA BeginBackdatedGood ==
  ASSUME NEW j \in Worker
  PROVE  GoodWorker(BeginBackdated(j)) /\ BeginBackdated(j).pc \notin Delivering
<1> DEFINE older == IF Backdating THEN OlderItems(j.items, j.cursor) ELSE <<>>
           next  == [Goto(j, "renew") EXCEPT !.phase = "back", !.todo = older]
<1>1. older \in Seq(Items)
  BY OlderItemsType DEF Worker
<1>2. CASE older = <<>>
  BY <1>2, EndOfLoopsGood DEF BeginBackdated
<1>3. CASE older # <<>>
  <2>1. BeginBackdated(j) = next
    BY <1>3 DEF BeginBackdated
  <2>2. next \in Worker /\ next.pc = "renew" /\ next.phase = "back" /\ next.todo = older
    <3> HIDE DEF older
    <3> QED BY <1>1 DEF Goto, Worker, Steps
  <2> HIDE DEF next, older
  <2> QED BY <1>3, <2>1, <2>2 DEF GoodWorker, LocalsSet, Delivering
<1> QED BY <1>2, <1>3

LEMMA BeginNewGood ==
  ASSUME NEW j \in Worker
  PROVE  GoodWorker(BeginNew(j)) /\ BeginNew(j).pc \notin Delivering
<1> DEFINE new  == NewItems(j.items, j.cursor)
           next == [Goto(j, "renew") EXCEPT !.phase = "new", !.todo = new]
<1>1. new \in Seq(Items)
  BY NewItemsType DEF Worker
<1>2. CASE new = <<>>
  <2>1. GoodWorker(Goto(j, "release")) /\ Goto(j, "release").pc \notin Delivering
    <3>1. Goto(j, "release") \in Worker /\ Goto(j, "release").pc = "release"
      BY DEF Goto, Worker, Steps
    <3> QED BY <3>1 DEF GoodWorker, LocalsSet, Delivering
  <2> QED BY <1>2, <2>1, BeginBackdatedGood DEF BeginNew
<1>3. CASE new # <<>>
  <2>1. BeginNew(j) = next
    BY <1>3 DEF BeginNew
  <2>2. next \in Worker /\ next.pc = "renew" /\ next.phase = "new" /\ next.todo = new
    <3> HIDE DEF new
    <3> QED BY <1>1 DEF Goto, Worker, Steps
  <2> HIDE DEF next, new
  <2> QED BY <1>3, <2>1, <2>2 DEF GoodWorker, LocalsSet, Delivering
<1> QED BY <1>2, <1>3

LEMMA ItemDoneGood ==
  ASSUME NEW j \in Worker, j.item \in Items, j.phase # "sweep" => j.todo # <<>>
  PROVE  GoodWorker(ItemDone(j)) /\ ItemDone(j).pc \notin Delivering
<1> DEFINE rest  == [j EXCEPT !.todo = Tail(@), !.item = Null, !.ok = TRUE]
           moved == [rest EXCEPT !.mark = j.item]
<1>1. CASE j.phase = "sweep"
  <2>1. ItemDone(j) \in Worker /\ ItemDone(j).pc = "sweep" /\ ItemDone(j).phase = "sweep"
    BY <1>1 DEF ItemDone, Goto, Worker, Steps
  <2> QED BY <2>1 DEF GoodWorker, LocalsSet, Delivering
<1>2. CASE j.phase # "sweep"
  <2>1. Tail(j.todo) \in Seq(Items)
    BY <1>2, HeadTailProperties DEF Worker
  <2>2. rest \in Worker /\ moved \in Worker /\ rest.phase # "sweep" /\ moved.phase # "sweep"
    BY <1>2, <2>1 DEF Worker
  <2>3. \/ ItemDone(j) \in {BeginBackdated(rest), BeginBackdated(moved), EndOfLoops(rest)}
        \/ (ItemDone(j) = Goto(moved, "renew") /\ moved.todo # <<>>)
        \/ (ItemDone(j) = Goto(rest, "renew") /\ rest.todo # <<>>)
    BY <1>2 DEF ItemDone, NewItemDone
  <2> HIDE DEF rest, moved
  <2> QED BY <2>2, <2>3, BeginBackdatedGood, EndOfLoopsGood, RenewGood
<1> QED BY <1>1, <1>2

LEMMA EchoDoneGood ==
  ASSUME NEW j \in Worker, j.item \in Items, j.phase # "sweep" => j.todo # <<>>,
         NEW e \in Echoes, NEW result \in BOOLEAN
  PROVE  GoodWorker(EchoDone(j, e, result)) /\ EchoDone(j, e, result).pc \notin Delivering
<1> DEFINE next == [j EXCEPT !.left = @ \ {e}, !.echo = Null, !.outcome = "none",
                             !.ok = @ /\ result]
<1>1. next \in Worker /\ next.item \in Items /\ (next.phase # "sweep" => next.todo # <<>>)
  BY DEF Worker, Outcomes
<1>2. GoodWorker(Goto(next, "claim")) /\ Goto(next, "claim").pc \notin Delivering
  <2> HIDE DEF next
  <2>1. /\ Goto(next, "claim") \in Worker /\ Goto(next, "claim").pc = "claim"
        /\ Goto(next, "claim").item = next.item /\ Goto(next, "claim").phase = next.phase
        /\ Goto(next, "claim").todo = next.todo
    BY <1>1, GotoGood DEF Steps
  <2> HIDE DEF Goto
  <2> QED BY <1>1, <2>1 DEF GoodWorker, LocalsSet, Delivering
<1>3. EchoDone(j, e, result) \in {ItemDone(next), Goto(next, "claim")}
  BY DEF EchoDone
<1> HIDE DEF next
<1> QED BY <1>1, <1>2, <1>3, ItemDoneGood
-----------------------------------------------------------------------------
(* TypeInv is inductive.                                                   *)

LEMMA BecomesGood ==
  ASSUME TypeInv, NEW w \in Workers, NEW j, GoodWorker(j), Becomes(w, j)
  PROVE  worker' \in [Workers -> Worker] /\ \A v \in Workers : LocalsSet(worker'[v])
BY DEF TypeInv, TypeOK, Becomes, GoodWorker

LEMMA FencedType ==
  ASSUME feed \in Feed, NEW w, NEW f \in Feed
  PROVE  Fenced(w, f) \in Feed
BY DEF Fenced

LEMMA TypeInit == Init => TypeInv
<1> SUFFICES ASSUME Init PROVE TypeInv
  OBVIOUS
<1>1. feed \in Feed
  BY DEF Init, Feed
<1>2. Absent \in Row
  BY AttemptAssumption DEF Absent, Row, Statuses
<1>3. Idle \in Worker /\ LocalsSet(Idle)
  BY IdleGood DEF GoodWorker
<1>4. <<>> \in Seq(Items) /\ faults \in 0..MaxFaults
  BY BoundAssumption DEF Init
<1> QED BY <1>1, <1>2, <1>3, <1>4 DEF Init, TypeInv, TypeOK

\* What a step that moves one worker has to leave behind.
LEMMA WorkerStepType ==
  ASSUME TypeInv, NEW w \in Workers, NEW j, GoodWorker(j), Becomes(w, j),
         feed' \in Feed, rows' \in [Posts -> Row],
         UNCHANGED <<origin, enabled, published, doubt, faults>>
  PROVE  TypeInv'
BY BecomesGood DEF TypeInv, TypeOK

\* Claiming, failing and leaving a post for the next one.
LEMMA DispatchType ==
  ASSUME TypeInv, NEW w \in Workers
  PROVE  /\ FilterItem(w) => TypeInv'
         /\ Claim(w) => TypeInv'
         /\ SkipUnclaimable(w) => TypeInv'
<1> DEFINE j == worker[w]
<1> SUFFICES ASSUME j.pc = "claim"
             PROVE  /\ FilterItem(w) => TypeInv'
                    /\ Claim(w) => TypeInv'
                    /\ SkipUnclaimable(w) => TypeInv'
  BY DEF FilterItem, Claim, SkipUnclaimable
<1>1. /\ j \in Worker /\ j.left \subseteq Echoes /\ j.item \in Items
      /\ j.phase # "sweep" => j.todo # <<>>
  BY DEF TypeInv, TypeOK, LocalsSet, Worker
<1>2. \A e \in j.left : <<e, j.item>> \in Posts /\ rows[<<e, j.item>>] \in Row
  BY <1>1 DEF Posts, TypeInv, TypeOK
<1>3. \A e \in j.left, result \in BOOLEAN : GoodWorker(EchoDone(j, e, result))
  BY <1>1, EchoDoneGood
<1>4. ASSUME FilterItem(w) PROVE TypeInv'
  <2>1. PICK e \in j.left : /\ rows' = [rows EXCEPT ![<<e, j.item>>] = FilterRow(@)]
                            /\ Becomes(w, EchoDone(j, e, TRUE))
    BY <1>4 DEF FilterItem
  <2>2. rows' \in [Posts -> Row]
    BY <1>2, <2>1, ButtonRowType DEF TypeInv, TypeOK
  <2>3. feed' \in Feed /\ UNCHANGED <<origin, enabled, published, doubt, faults>>
    BY <1>4 DEF FilterItem, TypeInv, TypeOK
  <2> QED BY <1>3, <2>1, <2>2, <2>3, WorkerStepType
<1>5. ASSUME Claim(w) PROVE TypeInv'
  <2> DEFINE next(e) == [Goto(j, "prepare") EXCEPT !.echo = e]
  <2>1. PICK e \in j.left :
          /\ rows' = [rows EXCEPT ![<<e, j.item>>] = ClaimRow(@, w)]
          /\ doubt' = [doubt EXCEPT ![<<e, j.item>>] = DoubtAfterClaim(<<e, j.item>>)]
          /\ Becomes(w, next(e))
    BY <1>5 DEF Claim
  <2>2. GoodWorker(next(e))
    <3>1. Goto(j, "prepare") \in Worker /\ Goto(j, "prepare").pc = "prepare"
          /\ Goto(j, "prepare").item = j.item /\ Goto(j, "prepare").phase = j.phase
          /\ Goto(j, "prepare").todo = j.todo
      BY <1>1 DEF Goto, Worker, Steps
    <3>2. /\ next(e) \in Worker /\ next(e).pc = "prepare" /\ next(e).echo = e
          /\ next(e).item = j.item /\ next(e).phase = j.phase /\ next(e).todo = j.todo
      BY <1>1, <3>1 DEF Worker
    <3> HIDE DEF next
    <3> QED BY <1>1, <3>2 DEF GoodWorker, LocalsSet
  <2>3. rows' \in [Posts -> Row]
    BY <1>2, <2>1, ClaimRowType DEF TypeInv, TypeOK
  <2>4. doubt' \in [Posts -> SUBSET {"taken_over", "unsure"}]
    BY <1>2, <2>1 DEF TypeInv, TypeOK, DoubtAfterClaim
  <2>5. UNCHANGED <<origin, feed, enabled, published, faults>>
    BY <1>5 DEF Claim
  <2>6. worker' \in [Workers -> Worker] /\ \A v \in Workers : LocalsSet(worker'[v])
    BY <2>1, <2>2, BecomesGood
  <2> QED BY <2>3, <2>4, <2>5, <2>6 DEF TypeInv, TypeOK
<1>6. ASSUME SkipUnclaimable(w) PROVE TypeInv'
  <2>1. PICK e \in j.left : Becomes(w, EchoDone(j, e, rows[<<e, j.item>>].status \in Handled))
    BY <1>6 DEF SkipUnclaimable
  <2>2. rows' \in [Posts -> Row] /\ feed' \in Feed
        /\ UNCHANGED <<origin, enabled, published, doubt, faults>>
    BY <1>6 DEF SkipUnclaimable, TypeInv, TypeOK
  <2>3. (rows[<<e, j.item>>].status \in Handled) \in BOOLEAN
    OBVIOUS
  <2> QED BY <1>3, <2>1, <2>2, <2>3, WorkerStepType
<1> QED BY <1>4, <1>5, <1>6

\* The steps from a claimed post to the record of its result.
LEMMA DeliverType ==
  ASSUME TypeInv, NEW w \in Workers
  PROVE  /\ PreparationFails(w) => TypeInv'
         /\ GuardClaim(w) => TypeInv'
         /\ Send(w) => TypeInv'
         /\ RecordSuccess(w) => TypeInv'
         /\ RecordFailure(w) => TypeInv'
<1> DEFINE j == worker[w]
           p == Post(j)
<1> SUFFICES ASSUME j.pc \in Delivering
             PROVE  /\ PreparationFails(w) => TypeInv'
                    /\ GuardClaim(w) => TypeInv'
                    /\ Send(w) => TypeInv'
                    /\ RecordSuccess(w) => TypeInv'
                    /\ RecordFailure(w) => TypeInv'
  BY DEF PreparationFails, GuardClaim, Send, RecordSuccess, RecordFailure, Delivering
<1>1. /\ j \in Worker /\ j.echo \in Echoes /\ j.item \in Items
      /\ j.phase # "sweep" => j.todo # <<>>
  BY DEF TypeInv, TypeOK, LocalsSet, Delivering
<1>2. p \in Posts /\ rows[p] \in Row
  BY <1>1 DEF Post, Posts, TypeInv, TypeOK
<1>3. \A result \in BOOLEAN : GoodWorker(EchoDone(j, j.echo, result))
  BY <1>1, EchoDoneGood
<1>4. ASSUME NEW permanent \in BOOLEAN, FailPost(w, permanent) PROVE TypeInv'
  <2>1. rows' \in [Posts -> Row]
    BY <1>2, <1>4, FailRowType DEF FailPost, TypeInv, TypeOK
  <2>2. feed' \in Feed /\ UNCHANGED <<origin, enabled, published, doubt, faults>>
    BY <1>4 DEF FailPost, TypeInv, TypeOK
  <2>3. Becomes(w, EchoDone(j, j.echo, FailureStatus(rows[p], permanent) = "gave_up"))
    BY <1>4 DEF FailPost
  <2>4. (FailureStatus(rows[p], permanent) = "gave_up") \in BOOLEAN
    OBVIOUS
  <2> QED BY <1>3, <2>1, <2>2, <2>3, <2>4, WorkerStepType
<1>5. PreparationFails(w) => TypeInv'
  BY <1>4 DEF PreparationFails
<1>6. RecordFailure(w) => TypeInv'
  BY <1>4 DEF RecordFailure
<1>7. ASSUME GuardClaim(w) PROVE TypeInv'
  <2>1. GoodWorker(Goto(j, "send"))
    <3>1. /\ Goto(j, "send") \in Worker /\ Goto(j, "send").pc = "send"
          /\ Goto(j, "send").item = j.item /\ Goto(j, "send").phase = j.phase
          /\ Goto(j, "send").todo = j.todo /\ Goto(j, "send").echo = j.echo
      BY <1>1 DEF Goto, Worker, Steps
    <3> QED BY <1>1, <3>1 DEF GoodWorker, LocalsSet
  <2>2. /\ rows' \in [Posts -> Row] /\ feed' \in Feed
        /\ UNCHANGED <<origin, enabled, published, doubt, faults>>
    BY <1>7 DEF GuardClaim, TypeInv, TypeOK
  <2>3. Becomes(w, Goto(j, "send")) \/ Becomes(w, EchoDone(j, j.echo, FALSE))
    BY <1>7 DEF GuardClaim
  <2> QED BY <1>3, <2>1, <2>2, <2>3, WorkerStepType
<1>8. ASSUME Send(w) PROVE TypeInv'
  <2> DEFINE next(a) == [Goto(j, "record") EXCEPT !.outcome = a]
  <2>1. PICK a \in Outcomes \ {"none"} :
          /\ published' = IF a \in {"ok", "lost"} /\ published[p] < 2
                          THEN [published EXCEPT ![p] = @ + 1] ELSE published
          /\ doubt' = IF a = "lost" THEN [doubt EXCEPT ![p] = @ \cup {"unsure"}] ELSE doubt
          /\ Becomes(w, next(a))
    BY <1>8 DEF Send
  <2>2. GoodWorker(next(a))
    <3>1. /\ Goto(j, "record") \in Worker /\ Goto(j, "record").pc = "record"
          /\ Goto(j, "record").item = j.item /\ Goto(j, "record").phase = j.phase
          /\ Goto(j, "record").todo = j.todo /\ Goto(j, "record").echo = j.echo
      BY <1>1, GotoGood DEF Steps
    <3>2. /\ next(a) \in Worker /\ next(a).pc = "record" /\ next(a).echo = j.echo
          /\ next(a).item = j.item /\ next(a).phase = j.phase /\ next(a).todo = j.todo
      BY <3>1, OutcomeGood
    <3> HIDE DEF next
    <3> QED BY <1>1, <3>2 DEF GoodWorker, LocalsSet
  <2>3. published' \in [Posts -> 0..2]
    BY <1>2, <2>1 DEF TypeInv, TypeOK
  <2>4. doubt' \in [Posts -> SUBSET {"taken_over", "unsure"}]
    BY <1>2, <2>1 DEF TypeInv, TypeOK
  <2>5. UNCHANGED <<origin, feed, enabled, rows, faults>>
    BY <1>8 DEF Send
  <2>6. worker' \in [Workers -> Worker] /\ \A v \in Workers : LocalsSet(worker'[v])
    BY <2>1, <2>2, BecomesGood
  <2> QED BY <2>3, <2>4, <2>5, <2>6 DEF TypeInv, TypeOK
<1>9. ASSUME RecordSuccess(w) PROVE TypeInv'
  <2>1. rows' = [rows EXCEPT ![p] = FinalizeRow(@, w, "success")]
    BY <1>9 DEF RecordSuccess
  <2>2. rows' \in [Posts -> Row]
    BY <1>2, <2>1, FinalizeRowType DEF TypeInv, TypeOK, Statuses
  <2>3. feed' \in Feed /\ UNCHANGED <<origin, enabled, published, doubt, faults>>
    BY <1>9 DEF RecordSuccess, TypeInv, TypeOK
  <2>4. Becomes(w, EchoDone(j, j.echo, Owns(rows[p], w)))
    BY <1>9 DEF RecordSuccess
  <2>5. Owns(rows[p], w) \in BOOLEAN
    BY DEF Owns
  <2> QED BY <1>3, <2>2, <2>3, <2>4, <2>5, WorkerStepType
<1> QED BY <1>5, <1>6, <1>7, <1>8, <1>9

\* The lease, the snapshot and the fetch.
LEMMA FetchType ==
  ASSUME TypeInv, NEW w \in Workers
  PROVE  /\ Acquire(w) => TypeInv'
         /\ ReadFeed(w) => TypeInv'
         /\ (FetchFails(w) \/ FetchNotModified(w)) => TypeInv'
         /\ FetchBody(w) => TypeInv'
         /\ SaveValidators(w) => TypeInv'
         /\ InitializeCursor(w) => TypeInv'
         /\ Renew(w) => TypeInv'
<1> DEFINE j == worker[w]
<1>1. j \in Worker /\ LocalsSet(j) /\ feed \in Feed /\ rows \in [Posts -> Row]
  BY DEF TypeInv, TypeOK
<1>2. ASSUME Acquire(w) PROVE TypeInv'
  <2>1. feed' \in Feed
    BY <1>1, <1>2, BoundAssumption DEF Acquire, Feed
  <2> QED BY <1>1, <1>2, <2>1, IdleGood, WorkerStepType DEF Acquire
<1>3. ASSUME ReadFeed(w) PROVE TypeInv'
  <2> DEFINE next == [Goto(Idle, "fetch") EXCEPT !.url = feed.url, !.cursor = feed.cursor,
                                                 !.mark = feed.cursor, !.etag = feed.etag,
                                                 !.echoes = enabled]
  <2>1. Becomes(w, Goto(Idle, "release")) \/ Becomes(w, next)
    BY <1>3 DEF ReadFeed
  <2>2. GoodWorker(next)
    <3>1. Goto(Idle, "fetch") \in Worker /\ Goto(Idle, "fetch").pc = "fetch"
      BY IdleGoto DEF Steps
    <3>2. next \in Worker /\ next.pc = "fetch" /\ next.url \in Urls
      BY <1>1, <3>1 DEF Feed, Worker, TypeInv, TypeOK
    <3> HIDE DEF next
    <3> QED BY <3>2 DEF GoodWorker, LocalsSet
  <2>3. UNCHANGED <<origin, feed, enabled, rows, published, doubt, faults>>
    BY <1>3 DEF ReadFeed
  <2> HIDE DEF next
  <2> QED BY <1>1, <2>1, <2>2, <2>3, IdleGood, WorkerStepType
<1>4. ASSUME FetchFails(w) \/ FetchNotModified(w) PROVE TypeInv'
  <2>1. [feed EXCEPT !.etag = j.etag] \in Feed
    BY <1>1 DEF Feed, Worker
  <2>2. CASE FetchFails(w)
    BY <1>1, <2>2, IdleGood, WorkerStepType DEF FetchFails
  <2>3. CASE FetchNotModified(w)
    <3>1. feed' \in Feed
      BY <1>1, <2>1, <2>3, FencedType DEF FetchNotModified
    <3> QED BY <1>1, <2>3, <3>1, IdleGood, WorkerStepType DEF FetchNotModified
  <2> QED BY <1>4, <2>2, <2>3
<1>5. ASSUME FetchBody(w) PROVE TypeInv'
  <2> DEFINE next == [Goto(j, "save") EXCEPT !.items = origin[j.url],
                                             !.url = Null, !.etag = Null]
  <2>1. Becomes(w, next)
    BY <1>5 DEF FetchBody
  <2>2. GoodWorker(next)
    <3>1. origin[j.url] \in Seq(Items)
      BY <1>5 DEF FetchBody, TypeInv, TypeOK, LocalsSet
    <3>2. Goto(j, "save") \in Worker /\ Goto(j, "save").pc = "save"
      BY <1>1 DEF Goto, Worker, Steps
    <3>3. next \in Worker /\ next.pc = "save"
      BY <3>1, <3>2 DEF Worker
    <3> HIDE DEF next
    <3> QED BY <3>3 DEF GoodWorker, LocalsSet
  <2>3. UNCHANGED <<origin, feed, enabled, rows, published, doubt, faults>>
    BY <1>5 DEF FetchBody
  <2> HIDE DEF next
  <2> QED BY <1>1, <2>1, <2>2, <2>3, WorkerStepType
<1>6. ASSUME SaveValidators(w) PROVE TypeInv'
  <2>1. [feed EXCEPT !.etag = IF Validators THEN j.items ELSE Null] \in Feed
    BY <1>1 DEF Feed, Worker
  <2>2. feed' \in Feed
    BY <1>1, <1>6, <2>1, FencedType DEF SaveValidators
  <2>3. \/ Becomes(w, Goto(Idle, "release"))
        \/ (j.items # <<>> /\ Becomes(w, Goto(j, "init")))
        \/ Becomes(w, BeginNew(j))
    BY <1>6 DEF SaveValidators
  <2>4. j.items # <<>> => GoodWorker(Goto(j, "init"))
    <3>1. /\ Goto(j, "init") \in Worker /\ Goto(j, "init").pc = "init"
          /\ Goto(j, "init").items = j.items
      BY <1>1 DEF Goto, Worker, Steps
    <3> QED BY <3>1 DEF GoodWorker, LocalsSet
  <2>5. UNCHANGED <<origin, enabled, rows, published, doubt, faults>>
    BY <1>6 DEF SaveValidators
  <2> QED BY <1>1, <2>2, <2>3, <2>4, <2>5, IdleGood, BeginNewGood, WorkerStepType
<1>7. ASSUME InitializeCursor(w) PROVE TypeInv'
  <2>1. Head(j.items) \in Items
    BY <1>1, <1>7, HeadTailProperties DEF InitializeCursor, LocalsSet, Worker
  <2>2. [feed EXCEPT !.cursor = Head(j.items)] \in Feed
    BY <1>1, <2>1 DEF Feed
  <2>3. feed' \in Feed
    BY <1>1, <1>7, <2>2, FencedType DEF InitializeCursor
  <2> QED BY <1>1, <1>7, <2>3, IdleGood, WorkerStepType DEF InitializeCursor
<1>8. ASSUME Renew(w) PROVE TypeInv'
  <2> DEFINE next == [Goto(j, "claim") EXCEPT !.item = Head(j.todo), !.left = j.echoes]
  <2>1. [feed EXCEPT !.leaseLeft = LeaseTicks] \in Feed
    BY <1>1, BoundAssumption DEF Feed
  <2>2. feed' \in Feed
    BY <1>1, <1>8, <2>1, FencedType DEF Renew
  <2>3. Becomes(w, Goto(Idle, "release")) \/ Becomes(w, next)
    BY <1>8 DEF Renew
  <2>4. GoodWorker(next)
    <3>1. j.todo # <<>> /\ Head(j.todo) \in Items
      BY <1>1, <1>8, HeadTailProperties DEF Renew, LocalsSet, Worker
    <3>2. /\ Goto(j, "claim") \in Worker /\ Goto(j, "claim").pc = "claim"
          /\ Goto(j, "claim").todo = j.todo
      BY <1>1 DEF Goto, Worker, Steps
    <3>3. next \in Worker /\ next.pc = "claim" /\ next.item \in Items /\ next.todo = j.todo
      BY <1>1, <3>1, <3>2 DEF Worker
    <3> HIDE DEF next
    <3> QED BY <3>1, <3>3 DEF GoodWorker, LocalsSet
  <2>5. UNCHANGED <<origin, enabled, rows, published, doubt, faults>>
    BY <1>8 DEF Renew
  <2> HIDE DEF next
  <2> QED BY <1>1, <2>2, <2>3, <2>4, <2>5, IdleGood, WorkerStepType
<1> QED BY <1>2, <1>3, <1>4, <1>5, <1>6, <1>7, <1>8

\* The cursor, the retry sweep, the release and the faults.
LEMMA SweepType ==
  ASSUME TypeInv, NEW w \in Workers
  PROVE  /\ UpdateCursor(w) => TypeInv'
         /\ FindDue(w) => TypeInv'
         /\ Refetch(w) => TypeInv'
         /\ (RefetchFails(w) \/ SweepEnds(w)) => TypeInv'
         /\ SweepAbandons(w) => TypeInv'
         /\ SweepRetries(w) => TypeInv'
         /\ Release(w) => TypeInv'
         /\ Fault(w) => TypeInv'
<1> DEFINE j == worker[w]
<1>1. j \in Worker /\ LocalsSet(j) /\ feed \in Feed /\ rows \in [Posts -> Row]
  BY DEF TypeInv, TypeOK
<1>2. ASSUME UpdateCursor(w) PROVE TypeInv'
  <2> DEFINE next == [Goto(Idle, "due") EXCEPT !.echoes = j.echoes]
  <2>1. [feed EXCEPT !.cursor = j.mark] \in Feed
    BY <1>1 DEF Feed, Worker
  <2>2. feed' \in Feed
    BY <1>1, <1>2, <2>1, FencedType DEF UpdateCursor
  <2>3. GoodWorker(next)
    <3>1. Goto(Idle, "due") \in Worker /\ Goto(Idle, "due").pc = "due"
      BY IdleGoto DEF Steps
    <3>2. next \in Worker /\ next.pc = "due"
      <4>1. j.echoes \in SUBSET Echoes
        BY <1>1 DEF Worker
      <4>2. ASSUME NEW g \in Worker, NEW s \in SUBSET Echoes
            PROVE  [g EXCEPT !.echoes = s] \in Worker /\ [g EXCEPT !.echoes = s].pc = g.pc
        BY DEF Worker
      <4> QED BY <3>1, <4>1, <4>2
    <3> HIDE DEF next
    <3> QED BY <3>2 DEF GoodWorker, LocalsSet
  <2>4. Becomes(w, next) /\ UNCHANGED <<origin, enabled, rows, published, doubt, faults>>
    BY <1>2 DEF UpdateCursor
  <2> HIDE DEF next
  <2> QED BY <1>1, <2>2, <2>3, <2>4, WorkerStepType
<1>3. ASSUME FindDue(w) PROVE TypeInv'
  <2> DEFINE due  == {p \in j.echoes \X Items : RetryDue(rows[p])}
             next == [Goto(Idle, "refetch") EXCEPT !.due = due, !.phase = "sweep"]
  <2>1. due \subseteq Posts
    BY <1>1 DEF Worker, Posts
  <2>2. GoodWorker(next)
    <3> HIDE DEF due
    <3>1. Goto(Idle, "refetch") \in Worker /\ Goto(Idle, "refetch").pc = "refetch"
      BY IdleGoto DEF Steps
    <3>2. next \in Worker /\ next.pc = "refetch" /\ next.phase = "sweep"
      BY <2>1, <3>1 DEF Worker
    <3> HIDE DEF next
    <3> QED BY <3>2 DEF GoodWorker, LocalsSet
  <2>3. Becomes(w, Goto(Idle, "release")) \/ Becomes(w, next)
    BY <1>3 DEF FindDue
  <2>4. UNCHANGED <<origin, feed, enabled, rows, published, doubt, faults>>
    BY <1>3 DEF FindDue
  <2> HIDE DEF next
  <2> QED BY <1>1, <2>2, <2>3, <2>4, IdleGood, WorkerStepType
<1>4. ASSUME Refetch(w) PROVE TypeInv'
  <2> DEFINE next == [Goto(j, "sweep") EXCEPT !.items = origin[feed.url]]
  <2>1. GoodWorker(next)
    <3>1. origin[feed.url] \in Seq(Items)
      BY <1>1 DEF Feed, TypeInv, TypeOK
    <3>2. /\ Goto(j, "sweep") \in Worker /\ Goto(j, "sweep").pc = "sweep"
          /\ Goto(j, "sweep").phase = j.phase
      BY <1>1 DEF Goto, Worker, Steps
    <3>3. next \in Worker /\ next.pc = "sweep" /\ next.phase = j.phase
      BY <3>1, <3>2 DEF Worker
    <3>4. j.phase = "sweep"
      BY <1>1, <1>4 DEF Refetch, LocalsSet
    <3> HIDE DEF next
    <3> QED BY <3>3, <3>4 DEF GoodWorker, LocalsSet
  <2>2. Becomes(w, next) /\ UNCHANGED <<origin, feed, enabled, rows, published, doubt, faults>>
    BY <1>4 DEF Refetch
  <2> HIDE DEF next
  <2> QED BY <1>1, <2>1, <2>2, WorkerStepType
<1>5. ASSUME RefetchFails(w) \/ SweepEnds(w) PROVE TypeInv'
  BY <1>1, <1>5, IdleGood, WorkerStepType DEF RefetchFails, SweepEnds
<1>6. ASSUME SweepAbandons(w) PROVE TypeInv'
  <2> DEFINE next(p) == [j EXCEPT !.due = @ \ {p}]
  <2>1. PICK p \in j.due : rows' = [rows EXCEPT ![p] = AbandonRow(@)] /\ Becomes(w, next(p))
    BY <1>6 DEF SweepAbandons
  <2>2. rows' \in [Posts -> Row]
    BY <1>1, <2>1, ButtonRowType DEF Worker
  <2>3. GoodWorker(next(p))
    <3>1. next(p) \in Worker /\ next(p).pc = j.pc /\ next(p).phase = j.phase
      BY <1>1 DEF Worker
    <3>2. j.pc = "sweep" /\ j.phase = "sweep"
      BY <1>1, <1>6 DEF SweepAbandons, LocalsSet
    <3> HIDE DEF next
    <3> QED BY <3>1, <3>2 DEF GoodWorker, LocalsSet
  <2>4. UNCHANGED <<origin, feed, enabled, published, doubt, faults>>
    BY <1>6 DEF SweepAbandons
  <2> HIDE DEF next
  <2> QED BY <1>1, <2>1, <2>2, <2>3, <2>4, WorkerStepType
<1>7. ASSUME SweepRetries(w) PROVE TypeInv'
  <2> DEFINE next(p) == [Goto(j, "claim") EXCEPT !.due = @ \ {p}, !.item = p[2],
                                                 !.left = {p[1]}]
  <2>1. PICK p \in j.due : Becomes(w, next(p))
    BY <1>7 DEF SweepRetries
  <2>2. GoodWorker(next(p))
    <3>1. p[1] \in Echoes /\ p[2] \in Items /\ j.phase = "sweep"
      BY <1>1, <1>7 DEF SweepRetries, LocalsSet, Worker, Posts
    <3>2. /\ Goto(j, "claim") \in Worker /\ Goto(j, "claim").pc = "claim"
          /\ Goto(j, "claim").phase = j.phase
      BY <1>1 DEF Goto, Worker, Steps
    <3>3. /\ next(p) \in Worker /\ next(p).pc = "claim"
          /\ next(p).item = p[2] /\ next(p).phase = j.phase
      BY <3>1, <3>2 DEF Worker
    <3> HIDE DEF next
    <3> QED BY <3>1, <3>3 DEF GoodWorker, LocalsSet
  <2>3. UNCHANGED <<origin, feed, enabled, rows, published, doubt, faults>>
    BY <1>7 DEF SweepRetries
  <2> HIDE DEF next
  <2> QED BY <1>1, <2>1, <2>2, <2>3, WorkerStepType
<1>8. ASSUME Release(w) PROVE TypeInv'
  <2>1. [feed EXCEPT !.lease = Null, !.leaseLeft = 0] \in Feed
    BY <1>1 DEF Feed
  <2>2. feed' \in Feed
    BY <1>1, <1>8, <2>1, FencedType DEF Release
  <2> QED BY <1>1, <1>8, <2>2, IdleGood, WorkerStepType DEF Release
<1>9. ASSUME Fault(w) PROVE TypeInv'
  <2>1. PICK step \in {"idle", "release"} : Becomes(w, Goto(Idle, step))
    BY <1>9 DEF Fault
  <2>2. worker' \in [Workers -> Worker] /\ \A v \in Workers : LocalsSet(worker'[v])
    BY <2>1, IdleGood, BecomesGood
  <2>3. doubt' \in [Posts -> SUBSET {"taken_over", "unsure"}]
    BY <1>9 DEF Fault, TypeInv, TypeOK
  <2>4. faults' \in 0..MaxFaults
    BY <1>9, BoundAssumption DEF Fault, TypeInv, TypeOK
  <2>5. UNCHANGED <<origin, feed, enabled, rows, published>>
    BY <1>9 DEF Fault
  <2> QED BY <2>2, <2>3, <2>4, <2>5 DEF TypeInv, TypeOK
<1> QED BY <1>2, <1>3, <1>4, <1>5, <1>6, <1>7, <1>8, <1>9

\* The origin, the clock and the operator's routes.
LEMMA WorldType ==
  ASSUME TypeInv
  PROVE  /\ \A u \in Urls : Publish(u) => TypeInv'
         /\ Tick => TypeInv'
         /\ Operator => TypeInv'
<1>1. feed \in Feed /\ rows \in [Posts -> Row] /\ origin \in [Urls -> Seq(Items)]
  BY DEF TypeInv, TypeOK
<1>2. ASSUME NEW u \in Urls, Publish(u) PROVE TypeInv'
  <2> DEFINE doc(i, k) == SubSeq(origin[u], 1, k) \o <<i>>
                            \o SubSeq(origin[u], k + 1, Len(origin[u]))
             cut(i, k) == SubSeq(doc(i, k), 1,
                                 IF Len(doc(i, k)) > Window THEN Window ELSE Len(doc(i, k)))
  <2>1. PICK i \in Items, k \in 0..Len(origin[u]) : origin' = [origin EXCEPT ![u] = cut(i, k)]
    BY <1>2 DEF Publish
  <2>2. origin[u] \in Seq(Items)
    BY <1>1
  <2>3. doc(i, k) \in Seq(Items)
    <3>1. SubSeq(origin[u], 1, k) \in Seq(Items)
      BY <2>2, SubSeqProperties
    <3>2. SubSeq(origin[u], k + 1, Len(origin[u])) \in Seq(Items)
      BY <2>2, SubSeqProperties
    <3>3. <<i>> \in Seq(Items)
      OBVIOUS
    <3> QED BY <3>1, <3>2, <3>3, ConcatProperties
  <2>4. cut(i, k) \in Seq(Items)
    <3> HIDE DEF doc
    <3> QED BY <2>3, BoundAssumption, SubSeqProperties
  <2>5. origin' \in [Urls -> Seq(Items)]
    <3> HIDE DEF cut
    <3> QED BY <1>1, <2>1, <2>4
  <2>6. UNCHANGED <<feed, enabled, rows, worker, published, doubt, faults>>
    BY <1>2 DEF Publish
  <2> QED BY <2>5, <2>6 DEF TypeInv, TypeOK
<1>3. ASSUME Tick PROVE TypeInv'
  <2>1. feed' \in Feed
    <3>1. \A n \in Nat : CountDown(n) \in Nat
      BY DEF CountDown
    <3> QED BY <1>1, <1>3, <3>1 DEF Tick, Feed
  <2>2. rows' \in [Posts -> Row]
    BY <1>1, <1>3, AgeRowType DEF Tick
  <2> QED BY <1>3, <2>1, <2>2 DEF Tick, TypeInv, TypeOK
<1>4. ASSUME feed' \in Feed, rows' \in [Posts -> Row], enabled' \subseteq Echoes,
             UNCHANGED <<origin, worker, published, doubt, faults>>
      PROVE  TypeInv'
  BY <1>4 DEF TypeInv, TypeOK
<1>5. PauseFeed \/ DeleteFeed => TypeInv'
  <2>1. \A status \in {"active", "paused", "deleted"} : [feed EXCEPT !.status = status] \in Feed
    BY <1>1 DEF Feed
  <2>2. PauseFeed => feed' \in Feed
    <3>1. PauseFeed => feed' = [feed EXCEPT !.status = "active"]
                       \/ feed' = [feed EXCEPT !.status = "paused"]
      BY DEF PauseFeed
    <3> QED BY <2>1, <3>1
  <2>3. DeleteFeed => feed' \in Feed
    BY <2>1 DEF DeleteFeed
  <2> QED BY <1>1, <1>4, <2>2, <2>3 DEF PauseFeed, DeleteFeed, TypeInv, TypeOK
<1>6. ASSUME InitFeed PROVE TypeInv'
  <2>1. Head(origin[feed.url]) \in Items
    BY <1>1, <1>6, HeadTailProperties DEF InitFeed, Feed
  <2>2. feed' \in Feed
    BY <1>1, <1>6, <2>1 DEF InitFeed, Feed
  <2> QED BY <1>1, <1>4, <1>6, <2>2 DEF InitFeed, TypeInv, TypeOK
<1>7. ASSUME NEW e \in Echoes, ToggleEcho(e) PROVE TypeInv'
  BY <1>1, <1>4, <1>7 DEF ToggleEcho, TypeInv, TypeOK
<1>8. ASSUME NEW u \in Urls, EditFeed(u) PROVE TypeInv'
  <2>1. feed' \in Feed
    BY <1>1, <1>8 DEF EditFeed, Feed
  <2> QED BY <1>1, <1>4, <1>8, <2>1 DEF EditFeed, TypeInv, TypeOK
<1>9. ASSUME NEW p \in Posts, RetryPost(p) \/ GiveUpPost(p) PROVE TypeInv'
  <2>1. rows' \in [Posts -> Row]
    BY <1>1, <1>9, ButtonRowType DEF RetryPost, GiveUpPost
  <2> QED BY <1>1, <1>4, <1>9, <2>1 DEF RetryPost, GiveUpPost, TypeInv, TypeOK
<1> QED BY <1>2, <1>3, <1>5, <1>6, <1>7, <1>8, <1>9 DEF Operator

LEMMA TypeStep == TypeInv /\ [Next]_vars => TypeInv'
<1> SUFFICES ASSUME TypeInv, [Next]_vars PROVE TypeInv'
  OBVIOUS
<1>1. ASSUME NEW w \in Workers, CheckFeed(w) \/ Fault(w) PROVE TypeInv'
  BY <1>1, DispatchType, DeliverType, FetchType, SweepType DEF CheckFeed
<1>2. CASE \E u \in Urls : Publish(u)
  BY <1>2, WorldType
<1>3. CASE Tick \/ Operator
  BY <1>3, WorldType
<1>4. CASE UNCHANGED vars
  BY <1>4 DEF vars, TypeInv, TypeOK
<1> QED BY <1>1, <1>2, <1>3, <1>4 DEF Next

LEMMA TypeInvariance == Spec => []TypeInv
<1>1. Init => TypeInv BY TypeInit
<1>2. TypeInv /\ [Next]_vars => TypeInv' BY TypeStep
<1> QED BY <1>1, <1>2, PTL DEF Spec

\* Every variable keeps its type: in particular a worker never reads the head
\* of an empty list of items or takes an item that is not set for a post.
THEOREM TypeCorrect == Spec => []TypeOK
<1>1. TypeInv => TypeOK BY DEF TypeInv
<1> QED BY <1>1, TypeInvariance, PTL
-----------------------------------------------------------------------------
(* No duplicates.  For a post without an unrecorded send, the claim        *)
(* protocol is a mutual exclusion: a worker past its claim guard owns the  *)
(* row, hence is alone, and the row or that worker accounts for the one    *)
(* time the post may have appeared.                                        *)

\* Worker w is past the claim guard for post p and has not recorded a result.
InFlight(w, p) == worker[w].pc \in {"send", "record"} /\ Post(worker[w]) = p

\* The worker that got a positive answer for p and is about to record it.
AboutToRecord(w, p) ==
  worker[w].pc = "record" /\ Post(worker[w]) = p /\ worker[w].outcome = "ok"

Once(p) ==
  /\ \A w \in Workers : InFlight(w, p) => Owns(rows[p], w)
  /\ \A w \in Workers : InFlight(w, p) /\ ~ AboutToRecord(w, p) => published[p] = 0
  /\ published[p] <= 1
  /\ published[p] = 1 => \/ rows[p].status = "success"
                         \/ \E w \in Workers : AboutToRecord(w, p)

OnceInv == \A p \in Posts : "unsure" \notin doubt[p] => Once(p)

\* A step of worker w leaves the row of p alone, or the row was not settled and
\* does not become a success.
QuietWrite(w, p) ==
  \/ rows'[p] = rows[p]
  \/ /\ rows[p].status \in {"absent", "failed"} \/ Owns(rows[p], w)
     /\ rows'[p].status # "success"

\* Worker w ends no successful send, sends nothing and writes only rows nobody
\* else is delivering.
Quiet(w) ==
  /\ \E j : Becomes(w, j) /\ j.pc \notin Delivering
  /\ \A p \in Posts : ~ AboutToRecord(w, p)
  /\ published' = published /\ doubt' = doubt
  /\ \A p \in Posts : QuietWrite(w, p)

\* A worker step that ends no successful send, sends nothing and writes only
\* rows nobody is delivering.
LEMMA QuietStep ==
  ASSUME TypeInv, OnceInv, NEW w \in Workers, NEW j, Becomes(w, j),
         j.pc \notin {"send", "record"},
         \A p \in Posts : AboutToRecord(w, p) => "unsure" \in doubt'[p],
         \A p \in Posts : doubt[p] \subseteq doubt'[p],
         published' = published,
         \A p \in Posts :
            \/ rows'[p] = rows[p]
            \/ rows[p].status \notin {"pending", "success"}
            \/ Owns(rows[p], w)
  PROVE  OnceInv'
<1> SUFFICES ASSUME NEW p \in Posts, "unsure" \notin doubt'[p]
             PROVE  Once(p)'
  BY DEF OnceInv
<1>1. Once(p) /\ ~ AboutToRecord(w, p)
  BY DEF OnceInv
<1>2. \A v \in Workers : v # w => worker'[v] = worker[v]
  BY DEF Becomes, TypeInv, TypeOK
<1>3. worker'[w] = j
  BY DEF Becomes, TypeInv, TypeOK
<1>4. \A v \in Workers : /\ InFlight(v, p)' => v # w /\ InFlight(v, p)
                         /\ v # w => (AboutToRecord(v, p)' <=> AboutToRecord(v, p))
  BY <1>2, <1>3 DEF InFlight, AboutToRecord
<1>5. \A v \in Workers : InFlight(v, p)' => Owns(rows'[p], v)
  <2> SUFFICES ASSUME NEW v \in Workers, InFlight(v, p)' PROVE Owns(rows'[p], v)
    OBVIOUS
  <2>1. v # w /\ Owns(rows[p], v)
    BY <1>1, <1>4 DEF Once, InFlight, Post
  <2>2. rows[p].status = "pending" /\ ~ Owns(rows[p], w)
    BY <2>1 DEF Owns
  <2>3. rows'[p] = rows[p]
    BY <2>2
  <2> QED BY <2>1, <2>3
<1>6. \A v \in Workers : InFlight(v, p)' /\ ~ AboutToRecord(v, p)' => published'[p] = 0
  BY <1>1, <1>4 DEF Once, InFlight, AboutToRecord, Post
<1>7. ASSUME published'[p] = 1
      PROVE  rows'[p].status = "success" \/ \E v \in Workers : AboutToRecord(v, p)'
  <2>1. CASE rows[p].status = "success"
    <3>1. rows'[p] = rows[p]
      BY <2>1 DEF Owns
    <3> QED BY <2>1, <3>1
  <2>2. CASE \E v \in Workers : AboutToRecord(v, p)
    BY <1>1, <1>4, <2>2 DEF AboutToRecord, Post
  <2> QED BY <1>1, <1>7, <2>1, <2>2 DEF Once
<1>8. published'[p] <= 1
  BY <1>1 DEF Once
<1> QED BY <1>5, <1>6, <1>7, <1>8 DEF Once

\* A step of the world: no worker moves and no claimed or delivered row changes.
LEMMA WorldStep ==
  ASSUME OnceInv, worker' = worker, published' = published, doubt' = doubt,
         \A p \in Posts :
            \/ rows'[p].status = rows[p].status /\ rows'[p].token = rows[p].token
            \/ rows[p].status \notin {"pending", "success"}
  PROVE  OnceInv'
<1> SUFFICES ASSUME NEW p \in Posts, "unsure" \notin doubt'[p]
             PROVE  Once(p)'
  BY DEF OnceInv
<1>1. Once(p)
  BY DEF OnceInv
<1>2. \A v \in Workers : /\ (InFlight(v, p)' <=> InFlight(v, p))
                         /\ (AboutToRecord(v, p)' <=> AboutToRecord(v, p))
  BY DEF InFlight, AboutToRecord
<1>3. \A v \in Workers : InFlight(v, p)' => Owns(rows'[p], v)
  BY <1>1, <1>2 DEF Once, Owns
<1>4. published'[p] = 1 => \/ rows'[p].status = "success"
                          \/ \E v \in Workers : AboutToRecord(v, p)'
  BY <1>1, <1>2 DEF Once
<1> QED BY <1>1, <1>2, <1>3, <1>4 DEF Once

\* A claim: whoever was delivering the post is noted in `doubt'.
LEMMA OnceClaim ==
  ASSUME TypeInv, OnceInv, NEW w \in Workers, Claim(w)
  PROVE  OnceInv'
<1> DEFINE j == worker[w]
           next(e) == [Goto(j, "prepare") EXCEPT !.echo = e]
<1>1. PICK e \in j.left :
        /\ Claimable(rows[<<e, j.item>>])
        /\ rows' = [rows EXCEPT ![<<e, j.item>>] = ClaimRow(@, w)]
        /\ doubt' = [doubt EXCEPT ![<<e, j.item>>] = DoubtAfterClaim(<<e, j.item>>)]
        /\ Becomes(w, next(e))
  BY DEF Claim
<1> DEFINE q == <<e, j.item>>
<1>2. j \in Worker /\ j.pc = "claim" /\ q \in Posts
  BY DEF Claim, TypeInv, TypeOK, LocalsSet, Worker, Posts
<1>3. next(e).pc = "prepare"
  BY <1>2 DEF Goto, Worker
<1>4. worker'[w] = next(e) /\ \A v \in Workers : v # w => worker'[v] = worker[v]
  BY <1>1 DEF Becomes, TypeInv, TypeOK
<1>5. published' = published
  BY DEF Claim
<1> SUFFICES ASSUME NEW p \in Posts, "unsure" \notin doubt'[p]
             PROVE  Once(p)'
  BY DEF OnceInv
<1>6. "unsure" \notin doubt[p]
  BY <1>1, <1>2 DEF TypeInv, TypeOK, DoubtAfterClaim
<1>7. Once(p)
  BY <1>6 DEF OnceInv
<1> HIDE DEF next
<1>8. \A v \in Workers : InFlight(v, p)' => v # w /\ InFlight(v, p)
  BY <1>3, <1>4 DEF InFlight, Post
<1>9. \A v \in Workers : AboutToRecord(v, p) => v # w /\ AboutToRecord(v, p)'
  BY <1>2, <1>4 DEF AboutToRecord, Post
<1>10. \A v \in Workers : v # w /\ AboutToRecord(v, p) => AboutToRecord(v, p)'
  BY <1>4 DEF AboutToRecord, Post
<1>11. CASE p # q
  <2>1. rows'[p] = rows[p]
    BY <1>1, <1>11 DEF TypeInv, TypeOK
  <2>2. \A v \in Workers : InFlight(v, p)' => Owns(rows'[p], v)
    BY <1>7, <1>8, <2>1 DEF Once
  <2>3. \A v \in Workers : InFlight(v, p)' /\ ~ AboutToRecord(v, p)' => published'[p] = 0
    BY <1>5, <1>7, <1>8, <1>10 DEF Once
  <2>4. published'[p] = 1 => \/ rows'[p].status = "success"
                            \/ \E v \in Workers : AboutToRecord(v, p)'
    BY <1>5, <1>7, <1>9, <2>1 DEF Once
  <2>5. published'[p] <= 1
    BY <1>5, <1>7 DEF Once
  <2> QED BY <2>2, <2>3, <2>4, <2>5 DEF Once
<1>12. CASE p = q
  <2>1. doubt'[p] = DoubtAfterClaim(p)
    BY <1>1, <1>2, <1>12 DEF TypeInv, TypeOK
  <2>2. \A v \in Workers : ~ InFlight(v, p)
    BY <1>7, <2>1 DEF DoubtAfterClaim, Once, InFlight
  <2>3. \A v \in Workers : ~ InFlight(v, p)'
    BY <1>8, <2>2
  <2>4. \A v \in Workers : ~ AboutToRecord(v, p)
    BY <2>2 DEF AboutToRecord, InFlight
  <2>5. rows[p].status # "success"
    BY <1>1, <1>12 DEF Claimable
  <2>6. published[p] <= 1 /\ published[p] # 1
    BY <1>7, <2>4, <2>5 DEF Once
  <2> QED BY <1>5, <2>3, <2>6 DEF Once
<1> QED BY <1>11, <1>12

\* The claim guard lets a worker through only when it owns the row: nobody else
\* is delivering the post, and it has not appeared.
LEMMA OnceGuard ==
  ASSUME TypeInv, OnceInv, NEW w \in Workers, GuardClaim(w)
  PROVE  OnceInv'
<1> DEFINE j == worker[w]
           q == Post(j)
           next == Goto(j, "send")
<1>1. /\ j \in Worker /\ j.pc = "prepare" /\ j.item \in Items /\ j.echo \in Echoes
      /\ j.phase # "sweep" => j.todo # <<>>
  BY DEF GuardClaim, TypeInv, TypeOK, LocalsSet
<1>2. rows' = rows /\ published' = published /\ doubt' = doubt
  BY DEF GuardClaim
<1>3. CASE ~ Owns(rows[q], w)
  <2>1. Becomes(w, EchoDone(j, j.echo, FALSE))
    BY <1>3 DEF GuardClaim
  <2>2. EchoDone(j, j.echo, FALSE).pc \notin {"send", "record"}
    BY <1>1, EchoDoneGood DEF Delivering
  <2>3. \A p \in Posts : ~ AboutToRecord(w, p)
    BY <1>1 DEF AboutToRecord
  <2> QED BY <1>2, <2>1, <2>2, <2>3, QuietStep
<1>4. CASE Owns(rows[q], w)
  <2>1. Becomes(w, next)
    BY <1>4 DEF GuardClaim
  <2>2. next.pc = "send" /\ Post(next) = q
    BY <1>1 DEF Goto, Worker, Post
  <2>3. worker'[w] = next /\ \A v \in Workers : v # w => worker'[v] = worker[v]
    BY <2>1 DEF Becomes, TypeInv, TypeOK
  <2> SUFFICES ASSUME NEW p \in Posts, "unsure" \notin doubt'[p]
               PROVE  Once(p)'
    BY DEF OnceInv
  <2>4. Once(p)
    BY <1>2 DEF OnceInv
  <2> HIDE DEF next
  <2>5. \A v \in Workers : InFlight(v, p)' => InFlight(v, p) \/ (v = w /\ p = q)
    BY <2>2, <2>3 DEF InFlight, Post
  <2>6. \A v \in Workers : AboutToRecord(v, p)' <=> AboutToRecord(v, p)
    BY <1>1, <2>2, <2>3 DEF AboutToRecord, Post
  <2>7. \A v \in Workers : InFlight(v, p)' => Owns(rows'[p], v)
    BY <1>2, <1>4, <2>4, <2>5 DEF Once
  <2>8. p = q => published[p] = 0
    <3>1. p = q => rows[p].status # "success"
      BY <1>4 DEF Owns
    <3>2. \A v \in Workers : p = q => ~ AboutToRecord(v, p)
      <4> SUFFICES ASSUME NEW v \in Workers, p = q, AboutToRecord(v, p) PROVE FALSE
        OBVIOUS
      <4>1. Owns(rows[p], v)
        BY <2>4 DEF Once, AboutToRecord, InFlight
      <4>2. v = w
        BY <1>4, <4>1 DEF Owns
      <4> QED BY <1>1, <4>2 DEF AboutToRecord
    <3>3. published[p] \in 0..2
      BY DEF TypeInv, TypeOK
    <3> QED BY <2>4, <3>1, <3>2, <3>3 DEF Once
  <2>9. \A v \in Workers : InFlight(v, p)' /\ ~ AboutToRecord(v, p)' => published'[p] = 0
    BY <1>2, <2>4, <2>5, <2>6, <2>8 DEF Once
  <2>10. published'[p] = 1 => \/ rows'[p].status = "success"
                             \/ \E v \in Workers : AboutToRecord(v, p)'
    BY <1>2, <2>4, <2>6 DEF Once
  <2>11. published'[p] <= 1
    BY <1>2, <2>4 DEF Once
  <2> QED BY <2>7, <2>9, <2>10, <2>11 DEF Once
<1> QED BY <1>3, <1>4

\* The send itself: the sender is alone and the post had not appeared.
LEMMA OnceSend ==
  ASSUME TypeInv, OnceInv, NEW w \in Workers, Send(w)
  PROVE  OnceInv'
<1> DEFINE j == worker[w]
           q == Post(j)
           next(a) == [Goto(j, "record") EXCEPT !.outcome = a]
<1>1. PICK a \in Outcomes \ {"none"} :
        /\ published' = IF a \in {"ok", "lost"} /\ published[q] < 2
                        THEN [published EXCEPT ![q] = @ + 1] ELSE published
        /\ doubt' = IF a = "lost" THEN [doubt EXCEPT ![q] = @ \cup {"unsure"}] ELSE doubt
        /\ Becomes(w, next(a))
  BY DEF Send
<1>2. /\ j \in Worker /\ j.pc = "send" /\ q \in Posts
      /\ published \in [Posts -> 0..2] /\ doubt \in [Posts -> SUBSET {"taken_over", "unsure"}]
  BY DEF Send, TypeInv, TypeOK, LocalsSet, Posts, Post
<1>3. next(a).pc = "record" /\ next(a).outcome = a /\ Post(next(a)) = q
  BY <1>2 DEF Goto, Worker, Post
<1>4. worker'[w] = next(a) /\ \A v \in Workers : v # w => worker'[v] = worker[v]
  BY <1>1 DEF Becomes, TypeInv, TypeOK
<1>5. rows' = rows
  BY DEF Send
<1> SUFFICES ASSUME NEW p \in Posts, "unsure" \notin doubt'[p]
             PROVE  Once(p)'
  BY DEF OnceInv
<1>6. "unsure" \notin doubt[p] /\ (p = q => a # "lost")
  BY <1>1, <1>2
<1>7. Once(p)
  BY <1>6 DEF OnceInv
<1> HIDE DEF next
<1>8. \A v \in Workers : InFlight(v, p)' <=> InFlight(v, p)
  BY <1>2, <1>3, <1>4 DEF InFlight, Post
<1>9. \A v \in Workers : InFlight(v, p)' => Owns(rows'[p], v)
  BY <1>5, <1>7, <1>8 DEF Once
<1>10. CASE p # q
  <2>1. published'[p] = published[p]
    BY <1>1, <1>2, <1>10
  <2>2. \A v \in Workers : AboutToRecord(v, p)' <=> AboutToRecord(v, p)
    BY <1>2, <1>3, <1>4, <1>10 DEF AboutToRecord, Post
  <2>3. \A v \in Workers : InFlight(v, p)' /\ ~ AboutToRecord(v, p)' => published'[p] = 0
    BY <1>7, <1>8, <2>1, <2>2 DEF Once
  <2>4. published'[p] = 1 => \/ rows'[p].status = "success"
                            \/ \E v \in Workers : AboutToRecord(v, p)'
    BY <1>5, <1>7, <2>1, <2>2 DEF Once
  <2>5. published'[p] <= 1
    BY <1>7, <2>1 DEF Once
  <2> QED BY <1>9, <2>3, <2>4, <2>5 DEF Once
<1>11. CASE p = q
  <2>1. InFlight(w, p) /\ ~ AboutToRecord(w, p)
    BY <1>2, <1>11 DEF InFlight, AboutToRecord
  <2>2. published[p] = 0
    BY <1>7, <2>1 DEF Once
  <2>3. published'[p] = IF a = "ok" THEN 1 ELSE 0
    BY <1>1, <1>2, <1>6, <1>11, <2>2
  <2>4. a = "ok" => AboutToRecord(w, p)'
    BY <1>3, <1>4, <1>11 DEF AboutToRecord, Post
  <2>5. \A v \in Workers : InFlight(v, p)' => v = w
    BY <1>7, <1>8, <2>1 DEF Once, Owns
  <2>6. \A v \in Workers : InFlight(v, p)' /\ ~ AboutToRecord(v, p)' => published'[p] = 0
    BY <2>3, <2>4, <2>5
  <2>7. published'[p] = 1 => \E v \in Workers : AboutToRecord(v, p)'
    BY <2>3, <2>4
  <2> QED BY <1>9, <2>3, <2>6, <2>7 DEF Once
<1> QED BY <1>10, <1>11

\* The record of a positive answer: the row takes over from the worker.
LEMMA OnceRecord ==
  ASSUME TypeInv, OnceInv, NEW w \in Workers, RecordSuccess(w)
  PROVE  OnceInv'
<1> DEFINE j == worker[w]
           q == Post(j)
           next == EchoDone(j, j.echo, Owns(rows[q], w))
<1>1. /\ j \in Worker /\ j.pc = "record" /\ j.outcome = "ok" /\ q \in Posts
      /\ j.item \in Items /\ j.echo \in Echoes
      /\ j.phase # "sweep" => j.todo # <<>>
  BY DEF RecordSuccess, TypeInv, TypeOK, LocalsSet, Posts, Post
<1>2. /\ rows' = [rows EXCEPT ![q] = FinalizeRow(@, w, "success")]
      /\ Becomes(w, next)
      /\ published' = published /\ doubt' = doubt
  BY DEF RecordSuccess
<1>3. next.pc \notin {"send", "record"}
  <2>1. Owns(rows[q], w) \in BOOLEAN
    BY DEF Owns
  <2> QED BY <1>1, <2>1, EchoDoneGood DEF Delivering
<1>4. worker'[w] = next /\ \A v \in Workers : v # w => worker'[v] = worker[v]
  BY <1>2 DEF Becomes, TypeInv, TypeOK
<1> SUFFICES ASSUME NEW p \in Posts, "unsure" \notin doubt'[p]
             PROVE  Once(p)'
  BY DEF OnceInv
<1>5. Once(p)
  BY <1>2 DEF OnceInv
<1> HIDE DEF next
<1>6. \A v \in Workers : InFlight(v, p)' => v # w /\ InFlight(v, p)
  BY <1>3, <1>4 DEF InFlight, Post
<1>7. \A v \in Workers : v # w => (AboutToRecord(v, p)' <=> AboutToRecord(v, p))
  BY <1>4 DEF AboutToRecord, Post
<1>8. \A v \in Workers : InFlight(v, p)' /\ ~ AboutToRecord(v, p)' => published'[p] = 0
  BY <1>2, <1>5, <1>6, <1>7 DEF Once
<1>9. published'[p] <= 1
  BY <1>2, <1>5 DEF Once
<1>10. CASE p # q
  <2>1. rows'[p] = rows[p]
    BY <1>2, <1>10 DEF TypeInv, TypeOK
  <2>2. ~ AboutToRecord(w, p)
    BY <1>10 DEF AboutToRecord
  <2>3. \A v \in Workers : InFlight(v, p)' => Owns(rows'[p], v)
    BY <1>5, <1>6, <2>1 DEF Once
  <2>4. published'[p] = 1 => \/ rows'[p].status = "success"
                            \/ \E v \in Workers : AboutToRecord(v, p)'
    BY <1>2, <1>5, <1>7, <2>1, <2>2 DEF Once
  <2> QED BY <1>8, <1>9, <2>3, <2>4 DEF Once
<1>11. CASE p = q
  <2>1. InFlight(w, p)
    BY <1>1, <1>11 DEF InFlight
  <2>2. Owns(rows[p], w)
    BY <1>5, <2>1 DEF Once
  <2>3. rows'[p].status = "success"
    <3>1. rows[p] \in Row /\ rows'[p] = FinalizeRow(rows[p], w, "success")
      BY <1>1, <1>2, <1>11 DEF TypeInv, TypeOK
    <3> QED BY <2>2, <3>1 DEF FinalizeRow, Row
  <2>4. \A v \in Workers : ~ InFlight(v, p)'
    BY <1>5, <1>6, <2>2 DEF Once, Owns
  <2> QED BY <1>9, <2>3, <2>4 DEF Once
<1> QED BY <1>10, <1>11

\* Every step of a worker is quiet but the claim, the guard, the send and the
\* record of a success.
LEMMA QuietSteps ==
  ASSUME TypeInv, NEW w \in Workers,
         \/ FilterItem(w) \/ SkipUnclaimable(w) \/ PreparationFails(w) \/ RecordFailure(w)
         \/ Acquire(w) \/ ReadFeed(w) \/ FetchFails(w) \/ FetchNotModified(w)
         \/ FetchBody(w) \/ SaveValidators(w) \/ InitializeCursor(w) \/ Renew(w)
         \/ UpdateCursor(w) \/ FindDue(w) \/ Refetch(w) \/ RefetchFails(w)
         \/ SweepAbandons(w) \/ SweepRetries(w) \/ SweepEnds(w) \/ Release(w)
  PROVE  Quiet(w)
<1> DEFINE j == worker[w]
           Lands(k) == Becomes(w, k) /\ k.pc \notin Delivering
<1>1. j \in Worker /\ LocalsSet(j) /\ rows \in [Posts -> Row]
  BY DEF TypeInv, TypeOK
<1>2. \A step \in Steps : /\ Goto(j, step).pc = step
                          /\ Goto(Idle, step).pc = step /\ Goto(Idle, step) \in Worker
                          /\ Goto(j, step) \in Worker
  BY <1>1, IdleGoto DEF Goto, Worker
<1>3. ASSUME NEW k, Lands(k), \A p \in Posts : ~ AboutToRecord(w, p),
             published' = published, doubt' = doubt,
             \A p \in Posts : QuietWrite(w, p)
      PROVE  Quiet(w)
  BY <1>3 DEF Quiet
<1>4. j.pc # "record" => \A p \in Posts : ~ AboutToRecord(w, p)
  BY DEF AboutToRecord
<1>5. Idle.pc \notin Delivering
  BY DEF Idle, Delivering
<1>6. ASSUME FilterItem(w) PROVE Quiet(w)
  <2>1. PICK e \in j.left : /\ rows' = [rows EXCEPT ![<<e, j.item>>] = FilterRow(@)]
                            /\ Becomes(w, EchoDone(j, e, TRUE))
    BY <1>6 DEF FilterItem
  <2>2. /\ e \in Echoes /\ j.item \in Items /\ j.pc = "claim"
        /\ j.phase # "sweep" => j.todo # <<>>
    BY <1>1, <1>6 DEF FilterItem, LocalsSet, Worker
  <2>3. Lands(EchoDone(j, e, TRUE))
    BY <1>1, <2>1, <2>2, EchoDoneGood DEF Delivering
  <2>4. \A p \in Posts : QuietWrite(w, p)
    BY <1>1, <2>1 DEF FilterRow, QuietWrite, Row
  <2>5. published' = published /\ doubt' = doubt
    BY <1>6 DEF FilterItem
  <2> HIDE DEF Lands
  <2> QED BY <1>3, <1>4, <2>2, <2>3, <2>4, <2>5
<1>7. ASSUME SkipUnclaimable(w) PROVE Quiet(w)
  <2>1. PICK e \in j.left : Becomes(w, EchoDone(j, e, rows[<<e, j.item>>].status \in Handled))
    BY <1>7 DEF SkipUnclaimable
  <2> DEFINE k == EchoDone(j, e, rows[<<e, j.item>>].status \in Handled)
  <2>2. /\ e \in Echoes /\ j.item \in Items /\ j.pc = "claim"
        /\ j.phase # "sweep" => j.todo # <<>>
    BY <1>1, <1>7 DEF SkipUnclaimable, LocalsSet, Worker
  <2>3. Lands(k)
    <3>1. (rows[<<e, j.item>>].status \in Handled) \in BOOLEAN
      OBVIOUS
    <3>2. k.pc \notin Delivering
      BY <1>1, <2>2, <3>1, EchoDoneGood
    <3> QED BY <2>1, <3>2 DEF Delivering
  <2>4. published' = published /\ doubt' = doubt /\ rows' = rows
    BY <1>7 DEF SkipUnclaimable
  <2>5. \A p \in Posts : QuietWrite(w, p)
    BY <2>4 DEF QuietWrite
  <2> HIDE DEF Lands, k
  <2> QED BY <1>3, <1>4, <2>2, <2>3, <2>4, <2>5
<1>8. ASSUME NEW permanent \in BOOLEAN, FailPost(w, permanent), j.pc \in Delivering,
             j.pc = "record" => j.outcome # "ok"
      PROVE  Quiet(w)
  <2> DEFINE k == EchoDone(j, j.echo, FailureStatus(rows[Post(j)], permanent) = "gave_up")
  <2>1. /\ j.echo \in Echoes /\ j.item \in Items
        /\ j.phase # "sweep" => j.todo # <<>>
    BY <1>1, <1>8 DEF LocalsSet, Delivering
  <2>2. Lands(k)
    <3>1. (FailureStatus(rows[Post(j)], permanent) = "gave_up") \in BOOLEAN
      OBVIOUS
    <3>2. k.pc \notin Delivering
      BY <1>1, <2>1, <3>1, EchoDoneGood
    <3>3. Becomes(w, k)
      BY <1>8 DEF FailPost
    <3> QED BY <3>2, <3>3 DEF Delivering
  <2>3. \A p \in Posts : ~ AboutToRecord(w, p)
    BY <1>8 DEF AboutToRecord
  <2>4. \A p \in Posts : QuietWrite(w, p)
    BY <1>1, <1>8 DEF FailPost, FailRow, FailureStatus, QuietWrite, Row
  <2>5. published' = published /\ doubt' = doubt
    BY <1>8 DEF FailPost
  <2> HIDE DEF Lands, k
  <2> QED BY <1>3, <2>2, <2>3, <2>4, <2>5
<1>9. PreparationFails(w) \/ RecordFailure(w) => Quiet(w)
  BY <1>8 DEF PreparationFails, RecordFailure, Delivering
<1>10. ASSUME NEW k, Lands(k), j.pc # "record", UNCHANGED <<rows, published, doubt>>
       PROVE  Quiet(w)
  BY <1>3, <1>4, <1>10 DEF QuietWrite
<1>11. ASSUME \/ Acquire(w) \/ ReadFeed(w) \/ FetchFails(w) \/ FetchNotModified(w)
             \/ InitializeCursor(w) \/ RefetchFails(w) \/ SweepEnds(w)
       PROVE  Quiet(w)
  <2>1. \A step \in {"read", "release"} : Goto(Idle, step).pc \notin Delivering
    BY <1>2 DEF Steps, Delivering
  <2>2. [Goto(Idle, "fetch") EXCEPT !.url = feed.url, !.cursor = feed.cursor,
           !.mark = feed.cursor, !.etag = feed.etag, !.echoes = enabled].pc = "fetch"
    BY <1>2 DEF Steps, Worker
  <2> QED BY <1>10, <1>11, <2>1, <2>2
       DEF Delivering, Acquire, ReadFeed, FetchFails, FetchNotModified, InitializeCursor,
           RefetchFails, SweepEnds
<1>12. ASSUME FetchBody(w) \/ Refetch(w) PROVE Quiet(w)
  <2> DEFINE k == IF j.pc = "fetch"
                  THEN [Goto(j, "save") EXCEPT !.items = origin[j.url],
                                               !.url = Null, !.etag = Null]
                  ELSE [Goto(j, "sweep") EXCEPT !.items = origin[feed.url]]
  <2>1. Becomes(w, k) /\ j.pc # "record" /\ UNCHANGED <<rows, published, doubt>>
    BY <1>12 DEF FetchBody, Refetch
  <2>2. k.pc \notin Delivering
    <3>1. \A step \in {"save", "sweep"} :
             Goto(j, step) \in Worker /\ Goto(j, step).pc = step
      BY <1>2 DEF Steps
    <3>2. [Goto(j, "save") EXCEPT !.items = origin[j.url],
                                  !.url = Null, !.etag = Null].pc = "save"
      BY <3>1 DEF Worker
    <3>3. [Goto(j, "sweep") EXCEPT !.items = origin[feed.url]].pc = "sweep"
      BY <3>1 DEF Worker
    <3> QED BY <3>2, <3>3 DEF Delivering
  <2> HIDE DEF k
  <2> QED BY <1>10, <2>1, <2>2
<1>13. ASSUME SaveValidators(w) PROVE Quiet(w)
  <2>1. PICK k \in {Goto(Idle, "release"), Goto(j, "init"), BeginNew(j)} : Becomes(w, k)
    BY <1>13 DEF SaveValidators
  <2>2. k.pc \notin Delivering
    <3>1. Goto(Idle, "release").pc = "release" /\ Goto(j, "init").pc = "init"
      BY <1>2 DEF Steps
    <3> QED BY <1>1, <3>1, BeginNewGood DEF Delivering
  <2> QED BY <1>10, <1>13, <2>1, <2>2 DEF SaveValidators
<1>14. ASSUME Renew(w) PROVE Quiet(w)
  <2> DEFINE next == [Goto(j, "claim") EXCEPT !.item = Head(j.todo), !.left = j.echoes]
  <2>1. Becomes(w, Goto(Idle, "release")) \/ Becomes(w, next)
    BY <1>14 DEF Renew
  <2>2. Goto(Idle, "release").pc = "release" /\ next.pc = "claim"
    BY <1>2 DEF Steps, Worker
  <2>3. j.pc # "record" /\ UNCHANGED <<rows, published, doubt>>
    BY <1>14 DEF Renew
  <2> HIDE DEF next
  <2> QED BY <1>10, <2>1, <2>2, <2>3 DEF Delivering
<1>15. ASSUME UpdateCursor(w) PROVE Quiet(w)
  <2> DEFINE next == [Goto(Idle, "due") EXCEPT !.echoes = j.echoes]
  <2>1. Becomes(w, next) /\ j.pc # "record" /\ UNCHANGED <<rows, published, doubt>>
    BY <1>15 DEF UpdateCursor
  <2>2. next.pc = "due"
    BY <1>2 DEF Steps, Worker
  <2> HIDE DEF next
  <2> QED BY <1>10, <2>1, <2>2 DEF Delivering
<1>16. ASSUME FindDue(w) PROVE Quiet(w)
  <2> DEFINE next(d) == [Goto(Idle, "refetch") EXCEPT !.due = d, !.phase = "sweep"]
  <2>1. Becomes(w, Goto(Idle, "release")) \/ \E d : Becomes(w, next(d))
    BY <1>16 DEF FindDue
  <2>2. Goto(Idle, "release").pc = "release" /\ \A d : next(d).pc = "refetch"
    BY <1>2 DEF Steps, Worker
  <2>3. j.pc # "record" /\ UNCHANGED <<rows, published, doubt>>
    BY <1>16 DEF FindDue
  <2> HIDE DEF next
  <2> QED BY <1>10, <2>1, <2>2, <2>3 DEF Delivering
<1>17. ASSUME SweepAbandons(w) PROVE Quiet(w)
  <2> DEFINE next(p) == [j EXCEPT !.due = @ \ {p}]
  <2>1. PICK p \in j.due : rows' = [rows EXCEPT ![p] = AbandonRow(@)] /\ Becomes(w, next(p))
    BY <1>17 DEF SweepAbandons
  <2>2. next(p).pc = "sweep"
    BY <1>1, <1>17 DEF SweepAbandons, Worker
  <2>3. \A q \in Posts : QuietWrite(w, q)
    BY <1>1, <2>1 DEF AbandonRow, QuietWrite, Row
  <2>4. j.pc = "sweep" /\ published' = published /\ doubt' = doubt
    BY <1>17 DEF SweepAbandons
  <2>5. Lands(next(p))
    BY <2>1, <2>2 DEF Delivering
  <2> HIDE DEF next, Lands
  <2> QED BY <1>3, <1>4, <2>3, <2>4, <2>5
<1>18. ASSUME SweepRetries(w) PROVE Quiet(w)
  <2> DEFINE next(p) == [Goto(j, "claim") EXCEPT !.due = @ \ {p}, !.item = p[2],
                                                 !.left = {p[1]}]
  <2>1. PICK p \in j.due : Becomes(w, next(p))
    BY <1>18 DEF SweepRetries
  <2>2. next(p).pc = "claim"
    BY <1>2 DEF Steps, Worker
  <2>3. j.pc # "record" /\ UNCHANGED <<rows, published, doubt>>
    BY <1>18 DEF SweepRetries
  <2> HIDE DEF next
  <2> QED BY <1>10, <2>1, <2>2, <2>3 DEF Delivering
<1>19. ASSUME Release(w) PROVE Quiet(w)
  BY <1>5, <1>10, <1>19 DEF Release
<1> QED BY <1>6, <1>7, <1>9, <1>11, <1>12, <1>13, <1>14, <1>15, <1>16, <1>17, <1>18, <1>19

LEMMA OnceQuiet ==
  ASSUME TypeInv, OnceInv, NEW w \in Workers, Quiet(w)
  PROVE  OnceInv'
<1>1. PICK j : Becomes(w, j) /\ j.pc \notin {"send", "record"}
  BY DEF Quiet, Delivering
<1>2. \A p \in Posts : \/ rows'[p] = rows[p]
                        \/ rows[p].status \notin {"pending", "success"}
                        \/ Owns(rows[p], w)
  BY DEF Quiet, QuietWrite
<1>3. /\ \A p \in Posts : ~ AboutToRecord(w, p)
      /\ published' = published /\ doubt' = doubt
  BY DEF Quiet
<1> QED BY <1>1, <1>2, <1>3, QuietStep

\* A crash between the answer and the record is noted in `doubt'.
LEMMA OnceFault ==
  ASSUME TypeInv, OnceInv, NEW w \in Workers, Fault(w)
  PROVE  OnceInv'
<1>1. PICK step \in {"idle", "release"} : Becomes(w, Goto(Idle, step))
  BY DEF Fault
<1>2. Goto(Idle, step).pc \notin {"send", "record"}
  BY IdleGoto DEF Steps
<1>3. \A p \in Posts : AboutToRecord(w, p) => "unsure" \in doubt'[p]
  BY DEF Fault, AboutToRecord, TypeInv, TypeOK
<1>4. \A p \in Posts : doubt[p] \subseteq doubt'[p]
  BY DEF Fault, TypeInv, TypeOK
<1>5. published' = published /\ rows' = rows
  BY DEF Fault
<1> QED BY <1>1, <1>2, <1>3, <1>4, <1>5, QuietStep

LEMMA OnceWorld ==
  ASSUME TypeInv, OnceInv, Tick \/ Operator \/ \E u \in Urls : Publish(u)
  PROVE  OnceInv'
<1>1. rows \in [Posts -> Row]
  BY DEF TypeInv, TypeOK
<1>2. CASE Tick
  <2>1. \A p \in Posts : rows'[p].status = rows[p].status /\ rows'[p].token = rows[p].token
    BY <1>1, <1>2 DEF Tick, AgeRow, Row
  <2>2. worker' = worker /\ published' = published /\ doubt' = doubt
    BY <1>2 DEF Tick
  <2> QED BY <2>1, <2>2, WorldStep
<1>3. ASSUME NEW p \in Posts, RetryPost(p) \/ GiveUpPost(p) PROVE OnceInv'
  <2>1. \A q \in Posts : rows'[q] = rows[q] \/ rows[q].status \notin {"pending", "success"}
    BY <1>1, <1>3 DEF RetryPost, GiveUpPost
  <2>2. worker' = worker /\ published' = published /\ doubt' = doubt
    BY <1>3 DEF RetryPost, GiveUpPost
  <2> QED BY <2>1, <2>2, WorldStep
<1>4. ASSUME UNCHANGED <<rows, worker, published, doubt>> PROVE OnceInv'
  BY <1>4, WorldStep
<1>5. CASE PauseFeed \/ DeleteFeed \/ InitFeed \/ \E u \in Urls : Publish(u)
  BY <1>4, <1>5 DEF PauseFeed, DeleteFeed, InitFeed, Publish
<1>6. CASE (\E e \in Echoes : ToggleEcho(e)) \/ \E u \in Urls : EditFeed(u)
  BY <1>4, <1>6 DEF ToggleEcho, EditFeed
<1> QED BY <1>2, <1>3, <1>5, <1>6 DEF Operator

LEMMA OnceInvariance == Spec => []OnceInv
<1>1. Init => OnceInv
  BY DEF Init, OnceInv, Once, InFlight, Idle, Absent
<1>2. TypeInv /\ OnceInv /\ [Next]_vars => OnceInv'
  <2> SUFFICES ASSUME TypeInv, OnceInv, [Next]_vars PROVE OnceInv'
    OBVIOUS
  <2>1. ASSUME NEW w \in Workers, CheckFeed(w) \/ Fault(w) PROVE OnceInv'
    BY <2>1, QuietSteps, OnceQuiet, OnceClaim, OnceGuard, OnceSend, OnceRecord, OnceFault DEF CheckFeed
  <2>2. CASE Tick \/ Operator \/ \E u \in Urls : Publish(u)
    BY <2>2, OnceWorld
  <2>3. CASE UNCHANGED vars
    BY <2>3, WorldStep DEF vars
  <2> QED BY <2>1, <2>2, <2>3 DEF Next
<1> QED BY <1>1, <1>2, TypeInvariance, PTL DEF Spec

\* The claim protocol prevents duplicates, whatever the number of workers and
\* however often claims are reclaimed: a post appears at most once unless one
\* of its sends could not be recorded.
THEOREM NoDuplicates == Spec => []NoUnexplainedDuplicate
<1>1. TypeInv /\ OnceInv => NoUnexplainedDuplicate
  BY DEF TypeInv, TypeOK, OnceInv, Once, NoUnexplainedDuplicate
<1> QED BY <1>1, TypeInvariance, OnceInvariance, PTL

-----------------------------------------------------------------------------
(* Success means published.                                                *)

\* A positive answer in a worker's hands is a post that appeared.
SuccessInv ==
  /\ SuccessWasPublished
  /\ \A w \in Workers, p \in Posts : AboutToRecord(w, p) => published[p] > 0

\* A step after which every positive answer is an old one keeps SuccessInv when
\* it turns no row into a success.
LEMMA SuccessKept ==
  ASSUME SuccessInv,
         \A v \in Workers, p \in Posts : AboutToRecord(v, p)' => AboutToRecord(v, p),
         \A p \in Posts : rows'[p].status = "success" => rows[p].status = "success",
         published' = published
  PROVE  SuccessInv'
BY DEF SuccessInv, SuccessWasPublished

LEMMA SuccessStep ==
  ASSUME TypeInv, SuccessInv, NEW w \in Workers, CheckFeed(w) \/ Fault(w)
  PROVE  SuccessInv'
<1> DEFINE j == worker[w]
           q == Post(j)
<1>1. j \in Worker /\ LocalsSet(j) /\ rows \in [Posts -> Row] /\ published \in [Posts -> 0..2]
  BY DEF TypeInv, TypeOK
<1>2. ASSUME NEW k, Becomes(w, k), k.pc # "record"
      PROVE  \A v \in Workers, p \in Posts : AboutToRecord(v, p)' => AboutToRecord(v, p)
  BY <1>2 DEF Becomes, AboutToRecord, TypeInv, TypeOK
<1>3. ASSUME Quiet(w) PROVE SuccessInv'
  <2>1. \A p \in Posts : rows'[p].status = "success" => rows[p].status = "success"
    BY <1>3 DEF Quiet, QuietWrite
  <2>2. \A v \in Workers, p \in Posts : AboutToRecord(v, p)' => AboutToRecord(v, p)
    BY <1>2, <1>3 DEF Quiet, Delivering
  <2> QED BY <1>3, <2>1, <2>2, SuccessKept DEF Quiet
<1>4. ASSUME Claim(w) PROVE SuccessInv'
  <2>1. PICK e \in j.left :
          /\ rows' = [rows EXCEPT ![<<e, j.item>>] = ClaimRow(@, w)]
          /\ Becomes(w, [Goto(j, "prepare") EXCEPT !.echo = e])
    BY <1>4 DEF Claim
  <2>2. [Goto(j, "prepare") EXCEPT !.echo = e].pc = "prepare"
    BY <1>1 DEF Goto, Worker
  <2>3. \A p \in Posts : rows'[p].status = "success" => rows[p].status = "success"
    BY <1>1, <2>1 DEF ClaimRow, Row
  <2>4. \A v \in Workers, p \in Posts : AboutToRecord(v, p)' => AboutToRecord(v, p)
    BY <1>2, <2>1, <2>2
  <2>5. published' = published
    BY <1>4 DEF Claim
  <2> QED BY <2>3, <2>4, <2>5, SuccessKept
<1>5. ASSUME GuardClaim(w) PROVE SuccessInv'
  <2>1. /\ j.pc = "prepare" /\ j.item \in Items /\ j.echo \in Echoes
        /\ j.phase # "sweep" => j.todo # <<>>
    BY <1>1, <1>5 DEF GuardClaim, LocalsSet
  <2>2. PICK k \in {Goto(j, "send"), EchoDone(j, j.echo, FALSE)} : Becomes(w, k)
    BY <1>5 DEF GuardClaim
  <2>3. k.pc # "record"
    <3>1. EchoDone(j, j.echo, FALSE).pc \notin Delivering
      BY <1>1, <2>1, EchoDoneGood
    <3>2. Goto(j, "send").pc = "send"
      BY <1>1 DEF Goto, Worker
    <3> QED BY <2>2, <3>1, <3>2 DEF Delivering
  <2>4. \A v \in Workers, p \in Posts : AboutToRecord(v, p)' => AboutToRecord(v, p)
    BY <1>2, <2>2, <2>3
  <2>5. published' = published /\ rows' = rows
    BY <1>5 DEF GuardClaim
  <2> QED BY <2>4, <2>5, SuccessKept
<1>6. ASSUME Send(w) PROVE SuccessInv'
  <2> DEFINE next(a) == [Goto(j, "record") EXCEPT !.outcome = a]
  <2>1. PICK a \in Outcomes \ {"none"} :
          /\ published' = IF a \in {"ok", "lost"} /\ published[q] < 2
                          THEN [published EXCEPT ![q] = @ + 1] ELSE published
          /\ Becomes(w, next(a))
    BY <1>6 DEF Send
  <2>2. q \in Posts /\ rows' = rows
    BY <1>1, <1>6 DEF Send, LocalsSet, Posts, Post
  <2>3. next(a).outcome = a /\ Post(next(a)) = q
    BY <1>1 DEF Goto, Worker, Post
  <2>4. worker'[w] = next(a) /\ \A v \in Workers : v # w => worker'[v] = worker[v]
    BY <2>1 DEF Becomes, TypeInv, TypeOK
  <2> HIDE DEF next
  <2>5. \A p \in Posts : published'[p] \in 0..2 /\ (published[p] > 0 => published'[p] > 0)
    BY <1>1, <2>1, <2>2
  <2>6. a = "ok" => published'[q] > 0
    BY <1>1, <2>1, <2>2
  <2>7. ASSUME NEW v \in Workers, NEW p \in Posts, AboutToRecord(v, p)'
        PROVE  published'[p] > 0
    <3>1. CASE v = w
      BY <2>3, <2>4, <2>6, <2>7, <3>1 DEF AboutToRecord
    <3>2. CASE v # w
      BY <2>4, <2>5, <2>7, <3>2 DEF AboutToRecord, SuccessInv
    <3> QED BY <3>1, <3>2
  <2> QED BY <2>2, <2>5, <2>7 DEF SuccessInv, SuccessWasPublished
<1>7. ASSUME RecordSuccess(w) PROVE SuccessInv'
  <2>1. /\ j.pc = "record" /\ j.outcome = "ok" /\ j.item \in Items /\ j.echo \in Echoes
        /\ j.phase # "sweep" => j.todo # <<>>
    BY <1>1, <1>7 DEF RecordSuccess, LocalsSet
  <2> DEFINE k == EchoDone(j, j.echo, Owns(rows[q], w))
  <2>2. /\ rows' = [rows EXCEPT ![q] = FinalizeRow(@, w, "success")]
        /\ Becomes(w, k) /\ published' = published
    BY <1>7 DEF RecordSuccess
  <2>3. k.pc # "record"
    <3>1. Owns(rows[q], w) \in BOOLEAN
      BY DEF Owns
    <3> QED BY <1>1, <2>1, <3>1, EchoDoneGood DEF Delivering
  <2> HIDE DEF k
  <2>4. \A v \in Workers, p \in Posts : AboutToRecord(v, p)' => AboutToRecord(v, p)
    BY <1>2, <2>2, <2>3
  <2>5. \A p \in Posts : p # q => rows'[p] = rows[p]
    BY <1>1, <2>2
  <2>6. q \in Posts /\ published[q] > 0
    BY <2>1 DEF SuccessInv, AboutToRecord, Posts, Post
  <2> QED BY <2>2, <2>4, <2>5, <2>6 DEF SuccessInv, SuccessWasPublished
<1>8. ASSUME Fault(w) PROVE SuccessInv'
  <2>1. PICK step \in {"idle", "release"} : Becomes(w, Goto(Idle, step))
    BY <1>8 DEF Fault
  <2>2. Goto(Idle, step).pc = step
    BY IdleGoto DEF Steps
  <2>3. \A v \in Workers, p \in Posts : AboutToRecord(v, p)' => AboutToRecord(v, p)
    BY <1>2, <2>1, <2>2
  <2>4. published' = published /\ rows' = rows
    BY <1>8 DEF Fault
  <2> QED BY <2>3, <2>4, SuccessKept
<1> QED BY <1>3, <1>4, <1>5, <1>6, <1>7, <1>8, QuietSteps DEF CheckFeed

LEMMA SuccessWorld ==
  ASSUME TypeInv, SuccessInv, Tick \/ Operator \/ \E u \in Urls : Publish(u)
  PROVE  SuccessInv'
<1>1. rows \in [Posts -> Row]
  BY DEF TypeInv, TypeOK
<1>2. ASSUME \A p \in Posts : rows'[p].status = "success" => rows[p].status = "success",
             worker' = worker, published' = published
      PROVE  SuccessInv'
  BY <1>2, SuccessKept DEF AboutToRecord
<1>3. CASE Tick
  BY <1>1, <1>2, <1>3 DEF Tick, AgeRow, Row
<1>4. ASSUME NEW p \in Posts, RetryPost(p) \/ GiveUpPost(p) PROVE SuccessInv'
  BY <1>1, <1>2, <1>4 DEF RetryPost, GiveUpPost, RetryRow, GiveUpRow, Row
<1>5. CASE PauseFeed \/ DeleteFeed \/ InitFeed \/ \E u \in Urls : Publish(u)
  BY <1>2, <1>5 DEF PauseFeed, DeleteFeed, InitFeed, Publish
<1>6. CASE (\E e \in Echoes : ToggleEcho(e)) \/ \E u \in Urls : EditFeed(u)
  BY <1>2, <1>6 DEF ToggleEcho, EditFeed
<1> QED BY <1>3, <1>4, <1>5, <1>6 DEF Operator

\* A row says `success' only for a post that appeared at its destination: no
\* crash, lapsed claim, sweep or button makes the history claim a delivery that
\* never happened.
THEOREM SuccessIsReal == Spec => []SuccessWasPublished
<1>1. Init => SuccessInv
  BY DEF Init, SuccessInv, SuccessWasPublished, AboutToRecord, Idle, Absent
<1>2. TypeInv /\ SuccessInv /\ [Next]_vars => SuccessInv'
  <2> SUFFICES ASSUME TypeInv, SuccessInv, [Next]_vars PROVE SuccessInv'
    OBVIOUS
  <2>1. CASE UNCHANGED vars
    BY <2>1, SuccessKept DEF vars, AboutToRecord
  <2> QED BY <2>1, SuccessStep, SuccessWorld DEF Next
<1>3. SuccessInv => SuccessWasPublished
  BY DEF SuccessInv
<1> QED BY <1>1, <1>2, <1>3, TypeInvariance, PTL DEF Spec

-----------------------------------------------------------------------------
(* Settled rows stay settled.                                              *)

LEMMA SettledStep ==
  ASSUME TypeInv, NEW w \in Workers, CheckFeed(w) \/ Fault(w), NEW p \in Posts
  PROVE  StaysSettled(p)
<1>1. rows \in [Posts -> Row]
  BY DEF TypeInv, TypeOK
<1>2. ASSUME rows'[p] = rows[p] PROVE StaysSettled(p)
  BY <1>2 DEF StaysSettled
<1>3. ASSUME rows[p].status \in {"absent", "failed", "pending"} PROVE StaysSettled(p)
  BY <1>3 DEF StaysSettled
<1>4. CASE Quiet(w)
  BY <1>2, <1>3, <1>4 DEF Quiet, QuietWrite, Owns
<1>5. CASE Claim(w)
  BY <1>1, <1>2, <1>3, <1>5 DEF Claim, Claimable
<1>6. CASE RecordSuccess(w)
  BY <1>1, <1>2, <1>3, <1>6 DEF RecordSuccess, FinalizeRow, Owns
<1>7. CASE GuardClaim(w) \/ Send(w) \/ Fault(w)
  BY <1>2, <1>7 DEF GuardClaim, Send, Fault
<1> QED BY <1>4, <1>5, <1>6, <1>7, QuietSteps DEF CheckFeed

\* A delivered or suppressed post is never reopened, and a given-up one only by
\* the retry button: no late worker, sweep or button touches its row.
THEOREM SettledStays == Spec => SettledForGood
<1>1. TypeInv /\ [Next]_vars => [\A p \in Posts : StaysSettled(p)]_vars
  <2> SUFFICES ASSUME TypeInv, Next, NEW p \in Posts PROVE StaysSettled(p)
    OBVIOUS
  <2>1. rows \in [Posts -> Row]
    BY DEF TypeInv, TypeOK
  <2>2. CASE Tick
    BY <2>1, <2>2 DEF Tick, AgeRow, StaysSettled, Row
  <2>3. ASSUME NEW q \in Posts, RetryPost(q) \/ GiveUpPost(q) PROVE StaysSettled(p)
    BY <2>1, <2>3 DEF RetryPost, GiveUpPost, RetryRow, GiveUpRow, StaysSettled, Row
  <2>4. CASE \/ PauseFeed \/ DeleteFeed \/ InitFeed \/ \E u \in Urls : Publish(u)
             \/ (\E e \in Echoes : ToggleEcho(e)) \/ \E u \in Urls : EditFeed(u)
    BY <2>4 DEF PauseFeed, DeleteFeed, InitFeed, Publish, ToggleEcho, EditFeed, StaysSettled
  <2> QED BY <2>2, <2>3, <2>4, SettledStep DEF Next, Operator
<1> QED BY <1>1, TypeInvariance, PTL DEF Spec, SettledForGood

-----------------------------------------------------------------------------
(* Feed checks implement the outbox: under the refinement mapping Out every *)
(* step of a worker, a fault, the clock or the operator is a step of Outbox. *)

\* The entry of post p under the mapping.
EntryOf(p) == [state |-> PostState(rows[p].status), sent |-> published[p],
               doubt |-> "unsure" \in doubt[p]]

\* What happens to post p in a step is a move of the outbox.
PostMoves(p) == Out!Moves(EntryOf(p), EntryOf(p)')

-----------------------------------------------------------------------------
(* The kinds of moves.                                                     *)

LEMMA EntryType ==
  ASSUME TypeInv
  PROVE  [p \in Posts |-> EntryOf(p)] \in [Posts -> Out!Entry]
BY DEF EntryOf, Out!Entry, PostState, TypeInv, TypeOK

\* Nothing that the mapping looks at changes.
LEMMA SameMoves ==
  ASSUME NEW p \in Posts, rows'[p].status = rows[p].status,
         published'[p] = published[p], doubt'[p] = doubt[p]
  PROVE  PostMoves(p)
BY DEF PostMoves, EntryOf, Out!Moves, Out!Stays

\* A row that is open and does not become a success: it stays open or is dropped.
LEMMA OpenMoves ==
  ASSUME NEW p \in Posts, PostState(rows[p].status) = "open", rows'[p].status # "success",
         published'[p] = published[p], doubt'[p] = doubt[p]
  PROVE  PostMoves(p)
<1>1. EntryOf(p)' = [EntryOf(p) EXCEPT !.state = PostState(rows[p].status)']
  BY DEF EntryOf
<1>2. PostState(rows[p].status)' \in {"open", "dropped"}
  BY DEF PostState
<1>3. EntryOf(p).state = "open"
  BY DEF EntryOf
<1>4. CASE PostState(rows[p].status)' = "open"
  BY <1>1, <1>3, <1>4 DEF PostMoves, EntryOf, Out!Moves, Out!Stays
<1>5. CASE PostState(rows[p].status)' = "dropped"
  BY <1>1, <1>3, <1>5 DEF PostMoves, Out!Moves, Out!Drop
<1> QED BY <1>2, <1>4, <1>5

\* One of the sends of p is found to be unrecorded; its row stays open, or as it was.
LEMMA DoubtMoves ==
  ASSUME NEW p \in Posts, PostState(rows'[p].status) = PostState(rows[p].status),
         published'[p] = published[p],
         \/ "unsure" \in doubt'[p]
         \/ ("unsure" \in doubt'[p]) <=> ("unsure" \in doubt[p])
  PROVE  PostMoves(p)
<1>1. CASE "unsure" \in doubt'[p]
  <2>1. EntryOf(p)'.doubt <=> "unsure" \in doubt'[p]
    BY DEF EntryOf
  <2>2. EntryOf(p)'.state = EntryOf(p).state /\ EntryOf(p)'.sent = EntryOf(p).sent
    BY DEF EntryOf
  <2> QED BY <1>1, <2>1, <2>2 DEF PostMoves, Out!Moves, Out!Doubt
<1>2. CASE ("unsure" \in doubt'[p]) <=> ("unsure" \in doubt[p])
  BY <1>2 DEF PostMoves, EntryOf, Out!Moves, Out!Stays
<1> QED BY <1>1, <1>2

-----------------------------------------------------------------------------
(* The steps.                                                              *)

\* The claim reopens nothing; whoever held the post before may have sent it.
LEMMA ClaimMoves ==
  ASSUME TypeInv, NEW w \in Workers, Claim(w), NEW p \in Posts
  PROVE  PostMoves(p)
<1> DEFINE j == worker[w]
<1>1. PICK e \in j.left :
        /\ Claimable(rows[<<e, j.item>>])
        /\ rows' = [rows EXCEPT ![<<e, j.item>>] = ClaimRow(@, w)]
        /\ doubt' = [doubt EXCEPT ![<<e, j.item>>] = DoubtAfterClaim(<<e, j.item>>)]
  BY DEF Claim
<1> DEFINE q == <<e, j.item>>
<1>2. /\ q \in Posts /\ published' = published
      /\ rows \in [Posts -> Row] /\ doubt \in [Posts -> SUBSET {"taken_over", "unsure"}]
  BY DEF Claim, TypeInv, TypeOK, LocalsSet, Worker, Posts
<1>3. CASE p # q
  BY <1>1, <1>2, <1>3, SameMoves
<1>4. CASE p = q
  <2>1. rows[p].status \in {"absent", "failed", "pending"} /\ rows'[p].status = "pending"
    BY <1>1, <1>2, <1>4 DEF Claimable, ClaimRow, Row
  <2>2. PostState(rows'[p].status) = PostState(rows[p].status)
    BY <2>1 DEF PostState
  <2>3. doubt'[p] = DoubtAfterClaim(p)
    BY <1>1, <1>2, <1>4
  <2>4. "unsure" \in doubt[p] => "unsure" \in doubt'[p]
    BY <2>3 DEF DoubtAfterClaim
  <2> QED BY <1>2, <2>2, <2>4, DoubtMoves
<1> QED BY <1>3, <1>4

\* The request: whoever sends p without doubt about it is the first to send it.
LEMMA SendMoves ==
  ASSUME TypeInv, OnceInv, NEW w \in Workers, Send(w), NEW p \in Posts
  PROVE  PostMoves(p)
<1> DEFINE q == Post(worker[w])
<1>1. PICK a \in Outcomes \ {"none"} :
        /\ published' = IF a \in {"ok", "lost"} /\ published[q] < 2
                        THEN [published EXCEPT ![q] = @ + 1] ELSE published
        /\ doubt' = IF a = "lost" THEN [doubt EXCEPT ![q] = @ \cup {"unsure"}] ELSE doubt
  BY DEF Send
<1>2. /\ worker[w].pc = "send" /\ q \in Posts /\ rows' = rows
      /\ published \in [Posts -> 0..2] /\ doubt \in [Posts -> SUBSET {"taken_over", "unsure"}]
  BY DEF Send, TypeInv, TypeOK, LocalsSet, Worker, Posts, Post
<1>3. CASE p # q
  BY <1>1, <1>2, <1>3, SameMoves
<1>4. CASE p = q /\ a \notin {"ok", "lost"}
  BY <1>1, <1>2, <1>4, SameMoves
<1>5. CASE p = q /\ a \in {"ok", "lost"}
  <2>1. "unsure" \notin doubt[p] => published[p] = 0
    <3>1. InFlight(w, p) /\ ~ AboutToRecord(w, p)
      BY <1>2, <1>5 DEF InFlight, AboutToRecord
    <3> QED BY <1>5, <3>1 DEF OnceInv, Once
  <2>2. published'[p] = IF published[p] = 2 THEN 2 ELSE published[p] + 1
    BY <1>1, <1>2, <1>5
  <2>3. "unsure" \in doubt[p] => "unsure" \in doubt'[p]
    BY <1>1, <1>2, <1>5
  <2>4. rows'[p].status = rows[p].status
    BY <1>2
  <2>5. published[p] \in 0..2
    BY <1>2
  <2>6. /\ EntryOf(p)'.sent = published'[p] /\ EntryOf(p).sent = published[p]
        /\ EntryOf(p)'.doubt <=> "unsure" \in doubt'[p]
        /\ EntryOf(p).doubt <=> "unsure" \in doubt[p]
        /\ EntryOf(p)'.state = EntryOf(p).state
    BY <2>4 DEF EntryOf
  <2>7. EntryOf(p).doubt \/ EntryOf(p).sent > 0 => EntryOf(p)'.doubt
    BY <2>1, <2>3, <2>5, <2>6
  <2> HIDE DEF EntryOf
  <2> QED BY <2>2, <2>6, <2>7 DEF PostMoves, Out!Moves, Out!Send
<1> QED BY <1>3, <1>4, <1>5

\* The record of a positive answer: what it calls delivered was sent.
LEMMA RecordMoves ==
  ASSUME TypeInv, SuccessInv, NEW w \in Workers, RecordSuccess(w), NEW p \in Posts
  PROVE  PostMoves(p)
<1> DEFINE q == Post(worker[w])
<1>1. /\ rows' = [rows EXCEPT ![q] = FinalizeRow(@, w, "success")]
      /\ published' = published /\ doubt' = doubt
  BY DEF RecordSuccess
<1>2. /\ worker[w].pc = "record" /\ worker[w].outcome = "ok" /\ q \in Posts
      /\ rows \in [Posts -> Row] /\ published \in [Posts -> 0..2]
  BY DEF RecordSuccess, TypeInv, TypeOK, LocalsSet, Worker, Posts, Post
<1>3. CASE p # q \/ ~ Owns(rows[q], w)
  BY <1>1, <1>2, <1>3, SameMoves DEF FinalizeRow
<1>4. CASE p = q /\ Owns(rows[q], w)
  <2>1. rows'[p].status = "success"
    BY <1>1, <1>2, <1>4 DEF FinalizeRow, Row
  <2>2. published[p] > 0
    BY <1>2, <1>4 DEF SuccessInv, AboutToRecord
  <2>3. EntryOf(p)' = [EntryOf(p) EXCEPT !.state = "delivered"] /\ EntryOf(p).sent > 0
    BY <1>1, <2>1, <2>2 DEF EntryOf, PostState
  <2> QED BY <2>3 DEF PostMoves, Out!Moves, Out!Deliver
<1> QED BY <1>3, <1>4

\* Every other step of a worker leaves a row alone, or writes an open one.
LEMMA QuietMoves ==
  ASSUME TypeInv, NEW w \in Workers, Quiet(w), NEW p \in Posts
  PROVE  PostMoves(p)
<1>1. QuietWrite(w, p) /\ published' = published /\ doubt' = doubt
  BY DEF Quiet
<1>2. CASE rows'[p] = rows[p]
  BY <1>1, <1>2, SameMoves
<1>3. CASE /\ rows[p].status \in {"absent", "failed"} \/ Owns(rows[p], w)
           /\ rows'[p].status # "success"
  <2>1. PostState(rows[p].status) = "open"
    BY <1>3 DEF PostState, Owns
  <2> QED BY <1>1, <1>3, <2>1, OpenMoves
<1> QED BY <1>1, <1>2, <1>3 DEF QuietWrite

LEMMA WorkerMoves ==
  ASSUME TypeInv, OnceInv, SuccessInv, NEW w \in Workers, CheckFeed(w) \/ Fault(w), NEW p \in Posts
  PROVE  PostMoves(p)
<1>1. CASE GuardClaim(w)
  BY <1>1, SameMoves DEF GuardClaim
<1>2. CASE Fault(w)
  <2>1. rows' = rows /\ published' = published
    BY <1>2 DEF Fault
  <2>2. doubt'[p] = doubt[p] \/ "unsure" \in doubt'[p]
    BY <1>2 DEF Fault, TypeInv, TypeOK
  <2> QED BY <2>1, <2>2, DoubtMoves
<1> QED BY <1>1, <1>2, ClaimMoves, SendMoves, RecordMoves, QuietSteps, QuietMoves DEF CheckFeed

\* The clock and the operator: a button drops a failed post or takes up a dropped one.
LEMMA WorldMoves ==
  ASSUME TypeInv, Tick \/ Operator \/ \E u \in Urls : Publish(u), NEW p \in Posts
  PROVE  PostMoves(p)
<1>1. rows \in [Posts -> Row]
  BY DEF TypeInv, TypeOK
<1>2. ASSUME UNCHANGED <<rows, published, doubt>> PROVE PostMoves(p)
  BY <1>2, SameMoves
<1>3. CASE Tick
  BY <1>1, <1>3, SameMoves DEF Tick, AgeRow, Row
<1>4. ASSUME NEW q \in Posts, GiveUpPost(q) PROVE PostMoves(p)
  <2>1. CASE p # q
    BY <1>1, <1>4, <2>1, SameMoves DEF GiveUpPost
  <2>2. CASE p = q
    BY <1>1, <1>4, <2>2, OpenMoves DEF GiveUpPost, GiveUpRow, PostState, Row
  <2> QED BY <2>1, <2>2
<1>5. ASSUME NEW q \in Posts, RetryPost(q) PROVE PostMoves(p)
  <2>1. published' = published /\ doubt' = doubt
    BY <1>5 DEF RetryPost
  <2>2. CASE p # q
    BY <1>1, <1>5, <2>2, SameMoves DEF RetryPost
  <2>3. CASE p = q
    <3>1. rows[p].status \in {"failed", "gave_up"} /\ rows'[p].status = "failed"
      BY <1>1, <1>5, <2>3 DEF RetryPost, RetryRow, Row
    <3>2. CASE rows[p].status = "failed"
      BY <2>1, <3>1, <3>2, SameMoves
    <3>3. CASE rows[p].status = "gave_up"
      <4>1. EntryOf(p)' = [EntryOf(p) EXCEPT !.state = "open"] /\ EntryOf(p).state = "dropped"
        BY <2>1, <3>1, <3>3 DEF EntryOf, PostState
      <4> QED BY <4>1 DEF PostMoves, Out!Moves, Out!Reopen
    <3> QED BY <3>1, <3>2, <3>3
  <2> QED BY <2>2, <2>3
<1>6. CASE PauseFeed \/ DeleteFeed \/ InitFeed \/ \E u \in Urls : Publish(u)
  BY <1>2, <1>6 DEF PauseFeed, DeleteFeed, InitFeed, Publish
<1>7. CASE (\E e \in Echoes : ToggleEcho(e)) \/ \E u \in Urls : EditFeed(u)
  BY <1>2, <1>7 DEF ToggleEcho, EditFeed
<1> QED BY <1>3, <1>4, <1>5, <1>6, <1>7 DEF Operator

-----------------------------------------------------------------------------
(* The refinement.                                                         *)

LEMMA SuccessInvariance == Spec => []SuccessInv
<1>1. Init => SuccessInv
  BY DEF Init, SuccessInv, SuccessWasPublished, AboutToRecord, Idle, Absent
<1>2. TypeInv /\ SuccessInv /\ [Next]_vars => SuccessInv'
  <2> SUFFICES ASSUME TypeInv, SuccessInv, [Next]_vars PROVE SuccessInv'
    OBVIOUS
  <2>1. CASE UNCHANGED vars
    BY <2>1, SuccessKept DEF vars, AboutToRecord
  <2> QED BY <2>1, SuccessStep, SuccessWorld DEF Next
<1> QED BY <1>1, <1>2, TypeInvariance, PTL DEF Spec

LEMMA StepMoves ==
  ASSUME TypeInv, OnceInv, SuccessInv, Next, NEW p \in Posts
  PROVE  PostMoves(p)
<1>1. CASE \E w \in Workers : CheckFeed(w) \/ Fault(w)
  BY <1>1, WorkerMoves
<1>2. CASE Tick \/ Operator \/ \E u \in Urls : Publish(u)
  BY <1>2, WorldMoves
<1> QED BY <1>1, <1>2 DEF Next

\* Idempotent posting: feed checks implement the outbox.  A post is sent a second
\* time only if one of its sends went unrecorded, it is called delivered only after
\* it was sent, and that is final, whatever workers, faults, lapsing claims, sweeps
\* and buttons do.
THEOREM FeedImplementsOutbox == Spec => ImplementsOutbox
<1>1. Init => Out!Init
  <2> SUFFICES ASSUME Init PROVE \A p \in Posts : EntryOf(p) = Out!Fresh
    BY DEF Out!Init, EntryOf
  <2>1. \A p \in Posts : ("unsure" \in doubt[p]) = FALSE
    BY DEF Init
  <2> QED BY <2>1 DEF Init, EntryOf, Out!Fresh, Absent, PostState
<1>2. TypeInv /\ TypeInv' /\ OnceInv /\ SuccessInv /\ [Next]_vars => [Out!Next]_([p \in Posts |-> EntryOf(p)])
  <2> SUFFICES ASSUME TypeInv, TypeInv', OnceInv, SuccessInv, Next
               PROVE  Out!Next
    BY DEF vars, EntryOf
  <2>1. \A p \in Posts : PostMoves(p)
    BY StepMoves
  <2>2. ([p \in Posts |-> EntryOf(p)] \in [Posts -> Out!Entry])'
    BY EntryType, PTL
  <2> QED BY <2>1, <2>2 DEF Out!Next, PostMoves, EntryOf
<1> QED BY <1>1, <1>2, TypeInvariance, OnceInvariance, SuccessInvariance, PTL
    DEF Spec, ImplementsOutbox, Out!Spec, EntryOf

-----------------------------------------------------------------------------
(* Documents list an item once.                                            *)

Distinct(s) == \A k, l \in DOMAIN s : s[k] = s[l] => k = l

DocInv ==
  /\ \A u \in Urls : Distinct(origin[u])
  /\ \A w \in Workers : Distinct(worker[w].items)

LEMMA PositionIs ==
  ASSUME NEW s \in Seq(Items), Distinct(s), NEW k \in DOMAIN s
  PROVE  PositionOf(s, s[k]) = k
BY DEF PositionOf, Distinct

\* The new items are distinct, and the cursor is not one of them.
LEMMA NewItemsDistinct ==
  ASSUME NEW s \in Seq(Items), Distinct(s), NEW c
  PROVE  Distinct(NewItems(s, c)) /\ c \notin Listed(NewItems(s, c))
<1>1. CASE s = <<>>
  BY <1>1 DEF NewItems, Distinct, Listed
<1>2. CASE s # <<>> /\ c \notin Listed(s)
  <2>1. NewItems(s, c) = <<Head(s)>> /\ Head(s) \in Listed(s)
    BY <1>2 DEF NewItems, Listed
  <2> QED BY <1>2, <2>1 DEF Distinct, Listed
<1>3. CASE s # <<>> /\ c \in Listed(s)
  <2> DEFINE at == PositionOf(s, c)
             new == NewItems(s, c)
  <2>1. at \in 1..Len(s) /\ s[at] = c
    BY <1>3, PositionOfListed
  <2> HIDE DEF at
  <2>2. new = Reversed(SubSeq(s, 1, at - 1))
    BY <1>3 DEF NewItems, at
  <2>3. SubSeq(s, 1, at - 1) \in Seq(Items) /\ Len(SubSeq(s, 1, at - 1)) = at - 1
    BY <2>1, SubSeqProperties
  <2>4. \A k \in 1..(at - 1) : SubSeq(s, 1, at - 1)[k] = s[k]
    BY <2>1, SubSeqProperties
  <2>5. DOMAIN new = 1..(at - 1) /\ \A k \in 1..(at - 1) : new[k] = s[at - k]
    BY <2>1, <2>2, <2>3, <2>4 DEF Reversed
  <2> HIDE DEF new
  <2>6. \A k \in 1..(at - 1) : at - k \in DOMAIN s /\ at - k # at
    BY <2>1
  <2>7. Distinct(new)
    <3> SUFFICES ASSUME NEW k \in 1..(at - 1), NEW l \in 1..(at - 1), new[k] = new[l] PROVE k = l
      BY <2>5 DEF Distinct
    <3>1. at - k = at - l
      BY <2>5, <2>6 DEF Distinct
    <3> QED BY <2>1, <3>1
  <2>8. \A k \in 1..(at - 1) : new[k] # c
    BY <2>1, <2>5, <2>6 DEF Distinct
  <2> QED BY <2>5, <2>7, <2>8 DEF Listed, new
<1> QED BY <1>1, <1>2, <1>3

-----------------------------------------------------------------------------
(* The progress of a worker, relative to the set D of posts dealt with.    *)

New(j) == NewItems(j.items, j.cursor)

\* How many of the new items lie behind the mark.
Behind(j) == IF j.mark = j.cursor THEN 0 ELSE PositionOf(New(j), j.mark)

Ahead(j) == SubSeq(New(j), Behind(j) + 1, Len(New(j)))

MarkOK(D, j) == j.mark = j.cursor \/ (j.mark \in Listed(New(j)) /\ Passed(j) \subseteq D)

\* Of the current item, so far: unless one failed, the echoes that were tried.
ItemOK(D, j) ==
  /\ j.todo = Ahead(j) /\ j.todo # <<>> /\ j.item = Head(j.todo)
  /\ j.ok => (j.echoes \ j.left) \X {j.item} \subseteq D

AtItem == {"claim", "prepare", "send", "record"}

CursorOK(D, j) ==
  /\ j.pc \in {"fetch", "save"} => j.phase # "sweep" /\ j.mark = j.cursor
  /\ j.pc = "init" => j.phase # "sweep" /\ j.cursor = Null
  /\ j.pc = "cursor" => j.phase # "sweep"
  /\ j.pc \in AtItem \cup {"renew", "cursor"} /\ j.phase # "sweep" => MarkOK(D, j)
  /\ j.pc = "renew" /\ j.phase = "new" => j.todo = Ahead(j)
  /\ j.pc \in AtItem /\ j.phase = "new" => ItemOK(D, j)

LEMMA CursorMonotonic ==
  ASSUME NEW D, NEW E, D \subseteq E, NEW j, CursorOK(D, j)
  PROVE  CursorOK(E, j)
BY DEF CursorOK, MarkOK, ItemOK

LEMMA IdleCursor ==
  ASSUME NEW D, NEW step \in {"idle", "read", "release"}
  PROVE  CursorOK(D, Goto(Idle, step)) /\ CursorOK(D, Idle)
BY DEF CursorOK, Goto, Idle, AtItem

\* The locals on which the progress rests.
SameProgress(j, k) ==
  k.items = j.items /\ k.cursor = j.cursor /\ k.mark = j.mark /\ k.echoes = j.echoes

LEMMA MarkOf ==
  ASSUME NEW D, NEW j, NEW k, SameProgress(j, k)
  PROVE  /\ MarkOK(D, k) <=> MarkOK(D, j)
         /\ New(k) = New(j) /\ Behind(k) = Behind(j) /\ Ahead(k) = Ahead(j)
BY DEF SameProgress, MarkOK, New, Behind, Ahead, Passed

\* What the rest of a check keeps of the locals of a worker.
Follows(j, k) ==
  k.items = j.items /\ k.cursor = j.cursor /\ (j.phase = "sweep" => k.phase = "sweep")

LEMMA RenewCursor ==
  ASSUME NEW D, NEW j \in Worker, MarkOK(D, j), j.phase = "new" => j.todo = Ahead(j)
  PROVE  CursorOK(D, Goto(j, "renew")) /\ Follows(j, Goto(j, "renew"))
<1> DEFINE k == Goto(j, "renew")
<1>1. SameProgress(j, k) /\ k.pc = "renew" /\ k.phase = j.phase /\ k.todo = j.todo
  BY DEF SameProgress, Goto, Worker
<1> HIDE DEF k
<1>2. CursorOK(D, k) /\ Follows(j, k)
  BY <1>1, MarkOf DEF CursorOK, AtItem, Follows, SameProgress
<1> QED BY <1>2 DEF k

LEMMA EndOfLoopsCursor ==
  ASSUME NEW D, NEW j \in Worker, j.phase # "sweep", MarkOK(D, j)
  PROVE  CursorOK(D, EndOfLoops(j)) /\ Follows(j, EndOfLoops(j))
<1>1. /\ SameProgress(j, EndOfLoops(j)) /\ EndOfLoops(j).pc = "cursor"
      /\ EndOfLoops(j).phase = j.phase
  BY DEF SameProgress, EndOfLoops, Goto, Worker
<1> QED BY <1>1, MarkOf DEF CursorOK, AtItem, Follows, SameProgress

LEMMA BeginBackdatedCursor ==
  ASSUME NEW D, NEW j \in Worker, j.phase # "sweep", MarkOK(D, j)
  PROVE  CursorOK(D, BeginBackdated(j)) /\ Follows(j, BeginBackdated(j))
<1> DEFINE older == IF Backdating THEN OlderItems(j.items, j.cursor) ELSE <<>>
           next  == [Goto(j, "renew") EXCEPT !.phase = "back", !.todo = older]
<1>1. BeginBackdated(j) \in {EndOfLoops(j), next}
  BY DEF BeginBackdated
<1>2. SameProgress(j, next) /\ next.pc = "renew" /\ next.phase = "back"
  <2> HIDE DEF older
  <2> QED BY DEF SameProgress, Goto, Worker
<1> HIDE DEF next
<1>3. CursorOK(D, next) /\ Follows(j, next)
  BY <1>2, MarkOf DEF CursorOK, AtItem, Follows, SameProgress
<1> QED BY <1>1, <1>3, EndOfLoopsCursor

LEMMA BeginNewCursor ==
  ASSUME NEW D, NEW j \in Worker, j.phase # "sweep", j.mark = j.cursor
  PROVE  CursorOK(D, BeginNew(j)) /\ Follows(j, BeginNew(j))
<1> DEFINE new  == NewItems(j.items, j.cursor)
           next == [Goto(j, "renew") EXCEPT !.phase = "new", !.todo = new]
<1>1. MarkOK(D, j) /\ Behind(j) = 0
  BY DEF MarkOK, Behind
<1>2. new \in Seq(Items)
  BY NewItemsType DEF Worker
<1>3. Ahead(j) = new
  <2>1. SubSeq(new, 1, Len(new)) = new
    <3> HIDE DEF new
    <3> QED BY <1>2, SubSeqProperties
  <2> QED BY <1>1, <2>1 DEF Ahead, New
<1>4. SameProgress(j, next) /\ next.pc = "renew" /\ next.phase = "new" /\ next.todo = new
  <2> HIDE DEF new
  <2> QED BY DEF SameProgress, Goto, Worker
<1>5. CursorOK(D, Goto(j, "release")) /\ Follows(j, Goto(j, "release"))
  BY DEF CursorOK, Goto, Worker, AtItem, Follows
<1>6. BeginNew(j) \in {next, BeginBackdated(j), Goto(j, "release")}
  BY DEF BeginNew
<1> HIDE DEF next, new
<1>7. CursorOK(D, next) /\ Follows(j, next)
  BY <1>1, <1>3, <1>4, MarkOf DEF CursorOK, AtItem, Follows, SameProgress
<1> QED BY <1>1, <1>5, <1>6, <1>7, BeginBackdatedCursor

\* The item at the head of the loop becomes the mark: all its posts are dealt with.
LEMMA MarkMoves ==
  ASSUME NEW D, NEW j \in Worker, Distinct(j.items), MarkOK(D, j),
         j.todo = Ahead(j), j.todo # <<>>, j.item = Head(j.todo),
         j.echoes \X {j.item} \subseteq D,
         NEW k, k.items = j.items, k.cursor = j.cursor, k.mark = j.item, k.echoes = j.echoes
  PROVE  MarkOK(D, k) /\ Ahead(k) = Tail(j.todo)
<1> DEFINE new == New(j)
           n   == Behind(j)
<1>1. /\ new \in Seq(Items) /\ Distinct(new) /\ j.cursor \notin Listed(new)
      /\ New(k) = new
  BY NewItemsType, NewItemsDistinct DEF New, Worker
<1>2. /\ n \in 0..Len(new)
      /\ n # 0 => n = PositionOf(new, j.mark) /\ j.mark # j.cursor
      /\ n = 0 => j.mark = j.cursor
  BY <1>1, PositionOfListed DEF MarkOK, Behind
<1>3. /\ j.todo = SubSeq(new, n + 1, Len(new))
      /\ n + 1 \in 1..Len(new) /\ j.item = new[n + 1]
      /\ Tail(j.todo) = SubSeq(new, n + 2, Len(new))
  <2>1. j.todo = SubSeq(new, n + 1, Len(new))
    BY DEF Ahead
  <2> HIDE DEF n, new
  <2>2. n + 1 <= Len(new)
    BY <1>1, <1>2, <2>1, SubSeqProperties
  <2> QED BY <1>1, <1>2, <2>1, <2>2, SubSeqProperties, HeadTailProperties
<1>4. PositionOf(new, j.item) = n + 1 /\ j.item \in Listed(new) /\ j.item # j.cursor
  BY <1>1, <1>3, PositionIs DEF Listed
<1>5. Behind(k) = n + 1 /\ Ahead(k) = SubSeq(new, n + 2, Len(new))
  <2>1. Behind(k) = n + 1
    BY <1>1, <1>4 DEF Behind
  <2>2. n + 1 + 1 = n + 2
    BY <1>2
  <2> QED BY <1>1, <2>1, <2>2 DEF Ahead
<1>6. ASSUME NEW p \in Passed(k) PROVE p \in D
  <2>1. PICK e \in j.echoes, m \in 1..(n + 1) : p = <<e, new[m]>>
    BY <1>1, <1>4 DEF Passed, New
  <2>2. CASE m = n + 1
    BY <1>3, <2>1, <2>2
  <2>3. CASE m # n + 1
    <3>1. n # 0 /\ m \in 1..n
      BY <1>2, <2>1, <2>3
    <3>2. p \in Passed(j)
      BY <1>2, <2>1, <3>1 DEF Passed, New
    <3> QED BY <1>2, <3>1, <3>2 DEF MarkOK
  <2> QED BY <2>2, <2>3
<1> QED BY <1>1, <1>3, <1>4, <1>5, <1>6 DEF MarkOK

\* Worker j delivers an item and is no further than it should be.
Working(D, j) ==
  /\ j \in Worker /\ Distinct(j.items) /\ j.item \in Items
  /\ j.phase # "sweep" => MarkOK(D, j) /\ j.todo # <<>>
  /\ j.phase = "new" => ItemOK(D, j)

LEMMA ItemDoneCursor ==
  ASSUME NEW D, NEW j, Working(D, j), j.left = {}
  PROVE  CursorOK(D, ItemDone(j)) /\ Follows(j, ItemDone(j))
<1> DEFINE rest  == [j EXCEPT !.todo = Tail(@), !.item = Null, !.ok = TRUE]
           moved == [rest EXCEPT !.mark = j.item]
<1>1. j \in Worker
  BY DEF Working
<1>2. CASE j.phase = "sweep"
  <2>1. /\ ItemDone(j).pc = "sweep" /\ ItemDone(j).phase = "sweep"
        /\ ItemDone(j).items = j.items /\ ItemDone(j).cursor = j.cursor
    BY <1>1, <1>2 DEF ItemDone, Goto, Worker
  <2> QED BY <2>1 DEF CursorOK, AtItem, Follows
<1>3. /\ SameProgress(j, rest) /\ rest.phase = j.phase /\ rest.todo = Tail(j.todo)
      /\ moved.items = j.items /\ moved.cursor = j.cursor /\ moved.mark = j.item
      /\ moved.echoes = j.echoes /\ moved.phase = j.phase /\ moved.todo = Tail(j.todo)
  BY <1>1 DEF SameProgress, Worker
<1>4. ASSUME j.phase # "sweep" PROVE rest \in Worker /\ moved \in Worker
  <2>1. Tail(j.todo) \in Seq(Items)
    BY <1>1, <1>4, HeadTailProperties DEF Worker, Working
  <2> QED BY <1>1, <2>1 DEF Worker, Working
<1>5. ASSUME NEW k, Follows(rest, k) \/ Follows(moved, k) PROVE Follows(j, k)
  BY <1>3, <1>5 DEF Follows, SameProgress
<1>6. j.phase # "sweep" => MarkOK(D, rest)
  BY <1>3, MarkOf DEF Working
<1>7. j.phase = "new" => ItemDone(j) = NewItemDone(j, rest)
  BY DEF ItemDone
<1>8. j.phase = "back" => ItemDone(j) \in {EndOfLoops(rest), Goto(rest, "renew")}
  BY DEF ItemDone
<1>9. j.phase = "new" /\ ~ j.ok => NewItemDone(j, rest) = BeginBackdated(rest)
  BY DEF NewItemDone
<1>10. j.ok => NewItemDone(j, rest) = IF moved.todo = <<>> THEN BeginBackdated(moved)
                                      ELSE Goto(moved, "renew")
  BY DEF NewItemDone
<1> HIDE DEF rest, moved
<1>11. CASE j.phase = "new" /\ ~ j.ok
  BY <1>3, <1>4, <1>5, <1>6, <1>7, <1>9, <1>11, BeginBackdatedCursor
<1>12. CASE j.phase = "new" /\ j.ok
  <2>1. j.echoes \X {j.item} \subseteq D
    BY <1>12 DEF Working, ItemOK
  <2>2. MarkOK(D, moved) /\ Ahead(moved) = Tail(j.todo)
    BY <1>3, <1>12, <2>1, MarkMoves DEF Working, ItemOK
  <2> QED BY <1>3, <1>4, <1>5, <1>7, <1>10, <1>12, <2>2, BeginBackdatedCursor, RenewCursor
<1>13. CASE j.phase = "back"
  BY <1>3, <1>4, <1>5, <1>6, <1>8, <1>13, EndOfLoopsCursor, RenewCursor
<1> QED BY <1>1, <1>2, <1>11, <1>12, <1>13 DEF Worker

\* The post of echo e is done with; a good result means that it was dealt with.
LEMMA EchoDoneCursor ==
  ASSUME NEW D, NEW j, Working(D, j), NEW e \in Echoes, NEW result \in BOOLEAN,
         result => <<e, j.item>> \in D
  PROVE  CursorOK(D, EchoDone(j, e, result)) /\ Follows(j, EchoDone(j, e, result))
<1> DEFINE next == [j EXCEPT !.left = @ \ {e}, !.echo = Null, !.outcome = "none",
                             !.ok = @ /\ result]
           k    == Goto(next, "claim")
<1>1. j \in Worker
  BY DEF Working
<1>2. /\ next \in Worker /\ SameProgress(j, next) /\ next.phase = j.phase
      /\ next.todo = j.todo /\ next.item = j.item /\ next.left = j.left \ {e}
  BY <1>1 DEF Worker, SameProgress, Outcomes
<1>3. next.ok = (j.ok /\ result)
  BY <1>1 DEF Worker
<1>4. EchoDone(j, e, result) = IF next.left = {} THEN ItemDone(next) ELSE k
  BY DEF EchoDone
<1> HIDE DEF next
<1>5. ASSUME j.phase = "new" PROVE ItemOK(D, next)
  <2>1. ItemOK(D, j) /\ Ahead(next) = Ahead(j)
    BY <1>2, <1>5, MarkOf DEF Working
  <2>2. ASSUME next.ok PROVE (next.echoes \ next.left) \X {next.item} \subseteq D
    <3>1. j.ok /\ <<e, j.item>> \in D
      BY <1>3, <2>2
    <3>2. (j.echoes \ j.left) \X {j.item} \subseteq D
      BY <2>1, <3>1 DEF ItemOK
    <3>3. next.echoes = j.echoes /\ next.left = j.left \ {e} /\ next.item = j.item
      BY <1>2 DEF SameProgress
    <3> HIDE DEF next
    <3>4. \A d \in j.echoes \ (j.left \ {e}) : <<d, j.item>> \in D
      BY <3>1, <3>2
    <3> QED BY <3>3, <3>4
  <2> QED BY <1>2, <2>1, <2>2 DEF ItemOK
<1>6. Working(D, next)
  <2>1. j.phase # "sweep" => MarkOK(D, next)
    BY <1>2, MarkOf DEF Working
  <2> QED BY <1>2, <1>5, <2>1 DEF Working, SameProgress
<1>7. /\ SameProgress(next, k) /\ k.pc = "claim" /\ k.phase = next.phase /\ k.todo = next.todo
      /\ k.item = next.item /\ k.left = next.left /\ k.ok = next.ok
  BY <1>2 DEF SameProgress, Goto, Worker
<1> HIDE DEF k
<1>8. CursorOK(D, k)
  <2>1. k.phase # "sweep" => MarkOK(D, k)
    BY <1>6, <1>7, MarkOf DEF Working
  <2>2. k.phase = "new" => ItemOK(D, k)
    BY <1>6, <1>7, MarkOf DEF Working, ItemOK, SameProgress
  <2> QED BY <1>7, <2>1, <2>2 DEF CursorOK, AtItem
<1>9. Follows(j, k) /\ \A g : Follows(next, g) => Follows(j, g)
  BY <1>2, <1>7 DEF Follows, SameProgress
<1> QED BY <1>4, <1>6, <1>8, <1>9, ItemDoneCursor

-----------------------------------------------------------------------------
(* The steps of one worker.                                                *)

CursorInv(D) == \A w \in Workers : CursorOK(D, worker[w])

\* The steps that end the work on one post.
EchoAction(w) ==
  \/ FilterItem(w) \/ SkipUnclaimable(w) \/ PreparationFails(w)
  \/ GuardClaim(w) /\ ~ Owns(rows[Post(worker[w])], w)
  \/ RecordSuccess(w) \/ RecordFailure(w)

\* They end it with a good result only when the post is in E.
EchoStep(w, E) ==
  \E e \in Echoes, result \in BOOLEAN :
     /\ Becomes(w, EchoDone(worker[w], e, result))
     /\ result => <<e, worker[w].item>> \in E

\* What a worker in the delivery of an item may rely on.
LEMMA AtItemWorking ==
  ASSUME TypeInv, DocInv, NEW D, CursorInv(D), NEW w \in Workers, worker[w].pc \in AtItem
  PROVE  Working(D, worker[w])
BY DEF TypeInv, TypeOK, LocalsSet, DocInv, CursorInv, CursorOK, Working, AtItem

\* One worker moves, the documents stay.
LEMMA CursorMoves ==
  ASSUME TypeInv, DocInv, NEW D, NEW E, D \subseteq E, CursorInv(D), NEW w \in Workers,
         NEW k, Becomes(w, k), CursorOK(E, k), Distinct(k.items), origin' = origin
  PROVE  DocInv' /\ \A v \in Workers : CursorOK(E, worker'[v])
<1>1. worker'[w] = k /\ \A v \in Workers : v # w => worker'[v] = worker[v]
  BY DEF Becomes, TypeInv, TypeOK
<1>2. \A v \in Workers : CursorOK(E, worker'[v])
  BY <1>1, CursorMonotonic DEF CursorInv
<1>3. DocInv'
  BY <1>1 DEF DocInv
<1> QED BY <1>2, <1>3

\* Fetching, and the end of a check.
LEMMA CursorFetch ==
  ASSUME TypeInv, DocInv, NEW D, NEW E, D \subseteq E, CursorInv(D), NEW w \in Workers,
         \/ Acquire(w) \/ ReadFeed(w) \/ FetchFails(w) \/ FetchNotModified(w)
         \/ FetchBody(w) \/ SaveValidators(w) \/ InitializeCursor(w)
  PROVE  DocInv' /\ \A v \in Workers : CursorOK(E, worker'[v])
<1> DEFINE j == worker[w]
<1>1. /\ j \in Worker /\ LocalsSet(j) /\ Distinct(j.items)
      /\ CursorOK(E, j) /\ Distinct(<<>>)
  BY CursorMonotonic DEF TypeInv, TypeOK, DocInv, CursorInv, Distinct
<1>2. ASSUME NEW step \in Steps
      PROVE  /\ Goto(Idle, step).items = <<>> /\ Goto(Idle, step).pc = step
             /\ Goto(j, step).items = j.items /\ Goto(j, step).pc = step
  BY <1>1, IdleGoto DEF Goto, Idle, Worker
<1>3. \A step \in {"idle", "read", "release"} : Goto(Idle, step).items = <<>>
  BY <1>2 DEF Steps
<1>4. CASE Acquire(w)
  BY <1>1, <1>3, <1>4, IdleCursor, CursorMoves DEF Acquire
<1>5. CASE ReadFeed(w)
  <2> DEFINE next == [Goto(Idle, "fetch") EXCEPT !.url = feed.url, !.cursor = feed.cursor,
                                                 !.mark = feed.cursor, !.etag = feed.etag,
                                                 !.echoes = enabled]
  <2>1. Becomes(w, Goto(Idle, "release")) \/ Becomes(w, next)
    BY <1>5 DEF ReadFeed
  <2>2. /\ next.pc = "fetch" /\ next.phase = "new" /\ next.items = <<>>
        /\ next.mark = next.cursor
    BY DEF Goto, Idle
  <2>3. CursorOK(E, next) /\ Distinct(next.items)
    <3> HIDE DEF next
    <3> QED BY <1>1, <2>2 DEF CursorOK, AtItem
  <2>4. origin' = origin
    BY <1>5 DEF ReadFeed
  <2> HIDE DEF next
  <2> QED BY <1>1, <1>3, <2>1, <2>3, <2>4, IdleCursor, CursorMoves
<1>6. CASE FetchFails(w) \/ FetchNotModified(w) \/ InitializeCursor(w)
  BY <1>1, <1>3, <1>6, IdleCursor, CursorMoves DEF FetchFails, FetchNotModified, InitializeCursor
<1>7. CASE FetchBody(w)
  <2> DEFINE next == [Goto(j, "save") EXCEPT !.items = origin[j.url],
                                             !.url = Null, !.etag = Null]
  <2>1. Becomes(w, next) /\ origin' = origin /\ j.pc = "fetch"
    BY <1>7 DEF FetchBody
  <2>2. /\ next.pc = "save" /\ next.phase = j.phase /\ next.items = origin[j.url]
        /\ next.mark = j.mark /\ next.cursor = j.cursor
    BY <1>1 DEF Goto, Worker
  <2>3. CursorOK(E, next) /\ Distinct(next.items)
    <3> HIDE DEF next
    <3> QED BY <1>1, <2>1, <2>2 DEF CursorOK, AtItem, DocInv, LocalsSet
  <2> HIDE DEF next
  <2> QED BY <2>1, <2>3, CursorMoves
<1>8. CASE SaveValidators(w)
  <2>1. PICK k \in {Goto(Idle, "release"), Goto(j, "init"), BeginNew(j)} :
          Becomes(w, k) /\ (k \in {Goto(Idle, "release"), BeginNew(j)} \/ j.cursor = Null)
    BY <1>8 DEF SaveValidators
  <2>2. j.phase # "sweep" /\ j.mark = j.cursor /\ origin' = origin
    BY <1>1, <1>8 DEF SaveValidators, CursorOK
  <2>3. j.cursor = Null => CursorOK(E, Goto(j, "init")) /\ Goto(j, "init").items = j.items
    <3>1. /\ Goto(j, "init").items = j.items /\ Goto(j, "init").pc = "init"
          /\ Goto(j, "init").phase = j.phase
          /\ Goto(j, "init").cursor = j.cursor
      BY <1>1 DEF Goto, Worker
    <3> QED BY <2>2, <3>1 DEF CursorOK, AtItem
  <2>4. CursorOK(E, BeginNew(j)) /\ BeginNew(j).items = j.items
    BY <1>1, <2>2, BeginNewCursor DEF Follows
  <2>5. CursorOK(E, k) /\ Distinct(k.items)
    BY <1>1, <1>3, <2>1, <2>3, <2>4, IdleCursor
  <2> QED BY <2>1, <2>2, <2>5, CursorMoves
<1> QED BY <1>4, <1>5, <1>6, <1>7, <1>8

\* The delivery of an item.
LEMMA CursorDeliver ==
  ASSUME TypeInv, DocInv, NEW D, NEW E, D \subseteq E, CursorInv(D), NEW w \in Workers,
         Renew(w) \/ Claim(w) \/ GuardClaim(w) \/ Send(w) \/ EchoAction(w),
         EchoAction(w) => EchoStep(w, E)
  PROVE  DocInv' /\ \A v \in Workers : CursorOK(E, worker'[v])
<1> DEFINE j == worker[w]
<1>1. /\ j \in Worker /\ LocalsSet(j) /\ Distinct(j.items) /\ Distinct(<<>>)
      /\ CursorOK(E, j)
  BY CursorMonotonic DEF TypeInv, TypeOK, DocInv, CursorInv, Distinct
<1>2. CursorOK(E, Goto(Idle, "release")) /\ Goto(Idle, "release").items = <<>>
  BY IdleCursor DEF Goto, Idle
<1>3. CASE Renew(w)
  <2> DEFINE next == [Goto(j, "claim") EXCEPT !.item = Head(j.todo), !.left = j.echoes]
  <2>1. (Becomes(w, Goto(Idle, "release")) \/ Becomes(w, next)) /\ origin' = origin
    BY <1>3 DEF Renew
  <2>2. /\ SameProgress(j, next) /\ next.pc = "claim" /\ next.phase = j.phase
        /\ next.todo = j.todo /\ next.item = Head(j.todo) /\ next.left = next.echoes
    BY <1>1 DEF SameProgress, Goto, Worker
  <2>3. j.pc = "renew" /\ j.phase # "sweep" /\ j.todo # <<>> /\ MarkOK(E, j)
    BY <1>1, <1>3 DEF Renew, LocalsSet, CursorOK
  <2> HIDE DEF next
  <2>4. MarkOK(E, next) /\ Ahead(next) = Ahead(j)
    BY <2>2, <2>3, MarkOf
  <2>5. j.phase = "new" => ItemOK(E, next)
    <3>1. next.echoes \ next.left = {}
      BY <2>2
    <3>2. (next.echoes \ next.left) \X {next.item} \subseteq E
      BY <3>1
    <3>3. j.phase = "new" => j.todo = Ahead(j)
      BY <1>1, <2>3 DEF CursorOK
    <3> QED BY <2>2, <2>3, <2>4, <3>2, <3>3 DEF ItemOK
  <2>6. CursorOK(E, next) /\ Distinct(next.items)
    BY <1>1, <2>2, <2>4, <2>5 DEF CursorOK, AtItem, SameProgress
  <2> QED BY <1>1, <1>2, <2>1, <2>6, CursorMoves
<1>4. CASE EchoAction(w)
  <2>1. PICK e \in Echoes, result \in BOOLEAN :
          /\ Becomes(w, EchoDone(j, e, result))
          /\ result => <<e, j.item>> \in E
    BY <1>4 DEF EchoStep
  <2>2. j.pc \in AtItem /\ origin' = origin
    BY <1>4 DEF EchoAction, FilterItem, SkipUnclaimable, PreparationFails, FailPost, GuardClaim,
                RecordSuccess, RecordFailure, AtItem
  <2>3. Working(E, j)
    BY <1>1, <2>2 DEF TypeInv, TypeOK, LocalsSet, CursorOK, Working, AtItem
  <2>4. CursorOK(E, EchoDone(j, e, result)) /\ EchoDone(j, e, result).items = j.items
    BY <2>1, <2>3, EchoDoneCursor DEF Follows
  <2> QED BY <1>1, <2>1, <2>2, <2>4, CursorMoves
<1>5. ASSUME NEW k, Becomes(w, k), origin' = origin, j.pc \in AtItem, k.pc \in AtItem,
             SameProgress(j, k), k.phase = j.phase, k.todo = j.todo, k.item = j.item,
             k.left = j.left, k.ok = j.ok
      PROVE  DocInv' /\ \A v \in Workers : CursorOK(E, worker'[v])
  <2>1. j.phase # "sweep" => MarkOK(E, k)
    BY <1>1, <1>5, MarkOf DEF CursorOK
  <2>2. j.phase = "new" => ItemOK(E, k)
    BY <1>1, <1>5, MarkOf DEF CursorOK, ItemOK, SameProgress
  <2>3. CursorOK(E, k) /\ Distinct(k.items)
    BY <1>1, <1>5, <2>1, <2>2 DEF CursorOK, AtItem, SameProgress
  <2> QED BY <1>5, <2>3, CursorMoves
<1>6. CASE Claim(w)
  <2> DEFINE next(e) == [Goto(j, "prepare") EXCEPT !.echo = e]
  <2>1. PICK e \in j.left : Becomes(w, next(e))
    BY <1>6 DEF Claim
  <2>2. /\ SameProgress(j, next(e)) /\ next(e).pc = "prepare" /\ next(e).phase = j.phase
        /\ next(e).todo = j.todo /\ next(e).item = j.item /\ next(e).left = j.left
        /\ next(e).ok = j.ok
    BY <1>1 DEF SameProgress, Goto, Worker
  <2>3. j.pc \in AtItem /\ origin' = origin /\ "prepare" \in AtItem
    BY <1>6 DEF Claim, AtItem
  <2> HIDE DEF next
  <2> QED BY <1>5, <2>1, <2>2, <2>3
<1>7. CASE GuardClaim(w) /\ ~ EchoAction(w)
  <2> DEFINE next == Goto(j, "send")
  <2>1. Becomes(w, next) /\ j.pc \in AtItem /\ origin' = origin /\ "send" \in AtItem
    BY <1>7 DEF GuardClaim, EchoAction, AtItem
  <2>2. /\ SameProgress(j, next) /\ next.pc = "send" /\ next.phase = j.phase
        /\ next.todo = j.todo /\ next.item = j.item /\ next.left = j.left
        /\ next.ok = j.ok
    BY <1>1 DEF SameProgress, Goto, Worker
  <2> HIDE DEF next
  <2> QED BY <1>5, <2>1, <2>2
<1>8. CASE Send(w)
  <2> DEFINE next(a) == [Goto(j, "record") EXCEPT !.outcome = a]
  <2>1. PICK a \in Outcomes \ {"none"} : Becomes(w, next(a))
    BY <1>8 DEF Send
  <2>2. /\ SameProgress(j, next(a)) /\ next(a).pc = "record" /\ next(a).phase = j.phase
        /\ next(a).todo = j.todo /\ next(a).item = j.item /\ next(a).left = j.left
        /\ next(a).ok = j.ok
    BY <1>1 DEF SameProgress, Goto, Worker
  <2>3. j.pc \in AtItem /\ origin' = origin /\ "record" \in AtItem
    BY <1>8 DEF Send, AtItem
  <2> HIDE DEF next
  <2> QED BY <1>5, <2>1, <2>2, <2>3
<1> QED BY <1>3, <1>4, <1>6, <1>7, <1>8

\* The cursor, the sweep and the end of a check.
LEMMA CursorSweep ==
  ASSUME TypeInv, DocInv, NEW D, NEW E, D \subseteq E, CursorInv(D), NEW w \in Workers,
         \/ UpdateCursor(w) \/ FindDue(w) \/ Refetch(w) \/ RefetchFails(w)
         \/ SweepAbandons(w) \/ SweepRetries(w) \/ SweepEnds(w) \/ Release(w) \/ Fault(w)
  PROVE  DocInv' /\ \A v \in Workers : CursorOK(E, worker'[v])
<1> DEFINE j == worker[w]
<1>1. /\ j \in Worker /\ LocalsSet(j) /\ Distinct(j.items) /\ Distinct(<<>>)
      /\ feed \in Feed
  BY DEF TypeInv, TypeOK, DocInv, Distinct
<1>2. ASSUME NEW step \in {"idle", "release"}
      PROVE  CursorOK(E, Goto(Idle, step)) /\ Distinct(Goto(Idle, step).items)
  BY <1>1, IdleCursor DEF Goto, Idle
<1>3. CursorOK(E, Idle) /\ Distinct(Idle.items)
  BY <1>1, IdleCursor DEF Idle
<1>4. ASSUME NEW k, Becomes(w, k), origin' = origin, Distinct(k.items),
             \/ k.pc \in {"due", "refetch", "sweep"}
             \/ k.pc = "claim" /\ k.phase = "sweep"
      PROVE  DocInv' /\ \A v \in Workers : CursorOK(E, worker'[v])
  <2>1. CursorOK(E, k)
    BY <1>4 DEF CursorOK, AtItem
  <2> QED BY <1>4, <2>1, CursorMoves
<1>5. CASE UpdateCursor(w)
  <2> DEFINE next == [Goto(Idle, "due") EXCEPT !.echoes = j.echoes]
  <2>1. Becomes(w, next) /\ origin' = origin
    BY <1>5 DEF UpdateCursor
  <2>2. next.pc = "due" /\ next.items = <<>>
    BY DEF Goto, Idle
  <2> HIDE DEF next
  <2> QED BY <1>1, <1>4, <2>1, <2>2
<1>6. CASE FindDue(w)
  <2> DEFINE next(d) == [Goto(Idle, "refetch") EXCEPT !.due = d, !.phase = "sweep"]
  <2>1. Becomes(w, Goto(Idle, "release")) \/ \E d : Becomes(w, next(d))
    BY <1>6 DEF FindDue
  <2>2. \A d : next(d).pc = "refetch" /\ next(d).items = <<>>
    BY DEF Goto, Idle
  <2>3. origin' = origin
    BY <1>6 DEF FindDue
  <2> HIDE DEF next
  <2> QED BY <1>1, <1>2, <1>4, <2>1, <2>2, <2>3, CursorMoves
<1>7. CASE Refetch(w)
  <2> DEFINE next == [Goto(j, "sweep") EXCEPT !.items = origin[feed.url]]
  <2>1. Becomes(w, next) /\ origin' = origin
    BY <1>7 DEF Refetch
  <2>2. next.pc = "sweep" /\ next.items = origin[feed.url]
    BY <1>1 DEF Goto, Worker
  <2>3. Distinct(origin[feed.url])
    BY <1>1 DEF DocInv, Feed
  <2> HIDE DEF next
  <2> QED BY <1>4, <2>1, <2>2, <2>3
<1>8. CASE RefetchFails(w) \/ SweepEnds(w)
  BY <1>2, <1>8, CursorMoves DEF RefetchFails, SweepEnds
<1>9. CASE SweepAbandons(w)
  <2> DEFINE next(p) == [j EXCEPT !.due = @ \ {p}]
  <2>1. PICK p \in j.due : Becomes(w, next(p))
    BY <1>9 DEF SweepAbandons
  <2>2. next(p).pc = "sweep" /\ next(p).items = j.items
    BY <1>1, <1>9 DEF SweepAbandons, Worker
  <2>3. origin' = origin
    BY <1>9 DEF SweepAbandons
  <2> HIDE DEF next
  <2> QED BY <1>1, <1>4, <2>1, <2>2, <2>3
<1>10. CASE SweepRetries(w)
  <2> DEFINE next(p) == [Goto(j, "claim") EXCEPT !.due = @ \ {p}, !.item = p[2],
                                                 !.left = {p[1]}]
  <2>1. PICK p \in j.due : Becomes(w, next(p))
    BY <1>10 DEF SweepRetries
  <2>2. /\ next(p).pc = "claim" /\ next(p).items = j.items /\ next(p).phase = j.phase
    BY <1>1 DEF Goto, Worker
  <2>3. origin' = origin /\ j.phase = "sweep"
    BY <1>1, <1>10 DEF SweepRetries, LocalsSet
  <2> HIDE DEF next
  <2> QED BY <1>1, <1>4, <2>1, <2>2, <2>3
<1>11. CASE Release(w)
  BY <1>3, <1>11, CursorMoves DEF Release
<1>12. CASE Fault(w)
  <2>1. PICK step \in {"idle", "release"} : Becomes(w, Goto(Idle, step))
    BY <1>12 DEF Fault
  <2>2. origin' = origin
    BY <1>12 DEF Fault
  <2> QED BY <1>2, <2>1, <2>2, CursorMoves
<1> QED BY <1>5, <1>6, <1>7, <1>8, <1>9, <1>10, <1>11, <1>12

-----------------------------------------------------------------------------
(* The world: a document gets an item it does not list.                    *)

LEMMA DistinctPrefix ==
  ASSUME NEW s \in Seq(Items), Distinct(s), NEW n \in Nat
  PROVE  Distinct(SubSeq(s, 1, IF Len(s) > n THEN n ELSE Len(s)))
<1> DEFINE m == IF Len(s) > n THEN n ELSE Len(s)
<1>1. m \in 0..Len(s)
  OBVIOUS
<1> HIDE DEF m
<1>2. /\ Len(SubSeq(s, 1, m)) = m /\ SubSeq(s, 1, m) \in Seq(Items)
      /\ \A k \in 1..m : SubSeq(s, 1, m)[k] = s[k]
  BY <1>1, SubSeqProperties
<1>3. DOMAIN SubSeq(s, 1, m) = 1..m
  BY <1>2
<1>4. Distinct(SubSeq(s, 1, m))
  BY <1>1, <1>2, <1>3 DEF Distinct
<1> QED BY <1>4 DEF m

LEMMA DistinctSplice ==
  ASSUME NEW s \in Seq(Items), Distinct(s), NEW i \in Items \ Listed(s), NEW n \in 0..Len(s)
  PROVE  LET doc == SubSeq(s, 1, n) \o <<i>> \o SubSeq(s, n + 1, Len(s))
         IN  doc \in Seq(Items) /\ Distinct(doc)
<1> DEFINE a == SubSeq(s, 1, n)
           b == SubSeq(s, n + 1, Len(s))
           doc == a \o <<i>> \o b
<1>1. /\ a \in Seq(Items) /\ Len(a) = n /\ \A k \in 1..n : a[k] = s[k]
  BY SubSeqProperties
<1>2. /\ b \in Seq(Items) /\ Len(b) = Len(s) - n
      /\ \A k \in 1..(Len(s) - n) : b[k] = s[n + k]
  BY SubSeqProperties
<1> HIDE DEF a, b
<1>3. /\ doc \in Seq(Items) /\ Len(doc) = Len(s) + 1
      /\ \A k \in 1..n : doc[k] = s[k]
      /\ doc[n + 1] = i
      /\ \A k \in (n + 2)..(Len(s) + 1) : doc[k] = s[k - 1]
  <2>1. n \in Nat /\ Len(s) \in Nat /\ n <= Len(s)
    OBVIOUS
  <2> DEFINE c == a \o <<i>>
  <2>2. /\ c \in Seq(Items) /\ Len(c) = n + 1
        /\ \A k \in 1..n : c[k] = a[k]
        /\ c[n + 1] = i
    BY <1>1, <2>1
  <2> HIDE DEF c
  <2>3. /\ c \o b \in Seq(Items) /\ Len(c \o b) = Len(s) + 1
        /\ \A k \in 1..(n + 1) : (c \o b)[k] = c[k]
        /\ \A k \in (n + 2)..(Len(s) + 1) : (c \o b)[k] = b[k - (n + 1)]
    <3>1. /\ c \o b \in Seq(Items) /\ Len(c \o b) = Len(c) + Len(b)
          /\ \A k \in 1..(Len(c) + Len(b)) :
                (c \o b)[k] = IF k <= Len(c) THEN c[k] ELSE b[k - Len(c)]
      BY <1>2, <2>2, ConcatProperties
    <3>2. Len(c) = n + 1 /\ Len(c) + Len(b) = Len(s) + 1
      BY <1>2, <2>1, <2>2
    <3>3. \A k \in 1..(n + 1) : (c \o b)[k] = c[k]
      BY <2>1, <3>1, <3>2
    <3>4. \A k \in (n + 2)..(Len(s) + 1) : (c \o b)[k] = b[k - (n + 1)]
      BY <2>1, <3>1, <3>2
    <3> QED BY <3>1, <3>2, <3>3, <3>4
  <2>4. \A k \in (n + 2)..(Len(s) + 1) : k - (n + 1) \in 1..(Len(s) - n)
                                         /\ n + (k - (n + 1)) = k - 1
    BY <2>1
  <2>5. \A k \in (n + 2)..(Len(s) + 1) : (c \o b)[k] = s[k - 1]
    BY <1>2, <2>3, <2>4
  <2>6. \A k \in 1..(n + 1) : (c \o b)[k] = c[k]
    BY <2>3
  <2>7. doc = c \o b
    BY DEF c
  <2>8. (c \o b)[n + 1] = i
    BY <2>1, <2>2, <2>6
  <2>9. \A k \in 1..n : (c \o b)[k] = s[k]
    <3>1. \A k \in 1..n : k \in 1..(n + 1)
      BY <2>1
    <3> QED BY <1>1, <2>2, <2>6, <3>1
  <2> QED BY <2>3, <2>5, <2>7, <2>8, <2>9
<1> HIDE DEF doc
<1>4. \A k \in 1..Len(s) : s[k] # i
  BY DEF Listed
<1> DEFINE old(k) == IF k <= n THEN k ELSE k - 1
<1>5. /\ DOMAIN doc = 1..(Len(s) + 1)
      /\ \A k \in 1..(Len(s) + 1) : k # n + 1 => old(k) \in 1..Len(s) /\ doc[k] = s[old(k)]
  BY <1>3
<1>6. Distinct(doc)
  <2> SUFFICES ASSUME NEW k \in 1..(Len(s) + 1), NEW l \in 1..(Len(s) + 1), doc[k] = doc[l]
               PROVE  k = l
    BY <1>5 DEF Distinct
  <2>1. CASE k = n + 1 \/ l = n + 1
    <3>1. \A m \in 1..(Len(s) + 1) : m # n + 1 => doc[m] # i
      <4> HIDE DEF old
      <4> QED BY <1>4, <1>5
    <3> QED BY <1>3, <2>1, <3>1
  <2>2. CASE k # n + 1 /\ l # n + 1
    <3>1. old(k) = old(l)
      BY <1>5, <2>2 DEF Distinct
    <3> QED BY <2>2, <3>1
  <2> QED BY <2>1, <2>2
<1> QED BY <1>3, <1>6 DEF doc, a, b

LEMMA CursorWorld ==
  ASSUME TypeInv, DocInv, NEW D, NEW E, D \subseteq E, CursorInv(D),
         Tick \/ Operator \/ (\E u \in Urls : Publish(u)) \/ UNCHANGED vars
  PROVE  DocInv' /\ \A v \in Workers : CursorOK(E, worker'[v])
<1>1. worker' = worker
  BY DEF Tick, Operator, PauseFeed, DeleteFeed, InitFeed, ToggleEcho, EditFeed, RetryPost,
         GiveUpPost, Publish, vars
<1>2. \A v \in Workers : CursorOK(E, worker'[v])
  BY <1>1, CursorMonotonic DEF CursorInv
<1>3. ASSUME origin' = origin PROVE DocInv'
  BY <1>1, <1>3 DEF DocInv
<1>4. ASSUME NEW u \in Urls, Publish(u) PROVE DocInv'
  <2> DEFINE s == origin[u]
             doc(i, k) == SubSeq(s, 1, k) \o <<i>> \o SubSeq(s, k + 1, Len(s))
  <2>1. PICK i \in Items \ Listed(s), k \in 0..Len(s) :
          origin' = [origin EXCEPT
             ![u] = SubSeq(doc(i, k), 1, IF Len(doc(i, k)) > Window THEN Window ELSE Len(doc(i, k)))]
    BY <1>4 DEF Publish
  <2>2. s \in Seq(Items) /\ Distinct(s) /\ Window \in Nat /\ origin \in [Urls -> Seq(Items)]
    BY BoundAssumption DEF TypeInv, TypeOK, DocInv
  <2>3. doc(i, k) \in Seq(Items) /\ Distinct(doc(i, k))
    BY <2>2, DistinctSplice
  <2> HIDE DEF doc
  <2>4. Distinct(origin'[u])
    BY <2>1, <2>2, <2>3, DistinctPrefix
  <2>5. \A v \in Urls : v # u => origin'[v] = origin[v]
    BY <2>1, <2>2
  <2> QED BY <1>1, <2>4, <2>5 DEF DocInv
<1>5. CASE Tick \/ Operator \/ UNCHANGED vars
  <2>1. origin' = origin
    BY <1>5 DEF Tick, Operator, PauseFeed, DeleteFeed, InitFeed, ToggleEcho, EditFeed, RetryPost,
                GiveUpPost, vars
  <2> QED BY <1>2, <1>3, <2>1
<1> QED BY <1>2, <1>4, <1>5

LEMMA CursorStep ==
  ASSUME TypeInv, DocInv, NEW D, NEW E, D \subseteq E, CursorInv(D), [Next]_vars,
         \A w \in Workers : EchoAction(w) => EchoStep(w, E)
  PROVE  DocInv' /\ \A v \in Workers : CursorOK(E, worker'[v])
<1>1. ASSUME NEW w \in Workers, CheckFeed(w) \/ Fault(w)
      PROVE  DocInv' /\ \A v \in Workers : CursorOK(E, worker'[v])
  <2>1. \/ \/ Acquire(w) \/ ReadFeed(w) \/ FetchFails(w) \/ FetchNotModified(w)
           \/ FetchBody(w) \/ SaveValidators(w) \/ InitializeCursor(w)
        \/ Renew(w) \/ Claim(w) \/ GuardClaim(w) \/ Send(w) \/ EchoAction(w)
        \/ \/ UpdateCursor(w) \/ FindDue(w) \/ Refetch(w) \/ RefetchFails(w)
           \/ SweepAbandons(w) \/ SweepRetries(w) \/ SweepEnds(w) \/ Release(w) \/ Fault(w)
    BY <1>1 DEF CheckFeed, EchoAction
  <2> QED BY <2>1, CursorFetch, CursorDeliver, CursorSweep
<1> QED BY <1>1, CursorWorld DEF Next

LEMMA CursorInit ==
  ASSUME Init, NEW D
  PROVE  DocInv /\ CursorInv(D)
<1>1. Distinct(<<>>)
  BY DEF Distinct
<1>2. CursorOK(D, Idle) /\ Idle.items = <<>>
  BY IdleCursor DEF Idle
<1> QED BY <1>1, <1>2 DEF Init, DocInv, CursorInv

-----------------------------------------------------------------------------
(* The posts dealt with: handled, or taken from a live worker.             *)

Dealt == {p \in Posts : rows[p].status \in Handled \/ "taken_over" \in doubt[p]}

\* Who delivers a post owns its row, unless somebody dealt with it meanwhile.
GuardInv ==
  \A w \in Workers : worker[w].pc \in Delivering =>
     Owns(rows[Post(worker[w])], w) \/ Post(worker[w]) \in Dealt

\* The row of a suppressed post is suppressed from the start.
FilteredInv == \A p \in Filtered : rows[p].status \in {"absent", "filtered"}

LEMMA FilteredStep ==
  ASSUME TypeInv, FilteredInv, [Next]_vars
  PROVE  FilteredInv'
<1> SUFFICES ASSUME NEW p \in Filtered PROVE rows'[p].status \in {"absent", "filtered"}
  BY DEF FilteredInv
<1>1. p \in Posts /\ rows \in [Posts -> Row] /\ rows[p].status \in {"absent", "filtered"}
  BY FlagAssumption DEF TypeInv, TypeOK, FilteredInv
<1>2. ASSUME NEW w \in Workers, CheckFeed(w) \/ Fault(w), rows' # rows
      PROVE  rows'[p].status \in {"absent", "filtered"}
  <2>1. \/ FilterItem(w) \/ Claim(w) \/ PreparationFails(w) \/ RecordSuccess(w)
        \/ RecordFailure(w) \/ SweepAbandons(w)
    BY <1>2 DEF CheckFeed, Fault, Acquire, ReadFeed, FetchFails, FetchNotModified, FetchBody,
                SaveValidators, InitializeCursor, Renew, SkipUnclaimable, GuardClaim, Send,
                UpdateCursor, FindDue, Refetch, RefetchFails, SweepRetries, SweepEnds, Release
  <2>2. CASE FilterItem(w)
    BY <1>1, <2>2 DEF FilterItem, FilterRow, Row
  <2>3. CASE Claim(w)
    BY <1>1, <2>3 DEF Claim
  <2>4. CASE PreparationFails(w) \/ RecordFailure(w)
    BY <1>1, <2>4 DEF PreparationFails, RecordFailure, FailPost, FailRow, Owns
  <2>5. CASE RecordSuccess(w)
    BY <1>1, <2>5 DEF RecordSuccess, FinalizeRow, Owns
  <2>6. CASE SweepAbandons(w)
    BY <1>1, <2>6 DEF SweepAbandons, AbandonRow
  <2> QED BY <2>1, <2>2, <2>3, <2>4, <2>5, <2>6
<1>3. CASE rows' = rows
  BY <1>1, <1>3
<1>4. CASE Tick
  BY <1>1, <1>4 DEF Tick, AgeRow, Row
<1>5. ASSUME NEW q \in Posts, RetryPost(q) \/ GiveUpPost(q)
      PROVE  rows'[p].status \in {"absent", "filtered"}
  BY <1>1, <1>5 DEF RetryPost, GiveUpPost
<1>6. CASE \/ PauseFeed \/ DeleteFeed \/ InitFeed \/ (\E u \in Urls : Publish(u))
           \/ (\E e \in Echoes : ToggleEcho(e)) \/ (\E u \in Urls : EditFeed(u))
           \/ UNCHANGED vars
  BY <1>3, <1>6 DEF PauseFeed, DeleteFeed, InitFeed, Publish, ToggleEcho, EditFeed, vars
<1> QED BY <1>2, <1>3, <1>4, <1>5, <1>6 DEF Next, Operator

\* What was doubtful remains so.
LEMMA DoubtGrows ==
  ASSUME TypeInv, [Next]_vars, NEW p \in Posts
  PROVE  doubt[p] \subseteq doubt'[p]
<1>1. doubt \in [Posts -> SUBSET {"taken_over", "unsure"}]
  BY DEF TypeInv, TypeOK
<1>2. ASSUME doubt' = doubt PROVE doubt[p] \subseteq doubt'[p]
  BY <1>2
<1>3. ASSUME NEW w \in Workers, CheckFeed(w) \/ Fault(w) PROVE doubt[p] \subseteq doubt'[p]
  <2>1. CASE Quiet(w)
    BY <1>2, <2>1 DEF Quiet
  <2>2. CASE Claim(w)
    BY <1>1, <2>2 DEF Claim, DoubtAfterClaim
  <2>3. CASE Send(w) \/ Fault(w)
    BY <1>1, <2>3 DEF Send, Fault
  <2>4. CASE GuardClaim(w) \/ RecordSuccess(w)
    BY <1>2, <2>4 DEF GuardClaim, RecordSuccess
  <2> QED BY <1>3, <2>1, <2>2, <2>3, <2>4, QuietSteps DEF CheckFeed
<1>4. CASE Tick \/ Operator \/ (\E u \in Urls : Publish(u)) \/ UNCHANGED vars
  BY <1>2, <1>4 DEF Tick, Operator, PauseFeed, DeleteFeed, InitFeed, ToggleEcho, EditFeed,
                    RetryPost, GiveUpPost, Publish, vars
<1> QED BY <1>3, <1>4 DEF Next

\* But for the retry button, what was dealt with remains so.
LEMMA DealtGrows ==
  ASSUME TypeInv, [Next]_vars, "retry" \notin Routes
  PROVE  Dealt \subseteq Dealt'
<1> SUFFICES ASSUME NEW p \in Posts, rows[p].status \in Handled
             PROVE  rows'[p].status \in Handled
  BY DoubtGrows DEF Dealt
<1>1. rows \in [Posts -> Row]
  BY DEF TypeInv, TypeOK
<1>2. rows[p].status \notin {"absent", "failed", "pending"}
  BY DEF Handled
<1>3. ASSUME NEW w \in Workers, CheckFeed(w) \/ Fault(w) PROVE rows'[p] = rows[p]
  <2>1. CASE Quiet(w)
    BY <1>2, <2>1 DEF Quiet, QuietWrite, Owns
  <2>2. CASE Claim(w)
    BY <1>1, <1>2, <2>2 DEF Claim, Claimable
  <2>3. CASE RecordSuccess(w)
    BY <1>1, <1>2, <2>3 DEF RecordSuccess, FinalizeRow, Owns
  <2>4. CASE GuardClaim(w) \/ Send(w) \/ Fault(w)
    BY <2>4 DEF GuardClaim, Send, Fault
  <2> QED BY <1>3, <2>1, <2>2, <2>3, <2>4, QuietSteps DEF CheckFeed
<1>4. CASE Tick
  BY <1>1, <1>4 DEF Tick, AgeRow, Row
<1>5. ASSUME NEW q \in Posts, GiveUpPost(q) PROVE rows'[p].status \in Handled
  BY <1>1, <1>2, <1>5 DEF GiveUpPost
<1>6. CASE \/ PauseFeed \/ DeleteFeed \/ InitFeed \/ (\E u \in Urls : Publish(u))
           \/ (\E e \in Echoes : ToggleEcho(e)) \/ (\E u \in Urls : EditFeed(u))
           \/ UNCHANGED vars
  BY <1>6 DEF PauseFeed, DeleteFeed, InitFeed, Publish, ToggleEcho, EditFeed, vars
<1>7. \A q \in Posts : ~ RetryPost(q)
  BY DEF RetryPost
<1> QED BY <1>3, <1>4, <1>5, <1>6, <1>7 DEF Next, Operator

\* The claim taken from a worker in the delivery of its post is noted.
LEMMA GuardStep ==
  ASSUME TypeInv, GuardInv, [Next]_vars, "retry" \notin Routes
  PROVE  GuardInv'
<1>1. Dealt \subseteq Dealt' /\ worker \in [Workers -> Worker] /\ rows \in [Posts -> Row]
  BY DealtGrows DEF TypeInv, TypeOK
<1>2. \A w \in Workers : worker[w].pc \in Delivering => Post(worker[w]) \in Posts
  BY DEF TypeInv, TypeOK, LocalsSet, Post, Posts, Delivering
<1> SUFFICES ASSUME NEW v \in Workers, worker'[v].pc \in Delivering
             PROVE  Owns(rows'[Post(worker'[v])], v) \/ Post(worker'[v]) \in Dealt'
  BY DEF GuardInv
<1> DEFINE p == Post(worker[v])
<1>3. ASSUME worker[v].pc \in Delivering, Post(worker'[v]) = p,
             Owns(rows[p], v) => Owns(rows'[p], v) \/ p \in Dealt'
      PROVE  Owns(rows'[Post(worker'[v])], v) \/ Post(worker'[v]) \in Dealt'
  BY <1>1, <1>3 DEF GuardInv
<1>4. ASSUME NEW w \in Workers, CheckFeed(w) \/ Fault(w), v # w
      PROVE  Owns(rows'[Post(worker'[v])], v) \/ Post(worker'[v]) \in Dealt'
  <2>1. worker'[v] = worker[v]
    BY <1>1, <1>4 DEF CheckFeed, Fault, Acquire, ReadFeed, FetchFails, FetchNotModified,
       FetchBody, SaveValidators, InitializeCursor, Renew, FilterItem, Claim, SkipUnclaimable,
       PreparationFails, RecordFailure, FailPost, GuardClaim, Send, RecordSuccess,
       UpdateCursor, FindDue, Refetch, RefetchFails, SweepAbandons, SweepRetries, SweepEnds,
       Release, Becomes
  <2>2. p \in Posts
    BY <1>2, <2>1
  <2> SUFFICES ASSUME Owns(rows[p], v) PROVE Owns(rows'[p], v) \/ p \in Dealt'
    BY <1>3, <2>1
  <2>3. ~ Owns(rows[p], w) /\ rows[p].status = "pending"
    BY <1>4 DEF Owns
  <2>4. ASSUME rows'[p] = rows[p] PROVE Owns(rows'[p], v)
    BY <2>4
  <2>5. CASE Quiet(w)
    BY <2>2, <2>3, <2>4, <2>5 DEF Quiet, QuietWrite
  <2>6. CASE Claim(w)
    <3>1. PICK e \in worker[w].left :
            /\ rows' = [rows EXCEPT ![<<e, worker[w].item>>] = ClaimRow(@, w)]
            /\ doubt' = [doubt EXCEPT ![<<e, worker[w].item>>]
                                    = DoubtAfterClaim(<<e, worker[w].item>>)]
      BY <2>6 DEF Claim
    <3>2. CASE p # <<e, worker[w].item>>
      BY <1>1, <2>2, <2>4, <3>1, <3>2
    <3>3. CASE p = <<e, worker[w].item>>
      <4>1. doubt'[p] = DoubtAfterClaim(p)
        BY <2>2, <3>1, <3>3 DEF TypeInv, TypeOK
      <4>2. "taken_over" \in DoubtAfterClaim(p)
        BY <2>1 DEF DoubtAfterClaim, Delivering
      <4> QED BY <2>2, <4>1, <4>2 DEF Dealt
    <3> QED BY <3>2, <3>3
  <2>7. CASE RecordSuccess(w)
    BY <1>1, <2>2, <2>3, <2>4, <2>7 DEF RecordSuccess, FinalizeRow
  <2>8. CASE GuardClaim(w) \/ Send(w) \/ Fault(w)
    BY <2>4, <2>8 DEF GuardClaim, Send, Fault
  <2> QED BY <1>4, <2>5, <2>6, <2>7, <2>8, QuietSteps DEF CheckFeed
<1>5. ASSUME CheckFeed(v) \/ Fault(v)
      PROVE  Owns(rows'[Post(worker'[v])], v) \/ Post(worker'[v]) \in Dealt'
  <2> DEFINE j == worker[v]
  <2>1. j \in Worker /\ LocalsSet(j)
    BY DEF TypeInv, TypeOK
  <2>2. ASSUME NEW k, Becomes(v, k) PROVE worker'[v] = k
    BY <1>1, <2>2 DEF Becomes
  <2>3. CASE Quiet(v)
    <3>1. PICK k : Becomes(v, k) /\ k.pc \notin Delivering
      BY <2>3 DEF Quiet
    <3> QED BY <2>2, <3>1
  <2>4. CASE Claim(v)
    <3> DEFINE next(e) == [Goto(j, "prepare") EXCEPT !.echo = e]
    <3>1. PICK e \in j.left :
            rows' = [rows EXCEPT ![<<e, j.item>>] = ClaimRow(@, v)] /\ Becomes(v, next(e))
      BY <2>4 DEF Claim
    <3>2. Post(next(e)) = <<e, j.item>>
      BY <2>1 DEF Goto, Worker, Post
    <3>3. <<e, j.item>> \in Posts
      BY <2>1, <2>4 DEF Claim, LocalsSet, Worker, Posts
    <3>4. Owns(rows'[<<e, j.item>>], v)
      BY <1>1, <3>1, <3>3 DEF ClaimRow, Owns, Row
    <3> HIDE DEF next
    <3> QED BY <2>2, <3>1, <3>2, <3>4
  <2>5. CASE Send(v) \/ (GuardClaim(v) /\ Owns(rows[p], v))
    <3>1. rows' = rows /\ j.pc \in Delivering
      BY <2>5 DEF Send, GuardClaim, Delivering
    <3>2. ASSUME NEW a, Becomes(v, [Goto(j, "record") EXCEPT !.outcome = a])
          PROVE  Post(worker'[v]) = p
      BY <2>1, <2>2, <3>2 DEF Goto, Worker, Post
    <3>3. ASSUME Becomes(v, Goto(j, "send")) PROVE Post(worker'[v]) = p
      BY <2>1, <2>2, <3>3 DEF Goto, Worker, Post
    <3>4. Post(worker'[v]) = p
      BY <2>5, <3>2, <3>3 DEF Send, GuardClaim
    <3> QED BY <1>3, <3>1, <3>4
  <2>6. CASE RecordSuccess(v) \/ (GuardClaim(v) /\ ~ Owns(rows[p], v))
    <3>1. /\ j.echo \in Echoes /\ j.item \in Items
          /\ j.phase # "sweep" => j.todo # <<>>
      BY <2>1, <2>6 DEF RecordSuccess, GuardClaim, LocalsSet
    <3>2. Owns(rows[p], v) \in BOOLEAN
      BY DEF Owns
    <3>3. PICK result \in BOOLEAN : Becomes(v, EchoDone(j, j.echo, result))
      BY <2>6, <3>2 DEF RecordSuccess, GuardClaim
    <3>4. EchoDone(j, j.echo, result).pc \notin Delivering
      BY <2>1, <3>1, EchoDoneGood
    <3> QED BY <2>2, <3>3, <3>4
  <2>7. CASE Fault(v)
    <3>1. PICK step \in {"idle", "release"} : Becomes(v, Goto(Idle, step))
      BY <2>7 DEF Fault
    <3>2. Goto(Idle, step).pc = step
      BY IdleGoto DEF Steps
    <3> QED BY <2>2, <3>1, <3>2 DEF Delivering
  <2> QED BY <1>5, <2>3, <2>4, <2>5, <2>6, <2>7, QuietSteps DEF CheckFeed
<1>6. CASE Tick \/ Operator \/ (\E u \in Urls : Publish(u)) \/ UNCHANGED vars
  <2>1. worker' = worker
    BY <1>6 DEF Tick, Operator, PauseFeed, DeleteFeed, InitFeed, ToggleEcho, EditFeed,
                RetryPost, GiveUpPost, Publish, vars
  <2>2. p \in Posts
    BY <1>2, <2>1
  <2> SUFFICES ASSUME Owns(rows[p], v) PROVE Owns(rows'[p], v)
    BY <1>3, <2>1
  <2>3. CASE Tick
    BY <1>1, <2>2, <2>3 DEF Tick, AgeRow, Row, Owns
  <2>4. ASSUME NEW q \in Posts, RetryPost(q) \/ GiveUpPost(q) PROVE Owns(rows'[p], v)
    BY <1>1, <2>2, <2>4 DEF RetryPost, GiveUpPost, Owns
  <2>5. CASE \/ PauseFeed \/ DeleteFeed \/ InitFeed \/ (\E u \in Urls : Publish(u))
             \/ (\E e \in Echoes : ToggleEcho(e)) \/ (\E u \in Urls : EditFeed(u))
             \/ UNCHANGED vars
    BY <2>5 DEF PauseFeed, DeleteFeed, InitFeed, Publish, ToggleEcho, EditFeed, vars
  <2> QED BY <1>6, <2>3, <2>4, <2>5 DEF Operator
<1> QED BY <1>4, <1>5, <1>6 DEF Next

\* The posts whose work ends with a good result were dealt with.
LEMMA EchoDeals ==
  ASSUME TypeInv, GuardInv, FilteredInv, Dealt \subseteq Dealt', NEW w \in Workers, EchoAction(w)
  PROVE  EchoStep(w, Dealt')
<1> DEFINE j == worker[w]
           p == Post(j)
<1>1. /\ j \in Worker /\ LocalsSet(j) /\ rows \in [Posts -> Row]
  BY DEF TypeInv, TypeOK
<1>2. ASSUME NEW e \in Echoes, NEW result \in BOOLEAN, Becomes(w, EchoDone(j, e, result)),
             result => <<e, j.item>> \in Dealt'
      PROVE  EchoStep(w, Dealt')
  BY <1>2 DEF EchoStep
<1>3. CASE FilterItem(w)
  <2>1. PICK e \in j.left : /\ <<e, j.item>> \in Filtered
                            /\ rows' = [rows EXCEPT ![<<e, j.item>>] = FilterRow(@)]
                            /\ Becomes(w, EchoDone(j, e, TRUE))
    BY <1>3 DEF FilterItem
  <2>2. <<e, j.item>> \in Posts /\ e \in Echoes
    BY <1>1, <2>1, FlagAssumption DEF Worker
  <2>3. rows'[<<e, j.item>>].status = "filtered"
    BY <1>1, <2>1, <2>2 DEF FilteredInv, FilterRow, Row
  <2> QED BY <1>2, <2>1, <2>2, <2>3 DEF Dealt, Handled
<1>4. CASE SkipUnclaimable(w)
  <2>1. PICK e \in j.left : Becomes(w, EchoDone(j, e, rows[<<e, j.item>>].status \in Handled))
    BY <1>4 DEF SkipUnclaimable
  <2>2. e \in Echoes /\ <<e, j.item>> \in Posts
    BY <1>1, <1>4 DEF SkipUnclaimable, LocalsSet, Worker, Posts
  <2>3. (rows[<<e, j.item>>].status \in Handled) \in BOOLEAN
    OBVIOUS
  <2>4. rows[<<e, j.item>>].status \in Handled => <<e, j.item>> \in Dealt'
    BY <2>2 DEF Dealt
  <2> QED BY <1>2, <2>1, <2>2, <2>3, <2>4
<1>5. ASSUME j.pc \in Delivering
      PROVE  /\ j.echo \in Echoes /\ p \in Posts /\ p = <<j.echo, j.item>>
             /\ Owns(rows[p], w) \/ p \in Dealt'
  BY <1>1, <1>5 DEF LocalsSet, Delivering, Post, Posts, GuardInv
<1>6. ASSUME NEW permanent \in BOOLEAN, FailPost(w, permanent), j.pc \in Delivering
      PROVE  EchoStep(w, Dealt')
  <2>1. /\ rows' = [rows EXCEPT ![p] = FailRow(@, w, permanent)]
        /\ Becomes(w, EchoDone(j, j.echo, FailureStatus(rows[p], permanent) = "gave_up"))
    BY <1>6 DEF FailPost
  <2>2. (FailureStatus(rows[p], permanent) = "gave_up") \in BOOLEAN
    OBVIOUS
  <2>3. Owns(rows[p], w) /\ FailureStatus(rows[p], permanent) = "gave_up"
          => rows'[p].status = "gave_up"
    BY <1>1, <1>5, <1>6, <2>1 DEF FailRow, Row
  <2>4. FailureStatus(rows[p], permanent) = "gave_up" => p \in Dealt'
    BY <1>5, <1>6, <2>3 DEF Dealt, Handled
  <2> QED BY <1>2, <1>5, <1>6, <2>1, <2>2, <2>4
<1>7. CASE PreparationFails(w) \/ RecordFailure(w)
  BY <1>6, <1>7 DEF PreparationFails, RecordFailure, Delivering
<1>8. CASE GuardClaim(w) /\ ~ Owns(rows[p], w)
  <2>1. Becomes(w, EchoDone(j, j.echo, FALSE)) /\ j.pc \in Delivering
    BY <1>8 DEF GuardClaim, Delivering
  <2> QED BY <1>2, <1>5, <2>1
<1>9. CASE RecordSuccess(w)
  <2>1. /\ rows' = [rows EXCEPT ![p] = FinalizeRow(@, w, "success")]
        /\ Becomes(w, EchoDone(j, j.echo, Owns(rows[p], w))) /\ j.pc \in Delivering
    BY <1>9 DEF RecordSuccess, Delivering
  <2>2. Owns(rows[p], w) \in BOOLEAN
    BY DEF Owns
  <2>3. Owns(rows[p], w) => rows'[p].status = "success"
    BY <1>1, <1>5, <2>1 DEF FinalizeRow, Row
  <2>4. Owns(rows[p], w) => p \in Dealt'
    BY <1>5, <2>1, <2>3 DEF Dealt, Handled
  <2> QED BY <1>2, <1>5, <2>1, <2>2, <2>4
<1> QED BY <1>3, <1>4, <1>7, <1>8, <1>9 DEF EchoAction

\* Whatever the results, the work ends.
LEMMA EchoEnds ==
  ASSUME TypeInv, NEW w \in Workers, EchoAction(w)
  PROVE  EchoStep(w, Posts)
<1> DEFINE j == worker[w]
<1>1. j \in Worker /\ LocalsSet(j)
  BY DEF TypeInv, TypeOK
<1>2. ASSUME NEW e \in Echoes, NEW result \in BOOLEAN, Becomes(w, EchoDone(j, e, result)),
             j.pc \in AtItem
      PROVE  EchoStep(w, Posts)
  BY <1>1, <1>2 DEF EchoStep, LocalsSet, AtItem, Posts
<1>3. ASSUME FilterItem(w) \/ SkipUnclaimable(w) PROVE EchoStep(w, Posts)
  <2>1. \A r : (r \in Handled) \in BOOLEAN
    OBVIOUS
  <2>2. j.left \subseteq Echoes /\ j.pc \in AtItem
    BY <1>1, <1>3 DEF FilterItem, SkipUnclaimable, Worker, AtItem
  <2>3. \E e \in j.left, result \in BOOLEAN : Becomes(w, EchoDone(j, e, result))
    BY <1>3, <2>1 DEF FilterItem, SkipUnclaimable
  <2> QED BY <1>2, <2>2, <2>3
<1>4. ASSUME \/ PreparationFails(w) \/ RecordFailure(w) \/ RecordSuccess(w)
             \/ (GuardClaim(w) /\ ~ Owns(rows[Post(j)], w))
      PROVE  EchoStep(w, Posts)
  <2>1. /\ Owns(rows[Post(j)], w) \in BOOLEAN
        /\ \A permanent \in BOOLEAN : (FailureStatus(rows[Post(j)], permanent) = "gave_up") \in BOOLEAN
    BY DEF Owns
  <2>2. j.pc \in {"prepare", "record"}
    BY <1>4 DEF PreparationFails, RecordFailure, RecordSuccess, GuardClaim
  <2>3. \E result \in BOOLEAN : Becomes(w, EchoDone(j, j.echo, result))
    BY <1>4, <2>1 DEF PreparationFails, RecordFailure, FailPost, RecordSuccess, GuardClaim
  <2> QED BY <1>1, <1>2, <2>2, <2>3 DEF LocalsSet, AtItem
<1> QED BY <1>3, <1>4 DEF EchoAction

-----------------------------------------------------------------------------
(* The theorems.                                                           *)

\* Only _update_cursor ends the wait at the cursor with a sweep.
LEMMA WrittenBy ==
  ASSUME TypeInv, Next, NEW w \in Workers, CursorWritten(w)
  PROVE  UpdateCursor(w)
<1>1. worker \in [Workers -> Worker] /\ worker[w].pc = "cursor" /\ worker'[w].pc = "due"
  BY DEF CursorWritten, TypeInv, TypeOK
<1>2. worker' # worker
  BY <1>1
<1>3. PICK v \in Workers : CheckFeed(v) \/ Fault(v)
  BY <1>2 DEF Next, Tick, Operator, PauseFeed, DeleteFeed, InitFeed, ToggleEcho, EditFeed,
              RetryPost, GiveUpPost, Publish
<1>4. v = w
  BY <1>1, <1>3 DEF CheckFeed, Fault, Acquire, ReadFeed, FetchFails, FetchNotModified,
     FetchBody, SaveValidators, InitializeCursor, Renew, FilterItem, Claim, SkipUnclaimable,
     PreparationFails, RecordFailure, FailPost, GuardClaim, Send, RecordSuccess,
     UpdateCursor, FindDue, Refetch, RefetchFails, SweepAbandons, SweepRetries, SweepEnds,
     Release, Becomes
<1>5. ~ Fault(w)
  <2>1. ASSUME NEW step \in {"idle", "release"}, Becomes(w, Goto(Idle, step)) PROVE FALSE
    <3>1. worker'[w].pc = step
      BY <1>1, <2>1, IdleGoto DEF Becomes, Steps
    <3> QED BY <1>1, <3>1
  <2> QED BY <2>1 DEF Fault
<1> QED BY <1>1, <1>3, <1>4, <1>5 DEF CheckFeed, Acquire, ReadFeed, FetchFails,
     FetchNotModified, FetchBody, SaveValidators, InitializeCursor, Renew, FilterItem, Claim,
     SkipUnclaimable, PreparationFails, RecordFailure, GuardClaim, Send,
     RecordSuccess, FindDue, Refetch, RefetchFails, SweepAbandons, SweepRetries, SweepEnds,
     Release

\* What _update_cursor writes, and what lies behind it.
LEMMA WritesMark ==
  ASSUME TypeInv, NEW D, CursorInv(D), Next, NEW w \in Workers, CursorWritten(w)
  PROVE  /\ feed.lease = w /\ feed'.cursor = worker[w].mark
         /\ worker[w].mark \in Listed(New(worker[w])) /\ Passed(worker[w]) \subseteq D
<1> DEFINE j == worker[w]
<1>1. UpdateCursor(w) /\ feed'.cursor # feed.cursor /\ j.pc = "cursor"
  BY WrittenBy DEF CursorWritten
<1>2. feed \in Feed
  BY DEF TypeInv, TypeOK
<1>3. j.mark # j.cursor /\ feed' = Fenced(w, [feed EXCEPT !.cursor = j.mark])
  BY <1>1 DEF UpdateCursor
<1>4. feed.lease = w /\ feed'.cursor = j.mark
  BY <1>1, <1>2, <1>3 DEF Fenced, Feed
<1>5. MarkOK(D, j)
  BY <1>1 DEF CursorInv, CursorOK
<1> QED BY <1>3, <1>4, <1>5 DEF MarkOK

LEMMA ProgressInvariance ==
  ASSUME "retry" \notin Routes
  PROVE  Spec => [](FilteredInv /\ GuardInv /\ DocInv /\ CursorInv(Dealt))
<1> DEFINE Inv == FilteredInv /\ GuardInv /\ DocInv /\ CursorInv(Dealt)
<1>1. Init => Inv
  <2> SUFFICES ASSUME Init PROVE Inv
    OBVIOUS
  <2>1. FilteredInv
    BY FlagAssumption DEF Init, FilteredInv, Absent
  <2>2. GuardInv
    BY DEF Init, GuardInv, Idle, Delivering
  <2> QED BY <2>1, <2>2, CursorInit
<1>2. TypeInv /\ Inv /\ [Next]_vars => Inv'
  <2> SUFFICES ASSUME TypeInv, Inv, [Next]_vars PROVE Inv'
    OBVIOUS
  <2>1. Dealt \subseteq Dealt'
    BY DealtGrows
  <2>2. \A w \in Workers : EchoAction(w) => EchoStep(w, Dealt')
    BY <2>1, EchoDeals
  <2>3. DocInv' /\ \A v \in Workers : CursorOK(Dealt', worker'[v])
    BY <2>1, <2>2, CursorStep
  <2>4. CursorInv(Dealt)'
    BY <2>3 DEF CursorInv
  <2> QED BY <2>3, <2>4, FilteredStep, GuardStep
<1> QED BY <1>1, <1>2, TypeInvariance, PTL DEF Spec

\* The cursor passes a post only when it is handled for every echo, or its claim
\* was taken from a live worker: whatever fails, crashes or lapses, and however
\* often, no failed post is left behind the cursor.  The retry button reopens a
\* post behind the cursor by design.
THEOREM CursorLeavesNothingBehind ==
  ASSUME "retry" \notin Routes
  PROVE  Spec => CursorPassesHandledOrTakenOver
<1>1. TypeInv /\ CursorInv(Dealt) /\ [Next]_vars
        => [\A w \in Workers : CursorWritten(w) =>
              \A p \in Passed(worker[w]) :
                 rows[p].status \in Handled \/ "taken_over" \in doubt[p]]_vars
  BY WritesMark DEF Dealt
<1> QED BY <1>1, TypeInvariance, ProgressInvariance, PTL DEF Spec, CursorPassesHandledOrTakenOver

\* A worker without rivals takes no claim from anybody.
NoneTakenOver == \A p \in Posts : "taken_over" \notin doubt[p]

LEMMA NoneTakenOverStep ==
  ASSUME TypeInv, NoneTakenOver, [Next]_vars, \A v, w \in Workers : v = w
  PROVE  NoneTakenOver'
<1>1. doubt \in [Posts -> SUBSET {"taken_over", "unsure"}]
  BY DEF TypeInv, TypeOK
<1>2. ASSUME doubt' = doubt PROVE NoneTakenOver'
  BY <1>2 DEF NoneTakenOver
<1>3. ASSUME NEW w \in Workers, CheckFeed(w) \/ Fault(w) PROVE NoneTakenOver'
  <2>1. CASE Quiet(w)
    BY <1>2, <2>1 DEF Quiet
  <2>2. CASE Claim(w)
    <3>1. PICK e \in worker[w].left :
            doubt' = [doubt EXCEPT ![<<e, worker[w].item>>]
                                    = DoubtAfterClaim(<<e, worker[w].item>>)]
      BY <2>2 DEF Claim
    <3>2. \A v \in Workers : worker[v].pc = "claim"
      BY <2>2 DEF Claim
    <3>3. ASSUME NEW p \in Posts PROVE "taken_over" \notin DoubtAfterClaim(p)
      BY <3>2 DEF DoubtAfterClaim, NoneTakenOver
    <3> QED BY <1>1, <3>1, <3>3 DEF NoneTakenOver
  <2>3. CASE Send(w) \/ Fault(w)
    <3>1. \A p \in Posts : doubt'[p] \subseteq doubt[p] \cup {"unsure"}
      BY <1>1, <2>3 DEF Send, Fault
    <3> QED BY <3>1 DEF NoneTakenOver
  <2>4. CASE GuardClaim(w) \/ RecordSuccess(w)
    BY <1>2, <2>4 DEF GuardClaim, RecordSuccess
  <2> QED BY <1>3, <2>1, <2>2, <2>3, <2>4, QuietSteps DEF CheckFeed
<1>4. CASE Tick \/ Operator \/ (\E u \in Urls : Publish(u)) \/ UNCHANGED vars
  BY <1>2, <1>4 DEF Tick, Operator, PauseFeed, DeleteFeed, InitFeed, ToggleEcho, EditFeed,
                    RetryPost, GiveUpPost, Publish, vars
<1> QED BY <1>3, <1>4 DEF Next

\* H-2 as it is written: when one check at a time delivers, the cursor never
\* passes a post that is not handled for every echo, whatever fails or crashes.
THEOREM CursorNeverPassesFailure ==
  ASSUME "retry" \notin Routes, \A v, w \in Workers : v = w
  PROVE  Spec => CursorPassesOnlyHandled
<1>1. Init => NoneTakenOver
  BY DEF Init, NoneTakenOver
<1>2. TypeInv /\ NoneTakenOver /\ [Next]_vars => NoneTakenOver'
  BY NoneTakenOverStep
<1>3. TypeInv /\ CursorInv(Dealt) /\ NoneTakenOver /\ [Next]_vars
        => [\A w \in Workers : CursorWritten(w) =>
              \A p \in Passed(worker[w]) : rows[p].status \in Handled]_vars
  BY WritesMark DEF Dealt, NoneTakenOver
<1> QED BY <1>1, <1>2, <1>3, TypeInvariance, ProgressInvariance, PTL
        DEF Spec, CursorPassesOnlyHandled

-----------------------------------------------------------------------------
(* A cursor is not put back.                                               *)

\* The part of a check that rests on the cursor it read.
FreshOf(j) == /\ j.pc \in AtItem \cup {"fetch", "save", "init", "renew", "cursor"}
              /\ j.phase # "sweep"

\* The holder of the lease has read the cursor that is stored, or an edit of the
\* feed has cleared it since.
FreshInv ==
  \A w \in Workers :
     feed.lease = w /\ FreshOf(worker[w]) => feed.cursor \in {worker[w].cursor, Null}

\* One worker moves: it may change the cursor only while it holds the lease.
LEMMA FreshMoves ==
  ASSUME TypeInv, FreshInv, NEW w \in Workers, NEW k, Becomes(w, k),
         feed'.lease \in {feed.lease, w, Null},
         feed'.cursor = feed.cursor \/ feed.lease = w,
         feed'.lease = w /\ FreshOf(k) => feed'.cursor \in {k.cursor, Null}
  PROVE  FreshInv'
<1>1. worker'[w] = k /\ \A v \in Workers : v # w => worker'[v] = worker[v]
  BY DEF Becomes, TypeInv, TypeOK
<1> SUFFICES ASSUME NEW v \in Workers, feed'.lease = v, FreshOf(worker'[v])
             PROVE  feed'.cursor \in {worker'[v].cursor, Null}
  BY DEF FreshInv, FreshOf
<1>2. CASE v = w
  BY <1>1, <1>2
<1>3. CASE v # w
  <2>1. feed.lease = v /\ feed'.cursor = feed.cursor /\ worker'[v] = worker[v]
    BY <1>1, <1>3, NullAssumption
  <2> QED BY <2>1 DEF FreshInv
<1> QED BY <1>2, <1>3

LEMMA FreshCheck ==
  ASSUME TypeInv, DocInv, CursorInv(Posts), FreshInv, NEW w \in Workers,
         CheckFeed(w) \/ Fault(w)
  PROVE  FreshInv'
<1> DEFINE j == worker[w]
<1>1. j \in Worker /\ LocalsSet(j) /\ CursorOK(Posts, j) /\ feed \in Feed
  BY DEF TypeInv, TypeOK, CursorInv
\* The worker leaves the part of a check that rests on the cursor.
<1>2. ASSUME NEW k, Becomes(w, k), ~ FreshOf(k), feed'.lease \in {feed.lease, w, Null},
             feed'.cursor = feed.cursor \/ feed.lease = w
      PROVE  FreshInv'
  BY <1>2, FreshMoves
\* The worker keeps its cursor.
<1>3. ASSUME NEW k, Becomes(w, k), feed'.lease = feed.lease, feed'.cursor = feed.cursor,
             k.cursor = j.cursor, FreshOf(k) => FreshOf(j)
      PROVE  FreshInv'
  BY <1>3, FreshMoves DEF FreshInv
<1>4. ASSUME NEW step \in Steps, step \in {"idle", "read", "release", "due", "refetch"}
      PROVE  ~ FreshOf(Goto(Idle, step))
  BY <1>4, IdleGoto DEF FreshOf, AtItem
<1>5. CASE Acquire(w)
  <2>1. Becomes(w, Goto(Idle, "read")) /\ feed'.lease = w /\ feed'.cursor = feed.cursor
    BY <1>1, <1>5 DEF Acquire, Feed
  <2> QED BY <1>2, <1>4, <2>1 DEF Steps
<1>6. CASE ReadFeed(w)
  <2> DEFINE next == [Goto(Idle, "fetch") EXCEPT !.url = feed.url, !.cursor = feed.cursor,
                                                 !.mark = feed.cursor, !.etag = feed.etag,
                                                 !.echoes = enabled]
  <2>1. (Becomes(w, Goto(Idle, "release")) \/ Becomes(w, next)) /\ feed' = feed
    BY <1>6 DEF ReadFeed
  <2>2. next.cursor = feed.cursor
    BY DEF Goto, Idle
  <2> HIDE DEF next
  <2> QED BY <1>2, <1>4, <2>1, <2>2, FreshMoves DEF Steps
<1>7. CASE FetchFails(w) \/ RefetchFails(w) \/ SweepEnds(w)
  BY <1>2, <1>4, <1>7 DEF FetchFails, RefetchFails, SweepEnds, Steps
<1>8. CASE FetchNotModified(w) \/ InitializeCursor(w)
  <2>1. Becomes(w, Goto(Idle, "release"))
    BY <1>8 DEF FetchNotModified, InitializeCursor
  <2>2. feed'.lease = feed.lease /\ (feed'.cursor = feed.cursor \/ feed.lease = w)
    BY <1>1, <1>8 DEF FetchNotModified, InitializeCursor, Fenced, Feed
  <2> QED BY <1>2, <1>4, <2>1, <2>2 DEF Steps
<1>9. CASE FetchBody(w)
  <2> DEFINE next == [Goto(j, "save") EXCEPT !.items = origin[j.url],
                                             !.url = Null, !.etag = Null]
  <2>1. Becomes(w, next) /\ feed' = feed /\ j.pc = "fetch"
    BY <1>9 DEF FetchBody
  <2>2. next.cursor = j.cursor /\ next.phase = j.phase
    BY <1>1 DEF Goto, Worker
  <2> HIDE DEF next
  <2> QED BY <1>3, <2>1, <2>2 DEF FreshOf
<1>10. CASE SaveValidators(w)
  <2>1. PICK k \in {Goto(Idle, "release"), Goto(j, "init"), BeginNew(j)} : Becomes(w, k)
    BY <1>10 DEF SaveValidators
  <2>2. feed'.lease = feed.lease /\ feed'.cursor = feed.cursor
    BY <1>1, <1>10 DEF SaveValidators, Fenced, Feed
  <2>3. j.phase # "sweep" /\ j.mark = j.cursor /\ FreshOf(j)
    BY <1>1, <1>10 DEF SaveValidators, CursorOK, FreshOf
  <2>4. BeginNew(j).cursor = j.cursor /\ Goto(j, "init").cursor = j.cursor
    BY <1>1, <2>3, BeginNewCursor DEF Follows, Goto, Worker
  <2> QED BY <1>2, <1>3, <1>4, <2>1, <2>2, <2>3, <2>4 DEF Steps
<1>11. CASE Renew(w)
  <2> DEFINE next == [Goto(j, "claim") EXCEPT !.item = Head(j.todo), !.left = j.echoes]
  <2>1. Becomes(w, Goto(Idle, "release")) \/ Becomes(w, next)
    BY <1>11 DEF Renew
  <2>2. feed'.lease = feed.lease /\ feed'.cursor = feed.cursor /\ j.pc = "renew"
    BY <1>1, <1>11 DEF Renew, Fenced, Feed
  <2>3. next.cursor = j.cursor /\ next.phase = j.phase
    BY <1>1 DEF Goto, Worker
  <2> HIDE DEF next
  <2> QED BY <1>2, <1>3, <1>4, <2>1, <2>2, <2>3 DEF FreshOf, Steps
<1>12. CASE EchoAction(w)
  <2>1. PICK e \in Echoes, result \in BOOLEAN : Becomes(w, EchoDone(j, e, result))
    BY <1>12, EchoEnds DEF EchoStep
  <2>2. feed' = feed /\ j.pc \in AtItem
    BY <1>12 DEF EchoAction, FilterItem, SkipUnclaimable, PreparationFails, FailPost, GuardClaim,
                 RecordSuccess, RecordFailure, AtItem
  <2>3. Follows(j, EchoDone(j, e, result))
    BY <1>1, <2>1, <2>2, EchoDoneCursor, AtItemWorking DEF LocalsSet, AtItem, Posts
  <2> QED BY <1>3, <2>1, <2>2, <2>3 DEF Follows, FreshOf
<1>13. CASE Claim(w)
  <2> DEFINE next(e) == [Goto(j, "prepare") EXCEPT !.echo = e]
  <2>1. PICK e \in j.left : Becomes(w, next(e))
    BY <1>13 DEF Claim
  <2>2. feed' = feed /\ j.pc \in AtItem
    BY <1>13 DEF Claim, AtItem
  <2>3. next(e).cursor = j.cursor /\ next(e).phase = j.phase
    BY <1>1 DEF Goto, Worker
  <2> HIDE DEF next
  <2> QED BY <1>3, <2>1, <2>2, <2>3 DEF FreshOf
<1>14. CASE GuardClaim(w) /\ ~ EchoAction(w)
  <2>1. Becomes(w, Goto(j, "send")) /\ feed' = feed /\ j.pc \in AtItem
    BY <1>14 DEF GuardClaim, EchoAction, AtItem
  <2>2. Goto(j, "send").cursor = j.cursor /\ Goto(j, "send").phase = j.phase
    BY <1>1 DEF Goto, Worker
  <2> QED BY <1>3, <2>1, <2>2 DEF FreshOf
<1>15. CASE Send(w)
  <2> DEFINE next(a) == [Goto(j, "record") EXCEPT !.outcome = a]
  <2>1. PICK a \in Outcomes \ {"none"} : Becomes(w, next(a))
    BY <1>15 DEF Send
  <2>2. feed' = feed /\ j.pc \in AtItem
    BY <1>15 DEF Send, AtItem
  <2>3. next(a).cursor = j.cursor /\ next(a).phase = j.phase
    BY <1>1 DEF Goto, Worker
  <2> HIDE DEF next
  <2> QED BY <1>3, <2>1, <2>2, <2>3 DEF FreshOf
<1>16. CASE UpdateCursor(w)
  <2> DEFINE next == [Goto(Idle, "due") EXCEPT !.echoes = j.echoes]
  <2>1. Becomes(w, next)
    BY <1>16 DEF UpdateCursor
  <2>2. feed'.lease = feed.lease /\ (feed'.cursor = feed.cursor \/ feed.lease = w)
    BY <1>1, <1>16 DEF UpdateCursor, Fenced, Feed
  <2>3. ~ FreshOf(next)
    <3>1. next.pc = "due"
      BY DEF Goto, Idle
    <3> QED BY <3>1 DEF FreshOf, AtItem
  <2> HIDE DEF next
  <2> QED BY <1>2, <2>1, <2>2, <2>3
<1>17. CASE FindDue(w)
  <2> DEFINE next(d) == [Goto(Idle, "refetch") EXCEPT !.due = d, !.phase = "sweep"]
  <2>1. (Becomes(w, Goto(Idle, "release")) \/ \E d : Becomes(w, next(d))) /\ feed' = feed
    BY <1>17 DEF FindDue
  <2>2. \A d : next(d).phase = "sweep"
    BY DEF Goto, Idle
  <2> HIDE DEF next
  <2> QED BY <1>2, <1>4, <2>1, <2>2 DEF FreshOf, Steps
<1>18. CASE Refetch(w)
  <2> DEFINE next == [Goto(j, "sweep") EXCEPT !.items = origin[feed.url]]
  <2>1. Becomes(w, next) /\ feed' = feed
    BY <1>18 DEF Refetch
  <2>2. next.pc = "sweep"
    BY <1>1 DEF Goto, Worker
  <2> HIDE DEF next
  <2> QED BY <1>2, <2>1, <2>2 DEF FreshOf, AtItem
<1>19. CASE SweepAbandons(w)
  <2> DEFINE next(p) == [j EXCEPT !.due = @ \ {p}]
  <2>1. PICK p \in j.due : Becomes(w, next(p)) /\ feed' = feed
    BY <1>19 DEF SweepAbandons
  <2>2. next(p).pc = "sweep"
    BY <1>1, <1>19 DEF SweepAbandons, Worker
  <2> HIDE DEF next
  <2> QED BY <1>2, <2>1, <2>2 DEF FreshOf, AtItem
<1>20. CASE SweepRetries(w)
  <2> DEFINE next(p) == [Goto(j, "claim") EXCEPT !.due = @ \ {p}, !.item = p[2],
                                                 !.left = {p[1]}]
  <2>1. PICK p \in j.due : Becomes(w, next(p)) /\ feed' = feed
    BY <1>20 DEF SweepRetries
  <2>2. next(p).phase = j.phase /\ j.phase = "sweep"
    BY <1>1, <1>20 DEF SweepRetries, LocalsSet, Goto, Worker
  <2> HIDE DEF next
  <2> QED BY <1>2, <2>1, <2>2 DEF FreshOf
<1>21. CASE Release(w)
  <2>1. Becomes(w, Idle) /\ ~ FreshOf(Idle)
    BY <1>21 DEF Release, FreshOf, Idle, AtItem
  <2>2. feed'.lease \in {feed.lease, Null} /\ feed'.cursor = feed.cursor
    BY <1>1, <1>21 DEF Release, Fenced, Feed
  <2> QED BY <1>2, <2>1, <2>2
<1>22. CASE Fault(w)
  <2>1. PICK step \in {"idle", "release"} : Becomes(w, Goto(Idle, step))
    BY <1>22 DEF Fault
  <2>2. feed' = feed
    BY <1>22 DEF Fault
  <2> QED BY <1>2, <1>4, <2>1, <2>2 DEF Steps
<1> QED BY <1>5, <1>6, <1>7, <1>8, <1>9, <1>10, <1>11, <1>12, <1>13, <1>14, <1>15, <1>16,
           <1>17, <1>18, <1>19, <1>20, <1>21, <1>22 DEF CheckFeed, EchoAction

\* The operator never fills in a cursor, unless init_feed is among the routes.
LEMMA FreshWorld ==
  ASSUME TypeInv, Tick \/ Operator \/ (\E u \in Urls : Publish(u)) \/ UNCHANGED vars,
         "init" \notin Routes
  PROVE  /\ worker' = worker /\ feed'.lease = feed.lease
         /\ feed'.cursor \in {feed.cursor, Null}
<1>1. feed \in Feed
  BY DEF TypeInv, TypeOK
<1>2. worker' = worker
  BY DEF Tick, Operator, PauseFeed, DeleteFeed, InitFeed, ToggleEcho, EditFeed, RetryPost,
         GiveUpPost, Publish, vars
<1>3. feed'.lease = feed.lease /\ feed'.cursor \in {feed.cursor, Null}
  BY <1>1 DEF Tick, Operator, PauseFeed, DeleteFeed, InitFeed, ToggleEcho, EditFeed, RetryPost,
              GiveUpPost, Publish, vars, Feed
<1> QED BY <1>2, <1>3

\* A cursor gives way only to an item that is listed as newer than it, in the
\* document of a worker that read this very cursor and still holds the lease: a
\* worker that was overtaken cannot put the cursor back.  init_feed can.
THEOREM CursorOnlyAdvances ==
  ASSUME "init" \notin Routes
  PROVE  Spec => CursorNeverMovesBack
<1> DEFINE Inv == DocInv /\ CursorInv(Posts) /\ FreshInv
<1>1. Init => Inv
  BY CursorInit DEF Init, FreshInv, FreshOf, Idle, AtItem
<1>2. TypeInv /\ Inv /\ [Next]_vars => Inv'
  <2> SUFFICES ASSUME TypeInv, Inv, [Next]_vars PROVE Inv'
    OBVIOUS
  <2>1. DocInv' /\ \A v \in Workers : CursorOK(Posts, worker'[v])
    BY CursorStep, EchoEnds
  <2>2. FreshInv'
    <3>1. CASE Tick \/ Operator \/ (\E u \in Urls : Publish(u)) \/ UNCHANGED vars
      BY <3>1, FreshWorld DEF FreshInv
    <3> QED BY <3>1, FreshCheck DEF Next
  <2> QED BY <2>1, <2>2 DEF CursorInv
<1>3. TypeInv /\ Inv /\ [Next]_vars
        => [feed.cursor # Null /\ feed'.cursor \notin {feed.cursor, Null} =>
              \E w \in Workers :
                 /\ CursorWritten(w)
                 /\ worker[w].cursor = feed.cursor
                 /\ feed'.cursor \in Listed(NewItems(worker[w].items, feed.cursor))]_vars
  <2> SUFFICES ASSUME TypeInv, Inv, Next, feed.cursor # Null,
                      feed'.cursor \notin {feed.cursor, Null}
               PROVE  \E w \in Workers :
                        /\ CursorWritten(w)
                        /\ worker[w].cursor = feed.cursor
                        /\ feed'.cursor \in Listed(NewItems(worker[w].items, feed.cursor))
    OBVIOUS
  <2>1. feed \in Feed /\ worker \in [Workers -> Worker]
    BY DEF TypeInv, TypeOK
  <2>2. PICK w \in Workers : CheckFeed(w) \/ Fault(w)
    BY FreshWorld DEF Next
  <2>3. UpdateCursor(w) \/ InitializeCursor(w)
    BY <2>1, <2>2 DEF CheckFeed, Fault, Acquire, ReadFeed, FetchFails, FetchNotModified,
       FetchBody, SaveValidators, Renew, FilterItem, Claim, SkipUnclaimable,
       PreparationFails, RecordFailure, FailPost, GuardClaim, Send, RecordSuccess,
       FindDue, Refetch, RefetchFails, SweepAbandons, SweepRetries, SweepEnds,
       Release, Fenced, Feed
  <2>4. feed.lease = w
    BY <2>3 DEF UpdateCursor, InitializeCursor, Fenced
  <2>5. worker[w].phase # "sweep" => worker[w].cursor = feed.cursor
    BY <2>3, <2>4 DEF UpdateCursor, InitializeCursor, FreshInv, FreshOf
  <2>6. ~ InitializeCursor(w)
    BY <2>3, <2>4, <2>5 DEF InitializeCursor, CursorInv, CursorOK
  <2>7. CursorWritten(w)
    <3> DEFINE next == [Goto(Idle, "due") EXCEPT !.echoes = worker[w].echoes]
    <3>1. next.pc = "due"
      BY DEF Goto, Idle
    <3>2. worker'[w] = next
      BY <2>1, <2>3, <2>6 DEF UpdateCursor, Becomes
    <3> QED BY <2>3, <2>6, <3>1, <3>2 DEF CursorWritten, UpdateCursor
  <2>8. worker[w].phase # "sweep"
    BY <2>7 DEF CursorWritten, CursorInv, CursorOK
  <2> QED BY <2>5, <2>7, <2>8, WritesMark DEF New
<1> QED BY <1>1, <1>2, <1>3, TypeInvariance, PTL DEF Spec, CursorNeverMovesBack
=============================================================================
