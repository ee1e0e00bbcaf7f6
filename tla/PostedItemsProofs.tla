-------------------------- MODULE PostedItemsProofs --------------------------
(***************************************************************************)
(* Every statement on posted_items leaves a well-formed row: the lemmas    *)
(* that the proofs about the state machines on this table share.           *)
(***************************************************************************)
EXTENDS PostedItems, TLAPS

LEMMA ClaimRowType ==
  ASSUME NEW r \in Row, NEW w \in Workers
  PROVE  ClaimRow(r, w) \in Row
<1>1. (IF r.attempts < AttemptBound THEN r.attempts + 1 ELSE r.attempts) \in 0..AttemptBound
  BY AttemptAssumption DEF Row
<1>2. ReclaimTicks \in Nat /\ "pending" \in Statuses
  BY ReclaimAssumption DEF Statuses
<1> QED BY <1>1, <1>2 DEF ClaimRow, Row

LEMMA FinalizeRowType ==
  ASSUME NEW r \in Row, NEW w \in Workers, NEW status \in Statuses
  PROVE  FinalizeRow(r, w, status) \in Row
BY DEF FinalizeRow, Row

LEMMA FailRowType ==
  ASSUME NEW r \in Row, NEW w \in Workers, NEW permanent \in BOOLEAN
  PROVE  FailRow(r, w, permanent) \in Row
<1>1. FailureStatus(r, permanent) \in Statuses
  BY DEF FailureStatus, Statuses
<1>2. Backoff[r.attempts] \in Nat
  BY BackoffAssumption DEF Row
<1> QED BY <1>1, <1>2 DEF FailRow, Row

LEMMA ButtonRowType ==
  ASSUME NEW r \in Row
  PROVE  /\ FilterRow(r) \in Row
         /\ AbandonRow(r) \in Row
         /\ RetryRow(r) \in Row
         /\ GiveUpRow(r) \in Row
<1>1. {"filtered", "gave_up", "failed"} \subseteq Statuses /\ 0 \in 0..AttemptBound
  BY AttemptAssumption DEF Statuses
<1>2. FilterRow(r) \in Row BY <1>1 DEF FilterRow, Row
<1>3. AbandonRow(r) \in Row BY <1>1 DEF AbandonRow, Row
<1>4. RetryRow(r) \in Row BY <1>1 DEF RetryRow, Row
<1>5. GiveUpRow(r) \in Row BY <1>1 DEF GiveUpRow, Row
<1> QED BY <1>2, <1>3, <1>4, <1>5

LEMMA AgeRowType ==
  ASSUME NEW r \in Row
  PROVE  AgeRow(r) \in Row
<1>1. \A n \in Nat : CountDown(n) \in Nat
  BY DEF CountDown
<1> QED BY <1>1 DEF AgeRow, Row

\* What a drip release does to its row.
LEMMA ReleaseRowType ==
  ASSUME NEW r \in Row, NEW w \in Workers
  PROVE  /\ TakeQueuedRow(r, w) \in Row
         /\ RequeueRow(r) \in Row
         /\ DropRow(r) \in Row
         /\ ReturnRow(r, w) \in Row
         /\ DiscardRow(r) \in Row
<1>1. {"pending", "queued", "gave_up"} \subseteq Statuses /\ ReclaimTicks \in Nat
  BY ReclaimAssumption DEF Statuses
<1>2. TakeQueuedRow(r, w) \in Row BY <1>1 DEF TakeQueuedRow, Row
<1>3. RequeueRow(r) \in Row BY <1>1 DEF RequeueRow, Row
<1>4. DropRow(r) \in Row BY <1>1 DEF DropRow, Row
<1>5. ReturnRow(r, w) \in Row BY <1>1 DEF ReturnRow, Row
<1>6. DiscardRow(r) \in Row BY <1>4 DEF DiscardRow
<1> QED BY <1>2, <1>3, <1>4, <1>5, <1>6

\* What becomes of the status of a row: only FinalizeRow writes "success" or "queued".
LEMMA RowFate ==
  ASSUME NEW r, NEW w
  PROVE  /\ FailRow(r, w, FALSE).status \in {r.status, "failed", "gave_up"}
         /\ AgeRow(r).status = r.status /\ AgeRow(r).token = r.token
BY DEF FailRow, FailureStatus, AgeRow
=============================================================================
