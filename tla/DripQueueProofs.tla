--------------------------- MODULE DripQueueProofs ---------------------------
(***************************************************************************)
(* What holds of DripQueue for any number of items, feed checks, flushes,  *)
(* processes and faults: every variable keeps its type; where one process  *)
(* runs everything and the echo is not disabled, no held item loses the    *)
(* payload it is to be released from, and neither the hourly cap nor the   *)
(* cap of the queue is exceeded; and where attempts are not limited, a     *)
(* delivered item stays delivered.                                         *)
(***************************************************************************)
EXTENDS DripQueue, PostedItemsProofs, FiniteSetTheorems

-----------------------------------------------------------------------------
(* Types.                                                                  *)

Resting == {"idle", "next"}

\* Away from these steps a worker has an item.
GoodWorker(j) == j \in Worker /\ (j.pc \notin Resting => j.item \in Items)

TypeInv == TypeOK /\ \A w \in Workers : GoodWorker(worker[w])

LEMMA RestGood == Rest \in Worker /\ GoodWorker(Rest) /\ Rest.pc = "idle" /\ Rest.open
<1>1. {} \in SUBSET (Items \X (0..AttemptBound))
  OBVIOUS
<1>2. 0 \in 0..AttemptBound /\ 0 \in 0..DowngradeBatch
  BY AttemptAssumption, DripBoundAssumption
<1>3. Rest \in Worker /\ Rest.pc = "idle" /\ Rest.open
  BY <1>1, <1>2 DEF Rest, Worker, Steps
<1> QED BY <1>3 DEF GoodWorker, Resting

\* The worker that is done with its item.
Freed(j) == [j EXCEPT !.pc = "next", !.item = Null, !.tries = 0]

LEMMA FreedGood ==
  ASSUME NEW j \in Worker
  PROVE  Freed(j) \in Worker /\ GoodWorker(Freed(j)) /\ Freed(j).pc = "next" /\ Freed(j).open = j.open
<1>1. 0 \in 0..AttemptBound
  BY AttemptAssumption
<1>2. Freed(j) \in Worker /\ Freed(j).pc = "next" /\ Freed(j).open = j.open
  BY <1>1 DEF Freed, Worker, Steps
<1> QED BY <1>2 DEF GoodWorker, Resting

\* The worker that goes on to another step with its item.
Moved(j, step) == [j EXCEPT !.pc = step]

LEMMA MovedGood ==
  ASSUME NEW j \in Worker, NEW step \in Steps, step \notin Resting => j.item \in Items
  PROVE  /\ Moved(j, step) \in Worker /\ GoodWorker(Moved(j, step))
         /\ Moved(j, step).pc = step
         /\ Moved(j, step).item = j.item /\ Moved(j, step).open = j.open
BY DEF Moved, Worker, GoodWorker

LEMMA NewEntryType ==
  ASSUME NEW n \in 0..AttemptBound
  PROVE  NewEntry(n) \in Entry
BY DEF NewEntry, Entry

LEMMA UpsertedType ==
  ASSUME TypeInv, NEW i \in Items, NEW n \in 0..AttemptBound
  PROVE  /\ Upserted(i, n) \in [Items -> Entry \cup {Null}]
         /\ \A k \in Items : queue[k] # Null => Upserted(i, n)[k] # Null
         /\ Upserted(i, n)[i] # Null
<1> DEFINE e == IF queue[i] = Null THEN NewEntry(n) ELSE [queue[i] EXCEPT !.tries = n]
<1>1. e \in Entry
  <2>1. queue[i] # Null => queue[i] \in Entry
    BY DEF TypeInv, TypeOK
  <2>2. queue[i] # Null => [queue[i] EXCEPT !.tries = n] \in Entry
    BY <2>1 DEF Entry
  <2> QED BY <2>2, NewEntryType
<1>2. Upserted(i, n) = [queue EXCEPT ![i] = e]
  BY DEF Upserted
<1> HIDE DEF e
<1> QED BY <1>1, <1>2, EntryAssumption DEF TypeInv, TypeOK

LEMMA WithoutType ==
  ASSUME TypeInv, NEW f, NEW i \in Items
  PROVE  Without(f, i) \in [Items -> Entry \cup {Null}]
BY DEF Without, TypeInv, TypeOK

LEMMA UnreadType ==
  ASSUME TypeInv, NEW fs
  PROVE  /\ Unread(queue, fs) \in [Items -> Entry \cup {Null}]
         /\ \A k \in Items : queue[k] # Null => Unread(queue, fs)[k] # Null
<1>1. \A k \in Items : queue[k] # Null => [queue[k] EXCEPT !.readers = @ \ fs] \in Entry
  BY DEF TypeInv, TypeOK, Entry
<1> QED BY <1>1, EntryAssumption DEF Unread, TypeInv, TypeOK

LEMMA NextTryType ==
  ASSUME TypeInv, NEW f \in Workers
  PROVE  NextTry(f) \in 0..AttemptBound
<1>1. worker[f].tries \in 0..AttemptBound
  BY DEF TypeInv, GoodWorker, Worker
<1> QED BY <1>1, AttemptAssumption DEF NextTry

LEMMA TypeInit == Init => TypeInv
<1> SUFFICES ASSUME Init PROVE TypeInv
  OBVIOUS
<1>1. Absent \in Row
  BY AttemptAssumption DEF Absent, Row, Statuses
<1>2. 0 \in 0..WindowTicks /\ 0 \in 0..MaxFaults
  BY DripBoundAssumption
<1> QED BY <1>1, <1>2, RestGood DEF Init, TypeInv, TypeOK

\* What a step that moves one worker has to leave behind.
LEMMA WorkerStepType ==
  ASSUME TypeInv, NEW w \in Workers, NEW j, GoodWorker(j), Becomes(w, j),
         rows' \in [Items -> Row], recent' \in [Items -> 0..WindowTicks],
         queue' \in [Items -> Entry \cup {Null}],
         lock' \in [Processes -> Workers \cup {Null}],
         UNCHANGED <<echo, passed, faults>>
  PROVE  TypeInv'
<1>1. worker' = [worker EXCEPT ![w] = j] /\ worker \in [Workers -> Worker]
  BY DEF Becomes, TypeInv, TypeOK
<1>2. j \in Worker
  BY DEF GoodWorker
<1>3. worker' \in [Workers -> Worker]
  BY <1>1, <1>2
<1>4. \A v \in Workers : GoodWorker(worker'[v])
  BY <1>1 DEF TypeInv
<1> QED BY <1>3, <1>4 DEF TypeInv, TypeOK

LEMMA LeaveType ==
  ASSUME TypeInv, NEW w \in Workers, Leave(w)
  PROVE  lock' \in [Processes -> Workers \cup {Null}]
BY DEF TypeInv, TypeOK, Leave

\* The ways in which a worker goes on: to its next item, to its next step, or
\* as the sender's caller has it.
LEMMA DoneType ==
  ASSUME TypeInv, NEW w \in Workers, Done(w),
         rows' \in [Items -> Row], recent' \in [Items -> 0..WindowTicks],
         queue' \in [Items -> Entry \cup {Null}], UNCHANGED <<echo, passed, faults>>
  PROVE  TypeInv'
<1>1. worker[w] \in Worker
  BY DEF TypeInv, GoodWorker
<1>2. GoodWorker(Freed(worker[w])) /\ Becomes(w, Freed(worker[w]))
  BY <1>1, FreedGood DEF Done, Freed
<1>3. lock' \in [Processes -> Workers \cup {Null}]
  BY LeaveType DEF Done
<1> QED BY <1>2, <1>3, WorkerStepType

LEMMA GotoType ==
  ASSUME TypeInv, NEW w \in Workers, NEW step \in Steps, Goto(w, step),
         step \in Resting \/ worker[w].pc \notin Resting,
         rows' \in [Items -> Row], recent' \in [Items -> 0..WindowTicks],
         queue' \in [Items -> Entry \cup {Null}],
         lock' \in [Processes -> Workers \cup {Null}], UNCHANGED <<echo, passed, faults>>
  PROVE  TypeInv'
<1>1. worker[w] \in Worker /\ (step \notin Resting => worker[w].item \in Items)
  BY DEF TypeInv, GoodWorker
<1>2. GoodWorker(Moved(worker[w], step)) /\ Becomes(w, Moved(worker[w], step))
  BY <1>1, MovedGood DEF Goto, Moved
<1> QED BY <1>2, WorkerStepType

LEMMA DispatchedType ==
  ASSUME TypeInv, NEW w \in Workers, Dispatched(w), worker[w].pc \notin Resting,
         rows' \in [Items -> Row], recent' \in [Items -> 0..WindowTicks],
         queue' \in [Items -> Entry \cup {Null}], UNCHANGED <<echo, passed, faults>>
  PROVE  TypeInv'
<1>1. CASE w \in Flushers
  <2>1. Goto(w, "drop") /\ lock' = lock /\ "drop" \in Steps
    BY <1>1 DEF Dispatched, Steps
  <2>2. lock' \in [Processes -> Workers \cup {Null}]
    BY <2>1 DEF TypeInv, TypeOK
  <2> QED BY <2>1, <2>2, GotoType
<1>2. CASE w \notin Flushers
  BY <1>2, DoneType DEF Dispatched
<1> QED BY <1>1, <1>2

\* The types of the variables that a step leaves alone.
LEMMA KeepsType ==
  ASSUME TypeInv
  PROVE  /\ UNCHANGED rows => rows' \in [Items -> Row]
         /\ UNCHANGED recent => recent' \in [Items -> 0..WindowTicks]
         /\ UNCHANGED queue => queue' \in [Items -> Entry \cup {Null}]
         /\ UNCHANGED lock => lock' \in [Processes -> Workers \cup {Null}]
BY DEF TypeInv, TypeOK

\* One row rewritten.
LEMMA RowType ==
  ASSUME TypeInv, NEW i \in Items, NEW r \in Row, rows' = [rows EXCEPT ![i] = r]
  PROVE  rows' \in [Items -> Row]
BY DEF TypeInv, TypeOK

-----------------------------------------------------------------------------
(* The steps of a check.                                                   *)

LEMMA CheckType ==
  ASSUME TypeInv, NEW w \in Workers
  PROVE  /\ Check(w) => TypeInv'
         /\ \A i \in Items : NextItem(w, i) \/ SweepAbandons(w, i) => TypeInv'
<1> DEFINE j == worker[w]
           i == j.item
<1>1. j \in Worker /\ (j.pc \notin Resting => i \in Items)
  BY DEF TypeInv, GoodWorker
<1>2. i \in Items => rows[i] \in Row
  BY DEF TypeInv, TypeOK
<1>3. ASSUME StartCheck(w) PROVE TypeInv'
  <2> DEFINE next == [Rest EXCEPT !.pc = "next", !.limit = echo.limit]
  <2>1. echo.limit \in {0, DripLimit}
    BY DEF TypeInv, TypeOK
  <2>2. next \in Worker /\ next.pc = "next"
    BY <2>1, RestGood DEF Worker, Steps
  <2>3. GoodWorker(next) /\ Becomes(w, next)
    BY <1>3, <2>2 DEF StartCheck, GoodWorker, Resting
  <2> HIDE DEF next
  <2> QED BY <1>3, <2>3, KeepsType, WorkerStepType DEF StartCheck
<1>4. ASSUME EndCheck(w) PROVE TypeInv'
  BY <1>4, RestGood, KeepsType, WorkerStepType DEF EndCheck
<1>5. ASSUME Claim(w) PROVE TypeInv'
  <2>1. i \in Items
    BY <1>1, <1>5 DEF Claim, Resting
  <2>2. CASE Claimable(rows[i])
    <3>1. ClaimRow(rows[i], w) \in Row /\ rows' = [rows EXCEPT ![i] = ClaimRow(rows[i], w)]
      BY <1>2, <1>5, <2>1, <2>2, ClaimRowType DEF Claim
    <3>2. rows' \in [Items -> Row]
      BY <2>1, <3>1, RowType
    <3>3. PICK step \in {"lock", "prepare"} : Goto(w, step)
      BY <1>5, <2>2 DEF Claim
    <3>4. step \in Steps /\ j.pc \notin Resting
      BY <1>5 DEF Claim, Steps, Resting
    <3>5. UNCHANGED <<recent, queue, echo, passed, lock, faults>>
      BY <1>5, <2>2 DEF Claim
    <3> QED BY <3>2, <3>3, <3>4, <3>5, KeepsType, GotoType
  <2>3. CASE ~ Claimable(rows[i])
    BY <1>5, <2>3, KeepsType, DoneType DEF Claim
  <2> QED BY <2>2, <2>3
<1>6. ASSUME Enter(w) PROVE TypeInv'
  <2>1. lock' \in [Processes -> Workers \cup {Null}]
    BY <1>6 DEF Enter, TypeInv, TypeOK
  <2>2. Goto(w, "rate") /\ "rate" \in Steps /\ j.pc \notin Resting
    BY <1>6 DEF Enter, Steps, Resting
  <2> QED BY <1>6, <2>1, <2>2, KeepsType, GotoType DEF Enter
<1>7. ASSUME CheckRate(w) PROVE TypeInv'
  <2>1. PICK step \in {"hold", "prepare"} : Goto(w, step)
    BY <1>7 DEF CheckRate
  <2>2. step \in Steps /\ j.pc \notin Resting
    BY <1>7 DEF CheckRate, Steps, Resting
  <2> QED BY <1>7, <2>1, <2>2, KeepsType, GotoType DEF CheckRate
<1>8. ASSUME DropWhenFull(w) PROVE TypeInv'
  <2>1. i \in Items
    BY <1>1, <1>8 DEF DropWhenFull, Resting
  <2>2. FailRow(rows[i], w, TRUE) \in Row
    BY <1>2, <2>1, FailRowType
  <2>3. rows' \in [Items -> Row]
    BY <1>8, <2>1, <2>2, RowType DEF DropWhenFull
  <2> QED BY <1>8, <2>3, KeepsType, DoneType DEF DropWhenFull
<1>9. ASSUME FindRoom(w) PROVE TypeInv'
  <2>1. Goto(w, "insert") /\ "insert" \in Steps /\ j.pc \notin Resting
    BY <1>9 DEF FindRoom, Steps, Resting
  <2> QED BY <1>9, <2>1, KeepsType, GotoType DEF FindRoom
<1>10. ASSUME StorePayload(w) PROVE TypeInv'
  <2>1. NewEntry(0) \in Entry
    BY NewEntryType, AttemptAssumption
  <2>2. queue' \in [Items -> Entry \cup {Null}]
    BY <1>10, <2>1 DEF StorePayload, TypeInv, TypeOK
  <2>3. Goto(w, "mark") /\ "mark" \in Steps /\ j.pc \notin Resting
    BY <1>10 DEF StorePayload, Steps, Resting
  <2> QED BY <1>10, <2>2, <2>3, KeepsType, GotoType DEF StorePayload
<1>11. ASSUME MarkQueued(w) PROVE TypeInv'
  <2>1. i \in Items /\ "queued" \in Statuses
    BY <1>1, <1>11 DEF MarkQueued, Resting, Statuses
  <2>2. FinalizeRow(rows[i], w, "queued") \in Row
    BY <1>2, <2>1, FinalizeRowType
  <2>3. rows' \in [Items -> Row]
    BY <1>11, <2>1, <2>2, RowType DEF MarkQueued
  <2> QED BY <1>11, <2>3, KeepsType, DoneType DEF MarkQueued
<1>12. ASSUME NEW k \in Items, NextItem(w, k) PROVE TypeInv'
  <2> DEFINE next == [j EXCEPT !.pc = "claim", !.item = k]
  <2>1. next \in Worker /\ next.item = k
    BY <1>1 DEF Worker, Steps
  <2>2. GoodWorker(next) /\ Becomes(w, next)
    BY <1>12, <2>1 DEF NextItem, GoodWorker
  <2> HIDE DEF next
  <2> QED BY <1>12, <2>2, KeepsType, WorkerStepType DEF NextItem
<1>13. ASSUME NEW k \in Items, SweepAbandons(w, k) PROVE TypeInv'
  <2>1. AbandonRow(rows[k]) \in Row
    BY ButtonRowType DEF TypeInv, TypeOK
  <2>2. rows' \in [Items -> Row]
    BY <1>13, <2>1, RowType DEF SweepAbandons
  <2> QED BY <1>13, <2>2 DEF SweepAbandons, TypeInv, TypeOK
<1> QED BY <1>3, <1>4, <1>5, <1>6, <1>7, <1>8, <1>9, <1>10, <1>11, <1>12, <1>13 DEF Check

-----------------------------------------------------------------------------
(* The steps of a sender and of a flush.                                   *)

LEMMA DispatchType ==
  ASSUME TypeInv, NEW w \in Workers
  PROVE  Dispatch(w) => TypeInv'
<1> DEFINE i == worker[w].item
<1>1. worker[w].pc \notin Resting => i \in Items /\ rows[i] \in Row
  BY DEF TypeInv, TypeOK, GoodWorker
<1>2. ASSUME PreparationFails(w) PROVE TypeInv'
  <2>1. i \in Items /\ rows[i] \in Row /\ worker[w].pc \notin Resting
    BY <1>1, <1>2 DEF PreparationFails, Resting
  <2>2. PICK permanent \in BOOLEAN : rows' = [rows EXCEPT ![i] = FailRow(rows[i], w, permanent)]
    BY <1>2, <2>1 DEF PreparationFails
  <2>3. rows' \in [Items -> Row]
    BY <2>1, <2>2, FailRowType, RowType
  <2> QED BY <1>2, <2>1, <2>3, KeepsType, DispatchedType DEF PreparationFails
<1>3. ASSUME GuardAndSend(w) PROVE TypeInv'
  <2>1. worker[w].pc \notin Resting
    BY <1>3 DEF GuardAndSend, Resting
  <2>2. CASE Goto(w, "record") /\ UNCHANGED lock
    <3>1. "record" \in Steps
      BY DEF Steps
    <3> QED BY <1>3, <2>1, <2>2, <3>1, KeepsType, GotoType DEF GuardAndSend
  <2>3. CASE Dispatched(w)
    BY <1>3, <2>1, <2>3, KeepsType, DispatchedType DEF GuardAndSend
  <2> QED BY <1>3, <2>2, <2>3 DEF GuardAndSend
<1>4. ASSUME RecordSuccess(w) PROVE TypeInv'
  <2>1. i \in Items /\ rows[i] \in Row /\ worker[w].pc \notin Resting
    BY <1>1, <1>4 DEF RecordSuccess, Resting
  <2>2. FinalizeRow(rows[i], w, "success") \in Row
    BY <2>1, FinalizeRowType DEF Statuses
  <2>3. rows' \in [Items -> Row]
    BY <1>4, <2>1, <2>2, RowType DEF RecordSuccess
  <2>4. WindowTicks \in 0..WindowTicks
    BY DripBoundAssumption
  <2>5. recent' \in [Items -> 0..WindowTicks]
    BY <1>4, <2>1, <2>4 DEF RecordSuccess, TypeInv, TypeOK
  <2> QED BY <1>4, <2>1, <2>3, <2>5, KeepsType, DispatchedType DEF RecordSuccess
<1>5. ASSUME RecordFailure(w) PROVE TypeInv'
  <2>1. i \in Items /\ rows[i] \in Row /\ worker[w].pc \notin Resting
    BY <1>1, <1>5 DEF RecordFailure, Resting
  <2>2. PICK permanent \in BOOLEAN : rows' = [rows EXCEPT ![i] = FailRow(rows[i], w, permanent)]
    BY <1>5, <2>1 DEF RecordFailure
  <2>3. rows' \in [Items -> Row]
    BY <2>1, <2>2, FailRowType, RowType
  <2> QED BY <1>5, <2>1, <2>3, KeepsType, DispatchedType DEF RecordFailure
<1> QED BY <1>2, <1>3, <1>4, <1>5 DEF Dispatch

LEMMA ReadQueueType ==
  ASSUME TypeInv, NEW f \in Workers, ReadQueue(f)
  PROVE  TypeInv'
<1> DEFINE batch == {<<i, queue[i].tries>> : i \in Held}
           next  == [Rest EXCEPT !.pc = "next", !.limit = echo.limit, !.open = echo.enabled,
                                 !.batch = batch]
<1>1. \A i \in Held : queue[i] \in Entry /\ queue[i].tries \in 0..AttemptBound
  BY DEF Held, Entry, TypeInv, TypeOK
<1>2. batch \subseteq Items \X (0..AttemptBound)
  BY <1>1 DEF Held
<1>3. echo.limit \in {0, DripLimit} /\ echo.enabled \in BOOLEAN
  BY DEF TypeInv, TypeOK
<1>4. next \in Worker /\ next.pc = "next"
  <2> HIDE DEF batch
  <2> QED BY <1>2, <1>3, RestGood DEF Worker, Steps
<1>5. GoodWorker(next) /\ Becomes(f, next)
  <2> HIDE DEF next
  <2>1. GoodWorker(next)
    BY <1>4 DEF GoodWorker, Resting
  <2> QED BY <2>1 DEF ReadQueue, next
<1>6. queue' \in [Items -> Entry \cup {Null}]
  <2>1. \A i \in Items : queue[i] # Null => [queue[i] EXCEPT !.readers = @ \cup {f}] \in Entry
    BY DEF ReadQueue, Entry, TypeInv, TypeOK
  <2> QED BY <2>1 DEF ReadQueue
<1> HIDE DEF next
<1> QED BY <1>5, <1>6, KeepsType, WorkerStepType DEF ReadQueue

LEMMA FlushType ==
  ASSUME TypeInv, NEW f \in Workers
  PROVE  Flush(f) => TypeInv'
<1> DEFINE j == worker[f]
           i == j.item
<1>1. j \in Worker /\ (j.pc \notin Resting => i \in Items /\ rows[i] \in Row)
  BY DEF TypeInv, TypeOK, GoodWorker
<1>2. ASSUME DiscardBacklog(f) PROVE TypeInv'
  <2> DEFINE next == [j EXCEPT !.batch = {}]
  <2>1. next \in Worker /\ next.pc = "next"
    BY <1>1, <1>2 DEF DiscardBacklog, Worker
  <2>2. GoodWorker(next) /\ Becomes(f, next)
    BY <1>2, <2>1 DEF DiscardBacklog, GoodWorker, Resting
  <2>3. rows' \in [Items -> Row]
    BY <1>2, ReleaseRowType DEF DiscardBacklog, TypeInv, TypeOK
  <2>4. queue' \in [Items -> Entry \cup {Null}]
    BY <1>2 DEF DiscardBacklog
  <2> HIDE DEF next
  <2> QED BY <1>2, <2>2, <2>3, <2>4, KeepsType, WorkerStepType DEF DiscardBacklog
<1>3. ASSUME EnterFlush(f) PROVE TypeInv'
  <2> DEFINE next(d) == [j EXCEPT !.pc = "window", !.item = d[1], !.tries = d[2],
                                  !.batch = @ \ {d}]
  <2>1. PICK d \in j.batch : Becomes(f, next(d))
    BY <1>3 DEF EnterFlush
  <2>2. d[1] \in Items /\ d[2] \in 0..AttemptBound
    BY <1>1 DEF Worker
  <2>3. next(d) \in Worker /\ next(d).item = d[1]
    BY <1>1, <2>2 DEF Worker, Steps
  <2>4. GoodWorker(next(d))
    BY <2>2, <2>3 DEF GoodWorker
  <2>5. lock' \in [Processes -> Workers \cup {Null}]
    BY <1>3 DEF EnterFlush, TypeInv, TypeOK
  <2> HIDE DEF next
  <2> QED BY <1>3, <2>1, <2>4, <2>5, KeepsType, WorkerStepType DEF EnterFlush
<1>4. ASSUME CheckWindow(f) PROVE TypeInv'
  <2>1. CASE Done(f)
    BY <1>4, <2>1, KeepsType, DoneType DEF CheckWindow
  <2>2. CASE Goto(f, "take") /\ UNCHANGED lock
    <3>1. "take" \in Steps /\ j.pc \notin Resting
      BY <1>4 DEF CheckWindow, Steps, Resting
    <3> QED BY <1>4, <2>2, <3>1, KeepsType, GotoType DEF CheckWindow
  <2> QED BY <1>4, <2>1, <2>2 DEF CheckWindow
<1>5. ASSUME Take(f) PROVE TypeInv'
  <2>1. i \in Items /\ rows[i] \in Row /\ j.pc \notin Resting /\ "prepare" \in Steps
    BY <1>1, <1>5 DEF Take, Resting, Steps
  <2>2. CASE rows[i].status = "queued"
    <3>1. rows' = [rows EXCEPT ![i] = TakeQueuedRow(rows[i], f)]
      BY <1>5, <2>1, <2>2 DEF Take
    <3>2. rows' \in [Items -> Row]
      BY <2>1, <3>1, ReleaseRowType, RowType
    <3>3. Goto(f, "prepare") /\ UNCHANGED <<recent, queue, echo, passed, lock, faults>>
      BY <1>5, <2>2 DEF Take
    <3> QED BY <2>1, <3>2, <3>3, KeepsType, GotoType
  <2>3. CASE rows[i].status # "queued"
    <3>1. queue' = Without(f, i) /\ Done(f) /\ UNCHANGED <<rows, recent, echo, passed, faults>>
      BY <1>5, <2>3 DEF Take
    <3> QED BY <2>1, <3>1, WithoutType, KeepsType, DoneType
  <2> QED BY <2>2, <2>3
<1>6. ASSUME DropEntry(f) PROVE TypeInv'
  <2>1. i \in Items /\ j.pc \notin Resting /\ "judge" \in Steps
    BY <1>1, <1>6 DEF DropEntry, Resting, Steps
  <2>2. queue' \in [Items -> Entry \cup {Null}]
    BY <1>6, <2>1, WithoutType DEF DropEntry
  <2> QED BY <1>6, <2>1, <2>2, KeepsType, GotoType DEF DropEntry
<1>7. ASSUME Judge(f) PROVE TypeInv'
  <2> DEFINE n    == IF j.released < DowngradeBatch THEN j.released + 1 ELSE j.released
             next == [j EXCEPT !.pc = "next", !.item = Null, !.tries = 0, !.released = n]
  <2>1. CASE rows[i].status = "failed"
    <3>1. "requeue" \in Steps /\ j.pc \notin Resting /\ Goto(f, "requeue") /\ UNCHANGED lock
      BY <1>7, <2>1 DEF Judge, Steps, Resting
    <3> QED BY <1>7, <3>1, KeepsType, GotoType DEF Judge
  <2>2. CASE rows[i].status # "failed"
    <3>1. n \in 0..DowngradeBatch /\ 0 \in 0..AttemptBound
      BY <1>1, AttemptAssumption, DripBoundAssumption DEF Worker
    <3>2. next \in Worker /\ next.pc = "next"
      <4> HIDE DEF n
      <4> QED BY <1>1, <3>1 DEF Worker, Steps
    <3>3. GoodWorker(next)
      <4> HIDE DEF next
      <4> QED BY <3>2 DEF GoodWorker, Resting
    <3>4. Leave(f) /\ Becomes(f, next)
      BY <1>7, <2>2 DEF Judge
    <3>5. lock' \in [Processes -> Workers \cup {Null}]
      BY <3>4, LeaveType
    <3> HIDE DEF next
    <3> QED BY <1>7, <3>3, <3>4, <3>5, KeepsType, WorkerStepType DEF Judge
  <2> QED BY <2>1, <2>2
<1>8. ASSUME GiveUpRelease(f) PROVE TypeInv'
  <2>1. i \in Items /\ rows[i] \in Row
    BY <1>1, <1>8 DEF GiveUpRelease, Resting
  <2>2. rows' \in [Items -> Row]
    BY <1>8, <2>1, ReleaseRowType, RowType DEF GiveUpRelease
  <2> QED BY <1>8, <2>2, KeepsType, DoneType DEF GiveUpRelease
<1>9. ASSUME Requeue(f) PROVE TypeInv'
  <2>1. i \in Items /\ rows[i] \in Row
    BY <1>1, <1>9 DEF Requeue, Resting
  <2>2. rows' \in [Items -> Row]
    BY <1>9, <2>1, ReleaseRowType, RowType DEF Requeue
  <2>3. queue' \in {Upserted(i, NextTry(f)), queue}
    BY <1>9 DEF Requeue
  <2>4. queue' \in [Items -> Entry \cup {Null}]
    BY <2>1, <2>3, UpsertedType, NextTryType, KeepsType
  <2> QED BY <1>9, <2>2, <2>4, KeepsType, DoneType DEF Requeue
<1>10. ASSUME Recover(f) PROVE TypeInv'
  <2>1. i \in Items /\ rows[i] \in Row /\ j.tries \in 0..AttemptBound
    BY <1>1, <1>10 DEF Recover, Resting, Worker
  <2>2. rows' \in [Items -> Row]
    BY <1>10, <2>1, ReleaseRowType, RowType DEF Recover
  <2>3. queue' \in {Upserted(i, j.tries), queue}
    BY <1>10 DEF Recover
  <2>4. queue' \in [Items -> Entry \cup {Null}]
    BY <2>1, <2>3, UpsertedType, KeepsType
  <2> QED BY <1>10, <2>2, <2>4, KeepsType, DoneType DEF Recover
<1>11. ASSUME EndFlush(f) PROVE TypeInv'
  <2>1. queue' \in [Items -> Entry \cup {Null}]
    BY <1>11, UnreadType DEF EndFlush
  <2> QED BY <1>11, <2>1, RestGood, KeepsType, WorkerStepType DEF EndFlush
<1> QED BY <1>2, <1>3, <1>4, <1>5, <1>6, <1>7, <1>8, <1>9, <1>10, <1>11, ReadQueueType DEF Flush

-----------------------------------------------------------------------------
(* Faults and the world.                                                   *)

LEMMA FaultType ==
  ASSUME TypeInv
  PROVE  /\ \A w \in Workers : Escape(w) => TypeInv'
         /\ \A p \in Processes : Crash(p) => TypeInv'
<1>1. faults < MaxFaults => faults + 1 \in 0..MaxFaults
  BY DripBoundAssumption DEF TypeInv, TypeOK
<1>2. ASSUME NEW w \in Workers, Escape(w) PROVE TypeInv'
  <2>1. worker[w] \in Worker /\ worker[w].item \in Items /\ worker[w].pc \notin Resting
    BY <1>2 DEF Escape, TypeInv, GoodWorker, Resting
  <2>2. PICK j \in {Moved(worker[w], "recover"), Freed(worker[w]), Rest} :
          Becomes(w, j) /\ (UNCHANGED lock \/ Leave(w))
    BY <1>2 DEF Escape, Goto, Moved, Freed
  <2>3. "recover" \in Steps
    BY DEF Steps
  <2>4. GoodWorker(j)
    BY <2>1, <2>2, <2>3, MovedGood, FreedGood, RestGood
  <2>5. worker' \in [Workers -> Worker] /\ \A v \in Workers : GoodWorker(worker'[v])
    <3>1. j \in Worker
      BY <2>4 DEF GoodWorker
    <3>2. worker' = [worker EXCEPT ![w] = j] /\ worker \in [Workers -> Worker]
      BY <2>2 DEF Becomes, TypeInv, TypeOK
    <3> QED BY <2>4, <3>1, <3>2 DEF TypeInv
  <2>6. lock' \in [Processes -> Workers \cup {Null}]
    BY <2>2, LeaveType, KeepsType
  <2> QED BY <1>1, <1>2, <2>5, <2>6 DEF Escape, TypeInv, TypeOK
<1>3. ASSUME NEW p \in Processes, Crash(p) PROVE TypeInv'
  <2>1. worker' \in [Workers -> Worker] /\ \A v \in Workers : GoodWorker(worker'[v])
    BY <1>3, RestGood DEF Crash, TypeInv, TypeOK
  <2>2. queue' \in [Items -> Entry \cup {Null}]
    BY <1>3, UnreadType DEF Crash
  <2>3. lock' \in [Processes -> Workers \cup {Null}]
    BY <1>3 DEF Crash, TypeInv, TypeOK
  <2> QED BY <1>1, <1>3, <2>1, <2>2, <2>3 DEF Crash, TypeInv, TypeOK
<1> QED BY <1>2, <1>3

LEMMA WorldType ==
  ASSUME TypeInv
  PROVE  /\ \A i \in Items : MovePast(i) \/ RetryPost(i) \/ GiveUpPost(i) => TypeInv'
         /\ ToggleEcho \/ EditLimit \/ Tick => TypeInv'
<1>1. ASSUME NEW i \in Items, MovePast(i) PROVE TypeInv'
  BY <1>1 DEF MovePast, TypeInv, TypeOK
<1>2. ASSUME NEW i \in Items, RetryPost(i) \/ GiveUpPost(i) PROVE TypeInv'
  <2>1. rows[i] \in Row
    BY DEF TypeInv, TypeOK
  <2>2. rows' \in [Items -> Row]
    BY <1>2, <2>1, ButtonRowType, RowType DEF RetryPost, GiveUpPost
  <2> QED BY <1>2, <2>2 DEF RetryPost, GiveUpPost, TypeInv, TypeOK
<1>3. ASSUME ToggleEcho \/ EditLimit PROVE TypeInv'
  <2>1. DripLimit - echo.limit \in {0, DripLimit}
    BY DripBoundAssumption DEF TypeInv, TypeOK
  <2>2. echo' \in [enabled : BOOLEAN, limit : {0, DripLimit}]
    BY <1>3, <2>1 DEF ToggleEcho, EditLimit, TypeInv, TypeOK
  <2> QED BY <1>3, <2>2 DEF ToggleEcho, EditLimit, TypeInv, TypeOK
<1>4. ASSUME Tick PROVE TypeInv'
  <2>1. \A i \in Items : AgeRow(rows[i]) \in Row
    BY AgeRowType DEF TypeInv, TypeOK
  <2>2. \A n \in 0..WindowTicks : CountDown(n) \in 0..WindowTicks
    BY DripBoundAssumption DEF CountDown
  <2>3. recent' \in [Items -> 0..WindowTicks]
    BY <1>4, <2>2 DEF Tick, TypeInv, TypeOK
  <2> QED BY <1>4, <2>1, <2>3 DEF Tick, TypeInv, TypeOK
<1> QED BY <1>1, <1>2, <1>3, <1>4

LEMMA TypeStep == TypeInv /\ [Next]_vars => TypeInv'
<1> SUFFICES ASSUME TypeInv, [Next]_vars PROVE TypeInv'
  OBVIOUS
<1>1. CASE Next
  BY <1>1, CheckType, DispatchType, FlushType, FaultType, WorldType DEF Next
<1>2. CASE UNCHANGED vars
  BY <1>2 DEF vars, TypeInv, TypeOK
<1> QED BY <1>1, <1>2

\* Every variable keeps its type: in particular no counter of a queue entry, of
\* the window or of a flush leaves its range.
THEOREM DripTypeCorrect == Spec => []TypeOK
<1>1. TypeInv => TypeOK
  BY DEF TypeInv
<1> QED BY <1>1, TypeInit, TypeStep, PTL DEF Spec

-----------------------------------------------------------------------------
(* No held item is lost, where one process runs everything and the echo is *)
(* not disabled.  The lock ties the two transactions of a hold, and those  *)
(* of a release, together: whoever is inside it is alone.                  *)

OneProcessOnly == \A v, w \in Workers : Process[v] = Process[w]

\* Worker w, in state j, is inside the lock.
Inside(w, j) ==
  \/ j.pc \in {"rate", "hold", "insert", "mark",
              "window", "take", "drop", "judge", "requeue", "recover"}
  \/ j.pc \in {"prepare", "record"} /\ w \in Flushers

\* A flush that has taken the row of its item out of the queue.
Released(w, j) == j.pc = "drop" \/ (j.pc \in {"prepare", "record"} /\ w \in Flushers)

\* What the other workers leave worker w.
Undisturbed(w) ==
  /\ worker[w].open
  /\ worker[w].pc \in {"claim", "lock", "rate"} => w \notin Flushers
  /\ Inside(w, worker[w]) => lock[Process[w]] = w
  /\ worker[w].pc = "mark" => queue[worker[w].item] # Null
  /\ Released(w, worker[w]) => rows[worker[w].item].status # "queued"

HoldInv ==
  /\ HeldItemsHavePayload
  /\ echo.enabled
  /\ \A w \in Workers : Undisturbed(w)

\* A step that removes no entry and puts no row into the queue.
Mild ==
  /\ \A i \in Items : queue[i] # Null => queue'[i] # Null
  /\ \A i \in Items : rows'[i].status = "queued" => rows[i].status = "queued"

LEMMA HoldInit == Init => HoldInv
<1> SUFFICES ASSUME Init PROVE HoldInv
  OBVIOUS
<1>1. HeldItemsHavePayload
  BY DEF Init, HeldItemsHavePayload, Absent
<1>2. \A w \in Workers : worker[w] = Rest
  BY DEF Init
<1>3. \A w \in Workers : Undisturbed(w)
  BY <1>2, RestGood DEF Undisturbed, Inside, Released
<1> QED BY <1>1, <1>3 DEF Init, HoldInv

\* What a worker that moves to state j has to leave behind: only from inside the
\* lock may it be anything but mild.
LEMMA HoldStep ==
  ASSUME TypeInv, HoldInv, OneProcessOnly, NEW w \in Workers, NEW j, Becomes(w, j),
         j.open, UNCHANGED echo,
         \/ UNCHANGED lock
         \/ Leave(w)
         \/ lock[Process[w]] = Null /\ lock' = [lock EXCEPT ![Process[w]] = w],
         Mild \/ (lock[Process[w]] = w /\ HeldItemsHavePayload'),
         j.pc \in {"claim", "lock", "rate"} => w \notin Flushers,
         Inside(w, j) => lock'[Process[w]] = w,
         j.pc = "mark" => queue'[j.item] # Null,
         Released(w, j) => rows'[j.item].status # "queued"
  PROVE  HoldInv'
<1>1. worker' = [worker EXCEPT ![w] = j] /\ worker \in [Workers -> Worker]
  BY DEF Becomes, TypeInv, TypeOK
<1>2. HeldItemsHavePayload'
  BY DEF HoldInv, Mild, HeldItemsHavePayload
<1>3. Undisturbed(w)'
  <2>1. worker'[w] = j
    BY <1>1
  <2> QED BY <2>1 DEF Undisturbed
<1>4. ASSUME NEW v \in Workers, v # w PROVE Undisturbed(v)'
  <2>1. worker'[v] = worker[v] /\ Process[v] = Process[w] /\ Undisturbed(v)
    BY <1>1, <1>4 DEF OneProcessOnly, HoldInv
  <2>2. Process[w] \in Processes /\ lock \in [Processes -> Workers \cup {Null}] /\ v # Null
    BY DripWorkerAssumption, NullAssumption DEF TypeInv, TypeOK
  <2>3. Inside(v, worker[v]) => lock[Process[v]] = v /\ lock'[Process[v]] = v
    BY <1>4, <2>1, <2>2 DEF Undisturbed, Leave
  <2>4. CASE Inside(v, worker[v])
    <3>1. Mild
      BY <1>4, <2>1, <2>3, <2>4
    <3>2. worker[v].item \in Items
      BY <2>4 DEF Inside, TypeInv, GoodWorker, Resting
    <3> QED BY <2>1, <2>3, <3>1, <3>2 DEF Undisturbed, Mild
  <2>5. CASE ~ Inside(v, worker[v])
    <3>1. worker[v].pc # "mark" /\ ~ Released(v, worker[v])
      BY <2>5 DEF Inside, Released
    <3> QED BY <2>1, <2>5, <3>1 DEF Undisturbed
  <2> QED BY <2>4, <2>5
<1> QED BY <1>2, <1>3, <1>4 DEF HoldInv

LEMMA HoldDone ==
  ASSUME TypeInv, HoldInv, OneProcessOnly, NEW w \in Workers, Done(w), UNCHANGED echo,
         Mild \/ (lock[Process[w]] = w /\ HeldItemsHavePayload')
  PROVE  HoldInv'
<1>1. worker[w] \in Worker /\ worker[w].open
  BY DEF TypeInv, GoodWorker, HoldInv, Undisturbed
<1>2. /\ Becomes(w, Freed(worker[w])) /\ Freed(worker[w]).pc = "next"
      /\ Freed(worker[w]).open
  BY <1>1, FreedGood DEF Done, Freed
<1>3. ~ Inside(w, Freed(worker[w])) /\ ~ Released(w, Freed(worker[w]))
  BY <1>2 DEF Inside, Released
<1>4. Leave(w)
  BY DEF Done
<1> QED BY <1>2, <1>3, <1>4, HoldStep

\* A mild step to another step of the same item.
LEMMA HoldGoto ==
  ASSUME TypeInv, HoldInv, OneProcessOnly, NEW w \in Workers, NEW step \in Steps \ Resting,
         Goto(w, step), UNCHANGED echo, worker[w].pc \notin Resting, Mild,
         UNCHANGED lock \/ (lock[Process[w]] = Null /\ lock' = [lock EXCEPT ![Process[w]] = w]),
         step \in {"claim", "lock", "rate"} => w \notin Flushers,
         Inside(w, Moved(worker[w], step)) => lock'[Process[w]] = w,
         step = "mark" => queue'[worker[w].item] # Null,
         Released(w, Moved(worker[w], step)) => rows'[worker[w].item].status # "queued"
  PROVE  HoldInv'
<1>1. worker[w] \in Worker /\ worker[w].item \in Items /\ worker[w].open
  BY DEF TypeInv, GoodWorker, HoldInv, Undisturbed
<1> DEFINE j == Moved(worker[w], step)
<1>2. /\ Becomes(w, j) /\ j.pc = step /\ j.item = worker[w].item /\ j.open
  BY <1>1, MovedGood DEF Goto, Moved
<1> HIDE DEF j
<1> QED BY <1>2, HoldStep DEF j

\* The sender returns.
LEMMA HoldDispatched ==
  ASSUME TypeInv, HoldInv, OneProcessOnly, NEW w \in Workers, Dispatched(w),
         worker[w].pc \in {"prepare", "record"}, UNCHANGED echo, Mild
  PROVE  HoldInv'
<1>1. CASE w \in Flushers
  <2>1. Goto(w, "drop") /\ UNCHANGED lock /\ "drop" \in Steps \ Resting
    BY <1>1 DEF Dispatched, Steps, Resting
  <2>2. Inside(w, worker[w]) /\ Released(w, worker[w])
    BY <1>1 DEF Inside, Released
  <2>3. lock[Process[w]] = w /\ rows[worker[w].item].status # "queued"
    BY <2>2 DEF HoldInv, Undisturbed
  <2>4. worker[w].pc \notin Resting /\ worker[w].item \in Items
    BY DEF TypeInv, GoodWorker, Resting
  <2>5. rows'[worker[w].item].status # "queued"
    BY <2>3, <2>4 DEF Mild
  <2> QED BY <2>1, <2>3, <2>4, <2>5, HoldGoto
<1>2. CASE w \notin Flushers
  BY <1>2, HoldDone DEF Dispatched
<1> QED BY <1>1, <1>2

\* Nobody moves.
LEMMA HoldWorld ==
  ASSUME TypeInv, HoldInv, UNCHANGED <<lock, worker>>, echo'.enabled, Mild
  PROVE  HoldInv'
<1>1. HeldItemsHavePayload'
  BY DEF HoldInv, Mild, HeldItemsHavePayload
<1>2. ASSUME NEW w \in Workers PROVE Undisturbed(w)'
  <2>1. worker[w].pc \notin Resting => worker[w].item \in Items
    BY DEF TypeInv, GoodWorker
  <2> QED BY <2>1 DEF HoldInv, Undisturbed, Mild, Inside, Released, Resting
<1> QED BY <1>1, <1>2 DEF HoldInv

LEMMA MildRow ==
  ASSUME TypeInv, UNCHANGED queue, NEW i \in Items, NEW r, rows' = [rows EXCEPT ![i] = r],
         r.status = "queued" => rows[i].status = "queued"
  PROVE  Mild
BY DEF Mild, TypeInv, TypeOK

LEMMA MildRest ==
  ASSUME UNCHANGED <<rows, queue>>
  PROVE  Mild
BY DEF Mild

\* Which rows the statements leave queued.
LEMMA QueuedRows ==
  ASSUME NEW r \in Row, NEW w \in Workers
  PROVE  /\ ClaimRow(r, w).status = "pending"
         /\ \A permanent \in BOOLEAN :
              FailRow(r, w, permanent).status = "queued" => r.status = "queued"
         /\ FinalizeRow(r, w, "success").status = "queued" => r.status = "queued"
         /\ AbandonRow(r).status = "queued" => r.status = "queued"
         /\ RetryRow(r).status = "failed"
         /\ GiveUpRow(r).status = "gave_up"
         /\ DropRow(r).status = "gave_up"
         /\ AgeRow(r).status = r.status
         /\ r.status = "queued" => TakeQueuedRow(r, w).status = "pending"
<1>1. ClaimRow(r, w).status = "pending"
  BY DEF ClaimRow, Row
<1>2. \A permanent \in BOOLEAN : FailRow(r, w, permanent).status = "queued" => r.status = "queued"
  BY DEF FailRow, FailureStatus, Row
<1>3. FinalizeRow(r, w, "success").status = "queued" => r.status = "queued"
  BY DEF FinalizeRow, Row
<1>4. AbandonRow(r).status = "queued" => r.status = "queued"
  BY DEF AbandonRow, Row
<1>5. RetryRow(r).status = "failed"
  BY DEF RetryRow, Row
<1>6. GiveUpRow(r).status = "gave_up" /\ DropRow(r).status = "gave_up"
  BY DEF GiveUpRow, DropRow, Row
<1>7. AgeRow(r).status = r.status
  BY DEF AgeRow, Row
<1>8. r.status = "queued" => TakeQueuedRow(r, w).status = "pending"
  BY DEF TakeQueuedRow, Row
<1> QED BY <1>1, <1>2, <1>3, <1>4, <1>5, <1>6, <1>7, <1>8

-----------------------------------------------------------------------------
(* The steps of a check keep HoldInv ...                                   *)

LEMMA HoldCheck ==
  ASSUME TypeInv, HoldInv, OneProcessOnly, NEW w \in Workers
  PROVE  /\ Check(w) => HoldInv'
         /\ \A i \in Items : NextItem(w, i) \/ SweepAbandons(w, i) => HoldInv'
<1> DEFINE j == worker[w]
           i == j.item
<1>1. j \in Worker /\ (j.pc \notin Resting => i \in Items /\ rows[i] \in Row)
  BY DEF TypeInv, TypeOK, GoodWorker
<1>2. Undisturbed(w)
  BY DEF HoldInv
<1>3. ASSUME StartCheck(w) PROVE HoldInv'
  <2> DEFINE next == [Rest EXCEPT !.pc = "next", !.limit = echo.limit]
  <2>1. next.pc = "next" /\ next.open /\ Becomes(w, next)
    BY <1>3, RestGood DEF StartCheck, Worker
  <2>2. ~ Inside(w, next) /\ ~ Released(w, next)
    BY <2>1 DEF Inside, Released
  <2> HIDE DEF next
  <2> QED BY <1>3, <2>1, <2>2, MildRest, HoldStep DEF StartCheck
<1>4. ASSUME EndCheck(w) PROVE HoldInv'
  <2>1. ~ Inside(w, Rest) /\ ~ Released(w, Rest)
    BY RestGood DEF Inside, Released
  <2> QED BY <1>4, <2>1, RestGood, MildRest, HoldStep DEF EndCheck
<1>5. ASSUME Claim(w) PROVE HoldInv'
  <2>1. i \in Items /\ rows[i] \in Row /\ j.pc \notin Resting /\ w \notin Flushers
    BY <1>1, <1>2, <1>5 DEF Claim, Resting, Undisturbed
  <2>2. CASE Claimable(rows[i])
    <3>1. rows' = [rows EXCEPT ![i] = ClaimRow(rows[i], w)]
          /\ UNCHANGED <<recent, queue, echo, passed, lock, faults>>
      BY <1>5, <2>2 DEF Claim
    <3>2. Mild
      <4>1. ClaimRow(rows[i], w).status = "pending"
        BY <2>1, QueuedRows
      <4> QED BY <2>1, <3>1, <4>1, MildRow
    <3>3. PICK step \in {"lock", "prepare"} : Goto(w, step)
      BY <1>5, <2>2 DEF Claim
    <3>4. step \in Steps \ Resting /\ Moved(j, step).pc = step
      BY <1>1, <2>1, MovedGood DEF Steps, Resting
    <3>5. ~ Inside(w, Moved(j, step)) /\ ~ Released(w, Moved(j, step))
      BY <2>1, <3>3, <3>4 DEF Inside, Released
    <3> QED BY <2>1, <3>1, <3>2, <3>3, <3>4, <3>5, HoldGoto
  <2>3. CASE ~ Claimable(rows[i])
    <3>1. UNCHANGED <<rows, queue, echo>> /\ Done(w)
      BY <1>5, <2>3 DEF Claim
    <3> QED BY <3>1, MildRest, HoldDone
  <2> QED BY <2>2, <2>3
<1>6. ASSUME Enter(w) PROVE HoldInv'
  <2>1. /\ Goto(w, "rate") /\ "rate" \in Steps \ Resting /\ j.pc \notin Resting
        /\ w \notin Flushers
        /\ lock[Process[w]] = Null /\ lock' = [lock EXCEPT ![Process[w]] = w]
    BY <1>2, <1>6 DEF Enter, Steps, Resting, Undisturbed
  <2>2. lock'[Process[w]] = w
    BY <2>1, DripWorkerAssumption DEF TypeInv, TypeOK
  <2>3. ~ Released(w, Moved(j, "rate"))
    BY <1>1, <2>1, MovedGood DEF Released
  <2> QED BY <1>6, <2>1, <2>2, <2>3, MildRest, HoldGoto DEF Enter
<1>7. ASSUME CheckRate(w) PROVE HoldInv'
  <2>1. PICK step \in {"hold", "prepare"} : Goto(w, step)
    BY <1>7 DEF CheckRate
  <2>2. /\ step \in Steps \ Resting /\ j.pc \notin Resting /\ w \notin Flushers
        /\ lock[Process[w]] = w
    BY <1>2, <1>7 DEF CheckRate, Steps, Resting, Undisturbed, Inside
  <2>3. ~ Released(w, Moved(j, step))
    BY <1>1, <2>1, <2>2, MovedGood DEF Released
  <2> QED BY <1>7, <2>1, <2>2, <2>3, MildRest, HoldGoto DEF CheckRate
<1>8. ASSUME DropWhenFull(w) PROVE HoldInv'
  <2>1. i \in Items /\ rows[i] \in Row
    BY <1>1, <1>8 DEF DropWhenFull, Resting
  <2>2. FailRow(rows[i], w, TRUE).status = "queued" => rows[i].status = "queued"
    BY <2>1 DEF FailRow, FailureStatus, Row
  <2>3. Mild
    BY <1>8, <2>1, <2>2, MildRow DEF DropWhenFull
  <2> QED BY <1>8, <2>3, HoldDone DEF DropWhenFull
<1>9. ASSUME FindRoom(w) PROVE HoldInv'
  <2>1. /\ Goto(w, "insert") /\ "insert" \in Steps \ Resting /\ j.pc \notin Resting
        /\ lock[Process[w]] = w
    BY <1>2, <1>9 DEF FindRoom, Steps, Resting, Undisturbed, Inside
  <2>2. ~ Released(w, Moved(j, "insert"))
    BY <1>1, <2>1, MovedGood DEF Released
  <2> QED BY <1>9, <2>1, <2>2, MildRest, HoldGoto DEF FindRoom
<1>10. ASSUME StorePayload(w) PROVE HoldInv'
  <2>1. /\ Goto(w, "mark") /\ "mark" \in Steps \ Resting /\ j.pc \notin Resting
        /\ lock[Process[w]] = w /\ i \in Items
    BY <1>1, <1>2, <1>10 DEF StorePayload, Steps, Resting, Undisturbed, Inside
  <2>2. NewEntry(0) # Null
    BY NewEntryType, AttemptAssumption, EntryAssumption
  <2>3. Mild /\ queue'[i] # Null
    BY <1>10, <2>1, <2>2 DEF StorePayload, Mild, TypeInv, TypeOK
  <2>4. ~ Released(w, Moved(j, "mark"))
    BY <1>1, <2>1, MovedGood DEF Released
  <2> QED BY <1>10, <2>1, <2>3, <2>4, HoldGoto DEF StorePayload
<1>11. ASSUME MarkQueued(w) PROVE HoldInv'
  <2>1. /\ j.pc = "mark" /\ lock[Process[w]] = w /\ i \in Items /\ queue[i] # Null
    BY <1>1, <1>2, <1>11 DEF MarkQueued, Resting, Undisturbed, Inside
  <2>2. HeldItemsHavePayload'
    BY <1>11, <2>1 DEF MarkQueued, HoldInv, HeldItemsHavePayload, TypeInv, TypeOK
  <2> QED BY <1>11, <2>1, <2>2, HoldDone DEF MarkQueued
<1>12. ASSUME NEW k \in Items, NextItem(w, k) PROVE HoldInv'
  <2> DEFINE next == [j EXCEPT !.pc = "claim", !.item = k]
  <2>1. next.pc = "claim" /\ next.open /\ Becomes(w, next) /\ w \notin Flushers
    BY <1>1, <1>2, <1>12 DEF NextItem, Worker, Undisturbed
  <2>2. ~ Inside(w, next) /\ ~ Released(w, next)
    BY <2>1 DEF Inside, Released
  <2> HIDE DEF next
  <2> QED BY <1>12, <2>1, <2>2, MildRest, HoldStep DEF NextItem
<1>13. ASSUME NEW k \in Items, SweepAbandons(w, k) PROVE HoldInv'
  <2>1. rows[k] \in Row
    BY DEF TypeInv, TypeOK
  <2>2. Mild
    BY <1>13, <2>1, QueuedRows, MildRow DEF SweepAbandons
  <2> QED BY <1>13, <2>2, HoldWorld DEF SweepAbandons, HoldInv
<1> QED BY <1>3, <1>4, <1>5, <1>6, <1>7, <1>8, <1>9, <1>10, <1>11, <1>12, <1>13 DEF Check

-----------------------------------------------------------------------------
(* ... and so do those of a sender ...                                     *)

LEMMA HoldDispatch ==
  ASSUME TypeInv, HoldInv, OneProcessOnly, NEW w \in Workers
  PROVE  Dispatch(w) => HoldInv'
<1> DEFINE j == worker[w]
           i == j.item
<1>1. j \in Worker /\ (j.pc \notin Resting => i \in Items /\ rows[i] \in Row)
  BY DEF TypeInv, TypeOK, GoodWorker
<1>2. ASSUME PreparationFails(w) PROVE HoldInv'
  <2>1. i \in Items /\ rows[i] \in Row
    BY <1>1, <1>2 DEF PreparationFails, Resting
  <2>2. PICK permanent \in BOOLEAN : rows' = [rows EXCEPT ![i] = FailRow(rows[i], w, permanent)]
    BY <1>2 DEF PreparationFails
  <2>3. FailRow(rows[i], w, permanent).status = "queued" => rows[i].status = "queued"
    BY <2>1, QueuedRows
  <2>4. Mild
    BY <1>2, <2>1, <2>2, <2>3, MildRow DEF PreparationFails
  <2> QED BY <1>2, <2>4, HoldDispatched DEF PreparationFails
<1>3. ASSUME GuardAndSend(w) PROVE HoldInv'
  <2>1. j.pc = "prepare" /\ UNCHANGED <<rows, queue, echo>>
    BY <1>3 DEF GuardAndSend
  <2>2. CASE Goto(w, "record") /\ UNCHANGED lock
    <3>1. Moved(j, "record").pc = "record" /\ "record" \in Steps \ Resting /\ j.pc \notin Resting
      BY <1>1, <2>1, MovedGood DEF Steps, Resting
    <3>2. Inside(w, Moved(j, "record")) => lock'[Process[w]] = w
      BY <2>1, <2>2, <3>1 DEF HoldInv, Undisturbed, Inside
    <3>3. Released(w, Moved(j, "record")) => rows'[i].status # "queued"
      BY <2>1, <3>1 DEF HoldInv, Undisturbed, Released
    <3> QED BY <2>1, <2>2, <3>1, <3>2, <3>3, MildRest, HoldGoto
  <2>3. CASE Dispatched(w)
    BY <2>1, <2>3, MildRest, HoldDispatched
  <2> QED BY <1>3, <2>2, <2>3 DEF GuardAndSend
<1>4. ASSUME RecordSuccess(w) PROVE HoldInv'
  <2>1. i \in Items /\ rows[i] \in Row
    BY <1>1, <1>4 DEF RecordSuccess, Resting
  <2>2. Mild
    <3>1. FinalizeRow(rows[i], w, "success").status = "queued" => rows[i].status = "queued"
      BY <2>1, QueuedRows
    <3>2. rows' = [rows EXCEPT ![i] = FinalizeRow(rows[i], w, "success")]
      BY <1>4, <2>1 DEF RecordSuccess, TypeInv, TypeOK
    <3> QED BY <1>4, <2>1, <3>1, <3>2, MildRow DEF RecordSuccess
  <2> QED BY <1>4, <2>2, HoldDispatched DEF RecordSuccess
<1>5. ASSUME RecordFailure(w) PROVE HoldInv'
  <2>1. i \in Items /\ rows[i] \in Row
    BY <1>1, <1>5 DEF RecordFailure, Resting
  <2>2. PICK permanent \in BOOLEAN : rows' = [rows EXCEPT ![i] = FailRow(rows[i], w, permanent)]
    BY <1>5 DEF RecordFailure
  <2>3. FailRow(rows[i], w, permanent).status = "queued" => rows[i].status = "queued"
    BY <2>1, QueuedRows
  <2>4. Mild
    BY <1>5, <2>1, <2>2, <2>3, MildRow DEF RecordFailure
  <2> QED BY <1>5, <2>4, HoldDispatched DEF RecordFailure
<1> QED BY <1>2, <1>3, <1>4, <1>5 DEF Dispatch

-----------------------------------------------------------------------------
(* ... of a flush, faults and the world.                                   *)

LEMMA HoldFlush ==
  ASSUME TypeInv, HoldInv, OneProcessOnly, NEW f \in Workers
  PROVE  Flush(f) => HoldInv'
<1> DEFINE j == worker[f]
           i == j.item
<1>1. j \in Worker /\ (j.pc \notin Resting => i \in Items /\ rows[i] \in Row)
  BY DEF TypeInv, TypeOK, GoodWorker
<1>2. Undisturbed(f)
  BY DEF HoldInv
<1>3. ASSUME ReadQueue(f) PROVE HoldInv'
  <2> DEFINE batch == {<<k, queue[k].tries>> : k \in Held}
             next  == [Rest EXCEPT !.pc = "next", !.limit = echo.limit, !.open = echo.enabled,
                                   !.batch = batch]
  <2>1. next.pc = "next" /\ next.open = echo.enabled
    <3> HIDE DEF batch
    <3> QED BY RestGood DEF Worker
  <2>2. ~ Inside(f, next) /\ ~ Released(f, next) /\ next.open
    <3> HIDE DEF next
    <3> QED BY <2>1 DEF Inside, Released, HoldInv
  <2>3. \A k \in Items : queue[k] # Null => [queue[k] EXCEPT !.readers = @ \cup {f}] \in Entry
    BY <1>3 DEF ReadQueue, Entry, TypeInv, TypeOK
  <2>4. Mild
    BY <1>3, <2>3, EntryAssumption DEF ReadQueue, Mild
  <2>5. Becomes(f, next) /\ UNCHANGED <<echo, lock>>
    BY <1>3 DEF ReadQueue
  <2> HIDE DEF next
  <2> QED BY <2>1, <2>2, <2>4, <2>5, HoldStep
<1>4. ~ DiscardBacklog(f)
  BY <1>2 DEF DiscardBacklog, Undisturbed
<1>5. ASSUME EnterFlush(f) PROVE HoldInv'
  <2> DEFINE next(d) == [j EXCEPT !.pc = "window", !.item = d[1], !.tries = d[2],
                                  !.batch = @ \ {d}]
  <2>1. PICK d \in j.batch : Becomes(f, next(d))
    BY <1>5 DEF EnterFlush
  <2>2. next(d).pc = "window" /\ next(d).open
    BY <1>1, <1>2 DEF Worker, Undisturbed
  <2>3. ~ Released(f, next(d))
    <3> HIDE DEF next
    <3> QED BY <2>2 DEF Released
  <2>4. lock[Process[f]] = Null /\ lock' = [lock EXCEPT ![Process[f]] = f]
    BY <1>5 DEF EnterFlush
  <2>5. lock'[Process[f]] = f
    BY <2>4, DripWorkerAssumption DEF TypeInv, TypeOK
  <2> HIDE DEF next
  <2> QED BY <1>5, <2>1, <2>2, <2>3, <2>4, <2>5, MildRest, HoldStep DEF EnterFlush
<1>6. ASSUME CheckWindow(f) PROVE HoldInv'
  <2>1. CASE Done(f)
    BY <1>6, <2>1, MildRest, HoldDone DEF CheckWindow
  <2>2. CASE Goto(f, "take") /\ UNCHANGED lock
    <3>1. "take" \in Steps \ Resting /\ j.pc \notin Resting /\ lock[Process[f]] = f
      BY <1>2, <1>6 DEF CheckWindow, Steps, Resting, Undisturbed, Inside
    <3>2. ~ Released(f, Moved(j, "take"))
      BY <1>1, <3>1, MovedGood DEF Released
    <3> QED BY <1>6, <2>2, <3>1, <3>2, MildRest, HoldGoto DEF CheckWindow
  <2> QED BY <1>6, <2>1, <2>2 DEF CheckWindow
<1>7. ASSUME Take(f) PROVE HoldInv'
  <2>1. /\ i \in Items /\ rows[i] \in Row /\ j.pc \notin Resting
        /\ "prepare" \in Steps \ Resting /\ lock[Process[f]] = f
    BY <1>1, <1>2, <1>7 DEF Take, Resting, Steps, Undisturbed, Inside
  <2>2. CASE rows[i].status = "queued"
    <3>1. /\ rows' = [rows EXCEPT ![i] = TakeQueuedRow(rows[i], f)]
          /\ Goto(f, "prepare") /\ UNCHANGED <<queue, lock, echo>>
      BY <1>7, <2>2 DEF Take
    <3>2. TakeQueuedRow(rows[i], f).status = "pending"
      BY <2>1, <2>2, QueuedRows
    <3>3. Mild /\ rows'[i].status # "queued"
      BY <2>1, <3>1, <3>2, MildRow DEF TypeInv, TypeOK
    <3> QED BY <2>1, <3>1, <3>3, HoldGoto
  <2>3. CASE rows[i].status # "queued"
    <3>1. queue' = Without(f, i) /\ Done(f) /\ UNCHANGED <<rows, echo>>
      BY <1>7, <2>3 DEF Take
    <3>2. HeldItemsHavePayload'
      BY <2>1, <2>3, <3>1 DEF Without, HoldInv, HeldItemsHavePayload, TypeInv, TypeOK
    <3> QED BY <2>1, <3>1, <3>2, HoldDone
  <2> QED BY <2>2, <2>3
<1>8. ASSUME DropEntry(f) PROVE HoldInv'
  <2>1. /\ i \in Items /\ "judge" \in Steps /\ lock[Process[f]] = f
        /\ rows[i].status # "queued"
    BY <1>1, <1>2, <1>8 DEF DropEntry, Resting, Steps, Undisturbed, Inside, Released
  <2>2. HeldItemsHavePayload'
    BY <1>8, <2>1 DEF DropEntry, Without, HoldInv, HeldItemsHavePayload, TypeInv, TypeOK
  <2> DEFINE next == Moved(j, "judge")
  <2>3. next.pc = "judge" /\ next.open /\ Becomes(f, next)
    BY <1>1, <1>2, <1>8, <2>1, MovedGood DEF DropEntry, Goto, Moved, Undisturbed
  <2>4. ~ Released(f, next)
    BY <2>3 DEF Released
  <2> HIDE DEF next
  <2> QED BY <1>8, <2>1, <2>2, <2>3, <2>4, HoldStep DEF DropEntry
<1>9. ASSUME Judge(f) PROVE HoldInv'
  <2> DEFINE n    == IF j.released < DowngradeBatch THEN j.released + 1 ELSE j.released
             next == [j EXCEPT !.pc = "next", !.item = Null, !.tries = 0, !.released = n]
  <2>1. CASE rows[i].status = "failed"
    <3>1. /\ "requeue" \in Steps \ Resting /\ j.pc \notin Resting /\ lock[Process[f]] = f
          /\ Goto(f, "requeue") /\ UNCHANGED lock
      BY <1>2, <1>9, <2>1 DEF Judge, Steps, Resting, Undisturbed, Inside
    <3>2. ~ Released(f, Moved(j, "requeue"))
      BY <1>1, <1>9, <3>1, MovedGood DEF Released
    <3> QED BY <1>9, <3>1, <3>2, MildRest, HoldGoto DEF Judge
  <2>2. CASE rows[i].status # "failed"
    <3>1. next.pc = "next" /\ next.open
      <4> HIDE DEF n
      <4> QED BY <1>1, <1>2 DEF Worker, Undisturbed
    <3>2. ~ Inside(f, next) /\ ~ Released(f, next)
      <4> HIDE DEF next
      <4> QED BY <3>1 DEF Inside, Released
    <3>3. Leave(f) /\ Becomes(f, next)
      BY <1>9, <2>2 DEF Judge
    <3> HIDE DEF next
    <3> QED BY <1>9, <3>1, <3>2, <3>3, MildRest, HoldStep DEF Judge
  <2> QED BY <2>1, <2>2
<1>10. ASSUME GiveUpRelease(f) PROVE HoldInv'
  <2>1. i \in Items /\ rows[i] \in Row
    BY <1>1, <1>10 DEF GiveUpRelease, Resting
  <2>2. Mild
    <3>1. DropRow(rows[i]).status = "gave_up"
      BY <2>1, QueuedRows
    <3>2. rows' = [rows EXCEPT ![i] = DropRow(rows[i])]
      BY <1>10, <2>1 DEF GiveUpRelease, TypeInv, TypeOK
    <3> QED BY <1>10, <2>1, <3>1, <3>2, MildRow DEF GiveUpRelease
  <2> QED BY <1>10, <2>2, HoldDone DEF GiveUpRelease
<1>11. ASSUME Requeue(f) PROVE HoldInv'
  <2>1. i \in Items /\ lock[Process[f]] = f
    BY <1>1, <1>2, <1>11 DEF Requeue, Resting, Undisturbed, Inside
  <2>2. CASE rows[i].status = "failed"
    <3>1. queue' = Upserted(i, NextTry(f)) /\ rows' = [rows EXCEPT ![i] = RequeueRow(rows[i])]
      BY <1>11, <2>2 DEF Requeue
    <3>2. HeldItemsHavePayload'
      BY <2>1, <3>1, UpsertedType, NextTryType DEF HoldInv, HeldItemsHavePayload, TypeInv, TypeOK
    <3> QED BY <1>11, <2>1, <3>2, HoldDone DEF Requeue
  <2>3. CASE rows[i].status # "failed"
    <3>1. UNCHANGED queue /\ rows' = [rows EXCEPT ![i] = rows[i]]
      BY <1>11, <2>3 DEF Requeue, RequeueRow
    <3>2. Mild
      BY <2>1, <3>1, MildRow
    <3> QED BY <1>11, <3>2, HoldDone DEF Requeue
  <2> QED BY <2>2, <2>3
<1>12. ASSUME Recover(f) PROVE HoldInv'
  <2>1. i \in Items /\ lock[Process[f]] = f /\ j.tries \in 0..AttemptBound
    BY <1>1, <1>2, <1>12 DEF Recover, Resting, Undisturbed, Inside, Worker
  <2>2. CASE Owns(rows[i], f)
    <3>1. queue' = Upserted(i, j.tries) /\ rows' = [rows EXCEPT ![i] = ReturnRow(rows[i], f)]
      BY <1>12, <2>2 DEF Recover
    <3>2. HeldItemsHavePayload'
      BY <2>1, <3>1, UpsertedType DEF HoldInv, HeldItemsHavePayload, TypeInv, TypeOK
    <3> QED BY <1>12, <2>1, <3>2, HoldDone DEF Recover
  <2>3. CASE ~ Owns(rows[i], f)
    <3>1. UNCHANGED queue /\ rows' = [rows EXCEPT ![i] = rows[i]]
      BY <1>12, <2>3 DEF Recover, ReturnRow
    <3>2. Mild
      BY <2>1, <3>1, MildRow
    <3> QED BY <1>12, <3>2, HoldDone DEF Recover
  <2> QED BY <2>2, <2>3
<1>13. ASSUME EndFlush(f) PROVE HoldInv'
  <2>1. Mild
    BY <1>13, UnreadType DEF EndFlush, Mild
  <2>2. ~ Inside(f, Rest) /\ ~ Released(f, Rest)
    BY RestGood DEF Inside, Released
  <2> QED BY <1>13, <2>1, <2>2, RestGood, HoldStep DEF EndFlush
<1> QED BY <1>3, <1>4, <1>5, <1>6, <1>7, <1>8, <1>9, <1>10, <1>11, <1>12, <1>13 DEF Flush

LEMMA HoldFault ==
  ASSUME TypeInv, HoldInv, OneProcessOnly
  PROVE  /\ \A w \in Workers : Escape(w) => HoldInv'
         /\ \A p \in Processes : Crash(p) => HoldInv'
<1>1. ASSUME NEW w \in Workers, Escape(w) PROVE HoldInv'
  <2>1. /\ worker[w] \in Worker /\ worker[w].item \in Items
        /\ worker[w].pc \notin Resting /\ worker[w].open
    BY <1>1 DEF Escape, TypeInv, GoodWorker, Resting, HoldInv, Undisturbed
  <2>2. Mild /\ UNCHANGED echo
    BY <1>1, MildRest DEF Escape
  <2>3. CASE w \in Flushers /\ worker[w].pc \in {"prepare", "record"}
    <3>1. Goto(w, "recover") /\ UNCHANGED lock /\ "recover" \in Steps \ Resting
      BY <1>1, <2>3 DEF Escape, Steps, Resting
    <3>2. lock[Process[w]] = w
      BY <2>3 DEF HoldInv, Undisturbed, Inside
    <3>3. ~ Released(w, Moved(worker[w], "recover"))
      BY <2>1, <3>1, MovedGood DEF Released
    <3> QED BY <2>1, <2>2, <3>1, <3>2, <3>3, HoldGoto
  <2>4. CASE ~ (w \in Flushers /\ worker[w].pc \in {"prepare", "record"})
    <3>1. PICK j \in {Freed(worker[w]), Rest} : Becomes(w, j) /\ Leave(w)
      BY <1>1, <2>4 DEF Escape, Freed
    <3>2. j.pc \in Resting /\ j.open
      BY <2>1, <3>1, FreedGood, RestGood DEF Resting
    <3>3. ~ Inside(w, j) /\ ~ Released(w, j)
      BY <3>2 DEF Inside, Released, Resting
    <3> QED BY <2>2, <3>1, <3>2, <3>3, HoldStep DEF Resting
  <2> QED BY <2>3, <2>4
<1>2. ASSUME NEW p \in Processes, Crash(p) PROVE HoldInv'
  <2>1. Mild
    BY <1>2, UnreadType DEF Crash, Mild
  <2>2. HeldItemsHavePayload' /\ echo'.enabled
    BY <1>2, <2>1 DEF Crash, HoldInv, Mild, HeldItemsHavePayload
  <2>3. ASSUME NEW v \in Workers, Process[v] = p PROVE Undisturbed(v)'
    <3>1. worker'[v] = Rest
      BY <1>2, <2>3 DEF Crash
    <3> QED BY <3>1, RestGood DEF Undisturbed, Inside, Released
  <2>4. ASSUME NEW v \in Workers, Process[v] # p PROVE Undisturbed(v)'
    <3>1. worker'[v] = worker[v]
      BY <1>2, <2>4 DEF Crash
    <3>2. lock'[Process[v]] = lock[Process[v]]
      BY <1>2, <2>4, DripWorkerAssumption DEF Crash, TypeInv, TypeOK
    <3>3. worker[v].pc \notin Resting => worker[v].item \in Items
      BY DEF TypeInv, GoodWorker
    <3> QED BY <2>1, <3>1, <3>2, <3>3 DEF HoldInv, Undisturbed, Mild, Inside, Released, Resting
  <2> QED BY <2>2, <2>3, <2>4 DEF HoldInv
<1> QED BY <1>1, <1>2

LEMMA HoldWorldSteps ==
  ASSUME TypeInv, HoldInv, "toggle" \notin Routes
  PROVE  /\ \A i \in Items : MovePast(i) \/ RetryPost(i) \/ GiveUpPost(i) => HoldInv'
         /\ ToggleEcho \/ EditLimit \/ Tick => HoldInv'
<1>1. ASSUME NEW i \in Items, MovePast(i) PROVE HoldInv'
  BY <1>1, MildRest, HoldWorld DEF MovePast, HoldInv
<1>2. ASSUME NEW i \in Items, RetryPost(i) \/ GiveUpPost(i) PROVE HoldInv'
  <2>1. rows[i] \in Row
    BY DEF TypeInv, TypeOK
  <2>2. RetryRow(rows[i]).status = "failed" /\ GiveUpRow(rows[i]).status = "gave_up"
    BY <2>1 DEF RetryRow, GiveUpRow, Row
  <2>3. Mild
    BY <1>2, <2>2, MildRow DEF RetryPost, GiveUpPost
  <2> QED BY <1>2, <2>3, HoldWorld DEF RetryPost, GiveUpPost, HoldInv
<1>3. ~ ToggleEcho
  BY DEF ToggleEcho
<1>4. ASSUME EditLimit PROVE HoldInv'
  <2>1. echo'.enabled = echo.enabled
    BY <1>4 DEF EditLimit, TypeInv, TypeOK
  <2> QED BY <1>4, <2>1, MildRest, HoldWorld DEF EditLimit, HoldInv
<1>5. ASSUME Tick PROVE HoldInv'
  <2>1. \A i \in Items : rows'[i].status = rows[i].status
    BY <1>5 DEF Tick, AgeRow, TypeInv, TypeOK, Row
  <2>2. Mild
    BY <1>5, <2>1 DEF Tick, Mild
  <2> QED BY <1>5, <2>2, HoldWorld DEF Tick, HoldInv
<1> QED BY <1>1, <1>2, <1>3, <1>4, <1>5

LEMMA HoldNext ==
  ASSUME TypeInv, HoldInv, OneProcessOnly, "toggle" \notin Routes, [Next]_vars
  PROVE  HoldInv'
<1>1. CASE Next
  BY <1>1, HoldCheck, HoldDispatch, HoldFlush, HoldFault, HoldWorldSteps DEF Next
<1>2. CASE UNCHANGED vars
  BY <1>2, MildRest, HoldWorld DEF vars, HoldInv
<1> QED BY <1>1, <1>2

\* No held item is lost: in one process, and as long as the echo is not disabled,
\* every queued row has the payload it is to be released from, whatever fails
\* or dies between the transactions of a hold and of a release.
THEOREM HeldItemsKept ==
  ASSUME OneProcessOnly, "toggle" \notin Routes
  PROVE  Spec => []HeldItemsHavePayload
<1>1. Init => TypeInv /\ HoldInv
  BY TypeInit, HoldInit
<1>2. TypeInv /\ HoldInv /\ [Next]_vars => (TypeInv /\ HoldInv)'
  BY TypeStep, HoldNext
<1>3. HoldInv => HeldItemsHavePayload
  BY DEF HoldInv
<1> QED BY <1>1, <1>2, <1>3, PTL DEF Spec
-----------------------------------------------------------------------------
(* A delivered item stays delivered: every statement is fenced by the      *)
(* status or the token it expects, but for the give-up at the last try.    *)

LEMMA SuccessStays ==
  ASSUME NEW r \in Row, r.status = "success", NEW w \in Workers
  PROVE  /\ ~ Claimable(r)
         /\ \A permanent \in BOOLEAN : FailRow(r, w, permanent) = r
         /\ \A status \in Statuses : FinalizeRow(r, w, status) = r
         /\ AbandonRow(r) = r /\ RequeueRow(r) = r /\ ReturnRow(r, w) = r /\ DiscardRow(r) = r
         /\ AgeRow(r).status = r.status
<1>1. ~ Owns(r, w) /\ ~ Claimable(r)
  BY DEF Owns, Claimable
<1>2. /\ \A permanent \in BOOLEAN : FailRow(r, w, permanent) = r
      /\ \A status \in Statuses : FinalizeRow(r, w, status) = r
      /\ ReturnRow(r, w) = r
  BY <1>1 DEF FailRow, FinalizeRow, ReturnRow
<1>3. AbandonRow(r) = r /\ RequeueRow(r) = r /\ DiscardRow(r) = r
  BY DEF AbandonRow, RequeueRow, DiscardRow
<1>4. AgeRow(r).status = r.status
  BY DEF AgeRow, Row
<1> QED BY <1>1, <1>2, <1>3, <1>4

\* The steps that write the row of one item.
LEMMA DeliveredRow ==
  ASSUME TypeInv, NEW i \in Items, NEW r, rows' = [rows EXCEPT ![i] = r],
         rows[i].status = "success" => r = rows[i],
         NEW k \in Items, rows[k].status = "success"
  PROVE  rows'[k].status = "success"
BY DEF TypeInv, TypeOK

LEMMA DeliveredWorker ==
  ASSUME TypeInv, NEW w \in Workers, NEW k \in Items, rows[k].status = "success",
         MaxAttempts = 0
  PROVE  /\ Check(w) \/ Dispatch(w) \/ Flush(w) => rows'[k].status = "success"
         /\ \A i \in Items : NextItem(w, i) \/ SweepAbandons(w, i) => rows'[k].status = "success"
<1> DEFINE j == worker[w]
           i == j.item
<1>1. /\ j.pc \notin Resting => i \in Items /\ rows[i] \in Row
      /\ \A n \in Items : rows[n] \in Row
  BY DEF TypeInv, TypeOK, GoodWorker
<1>2. ASSUME Claim(w) PROVE rows'[k].status = "success"
  <2>1. i \in Items /\ rows[i] \in Row
    BY <1>1, <1>2 DEF Claim, Resting
  <2>2. CASE Claimable(rows[i])
    <3>1. rows' = [rows EXCEPT ![i] = ClaimRow(rows[i], w)]
      BY <1>2, <2>2 DEF Claim
    <3>2. rows[i].status # "success"
      BY <2>2 DEF Claimable
    <3> QED BY <2>1, <3>1, <3>2, DeliveredRow
  <2>3. CASE ~ Claimable(rows[i])
    BY <1>2, <2>3 DEF Claim
  <2> QED BY <2>2, <2>3
<1>3. ASSUME DropWhenFull(w) \/ MarkQueued(w) \/ RecordSuccess(w) PROVE rows'[k].status = "success"
  <2>1. i \in Items /\ rows[i] \in Row
    BY <1>1, <1>3 DEF DropWhenFull, MarkQueued, RecordSuccess, Resting
  <2>2. PICK r \in {FailRow(rows[i], w, TRUE), FinalizeRow(rows[i], w, "queued"),
                    FinalizeRow(rows[i], w, "success")} : rows' = [rows EXCEPT ![i] = r]
    BY <1>3 DEF DropWhenFull, MarkQueued, RecordSuccess
  <2>3. rows[i].status = "success" => r = rows[i]
    <3>1. "queued" \in Statuses /\ "success" \in Statuses /\ TRUE \in BOOLEAN
      BY DEF Statuses
    <3> QED BY <2>1, <2>2, <3>1, SuccessStays
  <2> QED BY <2>1, <2>2, <2>3, DeliveredRow
<1>4. ASSUME PreparationFails(w) \/ RecordFailure(w) PROVE rows'[k].status = "success"
  <2>1. i \in Items /\ rows[i] \in Row
    BY <1>1, <1>4 DEF PreparationFails, RecordFailure, Resting
  <2>2. PICK permanent \in BOOLEAN : rows' = [rows EXCEPT ![i] = FailRow(rows[i], w, permanent)]
    BY <1>4 DEF PreparationFails, RecordFailure
  <2>3. rows[i].status = "success" => FailRow(rows[i], w, permanent) = rows[i]
    BY <2>1, SuccessStays
  <2> QED BY <2>1, <2>2, <2>3, DeliveredRow
<1>5. ASSUME Take(w) PROVE rows'[k].status = "success"
  <2>1. i \in Items
    BY <1>1, <1>5 DEF Take, Resting
  <2>2. CASE rows[i].status = "queued"
    <3>1. rows' = [rows EXCEPT ![i] = TakeQueuedRow(rows[i], w)]
      BY <1>5, <2>2 DEF Take
    <3> QED BY <2>1, <2>2, <3>1, DeliveredRow
  <2>3. CASE rows[i].status # "queued"
    BY <1>5, <2>3 DEF Take
  <2> QED BY <2>2, <2>3
<1>6. ASSUME Requeue(w) \/ Recover(w) PROVE rows'[k].status = "success"
  <2>1. i \in Items /\ rows[i] \in Row
    BY <1>1, <1>6 DEF Requeue, Recover, Resting
  <2>2. PICK r \in {RequeueRow(rows[i]), ReturnRow(rows[i], w)} : rows' = [rows EXCEPT ![i] = r]
    BY <1>6 DEF Requeue, Recover
  <2>3. rows[i].status = "success" => r = rows[i]
    BY <2>1, <2>2, SuccessStays
  <2> QED BY <2>1, <2>2, <2>3, DeliveredRow
<1>7. ~ GiveUpRelease(w)
  BY AttemptAssumption DEF GiveUpRelease, LastTry
<1>8. ASSUME DiscardBacklog(w) PROVE rows'[k].status = "success"
  BY <1>1, <1>8, SuccessStays DEF DiscardBacklog
<1>9. ASSUME NEW n \in Items, SweepAbandons(w, n) PROVE rows'[k].status = "success"
  <2>1. rows' = [rows EXCEPT ![n] = AbandonRow(rows[n])]
    BY <1>9 DEF SweepAbandons
  <2>2. rows[n].status = "success" => AbandonRow(rows[n]) = rows[n]
    BY <1>1, SuccessStays
  <2> QED BY <2>1, <2>2, DeliveredRow
<1>10. ASSUME NEW n \in Items, NextItem(w, n) PROVE rows'[k].status = "success"
  BY <1>10 DEF NextItem
<1>11. ASSUME \/ StartCheck(w) \/ EndCheck(w) \/ Enter(w) \/ CheckRate(w) \/ FindRoom(w)
              \/ StorePayload(w) \/ GuardAndSend(w) \/ ReadQueue(w) \/ EnterFlush(w)
              \/ CheckWindow(w) \/ DropEntry(w) \/ Judge(w) \/ EndFlush(w)
       PROVE  rows'[k].status = "success"
  BY <1>11 DEF StartCheck, EndCheck, Enter, CheckRate, FindRoom, StorePayload, GuardAndSend,
     ReadQueue, EnterFlush, CheckWindow, DropEntry, Judge, EndFlush
<1> QED BY <1>2, <1>3, <1>4, <1>5, <1>6, <1>7, <1>8, <1>9, <1>10, <1>11
        DEF Check, Dispatch, Flush

LEMMA DeliveredStep ==
  ASSUME TypeInv, [Next]_vars, MaxAttempts = 0, NEW k \in Items, rows[k].status = "success"
  PROVE  rows'[k].status = "success"
<1>1. ASSUME NEW w \in Workers, Escape(w) PROVE rows'[k].status = "success"
  BY <1>1 DEF Escape
<1>2. ASSUME NEW p \in Processes, Crash(p) PROVE rows'[k].status = "success"
  BY <1>2 DEF Crash
<1>3. ASSUME NEW i \in Items, RetryPost(i) \/ GiveUpPost(i) PROVE rows'[k].status = "success"
  <2>1. PICK r : rows' = [rows EXCEPT ![i] = r] /\ rows[i].status # "success"
    BY <1>3 DEF RetryPost, GiveUpPost
  <2> QED BY <2>1, DeliveredRow
<1>4. ASSUME NEW i \in Items, MovePast(i) PROVE rows'[k].status = "success"
  BY <1>4 DEF MovePast
<1>5. ASSUME ToggleEcho \/ EditLimit \/ UNCHANGED vars PROVE rows'[k].status = "success"
  BY <1>5 DEF ToggleEcho, EditLimit, vars
<1>6. ASSUME Tick PROVE rows'[k].status = "success"
  BY <1>6 DEF Tick, AgeRow, TypeInv, TypeOK, Row
<1> QED BY <1>1, <1>2, <1>3, <1>4, <1>5, <1>6, DeliveredWorker DEF Next

\* A delivered item stays delivered: no late release, retry, discard or crash reopens
\* or rewrites its row, where attempts are not limited (the give-up at the limit is the
\* one statement that is not fenced).
THEOREM DeliveredStays ==
  ASSUME MaxAttempts = 0
  PROVE  Spec => DeliveredForGood
<1> DEFINE Keeps == \A i \in Items : rows[i].status = "success" => rows'[i].status = "success"
<1>1. TypeInv /\ [Next]_vars => [Keeps]_vars
  BY DeliveredStep
<1>2. Spec => [][Keeps]_vars
  BY <1>1, TypeInit, TypeStep, PTL DEF Spec
<1> QED BY <1>2 DEF DeliveredForGood

-----------------------------------------------------------------------------
(* The two caps of an echo, for any number of items, feed checks, flushes  *)
(* and faults, where one process runs everything: no more than DripLimit   *)
(* posts of the last 60 minutes, as long as the limit stays what it is;    *)
(* and no more than QueueCap held items, as long as the echo is enabled.   *)

\* Between its look at the window and the record of its post a worker holds the
\* lock ...
Guarding(j) == j.pc \notin {"idle", "next", "claim", "lock"}

\* ... and here it has found a place in the window that it may still fill.
Reserving(j) == j.pc \in {"take", "prepare", "record"}

Careful(w) ==
  /\ worker[w].pc # "idle" => worker[w].limit = DripLimit
  /\ Guarding(worker[w]) => lock[Process[w]] = w
  /\ Reserving(worker[w]) => Cardinality(InWindow) < DripLimit

CapInv ==
  /\ HourlyCap
  /\ echo.limit = DripLimit
  /\ \A w \in Workers : Careful(w)

\* A step that adds no post to the window.
Calm == InWindow' \subseteq InWindow

-----------------------------------------------------------------------------
(* The window.                                                             *)

LEMMA WindowFinite ==
  /\ IsFiniteSet(InWindow) /\ Cardinality(InWindow) \in Nat
  /\ IsFiniteSet(InWindow') /\ Cardinality(InWindow') \in Nat
<1>1. InWindow \in SUBSET Items /\ InWindow' \in SUBSET Items
  BY DEF InWindow
<1> QED BY <1>1, FS_Subset, FS_CardinalityType, DripBoundAssumption

LEMMA CalmCount ==
  ASSUME Calm
  PROVE  Cardinality(InWindow') <= Cardinality(InWindow)
BY WindowFinite, FS_Subset DEF Calm

LEMMA CalmRest ==
  ASSUME UNCHANGED <<rows, recent>>
  PROVE  Calm
BY DEF Calm, InWindow

LEMMA CalmRow ==
  ASSUME TypeInv, UNCHANGED recent, NEW i \in Items, NEW r,
         rows' = [rows EXCEPT ![i] = r],
         r.status = "success" => rows[i].status = "success"
  PROVE  Calm
<1>1. \A k \in Items : rows'[k].status = "success" => rows[k].status = "success"
  BY DEF TypeInv, TypeOK
<1> QED BY <1>1 DEF Calm, InWindow

\* No statement but the record of a success makes a row successful.
LEMMA SuccessRows ==
  ASSUME NEW r \in Row, NEW w \in Workers
  PROVE  /\ ClaimRow(r, w).status = "pending"
         /\ \A permanent \in BOOLEAN :
              FailRow(r, w, permanent).status = "success" => r.status = "success"
         /\ FinalizeRow(r, w, "queued").status = "success" => r.status = "success"
         /\ AbandonRow(r).status = "success" => r.status = "success"
         /\ TakeQueuedRow(r, w).status = "success" => r.status = "success"
         /\ RequeueRow(r).status = "success" => r.status = "success"
         /\ ReturnRow(r, w).status = "success" => r.status = "success"
         /\ DiscardRow(r).status = "success" => r.status = "success"
         /\ RetryRow(r).status = "failed"
         /\ GiveUpRow(r).status = "gave_up"
         /\ DropRow(r).status = "gave_up"
         /\ AgeRow(r).status = r.status
<1>1. ClaimRow(r, w).status = "pending"
  BY DEF ClaimRow, Row
<1>2. \A permanent \in BOOLEAN : FailRow(r, w, permanent).status = "success" => r.status = "success"
  BY DEF FailRow, FailureStatus, Row
<1>3. FinalizeRow(r, w, "queued").status = "success" => r.status = "success"
  BY DEF FinalizeRow, Row
<1>4. /\ AbandonRow(r).status = "success" => r.status = "success"
      /\ TakeQueuedRow(r, w).status = "success" => r.status = "success"
  BY DEF AbandonRow, TakeQueuedRow, Row
<1>5. /\ RequeueRow(r).status = "success" => r.status = "success"
      /\ ReturnRow(r, w).status = "success" => r.status = "success"
  BY DEF RequeueRow, ReturnRow, Row
<1>6. DropRow(r).status = "gave_up"
  BY DEF DropRow, Row
<1>7. DiscardRow(r).status = "success" => r.status = "success"
  BY <1>6 DEF DiscardRow
<1>8. RetryRow(r).status = "failed" /\ GiveUpRow(r).status = "gave_up"
  BY DEF RetryRow, GiveUpRow, Row
<1>9. AgeRow(r).status = r.status
  BY DEF AgeRow, Row
<1> QED BY <1>1, <1>2, <1>3, <1>4, <1>5, <1>6, <1>7, <1>8, <1>9

-----------------------------------------------------------------------------
(* The ways in which a worker goes on.                                     *)

LEMMA CapInit == Init => CapInv
<1> SUFFICES ASSUME Init PROVE CapInv
  OBVIOUS
<1>1. InWindow = {}
  BY DEF Init, InWindow, Absent
<1>2. HourlyCap
  BY <1>1, FS_EmptySet, DripBoundAssumption DEF HourlyCap
<1>3. \A w \in Workers : Careful(w)
  BY RestGood DEF Init, Careful, Guarding, Reserving
<1> QED BY <1>2, <1>3 DEF Init, CapInv

\* What a worker that moves to state j has to leave behind.
LEMMA CapStep ==
  ASSUME TypeInv, CapInv, OneProcessOnly, NEW w \in Workers, NEW j, Becomes(w, j),
         UNCHANGED echo,
         \/ UNCHANGED lock
         \/ Leave(w)
         \/ lock[Process[w]] = Null /\ lock' = [lock EXCEPT ![Process[w]] = w],
         Calm \/ (lock[Process[w]] = w /\ HourlyCap'),
         j.pc # "idle" => j.limit = DripLimit,
         Guarding(j) => lock'[Process[w]] = w,
         Reserving(j) => Cardinality(InWindow') < DripLimit
  PROVE  CapInv'
<1>1. worker' = [worker EXCEPT ![w] = j] /\ worker \in [Workers -> Worker]
  BY DEF Becomes, TypeInv, TypeOK
<1>2. HourlyCap'
  BY CalmCount, WindowFinite, DripBoundAssumption DEF CapInv, HourlyCap
<1>3. Careful(w)'
  <2>1. worker'[w] = j
    BY <1>1
  <2> QED BY <2>1 DEF Careful, Guarding, Reserving
<1>4. ASSUME NEW v \in Workers, v # w PROVE Careful(v)'
  <2>1. worker'[v] = worker[v] /\ Process[v] = Process[w] /\ Careful(v)
    BY <1>1, <1>4 DEF OneProcessOnly, CapInv
  <2>2. Process[w] \in Processes /\ lock \in [Processes -> Workers \cup {Null}] /\ v # Null
    BY DripWorkerAssumption, NullAssumption DEF TypeInv, TypeOK
  <2>3. Guarding(worker[v]) => lock[Process[v]] = v /\ lock'[Process[v]] = v
    BY <1>4, <2>1, <2>2 DEF Careful, Leave
  <2>4. ASSUME Reserving(worker[v]) PROVE Cardinality(InWindow') < DripLimit
    <3>1. Guarding(worker[v]) /\ Cardinality(InWindow) < DripLimit
      BY <2>1, <2>4 DEF Careful, Reserving, Guarding
    <3>2. Calm
      BY <1>4, <2>1, <2>3, <3>1
    <3> QED BY <3>1, <3>2, CalmCount, WindowFinite, DripBoundAssumption
  <2> QED BY <2>1, <2>3, <2>4 DEF Careful, Guarding, Reserving
<1> QED BY <1>2, <1>3, <1>4 DEF CapInv

LEMMA CapDone ==
  ASSUME TypeInv, CapInv, OneProcessOnly, NEW w \in Workers, Done(w), UNCHANGED echo,
         worker[w].pc # "idle", Calm \/ (lock[Process[w]] = w /\ HourlyCap')
  PROVE  CapInv'
<1>1. worker[w] \in Worker /\ worker[w].limit = DripLimit
  BY DEF TypeInv, GoodWorker, CapInv, Careful
<1>2. /\ Becomes(w, Freed(worker[w])) /\ Leave(w)
      /\ Freed(worker[w]).pc = "next" /\ Freed(worker[w]).limit = DripLimit
  BY <1>1 DEF Done, Freed, Worker
<1>3. ~ Guarding(Freed(worker[w])) /\ ~ Reserving(Freed(worker[w]))
  BY <1>2 DEF Guarding, Reserving
<1> QED BY <1>2, <1>3, CapStep

\* A calm step to another step of the same item.
LEMMA CapGoto ==
  ASSUME TypeInv, CapInv, OneProcessOnly, NEW w \in Workers, NEW step \in Steps \ Resting,
         Goto(w, step), UNCHANGED echo, worker[w].pc \notin Resting, Calm,
         UNCHANGED lock \/ (lock[Process[w]] = Null /\ lock' = [lock EXCEPT ![Process[w]] = w]),
         step \notin {"claim", "lock"} => lock'[Process[w]] = w,
         step \in {"take", "prepare", "record"} => Cardinality(InWindow) < DripLimit
  PROVE  CapInv'
<1> DEFINE j == Moved(worker[w], step)
<1>1. worker[w] \in Worker /\ worker[w].limit = DripLimit
  BY DEF TypeInv, GoodWorker, CapInv, Careful, Resting
<1>2. Becomes(w, j) /\ j.pc = step /\ j.limit = DripLimit
  BY <1>1 DEF Goto, Moved, Worker
<1>3. Cardinality(InWindow) < DripLimit => Cardinality(InWindow') < DripLimit
  BY CalmCount, WindowFinite, DripBoundAssumption
<1> HIDE DEF j
<1>4. /\ Guarding(j) => lock'[Process[w]] = w
      /\ Reserving(j) => Cardinality(InWindow') < DripLimit
  BY <1>2, <1>3 DEF Guarding, Reserving
<1> QED BY <1>2, <1>4, CapStep

\* The sender returns.
LEMMA CapDispatched ==
  ASSUME TypeInv, CapInv, OneProcessOnly, NEW w \in Workers, Dispatched(w),
         worker[w].pc \in {"prepare", "record"}, UNCHANGED echo, Calm \/ HourlyCap'
  PROVE  CapInv'
<1>1. lock[Process[w]] = w /\ worker[w] \in Worker /\ worker[w].limit = DripLimit
  BY DEF TypeInv, GoodWorker, CapInv, Careful, Guarding
<1>2. CASE w \in Flushers
  <2> DEFINE j == Moved(worker[w], "drop")
  <2>1. Becomes(w, j) /\ UNCHANGED lock /\ j.pc = "drop" /\ j.limit = DripLimit
    BY <1>1, <1>2 DEF Dispatched, Goto, Moved, Worker
  <2> HIDE DEF j
  <2>2. ~ Reserving(j)
    BY <2>1 DEF Reserving
  <2> QED BY <1>1, <2>1, <2>2, CapStep
<1>3. CASE w \notin Flushers
  BY <1>1, <1>3, CapDone DEF Dispatched
<1> QED BY <1>2, <1>3

\* Nobody moves.
LEMMA CapWorld ==
  ASSUME TypeInv, CapInv, UNCHANGED <<lock, worker>>, echo'.limit = echo.limit, Calm
  PROVE  CapInv'
<1>1. Cardinality(InWindow') <= Cardinality(InWindow)
  BY CalmCount
<1>2. HourlyCap'
  BY <1>1, WindowFinite, DripBoundAssumption DEF CapInv, HourlyCap
<1>3. ASSUME NEW w \in Workers PROVE Careful(w)'
  <2>1. Careful(w)
    BY DEF CapInv
  <2> QED BY <1>1, <2>1, WindowFinite, DripBoundAssumption DEF Careful, Guarding, Reserving
<1> QED BY <1>2, <1>3 DEF CapInv

-----------------------------------------------------------------------------
(* The steps of a check and of a sender ...                                *)

LEMMA CapCheck ==
  ASSUME TypeInv, CapInv, OneProcessOnly, NEW w \in Workers
  PROVE  /\ Check(w) => CapInv'
         /\ \A i \in Items : NextItem(w, i) \/ SweepAbandons(w, i) => CapInv'
<1> DEFINE j == worker[w]
           i == j.item
<1>1. j \in Worker /\ (j.pc \notin Resting => i \in Items /\ rows[i] \in Row)
  BY DEF TypeInv, TypeOK, GoodWorker
<1>2. Careful(w)
  BY DEF CapInv
<1>3. ASSUME StartCheck(w) PROVE CapInv'
  <2> DEFINE next == [Rest EXCEPT !.pc = "next", !.limit = echo.limit]
  <2>1. next.pc = "next" /\ next.limit = DripLimit /\ Becomes(w, next)
    BY <1>3, RestGood DEF StartCheck, Worker, CapInv
  <2> HIDE DEF next
  <2>2. ~ Guarding(next) /\ ~ Reserving(next)
    BY <2>1 DEF Guarding, Reserving
  <2> QED BY <1>3, <2>1, <2>2, CalmRest, CapStep DEF StartCheck
<1>4. ASSUME EndCheck(w) PROVE CapInv'
  <2>1. ~ Guarding(Rest) /\ ~ Reserving(Rest)
    BY RestGood DEF Guarding, Reserving
  <2> QED BY <1>4, <2>1, RestGood, CalmRest, CapStep DEF EndCheck
<1>5. ASSUME Claim(w) PROVE CapInv'
  <2>1. i \in Items /\ rows[i] \in Row /\ j.pc \notin Resting /\ j.pc # "idle" /\ j.limit > 0
    BY <1>1, <1>2, <1>5, DripBoundAssumption DEF Claim, Resting, Careful
  <2>2. CASE Claimable(rows[i])
    <3>1. /\ rows' = [rows EXCEPT ![i] = ClaimRow(rows[i], w)]
          /\ Goto(w, "lock") /\ UNCHANGED <<recent, echo, lock>>
      BY <1>5, <2>1, <2>2 DEF Claim
    <3>2. ClaimRow(rows[i], w).status = "pending"
      BY <2>1, SuccessRows
    <3>3. Calm
      BY <2>1, <3>1, <3>2, CalmRow
    <3>4. "lock" \in Steps \ Resting
      BY DEF Steps, Resting
    <3> QED BY <2>1, <3>1, <3>3, <3>4, CapGoto
  <2>3. CASE ~ Claimable(rows[i])
    BY <1>5, <2>1, <2>3, CalmRest, CapDone DEF Claim
  <2> QED BY <2>2, <2>3
<1>6. ASSUME Enter(w) PROVE CapInv'
  <2>1. /\ Goto(w, "rate") /\ "rate" \in Steps \ Resting /\ j.pc \notin Resting
        /\ lock[Process[w]] = Null /\ lock' = [lock EXCEPT ![Process[w]] = w]
    BY <1>6 DEF Enter, Steps, Resting
  <2>2. lock'[Process[w]] = w
    BY <2>1, DripWorkerAssumption DEF TypeInv, TypeOK
  <2> QED BY <1>6, <2>1, <2>2, CalmRest, CapGoto DEF Enter
<1>7. ASSUME CheckRate(w) PROVE CapInv'
  <2>1. /\ j.pc \notin Resting /\ j.limit = DripLimit /\ lock[Process[w]] = w
        /\ {"hold", "prepare"} \subseteq Steps \ Resting
    BY <1>2, <1>7 DEF CheckRate, Resting, Steps, Careful, Guarding
  <2>2. CASE WindowFull(DripLimit)
    BY <1>7, <2>1, <2>2, CalmRest, CapGoto DEF CheckRate
  <2>3. CASE ~ WindowFull(DripLimit)
    <3>1. Cardinality(InWindow) < DripLimit
      BY <2>3, WindowFinite, DripBoundAssumption DEF WindowFull
    <3> QED BY <1>7, <2>1, <2>3, <3>1, CalmRest, CapGoto DEF CheckRate
  <2> QED BY <2>2, <2>3
<1>8. ASSUME DropWhenFull(w) PROVE CapInv'
  <2>1. i \in Items /\ rows[i] \in Row /\ j.pc # "idle"
    BY <1>1, <1>8 DEF DropWhenFull, Resting
  <2>2. FailRow(rows[i], w, TRUE).status = "success" => rows[i].status = "success"
    BY <2>1 DEF FailRow, FailureStatus, Row
  <2>3. Calm
    BY <1>8, <2>1, <2>2, CalmRow DEF DropWhenFull
  <2> QED BY <1>8, <2>1, <2>3, CapDone DEF DropWhenFull
<1>9. ASSUME FindRoom(w) \/ StorePayload(w) PROVE CapInv'
  <2>1. PICK step \in {"insert", "mark"} : Goto(w, step)
    BY <1>9 DEF FindRoom, StorePayload
  <2>2. step \in Steps \ Resting /\ j.pc \notin Resting /\ lock[Process[w]] = w
    BY <1>2, <1>9 DEF FindRoom, StorePayload, Steps, Resting, Careful, Guarding
  <2>3. Calm /\ UNCHANGED <<echo, lock>>
    BY <1>9, CalmRest DEF FindRoom, StorePayload
  <2> QED BY <2>1, <2>2, <2>3, CapGoto
<1>10. ASSUME MarkQueued(w) PROVE CapInv'
  <2>1. i \in Items /\ rows[i] \in Row /\ j.pc # "idle"
    BY <1>1, <1>10 DEF MarkQueued, Resting
  <2>2. FinalizeRow(rows[i], w, "queued").status = "success" => rows[i].status = "success"
    BY <2>1, SuccessRows
  <2>3. Calm
    BY <1>10, <2>1, <2>2, CalmRow DEF MarkQueued
  <2> QED BY <1>10, <2>1, <2>3, CapDone DEF MarkQueued
<1>11. ASSUME NEW k \in Items, NextItem(w, k) PROVE CapInv'
  <2> DEFINE next == [j EXCEPT !.pc = "claim", !.item = k]
  <2>1. next.pc = "claim" /\ next.limit = DripLimit /\ Becomes(w, next)
    BY <1>1, <1>2, <1>11 DEF NextItem, Worker, Careful
  <2> HIDE DEF next
  <2>2. ~ Guarding(next) /\ ~ Reserving(next)
    BY <2>1 DEF Guarding, Reserving
  <2> QED BY <1>11, <2>1, <2>2, CalmRest, CapStep DEF NextItem
<1>12. ASSUME NEW k \in Items, SweepAbandons(w, k) PROVE CapInv'
  <2>1. rows[k] \in Row
    BY DEF TypeInv, TypeOK
  <2>2. AbandonRow(rows[k]).status = "success" => rows[k].status = "success"
    BY <2>1, SuccessRows
  <2>3. Calm
    BY <1>12, <2>2, CalmRow DEF SweepAbandons
  <2> QED BY <1>12, <2>3, CapWorld DEF SweepAbandons
<1> QED BY <1>3, <1>4, <1>5, <1>6, <1>7, <1>8, <1>9, <1>10, <1>11, <1>12 DEF Check

LEMMA CapDispatch ==
  ASSUME TypeInv, CapInv, OneProcessOnly, NEW w \in Workers
  PROVE  Dispatch(w) => CapInv'
<1> DEFINE j == worker[w]
           i == j.item
<1>1. j \in Worker /\ (j.pc \notin Resting => i \in Items /\ rows[i] \in Row)
  BY DEF TypeInv, TypeOK, GoodWorker
<1>2. j.pc \in {"prepare", "record"} => lock[Process[w]] = w /\ Cardinality(InWindow) < DripLimit
  BY DEF CapInv, Careful, Guarding, Reserving
<1>3. ASSUME PreparationFails(w) \/ RecordFailure(w) PROVE CapInv'
  <2>1. i \in Items /\ rows[i] \in Row /\ j.pc \in {"prepare", "record"}
    BY <1>1, <1>3 DEF PreparationFails, RecordFailure, Resting
  <2>2. PICK permanent \in BOOLEAN : rows' = [rows EXCEPT ![i] = FailRow(rows[i], w, permanent)]
    BY <1>3 DEF PreparationFails, RecordFailure
  <2>3. FailRow(rows[i], w, permanent).status = "success" => rows[i].status = "success"
    BY <2>1, SuccessRows
  <2>4. UNCHANGED <<recent, echo>> /\ Dispatched(w)
    BY <1>3 DEF PreparationFails, RecordFailure
  <2>5. Calm
    BY <2>1, <2>2, <2>3, <2>4, CalmRow
  <2> QED BY <2>1, <2>4, <2>5, CapDispatched
<1>4. ASSUME GuardAndSend(w) PROVE CapInv'
  <2>1. j.pc = "prepare" /\ UNCHANGED echo /\ Calm
    BY <1>4, CalmRest DEF GuardAndSend
  <2>2. CASE Goto(w, "record") /\ UNCHANGED lock
    <3>1. "record" \in Steps \ Resting /\ j.pc \notin Resting
      BY <2>1 DEF Steps, Resting
    <3> QED BY <1>2, <2>1, <2>2, <3>1, CapGoto
  <2>3. CASE Dispatched(w)
    BY <2>1, <2>3, CapDispatched
  <2> QED BY <1>4, <2>2, <2>3 DEF GuardAndSend
<1>5. ASSUME RecordSuccess(w) PROVE CapInv'
  <2>1. i \in Items /\ j.pc = "record" /\ UNCHANGED echo /\ Dispatched(w)
    BY <1>1, <1>5 DEF RecordSuccess, Resting
  <2>2. InWindow' \subseteq InWindow \cup {i}
    <3>1. \A k \in Items \ {i} : rows'[k] = rows[k] /\ recent'[k] = recent[k]
      BY <1>5 DEF RecordSuccess, TypeInv, TypeOK
    <3> QED BY <3>1 DEF InWindow
  <2>3. /\ IsFiniteSet(InWindow \cup {i})
        /\ Cardinality(InWindow \cup {i}) <= Cardinality(InWindow) + 1
    BY WindowFinite, FS_AddElement
  <2>4. Cardinality(InWindow') <= Cardinality(InWindow \cup {i})
    BY <2>2, <2>3, FS_Subset
  <2>5. Cardinality(InWindow \cup {i}) \in Nat
    BY <2>3, FS_CardinalityType
  <2>6. HourlyCap'
    BY <1>2, <2>1, <2>3, <2>4, <2>5, WindowFinite, DripBoundAssumption DEF HourlyCap
  <2> QED BY <2>1, <2>6, CapDispatched
<1> QED BY <1>3, <1>4, <1>5 DEF Dispatch

-----------------------------------------------------------------------------
(* ... of a flush, faults and the world.                                   *)

LEMMA CapFlush ==
  ASSUME TypeInv, CapInv, OneProcessOnly, NEW f \in Workers
  PROVE  Flush(f) => CapInv'
<1> DEFINE j == worker[f]
           i == j.item
<1>1. j \in Worker /\ (j.pc \notin Resting => i \in Items /\ rows[i] \in Row)
  BY DEF TypeInv, TypeOK, GoodWorker
<1>2. /\ j.pc # "idle" => j.limit = DripLimit
      /\ Guarding(j) => lock[Process[f]] = f
      /\ Reserving(j) => Cardinality(InWindow) < DripLimit
  BY DEF CapInv, Careful
<1>3. ASSUME ReadQueue(f) PROVE CapInv'
  <2> DEFINE batch == {<<k, queue[k].tries>> : k \in Held}
             next  == [Rest EXCEPT !.pc = "next", !.limit = echo.limit, !.open = echo.enabled,
                                   !.batch = batch]
  <2>1. next.pc = "next" /\ next.limit = DripLimit
    <3> HIDE DEF batch
    <3> QED BY RestGood DEF Worker, CapInv
  <2>2. Becomes(f, next) /\ UNCHANGED <<echo, lock>> /\ Calm
    BY <1>3, CalmRest DEF ReadQueue
  <2> HIDE DEF next
  <2>3. ~ Guarding(next) /\ ~ Reserving(next)
    BY <2>1 DEF Guarding, Reserving
  <2> QED BY <2>1, <2>2, <2>3, CapStep
<1>4. ASSUME DiscardBacklog(f) PROVE CapInv'
  <2>1. \A k \in Items : rows[k] \in Row
    BY DEF TypeInv, TypeOK
  <2>2. \A k \in Items : rows'[k].status = "success" => rows[k].status = "success"
    BY <1>4, <2>1, SuccessRows DEF DiscardBacklog
  <2>3. Calm
    BY <1>4, <2>2 DEF DiscardBacklog, Calm, InWindow
  <2> DEFINE next == [j EXCEPT !.batch = {}]
  <2>4. next.pc = "next" /\ next.limit = DripLimit /\ Becomes(f, next)
    BY <1>1, <1>2, <1>4 DEF DiscardBacklog, Worker
  <2> HIDE DEF next
  <2>5. ~ Guarding(next) /\ ~ Reserving(next)
    BY <2>4 DEF Guarding, Reserving
  <2> QED BY <1>4, <2>3, <2>4, <2>5, CapStep DEF DiscardBacklog
<1>5. ASSUME EnterFlush(f) PROVE CapInv'
  <2> DEFINE next(d) == [j EXCEPT !.pc = "window", !.item = d[1], !.tries = d[2],
                                  !.batch = @ \ {d}]
  <2>1. PICK d \in j.batch : Becomes(f, next(d))
    BY <1>5 DEF EnterFlush
  <2>2. next(d).pc = "window" /\ next(d).limit = DripLimit
    BY <1>1, <1>2, <1>5 DEF EnterFlush, Worker
  <2>3. lock[Process[f]] = Null /\ lock' = [lock EXCEPT ![Process[f]] = f]
    BY <1>5 DEF EnterFlush
  <2>4. lock'[Process[f]] = f
    BY <2>3, DripWorkerAssumption DEF TypeInv, TypeOK
  <2> HIDE DEF next
  <2>5. ~ Reserving(next(d))
    BY <2>2 DEF Reserving
  <2> QED BY <1>5, <2>1, <2>2, <2>3, <2>4, <2>5, CalmRest, CapStep DEF EnterFlush
<1>6. ASSUME CheckWindow(f) PROVE CapInv'
  <2>1. /\ j.pc \notin Resting /\ j.pc # "idle" /\ j.limit = DripLimit /\ DripLimit > 0
        /\ lock[Process[f]] = f /\ "take" \in Steps \ Resting
        /\ UNCHANGED echo /\ Calm
    BY <1>2, <1>6, CalmRest, DripBoundAssumption DEF CheckWindow, Resting, Steps, Guarding
  <2>2. CASE WindowFull(DripLimit)
    BY <1>6, <2>1, <2>2, CapDone DEF CheckWindow
  <2>3. CASE ~ WindowFull(DripLimit)
    <3>1. Goto(f, "take") /\ UNCHANGED lock
      BY <1>6, <2>1, <2>3, DripBoundAssumption DEF CheckWindow
    <3>2. Cardinality(InWindow) < DripLimit
      BY <2>3, WindowFinite, DripBoundAssumption DEF WindowFull
    <3> QED BY <2>1, <3>1, <3>2, CapGoto
  <2> QED BY <2>2, <2>3
<1>7. ASSUME Take(f) PROVE CapInv'
  <2>1. /\ i \in Items /\ rows[i] \in Row /\ j.pc \notin Resting /\ j.pc # "idle"
        /\ lock[Process[f]] = f /\ Cardinality(InWindow) < DripLimit
        /\ "prepare" \in Steps \ Resting
    BY <1>1, <1>2, <1>7 DEF Take, Resting, Steps, Guarding, Reserving
  <2>2. CASE rows[i].status = "queued"
    <3>1. /\ rows' = [rows EXCEPT ![i] = TakeQueuedRow(rows[i], f)]
          /\ Goto(f, "prepare") /\ UNCHANGED <<recent, lock, echo>>
      BY <1>7, <2>2 DEF Take
    <3>2. TakeQueuedRow(rows[i], f).status = "success" => rows[i].status = "success"
      BY <2>1, SuccessRows
    <3>3. Calm
      BY <2>1, <3>1, <3>2, CalmRow
    <3> QED BY <2>1, <3>1, <3>3, CapGoto
  <2>3. CASE rows[i].status # "queued"
    BY <1>7, <2>1, <2>3, CalmRest, CapDone DEF Take
  <2> QED BY <2>2, <2>3
<1>8. ASSUME DropEntry(f) PROVE CapInv'
  <2>1. /\ j.pc \notin Resting /\ lock[Process[f]] = f /\ "judge" \in Steps \ Resting
    BY <1>2, <1>8 DEF DropEntry, Resting, Steps, Guarding
  <2> QED BY <1>8, <2>1, CalmRest, CapGoto DEF DropEntry
<1>9. ASSUME Judge(f) PROVE CapInv'
  <2> DEFINE n    == IF j.released < DowngradeBatch THEN j.released + 1 ELSE j.released
             next == [j EXCEPT !.pc = "next", !.item = Null, !.tries = 0, !.released = n]
  <2>1. CASE rows[i].status = "failed"
    <3>1. /\ "requeue" \in Steps \ Resting /\ j.pc \notin Resting /\ lock[Process[f]] = f
          /\ Goto(f, "requeue") /\ UNCHANGED lock
      BY <1>2, <1>9, <2>1 DEF Judge, Steps, Resting, Guarding
    <3> QED BY <1>9, <3>1, CalmRest, CapGoto DEF Judge
  <2>2. CASE rows[i].status # "failed"
    <3>1. next.pc = "next" /\ next.limit = DripLimit
      <4> HIDE DEF n
      <4> QED BY <1>1, <1>2, <1>9 DEF Judge, Worker
    <3>2. Leave(f) /\ Becomes(f, next)
      BY <1>9, <2>2 DEF Judge
    <3> HIDE DEF next
    <3>3. ~ Guarding(next) /\ ~ Reserving(next)
      BY <3>1 DEF Guarding, Reserving
    <3> QED BY <1>9, <3>1, <3>2, <3>3, CalmRest, CapStep DEF Judge
  <2> QED BY <2>1, <2>2
<1>10. ASSUME GiveUpRelease(f) \/ Requeue(f) \/ Recover(f) PROVE CapInv'
  <2>1. i \in Items /\ rows[i] \in Row /\ j.pc # "idle"
    BY <1>1, <1>10 DEF GiveUpRelease, Requeue, Recover, Resting
  <2>2. PICK r \in {DropRow(rows[i]), RequeueRow(rows[i]), ReturnRow(rows[i], f)} :
          rows' = [rows EXCEPT ![i] = r]
    BY <1>10 DEF GiveUpRelease, Requeue, Recover
  <2>3. r.status = "success" => rows[i].status = "success"
    BY <2>1, <2>2, SuccessRows
  <2>4. Done(f) /\ UNCHANGED <<recent, echo>>
    BY <1>10 DEF GiveUpRelease, Requeue, Recover
  <2>5. Calm
    BY <2>1, <2>2, <2>3, <2>4, CalmRow
  <2> QED BY <2>1, <2>4, <2>5, CapDone
<1>11. ASSUME EndFlush(f) PROVE CapInv'
  <2>1. ~ Guarding(Rest) /\ ~ Reserving(Rest)
    BY RestGood DEF Guarding, Reserving
  <2> QED BY <1>11, <2>1, RestGood, CalmRest, CapStep DEF EndFlush
<1> QED BY <1>3, <1>4, <1>5, <1>6, <1>7, <1>8, <1>9, <1>10, <1>11 DEF Flush

LEMMA CapFault ==
  ASSUME TypeInv, CapInv, OneProcessOnly
  PROVE  /\ \A w \in Workers : Escape(w) => CapInv'
         /\ \A p \in Processes : Crash(p) => CapInv'
<1>1. ASSUME NEW w \in Workers, Escape(w) PROVE CapInv'
  <2>1. /\ worker[w] \in Worker /\ worker[w].pc \notin Resting
        /\ Guarding(worker[w]) => lock[Process[w]] = w
    BY <1>1 DEF Escape, TypeInv, GoodWorker, Resting, CapInv, Careful
  <2>2. Calm /\ UNCHANGED echo
    BY <1>1, CalmRest DEF Escape
  <2>3. CASE w \in Flushers /\ worker[w].pc \in {"prepare", "record"}
    <3>1. /\ Goto(w, "recover") /\ UNCHANGED lock /\ "recover" \in Steps \ Resting
          /\ lock[Process[w]] = w
      BY <1>1, <2>1, <2>3 DEF Escape, Steps, Resting, Guarding
    <3> QED BY <2>1, <2>2, <3>1, CapGoto
  <2>4. CASE ~ (w \in Flushers /\ worker[w].pc \in {"prepare", "record"})
    <3>1. CASE w \in Flushers
      <4>1. Done(w) /\ worker[w].pc # "idle"
        BY <1>1, <2>1, <2>4, <3>1 DEF Escape, Done, Resting
      <4> QED BY <2>2, <4>1, CapDone
    <3>2. CASE w \notin Flushers
      <4>1. Leave(w) /\ Becomes(w, Rest)
        BY <1>1, <2>4, <3>2 DEF Escape
      <4>2. ~ Guarding(Rest) /\ ~ Reserving(Rest)
        BY RestGood DEF Guarding, Reserving
      <4> QED BY <2>2, <4>1, <4>2, RestGood, CapStep
    <3> QED BY <3>1, <3>2
  <2> QED BY <2>3, <2>4
<1>2. ASSUME NEW p \in Processes, Crash(p) PROVE CapInv'
  <2>1. PICK u \in Workers : Process[u] = p
    BY <1>2 DEF Crash
  <2>2. \A w \in Workers : worker'[w] = Rest
    BY <1>2, <2>1 DEF Crash, OneProcessOnly
  <2>3. \A w \in Workers : Careful(w)'
    BY <2>2, RestGood DEF Careful, Guarding, Reserving
  <2>4. Calm /\ UNCHANGED echo
    BY <1>2, CalmRest DEF Crash
  <2>5. HourlyCap'
    BY <2>4, CalmCount, WindowFinite, DripBoundAssumption DEF CapInv, HourlyCap
  <2> QED BY <2>3, <2>4, <2>5 DEF CapInv
<1> QED BY <1>1, <1>2

LEMMA CapWorldSteps ==
  ASSUME TypeInv, CapInv, "limit" \notin Routes
  PROVE  /\ \A i \in Items : MovePast(i) \/ RetryPost(i) \/ GiveUpPost(i) => CapInv'
         /\ ToggleEcho \/ EditLimit \/ Tick => CapInv'
<1>1. ASSUME NEW i \in Items, MovePast(i) PROVE CapInv'
  BY <1>1, CalmRest, CapWorld DEF MovePast
<1>2. ASSUME NEW i \in Items, RetryPost(i) \/ GiveUpPost(i) PROVE CapInv'
  <2>1. PICK r \in {RetryRow(rows[i]), GiveUpRow(rows[i])} : rows' = [rows EXCEPT ![i] = r]
    BY <1>2 DEF RetryPost, GiveUpPost
  <2>2. rows[i] \in Row
    BY DEF TypeInv, TypeOK
  <2>3. r.status = "success" => rows[i].status = "success"
    <3>1. RetryRow(rows[i]).status = "failed" /\ GiveUpRow(rows[i]).status = "gave_up"
      BY <2>2 DEF RetryRow, GiveUpRow, Row
    <3> QED BY <2>1, <3>1
  <2>4. Calm
    BY <1>2, <2>1, <2>3, CalmRow DEF RetryPost, GiveUpPost
  <2> QED BY <1>2, <2>4, CapWorld DEF RetryPost, GiveUpPost
<1>3. ASSUME ToggleEcho PROVE CapInv'
  <2>1. echo'.limit = echo.limit
    BY <1>3 DEF ToggleEcho, TypeInv, TypeOK
  <2> QED BY <1>3, <2>1, CalmRest, CapWorld DEF ToggleEcho
<1>4. ~ EditLimit
  BY DEF EditLimit
<1>5. ASSUME Tick PROVE CapInv'
  <2>1. \A i \in Items : rows'[i].status = rows[i].status
    BY <1>5 DEF Tick, AgeRow, TypeInv, TypeOK, Row
  <2>2. \A i \in Items : recent'[i] > 0 => recent[i] > 0
    BY <1>5, DripBoundAssumption DEF Tick, CountDown, TypeInv, TypeOK
  <2>3. Calm
    BY <2>1, <2>2 DEF Calm, InWindow
  <2> QED BY <1>5, <2>3, CapWorld DEF Tick
<1> QED BY <1>1, <1>2, <1>3, <1>4, <1>5

LEMMA CapNext ==
  ASSUME TypeInv, CapInv, OneProcessOnly, "limit" \notin Routes, [Next]_vars
  PROVE  CapInv'
<1>1. CASE Next
  BY <1>1, CapCheck, CapDispatch, CapFlush, CapFault, CapWorldSteps DEF Next
<1>2. CASE UNCHANGED vars
  BY <1>2, CalmRest, CapWorld DEF vars
<1> QED BY <1>1, <1>2

\* "Concurrent workers cannot both see an open window and exceed the hourly cap"
\* (_flush_drips): in one process, and as long as the limit is not edited, no more
\* than DripLimit posts of the echo lie in the window, whatever checks and flushes
\* overlap, fail or die.
THEOREM CapHolds ==
  ASSUME OneProcessOnly, "limit" \notin Routes
  PROVE  Spec => []HourlyCap
<1>1. Init => TypeInv /\ CapInv
  BY TypeInit, CapInit
<1>2. TypeInv /\ CapInv /\ [Next]_vars => (TypeInv /\ CapInv)'
  BY TypeStep, CapNext
<1>3. CapInv => HourlyCap
  BY DEF CapInv
<1> QED BY <1>1, <1>2, <1>3, PTL DEF Spec
-----------------------------------------------------------------------------
(* The cap of the queue.  Whoever is about to store an entry has the lock  *)
(* and a place for it: a check since it found room, a flush since it took  *)
(* the row of an entry that it deletes before it stores it again.          *)

Placing(w, j) ==
  \/ j.pc \in {"insert", "drop", "judge", "requeue", "recover"}
  \/ j.pc \in {"prepare", "record"} /\ w \in Flushers

Fits(w) == Placing(w, worker[w]) => Cardinality(Held \cup {worker[w].item}) <= QueueCap

RoomInv == QueueWithinCap /\ \A w \in Workers : Fits(w)

LEMMA HeldFinite ==
  ASSUME NEW S \in SUBSET Items
  PROVE  /\ IsFiniteSet(S) /\ Cardinality(S) \in Nat
         /\ \A T \in SUBSET S : Cardinality(T) <= Cardinality(S)
BY FS_Subset, FS_CardinalityType, DripBoundAssumption

\* What a step of worker w has to leave behind.
LEMMA RoomStep ==
  ASSUME TypeInv, TypeInv', HoldInv, RoomInv, OneProcessOnly, NEW w \in Workers, NEW j,
         Becomes(w, j),
         \/ Held' \subseteq Held
         \/ /\ Placing(w, worker[w]) /\ ~ Placing(w, j)
            /\ Held' \subseteq Held \cup {worker[w].item},
         Placing(w, j) => \/ Placing(w, worker[w]) /\ j.item = worker[w].item
                          \/ Cardinality(Held) < QueueCap
                          \/ j.item \in Held
  PROVE  RoomInv'
<1>1. worker' = [worker EXCEPT ![w] = j] /\ worker \in [Workers -> Worker]
  BY DEF Becomes, TypeInv, TypeOK
<1>2. worker'[w] = j /\ \A v \in Workers \ {w} : worker'[v] = worker[v]
  BY <1>1
<1>3. /\ Held \in SUBSET Items /\ Held' \in SUBSET Items
      /\ Cardinality(Held) <= QueueCap /\ QueueCap \in Nat
  BY DripBoundAssumption DEF Held, RoomInv, QueueWithinCap
<1>4. /\ \A v \in Workers : Placing(v, worker[v]) => worker[v].item \in Items
      /\ Placing(w, j) => j.item \in Items
  BY <1>2 DEF TypeInv, GoodWorker, Resting, Placing
<1>5. ASSUME NEW i \in Items, Held' \subseteq Held, Cardinality(Held \cup {i}) <= QueueCap
      PROVE  Cardinality(Held' \cup {i}) <= QueueCap
  BY <1>3, <1>5, HeldFinite
<1>6. QueueWithinCap'
  <2>1. CASE Held' \subseteq Held
    BY <1>3, <2>1, HeldFinite DEF QueueWithinCap
  <2>2. CASE Placing(w, worker[w]) /\ Held' \subseteq Held \cup {worker[w].item}
    <3>1. Cardinality(Held \cup {worker[w].item}) <= QueueCap
      BY <2>2 DEF RoomInv, Fits
    <3> QED BY <1>3, <1>4, <2>2, <3>1, HeldFinite DEF QueueWithinCap
  <2> QED BY <2>1, <2>2
<1>7. Fits(w)'
  <2> SUFFICES ASSUME Placing(w, j) PROVE Cardinality(Held' \cup {j.item}) <= QueueCap
    BY <1>2 DEF Fits, Placing
  <2>1. Held' \subseteq Held /\ j.item \in Items
    BY <1>4
  <2>2. Cardinality(Held \cup {j.item}) <= QueueCap
    <3>1. CASE Placing(w, worker[w]) /\ j.item = worker[w].item
      BY <3>1 DEF RoomInv, Fits
    <3>2. CASE Cardinality(Held) < QueueCap
      <4>1. IsFiniteSet(Held) /\ Cardinality(Held) \in Nat
        BY <1>3, HeldFinite
      <4>2. Cardinality(Held \cup {j.item}) \in {Cardinality(Held), Cardinality(Held) + 1}
        BY <4>1, FS_AddElement
      <4> QED BY <1>3, <3>2, <4>1, <4>2
    <3>3. CASE j.item \in Held
      <4>1. Held \cup {j.item} = Held
        BY <3>3
      <4> QED BY <1>3, <4>1
    <3> QED BY <3>1, <3>2, <3>3
  <2> QED BY <1>5, <2>1, <2>2
<1>8. ASSUME NEW v \in Workers \ {w} PROVE Fits(v)'
  <2> SUFFICES ASSUME Placing(v, worker[v])
               PROVE  Cardinality(Held' \cup {worker[v].item}) <= QueueCap
    BY <1>2 DEF Fits, Placing
  <2>1. ~ Placing(w, worker[w])
    <3> SUFFICES ASSUME Placing(w, worker[w]) PROVE FALSE
      OBVIOUS
    <3>1. Inside(v, worker[v]) /\ Inside(w, worker[w])
      BY DEF Inside, Placing
    <3>2. lock[Process[v]] = v /\ lock[Process[w]] = w
      BY <3>1 DEF HoldInv, Undisturbed
    <3> QED BY <3>2 DEF OneProcessOnly
  <2> QED BY <1>4, <1>5, <2>1 DEF RoomInv, Fits
<1> QED BY <1>6, <1>7, <1>8 DEF RoomInv

\* A step of worker w that adds no entry, to a state without a claim to one.
LEMMA RoomCalm ==
  ASSUME TypeInv, TypeInv', HoldInv, RoomInv, OneProcessOnly, NEW w \in Workers, NEW j,
         Becomes(w, j), Held' \subseteq Held,
         j.pc \in {"idle", "next", "claim", "lock", "rate", "hold", "mark", "window", "take"}
  PROVE  RoomInv'
<1>1. ~ Placing(w, j)
  BY DEF Placing
<1> QED BY <1>1, RoomStep

\* A step of worker w that adds no entry, and keeps its item.
LEMMA RoomGoto ==
  ASSUME TypeInv, TypeInv', HoldInv, RoomInv, OneProcessOnly, NEW w \in Workers, NEW step,
         Goto(w, step), Held' \subseteq Held,
         Placing(w, Moved(worker[w], step)) =>
            \/ Placing(w, worker[w]) \/ Cardinality(Held) < QueueCap \/ worker[w].item \in Held
  PROVE  RoomInv'
<1> DEFINE j == Moved(worker[w], step)
<1>1. Becomes(w, j) /\ j.item = worker[w].item
  BY DEF Goto, Moved, TypeInv, GoodWorker, Worker
<1> HIDE DEF j
<1> QED BY <1>1, RoomStep DEF j

LEMMA RoomDone ==
  ASSUME TypeInv, TypeInv', HoldInv, RoomInv, OneProcessOnly, NEW w \in Workers, Done(w),
         \/ Held' \subseteq Held
         \/ Placing(w, worker[w]) /\ Held' \subseteq Held \cup {worker[w].item}
  PROVE  RoomInv'
<1>1. Becomes(w, Freed(worker[w])) /\ Freed(worker[w]).pc = "next"
  BY FreedGood DEF Done, Freed, TypeInv, GoodWorker
<1>2. ~ Placing(w, Freed(worker[w]))
  BY <1>1 DEF Placing
<1> QED BY <1>1, <1>2, RoomStep

LEMMA RoomDispatched ==
  ASSUME TypeInv, TypeInv', HoldInv, RoomInv, OneProcessOnly, NEW w \in Workers, Dispatched(w),
         worker[w].pc \in {"prepare", "record"}, Held' \subseteq Held
  PROVE  RoomInv'
<1>1. CASE w \in Flushers
  BY <1>1, RoomGoto DEF Dispatched, Placing
<1>2. CASE w \notin Flushers
  BY <1>2, RoomDone DEF Dispatched
<1> QED BY <1>1, <1>2

\* What the statements on drip_items do to the set of items held.
LEMMA HeldRest ==
  ASSUME UNCHANGED queue
  PROVE  Held' = Held
BY DEF Held

LEMMA HeldUpserted ==
  ASSUME NEW i, NEW n, queue' = Upserted(i, n)
  PROVE  Held' \subseteq Held \cup {i}
BY DEF Held, Upserted

LEMMA HeldWithout ==
  ASSUME NEW f, NEW i, queue' = Without(f, i)
  PROVE  Held' \subseteq Held
BY DEF Held, Without

LEMMA HeldUnread ==
  ASSUME NEW fs, queue' = Unread(queue, fs)
  PROVE  Held' \subseteq Held
BY DEF Held, Unread

LEMMA RoomCheck ==
  ASSUME TypeInv, TypeInv', HoldInv, RoomInv, OneProcessOnly, NEW w \in Workers
  PROVE  /\ Check(w) \/ Dispatch(w) => RoomInv'
         /\ \A i \in Items : NextItem(w, i) \/ SweepAbandons(w, i) => RoomInv'
<1> DEFINE j == worker[w]
<1>1. j \in Worker
  BY DEF TypeInv, GoodWorker
<1>2. ASSUME StartCheck(w) PROVE RoomInv'
  <2>1. [Rest EXCEPT !.pc = "next", !.limit = echo.limit].pc = "next"
    BY DEF Rest
  <2> QED BY <1>2, <2>1, HeldRest, RoomCalm DEF StartCheck
<1>3. ASSUME EndCheck(w) PROVE RoomInv'
  BY <1>3, RestGood, HeldRest, RoomCalm DEF EndCheck
<1>4. ASSUME Claim(w) PROVE RoomInv'
  <2>1. Held' = Held
    BY <1>4, HeldRest DEF Claim
  <2>2. w \notin Flushers
    BY <1>4 DEF Claim, HoldInv, Undisturbed
  <2>3. Done(w) \/ \E step \in {"lock", "prepare"} : Goto(w, step)
    BY <1>4 DEF Claim
  <2>4. \A step \in {"lock", "prepare"} : ~ Placing(w, Moved(j, step))
    BY <1>1, <2>2 DEF Placing, Moved, Worker
  <2> QED BY <2>1, <2>3, <2>4, RoomDone, RoomGoto
<1>5. ASSUME Enter(w) \/ CheckRate(w) PROVE RoomInv'
  <2>1. Held' = Held
    BY <1>5, HeldRest DEF Enter, CheckRate
  <2>2. PICK step \in {"rate", "hold", "prepare"} : Goto(w, step)
    BY <1>5 DEF Enter, CheckRate
  <2>3. w \notin Flushers
    BY <1>5 DEF Enter, CheckRate, HoldInv, Undisturbed
  <2>4. ~ Placing(w, Moved(j, step))
    BY <1>1, <2>2, <2>3 DEF Placing, Moved, Worker
  <2> QED BY <2>1, <2>2, <2>4, RoomGoto
<1>6. ASSUME DropWhenFull(w) \/ MarkQueued(w) PROVE RoomInv'
  <2>1. Held' = Held /\ Done(w)
    BY <1>6, HeldRest DEF DropWhenFull, MarkQueued
  <2> QED BY <2>1, RoomDone
<1>7. ASSUME FindRoom(w) PROVE RoomInv'
  <2>1. Cardinality(Held) < QueueCap
    <3>1. Held \in SUBSET Items
      BY DEF Held
    <3> QED BY <1>7, <3>1, HeldFinite, DripBoundAssumption DEF FindRoom, QueueFull
  <2> QED BY <1>7, <2>1, HeldRest, RoomGoto DEF FindRoom
<1>8. ASSUME StorePayload(w) PROVE RoomInv'
  <2>1. Placing(w, j) /\ Goto(w, "mark")
    BY <1>8 DEF StorePayload, Placing
  <2>2. Becomes(w, Moved(j, "mark")) /\ ~ Placing(w, Moved(j, "mark"))
    BY <1>1, <2>1 DEF Goto, Moved, Placing, Worker
  <2>3. Held' \subseteq Held \cup {j.item}
    BY <1>8 DEF StorePayload, Held
  <2> QED BY <2>1, <2>2, <2>3, RoomStep
<1>9. ASSUME Dispatch(w) PROVE RoomInv'
  <2>1. /\ Held' = Held /\ j.pc \in {"prepare", "record"}
        /\ Dispatched(w) \/ (Goto(w, "record") /\ j.pc = "prepare")
    BY <1>9, HeldRest DEF Dispatch, PreparationFails, GuardAndSend, RecordSuccess, RecordFailure
  <2>2. Placing(w, Moved(j, "record")) => Placing(w, j)
    BY <1>1, <2>1 DEF Placing, Moved, Worker
  <2> QED BY <2>1, <2>2, RoomDispatched, RoomGoto
<1>10. ASSUME NEW i \in Items, NextItem(w, i) PROVE RoomInv'
  <2>1. [j EXCEPT !.pc = "claim", !.item = i].pc = "claim"
    BY <1>1 DEF Worker
  <2> QED BY <1>10, <2>1, HeldRest, RoomCalm DEF NextItem
<1>11. ASSUME NEW i \in Items, SweepAbandons(w, i) PROVE RoomInv'
  BY <1>11, HeldRest DEF SweepAbandons, RoomInv, QueueWithinCap, Fits, Placing
<1> QED BY <1>2, <1>3, <1>4, <1>5, <1>6, <1>7, <1>8, <1>9, <1>10, <1>11 DEF Check

LEMMA RoomFlush ==
  ASSUME TypeInv, TypeInv', HoldInv, RoomInv, OneProcessOnly, NEW f \in Workers
  PROVE  Flush(f) => RoomInv'
<1> DEFINE j == worker[f]
<1>1. j \in Worker /\ j.open
  BY DEF TypeInv, GoodWorker, HoldInv, Undisturbed
<1>2. ASSUME ReadQueue(f) PROVE RoomInv'
  <2>1. PICK b : Becomes(f, [Rest EXCEPT !.pc = "next", !.limit = echo.limit,
                                         !.open = echo.enabled, !.batch = b])
    BY <1>2 DEF ReadQueue
  <2>2. [Rest EXCEPT !.pc = "next", !.limit = echo.limit, !.open = echo.enabled,
                     !.batch = b].pc = "next"
    BY DEF Rest
  <2>3. Held' \subseteq Held
    BY <1>2 DEF ReadQueue, Held
  <2> QED BY <2>1, <2>2, <2>3, RoomCalm
<1>3. ~ DiscardBacklog(f)
  BY <1>1 DEF DiscardBacklog
<1>4. ASSUME EnterFlush(f) PROVE RoomInv'
  <2>1. PICK d : Becomes(f, [j EXCEPT !.pc = "window", !.item = d[1], !.tries = d[2],
                                      !.batch = @ \ {d}])
    BY <1>4 DEF EnterFlush
  <2>2. [j EXCEPT !.pc = "window", !.item = d[1], !.tries = d[2],
                  !.batch = @ \ {d}].pc = "window"
    BY <1>1 DEF Worker
  <2>3. Held' = Held
    BY <1>4, HeldRest DEF EnterFlush
  <2> QED BY <2>1, <2>2, <2>3, RoomCalm
<1>5. ASSUME CheckWindow(f) PROVE RoomInv'
  <2>1. Held' = Held /\ (Done(f) \/ Goto(f, "take"))
    BY <1>5, HeldRest DEF CheckWindow
  <2>2. ~ Placing(f, Moved(j, "take"))
    BY <1>1 DEF Placing, Moved, Worker
  <2> QED BY <2>1, <2>2, RoomDone, RoomGoto
<1>6. ASSUME Take(f) PROVE RoomInv'
  <2>1. CASE rows[j.item].status = "queued"
    <3>1. j.item \in Items
      BY <1>6 DEF Take, TypeInv, GoodWorker, Resting
    <3>2. j.item \in Held
      BY <2>1, <3>1 DEF HoldInv, HeldItemsHavePayload, Held
    <3> QED BY <1>6, <2>1, <3>2, HeldRest, RoomGoto DEF Take
  <2>2. CASE rows[j.item].status # "queued"
    BY <1>6, <2>2, HeldWithout, RoomDone DEF Take
  <2> QED BY <2>1, <2>2
<1>7. ASSUME DropEntry(f) PROVE RoomInv'
  BY <1>7, HeldWithout, RoomGoto DEF DropEntry, Placing
<1>8. ASSUME Judge(f) PROVE RoomInv'
  <2>1. Held' = Held
    BY <1>8, HeldRest DEF Judge
  <2>2. CASE Goto(f, "requeue")
    BY <1>8, <2>1, <2>2, RoomGoto DEF Judge, Placing
  <2>3. CASE ~ Goto(f, "requeue")
    <3>1. PICK n : Becomes(f, [j EXCEPT !.pc = "next", !.item = Null, !.tries = 0,
                                        !.released = n])
      BY <1>8, <2>3 DEF Judge
    <3>2. [j EXCEPT !.pc = "next", !.item = Null, !.tries = 0, !.released = n].pc = "next"
      BY <1>1 DEF Worker
    <3> QED BY <2>1, <3>1, <3>2, RoomCalm
  <2> QED BY <2>2, <2>3
<1>9. ASSUME GiveUpRelease(f) PROVE RoomInv'
  BY <1>9, HeldRest, RoomDone DEF GiveUpRelease
<1>10. ASSUME Requeue(f) \/ Recover(f) PROVE RoomInv'
  <2>1. Placing(f, j) /\ Done(f)
    BY <1>10 DEF Requeue, Recover, Placing
  <2>2. Held' \subseteq Held \cup {j.item}
    <3>1. UNCHANGED queue \/ \E n : queue' = Upserted(j.item, n)
      BY <1>10 DEF Requeue, Recover
    <3> QED BY <3>1, HeldRest, HeldUpserted
  <2> QED BY <2>1, <2>2, RoomDone
<1>11. ASSUME EndFlush(f) PROVE RoomInv'
  BY <1>11, RestGood, HeldUnread, RoomCalm DEF EndFlush
<1> QED BY <1>2, <1>3, <1>4, <1>5, <1>6, <1>7, <1>8, <1>9, <1>10, <1>11 DEF Flush

LEMMA RoomFault ==
  ASSUME TypeInv, TypeInv', HoldInv, RoomInv, OneProcessOnly
  PROVE  /\ \A w \in Workers : Escape(w) => RoomInv'
         /\ \A p \in Processes : Crash(p) => RoomInv'
<1>1. ASSUME NEW w \in Workers, Escape(w) PROVE RoomInv'
  <2>1. Held' = Held /\ worker[w] \in Worker
    BY <1>1, HeldRest DEF Escape, TypeInv, GoodWorker
  <2>2. CASE w \in Flushers /\ worker[w].pc \in {"prepare", "record"}
    BY <1>1, <2>1, <2>2, RoomGoto DEF Escape, Placing
  <2>3. CASE ~ (w \in Flushers /\ worker[w].pc \in {"prepare", "record"})
    <3>1. Becomes(w, Freed(worker[w])) \/ Becomes(w, Rest)
      BY <1>1, <2>3 DEF Escape, Freed
    <3> QED BY <2>1, <3>1, FreedGood, RestGood, RoomCalm
  <2> QED BY <2>2, <2>3
<1>2. ASSUME NEW p \in Processes, Crash(p) PROVE RoomInv'
  <2>1. Held' \subseteq Held
    BY <1>2, HeldUnread DEF Crash
  <2>2. \A w \in Workers : worker'[w] = Rest
    BY <1>2 DEF Crash, OneProcessOnly
  <2>3. \A w \in Workers : Fits(w)'
    BY <2>2, RestGood DEF Fits, Placing
  <2>4. Held \in SUBSET Items /\ Held' \in SUBSET Items
    BY DEF Held
  <2>5. QueueWithinCap'
    BY <2>1, <2>4, HeldFinite, DripBoundAssumption DEF RoomInv, QueueWithinCap
  <2> QED BY <2>3, <2>5 DEF RoomInv
<1> QED BY <1>1, <1>2

LEMMA RoomNext ==
  ASSUME TypeInv, TypeInv', HoldInv, RoomInv, OneProcessOnly, [Next]_vars
  PROVE  RoomInv'
<1>1. ASSUME UNCHANGED <<queue, worker>> PROVE RoomInv'
  BY <1>1, HeldRest DEF RoomInv, QueueWithinCap, Fits, Placing
<1>2. ASSUME NEW i \in Items, MovePast(i) \/ RetryPost(i) \/ GiveUpPost(i) PROVE RoomInv'
  BY <1>1, <1>2 DEF MovePast, RetryPost, GiveUpPost
<1>3. ASSUME ToggleEcho \/ EditLimit \/ Tick \/ UNCHANGED vars PROVE RoomInv'
  BY <1>1, <1>3 DEF ToggleEcho, EditLimit, Tick, vars
<1> QED BY <1>2, <1>3, RoomCheck, RoomFlush, RoomFault DEF Next

\* The queue is bounded, although a failed release puts its item back without a look
\* at the size (_requeue_drip_failure): in one process, and as long as the echo is not
\* disabled, the place of the entry it took out is still free.
THEOREM QueueBounded ==
  ASSUME OneProcessOnly, "toggle" \notin Routes
  PROVE  Spec => []QueueWithinCap
<1>1. Init => TypeInv /\ HoldInv /\ RoomInv
  <2>1. Init => RoomInv
    <3> SUFFICES ASSUME Init PROVE RoomInv
      OBVIOUS
    <3>1. Held = {}
      BY DEF Init, Held
    <3>2. QueueWithinCap
      BY <3>1, FS_EmptySet, DripBoundAssumption DEF QueueWithinCap
    <3>3. \A w \in Workers : Fits(w)
      BY RestGood DEF Init, Fits, Placing
    <3> QED BY <3>2, <3>3 DEF RoomInv
  <2> QED BY <2>1, TypeInit, HoldInit
<1>2. TypeInv /\ HoldInv /\ RoomInv /\ [Next]_vars => (TypeInv /\ HoldInv /\ RoomInv)'
  BY TypeStep, HoldNext, RoomNext
<1>3. RoomInv => QueueWithinCap
  BY DEF RoomInv
<1> QED BY <1>1, <1>2, <1>3, PTL DEF Spec
=============================================================================
