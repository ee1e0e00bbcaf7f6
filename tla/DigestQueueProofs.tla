--------------------------- MODULE DigestQueueProofs ---------------------------
(***************************************************************************)
(* What the digest of one echo guarantees, for any number of processes,    *)
(* checks, items, requests and faults: its types and that what is held is  *)
(* kept; and, where each process runs the job once at a time, that the     *)
(* lease excludes other processes, that no item is mailed twice without a  *)
(* reason on record, and that the digest implements the outbox.            *)
(*                                                                         *)
(* LeaseInv says that whoever flushes holds the lease, TypeInv adds to the *)
(* types what a check holds while it collects, KeptInv follows what is     *)
(* held and MailInv what was mailed; the refinement rests on all four.     *)
(***************************************************************************)
EXTENDS DigestQueue, PostedItemsProofs, TLAPS

-----------------------------------------------------------------------------
(* The lease.                                                              *)

\* The run at startup and the hourly run of a process do not overlap.
OneRunEach == \A f, g \in Flushers : Instance[f] = Instance[g] => f = g

\* Whoever flushes holds the lease, and it has not run out.
Covered(f) == worker[f].pc # "idle" => lease.holder = Instance[f] /\ lease.left > 0

LeaseInv ==
  /\ lease \in Lease
  /\ worker = [w \in Workers |-> worker[w]]
  /\ \A w \in Workers : "pc" \in DOMAIN worker[w]
  /\ \A f \in Flushers : Covered(f)

LEMMA LeaseInit == Init => LeaseInv
<1> SUFFICES ASSUME Init PROVE LeaseInv
  OBVIOUS
<1>1. FreeLease \in Lease
  BY JobLeaseAssumption DEF FreeLease, Lease
<1>2. \A f \in Flushers : worker[f].pc = "idle"
  BY DigestAssumption DEF Init, Rest
<1> QED BY <1>1, <1>2 DEF Init, LeaseInv, Covered, Rest

\* A step of one worker that leaves the lease alone and starts no flush.
LEMMA WorkerStep ==
  ASSUME LeaseInv, NEW w \in Workers, NEW j, "pc" \in DOMAIN j, Becomes(w, j),
         lease' = lease, w \in Flushers /\ j.pc # "idle" => worker[w].pc # "idle"
  PROVE  LeaseInv'
<1>1. worker' = [worker EXCEPT ![w] = j]
  BY DEF Becomes
<1>2. \A v \in Workers : worker'[v] = IF v = w THEN j ELSE worker[v]
  BY <1>1 DEF LeaseInv
<1>3. worker' = [v \in Workers |-> worker'[v]]
  BY <1>1 DEF LeaseInv
<1> QED BY <1>2, <1>3, DigestAssumption DEF LeaseInv, Covered

LEMMA GotoStep ==
  ASSUME LeaseInv, NEW w \in Workers, NEW step, Goto(w, step), lease' = lease,
         worker[w].pc # "idle"
  PROVE  LeaseInv'
<1> DEFINE j == [worker[w] EXCEPT !.pc = step]
<1>1. Becomes(w, j)
  BY DEF Goto
<1>2. "pc" \in DOMAIN j
  BY DEF LeaseInv
<1> QED BY <1>1, <1>2, WorkerStep

LEMMA RestStep ==
  ASSUME LeaseInv, NEW w \in Workers, Becomes(w, Rest), lease' = lease
  PROVE  LeaseInv'
<1>1. "pc" \in DOMAIN Rest /\ Rest.pc = "idle"
  BY DEF Rest
<1> QED BY <1>1, WorkerStep

LEMMA CheckStep ==
  ASSUME LeaseInv, NEW w \in Workers, Check(w)
  PROVE  LeaseInv'
<1>1. ASSUME NEW i \in Items, Claim(w, i) PROVE LeaseInv'
  <2> DEFINE j == [Rest EXCEPT !.pc = "insert", !.item = i]
  <2>1. "pc" \in DOMAIN j /\ Becomes(w, j) /\ w \notin Flushers /\ lease' = lease
    BY <1>1 DEF Claim, Rest
  <2> QED BY <2>1, WorkerStep
<1>2. CASE InsertItem(w)
  BY <1>2, GotoStep DEF InsertItem
<1>3. CASE MarkQueued(w)
  BY <1>3, RestStep DEF MarkQueued
<1> QED BY <1>1, <1>2, <1>3 DEF Check

\* Starting: whoever flushes would hold the lease, so nobody else does.
LEMMA StartStep ==
  ASSUME OneRunEach, LeaseInv, NEW f \in Flushers, StartFlush(f)
  PROVE  LeaseInv'
<1> DEFINE j == [worker[f] EXCEPT !.pc = "sweep"]
<1>1. /\ worker[f].pc = "idle" /\ Takeable(lease, Instance[f])
      /\ lease' = Taken(Instance[f]) /\ worker' = [worker EXCEPT ![f] = j]
  BY DEF StartFlush, Goto, Becomes
<1>2. f \in Workers /\ Instance[f] \in Instances
  BY DigestAssumption
<1>3. \A v \in Workers : worker'[v] = IF v = f THEN j ELSE worker[v]
  BY <1>1, <1>2 DEF LeaseInv
<1>4. "pc" \in DOMAIN j
  BY <1>2 DEF LeaseInv
<1>5. lease' \in Lease /\ lease'.holder = Instance[f] /\ lease'.left > 0
  BY <1>1, <1>2, JobLeaseAssumption DEF Taken, Lease
<1>6. ASSUME NEW g \in Flushers, g # f PROVE worker[g].pc = "idle"
  <2> SUFFICES ASSUME worker[g].pc # "idle" PROVE FALSE
    OBVIOUS
  <2>1. lease.holder = Instance[g] /\ lease.left > 0
    BY DEF LeaseInv, Covered
  <2>2. Instance[g] \in Instances
    BY DigestAssumption
  <2>3. Instance[g] = Instance[f]
    BY <1>1, <2>1, <2>2, JobLeaseAssumption DEF Takeable
  <2> QED BY <1>6, <2>3 DEF OneRunEach
<1>7. \A g \in Flushers : Covered(g)'
  BY <1>3, <1>5, <1>6, DigestAssumption DEF Covered
<1>8. worker' = [v \in Workers |-> worker'[v]]
  BY <1>1 DEF LeaseInv
<1> QED BY <1>3, <1>4, <1>5, <1>7, <1>8 DEF LeaseInv

\* Ending: the lease is given back by the only one who flushes.
LEMMA ReleaseStep ==
  ASSUME OneRunEach, LeaseInv, NEW f \in Flushers, Release(f)
  PROVE  LeaseInv'
<1>1. /\ worker[f].pc = "release" /\ lease' = Released(lease, Instance[f])
      /\ worker' = [worker EXCEPT ![f] = Rest]
  BY DEF Release, Becomes
<1>2. lease.holder = Instance[f] /\ f \in Workers
  BY <1>1, DigestAssumption DEF LeaseInv, Covered
<1>3. \A v \in Workers : worker'[v] = IF v = f THEN Rest ELSE worker[v]
  BY <1>1, <1>2 DEF LeaseInv
<1>4. ASSUME NEW g \in Flushers PROVE worker'[g].pc = "idle"
  <2>1. worker[g].pc # "idle" => g = f
    BY <1>2 DEF LeaseInv, Covered, OneRunEach
  <2> QED BY <1>3, <2>1, DigestAssumption DEF Rest
<1>5. lease' \in Lease
  BY <1>1, <1>2, JobLeaseAssumption DEF Released, FreeLease, Lease
<1>6. worker' = [v \in Workers |-> worker'[v]] /\ \A v \in Workers : "pc" \in DOMAIN worker'[v]
  BY <1>1, <1>3 DEF LeaseInv, Rest
<1> QED BY <1>4, <1>5, <1>6 DEF LeaseInv, Covered

LEMMA FlushStep ==
  ASSUME OneRunEach, LeaseInv, NEW f \in Flushers, Flush(f)
  PROVE  LeaseInv'
<1>1. f \in Workers
  BY DigestAssumption
<1>2. CASE Sweep(f)
  BY <1>1, <1>2, GotoStep DEF Sweep
<1>3. CASE Discard(f)
  BY <1>1, <1>3, GotoStep DEF Discard
<1>4. CASE Select(f)
  BY <1>1, <1>4, GotoStep DEF Select
<1>5. CASE ReadItems(f)
  <2> DEFINE j == [worker[f] EXCEPT !.pc = "send", !.batch = Body]
  <2>1. Goto(f, "release") \/ Becomes(f, j)
    BY <1>5 DEF ReadItems
  <2>2. "pc" \in DOMAIN j
    BY <1>1 DEF LeaseInv
  <2>3. worker[f].pc # "idle" /\ lease' = lease
    BY <1>5 DEF ReadItems
  <2> HIDE DEF j
  <2> QED BY <1>1, <2>1, <2>2, <2>3, GotoStep, WorkerStep
<1>6. CASE SendMail(f)
  BY <1>1, <1>6, GotoStep DEF SendMail
<1>7. CASE MailFails(f)
  BY <1>1, <1>7, GotoStep DEF MailFails
<1>8. CASE RecordMail(f)
  BY <1>1, <1>8, GotoStep DEF RecordMail
<1> QED BY <1>2, <1>3, <1>4, <1>5, <1>6, <1>7, <1>8, StartStep, ReleaseStep DEF Flush

\* The lease of a process that dies waits for its end; nobody else held it.
LEMMA CrashStep ==
  ASSUME LeaseInv, NEW n \in Instances, Crash(n)
  PROVE  LeaseInv'
<1>1. /\ worker' = [w \in Workers |-> IF Instance[w] = n THEN Rest ELSE worker[w]]
      /\ lease' = Orphaned(lease, n)
  BY DEF Crash
<1>2. lease' \in Lease
  BY <1>1 DEF LeaseInv, Lease, Orphaned
<1>3. \A w \in Workers : "pc" \in DOMAIN worker'[w]
  BY <1>1 DEF LeaseInv, Rest
<1>4. ASSUME NEW g \in Flushers PROVE Covered(g)'
  <2>1. g \in Workers
    BY DigestAssumption
  <2>2. CASE Instance[g] = n
    BY <1>1, <2>1, <2>2 DEF Covered, Rest
  <2>3. CASE Instance[g] # n
    BY <1>1, <2>1, <2>3 DEF Covered, LeaseInv, Orphaned
  <2> QED BY <2>2, <2>3
<1> QED BY <1>1, <1>2, <1>3, <1>4 DEF LeaseInv

\* Time does not reach the end of the lease of a run.
LEMMA TickStep ==
  ASSUME LeaseInv, Tick
  PROVE  LeaseInv'
<1>1. lease' = Aged(lease) /\ worker' = worker /\ InTime
  BY DEF Tick
<1>2. lease' \in Lease /\ lease'.holder = lease.holder
  BY <1>1, JobLeaseAssumption DEF LeaseInv, Lease, Aged
<1>3. ASSUME NEW g \in Flushers, worker[g].pc # "idle" PROVE lease'.left > 0
  <2>1. lease.left > 0 /\ lease.left # 1 /\ lease.left \in Nat
    BY <1>1, <1>3, JobLeaseAssumption DEF LeaseInv, Covered, InTime, Lease
  <2>2. lease'.left = lease.left - 1
    BY <1>1, <2>1 DEF Aged, LeaseInv, Lease
  <2> QED BY <2>1, <2>2
<1> QED BY <1>1, <1>2, <1>3 DEF LeaseInv, Covered

LEMMA LeaseNext ==
  ASSUME OneRunEach, LeaseInv, [Next]_vars
  PROVE  LeaseInv'
<1>1. CASE UNCHANGED vars
  BY <1>1 DEF vars, LeaseInv, Covered
<1>2. CASE Owner \/ \E i \in Items : PassHandled(i)
  <2>1. UNCHANGED <<lease, worker>>
    BY <1>2 DEF Owner, TogglePause, ChangeMode, DeleteEcho, GiveUp, PassHandled
  <2> QED BY <2>1 DEF LeaseInv, Covered
<1> QED BY <1>1, <1>2, CheckStep, FlushStep, CrashStep, TickStep DEF Next

\* Two processes never flush digests at once: whoever flushes holds the lease, and
\* a process that dies leaves it to run out.
THEOREM LeaseExcludes ==
  ASSUME OneRunEach
  PROVE  Spec => []OneInstanceFlushes
<1>1. LeaseInv => OneInstanceFlushes
  BY DEF LeaseInv, Covered, OneInstanceFlushes, Flushing
<1>2. LeaseInv /\ [Next]_vars => LeaseInv'
  BY LeaseNext
<1> QED BY <1>1, <1>2, LeaseInit, PTL DEF Spec

-----------------------------------------------------------------------------
(* The types.  Only a check collects, and then it holds an item.           *)

Job == [pc : Steps, item : Items \cup {Null}, batch : SUBSET Items]

Collecting == {"insert", "mark"}

GoodJob(w, j) == j \in Job /\ (j.pc \in Collecting => w \notin Flushers /\ j.item \in Items)

TypeInv == TypeOK /\ \A w \in Workers : GoodJob(w, worker[w])

\* What the operators on digest_items return.
LEMMA CollectedType ==
  ASSUME digest \in Seq(Items \cup {Null})
  PROVE  Collected \subseteq Items /\ Body \subseteq Collected
<1>1. Collected \subseteq Items
  BY DEF Collected, Entries
<1>2. Fitting \subseteq Collected /\ Oldest \subseteq Collected
  BY DEF Fitting, Oldest, Collected
<1> QED BY <1>1, <1>2 DEF Body

LEMMA AppendCollects ==
  ASSUME digest \in Seq(Items \cup {Null}), NEW i \in Items, digest' = Append(digest, i)
  PROVE  digest' \in Seq(Items \cup {Null}) /\ Collected' = Collected \cup {i}
<1>1. /\ digest' \in Seq(Items \cup {Null}) /\ Len(digest') = Len(digest) + 1
      /\ \A k \in 1..Len(digest) : digest'[k] = digest[k]
      /\ digest'[Len(digest) + 1] = i
  OBVIOUS
<1>2. /\ DOMAIN digest = 1..Len(digest) /\ DOMAIN digest' = 1..(Len(digest) + 1)
      /\ Len(digest) \in Nat
  BY <1>1
<1>3. Entries' = Entries \cup {Len(digest) + 1}
  BY <1>1, <1>2, DigestAssumption DEF Entries
<1> QED BY <1>1, <1>2, <1>3 DEF Collected, Entries

LEMMA WithoutForgets ==
  ASSUME digest \in Seq(Items \cup {Null}), NEW X, digest' = Without(digest, X)
  PROVE  digest' \in Seq(Items \cup {Null}) /\ Collected' = Collected \ X
<1>1. DOMAIN digest = 1..Len(digest) /\ Len(digest) \in Nat
  OBVIOUS
<1>2. \A k \in DOMAIN digest : digest[k] \in Items \cup {Null}
  OBVIOUS
<1>3. /\ DOMAIN digest' = DOMAIN digest
      /\ \A k \in DOMAIN digest : digest'[k] = IF digest[k] \in X THEN Null ELSE digest[k]
  BY DEF Without
<1>4. digest' \in Seq(Items \cup {Null})
  <2>1. digest' = [k \in 1..Len(digest) |-> digest'[k]]
    BY <1>1 DEF Without
  <2>2. \A k \in 1..Len(digest) : digest'[k] \in Items \cup {Null}
    BY <1>1, <1>2, <1>3
  <2> QED BY <1>1, <2>1, <2>2
<1>5. Entries' = {k \in Entries : digest[k] \notin X}
  BY <1>3 DEF Entries
<1>6. \A k \in Entries' : digest'[k] = digest[k]
  BY <1>3, <1>5 DEF Entries
<1> QED BY <1>4, <1>5, <1>6 DEF Collected

LEMMA EmptyForgets ==
  ASSUME digest' = <<>>
  PROVE  digest' \in Seq(Items \cup {Null}) /\ Collected' = {}
BY DEF Collected, Entries

LEMMA InitType == Init => TypeInv
<1> SUFFICES ASSUME Init PROVE TypeInv
  OBVIOUS
<1>1. Absent \in Row
  BY AttemptAssumption DEF Absent, Row, Statuses
<1>2. FreeLease \in Lease /\ 0 \in 0..MaxPresses /\ 0 \in 0..MaxFaults
  BY JobLeaseAssumption, DigestAssumption DEF FreeLease, Lease
<1>3. GoodJob(0, Rest) /\ Rest.pc \notin Collecting /\ Rest \in Job
  BY DEF GoodJob, Job, Rest, Steps, Collecting
<1> QED BY <1>1, <1>2, <1>3 DEF Init, TypeInv, TypeOK, GoodJob, Job

\* A step of one worker, the table, the lease and the histories apart.
LEMMA WorkerType ==
  ASSUME TypeInv, NEW w \in Workers, NEW j, GoodJob(w, j), Becomes(w, j),
         rows' \in [Items -> Row], digest' \in Seq(Items \cup {Null}),
         lease' \in Lease, faults' \in 0..MaxFaults,
         passed' \subseteq Items, mailed' \in [Items -> 0..2], doubt' \subseteq Items,
         UNCHANGED <<echo, presses>>
  PROVE  TypeInv'
<1>1. worker' = [worker EXCEPT ![w] = j] /\ j \in Job
  BY DEF Becomes, GoodJob
<1>2. worker \in [Workers -> Job]
  BY DEF TypeInv, TypeOK, Job
<1>3. worker' \in [Workers -> Job] /\ \A v \in Workers : worker'[v] = IF v = w THEN j ELSE worker[v]
  BY <1>1, <1>2
<1>4. \A v \in Workers : GoodJob(v, worker'[v])
  BY <1>3 DEF TypeInv, GoodJob
<1> QED BY <1>3, <1>4 DEF TypeInv, TypeOK, Job

LEMMA GotoType ==
  ASSUME TypeInv, NEW w \in Workers, NEW step \in Steps, worker[w].pc # "idle",
         step \in Collecting => worker[w].pc \in Collecting
  PROVE  LET j == [worker[w] EXCEPT !.pc = step]
         IN  GoodJob(w, j) /\ j.item = worker[w].item /\ j.batch = worker[w].batch /\ j.pc = step
BY DEF TypeInv, TypeOK, GoodJob, Job

LEMMA CheckType ==
  ASSUME TypeInv, NEW w \in Workers, Check(w)
  PROVE  TypeInv'
<1>1. ASSUME NEW i \in Items, Claim(w, i) PROVE TypeInv'
  <2> DEFINE j == [Rest EXCEPT !.pc = "insert", !.item = i]
  <2>1. GoodJob(w, j)
    BY <1>1 DEF Claim, GoodJob, Job, Rest, Steps, Collecting
  <2>2. rows' \in [Items -> Row]
    BY <1>1, ClaimRowType DEF Claim, TypeInv, TypeOK
  <2> QED BY <1>1, <2>1, <2>2, WorkerType DEF Claim, TypeInv, TypeOK
<1>2. CASE InsertItem(w)
  <2> DEFINE j == [worker[w] EXCEPT !.pc = "mark"]
  <2>1. worker[w].item \in Items
    BY <1>2 DEF InsertItem, TypeInv, GoodJob, Collecting
  <2>2. GoodJob(w, j) /\ Becomes(w, j)
    BY <1>2, GotoType DEF InsertItem, Goto, Collecting, Steps
  <2>3. digest' \in Seq(Items \cup {Null}) /\ doubt' \subseteq Items
    BY <1>2, <2>1, AppendCollects DEF InsertItem, TypeInv, TypeOK
  <2> HIDE DEF j
  <2> QED BY <1>2, <2>2, <2>3, WorkerType DEF InsertItem, TypeInv, TypeOK
<1>3. CASE MarkQueued(w)
  <2>1. worker[w].item \in Items
    BY <1>3 DEF MarkQueued, TypeInv, GoodJob, Collecting
  <2>2. rows' \in [Items -> Row] /\ passed' \subseteq Items
    BY <1>3, <2>1, FinalizeRowType DEF MarkQueued, TypeInv, TypeOK, Statuses
  <2>3. GoodJob(w, Rest)
    BY DEF GoodJob, Job, Rest, Steps, Collecting
  <2> QED BY <1>3, <2>2, <2>3, WorkerType DEF MarkQueued, TypeInv, TypeOK
<1> QED BY <1>1, <1>2, <1>3 DEF Check

\* A mail that goes out, or fails, leaves well-formed rows and counts.
LEMMA MailOutType ==
  ASSUME TypeInv, NEW f \in Workers, MailOut(f)
  PROVE  mailed' \in [Items -> 0..2]
BY DEF MailOut, TypeInv, TypeOK

LEMMA DeliveredType ==
  ASSUME TypeInv, NEW f \in Workers
  PROVE  Delivered(f) \in [Items -> Row]
<1>1. \A r \in Row : [r EXCEPT !.status = "success"] \in Row
  BY DEF Row, Statuses
<1> QED BY <1>1 DEF Delivered, TypeInv, TypeOK

LEMMA FlushType ==
  ASSUME TypeInv, NEW f \in Flushers, Flush(f)
  PROVE  TypeInv'
<1>1. f \in Workers /\ Instance[f] \in Instances
  BY DigestAssumption
<1> DEFINE to(step) == [worker[f] EXCEPT !.pc = step]
<1>2. \A step \in Steps \ Collecting : GoodJob(f, to(step))
  BY <1>1 DEF TypeInv, TypeOK, GoodJob, Job
<1>3. {"sweep", "discard", "select", "read", "send", "record", "release"} \subseteq Steps \ Collecting
  BY DEF Steps, Collecting
<1>4. \A step : Goto(f, step) => Becomes(f, to(step))
  BY DEF Goto
<1> HIDE DEF to
<1>5. CASE StartFlush(f)
  <2>1. lease' \in Lease
    BY <1>1, <1>5, JobLeaseAssumption DEF StartFlush, Taken, Lease
  <2> QED BY <1>1, <1>2, <1>3, <1>4, <1>5, <2>1, WorkerType DEF StartFlush, TypeInv, TypeOK
<1>6. CASE Sweep(f)
  BY <1>1, <1>2, <1>3, <1>4, <1>6, WorkerType DEF Sweep, TypeInv, TypeOK
<1>7. CASE Discard(f)
  <2>1. rows' \in [Items -> Row]
    BY <1>1, <1>7, ReleaseRowType DEF Discard, TypeInv, TypeOK
  <2> QED BY <1>1, <1>2, <1>3, <1>4, <1>7, <2>1, EmptyForgets, WorkerType
        DEF Discard, TypeInv, TypeOK
<1>8. CASE Select(f)
  BY <1>1, <1>2, <1>3, <1>4, <1>8, WorkerType DEF Select, TypeInv, TypeOK
<1>9. CASE ReadItems(f)
  <2> DEFINE j == [worker[f] EXCEPT !.pc = "send", !.batch = Body]
  <2>1. Body \subseteq Items
    BY CollectedType DEF TypeInv, TypeOK
  <2>2. GoodJob(f, j)
    BY <1>1, <2>1 DEF TypeInv, TypeOK, GoodJob, Job, Steps, Collecting
  <2>3. Goto(f, "release") \/ Becomes(f, j)
    BY <1>9 DEF ReadItems
  <2> HIDE DEF j
  <2> QED BY <1>1, <1>2, <1>3, <1>4, <1>9, <2>2, <2>3, WorkerType
        DEF ReadItems, TypeInv, TypeOK
<1>10. CASE SendMail(f)
  BY <1>1, <1>2, <1>3, <1>4, <1>10, MailOutType, WorkerType DEF SendMail, TypeInv, TypeOK
<1>11. CASE MailFails(f)
  <2>1. ASSUME NEW r \in Row
        PROVE  [r EXCEPT !.status = "failed", !.retry = Null,
                         !.attempts = IF @ < AttemptBound THEN @ + 1 ELSE @] \in Row
    <3>1. /\ (IF r.attempts < AttemptBound THEN r.attempts + 1 ELSE r.attempts) \in 0..AttemptBound
          /\ "failed" \in Statuses
      BY AttemptAssumption DEF Row, Statuses
    <3> QED BY <3>1 DEF Row
  <2>2. rows' \in [Items -> Row]
    BY <1>11, <2>1 DEF MailFails, TypeInv, TypeOK
  <2>4. mailed' \in [Items -> 0..2] /\ doubt' \subseteq Items
    BY <1>1, <1>11, MailOutType DEF MailFails, TypeInv, TypeOK
  <2>3. faults' \in 0..MaxFaults
    <3>1. faults < MaxFaults /\ faults' = faults + 1
      BY <1>11 DEF MailFails
    <3> QED BY <3>1, DigestAssumption DEF TypeInv, TypeOK
  <2> QED BY <1>1, <1>2, <1>3, <1>4, <1>11, <2>2, <2>3, <2>4, WorkerType
        DEF MailFails, TypeInv, TypeOK
<1>12. CASE RecordMail(f)
  <2>1. rows' \in [Items -> Row] /\ doubt' \subseteq Items
    BY <1>1, <1>12, DeliveredType DEF RecordMail, TypeInv, TypeOK
  <2> QED BY <1>1, <1>2, <1>3, <1>4, <1>12, <2>1, WithoutForgets, WorkerType
        DEF RecordMail, TypeInv, TypeOK
<1>13. CASE Release(f)
  <2>1. GoodJob(f, Rest)
    BY DEF GoodJob, Job, Rest, Steps, Collecting
  <2>2. lease' \in Lease
    BY <1>13, JobLeaseAssumption DEF Release, Released, FreeLease, TypeInv, TypeOK, Lease
  <2> QED BY <1>1, <1>13, <2>1, <2>2, WorkerType DEF Release, TypeInv, TypeOK
<1> QED BY <1>5, <1>6, <1>7, <1>8, <1>9, <1>10, <1>11, <1>12, <1>13 DEF Flush

\* A step that no worker takes.
LEMMA WorldType ==
  ASSUME TypeInv, Owner \/ Tick \/ \E i \in Items : PassHandled(i)
  PROVE  TypeInv'
<1>1. CASE Owner
  <2>1. presses' \in 0..MaxPresses
    BY <1>1, DigestAssumption
       DEF Owner, TogglePause, ChangeMode, DeleteEcho, GiveUp, Press, TypeInv, TypeOK
  <2>2. CASE \E i \in Items : GiveUp(i)
    <3>1. rows' \in [Items -> Row]
      BY <2>2, ButtonRowType DEF GiveUp, TypeInv, TypeOK
    <3> QED BY <2>1, <2>2, <3>1 DEF GiveUp, TypeInv, TypeOK
  <2> QED BY <1>1, <2>1, <2>2 DEF Owner, TogglePause, ChangeMode, DeleteEcho, TypeInv, TypeOK
<1>2. CASE Tick
  <2>1. lease' \in Lease
    BY <1>2, JobLeaseAssumption DEF Tick, Aged, TypeInv, TypeOK, Lease
  <2>2. rows' \in [Items -> Row]
    BY <1>2, AgeRowType DEF Tick, TypeInv, TypeOK
  <2> QED BY <1>2, <2>1, <2>2 DEF Tick, TypeInv, TypeOK
<1>3. CASE \E i \in Items : PassHandled(i)
  BY <1>3 DEF PassHandled, TypeInv, TypeOK
<1> QED BY <1>1, <1>2, <1>3

LEMMA CrashType ==
  ASSUME TypeInv, NEW n \in Instances, Crash(n)
  PROVE  TypeInv'
<1>1. worker' = [w \in Workers |-> IF Instance[w] = n THEN Rest ELSE worker[w]]
  BY DEF Crash
<1>2. Rest \in Job /\ Rest.pc \notin Collecting
  BY DEF Job, Rest, Steps, Collecting
<1>3. worker \in [Workers -> Job]
  BY DEF TypeInv, TypeOK, Job
<1>4. worker' \in [Workers -> Job] /\ \A w \in Workers : GoodJob(w, worker'[w])
  BY <1>1, <1>2, <1>3 DEF TypeInv, GoodJob
<1>5. lease' \in Lease
  BY DEF Crash, Orphaned, TypeInv, TypeOK, Lease
<1>6. faults' \in 0..MaxFaults
  BY DigestAssumption DEF Crash, TypeInv, TypeOK
<1>7. \A g \in Flushers : worker[g].batch \subseteq Items
  BY <1>3, DigestAssumption DEF Job
<1>8. doubt' \subseteq Items
  <2> DEFINE batches == {worker[f].batch : f \in {g \in Flushers :
                           Instance[g] = n /\ worker[g].pc = "record"}}
  <2>1. \A b \in batches : b \subseteq Items
    BY <1>7
  <2>2. doubt' = doubt \cup UNION batches
    BY DEF Crash
  <2> HIDE DEF batches
  <2> QED BY <2>1, <2>2 DEF TypeInv, TypeOK
<1> QED BY <1>4, <1>5, <1>6, <1>8 DEF Crash, TypeInv, TypeOK, Job

LEMMA NextType == TypeInv /\ [Next]_vars => TypeInv'
<1> SUFFICES ASSUME TypeInv, [Next]_vars PROVE TypeInv'
  OBVIOUS
<1>1. CASE UNCHANGED vars
  BY <1>1 DEF vars, TypeInv, TypeOK
<1> QED BY <1>1, CheckType, FlushType, WorldType, CrashType DEF Next

\* The digest stays in its types, for any number of checks, jobs, items and faults.
THEOREM TypeCorrect == Spec => []TypeOK
<1>1. TypeInv => TypeOK
  BY DEF TypeInv
<1> QED BY <1>1, InitType, NextType, PTL DEF Spec

-----------------------------------------------------------------------------
(* What is held is kept.                                                   *)

Kept(i) == i \in Collected \/ mailed[i] > 0 \/ echo.deleted

\* A check marks only what it collected; a job records only what it mailed, and
\* discards only what belongs to a deleted echo.
KeptBy(w) ==
  /\ worker[w].pc = "mark" => Kept(worker[w].item)
  /\ worker[w].pc = "record" => \A i \in worker[w].batch : mailed[i] > 0
  /\ worker[w].pc = "discard" => echo.deleted

KeptInv ==
  /\ \A i \in Items : rows[i].status = "queued" => Kept(i)
  /\ \A i \in Items : rows[i].status = "success" => mailed[i] > 0
  /\ \A w \in Workers : KeptBy(w)

LEMMA InitKept == Init => KeptInv
BY DEF Init, KeptInv, KeptBy, Absent, Rest

\* What is kept stays kept while the echo stays deleted, no mail is taken back and
\* only what was mailed, or what belongs to a deleted echo, leaves digest_items.
LEMMA KeptStep ==
  ASSUME TypeInv, TypeInv', KeptInv,
         echo.deleted => echo'.deleted,
         \A i \in Items : mailed[i] > 0 => mailed'[i] > 0,
         \A i \in Collected : i \in Collected' \/ mailed'[i] > 0 \/ echo'.deleted,
         \A i \in Items : rows'[i].status = "queued" => rows[i].status = "queued" \/ Kept(i)',
         \A i \in Items : rows'[i].status = "success"
                            => rows[i].status = "success" \/ mailed'[i] > 0,
         \A w \in Workers : worker'[w] = worker[w] \/ KeptBy(w)'
  PROVE  KeptInv'
<1>1. Collected \subseteq Items
  BY CollectedType DEF TypeInv, TypeOK
<1>2. \A i \in Items : Kept(i) => Kept(i)'
  BY <1>1 DEF Kept
<1>3. ASSUME NEW w \in Workers, worker'[w] = worker[w] PROVE KeptBy(w)'
  <2>1. worker[w].batch \subseteq Items /\ (worker[w].pc = "mark" => worker[w].item \in Items)
    BY DEF TypeInv, GoodJob, Job, Collecting
  <2> QED BY <1>2, <1>3, <2>1 DEF KeptInv, KeptBy
<1> QED BY <1>2, <1>3 DEF KeptInv

LEMMA GotoFacts ==
  ASSUME worker \in [Workers -> Job], NEW w \in Workers, NEW step, Goto(w, step)
  PROVE  /\ worker'[w].pc = step
         /\ worker'[w].item = worker[w].item /\ worker'[w].batch = worker[w].batch
         /\ \A v \in Workers : v # w => worker'[v] = worker[v]
<1> DEFINE j == [worker[w] EXCEPT !.pc = step]
<1>1. worker[w] \in Job
  OBVIOUS
<1>2. j.pc = step /\ j.item = worker[w].item /\ j.batch = worker[w].batch
  BY <1>1 DEF Job
<1>3. worker' = [worker EXCEPT ![w] = j]
  BY DEF Goto, Becomes
<1> HIDE DEF j
<1> QED BY <1>2, <1>3

LEMMA CheckKeeps ==
  ASSUME TypeInv, TypeInv', KeptInv, NEW w \in Workers, Check(w)
  PROVE  KeptInv'
<1>1. worker \in [Workers -> Job] /\ rows \in [Items -> Row] /\ digest \in Seq(Items \cup {Null})
  BY DEF TypeInv, TypeOK, Job
<1>2. ASSUME NEW i \in Items, Claim(w, i) PROVE KeptInv'
  <2>1. \A k \in Items : rows'[k].status \in {rows[k].status, "pending"}
    BY <1>1, <1>2 DEF Claim, ClaimRow, Row
  <2>2. \A v \in Workers : worker'[v] = worker[v] \/ worker'[v].pc = "insert"
    BY <1>1, <1>2 DEF Claim, Becomes, Rest
  <2>3. UNCHANGED <<digest, echo, mailed>>
    BY <1>2 DEF Claim
  <2> QED BY <2>1, <2>2, <2>3, KeptStep DEF KeptBy, Collected, Entries
<1>3. CASE InsertItem(w)
  <2> DEFINE i == worker[w].item
  <2>1. i \in Items
    BY <1>3 DEF InsertItem, TypeInv, GoodJob, Collecting
  <2>2. Collected' = Collected \cup {i}
    BY <1>1, <1>3, <2>1, AppendCollects DEF InsertItem, Collected, Entries
  <2>3. \A v \in Workers : worker'[v] = worker[v]
                            \/ (worker'[v].pc = "mark" /\ worker'[v].item = i)
    BY <1>1, <1>3, GotoFacts DEF InsertItem
  <2>4. \A v \in Workers : worker'[v] = worker[v] \/ KeptBy(v)'
    BY <2>2, <2>3 DEF KeptBy, Kept
  <2>5. UNCHANGED <<rows, echo, mailed>>
    BY <1>3 DEF InsertItem
  <2> QED BY <2>2, <2>4, <2>5, KeptStep
<1>4. CASE MarkQueued(w)
  <2>1. PICK i \in Items : i = worker[w].item /\ Kept(i)
    BY <1>4 DEF MarkQueued, TypeInv, GoodJob, Collecting, KeptInv, KeptBy
  <2>2. UNCHANGED <<digest, echo, mailed>>
    BY <1>4 DEF MarkQueued
  <2>3. Kept(i)'
    BY <2>1, <2>2, <1>4 DEF Kept, Collected, Entries
  <2>4. \A k \in Items : rows'[k].status \in {rows[k].status} \cup (IF k = i THEN {"queued"} ELSE {})
    BY <1>1, <1>4, <2>1 DEF MarkQueued, FinalizeRow, Row
  <2>5. \A v \in Workers : worker'[v] = worker[v] \/ worker'[v].pc = "idle"
    BY <1>1, <1>4 DEF MarkQueued, Becomes, Rest
  <2>6. \A k \in Items : rows'[k].status = "queued" => rows[k].status = "queued" \/ Kept(k)'
    BY <2>3, <2>4
  <2> QED BY <2>2, <2>4, <2>5, <2>6, KeptStep DEF KeptBy, Collected, Entries
<1> QED BY <1>2, <1>3, <1>4 DEF Check

\* What a job of a flusher leaves of the table and of the digest.
LEMMA FlushKeeps ==
  ASSUME TypeInv, TypeInv', KeptInv, NEW f \in Flushers, Flush(f)
  PROVE  KeptInv'
<1>1. /\ worker \in [Workers -> Job] /\ rows \in [Items -> Row]
      /\ digest \in Seq(Items \cup {Null}) /\ f \in Workers /\ mailed \in [Items -> 0..2]
      /\ worker[f].batch \subseteq Items
  BY DigestAssumption DEF TypeInv, TypeOK, Job
<1> DEFINE Steady == UNCHANGED <<rows, digest, echo, mailed>>
           Moved(S) == \A v \in Workers : worker'[v] = worker[v] \/ worker'[v].pc \in S
<1>2. ASSUME Steady, Moved({"sweep", "select", "read", "send", "release", "idle"})
      PROVE  KeptInv'
  BY <1>2, KeptStep DEF KeptBy, Collected, Entries
<1>3. CASE StartFlush(f)
  BY <1>1, <1>2, <1>3 DEF StartFlush, Goto, Becomes, Job
<1>4. CASE Sweep(f)
  <2>1. \A v \in Workers : worker'[v] = worker[v] \/ worker'[v].pc = "select"
                            \/ (worker'[v].pc = "discard" /\ echo.deleted)
    BY <1>1, <1>4, GotoFacts DEF Sweep
  <2>2. Steady
    BY <1>4 DEF Sweep
  <2> QED BY <2>1, <2>2, KeptStep DEF KeptBy, Collected, Entries
<1>5. CASE Discard(f)
  <2>1. echo.deleted /\ echo' = echo /\ mailed' = mailed
    BY <1>1, <1>5 DEF Discard, KeptInv, KeptBy
  <2>2. \A i \in Items : rows'[i].status = rows[i].status \/ rows'[i].status = "gave_up"
    BY <1>1, <1>5 DEF Discard, DiscardRow, DropRow, Row
  <2>3. Moved({"select"})
    BY <1>1, <1>5 DEF Discard, Goto, Becomes, Job
  <2> QED BY <2>1, <2>2, <2>3, KeptStep DEF KeptBy
<1>6. CASE Select(f)
  <2>1. Moved({"read", "release"}) /\ Steady
    BY <1>1, <1>6 DEF Select, Goto, Becomes, Job
  <2> QED BY <1>2, <2>1
<1>7. CASE ReadItems(f)
  <2>1. Moved({"release", "send"}) /\ Steady
    BY <1>1, <1>7 DEF ReadItems, Goto, Becomes, Job
  <2> QED BY <1>2, <2>1
<1>8. CASE SendMail(f)
  <2>1. /\ \A i \in Items : mailed[i] > 0 => mailed'[i] > 0
        /\ \A i \in worker[f].batch : mailed'[i] > 0
    BY <1>1, <1>8 DEF SendMail, MailOut
  <2>2. UNCHANGED <<rows, digest, echo>>
    BY <1>8 DEF SendMail
  <2>3. \A v \in Workers : worker'[v] = worker[v]
                            \/ (worker'[v].pc = "record" /\ worker'[v].batch = worker[f].batch)
    BY <1>1, <1>8, GotoFacts DEF SendMail
  <2>4. \A v \in Workers : worker'[v] = worker[v] \/ KeptBy(v)'
    BY <2>1, <2>3 DEF KeptBy
  <2> QED BY <2>1, <2>2, <2>4, KeptStep DEF Collected, Entries
<1>9. CASE MailFails(f)
  <2>1. \A i \in Items : mailed[i] > 0 => mailed'[i] > 0
    <3>1. MailOut(f) \/ mailed' = mailed
      BY <1>9 DEF MailFails
    <3> QED BY <1>1, <3>1 DEF MailOut
  <2>2. \A i \in Items : rows'[i].status \in {rows[i].status, "failed"}
    BY <1>1, <1>9 DEF MailFails, Row
  <2>3. Moved({"release"}) /\ UNCHANGED <<digest, echo>>
    BY <1>1, <1>9 DEF MailFails, Goto, Becomes, Job
  <2> QED BY <2>1, <2>2, <2>3, KeptStep DEF KeptBy, Collected, Entries
<1>10. CASE RecordMail(f)
  <2>1. \A i \in worker[f].batch : mailed'[i] > 0
    BY <1>1, <1>10 DEF RecordMail, KeptInv, KeptBy
  <2>2. Collected' = Collected \ worker[f].batch
    BY <1>1, <1>10, WithoutForgets DEF RecordMail
  <2>3. \A i \in Items : rows'[i].status = rows[i].status
                          \/ (rows'[i].status = "success" /\ i \in worker[f].batch)
    <3>1. \A r \in Row : [r EXCEPT !.status = "success"].status = "success"
      BY DEF Row
    <3>2. rows' = Delivered(f)
      BY <1>10 DEF RecordMail
    <3> QED BY <1>1, <3>1, <3>2 DEF Delivered
  <2>4. Moved({"release"}) /\ UNCHANGED <<echo, mailed>>
    BY <1>1, <1>10 DEF RecordMail, Goto, Becomes, Job
  <2>5. \A i \in Items : rows'[i].status = "success"
                          => rows[i].status = "success" \/ mailed'[i] > 0
    BY <2>1, <2>3
  <2>6. \A i \in Items : rows'[i].status = "queued" => rows[i].status = "queued"
    BY <2>3
  <2> QED BY <2>1, <2>2, <2>4, <2>5, <2>6, KeptStep DEF KeptBy
<1>11. CASE Release(f)
  <2>1. Moved({"idle"}) /\ Steady
    BY <1>1, <1>11 DEF Release, Becomes, Rest
  <2> QED BY <1>2, <2>1
<1> QED BY <1>3, <1>4, <1>5, <1>6, <1>7, <1>8, <1>9, <1>10, <1>11 DEF Flush

LEMMA NextKept ==
  ASSUME TypeInv, TypeInv', KeptInv, [Next]_vars
  PROVE  KeptInv'
<1>1. rows \in [Items -> Row] /\ echo.deleted \in BOOLEAN
  BY DEF TypeInv, TypeOK
<1>2. CASE Owner \/ Tick \/ \E i \in Items : PassHandled(i)
  <2>1. UNCHANGED <<digest, mailed, worker>>
    BY <1>2 DEF Owner, TogglePause, ChangeMode, DeleteEcho, GiveUp, Tick, PassHandled
  <2>2. echo.deleted => echo'.deleted
    BY <1>2 DEF Owner, TogglePause, ChangeMode, DeleteEcho, GiveUp, Tick, PassHandled
  <2>3. \A i \in Items : rows'[i].status \in {rows[i].status, "gave_up"}
    <3>1. \A r \in Row : GiveUpRow(r).status = "gave_up" /\ AgeRow(r).status = r.status
      BY DEF GiveUpRow, AgeRow, Row
    <3>2. CASE Tick
      BY <1>1, <3>1, <3>2 DEF Tick
    <3>3. ASSUME NEW k \in Items, GiveUp(k)
          PROVE  \A i \in Items : rows'[i].status \in {rows[i].status, "gave_up"}
      BY <1>1, <3>1, <3>3 DEF GiveUp
    <3> QED BY <1>2, <3>2, <3>3 DEF Owner, TogglePause, ChangeMode, DeleteEcho, PassHandled
  <2> QED BY <2>1, <2>2, <2>3, KeptStep DEF Collected, Entries
<1>3. ASSUME NEW n \in Instances, Crash(n) PROVE KeptInv'
  <2>1. UNCHANGED <<rows, digest, echo, mailed>>
    BY <1>3 DEF Crash
  <2>2. \A v \in Workers : worker'[v] = worker[v] \/ worker'[v].pc = "idle"
    BY <1>3 DEF Crash, Rest
  <2> QED BY <2>1, <2>2, KeptStep DEF KeptBy, Collected, Entries
<1>4. CASE UNCHANGED vars
  BY <1>4, KeptStep DEF vars, Collected, Entries
<1> QED BY <1>2, <1>3, <1>4, CheckKeeps, FlushKeeps DEF Next

LEMMA KeptInvariance == Spec => []KeptInv
<1>1. TypeInv /\ TypeInv' /\ KeptInv /\ [Next]_vars => KeptInv'
  BY NextKept
<1> QED BY <1>1, InitType, NextType, InitKept, PTL DEF Spec

\* Nothing that the history calls held is lost: it is collected still, was mailed, or
\* belongs to a deleted echo, however checks, jobs, crashes and the owner overlap.
THEOREM HeldItemsStay == Spec => []HeldItemsAreKept
<1>1. KeptInv => HeldItemsAreKept
  BY DEF KeptInv, HeldItemsAreKept, Kept
<1> QED BY <1>1, KeptInvariance, PTL

-----------------------------------------------------------------------------
(* No item is mailed twice, unless a mail went unrecorded.                 *)

BeingRecorded(i) == \E f \in Flushers : worker[f].pc = "record" /\ i \in worker[f].batch

Finished(i) == rows[i].status = "success" /\ i \notin Collected

\* What is about to be mailed is still collected.  An item whose mails are all known
\* was mailed at most once, and then its mail is being recorded or was.
MailInv ==
  /\ \A f \in Flushers : worker[f].pc = "send" => worker[f].batch \subseteq Collected
  /\ \A i \in Items \ doubt : /\ mailed[i] <= 1
                              /\ mailed[i] = 1 => BeingRecorded(i) \/ Finished(i)

LEMMA InitMail == Init => MailInv
BY DigestAssumption DEF Init, MailInv, Rest

\* The lease lets one job run at a time.
LEMMA Alone ==
  ASSUME OneRunEach, LeaseInv, NEW f \in Flushers, NEW g \in Flushers,
         worker[f].pc # "idle", worker[g].pc # "idle"
  PROVE  f = g
BY DEF OneRunEach, LeaseInv, Covered

\* A step that mails nothing, or nothing but what it cannot record.
LEMMA MailStep ==
  ASSUME MailInv, doubt \subseteq doubt',
         \A i \in Items \ doubt' : mailed'[i] = mailed[i],
         \A i \in Items \ doubt' : Finished(i) => Finished(i)',
         \A f \in Flushers : worker[f].pc = "record" => \/ worker'[f] = worker[f]
               \/ \A i \in worker[f].batch : i \in doubt' \/ Finished(i)',
         \A f \in Flushers : worker'[f].pc = "send" => worker'[f].batch \subseteq Collected'
  PROVE  MailInv'
<1>1. ASSUME NEW i \in Items \ doubt', mailed'[i] = 1
      PROVE  BeingRecorded(i)' \/ Finished(i)'
  <2>1. BeingRecorded(i) \/ Finished(i)
    BY <1>1 DEF MailInv
  <2> QED BY <1>1, <2>1 DEF BeingRecorded
<1> QED BY <1>1 DEF MailInv

LEMMA CheckMails ==
  ASSUME TypeInv, MailInv, NEW w \in Workers \ Flushers, Check(w)
  PROVE  MailInv'
<1>1. /\ rows \in [Items -> Row] /\ digest \in Seq(Items \cup {Null})
      /\ worker \in [Workers -> Job]
  BY DEF TypeInv, TypeOK, Job
<1>2. \A f \in Flushers : worker'[f] = worker[f]
  BY <1>1, DigestAssumption DEF Check, Claim, InsertItem, MarkQueued, Goto, Becomes
<1>3. mailed' = mailed
  BY DEF Check, Claim, InsertItem, MarkQueued
<1>4. ASSUME NEW i \in Items, Claim(w, i) PROVE MailInv'
  <2>1. \A k \in Items : rows[k].status = "success" => rows'[k].status = "success"
    BY <1>1, <1>4 DEF Claim, Claimable
  <2> QED BY <1>2, <1>3, <1>4, <2>1, MailStep DEF Claim, Finished, Collected, Entries, MailInv
<1>5. CASE InsertItem(w)
  <2>1. PICK i \in Items : i = worker[w].item
    BY <1>5 DEF InsertItem, TypeInv, GoodJob, Collecting
  <2>2. Collected' = Collected \cup {i}
    BY <1>1, <1>5, <2>1, AppendCollects DEF InsertItem, Collected, Entries
  <2>3. rows' = rows /\ doubt \subseteq doubt' /\ (i \in doubt' \/ i \in Collected \/ Owns(rows[i], w))
    BY <1>5, <2>1 DEF InsertItem
  <2>4. \A k \in Items \ doubt' : Finished(k) => Finished(k)'
    BY <2>2, <2>3 DEF Finished, Owns
  <2> QED BY <1>2, <1>3, <2>2, <2>3, <2>4, MailStep DEF MailInv
<1>6. CASE MarkQueued(w)
  <2>1. \A k \in Items : rows[k].status = "success" => rows'[k].status = "success"
    BY <1>1, <1>6 DEF MarkQueued, FinalizeRow, Owns
  <2> QED BY <1>2, <1>3, <1>6, <2>1, MailStep DEF MarkQueued, Finished, Collected, Entries, MailInv
<1> QED BY <1>4, <1>5, <1>6 DEF Check

\* A mail that is recorded afterwards: none of its items was mailed before.
LEMMA SendMails ==
  ASSUME OneRunEach, LeaseInv, TypeInv, MailInv, NEW f \in Flushers, SendMail(f)
  PROVE  MailInv'
<1>1. /\ worker \in [Workers -> Job] /\ f \in Workers /\ worker[f].pc = "send"
      /\ mailed \in [Items -> 0..2]
  BY DigestAssumption DEF SendMail, TypeInv, TypeOK, Job
<1>2. /\ worker'[f].pc = "record" /\ worker'[f].batch = worker[f].batch
      /\ UNCHANGED <<rows, digest, doubt>>
  BY <1>1, GotoFacts DEF SendMail
<1>3. \A g \in Flushers : g # f => worker[g].pc = "idle" /\ worker'[g] = worker[g]
  BY <1>1, Alone, GotoFacts, DigestAssumption DEF SendMail
<1>4. worker[f].batch \subseteq Collected
  BY <1>1 DEF MailInv
<1>5. \A i \in Items : ~ BeingRecorded(i)
  BY <1>1, <1>3 DEF BeingRecorded
<1>6. ASSUME NEW i \in Items \ doubt'
      PROVE  /\ mailed'[i] <= 1
             /\ mailed'[i] = 1 => BeingRecorded(i)' \/ Finished(i)'
  <2>1. mailed[i] <= 1 /\ (mailed[i] = 1 => Finished(i))
    BY <1>2, <1>5 DEF MailInv
  <2>2. CASE i \in worker[f].batch
    <3>1. mailed[i] # 1
      BY <1>4, <2>1, <2>2 DEF Finished
    <3>2. mailed'[i] = 1
      BY <1>1, <2>1, <2>2, <3>1 DEF SendMail, MailOut
    <3> QED BY <1>2, <2>2, <3>2 DEF BeingRecorded
  <2>3. CASE i \notin worker[f].batch
    <3>1. mailed'[i] = mailed[i]
      BY <1>1, <2>3 DEF SendMail, MailOut
    <3> QED BY <1>2, <2>1, <3>1 DEF Finished, Collected, Entries
  <2> QED BY <2>2, <2>3
<1>7. \A g \in Flushers : worker'[g].pc # "send"
  BY <1>2, <1>3
<1> QED BY <1>6, <1>7 DEF MailInv

LEMMA FlushMails ==
  ASSUME OneRunEach, LeaseInv, TypeInv, MailInv, NEW f \in Flushers, Flush(f)
  PROVE  MailInv'
<1>1. /\ worker \in [Workers -> Job] /\ rows \in [Items -> Row] /\ f \in Workers
      /\ digest \in Seq(Items \cup {Null}) /\ worker[f].batch \subseteq Items
  BY DigestAssumption DEF TypeInv, TypeOK, Job
<1> DEFINE Others == \A g \in Flushers : g # f => worker'[g] = worker[g]
<1>2. ASSUME Others, UNCHANGED <<rows, digest, mailed, doubt>>,
             worker[f].pc # "record", worker'[f].pc # "send"
      PROVE  MailInv'
  BY <1>2, MailStep DEF Finished, Collected, Entries, MailInv
<1>3. \A g \in Flushers : g # f /\ worker[f].pc # "idle" => worker[g].pc = "idle"
  BY Alone
<1>4. CASE StartFlush(f)
  BY <1>1, <1>2, <1>4, GotoFacts, DigestAssumption DEF StartFlush
<1>5. CASE Sweep(f)
  BY <1>1, <1>2, <1>5, GotoFacts, DigestAssumption DEF Sweep
<1>6. CASE Discard(f)
  <2>1. Others /\ worker'[f].pc = "select"
    BY <1>1, <1>6, GotoFacts, DigestAssumption DEF Discard
  <2>2. \A g \in Flushers : worker'[g].pc # "send" /\ worker[g].pc # "record"
    BY <1>3, <1>6, <2>1 DEF Discard
  <2>3. \A i \in Items : rows[i].status = "success" => rows'[i].status = "success"
    BY <1>1, <1>6 DEF Discard, DiscardRow
  <2>4. Collected' = {} /\ UNCHANGED <<mailed, doubt>>
    BY <1>6, EmptyForgets DEF Discard
  <2> QED BY <2>2, <2>3, <2>4, MailStep DEF Finished
<1>7. CASE Select(f)
  BY <1>1, <1>2, <1>7, GotoFacts, DigestAssumption DEF Select
<1>8. CASE ReadItems(f)
  <2>1. CASE Goto(f, "release")
    BY <1>1, <1>2, <1>8, <2>1, GotoFacts, DigestAssumption DEF ReadItems
  <2>2. CASE Becomes(f, [worker[f] EXCEPT !.pc = "send", !.batch = Body])
    <3>1. Others /\ worker'[f].batch = Body
      BY <1>1, <2>2, DigestAssumption DEF Becomes, Job
    <3>2. Body \subseteq Collected
      BY <1>1, CollectedType
    <3>3. UNCHANGED <<rows, digest, mailed, doubt>> /\ worker[f].pc = "read"
      BY <1>8 DEF ReadItems
    <3> QED BY <3>1, <3>2, <3>3, MailStep DEF Finished, Collected, Entries, MailInv
  <2> QED BY <1>8, <2>1, <2>2 DEF ReadItems
<1>9. CASE MailFails(f)
  <2>1. Others /\ worker'[f].pc = "release" /\ worker[f].pc = "send" /\ digest' = digest
    BY <1>1, <1>9, GotoFacts, DigestAssumption DEF MailFails
  <2>2. \A i \in Items : rows[i].status = "success" => rows'[i].status = "success"
    BY <1>1, <1>9 DEF MailFails
  <2>3. doubt \subseteq doubt' /\ \A i \in Items \ doubt' : mailed'[i] = mailed[i]
    BY <1>9 DEF MailFails, MailOut
  <2> QED BY <2>1, <2>2, <2>3, MailStep DEF Finished, Collected, Entries, MailInv
<1>10. CASE RecordMail(f)
  <2>1. Others /\ worker'[f].pc = "release" /\ worker[f].pc = "record" /\ mailed' = mailed
    BY <1>1, <1>10, GotoFacts, DigestAssumption DEF RecordMail
  <2>2. Collected' = Collected \ worker[f].batch
    BY <1>1, <1>10, WithoutForgets DEF RecordMail
  <2>3. rows' = Delivered(f) /\ \A r \in Row : [r EXCEPT !.status = "success"].status = "success"
    BY <1>10 DEF RecordMail, Row
  <2>4. \A i \in Items : rows[i].status = "success" => rows'[i].status = "success"
    BY <1>1, <2>3 DEF Delivered
  <2>5. doubt' = doubt \cup {i \in worker[f].batch : rows[i].status \notin {"queued", "failed"}}
    BY <1>10 DEF RecordMail
  <2>6. ASSUME NEW i \in worker[f].batch PROVE i \in doubt' \/ Finished(i)'
    <3>1. i \in doubt' \/ rows'[i].status = "success"
      BY <1>1, <2>3, <2>5 DEF Delivered
    <3> QED BY <2>2, <3>1 DEF Finished
  <2>7. \A g \in Flushers : worker'[g].pc # "send" /\ (g # f => worker[g].pc # "record")
    BY <1>3, <2>1
  <2> QED BY <2>1, <2>2, <2>4, <2>5, <2>6, <2>7, MailStep DEF Finished
<1>11. CASE Release(f)
  BY <1>1, <1>2, <1>11, DigestAssumption DEF Release, Becomes, Rest
<1> QED BY <1>4, <1>5, <1>6, <1>7, <1>8, <1>9, <1>10, <1>11, SendMails DEF Flush

LEMMA NextMail ==
  ASSUME OneRunEach, LeaseInv, TypeInv, MailInv, [Next]_vars
  PROVE  MailInv'
<1>1. rows \in [Items -> Row] /\ worker \in [Workers -> Job] /\ Flushers \subseteq Workers
  BY DigestAssumption DEF TypeInv, TypeOK, Job
<1>2. CASE Owner \/ Tick \/ \E i \in Items : PassHandled(i)
  <2>1. UNCHANGED <<digest, mailed, worker, doubt>>
    BY <1>2 DEF Owner, TogglePause, ChangeMode, DeleteEcho, GiveUp, Tick, PassHandled
  <2>2. \A i \in Items : rows[i].status = "success" => rows'[i].status = "success"
    <3>1. \A r \in Row : AgeRow(r).status = r.status
      BY DEF AgeRow, Row
    <3>2. CASE Tick
      BY <1>1, <3>1, <3>2 DEF Tick
    <3>3. ASSUME NEW k \in Items, GiveUp(k)
          PROVE  \A i \in Items : rows[i].status = "success" => rows'[i].status = "success"
      BY <1>1, <3>3 DEF GiveUp
    <3> QED BY <1>2, <3>2, <3>3 DEF Owner, TogglePause, ChangeMode, DeleteEcho, PassHandled
  <2> QED BY <2>1, <2>2, MailStep DEF Finished, Collected, Entries, MailInv
<1>3. ASSUME NEW n \in Instances, Crash(n) PROVE MailInv'
  <2>1. UNCHANGED <<rows, digest, mailed>> /\ doubt \subseteq doubt'
    BY <1>3 DEF Crash
  <2>2. \A f \in Flushers : worker'[f] = worker[f] \/ (worker'[f].pc = "idle" /\ Instance[f] = n)
    BY <1>1, <1>3 DEF Crash, Rest
  <2>3. \A f \in Flushers : Instance[f] = n /\ worker[f].pc = "record" => worker[f].batch \subseteq doubt'
    BY <1>3 DEF Crash
  <2> QED BY <2>1, <2>2, <2>3, MailStep DEF Finished, Collected, Entries, MailInv
<1>4. CASE UNCHANGED vars
  BY <1>4, MailStep DEF vars, Finished, Collected, Entries, MailInv
<1>5. ASSUME NEW w \in Workers, Check(w) PROVE MailInv'
  <2>1. w \notin Flushers
    BY <1>5 DEF Check, Claim, InsertItem, MarkQueued, TypeInv, GoodJob, Collecting
  <2> QED BY <1>5, <2>1, CheckMails
<1> QED BY <1>2, <1>3, <1>4, <1>5, FlushMails DEF Next

LEMMA MailInvariance ==
  ASSUME OneRunEach
  PROVE  Spec => []MailInv
<1>1. LeaseInv /\ TypeInv /\ MailInv /\ [Next]_vars => MailInv'
  BY NextMail
<1>2. LeaseInv /\ [Next]_vars => LeaseInv'
  BY LeaseNext
<1> QED BY <1>1, <1>2, LeaseInit, InitType, NextType, InitMail, PTL DEF Spec

\* No item is mailed twice while every mail is recorded and no check works on after
\* losing its claim: the lease keeps the jobs of two processes apart.
THEOREM MailsAreExplained ==
  ASSUME OneRunEach
  PROVE  Spec => []NoUnexplainedMail
<1>1. TypeInv /\ MailInv => NoUnexplainedMail
  BY DEF TypeInv, TypeOK, MailInv, NoUnexplainedMail
<1> QED BY <1>1, InitType, NextType, MailInvariance, PTL DEF Spec

-----------------------------------------------------------------------------
(* The refinement of the outbox, item by item.                             *)

EntryOf(i) == [state |-> RowState(rows[i].status), sent |-> mailed[i], doubt |-> i \in doubt]

ItemMoves(i) == Out!Moves(EntryOf(i), EntryOf(i)')

\* The row stays as it is, or stays open, and nothing is mailed.
LEMMA StillMoves ==
  ASSUME NEW i \in Items, mailed'[i] = mailed[i],
         RowState(rows'[i].status) = RowState(rows[i].status),
         i \in doubt' \/ (i \in doubt' <=> i \in doubt)
  PROVE  ItemMoves(i)
<1>1. EntryOf(i)'.state = EntryOf(i).state /\ EntryOf(i)'.sent = EntryOf(i).sent
  BY DEF EntryOf, RowState
<1>2. CASE i \in doubt'
  <2>1. EntryOf(i)'.doubt = TRUE
    BY <1>2 DEF EntryOf
  <2> QED BY <1>1, <2>1 DEF ItemMoves, Out!Moves, Out!Doubt
<1>3. CASE i \in doubt' <=> i \in doubt
  <2>1. (i \in doubt') = (i \in doubt)
    BY <1>3
  <2>2. RowState(rows[i].status)' = RowState(rows[i].status)
    BY DEF RowState
  <2>3. EntryOf(i)' = EntryOf(i)
    BY <2>1, <2>2 DEF EntryOf
  <2> QED BY <2>3 DEF ItemMoves, Out!Moves, Out!Stays
<1> QED BY <1>2, <1>3

\* An open row that is not delivered: it stays open or is given up.
LEMMA OpenMoves ==
  ASSUME NEW i \in Items, RowState(rows[i].status) = "open", rows'[i].status # "success",
         mailed'[i] = mailed[i], i \in doubt' <=> i \in doubt
  PROVE  ItemMoves(i)
<1>1. CASE rows'[i].status = "gave_up"
  <2>1. EntryOf(i).state = "open" /\ EntryOf(i)' = [EntryOf(i) EXCEPT !.state = "dropped"]
    BY <1>1 DEF EntryOf, RowState
  <2> QED BY <2>1 DEF ItemMoves, Out!Moves, Out!Drop
<1>2. CASE rows'[i].status # "gave_up"
  BY <1>2, StillMoves DEF RowState
<1> QED BY <1>1, <1>2

LEMMA DeliverMoves ==
  ASSUME NEW i \in Items, rows'[i].status = "success", mailed[i] > 0,
         mailed'[i] = mailed[i], i \in doubt' <=> i \in doubt
  PROVE  ItemMoves(i)
<1>1. EntryOf(i).sent > 0 /\ EntryOf(i)' = [EntryOf(i) EXCEPT !.state = "delivered"]
  BY DEF EntryOf, RowState
<1> QED BY <1>1 DEF ItemMoves, Out!Moves, Out!Deliver

\* A mail: the first one of the item, or it is in doubt.
LEMMA SendMoves ==
  ASSUME NEW i \in Items, mailed[i] \in 0..2,
         mailed'[i] = IF mailed[i] < 2 THEN mailed[i] + 1 ELSE mailed[i],
         RowState(rows'[i].status) = RowState(rows[i].status),
         i \in doubt \/ mailed[i] > 0 => i \in doubt'
  PROVE  ItemMoves(i)
<1>1. /\ EntryOf(i)'.state = RowState(rows[i].status)' /\ EntryOf(i).state = RowState(rows[i].status)
      /\ EntryOf(i)'.sent = mailed'[i] /\ EntryOf(i).sent = mailed[i]
  BY DEF EntryOf
<1>2. EntryOf(i).doubt = (i \in doubt) /\ EntryOf(i)'.doubt = (i \in doubt')
  BY DEF EntryOf
<1>3. EntryOf(i)'.state = EntryOf(i).state
  BY <1>1 DEF RowState
<1>4. EntryOf(i)'.sent = IF EntryOf(i).sent = 2 THEN 2 ELSE EntryOf(i).sent + 1
  BY <1>1
<1>5. EntryOf(i).doubt \/ EntryOf(i).sent > 0 => EntryOf(i)'.doubt
  BY <1>1, <1>2
<1> QED BY <1>3, <1>4, <1>5 DEF ItemMoves, Out!Moves, Out!Send

LEMMA CheckMoves ==
  ASSUME TypeInv, NEW w \in Workers, Check(w), NEW i \in Items
  PROVE  ItemMoves(i)
<1>1. rows \in [Items -> Row]
  BY DEF TypeInv, TypeOK
<1>2. CASE InsertItem(w)
  BY <1>2, StillMoves DEF InsertItem
<1>3. ASSUME NEW k \in Items, Claim(w, k) PROVE ItemMoves(i)
  <2>1. RowState(rows'[i].status) = RowState(rows[i].status)
    BY <1>1, <1>3 DEF Claim, Claimable, ClaimRow, RowState, Row
  <2> QED BY <1>3, <2>1, StillMoves DEF Claim
<1>4. CASE MarkQueued(w)
  <2>1. RowState(rows'[i].status) = RowState(rows[i].status)
    BY <1>1, <1>4 DEF MarkQueued, FinalizeRow, Owns, RowState, Row
  <2> QED BY <1>4, <2>1, StillMoves DEF MarkQueued
<1> QED BY <1>2, <1>3, <1>4 DEF Check

LEMMA FlushMoves ==
  ASSUME OneRunEach, LeaseInv, TypeInv, KeptInv, MailInv, NEW f \in Flushers, Flush(f),
         NEW i \in Items
  PROVE  ItemMoves(i)
<1>1. /\ rows \in [Items -> Row] /\ mailed \in [Items -> 0..2] /\ f \in Workers
  BY DigestAssumption DEF TypeInv, TypeOK
<1>2. CASE \/ StartFlush(f) \/ Sweep(f) \/ Select(f) \/ ReadItems(f) \/ Release(f)
  BY <1>2, StillMoves DEF StartFlush, Sweep, Select, ReadItems, Release
<1>3. CASE Discard(f)
  <2>1. UNCHANGED <<mailed, doubt>> /\ rows'[i] = DiscardRow(rows[i])
    BY <1>3 DEF Discard
  <2>2. CASE rows[i].status = "queued"
    <3>1. rows'[i].status # "success"
      BY <1>1, <2>1, <2>2 DEF DiscardRow, DropRow, Row
    <3> QED BY <2>1, <2>2, <3>1, OpenMoves DEF RowState
  <2>3. CASE rows[i].status # "queued"
    BY <2>1, <2>3, StillMoves DEF DiscardRow
  <2> QED BY <2>2, <2>3
<1>4. CASE SendMail(f)
  <2>1. UNCHANGED <<rows, doubt>> /\ worker[f].pc = "send"
    BY <1>4 DEF SendMail
  <2>2. CASE i \in worker[f].batch
    <3>1. mailed'[i] = IF mailed[i] < 2 THEN mailed[i] + 1 ELSE mailed[i]
      BY <1>4, <2>2 DEF SendMail, MailOut
    <3>2. i \in Collected /\ ~ BeingRecorded(i)
      BY <2>1, <2>2, Alone DEF MailInv, BeingRecorded
    <3>3. mailed[i] > 0 => i \in doubt
      BY <1>1, <3>2 DEF MailInv, Finished
    <3> QED BY <1>1, <2>1, <3>1, <3>3, SendMoves
  <2>3. CASE i \notin worker[f].batch
    BY <1>4, <2>1, <2>3, StillMoves DEF SendMail, MailOut
  <2> QED BY <2>2, <2>3
<1>5. CASE MailFails(f)
  <2>1. RowState(rows'[i].status) = RowState(rows[i].status)
    BY <1>1, <1>5 DEF MailFails, RowState, Row
  <2>2. CASE UNCHANGED <<mailed, doubt>>
    BY <2>1, <2>2, StillMoves
  <2>3. CASE MailOut(f) /\ doubt' = doubt \cup worker[f].batch
    <3>1. CASE i \in worker[f].batch
      <4>1. mailed'[i] = IF mailed[i] < 2 THEN mailed[i] + 1 ELSE mailed[i]
        BY <2>3, <3>1 DEF MailOut
      <4> QED BY <1>1, <2>1, <2>3, <3>1, <4>1, SendMoves
    <3>2. CASE i \notin worker[f].batch
      BY <2>1, <2>3, <3>2, StillMoves DEF MailOut
    <3> QED BY <3>1, <3>2
  <2> QED BY <1>5, <2>2, <2>3 DEF MailFails
<1>6. CASE RecordMail(f)
  <2>1. /\ rows' = Delivered(f) /\ mailed' = mailed /\ worker[f].pc = "record"
        /\ doubt' = doubt \cup {k \in worker[f].batch : rows[k].status \notin {"queued", "failed"}}
    BY <1>6 DEF RecordMail
  <2>2. CASE i \in worker[f].batch /\ rows[i].status \in {"queued", "failed"}
    <3>1. rows'[i].status = "success"
      BY <1>1, <2>1, <2>2 DEF Delivered, Row
    <3>2. mailed[i] > 0
      BY <1>1, <2>1, <2>2 DEF KeptInv, KeptBy
    <3> QED BY <2>1, <2>2, <3>1, <3>2, DeliverMoves
  <2>3. CASE ~ (i \in worker[f].batch /\ rows[i].status \in {"queued", "failed"})
    BY <2>1, <2>3, StillMoves DEF Delivered
  <2> QED BY <2>2, <2>3
<1> QED BY <1>2, <1>3, <1>4, <1>5, <1>6 DEF Flush

LEMMA StepMoves ==
  ASSUME OneRunEach, LeaseInv, TypeInv, KeptInv, MailInv, Next, NEW i \in Items
  PROVE  ItemMoves(i)
<1>1. rows \in [Items -> Row]
  BY DEF TypeInv, TypeOK
<1>2. CASE Tick
  <2>1. rows'[i].status = rows[i].status
    BY <1>1, <1>2 DEF Tick, AgeRow, Row
  <2> QED BY <1>2, <2>1, StillMoves DEF Tick
<1>3. ASSUME NEW k \in Items, GiveUp(k) PROVE ItemMoves(i)
  <2>1. UNCHANGED <<mailed, doubt>>
    BY <1>3 DEF GiveUp
  <2>2. CASE i = k
    <3>1. rows[i].status \in {"failed", "pending"} /\ rows'[i].status = "gave_up"
      BY <1>1, <1>3, <2>2 DEF GiveUp, GiveUpRow, Row
    <3> QED BY <2>1, <3>1, OpenMoves DEF RowState
  <2>3. CASE i # k
    BY <1>1, <1>3, <2>1, <2>3, StillMoves DEF GiveUp
  <2> QED BY <2>2, <2>3
<1>4. CASE TogglePause \/ ChangeMode \/ DeleteEcho \/ \E k \in Items : PassHandled(k)
  BY <1>4, StillMoves DEF TogglePause, ChangeMode, DeleteEcho, PassHandled
<1>5. ASSUME NEW n \in Instances, Crash(n) PROVE ItemMoves(i)
  <2>1. UNCHANGED <<rows, mailed>> /\ doubt \subseteq doubt'
    BY <1>5 DEF Crash
  <2> QED BY <2>1, StillMoves
<1> QED BY <1>2, <1>3, <1>4, <1>5, CheckMoves, FlushMoves DEF Next, Owner

\* Digests implement the outbox: where no process runs the job twice at once, an item
\* is mailed again only after a mail that could not be recorded or a claim that was
\* lost, and it is delivered only after it was mailed, for good.
THEOREM DigestImplementsOutbox ==
  ASSUME OneRunEach
  PROVE  Spec => ImplementsOutbox
<1>1. Init => Out!Init
  <2> SUFFICES ASSUME Init PROVE \A i \in Items : EntryOf(i) = Out!Fresh
    BY DEF Out!Init, EntryOf
  <2>1. \A i \in Items : (i \in doubt) = FALSE
    BY DEF Init
  <2> QED BY <2>1 DEF Init, EntryOf, Out!Fresh, Absent, RowState
<1>2. /\ OneRunEach /\ LeaseInv /\ TypeInv /\ TypeInv' /\ KeptInv /\ MailInv /\ [Next]_vars
      => [Out!Next]_([i \in Items |-> EntryOf(i)])
  <2> SUFFICES ASSUME LeaseInv, TypeInv, TypeInv', KeptInv, MailInv, Next
               PROVE  Out!Next
    BY DEF vars, EntryOf, RowState
  <2>1. \A i \in Items : ItemMoves(i)
    BY StepMoves
  <2>2. [i \in Items |-> EntryOf(i)]' \in [Items -> Out!Entry]
    BY DEF EntryOf, Out!Entry, RowState, TypeInv, TypeOK
  <2> QED BY <2>1, <2>2 DEF Out!Next, ItemMoves, EntryOf
<1>3. LeaseInv /\ [Next]_vars => LeaseInv'
  BY LeaseNext
<1> QED BY <1>1, <1>2, <1>3, LeaseInit, InitType, NextType, KeptInvariance, MailInvariance, PTL
    DEF Spec, ImplementsOutbox, Out!Spec, EntryOf
===============================================================================
