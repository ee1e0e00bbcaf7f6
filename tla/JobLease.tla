------------------------------ MODULE JobLease ------------------------------
(***************************************************************************)
(* The database lease that a flush job holds while it runs                 *)
(* (scheduler_leases, src/scheduler.py).  It belongs to a process, not to  *)
(* a run, and is never renewed while the job runs.  The module holds no    *)
(* state: the queues that run under a lease share its operators.           *)
(***************************************************************************)
EXTENDS Integers

CONSTANTS
  Instances,   \* processes that run a scheduler
  Former,      \* the _instance_id of a process that has died
  NoHolder,    \* no row in scheduler_leases
  JobTicks     \* FLUSH_*_LEASE_SECONDS

ASSUME JobLeaseAssumption ==
  /\ JobTicks \in Nat \ {0}
  /\ Former \notin Instances /\ NoHolder \notin Instances /\ Former # NoHolder

Lease == [holder : Instances \cup {Former, NoHolder}, left : 0..JobTicks]

FreeLease == [holder |-> NoHolder, left |-> 0]

\* (slip: whoever asks gets it)
TakeableByAnyone(lease, n) == TRUE

\* _acquire_job_lease: no row, a row of this process, or one that has expired.
Takeable(lease, n) == lease.holder \in {NoHolder, n} \/ lease.left = 0

Taken(n) == [holder |-> n, left |-> JobTicks]

\* _release_job_lease: the row, if it is this process's.
Released(lease, n) == IF lease.holder = n THEN FreeLease ELSE lease

\* The process dies; its row stays until it expires.
Orphaned(lease, n) == IF lease.holder = n THEN [lease EXCEPT !.holder = Former] ELSE lease

\* (slip: the clock of a lapsed lease runs on)
AgedPastZero(lease) == [lease EXCEPT !.left = @ - 1]

Aged(lease) == [lease EXCEPT !.left = IF @ = 0 THEN 0 ELSE @ - 1]
=============================================================================
