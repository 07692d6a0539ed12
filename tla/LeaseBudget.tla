----------------------------- MODULE LeaseBudget ------------------------------
(***************************************************************************)
(* The clocks of one agent job: the lease of its run, the idle time of its *)
(* stream entry, and the delivery budget.  AgentRuns and JobQueue leave    *)
(* time out; here one tick is a fixed number of seconds, and the question  *)
(* is whether the budget of the queue outlasts the lease of a crashed      *)
(* worker.                                                                 *)
(*                                                                         *)
(* Source: agent_runtime.py (lease), channel_queue.py (claim idle time and *)
(* attempts), worker.py (what is acknowledged).                            *)
(***************************************************************************)
EXTENDS Naturals

CONSTANTS
    LeaseTicks,   \* _AGENT_RUN_LEASE_SECONDS
    IdleTicks,    \* CHANNEL_JOB_CLAIM_IDLE_MS
    MaxAttempts,  \* worker_max_delivery_attempts
    MaxWork       \* bound: how long one worker takes for one run

ASSUME ClockAssumption ==
    /\ LeaseTicks \in Nat \ {0, 1}
    /\ IdleTicks \in Nat \ {0}
    /\ MaxAttempts \in Nat \ {0}
    /\ MaxWork \in Nat

VARIABLES
    run,       \* AgentRun.status: "pending" until it succeeds
    lease,     \* ticks until lease_until; 0 = free or expired
    holder,    \* the worker that claimed the run last
    worked,    \* ticks since that claim
    crashed,   \* the one crash has happened
    entry,     \* the stream entry: pending, acknowledged or dead-lettered
    delivery,   \* its delivery attempts
    idle       \* ticks since its last delivery, up to IdleTicks

budgetVars == <<run, lease, holder, worked, crashed, entry, delivery, idle>>

BudgetTypeOK ==
    /\ run \in {"pending", "succeeded"}
    /\ lease \in 0..LeaseTicks
    /\ holder \in {"working", "finishing", "none"}
    /\ worked \in 0..MaxWork
    /\ crashed \in BOOLEAN
    /\ entry \in {"pending", "acknowledged", "dead"}
    /\ delivery \in 1..(MaxAttempts + 1)
    /\ idle \in 0..IdleTicks

\* A worker has just read the entry (delivery 1) and claimed the run.
BudgetInit ==
    /\ run = "pending"
    /\ lease = LeaseTicks
    /\ holder = "working"
    /\ worked = 0
    /\ crashed = FALSE
    /\ entry = "pending"
    /\ delivery = 1
    /\ idle = 0

\* Time passes.  A worker that runs renews its lease in time.
Tick ==
    /\ holder = "working" => lease > 1 /\ worked < MaxWork
    /\ lease' = IF lease > 0 THEN lease - 1 ELSE 0
    /\ idle' = IF idle < IdleTicks THEN idle + 1 ELSE idle
    /\ worked' = IF holder = "working" THEN worked + 1 ELSE worked
    /\ UNCHANGED <<run, holder, crashed, entry, delivery>>

\* _renew_run_lease: a full lease from now on.
RenewRunLease ==
    /\ holder = "working"
    /\ lease' = LeaseTicks
    /\ UNCHANGED <<run, holder, worked, crashed, entry, delivery, idle>>

\* _complete_run clears the lease; acknowledge follows.
CompleteRun ==
    /\ holder = "working"
    /\ run' = "succeeded"
    /\ lease' = 0
    /\ holder' = "finishing"
    /\ UNCHANGED <<worked, crashed, entry, delivery, idle>>

\* Removes the entry, unless it was dead-lettered meanwhile.
Acknowledge ==
    /\ holder = "finishing"
    /\ holder' = "none"
    /\ entry' = IF entry = "pending" THEN "acknowledged" ELSE entry
    /\ UNCHANGED <<run, lease, worked, crashed, delivery, idle>>

\* The worker dies; its lease runs on.
Crash ==
    /\ holder # "none"
    /\ ~crashed
    /\ crashed' = TRUE
    /\ holder' = "none"
    /\ UNCHANGED <<run, lease, worked, entry, delivery, idle>>

\* Mutant: any pending entry is reclaimed.
ReclaimAtOnce == TRUE

\* XAUTOCLAIM's min_idle_time, and the delivery budget.
IdleLongEnough == idle = IdleTicks
Exhausted      == delivery = MaxAttempts

\* Another worker's XAUTOCLAIM: past the budget the entry is dead-lettered,
\* for a finished run it is acknowledged, a leased run is agent_run_busy and
\* leaves it pending, and a free or expired one is claimed.
Reclaim ==
    /\ entry = "pending"
    /\ IdleLongEnough
    /\ delivery' = delivery + 1
    /\ idle' = 0
    /\ \/ /\ Exhausted
          /\ entry' = "dead"
          /\ UNCHANGED <<lease, holder, worked>>
       \/ /\ ~Exhausted
          /\ run = "succeeded"
          /\ entry' = "acknowledged"
          /\ UNCHANGED <<lease, holder, worked>>
       \/ /\ ~Exhausted
          /\ run = "pending"
          /\ lease > 0
          /\ UNCHANGED <<entry, lease, holder, worked>>
       \/ /\ ~Exhausted
          /\ run = "pending"
          /\ lease = 0
          /\ lease' = LeaseTicks
          /\ holder' = "working"
          /\ worked' = 0
          /\ UNCHANGED entry
    /\ UNCHANGED <<run, crashed>>

BudgetNext ==
    \/ Tick
    \/ RenewRunLease
    \/ CompleteRun
    \/ Acknowledge
    \/ Crash
    \/ Reclaim

BudgetSpec == BudgetInit /\ [][BudgetNext]_budgetVars

-----------------------------------------------------------------------------
\* "An expired lease can be reclaimed after a worker crash" (ADR-012): the
\* queue does not give the job up while its run waits for the lease to
\* expire; if the entry is dead, the run is done or someone works on it.
ExpiredLeaseIsReclaimed ==
    entry = "dead" /\ run = "pending" => holder = "working"

\* When that is so: the deliveries before the last one take longer than any
\* worker's run and the lease it leaves behind.
BudgetOutlastsLease == (MaxAttempts - 1) * IdleTicks >= MaxWork + LeaseTicks

=============================================================================
