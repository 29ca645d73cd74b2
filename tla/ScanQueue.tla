------------------------------ MODULE ScanQueue ------------------------------
(***************************************************************************)
(* The leased scan queue, as operators on the table `jobs'.                *)
(*   crates/adapters/src/db/security.rs         (PgScanQueue)              *)
(*   crates/adapters/src/in_memory/security.rs  (InMemoryScanQueue)        *)
(*   crates/adapters/migrations/051_scan_jobs.sql                          *)
(*                                                                         *)
(* A row is either open or NoJob: nothing reads a completed row again, so  *)
(* its id is used for a later row once no worker holds a copy of it.  The  *)
(* real ids are UUIDs and never reused.  leased_until is abstracted to     *)
(* `leased' (it lies in the future); the clock is the action that clears   *)
(* it.  leased_by is written and never read, so it is left out.            *)
(***************************************************************************)
EXTENDS Integers, FiniteSets

CONSTANTS Pkgs,           \* coordinates (versions) that can be queued
          JobIds,         \* bound: rows of scan_jobs that can be live at once
          MaxAttempts,    \* [worker] max_attempts
          MaxConcurrent,  \* [worker] max_concurrent, the size of a lease
          NoJob           \* a row that is not open

ASSUME JobIdsAssumption == JobIds \subseteq Nat
ASSUME AttemptsAssumption == MaxAttempts \in Nat /\ MaxAttempts > 0
ASSUME ConcurrentAssumption == MaxConcurrent \in Nat /\ MaxConcurrent > 0

Triggers == {"first_seen", "webhook", "rescan", "backfill"}

\* ScanTrigger::priority: lower is dequeued first.
Priority(trigger) ==
    CASE trigger = "first_seen" -> 0
      [] trigger = "webhook"    -> 1
      [] trigger = "rescan"     -> 2
      [] trigger = "backfill"   -> 3

\* An open row of scan_jobs; `dated' says whether published_at was known.
Job == [pkg : Pkgs, trigger : Triggers, dated : BOOLEAN,
        leased : BOOLEAN, attempts : 0 .. MaxAttempts]

\* What a worker keeps of a row it leased or swept (ScanJob).
Lease == [id : JobIds, pkg : Pkgs, dated : BOOLEAN]

OpenIds(jobs) == {j \in JobIds : jobs[j] # NoJob}

HasOpen(jobs, p) == \E j \in OpenIds(jobs) : jobs[j].pkg = p

\* Rows a new job may take: not open, and no copy of it left in `held'.
FreeIds(jobs, held) == {j \in JobIds \ held : jobs[j] = NoJob}

\* enqueue: INSERT ... ON CONFLICT DO NOTHING against the unique index on the
\* open coordinate.  A second trigger on an open job changes nothing.
Opened(jobs, held, p, trigger, dated) ==
    IF HasOpen(jobs, p) THEN jobs
    ELSE LET j == CHOOSE i \in FreeIds(jobs, held) :
                    \A k \in FreeIds(jobs, held) : i <= k
         IN  [jobs EXCEPT ![j] = [pkg |-> p, trigger |-> trigger, dated |-> dated,
                                  leased |-> FALSE, attempts |-> 0]]

\* The bound: an id is there for the row enqueue would insert.
CanOpen(jobs, held, p) == HasOpen(jobs, p) \/ FreeIds(jobs, held) # {}

\* Mutant: one attempt too many.
LeasableOnceMore(jobs) ==
    {j \in OpenIds(jobs) : ~jobs[j].leased /\ jobs[j].attempts <= MaxAttempts}

Leasable(jobs) ==
    {j \in OpenIds(jobs) : ~jobs[j].leased /\ jobs[j].attempts < MaxAttempts}

\* The two picks of `lease': n - 1 slots (at least one) in priority order, and
\* one for the lowest tier still waiting when the first pick was full.  Rows of
\* one tier are ordered by created_at, which is left open here.
FirstPicks(jobs) ==
    LET k == IF MaxConcurrent > 1 THEN MaxConcurrent - 1 ELSE 1
    IN  {S \in SUBSET Leasable(jobs) :
            /\ \/ Cardinality(S) = k
               \/ Cardinality(S) < k /\ S = Leasable(jobs)
            /\ \A i \in S, j \in Leasable(jobs) \ S :
                 Priority(jobs[i].trigger) <= Priority(jobs[j].trigger)}

LowestTier(jobs, S) ==
    {j \in Leasable(jobs) \ S : \A i \in Leasable(jobs) \ S :
        Priority(jobs[i].trigger) <= Priority(jobs[j].trigger)}

Picks(jobs) ==
    UNION {IF MaxConcurrent > 1 /\ LowestTier(jobs, S) # {}
           THEN {S \cup {j} : j \in LowestTier(jobs, S)}
           ELSE {S} : S \in FirstPicks(jobs)}

\* Mutant: the lease is taken and the attempt not counted after the first.
TakeLeaseUncounted(jobs, S) ==
    [j \in JobIds |-> IF j \in S
                      THEN [jobs[j] EXCEPT !.leased = TRUE, !.attempts = 1]
                      ELSE jobs[j]]

\* UPDATE scan_jobs SET leased_until, attempts = attempts + 1 for the picks.
TakeLease(jobs, S) ==
    [j \in JobIds |-> IF j \in S
                      THEN [jobs[j] EXCEPT !.leased = TRUE, !.attempts = @ + 1]
                      ELSE jobs[j]]

CopyOf(jobs, j) == [id |-> j, pkg |-> jobs[j].pkg, dated |-> jobs[j].dated]

\* heartbeat and fail look at the id and at completed_at, not at leased_by:
\* a worker whose lease lapsed still renews, releases and completes the row.
Heartbeat(jobs, j) ==
    IF jobs[j] = NoJob THEN jobs ELSE [jobs EXCEPT ![j].leased = TRUE]

Failed(jobs, j) ==
    IF jobs[j] = NoJob THEN jobs ELSE [jobs EXCEPT ![j].leased = FALSE]

Completed(jobs, j) == [jobs EXCEPT ![j] = NoJob]

\* Mutant: the sweep waits for an attempt the lease never grants.
ExhaustedTooLate(jobs) ==
    {j \in OpenIds(jobs) : ~jobs[j].leased /\ jobs[j].attempts > MaxAttempts}

\* exhausted: open rows with every attempt spent and nobody holding a lease.
Exhausted(jobs) ==
    {j \in OpenIds(jobs) : ~jobs[j].leased /\ jobs[j].attempts >= MaxAttempts}

\* LIMIT n of them.
Sweeps(jobs) ==
    {S \in SUBSET Exhausted(jobs) :
        \/ Cardinality(S) = MaxConcurrent
        \/ Cardinality(S) < MaxConcurrent /\ S = Exhausted(jobs)}

=============================================================================
