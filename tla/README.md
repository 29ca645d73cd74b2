# A TLA+ verification project for batlehub

batlehub is a package proxy and private registry. A client asks it for a version;
it answers from its cache, from its own storage or from an upstream registry, after
a chain of rules. On a registry with a `[security]` profile the last of those rules
is the *verdict gate*: nothing is served unless a stored verdict about the version
says so, and that verdict is written by scan workers, by requests that see a version
first, by administrators and by pushed flags, concurrently and without locks, over
one database. That pipeline decides what reaches a developer's machine. Beside it
stand the other parts of the program that are concurrent and keep state: the sealed
audit trail, the audit of upstream registries, the artifact cache over a
deduplicating store with its eviction, and publishing to a local registry with its
quota. Those are what this project models.

## 1. Inventory

### The verdict pipeline

| Part | State it keeps | Operations | Source (`src/crates/`) |
|---|---|---|---|
| evaluation | none (pure) | `evaluate` and its helpers, `apply_override`, `hides_from_listings_under` | `core/src/services/verdict.rs`, `core/src/entities/security.rs` |
| verdict service, gate | none of its own | `current`, `record_scan`, `first_sight_local`; `VerdictGateRule::evaluate` | `core/src/services/verdict.rs`, `core/src/rules/verdict_gate.rs` |
| verdict store | `artifact_verdicts`, `artifact_findings` | `upsert`, `get`, `list_for_package`, `list_due_for_rescan` | `adapters/src/db/security.rs`, `adapters/src/in_memory/security.rs` |
| scan queue | `scan_jobs` (lease, attempts) | `enqueue`, `lease`, `heartbeat`, `complete`, `fail`, `exhausted` | the same files, `adapters/migrations/051_scan_jobs.sql` |
| scan worker | the batch in hand | `pass`, `run_job`, `run_scanner`, `enrich`, `record`, `close_exhausted` | `core/src/services/scan_worker.rs` |
| rescan scheduler | leadership | `run_once` | `core/src/services/rescan.rs` |
| block, unblock | package status rows | `block_package`, `unblock_package`, `propagate_to_verdict` | `core/src/services/admin/packages.rs` |
| pushed flags | `package_flags` | `push`, `revoke`, `deny_covered`, `rescan_covered` | `core/src/services/flags.rs`, `core/src/entities/advisory.rs` |
| verdict API, webhook | none | rescan, bulk rescan, backfill, `security.rescan` | `web/src/handlers/security.rs`, `web/src/handlers/inbound_webhook.rs` |

They interact through the store and the queue only. A request that finds no row queues
a job and then writes a hold; a worker leases jobs, runs the scanners of the
profile and merges what they said into the row; a block or a hard flag rewrites the
row at once and queues a rescan; the listing filter reads the rows without asking the
gate. What is hard: every one of these reads a row, computes and writes it back with
no version check; an enqueue that meets an open job is silently absorbed; leases lapse
under running scans; heartbeat, fail and complete are not fenced by the lease holder;
a worker dies with its lease and its attempt spent; on Postgres a read is two
statements; store errors are refused on one path, logged on another and retried on a
third. What makes it correct: the absence of a scan is never an allow; the
administrator's and the SOC's word denies whoever writes next; every job is closed;
every hold is scanned in the end; what was denied is denied for good once nothing
races with it.

### The audit trail

| Part | State it keeps | Operations | Source |
|---|---|---|---|
| trail | `access_events` (row: stamp, class, user, address) | best-effort inserts by every request | `adapters/src/db/packages/audit_trail.rs` |
| chain | `audit_seals`, one record after the other | `apply_batch` under the head compare-and-swap, `windows`, `rows_in`, `records` | the same, `core/src/ports/audit_trail.rs` |
| jobs | what they read before they commit | `seal_tick`, `lifecycle_tick` (expire, pseudonymise), `purge`, `erase`, `verify` | `core/src/services/audit_trail.rs` |

Every job reads windows, candidates and rows in separate statements and then commits
one batch on the head it read. Leadership is asked for at the start of a tick only, so
two leaders overlap. What makes it correct: windows are sealed in order, once; a sealed
window changes only with a record that says what it holds from then on, and only by
losing rows or personal data; nothing writes a name back; every due window is sealed.

### The upstream audit

State: `upstream_status` (rows of packages and versions: missing, misses, disappeared),
package blocks, what the sweep and each recheck hold. Operations: probe (a listing, or
one request for each version up to a cap), the population gate, `present`,
`missing_versions`, `miss`, confirmation, block and unblock, reconciliation
(`core/src/services/upstream_audit/`). Hard: a confirmation and its block are two
writes with a crash between them; a sweep, a recheck and an administrator write the
same block; an outage looks like mass withdrawal. Correct means: an outage confirms
nothing; what upstream withdrew for good ends up blocked.

### The artifact cache and the deduplicating store

State: `artifact_dedup_refs`, `artifact_dedup_index`, `artifact_storage`, the blobs of
each backend (`adapters/src/storage/router/`), `artifact_cache_meta`, and the requests,
eviction and coherence runs under way (`core/src/services/{proxy,eviction}`). Hard: the
tables and the backend are changed by different calls; keys share blobs; concurrent
misses store one key; metadata is resolved before the body; transactions lock two index
rows; the meta row is written after the bytes, best effort. Correct means: what is
served is what upstream had for the key; no reference loses its blob; orphans are
noted or collected; a lost or damaged blob is replaced.

### Publishing to a local registry

State: `local_packages` (pending, published, deleted and burned), bytes at the key,
`package_owners`, `quota_usage`, what each publish and the deletion have reached
(`core/src/services/local_registry`, `core/src/services/quota.rs`,
`adapters/src/local_registry/postgres.rs`). Hard: six writes with a rollback for each
failure, all naming the version rather than the publish; owners are registered after
the commit. Correct means: a visible version has bytes; a charge is returned exactly
once; a deleted coordinate stays burned; pending rows do not stay; a package has an owner.

### The rest of the system

| Part | Hard behaviour | Why it is not modelled, or only in part |
|---|---|---|
| hot configuration, cluster (`services/hot_config.rs`, `adapters/src/db/{cluster,config_change}.rs`) | reload while requests hold the old snapshot | only `Reload` of `VerdictPipeline` |
| grants and ownership (`services/{ownership_grants,grants_admin}.rs`, `services/authz`) | inheritance across tiers | a decision function over stored rows; owners are in `LocalPublish` |
| retention, warming, release import | schedules over publish, delete and the cache | they call operations that are modelled |
| rate limits, login states, notifications, statistics | counters and one-shot rows | little interaction; candidates for more modules |
| SBOM, README, signatures, registry formats, auth adapters, web, CLI, UI | parsing, rendering, transport | unit tests reach them better than a model does |

`PROJECT.json` lists every part with its status, and under `hazards` what in this code
is hard to test, line by line, with the properties aimed at it.

## 2. Modules

| Module | Models | Extends |
|---|---|---|
| `Verdict` | the pure evaluation, as operators | |
| `VerdictEval` | the inputs of one evaluation as they evolve | `Verdict` |
| `ScanQueue` | the leased queue, as operators on the table `jobs` | |
| `VerdictPipeline` | the composed pipeline: gate, workers, scheduler, administrators, flag sources over one store and one queue | `Verdict`, `ScanQueue` |
| `AuditRows` | audit rows, records, what a redaction is | |
| `AuditLedger` | what the sealed trail promises (abstract) | `AuditRows` |
| `AuditChain` | sealers, lifecycle, purge, erasure, verification over the store; implements `AuditLedger` | `AuditRows` |
| `UpstreamAudit` | sweeps, rechecks, confirmation, blocks | |
| `DedupStore` | the storage router over its tables and backends, statement by statement | |
| `ProxyCache` | downloads, eviction and coherence over `DedupStore` (composition) | `DedupStore` |
| `LocalPublish` | publish, rollback, delete, cleanup, quota, owners | |
| `MCVerdictEval`, `MCPipeline`, `MCAudit`, `MCUpstream`, `MCCache`, `MCPublish` | the instances TLC checks | |
| `VerdictProofs` | theorems about the evaluation | `Verdict`, TLAPS |
| `VerdictEvalProofs` | the properties of one evaluation | `VerdictEval`, `VerdictProofs` |
| `VerdictPipelineProofs` | type correctness and leases of the pipeline | `VerdictPipeline`, `VerdictProofs` |
| `VerdictSafetyProofs` | the pipeline's safety | `VerdictPipelineProofs` |
| `AuditChainProofs` | the trail's safety and its refinement of the ledger | `AuditChain` |
| `UpstreamAuditProofs` | what the upstream audit may confirm | `UpstreamAudit` |
| `ProxyCacheProofs` | the tables, the blobs and what is served | `ProxyCache` |
| `LocalPublishProofs` | publishing, deletion, quota and owners | `LocalPublish` |

A definition whose comment starts with `Mutant:` is no part of a specification: it is the
definition below it with a plausible bug, and the check that a property notices it.

### The verdict pipeline (`Verdict`, `VerdictEval`, `ScanQueue`, `VerdictPipeline`)

**Data.** A finding is a record (scanner, kind, code, severity, reference); wording,
confidence and raw output are dropped. A finding list is a set: findings that differ
only in their summary (the pending findings of several scanners) are told apart by
`ref`. Time is the version's age, so `published_at + d <= now` is `age >= d`; an
undated version has age `Undated`. A profile is a record with the fields of
`SecurityPolicy` that `evaluate` reads; `MCVerdictEval` uses only profiles that
`validate_registry_security` accepts. `scanned` stands for `last_scanned_at`
being set, `done` for `scanners_done`.

**Steps.** Each call to the store or the queue is an await point and one action; what
a process computes between two calls belongs to the first of them. The row a process
has judged and not yet written travels in its state (`row`, `rows`), which is where all
the stale writes of this system come from. `GateRead`, `GateEnqueue`, `GateHold` and
`GateWriteBack` are the calls of `current`; `LeaseBatch`, `StartJob`, `ScannerAnswers`,
`ScannerFails`, `RecordRead`, `RecordWrite`, `CloseJob` and `Sweep` those of a worker's
pass; `SetStatus`, `AdminRead`, `AdminWrite` and `AdminEnqueue` those of a block;
`PushFlag`, `FlagRead`, `FlagWrite`, `FlagCover` and `FlagEnqueue` those of a push.
`Crash` loses a worker's memory and leaves its leases; `LeaseLapses` is the clock of
`leased_until`. The `...Fault`, `...Fails` and `GateRefused` actions are the error paths
for the calls named in `Faults`. With `Store = "postgres"` a `get` takes two steps
(`...ReadFindings`) and a listing has no findings, as in `PgVerdictRepository`.

**External.** What an external scanner finds is an oracle (`vulnerable`, `Disclose`);
that it may time out or fail is `Flaky` and `ErrorCodes`.

**Simplifications, each marked in the module.** Job ids are reused once no process
holds a copy (the real ones are UUIDs). `leased_by` is never read by the code and left
out. Rows of one priority are taken in any order (`created_at` is left open), and the
two lease statements of Postgres are one step. `RescanTick` joins the listing of a due
version and its enqueue. There is one flag identity, hard or informative; `gate` flags,
expiry and rate limits of a source are not modelled. Exemptions serve a refused version
as `warned` and so never add to `served`. Pullability reads (`evaluate_only`) write
nothing and are left out, as are metrics, alerts and audit events. A scanner declared
under an internal name (`block_list`, `flags`, `age`, `pending`) is excluded by
assumption; the configuration does not refuse one.

### The audit trail (`AuditRows`, `AuditLedger`, `AuditChain`)

Time is counted in seal windows; a row has a window, a class, and two pieces of personal
data. A record holds the rows it digests, so "the digest matches" is equality of sets.
Every store read and every transaction is a step: `SealStart`, `SealRead`, `SealApply`,
`SealEnd` for a sealer's tick; `ReadWindows`, `ReadCandidates`, `LooseApply` (rows outside
every sealed window), `ReadRows`, `RecordApply`, `RewriteDone` for `rewrite`, shared by
the lifecycle's expire and pseudonymise, the purge and the erasure; `EraseElsewhere` for
tokens and blocks; `VerifyStart`, `VerifyWindow`, `VerifyEnd`. `ApplyBatch` is the
transaction: the head must be the one the batch was built on and the record must
describe the rows left in its window. `Tick` is the clock: it waits for stamped events
to be inserted, which is the code's own premise that a window is longer than a request.
Several sealers may be in a tick at once because leadership is only asked for at its
start. `AuditLedger` states the promise alone; the refinement maps its `held` to
`[w \in Sealed |-> RowsIn(rows, w)]` and its chain to the chain, and `LedgerSpec` says
that every step of `AuditChain` is a step of the ledger or a stutter.

### The upstream audit (`UpstreamAudit`)

`SweepStart`, `Probe`, `Gate` (the population gate), `ApplyOutcome`, the statements
`Clear`, `Miss`, `Confirm`, then `ActOn` and `ActStep` for the blocks a transition leads to,
`Reconcile`, `Finish`. A `RecheckStart` runs the same steps on one package beside the
sweep. `Change` and `Outage` are the upstream; `StatementFails`, `ActFails` and `Crash` the
faults. Probing is an oracle for a registry kind with a listing (`Listing`) or without.
An outage begins and ends between sweeps: one that covers only part of a sweep is a share of
missing answers, which is what the ratio is set against. The statements of an outcome and the
acts of a transition are sets in a worker's state, and `Turn` and `ActTurn` give the order in
which the code goes through them.

### The store and the cache (`DedupStore`, `ProxyCache`)

`DedupStore` has an action for each statement that can meet a row lock, each backend call
and each commit of `finalize_dedup` (`Existing`, `Upsert`, `Remap`, `CheckBlob`, `Move`,
`Commit`, `Again`, `Restore`, `Record`), `delete` (`Select`, `Unref`, `Unblob`, `Forget`) and
`retrieve` (`Lookup`, `Read`). Locks are guards, a deadlock aborts a transaction
(`WaitsFor`), the foreign key of `artifact_dedup_refs` is `StillNamed`. `ProxyCache` composes
it with its callers: `Request`, `Looked`, `Check`, `Fetch`, `Noted`, `Served`, `Evicted` for a
download; `EvictStart`, `EvictNext`, `EvictDropped` for the TTL eviction; `Sweep...` for
the coherence check, whose `pending` set is the two strikes. A caller waits in its own
state until the store's operation has reached one of `Ends`. A blob is absent, whole or
rotten; a content is named by its hash.

### Publishing (`LocalPublish`)

`Admit`, `Own`, `Charge` are the policy, ownership and quota reads; `Reserve`, `Unpend`,
`Insert`, `StoreBytes`, `Commit`, `Sbom`, `Register` the publish; `Undo`, `Unstore`, `Revoke` its
rollback; `Fails` sends each failing call to where the code's error path goes
(`AfterFailure`), `Crash` loses the publish. `Tombstone`, `DropBytes`, `LastVersion`, `Disown`
are a deletion; `Cleanup` is the hourly one. A publisher's artifact is named by the
publisher, so a row with another's bytes can be told. `done`, `lost`, `rolled` and
`disturbed` are history variables that name the known exceptions (section 4).

## 3. Runs

The runs of `MCPipeline` use one registry, the default profile with `min_age` 1 and
`mature_age` 2, and two queue rows per version, so a job can be open while another's
copy is still held.

| Run | Processes and bounds | Checks | States |
|---|---|---|---|
| VerdictEval | 7 profiles, 9 findings, ages to 3 | the eight properties of `VerdictEval` | 41 k |
| PipelineFaults | request, worker, administrator, flag source, 2 edits, every fault, a reload, local publish | `TypeOK`, `AllowedMeansScanned`, `RowsAccounted`, `AuthorityDenies` | 1.4 M |
| PipelineLive | request, 2 workers with an enricher, 2 attempts, 2 crashes, a disclosure, rescans | `AllowedMeansScanned`, `AttemptsBoundHolders`, `EveryJobCloses`, `EveryHoldGetsScanned` | 122 k |
| PipelineLiveWriters | request, worker, administrator, flag source, operator over Postgres, a version that matures, rescans, 1 edit | `StandingBlockEnforced`, `StandingFlagEnforced` | 158 k |
| AuditChain | 2 sealers, lifecycle, an operator's erasure, 2 rows in 2 windows, clock 3 to 4 | `TypeOK`, `SealedWindowsMatch`, `NothingComesBack`, `LedgerSpec` | 834 k |
| AuditLive | sealer, operator (purge, erasure), verifier, a third row inserted late, a block, 1 crash | `AlarmMeansOvertaken`, `SealedWindowsMatch`, `EveryWindowIsSealed` | 817 k |
| UpstreamAudit | 2 packages (2 and 1 versions), sweep, recheck, 3 upstream changes, 1 event | `TypeOK`, `OutageConfirmsNothing`, `GoneIsBlocked` | 735 k |
| ProxyCache | 2 downloads, eviction, 2 keys sharing a content, 3 contents, 1 event | `TypeOK`, `ServedAsAdvertised`, `ReferencesResolve` | 3.1 M |
| ProxyLive | download, eviction, coherence, 2 backends, 1 event | `DanglingHeals`, `OrphansGo`, `RotHeals` | 144 k |
| LocalPublish | 2 publishers, 2 versions, deletion, cleanup, limit 1, 1 crash or failing call | `TypeOK`, `QuotaAccounted`, `VisibleHasBytes`, `OwnedWhenQuiet`, `BurnedForGood`, `PendingGoes` | 450 k |

BlockLost and DeletedServed are the two runs that TLC must refute (section 4).

What the properties say:

* `AllowedMeansScanned` - a version stored or served as `allowed` has had a real answer
  from every required scanner (`answered` is a history variable; markers and rows are
  the program's own account of it, which is what may be wrong).
* `RowsAccounted` - every row stored, and every row a process is about to store,
  accounts for its markers. It is the inductive invariant of the proofs, checked first.
* `AuthorityDenies` - a row with a `BLOCK_LIST` or `SOC_VERDICT` finding is denied.
* `AttemptsBoundHolders` - every worker running an open job spent one of its attempts.
* `EveryJobCloses`, `EveryHoldGetsScanned`, `StandingBlockEnforced`,
  `StandingFlagEnforced` - liveness; the last two also say that the denial stays.
* of the evaluation: no allow without a scan; a hold that is served was nothing but
  unscanned; a stored row read back gives what the scanners' findings would give;
  `available_at` lies ahead; a fresh row is listed exactly when it is served; an
  exemption never allows; more findings never relax; time and answers only relax.
* `LedgerSpec`, `SealedWindowsMatch`, `NothingComesBack` - the refinement; the rows of every
  sealed window are at every moment what its latest record says; no rewrite gives a row
  inside the chain a name or an address back.
* `AlarmMeansOvertaken` - `verify` reports a failure on an honest trail only when a record
  was added after it read the records. `EveryWindowIsSealed` - liveness.
* `OutageConfirmsNothing` - a package upstream never denied is confirmed missing only if a
  sweep below the population floor (a recheck, or one with the rest recently seen)
  missed it. `GoneIsBlocked` - what is denied for good ends up blocked in every version.
* `ServedAsAdvertised` - under the strict integrity settings, and while no stored blob is
  damaged, what is served is what upstream had for that key. `ReferencesResolve` - a reference
has its
  blob, but for the race that `raced` marks. `DanglingHeals`, `OrphansGo`, `RotHeals` -
  liveness: a lost blob is restored, an artifact without a row is noted or collected, a
  damaged blob that one key refers to is replaced.
* `QuotaAccounted` - usage is what succeeded, what is under way and what a crash or a
  failed revoke left. `VisibleHasBytes`, `OwnedWhenQuiet`, `BurnedForGood`, `PendingGoes` -
  as their names say, with the exceptions that `rolled` and `disturbed` mark.

**Why the bounds are enough.** A verdict row is per version and nothing but the queue
couples versions, so one version shows every race on a row. A request and each of the
other three writers give every pair of stale writers of different kinds; PipelineFaults has all
four at once. Two edits give block-unblock, push-revoke and block against push; the
liveness run allows one, since its properties are about the one that stands. Two crashes
and two attempts reach every side of the lease and sweep conditions. In the audit trail two
windows show every relation of a rewrite to the sealed range (before, inside, next,
open) and two rows every batch that spans a sealed and a loose window; retention and
pseudonymisation both fall due within the clock's range. In the upstream audit two
packages are at the floor of the population gate and one is below it; three changes are a
withdrawal, a restoration and an outage in any order. Two keys sharing a content, one of
which moves to another, give the swaps, counts and lock orders of `finalize_dedup`; two
backends give a content stored twice. Two publishers of two versions give every overlap
on a version and every first-publish race; the limit of 1 makes the quota bite (limit 2 was
run once, without liveness: 9.9 M states, no violation). One event (a crash, a failing call, an
operator's act) in a run is one fault at every possible point; combinations of faults
are only in the pipeline.

**Deadlock** is not checked in VerdictEval, which ends, and in the pipeline: with the bounded
counters spent, every
process may be idle and nothing queued, which is the system at rest. It is checked
everywhere else.

**Symmetry** is used for the sealers of AuditChain and the clients of ProxyCache, in runs
that check no liveness.

**Fairness.** Weak fairness of what runs by itself, and nothing else. In the pipeline: a
started request, pass, admin call or push goes on to its next call, since each is one
async task that the runtime keeps polling; workers loop for ever (`ScanWorker::run`);
leases lapse with the clock; and a stored verdict becomes due and is queued again while
rescans are on (`list_due_for_rescan` takes the oldest first). The two `Standing...`
properties additionally assume that requests stop holding rows they read before the
last scan: a reader that keeps writing back rows can undo each rescan, and the code has
nothing to prevent it. Sealers tick for ever (`spawn`ed interval loops); the clock is not
fair. Sweeps of the upstream audit come for ever and time passes. In the cache, tasks and
the periodic sweep go on; strong fairness stands for the queue of lock waiters of
Postgres, which a task that keeps being overtaken would otherwise not get past.
In `LocalPublish` strong fairness of `Cleanup` stands for the two hours a pending
row has to be old: every row left behind is met by some hourly cleanup. Nobody owes a
request, a block, a crash, a publish or a disclosure.

## 4. Where the code and its comments disagree

Two are runs that TLC must refute; `PROJECT.json` quotes what they refute.

* **BlockLost** - the rescan that should back up a block is absorbed by the open job of a
  scan that read the status too early; its verdict is the last word. A pushed `hard_block` is
  lost the same way (`flags.rs` queues its rescan through the same `enqueue`).
  With a rescan interval it heals (PipelineLiveWriters); without one it stays.
* **DeletedServed** - `drop_version_bytes` says that after the tombstone "the version is
  unreachable regardless" and that leftover bytes are for the coherence sweep. `get_artifact`
  asks storage without a row unless `verify_on_serve` is on, and the sweep lists only
  `artifact:` keys while local ones start with `local:`.

Others were met while modelling. The models reach them, and the properties above
name them as exceptions or do not claim them:

* `current` queues the job before it writes the hold, and the hold overwrites the scan
  that came between (`verdict.rs:381`); healed by a rescan interval only.
* an exhausted rescan marks all required scanners done, so the findings of an earlier
  scan are replaced by `SCANNER_ERROR` (`scan_worker.rs:713`), and `close_exhausted` closes the
  job also when that verdict could not be written.
* on Postgres a marker of one write joined with the findings of another is served as
  `allowed` without a scan (`db/security.rs:170`), and a `*` flag writes rows back without
  their findings (`flags.rs:333`).
* a hold lifted by `mature_age` stays out of the listings while the gate serves it
  (`entities/security.rs:475`).
* `on_webhook` of `[registries.security.rescan]` is documented as a switch
  (`config/src/schema/security.rs:106-115`) and read nowhere.
* rows from before the chain are rewritten without naming a head that moves
  (`audit_trail.rs:331`): an erasure and a pseudonymisation of one such row can undo each
  other. `NothingComesBack` speaks of rows inside the chain.
* a confirmation blocks without reading the status (`upstream_audit/mod.rs`), so an
  administrator's block becomes the system's and a reappearance lifts it; and when the
  row is cleared before a failed unblock, the block stays.
* `missing_versions` clears the row of versions beyond the probe cap
  (`confirm.rs:117`), which nobody asked about.
* a store between the commit of a deletion and the removal of its blob loses the bytes
  (`raced`); two concurrent first stores of one key count two references, so the blob is
  never collected; a damaged blob that two keys share is found by every store of the same
  bytes and stays.
* commit, rollback and cleanup of a publish name the version: two overlapping publishes
  of one version can both succeed with one's row and the other's bytes, a rollback can
  remove the other's row or bytes (`rolled`), and a commit that finds no row succeeds.
* a publish that ends between its commit and `register_initial_owner`, or a name
  released under a publish, leaves a package anybody may publish to (`disturbed`).
* `revoke_publish` returns before it looks at a tier's quota (`quota.rs:192`): with
  `QuotaAt = "tier"` the model breaks `QuotaAccounted`.

## 5. Proofs

Every safety property that a passing run checks - the invariants, the action properties and
the refinement - is a theorem of its specification, in eight modules. The constants are
arbitrary: any number of versions, processes, keys, packages, rows and publishers, any
profile the assumptions admit, any bound on faults. Where a property needs a hypothesis on
the configuration the theorem states it, and this section says what happens without it.

| Theorem | States | Under |
|---|---|---|
| `VerdictProofs!AlwaysDeniedDenies`, `AllowedNeedsScans` | two facts about `Evaluate` | any profile; the second, one whose escalation raises to a severity |
| `VerdictEvalProofs!ScansBeforeAllow` | `AbsenceOfScanNeverAllows` | |
| `... !MaturityLiftsOnlyUnscanned` | `ServedHoldIsOnlyUnscanned` | |
| `... !StoredRowIsFresh` | `StoredRowReadsAsFresh` | |
| `... !AvailableAtAhead` | `AvailableAtIsAhead` | |
| `... !ListingAgreesWithGate` | `FreshListingAgreesWithGate` | |
| `... !OverrideOnlyWarns` | `OverrideNeverAllows` | |
| `... !FindingsNeverRelax`, `WaitingOnlyRelaxes` | `MoreFindingsNeverRelax`, `TimeAndAnswersOnlyRelax` | |
| `VerdictPipelineProofs!TypeCorrect` | `TypeOK` | both stores |
| `VerdictPipelineProofs!LeasesAreCounted` | `AttemptsBoundHolders` | both stores |
| `VerdictSafetyProofs!RowsStayAccounted` | `RowsAccounted` | `Store = "memory"` |
| `... !AllowedIsScanned` | `AllowedMeansScanned` | `Store = "memory"`, scanner errors not ignored |
| `... !AuthorityStands` | `AuthorityDenies` | `Store = "memory"` |
| `AuditChainProofs!AuditTypeCorrect`, `SealedAlwaysMatch`, `AlarmsAreOvertaken` | `TypeOK`, `SealedWindowsMatch`, `AlarmMeansOvertaken` | |
| `... !NothingIsRestored` | `NothingComesBack` | |
| `... !TrailImplementsLedger` | `LedgerSpec` (refinement of `AuditLedger`) | |
| `UpstreamAuditProofs!UpstreamTypeCorrect` | `TypeOK` | |
| `... !OutageNeverConfirms` | `OutageConfirmsNothing` | outage ratio below one |
| `ProxyCacheProofs!CacheTypeCorrect` | `TypeOK` | |
| `... !ReferencesAreCounted` | counts and row locks (no run of its own) | |
| `... !ReferencesHaveBytes` | a reference has its blob on its registry's backend | any backends |
| `... !TablesResolve` | `ReferencesResolve` | every registry on the default backend |
| `... !NothingWrongIsServed` | `ServedAsAdvertised` | no `rot` event |
| `LocalPublishProofs!PublishTypeCorrect`, `VisibleIsServable`, `QuietIsOwned` | `TypeOK`, `VisibleHasBytes`, `OwnedWhenQuiet` | |
| `... !DeletionIsForGood` | `BurnedForGood` | |
| `... !QuotaIsExact` | `QuotaAccounted` | `QuotaAt = "registry"` |
| `... !QuotaIsKept` | nobody passes the limit | quota anywhere |

### One evaluation (`VerdictEvalProofs`)

The inductive invariant `Inputs` says that the profile is one that
`validate_registry_security` accepts and that findings are finite in number and of the
scanners' own. All the rest is about `Evaluate`. Two facts about `Escalate` carry it:
escalating twice is escalating once (`EscalateTwice`, because a step only raises a
severity and counts only lower ones), which makes a stored row read as fresh; and
escalation is monotone in the finding set (`EscalateGrows`), where one more finding may
complete a count and raise others. `Dominates` orders finding sets by what each finding
does to the state, `StateGrows` turns that order into the order of states, also through
the maturity lift, and the two monotonicity theorems compare the inputs of two steps by it.

### Types and leases of the pipeline (`VerdictPipelineProofs`)

`TypeOK` is not inductive: a step reads fields that are meaningful only at certain program
counters. `TypeInv` adds what `pc` implies (at "write" the row is a `Row`, at "scan" there
is a job and `at` is an index of `ScanOrder`, ...) and that rows are never removed, which
the second statement of a Postgres read relies on.

`AttemptsBoundHolders` is inductive once the sets of holders are known to be finite
(`HoldersBound`). A lease adds one holder and one attempt to each job it takes; nothing
gives an attempt back (`Kept`: heartbeat, fail, complete and a lapse leave the attempts of
open rows alone); and a new row starts at zero under an id of which no worker has a copy,
which is the model's form of a fresh UUID.

### Safety of the pipeline (`VerdictSafetyProofs`)

`AllowedMeansScanned` is not inductive: a row that is fine today may be carried over by a
later scan. What is preserved is `RowsAccounted`: a required scanner is marked done only
because it answered or because its error is filed beside the mark, and `allowed` leaves no
room for that error. Evaluation keeps it (`EvaluatedRow`), carrying over keeps it because a
marker travels with its findings (`RecordedRow`), the administrator's and the SOC's rewrites
keep it because they touch only findings of internal scanners and only ever worsen the state
(`RewrittenOK`, `FlaggedOK`). Each process preserves it for the row in its hands, answers
only add (`AnswersOnlyHelp`), so nothing another process does can break it. `SafeInv` is that
together with "nobody is between the two statements of a read", true in memory, and
`served`. Over Postgres the third conjunct fails and the theorems are false (the torn read of
section 4; an unblock that reads a row before and its findings after a flag's denial stores a
`SOC_VERDICT` that does not deny). With scanner errors ignored an exhausted job may be
allowed unscanned.

### The audit trail (`AuditChainProofs`)

The invariant `Safe` has a part about the store and one for each kind of task, all in terms
of the chain, the clock, the rows and the pending events. The store (`StoreSafe`): identifiers
are unique, pending events are at most one window old, the sealed windows are an interval
that ends two windows before the clock (so no insert meets one), and the rows of each are
what its latest record says. A task holds facts about a chain it read earlier: they are
claimed *only while the head it read is still the head* - a sealer's window is then the one
after the sealed range (`SealerSafe`), and a rewrite's operations redact rows that are there,
within the right windows (`JobSafe`, `OpsFit`, `OpSafe`) - because `ApplyBatch` refuses every
other commit. What a rewrite may do to rows outside every sealed window needs no head, and is
therefore stated separately. `VerifierSafe` says that a record a verification has not
overtaken still matches. The refinement is the same case analysis once more (`StoreMoves`):
a step either leaves chain and sealed rows alone, extends the chain by the next window
(`Sealing`), redacts one sealed window with its record (`Recording`), or rewrites rows that
no record covers (`Loosening`), which the ledger does not see. `RowsAssumption` says that the
rows of a database found at start have unique identifiers, the table's primary key.

### The upstream audit (`UpstreamAuditProofs`)

A confirmed row is followed back to its evidence. `Evidence` says of each worker: before
the gate, an answer is inconclusive, or it is "missing" for as long as the outage lasts, or it
is "missing" only of a package that upstream denied (`Heard`); after it, every outcome and
statement that reports a miss is about a package that upstream really denied or that a sweep
below the floor missed. The gate step
rests on `OutageIsVoid`: when every answer is "missing", missing over conclusive is one, which
is above the ratio, so a sweep at the floor is voided. With `outage_ratio = 1.0`, which the
configuration accepts as "never void", the gate never closes and the property is false (TLC
shows it). The
operations and block acts of a worker are sets here, taken in the order the code takes
them (`Turn`, `ActTurn`), so that no sequence has to be reasoned about.

### The store and the cache (`ProxyCacheProofs`)

`StoreSafe` is about the statements of `DedupStore`: what each call holds at each point
(`OpOK`), that two transactions never hold one index row (`Exclusive`), that a reference has a
positive count, also while a transaction has dropped its old one (`Counted`, `OldCounted`),
that a commit has its blob, and that a blob about to be removed is unnamed or `raced`
(`CommitHasBlob`, `UnblobUnnamed`). `CacheSafe` ties each caller to its call (`Asks`, `Drops`).
From it follow `ReferencesHaveBytes`, on the backend of the key's registry, and
`ReferencesResolve` where that is also the default: a lookup between the commit of a store and
`record_backend` goes to the default backend, so with others the property is false for that
moment (TLC shows it). `ServedAsAdvertised` needs `AllGenuine`: under the strict settings every
hash that a
call, a request or a reference carries is one upstream had for that key. A store of a damaged
body is stopped by the checksum, an eviction or a sweep stores nothing, and a read returns
what its reference named. The
property is about undamaged blobs, so the theorem, like the run, has no `rot`: a freshly stored
body is served from the store without being verified again, also under `verify_on_serve`, and
a blob that rots in between is served once (TLC shows it).

### Publishing (`LocalPublishProofs`)

`Safe` adds to `TypeOK` and `VisibleHasBytes`: a publish under way names its version (`Shape`);
a burned row is never pending, so nothing that removes a pending row frees it
(`PendingIsFree`); the bytes of a row about to be committed are there, were rolled back or are
of a deleted version (`BytesBehind`); while no owner is registered some publish still has to
(`ClaimedInTime`); and a charge is carried by exactly one of success, a publish at a charged
program counter, or the loss a crash left (`Accounts`). With a quota declared at a tier,
`revoke_publish` gives nothing back: `QuotaAccounted` is false there (section 4) and only the
inequality of `QuotaIsKept` remains.

### Assumptions

They are the named `ASSUME`s of the modules, evaluated by TLC on every run: the shape of the
profiles (the types and what `validate_registry_security` refuses), that required scanners are
run and are not internal names, that scanners report no finding of the derived kinds, that the
evictor, the sweeper and the clients are different actors, that initial rows have unique
identifiers, and that constants have their types.

### Only model-checked

* All liveness properties (`EveryJobCloses`, `EveryHoldGetsScanned`, the two
  `Standing...`, `EveryWindowIsSealed`, `GoneIsBlocked`, `DanglingHeals`, `OrphansGo`, `RotHeals`,
  `PendingGoes`): fairness and ENABLED are out of the prover's reach.
* The two refuted runs: a counterexample needs no proof.

Over Postgres the pipeline's three row properties are not claimed at all.

## 6. Not modelled

Registry formats, web handlers, the CLI and the UI are most of the repository's lines:
parsing, URL mapping, rendering and transport with no protocol state, where a model
would restate the code. Leaf storage backends are maps here. SBOM, README, signature and
checksum processing is sequential work on bytes. Authentication is mostly token
verification by libraries. The settings a model fixes (sealing on, `on_confirmed =
"block"`, quota enforcement `block`, the TTL strategy) are named in the module headers and in
`PROJECT.json`, with what of each component is left out.

## 7. Plan

1. Done: the verdict pipeline; the audit trail and its ledger; the upstream audit; the
   cache over the deduplicating store; publishing with quota; proofs of every safety property
   that a passing run checks.
2. Proofs still worth having: that with `verify_on_serve` a hit in the cache is never damaged
   when it is checked; what of `AuthorityDenies` survives over Postgres when nobody unblocks
   while a flag is pushed; that a
   commit in `AuditChain` is refused only when the head moved.
3. Models still worth having: queue starvation with creation order, flag expiry,
   one-shot login states, the hot-configuration snapshot of a request.
