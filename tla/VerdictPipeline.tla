--------------------------- MODULE VerdictPipeline ---------------------------
(***************************************************************************)
(* The security verdict pipeline of one [security] registry: the download  *)
(* gate that reads verdicts, the scan workers that write them, and the     *)
(* administrator and SOC paths that rewrite them, over one verdict store   *)
(* and one scan queue.                                                     *)
(*   crates/core/src/services/verdict.rs         VerdictService            *)
(*   crates/core/src/rules/verdict_gate.rs       VerdictGateRule           *)
(*   crates/core/src/services/scan_worker.rs     ScanWorker                *)
(*   crates/core/src/services/rescan.rs          RescanScheduler           *)
(*   crates/core/src/services/admin/packages.rs  block / unblock           *)
(*   crates/core/src/services/flags.rs           pushed flags              *)
(*                                                                         *)
(* Every call to the store or the queue is an await point, so each is one  *)
(* action; what a process computes between two calls belongs to the first  *)
(* of them.  A process keeps in `row' the verdict it is about to write (or *)
(* the half of it that it has read).                                       *)
(***************************************************************************)
EXTENDS Verdict, ScanQueue, Sequences

CONSTANTS
    Readers,      \* requests in flight at the gate
    Workers,      \* scan workers
    Admins,       \* administrators blocking and unblocking
    Flaggers,     \* flag sources pushing and revoking
    Policy,       \* the registry's SecurityPolicy
    ScanOrder,    \* the scanners of `plan', in the order run_job runs them
    Enrichers,    \* those of them that are enrichers (enrich)
    Flaky,        \* scanners that may fail to answer
    ErrorCodes,   \* how: among SCANNER_ERROR and SCANNER_UNSUPPORTED
    CachedDates,  \* whether the metadata cache still dates a rescanned version
    Store,        \* "memory" or "postgres": which VerdictRepository
    Faults,       \* store calls that may fail: "read", "write", "queue", "close"
    LocalPkgs,    \* versions published to this instance
    Ages,         \* ages a version may have when the model starts
    MaxAge,       \* bound: the oldest age the clock reaches
    MaxCrashes,   \* bound: worker crashes in a behaviour
    MaxEdits,     \* bound: administrator and SOC operations in a behaviour
    Rescans,      \* BOOLEAN: rescan_interval is set
    OperatorTriggers, \* triggers operators and webhooks enqueue with
    Reloads,      \* BOOLEAN: the registry may leave and re-enter [security]
    Disclosures,  \* BOOLEAN: a vulnerability may be disclosed
    FlagKinds,    \* pushable flags: records [wild, hard]
    None          \* no verdict, no process argument

BlockListScanner == "block_list"
FlagsScanner == "flags"

Scanners == {ScanOrder[i] : i \in DOMAIN ScanOrder}
Required == Policy.required_scanners

ASSUME StoreAssumption == Store \in {"memory", "postgres"}
ASSUME ErrorCodesAssumption == ErrorCodes \subseteq {"SCANNER_ERROR", "SCANNER_UNSUPPORTED"}
ASSUME CachedDatesAssumption == CachedDates \subseteq BOOLEAN

ASSUME ScanOrderAssumption == ScanOrder \in Seq(Names) /\ ScanOrder # <<>>
ASSUME InternalNamesAssumption == {BlockListScanner, FlagsScanner, "flag"} \subseteq Names
ASSUME AgesAssumption == Ages \subseteq Int /\ MaxAge \in Int
ASSUME NoneAssumption == None \notin Row
ASSUME LocalPkgsAssumption == LocalPkgs \subseteq Pkgs
ASSUME TriggersAssumption == OperatorTriggers \subseteq Triggers
ASSUME FlagKindsAssumption == FlagKinds \subseteq [wild : BOOLEAN, hard : BOOLEAN]

\* config/src/schema validates the modes and requires every required scanner to
\* be one of the registry's declared ones; a scanner declared under the name of
\* an internal scanner or of the derived findings is outside the model.
ASSUME PolicyAssumption ==
    /\ Policy.mode \in {"block", "warn"}
    /\ Policy.min_age \in Nat
    /\ Policy.mature_age \in Nat
    /\ Policy.hold_missing_timestamp \in BOOLEAN
    /\ Policy.max_severity \in 0 .. 4
    /\ Policy.scanner_error \in {"quarantine", "warn", "ignore"}
    /\ Policy.deny_install_hooks \in {"deny", "warn", "ignore"}
    /\ Policy.require_provenance \in BOOLEAN
    /\ \A s \in DOMAIN Policy.escalation : Policy.escalation[s].to \in 0 .. 4

ASSUME RequiredAssumption ==
    /\ Required \subseteq Scanners
    /\ Required \cap {BlockListScanner, FlagsScanner, AgeScanner, PendingScanner} = {}

VARIABLES
    verdict,     \* artifact_verdicts (+ artifact_findings): row per version
    jobs,        \* scan_jobs
    blocked,     \* package status rows: blocked versions
    flag,        \* the pushed flag, or None
    vulnerable,  \* versions the external scanners would report on
    age,         \* now - published_at per version
    secured,     \* whether the hot config has a profile for the registry
    unpublished, \* local versions not published yet
    readers, workers, admins, flaggers,   \* process states
    crashes, edits,                       \* bounded counters
    answered,    \* history: <<version, scanner>> pairs that really answered
    served       \* history: versions the gate has served as `allowed'

worldVars == <<blocked, flag, vulnerable, age, secured, unpublished>>
histVars == <<answered, served>>
budgetVars == <<crashes, edits>>
procVars == <<readers, workers, admins, flaggers>>
vars == <<verdict, jobs, worldVars, procVars, budgetVars, histVars>>

-----------------------------------------------------------------------------
(* Types *)

Flag == [wild : BOOLEAN, hard : BOOLEAN, pkg : Pkgs]

IdleReader == [pc |-> "idle", pkg |-> None, row |-> None, now |-> Undated]
IdleWorker == [pc |-> "idle", batch |-> {}, job |-> None, at |-> 1, found |-> {},
               done |-> {}, row |-> None, now |-> Undated, sweeping |-> FALSE]
IdleAdmin  == [pc |-> "idle", pkg |-> None, block |-> FALSE, row |-> None]
NoRows == [p \in Pkgs |-> None]
IdleFlagger == [pc |-> "idle", flag |-> None, todo |-> {}, rows |-> NoRows]

Reader == [pc : {"idle", "findings", "enqueue", "hold", "writeback"},
           pkg : Pkgs \cup {None}, row : Row \cup {None}, now : Int]
Worker == [pc : {"idle", "next", "scan", "record", "findings", "write", "close", "fail"},
           batch : SUBSET Lease, job : Lease \cup {None}, at : Nat \ {0},
           found : SUBSET Finding, done : SUBSET Names,
           row : Row \cup {None}, now : Int, sweeping : BOOLEAN]
Admin == [pc : {"idle", "read", "findings", "write", "enqueue"},
          pkg : Pkgs \cup {None}, block : BOOLEAN, row : Row \cup {None}]

Flagger == [pc : {"idle", "deny", "findings", "write", "cover", "enqueue"},
            flag : Flag \cup {None}, todo : SUBSET Pkgs,
            rows : [Pkgs -> Row \cup {None}]]

\* Every variable stays in its domain; rows and process states are well formed.
TypeOK ==
    /\ verdict \in [Pkgs -> Row \cup {None}]
    /\ jobs \in [JobIds -> Job \cup {NoJob}]
    /\ blocked \subseteq Pkgs
    /\ flag \in Flag \cup {None}
    /\ vulnerable \subseteq Pkgs
    /\ age \in [Pkgs -> Int]
    /\ secured \in BOOLEAN
    /\ unpublished \subseteq Pkgs
    /\ readers \in [Readers -> Reader]
    /\ workers \in [Workers -> Worker]
    /\ admins \in [Admins -> Admin]
    /\ flaggers \in [Flaggers -> Flagger]
    /\ crashes \in Nat
    /\ edits \in Nat
    /\ answered \subseteq Pkgs \X Names
    /\ served \subseteq Pkgs

-----------------------------------------------------------------------------
(* What the scanners say *)

ErrorFinding(s, code) == NewFinding(s, "scanner_error", code, High, s)
VulnFinding(s) == NewFinding(s, "vulnerability", "VULNERABILITY", Critical, s)
BlockFinding ==
    NewFinding(BlockListScanner, "block_list", "BLOCK_LIST", Critical, BlockListScanner)

\* PackageFlag::as_finding: a hard_block is the SOC's word, anything less is
\* an ordinary finding of the SOC kind.
FlagFinding(fl) ==
    IF fl.hard
    THEN NewFinding(FlagsScanner, "soc_verdict", "SOC_VERDICT", Critical, "flag")
    ELSE NewFinding(FlagsScanner, "soc_verdict", "VULNERABILITY", Low, "flag")

Covers(fl, p) == fl # None /\ (fl.wild \/ fl.pkg = p)

\* BlockListScanner reads the status row, FlagsScanner the live flags, an
\* external scanner the disclosed vulnerabilities.
Says(s, p) ==
    CASE s = BlockListScanner -> IF p \in blocked THEN {BlockFinding} ELSE {}
      [] s = FlagsScanner -> IF Covers(flag, p) THEN {FlagFinding(flag)} ELSE {}
      [] s \in Enrichers -> {}
      [] OTHER -> IF p \in vulnerable THEN {VulnFinding(s)} ELSE {}

-----------------------------------------------------------------------------
(* Rewriting a row *)

Stored(row) == IF row = None THEN [findings |-> {}, done |-> {}, scanned |-> FALSE]
               ELSE row

\* The evaluation `current' makes of a stored row, or of nothing.
Fresh(row, now) ==
    Evaluate(Policy, Stored(row).findings, Stored(row).done, now, Stored(row).scanned)

\* record_scan: what is carried over from the previous row. The SOC's findings
\* stay unless they are the flags scanner's own and it answered; a scanner that
\* answered before and not now keeps its findings with its marker.
Carried(row, done) ==
    {f \in Stored(row).findings :
        IF f.kind = "soc_verdict"
        THEN ~(FlagsScanner \in done /\ f.scanner = FlagsScanner)
        ELSE f.scanner \in Stored(row).done \ done}

Recorded(row, found, done, now) ==
    Evaluate(Policy, found \cup Carried(row, done), done \cup Stored(row).done, now, TRUE)

\* The administrator's or the SOC's denial, written over whatever was judged.
DeniedWith(row, findings, code) ==
    [row EXCEPT !.findings = findings, !.state = "denied",
                !.codes = @ \cup {code}, !.available_at = NoTime]

\* Mutant: a block adds its finding and leaves the state to the rescan too.
RewrittenLater(row, block) ==
    LET kept == {f \in row.findings : f.scanner # BlockListScanner /\ f.kind # "block_list"}
    IN  IF block
        THEN [row EXCEPT !.findings = kept \cup {BlockFinding}, !.codes = @ \cup {"BLOCK_LIST"}]
        ELSE [row EXCEPT !.findings = kept, !.codes = @ \ {"BLOCK_LIST"}]

\* rewrite_block_finding: blocking denies; unblocking removes the finding and
\* the code and leaves the state to the rescan.
Rewritten(row, block) ==
    LET kept == {f \in row.findings : f.scanner # BlockListScanner /\ f.kind # "block_list"}
    IN  IF block
        THEN DeniedWith(row, kept \cup {BlockFinding}, "BLOCK_LIST")
        ELSE [row EXCEPT !.findings = kept, !.codes = @ \ {"BLOCK_LIST"}]

\* deny_one: the flag's own previous finding is replaced.
Flagged(row, fl) ==
    LET kept == {f \in row.findings : f.scanner # FlagsScanner \/ f.ref # FlagFinding(fl).ref}
    IN  DeniedWith(row, kept \cup {FlagFinding(fl)}, "SOC_VERDICT")

-----------------------------------------------------------------------------
(* Reading a row *)

\* PgVerdictRepository::get is two statements outside a transaction: the row,
\* then its findings. The in-memory store clones the row under one lock.
SplitRead(p) == Store = "postgres" /\ verdict[p] # None

Joined(row, p) == [row EXCEPT !.findings = verdict[p].findings]

\* list_for_package: Postgres does not load the findings.
ListedRow(p) ==
    IF Store = "postgres" THEN [verdict[p] EXCEPT !.findings = {}] ELSE verdict[p]

\* Ids of which some worker keeps a copy.
Held == {l.id : l \in UNION {workers[w].batch : w \in Workers}}
          \cup {workers[w].job.id : w \in {v \in Workers : workers[v].job # None}}

Enqueue(p, trigger, dated) ==
    /\ CanOpen(jobs, Held, p)
    /\ jobs' = Opened(jobs, Held, p, trigger, dated)

-----------------------------------------------------------------------------
(* The gate: VerdictGateRule::evaluate and VerdictService::current *)

\* The decision is taken on the fresh verdict. An exemption (apply_override)
\* serves a refused version as `warned', so it never adds to `served'.
Decided(p, row) ==
    served' = IF row.state = "allowed" THEN served \cup {p} ELSE served

\* reason_codes are lists: with two or more of them the order may differ
\* although the set does not, and then the row is written back as well.
MayDiffer(old, new) ==
    \/ old.state # new.state
    \/ old.codes # new.codes
    \/ Cardinality(new.codes) >= 2

MustDiffer(old, new) == old.state # new.state \/ old.codes # new.codes

\* What `current' does once it has the whole row: first sight, write back, or
\* answer at once.
Judge(r, p, row, now) ==
    LET fresh == Fresh(row, now)
        to(pc) == [pc |-> pc, pkg |-> p, row |-> fresh, now |-> Undated]
    IN  \/ /\ row = None
           /\ readers' = [readers EXCEPT ![r] = to("enqueue")]
           /\ UNCHANGED served
        \/ /\ row # None
           /\ MayDiffer(row, fresh)
           /\ readers' = [readers EXCEPT ![r] = to("writeback")]
           /\ UNCHANGED served
        \/ /\ row # None
           /\ ~MustDiffer(row, fresh)
           /\ readers' = [readers EXCEPT ![r] = IdleReader]
           /\ Decided(p, fresh)

\* current(): verdicts.get.
GateRead(r, p) ==
    /\ readers[r].pc = "idle"
    /\ secured
    /\ p \notin unpublished
    /\ IF SplitRead(p)
       THEN /\ readers' = [readers EXCEPT ![r] =
                 [pc |-> "findings", pkg |-> p, row |-> verdict[p], now |-> age[p]]]
            /\ UNCHANGED served
       ELSE Judge(r, p, verdict[p], age[p])
    /\ UNCHANGED <<verdict, jobs, worldVars, workers, admins, flaggers, budgetVars, answered>>

\* The second statement of a Postgres get.
GateReadFindings(r) ==
    LET rd == readers[r]
    IN  /\ rd.pc = "findings"
        /\ Judge(r, rd.pkg, Joined(rd.row, rd.pkg), rd.now)
        /\ UNCHANGED <<verdict, jobs, worldVars, workers, admins, flaggers, budgetVars, answered>>

\* First sight, and first_sight_local: the job is queued first ...
GateEnqueue(r) ==
    /\ readers[r].pc = "enqueue"
    /\ Enqueue(readers[r].pkg, "first_seen", age[readers[r].pkg] # Undated)
    /\ readers' = [readers EXCEPT ![r].pc = "hold"]
    /\ UNCHANGED <<verdict, worldVars, workers, admins, flaggers, budgetVars, histVars>>

\* ... and then the hold is written over whatever is there.
GateHold(r) ==
    LET rd == readers[r]
    IN  /\ rd.pc = "hold"
        /\ verdict' = [verdict EXCEPT ![rd.pkg] = rd.row]
        /\ readers' = [readers EXCEPT ![r] = IdleReader]
        /\ Decided(rd.pkg, rd.row)
        /\ UNCHANGED <<jobs, worldVars, workers, admins, flaggers, budgetVars, answered>>

\* The transition on read; a failed write is only logged.
GateWriteBack(r) ==
    LET rd == readers[r]
    IN  /\ rd.pc = "writeback"
        /\ \/ verdict' = [verdict EXCEPT ![rd.pkg] = rd.row]
           \/ "write" \in Faults /\ UNCHANGED verdict
        /\ readers' = [readers EXCEPT ![r] = IdleReader]
        /\ Decided(rd.pkg, rd.row)
        /\ UNCHANGED <<jobs, worldVars, workers, admins, flaggers, budgetVars, answered>>

\* Any other store error refuses the request (fail closed).
GateRefused(r) ==
    /\ \/ readers[r].pc = "findings" /\ "read" \in Faults
       \/ readers[r].pc = "enqueue" /\ "queue" \in Faults
       \/ readers[r].pc = "hold" /\ "write" \in Faults
    /\ readers' = [readers EXCEPT ![r] = IdleReader]
    /\ UNCHANGED <<verdict, jobs, worldVars, workers, admins, flaggers, budgetVars, histVars>>

\* first_sight_local after a publish: no read, the same two calls.
Publish(r, p) ==
    /\ readers[r].pc = "idle"
    /\ p \in unpublished
    /\ unpublished' = unpublished \ {p}
    /\ readers' = IF secured
                  THEN [readers EXCEPT ![r] = [pc |-> "enqueue", pkg |-> p,
                          row |-> Evaluate(Policy, {}, {}, age[p], FALSE), now |-> Undated]]
                  ELSE readers
    /\ UNCHANGED <<verdict, jobs, blocked, flag, vulnerable, age, secured,
                   workers, admins, flaggers, budgetVars, histVars>>

Gate(r) ==
    \/ \E p \in Pkgs : GateRead(r, p)
    \/ GateReadFindings(r)
    \/ GateEnqueue(r)
    \/ GateHold(r)
    \/ GateWriteBack(r)
    \/ GateRefused(r)
    \/ \E p \in Pkgs : Publish(r, p)

-----------------------------------------------------------------------------
(* The workers: ScanWorker::pass *)

\* Between two jobs of a pass.
NextJob(batch, sweeping) ==
    [IdleWorker EXCEPT !.pc = "next", !.batch = batch, !.sweeping = sweeping]

\* pass: queue.lease. The jobs of the batch run one after the other.
LeaseBatch(w) ==
    /\ workers[w].pc = "idle"
    /\ \E S \in Picks(jobs) \ {{}} :
         /\ jobs' = TakeLease(jobs, S)
         /\ workers' = [workers EXCEPT ![w] = NextJob({CopyOf(jobs, j) : j \in S}, FALSE)]
    /\ UNCHANGED <<verdict, worldVars, readers, admins, flaggers, budgetVars, histVars>>

\* pass: queue.exhausted, after the batch, or alone on a housekeeping pass that
\* leased nothing.
Sweep(w) ==
    /\ \/ workers[w].pc = "next" /\ workers[w].batch = {} /\ ~workers[w].sweeping
       \/ workers[w].pc = "idle" /\ Exhausted(jobs) # {}
    /\ \E S \in Sweeps(jobs) :
         workers' = [workers EXCEPT ![w] =
            IF S = {} THEN IdleWorker ELSE NextJob({CopyOf(jobs, j) : j \in S}, TRUE)]
    /\ UNCHANGED <<verdict, jobs, worldVars, readers, admins, flaggers, budgetVars, histVars>>

\* Mutant: an exhausted job marks its scanners done and files no error.
StartJobSilently(w) ==
    LET wk == workers[w]
    IN  /\ wk.pc = "next"
        /\ \E l \in wk.batch :
             workers' = [workers EXCEPT ![w] =
               [wk EXCEPT !.batch = @ \ {l}, !.job = l,
                  !.pc = IF ~secured THEN "close"
                         ELSE IF wk.sweeping THEN "record" ELSE "scan",
                  !.found = {},
                  !.done = IF secured /\ wk.sweeping THEN Required ELSE {}]]
        /\ UNCHANGED <<verdict, jobs, worldVars, readers, admins, flaggers, budgetVars, histVars>>

\* run_job / close_exhausted: `plan'. A registry that left [security] since has
\* nothing to judge and its job is closed.  close_exhausted files an error for
\* every required scanner and marks them all done.
StartJob(w) ==
    LET wk == workers[w]
    IN  /\ wk.pc = "next"
        /\ \E l \in wk.batch :
             workers' = [workers EXCEPT ![w] =
               [wk EXCEPT !.batch = @ \ {l}, !.job = l,
                  !.pc = IF ~secured THEN "close"
                         ELSE IF wk.sweeping THEN "record" ELSE "scan",
                  !.found = IF secured /\ wk.sweeping
                            THEN {ErrorFinding(s, "SCANNER_ERROR") : s \in Required} ELSE {},
                  !.done = IF secured /\ wk.sweeping THEN Required ELSE {}]]
        /\ UNCHANGED <<verdict, jobs, worldVars, readers, admins, flaggers, budgetVars, histVars>>

\* run_scanner (or one turn of enrich), then the heartbeat. Only the job being
\* scanned is renewed, not the ones of the batch still waiting.
Scanned(w, found, done) ==
    LET wk == workers[w]
    IN  workers' = [workers EXCEPT ![w] =
          [wk EXCEPT !.found = @ \cup found, !.done = @ \cup done, !.at = @ + 1,
                     !.pc = IF wk.at = Len(ScanOrder) THEN "record" ELSE "scan"]]

Renew(w, s) == IF s \in Enrichers THEN jobs ELSE Heartbeat(jobs, workers[w].job.id)

ScannerAnswers(w) ==
    LET wk == workers[w]
        s  == ScanOrder[wk.at]
    IN  /\ wk.pc = "scan"
        /\ Scanned(w, Says(s, wk.job.pkg), {s})
        /\ jobs' = Renew(w, s)
        /\ answered' = answered \cup {<<wk.job.pkg, s>>}
        /\ UNCHANGED <<verdict, worldVars, readers, admins, flaggers, budgetVars, served>>

\* A timeout, an upstream error or missing bytes: an error finding and no
\* marker. An enricher that fails leaves no finding.
ScannerFails(w) ==
    LET wk == workers[w]
        s  == ScanOrder[wk.at]
    IN  /\ wk.pc = "scan"
        /\ s \in Flaky
        /\ \E code \in ErrorCodes :
             Scanned(w, IF s \in Enrichers THEN {} ELSE {ErrorFinding(s, code)}, {})
        /\ jobs' = Renew(w, s)
        /\ UNCHANGED <<verdict, worldVars, readers, admins, flaggers, budgetVars, histVars>>

\* The date the version is judged at: the job's when it has one, else the one
\* the upstream gives if it answers (dated_metadata); an exhausted job is judged
\* on the coordinate alone.
JudgedAges(wk) ==
    IF wk.job.dated THEN {age[wk.job.pkg]}
    ELSE IF wk.sweeping THEN {Undated} ELSE {Undated, age[wk.job.pkg]}

\* record_scan: verdicts.get, and the row it will write.
RecordRead(w) ==
    LET wk == workers[w]
        p  == wk.job.pkg
    IN  /\ wk.pc = "record"
        /\ \E now \in JudgedAges(wk) :
             workers' = [workers EXCEPT ![w] =
               IF SplitRead(p)
               THEN [wk EXCEPT !.pc = "findings", !.row = verdict[p], !.now = now]
               ELSE [wk EXCEPT !.pc = "write",
                               !.row = Recorded(verdict[p], wk.found, wk.done, now)]]
        /\ UNCHANGED <<verdict, jobs, worldVars, readers, admins, flaggers, budgetVars, histVars>>

RecordReadFindings(w) ==
    LET wk == workers[w]
        p  == wk.job.pkg
    IN  /\ wk.pc = "findings"
        /\ workers' = [workers EXCEPT ![w] =
             [wk EXCEPT !.pc = "write", !.now = Undated,
                        !.row = Recorded(Joined(wk.row, p), wk.found, wk.done, wk.now)]]
        /\ UNCHANGED <<verdict, jobs, worldVars, readers, admins, flaggers, budgetVars, histVars>>

\* record_scan: verdicts.upsert.
RecordWrite(w) ==
    LET wk == workers[w]
    IN  /\ wk.pc = "write"
        /\ verdict' = [verdict EXCEPT ![wk.job.pkg] = wk.row]
        /\ workers' = [workers EXCEPT ![w].pc = "close"]
        /\ UNCHANGED <<jobs, worldVars, readers, admins, flaggers, budgetVars, histVars>>

\* A store error fails the job, except in close_exhausted, which logs it and
\* closes the row all the same.
RecordFails(w) ==
    LET wk == workers[w]
    IN  /\ \/ wk.pc \in {"record", "findings"} /\ "read" \in Faults
           \/ wk.pc = "write" /\ "write" \in Faults
        /\ workers' = [workers EXCEPT ![w] =
             [wk EXCEPT !.pc = IF wk.sweeping THEN "close" ELSE "fail", !.now = Undated]]
        /\ UNCHANGED <<verdict, jobs, worldVars, readers, admins, flaggers, budgetVars, histVars>>

\* complete / fail, and on to the next job of the pass. A swept batch that is
\* empty ends the pass.
JobOver(w) ==
    LET wk == workers[w]
    IN  workers' = [workers EXCEPT ![w] =
          IF wk.sweeping /\ wk.batch = {} THEN IdleWorker ELSE NextJob(wk.batch, wk.sweeping)]

CloseJob(w) ==
    LET wk == workers[w]
    IN  /\ \/ wk.pc = "close" /\ jobs' = Completed(jobs, wk.job.id)
           \/ wk.pc = "fail" /\ jobs' = Failed(jobs, wk.job.id)
           \/ wk.pc \in {"close", "fail"} /\ "close" \in Faults /\ UNCHANGED jobs
        /\ JobOver(w)
        /\ UNCHANGED <<verdict, worldVars, readers, admins, flaggers, budgetVars, histVars>>

WorkerStep(w) ==
    \/ LeaseBatch(w)
    \/ Sweep(w)
    \/ StartJob(w)
    \/ ScannerAnswers(w)
    \/ ScannerFails(w)
    \/ RecordRead(w)
    \/ RecordReadFindings(w)
    \/ RecordWrite(w)
    \/ RecordFails(w)
    \/ CloseJob(w)

\* The process dies; its leases stay until they lapse.
Crash(w) ==
    /\ workers[w].pc # "idle"
    /\ crashes < MaxCrashes
    /\ crashes' = crashes + 1
    /\ workers' = [workers EXCEPT ![w] = IdleWorker]
    /\ UNCHANGED <<verdict, jobs, worldVars, readers, admins, flaggers, edits, histVars>>

-----------------------------------------------------------------------------
(* The administrator: block_package / unblock_package *)

\* repo.set_status; on a registry without a profile that is all.
SetStatus(a, p, block) ==
    /\ admins[a].pc = "idle"
    /\ edits < MaxEdits
    /\ edits' = edits + 1
    /\ blocked' = IF block THEN blocked \cup {p} ELSE blocked \ {p}
    /\ admins' = IF secured
                 THEN [admins EXCEPT ![a] =
                         [pc |-> "read", pkg |-> p, block |-> block, row |-> None]]
                 ELSE admins
    /\ UNCHANGED <<verdict, jobs, flag, vulnerable, age, secured, unpublished,
                   readers, workers, flaggers, crashes, histVars>>

\* propagate_to_verdict: store.get. No stored verdict, nothing to rewrite.
AdminRead(a) ==
    LET ad == admins[a]
        p  == ad.pkg
    IN  /\ ad.pc = "read"
        /\ admins' = [admins EXCEPT ![a] =
             IF verdict[p] = None THEN [ad EXCEPT !.pc = "enqueue"]
             ELSE IF SplitRead(p) THEN [ad EXCEPT !.pc = "findings", !.row = verdict[p]]
             ELSE [ad EXCEPT !.pc = "write", !.row = Rewritten(verdict[p], ad.block)]]
        /\ UNCHANGED <<verdict, jobs, worldVars, readers, workers, flaggers, budgetVars, histVars>>

AdminReadFindings(a) ==
    LET ad == admins[a]
    IN  /\ ad.pc = "findings"
        /\ admins' = [admins EXCEPT ![a] =
             [ad EXCEPT !.pc = "write", !.row = Rewritten(Joined(ad.row, ad.pkg), ad.block)]]
        /\ UNCHANGED <<verdict, jobs, worldVars, readers, workers, flaggers, budgetVars, histVars>>

AdminWrite(a) ==
    LET ad == admins[a]
    IN  /\ ad.pc = "write"
        /\ verdict' = [verdict EXCEPT ![ad.pkg] = ad.row]
        /\ admins' = [admins EXCEPT ![a] = [ad EXCEPT !.pc = "enqueue", !.row = None]]
        /\ UNCHANGED <<jobs, worldVars, readers, workers, flaggers, budgetVars, histVars>>

\* The rescan that is queued last, undated.
AdminEnqueue(a) ==
    /\ admins[a].pc = "enqueue"
    /\ Enqueue(admins[a].pkg, "webhook", FALSE)
    /\ admins' = [admins EXCEPT ![a] = IdleAdmin]
    /\ UNCHANGED <<verdict, worldVars, readers, workers, flaggers, budgetVars, histVars>>

\* Failures are logged, never returned.
AdminFault(a) ==
    LET ad == admins[a]
    IN  /\ \/ ad.pc \in {"read", "findings"} /\ "read" \in Faults
           \/ ad.pc = "write" /\ "write" \in Faults
           \/ ad.pc = "enqueue" /\ "queue" \in Faults
        /\ admins' = [admins EXCEPT ![a] =
             IF ad.pc = "enqueue" THEN IdleAdmin ELSE [ad EXCEPT !.pc = "enqueue", !.row = None]]
        /\ UNCHANGED <<verdict, jobs, worldVars, readers, workers, flaggers, budgetVars, histVars>>

AdminStep(a) ==
    \/ AdminRead(a)
    \/ AdminReadFindings(a)
    \/ AdminWrite(a)
    \/ AdminEnqueue(a)
    \/ AdminFault(a)

-----------------------------------------------------------------------------
(* A flag source: FlagService::push and revoke *)

Scope(fl) == IF fl.wild THEN Pkgs ELSE {fl.pkg}

\* covered_verdicts: nothing on a registry without a profile.
Covered(fl) == {p \in Scope(fl) : secured /\ verdict[p] # None}

\* accept_one: upsert_flag. A hard_block denies before it rescans.
PushFlag(f, fl) ==
    /\ flaggers[f].pc = "idle"
    /\ edits < MaxEdits
    /\ edits' = edits + 1
    /\ flag' = fl
    /\ flaggers' = [flaggers EXCEPT ![f] =
         [IdleFlagger EXCEPT !.pc = IF fl.hard THEN "deny" ELSE "cover", !.flag = fl]]
    /\ UNCHANGED <<verdict, jobs, blocked, vulnerable, age, secured, unpublished,
                   readers, workers, admins, crashes, histVars>>

\* revoke: the tombstone, then the rescan of what it covered.
RevokeFlag(f) ==
    /\ flaggers[f].pc = "idle"
    /\ flag # None
    /\ edits < MaxEdits
    /\ edits' = edits + 1
    /\ flag' = None
    /\ flaggers' = [flaggers EXCEPT ![f] = [IdleFlagger EXCEPT !.pc = "cover", !.flag = flag]]
    /\ UNCHANGED <<verdict, jobs, blocked, vulnerable, age, secured, unpublished,
                   readers, workers, admins, crashes, histVars>>

\* deny_covered: the rows, all read before the first is written. One version is
\* a get, every version a list_for_package.
FlagRead(f) ==
    LET fg  == flaggers[f]
        cov == Covered(fg.flag)
        split == ~fg.flag.wild /\ SplitRead(fg.flag.pkg)
    IN  /\ fg.pc = "deny"
        /\ flaggers' = [flaggers EXCEPT ![f] =
             [fg EXCEPT
                !.pc = IF cov = {} THEN "cover" ELSE IF split THEN "findings" ELSE "write",
                !.todo = cov,
                !.rows = [p \in Pkgs |-> IF p \notin cov THEN None
                                        ELSE IF split THEN verdict[p]
                                        ELSE IF fg.flag.wild THEN Flagged(ListedRow(p), fg.flag)
                                        ELSE Flagged(verdict[p], fg.flag)]]]
        /\ UNCHANGED <<verdict, jobs, worldVars, readers, workers, admins, budgetVars, histVars>>

FlagReadFindings(f) ==
    LET fg == flaggers[f]
    IN  /\ fg.pc = "findings"
        /\ flaggers' = [flaggers EXCEPT ![f] =
             [fg EXCEPT !.pc = "write",
                        !.rows = [p \in Pkgs |->
                            IF p \in fg.todo THEN Flagged(Joined(fg.rows[p], p), fg.flag)
                            ELSE None]]]
        /\ UNCHANGED <<verdict, jobs, worldVars, readers, workers, admins, budgetVars, histVars>>

FlagWritten(f, p) ==
    LET fg == flaggers[f]
    IN  flaggers' = [flaggers EXCEPT ![f] =
          IF fg.todo = {p} THEN [IdleFlagger EXCEPT !.pc = "cover", !.flag = fg.flag]
          ELSE [fg EXCEPT !.todo = @ \ {p}]]

\* deny_one: store.upsert; a failure is logged and the next row is tried.
FlagWrite(f) ==
    /\ flaggers[f].pc = "write"
    /\ \E p \in flaggers[f].todo :
         /\ \/ verdict' = [verdict EXCEPT ![p] = flaggers[f].rows[p]]
            \/ "write" \in Faults /\ UNCHANGED verdict
         /\ FlagWritten(f, p)
    /\ UNCHANGED <<jobs, worldVars, readers, workers, admins, budgetVars, histVars>>

\* A store that cannot be read covers nothing.
FlagReadFault(f) ==
    /\ "read" \in Faults
    /\ flaggers[f].pc \in {"deny", "findings", "cover"}
    /\ flaggers' = [flaggers EXCEPT ![f] =
         IF flaggers[f].pc = "cover" THEN IdleFlagger
         ELSE [IdleFlagger EXCEPT !.pc = "cover", !.flag = flaggers[f].flag]]
    /\ UNCHANGED <<verdict, jobs, worldVars, readers, workers, admins, budgetVars, histVars>>

\* rescan_covered: the coordinates, read again ...
FlagCover(f) ==
    LET fg  == flaggers[f]
        cov == Covered(fg.flag)
    IN  /\ fg.pc = "cover"
        /\ flaggers' = [flaggers EXCEPT ![f] =
             IF cov = {} THEN IdleFlagger ELSE [fg EXCEPT !.pc = "enqueue", !.todo = cov]]
        /\ UNCHANGED <<verdict, jobs, worldVars, readers, workers, admins, budgetVars, histVars>>

\* ... and one Webhook job each.
FlagEnqueue(f) ==
    LET fg == flaggers[f]
    IN  /\ fg.pc = "enqueue"
        /\ \E p \in fg.todo :
             /\ \/ Enqueue(p, "webhook", FALSE)
                \/ "queue" \in Faults /\ UNCHANGED jobs
             /\ flaggers' = [flaggers EXCEPT ![f] =
                  IF fg.todo = {p} THEN IdleFlagger ELSE [fg EXCEPT !.todo = @ \ {p}]]
        /\ UNCHANGED <<verdict, worldVars, readers, workers, admins, budgetVars, histVars>>

FlagStep(f) ==
    \/ FlagRead(f)
    \/ FlagReadFindings(f)
    \/ FlagWrite(f)
    \/ FlagReadFault(f)
    \/ FlagCover(f)
    \/ FlagEnqueue(f)

-----------------------------------------------------------------------------
(* Everything else that touches the pipeline *)

\* Mutant: only versions that were scanned once are due again.
RescanTickScanned(p) ==
    /\ Rescans
    /\ secured
    /\ verdict[p] # None
    /\ verdict[p].scanned
    /\ \E cached \in CachedDates : Enqueue(p, "rescan", cached /\ age[p] # Undated)
    /\ UNCHANGED <<verdict, worldVars, procVars, budgetVars, histVars>>

\* Mutant: only versions that were never scanned are due.
RescanTickUnscanned(p) ==
    /\ Rescans
    /\ secured
    /\ verdict[p] # None
    /\ ~verdict[p].scanned
    /\ \E cached \in CachedDates : Enqueue(p, "rescan", cached /\ age[p] # Undated)
    /\ UNCHANGED <<verdict, worldVars, procVars, budgetVars, histVars>>

\* RescanScheduler::run_once on the leader: any stored verdict may be due. The
\* date comes from the metadata cache, which may have let it go.
RescanTick(p) ==
    /\ Rescans
    /\ secured
    /\ verdict[p] # None
    /\ \E cached \in CachedDates : Enqueue(p, "rescan", cached /\ age[p] # Undated)
    /\ UNCHANGED <<verdict, worldVars, procVars, budgetVars, histVars>>

\* The rescan, bulk rescan and backfill endpoints and the security.rescan webhook.
OperatorEnqueue(p, trigger) ==
    /\ secured \/ trigger = "webhook"
    /\ p \notin unpublished
    /\ ~HasOpen(jobs, p)
    /\ \E cached \in CachedDates :
         Enqueue(p, trigger, cached /\ trigger # "webhook" /\ age[p] # Undated)
    /\ UNCHANGED <<verdict, worldVars, procVars, budgetVars, histVars>>

\* leased_until passes: any time, since a lease covers neither the artifact
\* fetch before the first scanner nor the jobs of a batch that wait.
LeaseLapses(j) ==
    /\ jobs[j] # NoJob
    /\ jobs[j].leased
    /\ jobs' = [jobs EXCEPT ![j].leased = FALSE]
    /\ UNCHANGED <<verdict, worldVars, procVars, budgetVars, histVars>>

\* The clock.
Tick(p) ==
    /\ p \notin unpublished
    /\ age[p] # Undated
    /\ age[p] < MaxAge
    /\ age' = [age EXCEPT ![p] = @ + 1]
    /\ UNCHANGED <<verdict, jobs, blocked, flag, vulnerable, secured, unpublished,
                   procVars, budgetVars, histVars>>

\* An advisory is published for a version.
Disclose(p) ==
    /\ Disclosures
    /\ p \notin vulnerable
    /\ vulnerable' = vulnerable \cup {p}
    /\ UNCHANGED <<verdict, jobs, blocked, flag, age, secured, unpublished,
                   procVars, budgetVars, histVars>>

\* A config reload removes or adds the registry's [security] profile.
Reload ==
    /\ Reloads
    /\ edits < MaxEdits
    /\ edits' = edits + 1
    /\ secured' = ~secured
    /\ UNCHANGED <<verdict, jobs, blocked, flag, vulnerable, age, unpublished,
                   procVars, crashes, histVars>>

-----------------------------------------------------------------------------

Init ==
    /\ verdict = [p \in Pkgs |-> None]
    /\ jobs = [j \in JobIds |-> NoJob]
    /\ blocked = {}
    /\ flag = None
    /\ vulnerable = {}
    /\ age \in [Pkgs -> Ages]
    /\ secured = TRUE
    /\ unpublished = LocalPkgs
    /\ readers = [r \in Readers |-> IdleReader]
    /\ workers = [w \in Workers |-> IdleWorker]
    /\ admins = [a \in Admins |-> IdleAdmin]
    /\ flaggers = [f \in Flaggers |-> IdleFlagger]
    /\ crashes = 0
    /\ edits = 0
    /\ answered = {}
    /\ served = {}

Next ==
    \/ \E r \in Readers : Gate(r)
    \/ \E w \in Workers : WorkerStep(w) \/ Crash(w)
    \/ \E a \in Admins : \/ \E p \in Pkgs, b \in BOOLEAN : SetStatus(a, p, b)
                         \/ AdminStep(a)
    \/ \E f \in Flaggers : \/ \E k \in FlagKinds, p \in Pkgs :
                                PushFlag(f, [wild |-> k.wild, hard |-> k.hard, pkg |-> p])
                           \/ RevokeFlag(f)
                           \/ FlagStep(f)
    \/ \E p \in Pkgs : \/ RescanTick(p)
                       \/ \E t \in OperatorTriggers : OperatorEnqueue(p, t)
                       \/ Tick(p)
                       \/ Disclose(p)
    \/ \E j \in JobIds : LeaseLapses(j)
    \/ Reload

Spec == Init /\ [][Next]_vars

\* What the processes owe: a request, a pass, an admin call or a push that was
\* started goes on to its next call (each is one async task); the scheduler and
\* the lease clock keep running. Nobody owes a request, a block or a disclosure.
Fairness ==
    /\ \A r \in Readers : WF_vars(GateReadFindings(r) \/ GateEnqueue(r) \/ GateHold(r)
                                    \/ GateWriteBack(r) \/ GateRefused(r))
    /\ \A w \in Workers : WF_vars(WorkerStep(w))
    /\ \A a \in Admins : WF_vars(AdminStep(a))
    /\ \A f \in Flaggers : WF_vars(FlagStep(f))
    /\ \A p \in Pkgs : WF_vars(RescanTick(p))
    /\ \A j \in JobIds : WF_vars(LeaseLapses(j))

FairSpec == Spec /\ Fairness

-----------------------------------------------------------------------------
(* Safety *)

AllAnswered(p) == \A s \in Required : <<p, s>> \in answered

\* verdict.rs, "Fail-closed by construction": the absence of a scan is never an
\* allow. A version stored or served as `allowed' has had a real answer from
\* every required scanner; a job closed after max_attempts, a stale write, a
\* crash or a first sight never passes for one.
AllowedMeansScanned ==
    /\ \A p \in Pkgs : verdict[p] # None /\ verdict[p].state = "allowed" => AllAnswered(p)
    /\ \A p \in served : AllAnswered(p)

\* Four writers set a row's state and findings (evaluate, block, unblock, flag):
\* a row that carries the administrator's or the SOC's word is denied, whoever
\* wrote it last.
AuthorityDenies ==
    \A p \in Pkgs : verdict[p] # None =>
        ((\E f \in verdict[p].findings : f.code \in AlwaysDenied)
            => verdict[p].state = "denied")

HoldersOf(j) ==
    {w \in Workers : /\ ~workers[w].sweeping
                     /\ \/ \E l \in workers[w].batch : l.id = j
                        \/ workers[w].job # None /\ workers[w].job.id = j}

\* The lease: every worker that is running an open job took one of its
\* attempts, so a job is never run more often than max_attempts, crashes and
\* lapsed leases included.
AttemptsBoundHolders ==
    \A j \in OpenIds(jobs) : Cardinality(HoldersOf(j)) <= jobs[j].attempts

\* The strengthening AllowedMeansScanned and AuthorityDenies rest on, for one
\* row: a required scanner is marked done because it answered or because the row
\* carries the error filed in its place, and `allowed' leaves no room for that
\* error.
HasError(findings, s) ==
    \E f \in findings : /\ f.scanner = s
                        /\ f.kind = "scanner_error"
                        /\ f.code \in {"SCANNER_ERROR", "SCANNER_UNSUPPORTED"}

Accounted(p, findings, done, ans) ==
    \A s \in Required \cap done : <<p, s>> \in ans \/ HasError(findings, s)

RowOK(p, row, ans) ==
    /\ Accounted(p, row.findings, row.done, ans)
    /\ row.state = "allowed" /\ Policy.scanner_error # "ignore" =>
         /\ Required \subseteq row.done
         /\ \A s \in Required : ~HasError(row.findings, s)
    /\ (\E f \in row.findings : f.code \in AlwaysDenied) => row.state = "denied"

ReaderAccounted(rd, ans) ==
    rd.pc \in {"enqueue", "hold", "writeback"} => RowOK(rd.pkg, rd.row, ans)

WorkerAccounted(wk, ans) ==
    /\ wk.pc \in {"scan", "record", "write"} => Accounted(wk.job.pkg, wk.found, wk.done, ans)
    /\ wk.pc = "write" => RowOK(wk.job.pkg, wk.row, ans)

AdminAccounted(ad, ans) == ad.pc = "write" => RowOK(ad.pkg, ad.row, ans)

FlaggerAccounted(fg, ans) ==
    fg.pc = "write" => \A p \in fg.todo : RowOK(p, fg.rows[p], ans)

\* Four writers (the gate's write-back and hold, the workers, the block and
\* unblock rewrite, the flag's denial) take rows from each other through the
\* store: every row stored, and every row a process is about to store, accounts
\* for its markers, and so does what a worker has gathered.
RowsAccounted ==
    /\ \A p \in Pkgs : verdict[p] # None => RowOK(p, verdict[p], answered)
    /\ \A r \in Readers : ReaderAccounted(readers[r], answered)
    /\ \A w \in Workers : WorkerAccounted(workers[w], answered)
    /\ \A a \in Admins : AdminAccounted(admins[a], answered)
    /\ \A f \in Flaggers : FlaggerAccounted(flaggers[f], answered)

\* Nothing is under way for p: no request, pass, admin call or push holds it
\* and no job is open.
Quiet(p) ==
    /\ ~HasOpen(jobs, p)
    /\ \A r \in Readers : readers[r].pc = "idle"
    /\ \A w \in Workers : workers[w].pc = "idle"
    /\ \A a \in Admins : admins[a].pc = "idle"
    /\ \A f \in Flaggers : flaggers[f].pc = "idle"

\* propagate_to_verdict: "the queued rescan is the backstop" -- once everything
\* a block set off has finished, the blocked version is denied.
QuietBlockDenies ==
    \A p \in blocked : Quiet(p) /\ verdict[p] # None => verdict[p].state = "denied"

-----------------------------------------------------------------------------
(* Liveness, under FairSpec *)

\* Leases, attempts and the sweep together: every queued job is closed, also
\* when workers crash and leases lapse.
EveryJobCloses == \A j \in JobIds : jobs[j] # NoJob ~> jobs[j] = NoJob

\* With a rescan interval, every version under a verdict is scanned in the end,
\* also when a first-sight hold or a stale write-back replaced the scan that was
\* recorded: the scheduler queues it again.
EveryHoldGetsScanned ==
    \A p \in Pkgs : verdict[p] # None ~> verdict[p] # None /\ verdict[p].scanned

\* No request is about to write a row it read earlier.
NoWriteBack == \A r \in Readers : readers[r].pc \notin {"hold", "writeback"}

\* With a rescan interval, a block that stands ends up denied for good, whatever
\* scans, reads, pushes and crashes it raced with, once requests stop writing
\* back rows they read before the last scan.
StandingBlockEnforced ==
    \A p \in Pkgs : <>[](p \in blocked /\ NoWriteBack)
        => <>[](verdict[p] = None \/ verdict[p].state = "denied")

\* The same for a hard_block flag: the rescans re-derive the denial that a scan
\* in flight had overwritten.
StandingFlagEnforced ==
    \A p \in Pkgs : <>[](Covers(flag, p) /\ flag.hard /\ NoWriteBack)
        => <>[](verdict[p] = None \/ verdict[p].state = "denied")

=============================================================================
