------------------------------ MODULE AuditChain ------------------------------
(***************************************************************************)
(* The audit trail's writers over its PostgreSQL store                     *)
(* (core/src/services/audit_trail.rs, adapters/src/db/packages/            *)
(* audit_trail.rs), with sealing on: the sealer, the lifecycle             *)
(* (expire, then pseudonymise), the operator's purge and erasure, and the  *)
(* verifier, all at once and on any number of processes.  Every read and   *)
(* every transaction of the store is a step of its own; a process holds    *)
(* what it read in its local state until it commits.                       *)
(*                                                                         *)
(* Leadership (try_lead) is asked for at the start of a tick only, and the *)
(* advisory lock is lost with its connection: a tick of the old leader can *)
(* run beside one of the new leader, so every sealer and every lifecycle   *)
(* job may start a tick at any time here.                                  *)
(***************************************************************************)
EXTENDS AuditRows, FiniteSets

CONSTANTS
    Sealers,            \* sealer tasks, one per worker process
    Lifecyclers,        \* lifecycle tasks, one per worker process
    Operators,          \* requests that purge or erase, on any process
    Verifiers,          \* requests that verify the chain
    InitRows,           \* the rows when sealing is switched on
    NewRows,            \* the kinds of rows that requests add: [cls, user]
    PurgeCutoffs,       \* the cutoffs operators purge with
    InitNow, MaxNow,    \* the clock, in windows: first and last value
    AccessRetention,    \* [audit], in windows; 0 means never
    SecurityRetention,
    PseudonymiseAfter,
    Batch,              \* rows taken per store read (BATCH)
    ConflictRetries,    \* attempts at a batch whose chain moved
    SealsPerTick,       \* windows sealed per tick at most
    MaxBlocks,          \* account blocks in a behaviour, 0 or 1
    MaxCrashes          \* process crashes in a behaviour

ASSUME ClockAssumption ==
    /\ InitNow \in Nat \ {0, 1}
    /\ MaxNow \in Nat
ASSUME RowsAssumption ==
    /\ InitRows \subseteq Row
    /\ \A r, s \in InitRows : SameRow(r, s) => r = s
    /\ \A r \in InitRows : r.t <= InitNow
    /\ NewRows \subseteq [cls : Classes, user : Users]
    /\ PurgeCutoffs \subseteq Nat
ASSUME PolicyAssumption ==
    /\ {AccessRetention, SecurityRetention, PseudonymiseAfter} \subseteq Nat
    /\ {Batch, ConflictRetries, SealsPerTick} \subseteq Nat \ {0}
    /\ {MaxBlocks, MaxCrashes} \subseteq Nat
ASSUME JobsAssumption == Lifecyclers \cap Operators = {}

VARIABLES
    now,        \* the wall clock, in windows
    rows,       \* access_events
    pending,    \* events stamped and not yet inserted
    chain,      \* audit_seals
    sealer,     \* what each sealer task is doing
    job,        \* what each lifecycle task and operator request is doing
    verifier,   \* what each verification is doing
    subject,    \* the subject's account block and token
    crashes     \* crashes so far

vars == <<now, rows, pending, chain, sealer, job, verifier, subject, crashes>>

Jobs == Lifecyclers \cup Operators

-----------------------------------------------------------------------------
\* The store

RowsIn(R, w) == {r \in R : r.t = w}

SealedIn(c) == {c[i].window : i \in {k \in DOMAIN c : c[k].kind = "seal"}}

Sealed == SealedIn(chain)

\* Mutant: the start of the last sealed window instead of its end.
SealedUntilStart(S) == CHOOSE w \in S : \A v \in S : v <= w

\* The end of the sealed range: windows are sealed one after the other.
SealedUntil(S) == 1 + (CHOOSE w \in S : \A v \in S : v <= w)

\* A row with its mutable columns replaced by those of an operation.
Updated(r, o) == [r EXCEPT !.user = o.user, !.net = o.net]

\* The rows R with a batch applied: what it names is deleted or updated.
ApplyOps(R, ops, delete) ==
    {r \in R : \A o \in ops : ~SameRow(r, o)}
    \cup (IF delete THEN {}
          ELSE UNION {{Updated(r, o) : r \in {x \in R : SameRow(x, o)}} : o \in ops})

\* The transaction of a batch: under the lock on audit_seals the head must be
\* the one the batch was built on, and a record must describe the rows its
\* window holds once the changes are in.
BatchFits(head, R, record) ==
    /\ Len(chain) = head
    /\ \A r \in record : RowsIn(R, r.window) = r.rows

ApplyBatch(head, R, record) ==
    /\ BatchFits(head, R, record)
    /\ rows' = R
    /\ chain' = IF record = {} THEN chain
                ELSE Append(chain, CHOOSE r \in record : TRUE)

Conflict(head, R, record) ==
    /\ ~BatchFits(head, R, record)
    /\ UNCHANGED <<rows, chain>>

-----------------------------------------------------------------------------
\* The trail being written, and the clock

\* A request stamps an event with the window it is in; it is inserted later.
\* The events the jobs record about themselves come in the same way: the
\* insert is best effort.
NewEvent(id, kind) ==
    /\ id \notin {r.id : r \in rows \cup pending \cup InitRows}
    /\ \A i \in DOMAIN chain : \A r \in chain[i].rows : r.id # id
    /\ pending' = pending \cup {[id |-> id, t |-> now, cls |-> kind.cls,
                                 user |-> kind.user, net |-> "full"]}
    /\ UNCHANGED <<now, rows, chain, sealer, job, verifier, subject, crashes>>

InsertEvent(e) ==
    /\ e \in pending
    /\ rows' = rows \cup {e}
    /\ pending' = pending \ {e}
    /\ UNCHANGED <<now, chain, sealer, job, verifier, subject, crashes>>

\* A window is longer than the longest request in flight.
Tick ==
    /\ now < MaxNow
    /\ \A e \in pending : now <= e.t
    /\ now' = now + 1
    /\ UNCHANGED <<rows, pending, chain, sealer, job, verifier, subject, crashes>>

-----------------------------------------------------------------------------
\* The sealer

SealerIdle == [pc |-> "idle", head |-> 0, next |-> 0, until |-> 0,
               count |-> 0, snap |-> {}]

SetSealer(p, s) ==
    /\ sealer' = [sealer EXCEPT ![p] = s]
    /\ UNCHANGED <<now, pending, job, verifier, subject, crashes>>

\* Mutant: the chain starts two windows too early.
SealStartEarly(p) ==
    /\ sealer[p].pc = "idle"
    /\ SetSealer(p, [SealerIdle EXCEPT
            !.pc = "read", !.head = Len(chain), !.until = now,
            !.next = IF Sealed = {} THEN now - 4 ELSE SealedUntil(Sealed)])
    /\ UNCHANGED <<rows, chain>>

SealStart(p) ==
    /\ sealer[p].pc = "idle"
    /\ SetSealer(p, [SealerIdle EXCEPT
            !.pc = "read", !.head = Len(chain), !.until = now,
            !.next = IF Sealed = {} THEN now - 2 ELSE SealedUntil(Sealed)])
    /\ UNCHANGED <<rows, chain>>

\* Mutant: a window waits for two more windows instead of one.
SealDueLate(s) == s.count < SealsPerTick /\ s.until >= s.next + 3

\* Whether the tick goes on: a window is sealed one window after it closed.
SealDue(s) == s.count < SealsPerTick /\ s.until >= s.next + 2

SealRead(p) ==
    /\ sealer[p].pc = "read"
    /\ SealDue(sealer[p])
    /\ SetSealer(p, [sealer[p] EXCEPT !.pc = "apply",
                                      !.snap = RowsIn(rows, sealer[p].next)])
    /\ UNCHANGED <<rows, chain>>

SealEnd(p) ==
    /\ sealer[p].pc = "read"
    /\ ~SealDue(sealer[p])
    /\ SetSealer(p, SealerIdle)
    /\ UNCHANGED <<rows, chain>>

SealApply(p) ==
    LET s == sealer[p]
        record == {NextRecord(s.head, "seal", s.next, s.snap)}
    IN  /\ s.pc = "apply"
        /\ \/ /\ ApplyBatch(s.head, rows, record)
              /\ SetSealer(p, [s EXCEPT !.pc = "read", !.head = s.head + 1,
                                        !.next = s.next + 1,
                                        !.count = s.count + 1, !.snap = {}])
           \/ /\ Conflict(s.head, rows, record)
              /\ SetSealer(p, SealerIdle)

-----------------------------------------------------------------------------
\* Rewriting rows: the lifecycle, the purge and the erasure

JobIdle == [pc |-> "idle", query |-> "none", at |-> 0, bound |-> 0,
            head |-> 0, sealed |-> {}, ops |-> {}, snap |-> {}, tries |-> 0]

SetJob(p, j) ==
    /\ job' = [job EXCEPT ![p] = j]
    /\ UNCHANGED <<now, pending, sealer, verifier, crashes>>

\* The rewrite of the next query of a job.
Rewrite(j, query) ==
    [JobIdle EXCEPT !.pc = "windows", !.query = query, !.at = j.at,
                    !.bound = j.bound]

Cutoff(at, age) == IF age = 0 \/ at < age THEN 0 ELSE at - age

Retention(cls) == IF cls = "access" THEN AccessRetention ELSE SecurityRetention

\* CandidateQuery.  For a purge, `at' is the operator's own cutoff.
Due(j, r) ==
    CASE j.query = "expire" -> r.t < Cutoff(j.at, Retention(r.cls))
      [] j.query = "purge"  -> r.cls = "access" /\ r.t < j.at
      [] j.query = "pseudonymise" ->
            /\ r.cls = "access" /\ r.net = "full"
            /\ r.t < Cutoff(j.at, PseudonymiseAfter)
      [] j.query = "subject" -> r.user = "name"

\* The lifecycle never touches an open window; the other queries have no bound.
Bounded(j) == j.query \in {"expire", "pseudonymise"}

Candidates(j) == {r \in rows : Due(j, r) /\ (Bounded(j) => r.t < j.bound)}

\* Up to Batch candidates, oldest first.
Batches(C) ==
    {B \in SUBSET C :
        /\ Cardinality(B) <= Batch
        /\ B # C => Cardinality(B) = Batch
        /\ \A r \in B, s \in C \ B : r.t <= s.t}

Deletes(j) == j.query \in {"expire", "purge"}

Kind(j) == IF Deletes(j) THEN "expire" ELSE "amend"

\* The new columns of a row: pseudonymise_op, and the erasure's change.
Change(j, r) ==
    CASE j.query = "pseudonymise" -> [r EXCEPT !.net = "network"]
      [] j.query = "subject" -> [r EXCEPT !.user = "pseudonym"]
      [] OTHER -> r

LooseOps(j) == {o \in j.ops : o.t \notin j.sealed}

FirstWindow(j) ==
    CHOOSE w \in {o.t : o \in j.ops} : \A o \in j.ops : w <= o.t

WindowOps(j) == {o \in j.ops : o.t = FirstWindow(j)}

\* The lifecycle tick: nothing to do before the chain has a window.
LifecycleStart(p) ==
    /\ job[p].pc = "idle"
    /\ Sealed # {}
    /\ \E query \in {"expire", "pseudonymise"} :
        /\ query = "expire" <=> AccessRetention + SecurityRetention > 0
        /\ query = "pseudonymise" => PseudonymiseAfter > 0
        /\ SetJob(p, Rewrite([at |-> now, bound |-> SealedUntil(Sealed)], query))
    /\ UNCHANGED <<rows, chain, subject>>

PurgeStart(p, before) ==
    /\ job[p].pc = "idle"
    /\ before <= now
    /\ SetJob(p, Rewrite([at |-> before, bound |-> 0], "purge"))
    /\ UNCHANGED <<rows, chain, subject>>

\* Refused while an open decision names the subject, unless forced.
EraseStart(p, force) ==
    /\ job[p].pc = "idle"
    /\ force \/ subject.block # "name"
    /\ SetJob(p, Rewrite([at |-> 0, bound |-> 0], "subject"))
    /\ UNCHANGED <<rows, chain, subject>>

ReadWindows(p) ==
    /\ job[p].pc = "windows"
    /\ SetJob(p, [job[p] EXCEPT !.pc = "candidates", !.head = Len(chain),
                                !.sealed = Sealed])
    /\ UNCHANGED <<rows, chain, subject>>

ReadCandidates(p) ==
    LET j == job[p]
    IN  /\ j.pc = "candidates"
        /\ Candidates(j) # {}
        /\ \E B \in Batches(Candidates(j)) :
            LET ops == {Change(j, r) : r \in B}
            IN  SetJob(p, [j EXCEPT !.ops = ops,
                    !.pc = IF LooseOps([j EXCEPT !.ops = ops]) # {}
                           THEN "loose" ELSE "rows"])
        /\ UNCHANGED <<rows, chain, subject>>

\* The query has no candidate left: the lifecycle goes on to pseudonymise, the
\* erasure to the tokens and blocks, a purge is over.
RewriteDone(p) ==
    LET j == job[p]
    IN  /\ j.pc = "candidates"
        /\ Candidates(j) = {}
        /\ SetJob(p, CASE j.query = "subject" -> [JobIdle EXCEPT !.pc = "elsewhere"]
                       [] j.query = "expire" /\ PseudonymiseAfter > 0 ->
                                Rewrite(j, "pseudonymise")
                       [] OTHER -> JobIdle)
        /\ UNCHANGED <<rows, chain, subject>>

\* A conflict is retried from a fresh read, up to ConflictRetries in a row;
\* then the tick or the request fails.
Retry(p) ==
    LET j == job[p]
    IN  SetJob(p, IF j.tries + 1 >= ConflictRetries THEN JobIdle
                  ELSE [Rewrite(j, j.query) EXCEPT !.tries = j.tries + 1])

\* A batch that went through: on to the next window, or to the next batch.
GoOn(p, j) ==
    SetJob(p, IF j.ops = {} THEN Rewrite(j, j.query)
              ELSE [j EXCEPT !.pc = "rows", !.snap = {}])

\* Mutant: a batch without a record does not name the head it was built on.
LooseApplyUnguarded(p) ==
    LET j == job[p]
    IN  /\ j.pc = "loose"
        /\ ApplyBatch(Len(chain), ApplyOps(rows, LooseOps(j), Deletes(j)), {})
        /\ GoOn(p, [j EXCEPT !.ops = j.ops \ LooseOps(j)])
        /\ UNCHANGED subject

\* The rows outside every sealed window change without a record.
LooseApply(p) ==
    LET j == job[p]
        R == ApplyOps(rows, LooseOps(j), Deletes(j))
    IN  /\ j.pc = "loose"
        /\ \/ /\ ApplyBatch(j.head, R, {})
              /\ GoOn(p, [j EXCEPT !.ops = j.ops \ LooseOps(j)])
           \/ Conflict(j.head, R, {}) /\ Retry(p)
        /\ UNCHANGED subject

\* Mutant: the head is read again with the rows, after the candidates.
ReadRowsFreshHead(p) ==
    LET j == job[p]
    IN  /\ j.pc = "rows"
        /\ SetJob(p, [j EXCEPT !.pc = "record", !.head = Len(chain),
                !.snap = ApplyOps(RowsIn(rows, FirstWindow(j)), WindowOps(j),
                                  Deletes(j))])
        /\ UNCHANGED <<rows, chain, subject>>

ReadRows(p) ==
    LET j == job[p]
    IN  /\ j.pc = "rows"
        /\ SetJob(p, [j EXCEPT !.pc = "record",
                !.snap = ApplyOps(RowsIn(rows, FirstWindow(j)), WindowOps(j),
                                  Deletes(j))])
        /\ UNCHANGED <<rows, chain, subject>>

\* The changes to one sealed window, committed with their record.
RecordApply(p) ==
    LET j == job[p]
        R == ApplyOps(rows, WindowOps(j), Deletes(j))
        record == {NextRecord(j.head, Kind(j), FirstWindow(j), j.snap)}
    IN  /\ j.pc = "record"
        /\ \/ /\ ApplyBatch(j.head, R, record)
              /\ GoOn(p, [j EXCEPT !.ops = j.ops \ WindowOps(j),
                                   !.head = j.head + 1])
           \/ Conflict(j.head, R, record) /\ Retry(p)
        /\ UNCHANGED subject

\* erase_elsewhere: tokens renamed and revoked, blocks renamed.
EraseElsewhere(p) ==
    /\ job[p].pc = "elsewhere"
    /\ SetJob(p, JobIdle)
    /\ subject' = [block |-> IF subject.block = "name" THEN "pseudonym"
                             ELSE subject.block,
                   token |-> "revoked"]
    /\ UNCHANGED <<rows, chain>>

\* An administrator blocks the subject's account, once in a behaviour.
BlockAccount ==
    /\ MaxBlocks > 0
    /\ subject.block = "none"
    /\ subject' = [subject EXCEPT !.block = "name"]
    /\ UNCHANGED <<now, rows, pending, chain, sealer, job, verifier, crashes>>

-----------------------------------------------------------------------------
\* The verifier

VerifierIdle == [pc |-> "idle", head |-> 0, todo |-> {}, failed |-> FALSE]

SetVerifier(p, v) ==
    /\ verifier' = [verifier EXCEPT ![p] = v]
    /\ UNCHANGED <<now, rows, pending, chain, sealer, job, subject, crashes>>

\* Every record names its position and the record before it.
Linked(c) == \A i \in DOMAIN c : c[i].seq = i /\ c[i].prev = i - 1

\* Mutant: the seal of a window, whatever was recorded about it since.
LatestIsSeal(c, w) ==
    c[CHOOSE i \in DOMAIN c : c[i].window = w /\ c[i].kind = "seal"]

\* The latest record about a window.
Latest(c, w) ==
    c[CHOOSE i \in DOMAIN c :
        /\ c[i].window = w
        /\ \A k \in DOMAIN c : c[k].window = w => k <= i]

\* The records are read once, then the windows one by one.
VerifyStart(p) ==
    /\ verifier[p].pc = "idle"
    /\ SetVerifier(p, [pc |-> "window", head |-> Len(chain),
                       todo |-> {chain[i].window : i \in DOMAIN chain},
                       failed |-> ~Linked(chain)])

VerifyWindow(p) ==
    LET v == verifier[p]
    IN  /\ v.pc = "window"
        /\ \E w \in v.todo :
            /\ \A u \in v.todo : w <= u
            /\ SetVerifier(p, [v EXCEPT !.todo = v.todo \ {w},
                !.failed = \/ v.failed
                           \/ Latest(SubSeq(chain, 1, v.head), w).rows
                                # RowsIn(rows, w)])

VerifyEnd(p) ==
    /\ verifier[p].pc = "window"
    /\ verifier[p].todo = {}
    /\ SetVerifier(p, VerifierIdle)

-----------------------------------------------------------------------------
\* A worker process dies: its task starts over.  A request is not resumed.
Crash ==
    /\ crashes < MaxCrashes
    /\ crashes' = crashes + 1
    /\ \/ /\ \E p \in Sealers :
                /\ sealer[p].pc # "idle"
                /\ sealer' = [sealer EXCEPT ![p] = SealerIdle]
          /\ UNCHANGED job
       \/ /\ \E p \in Jobs :
                /\ job[p].pc # "idle"
                /\ job' = [job EXCEPT ![p] = JobIdle]
          /\ UNCHANGED sealer
    /\ UNCHANGED <<now, rows, pending, chain, verifier, subject>>

Init ==
    /\ now = InitNow
    /\ rows = InitRows
    /\ pending = {}
    /\ chain = <<>>
    /\ sealer = [p \in Sealers |-> SealerIdle]
    /\ job = [p \in Jobs |-> JobIdle]
    /\ verifier = [p \in Verifiers |-> VerifierIdle]
    /\ subject = [block |-> "none", token |-> "live"]
    /\ crashes = 0

SealStep(p) == SealStart(p) \/ SealRead(p) \/ SealEnd(p) \/ SealApply(p)

RewriteStep(p) ==
    \/ ReadWindows(p) \/ ReadCandidates(p) \/ RewriteDone(p)
    \/ LooseApply(p) \/ ReadRows(p) \/ RecordApply(p) \/ EraseElsewhere(p)

VerifyStep(p) == VerifyStart(p) \/ VerifyWindow(p) \/ VerifyEnd(p)

Next ==
    \/ \E id \in RowIds, kind \in NewRows : NewEvent(id, kind)
    \/ \E e \in pending : InsertEvent(e)
    \/ Tick
    \/ \E p \in Sealers : SealStep(p)
    \/ \E p \in Lifecyclers : LifecycleStart(p)
    \/ \E p \in Operators :
        \/ \E before \in PurgeCutoffs : PurgeStart(p, before)
        \/ \E force \in BOOLEAN : EraseStart(p, force)
    \/ \E p \in Jobs : RewriteStep(p)
    \/ BlockAccount
    \/ \E p \in Verifiers : VerifyStep(p)
    \/ Crash

Spec == Init /\ [][Next]_vars

\* The tasks tick for ever on some live process, and a tick that has begun
\* goes on unless its process dies.
FairSpec == Spec /\ \A p \in Sealers : WF_vars(SealStep(p))

-----------------------------------------------------------------------------
\* Properties

SealerState ==
    [pc : {"idle", "read", "apply"}, head : Nat, next : Nat, until : Nat,
     count : Nat, snap : SUBSET Row]

JobState ==
    [pc : {"idle", "windows", "candidates", "loose", "rows", "record",
           "elsewhere"},
     query : {"none", "expire", "purge", "pseudonymise", "subject"},
     at : Nat, bound : Nat, head : Nat, sealed : SUBSET Nat,
     ops : SUBSET Row, snap : SUBSET Row, tries : Nat]

VerifierState ==
    [pc : {"idle", "window"}, head : Nat, todo : SUBSET Nat, failed : BOOLEAN]

\* The store and the local state of every task have their types.
TypeOK ==
    /\ now \in Nat
    /\ rows \subseteq Row
    /\ pending \subseteq Row
    /\ chain \in Seq(SealRecord)
    /\ sealer \in [Sealers -> SealerState]
    /\ job \in [Jobs -> JobState]
    /\ verifier \in [Verifiers -> VerifierState]
    /\ subject \in [block : {"none", "name", "pseudonym"},
                    token : {"live", "revoked"}]
    /\ crashes \in Nat

\* The trail implements the ledger: whatever the sealers, the lifecycle and the
\* operators do at the same time, windows are sealed in order and once, and a
\* sealed window changes only with its record and only by redaction.
Ledger == INSTANCE AuditLedger
            WITH held <- [w \in Sealed |-> RowsIn(rows, w)]

LedgerSpec == Ledger!Spec

\* At every moment, the rows of every sealed window are the ones its latest
\* record says: the header's claim that nothing but the lifecycle can leave a
\* window whose digest matches no signed record.
SealedWindowsMatch ==
    /\ Linked(chain)
    /\ \A w \in Sealed : RowsIn(rows, w) = Latest(chain, w).rows

\* A verification that reports a failure on an honest trail has been overtaken
\* by a record: run again on a quiet chain, it reports none.
AlarmMeansOvertaken ==
    \A p \in Verifiers : verifier[p].failed => verifier[p].head < Len(chain)

\* Rows from before the first sealed window: the lifecycle and the erasure
\* rewrite them without a record.
PreChain(r) == chain # <<>> /\ r.t < chain[1].window

\* No row at or after the start of the chain gets a name or an address back,
\* whichever writers race on it: the one that read the row first is refused.
NothingComesBack ==
    [][\A r \in rows, s \in rows' :
            SameRow(r, s) /\ ~PreChain(r) => RedactedRow(r, s)]_vars

\* Every window is sealed once it is due, or lies before the chain: conflicts
\* with erasures and with the other leader's sealer only put it off.
EveryWindowIsSealed ==
    \A w \in 0..MaxNow :
        (w + 2 <= now) ~>
            (chain # <<>> /\ (w \in Sealed \/ w < chain[1].window))
==============================================================================
