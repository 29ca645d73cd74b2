------------------------ MODULE VerdictPipelineProofs ------------------------
(***************************************************************************)
(* Proofs about VerdictPipeline, for every number of versions, requests,   *)
(* workers, administrators and flag sources, every order of scanners and   *)
(* every bound.                                                            *)
(***************************************************************************)
EXTENDS VerdictPipeline, VerdictProofs, FiniteSetTheorems, WellFoundedInduction

-----------------------------------------------------------------------------
(* The operators the actions are built from. *)

LEMMA RequiredNames == Required \subseteq Names /\ Scanners \subseteq Names
BY RequiredAssumption, ScanOrderAssumption DEF Scanners

LEMMA PolicyFacts ==
    /\ EscalationOK(Policy)
    /\ Policy.required_scanners \subseteq Names
    /\ Policy.min_age \in Nat
BY PolicyAssumption, RequiredNames DEF EscalationOK, Required

LEMMA StoredType ==
    ASSUME NEW row \in Row \cup {None}
    PROVE  /\ Stored(row).findings \in SUBSET Finding
           /\ Stored(row).done \in SUBSET Names
           /\ Stored(row).scanned \in BOOLEAN
BY DEF Stored, Row

LEMMA FreshType ==
    ASSUME NEW row \in Row \cup {None}, NEW now
    PROVE  Fresh(row, now) \in Row
BY StoredType, PolicyFacts, EvaluateType DEF Fresh

LEMMA CarriedType ==
    ASSUME NEW row \in Row \cup {None}, NEW done
    PROVE  Carried(row, done) \in SUBSET Finding
BY StoredType DEF Carried

LEMMA RecordedType ==
    ASSUME NEW row \in Row \cup {None}, NEW found \in SUBSET Finding,
           NEW done \in SUBSET Names, NEW now
    PROVE  Recorded(row, found, done, now) \in Row
BY StoredType, CarriedType, PolicyFacts, EvaluateType DEF Recorded

LEMMA BlockFindingType == BlockFinding \in Finding
BY InternalNamesAssumption
   DEF BlockFinding, NewFinding, Finding, Kinds, Codes, AlwaysDenied, Critical

LEMMA FlagFindingType ==
    ASSUME NEW fl
    PROVE  FlagFinding(fl) \in Finding
BY InternalNamesAssumption
   DEF FlagFinding, NewFinding, Finding, Kinds, Codes, AlwaysDenied, Critical, Low

LEMMA ErrorFindingType ==
    ASSUME NEW s \in Names, NEW code \in {"SCANNER_ERROR", "SCANNER_UNSUPPORTED"}
    PROVE  /\ ErrorFinding(s, code) \in Finding
           /\ ErrorFinding(s, code).scanner = s
           /\ ErrorFinding(s, code).kind = "scanner_error"
           /\ ErrorFinding(s, code).code = code
BY DEF ErrorFinding, NewFinding, Finding, Kinds, Codes, TimeBound, High

LEMMA VulnFindingType ==
    ASSUME NEW s \in Names
    PROVE  VulnFinding(s) \in Finding
BY DEF VulnFinding, NewFinding, Finding, Kinds, Codes, Critical

LEMMA SaysType ==
    ASSUME NEW s \in Names, NEW p
    PROVE  Says(s, p) \in SUBSET Finding
<1>1. Says(s, p) \in {{}, {BlockFinding}, {FlagFinding(flag)}, {VulnFinding(s)}}
  BY Zenon DEF Says, BlockListScanner, FlagsScanner
<1> QED
  BY <1>1, BlockFindingType, FlagFindingType, VulnFindingType

LEMMA KnownCodes == {"BLOCK_LIST", "SOC_VERDICT"} \subseteq Codes
BY DEF Codes, AlwaysDenied

LEMMA DeniedRow ==
    ASSUME NEW row \in Row, NEW findings \in SUBSET Finding, NEW code \in Codes
    PROVE  /\ DeniedWith(row, findings, code) \in Row
           /\ DeniedWith(row, findings, code).findings = findings
           /\ DeniedWith(row, findings, code).state = "denied"
           /\ DeniedWith(row, findings, code).done = row.done
<1>1. row.codes \cup {code} \in SUBSET Codes
  BY DEF Row
<1>2. NoTime \in Int /\ "denied" \in States
  BY DEF NoTime, States
<1> QED
  BY <1>1, <1>2 DEF Row, DeniedWith

\* What rewrite_block_finding leaves of a row.
LEMMA RewrittenRow ==
    ASSUME NEW row \in Row, NEW block \in BOOLEAN
    PROVE  LET new == Rewritten(row, block)
               kept == {f \in row.findings :
                            f.scanner # BlockListScanner /\ f.kind # "block_list"}
           IN  /\ new \in Row
               /\ new.done = row.done
               /\ block => new.state = "denied" /\ new.findings = kept \cup {BlockFinding}
               /\ ~block => new.state = row.state /\ new.findings = kept
<1> DEFINE kept == {f \in row.findings : f.scanner # BlockListScanner /\ f.kind # "block_list"}
           with == kept \cup {BlockFinding}
           codes == row.codes \ {"BLOCK_LIST"}
<1>1. kept \in SUBSET Finding /\ with \in SUBSET Finding /\ codes \in SUBSET Codes
  BY BlockFindingType DEF Row
<1>2. /\ block => Rewritten(row, block) = DeniedWith(row, with, "BLOCK_LIST")
      /\ ~block => Rewritten(row, block) = [row EXCEPT !.findings = kept, !.codes = codes]
  BY DEF Rewritten
<1>3. DEFINE new == Rewritten(row, block)
<1>4. /\ new \in Row
      /\ new.done = row.done
      /\ block => new.state = "denied" /\ new.findings = with
      /\ ~block => new.state = row.state /\ new.findings = kept
  <2> HIDE DEF kept, with, codes
  <2>1. CASE block
    <3>1. new = DeniedWith(row, with, "BLOCK_LIST")
      BY <1>2, <2>1
    <3>2. "BLOCK_LIST" \in Codes
      BY KnownCodes
    <3> HIDE DEF new
    <3> QED
      BY <1>1, <2>1, <3>1, <3>2, DeniedRow
  <2>2. CASE ~block
    BY <1>1, <1>2, <2>2 DEF Row
  <2> QED  BY <2>1, <2>2
<1> QED
  BY <1>4

\* What deny_one leaves of a row.
LEMMA FlaggedRow ==
    ASSUME NEW row \in Row, NEW fl
    PROVE  LET new == Flagged(row, fl)
               kept == {f \in row.findings :
                            f.scanner # FlagsScanner \/ f.ref # FlagFinding(fl).ref}
           IN  /\ new \in Row
               /\ new.done = row.done
               /\ new.state = "denied"
               /\ new.findings = kept \cup {FlagFinding(fl)}
<1> DEFINE kept == {f \in row.findings : f.scanner # FlagsScanner \/ f.ref # FlagFinding(fl).ref}
           with == kept \cup {FlagFinding(fl)}
<1>1. with \in SUBSET Finding
  BY FlagFindingType DEF Row
<1>2. Flagged(row, fl) = DeniedWith(row, with, "SOC_VERDICT")
  BY DEF Flagged
<1>3. /\ Flagged(row, fl) \in Row
      /\ Flagged(row, fl).findings = with
      /\ Flagged(row, fl).state = "denied"
      /\ Flagged(row, fl).done = row.done
  <2> HIDE DEF with
  <2> QED  BY <1>1, <1>2, KnownCodes, DeniedRow
<1> QED
  BY <1>3

LEMMA JoinedType ==
    ASSUME NEW row \in Row, NEW p, verdict[p] \in Row
    PROVE  Joined(row, p) \in Row
BY DEF Joined, Row

LEMMA ListedRowType ==
    ASSUME NEW p, verdict[p] \in Row
    PROVE  ListedRow(p) \in Row
BY DEF ListedRow, Row

-----------------------------------------------------------------------------
(* The queue's operators. *)

Table == [JobIds -> Job \cup {NoJob}]

LEMMA OpenedType ==
    ASSUME NEW q \in Table, NEW held, NEW p \in Pkgs, NEW t \in Triggers, NEW d \in BOOLEAN
    PROVE  Opened(q, held, p, t, d) \in Table
<1> DEFINE new == [pkg |-> p, trigger |-> t, dated |-> d, leased |-> FALSE, attempts |-> 0]
<1>1. new \in Job
  BY AttemptsAssumption DEF Job
<1> HIDE DEF new
<1>2. \A j : [q EXCEPT ![j] = new] \in Table
  BY <1>1 DEF Table
<1> QED
  BY <1>2 DEF Opened, new

LEMMA OpenIsJob ==
    ASSUME NEW q \in Table, NEW j \in OpenIds(q)
    PROVE  j \in JobIds /\ q[j] \in Job /\ CopyOf(q, j) \in Lease
BY DEF OpenIds, Table, CopyOf, Lease, Job

LEMMA PicksAreLeasable ==
    ASSUME NEW q, NEW S \in Picks(q)
    PROVE  S \subseteq Leasable(q)
BY DEF Picks, FirstPicks, LowestTier

LEMMA SweepsAreOpen ==
    ASSUME NEW q, NEW S \in Sweeps(q)
    PROVE  S \subseteq OpenIds(q)
BY DEF Sweeps, Exhausted

LEMMA TakeLeaseType ==
    ASSUME NEW q \in Table, NEW S \in SUBSET Leasable(q)
    PROVE  TakeLease(q, S) \in Table
<1>1. ASSUME NEW j \in S
      PROVE  [q[j] EXCEPT !.leased = TRUE, !.attempts = @ + 1] \in Job
  <2>1. q[j] \in Job /\ q[j].attempts < MaxAttempts
    BY OpenIsJob DEF Leasable
  <2>2. q[j].attempts + 1 \in 0 .. MaxAttempts
    BY <2>1, AttemptsAssumption DEF Job
  <2> QED
    BY <2>1, <2>2 DEF Job
<1> QED
  BY <1>1 DEF TakeLease, Table

LEMMA RowUpdatesType ==
    ASSUME NEW q \in Table, NEW j \in JobIds
    PROVE  /\ Heartbeat(q, j) \in Table
           /\ Failed(q, j) \in Table
           /\ Completed(q, j) \in Table
<1>1. CASE q[j] = NoJob
  BY <1>1 DEF Heartbeat, Failed, Completed, Table
<1>2. CASE q[j] # NoJob
  <2>1. \A b \in BOOLEAN : [q[j] EXCEPT !.leased = b] \in Job
    BY <1>2 DEF Table, Job
  <2> QED
    BY <1>2, <2>1 DEF Heartbeat, Failed, Completed, Table
<1> QED
  BY <1>1, <1>2

-----------------------------------------------------------------------------
(* Type correctness.  What a process may do with its record depends on where  *)
(* it is: ReaderOK and the like say which fields are set at which pc, and     *)
(* that a stored row is never removed between the two statements of a read.  *)

ReaderOK(rd, v) ==
    /\ rd \in Reader
    /\ rd.pc # "idle" => rd.pkg \in Pkgs /\ rd.row \in Row
    /\ rd.pc = "findings" => v[rd.pkg] # None

WorkerOK(wk, v) ==
    /\ wk \in Worker
    /\ wk.pc \notin {"idle", "next"} => wk.job \in Lease
    /\ wk.pc = "next" => wk.at = 1
    /\ wk.pc = "scan" => wk.at \in 1 .. Len(ScanOrder)
    /\ wk.pc \in {"findings", "write"} => wk.row \in Row
    /\ wk.pc = "findings" => v[wk.job.pkg] # None

AdminOK(ad, v) ==
    /\ ad \in Admin
    /\ ad.pc # "idle" => ad.pkg \in Pkgs
    /\ ad.pc \in {"findings", "write"} => ad.row \in Row
    /\ ad.pc = "findings" => v[ad.pkg] # None

FlaggerOK(fg, v) ==
    /\ fg \in Flagger
    /\ fg.pc # "idle" => fg.flag \in Flag
    /\ fg.pc \in {"findings", "write"} => \A p \in fg.todo : fg.rows[p] \in Row
    /\ fg.pc = "findings" => \A p \in fg.todo : v[p] # None

StoreInv == verdict \in [Pkgs -> Row \cup {None}]
QueueInv == jobs \in Table
ReadersInv == /\ readers \in [Readers -> Reader]
              /\ \A r \in Readers : ReaderOK(readers[r], verdict)
WorkersInv == /\ workers \in [Workers -> Worker]
              /\ \A w \in Workers : WorkerOK(workers[w], verdict)
AdminsInv == /\ admins \in [Admins -> Admin]
             /\ \A a \in Admins : AdminOK(admins[a], verdict)
FlaggersInv == /\ flaggers \in [Flaggers -> Flagger]
               /\ \A f \in Flaggers : FlaggerOK(flaggers[f], verdict)
WorldInv ==
    /\ blocked \subseteq Pkgs
    /\ flag \in Flag \cup {None}
    /\ vulnerable \subseteq Pkgs
    /\ age \in [Pkgs -> Int]
    /\ secured \in BOOLEAN
    /\ unpublished \subseteq Pkgs
    /\ crashes \in Nat
    /\ edits \in Nat
    /\ answered \subseteq Pkgs \X Names
    /\ served \subseteq Pkgs

TypeInv ==
    /\ StoreInv /\ QueueInv /\ WorldInv
    /\ ReadersInv /\ WorkersInv /\ AdminsInv /\ FlaggersInv

LEMMA TypeInvTypeOK == TypeInv => TypeOK
BY DEF TypeInv, TypeOK, StoreInv, QueueInv, WorldInv, Table,
       ReadersInv, WorkersInv, AdminsInv, FlaggersInv,
       ReaderOK, WorkerOK, AdminOK, FlaggerOK

\* No stored row goes away in a step.
Grows == \A p \in Pkgs : verdict[p] # None => verdict'[p] # None

LEMMA Write ==
    ASSUME StoreInv, NEW p, NEW row \in Row, verdict' = [verdict EXCEPT ![p] = row]
    PROVE  StoreInv' /\ Grows
BY NoneAssumption DEF StoreInv, Grows

LEMMA NoWrite ==
    ASSUME StoreInv, verdict' = verdict
    PROVE  StoreInv' /\ Grows
BY DEF StoreInv, Grows

LEMMA Keep ==
    ASSUME TypeInv, Grows
    PROVE  /\ readers' = readers => ReadersInv'
           /\ workers' = workers => WorkersInv'
           /\ admins' = admins => AdminsInv'
           /\ flaggers' = flaggers => FlaggersInv'
           /\ jobs' = jobs => QueueInv'
<1>1. readers' = readers => ReadersInv'
  BY DEF TypeInv, ReadersInv, ReaderOK, Grows
<1>2. workers' = workers => WorkersInv'
  BY DEF TypeInv, WorkersInv, WorkerOK, Grows, Worker, Lease
<1>3. admins' = admins => AdminsInv'
  BY DEF TypeInv, AdminsInv, AdminOK, Grows
<1>4. flaggers' = flaggers => FlaggersInv'
  BY DEF TypeInv, FlaggersInv, FlaggerOK, Grows, Flagger, Lease
<1> QED
  BY <1>1, <1>2, <1>3, <1>4 DEF TypeInv, QueueInv

LEMMA ReaderMoves ==
    ASSUME TypeInv, Grows, NEW r \in Readers, NEW rd, ReaderOK(rd, verdict'),
           readers' = [readers EXCEPT ![r] = rd]
    PROVE  ReadersInv'
<1>1. \A x \in Readers : readers'[x] = IF x = r THEN rd ELSE readers[x]
  BY DEF TypeInv, ReadersInv
<1>2. \A x \in Readers : ReaderOK(readers[x], verdict')
  BY DEF TypeInv, ReadersInv, ReaderOK, Grows
<1>3. readers' \in [Readers -> Reader]
  BY DEF TypeInv, ReadersInv, ReaderOK
<1> QED
  BY <1>1, <1>2, <1>3 DEF ReadersInv

LEMMA WorkerMoves ==
    ASSUME TypeInv, Grows, NEW w \in Workers, NEW wk, WorkerOK(wk, verdict'),
           workers' = [workers EXCEPT ![w] = wk]
    PROVE  WorkersInv'
<1>1. \A x \in Workers : workers'[x] = IF x = w THEN wk ELSE workers[x]
  BY DEF TypeInv, WorkersInv
<1>2. \A x \in Workers : WorkerOK(workers[x], verdict')
  BY DEF TypeInv, WorkersInv, WorkerOK, Grows, Worker, Lease
<1>3. workers' \in [Workers -> Worker]
  BY DEF TypeInv, WorkersInv, WorkerOK
<1> QED
  BY <1>1, <1>2, <1>3 DEF WorkersInv

LEMMA AdminMoves ==
    ASSUME TypeInv, Grows, NEW a \in Admins, NEW ad, AdminOK(ad, verdict'),
           admins' = [admins EXCEPT ![a] = ad]
    PROVE  AdminsInv'
<1>1. \A x \in Admins : admins'[x] = IF x = a THEN ad ELSE admins[x]
  BY DEF TypeInv, AdminsInv
<1>2. \A x \in Admins : AdminOK(admins[x], verdict')
  BY DEF TypeInv, AdminsInv, AdminOK, Grows
<1>3. admins' \in [Admins -> Admin]
  BY DEF TypeInv, AdminsInv, AdminOK
<1> QED
  BY <1>1, <1>2, <1>3 DEF AdminsInv

LEMMA FlaggerMoves ==
    ASSUME TypeInv, Grows, NEW f \in Flaggers, NEW fg, FlaggerOK(fg, verdict'),
           flaggers' = [flaggers EXCEPT ![f] = fg]
    PROVE  FlaggersInv'
<1>1. \A x \in Flaggers : flaggers'[x] = IF x = f THEN fg ELSE flaggers[x]
  BY DEF TypeInv, FlaggersInv
<1>2. \A x \in Flaggers : FlaggerOK(flaggers[x], verdict')
  BY DEF TypeInv, FlaggersInv, FlaggerOK, Grows, Flagger, Lease
<1>3. flaggers' \in [Flaggers -> Flagger]
  BY DEF TypeInv, FlaggersInv, FlaggerOK
<1> QED
  BY <1>1, <1>2, <1>3 DEF FlaggersInv

LEMMA IdleTypes ==
    ASSUME NEW v
    PROVE  /\ ReaderOK(IdleReader, v)
           /\ WorkerOK(IdleWorker, v)
           /\ AdminOK(IdleAdmin, v)
           /\ FlaggerOK(IdleFlagger, v)
BY DEF IdleReader, IdleWorker, IdleAdmin, IdleFlagger, NoRows, Undated,
       Reader, Worker, Admin, Flagger, ReaderOK, WorkerOK, AdminOK, FlaggerOK

LEMMA InitType == Init => TypeInv
<1> SUFFICES ASSUME Init PROVE TypeInv
  OBVIOUS
<1>1. StoreInv /\ QueueInv /\ WorldInv
  BY AgesAssumption, LocalPkgsAssumption DEF Init, StoreInv, QueueInv, WorldInv, Table
<1>2. ReadersInv /\ WorkersInv /\ AdminsInv /\ FlaggersInv
  BY IdleTypes DEF Init, ReadersInv, WorkersInv, AdminsInv, FlaggersInv,
                   ReaderOK, WorkerOK, AdminOK, FlaggerOK
<1> QED
  BY <1>1, <1>2 DEF TypeInv

-----------------------------------------------------------------------------
(* ... of the gate's steps. *)

LEMMA JudgeType ==
    ASSUME TypeInv, verdict' = verdict, NEW r \in Readers, NEW p \in Pkgs,
           NEW row \in Row \cup {None}, NEW now, Judge(r, p, row, now)
    PROVE  ReadersInv' /\ served' \subseteq Pkgs
<1> DEFINE fresh == Fresh(row, now)
           to(pc) == [pc |-> pc, pkg |-> p, row |-> fresh, now |-> Undated]
<1>1. fresh \in Row
  BY FreshType
<1>2. Grows
  BY NoWrite DEF TypeInv
<1>3. ReaderOK(to("enqueue"), verdict') /\ ReaderOK(to("writeback"), verdict')
  <2> HIDE DEF fresh
  <2> QED  BY <1>1 DEF ReaderOK, Reader, Undated
<1>4. served' = served \/ served' = served \cup {p}
  BY DEF Judge, Decided
<1>5. \/ readers' = [readers EXCEPT ![r] = to("enqueue")]
      \/ readers' = [readers EXCEPT ![r] = to("writeback")]
      \/ readers' = [readers EXCEPT ![r] = IdleReader]
  BY DEF Judge
<1> HIDE DEF to
<1>6. ReadersInv'
  BY <1>2, <1>3, <1>5, IdleTypes, ReaderMoves
<1> QED
  BY <1>4, <1>6 DEF TypeInv, WorldInv

LEMMA GateReadType ==
    ASSUME TypeInv, NEW r \in Readers, NEW p \in Pkgs, GateRead(r, p)
    PROVE  TypeInv'
<1>1. StoreInv' /\ Grows
  BY NoWrite DEF GateRead, TypeInv
<1>2. verdict[p] \in Row \cup {None}
  BY DEF TypeInv, StoreInv
<1>3. ReadersInv' /\ served' \subseteq Pkgs
  <2>1. CASE SplitRead(p)
    <3> DEFINE rd == [pc |-> "findings", pkg |-> p, row |-> verdict[p], now |-> age[p]]
    <3>1. verdict[p] # None /\ verdict'[p] # None /\ age[p] \in Int
      BY <1>1, <2>1 DEF SplitRead, Grows, TypeInv, WorldInv
    <3>2. ReaderOK(rd, verdict')
      BY <1>2, <3>1 DEF ReaderOK, Reader
    <3>3. readers' = [readers EXCEPT ![r] = rd] /\ served' = served
      BY <2>1 DEF GateRead
    <3> HIDE DEF rd
    <3> QED
      BY <1>1, <3>2, <3>3, ReaderMoves DEF TypeInv, WorldInv
  <2>2. CASE ~SplitRead(p)
    BY <1>2, <2>2, JudgeType DEF GateRead
  <2> QED
    BY <2>1, <2>2
<1>4. WorldInv'
  BY <1>3 DEF GateRead, worldVars, budgetVars, TypeInv, WorldInv
<1> QED
  BY <1>1, <1>3, <1>4, Keep DEF GateRead, TypeInv

LEMMA GateReadFindingsType ==
    ASSUME TypeInv, NEW r \in Readers, GateReadFindings(r)
    PROVE  TypeInv'
<1>1. StoreInv' /\ Grows
  BY NoWrite DEF GateReadFindings, TypeInv
<1>2. readers[r].pkg \in Pkgs /\ Joined(readers[r].row, readers[r].pkg) \in Row
  BY JoinedType DEF GateReadFindings, TypeInv, StoreInv, ReadersInv, ReaderOK
<1>3. ReadersInv' /\ served' \subseteq Pkgs
  BY <1>2, JudgeType DEF GateReadFindings
<1>4. WorldInv'
  BY <1>3 DEF GateReadFindings, worldVars, budgetVars, TypeInv, WorldInv
<1> QED
  BY <1>1, <1>3, <1>4, Keep DEF GateReadFindings, TypeInv

LEMMA GateEnqueueType ==
    ASSUME TypeInv, NEW r \in Readers, GateEnqueue(r)
    PROVE  TypeInv'
<1> DEFINE rd == [readers[r] EXCEPT !.pc = "hold"]
<1>1. StoreInv' /\ Grows
  BY NoWrite DEF GateEnqueue, TypeInv
<1>2. ReaderOK(rd, verdict')
  BY DEF GateEnqueue, TypeInv, ReadersInv, ReaderOK, Reader
<1>3. readers' = [readers EXCEPT ![r] = rd]
  BY DEF GateEnqueue
<1>4. QueueInv'
  BY OpenedType DEF GateEnqueue, Enqueue, TypeInv, QueueInv, ReadersInv, ReaderOK, Triggers
<1>5. WorldInv'
  BY DEF GateEnqueue, worldVars, budgetVars, histVars, TypeInv, WorldInv
<1> HIDE DEF rd
<1> QED
  BY <1>1, <1>2, <1>3, <1>4, <1>5, ReaderMoves, Keep DEF GateEnqueue, TypeInv

\* GateHold and GateWriteBack: the row is written or left, the request ends.
LEMMA GateEndType ==
    ASSUME TypeInv, NEW r \in Readers, readers[r].pc \in {"hold", "writeback"},
           \/ verdict' = [verdict EXCEPT ![readers[r].pkg] = readers[r].row]
           \/ verdict' = verdict,
           readers' = [readers EXCEPT ![r] = IdleReader],
           Decided(readers[r].pkg, readers[r].row),
           UNCHANGED <<jobs, worldVars, workers, admins, flaggers, budgetVars, answered>>
    PROVE  TypeInv'
<1>1. readers[r].pkg \in Pkgs /\ readers[r].row \in Row
  BY DEF TypeInv, ReadersInv, ReaderOK
<1>2. StoreInv' /\ Grows
  BY <1>1, Write, NoWrite DEF TypeInv
<1>3. ReadersInv'
  BY <1>2, IdleTypes, ReaderMoves
<1>4. WorldInv'
  BY <1>1 DEF Decided, worldVars, budgetVars, TypeInv, WorldInv
<1> QED
  BY <1>2, <1>3, <1>4, Keep DEF TypeInv

LEMMA GateRefusedType ==
    ASSUME TypeInv, NEW r \in Readers, GateRefused(r)
    PROVE  TypeInv'
<1>1. StoreInv' /\ Grows
  BY NoWrite DEF GateRefused, TypeInv
<1>2. ReadersInv'
  BY <1>1, IdleTypes, ReaderMoves DEF GateRefused
<1>3. WorldInv'
  BY DEF GateRefused, worldVars, budgetVars, histVars, TypeInv, WorldInv
<1> QED
  BY <1>1, <1>2, <1>3, Keep DEF GateRefused, TypeInv

LEMMA PublishType ==
    ASSUME TypeInv, NEW r \in Readers, NEW p \in Pkgs, Publish(r, p)
    PROVE  TypeInv'
<1> DEFINE row == Evaluate(Policy, {}, {}, age[p], FALSE)
           rd == [pc |-> "enqueue", pkg |-> p, row |-> row, now |-> Undated]
<1>1. StoreInv' /\ Grows
  BY NoWrite DEF Publish, TypeInv
<1>2. row \in Row
  BY PolicyFacts, EvaluateType
<1>3. ReaderOK(rd, verdict')
  <2> HIDE DEF row
  <2> QED  BY <1>2 DEF ReaderOK, Reader, Undated
<1>4. readers' = [readers EXCEPT ![r] = rd] \/ readers' = readers
  BY DEF Publish
<1>5. WorldInv'
  BY DEF Publish, budgetVars, histVars, TypeInv, WorldInv
<1> HIDE DEF rd
<1>6. ReadersInv'
  BY <1>1, <1>3, <1>4, ReaderMoves, Keep
<1> QED
  BY <1>1, <1>5, <1>6, Keep DEF Publish, TypeInv

LEMMA GateType ==
    ASSUME TypeInv, NEW r \in Readers, Gate(r)
    PROVE  TypeInv'
<1>1. ASSUME NEW p \in Pkgs, GateRead(r, p) PROVE TypeInv'
  BY <1>1, GateReadType
<1>2. CASE GateReadFindings(r)
  BY <1>2, GateReadFindingsType
<1>3. CASE GateEnqueue(r)
  BY <1>3, GateEnqueueType
<1>4. CASE GateHold(r)
  BY <1>4, GateEndType DEF GateHold
<1>5. CASE GateWriteBack(r)
  BY <1>5, GateEndType DEF GateWriteBack
<1>6. CASE GateRefused(r)
  BY <1>6, GateRefusedType
<1>7. ASSUME NEW p \in Pkgs, Publish(r, p) PROVE TypeInv'
  BY <1>7, PublishType
<1> QED
  BY <1>1, <1>2, <1>3, <1>4, <1>5, <1>6, <1>7 DEF Gate

-----------------------------------------------------------------------------
(* ... of the workers' steps. *)

LEMMA UndatedInt == Undated \in Int
BY DEF Undated

\* One worker moves, and the store and the queue with it.
LEMMA WorkerOnly ==
    ASSUME TypeInv, NEW w \in Workers, NEW wk, WorkerOK(wk, verdict'),
           workers' = [workers EXCEPT ![w] = wk], StoreInv', Grows, QueueInv',
           UNCHANGED <<worldVars, readers, admins, flaggers, edits, served>>,
           crashes' \in Nat, answered' \subseteq Pkgs \X Names
    PROVE  TypeInv'
<1>1. WorkersInv'
  BY WorkerMoves
<1>2. WorldInv'
  BY DEF worldVars, TypeInv, WorldInv
<1> QED
  BY <1>1, <1>2, Keep DEF TypeInv

\* The same when the queue and the histories stay.
LEMMA WorkerAlone ==
    ASSUME TypeInv, NEW w \in Workers, NEW wk, WorkerOK(wk, verdict'),
           workers' = [workers EXCEPT ![w] = wk], StoreInv', Grows, QueueInv',
           UNCHANGED <<worldVars, readers, admins, flaggers, budgetVars, histVars>>
    PROVE  TypeInv'
<1>1. crashes' \in Nat /\ answered' \subseteq Pkgs \X Names
  BY DEF TypeInv, WorldInv, budgetVars, histVars
<1> QED
  BY <1>1, WorkerOnly DEF budgetVars, histVars

LEMMA BatchType ==
    ASSUME QueueInv, NEW S \in SUBSET OpenIds(jobs)
    PROVE  {CopyOf(jobs, j) : j \in S} \in SUBSET Lease
BY OpenIsJob DEF QueueInv

LEMMA NextJobType ==
    ASSUME NEW v, NEW batch \in SUBSET Lease, NEW sweeping \in BOOLEAN
    PROVE  WorkerOK(NextJob(batch, sweeping), v)
<1>1. IdleWorker \in Worker
  BY IdleTypes DEF WorkerOK
<1>2. IdleWorker.at = 1
  BY DEF IdleWorker
<1>3. /\ NextJob(batch, sweeping) \in Worker
      /\ NextJob(batch, sweeping).pc = "next"
      /\ NextJob(batch, sweeping).at = 1
  BY <1>1, <1>2 DEF NextJob, Worker
<1> QED
  BY <1>3 DEF WorkerOK

LEMMA LeaseBatchType ==
    ASSUME TypeInv, NEW w \in Workers, LeaseBatch(w)
    PROVE  TypeInv'
<1>1. PICK S \in Picks(jobs) :
          /\ jobs' = TakeLease(jobs, S)
          /\ workers' = [workers EXCEPT ![w] = NextJob({CopyOf(jobs, j) : j \in S}, FALSE)]
  BY DEF LeaseBatch
<1>2. S \in SUBSET Leasable(jobs) /\ S \in SUBSET OpenIds(jobs)
  BY PicksAreLeasable DEF Leasable
<1>3. QueueInv'
  BY <1>1, <1>2, TakeLeaseType DEF TypeInv, QueueInv
<1>4. WorkerOK(NextJob({CopyOf(jobs, j) : j \in S}, FALSE), verdict')
  BY <1>2, BatchType, NextJobType DEF TypeInv
<1>5. StoreInv' /\ Grows
  BY NoWrite DEF LeaseBatch, TypeInv
<1> QED
  BY <1>1, <1>3, <1>4, <1>5, WorkerAlone DEF LeaseBatch

LEMMA SweepType ==
    ASSUME TypeInv, NEW w \in Workers, Sweep(w)
    PROVE  TypeInv'
<1>1. PICK S \in Sweeps(jobs) :
          workers' = [workers EXCEPT ![w] =
             IF S = {} THEN IdleWorker ELSE NextJob({CopyOf(jobs, j) : j \in S}, TRUE)]
  BY DEF Sweep
<1>2. WorkerOK(NextJob({CopyOf(jobs, j) : j \in S}, TRUE), verdict')
  BY SweepsAreOpen, BatchType, NextJobType DEF TypeInv
<1>3. StoreInv' /\ Grows /\ QueueInv'
  BY NoWrite DEF Sweep, TypeInv, QueueInv
<1> QED
  BY <1>1, <1>2, <1>3, IdleTypes, WorkerAlone DEF Sweep

LEMMA StartJobType ==
    ASSUME TypeInv, NEW w \in Workers, StartJob(w)
    PROVE  TypeInv'
<1> DEFINE wk == workers[w]
           errors == {ErrorFinding(s, "SCANNER_ERROR") : s \in Required}
           found == IF secured /\ wk.sweeping THEN errors ELSE {}
           done == IF secured /\ wk.sweeping THEN Required ELSE {}
           pc == IF ~secured THEN "close" ELSE IF wk.sweeping THEN "record" ELSE "scan"
           new(l) == [wk EXCEPT !.batch = @ \ {l}, !.job = l, !.pc = pc,
                                !.found = found, !.done = done]
<1>1. PICK l \in wk.batch : workers' = [workers EXCEPT ![w] = new(l)]
  BY DEF StartJob
<1>2. WorkerOK(wk, verdict) /\ wk.at = 1 /\ l \in Lease /\ wk \in Worker
  BY DEF StartJob, TypeInv, WorkersInv, WorkerOK, Worker
<1>3. found \in SUBSET Finding /\ done \in SUBSET Names
  BY RequiredNames, ErrorFindingType
<1>4. pc \in {"close", "record", "scan"}
  OBVIOUS
<1>5. 1 \in 1 .. Len(ScanOrder)
  BY ScanOrderAssumption
<1>6. WorkerOK(new(l), verdict')
  <2> HIDE DEF found, done, pc
  <2> QED  BY <1>2, <1>3, <1>4, <1>5 DEF WorkerOK, Worker
<1>7. StoreInv' /\ Grows /\ QueueInv'
  BY NoWrite DEF StartJob, TypeInv, QueueInv
<1> HIDE DEF new
<1> QED
  BY <1>1, <1>6, <1>7, WorkerAlone DEF StartJob

\* The record run_scanner and enrich leave.
LEMMA ScannedType ==
    ASSUME TypeInv, NEW w \in Workers, workers[w].pc = "scan", verdict' = verdict,
           NEW found \in SUBSET Finding, NEW done \in SUBSET Names,
           Scanned(w, found, done)
    PROVE  \E wk : workers' = [workers EXCEPT ![w] = wk] /\ WorkerOK(wk, verdict')
<1> DEFINE wk == workers[w]
           new == [wk EXCEPT !.found = @ \cup found, !.done = @ \cup done, !.at = @ + 1,
                             !.pc = IF wk.at = Len(ScanOrder) THEN "record" ELSE "scan"]
<1>1. WorkerOK(wk, verdict) /\ wk \in Worker
  BY DEF TypeInv, WorkersInv
<1>2. wk.at \in 1 .. Len(ScanOrder) /\ wk.job \in Lease
  BY <1>1 DEF WorkerOK
<1>3. Len(ScanOrder) \in Nat
  BY ScanOrderAssumption
<1>4. WorkerOK(new, verdict')
  <2> HIDE DEF wk
  <2>1. /\ wk.found \cup found \in SUBSET Finding
        /\ wk.done \cup done \in SUBSET Names
        /\ wk.at + 1 \in Nat \ {0}
    BY <1>1, <1>2, <1>3 DEF Worker
  <2>2. new \in Worker /\ new.job = wk.job /\ new.at = wk.at + 1
    BY <1>1, <2>1 DEF Worker
  <2>3. new.pc = IF wk.at = Len(ScanOrder) THEN "record" ELSE "scan"
    BY <1>1 DEF Worker
  <2> HIDE DEF new
  <2> QED  BY <1>2, <1>3, <2>2, <2>3 DEF WorkerOK
<1>5. workers' = [workers EXCEPT ![w] = new]
  BY DEF Scanned
<1> QED
  BY <1>4, <1>5

LEMMA ScannerNames ==
    ASSUME TypeInv, NEW w \in Workers, workers[w].pc = "scan"
    PROVE  /\ ScanOrder[workers[w].at] \in Names
           /\ workers[w].job \in Lease
           /\ workers[w].job.pkg \in Pkgs
           /\ workers[w].job.id \in JobIds
BY ScanOrderAssumption DEF TypeInv, WorkersInv, WorkerOK, Lease

LEMMA ScannerAnswersType ==
    ASSUME TypeInv, NEW w \in Workers, ScannerAnswers(w)
    PROVE  TypeInv'
<1> DEFINE s == ScanOrder[workers[w].at]
           p == workers[w].job.pkg
<1>1. s \in Names /\ p \in Pkgs /\ workers[w].job.id \in JobIds
  BY ScannerNames DEF ScannerAnswers
<1>2. StoreInv' /\ Grows
  BY NoWrite DEF ScannerAnswers, TypeInv
<1>3. PICK wk : workers' = [workers EXCEPT ![w] = wk] /\ WorkerOK(wk, verdict')
  <2>1. Says(s, p) \in SUBSET Finding /\ {s} \in SUBSET Names
    BY <1>1, SaysType
  <2>2. workers[w].pc = "scan" /\ verdict' = verdict /\ Scanned(w, Says(s, p), {s})
    BY DEF ScannerAnswers
  <2> HIDE DEF s, p
  <2> QED  BY <2>1, <2>2, ScannedType
<1>4. QueueInv'
  BY <1>1, RowUpdatesType DEF ScannerAnswers, Renew, TypeInv, QueueInv
<1>5. answered' \subseteq Pkgs \X Names
  BY <1>1 DEF ScannerAnswers, TypeInv, WorldInv
<1>6. crashes' \in Nat
  BY DEF ScannerAnswers, budgetVars, TypeInv, WorldInv
<1> QED
  BY <1>2, <1>3, <1>4, <1>5, <1>6, WorkerOnly DEF ScannerAnswers, budgetVars

LEMMA ScannerFailsType ==
    ASSUME TypeInv, NEW w \in Workers, ScannerFails(w)
    PROVE  TypeInv'
<1> DEFINE s == ScanOrder[workers[w].at]
           said(code) == IF s \in Enrichers THEN {} ELSE {ErrorFinding(s, code)}
<1>1. s \in Names /\ workers[w].job.id \in JobIds
  BY ScannerNames DEF ScannerFails
<1>2. StoreInv' /\ Grows
  BY NoWrite DEF ScannerFails, TypeInv
<1>3. PICK wk : workers' = [workers EXCEPT ![w] = wk] /\ WorkerOK(wk, verdict')
  <2>1. PICK code \in ErrorCodes : Scanned(w, said(code), {})
    BY DEF ScannerFails
  <2>2. said(code) \in SUBSET Finding
    BY <1>1, ErrorFindingType, ErrorCodesAssumption
  <2>3. workers[w].pc = "scan" /\ verdict' = verdict
    BY DEF ScannerFails
  <2> HIDE DEF said
  <2> QED  BY <2>1, <2>2, <2>3, ScannedType
<1>4. QueueInv'
  BY <1>1, RowUpdatesType DEF ScannerFails, Renew, TypeInv, QueueInv
<1> QED
  BY <1>2, <1>3, <1>4, WorkerAlone DEF ScannerFails

LEMMA RecordReadType ==
    ASSUME TypeInv, NEW w \in Workers, RecordRead(w)
    PROVE  TypeInv'
<1> DEFINE wk == workers[w]
           p == wk.job.pkg
           half(now) == [wk EXCEPT !.pc = "findings", !.row = verdict[p], !.now = now]
           row(now) == Recorded(verdict[p], wk.found, wk.done, now)
           full(now) == [wk EXCEPT !.pc = "write", !.row = row(now)]
<1>1. WorkerOK(wk, verdict) /\ wk \in Worker /\ wk.job \in Lease /\ p \in Pkgs
  BY DEF RecordRead, TypeInv, WorkersInv, WorkerOK, Lease
<1>2. PICK now \in JudgedAges(wk) :
          workers' = [workers EXCEPT ![w] = IF SplitRead(p) THEN half(now) ELSE full(now)]
  BY DEF RecordRead
<1>3. now \in Int
  BY <1>1, <1>2 DEF JudgedAges, Undated, TypeInv, WorldInv
<1>4. verdict[p] \in Row \cup {None}
  BY <1>1 DEF TypeInv, StoreInv
<1>5. StoreInv' /\ Grows /\ QueueInv'
  BY NoWrite DEF RecordRead, TypeInv, QueueInv
<1>6. ASSUME SplitRead(p) PROVE WorkerOK(half(now), verdict')
  <2>1. verdict[p] \in Row /\ verdict'[p] # None
    BY <1>1, <1>4, <1>5, <1>6 DEF SplitRead, Grows
  <2>2. half(now) \in Worker /\ half(now).job = wk.job /\ half(now).row = verdict[p]
        /\ half(now).pc = "findings"
    BY <1>1, <1>3, <2>1 DEF Worker
  <2> HIDE DEF half
  <2> QED  BY <1>1, <2>1, <2>2 DEF WorkerOK
<1>7. WorkerOK(full(now), verdict')
  <2>1. row(now) \in Row
    BY <1>1, <1>4, RecordedType DEF Worker
  <2> HIDE DEF row
  <2>2. full(now) \in Worker /\ full(now).job = wk.job /\ full(now).row = row(now)
        /\ full(now).pc = "write"
    BY <1>1, <2>1 DEF Worker
  <2> HIDE DEF full
  <2> QED  BY <1>1, <2>1, <2>2 DEF WorkerOK
<1> HIDE DEF half, full
<1> DEFINE new == IF SplitRead(p) THEN half(now) ELSE full(now)
<1>8. WorkerOK(new, verdict') /\ workers' = [workers EXCEPT ![w] = new]
  BY <1>2, <1>6, <1>7
<1> HIDE DEF new
<1> QED
  BY <1>5, <1>8, WorkerAlone DEF RecordRead

LEMMA RecordReadFindingsType ==
    ASSUME TypeInv, NEW w \in Workers, RecordReadFindings(w)
    PROVE  TypeInv'
<1> DEFINE wk == workers[w]
           row == Recorded(Joined(wk.row, wk.job.pkg), wk.found, wk.done, wk.now)
           new == [wk EXCEPT !.pc = "write", !.now = Undated, !.row = row]
<1>1. /\ WorkerOK(wk, verdict) /\ wk \in Worker /\ wk.job \in Lease /\ wk.row \in Row
      /\ wk.job.pkg \in Pkgs /\ verdict[wk.job.pkg] # None
  BY DEF RecordReadFindings, TypeInv, WorkersInv, WorkerOK, Lease
<1>2. row \in Row
  BY <1>1, JoinedType, RecordedType DEF Worker, TypeInv, StoreInv
<1>3. WorkerOK(new, verdict')
  <2> HIDE DEF row
  <2>1. new \in Worker /\ new.job = wk.job /\ new.row = row /\ new.pc = "write"
    BY <1>1, <1>2, UndatedInt DEF Worker
  <2> HIDE DEF new
  <2> QED  BY <1>1, <1>2, <2>1 DEF WorkerOK
<1>4. StoreInv' /\ Grows /\ QueueInv'
  BY NoWrite DEF RecordReadFindings, TypeInv, QueueInv
<1>5. workers' = [workers EXCEPT ![w] = new]
  BY DEF RecordReadFindings
<1> HIDE DEF new
<1> QED
  BY <1>3, <1>4, <1>5, WorkerAlone DEF RecordReadFindings

LEMMA RecordWriteType ==
    ASSUME TypeInv, NEW w \in Workers, RecordWrite(w)
    PROVE  TypeInv'
<1> DEFINE wk == workers[w]
           new == [wk EXCEPT !.pc = "close"]
<1>1. WorkerOK(wk, verdict) /\ wk \in Worker /\ wk.job \in Lease /\ wk.row \in Row
  BY DEF RecordWrite, TypeInv, WorkersInv, WorkerOK
<1>2. WorkerOK(new, verdict')
  <2>1. new \in Worker /\ new.job = wk.job /\ new.pc = "close"
    BY <1>1 DEF Worker
  <2> HIDE DEF new
  <2> QED  BY <1>1, <2>1 DEF WorkerOK
<1>3. StoreInv' /\ Grows
  BY <1>1, Write DEF RecordWrite, TypeInv
<1>4. workers' = [workers EXCEPT ![w] = new] /\ QueueInv'
  BY DEF RecordWrite, TypeInv, QueueInv
<1> HIDE DEF new
<1> QED
  BY <1>2, <1>3, <1>4, WorkerAlone DEF RecordWrite

LEMMA RecordFailsType ==
    ASSUME TypeInv, NEW w \in Workers, RecordFails(w)
    PROVE  TypeInv'
<1> DEFINE wk == workers[w]
           pc == IF wk.sweeping THEN "close" ELSE "fail"
           new == [wk EXCEPT !.pc = pc, !.now = Undated]
<1>1. WorkerOK(wk, verdict) /\ wk \in Worker /\ wk.job \in Lease
  BY DEF RecordFails, TypeInv, WorkersInv, WorkerOK
<1>2. WorkerOK(new, verdict')
  <2>1. pc \in {"close", "fail"}
    OBVIOUS
  <2> HIDE DEF pc
  <2>2. new \in Worker /\ new.job = wk.job /\ new.pc = pc
    BY <1>1, <2>1, UndatedInt DEF Worker
  <2> HIDE DEF new
  <2> QED  BY <1>1, <2>1, <2>2 DEF WorkerOK
<1>3. StoreInv' /\ Grows /\ QueueInv'
  BY NoWrite DEF RecordFails, TypeInv, QueueInv
<1>4. workers' = [workers EXCEPT ![w] = new]
  BY DEF RecordFails
<1> HIDE DEF new
<1> QED
  BY <1>2, <1>3, <1>4, WorkerAlone DEF RecordFails

LEMMA CloseJobType ==
    ASSUME TypeInv, NEW w \in Workers, CloseJob(w)
    PROVE  TypeInv'
<1> DEFINE wk == workers[w]
           new == IF wk.sweeping /\ wk.batch = {} THEN IdleWorker
                  ELSE NextJob(wk.batch, wk.sweeping)
<1>1. /\ wk \in Worker /\ wk.job.id \in JobIds
      /\ wk.batch \in SUBSET Lease /\ wk.sweeping \in BOOLEAN
  BY DEF CloseJob, TypeInv, WorkersInv, WorkerOK, Lease, Worker
<1>2. WorkerOK(new, verdict')
  BY <1>1, NextJobType, IdleTypes
<1>3. StoreInv' /\ Grows
  BY NoWrite DEF CloseJob, TypeInv
<1>4. QueueInv'
  BY <1>1, RowUpdatesType DEF CloseJob, TypeInv, QueueInv
<1>5. workers' = [workers EXCEPT ![w] = new]
  BY DEF CloseJob, JobOver
<1> HIDE DEF new
<1> QED
  BY <1>2, <1>3, <1>4, <1>5, WorkerAlone DEF CloseJob

LEMMA CrashType ==
    ASSUME TypeInv, NEW w \in Workers, Crash(w)
    PROVE  TypeInv'
<1>1. StoreInv' /\ Grows /\ QueueInv'
  BY NoWrite DEF Crash, TypeInv, QueueInv
<1>2. crashes' \in Nat /\ answered' \subseteq Pkgs \X Names
  BY DEF Crash, histVars, TypeInv, WorldInv
<1> QED
  BY <1>1, <1>2, IdleTypes, WorkerOnly DEF Crash, histVars

LEMMA WorkerType ==
    ASSUME TypeInv, NEW w \in Workers, WorkerStep(w) \/ Crash(w)
    PROVE  TypeInv'
BY LeaseBatchType, SweepType, StartJobType, ScannerAnswersType, ScannerFailsType,
   RecordReadType, RecordReadFindingsType, RecordWriteType, RecordFailsType,
   CloseJobType, CrashType DEF WorkerStep

-----------------------------------------------------------------------------
(* ... of the administrators' steps. *)

LEMMA AdminOnly ==
    ASSUME TypeInv, NEW a \in Admins, NEW ad, AdminOK(ad, verdict'),
           admins' = [admins EXCEPT ![a] = ad], StoreInv', Grows, QueueInv',
           UNCHANGED <<worldVars, readers, workers, flaggers, budgetVars, histVars>>
    PROVE  TypeInv'
<1>1. AdminsInv'
  BY AdminMoves
<1>2. WorldInv'
  BY DEF worldVars, budgetVars, histVars, TypeInv, WorldInv
<1> QED
  BY <1>1, <1>2, Keep DEF TypeInv

LEMMA SetStatusType ==
    ASSUME TypeInv, NEW a \in Admins, NEW p \in Pkgs, NEW b \in BOOLEAN, SetStatus(a, p, b)
    PROVE  TypeInv'
<1> DEFINE ad == [pc |-> "read", pkg |-> p, block |-> b, row |-> None]
<1>1. StoreInv' /\ Grows
  BY NoWrite DEF SetStatus, TypeInv
<1>2. AdminOK(ad, verdict')
  BY DEF AdminOK, Admin
<1>3. admins' = [admins EXCEPT ![a] = ad] \/ admins' = admins
  BY DEF SetStatus
<1> HIDE DEF ad
<1>4. AdminsInv'
  BY <1>1, <1>2, <1>3, AdminMoves, Keep
<1>5. WorldInv'
  BY DEF SetStatus, histVars, TypeInv, WorldInv
<1> QED
  BY <1>1, <1>4, <1>5, Keep DEF SetStatus, TypeInv

LEMMA AdminReadType ==
    ASSUME TypeInv, NEW a \in Admins, AdminRead(a)
    PROVE  TypeInv'
<1> DEFINE ad == admins[a]
           p == ad.pkg
           row == Rewritten(verdict[p], ad.block)
           skip == [ad EXCEPT !.pc = "enqueue"]
           half == [ad EXCEPT !.pc = "findings", !.row = verdict[p]]
           full == [ad EXCEPT !.pc = "write", !.row = row]
           new == IF verdict[p] = None THEN skip ELSE IF SplitRead(p) THEN half ELSE full
<1>1. ad \in Admin /\ p \in Pkgs /\ verdict[p] \in Row \cup {None} /\ ad.block \in BOOLEAN
  BY DEF AdminRead, TypeInv, AdminsInv, AdminOK, StoreInv, Admin
<1>2. StoreInv' /\ Grows /\ QueueInv' /\ verdict' = verdict
  BY NoWrite DEF AdminRead, TypeInv, QueueInv
<1>3. AdminOK(skip, verdict')
  BY <1>1 DEF AdminOK, Admin
<1>4. verdict[p] # None => AdminOK(half, verdict')
  BY <1>1, <1>2 DEF AdminOK, Admin
<1>5. verdict[p] # None => AdminOK(full, verdict')
  <2>1. verdict[p] # None => row \in Row
    BY <1>1, RewrittenRow
  <2> HIDE DEF row
  <2> QED  BY <1>1, <2>1 DEF AdminOK, Admin
<1>6. AdminOK(new, verdict')
  <2> HIDE DEF skip, half, full
  <2> QED  BY <1>3, <1>4, <1>5
<1>7. admins' = [admins EXCEPT ![a] = new]
  BY DEF AdminRead
<1> HIDE DEF new
<1> QED
  BY <1>2, <1>6, <1>7, AdminOnly DEF AdminRead

LEMMA AdminReadFindingsType ==
    ASSUME TypeInv, NEW a \in Admins, AdminReadFindings(a)
    PROVE  TypeInv'
<1> DEFINE ad == admins[a]
           row == Rewritten(Joined(ad.row, ad.pkg), ad.block)
           new == [ad EXCEPT !.pc = "write", !.row = row]
<1>1. /\ ad \in Admin /\ ad.pkg \in Pkgs /\ ad.row \in Row /\ ad.block \in BOOLEAN
      /\ verdict[ad.pkg] \in Row
  BY DEF AdminReadFindings, TypeInv, AdminsInv, AdminOK, StoreInv, Admin
<1>2. row \in Row
  BY <1>1, JoinedType, RewrittenRow
<1>3. AdminOK(new, verdict')
  <2> HIDE DEF row
  <2> QED  BY <1>1, <1>2 DEF AdminOK, Admin
<1>4. StoreInv' /\ Grows /\ QueueInv'
  BY NoWrite DEF AdminReadFindings, TypeInv, QueueInv
<1>5. admins' = [admins EXCEPT ![a] = new]
  BY DEF AdminReadFindings
<1> HIDE DEF new
<1> QED
  BY <1>3, <1>4, <1>5, AdminOnly DEF AdminReadFindings

LEMMA AdminWriteType ==
    ASSUME TypeInv, NEW a \in Admins, AdminWrite(a)
    PROVE  TypeInv'
<1> DEFINE ad == admins[a]
           new == [ad EXCEPT !.pc = "enqueue", !.row = None]
<1>1. ad \in Admin /\ ad.pkg \in Pkgs /\ ad.row \in Row
  BY DEF AdminWrite, TypeInv, AdminsInv, AdminOK
<1>2. AdminOK(new, verdict')
  BY <1>1 DEF AdminOK, Admin
<1>3. StoreInv' /\ Grows
  BY <1>1, Write DEF AdminWrite, TypeInv
<1>4. admins' = [admins EXCEPT ![a] = new] /\ QueueInv'
  BY DEF AdminWrite, TypeInv, QueueInv
<1> HIDE DEF new
<1> QED
  BY <1>2, <1>3, <1>4, AdminOnly DEF AdminWrite

LEMMA AdminEnqueueType ==
    ASSUME TypeInv, NEW a \in Admins, AdminEnqueue(a)
    PROVE  TypeInv'
<1>1. admins[a].pkg \in Pkgs
  BY DEF AdminEnqueue, TypeInv, AdminsInv, AdminOK
<1>2. QueueInv'
  BY <1>1, OpenedType DEF AdminEnqueue, Enqueue, TypeInv, QueueInv, Triggers
<1>3. StoreInv' /\ Grows
  BY NoWrite DEF AdminEnqueue, TypeInv
<1> QED
  BY <1>2, <1>3, IdleTypes, AdminOnly DEF AdminEnqueue

LEMMA AdminFaultType ==
    ASSUME TypeInv, NEW a \in Admins, AdminFault(a)
    PROVE  TypeInv'
<1> DEFINE ad == admins[a]
           skip == [ad EXCEPT !.pc = "enqueue", !.row = None]
           new == IF ad.pc = "enqueue" THEN IdleAdmin ELSE skip
<1>1. ad \in Admin /\ ad.pkg \in Pkgs
  BY DEF AdminFault, TypeInv, AdminsInv, AdminOK
<1>2. AdminOK(skip, verdict')
  BY <1>1 DEF AdminOK, Admin
<1>3. AdminOK(new, verdict')
  <2> HIDE DEF skip
  <2> QED  BY <1>2, IdleTypes
<1>4. StoreInv' /\ Grows /\ QueueInv'
  BY NoWrite DEF AdminFault, TypeInv, QueueInv
<1>5. admins' = [admins EXCEPT ![a] = new]
  BY DEF AdminFault
<1> HIDE DEF new
<1> QED
  BY <1>3, <1>4, <1>5, AdminOnly DEF AdminFault

LEMMA AdminType ==
    ASSUME TypeInv, NEW a \in Admins, AdminStep(a)
    PROVE  TypeInv'
BY AdminReadType, AdminReadFindingsType, AdminWriteType, AdminEnqueueType, AdminFaultType
   DEF AdminStep

-----------------------------------------------------------------------------
(* ... of the flag sources' steps. *)

LEMMA FlaggerOnly ==
    ASSUME TypeInv, NEW f \in Flaggers, NEW fg, FlaggerOK(fg, verdict'),
           flaggers' = [flaggers EXCEPT ![f] = fg], StoreInv', Grows, QueueInv',
           UNCHANGED <<worldVars, readers, workers, admins, budgetVars, histVars>>
    PROVE  TypeInv'
<1>1. FlaggersInv'
  BY FlaggerMoves
<1>2. WorldInv'
  BY DEF worldVars, budgetVars, histVars, TypeInv, WorldInv
<1> QED
  BY <1>1, <1>2, Keep DEF TypeInv

\* A push, a revocation and a denial that is over start from a blank record.
LEMMA StartedFlagger ==
    ASSUME NEW v, NEW fl \in Flag, NEW pc \in {"deny", "cover"}
    PROVE  FlaggerOK([IdleFlagger EXCEPT !.pc = pc, !.flag = fl], v)
<1> DEFINE new == [IdleFlagger EXCEPT !.pc = pc, !.flag = fl]
<1>1. IdleFlagger \in Flagger
  BY IdleTypes DEF FlaggerOK
<1>2. new \in Flagger /\ new.pc = pc /\ new.flag = fl
  BY <1>1 DEF Flagger
<1> HIDE DEF new
<1> QED
  BY <1>2 DEF FlaggerOK, new

LEMMA CoveredFacts ==
    ASSUME TypeInv, NEW fl \in Flag
    PROVE  /\ Covered(fl) \in SUBSET Pkgs
           /\ \A p \in Covered(fl) : verdict[p] \in Row
BY DEF Covered, Scope, Flag, TypeInv, StoreInv

LEMMA FlagSet ==
    ASSUME TypeInv, NEW f \in Flaggers, NEW fl \in Flag, NEW pc \in {"deny", "cover"},
           flaggers' = [flaggers EXCEPT ![f] = [IdleFlagger EXCEPT !.pc = pc, !.flag = fl]],
           flag' \in Flag \cup {None}, edits' \in Nat,
           UNCHANGED <<verdict, jobs, blocked, vulnerable, age, secured, unpublished,
                       readers, workers, admins, crashes, histVars>>
    PROVE  TypeInv'
<1>1. StoreInv' /\ Grows
  BY NoWrite DEF TypeInv
<1>2. FlaggersInv'
  BY <1>1, StartedFlagger, FlaggerMoves
<1>3. WorldInv'
  BY DEF histVars, TypeInv, WorldInv
<1> QED
  BY <1>1, <1>2, <1>3, Keep DEF TypeInv

LEMMA PushFlagType ==
    ASSUME TypeInv, NEW f \in Flaggers, NEW fl \in Flag, PushFlag(f, fl)
    PROVE  TypeInv'
<1>1. (IF fl.hard THEN "deny" ELSE "cover") \in {"deny", "cover"}
  OBVIOUS
<1>2. flag' \in Flag \cup {None} /\ edits' \in Nat
  BY DEF PushFlag, TypeInv, WorldInv
<1> QED
  BY <1>1, <1>2, FlagSet DEF PushFlag

LEMMA RevokeFlagType ==
    ASSUME TypeInv, NEW f \in Flaggers, RevokeFlag(f)
    PROVE  TypeInv'
<1>1. flag \in Flag /\ flag' \in Flag \cup {None} /\ edits' \in Nat
  BY DEF RevokeFlag, TypeInv, WorldInv
<1> QED
  BY <1>1, FlagSet DEF RevokeFlag

LEMMA FlagReadType ==
    ASSUME TypeInv, NEW f \in Flaggers, FlagRead(f)
    PROVE  TypeInv'
<1> DEFINE fg == flaggers[f]
           cov == Covered(fg.flag)
           split == ~fg.flag.wild /\ SplitRead(fg.flag.pkg)
           pc == IF cov = {} THEN "cover" ELSE IF split THEN "findings" ELSE "write"
           read(p) == IF p \notin cov THEN None
                      ELSE IF split THEN verdict[p]
                      ELSE IF fg.flag.wild THEN Flagged(ListedRow(p), fg.flag)
                      ELSE Flagged(verdict[p], fg.flag)
           rows == [p \in Pkgs |-> read(p)]
           new == [fg EXCEPT !.pc = pc, !.todo = cov, !.rows = rows]
<1>1. fg \in Flagger /\ fg.flag \in Flag
  BY DEF FlagRead, TypeInv, FlaggersInv, FlaggerOK
<1>2. cov \in SUBSET Pkgs /\ \A p \in cov : verdict[p] \in Row
  BY <1>1, CoveredFacts
<1>3. StoreInv' /\ Grows /\ QueueInv' /\ verdict' = verdict
  BY NoWrite DEF FlagRead, TypeInv, QueueInv
<1>4. \A p \in cov : read(p) \in Row
  <2> HIDE DEF cov, split
  <2>1. \A p \in cov : ListedRow(p) \in Row
    BY <1>2, ListedRowType
  <2> QED  BY <1>2, <2>1, FlaggedRow
<1>5. rows \in [Pkgs -> Row \cup {None}] /\ \A p \in cov : rows[p] \in Row
  <2>1. \A p \in Pkgs \ cov : read(p) = None
    OBVIOUS
  <2> HIDE DEF read, cov
  <2> QED  BY <1>2, <1>4, <2>1
<1>6. pc \in {"cover", "findings", "write"}
  OBVIOUS
<1>7. FlaggerOK(new, verdict')
  <2> HIDE DEF pc, rows, cov
  <2>1. new \in Flagger /\ new.pc = pc /\ new.todo = cov /\ new.rows = rows /\ new.flag = fg.flag
    BY <1>1, <1>2, <1>5, <1>6 DEF Flagger
  <2> HIDE DEF new
  <2> QED  BY <1>1, <1>2, <1>3, <1>5, <1>6, <2>1, NoneAssumption DEF FlaggerOK
<1>8. flaggers' = [flaggers EXCEPT ![f] = new]
  BY DEF FlagRead
<1> HIDE DEF new
<1> QED
  BY <1>3, <1>7, <1>8, FlaggerOnly DEF FlagRead

LEMMA FlagReadFindingsType ==
    ASSUME TypeInv, NEW f \in Flaggers, FlagReadFindings(f)
    PROVE  TypeInv'
<1> DEFINE fg == flaggers[f]
           read(p) == IF p \in fg.todo THEN Flagged(Joined(fg.rows[p], p), fg.flag) ELSE None
           rows == [p \in Pkgs |-> read(p)]
           new == [fg EXCEPT !.pc = "write", !.rows = rows]
<1>1. /\ fg \in Flagger /\ fg.flag \in Flag /\ fg.todo \in SUBSET Pkgs
      /\ \A p \in fg.todo : fg.rows[p] \in Row /\ verdict[p] \in Row
  BY DEF FlagReadFindings, TypeInv, FlaggersInv, FlaggerOK, Flagger, StoreInv
<1>2. \A p \in fg.todo : read(p) \in Row
  BY <1>1, JoinedType, FlaggedRow
<1>3. rows \in [Pkgs -> Row \cup {None}] /\ \A p \in fg.todo : rows[p] \in Row
  <2>1. \A p \in Pkgs \ fg.todo : read(p) = None
    OBVIOUS
  <2> HIDE DEF read, fg
  <2> QED  BY <1>1, <1>2, <2>1
<1>4. FlaggerOK(new, verdict')
  <2> HIDE DEF rows
  <2>1. new \in Flagger /\ new.pc = "write" /\ new.todo = fg.todo /\ new.rows = rows
        /\ new.flag = fg.flag
    BY <1>1, <1>3 DEF Flagger
  <2> HIDE DEF new
  <2> QED  BY <1>1, <1>3, <2>1 DEF FlaggerOK
<1>5. StoreInv' /\ Grows /\ QueueInv'
  BY NoWrite DEF FlagReadFindings, TypeInv, QueueInv
<1>6. flaggers' = [flaggers EXCEPT ![f] = new]
  BY DEF FlagReadFindings
<1> HIDE DEF new
<1> QED
  BY <1>4, <1>5, <1>6, FlaggerOnly DEF FlagReadFindings

\* One version less to write or to queue.
LEMMA FewerTodo ==
    ASSUME TypeInv, NEW f \in Flaggers, NEW p, Grows,
           flaggers[f].pc \in {"write", "enqueue"}
    PROVE  FlaggerOK([flaggers[f] EXCEPT !.todo = @ \ {p}], verdict')
<1> DEFINE fg == flaggers[f]
           new == [fg EXCEPT !.todo = @ \ {p}]
<1>1. fg \in Flagger /\ FlaggerOK(fg, verdict) /\ fg.todo \ {p} \in SUBSET Pkgs
  BY DEF TypeInv, FlaggersInv, Flagger
<1>2. new \in Flagger /\ new.pc = fg.pc /\ new.flag = fg.flag /\ new.rows = fg.rows
      /\ new.todo = fg.todo \ {p}
  BY <1>1 DEF Flagger
<1> HIDE DEF new
<1>3. FlaggerOK(new, verdict')
  BY <1>1, <1>2 DEF FlaggerOK
<1> QED
  BY <1>3 DEF new

LEMMA FlagWriteType ==
    ASSUME TypeInv, NEW f \in Flaggers, FlagWrite(f)
    PROVE  TypeInv'
<1> DEFINE fg == flaggers[f]
           new(p) == IF fg.todo = {p} THEN [IdleFlagger EXCEPT !.pc = "cover", !.flag = fg.flag]
                     ELSE [fg EXCEPT !.todo = @ \ {p}]
<1>1. PICK p \in fg.todo :
          /\ verdict' = [verdict EXCEPT ![p] = fg.rows[p]] \/ verdict' = verdict
          /\ flaggers' = [flaggers EXCEPT ![f] = new(p)]
  BY DEF FlagWrite, FlagWritten
<1>2. fg.flag \in Flag /\ fg.rows[p] \in Row
  BY DEF FlagWrite, TypeInv, FlaggersInv, FlaggerOK
<1>3. StoreInv' /\ Grows
  BY <1>1, <1>2, Write, NoWrite DEF TypeInv
<1>4. FlaggerOK(new(p), verdict')
  <2>1. FlaggerOK([IdleFlagger EXCEPT !.pc = "cover", !.flag = fg.flag], verdict')
    BY <1>2, StartedFlagger
  <2>2. FlaggerOK([fg EXCEPT !.todo = @ \ {p}], verdict')
    BY <1>3, FewerTodo DEF FlagWrite
  <2> QED  BY <2>1, <2>2
<1>5. QueueInv'
  BY DEF FlagWrite, TypeInv, QueueInv
<1> HIDE DEF new
<1> QED
  BY <1>1, <1>3, <1>4, <1>5, FlaggerOnly DEF FlagWrite

LEMMA FlagReadFaultType ==
    ASSUME TypeInv, NEW f \in Flaggers, FlagReadFault(f)
    PROVE  TypeInv'
<1> DEFINE fg == flaggers[f]
           new == IF fg.pc = "cover" THEN IdleFlagger
                  ELSE [IdleFlagger EXCEPT !.pc = "cover", !.flag = fg.flag]
<1>1. fg.flag \in Flag
  BY DEF FlagReadFault, TypeInv, FlaggersInv, FlaggerOK
<1>2. FlaggerOK(new, verdict')
  BY <1>1, StartedFlagger, IdleTypes
<1>3. StoreInv' /\ Grows /\ QueueInv'
  BY NoWrite DEF FlagReadFault, TypeInv, QueueInv
<1>4. flaggers' = [flaggers EXCEPT ![f] = new]
  BY DEF FlagReadFault
<1> HIDE DEF new
<1> QED
  BY <1>2, <1>3, <1>4, FlaggerOnly DEF FlagReadFault

LEMMA FlagCoverType ==
    ASSUME TypeInv, NEW f \in Flaggers, FlagCover(f)
    PROVE  TypeInv'
<1> DEFINE fg == flaggers[f]
           cov == Covered(fg.flag)
           some == [fg EXCEPT !.pc = "enqueue", !.todo = cov]
           new == IF cov = {} THEN IdleFlagger ELSE some
<1>1. fg \in Flagger /\ fg.flag \in Flag
  BY DEF FlagCover, TypeInv, FlaggersInv, FlaggerOK
<1>2. FlaggerOK(some, verdict')
  <2>1. cov \in SUBSET Pkgs
    BY <1>1, CoveredFacts
  <2> HIDE DEF cov
  <2>2. some \in Flagger /\ some.pc = "enqueue" /\ some.flag = fg.flag
    BY <1>1, <2>1 DEF Flagger
  <2> HIDE DEF some
  <2> QED  BY <1>1, <2>2 DEF FlaggerOK
<1>3. FlaggerOK(new, verdict')
  <2> HIDE DEF some
  <2> QED  BY <1>2, IdleTypes
<1>4. StoreInv' /\ Grows /\ QueueInv'
  BY NoWrite DEF FlagCover, TypeInv, QueueInv
<1>5. flaggers' = [flaggers EXCEPT ![f] = new]
  BY DEF FlagCover
<1> HIDE DEF new
<1> QED
  BY <1>3, <1>4, <1>5, FlaggerOnly DEF FlagCover

LEMMA FlagEnqueueType ==
    ASSUME TypeInv, NEW f \in Flaggers, FlagEnqueue(f)
    PROVE  TypeInv'
<1> DEFINE fg == flaggers[f]
           new(p) == IF fg.todo = {p} THEN IdleFlagger ELSE [fg EXCEPT !.todo = @ \ {p}]
<1>1. PICK p \in fg.todo :
          /\ Enqueue(p, "webhook", FALSE) \/ jobs' = jobs
          /\ flaggers' = [flaggers EXCEPT ![f] = new(p)]
  BY DEF FlagEnqueue
<1>2. p \in Pkgs
  BY DEF TypeInv, FlaggersInv, Flagger
<1>3. QueueInv'
  BY <1>1, <1>2, OpenedType DEF Enqueue, TypeInv, QueueInv, Triggers
<1>4. StoreInv' /\ Grows
  BY NoWrite DEF FlagEnqueue, TypeInv
<1>5. FlaggerOK(new(p), verdict')
  BY <1>4, FewerTodo, IdleTypes DEF FlagEnqueue
<1> HIDE DEF new
<1> QED
  BY <1>1, <1>3, <1>4, <1>5, FlaggerOnly DEF FlagEnqueue

LEMMA FlagType ==
    ASSUME TypeInv, NEW f \in Flaggers, FlagStep(f)
    PROVE  TypeInv'
BY FlagReadType, FlagReadFindingsType, FlagWriteType, FlagReadFaultType, FlagCoverType,
   FlagEnqueueType DEF FlagStep

-----------------------------------------------------------------------------
(* ... of everything else. *)

\* A step that only queues or releases jobs.
LEMMA QueueOnly ==
    ASSUME TypeInv, QueueInv',
           UNCHANGED <<verdict, worldVars, procVars, budgetVars, histVars>>
    PROVE  TypeInv'
<1>1. StoreInv' /\ Grows
  BY NoWrite DEF TypeInv
<1>2. WorldInv'
  BY DEF worldVars, budgetVars, histVars, TypeInv, WorldInv
<1> QED
  BY <1>1, <1>2, Keep DEF procVars, TypeInv

LEMMA RescanTickType ==
    ASSUME TypeInv, NEW p \in Pkgs, RescanTick(p)
    PROVE  TypeInv'
<1>1. \E d \in BOOLEAN : Enqueue(p, "rescan", d)
  BY CachedDatesAssumption DEF RescanTick
<1>2. QueueInv'
  BY <1>1, OpenedType DEF Enqueue, TypeInv, QueueInv, Triggers
<1> QED
  BY <1>2, QueueOnly DEF RescanTick

LEMMA OperatorEnqueueType ==
    ASSUME TypeInv, NEW p \in Pkgs, NEW t \in OperatorTriggers, OperatorEnqueue(p, t)
    PROVE  TypeInv'
<1>1. \E d \in BOOLEAN : Enqueue(p, t, d)
  BY CachedDatesAssumption DEF OperatorEnqueue
<1>2. QueueInv'
  BY <1>1, OpenedType, TriggersAssumption DEF Enqueue, TypeInv, QueueInv
<1> QED
  BY <1>2, QueueOnly DEF OperatorEnqueue

LEMMA LeaseLapsesType ==
    ASSUME TypeInv, NEW j \in JobIds, LeaseLapses(j)
    PROVE  TypeInv'
<1>1. jobs' = Failed(jobs, j)
  BY DEF LeaseLapses, Failed
<1>2. QueueInv'
  BY <1>1, RowUpdatesType DEF TypeInv, QueueInv
<1> QED
  BY <1>2, QueueOnly DEF LeaseLapses

LEMMA WorldStepType ==
    ASSUME TypeInv, (\E p \in Pkgs : Tick(p) \/ Disclose(p)) \/ Reload
    PROVE  TypeInv'
<1>1. StoreInv' /\ Grows
  BY NoWrite DEF Tick, Disclose, Reload, TypeInv
<1>2. WorldInv'
  <2>1. ASSUME NEW p \in Pkgs, Tick(p) PROVE WorldInv'
    BY <2>1 DEF Tick, budgetVars, histVars, TypeInv, WorldInv
  <2>2. ASSUME NEW p \in Pkgs, Disclose(p) PROVE WorldInv'
    BY <2>2 DEF Disclose, budgetVars, histVars, TypeInv, WorldInv
  <2>3. CASE Reload
    <3>1. secured' \in BOOLEAN
      BY <2>3, Zenon DEF Reload
    <3>2. edits' \in Nat
      BY <2>3 DEF Reload, TypeInv, WorldInv
    <3> QED
      BY <2>3, <3>1, <3>2 DEF Reload, histVars, TypeInv, WorldInv
  <2> QED
    BY <2>1, <2>2, <2>3
<1> QED
  BY <1>1, <1>2, Keep DEF Tick, Disclose, Reload, procVars, TypeInv

LEMMA StutterType ==
    ASSUME TypeInv, UNCHANGED vars
    PROVE  TypeInv'
<1>1. QueueInv'
  BY DEF vars, TypeInv, QueueInv
<1> QED
  BY <1>1, QueueOnly DEF vars

LEMMA NextType ==
    ASSUME TypeInv, [Next]_vars
    PROVE  TypeInv'
<1>1. ASSUME NEW f \in Flaggers, NEW k \in FlagKinds, NEW p \in Pkgs,
             PushFlag(f, [wild |-> k.wild, hard |-> k.hard, pkg |-> p])
      PROVE  TypeInv'
  <2>1. [wild |-> k.wild, hard |-> k.hard, pkg |-> p] \in Flag
    BY FlagKindsAssumption DEF Flag
  <2> QED
    BY <1>1, <2>1, PushFlagType
<1> QED
  BY <1>1, GateType, WorkerType, SetStatusType, AdminType, RevokeFlagType, FlagType,
     RescanTickType, OperatorEnqueueType, LeaseLapsesType, WorldStepType, StutterType
     DEF Next

\* Whatever interleaving, crash and failed call: every stored row, every queued
\* job and every row a request, worker, administrator or flag source is about to
\* write is well formed, and attempts stay within max_attempts.
THEOREM TypeCorrect == Spec => []TypeOK
<1>1. Init => TypeInv
  BY InitType
<1>2. TypeInv /\ [Next]_vars => TypeInv'
  BY NextType
<1> QED
  BY <1>1, <1>2, TypeInvTypeOK, PTL DEF Spec

-----------------------------------------------------------------------------
(* Leases: an attempt is taken by every worker that runs a job. *)

Runs(wk, j) ==
    /\ ~wk.sweeping
    /\ (\E l \in wk.batch : l.id = j) \/ (wk.job # None /\ wk.job.id = j)

LEMMA HoldersRun == \A j : HoldersOf(j) = {w \in Workers : Runs(workers[w], j)}
BY DEF HoldersOf, Runs

\* AttemptsBoundHolders, with what Cardinality needs.
HoldersBound ==
    \A j \in OpenIds(jobs) :
        /\ IsFiniteSet(HoldersOf(j))
        /\ Cardinality(HoldersOf(j)) <= jobs[j].attempts

LEMMA LeastOf ==
    ASSUME NEW T \in SUBSET Nat, T # {}
    PROVE  \E x \in T : \A y \in T : x <= y
<1> DEFINE R == OpToRel(<, Nat)
<1>1. IsWellFoundedOn(R, Nat)
  BY NatLessThanWellFounded
<1>2. \A x, y \in Nat : y < x => <<y, x>> \in R
  BY DEF OpToRel
<1> HIDE DEF R
<1>3. PICK x \in T : \A y \in T : ~(<<y, x>> \in R)
  BY <1>1, WFMin
<1>4. \A y \in T : ~(y < x)
  BY <1>2, <1>3
<1>5. \A y \in T : y \in Int /\ x \in Int
  OBVIOUS
<1>6. \A y \in T : x <= y
  BY <1>4, <1>5
<1> QED
  BY <1>6

\* Nobody starts to run j, and its attempts are not given back.
LEMMA FewerHolders ==
    ASSUME TypeInv, HoldersBound, QueueInv',
           NEW j \in OpenIds(jobs), j \in OpenIds(jobs'),
           jobs'[j].attempts = jobs[j].attempts,
           \A w \in Workers : Runs(workers'[w], j) => Runs(workers[w], j)
    PROVE  IsFiniteSet(HoldersOf(j)') /\ Cardinality(HoldersOf(j)') <= jobs'[j].attempts
<1>1. HoldersOf(j)' = {w \in Workers : Runs(workers'[w], j)}
  BY DEF HoldersOf, Runs
<1>2. HoldersOf(j)' \subseteq HoldersOf(j)
  BY <1>1, HoldersRun
<1>3. IsFiniteSet(HoldersOf(j)) /\ Cardinality(HoldersOf(j)) <= jobs[j].attempts
  BY DEF HoldersBound
<1>4. /\ IsFiniteSet(HoldersOf(j)') /\ Cardinality(HoldersOf(j)') <= Cardinality(HoldersOf(j))
      /\ Cardinality(HoldersOf(j)') \in Nat /\ Cardinality(HoldersOf(j)) \in Nat
  BY <1>2, <1>3, FS_Subset, FS_CardinalityType
<1>5. jobs[j].attempts \in Nat
  BY OpenIsJob, AttemptsAssumption DEF TypeInv, QueueInv, Job
<1> QED
  BY <1>3, <1>4, <1>5

\* A queue that keeps the attempts of its open rows and opens none.
Kept(q, r) ==
    \A j \in OpenIds(r) : j \in OpenIds(q) /\ r[j].attempts = q[j].attempts

LEMMA KeptBound ==
    ASSUME TypeInv, HoldersBound, QueueInv', Kept(jobs, jobs'),
           \A w \in Workers : \A j : Runs(workers'[w], j) => Runs(workers[w], j)
    PROVE  HoldersBound'
<1>1. ASSUME NEW j \in OpenIds(jobs')
      PROVE  IsFiniteSet(HoldersOf(j)') /\ Cardinality(HoldersOf(j)') <= jobs'[j].attempts
  BY <1>1, FewerHolders DEF Kept
<1> QED
  BY <1>1 DEF HoldersBound

LEMMA RowUpdatesKept ==
    ASSUME NEW q \in Table, NEW j \in JobIds
    PROVE  Kept(q, q) /\ Kept(q, Heartbeat(q, j)) /\ Kept(q, Failed(q, j))
           /\ Kept(q, Completed(q, j))
<1>1. Kept(q, q)
  BY DEF Kept
<1>2. CASE q[j] = NoJob
  BY <1>1, <1>2 DEF Kept, Heartbeat, Failed, Completed, OpenIds, Table
<1>3. CASE q[j] # NoJob
  <2>1. q[j] \in Job
    BY <1>3 DEF Table
  <2>2. ASSUME NEW b \in BOOLEAN
        PROVE  Kept(q, [q EXCEPT ![j].leased = b])
    <3> DEFINE row == [q[j] EXCEPT !.leased = b]
    <3>1. row.attempts = q[j].attempts
      BY <2>1 DEF Job
    <3>2. [q EXCEPT ![j].leased = b] = [q EXCEPT ![j] = row]
      BY DEF Table
    <3> HIDE DEF row
    <3> QED
      BY <1>3, <3>1, <3>2 DEF Kept, OpenIds, Table
  <2>3. Kept(q, Completed(q, j))
    BY DEF Kept, Completed, OpenIds, Table
  <2>4. Kept(q, [q EXCEPT ![j].leased = TRUE]) /\ Kept(q, [q EXCEPT ![j].leased = FALSE])
    BY <2>2
  <2> QED
    BY <1>1, <1>3, <2>3, <2>4 DEF Heartbeat, Failed
<1> QED
  BY <1>2, <1>3

\* enqueue takes an id that no worker has a copy of.
LEMMA EnqueueBound ==
    ASSUME TypeInv, HoldersBound, QueueInv', NEW p, NEW t, NEW d, Enqueue(p, t, d),
           workers' = workers
    PROVE  HoldersBound'
<1>1. CASE HasOpen(jobs, p)
  <2>1. jobs' = jobs
    BY <1>1 DEF Enqueue, Opened
  <2>2. Kept(jobs, jobs')
    BY <2>1 DEF Kept
  <2> QED
    BY <2>2, KeptBound
<1>2. CASE ~HasOpen(jobs, p)
  <2> DEFINE free == FreeIds(jobs, Held)
             row == [pkg |-> p, trigger |-> t, dated |-> d, leased |-> FALSE, attempts |-> 0]
  <2>1. free # {} /\ free \in SUBSET Nat
    BY <1>2, JobIdsAssumption DEF Enqueue, CanOpen, FreeIds
  <2> HIDE DEF free
  <2>2. (CHOOSE x \in free : \A y \in free : x <= y) \in free
    BY <2>1, LeastOf
  <2>3. PICK i \in free : jobs' = [jobs EXCEPT ![i] = row]
    BY <1>2, <2>2 DEF Enqueue, Opened, free
  <2>4. row.attempts = 0
    OBVIOUS
  <2> HIDE DEF row
  <2>5. i \in JobIds /\ i \notin Held /\ jobs[i] = NoJob
    BY <2>3 DEF free, FreeIds
  <2>6. jobs'[i].attempts = 0
    BY <2>3, <2>4, <2>5 DEF TypeInv, QueueInv, Table
  <2>7. \A w \in Workers : ~Runs(workers[w], i)
    BY <2>5 DEF Held, Runs
  <2>8. HoldersOf(i)' = {}
    BY <2>7 DEF HoldersOf, Runs
  <2>9. IsFiniteSet(HoldersOf(i)') /\ Cardinality(HoldersOf(i)') <= jobs'[i].attempts
    BY <2>6, <2>8, FS_EmptySet
  <2>10. ASSUME NEW j \in OpenIds(jobs'), j # i
         PROVE  IsFiniteSet(HoldersOf(j)') /\ Cardinality(HoldersOf(j)') <= jobs'[j].attempts
    <3>1. j \in OpenIds(jobs) /\ jobs'[j] = jobs[j]
      BY <2>3, <2>10 DEF OpenIds, TypeInv, QueueInv, Table
    <3> QED
      BY <2>10, <3>1, FewerHolders
  <2> QED
    BY <2>9, <2>10 DEF HoldersBound
<1> QED
  BY <1>1, <1>2

\* A worker moves on with no job it did not have.
LEMMA WorkerBound ==
    ASSUME TypeInv, HoldersBound, QueueInv', Kept(jobs, jobs'),
           NEW w \in Workers, NEW wk, workers' = [workers EXCEPT ![w] = wk],
           \A j : Runs(wk, j) => Runs(workers[w], j)
    PROVE  HoldersBound'
<1>1. \A v \in Workers : workers'[v] = IF v = w THEN wk ELSE workers[v]
  BY DEF TypeInv, WorkersInv
<1> QED
  BY <1>1, KeptBound

LEMMA NextJobRuns ==
    ASSUME NEW batch, NEW sweeping
    PROVE  /\ \A j : Runs(NextJob(batch, sweeping), j) <=>
                        ~sweeping /\ \E l \in batch : l.id = j
           /\ \A j : ~Runs(IdleWorker, j)
<1>1. /\ NextJob(batch, sweeping).batch = batch /\ NextJob(batch, sweeping).job = None
      /\ NextJob(batch, sweeping).sweeping = sweeping
  BY DEF NextJob, IdleWorker
<1>2. IdleWorker.batch = {} /\ IdleWorker.job = None
  BY DEF IdleWorker
<1> QED
  BY <1>1, <1>2 DEF Runs

LEMMA LeaseBatchBound ==
    ASSUME TypeInv, HoldersBound, QueueInv', NEW w \in Workers, LeaseBatch(w)
    PROVE  HoldersBound'
<1>1. PICK S \in Picks(jobs) :
          /\ jobs' = TakeLease(jobs, S)
          /\ workers' = [workers EXCEPT ![w] = NextJob({CopyOf(jobs, j) : j \in S}, FALSE)]
  BY DEF LeaseBatch
<1>2. S \subseteq Leasable(jobs) /\ S \subseteq OpenIds(jobs)
  BY PicksAreLeasable DEF Leasable
<1> DEFINE batch == {CopyOf(jobs, j) : j \in S}
           wk == NextJob(batch, FALSE)
<1>3. \A j : Runs(wk, j) <=> j \in S
  <2>1. \A j : (\E l \in batch : l.id = j) <=> j \in S
    <3>1. \A i : CopyOf(jobs, i).id = i
      BY DEF CopyOf
    <3> QED
      BY <3>1
  <2> HIDE DEF batch
  <2> QED
    BY <2>1, NextJobRuns
<1>4. \A v \in Workers : workers'[v] = IF v = w THEN wk ELSE workers[v]
  BY <1>1 DEF TypeInv, WorkersInv
<1> HIDE DEF wk
<1>5. ASSUME NEW j \in OpenIds(jobs')
      PROVE  IsFiniteSet(HoldersOf(j)') /\ Cardinality(HoldersOf(j)') <= jobs'[j].attempts
  <2>1. j \in JobIds
    BY DEF OpenIds
  <2>2. CASE j \notin S
    <3>1. jobs'[j] = jobs[j] /\ j \in OpenIds(jobs)
      BY <1>1, <1>5, <2>1, <2>2 DEF TakeLease, OpenIds
    <3> QED
      BY <1>3, <1>4, <1>5, <2>2, <3>1, FewerHolders
  <2>3. CASE j \in S
    <3>1. j \in OpenIds(jobs) /\ jobs[j] \in Job
      BY <1>2, <2>3, OpenIsJob DEF TypeInv, QueueInv
    <3>2. jobs'[j].attempts = jobs[j].attempts + 1
      BY <1>1, <2>1, <2>3, <3>1 DEF TakeLease, Job
    <3>3. HoldersOf(j)' = {v \in Workers : Runs(workers'[v], j)}
      BY DEF HoldersOf, Runs
    <3>4. HoldersOf(j)' = HoldersOf(j) \cup {w}
      BY <1>3, <1>4, <2>3, <3>3, HoldersRun
    <3>5. IsFiniteSet(HoldersOf(j)) /\ Cardinality(HoldersOf(j)) <= jobs[j].attempts
      BY <3>1 DEF HoldersBound
    <3>6. /\ IsFiniteSet(HoldersOf(j)') /\ Cardinality(HoldersOf(j)) \in Nat
          /\ \/ Cardinality(HoldersOf(j)') = Cardinality(HoldersOf(j))
             \/ Cardinality(HoldersOf(j)') = Cardinality(HoldersOf(j)) + 1
      BY <3>4, <3>5, FS_AddElement, FS_CardinalityType
    <3>7. jobs[j].attempts \in Nat
      BY <3>1, AttemptsAssumption DEF Job
    <3> QED
      BY <3>2, <3>5, <3>6, <3>7
  <2> QED
    BY <2>2, <2>3
<1> QED
  BY <1>5 DEF HoldersBound

LEMMA PassBound ==
    ASSUME TypeInv, HoldersBound, QueueInv', NEW w \in Workers,
           Sweep(w) \/ StartJob(w) \/ CloseJob(w) \/ Crash(w)
    PROVE  HoldersBound'
<1> DEFINE wk == workers[w]
<1>1. Kept(jobs, jobs)
  BY DEF Kept
<1>2. wk \in Worker
  BY DEF TypeInv, WorkersInv
<1>3. CASE Sweep(w) \/ Crash(w)
  <2>1. \E new : workers' = [workers EXCEPT ![w] = new] /\ \A j : ~Runs(new, j)
    <3>1. CASE Crash(w)
      BY <3>1, NextJobRuns DEF Crash
    <3>2. CASE Sweep(w)
      <4>1. PICK S : workers' = [workers EXCEPT ![w] =
                IF S = {} THEN IdleWorker ELSE NextJob({CopyOf(jobs, j) : j \in S}, TRUE)]
        BY <3>2 DEF Sweep
      <4>2. \A j : ~Runs(NextJob({CopyOf(jobs, i) : i \in S}, TRUE), j)
        BY NextJobRuns
      <4> QED
        BY <4>1, <4>2, NextJobRuns
    <3> QED
      BY <1>3, <3>1, <3>2
  <2>2. jobs' = jobs
    BY <1>3 DEF Sweep, Crash
  <2> QED
    BY <1>1, <2>1, <2>2, WorkerBound
<1>4. CASE StartJob(w)
  <2> DEFINE pc == IF ~secured THEN "close" ELSE IF wk.sweeping THEN "record" ELSE "scan"
             found == IF secured /\ wk.sweeping
                      THEN {ErrorFinding(s, "SCANNER_ERROR") : s \in Required} ELSE {}
             done == IF secured /\ wk.sweeping THEN Required ELSE {}
  <2>1. PICK l \in wk.batch :
          workers' = [workers EXCEPT ![w] =
             [wk EXCEPT !.batch = @ \ {l}, !.job = l, !.pc = pc, !.found = found,
                        !.done = done]]
    BY <1>4 DEF StartJob
  <2> HIDE DEF pc, found, done
  <2> DEFINE new == [wk EXCEPT !.batch = @ \ {l}, !.job = l, !.pc = pc, !.found = found,
                               !.done = done]
  <2>2. new.batch = wk.batch \ {l} /\ new.job = l /\ new.sweeping = wk.sweeping
    BY <1>2 DEF Worker
  <2>3. workers' = [workers EXCEPT ![w] = new]
    BY <2>1
  <2> HIDE DEF new
  <2>4. \A j : Runs(new, j) => Runs(wk, j)
    BY <2>2 DEF Runs
  <2>5. jobs' = jobs
    BY <1>4 DEF StartJob
  <2> QED
    BY <1>1, <2>3, <2>4, <2>5, WorkerBound
<1>5. CASE CloseJob(w)
  <2>1. wk.job.id \in JobIds
    BY <1>5 DEF CloseJob, TypeInv, WorkersInv, WorkerOK, Lease
  <2>2. Kept(jobs, jobs')
    BY <1>1, <1>5, <2>1, RowUpdatesKept DEF CloseJob, TypeInv, QueueInv
  <2> DEFINE new == IF wk.sweeping /\ wk.batch = {} THEN IdleWorker
                    ELSE NextJob(wk.batch, wk.sweeping)
  <2>3. workers' = [workers EXCEPT ![w] = new]
    BY <1>5 DEF CloseJob, JobOver
  <2>4. \A j : Runs(new, j) => Runs(wk, j)
    <3>1. \A j : ~wk.sweeping /\ (\E l \in wk.batch : l.id = j) => Runs(wk, j)
      BY DEF Runs
    <3>2. CASE new = IdleWorker
      BY <3>2, NextJobRuns
    <3>3. CASE new = NextJob(wk.batch, wk.sweeping)
      BY <3>1, <3>3, NextJobRuns
    <3> QED
      BY <3>2, <3>3
  <2> HIDE DEF new
  <2> QED
    BY <2>2, <2>3, <2>4, WorkerBound
<1> QED
  BY <1>3, <1>4, <1>5

\* What a worker does with the job in hand leaves its leases alone.
SameLeases(wk, new) ==
    new.batch = wk.batch /\ new.job = wk.job /\ new.sweeping = wk.sweeping

LEMMA SameLeasesBound ==
    ASSUME TypeInv, HoldersBound, QueueInv', Kept(jobs, jobs'), NEW w \in Workers,
           NEW new, workers' = [workers EXCEPT ![w] = new], SameLeases(workers[w], new)
    PROVE  HoldersBound'
BY WorkerBound DEF SameLeases, Runs

LEMMA ScanBound ==
    ASSUME TypeInv, HoldersBound, QueueInv', NEW w \in Workers,
           ScannerAnswers(w) \/ ScannerFails(w)
    PROVE  HoldersBound'
<1> DEFINE wk == workers[w]
<1>1. wk.pc = "scan" /\ wk \in Worker
  BY DEF ScannerAnswers, ScannerFails, TypeInv, WorkersInv
<1>2. PICK found, done : Scanned(w, found, done)
  BY DEF ScannerAnswers, ScannerFails
<1> DEFINE pc == IF wk.at = Len(ScanOrder) THEN "record" ELSE "scan"
           new == [wk EXCEPT !.found = @ \cup found, !.done = @ \cup done, !.at = @ + 1,
                             !.pc = pc]
<1>3. workers' = [workers EXCEPT ![w] = new]
  BY <1>2 DEF Scanned
<1>4. SameLeases(wk, new)
  <2> HIDE DEF pc
  <2> QED  BY <1>1 DEF SameLeases, Worker
<1> HIDE DEF new
<1>5. Kept(jobs, jobs')
  <2>1. wk.job.id \in JobIds
    BY <1>1, ScannerNames
  <2>2. jobs' = jobs \/ jobs' = Heartbeat(jobs, wk.job.id)
    BY DEF ScannerAnswers, ScannerFails, Renew
  <2> QED
    BY <2>1, <2>2, RowUpdatesKept DEF TypeInv, QueueInv
<1> QED
  BY <1>3, <1>4, <1>5, SameLeasesBound

LEMMA RecordBound ==
    ASSUME TypeInv, HoldersBound, QueueInv', NEW w \in Workers,
           RecordRead(w) \/ RecordReadFindings(w) \/ RecordWrite(w) \/ RecordFails(w)
    PROVE  HoldersBound'
<1> DEFINE wk == workers[w]
<1>1. wk \in Worker /\ workers \in [Workers -> Worker]
  BY DEF TypeInv, WorkersInv
<1>2. jobs' = jobs /\ Kept(jobs, jobs)
  BY DEF RecordRead, RecordReadFindings, RecordWrite, RecordFails, Kept
<1>3. ASSUME NEW pc, NEW row, NEW now,
             workers' = [workers EXCEPT ![w] = [wk EXCEPT !.pc = pc, !.row = row, !.now = now]]
      PROVE  HoldersBound'
  <2> DEFINE new == [wk EXCEPT !.pc = pc, !.row = row, !.now = now]
  <2>1. SameLeases(wk, new)
    BY <1>1 DEF SameLeases, Worker
  <2>2. workers' = [workers EXCEPT ![w] = new]
    BY <1>3
  <2> HIDE DEF new
  <2> QED
    BY <1>2, <2>1, <2>2, SameLeasesBound
<1>4. /\ \A pc : [wk EXCEPT !.pc = pc] = [wk EXCEPT !.pc = pc, !.row = wk.row, !.now = wk.now]
      /\ \A pc, row : [wk EXCEPT !.pc = pc, !.row = row]
                      = [wk EXCEPT !.pc = pc, !.row = row, !.now = wk.now]
      /\ \A pc, now : [wk EXCEPT !.pc = pc, !.now = now]
                      = [wk EXCEPT !.pc = pc, !.row = wk.row, !.now = now]
      /\ \A pc, now, row : [wk EXCEPT !.pc = pc, !.now = now, !.row = row]
                           = [wk EXCEPT !.pc = pc, !.row = row, !.now = now]
  BY <1>1 DEF Worker
<1>5. CASE RecordRead(w)
  <2> DEFINE p == wk.job.pkg
  <2>1. PICK now :
          workers' = [workers EXCEPT ![w] =
             IF SplitRead(p)
             THEN [wk EXCEPT !.pc = "findings", !.row = verdict[p], !.now = now]
             ELSE [wk EXCEPT !.pc = "write",
                             !.row = Recorded(verdict[p], wk.found, wk.done, now)]]
    BY <1>5 DEF RecordRead
  <2>2. CASE SplitRead(p)
    <3>1. workers' = [workers EXCEPT ![w] =
                        [wk EXCEPT !.pc = "findings", !.row = verdict[p], !.now = now]]
      BY <2>1, <2>2
    <3> QED
      BY <1>3, <3>1
  <2>3. CASE ~SplitRead(p)
    <3> DEFINE row == Recorded(verdict[p], wk.found, wk.done, now)
    <3>1. workers' = [workers EXCEPT ![w] = [wk EXCEPT !.pc = "write", !.row = row]]
      BY <2>1, <2>3
    <3> HIDE DEF row
    <3>2. workers' = [workers EXCEPT ![w] =
                        [wk EXCEPT !.pc = "write", !.row = row, !.now = wk.now]]
      BY <1>4, <3>1
    <3> QED
      BY <1>3, <3>2
  <2> QED
    BY <2>2, <2>3
<1>6. CASE RecordReadFindings(w)
  <2> DEFINE row == Recorded(Joined(wk.row, wk.job.pkg), wk.found, wk.done, wk.now)
  <2>1. workers' = [workers EXCEPT ![w] =
                      [wk EXCEPT !.pc = "write", !.now = Undated, !.row = row]]
    BY <1>6 DEF RecordReadFindings
  <2> HIDE DEF row
  <2>2. workers' = [workers EXCEPT ![w] =
                      [wk EXCEPT !.pc = "write", !.row = row, !.now = Undated]]
    BY <1>4, <2>1
  <2> QED
    BY <1>3, <2>2
<1>7. CASE RecordWrite(w)
  <2>1. workers' = [workers EXCEPT ![w] = [wk EXCEPT !.pc = "close"]]
    BY <1>7 DEF RecordWrite
  <2>2. workers' = [workers EXCEPT ![w] =
                      [wk EXCEPT !.pc = "close", !.row = wk.row, !.now = wk.now]]
    BY <1>4, <2>1
  <2> QED
    BY <1>3, <2>2
<1>8. CASE RecordFails(w)
  <2> DEFINE pc == IF wk.sweeping THEN "close" ELSE "fail"
  <2>1. workers' = [workers EXCEPT ![w] = [wk EXCEPT !.pc = pc, !.now = Undated]]
    BY <1>8 DEF RecordFails
  <2> HIDE DEF pc
  <2>2. workers' = [workers EXCEPT ![w] =
                      [wk EXCEPT !.pc = pc, !.row = wk.row, !.now = Undated]]
    BY <1>4, <2>1
  <2> QED
    BY <1>3, <2>2
<1> QED
  BY <1>5, <1>6, <1>7, <1>8

\* Steps of everyone else: the queue stays, gets a job, or has a lease lapse.
LEMMA OthersBound ==
    ASSUME TypeInv, HoldersBound, QueueInv', workers' = workers,
           \/ jobs' = jobs
           \/ \E p, t, d : Enqueue(p, t, d)
           \/ \E j \in JobIds : jobs' = Failed(jobs, j)
    PROVE  HoldersBound'
<1>1. CASE jobs' = jobs \/ \E j \in JobIds : jobs' = Failed(jobs, j)
  <2>1. Kept(jobs, jobs')
    BY <1>1, RowUpdatesKept DEF Kept, TypeInv, QueueInv
  <2> QED
    BY <2>1, KeptBound
<1>2. CASE \E p, t, d : Enqueue(p, t, d)
  BY <1>2, EnqueueBound
<1> QED
  BY <1>1, <1>2

LEMMA NextBound ==
    ASSUME TypeInv, HoldersBound, [Next]_vars
    PROVE  HoldersBound'
<1>1. QueueInv'
  BY NextType DEF TypeInv
<1>2. ASSUME NEW w \in Workers, WorkerStep(w) \/ Crash(w)
      PROVE  HoldersBound'
  BY <1>1, <1>2, LeaseBatchBound, PassBound, ScanBound, RecordBound DEF WorkerStep
<1>3. ASSUME NEW r \in Readers, Gate(r)
      PROVE  HoldersBound'
  <2>1. workers' = workers /\ (jobs' = jobs \/ \E p, t, d : Enqueue(p, t, d))
    BY <1>3 DEF Gate, GateRead, GateReadFindings, GateEnqueue, GateHold, GateWriteBack,
                GateRefused, Publish
  <2> QED
    BY <1>1, <2>1, OthersBound
<1>4. ASSUME NEW a \in Admins,
             AdminStep(a) \/ \E p \in Pkgs, b \in BOOLEAN : SetStatus(a, p, b)
      PROVE  HoldersBound'
  <2>1. workers' = workers /\ (jobs' = jobs \/ \E p, t, d : Enqueue(p, t, d))
    BY <1>4 DEF AdminStep, AdminRead, AdminReadFindings, AdminWrite, AdminEnqueue,
                AdminFault, SetStatus
  <2> QED
    BY <1>1, <2>1, OthersBound
<1>5. ASSUME NEW f \in Flaggers,
             FlagStep(f) \/ RevokeFlag(f) \/ \E fl : PushFlag(f, fl)
      PROVE  HoldersBound'
  <2>1. workers' = workers /\ (jobs' = jobs \/ \E p, t, d : Enqueue(p, t, d))
    BY <1>5 DEF FlagStep, FlagRead, FlagReadFindings, FlagWrite, FlagReadFault, FlagCover,
                FlagEnqueue, RevokeFlag, PushFlag
  <2> QED
    BY <1>1, <2>1, OthersBound
<1>6. ASSUME NEW p \in Pkgs,
             \/ RescanTick(p) \/ Tick(p) \/ Disclose(p)
             \/ \E t \in OperatorTriggers : OperatorEnqueue(p, t)
      PROVE  HoldersBound'
  <2>1. workers' = workers /\ (jobs' = jobs \/ \E q, t, d : Enqueue(q, t, d))
    BY <1>6 DEF RescanTick, Tick, Disclose, OperatorEnqueue, procVars
  <2> QED
    BY <1>1, <2>1, OthersBound
<1>7. CASE (\E j \in JobIds : LeaseLapses(j)) \/ Reload \/ UNCHANGED vars
  <2>1. workers' = workers /\ (jobs' = jobs \/ \E j \in JobIds : jobs' = Failed(jobs, j))
    BY <1>7 DEF LeaseLapses, Failed, Reload, vars, procVars
  <2> QED
    BY <1>1, <2>1, OthersBound
<1> QED
  BY <1>2, <1>3, <1>4, <1>5, <1>6, <1>7 DEF Next

\* PgScanQueue::lease: for every number of workers and jobs, and through crashes,
\* lapsed leases, failed completions and re-queued versions, the workers that run
\* an open job are no more than the attempts it has spent, of which there are at
\* most max_attempts.
THEOREM LeasesAreCounted == Spec => []AttemptsBoundHolders
<1>1. Init => HoldersBound
  BY DEF Init, HoldersBound, OpenIds
<1>2. Init => TypeInv
  BY InitType
<1>3. TypeInv /\ HoldersBound /\ [Next]_vars => (TypeInv /\ HoldersBound)'
  BY NextType, NextBound
<1>4. HoldersBound => AttemptsBoundHolders
  BY DEF HoldersBound, AttemptsBoundHolders
<1> QED
  BY <1>1, <1>2, <1>3, <1>4, PTL DEF Spec

===============================================================================
