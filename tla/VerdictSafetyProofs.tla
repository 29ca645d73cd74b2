------------------------- MODULE VerdictSafetyProofs -------------------------
(***************************************************************************)
(* The safety of the verdict pipeline over a store that reads a row at     *)
(* once (InMemoryVerdictRepository): what `allowed' and the administrator's *)
(* word are worth, for every number of processes and every interleaving.   *)
(* Over Postgres both fail, because `get' is two statements.               *)
(***************************************************************************)
EXTENDS VerdictPipelineProofs

-----------------------------------------------------------------------------
(* RowOK, row by row. *)

LEMMA AnswersOnlyHelp ==
    ASSUME NEW ans, NEW more, ans \subseteq more, NEW p
    PROVE  /\ \A findings, done : Accounted(p, findings, done, ans)
                                    => Accounted(p, findings, done, more)
           /\ \A row : RowOK(p, row, ans) => RowOK(p, row, more)
<1>1. \A findings, done : Accounted(p, findings, done, ans)
                            => Accounted(p, findings, done, more)
  BY DEF Accounted
<1> QED
  BY <1>1 DEF RowOK

\* A required scanner's findings are not filed under a derived or internal name.
LEMMA RequiredIsExternal ==
    ASSUME NEW s \in Required
    PROVE  s \notin {AgeScanner, PendingScanner, BlockListScanner, FlagsScanner}
BY RequiredAssumption

LEMMA EvaluatedRow ==
    ASSUME NEW p, NEW ans, NEW findings \in SUBSET Finding, NEW done, NEW now, NEW scanned,
           Accounted(p, findings, done, ans)
    PROVE  RowOK(p, Evaluate(Policy, findings, done, now, scanned), ans)
<1> DEFINE row == Evaluate(Policy, findings, done, now, scanned)
<1>1. row.findings = AllFindings(Policy, findings, done, now) /\ row.done = done
  BY EvaluateFields
<1>2. /\ \A f \in findings : f.scanner \notin {AgeScanner, PendingScanner} =>
           \E g \in row.findings : g.scanner = f.scanner /\ g.kind = f.kind /\ g.code = f.code
      /\ \A g \in row.findings : g.kind = "scanner_error" =>
           \E f \in findings : /\ f.scanner \notin {AgeScanner, PendingScanner}
                               /\ g.scanner = f.scanner
                               /\ g.kind = f.kind /\ g.code = f.code
  BY <1>1, PolicyFacts, AllFindingsType
<1>3. row.state = "allowed" =>
        /\ Required \subseteq done
        /\ Policy.scanner_error \in {"quarantine", "warn"} =>
             \A f \in findings : f.scanner \notin {AgeScanner, PendingScanner}
                 => f.code \notin {"SCANNER_ERROR", "SCANNER_UNSUPPORTED"}
  BY PolicyFacts, AllowedNeedsScans DEF Required
<1>4. (\E f \in row.findings : f.code \in AlwaysDenied) => row.state = "denied"
  BY AlwaysDeniedDenies
<1> HIDE DEF row
<1>5. Accounted(p, row.findings, row.done, ans)
  BY <1>1, <1>2, RequiredIsExternal DEF Accounted, HasError
<1>6. ASSUME row.state = "allowed", Policy.scanner_error # "ignore", NEW s \in Required
      PROVE  ~HasError(row.findings, s)
  BY <1>2, <1>3, <1>6, PolicyAssumption DEF HasError
<1>7. RowOK(p, row, ans)
  BY <1>1, <1>3, <1>4, <1>5, <1>6 DEF RowOK
<1> QED
  BY <1>7 DEF row

LEMMA StoredAccounted ==
    ASSUME NEW p, NEW ans, NEW row \in Row \cup {None}, row # None => RowOK(p, row, ans)
    PROVE  Accounted(p, Stored(row).findings, Stored(row).done, ans)
BY DEF Stored, RowOK, Accounted

\* The transition on read and the first-sight hold.
LEMMA FreshRow ==
    ASSUME NEW p, NEW ans, NEW row \in Row \cup {None}, row # None => RowOK(p, row, ans),
           NEW now
    PROVE  RowOK(p, Fresh(row, now), ans)
BY StoredType, StoredAccounted, EvaluatedRow DEF Fresh

\* record_scan: a marker taken over from the previous row brings its error along.
LEMMA RecordedRow ==
    ASSUME NEW p, NEW ans, NEW row \in Row \cup {None}, row # None => RowOK(p, row, ans),
           NEW found \in SUBSET Finding, NEW done, NEW now,
           Accounted(p, found, done, ans)
    PROVE  RowOK(p, Recorded(row, found, done, now), ans)
<1> DEFINE all == found \cup Carried(row, done)
           markers == done \cup Stored(row).done
<1>1. Accounted(p, all, markers, ans)
  <2>1. ASSUME NEW s \in Required, s \in Stored(row).done \ done, <<p, s>> \notin ans
        PROVE  HasError(all, s)
    <3>1. HasError(Stored(row).findings, s)
      BY <2>1, StoredAccounted DEF Accounted
    <3> QED
      BY <2>1, <3>1 DEF HasError, Carried
  <2>2. ASSUME NEW s \in Required, s \in done, <<p, s>> \notin ans
        PROVE  HasError(all, s)
    BY <2>2 DEF Accounted, HasError
  <2> QED
    BY <2>1, <2>2 DEF Accounted
<1>2. all \in SUBSET Finding
  BY CarriedType
<1> HIDE DEF all, markers
<1>3. RowOK(p, Evaluate(Policy, all, markers, now, TRUE), ans)
  BY <1>1, <1>2, EvaluatedRow
<1> QED
  BY <1>3 DEF Recorded, all, markers

\* Blocking denies; unblocking takes away only the block's own finding.
LEMMA RewrittenOK ==
    ASSUME NEW p, NEW ans, NEW row \in Row, RowOK(p, row, ans), NEW block \in BOOLEAN
    PROVE  RowOK(p, Rewritten(row, block), ans)
<1> DEFINE new == Rewritten(row, block)
           kept == {f \in row.findings : f.scanner # BlockListScanner /\ f.kind # "block_list"}
<1>1. /\ new.done = row.done
      /\ block => new.state = "denied" /\ new.findings = kept \cup {BlockFinding}
      /\ ~block => new.state = row.state /\ new.findings = kept
  BY RewrittenRow
<1>2. kept \subseteq row.findings /\ kept \subseteq new.findings
  BY <1>1
<1>3. \A s \in Required : HasError(row.findings, s) => HasError(kept, s)
  BY RequiredIsExternal DEF HasError
<1> HIDE DEF new, kept
<1>4. Accounted(p, new.findings, new.done, ans)
  BY <1>1, <1>2, <1>3 DEF RowOK, Accounted, HasError
<1>5. RowOK(p, new, ans)
  <2>1. CASE block
    BY <1>1, <1>4, <2>1 DEF RowOK
  <2>2. CASE ~block
    BY <1>1, <1>2, <1>4, <2>2 DEF RowOK, HasError
  <2> QED  BY <2>1, <2>2
<1> QED
  BY <1>5 DEF new

\* A flag's denial replaces the flag's own finding and no scanner's error.
LEMMA FlaggedOK ==
    ASSUME NEW p, NEW ans, NEW row \in Row, RowOK(p, row, ans), NEW fl
    PROVE  RowOK(p, Flagged(row, fl), ans)
<1> DEFINE new == Flagged(row, fl)
           kept == {f \in row.findings : f.scanner # FlagsScanner \/ f.ref # FlagFinding(fl).ref}
<1>1. /\ new.done = row.done /\ new.state = "denied"
      /\ new.findings = kept \cup {FlagFinding(fl)}
  BY FlaggedRow
<1>2. \A s \in Required : HasError(row.findings, s) => HasError(kept, s)
  BY RequiredIsExternal DEF HasError
<1> HIDE DEF new, kept
<1>3. Accounted(p, new.findings, new.done, ans)
  BY <1>1, <1>2 DEF RowOK, Accounted, HasError
<1> QED
  BY <1>1, <1>3 DEF RowOK, new

-----------------------------------------------------------------------------
(* The invariant: RowsAccounted, over whole rows.  In memory a read is one   *)
(* call, so nobody is ever between its two statements.                       *)

Memory == Store = "memory"

StoreSafe == \A p \in Pkgs : verdict[p] # None => RowOK(p, verdict[p], answered)

ReaderSafe(rd, ans) == ReaderAccounted(rd, ans) /\ rd.pc # "findings"
WorkerSafe(wk, ans) == WorkerAccounted(wk, ans) /\ wk.pc # "findings"
AdminSafe(ad, ans) == AdminAccounted(ad, ans) /\ ad.pc # "findings"
FlaggerSafe(fg, ans) == FlaggerAccounted(fg, ans) /\ fg.pc # "findings"

ReadersSafe == \A r \in Readers : ReaderSafe(readers[r], answered)
WorkersSafe == \A w \in Workers : WorkerSafe(workers[w], answered)
AdminsSafe == \A a \in Admins : AdminSafe(admins[a], answered)
FlaggersSafe == \A f \in Flaggers : FlaggerSafe(flaggers[f], answered)
ServedSafe == Policy.scanner_error # "ignore" => \A p \in served : AllAnswered(p)

SafeInv == /\ StoreSafe /\ ServedSafe
           /\ ReadersSafe /\ WorkersSafe /\ AdminsSafe /\ FlaggersSafe

LEMMA SafeInvRowsAccounted == SafeInv => RowsAccounted
BY DEF SafeInv, StoreSafe, ReadersSafe, WorkersSafe, AdminsSafe, FlaggersSafe,
       ReaderSafe, WorkerSafe, AdminSafe, FlaggerSafe, RowsAccounted

\* An allowed row has been answered for by every required scanner.
LEMMA AllowedAnswered ==
    ASSUME NEW p, NEW row, RowOK(p, row, answered), row.state = "allowed",
           Policy.scanner_error # "ignore"
    PROVE  AllAnswered(p)
BY DEF RowOK, Accounted, AllAnswered

\* What a step leaves alone stays safe while answers accumulate.
LEMMA SafeKeep ==
    ASSUME SafeInv, answered \subseteq answered'
    PROVE  /\ verdict' = verdict => StoreSafe'
           /\ served' = served => ServedSafe'
           /\ readers' = readers => ReadersSafe'
           /\ workers' = workers => WorkersSafe'
           /\ admins' = admins => AdminsSafe'
           /\ flaggers' = flaggers => FlaggersSafe'
<1>1. verdict' = verdict => StoreSafe'
  BY AnswersOnlyHelp DEF SafeInv, StoreSafe
<1>2. served' = served => ServedSafe'
  BY DEF SafeInv, ServedSafe, AllAnswered
<1>3. readers' = readers => ReadersSafe'
  BY AnswersOnlyHelp DEF SafeInv, ReadersSafe, ReaderSafe, ReaderAccounted
<1>4. workers' = workers => WorkersSafe'
  BY AnswersOnlyHelp DEF SafeInv, WorkersSafe, WorkerSafe, WorkerAccounted
<1>5. admins' = admins => AdminsSafe'
  BY AnswersOnlyHelp DEF SafeInv, AdminsSafe, AdminSafe, AdminAccounted
<1>6. flaggers' = flaggers => FlaggersSafe'
  BY AnswersOnlyHelp DEF SafeInv, FlaggersSafe, FlaggerSafe, FlaggerAccounted
<1> QED
  BY <1>1, <1>2, <1>3, <1>4, <1>5, <1>6

LEMMA SafeWrite ==
    ASSUME TypeInv, SafeInv, answered' = answered, NEW p, NEW row, RowOK(p, row, answered),
           verdict' = [verdict EXCEPT ![p] = row]
    PROVE  StoreSafe'
<1>1. ASSUME NEW q \in Pkgs, verdict'[q] # None
      PROVE  RowOK(q, verdict'[q], answered)
  BY <1>1 DEF SafeInv, StoreSafe, TypeInv, StoreInv
<1> QED
  BY <1>1 DEF StoreSafe

LEMMA ReaderSafeMoves ==
    ASSUME TypeInv, SafeInv, answered' = answered, NEW r \in Readers, NEW rd,
           ReaderSafe(rd, answered), readers' = [readers EXCEPT ![r] = rd]
    PROVE  ReadersSafe'
BY DEF SafeInv, ReadersSafe, TypeInv, ReadersInv

LEMMA WorkerSafeMoves ==
    ASSUME TypeInv, SafeInv, answered \subseteq answered', NEW w \in Workers, NEW wk,
           WorkerSafe(wk, answered'), workers' = [workers EXCEPT ![w] = wk]
    PROVE  WorkersSafe'
<1>1. \A v \in Workers : WorkerSafe(workers[v], answered')
  BY AnswersOnlyHelp DEF SafeInv, WorkersSafe, WorkerSafe, WorkerAccounted
<1> QED
  BY <1>1 DEF WorkersSafe, TypeInv, WorkersInv

LEMMA AdminSafeMoves ==
    ASSUME TypeInv, SafeInv, answered' = answered, NEW a \in Admins, NEW ad,
           AdminSafe(ad, answered), admins' = [admins EXCEPT ![a] = ad]
    PROVE  AdminsSafe'
BY DEF SafeInv, AdminsSafe, TypeInv, AdminsInv

LEMMA FlaggerSafeMoves ==
    ASSUME TypeInv, SafeInv, answered' = answered, NEW f \in Flaggers, NEW fg,
           FlaggerSafe(fg, answered), flaggers' = [flaggers EXCEPT ![f] = fg]
    PROVE  FlaggersSafe'
BY DEF SafeInv, FlaggersSafe, TypeInv, FlaggersInv

LEMMA IdleSafe ==
    ASSUME NEW ans
    PROVE  /\ ReaderSafe(IdleReader, ans)
           /\ WorkerSafe(IdleWorker, ans)
           /\ AdminSafe(IdleAdmin, ans)
           /\ FlaggerSafe(IdleFlagger, ans)
BY DEF IdleReader, IdleWorker, IdleAdmin, IdleFlagger, ReaderSafe, WorkerSafe, AdminSafe,
       FlaggerSafe, ReaderAccounted, WorkerAccounted, AdminAccounted, FlaggerAccounted

LEMMA InitSafe == Init => SafeInv
<1> SUFFICES ASSUME Init PROVE SafeInv
  OBVIOUS
<1>1. StoreSafe /\ ServedSafe
  BY DEF Init, StoreSafe, ServedSafe
<1>2. ReadersSafe /\ WorkersSafe /\ AdminsSafe /\ FlaggersSafe
  BY IdleSafe DEF Init, ReadersSafe, WorkersSafe, AdminsSafe, FlaggersSafe
<1> QED
  BY <1>1, <1>2 DEF SafeInv

-----------------------------------------------------------------------------
(* The gate. *)

\* A decision on an accounted row.
LEMMA DecidedSafe ==
    ASSUME SafeInv, answered' = answered, NEW p, NEW row, RowOK(p, row, answered),
           Decided(p, row)
    PROVE  ServedSafe'
BY AllowedAnswered DEF Decided, SafeInv, ServedSafe, AllAnswered

LEMMA GateReadSafe ==
    ASSUME Memory, TypeInv, SafeInv, NEW r \in Readers, NEW p \in Pkgs, GateRead(r, p)
    PROVE  SafeInv'
<1> DEFINE fresh == Fresh(verdict[p], age[p])
           to(pc) == [pc |-> pc, pkg |-> p, row |-> fresh, now |-> Undated]
<1>1. ~SplitRead(p)
  BY DEF Memory, SplitRead
<1>2. verdict[p] \in Row \cup {None} /\ (verdict[p] # None => RowOK(p, verdict[p], answered))
  BY DEF TypeInv, StoreInv, SafeInv, StoreSafe
<1>3. RowOK(p, fresh, answered)
  BY <1>2, FreshRow
<1>4. answered' = answered /\ answered \subseteq answered'
  BY DEF GateRead
<1>5. Judge(r, p, verdict[p], age[p])
  BY <1>1 DEF GateRead
<1>6. \/ readers' = [readers EXCEPT ![r] = to("enqueue")]
      \/ readers' = [readers EXCEPT ![r] = to("writeback")]
      \/ readers' = [readers EXCEPT ![r] = IdleReader]
  BY <1>5 DEF Judge
<1>7. ReaderSafe(to("enqueue"), answered) /\ ReaderSafe(to("writeback"), answered)
  <2> HIDE DEF fresh
  <2> QED  BY <1>3 DEF ReaderSafe, ReaderAccounted
<1>8. ReadersSafe'
  <2> HIDE DEF to
  <2> QED  BY <1>4, <1>6, <1>7, IdleSafe, ReaderSafeMoves
<1>9. served' = served \/ Decided(p, fresh)
  BY <1>5 DEF Judge
<1>10. ServedSafe'
  <2> HIDE DEF fresh
  <2> QED  BY <1>3, <1>4, <1>9, DecidedSafe, SafeKeep
<1> QED
  BY <1>4, <1>8, <1>10, SafeKeep DEF GateRead, SafeInv

LEMMA GateEnqueueSafe ==
    ASSUME TypeInv, SafeInv, NEW r \in Readers, GateEnqueue(r)
    PROVE  SafeInv'
<1> DEFINE rd == readers[r]
           new == [rd EXCEPT !.pc = "hold"]
<1>1. rd \in Reader /\ RowOK(rd.pkg, rd.row, answered)
  BY DEF GateEnqueue, TypeInv, ReadersInv, SafeInv, ReadersSafe, ReaderSafe, ReaderAccounted
<1>2. new.pc = "hold" /\ new.pkg = rd.pkg /\ new.row = rd.row
  BY <1>1 DEF Reader
<1>3. readers' = [readers EXCEPT ![r] = new] /\ answered' = answered
      /\ answered \subseteq answered'
  BY DEF GateEnqueue, histVars
<1> HIDE DEF new
<1>4. ReadersSafe'
  BY <1>1, <1>2, <1>3, ReaderSafeMoves DEF ReaderSafe, ReaderAccounted
<1> QED
  BY <1>3, <1>4, SafeKeep DEF GateEnqueue, histVars, SafeInv

LEMMA GateEndSafe ==
    ASSUME TypeInv, SafeInv, NEW r \in Readers, readers[r].pc \in {"hold", "writeback"},
           \/ verdict' = [verdict EXCEPT ![readers[r].pkg] = readers[r].row]
           \/ verdict' = verdict,
           readers' = [readers EXCEPT ![r] = IdleReader],
           Decided(readers[r].pkg, readers[r].row),
           UNCHANGED <<workers, admins, flaggers, answered>>
    PROVE  SafeInv'
<1>1. RowOK(readers[r].pkg, readers[r].row, answered)
  BY DEF SafeInv, ReadersSafe, ReaderSafe, ReaderAccounted
<1>2. answered' = answered /\ answered \subseteq answered'
  OBVIOUS
<1>3. StoreSafe'
  BY <1>1, <1>2, SafeWrite, SafeKeep
<1>4. ReadersSafe'
  BY <1>2, IdleSafe, ReaderSafeMoves
<1>5. ServedSafe'
  BY <1>1, <1>2, DecidedSafe
<1> QED
  BY <1>2, <1>3, <1>4, <1>5, SafeKeep DEF SafeInv

LEMMA GateRefusedSafe ==
    ASSUME TypeInv, SafeInv, NEW r \in Readers, GateRefused(r)
    PROVE  SafeInv'
<1>1. answered' = answered /\ answered \subseteq answered'
  BY DEF GateRefused, histVars
<1>2. ReadersSafe'
  BY <1>1, IdleSafe, ReaderSafeMoves DEF GateRefused
<1> QED
  BY <1>1, <1>2, SafeKeep DEF GateRefused, histVars, SafeInv

LEMMA PublishSafe ==
    ASSUME TypeInv, SafeInv, NEW r \in Readers, NEW p \in Pkgs, Publish(r, p)
    PROVE  SafeInv'
<1> DEFINE row == Evaluate(Policy, {}, {}, age[p], FALSE)
           rd == [pc |-> "enqueue", pkg |-> p, row |-> row, now |-> Undated]
<1>1. RowOK(p, row, answered)
  BY EvaluatedRow DEF Accounted
<1>2. ReaderSafe(rd, answered)
  <2> HIDE DEF row
  <2> QED  BY <1>1 DEF ReaderSafe, ReaderAccounted
<1>3. readers' = [readers EXCEPT ![r] = rd] \/ readers' = readers
  BY DEF Publish
<1>4. answered' = answered /\ answered \subseteq answered'
  BY DEF Publish, histVars
<1> HIDE DEF rd
<1>5. ReadersSafe'
  BY <1>2, <1>3, <1>4, ReaderSafeMoves, SafeKeep
<1> QED
  BY <1>4, <1>5, SafeKeep DEF Publish, histVars, SafeInv

LEMMA GateSafe ==
    ASSUME Memory, TypeInv, SafeInv, NEW r \in Readers, Gate(r)
    PROVE  SafeInv'
<1>1. ASSUME NEW p \in Pkgs, GateRead(r, p) PROVE SafeInv'
  BY <1>1, GateReadSafe
<1>2. ~GateReadFindings(r)
  BY DEF GateReadFindings, SafeInv, ReadersSafe, ReaderSafe
<1>3. CASE GateEnqueue(r)
  BY <1>3, GateEnqueueSafe
<1>4. CASE GateHold(r)
  BY <1>4, GateEndSafe DEF GateHold
<1>5. CASE GateWriteBack(r)
  BY <1>5, GateEndSafe DEF GateWriteBack
<1>6. CASE GateRefused(r)
  BY <1>6, GateRefusedSafe
<1>7. ASSUME NEW p \in Pkgs, Publish(r, p) PROVE SafeInv'
  BY <1>7, PublishSafe
<1> QED
  BY <1>1, <1>2, <1>3, <1>4, <1>5, <1>6, <1>7 DEF Gate

-----------------------------------------------------------------------------
(* The workers. *)

\* A worker moves; nothing is written and nobody answers.
LEMMA WorkerAloneSafe ==
    ASSUME TypeInv, SafeInv, NEW w \in Workers, NEW wk, WorkerSafe(wk, answered),
           workers' = [workers EXCEPT ![w] = wk],
           UNCHANGED <<verdict, readers, admins, flaggers, histVars>>
    PROVE  SafeInv'
<1>1. answered' = answered /\ answered \subseteq answered'
  BY DEF histVars
<1>2. WorkersSafe'
  BY <1>1, WorkerSafeMoves
<1> QED
  BY <1>1, <1>2, SafeKeep DEF histVars, SafeInv

LEMMA NextJobSafe ==
    ASSUME NEW batch, NEW sweeping, NEW ans
    PROVE  WorkerSafe(NextJob(batch, sweeping), ans)
<1>1. NextJob(batch, sweeping).pc = "next"
  BY DEF NextJob, IdleWorker
<1> QED
  BY <1>1 DEF WorkerSafe, WorkerAccounted

LEMMA StartJobSafe ==
    ASSUME TypeInv, SafeInv, NEW w \in Workers, StartJob(w)
    PROVE  SafeInv'
<1> DEFINE wk == workers[w]
           errors == {ErrorFinding(s, "SCANNER_ERROR") : s \in Required}
           found == IF secured /\ wk.sweeping THEN errors ELSE {}
           done == IF secured /\ wk.sweeping THEN Required ELSE {}
           pc == IF ~secured THEN "close" ELSE IF wk.sweeping THEN "record" ELSE "scan"
           new(l) == [wk EXCEPT !.batch = @ \ {l}, !.job = l, !.pc = pc,
                                !.found = found, !.done = done]
<1>1. PICK l \in wk.batch : workers' = [workers EXCEPT ![w] = new(l)]
  BY DEF StartJob
<1>2. wk \in Worker
  BY DEF TypeInv, WorkersInv
<1>3. \A s \in Required : HasError(errors, s)
  BY RequiredNames, ErrorFindingType DEF HasError
<1>4. Accounted(l.pkg, found, done, answered)
  <2> HIDE DEF errors
  <2> QED  BY <1>3 DEF Accounted
<1>5. pc \in {"close", "record", "scan"}
  OBVIOUS
<1>6. WorkerSafe(new(l), answered)
  <2> HIDE DEF found, done, pc
  <2>1. /\ new(l).pc = pc /\ new(l).job = l
        /\ new(l).found = found /\ new(l).done = done
    BY <1>2 DEF Worker
  <2> HIDE DEF new
  <2> QED  BY <1>4, <1>5, <2>1 DEF WorkerSafe, WorkerAccounted
<1> HIDE DEF new
<1> QED
  BY <1>1, <1>6, WorkerAloneSafe DEF StartJob

\* What run_scanner leaves accounts for its markers when every new one has answered.
LEMMA ScannedSafe ==
    ASSUME TypeInv, SafeInv, NEW w \in Workers, workers[w].pc = "scan",
           NEW found \in SUBSET Finding, NEW done \in SUBSET Names, Scanned(w, found, done),
           NEW ans \in SUBSET (Pkgs \X Names), answered \subseteq ans,
           \A s \in done : <<workers[w].job.pkg, s>> \in ans
    PROVE  \E wk : workers' = [workers EXCEPT ![w] = wk] /\ WorkerSafe(wk, ans)
<1> DEFINE wk == workers[w]
           pc == IF wk.at = Len(ScanOrder) THEN "record" ELSE "scan"
           new == [wk EXCEPT !.found = @ \cup found, !.done = @ \cup done, !.at = @ + 1,
                             !.pc = pc]
<1>1. wk \in Worker
  BY DEF TypeInv, WorkersInv
<1>2. Accounted(wk.job.pkg, wk.found, wk.done, answered)
  BY DEF SafeInv, WorkersSafe, WorkerSafe, WorkerAccounted
<1>3. Accounted(wk.job.pkg, wk.found \cup found, wk.done \cup done, ans)
  BY <1>2 DEF Accounted, HasError
<1>4. pc \in {"record", "scan"}
  OBVIOUS
<1>5. WorkerSafe(new, ans)
  <2> HIDE DEF pc
  <2>1. /\ new.pc = pc /\ new.job = wk.job
        /\ new.found = wk.found \cup found /\ new.done = wk.done \cup done
    BY <1>1 DEF Worker
  <2> HIDE DEF new
  <2> QED  BY <1>3, <1>4, <2>1 DEF WorkerSafe, WorkerAccounted
<1>6. workers' = [workers EXCEPT ![w] = new]
  BY DEF Scanned
<1> QED
  BY <1>5, <1>6

LEMMA ScannerAnswersSafe ==
    ASSUME TypeInv, SafeInv, NEW w \in Workers, ScannerAnswers(w)
    PROVE  SafeInv'
<1> DEFINE s == ScanOrder[workers[w].at]
           p == workers[w].job.pkg
<1>1. answered' = answered \cup {<<p, s>>} /\ answered \subseteq answered'
  BY DEF ScannerAnswers
<1>2. PICK wk : workers' = [workers EXCEPT ![w] = wk] /\ WorkerSafe(wk, answered')
  <2>1. workers[w].pc = "scan" /\ Scanned(w, Says(s, p), {s})
    BY DEF ScannerAnswers
  <2>2. \A x \in {s} : <<workers[w].job.pkg, x>> \in answered'
    BY <1>1
  <2>3. Says(s, p) \in SUBSET Finding /\ {s} \in SUBSET Names
    BY <2>1, ScannerNames, SaysType
  <2>4. answered' \in SUBSET (Pkgs \X Names)
    BY <1>1, <2>1, ScannerNames DEF TypeInv, WorldInv
  <2> HIDE DEF s, p
  <2> QED  BY <1>1, <2>1, <2>2, <2>3, <2>4, ScannedSafe
<1>3. WorkersSafe'
  BY <1>1, <1>2, WorkerSafeMoves
<1> QED
  BY <1>1, <1>3, SafeKeep DEF ScannerAnswers, SafeInv

LEMMA ScannerFailsSafe ==
    ASSUME TypeInv, SafeInv, NEW w \in Workers, ScannerFails(w)
    PROVE  SafeInv'
<1>1. PICK wk : workers' = [workers EXCEPT ![w] = wk] /\ WorkerSafe(wk, answered)
  <2> DEFINE s == ScanOrder[workers[w].at]
             said(code) == IF s \in Enrichers THEN {} ELSE {ErrorFinding(s, code)}
             nobody == {}
  <2>1. PICK code \in ErrorCodes : Scanned(w, said(code), nobody)
    BY DEF ScannerFails
  <2>2. workers[w].pc = "scan"
    BY DEF ScannerFails
  <2>3. said(code) \in SUBSET Finding
    BY <2>2, ScannerNames, ErrorFindingType, ErrorCodesAssumption
  <2>4. answered \in SUBSET (Pkgs \X Names) /\ answered \subseteq answered
    BY DEF TypeInv, WorldInv
  <2>5. nobody \in SUBSET Names /\ \A x \in nobody : <<workers[w].job.pkg, x>> \in answered
    OBVIOUS
  <2> HIDE DEF said, nobody
  <2> QED  BY <2>1, <2>2, <2>3, <2>4, <2>5, ScannedSafe
<1> QED
  BY <1>1, WorkerAloneSafe DEF ScannerFails

LEMMA RecordReadSafe ==
    ASSUME Memory, TypeInv, SafeInv, NEW w \in Workers, RecordRead(w)
    PROVE  SafeInv'
<1> DEFINE wk == workers[w]
           p == wk.job.pkg
           row(now) == Recorded(verdict[p], wk.found, wk.done, now)
           new(now) == [wk EXCEPT !.pc = "write", !.row = row(now)]
<1>1. wk \in Worker /\ p \in Pkgs /\ verdict[p] \in Row \cup {None}
      /\ wk.found \in SUBSET Finding
  BY DEF RecordRead, TypeInv, StoreInv, WorkersInv, WorkerOK, Lease, Worker
<1>2. PICK now : workers' = [workers EXCEPT ![w] = new(now)]
  BY DEF RecordRead, Memory, SplitRead
<1>3. Accounted(p, wk.found, wk.done, answered)
  BY DEF RecordRead, SafeInv, WorkersSafe, WorkerSafe, WorkerAccounted
<1>4. RowOK(p, row(now), answered)
  BY <1>1, <1>3, RecordedRow DEF SafeInv, StoreSafe
<1>5. WorkerSafe(new(now), answered)
  <2> HIDE DEF row
  <2>1. /\ new(now).pc = "write" /\ new(now).job = wk.job /\ new(now).row = row(now)
        /\ new(now).found = wk.found /\ new(now).done = wk.done
    BY <1>1 DEF Worker
  <2> HIDE DEF new
  <2> QED  BY <1>3, <1>4, <2>1 DEF WorkerSafe, WorkerAccounted
<1> HIDE DEF new
<1> QED
  BY <1>2, <1>5, WorkerAloneSafe DEF RecordRead

LEMMA RecordWriteSafe ==
    ASSUME TypeInv, SafeInv, NEW w \in Workers, RecordWrite(w)
    PROVE  SafeInv'
<1> DEFINE wk == workers[w]
           new == [wk EXCEPT !.pc = "close"]
<1>1. wk \in Worker /\ RowOK(wk.job.pkg, wk.row, answered)
  BY DEF RecordWrite, TypeInv, WorkersInv, SafeInv, WorkersSafe, WorkerSafe, WorkerAccounted
<1>2. answered' = answered /\ answered \subseteq answered'
  BY DEF RecordWrite, histVars
<1>3. StoreSafe'
  BY <1>1, <1>2, SafeWrite DEF RecordWrite
<1>4. new.pc = "close"
  BY <1>1 DEF Worker
<1>5. workers' = [workers EXCEPT ![w] = new]
  BY DEF RecordWrite
<1> HIDE DEF new
<1>6. WorkersSafe'
  BY <1>2, <1>4, <1>5, WorkerSafeMoves DEF WorkerSafe, WorkerAccounted
<1> QED
  BY <1>2, <1>3, <1>6, SafeKeep DEF RecordWrite, histVars, SafeInv

LEMMA RecordFailsSafe ==
    ASSUME TypeInv, SafeInv, NEW w \in Workers, RecordFails(w)
    PROVE  SafeInv'
<1> DEFINE wk == workers[w]
           pc == IF wk.sweeping THEN "close" ELSE "fail"
           new == [wk EXCEPT !.pc = pc, !.now = Undated]
<1>1. wk \in Worker /\ pc \in {"close", "fail"}
  BY DEF TypeInv, WorkersInv
<1>2. WorkerSafe(new, answered)
  <2> HIDE DEF pc
  <2>1. new.pc = pc
    BY <1>1 DEF Worker
  <2> HIDE DEF new
  <2> QED  BY <1>1, <2>1 DEF WorkerSafe, WorkerAccounted
<1>3. workers' = [workers EXCEPT ![w] = new]
  BY DEF RecordFails
<1> HIDE DEF new
<1> QED
  BY <1>2, <1>3, WorkerAloneSafe DEF RecordFails

\* LeaseBatch, Sweep, CloseJob and Crash: the worker is between two jobs, or idle.
LEMMA PassSafe ==
    ASSUME TypeInv, SafeInv, NEW w \in Workers,
           LeaseBatch(w) \/ Sweep(w) \/ CloseJob(w) \/ Crash(w)
    PROVE  SafeInv'
<1>1. \E wk : workers' = [workers EXCEPT ![w] = wk] /\ WorkerSafe(wk, answered)
  BY NextJobSafe, IdleSafe DEF LeaseBatch, Sweep, CloseJob, JobOver, Crash
<1> QED
  BY <1>1, WorkerAloneSafe DEF LeaseBatch, Sweep, CloseJob, Crash

LEMMA WorkerStepSafe ==
    ASSUME Memory, TypeInv, SafeInv, NEW w \in Workers, WorkerStep(w) \/ Crash(w)
    PROVE  SafeInv'
<1>1. ~RecordReadFindings(w)
  BY DEF RecordReadFindings, SafeInv, WorkersSafe, WorkerSafe
<1> QED
  BY <1>1, PassSafe, StartJobSafe, ScannerAnswersSafe, ScannerFailsSafe, RecordReadSafe,
     RecordWriteSafe, RecordFailsSafe DEF WorkerStep

-----------------------------------------------------------------------------
(* The administrators. *)

LEMMA AdminAloneSafe ==
    ASSUME TypeInv, SafeInv, NEW a \in Admins, NEW ad, AdminSafe(ad, answered),
           admins' = [admins EXCEPT ![a] = ad], StoreSafe',
           UNCHANGED <<readers, workers, flaggers, histVars>>
    PROVE  SafeInv'
<1>1. answered' = answered /\ answered \subseteq answered'
  BY DEF histVars
<1>2. AdminsSafe'
  BY <1>1, AdminSafeMoves
<1> QED
  BY <1>1, <1>2, SafeKeep DEF histVars, SafeInv

LEMMA SetStatusSafe ==
    ASSUME TypeInv, SafeInv, NEW a \in Admins, NEW p \in Pkgs, NEW b \in BOOLEAN,
           SetStatus(a, p, b)
    PROVE  SafeInv'
<1> DEFINE ad == [pc |-> "read", pkg |-> p, block |-> b, row |-> None]
<1>1. answered' = answered /\ answered \subseteq answered'
  BY DEF SetStatus, histVars
<1>2. AdminSafe(ad, answered)
  BY DEF AdminSafe, AdminAccounted
<1>3. admins' = [admins EXCEPT ![a] = ad] \/ admins' = admins
  BY DEF SetStatus
<1> HIDE DEF ad
<1>4. AdminsSafe'
  BY <1>1, <1>2, <1>3, AdminSafeMoves, SafeKeep
<1> QED
  BY <1>1, <1>4, SafeKeep DEF SetStatus, histVars, SafeInv

LEMMA AdminReadSafe ==
    ASSUME Memory, TypeInv, SafeInv, NEW a \in Admins, AdminRead(a)
    PROVE  SafeInv'
<1> DEFINE ad == admins[a]
           p == ad.pkg
           row == Rewritten(verdict[p], ad.block)
           skip == [ad EXCEPT !.pc = "enqueue"]
           full == [ad EXCEPT !.pc = "write", !.row = row]
           new == IF verdict[p] = None THEN skip ELSE full
<1>1. ad \in Admin /\ p \in Pkgs /\ verdict[p] \in Row \cup {None} /\ ad.block \in BOOLEAN
  BY DEF AdminRead, TypeInv, AdminsInv, AdminOK, StoreInv, Admin
<1>2. AdminSafe(skip, answered)
  BY <1>1 DEF AdminSafe, AdminAccounted, Admin
<1>3. verdict[p] # None => AdminSafe(full, answered)
  <2>1. verdict[p] # None => RowOK(p, row, answered)
    BY <1>1, RewrittenOK DEF SafeInv, StoreSafe
  <2> HIDE DEF row
  <2>2. full.pc = "write" /\ full.pkg = p /\ full.row = row
    BY <1>1 DEF Admin
  <2> HIDE DEF full
  <2> QED  BY <2>1, <2>2 DEF AdminSafe, AdminAccounted
<1>4. AdminSafe(new, answered)
  <2> HIDE DEF skip, full
  <2> QED  BY <1>2, <1>3
<1>5. admins' = [admins EXCEPT ![a] = new]
  BY DEF AdminRead, Memory, SplitRead
<1>6. StoreSafe'
  BY SafeKeep DEF AdminRead, histVars
<1> HIDE DEF new
<1> QED
  BY <1>4, <1>5, <1>6, AdminAloneSafe DEF AdminRead

LEMMA AdminWriteSafe ==
    ASSUME TypeInv, SafeInv, NEW a \in Admins, AdminWrite(a)
    PROVE  SafeInv'
<1> DEFINE ad == admins[a]
           new == [ad EXCEPT !.pc = "enqueue", !.row = None]
<1>1. ad \in Admin /\ RowOK(ad.pkg, ad.row, answered)
  BY DEF AdminWrite, TypeInv, AdminsInv, SafeInv, AdminsSafe, AdminSafe, AdminAccounted
<1>2. AdminSafe(new, answered)
  BY <1>1 DEF AdminSafe, AdminAccounted, Admin
<1>3. StoreSafe'
  BY <1>1, SafeWrite DEF AdminWrite, histVars
<1>4. admins' = [admins EXCEPT ![a] = new]
  BY DEF AdminWrite
<1> HIDE DEF new
<1> QED
  BY <1>2, <1>3, <1>4, AdminAloneSafe DEF AdminWrite

LEMMA AdminEndSafe ==
    ASSUME TypeInv, SafeInv, NEW a \in Admins, AdminEnqueue(a) \/ AdminFault(a)
    PROVE  SafeInv'
<1> DEFINE ad == admins[a]
           skip == [ad EXCEPT !.pc = "enqueue", !.row = None]
<1>1. ad \in Admin
  BY DEF TypeInv, AdminsInv
<1>2. AdminSafe(skip, answered)
  BY <1>1 DEF AdminSafe, AdminAccounted, Admin
<1>3. \E new : admins' = [admins EXCEPT ![a] = new] /\ AdminSafe(new, answered)
  BY <1>2, IdleSafe DEF AdminEnqueue, AdminFault
<1>4. StoreSafe'
  BY SafeKeep DEF AdminEnqueue, AdminFault, histVars
<1> QED
  BY <1>3, <1>4, AdminAloneSafe DEF AdminEnqueue, AdminFault

LEMMA AdminStepSafe ==
    ASSUME Memory, TypeInv, SafeInv, NEW a \in Admins, AdminStep(a)
    PROVE  SafeInv'
<1>1. ~AdminReadFindings(a)
  BY DEF AdminReadFindings, SafeInv, AdminsSafe, AdminSafe
<1> QED
  BY <1>1, AdminReadSafe, AdminWriteSafe, AdminEndSafe DEF AdminStep

-----------------------------------------------------------------------------
(* The flag sources. *)

LEMMA FlaggerAloneSafe ==
    ASSUME TypeInv, SafeInv, NEW f \in Flaggers, NEW fg, FlaggerSafe(fg, answered),
           flaggers' = [flaggers EXCEPT ![f] = fg], StoreSafe',
           UNCHANGED <<readers, workers, admins, histVars>>
    PROVE  SafeInv'
<1>1. answered' = answered /\ answered \subseteq answered'
  BY DEF histVars
<1>2. FlaggersSafe'
  BY <1>1, FlaggerSafeMoves
<1> QED
  BY <1>1, <1>2, SafeKeep DEF histVars, SafeInv

LEMMA StartedFlaggerSafe ==
    ASSUME NEW fl, NEW pc \in {"deny", "cover"}, NEW ans
    PROVE  FlaggerSafe([IdleFlagger EXCEPT !.pc = pc, !.flag = fl], ans)
<1> DEFINE new == [IdleFlagger EXCEPT !.pc = pc, !.flag = fl]
<1>1. new.pc = pc
  BY DEF IdleFlagger
<1> HIDE DEF new
<1>2. FlaggerSafe(new, ans)
  BY <1>1 DEF FlaggerSafe, FlaggerAccounted
<1> QED
  BY <1>2 DEF new

LEMMA FlagSetSafe ==
    ASSUME TypeInv, SafeInv, NEW f \in Flaggers, RevokeFlag(f) \/ \E fl : PushFlag(f, fl)
    PROVE  SafeInv'
<1> DEFINE started(pc, fl) == [IdleFlagger EXCEPT !.pc = pc, !.flag = fl]
<1>1. \E fl : \/ flaggers' = [flaggers EXCEPT ![f] = started("deny", fl)]
               \/ flaggers' = [flaggers EXCEPT ![f] = started("cover", fl)]
  <2>1. RevokeFlag(f) => flaggers' = [flaggers EXCEPT ![f] = started("cover", flag)]
    BY DEF RevokeFlag
  <2>2. \A fl : PushFlag(f, fl) =>
          \/ flaggers' = [flaggers EXCEPT ![f] = started("deny", fl)]
          \/ flaggers' = [flaggers EXCEPT ![f] = started("cover", fl)]
    BY DEF PushFlag
  <2> HIDE DEF started
  <2> QED  BY <2>1, <2>2
<1>2. StoreSafe'
  BY SafeKeep DEF RevokeFlag, PushFlag, histVars
<1>3. UNCHANGED <<readers, workers, admins, histVars>>
  BY DEF RevokeFlag, PushFlag
<1>4. \A fl : FlaggerSafe(started("deny", fl), answered)
               /\ FlaggerSafe(started("cover", fl), answered)
  BY StartedFlaggerSafe
<1> HIDE DEF started
<1> QED
  BY <1>1, <1>2, <1>3, <1>4, FlaggerAloneSafe

LEMMA FlagReadSafe ==
    ASSUME Memory, TypeInv, SafeInv, NEW f \in Flaggers, FlagRead(f)
    PROVE  SafeInv'
<1> DEFINE fg == flaggers[f]
           cov == Covered(fg.flag)
           pc == IF cov = {} THEN "cover" ELSE "write"
           read(p) == IF p \notin cov THEN None ELSE Flagged(verdict[p], fg.flag)
           rows == [p \in Pkgs |-> read(p)]
           new == [fg EXCEPT !.pc = pc, !.todo = cov, !.rows = rows]
<1>1. fg \in Flagger /\ fg.flag \in Flag
  BY DEF FlagRead, TypeInv, FlaggersInv, FlaggerOK
<1>2. cov \in SUBSET Pkgs /\ \A p \in cov : verdict[p] \in Row
  BY <1>1, CoveredFacts
<1>3. \A p \in cov : RowOK(p, verdict[p], answered)
  BY <1>2, NoneAssumption DEF SafeInv, StoreSafe
<1>4. \A p \in cov : RowOK(p, rows[p], answered)
  <2>1. \A p \in cov : read(p) = Flagged(verdict[p], fg.flag)
    OBVIOUS
  <2>2. \A p \in cov : RowOK(p, read(p), answered)
    BY <1>2, <1>3, <2>1, FlaggedOK
  <2> HIDE DEF read, cov
  <2> QED  BY <1>2, <2>2
<1>5. FlaggerSafe(new, answered)
  <2>1. pc \in {"cover", "write"}
    OBVIOUS
  <2> HIDE DEF pc, rows, cov
  <2>2. new.pc = pc /\ new.todo = cov /\ new.rows = rows
    BY <1>1 DEF Flagger
  <2> HIDE DEF new
  <2> QED  BY <1>4, <2>1, <2>2 DEF FlaggerSafe, FlaggerAccounted
<1>6. flaggers' = [flaggers EXCEPT ![f] = new]
  <2>1. ~SplitRead(fg.flag.pkg) /\ \A p : ListedRow(p) = verdict[p]
    BY DEF Memory, SplitRead, ListedRow
  <2> QED  BY <2>1 DEF FlagRead
<1>7. StoreSafe'
  BY SafeKeep DEF FlagRead, histVars
<1> HIDE DEF new
<1> QED
  BY <1>5, <1>6, <1>7, FlaggerAloneSafe DEF FlagRead

LEMMA FewerTodoSafe ==
    ASSUME TypeInv, SafeInv, NEW f \in Flaggers, NEW p
    PROVE  FlaggerSafe([flaggers[f] EXCEPT !.todo = @ \ {p}], answered)
<1> DEFINE fg == flaggers[f]
           new == [fg EXCEPT !.todo = @ \ {p}]
<1>1. fg \in Flagger /\ FlaggerSafe(fg, answered)
  BY DEF TypeInv, FlaggersInv, SafeInv, FlaggersSafe
<1>2. new.pc = fg.pc /\ new.rows = fg.rows /\ new.todo = fg.todo \ {p}
  BY <1>1 DEF Flagger
<1> HIDE DEF new
<1>3. FlaggerSafe(new, answered)
  BY <1>1, <1>2 DEF FlaggerSafe, FlaggerAccounted
<1> QED
  BY <1>3 DEF new

LEMMA FlagWriteSafe ==
    ASSUME TypeInv, SafeInv, NEW f \in Flaggers, FlagWrite(f)
    PROVE  SafeInv'
<1> DEFINE fg == flaggers[f]
           over == [IdleFlagger EXCEPT !.pc = "cover", !.flag = fg.flag]
           less(p) == [fg EXCEPT !.todo = @ \ {p}]
           new(p) == IF fg.todo = {p} THEN over ELSE less(p)
<1>1. PICK p \in fg.todo :
          /\ verdict' = [verdict EXCEPT ![p] = fg.rows[p]] \/ verdict' = verdict
          /\ flaggers' = [flaggers EXCEPT ![f] = new(p)]
  BY DEF FlagWrite, FlagWritten
<1>2. RowOK(p, fg.rows[p], answered)
  BY DEF FlagWrite, SafeInv, FlaggersSafe, FlaggerSafe, FlaggerAccounted
<1>3. answered' = answered /\ answered \subseteq answered'
  BY DEF FlagWrite, histVars
<1>4. StoreSafe'
  BY <1>1, <1>2, <1>3, SafeWrite, SafeKeep
<1>5. FlaggerSafe(over, answered) /\ FlaggerSafe(less(p), answered)
  BY StartedFlaggerSafe, FewerTodoSafe
<1>6. FlaggerSafe(new(p), answered)
  <2> HIDE DEF over, less
  <2> QED  BY <1>5
<1> HIDE DEF new
<1> QED
  BY <1>1, <1>4, <1>6, FlaggerAloneSafe DEF FlagWrite

LEMMA FlagCoverSafe ==
    ASSUME TypeInv, SafeInv, NEW f \in Flaggers,
           FlagReadFault(f) \/ FlagCover(f) \/ FlagEnqueue(f)
    PROVE  SafeInv'
<1> DEFINE fg == flaggers[f]
           over == [IdleFlagger EXCEPT !.pc = "cover", !.flag = fg.flag]
           some == [fg EXCEPT !.pc = "enqueue", !.todo = Covered(fg.flag)]
           less(p) == [fg EXCEPT !.todo = @ \ {p}]
<1>1. fg \in Flagger
  BY DEF TypeInv, FlaggersInv
<1>2. FlaggerSafe(some, answered)
  <2>1. some.pc = "enqueue"
    BY <1>1 DEF Flagger
  <2> HIDE DEF some
  <2> QED  BY <2>1 DEF FlaggerSafe, FlaggerAccounted
<1>3. FlaggerSafe(over, answered) /\ \A p : FlaggerSafe(less(p), answered)
  BY StartedFlaggerSafe, FewerTodoSafe
<1>4. \/ flaggers' = [flaggers EXCEPT ![f] = IdleFlagger]
      \/ flaggers' = [flaggers EXCEPT ![f] = over]
      \/ flaggers' = [flaggers EXCEPT ![f] = some]
      \/ \E p : flaggers' = [flaggers EXCEPT ![f] = less(p)]
  BY DEF FlagReadFault, FlagCover, FlagEnqueue
<1>5. StoreSafe'
  BY SafeKeep DEF FlagReadFault, FlagCover, FlagEnqueue, histVars
<1>6. UNCHANGED <<readers, workers, admins, histVars>>
  BY DEF FlagReadFault, FlagCover, FlagEnqueue
<1> HIDE DEF over, some, less
<1> QED
  BY <1>2, <1>3, <1>4, <1>5, <1>6, IdleSafe, FlaggerAloneSafe

LEMMA FlagStepSafe ==
    ASSUME Memory, TypeInv, SafeInv, NEW f \in Flaggers, FlagStep(f)
    PROVE  SafeInv'
<1>1. ~FlagReadFindings(f)
  BY DEF FlagReadFindings, SafeInv, FlaggersSafe, FlaggerSafe
<1> QED
  BY <1>1, FlagReadSafe, FlagWriteSafe, FlagCoverSafe DEF FlagStep

-----------------------------------------------------------------------------

LEMMA RestSafe ==
    ASSUME SafeInv, UNCHANGED <<verdict, procVars, histVars>>
    PROVE  SafeInv'
<1>1. answered \subseteq answered'
  BY DEF histVars
<1> QED
  BY <1>1, SafeKeep DEF procVars, histVars, SafeInv

LEMMA NextSafe ==
    ASSUME Memory, TypeInv, SafeInv, [Next]_vars
    PROVE  SafeInv'
<1>1. CASE \E p \in Pkgs : \/ RescanTick(p)
                           \/ \E t \in OperatorTriggers : OperatorEnqueue(p, t)
                           \/ Tick(p)
                           \/ Disclose(p)
  BY <1>1, RestSafe DEF RescanTick, OperatorEnqueue, Tick, Disclose
<1>2. CASE (\E j \in JobIds : LeaseLapses(j)) \/ Reload
  BY <1>2, RestSafe DEF LeaseLapses, Reload
<1>3. CASE UNCHANGED vars
  BY <1>3, RestSafe DEF vars
<1> QED
  BY <1>1, <1>2, <1>3, GateSafe, WorkerStepSafe, SetStatusSafe, AdminStepSafe, FlagSetSafe,
     FlagStepSafe DEF Next

-----------------------------------------------------------------------------

LEMMA AlwaysSafe ==
    ASSUME Memory
    PROVE  Spec => [](TypeInv /\ SafeInv)
<1>1. Init => TypeInv /\ SafeInv
  BY InitType, InitSafe
<1>2. TypeInv /\ SafeInv /\ [Next]_vars => (TypeInv /\ SafeInv)'
  BY NextType, NextSafe
<1> QED
  BY <1>1, <1>2, PTL DEF Spec

\* Every row stored or about to be stored accounts for its markers: a required
\* scanner is marked done because it answered or because the row carries the
\* error filed for it, whatever record_scan, the gate's write-back, a block, an
\* unblock or a flag took over from the row before.
THEOREM RowsStayAccounted ==
    ASSUME Memory
    PROVE  Spec => []RowsAccounted
BY AlwaysSafe, SafeInvRowsAccounted, PTL

\* verdict.rs, "Fail-closed by construction": under a profile that does not
\* ignore scanner errors, no version is stored or served as `allowed' before
\* every required scanner has answered for it.
THEOREM AllowedIsScanned ==
    ASSUME Memory, Policy.scanner_error # "ignore"
    PROVE  Spec => []AllowedMeansScanned
<1>1. SafeInv => AllowedMeansScanned
  BY AllowedAnswered DEF SafeInv, StoreSafe, ServedSafe, AllowedMeansScanned
<1> QED
  BY <1>1, AlwaysSafe, PTL

\* A stored row that carries the administrator's block or the SOC's word is
\* denied, whichever of the four writers wrote it last.
THEOREM AuthorityStands ==
    ASSUME Memory
    PROVE  Spec => []AuthorityDenies
<1>1. SafeInv => AuthorityDenies
  BY DEF SafeInv, StoreSafe, RowOK, AuthorityDenies
<1> QED
  BY <1>1, AlwaysSafe, PTL

=============================================================================
