---------------------------- MODULE VerdictProofs ----------------------------
(***************************************************************************)
(* Facts about one evaluation, for every profile and every set of          *)
(* findings.                                                               *)
(***************************************************************************)
EXTENDS Verdict, TLAPS

\* The word of the administrator or of the SOC (ReasonCode::is_always_denied)
\* refuses the version whatever else was found, however old it is, and under
\* any profile: neither warn mode nor maturity reaches it.
THEOREM AlwaysDeniedDenies ==
    ASSUME NEW policy, NEW findings, NEW done, NEW age, NEW scanned,
           NEW f \in Evaluate(policy, findings, done, age, scanned).findings,
           f.code \in AlwaysDenied
    PROVE  Evaluate(policy, findings, done, age, scanned).state = "denied"
<1> DEFINE all == AllFindings(policy, findings, done, age)
<1>1. f \in all
  BY DEF Evaluate
<1>2. Classify(f, policy) = "denied"
  BY DEF Classify, AlwaysDenied, ForgeRefCodes
<1>3. f \in WithEffect(all, policy, "denied")
  BY <1>1, <1>2 DEF WithEffect
<1>4. Worst(all, policy) = "denied"
  BY <1>3 DEF Worst
<1>5. ~MaturityLifts(all, policy, age)
  BY <1>4 DEF MaturityLifts
<1> QED
  BY <1>4, <1>5 DEF Evaluate

-----------------------------------------------------------------------------
(* Escalation changes severities and nothing else. *)

\* What escalate does to one finding.
LEMMA EscalatedFinding ==
    ASSUME NEW f \in Finding, NEW to \in 0 .. 4
    PROVE  LET g == [f EXCEPT !.severity = to]
           IN  g \in Finding /\ g.scanner = f.scanner /\ g.kind = f.kind /\ g.code = f.code
BY DEF Finding

\* A profile whose escalation blocks raise to a severity.
EscalationOK(policy) ==
    \A s \in DOMAIN policy.escalation : policy.escalation[s].to \in 0 .. 4

LEMMA EscalateKeeps ==
    ASSUME NEW policy, EscalationOK(policy), NEW findings \in SUBSET Finding
    PROVE  /\ Escalate(findings, policy) \in SUBSET Finding
           /\ \A f \in findings : \E g \in Escalate(findings, policy) :
                g.scanner = f.scanner /\ g.kind = f.kind /\ g.code = f.code
           /\ \A g \in Escalate(findings, policy) : \E f \in findings :
                g.scanner = f.scanner /\ g.kind = f.kind /\ g.code = f.code
<1> DEFINE up(f) == IF IsEscalated(f, findings, policy)
                    THEN [f EXCEPT !.severity = policy.escalation[f.scanner].to]
                    ELSE f
<1>1. ASSUME NEW f \in findings
      PROVE  /\ up(f) \in Finding
             /\ up(f).scanner = f.scanner /\ up(f).kind = f.kind /\ up(f).code = f.code
  <2>1. CASE IsEscalated(f, findings, policy)
    <3>1. policy.escalation[f.scanner].to \in 0 .. 4
      BY <2>1 DEF IsEscalated, EscalationOK
    <3> QED
      BY <2>1, <3>1, EscalatedFinding
  <2>2. CASE ~IsEscalated(f, findings, policy)
    BY <2>2
  <2> QED
    BY <2>1, <2>2
<1>2. Escalate(findings, policy) = {up(f) : f \in findings}
  BY DEF Escalate
<1> HIDE DEF up
<1> QED
  BY <1>1, <1>2

-----------------------------------------------------------------------------
(* What a verdict of `allowed' excludes. *)

LEMMA AllowedClassifies ==
    ASSUME NEW policy, NEW findings, NEW done, NEW age, NEW scanned,
           Evaluate(policy, findings, done, age, scanned).state = "allowed",
           NEW f \in AllFindings(policy, findings, done, age)
    PROVE  Classify(f, policy) \notin {"denied", "quarantined", "warned"}
<1> DEFINE all == AllFindings(policy, findings, done, age)
<1>1. Worst(all, policy) = "allowed"
  BY DEF Evaluate
<1> QED
  BY <1>1 DEF Worst, WithEffect

LEMMA ClassifyHolds ==
    ASSUME NEW policy, NEW f, f.code = "SCAN_PENDING"
    PROVE  Classify(f, policy) = "quarantined"
BY DEF Classify, AlwaysDenied, ForgeRefCodes

LEMMA ClassifyErrors ==
    ASSUME NEW policy, NEW f, f.code \in {"SCANNER_ERROR", "SCANNER_UNSUPPORTED"},
           policy.scanner_error \in {"quarantine", "warn"}
    PROVE  Classify(f, policy) \in {"quarantined", "warned"}
<1>1. Classify(f, policy) = ScannerErrorEffect(policy)
  BY DEF Classify, AlwaysDenied, ForgeRefCodes
<1>2. ScannerErrorEffect(policy) \in {"quarantined", "warned"}
  BY DEF ScannerErrorEffect
<1> QED
  BY <1>1, <1>2

\* verdict.rs, "the absence of a scan is never an allow": an `allowed' verdict
\* has every required scanner's marker, and under a profile that does not ignore
\* scanner errors none of the findings it was made from is one.
THEOREM AllowedNeedsScans ==
    ASSUME NEW policy, EscalationOK(policy),
           NEW findings \in SUBSET Finding, NEW done, NEW age, NEW scanned,
           Evaluate(policy, findings, done, age, scanned).state = "allowed"
    PROVE  /\ policy.required_scanners \subseteq done
           /\ policy.scanner_error \in {"quarantine", "warn"} =>
                \A f \in findings : f.scanner \notin {AgeScanner, PendingScanner}
                    => f.code \notin {"SCANNER_ERROR", "SCANNER_UNSUPPORTED"}
<1> DEFINE all == AllFindings(policy, findings, done, age)
           raw == {f \in findings : f.scanner \notin {AgeScanner, PendingScanner}}
<1>1. ASSUME NEW s \in policy.required_scanners, s \notin done
      PROVE  FALSE
  <2> DEFINE f == NewFinding(PendingScanner, "pending", "SCAN_PENDING", High, s)
  <2>1. f \in all
    BY <1>1 DEF AllFindings, PendingFindings
  <2>2. f.code = "SCAN_PENDING"
    BY DEF NewFinding
  <2> QED
    BY <2>1, <2>2, ClassifyHolds, AllowedClassifies
<1>2. ASSUME policy.scanner_error \in {"quarantine", "warn"},
             NEW f \in findings, f.scanner \notin {AgeScanner, PendingScanner},
             f.code \in {"SCANNER_ERROR", "SCANNER_UNSUPPORTED"}
      PROVE  FALSE
  <2>1. f \in raw /\ raw \in SUBSET Finding
    BY <1>2
  <2>2. PICK g \in Escalate(raw, policy) : g.code = f.code
    <3> HIDE DEF raw
    <3> QED  BY <2>1, EscalateKeeps
  <2>3. g \in all
    BY <2>2 DEF AllFindings
  <2> QED
    BY <1>2, <2>2, <2>3, ClassifyErrors, AllowedClassifies
<1> QED
  BY <1>1, <1>2

-----------------------------------------------------------------------------
(* The row an evaluation makes. *)

LEMMA NewFindingType ==
    ASSUME NEW scanner \in Names, NEW kind \in Kinds, NEW code \in Codes,
           NEW severity \in 0 .. 4, NEW ref \in Names
    PROVE  /\ NewFinding(scanner, kind, code, severity, ref) \in Finding
           /\ NewFinding(scanner, kind, code, severity, ref).scanner = scanner
           /\ NewFinding(scanner, kind, code, severity, ref).kind = kind
           /\ NewFinding(scanner, kind, code, severity, ref).code = code
BY DEF NewFinding, Finding

LEMMA WorstType ==
    ASSUME NEW policy, NEW findings
    PROVE  Worst(findings, policy) \in States
BY DEF Worst, States

\* The findings of a row: well formed, and every finding a scanner made is there
\* with its scanner, kind and code.
LEMMA AllFindingsType ==
    ASSUME NEW policy, EscalationOK(policy), policy.required_scanners \subseteq Names,
           NEW findings \in SUBSET Finding, NEW done, NEW age
    PROVE  /\ AllFindings(policy, findings, done, age) \in SUBSET Finding
           /\ \A f \in findings : f.scanner \notin {AgeScanner, PendingScanner} =>
                \E g \in AllFindings(policy, findings, done, age) :
                    g.scanner = f.scanner /\ g.kind = f.kind /\ g.code = f.code
           /\ \A g \in AllFindings(policy, findings, done, age) :
                g.kind = "scanner_error" =>
                    \E f \in findings : /\ f.scanner \notin {AgeScanner, PendingScanner}
                                        /\ g.scanner = f.scanner
                                        /\ g.kind = f.kind /\ g.code = f.code
<1> DEFINE raw == {f \in findings : f.scanner \notin {AgeScanner, PendingScanner}}
<1>1. raw \in SUBSET Finding
  OBVIOUS
<1>2. /\ Escalate(raw, policy) \in SUBSET Finding
      /\ \A f \in raw : \E g \in Escalate(raw, policy) :
           g.scanner = f.scanner /\ g.kind = f.kind /\ g.code = f.code
      /\ \A g \in Escalate(raw, policy) : \E f \in raw :
           g.scanner = f.scanner /\ g.kind = f.kind /\ g.code = f.code
  <2> HIDE DEF raw
  <2> QED  BY <1>1, EscalateKeeps
<1>3. /\ AgeFindings(policy, age) \in SUBSET Finding
      /\ \A g \in AgeFindings(policy, age) : g.kind # "scanner_error"
  <2> DEFINE missing == NewFinding(AgeScanner, "age", "TIMESTAMP_MISSING", High, AgeScanner)
             young == NewFinding(AgeScanner, "age", "MIN_AGE_NOT_MET", High, AgeScanner)
  <2>1. /\ missing \in Finding /\ missing.kind = "age"
        /\ young \in Finding /\ young.kind = "age"
    BY NamesAssumption DEF NewFinding, Finding, Kinds, Codes, TimeBound, High, AgeScanner
  <2>2. AgeFindings(policy, age) \subseteq {missing, young}
    BY DEF AgeFindings
  <2> HIDE DEF missing, young
  <2> QED  BY <2>1, <2>2
<1>4. /\ PendingFindings(policy, done) \in SUBSET Finding
      /\ \A g \in PendingFindings(policy, done) : g.kind # "scanner_error"
  <2>1. ASSUME NEW s \in policy.required_scanners
        PROVE  LET g == NewFinding(PendingScanner, "pending", "SCAN_PENDING", High, s)
               IN  g \in Finding /\ g.kind = "pending"
    BY NamesAssumption DEF NewFinding, Finding, Kinds, Codes, TimeBound, High, PendingScanner
  <2> QED  BY <2>1 DEF PendingFindings
<1>5. AllFindings(policy, findings, done, age)
        = Escalate(raw, policy) \cup AgeFindings(policy, age) \cup PendingFindings(policy, done)
  BY DEF AllFindings
<1>6. \A f \in findings : f \in raw <=> f.scanner \notin {AgeScanner, PendingScanner}
  OBVIOUS
<1>7. raw \subseteq findings
  OBVIOUS
<1> HIDE DEF raw
<1> QED
  BY <1>2, <1>3, <1>4, <1>5, <1>6, <1>7

LEMMA EvaluateType ==
    ASSUME NEW policy, EscalationOK(policy), policy.required_scanners \subseteq Names,
           policy.min_age \in Nat,
           NEW findings \in SUBSET Finding, NEW done \in SUBSET Names,
           NEW age, NEW scanned \in BOOLEAN
    PROVE  Evaluate(policy, findings, done, age, scanned) \in Row
<1> DEFINE all == AllFindings(policy, findings, done, age)
           state == IF MaturityLifts(all, policy, age) THEN "warned" ELSE Worst(all, policy)
<1>1. all \in SUBSET Finding
  BY AllFindingsType
<1>2. state \in States
  BY WorstType DEF States
<1>3. CodesOf(all, policy) \in SUBSET Codes
  BY <1>1 DEF CodesOf, Finding
<1>4. AvailableAt(all, policy, state) \in Int
  BY DEF AvailableAt, NoTime
<1>5. Evaluate(policy, findings, done, age, scanned) =
        [state |-> state, codes |-> CodesOf(all, policy), findings |-> all,
         available_at |-> AvailableAt(all, policy, state),
         scanned |-> scanned, done |-> done]
  BY DEF Evaluate
<1> HIDE DEF all, state
<1> QED
  BY <1>1, <1>2, <1>3, <1>4, <1>5 DEF Row

LEMMA EvaluateFields ==
    ASSUME NEW policy, NEW findings, NEW done, NEW age, NEW scanned
    PROVE  LET v == Evaluate(policy, findings, done, age, scanned)
           IN  /\ v.findings = AllFindings(policy, findings, done, age)
               /\ v.done = done
               /\ v.scanned = scanned
BY DEF Evaluate

=============================================================================
