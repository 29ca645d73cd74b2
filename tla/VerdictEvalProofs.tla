-------------------------- MODULE VerdictEvalProofs --------------------------
(***************************************************************************)
(* What VerdictEval says of one evaluation and of how it moves with its    *)
(* inputs, for every set of profiles, every set of findings that scanners  *)
(* may report and every horizon of the clock.                              *)
(***************************************************************************)
EXTENDS VerdictEval, VerdictProofs, FiniteSetTheorems

\* A profile that validate_registry_security lets through.
PolicyOK(p) ==
    /\ p.mode \in {"block", "warn"}
    /\ p.min_age \in Nat \ {0}
    /\ p.mature_age \in Nat
    /\ p.mature_age = 0 \/ p.mature_age >= p.min_age
    /\ p.max_severity \in 0 .. 4
    /\ p.scanner_error \in {"quarantine", "warn", "ignore"}
    /\ p.deny_install_hooks \in {"deny", "warn", "ignore"}
    /\ p.required_scanners \subseteq Names
    /\ \A s \in DOMAIN p.escalation : /\ p.escalation[s].from \in 0 .. 4
                                      /\ p.escalation[s].to \in 0 .. 4
                                      /\ p.escalation[s].count \in Nat

Derived == {AgeScanner, PendingScanner}

\* Findings as scanners report them.
Reported(F) ==
    \A f \in F : /\ f \in Finding
                 /\ f.scanner \notin Derived
                 /\ f.code # "MIN_AGE_NOT_MET"

Inputs ==
    /\ PolicyOK(policy)
    /\ Reported(found)
    /\ IsFiniteSet(found)
    /\ age \in Nat \cup {Undated}

LEMMA InputsOK == Spec => []Inputs
<1>1. Init => Inputs
  BY PoliciesAssumption, FS_EmptySet DEF Init, Inputs, PolicyOK, Reported
<1>2. Inputs /\ [Next]_vars => Inputs'
  <2> SUFFICES ASSUME Inputs, [Next]_vars PROVE Inputs'
    OBVIOUS
  <2>1. ASSUME NEW f \in Reportable \ found, Report(f) PROVE Inputs'
    <3>1. IsFiniteSet(found')
      BY <2>1, FS_AddElement DEF Report, Inputs
    <3>2. Reported(found')
      BY <2>1, ReportableAssumption DEF Report, Inputs, Reported, Derived
    <3> QED
      BY <2>1, <3>1, <3>2 DEF Report, Inputs
  <2>2. ASSUME NEW s, Answered(s) PROVE Inputs'
    BY <2>2 DEF Answered, Inputs
  <2>3. CASE Tick
    BY <2>3 DEF Tick, Inputs
  <2>4. CASE UNCHANGED vars
    BY <2>4 DEF vars, Inputs
  <2> QED
    BY <2>1, <2>2, <2>3, <2>4 DEF Next
<1> QED
  BY <1>1, <1>2, PTL DEF Spec

-----------------------------------------------------------------------------
(* Escalation. *)

Up(f, F, p) == IF IsEscalated(f, F, p)
               THEN [f EXCEPT !.severity = p.escalation[f.scanner].to] ELSE f

LEMMA EscalateIsUp ==
    ASSUME NEW F, NEW p
    PROVE  Escalate(F, p) = {Up(f, F, p) : f \in F}
BY DEF Escalate, Up

\* What escalation does to one finding: it keeps all but the severity, and the
\* severity does not fall.
LEMMA UpKeeps ==
    ASSUME NEW p, PolicyOK(p), NEW F, NEW f \in F, f \in Finding
    PROVE  LET g == Up(f, F, p)
           IN  /\ g \in Finding
               /\ g.scanner = f.scanner /\ g.kind = f.kind /\ g.code = f.code
               /\ g.severity >= f.severity
               /\ IsEscalated(f, F, p) => g.severity = p.escalation[f.scanner].to
               /\ ~IsEscalated(f, F, p) => g = f
<1>1. CASE IsEscalated(f, F, p)
  <2> DEFINE to == p.escalation[f.scanner].to
  <2>1. to \in 0 .. 4 /\ f.severity < to
    BY <1>1 DEF IsEscalated, PolicyOK
  <2>2. Up(f, F, p) = [f EXCEPT !.severity = to]
    BY <1>1 DEF Up
  <2> HIDE DEF to
  <2>3. f.severity \in 0 .. 4
    BY DEF Finding
  <2>4. [f EXCEPT !.severity = to].severity = to
    BY DEF Finding
  <2>5. Up(f, F, p).severity = p.escalation[f.scanner].to
    BY <2>2, <2>4 DEF to
  <2>6. /\ Up(f, F, p) \in Finding
        /\ Up(f, F, p).scanner = f.scanner /\ Up(f, F, p).kind = f.kind
        /\ Up(f, F, p).code = f.code
    BY <2>1, <2>2, EscalatedFinding
  <2>7. Up(f, F, p).severity >= f.severity
    BY <2>1, <2>2, <2>3, <2>4
  <2> QED
    BY <1>1, <2>5, <2>6, <2>7
<1>2. CASE ~IsEscalated(f, F, p)
  BY <1>2 DEF Up, Finding
<1> QED
  BY <1>1, <1>2

\* Escalating twice is escalating once, although findings that differed only in
\* their severity have become one and the count may have fallen below the
\* block's: what was raised is at its target.
LEMMA EscalateTwice ==
    ASSUME NEW p, PolicyOK(p), NEW F \in SUBSET Finding
    PROVE  Escalate(Escalate(F, p), p) = Escalate(F, p)
<1> DEFINE E == Escalate(F, p)
<1>1. E = {Up(f, F, p) : f \in F}
  BY EscalateIsUp
<1> HIDE DEF E
<1>2. ASSUME NEW g \in E, IsEscalated(g, E, p) PROVE FALSE
  <2>1. PICK f \in F : g = Up(f, F, p)
    BY <1>1
  <2> DEFINE s == f.scanner
  <2>2. g.scanner = s /\ s \in DOMAIN p.escalation
    BY <1>2, <2>1, UpKeeps DEF IsEscalated
  <2> DEFINE esc == p.escalation[s]
  <2>3. g \in EscalationHits(E, p, s) /\ g.severity < esc.to
    BY <1>2, <2>2 DEF IsEscalated
  <2>4. ~IsEscalated(f, F, p) /\ g = f
    <3>1. esc.to \in 0 .. 4
      BY <2>2 DEF PolicyOK
    <3> QED
      BY <2>1, <2>3, <3>1, UpKeeps
  <2>5. f \in EscalationHits(F, p, s) /\ f.severity < esc.to
    BY <2>3, <2>4 DEF EscalationHits
  <2>6. ~(Cardinality(EscalationHits(F, p, s)) >= (IF esc.count = 0 THEN 1 ELSE esc.count))
    BY <2>2, <2>4, <2>5 DEF IsEscalated
  <2>7. \A e \in F : e.scanner = s => ~IsEscalated(e, F, p)
    BY <2>6 DEF IsEscalated
  <2>8. EscalationHits(E, p, s) = EscalationHits(F, p, s)
    <3>1. ASSUME NEW e \in E, e.scanner = s PROVE e \in F
      <4>1. PICK d \in F : e = Up(d, F, p)
        BY <1>1
      <4> QED
        BY <3>1, <4>1, <2>7, UpKeeps
    <3>2. ASSUME NEW e \in F, e.scanner = s PROVE e \in E
      <4>1. Up(e, F, p) = e
        BY <3>2, <2>7 DEF Up
      <4> QED
        BY <4>1, <1>1
    <3> QED
      BY <3>1, <3>2 DEF EscalationHits
  <2> QED
    BY <1>2, <2>2, <2>6, <2>8 DEF IsEscalated
<1>3. Escalate(E, p) = {Up(g, E, p) : g \in E}
  BY EscalateIsUp
<1>4. \A g \in E : Up(g, E, p) = g
  BY <1>2 DEF Up
<1> QED
  BY <1>3, <1>4 DEF E

\* More findings escalate what fewer did.
LEMMA EscalateGrows ==
    ASSUME NEW p, PolicyOK(p), NEW F, NEW G \in SUBSET Finding, IsFiniteSet(G),
           F \subseteq G, NEW f \in F, IsEscalated(f, F, p)
    PROVE  IsEscalated(f, G, p)
<1> DEFINE s == f.scanner
           esc == p.escalation[s]
           n == IF esc.count = 0 THEN 1 ELSE esc.count
           HF == EscalationHits(F, p, s)
           HG == EscalationHits(G, p, s)
<1>1. s \in DOMAIN p.escalation /\ f \in HF /\ f.severity < esc.to /\ Cardinality(HF) >= n
  BY DEF IsEscalated
<1>2. n \in Nat
  BY <1>1 DEF PolicyOK
<1>3. HF \subseteq HG /\ HG \subseteq G
  BY DEF EscalationHits
<1>4. IsFiniteSet(HG)
  BY <1>3, FS_Subset
<1>5. IsFiniteSet(HF) /\ Cardinality(HF) <= Cardinality(HG)
  BY <1>3, <1>4, FS_Subset
<1>6. Cardinality(HF) \in Nat /\ Cardinality(HG) \in Nat
  BY <1>4, <1>5, FS_CardinalityType
<1>7. Cardinality(HG) >= n
  <2> HIDE DEF HF, HG, n
  <2> QED  BY <1>1, <1>2, <1>5, <1>6
<1> QED
  BY <1>1, <1>3, <1>7 DEF IsEscalated

-----------------------------------------------------------------------------
(* The findings an evaluation looks at. *)

LEMMA AgeFindingsAre ==
    ASSUME NEW p, NEW a, NEW f \in AgeFindings(p, a)
    PROVE  /\ f.scanner = AgeScanner /\ f.severity = High
           /\ f \in Finding
           /\ \/ f.code = "TIMESTAMP_MISSING" /\ a = Undated
              \/ f.code = "MIN_AGE_NOT_MET" /\ a # Undated /\ ~(a >= p.min_age)
BY NamesAssumption
   DEF AgeFindings, NewFinding, Finding, Kinds, Codes, TimeBound, High, AgeScanner

LEMMA PendingFindingsAre ==
    ASSUME NEW p, PolicyOK(p), NEW d, NEW f \in PendingFindings(p, d)
    PROVE  /\ f.scanner = PendingScanner /\ f.severity = High
           /\ f \in Finding
           /\ f.code = "SCAN_PENDING"
<1>1. PICK s \in p.required_scanners \ d :
        f = NewFinding(PendingScanner, "pending", "SCAN_PENDING", High, s)
  BY DEF PendingFindings
<1>2. s \in Names
  BY DEF PolicyOK
<1> QED
  BY <1>1, <1>2, NamesAssumption
     DEF NewFinding, Finding, Kinds, Codes, TimeBound, High, PendingScanner

LEMMA AllOfReported ==
    ASSUME NEW p, NEW F, Reported(F), NEW d, NEW a
    PROVE  AllFindings(p, F, d, a)
             = Escalate(F, p) \cup AgeFindings(p, a) \cup PendingFindings(p, d)
<1>1. {f \in F : f.scanner \notin {AgeScanner, PendingScanner}} = F
  BY DEF Reported, Derived
<1> QED
  BY <1>1 DEF AllFindings

LEMMA EscalatedAreReported ==
    ASSUME NEW p, PolicyOK(p), NEW F, Reported(F)
    PROVE  Reported(Escalate(F, p)) /\ Escalate(F, p) \in SUBSET Finding
<1>1. ASSUME NEW g \in Escalate(F, p)
      PROVE  g \in Finding /\ g.scanner \notin Derived /\ g.code # "MIN_AGE_NOT_MET"
  <2>1. PICK f \in F : g = Up(f, F, p)
    BY EscalateIsUp
  <2> QED
    BY <2>1, UpKeeps DEF Reported
<1> QED
  BY <1>1 DEF Reported

\* Only the clock holds a version for its age.
LEMMA TooYoung ==
    ASSUME NEW p, PolicyOK(p), NEW F, Reported(F), NEW d, NEW a,
           NEW f \in AllFindings(p, F, d, a), f.code = "MIN_AGE_NOT_MET"
    PROVE  a # Undated /\ ~(a >= p.min_age)
<1>1. f \notin Escalate(F, p)
  BY EscalatedAreReported DEF Reported
<1>2. f \notin PendingFindings(p, d)
  BY PendingFindingsAre
<1>3. f \in AgeFindings(p, a)
  BY <1>1, <1>2, AllOfReported
<1> QED
  BY <1>3, AgeFindingsAre

\* Reading a row back: what is not derived in it is what was escalated.
LEMMA RowReadsBack ==
    ASSUME NEW p, PolicyOK(p), NEW F, Reported(F), NEW d, NEW a, NEW later
    PROVE  AllFindings(p, AllFindings(p, F, d, a), d, later) = AllFindings(p, F, d, later)
<1> DEFINE all == AllFindings(p, F, d, a)
           E == Escalate(F, p)
<1>1. all = E \cup AgeFindings(p, a) \cup PendingFindings(p, d)
  BY AllOfReported
<1>2. {f \in all : f.scanner \notin {AgeScanner, PendingScanner}} = E
  <2> HIDE DEF all, E
  <2>1. \A f \in E : f.scanner \notin Derived
    BY EscalatedAreReported DEF E, Reported
  <2> QED
    BY <1>1, <2>1, AgeFindingsAre, PendingFindingsAre DEF Derived
<1>3. Escalate(E, p) = E
  <2>1. F \in SUBSET Finding
    BY DEF Reported
  <2> QED
    BY <2>1, EscalateTwice
<1>4. AllFindings(p, all, d, later)
        = Escalate(E, p) \cup AgeFindings(p, later) \cup PendingFindings(p, d)
  <2> HIDE DEF all, E
  <2> QED  BY <1>2 DEF AllFindings
<1> QED
  BY <1>3, <1>4, AllOfReported

-----------------------------------------------------------------------------
(* The verdict of one evaluation. *)

\* The state, from the findings looked at.
StateOf(all, p, a) == IF MaturityLifts(all, p, a) THEN "warned" ELSE Worst(all, p)

LEMMA VIs ==
    LET all == AllFindings(policy, found, done, age)
    IN  /\ V.state = StateOf(all, policy, age)
        /\ V.codes = CodesOf(all, policy)
        /\ V.findings = all
        /\ V.available_at = AvailableAt(all, policy, StateOf(all, policy, age))
        /\ V.done = done
BY DEF V, Evaluate, StateOf

\* verdict.rs, "the absence of a scan is never an allow".
THEOREM ScansBeforeAllow == Spec => []AbsenceOfScanNeverAllows
<1>1. Inputs => AbsenceOfScanNeverAllows
  <2> SUFFICES ASSUME Inputs, V.state = "allowed"
               PROVE  /\ policy.required_scanners \subseteq done
                      /\ policy.scanner_error # "ignore" =>
                           \A f \in found :
                             f.code \notin {"SCANNER_ERROR", "SCANNER_UNSUPPORTED"}
    BY DEF AbsenceOfScanNeverAllows
  <2>1. EscalationOK(policy) /\ found \in SUBSET Finding
    BY DEF Inputs, PolicyOK, Reported, EscalationOK
  <2>2. \A f \in found : f.scanner \notin {AgeScanner, PendingScanner}
    BY DEF Inputs, Reported, Derived
  <2>3. policy.scanner_error # "ignore" => policy.scanner_error \in {"quarantine", "warn"}
    BY DEF Inputs, PolicyOK
  <2> QED
    BY <2>1, <2>2, <2>3, AllowedNeedsScans DEF V
<1> QED
  BY <1>1, InputsOK, PTL

\* maturity_lifts: a version that is served in spite of a hold is served only
\* because nobody looked, past its maturity, and with nothing that refuses it.
THEOREM MaturityLiftsOnlyUnscanned == Spec => []ServedHoldIsOnlyUnscanned
<1>1. Inputs => ServedHoldIsOnlyUnscanned
  <2> DEFINE all == AllFindings(policy, found, done, age)
  <2> SUFFICES ASSUME Inputs, IsServed(V.state), HoldCodes(V.findings, policy) # {}
               PROVE  /\ V.state = "warned"
                      /\ HoldCodes(V.findings, policy) \subseteq MaturityBypassable
                      /\ V.codes \cap AlwaysDenied = {}
                      /\ WithEffect(V.findings, policy, "denied") = {}
                      /\ policy.mature_age > 0 /\ age >= policy.mature_age
    BY DEF ServedHoldIsOnlyUnscanned
  <2>1. /\ V.state = StateOf(all, policy, age) /\ V.codes = CodesOf(all, policy)
        /\ V.findings = all
    BY VIs
  <2> HIDE DEF all
  <2>2. WithEffect(all, policy, "quarantined") # {}
    BY <2>1 DEF HoldCodes
  <2>3. Worst(all, policy) \in {"denied", "quarantined"}
    BY <2>2 DEF Worst
  <2>4. MaturityLifts(all, policy, age)
    BY <2>1, <2>3 DEF StateOf, IsServed
  <2>5. WithEffect(all, policy, "denied") = {}
    BY <2>4 DEF MaturityLifts, Worst
  <2>6. CodesOf(all, policy) \cap AlwaysDenied = {}
    <3>1. ASSUME NEW f \in all, f.code \in AlwaysDenied PROVE FALSE
      <4>1. Classify(f, policy) = "denied"
        BY <3>1 DEF Classify, AlwaysDenied, ForgeRefCodes
      <4> QED
        BY <4>1, <2>5 DEF WithEffect
    <3> QED
      BY <3>1 DEF CodesOf
  <2>7. policy.mature_age > 0
    BY <2>4 DEF MaturityLifts, Inputs, PolicyOK
  <2> QED
    BY <2>1, <2>4, <2>5, <2>6, <2>7 DEF MaturityLifts, StateOf
<1> QED
  BY <1>1, InputsOK, PTL

\* evaluate over a stored row: escalation and the derived findings of an earlier
\* evaluation leave no trace in a later one.
THEOREM StoredRowIsFresh == Spec => []StoredRowReadsAsFresh
<1>1. Inputs => StoredRowReadsAsFresh
  <2> SUFFICES ASSUME Inputs,
                      NEW later \in IF age = Undated THEN {Undated} ELSE age .. MaxAge
               PROVE  Evaluate(policy, V.findings, V.done, later, TRUE)
                        = Evaluate(policy, found, done, later, TRUE)
    BY DEF StoredRowReadsAsFresh
  <2>1. V.findings = AllFindings(policy, found, done, age) /\ V.done = done
    BY VIs
  <2>2. AllFindings(policy, V.findings, done, later) = AllFindings(policy, found, done, later)
    BY <2>1, RowReadsBack DEF Inputs
  <2> QED
    BY <2>1, <2>2 DEF Evaluate
<1> QED
  BY <1>1, InputsOK, PTL

\* What an available_at means: the version is held, and for its age.
LEMMA AheadOfAge == Inputs => AvailableAtIsAhead
<1> DEFINE all == AllFindings(policy, found, done, age)
<1> SUFFICES ASSUME Inputs, V.available_at # NoTime
             PROVE  /\ age # Undated /\ age < V.available_at
                    /\ V.state = "quarantined"
  BY DEF AvailableAtIsAhead
<1>1. /\ V.state = StateOf(all, policy, age)
      /\ V.available_at = AvailableAt(all, policy, StateOf(all, policy, age))
  BY VIs
<1>2. PICK f \in all : f.code = "MIN_AGE_NOT_MET"
  <2> HIDE DEF all
  <2> QED  BY <1>1 DEF AvailableAt, HoldCodes, WithEffect
<1>3. age # Undated /\ ~(age >= policy.min_age)
  BY <1>2, TooYoung DEF Inputs
<1>4. V.available_at = policy.min_age /\ V.state = "quarantined"
  <2> HIDE DEF all
  <2> QED  BY <1>1 DEF AvailableAt
<1> QED
  BY <1>3, <1>4 DEF Inputs, PolicyOK

\* retry_after: a verdict that names a time names one that has not come.
THEOREM AvailableAtAhead == Spec => []AvailableAtIsAhead
BY AheadOfAge, InputsOK, PTL

\* held_versions_for and the download gate agree on a fresh row.
THEOREM ListingAgreesWithGate == Spec => []FreshListingAgreesWithGate
<1>1. Inputs => FreshListingAgreesWithGate
  <2> DEFINE all == AllFindings(policy, found, done, age)
  <2> SUFFICES ASSUME Inputs
               PROVE  HidesFromListings(V, policy.mode, age) <=> ~IsServed(V.state)
    BY DEF FreshListingAgreesWithGate
  <2>1. V.state = StateOf(all, policy, age) /\ V.codes = CodesOf(all, policy)
    BY VIs
  <2> HIDE DEF all
  <2>2. V.state \in States
    BY <2>1, WorstType DEF StateOf, States
  <2>3. CASE V.state = "denied"
    <3>1. ASSUME policy.mode = "warn" PROVE V.codes \cap AlwaysDenied # {}
      <4>1. Worst(all, policy) = "denied"
        BY <2>1, <2>3 DEF StateOf
      <4>2. PICK f \in all : Classify(f, policy) = "denied"
        BY <4>1 DEF Worst, WithEffect
      <4>3. f.code \in AlwaysDenied
        BY <3>1, <4>2 DEF Classify, ScannerErrorEffect, InstallHookEffect, ProvenanceEffect,
                          ForgeRefEffect, Threshold, Inputs, PolicyOK
      <4>4. f.code \in CodesOf(all, policy)
        BY <4>2 DEF CodesOf
      <4> QED
        BY <2>1, <4>3, <4>4
    <3> QED
      BY <2>3, <3>1 DEF HidesFromListings, IsServed
  <2>4. CASE V.state = "quarantined"
    <3>1. V.available_at # NoTime => ~(V.available_at <= age)
      <4> SUFFICES ASSUME V.available_at # NoTime PROVE ~(V.available_at <= age)
        OBVIOUS
      <4>1. age # Undated /\ age < V.available_at
        BY AheadOfAge DEF AvailableAtIsAhead
      <4>2. V.available_at = policy.min_age
        BY VIs DEF AvailableAt
      <4> QED
        BY <4>1, <4>2 DEF Inputs, PolicyOK
    <3> QED
      BY <2>4, <3>1 DEF HidesFromListings, IsServed
  <2>5. CASE IsServed(V.state)
    BY <2>5 DEF HidesFromListings, IsServed
  <2> QED
    BY <2>2, <2>3, <2>4, <2>5 DEF States, IsServed
<1> QED
  BY <1>1, InputsOK, PTL

\* apply_override: an exemption serves, and never makes a verdict `allowed'.
THEOREM OverrideOnlyWarns == Spec => []OverrideNeverAllows
<1>1. Inputs => OverrideNeverAllows
  <2> DEFINE all == AllFindings(policy, found, done, age)
  <2> SUFFICES ASSUME Inputs PROVE OverrideNeverAllows
    OBVIOUS
  <2>1. V.state = StateOf(all, policy, age) /\ V.codes = CodesOf(all, policy)
    BY VIs
  <2>2. V = [state |-> V.state, codes |-> V.codes, findings |-> V.findings,
             available_at |-> V.available_at, scanned |-> V.scanned, done |-> V.done]
    BY DEF V, Evaluate
  <2>3. V.state = "allowed" => V.codes = {}
    <3> SUFFICES ASSUME V.state = "allowed" PROVE V.codes = {}
      OBVIOUS
    <3> HIDE DEF all
    <3>1. Worst(all, policy) = "allowed"
      BY <2>1 DEF StateOf
    <3>2. ASSUME NEW f \in all PROVE Classify(f, policy) = "allowed"
      <4>1. Classify(f, policy) \notin {"denied", "quarantined", "warned"}
        BY <3>1 DEF Worst, WithEffect
      <4>2. Classify(f, policy) \in States
        BY DEF Classify, ScannerErrorEffect, InstallHookEffect, ProvenanceEffect,
               ForgeRefEffect, Threshold, Inputs, PolicyOK, States
      <4> QED
        BY <4>1, <4>2 DEF States
    <3> QED
      BY <2>1, <3>2 DEF CodesOf
  <2> DEFINE o == ApplyOverride(V)
  <2>4. CASE IsServed(V.state)
    <3>1. o = V
      BY <2>4 DEF ApplyOverride
    <3> QED
      BY <2>3, <2>4, <3>1 DEF OverrideNeverAllows
  <2>5. CASE ~IsServed(V.state)
    <3>1. o.state = "warned" /\ "ADMIN_OVERRIDE" \in o.codes
      <4> HIDE DEF V
      <4> QED  BY <2>2, <2>5 DEF ApplyOverride
    <3> QED
      BY <3>1, <2>5 DEF OverrideNeverAllows, IsServed
  <2> QED
    BY <2>4, <2>5
<1> QED
  BY <1>1, InputsOK, PTL

-----------------------------------------------------------------------------
(* How the verdict moves. *)

\* Whatever A holds against the version, B holds too, and no less severely.
Dominates(B, A) ==
    \A f \in A : \E g \in B : g.code = f.code /\ g.severity >= f.severity

\* A hold depends on the code alone; a worse severity can only turn nothing into
\* a warning or a refusal, and a warning into a refusal.
LEMMA ClassifyGrows ==
    ASSUME NEW p, PolicyOK(p), NEW f \in Finding, NEW g \in Finding,
           g.code = f.code, g.severity >= f.severity
    PROVE  /\ Classify(f, p) = "denied" => Classify(g, p) = "denied"
           /\ Classify(f, p) = "quarantined" => Classify(g, p) = "quarantined"
           /\ Classify(f, p) = "warned" => Classify(g, p) \in {"warned", "denied"}
<1>1. f.severity \in 0 .. 4 /\ g.severity \in 0 .. 4
  BY DEF Finding
<1>2. /\ Threshold(f.severity, p) = "denied" => Threshold(g.severity, p) = "denied"
      /\ Threshold(f.severity, p) # "quarantined"
      /\ Threshold(f.severity, p) = "warned" => Threshold(g.severity, p) = "warned"
  BY <1>1 DEF Threshold, PolicyOK
<1>3. /\ ForgeRefEffect(f, p) = "denied" => ForgeRefEffect(g, p) = "denied"
      /\ ForgeRefEffect(f, p) # "quarantined"
      /\ ForgeRefEffect(g, p) \in {"warned", "denied"}
  BY <1>1 DEF ForgeRefEffect, Critical
<1>4. CASE f.code \in AlwaysDenied
  BY <1>4 DEF Classify, AlwaysDenied, ForgeRefCodes
<1>5. CASE f.code \in ForgeRefCodes
  BY <1>5, <1>3 DEF Classify, ForgeRefCodes, AlwaysDenied
<1>6. CASE f.code \notin AlwaysDenied \cup ForgeRefCodes
  BY <1>6, <1>2 DEF Classify
<1> QED
  BY <1>4, <1>5, <1>6

\* Time that has passed.
NoYounger(b, a) == b = a \/ (a \in Nat /\ b \in Nat /\ b >= a)

\* fold and maturity_lifts together are monotone: in the findings, and against
\* the age.
LEMMA StateGrows ==
    ASSUME NEW p, PolicyOK(p), NEW A \in SUBSET Finding, NEW B \in SUBSET Finding,
           Dominates(B, A), NEW a \in Nat \cup {Undated}, NEW b \in Nat \cup {Undated},
           NoYounger(a, b)
    PROVE  Rank(StateOf(A, p, a)) <= Rank(StateOf(B, p, b))
<1>1. WithEffect(A, p, "denied") # {} => WithEffect(B, p, "denied") # {}
  BY ClassifyGrows DEF WithEffect, Dominates
<1>2. \A f \in WithEffect(A, p, "quarantined") :
        \E g \in WithEffect(B, p, "quarantined") : g.code = f.code
  BY ClassifyGrows DEF WithEffect, Dominates
<1>3. WithEffect(A, p, "warned") # {} =>
        WithEffect(B, p, "warned") # {} \/ WithEffect(B, p, "denied") # {}
  BY ClassifyGrows DEF WithEffect, Dominates
<1>4. Rank(Worst(A, p)) <= Rank(Worst(B, p))
  BY <1>1, <1>2, <1>3 DEF Worst, Rank
<1>5. HoldCodes(A, p) \subseteq HoldCodes(B, p)
  BY <1>2 DEF HoldCodes
<1>6. Worst(A, p) \in States /\ Worst(B, p) \in States
  BY WorstType
<1>7. CASE MaturityLifts(B, p, b)
  <2>1. Worst(B, p) = "quarantined" /\ StateOf(B, p, b) = "warned"
    BY <1>7 DEF MaturityLifts, StateOf
  <2>2. CASE Worst(A, p) = "quarantined"
    <3>1. a # Undated /\ a >= p.mature_age
      BY <1>7 DEF MaturityLifts, NoYounger, PolicyOK, Undated
    <3>2. MaturityLifts(A, p, a)
      BY <1>5, <1>7, <2>2, <3>1 DEF MaturityLifts
    <3> QED
      BY <2>1, <3>2 DEF StateOf, Rank
  <2>3. CASE Worst(A, p) # "quarantined"
    <3>1. Worst(A, p) \in {"allowed", "warned"}
      BY <1>4, <1>6, <2>1, <2>3 DEF Rank, States
    <3>2. StateOf(A, p, a) = Worst(A, p)
      BY <2>3 DEF StateOf, MaturityLifts
    <3> QED
      BY <2>1, <3>1, <3>2 DEF Rank
  <2> QED
    BY <2>2, <2>3
<1>8. CASE ~MaturityLifts(B, p, b)
  <2>1. StateOf(B, p, b) = Worst(B, p)
    BY <1>8 DEF StateOf
  <2>2. CASE MaturityLifts(A, p, a)
    <3>1. Worst(A, p) = "quarantined" /\ StateOf(A, p, a) = "warned"
      BY <2>2 DEF MaturityLifts, StateOf
    <3>2. Worst(B, p) \in {"quarantined", "denied"}
      BY <1>4, <1>6, <3>1 DEF Rank, States
    <3> QED
      BY <2>1, <3>1, <3>2 DEF Rank
  <2>3. CASE ~MaturityLifts(A, p, a)
    BY <1>4, <2>1, <2>3 DEF StateOf
  <2> QED
    BY <2>2, <2>3
<1> QED
  BY <1>7, <1>8

LEMMA AllAreFindings ==
    ASSUME NEW p, PolicyOK(p), NEW F, Reported(F), NEW d, NEW a
    PROVE  AllFindings(p, F, d, a) \in SUBSET Finding
<1>1. /\ Escalate(F, p) \subseteq Finding
      /\ AgeFindings(p, a) \subseteq Finding
      /\ PendingFindings(p, d) \subseteq Finding
  BY EscalatedAreReported, AgeFindingsAre, PendingFindingsAre
<1> QED
  BY <1>1, AllOfReported

\* A set of findings dominates its subsets.
LEMMA SupersetDominates ==
    ASSUME NEW A, NEW B \in SUBSET Finding, A \subseteq B
    PROVE  Dominates(B, A)
<1>1. \A f \in B : f.severity \in 0 .. 4
  BY DEF Finding
<1> QED
  BY <1>1 DEF Dominates

\* One more finding, and what it escalates.
LEMMA MoreDominates ==
    ASSUME NEW p, PolicyOK(p), NEW G, Reported(G), IsFiniteSet(G),
           NEW F, F \subseteq G, NEW d, NEW a
    PROVE  Dominates(AllFindings(p, G, d, a), AllFindings(p, F, d, a))
<1> DEFINE D == AgeFindings(p, a) \cup PendingFindings(p, d)
<1>1. Reported(F) /\ G \in SUBSET Finding
  BY DEF Reported
<1>2. /\ AllFindings(p, F, d, a) = Escalate(F, p) \cup D
      /\ AllFindings(p, G, d, a) = Escalate(G, p) \cup D
  BY <1>1, AllOfReported
<1>3. \A f \in D : f.severity \in 0 .. 4
  BY AgeFindingsAre, PendingFindingsAre DEF Finding
<1>4. ASSUME NEW f \in Escalate(F, p)
      PROVE  \E g \in Escalate(G, p) : g.code = f.code /\ g.severity >= f.severity
  <2>1. PICK e \in F : f = Up(e, F, p)
    BY EscalateIsUp
  <2> DEFINE g == Up(e, G, p)
  <2>2. g \in Escalate(G, p)
    BY EscalateIsUp
  <2>3. e \in Finding /\ e.severity \in 0 .. 4
    BY <1>1 DEF Finding
  <2>4. f.code = e.code /\ f.severity >= e.severity /\ g.code = e.code
        /\ g.severity >= e.severity /\ f.severity \in 0 .. 4
    BY <2>1, <2>3, UpKeeps DEF Finding
  <2>5. CASE IsEscalated(e, F, p)
    <3>1. IsEscalated(e, G, p)
      BY <1>1, <2>5, EscalateGrows
    <3>2. g = f
      BY <2>1, <2>5, <3>1 DEF Up
    <3> QED
      BY <2>2, <2>4, <3>2
  <2>6. CASE ~IsEscalated(e, F, p)
    <3>1. f = e
      BY <2>1, <2>6 DEF Up
    <3> QED
      BY <2>2, <2>4, <3>1
  <2> QED
    BY <2>5, <2>6
<1> HIDE DEF D
<1> QED
  BY <1>2, <1>3, <1>4 DEF Dominates

LEMMA ReportGrows ==
    ASSUME Inputs, NEW f \in Reportable \ found, Report(f), Inputs'
    PROVE  Rank(V.state) <= Rank(V'.state)
<1> DEFINE A == AllFindings(policy, found, done, age)
           B == AllFindings(policy, found', done, age)
<1>1. policy' = policy /\ done' = done /\ age' = age /\ found \subseteq found'
  BY DEF Report
<1>2. PolicyOK(policy) /\ Reported(found) /\ Reported(found') /\ IsFiniteSet(found')
      /\ age \in Nat \cup {Undated}
  BY DEF Inputs
<1>3. A \in SUBSET Finding /\ B \in SUBSET Finding /\ Dominates(B, A)
  BY <1>1, <1>2, AllAreFindings, MoreDominates
<1>4. V.state = StateOf(A, policy, age) /\ V'.state = StateOf(B, policy, age)
  BY <1>1 DEF V, Evaluate, StateOf
<1>5. NoYounger(age, age)
  BY DEF NoYounger
<1> HIDE DEF A, B
<1> QED
  BY <1>2, <1>3, <1>4, <1>5, StateGrows

\* The other steps take findings away and let time pass.
LEMMA RestShrinks ==
    ASSUME Inputs, Inputs', (\E s : Answered(s)) \/ Tick
    PROVE  Rank(V'.state) <= Rank(V.state)
<1> DEFINE A == AllFindings(policy, found, done', age')
           B == AllFindings(policy, found, done, age)
<1>1. policy' = policy /\ found' = found /\ done \subseteq done'
      /\ \/ age' = age
         \/ age \in Nat /\ age' \in Nat /\ age' >= age
  BY DEF Answered, Tick, Inputs, Undated
<1>2. PolicyOK(policy) /\ Reported(found)
      /\ age \in Nat \cup {Undated} /\ age' \in Nat \cup {Undated}
  BY DEF Inputs
<1>3. PendingFindings(policy, done') \subseteq PendingFindings(policy, done)
  BY <1>1 DEF PendingFindings
<1>4. AgeFindings(policy, age') \subseteq AgeFindings(policy, age)
  BY <1>1, <1>2 DEF AgeFindings, Undated, PolicyOK
<1>5. A \subseteq B
  BY <1>2, <1>3, <1>4, AllOfReported
<1>6. A \in SUBSET Finding /\ B \in SUBSET Finding
  BY <1>2, AllAreFindings
<1>7. V'.state = StateOf(A, policy, age') /\ V.state = StateOf(B, policy, age)
  BY <1>1 DEF V, Evaluate, StateOf
<1>8. NoYounger(age', age)
  BY <1>1 DEF NoYounger
<1> HIDE DEF A, B
<1> QED
  BY <1>2, <1>5, <1>6, <1>7, <1>8, SupersetDominates, StateGrows

\* One more finding never makes a verdict better: fold, escalate (whose count a
\* new finding may complete) and maturity_lifts are monotone together.
THEOREM FindingsNeverRelax == Spec => MoreFindingsNeverRelax
<1>1. Inputs /\ Inputs' /\ [Next]_vars
        => [found # found' => Rank(V'.state) >= Rank(V.state)]_vars
  <2> SUFFICES ASSUME Inputs, Inputs', Next, found # found'
               PROVE  Rank(V'.state) >= Rank(V.state)
    OBVIOUS
  <2>1. PICK f \in Reportable \ found : Report(f)
    BY DEF Next, Answered, Tick
  <2> QED
    BY <2>1, ReportGrows
<1> QED
  BY <1>1, InputsOK, PTL DEF Spec, MoreFindingsNeverRelax

\* No hold appears because time passed or because a scanner answered.
THEOREM WaitingOnlyRelaxes == Spec => TimeAndAnswersOnlyRelax
<1>1. Inputs /\ Inputs' /\ [Next]_vars
        => [found = found' => Rank(V'.state) <= Rank(V.state)]_vars
  <2> SUFFICES ASSUME Inputs, Inputs', Next, found = found'
               PROVE  Rank(V'.state) <= Rank(V.state)
    OBVIOUS
  <2>1. (\E s : Answered(s)) \/ Tick
    BY DEF Next, Report
  <2> QED
    BY <2>1, RestShrinks
<1> QED
  BY <1>1, InputsOK, PTL DEF Spec, TimeAndAnswersOnlyRelax

=============================================================================
