------------------------------- MODULE Verdict -------------------------------
(***************************************************************************)
(* The pure half of the security verdict pipeline: what a set of findings  *)
(* means under a registry's [security] profile.                            *)
(*   crates/core/src/services/verdict.rs   (evaluate and what it calls)    *)
(*   crates/core/src/entities/security.rs  (states, codes, listing filter) *)
(*                                                                         *)
(* A finding list is a set of records: two findings that differ only in    *)
(* what they say differ in `ref'.  Time is the version's age (now minus    *)
(* published_at), so `published + d <= now' is `age >= d' and an           *)
(* available_at is the age at which the hold lifts.                        *)
(***************************************************************************)
EXTENDS Integers, FiniteSets

CONSTANT Names    \* scanner names and the references findings carry

\* A version the upstream did not date (published_at = None).
Undated == -1

\* No available_at on a verdict.
NoTime == -1

\* The names the derived findings are filed under.
AgeScanner == "age"
PendingScanner == "pending"

ASSUME NamesAssumption == {AgeScanner, PendingScanner} \subseteq Names

\* VerdictState, worst last, with rank() as the index.
States == {"allowed", "warned", "quarantined", "denied"}

Rank(s) ==
    CASE s = "allowed"     -> 0
      [] s = "warned"      -> 1
      [] s = "quarantined" -> 2
      [] s = "denied"      -> 3

IsServed(s) == s \in {"allowed", "warned"}

\* Severity, ordered as the Rust enum derives Ord.
Unknown  == 0
Low      == 1
Medium   == 2
High     == 3
Critical == 4

AlwaysDenied       == {"BLOCK_LIST", "SOC_VERDICT"}
MaturityBypassable == {"SCAN_PENDING", "SCANNER_ERROR"}
TimeBound          == {"MIN_AGE_NOT_MET", "SCAN_PENDING", "SCANNER_ERROR"}
ForgeRefCodes      == {"MUTABLE_REF", "TAG_MOVED", "ASSET_REPLACED",
                       "PINNED_REF_REQUIRED", "RAW_SCRIPT"}

\* ReasonCode and FindingKind.
Codes ==
    AlwaysDenied \cup TimeBound \cup ForgeRefCodes \cup
    {"TIMESTAMP_MISSING", "SCANNER_UNSUPPORTED", "VULNERABILITY", "MALWARE_SIGNAL",
     "INSTALL_HOOK", "TYPOSQUAT_SUSPECT", "PUBLISHER_CHANGED", "INSTALL_HOOK_ADDED",
     "REPOSITORY_MOVED", "DORMANT_RELEASE", "UNPUBLISHED_UPSTREAM", "PROVENANCE_MISSING",
     "PROVENANCE_INVALID", "PROVENANCE_UNVERIFIABLE", "PROVENANCE_REMOVED",
     "SIGNATURE_MISSING", "LICENSE_DENIED", "UNTRUSTED_PUBLISHER", "ADMIN_OVERRIDE"}

Kinds ==
    {"vulnerability", "malware_signal", "install_hook", "provenance", "signature",
     "license", "publisher", "typosquat", "transition", "age", "pending",
     "soc_verdict", "scanner_error", "block_list", "ref"}

\* A finding, and a row of artifact_verdicts with its findings.
Finding == [scanner : Names, kind : Kinds, code : Codes,
            severity : 0 .. 4, ref : Names]

Row == [state : States, codes : SUBSET Codes, findings : SUBSET Finding,
        available_at : Int, scanned : BOOLEAN, done : SUBSET Names]

NewFinding(scanner, kind, code, severity, ref) ==
    [scanner |-> scanner, kind |-> kind, code |-> code,
     severity |-> severity, ref |-> ref]

-----------------------------------------------------------------------------
(* Findings derived from the clock and from who has answered. *)

\* Mutant: a version that has just reached min_age is still held.
AgeFindingsStrict(policy, age) ==
    IF age = Undated
    THEN IF policy.hold_missing_timestamp
         THEN {NewFinding(AgeScanner, "age", "TIMESTAMP_MISSING", High, AgeScanner)}
         ELSE {}
    ELSE IF age > policy.min_age
         THEN {}
         ELSE {NewFinding(AgeScanner, "age", "MIN_AGE_NOT_MET", High, AgeScanner)}

AgeFindings(policy, age) ==
    IF age = Undated
    THEN IF policy.hold_missing_timestamp
         THEN {NewFinding(AgeScanner, "age", "TIMESTAMP_MISSING", High, AgeScanner)}
         ELSE {}
    ELSE IF age >= policy.min_age
         THEN {}
         ELSE {NewFinding(AgeScanner, "age", "MIN_AGE_NOT_MET", High, AgeScanner)}

\* Mutant: forgets the scanners that have not answered once one has.
PendingFindingsAnyDone(policy, done) ==
    IF done # {} THEN {} ELSE
    {NewFinding(PendingScanner, "pending", "SCAN_PENDING", High, s) :
        s \in policy.required_scanners}

\* Mutant: nobody has answered yet, so nobody is awaited.
PendingFindingsNoneYet(policy, done) ==
    IF done = {} THEN {} ELSE
    {NewFinding(PendingScanner, "pending", "SCAN_PENDING", High, s) :
        s \in policy.required_scanners \ done}

PendingFindings(policy, done) ==
    {NewFinding(PendingScanner, "pending", "SCAN_PENDING", High, s) :
        s \in policy.required_scanners \ done}

\* escalate: `count' findings of the block's kinds at or above `from', all from
\* the one scanner, are raised to `to'.  A scanner without a block is untouched.
EscalationHits(findings, policy, scanner) ==
    LET esc == policy.escalation[scanner]
    IN  {f \in findings : /\ f.scanner = scanner
                          /\ f.kind \in esc.kinds
                          /\ f.severity >= esc.from}

IsEscalated(f, findings, policy) ==
    /\ f.scanner \in DOMAIN policy.escalation
    /\ f \in EscalationHits(findings, policy, f.scanner)
    /\ LET esc == policy.escalation[f.scanner]
       IN  /\ f.severity < esc.to
           /\ Cardinality(EscalationHits(findings, policy, f.scanner))
                >= (IF esc.count = 0 THEN 1 ELSE esc.count)

Escalate(findings, policy) ==
    {IF IsEscalated(f, findings, policy)
     THEN [f EXCEPT !.severity = policy.escalation[f.scanner].to]
     ELSE f : f \in findings}

-----------------------------------------------------------------------------
(* What one finding does to the state; "allowed" stands for None, the      *)
(* finding that is recorded but changes nothing.                           *)

Threshold(severity, policy) ==
    IF severity < policy.max_severity THEN "allowed"
    ELSE IF policy.mode = "block" THEN "denied" ELSE "warned"

ScannerErrorEffect(policy) ==
    CASE policy.scanner_error = "quarantine" -> "quarantined"
      [] policy.scanner_error = "warn"       -> "warned"
      [] policy.scanner_error = "ignore"     -> "allowed"

InstallHookEffect(policy) ==
    CASE policy.deny_install_hooks = "deny"   -> Threshold(Critical, policy)
      [] policy.deny_install_hooks = "warn"   -> "warned"
      [] policy.deny_install_hooks = "ignore" -> "allowed"

ProvenanceEffect(policy) ==
    IF policy.require_provenance THEN Threshold(Critical, policy) ELSE "warned"

ForgeRefEffect(f, policy) ==
    IF f.severity = Critical /\ policy.mode = "block" THEN "denied" ELSE "warned"

Classify(f, policy) ==
    CASE f.code \in AlwaysDenied -> "denied"
      [] f.code \in {"MIN_AGE_NOT_MET", "SCAN_PENDING", "TIMESTAMP_MISSING"} -> "quarantined"
      [] f.code \in {"SCANNER_ERROR", "SCANNER_UNSUPPORTED"} -> ScannerErrorEffect(policy)
      [] f.code = "INSTALL_HOOK" -> InstallHookEffect(policy)
      [] f.code \in {"PROVENANCE_MISSING", "PROVENANCE_INVALID"} -> ProvenanceEffect(policy)
      [] f.code = "PROVENANCE_UNVERIFIABLE" -> "warned"
      [] f.code = "ADMIN_OVERRIDE" -> "allowed"
      [] f.code \in ForgeRefCodes -> ForgeRefEffect(f, policy)
      [] OTHER -> Threshold(f.severity, policy)

\* The findings whose effect is s.
WithEffect(findings, policy, s) == {f \in findings : Classify(f, policy) = s}

\* fold: the worst effect of any finding.
Worst(findings, policy) ==
    IF WithEffect(findings, policy, "denied") # {} THEN "denied"
    ELSE IF WithEffect(findings, policy, "quarantined") # {} THEN "quarantined"
    ELSE IF WithEffect(findings, policy, "warned") # {} THEN "warned"
    ELSE "allowed"

CodesOf(findings, policy) ==
    {f.code : f \in {g \in findings : Classify(g, policy) # "allowed"}}

HoldCodes(findings, policy) ==
    {f.code : f \in WithEffect(findings, policy, "quarantined")}

\* Mutant: lifts whatever holds the version.
MaturityLiftsAnyCode(findings, policy, age) ==
    /\ Worst(findings, policy) = "quarantined"
    /\ policy.mature_age # 0
    /\ age # Undated
    /\ age >= policy.mature_age

\* Mutant: looks at the holds only, so a hold beside a refusal lifts both.
MaturityLiftsRefusals(findings, policy, age) ==
    /\ HoldCodes(findings, policy) # {}
    /\ policy.mature_age # 0
    /\ HoldCodes(findings, policy) \subseteq MaturityBypassable
    /\ age # Undated
    /\ age >= policy.mature_age

\* Mutant: the comparison with mature_age the wrong way round.
MaturityLiftsYoung(findings, policy, age) ==
    /\ Worst(findings, policy) = "quarantined"
    /\ policy.mature_age # 0
    /\ HoldCodes(findings, policy) \subseteq MaturityBypassable
    /\ age # Undated
    /\ age <= policy.mature_age

MaturityLifts(findings, policy, age) ==
    /\ Worst(findings, policy) = "quarantined"
    /\ policy.mature_age # 0
    /\ HoldCodes(findings, policy) \subseteq MaturityBypassable
    /\ age # Undated
    /\ age >= policy.mature_age

\* Only a MIN_AGE_NOT_MET finding carries an available_at.
AvailableAt(findings, policy, state) ==
    IF state = "quarantined" /\ "MIN_AGE_NOT_MET" \in HoldCodes(findings, policy)
    THEN policy.min_age ELSE NoTime

\* Mutant: keeps the derived findings a stored row brings along.
AllFindingsPilingUp(policy, findings, done, age) ==
    Escalate(findings, policy)
        \cup AgeFindings(policy, age)
        \cup PendingFindings(policy, done)

\* Everything the evaluation looks at: the scanners' findings without what
\* an earlier evaluation derived, escalated, plus today's derived ones.
AllFindings(policy, findings, done, age) ==
    Escalate({f \in findings : f.scanner \notin {AgeScanner, PendingScanner}}, policy)
        \cup AgeFindings(policy, age)
        \cup PendingFindings(policy, done)

Evaluate(policy, findings, done, age, scanned) ==
    LET all   == AllFindings(policy, findings, done, age)
        state == IF MaturityLifts(all, policy, age) THEN "warned"
                 ELSE Worst(all, policy)
    IN  [state        |-> state,
         codes        |-> CodesOf(all, policy),
         findings     |-> all,
         available_at |-> AvailableAt(all, policy, state),
         scanned      |-> scanned,
         done         |-> done]

\* Mutant: an exemption wipes the verdict.
ApplyOverrideAllowing(v) ==
    IF IsServed(v.state) THEN v
    ELSE [v EXCEPT !.state = "allowed", !.available_at = NoTime]

\* apply_override: an active security_verdict exemption.
ApplyOverride(v) ==
    IF IsServed(v.state) THEN v
    ELSE [v EXCEPT !.state = "warned",
                   !.available_at = NoTime,
                   !.codes = @ \cup {"ADMIN_OVERRIDE"}]

\* Mutant: a registry in warn mode hides no denied version.
HidesFromListingsWarnAll(v, mode, age) ==
    \/ v.state = "denied" /\ mode = "block"
    \/ /\ v.state = "quarantined"
       /\ ~ /\ v.codes # {}
            /\ v.codes \subseteq TimeBound
            /\ v.available_at # NoTime
            /\ v.available_at <= age

\* Verdict::hides_from_listings_under: the listing filter, which reads the
\* stored row and not a fresh evaluation.
HidesFromListings(v, mode, age) ==
    \/ /\ v.state = "denied"
       /\ mode = "warn" => v.codes \cap AlwaysDenied # {}
    \/ /\ v.state = "quarantined"
       /\ ~ /\ v.codes # {}
            /\ v.codes \subseteq TimeBound
            /\ v.available_at # NoTime
            /\ v.available_at <= age

=============================================================================
