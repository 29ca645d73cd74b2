----------------------------- MODULE VerdictEval -----------------------------
(***************************************************************************)
(* The inputs of one evaluation as they really evolve: scanners report     *)
(* findings and are marked as having answered, the clock moves, and at     *)
(* every point `current()' or `record_scan()' may evaluate what is there.  *)
(* The verdict is the state function V; the properties say how it may      *)
(* move with its inputs, for every profile in Policies.                    *)
(***************************************************************************)
EXTENDS Verdict

CONSTANTS Policies,     \* the [security] profiles considered
          Reportable,   \* the findings scanners may report
          MaxAge        \* bound: the oldest age the clock reaches

ASSUME MaxAgeAssumption == MaxAge \in Nat

\* The types of [security] (config/src/schema/security.rs), and what
\* validate_registry_security refuses: no delay, and a maturity before it.
ASSUME PoliciesAssumption ==
    \A p \in Policies :
        /\ p.mode \in {"block", "warn"}
        /\ p.min_age \in Nat \ {0}
        /\ p.mature_age \in Nat
        /\ p.mature_age = 0 \/ p.mature_age >= p.min_age
        /\ p.max_severity \in 0 .. 4
        /\ p.scanner_error \in {"quarantine", "warn", "ignore"}
        /\ p.deny_install_hooks \in {"deny", "warn", "ignore"}
        /\ p.required_scanners \subseteq Names
        /\ \A s \in DOMAIN p.escalation : /\ p.escalation[s].from \in 0 .. 4
                                          /\ p.escalation[s].to \in 0 .. 4
                                          /\ p.escalation[s].count \in Nat

\* Every scanner maps what it finds to codes of its own (adapters/src/scanners,
\* core/src/services/scanners.rs); the derived findings are evaluate's alone.
ASSUME ReportableAssumption ==
    \A f \in Reportable : /\ f \in Finding
                          /\ f.scanner \notin {AgeScanner, PendingScanner}
                          /\ f.code # "MIN_AGE_NOT_MET"

VARIABLES policy,  \* SecurityPolicy of the registry, fixed in a behaviour
          found,   \* scanner_findings: what the scanners have said so far
          done,    \* scanners_done
          age      \* now - published_at, or Undated

vars == <<policy, found, done, age>>

V == Evaluate(policy, found, done, age, TRUE)

Init ==
    /\ policy \in Policies
    /\ found = {}
    /\ done = {}
    /\ age \in {Undated, 0}

\* run_scanner pushes one finding.
Report(f) ==
    /\ found' = found \cup {f}
    /\ UNCHANGED <<policy, done, age>>

\* run_scanner marks a scanner that answered.
Answered(s) ==
    /\ done' = done \cup {s}
    /\ UNCHANGED <<policy, found, age>>

\* The clock: an undated version has no age to grow.
Tick ==
    /\ age # Undated
    /\ age < MaxAge
    /\ age' = age + 1
    /\ UNCHANGED <<policy, found, done>>

Next ==
    \/ \E f \in Reportable \ found : Report(f)
    \/ \E s \in policy.required_scanners \ done : Answered(s)
    \/ Tick

Spec == Init /\ [][Next]_vars

-----------------------------------------------------------------------------
(* Properties *)

\* The module header of verdict.rs: the absence of a scan is never an allow.
\* An `allowed' verdict means every required scanner answered and, unless the
\* profile ignores scanner errors, none of the findings is a scanner error.
AbsenceOfScanNeverAllows ==
    V.state = "allowed" =>
        /\ policy.required_scanners \subseteq done
        /\ policy.scanner_error # "ignore" =>
             \A f \in found : f.code \notin {"SCANNER_ERROR", "SCANNER_UNSUPPORTED"}

\* maturity_lifts: a version served in spite of a hold is served only because
\* nobody looked; nothing else holds it, nothing refuses it, and it is dated
\* and past mature_age.
ServedHoldIsOnlyUnscanned ==
    IsServed(V.state) /\ HoldCodes(V.findings, policy) # {} =>
        /\ V.state = "warned"
        /\ HoldCodes(V.findings, policy) \subseteq MaturityBypassable
        /\ V.codes \cap AlwaysDenied = {}
        /\ WithEffect(V.findings, policy, "denied") = {}
        /\ policy.mature_age > 0 /\ age >= policy.mature_age

\* current() judges the findings of a stored row, which an earlier evaluation
\* escalated and added derived findings to: read back at any later time, the row
\* gives what the scanners' own findings would give then.
StoredRowReadsAsFresh ==
    \A later \in IF age = Undated THEN {Undated} ELSE age .. MaxAge :
        Evaluate(policy, V.findings, V.done, later, TRUE)
            = Evaluate(policy, found, done, later, TRUE)

\* retry_after and the listing filter read available_at as a time to wait for:
\* a verdict that names one names a time that has not come.
AvailableAtIsAhead ==
    V.available_at # NoTime => /\ age # Undated /\ age < V.available_at
                               /\ V.state = "quarantined"

\* held_versions_for and the download gate agree on a row that is fresh: a
\* version is hidden from the listings exactly when the gate refuses it.
FreshListingAgreesWithGate ==
    HidesFromListings(V, policy.mode, age) <=> ~IsServed(V.state)

\* apply_override: an exemption makes any verdict servable but never allowed,
\* unless it was allowed without the exemption.
OverrideNeverAllows ==
    LET o == ApplyOverride(V)
    IN  /\ IsServed(o.state)
        /\ o.state = "allowed" => V.state = "allowed" /\ V.codes = {}
        /\ ~IsServed(V.state) => "ADMIN_OVERRIDE" \in o.codes

\* fold, escalate and maturity_lifts together are monotone: one more finding
\* never makes the verdict better.
MoreFindingsNeverRelax ==
    [][found # found' => Rank(V'.state) >= Rank(V.state)]_vars

\* Waiting and scanning only ever relax a verdict whose findings are the same:
\* no hold appears because time passed or because a scanner answered.
TimeAndAnswersOnlyRelax ==
    [][found = found' => Rank(V'.state) <= Rank(V.state)]_vars

=============================================================================
