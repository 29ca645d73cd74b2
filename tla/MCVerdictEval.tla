---------------------------- MODULE MCVerdictEval ----------------------------
(* Small instance of VerdictEval: profiles that differ in every switch the  *)
(* evaluation reads, and one finding of each class of reason code.          *)
EXTENDS VerdictEval

MCNames == {AgeScanner, PendingScanner, "osv", "clamav", "hooks", "prov", "flags", "forge",
            "a", "b", "h", "p", "f", "r"}

Base ==
    [mode |-> "block", min_age |-> 1, mature_age |-> 2,
     hold_missing_timestamp |-> TRUE, required_scanners |-> {"osv"},
     max_severity |-> High, require_provenance |-> FALSE,
     deny_install_hooks |-> "warn", scanner_error |-> "quarantine",
     escalation |-> [s \in {} |-> {}]]

\* Two medium vulnerabilities of osv make a critical one.
OsvEscalation ==
    [s \in {"osv"} |->
        [kinds |-> {"vulnerability"}, count |-> 2, from |-> Medium, to |-> Critical]]

MCPolicies ==
    { Base,
      [Base EXCEPT !.mode = "warn"],
      [Base EXCEPT !.mature_age = 0, !.hold_missing_timestamp = FALSE],
      [Base EXCEPT !.min_age = 2, !.mature_age = 2],
      [Base EXCEPT !.scanner_error = "warn", !.require_provenance = TRUE],
      [Base EXCEPT !.scanner_error = "ignore", !.deny_install_hooks = "deny"],
      [Base EXCEPT !.escalation = OsvEscalation, !.max_severity = Critical,
                   !.required_scanners = {"osv", "clamav"}] }

MCReportable ==
    { NewFinding("osv", "vulnerability", "VULNERABILITY", Medium, "a"),
      NewFinding("osv", "vulnerability", "VULNERABILITY", Medium, "b"),
      NewFinding("osv", "vulnerability", "VULNERABILITY", High, "a"),
      NewFinding("osv", "scanner_error", "SCANNER_ERROR", High, "osv"),
      NewFinding("clamav", "scanner_error", "SCANNER_UNSUPPORTED", High, "clamav"),
      NewFinding("hooks", "install_hook", "INSTALL_HOOK", Low, "h"),
      NewFinding("prov", "provenance", "PROVENANCE_MISSING", Low, "p"),
      NewFinding("flags", "soc_verdict", "SOC_VERDICT", Critical, "f"),
      NewFinding("forge", "ref", "MUTABLE_REF", Critical, "r") }

MCMaxAge == 3

=============================================================================
