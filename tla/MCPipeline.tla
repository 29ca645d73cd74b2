------------------------------ MODULE MCPipeline ------------------------------
(* Values shared by the runs of VerdictPipeline: SecurityPolicy::defaults_for *)
(* with min_age 1 and mature_age 2, so that a version may be old enough and   *)
(* not yet mature; the block list, the flags and one required scanner.        *)
EXTENDS VerdictPipeline

MCNames == {AgeScanner, PendingScanner, BlockListScanner, FlagsScanner, "flag", "osv", "epss"}

DefaultPolicy ==
    [mode |-> "block", min_age |-> 1, mature_age |-> 2,
     hold_missing_timestamp |-> TRUE, required_scanners |-> {"osv"},
     max_severity |-> High, require_provenance |-> FALSE,
     deny_install_hooks |-> "warn", scanner_error |-> "quarantine",
     escalation |-> [s \in {} |-> {}]]

OsvOnly == <<"osv">>
OsvAndEpss == <<"osv", "epss">>
FlagsAndOsv == <<FlagsScanner, "osv">>
BlockAndOsv == <<BlockListScanner, "osv">>
AllScanners == <<BlockListScanner, FlagsScanner, "osv">>

OneHardKind == {[wild |-> FALSE, hard |-> TRUE]}
HardKinds == [wild : BOOLEAN, hard : {TRUE}]

GrownAge == {1}
OldAge == {2}
=============================================================================
