------------------------------ MODULE MCAudit ------------------------------
(* Instances of AuditChain for TLC.                                       *)
EXTENDS AuditChain, TLC

CONSTANTS s1, s2

\* One row in each of the two windows that close first; the first one lies
\* before the chain if sealing starts late.
MCInitRows == {
    [id |-> "r1", t |-> 1, cls |-> "access", user |-> "name", net |-> "full"],
    [id |-> "r2", t |-> 2, cls |-> "security", user |-> "name", net |-> "full"]}

\* The sealers of two processes that both take themselves for the leader.
MCSealers == Permutations({s1, s2})

MCNewRows == {[cls |-> "access", user |-> "name"]}
=============================================================================
