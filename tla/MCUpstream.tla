------------------------------ MODULE MCUpstream ------------------------------
(* An instance of UpstreamAudit for TLC: one package with two versions, one   *)
(* with one.                                                                  *)
EXTENDS UpstreamAudit

CONSTANTS p, q

MCVersions == [x \in {p, q} |-> IF x = p THEN 2 ELSE 1]

\* Upstream withdraws p, or one of its versions, and keeps q.
MCOffers == [x \in {p, q} |-> IF x = p THEN {{}, {1}, {1, 2}} ELSE {{1}}]
===============================================================================
