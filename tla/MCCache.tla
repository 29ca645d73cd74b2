-------------------------------- MODULE MCCache --------------------------------
(* Instances of ProxyCache for TLC.                                           *)
EXTENDS ProxyCache, TLC

CONSTANTS k1, k2, x, y, bad, b1, b2, c1, c2, evictor, sweeper

\* k1 and k2 share the content x; k1 may move to y.
MCContents == [k \in {k1, k2} |-> IF k = k1 THEN {x, y} ELSE {x}]
MCOneBackend == [k \in {k1, k2} |-> b1]
MCTwoBackends == [k \in {k1, k2} |-> IF k = k1 THEN b1 ELSE b2]

MCStrict == [enabled |-> TRUE, block_on_mismatch |-> TRUE,
             require_metadata |-> TRUE, verify_on_serve |-> TRUE]
MCServeOnly == [enabled |-> TRUE, block_on_mismatch |-> TRUE,
                require_metadata |-> TRUE, verify_on_serve |-> FALSE]
MCOneContent == [k \in {k1, k2} |-> {x}]
MCClients == Permutations({c1, c2})
================================================================================
