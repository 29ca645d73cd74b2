----------------------------- MODULE AuditLedger -----------------------------
(***************************************************************************)
(* What the sealed audit trail promises (RFC 0036 5.3), without saying how *)
(* its writers coordinate: windows are sealed one after the other, none    *)
(* twice and none left out; the chain of records only grows, by one record *)
(* that follows its head; and what a sealed window holds changes only      *)
(* together with a record that says what it holds from then on, only by    *)
(* losing rows or losing personal data.                                    *)
(***************************************************************************)
EXTENDS AuditRows

VARIABLES
    chain,      \* the sequence of seal records
    held        \* for every sealed window, the rows it holds

vars == <<chain, held>>

Init ==
    /\ chain = <<>>
    /\ DOMAIN held = {}

OthersKept(w) == \A v \in DOMAIN held \ {w} : held'[v] = held[v]

\* The window after the last sealed one, or any window to begin with.
NextToSeal(w) ==
    /\ w \notin DOMAIN held
    /\ DOMAIN held # {} => \E v \in DOMAIN held : w = v + 1

Seal ==
    \E w \in DOMAIN held' :
        /\ NextToSeal(w)
        /\ DOMAIN held' = DOMAIN held \cup {w}
        /\ OthersKept(w)
        /\ chain' = Append(chain, NextRecord(Len(chain), "seal", w, held'[w]))

Redact ==
    \E w \in DOMAIN held, kind \in SealKind :
        /\ DOMAIN held' = DOMAIN held
        /\ OthersKept(w)
        /\ Redaction(kind, held[w], held'[w])
        /\ chain' = Append(chain, NextRecord(Len(chain), kind, w, held'[w]))

Next == Seal \/ Redact

Spec == Init /\ [][Next]_vars
==============================================================================
