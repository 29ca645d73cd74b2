------------------------------ MODULE AuditRows ------------------------------
(***************************************************************************)
(* The rows of the audit trail (access_events) as the seal chain and the   *)
(* lifecycle tell them apart.  A row is stamped with the seal window it    *)
(* belongs to (time is counted in windows), belongs to the access or the   *)
(* security class, and carries two pieces of personal data that only the   *)
(* lifecycle may change: whose row it is, and how precise its address is.  *)
(* A row is identified by its id and its stamp, neither of which changes.  *)
(***************************************************************************)
EXTENDS Naturals, Sequences

CONSTANTS RowIds        \* identifiers of audit rows

Classes == {"access", "security"}
Users == {"name", "pseudonym"}
Nets == {"full", "network"}

Row == [id : RowIds, t : Nat, cls : Classes, user : Users, net : Nets]

SealKind == {"seal", "amend", "expire"}

\* A record of the chain: its position, the position it chains to
\* (prev_digest), the window it is about and what that window holds after it.
\* Two sets of rows have the same rows_digest iff they are equal.
SealRecord == [seq : Nat, prev : Nat, kind : SealKind, window : Nat,
               rows : SUBSET Row]

SameRow(a, b) == a.id = b.id /\ a.t = b.t

\* b is a with some of its personal data taken away, and nothing put back.
RedactedRow(a, b) ==
    /\ SameRow(a, b)
    /\ a.cls = b.cls
    /\ a.user = "pseudonym" => b.user = "pseudonym"
    /\ a.net = "network" => b.net = "network"

\* What a window may hold after a record, given what it held before: an
\* expiry only removes rows, an amendment only takes personal data away.
Redaction(kind, R, S) ==
    \/ kind = "expire" /\ S \subseteq R
    \/ /\ kind = "amend"
       /\ \A s \in S : \E r \in R : RedactedRow(r, s)
       /\ \A r \in R : \E s \in S : SameRow(r, s)

NextRecord(head, kind, w, R) ==
    [seq |-> head + 1, prev |-> head, kind |-> kind, window |-> w, rows |-> R]
==============================================================================
