----------------------------- MODULE LocalPublish -----------------------------
(***************************************************************************)
(* Publishing to a local registry and deleting from it, for one package:   *)
(* core/src/services/local_registry (publish, lifecycle), services/quota   *)
(* and their Postgres stores local_packages, package_owners, quota_usage.  *)
(*                                                                         *)
(* A publish is policy -> quota -> reserve -> store -> commit -> SBOM ->   *)
(* owner, each an await of its own, with a rollback after each failure; it *)
(* runs beside other publishes, an admin's deletion and the hourly cleanup *)
(* of pending rows.  A publisher's artifact is named by the publisher, so  *)
(* a row's checksum and the stored bytes are both a user.  Every artifact  *)
(* has one unit of size: the two limits of the quota are then one.  Grants,*)
(* naming and signing policies refuse before anything is written and are   *)
(* left out, as are visibility, listings and the verdict's first sight.    *)
(***************************************************************************)
EXTENDS Naturals, FiniteSets

CONSTANTS
    Users,      \* publishers, one publish at a time each
    Versions,   \* versions of the package
    Limit,      \* max_packages_per_user, enforcement = "block"
    QuotaAt,    \* "registry" or "tier": where the limit is declared
    Immutable,  \* whether versioning.immutable refuses a re-publish
    VerifyOnServe,  \* integrity.verify_on_serve
    MaxEvents,  \* bound on crashes and failing calls together
    None

ASSUME PublishAssumption ==
    /\ Limit \in Nat /\ MaxEvents \in Nat
    /\ QuotaAt \in {"registry", "tier"} /\ Immutable \in BOOLEAN /\ VerifyOnServe \in BOOLEAN
    /\ None \notin Users \cup Versions

VARIABLES
    rows,       \* [Versions -> Rows], local_packages
    bytes,      \* [Versions -> Users \cup {None}], what storage has at the key
    owners,     \* package_owners
    usage,      \* [Users -> Nat], quota_usage
    pub,        \* what each user's publish has reached
    del,        \* what the deletion has reached
    done,       \* history: publishes that returned success, by user
    lost,       \* history: charges that a crash or a failed revoke left behind
    rolled,     \* history: versions whose bytes a rollback dropped
    disturbed,  \* history: a publish ended between its commit and its owner
                \* registration, or a name was released under a publish
    spent       \* crashes and failing calls so far

vars == <<rows, bytes, owners, usage, pub, del, done, lost, rolled, disturbed, spent>>

NoRow == [status |-> "none", burned |-> FALSE, by |-> None]
Rows == [status : {"none", "pending", "published", "deleted"},
         burned : BOOLEAN, by : Users \cup {None}]

Idle == [at |-> "idle", v |-> None, new |-> FALSE, stored |-> FALSE]
Publishes ==
    [at : {"idle", "admit", "own", "charge", "tomb", "unpend", "insert", "store",
           "commit", "sbom", "register", "undo", "unstore", "revoke"},
     v : Versions \cup {None}, new : BOOLEAN, stored : BOOLEAN]

NoDelete == [at |-> "idle", v |-> None]

TypeOK ==
    /\ rows \in [Versions -> Rows]
    /\ bytes \in [Versions -> Users \cup {None}]
    /\ owners \subseteq Users
    /\ usage \in [Users -> 0..Limit]
    /\ pub \in [Users -> Publishes]
    /\ del \in [at : {"idle", "drop", "last", "disown"}, v : Versions \cup {None}]
    /\ done \in [Users -> Nat] /\ lost \in [Users -> Nat]
    /\ rolled \subseteq Versions
    /\ disturbed \in BOOLEAN
    /\ spent \in 0..MaxEvents

Init ==
    /\ rows = [v \in Versions |-> NoRow]
    /\ bytes = [v \in Versions |-> None]
    /\ owners = {}
    /\ usage = [u \in Users |-> 0]
    /\ pub = [u \in Users |-> Idle]
    /\ del = NoDelete
    /\ done = [u \in Users |-> 0] /\ lost = [u \in Users |-> 0]
    /\ rolled = {} /\ disturbed = FALSE /\ spent = 0

\* The readers' predicate: status = 'published' AND deleted_at IS NULL.
Visible(v) == rows[v].status = "published" /\ ~rows[v].burned

Exists == \E v \in Versions : Visible(v)

\* What get_artifact returns: storage is asked for the key with or without a row,
\* and only a verifying registry insists on one.
Served(v) ==
    IF VerifyOnServe /\ ~(Visible(v) /\ rows[v].by = bytes[v]) THEN None ELSE bytes[v]

Spend == spent < MaxEvents /\ spent' = spent + 1

Goes(u, at) == pub' = [pub EXCEPT ![u].at = at]
Refuse(u) == pub' = [pub EXCEPT ![u] = Idle]

-----------------------------------------------------------------------------
(* enforce_publish_policy_resolved.                                        *)

Publish(u, v) ==
    /\ pub[u] = Idle
    /\ pub' = [pub EXCEPT ![u] = [Idle EXCEPT !.at = "admit", !.v = v]]
    /\ UNCHANGED <<rows, bytes, owners, usage, del, done, lost, rolled, disturbed, spent>>

\* Mutant: the name counts as taken while it has any row.
AdmitByAnyRow(u) ==
    LET v == pub[u].v IN
    /\ pub[u].at = "admit"
    /\ IF rows[v].burned \/ (Immutable /\ Visible(v)) THEN Refuse(u)
       ELSE pub' = [pub EXCEPT ![u] = [@ EXCEPT !.at = "own",
                                       !.new = \A w \in Versions : rows[w] = NoRow]]
    /\ UNCHANGED <<rows, bytes, owners, usage, del, done, lost, rolled, disturbed, spent>>

\* find_tombstone, check_immutable, and the exists() of the ownership check:
\* reads of the one table with nothing written in between.
Admit(u) ==
    LET v == pub[u].v IN
    /\ pub[u].at = "admit"
    /\ IF rows[v].burned \/ (Immutable /\ Visible(v)) THEN Refuse(u)
       ELSE pub' = [pub EXCEPT ![u] = [@ EXCEPT !.at = "own", !.new = ~Exists]]
    /\ UNCHANGED <<rows, bytes, owners, usage, del, done, lost, rolled, disturbed, spent>>

\* can_publish: a package nobody owns is open.
Own(u) ==
    /\ pub[u].at = "own"
    /\ IF owners = {} \/ u \in owners THEN Goes(u, "charge") ELSE Refuse(u)
    /\ UNCHANGED <<rows, bytes, owners, usage, del, done, lost, rolled, disturbed, spent>>

\* Mutant: the limit is compared with the count before this publish.
ChargeOneOver(u) ==
    /\ pub[u].at = "charge"
    /\ IF usage[u] > Limit THEN Refuse(u) /\ UNCHANGED usage
       ELSE Goes(u, "tomb") /\ usage' = [usage EXCEPT ![u] = @ + 1]
    /\ UNCHANGED <<rows, bytes, owners, del, done, lost, rolled, disturbed, spent>>

\* try_record_publish: one transaction over the locked row.
Charge(u) ==
    /\ pub[u].at = "charge"
    /\ IF usage[u] + 1 > Limit THEN Refuse(u) /\ UNCHANGED usage
       ELSE Goes(u, "tomb") /\ usage' = [usage EXCEPT ![u] = @ + 1]
    /\ UNCHANGED <<rows, bytes, owners, del, done, lost, rolled, disturbed, spent>>

-----------------------------------------------------------------------------
(* execute_publish_transaction.                                            *)

\* The backend's publish, in three statements.
Reserve(u) ==
    /\ pub[u].at = "tomb"
    /\ Goes(u, IF rows[pub[u].v].burned THEN "revoke" ELSE "unpend")
    /\ UNCHANGED <<rows, bytes, owners, usage, del, done, lost, rolled, disturbed, spent>>

\* Whatever is pending under the version is taken to be a crashed publish.
Unpend(u) ==
    LET v == pub[u].v IN
    /\ pub[u].at = "unpend"
    /\ rows' = IF rows[v].status = "pending" THEN [rows EXCEPT ![v] = NoRow] ELSE rows
    /\ Goes(u, "insert")
    /\ UNCHANGED <<bytes, owners, usage, del, done, lost, rolled, disturbed, spent>>

\* Mutant: the row is visible from the start.
InsertPublished(u) ==
    LET v == pub[u].v IN
    /\ pub[u].at = "insert"
    /\ IF rows[v] = NoRow
       THEN /\ rows' = [rows EXCEPT ![v] = [status |-> "published", burned |-> FALSE,
                                           by |-> u]]
            /\ Goes(u, "store")
       ELSE Goes(u, "revoke") /\ UNCHANGED rows
    /\ UNCHANGED <<bytes, owners, usage, del, done, lost, rolled, disturbed, spent>>

\* uq_local_package refuses a second row.
Insert(u) ==
    LET v == pub[u].v IN
    /\ pub[u].at = "insert"
    /\ IF rows[v] = NoRow
       THEN /\ rows' = [rows EXCEPT ![v] = [status |-> "pending", burned |-> FALSE,
                                           by |-> u]]
            /\ Goes(u, "store")
       ELSE Goes(u, "revoke") /\ UNCHANGED rows
    /\ UNCHANGED <<bytes, owners, usage, del, done, lost, rolled, disturbed, spent>>

StoreBytes(u) ==
    /\ pub[u].at = "store"
    /\ bytes' = [bytes EXCEPT ![pub[u].v] = u]
    /\ pub' = [pub EXCEPT ![u] = [@ EXCEPT !.at = "commit", !.stored = TRUE]]
    /\ UNCHANGED <<rows, owners, usage, del, done, lost, rolled, disturbed, spent>>

\* commit_publish: the row of the version, whoever inserted it and whatever its
\* status; no row is no error.
Commit(u) ==
    LET v == pub[u].v IN
    /\ pub[u].at = "commit"
    /\ rows' = IF rows[v] = NoRow THEN rows ELSE [rows EXCEPT ![v].status = "published"]
    /\ Goes(u, "sbom")
    /\ UNCHANGED <<bytes, owners, usage, del, done, lost, rolled, disturbed, spent>>

\* run_publish_sbom; its failure is one of Fails.
Sbom(u) ==
    /\ pub[u].at = "sbom"
    /\ Goes(u, "register")
    /\ UNCHANGED <<rows, bytes, owners, usage, del, done, lost, rolled, disturbed, spent>>

\* register_initial_owner, and the publish returns.
Register(u) ==
    /\ pub[u].at = "register"
    /\ owners' = IF pub[u].new THEN owners \cup {u} ELSE owners
    /\ done' = [done EXCEPT ![u] = @ + 1]
    /\ Refuse(u)
    /\ UNCHANGED <<rows, bytes, usage, del, lost, rolled, disturbed, spent>>

-----------------------------------------------------------------------------
(* The rollback: row, bytes, quota.                                        *)

\* Mutant: without deleted_at IS NULL.
UndoAnyRow(u) ==
    /\ pub[u].at = "undo"
    /\ rows' = [rows EXCEPT ![pub[u].v] = NoRow]
    /\ Goes(u, IF pub[u].stored THEN "unstore" ELSE "revoke")
    /\ UNCHANGED <<bytes, owners, usage, del, done, lost, rolled, disturbed, spent>>

\* remove_version: any row of the version but a tombstone.
Undo(u) ==
    LET v == pub[u].v IN
    /\ pub[u].at = "undo"
    /\ rows' = IF rows[v].burned THEN rows ELSE [rows EXCEPT ![v] = NoRow]
    /\ Goes(u, IF pub[u].stored THEN "unstore" ELSE "revoke")
    /\ UNCHANGED <<bytes, owners, usage, del, done, lost, rolled, disturbed, spent>>

Unstore(u) ==
    /\ pub[u].at = "unstore"
    /\ bytes' = [bytes EXCEPT ![pub[u].v] = None]
    /\ rolled' = rolled \cup {pub[u].v}
    /\ Goes(u, "revoke")
    /\ UNCHANGED <<rows, owners, usage, del, done, lost, disturbed, spent>>

\* revoke_publish: only where the registry itself has a quota.
Revoke(u) ==
    /\ pub[u].at = "revoke"
    /\ usage' = IF QuotaAt = "registry" /\ usage[u] > 0 THEN [usage EXCEPT ![u] = @ - 1]
                ELSE usage
    /\ Refuse(u)
    /\ UNCHANGED <<rows, bytes, owners, del, done, lost, rolled, disturbed, spent>>

\* Mutant: a conflict of the insert costs the publisher its charge.
AfterFailureKeepingCharge(at) ==
    CASE at \in {"tomb"} -> "revoke"
      [] at \in {"store", "commit", "sbom"} -> "undo"
      [] at = "undo" -> "unstore"
      [] at = "unstore" -> "revoke"
      [] OTHER -> "idle"

\* Where a failing call sends the publish.
AfterFailure(at) ==
    CASE at \in {"tomb", "unpend", "insert"} -> "revoke"
      [] at \in {"store", "commit", "sbom"} -> "undo"
      [] at = "undo" -> "unstore"
      [] at = "unstore" -> "revoke"
      [] OTHER -> "idle"

\* The charge a publish holds.
Charged(u) ==
    pub[u].at \in {"tomb", "unpend", "insert", "store", "commit", "sbom", "register",
                   "undo", "unstore", "revoke"}

\* A call of u's publish fails.  A failed owner registration is only logged: the
\* publish succeeds.  A failed revoke is only logged: the charge stays.
Fails(u) ==
    LET at == pub[u].at
        next == IF at = "undo" /\ ~pub[u].stored THEN "revoke" ELSE AfterFailure(at) IN
    /\ at # "idle"
    /\ Spend
    /\ IF next = "idle" THEN Refuse(u) ELSE Goes(u, next)
    /\ done' = IF at = "register" THEN [done EXCEPT ![u] = @ + 1] ELSE done
    /\ lost' = IF at = "revoke" THEN [lost EXCEPT ![u] = @ + 1] ELSE lost
    /\ disturbed' = (disturbed \/ at \in {"sbom", "register"})
    /\ UNCHANGED <<rows, bytes, owners, usage, del, rolled>>

\* The process dies in the middle of the publish.
Crash(u) ==
    /\ pub[u] # Idle
    /\ Spend
    /\ lost' = IF Charged(u) THEN [lost EXCEPT ![u] = @ + 1] ELSE lost
    /\ disturbed' = (disturbed \/ pub[u].at \in {"sbom", "register"})
    /\ Refuse(u)
    /\ UNCHANGED <<rows, bytes, owners, usage, del, done, rolled>>

-----------------------------------------------------------------------------
(* delete_version_audited, by hand or by a retention run.                  *)

\* tombstone_version; a version that is not there ends the deletion.
Tombstone(v) ==
    /\ del = NoDelete
    /\ Visible(v)
    /\ rows' = [rows EXCEPT ![v] = [@ EXCEPT !.status = "deleted", !.burned = TRUE]]
    /\ del' = [at |-> "drop", v |-> v]
    /\ UNCHANGED <<bytes, owners, usage, pub, done, lost, rolled, disturbed, spent>>

\* drop_version_bytes; a failure is only logged.
DropBytes ==
    /\ del.at = "drop"
    /\ \/ bytes' = [bytes EXCEPT ![del.v] = None] /\ UNCHANGED spent
       \/ Spend /\ UNCHANGED bytes
    /\ del' = [del EXCEPT !.at = "last"]
    /\ UNCHANGED <<rows, owners, usage, pub, done, lost, rolled, disturbed>>

\* release_name_if_last_version, in its two calls.
LastVersion ==
    /\ del.at = "last"
    /\ del' = IF Exists THEN NoDelete ELSE [del EXCEPT !.at = "disown"]
    /\ UNCHANGED <<rows, bytes, owners, usage, pub, done, lost, rolled, disturbed, spent>>

Disown ==
    /\ del.at = "disown"
    /\ owners' = {}
    /\ disturbed' = (disturbed \/ Exists \/ \E u \in Users : pub[u] # Idle)
    /\ del' = NoDelete
    /\ UNCHANGED <<rows, bytes, usage, pub, done, lost, rolled, spent>>

DeleteFails ==
    /\ del.at \in {"last", "disown"}
    /\ Spend
    /\ del' = NoDelete
    /\ UNCHANGED <<rows, bytes, owners, usage, pub, done, lost, rolled, disturbed>>

\* The process dies in the middle of the deletion.
DeleteCrash ==
    /\ del # NoDelete
    /\ Spend
    /\ del' = NoDelete
    /\ UNCHANGED <<rows, bytes, owners, usage, pub, done, lost, rolled, disturbed>>

\* Mutant: only rows of a version that nobody is publishing.
CleanupUntouched(v) ==
    /\ rows[v].status = "pending"
    /\ \A u \in Users : pub[u].v # v
    /\ rows' = [rows EXCEPT ![v] = NoRow]
    /\ UNCHANGED <<bytes, owners, usage, pub, del, done, lost, rolled, disturbed, spent>>

\* cleanup_pending: rows older than two hours, so none whose publish still runs.
Cleanup(v) ==
    LET u == rows[v].by IN
    /\ rows[v].status = "pending"
    /\ ~(pub[u].v = v /\ pub[u].at \in {"store", "commit", "undo"})
    /\ rows' = [rows EXCEPT ![v] = NoRow]
    /\ UNCHANGED <<bytes, owners, usage, pub, del, done, lost, rolled, disturbed, spent>>

PublishStep(u) ==
    \/ Admit(u) \/ Own(u) \/ Charge(u)
    \/ Reserve(u) \/ Unpend(u) \/ Insert(u) \/ StoreBytes(u) \/ Commit(u) \/ Sbom(u)
    \/ Register(u) \/ Undo(u) \/ Unstore(u) \/ Revoke(u)
DeleteStep == DropBytes \/ LastVersion \/ Disown

Next ==
    \/ \E u \in Users : \/ \E v \in Versions : Publish(u, v)
                        \/ PublishStep(u) \/ Fails(u) \/ Crash(u)
    \/ \E v \in Versions : Tombstone(v) \/ Cleanup(v)
    \/ DeleteStep \/ DeleteFails \/ DeleteCrash

Spec == Init /\ [][Next]_vars

\* A publish that started goes on, and the hourly cleanup runs.
FairSpec ==
    /\ Spec
    /\ \A u \in Users : WF_vars(PublishStep(u))
    /\ \A v \in Versions : SF_vars(Cleanup(v))
    /\ WF_vars(DeleteStep)

-----------------------------------------------------------------------------
(* Properties.                                                             *)

\* A coordinate that was deleted is spent for good: no overlapping publish,
\* rollback or cleanup frees its tombstone or gives it to another publisher
\* (postgres.rs remove_version, publish).
BurnedForGood ==
    [][\A v \in Versions : rows[v].burned => rows'[v].burned /\ rows'[v].by = rows[v].by]_vars

\* A publisher is charged for what succeeded and what is under way, and for
\* nothing else but what a crash or a failed revoke left: every error path after
\* the reservation gives it back exactly once (publish.rs, lifecycle.rs).
QuotaAccounted ==
    \A u \in Users :
        usage[u] = done[u] + lost[u] + Cardinality({w \in {u} : Charged(w)})

\* A version that readers see has bytes, whoever committed the row: only the
\* rollback of an overlapping publish of the same version can take them.
VisibleHasBytes == \A v \in Versions \ rolled : Visible(v) => bytes[v] # None

\* When nothing is running, a package with a version has an owner, unless a
\* publish ended between its commit and the registration (others took its version
\* for an earlier owner's), or a deletion released the name under a publish
\* (register_initial_owner, release_name_if_last_version).
OwnedWhenQuiet ==
    (\A u \in Users : pub[u] = Idle) /\ Exists /\ ~disturbed => owners # {}

\* A pending row does not stay, whatever crashed (cleanup_pending).
PendingGoes ==
    \A v \in Versions : rows[v].status = "pending" ~> rows[v].status # "pending"

\* What drop_version_bytes says of a deletion whose storage call fails: the
\* version is unreachable all the same.
DeletedIsUnreachable ==
    \A v \in Versions : rows[v].burned /\ del.v # v => Served(v) = None

================================================================================
