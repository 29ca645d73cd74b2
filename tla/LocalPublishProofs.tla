-------------------------- MODULE LocalPublishProofs --------------------------
(***************************************************************************)
(* Publishing and deletion, for every number of publishers and versions,   *)
(* every limit and any number of crashes and failing calls.                *)
(***************************************************************************)
EXTENDS LocalPublish, FiniteSetTheorems, TLAPS

-----------------------------------------------------------------------------
(* The inductive invariant.                                                *)

\* A publish under way names its version; so does a deletion.
Shape ==
    /\ \A u \in Users : IF pub[u].at = "idle" THEN pub[u] = Idle ELSE pub[u].v \in Versions
    /\ del.at # "idle" => del.v \in Versions

\* A tombstone is never pending: what is pending may be removed.
PendingIsFree == \A v \in Versions : rows[v].status = "pending" => ~rows[v].burned

\* The bytes a commit is about to show are there, were dropped by a rollback, or
\* are those of a deleted version; a deletion drops the bytes of a tombstone.
BytesBehind ==
    /\ \A u \in Users : pub[u].at = "commit" =>
         \/ bytes[pub[u].v] # None
         \/ pub[u].v \in rolled
         \/ rows[pub[u].v].burned
    /\ del.at = "drop" => rows[del.v].burned

\* Somebody owns the package or is about to.
Claimed ==
    \/ owners # {}
    \/ \E w \in Users : pub[w].at \in {"sbom", "register"} /\ pub[w].new

\* A package with a version is claimed, and so is one that a running publish took
\* for an existing one.
ClaimedInTime ==
    ~disturbed =>
      /\ Exists => Claimed
      /\ \A u \in Users : pub[u].at \notin {"idle", "admit"} /\ ~pub[u].new => Claimed

\* The charge of a publish under way, and what a user's account must show.
Due(u) == done[u] + lost[u] + (IF Charged(u) THEN 1 ELSE 0)

\* Where the registry has the quota, usage is exactly what is due; a quota of the
\* tier is never revoked and may run ahead.
Accounts ==
    \A u \in Users : /\ usage[u] >= Due(u)
                     /\ QuotaAt = "registry" => usage[u] = Due(u)

Safe ==
    TypeOK /\ Shape /\ PendingIsFree /\ BytesBehind /\ VisibleHasBytes /\ ClaimedInTime /\ Accounts

-----------------------------------------------------------------------------
(* One lemma per part of the invariant; each has one step per action.      *)

\* Where a failing call sends a publish, case by case.
LEMMA FailureTarget ==
    /\ \A at \in {"tomb", "unpend", "insert"} : AfterFailure(at) = "revoke"
    /\ \A at \in {"store", "commit", "sbom"} : AfterFailure(at) = "undo"
    /\ AfterFailure("undo") = "unstore"
    /\ AfterFailure("unstore") = "revoke"
    /\ \A at \in {"idle", "admit", "own", "charge", "register", "revoke"} :
         AfterFailure(at) = "idle"
BY DEF AfterFailure

\* What Fails does to the publisher, without the case distinction.
LEMMA FailsMoves ==
    ASSUME TypeOK, NEW u \in Users, Fails(u)
    PROVE  \/ /\ pub[u].at \in {"admit", "own", "charge", "register", "revoke"}
              /\ Refuse(u)
           \/ /\ pub[u].at \in {"tomb", "unpend", "insert", "unstore", "undo"}
              /\ Goes(u, "revoke")
           \/ /\ pub[u].at \in {"store", "commit", "sbom"}
              /\ Goes(u, "undo")
           \/ /\ pub[u].at = "undo" /\ pub[u].stored
              /\ Goes(u, "unstore")
<1>1. pub[u] \in Publishes
  BY DEF TypeOK
<1> QED
  BY <1>1, FailureTarget DEF Fails, Publishes

\* Records after two assignments.
LEMMA SetAtNew ==
    ASSUME NEW r \in Publishes, NEW a, NEW b
    PROVE  [r EXCEPT !.at = a, !.new = b] = [at |-> a, v |-> r.v, new |-> b, stored |-> r.stored]
<1> DEFINE r1 == [at |-> a, v |-> r.v, new |-> r.new, stored |-> r.stored]
<1>1. [r EXCEPT !.at = a] = r1
  BY DEF Publishes
<1>2. [r1 EXCEPT !.new = b] = [at |-> a, v |-> r.v, new |-> b, stored |-> r.stored]
  OBVIOUS
<1>3. [r EXCEPT !.at = a, !.new = b] = [[r EXCEPT !.at = a] EXCEPT !.new = b]
  OBVIOUS
<1> QED  BY <1>1, <1>2, <1>3

LEMMA SetAtStored ==
    ASSUME NEW r \in Publishes, NEW a, NEW b
    PROVE  [r EXCEPT !.at = a, !.stored = b] = [at |-> a, v |-> r.v, new |-> r.new, stored |-> b]
<1> DEFINE r1 == [at |-> a, v |-> r.v, new |-> r.new, stored |-> r.stored]
<1>1. [r EXCEPT !.at = a] = r1
  BY DEF Publishes
<1>2. [r1 EXCEPT !.stored = b] = [at |-> a, v |-> r.v, new |-> r.new, stored |-> b]
  OBVIOUS
<1>3. [r EXCEPT !.at = a, !.stored = b] = [[r EXCEPT !.at = a] EXCEPT !.stored = b]
  OBVIOUS
<1> QED  BY <1>1, <1>2, <1>3

LEMMA SetAtVersion ==
    ASSUME NEW r \in Publishes, NEW a, NEW b
    PROVE  [r EXCEPT !.at = a, !.v = b] = [at |-> a, v |-> b, new |-> r.new, stored |-> r.stored]
<1> DEFINE r1 == [at |-> a, v |-> r.v, new |-> r.new, stored |-> r.stored]
<1>1. [r EXCEPT !.at = a] = r1
  BY DEF Publishes
<1>2. [r1 EXCEPT !.v = b] = [at |-> a, v |-> b, new |-> r.new, stored |-> r.stored]
  OBVIOUS
<1>3. [r EXCEPT !.at = a, !.v = b] = [[r EXCEPT !.at = a] EXCEPT !.v = b]
  OBVIOUS
<1> QED  BY <1>1, <1>2, <1>3

LEMMA TwoRowFields ==
    ASSUME NEW r \in Rows, NEW a, NEW b
    PROVE  [r EXCEPT !.status = a, !.burned = b] = [status |-> a, burned |-> b, by |-> r.by]
<1> DEFINE r1 == [status |-> a, burned |-> r.burned, by |-> r.by]
<1>1. [r EXCEPT !.status = a] = r1
  BY DEF Rows
<1>2. [r1 EXCEPT !.burned = b] = [status |-> a, burned |-> b, by |-> r.by]
  OBVIOUS
<1>3. [r EXCEPT !.status = a, !.burned = b] = [[r EXCEPT !.status = a] EXCEPT !.burned = b]
  OBVIOUS
<1> QED  BY <1>1, <1>2, <1>3

\* The publish after a move, field by field.
LEMMA GoesFields ==
    ASSUME TypeOK, NEW u \in Users, NEW at, Goes(u, at)
    PROVE  pub' = [pub EXCEPT ![u] = [at |-> at, v |-> pub[u].v, new |-> pub[u].new,
                                      stored |-> pub[u].stored]]
<1>1. pub[u] \in Publishes
  BY DEF TypeOK
<1>2. [pub[u] EXCEPT !.at = at] = [at |-> at, v |-> pub[u].v, new |-> pub[u].new,
                                   stored |-> pub[u].stored]
  BY <1>1 DEF Publishes
<1>3. pub' = [pub EXCEPT ![u] = [pub[u] EXCEPT !.at = at]]
  BY DEF Goes
<1> QED  BY <1>2, <1>3

LEMMA AdmitFields ==
    ASSUME TypeOK, NEW u \in Users, Admit(u)
    PROVE  \/ Refuse(u)
           \/ pub' = [pub EXCEPT ![u] = [at |-> "own", v |-> pub[u].v, new |-> ~Exists,
                                         stored |-> pub[u].stored]]
<1>1. pub[u] \in Publishes
  BY DEF TypeOK
<1>2. [pub[u] EXCEPT !.at = "own", !.new = ~Exists] =
        [at |-> "own", v |-> pub[u].v, new |-> ~Exists, stored |-> pub[u].stored]
  BY <1>1, SetAtNew, Zenon
<1>3. \/ Refuse(u)
      \/ pub' = [pub EXCEPT ![u] = [pub[u] EXCEPT !.at = "own", !.new = ~Exists]]
  BY DEF Admit
<1> QED  BY <1>2, <1>3

LEMMA StoreFields ==
    ASSUME TypeOK, NEW u \in Users, StoreBytes(u)
    PROVE  pub' = [pub EXCEPT ![u] = [at |-> "commit", v |-> pub[u].v, new |-> pub[u].new,
                                      stored |-> TRUE]]
<1>1. pub[u] \in Publishes
  BY DEF TypeOK
<1>2. [pub[u] EXCEPT !.at = "commit", !.stored = TRUE] =
        [at |-> "commit", v |-> pub[u].v, new |-> pub[u].new, stored |-> TRUE]
  BY <1>1, SetAtStored, Zenon
<1>3. pub' = [pub EXCEPT ![u] = [pub[u] EXCEPT !.at = "commit", !.stored = TRUE]]
  BY DEF StoreBytes
<1> QED  BY <1>2, <1>3

\* A row after a commit and after a deletion.
LEMMA RowFields ==
    ASSUME TypeOK, NEW v \in Versions
    PROVE  /\ \A u \in Users : Commit(u) /\ pub[u].v = v =>
                \/ rows[v] = NoRow /\ rows' = rows
                \/ /\ rows[v] # NoRow
                   /\ rows' = [rows EXCEPT ![v] = [status |-> "published",
                                       burned |-> rows[v].burned, by |-> rows[v].by]]
           /\ Tombstone(v) =>
                rows' = [rows EXCEPT ![v] = [status |-> "deleted", burned |-> TRUE,
                                             by |-> rows[v].by]]
<1>1. rows[v] \in Rows
  BY DEF TypeOK
<1>2. [rows[v] EXCEPT !.status = "published"] =
        [status |-> "published", burned |-> rows[v].burned, by |-> rows[v].by]
  BY <1>1 DEF Rows
<1>5. [rows[v] EXCEPT !.status = "deleted", !.burned = TRUE] =
        [status |-> "deleted", burned |-> TRUE, by |-> rows[v].by]
  BY <1>1, TwoRowFields, Zenon
<1>3. \A u \in Users : Commit(u) /\ pub[u].v = v =>
                \/ rows[v] = NoRow /\ rows' = rows
                \/ rows[v] # NoRow
                   /\ rows' = [rows EXCEPT ![v] = [rows[v] EXCEPT !.status = "published"]]
  BY DEF Commit
<1>4. Tombstone(v) =>
        rows' = [rows EXCEPT ![v] = [rows[v] EXCEPT !.status = "deleted", !.burned = TRUE]]
  BY DEF Tombstone
<1> QED  BY <1>2, <1>3, <1>4, <1>5

\* A step of a publish moves that publish alone: it ends, goes on, or takes the
\* action named.
LEMMA PublisherMoves ==
    ASSUME TypeOK, Shape, NEW u \in Users,
           \/ \E v \in Versions : Publish(u, v)
           \/ PublishStep(u) \/ Fails(u) \/ Crash(u)
    PROVE  /\ \E p \in Publishes : /\ pub' = [pub EXCEPT ![u] = p]
                                   /\ IF p.at = "idle" THEN p = Idle ELSE p.v \in Versions
           /\ del' = del
<1> DEFINE Moves == \E p \in Publishes : /\ pub' = [pub EXCEPT ![u] = p]
                                   /\ IF p.at = "idle" THEN p = Idle ELSE p.v \in Versions
<1>1. /\ pub[u] \in Publishes /\ Idle \in Publishes /\ Idle.at = "idle"
      /\ pub[u].at # "idle" => pub[u].v \in Versions
  BY DEF TypeOK, Shape, Publishes, Idle
<1>2. ASSUME NEW at \in {"own", "charge", "tomb", "unpend", "insert", "store", "commit",
                         "sbom", "register", "undo", "unstore", "revoke"},
             Goes(u, at), pub[u].at # "idle"
      PROVE  Moves
  <2> DEFINE p == [at |-> at, v |-> pub[u].v, new |-> pub[u].new, stored |-> pub[u].stored]
  <2>1. p \in Publishes /\ p.at # "idle" /\ p.v \in Versions
    BY <1>1, <1>2 DEF Publishes
  <2>2. pub' = [pub EXCEPT ![u] = p]
    BY <1>2, GoesFields
  <2> QED  BY <2>1, <2>2
<1>3. ASSUME Refuse(u) PROVE Moves
  BY <1>1, <1>3 DEF Refuse
<1>4. ASSUME NEW v \in Versions, Publish(u, v) PROVE Moves
  <2> DEFINE p == [at |-> "admit", v |-> v, new |-> FALSE, stored |-> FALSE]
  <2>1. [Idle EXCEPT !.at = "admit", !.v = v] = p
    <3>1. Idle \in Publishes /\ Idle.new = FALSE /\ Idle.stored = FALSE
      BY <1>1 DEF Idle
    <3> QED  BY <3>1, SetAtVersion
  <2>2. p \in Publishes /\ p.at # "idle" /\ p.v \in Versions
    BY DEF Publishes
  <2>3. pub' = [pub EXCEPT ![u] = p]
    BY <1>4, <2>1 DEF Publish
  <2> QED  BY <2>2, <2>3
<1>5. ASSUME Admit(u) PROVE Moves
  <2> DEFINE p == [at |-> "own", v |-> pub[u].v, new |-> ~Exists, stored |-> pub[u].stored]
  <2>1. pub[u].at = "admit"
    BY <1>5 DEF Admit
  <2>2. p \in Publishes /\ p.at # "idle" /\ p.v \in Versions
    BY <1>1, <2>1 DEF Publishes, Exists
  <2> QED  BY <1>3, <1>5, <2>2, AdmitFields
<1>6. ASSUME StoreBytes(u) PROVE Moves
  <2> DEFINE p == [at |-> "commit", v |-> pub[u].v, new |-> pub[u].new, stored |-> TRUE]
  <2>1. pub[u].at = "store"
    BY <1>6 DEF StoreBytes
  <2>2. p \in Publishes /\ p.at # "idle" /\ p.v \in Versions
    BY <1>1, <2>1 DEF Publishes
  <2> QED  BY <1>6, <2>2, StoreFields
<1> HIDE DEF Moves
<1>7. ASSUME PublishStep(u) PROVE Moves
  BY <1>2, <1>3, <1>5, <1>6, <1>7
     DEF PublishStep, Own, Charge, Reserve, Unpend, Insert, Commit, Sbom, Register, Undo,
         Unstore, Revoke
<1>8. ASSUME Fails(u) PROVE Moves
  BY <1>2, <1>3, <1>8, FailsMoves
<1>9. Moves
  BY <1>3, <1>4, <1>7, <1>8 DEF Crash
<1>10. del' = del
  BY DEF Publish, PublishStep, Admit, Own, Charge, Reserve, Unpend, Insert, StoreBytes,
     Commit, Sbom, Register, Undo, Unstore, Revoke, Fails, Crash
<1> QED  BY <1>9, <1>10 DEF Moves

LEMMA TypeStep ==
    ASSUME TypeOK, Shape, [Next]_vars
    PROVE  TypeOK'
<1> USE PublishAssumption DEF TypeOK
<1>1. ASSUME NEW u \in Users,
             \/ \E v \in Versions : Publish(u, v)
             \/ PublishStep(u) \/ Fails(u) \/ Crash(u)
      PROVE  TypeOK'
  <2>1. pub' \in [Users -> Publishes] /\ del' = del
    <3>1. PICK p \in Publishes : pub' = [pub EXCEPT ![u] = p]
      BY <1>1, PublisherMoves
    <3> QED  BY <1>1, <3>1, PublisherMoves
  <2>2. ASSUME NEW v \in Versions, Publish(u, v) PROVE TypeOK'
    BY <2>1, <2>2 DEF Publish
  <2>3. CASE Admit(u)  BY <2>1, <2>3 DEF Admit
  <2>4. CASE Own(u)  BY <2>1, <2>4 DEF Own
  <2>5. CASE Charge(u)
    <3>1. usage[u] \in 0..Limit
      OBVIOUS
    <3> QED  BY <2>1, <2>5, <3>1 DEF Charge
  <2>6. CASE Reserve(u)  BY <2>1, <2>6 DEF Reserve
  <2>7. CASE Unpend(u)  BY <2>1, <2>7 DEF Unpend, NoRow, Rows
  <2>8. CASE Insert(u)
    <3>1. [status |-> "pending", burned |-> FALSE, by |-> u] \in Rows
      BY DEF Rows
    <3> QED  BY <2>1, <2>8, <3>1 DEF Insert
  <2>9. CASE StoreBytes(u)  BY <2>1, <2>9 DEF StoreBytes
  <2>10. CASE Commit(u)
    <3>1. pub[u].v \in Versions
      BY <2>10 DEF Commit, Shape
    <3>2. rows[pub[u].v] \in Rows
      BY <3>1
    <3>3. [status |-> "published", burned |-> rows[pub[u].v].burned, by |-> rows[pub[u].v].by]
            \in Rows
      BY <3>2 DEF Rows
    <3>4. rows' \in [Versions -> Rows]
      BY <2>10, <3>1, <3>3, RowFields
    <3> QED  BY <2>1, <2>10, <3>4 DEF Commit
  <2>11. CASE Sbom(u)  BY <2>1, <2>11 DEF Sbom
  <2>12. CASE Register(u)  BY <2>1, <2>12 DEF Register
  <2>13. CASE Undo(u)  BY <2>1, <2>13 DEF Undo, NoRow, Rows
  <2>14. CASE Unstore(u)
    <3>1. pub[u].v \in Versions
      BY <2>14 DEF Unstore, Shape
    <3> QED  BY <2>1, <2>14, <3>1 DEF Unstore
  <2>15. CASE Revoke(u)
    <3>1. usage[u] \in 0..Limit
      OBVIOUS
    <3> QED  BY <2>1, <2>15, <3>1 DEF Revoke
  <2>16. CASE Fails(u)  BY <2>1, <2>16 DEF Fails, Spend
  <2>17. CASE Crash(u)  BY <2>1, <2>17 DEF Crash, Spend
  <2> QED
    BY <1>1, <2>2, <2>3, <2>4, <2>5, <2>6, <2>7, <2>8, <2>9, <2>10, <2>11, <2>12, <2>13,
       <2>14, <2>15, <2>16, <2>17 DEF PublishStep
<1>2. ASSUME NEW v \in Versions, Tombstone(v) PROVE TypeOK'
  <2>1. rows[v] \in Rows
    OBVIOUS
  <2> DEFINE row == [status |-> "deleted", burned |-> TRUE, by |-> rows[v].by]
  <2>2. row \in Rows
    BY <2>1 DEF Rows
  <2>4. rows' = [rows EXCEPT ![v] = row]
    BY <1>2, RowFields, Zenon
  <2> HIDE DEF row
  <2>3. rows' \in [Versions -> Rows]
    BY <2>2, <2>4
  <2> QED  BY <1>2, <2>3 DEF Tombstone
<1>3. ASSUME NEW v \in Versions, Cleanup(v) PROVE TypeOK'
  BY <1>3 DEF Cleanup, NoRow, Rows
<1>4. CASE DropBytes  BY <1>4 DEF DropBytes, Spend
<1>5. CASE LastVersion  BY <1>5 DEF LastVersion, NoDelete
<1>6. CASE Disown  BY <1>6 DEF Disown, NoDelete
<1>7. CASE DeleteFails \/ DeleteCrash  BY <1>7 DEF DeleteFails, DeleteCrash, NoDelete, Spend
<1>8. CASE UNCHANGED vars  BY <1>8 DEF vars
<1> QED
  BY <1>1, <1>2, <1>3, <1>4, <1>5, <1>6, <1>7, <1>8 DEF Next, DeleteStep

LEMMA ShapeStep ==
    ASSUME TypeOK, Shape, [Next]_vars
    PROVE  Shape'
<1> USE DEF TypeOK
<1>1. ASSUME NEW u \in Users,
             \/ \E v \in Versions : Publish(u, v)
             \/ PublishStep(u) \/ Fails(u) \/ Crash(u)
      PROVE  Shape'
  <2>1. PICK p \in Publishes : /\ pub' = [pub EXCEPT ![u] = p]
                               /\ IF p.at = "idle" THEN p = Idle ELSE p.v \in Versions
    BY <1>1, PublisherMoves
  <2>2. del' = del
    BY <1>1, PublisherMoves
  <2> QED  BY <2>1, <2>2 DEF Shape
<1>2. ASSUME NEW v \in Versions, Tombstone(v) PROVE Shape'
  BY <1>2 DEF Tombstone, Shape
<1>3. ASSUME NEW v \in Versions, Cleanup(v) PROVE Shape'
  BY <1>3 DEF Cleanup, Shape
<1>4. CASE DropBytes \/ LastVersion
  BY <1>4 DEF DropBytes, LastVersion, Shape, NoDelete
<1>5. CASE Disown \/ DeleteFails \/ DeleteCrash
  BY <1>5 DEF Disown, DeleteFails, DeleteCrash, NoDelete, Shape
<1>6. CASE UNCHANGED vars  BY <1>6 DEF vars, Shape
<1> QED
  BY <1>1, <1>2, <1>3, <1>4, <1>5, <1>6 DEF Next, DeleteStep

-----------------------------------------------------------------------------
(* The rows.                                                               *)

\* What any step does to one row: it stays, it is published, it is deleted, or, when
\* it is no tombstone, it goes; a new one is pending.
RowMoves(v) ==
    \/ rows'[v] = rows[v]
    \/ /\ rows[v] # NoRow
       /\ \E u \in Users : pub[u].at = "commit" /\ pub[u].v = v /\ bytes' = bytes
       /\ rows'[v].status = "published"
       /\ rows'[v].burned = rows[v].burned /\ rows'[v].by = rows[v].by
    \/ /\ Visible(v) /\ rows'[v].status = "deleted"
       /\ rows'[v].burned /\ rows'[v].by = rows[v].by
    \/ rows'[v] = NoRow /\ ~rows[v].burned
    \/ rows[v] = NoRow /\ rows'[v].status = "pending" /\ ~rows'[v].burned

LEMMA EveryRowMoves ==
    ASSUME TypeOK, Shape, PendingIsFree, [Next]_vars, NEW v \in Versions
    PROVE  RowMoves(v)
<1>1. rows[v] \in Rows /\ rows \in [Versions -> Rows]
  BY DEF TypeOK
<1>2. CASE rows' = rows
  BY <1>2 DEF RowMoves
<1>3. ASSUME NEW u \in Users, Unpend(u) PROVE RowMoves(v)
  <2>1. pub[u].v \in Versions
    BY <1>3 DEF Unpend, Shape
  <2> QED  BY <1>1, <1>3, <2>1 DEF Unpend, RowMoves, PendingIsFree
<1>4. ASSUME NEW u \in Users, Insert(u) PROVE RowMoves(v)
  <2>1. pub[u].v \in Versions
    BY <1>4 DEF Insert, Shape
  <2> QED  BY <1>1, <1>4, <2>1 DEF Insert, RowMoves
<1>5. ASSUME NEW u \in Users, Commit(u) PROVE RowMoves(v)
  <2>1. pub[u].v \in Versions /\ pub[u].at = "commit" /\ bytes' = bytes
    BY <1>5 DEF Commit, Shape
  <2>2. \/ rows' = rows
        \/ /\ rows[pub[u].v] # NoRow
           /\ rows' = [rows EXCEPT ![pub[u].v] = [status |-> "published",
                         burned |-> rows[pub[u].v].burned, by |-> rows[pub[u].v].by]]
    BY <1>5, <2>1, RowFields
  <2> QED  BY <1>1, <2>1, <2>2 DEF RowMoves
<1>6. ASSUME NEW u \in Users, Undo(u) PROVE RowMoves(v)
  <2>1. pub[u].v \in Versions
    BY <1>6 DEF Undo, Shape
  <2> QED  BY <1>1, <1>6, <2>1 DEF Undo, RowMoves
<1>7. ASSUME NEW w \in Versions, Tombstone(w) PROVE RowMoves(v)
  <2> DEFINE row == [status |-> "deleted", burned |-> TRUE, by |-> rows[w].by]
  <2>1. row.status = "deleted" /\ row.burned /\ row.by = rows[w].by
    OBVIOUS
  <2>2. rows' = [rows EXCEPT ![w] = row] /\ Visible(w)
    BY <1>7, RowFields, Zenon DEF Tombstone
  <2> HIDE DEF row
  <2> QED  BY <1>1, <2>1, <2>2 DEF RowMoves
<1>8. ASSUME NEW w \in Versions, Cleanup(w) PROVE RowMoves(v)
  BY <1>1, <1>8 DEF Cleanup, RowMoves, PendingIsFree
<1>9. ASSUME NEW u \in Users,
             \/ Admit(u) \/ Own(u) \/ Charge(u) \/ Reserve(u) \/ StoreBytes(u) \/ Sbom(u)
             \/ Register(u) \/ Unstore(u) \/ Revoke(u) \/ Fails(u) \/ Crash(u)
             \/ \E w \in Versions : Publish(u, w)
      PROVE  rows' = rows
  BY <1>9 DEF Admit, Own, Charge, Reserve, StoreBytes, Sbom, Register, Unstore, Revoke,
     Fails, Crash, Publish
<1>10. ASSUME DropBytes \/ LastVersion \/ Disown \/ DeleteFails \/ DeleteCrash \/ UNCHANGED vars
       PROVE  rows' = rows
  BY <1>10 DEF DropBytes, LastVersion, Disown, DeleteFails, DeleteCrash, vars
<1> QED
  BY <1>2, <1>3, <1>4, <1>5, <1>6, <1>7, <1>8, <1>9, <1>10 DEF Next, PublishStep, DeleteStep

LEMMA PendingStep ==
    ASSUME TypeOK, Shape, PendingIsFree, [Next]_vars
    PROVE  PendingIsFree'
<1> SUFFICES ASSUME NEW v \in Versions PROVE rows'[v].status = "pending" => ~rows'[v].burned
  BY DEF PendingIsFree
<1>1. RowMoves(v)
  BY EveryRowMoves
<1> QED  BY <1>1 DEF RowMoves, PendingIsFree, NoRow

\* Deletion is for good, step by step.
LEMMA BurnedStep ==
    ASSUME TypeOK, Shape, PendingIsFree, [Next]_vars, NEW v \in Versions, rows[v].burned
    PROVE  rows'[v].burned /\ rows'[v].by = rows[v].by
<1>1. RowMoves(v)
  BY EveryRowMoves
<1>2. NoRow.burned = FALSE
  BY DEF NoRow
<1> QED  BY <1>1, <1>2 DEF RowMoves, Visible

-----------------------------------------------------------------------------
(* The bytes.                                                              *)

\* Only a rollback and a deletion take bytes away.
LEMMA BytesMove ==
    ASSUME TypeOK, Shape, BytesBehind, [Next]_vars, NEW v \in Versions
    PROVE  /\ bytes[v] # None => \/ bytes'[v] # None
                                 \/ v \in rolled'
                                 \/ rows[v].burned
           /\ rolled \subseteq rolled'
<1>1. bytes \in [Versions -> Users \cup {None}] /\ None \notin Users
  BY PublishAssumption DEF TypeOK
<1>2. CASE bytes' = bytes /\ rolled' = rolled
  BY <1>2
<1>3. ASSUME NEW u \in Users, StoreBytes(u)
      PROVE  (bytes[v] # None => bytes'[v] # None) /\ rolled' = rolled
  <2>1. bytes' = [bytes EXCEPT ![pub[u].v] = u] /\ rolled' = rolled
    BY <1>3 DEF StoreBytes
  <2> QED  BY <1>1, <2>1
<1>4. ASSUME NEW u \in Users, Unstore(u)
      PROVE  (bytes[v] # None => bytes'[v] # None \/ v \in rolled') /\ rolled \subseteq rolled'
  <2>1. /\ bytes' = [bytes EXCEPT ![pub[u].v] = None]
        /\ rolled' = rolled \cup {pub[u].v}
    BY <1>4 DEF Unstore
  <2> QED  BY <1>1, <2>1
<1>5. CASE DropBytes
  <2>1. /\ \/ bytes' = [bytes EXCEPT ![del.v] = None]
           \/ bytes' = bytes
        /\ rolled' = rolled /\ rows[del.v].burned
    BY <1>5 DEF DropBytes, BytesBehind
  <2> QED  BY <1>1, <2>1
<1>6. ASSUME NEW u \in Users,
             \/ Admit(u) \/ Own(u) \/ Charge(u) \/ Reserve(u) \/ Unpend(u) \/ Insert(u)
             \/ Commit(u) \/ Sbom(u) \/ Register(u) \/ Undo(u) \/ Revoke(u) \/ Fails(u)
             \/ Crash(u) \/ \E w \in Versions : Publish(u, w)
      PROVE  bytes' = bytes /\ rolled' = rolled
  BY <1>6 DEF Admit, Own, Charge, Reserve, Unpend, Insert, Commit, Sbom, Register, Undo,
     Revoke, Fails, Crash, Publish
<1>7. ASSUME \/ LastVersion \/ Disown \/ DeleteFails \/ DeleteCrash \/ UNCHANGED vars
             \/ \E w \in Versions : Tombstone(w) \/ Cleanup(w)
      PROVE  bytes' = bytes /\ rolled' = rolled
  BY <1>7 DEF LastVersion, Disown, DeleteFails, DeleteCrash, vars, Tombstone, Cleanup
<1> QED
  BY <1>2, <1>3, <1>4, <1>5, <1>6, <1>7 DEF Next, PublishStep, DeleteStep

\* Only a publish that has stored its bytes commits.
LEMMA CommitsAfterStore ==
    ASSUME TypeOK, Shape, [Next]_vars, NEW u \in Users, pub'[u].at = "commit"
    PROVE  \/ pub[u].at = "commit" /\ pub'[u].v = pub[u].v
           \/ bytes'[pub'[u].v] # None
<1>1. CASE pub' = pub
  BY <1>1
<1>2. ASSUME NEW w \in Users, NEW p, pub' = [pub EXCEPT ![w] = p], p.at # "commit"
      PROVE  pub[u].at = "commit" /\ pub'[u].v = pub[u].v
  BY <1>2 DEF TypeOK
<1>3. ASSUME NEW w \in Users, Refuse(w)
      PROVE  pub[u].at = "commit" /\ pub'[u].v = pub[u].v
  BY <1>2, <1>3 DEF Refuse, Idle
<1>4. ASSUME NEW w \in Users, NEW at, at # "commit", Goes(w, at)
      PROVE  pub[u].at = "commit" /\ pub'[u].v = pub[u].v
  <2> DEFINE p == [at |-> at, v |-> pub[w].v, new |-> pub[w].new, stored |-> pub[w].stored]
  <2>1. pub' = [pub EXCEPT ![w] = p] /\ p.at # "commit"
    BY <1>4, GoesFields
  <2> QED  BY <1>2, <2>1
<1>5. ASSUME NEW w \in Users, NEW v \in Versions, Publish(w, v)
      PROVE  pub[u].at = "commit" /\ pub'[u].v = pub[u].v
  <2> DEFINE p == [Idle EXCEPT !.at = "admit", !.v = v]
  <2>1. p.at = "admit"
    BY DEF Idle
  <2>2. pub' = [pub EXCEPT ![w] = p]
    BY <1>5 DEF Publish
  <2> QED  BY <1>2, <2>1, <2>2
<1>6. ASSUME NEW w \in Users, Admit(w)
      PROVE  pub[u].at = "commit" /\ pub'[u].v = pub[u].v
  <2> DEFINE p == [at |-> "own", v |-> pub[w].v, new |-> ~Exists, stored |-> pub[w].stored]
  <2>1. p.at = "own"
    OBVIOUS
  <2> HIDE DEF p
  <2>2. Refuse(w) \/ pub' = [pub EXCEPT ![w] = p]
    BY <1>6, AdmitFields DEF p
  <2> QED  BY <1>2, <1>3, <2>1, <2>2
<1>7. ASSUME NEW w \in Users, StoreBytes(w)
      PROVE  \/ pub[u].at = "commit" /\ pub'[u].v = pub[u].v
             \/ bytes'[pub'[u].v] # None
  <2> DEFINE p == [at |-> "commit", v |-> pub[w].v, new |-> pub[w].new, stored |-> TRUE]
  <2>4. p.v = pub[w].v
    OBVIOUS
  <2> HIDE DEF p
  <2>1. pub' = [pub EXCEPT ![w] = p]
    BY <1>7, StoreFields DEF p
  <2>2. bytes' = [bytes EXCEPT ![pub[w].v] = w] /\ pub[w].v \in Versions
    BY <1>7 DEF StoreBytes, Shape
  <2>3. bytes'[pub[w].v] # None
    BY <2>2, PublishAssumption DEF TypeOK
  <2> QED  BY <1>7, <2>1, <2>3, <2>4 DEF TypeOK
<1>8. ASSUME NEW w \in Users, PublishStep(w), ~StoreBytes(w)
      PROVE  pub[u].at = "commit" /\ pub'[u].v = pub[u].v
  BY <1>3, <1>4, <1>6, <1>8 DEF PublishStep, Own, Charge, Reserve, Unpend, Insert, Commit, Sbom,
     Register, Undo, Unstore, Revoke
<1>9. ASSUME NEW w \in Users, Fails(w) \/ Crash(w)
      PROVE  pub[u].at = "commit" /\ pub'[u].v = pub[u].v
  BY <1>3, <1>4, <1>9, FailsMoves DEF Crash
<1>10. ASSUME \/ DeleteStep \/ DeleteFails \/ DeleteCrash \/ UNCHANGED vars
              \/ \E w \in Versions : Tombstone(w) \/ Cleanup(w)
       PROVE  pub' = pub
  BY <1>10 DEF DeleteStep, DropBytes, LastVersion, Disown, DeleteFails, DeleteCrash, vars,
     Tombstone, Cleanup
<1> QED
  BY <1>1, <1>5, <1>7, <1>8, <1>9, <1>10 DEF Next

LEMMA BytesStep ==
    ASSUME TypeOK, Shape, PendingIsFree, BytesBehind, VisibleHasBytes, [Next]_vars
    PROVE  BytesBehind' /\ VisibleHasBytes'
<1> USE BurnedStep, BytesMove
<1>1. ASSUME NEW u \in Users, pub'[u].at = "commit"
      PROVE  \/ bytes'[pub'[u].v] # None
             \/ pub'[u].v \in rolled'
             \/ rows'[pub'[u].v].burned
  <2>1. CASE bytes'[pub'[u].v] # None
    BY <2>1
  <2>2. CASE pub[u].at = "commit" /\ pub'[u].v = pub[u].v
    <3>1. pub[u].v \in Versions
      BY <2>2 DEF Shape
    <3> QED  BY <2>2, <3>1 DEF BytesBehind
  <2> QED  BY <1>1, <2>1, <2>2, CommitsAfterStore
<1>2. ASSUME del'.at = "drop"
      PROVE  rows'[del'.v].burned
  <2>1. CASE del' = del
    BY <1>2, <2>1 DEF BytesBehind, Shape
  <2>2. ASSUME NEW v \in Versions, Tombstone(v)
        PROVE  rows'[del'.v].burned
    <3>1. del' = [at |-> "drop", v |-> v] /\ Visible(v)
      BY <2>2 DEF Tombstone
    <3> DEFINE row == [status |-> "deleted", burned |-> TRUE, by |-> rows[v].by]
    <3>2. row.burned
      OBVIOUS
    <3>3. rows' = [rows EXCEPT ![v] = row]
      BY <2>2, RowFields, Zenon
    <3> HIDE DEF row
    <3> QED  BY <3>1, <3>2, <3>3 DEF TypeOK
  <2>3. ASSUME NEW u \in Users,
               (\E v \in Versions : Publish(u, v)) \/ PublishStep(u) \/ Fails(u) \/ Crash(u)
        PROVE  del' = del
    BY <2>3, PublisherMoves
  <2>4. ASSUME (\E v \in Versions : Cleanup(v)) \/ UNCHANGED vars
        PROVE  del' = del
    BY <2>4 DEF Cleanup, vars
  <2>5. ASSUME DeleteStep \/ DeleteFails \/ DeleteCrash
        PROVE  del'.at # "drop"
    BY <2>5 DEF DeleteStep, DropBytes, LastVersion, Disown, DeleteFails, DeleteCrash, NoDelete,
       TypeOK
  <2> QED  BY <1>2, <2>1, <2>2, <2>3, <2>4, <2>5 DEF Next
<1>3. ASSUME NEW v \in Versions, v \notin rolled', Visible(v)'
      PROVE  bytes'[v] # None
  <2>1. RowMoves(v)
    BY EveryRowMoves
  <2>2. v \notin rolled /\ rows'[v].status = "published" /\ ~rows'[v].burned /\ ~rows[v].burned
    BY <1>3 DEF Visible
  <2>3. CASE rows'[v] = rows[v]
    BY <1>3, <2>2, <2>3 DEF VisibleHasBytes, Visible
  <2>4. ASSUME NEW u \in Users, pub[u].at = "commit", pub[u].v = v, bytes' = bytes
        PROVE  bytes'[v] # None
    BY <2>2, <2>4 DEF BytesBehind
  <2> QED  BY <2>1, <2>2, <2>3, <2>4 DEF RowMoves, NoRow
<1> QED  BY <1>1, <1>2, <1>3 DEF BytesBehind, VisibleHasBytes

-----------------------------------------------------------------------------
(* The owner.                                                              *)

\* A claim lasts: whoever holds it registers, or the history says it was disturbed.
\* An owner goes only when nothing is published and nobody publishes.
LEMMA ClaimLasts ==
    ASSUME TypeOK, Shape, [Next]_vars, Claimed, ~disturbed'
    PROVE  \/ Claimed'
           \/ ~Exists /\ rows' = rows /\ pub' = pub /\ \A u \in Users : pub[u] = Idle
<1> USE DEF TypeOK
<1>1. ASSUME NEW u \in Users, NEW p, pub' = [pub EXCEPT ![u] = p], owners' = owners,
             pub[u].at \notin {"sbom", "register"}
      PROVE  Claimed'
  <2>1. CASE owners # {}  BY <1>1, <2>1 DEF Claimed
  <2>2. CASE owners = {}
    <3>1. PICK w \in Users : pub[w].at \in {"sbom", "register"} /\ pub[w].new
      BY <2>2 DEF Claimed
    <3>2. w # u /\ pub'[w] = pub[w]
      BY <1>1, <3>1
    <3> QED  BY <3>1, <3>2 DEF Claimed
  <2> QED  BY <2>1, <2>2
<1>2. ASSUME NEW u \in Users, NEW at, Goes(u, at), owners' = owners,
             pub[u].at \notin {"sbom", "register"}
      PROVE  Claimed'
  BY <1>1, <1>2, GoesFields
<1>3. ASSUME NEW u \in Users, Refuse(u), owners' = owners, pub[u].at \notin {"sbom", "register"}
      PROVE  Claimed'
  BY <1>1, <1>3 DEF Refuse
<1>4. ASSUME NEW u \in Users, Sbom(u) PROVE Claimed'
  <2> DEFINE p == [at |-> "register", v |-> pub[u].v, new |-> pub[u].new,
                   stored |-> pub[u].stored]
  <2>1. p.at = "register" /\ p.new = pub[u].new
    OBVIOUS
  <2>2. pub' = [pub EXCEPT ![u] = p] /\ owners' = owners
    BY <1>4, GoesFields DEF Sbom
  <2> HIDE DEF p
  <2>3. CASE owners # {}  BY <2>2, <2>3 DEF Claimed
  <2>4. CASE owners = {}
    <3>1. PICK w \in Users : pub[w].at \in {"sbom", "register"} /\ pub[w].new
      BY <2>4 DEF Claimed
    <3>2. pub'[w].at \in {"sbom", "register"} /\ pub'[w].new
      BY <2>1, <2>2, <3>1
    <3> QED  BY <3>2 DEF Claimed
  <2> QED  BY <2>3, <2>4
<1>5. ASSUME NEW u \in Users, Register(u) PROVE Claimed'
  <2>1. /\ owners' = IF pub[u].new THEN owners \cup {u} ELSE owners
        /\ pub' = [pub EXCEPT ![u] = Idle]
    BY <1>5 DEF Register, Refuse
  <2>2. CASE owners # {} \/ pub[u].new  BY <2>1, <2>2 DEF Claimed
  <2>3. CASE owners = {} /\ ~pub[u].new
    <3>1. PICK w \in Users : pub[w].at \in {"sbom", "register"} /\ pub[w].new
      BY <2>3 DEF Claimed
    <3>2. w # u /\ pub'[w] = pub[w]
      BY <2>1, <2>3, <3>1
    <3> QED  BY <3>1, <3>2 DEF Claimed
  <2> QED  BY <2>2, <2>3
<1>6. ASSUME NEW u \in Users,
             Own(u) \/ Charge(u) \/ Reserve(u) \/ Unpend(u) \/ Insert(u) \/ Commit(u)
      PROVE  Claimed'
  BY <1>2, <1>3, <1>6 DEF Own, Charge, Reserve, Unpend, Insert, Commit
<1>7. ASSUME NEW u \in Users, Undo(u) \/ Unstore(u) \/ Revoke(u)
      PROVE  Claimed'
  BY <1>2, <1>3, <1>7 DEF Undo, Unstore, Revoke
<1>8. ASSUME NEW u \in Users, Fails(u)
      PROVE  Claimed'
  <2>1. pub[u].at \notin {"sbom", "register"} /\ owners' = owners
    BY <1>8 DEF Fails
  <2>2. Refuse(u) \/ Goes(u, "revoke") \/ Goes(u, "undo") \/ Goes(u, "unstore")
    BY <1>8, FailsMoves
  <2> QED  BY <1>2, <1>3, <2>1, <2>2
<1>9. ASSUME NEW u \in Users, Crash(u)
      PROVE  Claimed'
  BY <1>3, <1>9 DEF Crash
<1>10. ASSUME NEW u \in Users, Admit(u) \/ StoreBytes(u) \/ \E v \in Versions : Publish(u, v)
       PROVE  Claimed'
  <2>1. pub[u].at \notin {"sbom", "register"} /\ owners' = owners
    <3>1. Idle.at = "idle"
      BY DEF Idle
    <3> HIDE DEF TypeOK
    <3>2. CASE Admit(u)  BY <3>2 DEF Admit
    <3>3. CASE StoreBytes(u)  BY <3>3 DEF StoreBytes
    <3>4. CASE \E v \in Versions : Publish(u, v)  BY <3>1, <3>4 DEF Publish
    <3> QED  BY <1>10, <3>2, <3>3, <3>4
  <2>2. \E p : pub' = [pub EXCEPT ![u] = p]
    <3>1. PublishStep(u) \/ \E v \in Versions : Publish(u, v)
      BY <1>10 DEF PublishStep
    <3> QED  BY <3>1, PublisherMoves
  <2> QED  BY <1>1, <2>1, <2>2
<1>11. CASE pub' = pub /\ owners' = owners
  BY <1>11 DEF Claimed
<1>12. CASE Disown
  <2>1. (disturbed' <=> (disturbed \/ Exists \/ \E u \in Users : pub[u] # Idle))
        /\ rows' = rows /\ pub' = pub
    BY <1>12 DEF Disown
  <2> QED  BY <2>1
<1>13. ASSUME \/ DropBytes \/ LastVersion \/ DeleteFails \/ DeleteCrash \/ UNCHANGED vars
              \/ \E w \in Versions : Tombstone(w) \/ Cleanup(w)
       PROVE  pub' = pub /\ owners' = owners
  BY <1>13 DEF DropBytes, LastVersion, DeleteFails, DeleteCrash, vars, Tombstone, Cleanup
<1> QED
  BY <1>4, <1>5, <1>6, <1>7, <1>8, <1>9, <1>10, <1>11, <1>12, <1>13
     DEF Next, PublishStep, DeleteStep

\* The history only grows.
LEMMA StaysDisturbed ==
    ASSUME [Next]_vars, disturbed
    PROVE  disturbed'
<1>1. ASSUME NEW u \in Users,
             \/ PublishStep(u) \/ Fails(u) \/ Crash(u) \/ \E v \in Versions : Publish(u, v)
      PROVE  disturbed'
  BY <1>1 DEF PublishStep, Admit, Own, Charge, Reserve, Unpend, Insert, StoreBytes, Commit,
     Sbom, Register, Undo, Unstore, Revoke, Fails, Crash, Publish
<1>2. ASSUME \/ DeleteStep \/ DeleteFails \/ DeleteCrash \/ UNCHANGED vars
             \/ \E v \in Versions : Tombstone(v) \/ Cleanup(v)
      PROVE  disturbed'
  BY <1>2 DEF DeleteStep, DropBytes, LastVersion, Disown, DeleteFails, DeleteCrash, vars,
     Tombstone, Cleanup
<1> QED  BY <1>1, <1>2 DEF Next

\* What a publish knows of the package, it read at Admit.
LEMMA KnowsFromAdmit ==
    ASSUME TypeOK, Shape, [Next]_vars, NEW u \in Users,
           pub'[u].at \notin {"idle", "admit"}, ~pub'[u].new
    PROVE  \/ pub[u].at \notin {"idle", "admit"} /\ ~pub[u].new
           \/ Exists
<1> DEFINE Knew == (pub[u].at \notin {"idle", "admit"} /\ ~pub[u].new) \/ Exists
<1> USE DEF TypeOK
<1>1. CASE pub' = pub  BY <1>1
<1>2. ASSUME NEW w \in Users, NEW p, pub' = [pub EXCEPT ![w] = p], p.at \in {"idle", "admit"}
      PROVE  Knew
  BY <1>2
<1>3. ASSUME NEW w \in Users, Refuse(w) PROVE Knew
  BY <1>2, <1>3 DEF Refuse, Idle
<1>4. ASSUME NEW w \in Users, NEW at, Goes(w, at), pub[w].at \notin {"idle", "admit"}
      PROVE  Knew
  <2> DEFINE p == [at |-> at, v |-> pub[w].v, new |-> pub[w].new, stored |-> pub[w].stored]
  <2>1. pub' = [pub EXCEPT ![w] = p] /\ p.new = pub[w].new
    BY <1>4, GoesFields
  <2> HIDE DEF p
  <2> QED  BY <1>4, <2>1
<1>5. ASSUME NEW w \in Users, NEW v \in Versions, Publish(w, v) PROVE Knew
  <2> DEFINE p == [Idle EXCEPT !.at = "admit", !.v = v]
  <2>1. p.at = "admit"
    BY DEF Idle
  <2>2. pub' = [pub EXCEPT ![w] = p]
    BY <1>5 DEF Publish
  <2> QED  BY <1>2, <2>1, <2>2
<1>6. ASSUME NEW w \in Users, Admit(w) PROVE Knew
  <2> DEFINE p == [at |-> "own", v |-> pub[w].v, new |-> ~Exists, stored |-> pub[w].stored]
  <2>1. p.new = ~Exists
    OBVIOUS
  <2> HIDE DEF p
  <2>2. Refuse(w) \/ pub' = [pub EXCEPT ![w] = p]
    BY <1>6, AdmitFields DEF p
  <2> QED  BY <1>3, <2>1, <2>2
<1>7. ASSUME NEW w \in Users, StoreBytes(w) PROVE Knew
  <2> DEFINE p == [at |-> "commit", v |-> pub[w].v, new |-> pub[w].new, stored |-> TRUE]
  <2>1. p.new = pub[w].new
    OBVIOUS
  <2> HIDE DEF p
  <2>2. pub' = [pub EXCEPT ![w] = p] /\ pub[w].at = "store"
    BY <1>7, StoreFields DEF p, StoreBytes
  <2> QED  BY <2>1, <2>2
<1> HIDE DEF Knew
<1>8. ASSUME NEW w \in Users, PublishStep(w)
      PROVE  Knew
  BY <1>3, <1>4, <1>6, <1>7, <1>8 DEF PublishStep, Own, Charge, Reserve, Unpend, Insert,
     Commit, Sbom, Register, Undo, Unstore, Revoke
<1>9. ASSUME NEW w \in Users, Fails(w) \/ Crash(w)
      PROVE  Knew
  BY <1>3, <1>4, <1>9, FailsMoves DEF Crash
<1>10. ASSUME \/ DeleteStep \/ DeleteFails \/ DeleteCrash \/ UNCHANGED vars
              \/ \E w \in Versions : Tombstone(w) \/ Cleanup(w)
       PROVE  pub' = pub
  BY <1>10 DEF DeleteStep, DropBytes, LastVersion, Disown, DeleteFails, DeleteCrash, vars,
     Tombstone, Cleanup
<1>11. Knew
  BY <1>1, <1>5, <1>8, <1>9, <1>10 DEF Next, Knew
<1> QED  BY <1>11 DEF Knew

\* A row becomes visible by a commit and by nothing else.
LEMMA OnlyCommitPublishes ==
    ASSUME TypeOK, Shape, PendingIsFree, [Next]_vars, NEW v \in Versions, ~Visible(v),
           rows'[v].status = "published", ~rows'[v].burned
    PROVE  \E u \in Users : Commit(u)
<1>1. rows[v] \in Rows /\ rows \in [Versions -> Rows] /\ rows'[v] # rows[v]
  BY DEF TypeOK, Visible
<1>2. ASSUME NEW u \in Users, Unpend(u) \/ Insert(u) \/ Undo(u) PROVE FALSE
  <2>1. pub[u].v \in Versions
    BY <1>2 DEF Unpend, Insert, Undo, Shape
  <2> QED  BY <1>1, <1>2, <2>1 DEF Unpend, Insert, Undo, NoRow
<1>3. ASSUME NEW w \in Versions, Tombstone(w) PROVE FALSE
  <2> DEFINE row == [status |-> "deleted", burned |-> TRUE, by |-> rows[w].by]
  <2>1. row.status = "deleted"
    OBVIOUS
  <2>2. rows' = [rows EXCEPT ![w] = row]
    BY <1>3, RowFields, Zenon
  <2> HIDE DEF row
  <2> QED  BY <1>1, <2>1, <2>2
<1>4. ASSUME NEW w \in Versions, Cleanup(w) PROVE FALSE
  BY <1>1, <1>4 DEF Cleanup, NoRow
<1>5. ASSUME NEW u \in Users,
             \/ Admit(u) \/ Own(u) \/ Charge(u) \/ Reserve(u) \/ StoreBytes(u) \/ Sbom(u)
             \/ Register(u) \/ Unstore(u) \/ Revoke(u) \/ Fails(u) \/ Crash(u)
             \/ \E w \in Versions : Publish(u, w)
      PROVE  rows' = rows
  BY <1>5 DEF Admit, Own, Charge, Reserve, StoreBytes, Sbom, Register, Unstore, Revoke,
     Fails, Crash, Publish
<1>6. ASSUME DropBytes \/ LastVersion \/ Disown \/ DeleteFails \/ DeleteCrash \/ UNCHANGED vars
      PROVE  rows' = rows
  BY <1>6 DEF DropBytes, LastVersion, Disown, DeleteFails, DeleteCrash, vars
<1> QED
  BY <1>1, <1>2, <1>3, <1>4, <1>5, <1>6 DEF Next, PublishStep, DeleteStep

LEMMA ClaimedStep ==
    ASSUME TypeOK, Shape, PendingIsFree, ClaimedInTime, [Next]_vars
    PROVE  ClaimedInTime'
<1> SUFFICES ASSUME ~disturbed'
             PROVE  /\ Exists' => Claimed'
                    /\ \A u \in Users : pub'[u].at \notin {"idle", "admit"} /\ ~pub'[u].new
                                          => Claimed'
  BY DEF ClaimedInTime
<1>1. ~disturbed
  BY StaysDisturbed
<1>2. ASSUME Exists PROVE Claimed'
  BY <1>1, <1>2, ClaimLasts DEF ClaimedInTime
<1>3. ASSUME NEW u \in Users, pub[u].at \notin {"idle", "admit"}, ~pub[u].new
      PROVE  Claimed'
  <2>1. pub[u] # Idle
    BY <1>3 DEF Idle
  <2> QED  BY <1>1, <1>3, <2>1, ClaimLasts DEF ClaimedInTime
<1>4. ASSUME Exists', ~Exists
      PROVE  Claimed'
  <2>1. PICK v \in Versions : Visible(v)'
    BY <1>4 DEF Exists
  <2>2. ~Visible(v) /\ rows'[v].status = "published" /\ ~rows'[v].burned
    BY <1>4, <2>1 DEF Exists, Visible
  <2>4. PICK u \in Users : Commit(u)
    BY <2>2, OnlyCommitPublishes
  <2>5. CASE ~pub[u].new
    BY <1>3, <2>4, <2>5 DEF Commit
  <2>6. CASE pub[u].new
    <3> DEFINE p == [at |-> "sbom", v |-> pub[u].v, new |-> pub[u].new,
                     stored |-> pub[u].stored]
    <3>1. p.at = "sbom" /\ p.new = pub[u].new
      OBVIOUS
    <3>2. pub' = [pub EXCEPT ![u] = p]
      BY <2>4, GoesFields DEF Commit
    <3> HIDE DEF p
    <3>3. pub'[u].at = "sbom" /\ pub'[u].new
      BY <2>6, <3>1, <3>2 DEF TypeOK
    <3> QED  BY <3>3 DEF Claimed
  <2> QED  BY <2>5, <2>6
<1> QED
  BY <1>2, <1>3, <1>4, KnowsFromAdmit

-----------------------------------------------------------------------------
(* The quota.                                                              *)

\* What a step does to the account of one user.
AccountMoves(u) ==
    \/ usage'[u] = usage[u] /\ Due(u)' = Due(u)
    \/ usage'[u] = usage[u] + 1 /\ Due(u)' = Due(u) + 1
    \/ /\ usage'[u] = IF QuotaAt = "registry" /\ usage[u] > 0 THEN usage[u] - 1 ELSE usage[u]
       /\ Due(u)' = Due(u) - 1 /\ Due(u) >= 1

LEMMA DueOfOthers ==
    ASSUME TypeOK, NEW u \in Users, NEW w \in Users, w # u, NEW p,
           pub' = [pub EXCEPT ![u] = p],
           done' = done \/ done' = [done EXCEPT ![u] = @ + 1],
           lost' = lost \/ lost' = [lost EXCEPT ![u] = @ + 1]
    PROVE  Due(w)' = Due(w)
<1>1. pub'[w] = pub[w] /\ done'[w] = done[w] /\ lost'[w] = lost[w]
  BY DEF TypeOK
<1> QED  BY <1>1 DEF Due, Charged

ChargedAt == {"tomb", "unpend", "insert", "store", "commit", "sbom", "register",
              "undo", "unstore", "revoke"}

LEMMA EveryAccountMoves ==
    ASSUME TypeOK, Shape, [Next]_vars, NEW w \in Users
    PROVE  AccountMoves(w)
<1>1. /\ usage \in [Users -> Nat] /\ done \in [Users -> Nat] /\ lost \in [Users -> Nat]
      /\ pub \in [Users -> Publishes]
  BY PublishAssumption DEF TypeOK
<1>2. \A u \in Users : Charged(u) <=> pub[u].at \in ChargedAt
  BY DEF Charged, ChargedAt
<1>3. \A u \in Users : Charged(u)' <=> pub'[u].at \in ChargedAt
  BY DEF Charged, ChargedAt
<1>4. ASSUME NEW u \in Users, NEW p, pub' = [pub EXCEPT ![u] = p],
             usage' = usage, done' = done, lost' = lost,
             p.at \in ChargedAt <=> pub[u].at \in ChargedAt
      PROVE  AccountMoves(w)
  <2>1. pub'[w].at \in ChargedAt <=> pub[w].at \in ChargedAt
    BY <1>1, <1>4
  <2> QED  BY <1>2, <1>3, <1>4, <2>1 DEF AccountMoves, Due
<1>5. ASSUME NEW u \in Users, NEW at, Goes(u, at), usage' = usage, done' = done, lost' = lost,
             at \in ChargedAt <=> pub[u].at \in ChargedAt
      PROVE  AccountMoves(w)
  <2> DEFINE p == [at |-> at, v |-> pub[u].v, new |-> pub[u].new, stored |-> pub[u].stored]
  <2>1. p.at = at /\ pub' = [pub EXCEPT ![u] = p]
    BY <1>5, GoesFields
  <2> HIDE DEF p
  <2> QED  BY <1>4, <1>5, <2>1
<1>6. ASSUME NEW u \in Users, Refuse(u), usage' = usage, done' = done, lost' = lost,
             pub[u].at \notin ChargedAt
      PROVE  AccountMoves(w)
  <2>1. Idle.at \notin ChargedAt /\ pub' = [pub EXCEPT ![u] = Idle]
    BY <1>6 DEF Idle, Refuse, ChargedAt
  <2> QED  BY <1>4, <1>6, <2>1
\* A publish that ends with its charge in the account: it succeeded, or the charge is lost.
<1>7. ASSUME NEW u \in Users, Refuse(u), usage' = usage, pub[u].at \in ChargedAt,
             \/ done' = [done EXCEPT ![u] = @ + 1] /\ lost' = lost
             \/ done' = done /\ lost' = [lost EXCEPT ![u] = @ + 1]
      PROVE  AccountMoves(w)
  <2>1. Idle.at \notin ChargedAt /\ pub' = [pub EXCEPT ![u] = Idle]
    BY <1>7 DEF Idle, Refuse, ChargedAt
  <2>2. CASE w # u
    <3>1. Due(w)' = Due(w)
      BY <1>7, <2>1, <2>2, DueOfOthers
    <3> QED  BY <1>7, <3>1 DEF AccountMoves
  <2>3. CASE w = u
    <3>1. Charged(u) /\ ~Charged(u)'
      BY <1>1, <1>2, <1>3, <1>7, <2>1
    <3>2. done'[u] + lost'[u] = done[u] + lost[u] + 1
      BY <1>1, <1>7
    <3> QED  BY <1>1, <1>7, <2>3, <3>1, <3>2 DEF AccountMoves, Due
  <2> QED  BY <2>2, <2>3
<1>8. ASSUME NEW u \in Users, Charge(u) PROVE AccountMoves(w)
  <2>1. pub[u].at \notin ChargedAt /\ done' = done /\ lost' = lost
    BY <1>8 DEF Charge, ChargedAt
  <2>2. CASE Refuse(u) /\ usage' = usage
    BY <1>6, <2>1, <2>2
  <2>3. CASE Goes(u, "tomb") /\ usage' = [usage EXCEPT ![u] = @ + 1]
    <3> DEFINE p == [at |-> "tomb", v |-> pub[u].v, new |-> pub[u].new, stored |-> pub[u].stored]
    <3>1. p.at \in ChargedAt /\ pub' = [pub EXCEPT ![u] = p]
      BY <2>3, GoesFields DEF ChargedAt
    <3> HIDE DEF p
    <3>2. CASE w # u
      <4>1. Due(w)' = Due(w) /\ usage'[w] = usage[w]
        BY <1>1, <2>1, <2>3, <3>1, <3>2, DueOfOthers
      <4> QED  BY <4>1 DEF AccountMoves
    <3>3. CASE w = u
      <4>1. ~Charged(u) /\ Charged(u)' /\ usage'[u] = usage[u] + 1
        BY <1>1, <1>2, <1>3, <2>1, <2>3, <3>1
      <4> QED  BY <1>1, <2>1, <3>3, <4>1 DEF AccountMoves, Due
    <3> QED  BY <3>2, <3>3
  <2> QED  BY <1>8, <2>2, <2>3 DEF Charge
<1>9. ASSUME NEW u \in Users, Revoke(u) PROVE AccountMoves(w)
  <2>1. /\ pub[u].at \in ChargedAt /\ done' = done /\ lost' = lost
        /\ usage' = IF QuotaAt = "registry" /\ usage[u] > 0 THEN [usage EXCEPT ![u] = @ - 1]
                    ELSE usage
        /\ Idle.at \notin ChargedAt /\ pub' = [pub EXCEPT ![u] = Idle]
    BY <1>9 DEF Revoke, ChargedAt, Refuse, Idle
  <2>2. CASE w # u
    <3>1. Due(w)' = Due(w) /\ usage'[w] = usage[w]
      BY <1>1, <2>1, <2>2, DueOfOthers
    <3> QED  BY <3>1 DEF AccountMoves
  <2>3. CASE w = u
    <3>1. Charged(u) /\ ~Charged(u)'
      BY <1>1, <1>2, <1>3, <2>1
    <3>2. usage'[u] = IF QuotaAt = "registry" /\ usage[u] > 0 THEN usage[u] - 1 ELSE usage[u]
      BY <1>1, <2>1
    <3>3. Due(u)' = Due(u) - 1 /\ Due(u) >= 1
      BY <1>1, <2>1, <3>1 DEF Due
    <3> QED  BY <2>3, <3>2, <3>3 DEF AccountMoves
  <2> QED  BY <2>2, <2>3
<1>10. ASSUME NEW u \in Users, Register(u) PROVE AccountMoves(w)
  BY <1>7, <1>10 DEF Register, ChargedAt
<1>11. ASSUME NEW u \in Users, Fails(u) PROVE AccountMoves(w)
  <2>1. /\ usage' = usage
        /\ done' = IF pub[u].at = "register" THEN [done EXCEPT ![u] = @ + 1] ELSE done
        /\ lost' = IF pub[u].at = "revoke" THEN [lost EXCEPT ![u] = @ + 1] ELSE lost
    BY <1>11 DEF Fails
  <2>2. CASE pub[u].at \in {"admit", "own", "charge"} /\ Refuse(u)
    BY <1>6, <2>1, <2>2 DEF ChargedAt
  <2>3. CASE pub[u].at \in {"register", "revoke"} /\ Refuse(u)
    BY <1>7, <2>1, <2>3 DEF ChargedAt
  <2>4. ASSUME NEW at \in {"revoke", "undo", "unstore"}, Goes(u, at),
               pub[u].at \in {"tomb", "unpend", "insert", "unstore", "undo", "store", "commit",
                              "sbom"}
        PROVE  AccountMoves(w)
    BY <1>5, <2>1, <2>4 DEF ChargedAt
  <2> QED  BY <1>11, <2>2, <2>3, <2>4, FailsMoves
<1>12. ASSUME NEW u \in Users, Crash(u) PROVE AccountMoves(w)
  <2>1. /\ usage' = usage /\ done' = done /\ Refuse(u)
        /\ lost' = IF Charged(u) THEN [lost EXCEPT ![u] = @ + 1] ELSE lost
    BY <1>12 DEF Crash
  <2> QED  BY <1>2, <1>6, <1>7, <2>1
<1>13. ASSUME NEW u \in Users, Admit(u) PROVE AccountMoves(w)
  <2> DEFINE p == [at |-> "own", v |-> pub[u].v, new |-> ~Exists, stored |-> pub[u].stored]
  <2>1. p.at \notin ChargedAt
    BY DEF ChargedAt
  <2> HIDE DEF p
  <2>2. /\ usage' = usage /\ done' = done /\ lost' = lost /\ pub[u].at \notin ChargedAt
        /\ Refuse(u) \/ pub' = [pub EXCEPT ![u] = p]
    BY <1>13, AdmitFields DEF Admit, ChargedAt, p
  <2> QED  BY <1>4, <1>6, <2>1, <2>2
<1>14. ASSUME NEW u \in Users, StoreBytes(u) PROVE AccountMoves(w)
  <2> DEFINE p == [at |-> "commit", v |-> pub[u].v, new |-> pub[u].new, stored |-> TRUE]
  <2>1. p.at \in ChargedAt
    BY DEF ChargedAt
  <2> HIDE DEF p
  <2>2. /\ usage' = usage /\ done' = done /\ lost' = lost /\ pub[u].at \in ChargedAt
        /\ pub' = [pub EXCEPT ![u] = p]
    BY <1>14, StoreFields DEF StoreBytes, ChargedAt, p
  <2> QED  BY <1>4, <2>1, <2>2
<1>15. ASSUME NEW u \in Users, NEW v \in Versions, Publish(u, v) PROVE AccountMoves(w)
  <2> DEFINE p == [Idle EXCEPT !.at = "admit", !.v = v]
  <2>1. p.at \notin ChargedAt /\ Idle.at \notin ChargedAt
    BY DEF ChargedAt, Idle
  <2> HIDE DEF p
  <2>2. /\ usage' = usage /\ done' = done /\ lost' = lost /\ pub[u] = Idle
        /\ pub' = [pub EXCEPT ![u] = p]
    BY <1>15 DEF Publish, p
  <2> QED  BY <1>4, <2>1, <2>2
<1>16. ASSUME NEW u \in Users,
              \/ Own(u) \/ Reserve(u) \/ Unpend(u) \/ Insert(u) \/ Commit(u) \/ Sbom(u)
              \/ Undo(u) \/ Unstore(u)
       PROVE  AccountMoves(w)
  BY <1>5, <1>6, <1>16 DEF Own, Reserve, Unpend, Insert, Commit, Sbom, Undo, Unstore, ChargedAt
<1>17. ASSUME \/ DeleteStep \/ DeleteFails \/ DeleteCrash \/ UNCHANGED vars
              \/ \E v \in Versions : Tombstone(v) \/ Cleanup(v)
       PROVE  AccountMoves(w)
  <2>1. pub' = pub /\ usage' = usage /\ done' = done /\ lost' = lost
    BY <1>17 DEF DeleteStep, DropBytes, LastVersion, Disown, DeleteFails, DeleteCrash, vars,
       Tombstone, Cleanup
  <2> QED  BY <2>1 DEF AccountMoves, Due, Charged
<1> QED
  BY <1>8, <1>9, <1>10, <1>11, <1>12, <1>13, <1>14, <1>15, <1>16, <1>17 DEF Next, PublishStep

LEMMA AccountsStep ==
    ASSUME TypeOK, Shape, Accounts, [Next]_vars
    PROVE  Accounts'
<1> SUFFICES ASSUME NEW u \in Users
             PROVE  usage'[u] >= Due(u)' /\ (QuotaAt = "registry" => usage'[u] = Due(u)')
  BY DEF Accounts
<1>1. usage[u] \in Nat /\ Due(u) \in Nat
  BY PublishAssumption DEF TypeOK, Due
<1>2. usage[u] >= Due(u) /\ (QuotaAt = "registry" => usage[u] = Due(u))
  BY DEF Accounts
<1>3. AccountMoves(u)
  BY EveryAccountMoves
<1> QED  BY <1>1, <1>2, <1>3 DEF AccountMoves

-----------------------------------------------------------------------------
(* The theorems.                                                           *)

LEMMA SafeInit == Init => Safe
<1> SUFFICES ASSUME Init PROVE Safe
  OBVIOUS
<1>1. Idle \in Publishes /\ Idle.at = "idle" /\ ~Idle.new
  BY DEF Idle, Publishes
<1>2. NoRow \in Rows /\ NoRow.status = "none" /\ ~NoRow.burned
  BY DEF NoRow, Rows
<1>3. TypeOK
  <2>1. /\ rows \in [Versions -> Rows] /\ bytes \in [Versions -> Users \cup {None}]
        /\ owners \subseteq Users /\ rolled \subseteq Versions
        /\ pub \in [Users -> Publishes]
    BY <1>1, <1>2 DEF Init
  <2>2. usage \in [Users -> 0..Limit] /\ spent \in 0..MaxEvents
    BY PublishAssumption DEF Init
  <2>3. done \in [Users -> Nat] /\ lost \in [Users -> Nat] /\ disturbed \in BOOLEAN
    BY DEF Init
  <2>4. del \in [at : {"idle", "drop", "last", "disown"}, v : Versions \cup {None}]
    BY DEF Init, NoDelete
  <2> QED  BY <2>1, <2>2, <2>3, <2>4 DEF TypeOK
<1>4. Shape
  BY <1>1 DEF Init, Shape, NoDelete
<1>5. PendingIsFree /\ VisibleHasBytes /\ ~Exists
  BY <1>2 DEF Init, PendingIsFree, VisibleHasBytes, Visible, Exists
<1>6. BytesBehind
  BY <1>1 DEF Init, BytesBehind, NoDelete
<1>7. ClaimedInTime
  BY <1>1, <1>5 DEF Init, ClaimedInTime
<1>8. Accounts
  <2>1. \A u \in Users : ~Charged(u)
    BY <1>1 DEF Init, Charged
  <2> QED  BY <2>1 DEF Init, Accounts, Due
<1> QED  BY <1>3, <1>4, <1>5, <1>6, <1>7, <1>8 DEF Safe

LEMMA SafeStep == Safe /\ [Next]_vars => Safe'
BY TypeStep, ShapeStep, PendingStep, BytesStep, ClaimedStep, AccountsStep DEF Safe

LEMMA AlwaysSafe == Spec => []Safe
BY SafeInit, SafeStep, PTL DEF Spec

\* Every variable of publishing keeps its type; no account passes the limit.
THEOREM PublishTypeCorrect == Spec => []TypeOK
<1>1. Safe => TypeOK
  BY DEF Safe
<1> QED  BY <1>1, AlwaysSafe, PTL

\* A deleted coordinate is never freed nor given to another publisher, whatever
\* publishes, rollbacks and cleanups overlap the deletion (postgres.rs
\* tombstone_version, remove_version, cleanup_pending).
THEOREM DeletionIsForGood == Spec => BurnedForGood
<1>1. Safe /\ [Next]_vars =>
        [\A v \in Versions : rows[v].burned => rows'[v].burned /\ rows'[v].by = rows[v].by]_vars
  <2> SUFFICES ASSUME Safe, [Next]_vars, NEW v \in Versions, rows[v].burned
               PROVE  rows'[v].burned /\ rows'[v].by = rows[v].by
    OBVIOUS
  <2> QED  BY BurnedStep DEF Safe
<1> QED  BY <1>1, AlwaysSafe, PTL DEF Spec, BurnedForGood

\* A version that readers see has bytes behind it, unless the rollback of an
\* overlapping publish of the same version dropped them (publish.rs).
THEOREM VisibleIsServable == Spec => []VisibleHasBytes
<1>1. Safe => VisibleHasBytes
  BY DEF Safe
<1> QED  BY <1>1, AlwaysSafe, PTL

\* The account in closed form.
LEMMA OneCharge ==
    ASSUME NEW u
    PROVE  Cardinality({w \in {u} : Charged(w)}) = IF Charged(u) THEN 1 ELSE 0
<1>1. CASE Charged(u)
  <2>1. {w \in {u} : Charged(w)} = {u}
    BY <1>1
  <2> QED  BY <1>1, <2>1, FS_Singleton
<1>2. CASE ~Charged(u)
  <2>1. {w \in {u} : Charged(w)} = {}
    BY <1>2
  <2> QED  BY <1>2, <2>1, FS_EmptySet
<1> QED  BY <1>1, <1>2

\* With a quota of the registry, every error path gives the charge back exactly
\* once: usage is what succeeded, what is under way and what a crash or a failed
\* revoke left (lifecycle.rs, quota.rs revoke_publish).
THEOREM QuotaIsExact ==
    ASSUME QuotaAt = "registry"
    PROVE  Spec => []QuotaAccounted
<1>1. Safe => QuotaAccounted
  BY OneCharge DEF Safe, Accounts, Due, QuotaAccounted
<1> QED  BY <1>1, AlwaysSafe, PTL

\* What a user's publishes have cost so far is within the limit.
LimitHolds == \A u \in Users : Due(u) <= Limit

\* Wherever the limit is declared, no user has more successful publishes and
\* publishes under way than it allows (quota.rs try_record_publish).
THEOREM QuotaIsKept == Spec => []LimitHolds
<1>1. Safe => LimitHolds
  <2> SUFFICES ASSUME Safe, NEW u \in Users PROVE Due(u) <= Limit
    BY DEF LimitHolds
  <2>1. usage[u] \in 0..Limit /\ Due(u) \in Nat /\ usage[u] >= Due(u)
    BY PublishAssumption DEF Safe, TypeOK, Accounts, Due
  <2> QED  BY <2>1, PublishAssumption
<1> QED  BY <1>1, AlwaysSafe, PTL

\* When nothing runs, a package with a version has an owner, unless a publish ended
\* between its commit and the registration or a deletion released the name under a
\* publish (register_initial_owner, release_name_if_last_version).
THEOREM QuietIsOwned == Spec => []OwnedWhenQuiet
<1>1. Safe => OwnedWhenQuiet
  <2> SUFFICES ASSUME Safe, \A u \in Users : pub[u] = Idle, Exists, ~disturbed
               PROVE  owners # {}
    BY DEF OwnedWhenQuiet
  <2>1. \A u \in Users : pub[u].at = "idle"
    BY DEF Idle
  <2> QED  BY <2>1 DEF Safe, ClaimedInTime, Claimed
<1> QED  BY <1>1, AlwaysSafe, PTL

===============================================================================
