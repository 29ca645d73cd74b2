--------------------------- MODULE ProxyCacheProofs ---------------------------
(***************************************************************************)
(* The deduplicating store and the artifact cache over it, for every set   *)
(* of keys, contents, backends and clients: the row locks exclude each     *)
(* other, so the counts and the references stay consistent; references     *)
(* have their bytes; and what is served is what upstream advertised.       *)
(***************************************************************************)
EXTENDS ProxyCache, TLAPS

-----------------------------------------------------------------------------
(* The inductive invariant of the store. *)

StoreAts == {"existing", "upsert", "remap", "blob", "move", "commit", "again",
             "restore", "record", "stored"}
DeleteAts == {"select", "unref", "unblob", "forget", "deleted"}
ReadAts == {"lookup", "read", "got"}
\* Inside the transaction of a store, once the old reference is let go.
Inside == {"blob", "move", "commit"}

\* What a call holds at each point.
OpOK(o) ==
    /\ o \in Ops
    /\ o.at # "idle" => o.key \in Keys
    /\ o.at \in StoreAts \cup {"unref", "unblob", "read"} =>
           o.hash \in Hashes /\ o.backend \in Backends
    /\ o.at \in StoreAts => o.backend = Route[o.key]
    /\ o.at \in {"upsert", "remap"} \cup Inside => o.old # o.hash
    /\ o.at = "got" => (o.state # "absent" => o.hash \in Hashes)
    /\ o.at \notin {"got"} => o.state = "absent"

\* LocksIndex as a predicate of the call.
Holds(o, h) ==
    \/ o.hash = h /\ o.at \in {"remap"} \cup Inside
    \/ o.old = h /\ o.at \in Inside

Exclusive ==
    \A a, b \in Actors : \A h \in Hashes :
        Holds(op[a], h) /\ Holds(op[b], h) => a = b

\* The reference that a store lets go of is still counted at its commit, and
\* the row is only dropped if no other key names it.
OldCounted ==
    \A a \in Actors :
        op[a].at \in Inside /\ op[a].old # None =>
            /\ count[op[a].old] > 0
            /\ count[op[a].old] = 1 => ~StillNamed(op[a].old, op[a].key)

\* Every reference has its index row.
Counted == \A k \in Keys : refs[k] # None => count[refs[k]] > 0

Routed == \A k \in Keys : located[k] \in {None, Route[k]}

\* The three ways to lose a blob that is being referred to: none but a clearing
\* and the race that the router leaves open.
Lost(h) == cleared \/ h \in raced

CommitHasBlob ==
    \A a \in Actors : op[a].at = "commit" =>
        blob[op[a].backend][op[a].hash] # "absent" \/ Lost(op[a].hash)

UnblobUnnamed ==
    \A a \in Actors : op[a].at = "unblob" =>
        \A k \in Keys : refs[k] = op[a].hash => op[a].hash \in raced

\* A reference has its bytes on the backend its registry is assigned to.
ReferenceHasBlob ==
    \A k \in Keys : refs[k] # None =>
        blob[Route[k]][refs[k]] # "absent" \/ Lost(refs[k])

StoreSafe ==
    /\ StoreTypeOK
    /\ cleared \in BOOLEAN
    /\ \A a \in Actors : OpOK(op[a])
    /\ Exclusive /\ OldCounted /\ Counted /\ Routed
    /\ CommitHasBlob /\ UnblobUnnamed /\ ReferenceHasBlob

-----------------------------------------------------------------------------
(* The inductive invariant of the cache. *)

\* What a client, the evictor or the sweeper has asked of the store.
Asks(r, o) ==
    /\ r.at # "idle" => r.key \in Keys
    /\ r.at \in {"idle", "fetch"} => o = NoOp
    /\ r.at \notin {"idle", "fetch"} => o.key = r.key
    /\ r.at \in {"look", "reopen", "serve"} => o.at \in ReadAts \cup {"failed"}
    /\ r.at = "check" => o.at = "got" /\ o.state # "absent"
    /\ r.at = "evict" => o.at \in DeleteAts \cup {"failed"}
    /\ r.at = "store" => o.at \in StoreAts \cup {"failed"}

Drops(r, o) ==
    IF r.at = "drop" THEN o.at \in DeleteAts \cup {"failed"} ELSE o = NoOp

CacheSafe ==
    /\ StoreSafe
    /\ TypeOK
    /\ \A c \in Clients : Asks(req[c], op[c])
    /\ Drops(evict, op[Evictor])
    /\ Drops(sweep, op[Sweeper])

\* Under a strict profile, and with sound disks, what the tables name and what
\* the calls carry is what upstream has for the key.
Strict == Integrity.enabled /\ Integrity.block_on_mismatch /\ Integrity.require_metadata

Genuine(o) ==
    /\ o.at \in StoreAts \cup {"read"} => o.hash \in Contents[o.key]
    /\ o.at = "got" /\ o.state # "absent" =>
           o.hash \in Contents[o.key] /\ o.state = "whole"

AllGenuine ==
    /\ \A k \in Keys : refs[k] \in Contents[k] \cup {None}
    /\ \A b \in Backends : \A h \in Hashes : blob[b][h] # "rotten"
    /\ \A a \in Actors : Genuine(op[a])
    /\ wrong = {}

-----------------------------------------------------------------------------
(* Calls. *)

AllAts == {"idle", "existing", "upsert", "remap", "blob", "move", "commit",
           "again", "restore", "record", "select", "unref", "unblob",
           "forget", "lookup", "read"} \cup Ends

\* A call that moves on and keeps what it holds.
Moved(o, at) == [o EXCEPT !.at = at]

LEMMA MovedFields ==
    ASSUME NEW o \in Ops, NEW at \in AllAts
    PROVE  /\ Moved(o, at) \in Ops
           /\ Moved(o, at).at = at /\ Moved(o, at).key = o.key
           /\ Moved(o, at).hash = o.hash /\ Moved(o, at).old = o.old
           /\ Moved(o, at).backend = o.backend /\ Moved(o, at).state = o.state
BY DEF Moved, Ops, AllAts

\* A call that has just been made, or none.
Fresh(o) ==
    \/ o = NoOp
    \/ \E k \in Keys, h \in Hashes :
           o = [NoOp EXCEPT !.at = "existing", !.key = k, !.hash = h, !.backend = Route[k]]
    \/ \E k \in Keys : o = [NoOp EXCEPT !.at = "select", !.key = k]
    \/ \E k \in Keys : o = [NoOp EXCEPT !.at = "lookup", !.key = k]

LEMMA FreshFields ==
    ASSUME NEW o, Fresh(o)
    PROVE  /\ OpOK(o)
           /\ o.at \in {"idle", "existing", "select", "lookup"}
           /\ o.state = "absent"
<1>1. CASE o = NoOp
  BY <1>1 DEF NoOp, OpOK, Ops, StoreAts, Inside, BlobStates
<1>2. ASSUME NEW k \in Keys, NEW h \in Hashes,
             o = [NoOp EXCEPT !.at = "existing", !.key = k, !.hash = h, !.backend = Route[k]]
      PROVE  OpOK(o) /\ o.at = "existing" /\ o.state = "absent"
  <2>1. Route[k] \in Backends
    BY StoreAssumption
  <2>2. o = [at |-> "existing", key |-> k, hash |-> h, old |-> None,
             backend |-> Route[k], state |-> "absent"]
    BY <1>2 DEF NoOp
  <2> QED
    BY <2>1, <2>2 DEF OpOK, Ops, StoreAts, Inside, BlobStates
<1>3. ASSUME NEW k \in Keys, o = [NoOp EXCEPT !.at = "select", !.key = k]
      PROVE  OpOK(o) /\ o.at = "select" /\ o.state = "absent"
  BY <1>3 DEF NoOp, OpOK, Ops, StoreAts, Inside, BlobStates
<1>4. ASSUME NEW k \in Keys, o = [NoOp EXCEPT !.at = "lookup", !.key = k]
      PROVE  OpOK(o) /\ o.at = "lookup" /\ o.state = "absent"
  BY <1>4 DEF NoOp, OpOK, Ops, StoreAts, Inside, BlobStates
<1> QED
  BY <1>1, <1>2, <1>3, <1>4 DEF Fresh

\* No blob is taken away.
BlobsStay ==
    /\ blob' \in [Backends -> [Hashes -> BlobStates]]
    /\ \A b \in Backends : \A h \in Hashes :
           blob[b][h] # "absent" => blob'[b][h] # "absent"

Replaces(a, q) ==
    /\ op' = [op EXCEPT ![a] = q]
    /\ OpOK(q)

LEMMA ReplacesOne ==
    ASSUME StoreSafe, NEW a \in Actors, NEW q, Replaces(a, q)
    PROVE  /\ op'[a] = q
           /\ \A b \in Actors : b # a => op'[b] = op[b]
           /\ op' \in [Actors -> Ops]
           /\ \A b \in Actors : OpOK(op'[b])
BY DEF StoreSafe, StoreTypeOK, OpOK, Replaces

\* References keep their blobs while the tables stay and no blob goes.
LEMMA BlobsStayBehind ==
    ASSUME StoreSafe, BlobsStay, UNCHANGED <<refs, raced, cleared>>
    PROVE  ReferenceHasBlob'
<1> SUFFICES ASSUME NEW k \in Keys, refs[k] # None
             PROVE  blob'[Route[k]][refs[k]] # "absent" \/ Lost(refs[k])
  BY DEF ReferenceHasBlob, Lost
<1>1. Route[k] \in Backends /\ refs[k] \in Hashes
  BY StoreAssumption DEF StoreSafe, StoreTypeOK
<1> QED
  BY <1>1 DEF StoreSafe, ReferenceHasBlob, BlobsStay

\* A call is replaced by one that holds no lock and is at no point the invariant
\* speaks of, and the tables stay as they are.
LEMMA Replaced ==
    ASSUME StoreSafe, NEW a \in Actors, NEW q, Replaces(a, q),
           q.at \notin {"remap", "unblob"} \cup Inside, BlobsStay,
           UNCHANGED <<refs, count, located, raced, cleared>>
    PROVE  StoreSafe'
<1>1. /\ op'[a] = q
      /\ \A b \in Actors : b # a => op'[b] = op[b]
      /\ op' \in [Actors -> Ops]
      /\ \A b \in Actors : OpOK(op'[b])
  BY ReplacesOne
<1>2. StoreTypeOK' /\ (cleared \in BOOLEAN)' /\ (\A b \in Actors : OpOK(op[b]))'
  BY <1>1 DEF StoreSafe, StoreTypeOK, BlobsStay
<1>3. \A h : ~Holds(q, h)
  BY DEF Holds
<1>4. Exclusive'
  BY <1>1, <1>3 DEF StoreSafe, Exclusive
<1>5. OldCounted'
  BY <1>1 DEF StoreSafe, OldCounted, StillNamed
<1>6. Counted' /\ Routed' /\ ReferenceHasBlob'
  BY BlobsStayBehind DEF StoreSafe, Counted, Routed
<1>7. CommitHasBlob'
  <2> SUFFICES ASSUME NEW b \in Actors, op'[b].at = "commit"
               PROVE  \/ blob'[op'[b].backend][op'[b].hash] # "absent"
                      \/ cleared' \/ op'[b].hash \in raced'
    BY DEF CommitHasBlob, Lost
  <2>1. b # a /\ op'[b] = op[b]
    BY <1>1 DEF Inside
  <2>2. op[b].backend \in Backends /\ op[b].hash \in Hashes
    BY <2>1 DEF StoreSafe, OpOK, StoreAts
  <2> QED
    BY <2>1, <2>2 DEF StoreSafe, CommitHasBlob, Lost, BlobsStay
<1>8. UnblobUnnamed'
  BY <1>1 DEF StoreSafe, UnblobUnnamed
<1> QED
  BY <1>2, <1>4, <1>5, <1>6, <1>7, <1>8 DEF StoreSafe

LEMMA SameBlobsStay ==
    ASSUME StoreSafe, UNCHANGED blob
    PROVE  BlobsStay
BY DEF StoreSafe, StoreTypeOK, BlobsStay

LEMMA GoesReplaces ==
    ASSUME StoreSafe, NEW a \in Actors, NEW at \in AllAts, Goes(a, at),
           OpOK(Moved(op[a], at))
    PROVE  Replaces(a, Moved(op[a], at)) /\ Moved(op[a], at).at = at
<1>1. op[a] \in Ops
  BY DEF StoreSafe, StoreTypeOK
<1> QED
  BY <1>1, MovedFields DEF Goes, Moved, Replaces

\* A transaction on its way from the remapping to its commit.
LEMMA StaysInside ==
    ASSUME StoreSafe, NEW a \in Actors, NEW at \in {"move", "commit"},
           op[a].at \in Inside, Goes(a, at), BlobsStay,
           at = "commit" => blob'[op[a].backend][op[a].hash] # "absent",
           UNCHANGED <<refs, count, located, raced, cleared>>
    PROVE  StoreSafe'
<1> DEFINE q == Moved(op[a], at)
<1>1. op[a] \in Ops /\ OpOK(op[a]) /\ at \in AllAts
  BY DEF StoreSafe, StoreTypeOK, AllAts
<1>2. /\ q \in Ops /\ q.at = at /\ q.key = op[a].key /\ q.hash = op[a].hash
      /\ q.old = op[a].old /\ q.backend = op[a].backend /\ q.state = op[a].state
  BY <1>1, MovedFields
<1> HIDE DEF q
<1>3. OpOK(q)
  BY <1>1, <1>2 DEF OpOK, StoreAts, Inside
<1>4. Replaces(a, q)
  BY <1>1, <1>3, GoesReplaces DEF q
<1>5. /\ op'[a] = q
      /\ \A b \in Actors : b # a => op'[b] = op[b]
      /\ op' \in [Actors -> Ops]
      /\ \A b \in Actors : OpOK(op'[b])
  BY <1>4, ReplacesOne
<1>6. StoreTypeOK' /\ (cleared \in BOOLEAN)' /\ (\A b \in Actors : OpOK(op[b]))'
  BY <1>5 DEF StoreSafe, StoreTypeOK, BlobsStay
<1>7. \A h : Holds(q, h) => Holds(op[a], h)
  BY <1>2 DEF Holds, Inside
<1>8. Exclusive'
  <2>1. \A b \in Actors, h \in Hashes : Holds(op'[b], h) => Holds(op[b], h)
    BY <1>5, <1>7
  <2> QED
    BY <2>1 DEF StoreSafe, Exclusive
<1>9. OldCounted'
  BY <1>2, <1>5 DEF StoreSafe, OldCounted, StillNamed
<1>10. Counted' /\ Routed' /\ ReferenceHasBlob'
  BY BlobsStayBehind DEF StoreSafe, Counted, Routed
<1>11. CommitHasBlob'
  <2> SUFFICES ASSUME NEW b \in Actors, op'[b].at = "commit"
               PROVE  \/ blob'[op'[b].backend][op'[b].hash] # "absent"
                      \/ cleared' \/ op'[b].hash \in raced'
    BY DEF CommitHasBlob, Lost
  <2>1. CASE b = a
    BY <2>1, <1>2, <1>5
  <2>2. CASE b # a
    <3>1. op[b].backend \in Backends /\ op[b].hash \in Hashes
      BY <1>5, <2>2 DEF StoreSafe, OpOK, StoreAts
    <3> QED
      BY <1>5, <2>2, <3>1 DEF StoreSafe, CommitHasBlob, Lost, BlobsStay
  <2> QED
    BY <2>1, <2>2
<1>12. UnblobUnnamed'
  BY <1>2, <1>5 DEF StoreSafe, UnblobUnnamed
<1> QED
  BY <1>6, <1>8, <1>9, <1>10, <1>11, <1>12 DEF StoreSafe

-----------------------------------------------------------------------------
(* The steps of a store. *)

\* Two fields of a call at once.
Found(o, at, old) == [Moved(o, at) EXCEPT !.old = old]
Named(o, at, h, b) == [o EXCEPT !.at = at, !.hash = h, !.backend = b]
Got(o, state) == [o EXCEPT !.at = "got", !.state = state]

LEMMA FoundFields ==
    ASSUME NEW o \in Ops, NEW at \in AllAts, NEW old \in Hashes \cup {None}
    PROVE  LET q == Found(o, at, old)
           IN  /\ q \in Ops /\ q.at = at /\ q.old = old /\ q.key = o.key
               /\ q.hash = o.hash /\ q.backend = o.backend /\ q.state = o.state
<1> DEFINE m == Moved(o, at)
<1>1. /\ m \in Ops /\ m.at = at /\ m.key = o.key /\ m.hash = o.hash
      /\ m.backend = o.backend /\ m.state = o.state
  BY MovedFields
<1>2. Found(o, at, old) = [m EXCEPT !.old = old]
  BY DEF Found
<1> HIDE DEF m
<1> QED
  BY <1>1, <1>2 DEF Ops

LEMMA NamedFields ==
    ASSUME NEW o \in Ops, NEW at \in AllAts, NEW h \in Hashes, NEW b \in Backends
    PROVE  LET q == Named(o, at, h, b)
           IN  /\ q \in Ops /\ q.at = at /\ q.old = o.old /\ q.key = o.key
               /\ q.hash = h /\ q.backend = b /\ q.state = o.state
BY DEF Named, Ops, AllAts

LEMMA GotFields ==
    ASSUME NEW o \in Ops, NEW state \in BlobStates
    PROVE  LET q == Got(o, state)
           IN  /\ q \in Ops /\ q.at = "got" /\ q.old = o.old /\ q.key = o.key
               /\ q.hash = o.hash /\ q.backend = o.backend /\ q.state = state
BY DEF Got, Ops, Ends

\* Where a call may go without more than it holds.
Follows(from, at) ==
    /\ at \in AllAts \ ({"idle", "remap", "unblob", "got"} \cup Inside)
    /\ at \in StoreAts => from \in StoreAts
    /\ at \in {"unref", "read"} => from = at
    /\ at = "upsert" => from = "upsert"
    /\ from \notin {"idle", "got"}

LEMMA FollowsOK ==
    ASSUME NEW o, OpOK(o), NEW at, Follows(o.at, at)
    PROVE  OpOK(Moved(o, at))
<1>1. o \in Ops /\ at \in AllAts
  BY DEF OpOK, Follows
<1>2. /\ Moved(o, at) \in Ops
      /\ Moved(o, at).at = at /\ Moved(o, at).key = o.key
      /\ Moved(o, at).hash = o.hash /\ Moved(o, at).old = o.old
      /\ Moved(o, at).backend = o.backend /\ Moved(o, at).state = o.state
  BY <1>1, MovedFields
<1> DEFINE q == Moved(o, at)
<1> HIDE DEF q
<1> QED
  BY <1>2 DEF OpOK, Follows, Inside, q

LEMMA FollowsSafe ==
    ASSUME StoreSafe, NEW a \in Actors, NEW at, Follows(op[a].at, at), Goes(a, at),
           BlobsStay, UNCHANGED <<refs, count, located, raced, cleared>>
    PROVE  StoreSafe'
<1>1. OpOK(op[a]) /\ at \in AllAts
  BY DEF StoreSafe, Follows
<1>2. OpOK(Moved(op[a], at))
  BY <1>1, FollowsOK
<1>3. Replaces(a, Moved(op[a], at)) /\ Moved(op[a], at).at = at
  BY <1>1, <1>2, GoesReplaces
<1>4. at \notin {"remap", "unblob"} \cup Inside
  BY DEF Follows
<1> QED
  BY <1>3, <1>4, Replaced

LEMMA ExistingSafe ==
    ASSUME StoreSafe, NEW a \in Actors, Existing(a), UNCHANGED cleared
    PROVE  StoreSafe'
<1> DEFINE same == refs[op[a].key] = op[a].hash
           at == IF same THEN "again" ELSE "upsert"
           old == IF same THEN None ELSE refs[op[a].key]
           q == Found(op[a], at, old)
<1>1. OpOK(op[a]) /\ op[a] \in Ops /\ op[a].at = "existing" /\ op[a].key \in Keys
      /\ op[a].hash \in Hashes /\ op[a].backend \in Backends
  BY DEF StoreSafe, OpOK, Existing, StoreAts
<1>2. at \in AllAts /\ old \in Hashes \cup {None} /\ at \in {"again", "upsert"}
  BY <1>1 DEF StoreSafe, StoreTypeOK, AllAts
<1>3. at = "upsert" => old # op[a].hash
  OBVIOUS
<1>4. op' = [op EXCEPT ![a] = q] /\ UNCHANGED <<refs, count, located, blob, raced>>
  BY <1>1 DEF Existing, Found, Moved, StoreSafe, StoreTypeOK
<1> HIDE DEF at, old
<1>5. /\ q \in Ops /\ q.at = at /\ q.old = old /\ q.key = op[a].key
      /\ q.hash = op[a].hash /\ q.backend = op[a].backend /\ q.state = op[a].state
  BY <1>1, <1>2, FoundFields
<1> HIDE DEF q
<1>6. OpOK(q)
  BY <1>1, <1>2, <1>3, <1>5 DEF OpOK, StoreAts, Inside
<1>7. q.at \notin {"remap", "unblob"} \cup Inside
  BY <1>2, <1>5 DEF Inside
<1> QED
  BY <1>4, <1>6, <1>7, SameBlobsStay, Replaced DEF Replaces

LEMMA HoldsIsLocks ==
    ASSUME NEW a, NEW h
    PROVE  LocksIndex(a, h) <=> Holds(op[a], h)
BY DEF LocksIndex, Holds, Inside

\* A transaction takes index rows that nobody else holds.
LEMMA TakesLock ==
    ASSUME StoreSafe, NEW a \in Actors, NEW at \in {"remap", "blob"}, Goes(a, at),
           op[a].at = (IF at = "remap" THEN "upsert" ELSE "remap"),
           at = "remap" => IndexFree(a, op[a].hash),
           at = "blob" /\ op[a].old # None => IndexFree(a, op[a].old),
           at = "blob" /\ op[a].old # None =>
               /\ count[op[a].old] > 0
               /\ count[op[a].old] = 1 => ~StillNamed(op[a].old, op[a].key),
           UNCHANGED <<refs, count, located, blob, raced, cleared>>
    PROVE  StoreSafe'
<1> DEFINE q == Moved(op[a], at)
<1>1. op[a] \in Ops /\ OpOK(op[a]) /\ at \in AllAts
  BY DEF StoreSafe, StoreTypeOK, AllAts
<1>2. /\ q \in Ops /\ q.at = at /\ q.key = op[a].key /\ q.hash = op[a].hash
      /\ q.old = op[a].old /\ q.backend = op[a].backend /\ q.state = op[a].state
  BY <1>1, MovedFields
<1> HIDE DEF q
<1>3. OpOK(q)
  BY <1>1, <1>2 DEF OpOK, StoreAts, Inside
<1>4. Replaces(a, q)
  BY <1>1, <1>3, GoesReplaces DEF q
<1>5. /\ op'[a] = q
      /\ \A b \in Actors : b # a => op'[b] = op[b]
      /\ op' \in [Actors -> Ops]
      /\ \A b \in Actors : OpOK(op'[b])
  BY <1>4, ReplacesOne
<1>6. StoreTypeOK' /\ (cleared \in BOOLEAN)' /\ (\A b \in Actors : OpOK(op[b]))'
  BY <1>5 DEF StoreSafe, StoreTypeOK
<1>7. ASSUME NEW b \in Actors, b # a, NEW h \in Hashes, Holds(q, h), Holds(op[b], h)
      PROVE  FALSE
  <2>1. CASE at = "remap"
    <3>1. h = op[a].hash
      BY <1>2, <1>7, <2>1 DEF Holds, Inside
    <3> QED
      BY <1>7, <2>1, <3>1, HoldsIsLocks DEF IndexFree
  <2>2. CASE at = "blob" /\ h = op[a].hash
    <3>1. Holds(op[a], h)
      BY <2>2 DEF Holds
    <3> QED
      BY <3>1, <1>7 DEF StoreSafe, Exclusive
  <2>3. CASE at = "blob" /\ h = op[a].old
    <3>1. op[a].old # None
      BY <2>3, StoreAssumption
    <3> QED
      BY <1>7, <2>3, <3>1, HoldsIsLocks DEF IndexFree
  <2> QED
    BY <1>2, <1>7, <2>1, <2>2, <2>3 DEF Holds
<1>8. Exclusive'
  BY <1>5, <1>7 DEF StoreSafe, Exclusive
<1>9. OldCounted'
  BY <1>2, <1>5 DEF StoreSafe, OldCounted, StillNamed, Inside
<1>10. Counted' /\ Routed' /\ ReferenceHasBlob'
  BY SameBlobsStay, BlobsStayBehind DEF StoreSafe, Counted, Routed
<1>11. CommitHasBlob' /\ UnblobUnnamed'
  BY <1>2, <1>5 DEF StoreSafe, CommitHasBlob, UnblobUnnamed, Lost
<1> QED
  BY <1>6, <1>8, <1>9, <1>10, <1>11 DEF StoreSafe

LEMMA UpsertSafe ==
    ASSUME StoreSafe, NEW a \in Actors, Upsert(a), UNCHANGED cleared
    PROVE  StoreSafe'
BY TakesLock DEF Upsert

LEMMA RemapSafe ==
    ASSUME StoreSafe, NEW a \in Actors, Remap(a), UNCHANGED cleared
    PROVE  StoreSafe'
<1> DEFINE bad == op[a].old # None /\ \/ count[op[a].old] = 0
                                      \/ count[op[a].old] = 1 /\ StillNamed(op[a].old, op[a].key)
<1>1. CASE bad
  <2>1. Goes(a, "failed")
    BY <1>1 DEF Remap
  <2>2. Follows(op[a].at, "failed")
    BY DEF Remap, Follows, AllAts, Ends, StoreAts, Inside
  <2> QED
    BY <2>1, <2>2, SameBlobsStay, FollowsSafe DEF Remap
<1>2. CASE ~bad
  <2>1. Goes(a, "blob")
    BY <1>2 DEF Remap
  <2>2. op[a].old # None => op[a].old \in Hashes
    BY DEF StoreSafe, StoreTypeOK, Ops
  <2>3. op[a].old # None => count[op[a].old] \in Nat
    BY <2>2 DEF StoreSafe, StoreTypeOK
  <2>4. op[a].old # None => /\ count[op[a].old] > 0
                            /\ count[op[a].old] = 1 => ~StillNamed(op[a].old, op[a].key)
    BY <1>2, <2>3
  <2> QED
    BY <2>1, <2>4, TakesLock DEF Remap
<1> QED
  BY <1>1, <1>2

LEMMA CheckBlobSafe ==
    ASSUME StoreSafe, NEW a \in Actors, CheckBlob(a), UNCHANGED cleared
    PROVE  StoreSafe'
<1> DEFINE there == count[op[a].hash] > 0 /\ blob[op[a].backend][op[a].hash] # "absent"
<1>1. CASE there
  BY <1>1, SameBlobsStay, StaysInside DEF CheckBlob, Inside
<1>2. CASE ~there
  BY <1>2, SameBlobsStay, StaysInside DEF CheckBlob, Inside
<1> QED
  BY <1>1, <1>2

LEMMA MaterializeStays ==
    ASSUME StoreSafe, NEW a \in Actors, NEW at, Materialize(a, at), op[a].at \in StoreAts
    PROVE  BlobsStay /\ blob'[op[a].backend][op[a].hash] # "absent"
<1>1. op[a].backend \in Backends /\ op[a].hash \in Hashes
  BY DEF StoreSafe, OpOK
<1> QED
  BY <1>1 DEF Materialize, BlobsStay, StoreSafe, StoreTypeOK, BlobStates

LEMMA MoveSafe ==
    ASSUME StoreSafe, NEW a \in Actors, Move(a), UNCHANGED cleared
    PROVE  StoreSafe'
<1>1. Materialize(a, "commit") /\ op[a].at \in Inside /\ op[a].at \in StoreAts
  BY DEF Move, Inside, StoreAts
<1> QED
  BY <1>1, MaterializeStays, StaysInside DEF Materialize

LEMMA RestoreSafe ==
    ASSUME StoreSafe, NEW a \in Actors, Restore(a), UNCHANGED cleared
    PROVE  StoreSafe'
<1>1. Materialize(a, "record") /\ op[a].at \in StoreAts
  BY DEF Restore, StoreAts
<1>2. Follows(op[a].at, "record")
  BY DEF Restore, Follows, AllAts, StoreAts, Inside
<1> QED
  BY <1>1, <1>2, MaterializeStays, FollowsSafe DEF Materialize

LEMMA AgainSafe ==
    ASSUME StoreSafe, NEW a \in Actors, Again(a), UNCHANGED cleared
    PROVE  StoreSafe'
<1>1. Follows(op[a].at, "record") /\ Follows(op[a].at, "restore")
  BY DEF Again, Follows, AllAts, StoreAts, Inside
<1> QED
  BY <1>1, SameBlobsStay, FollowsSafe DEF Again

LEMMA CommitSafe ==
    ASSUME StoreSafe, NEW a \in Actors, Commit(a), UNCHANGED cleared
    PROVE  StoreSafe'
<1> DEFINE k == op[a].key
           new == op[a].hash
           old == op[a].old
           q == Moved(op[a], "record")
<1>1. /\ op[a].at = "commit" /\ OpOK(op[a]) /\ op[a] \in Ops
      /\ k \in Keys /\ new \in Hashes /\ old \in Hashes \cup {None} /\ old # new
      /\ op[a].backend = Route[k]
  BY DEF Commit, StoreSafe, OpOK, Ops, StoreAts, Inside
<1>2. Follows(op[a].at, "record")
  BY <1>1 DEF Follows, AllAts, StoreAts, Inside
<1>3. Goes(a, "record") /\ UNCHANGED <<located, blob>>
  BY DEF Commit
<1>4. Replaces(a, q) /\ q.at = "record"
  BY <1>1, <1>2, <1>3, FollowsOK, GoesReplaces DEF Follows
<1>5. /\ op'[a] = q
      /\ \A b \in Actors : b # a => op'[b] = op[b]
      /\ op' \in [Actors -> Ops]
      /\ \A b \in Actors : OpOK(op'[b])
  BY <1>4, ReplacesOne
<1>6. refs' = [refs EXCEPT ![k] = new]
  BY DEF Commit
<1>7. refs'[k] = new /\ \A l \in Keys : l # k => refs'[l] = refs[l]
  BY <1>1, <1>6 DEF StoreSafe, StoreTypeOK
<1>8. old # None => /\ count[old] \in Nat /\ count[old] > 0
                    /\ count[old] = 1 => ~StillNamed(old, k)
  BY <1>1 DEF StoreSafe, OldCounted, StoreTypeOK, Inside
<1>9. /\ \A h \in Hashes : count[h] \in Nat
      /\ count' = [h \in Hashes |-> CASE h = new -> count[h] + 1
                                      [] h = old -> count[h] - 1
                                      [] OTHER -> count[h]]
  BY DEF Commit, StoreSafe, StoreTypeOK
<1>10. /\ count'[new] = count[new] + 1
       /\ old # None => count'[old] = count[old] - 1
       /\ \A h \in Hashes : h # new /\ h # old => count'[h] = count[h]
  BY <1>1, <1>9
<1>11. None \notin Hashes
  BY StoreAssumption
<1>12. count' \in [Hashes -> Nat]
  <2>1. ASSUME NEW h \in Hashes PROVE count'[h] \in Nat
    <3>1. CASE h = new
      BY <1>9, <1>10, <3>1
    <3>2. CASE h = old
      BY <1>8, <1>10, <1>11, <3>2
    <3>3. CASE h # new /\ h # old
      BY <1>9, <1>10, <3>3
    <3> QED
      BY <3>1, <3>2, <3>3
  <2>2. count' = [h \in Hashes |-> count'[h]]
    BY <1>9
  <2> QED
    BY <2>1, <2>2
<1>13. refs' \in [Keys -> Hashes \cup {None}]
  BY <1>1, <1>6 DEF StoreSafe, StoreTypeOK
<1>14. /\ raced' \subseteq Hashes /\ raced \subseteq raced'
       /\ (\E b \in Actors : op[b].at = "unblob" /\ op[b].hash = new) => new \in raced'
  BY <1>1 DEF Commit, StoreSafe, StoreTypeOK
<1> HIDE DEF k, new, old, q
<1>15. StoreTypeOK' /\ (cleared \in BOOLEAN)' /\ (\A b \in Actors : OpOK(op[b]))'
  BY <1>3, <1>5, <1>12, <1>13, <1>14 DEF StoreSafe, StoreTypeOK
<1>16. Exclusive'
  <2>1. \A h : ~Holds(q, h)
    BY <1>4 DEF Holds, Inside
  <2> QED
    BY <1>5, <2>1 DEF StoreSafe, Exclusive
<1>17. OldCounted'
  <2> SUFFICES ASSUME NEW b \in Actors, op'[b].at \in Inside, op'[b].old # None
               PROVE  /\ count'[op'[b].old] > 0
                      /\ count'[op'[b].old] = 1 => ~(StillNamed(op[b].old, op[b].key)')
    BY DEF OldCounted
  <2>1. b # a /\ op'[b] = op[b]
    BY <1>4, <1>5 DEF Inside
  <2>2. op[b].old \in Hashes /\ op[b].old # None /\ op[b].at \in Inside
    BY <2>1 DEF StoreSafe, OpOK, Ops
  <2>3. Holds(op[b], op[b].old)
    BY <2>2 DEF Holds
  <2>4. Holds(op[a], new) /\ (old # None => Holds(op[a], old))
    BY <1>1 DEF Holds, Inside, new, old
  <2>5. op[b].old # new /\ op[b].old # old
    BY <1>1, <2>1, <2>2, <2>3, <2>4 DEF StoreSafe, Exclusive
  <2>6. count'[op[b].old] = count[op[b].old]
    BY <1>10, <2>2, <2>5
  <2>7. StillNamed(op[b].old, op[b].key)' => StillNamed(op[b].old, op[b].key)
    BY <1>7, <2>1, <2>5 DEF StillNamed
  <2> QED
    BY <2>1, <2>2, <2>6, <2>7 DEF StoreSafe, OldCounted
<1>18. Counted'
  <2> SUFFICES ASSUME NEW l \in Keys, refs'[l] # None PROVE count'[refs'[l]] > 0
    BY DEF Counted
  <2>1. CASE refs'[l] = new
    BY <1>1, <1>9, <1>10, <2>1
  <2>2. CASE refs'[l] # new
    <3>1. l # k /\ refs'[l] = refs[l] /\ refs[l] \in Hashes
      BY <1>7, <1>13, <2>2
    <3>2. count[refs[l]] > 0
      BY <3>1 DEF StoreSafe, Counted
    <3>3. CASE refs[l] = old
      <4>1. StillNamed(old, k)
        BY <3>1, <3>3 DEF StillNamed
      <4>2. old # None /\ count[old] # 1
        BY <1>8, <3>1, <3>3, <4>1, <1>11
      <4> QED
        BY <1>8, <1>10, <3>1, <3>3, <4>2
    <3>4. CASE refs[l] # old
      BY <1>10, <2>2, <3>1, <3>2, <3>4
    <3> QED
      BY <3>3, <3>4
  <2> QED
    BY <2>1, <2>2
<1>19. Routed'
  BY <1>3 DEF StoreSafe, Routed
<1>20. CommitHasBlob'
  BY <1>3, <1>4, <1>5, <1>14 DEF StoreSafe, CommitHasBlob, Lost
<1>21. UnblobUnnamed'
  <2> SUFFICES ASSUME NEW b \in Actors, op'[b].at = "unblob", NEW l \in Keys,
                      refs'[l] = op'[b].hash
               PROVE  op'[b].hash \in raced'
    BY DEF UnblobUnnamed
  <2>1. b # a /\ op'[b] = op[b]
    BY <1>4, <1>5
  <2>2. CASE op[b].hash = new
    BY <1>14, <2>1, <2>2
  <2>3. CASE op[b].hash # new
    BY <1>7, <1>14, <2>1, <2>3 DEF StoreSafe, UnblobUnnamed
  <2> QED
    BY <2>2, <2>3
<1>22. ReferenceHasBlob'
  <2> SUFFICES ASSUME NEW l \in Keys, refs'[l] # None
               PROVE  blob'[Route[l]][refs'[l]] # "absent" \/ cleared' \/ refs'[l] \in raced'
    BY DEF ReferenceHasBlob, Lost
  <2>1. CASE l = k
    <3>1. blob[op[a].backend][op[a].hash] # "absent" \/ Lost(op[a].hash)
      BY <1>1 DEF StoreSafe, CommitHasBlob
    <3> QED
      BY <1>1, <1>3, <1>7, <1>14, <2>1, <3>1 DEF Lost, new
  <2>2. CASE l # k
    BY <1>3, <1>7, <1>14, <2>2 DEF StoreSafe, ReferenceHasBlob, Lost
  <2> QED
    BY <2>1, <2>2
<1> QED
  BY <1>15, <1>16, <1>17, <1>18, <1>19, <1>20, <1>21, <1>22 DEF StoreSafe

\* record_backend and the forgetting of a deletion.
LEMMA LocatedSafe ==
    ASSUME StoreSafe, NEW a \in Actors, NEW at, Follows(op[a].at, at), Goes(a, at),
           NEW b \in {None, Route[op[a].key]},
           located' = [located EXCEPT ![op[a].key] = b],
           UNCHANGED <<refs, count, blob, raced, cleared>>
    PROVE  StoreSafe'
<1>1. OpOK(op[a]) /\ at \in AllAts /\ op[a].key \in Keys
  BY DEF StoreSafe, Follows, OpOK
<1>2. OpOK(Moved(op[a], at))
  BY <1>1, FollowsOK
<1> DEFINE q == Moved(op[a], at)
<1>3. Replaces(a, q) /\ q.at = at
  BY <1>1, <1>2, GoesReplaces
<1> HIDE DEF q
<1>4. /\ op'[a] = q
      /\ \A c \in Actors : c # a => op'[c] = op[c]
      /\ op' \in [Actors -> Ops]
      /\ \A c \in Actors : OpOK(op'[c])
  BY <1>3, ReplacesOne
<1>5. b \in Backends \cup {None}
  BY <1>1, StoreAssumption
<1>6. located' \in [Keys -> Backends \cup {None}] /\ Routed'
  BY <1>1, <1>5 DEF StoreSafe, StoreTypeOK, Routed
<1>7. StoreTypeOK' /\ (cleared \in BOOLEAN)' /\ (\A c \in Actors : OpOK(op[c]))'
  BY <1>4, <1>6 DEF StoreSafe, StoreTypeOK
<1>8. q.at \notin {"remap", "unblob"} \cup Inside
  BY <1>3 DEF Follows
<1>9. \A h : ~Holds(q, h)
  BY <1>8 DEF Holds
<1>10. Exclusive'
  BY <1>4, <1>9 DEF StoreSafe, Exclusive
<1>11. OldCounted'
  BY <1>4, <1>8 DEF StoreSafe, OldCounted, StillNamed
<1>12. Counted' /\ ReferenceHasBlob'
  BY DEF StoreSafe, Counted, ReferenceHasBlob, Lost
<1>13. CommitHasBlob' /\ UnblobUnnamed'
  BY <1>4, <1>8 DEF StoreSafe, CommitHasBlob, UnblobUnnamed, Lost, Inside
<1> QED
  BY <1>6, <1>7, <1>10, <1>11, <1>12, <1>13 DEF StoreSafe

LEMMA RecordSafe ==
    ASSUME StoreSafe, NEW a \in Actors, Record(a), UNCHANGED cleared
    PROVE  StoreSafe'
<1>1. Follows(op[a].at, "stored") /\ op[a].backend = Route[op[a].key]
  BY DEF Record, Follows, AllAts, Ends, StoreAts, Inside, StoreSafe, OpOK
<1> QED
  BY <1>1, LocatedSafe DEF Record

LEMMA ForgetSafe ==
    ASSUME StoreSafe, NEW a \in Actors, Forget(a), UNCHANGED cleared
    PROVE  StoreSafe'
<1>1. Follows(op[a].at, "deleted")
  BY DEF Forget, Follows, AllAts, Ends, StoreAts, Inside
<1> QED
  BY <1>1, LocatedSafe DEF Forget

-----------------------------------------------------------------------------
(* The steps of a deletion and of a retrieval. *)

LEMMA ResolvedType ==
    ASSUME StoreSafe, NEW k \in Keys
    PROVE  Resolved(k) \in Backends
BY StoreAssumption DEF StoreSafe, StoreTypeOK, Resolved

\* select_hash: the call learns what the key maps to.
LEMMA NamesSafe ==
    ASSUME StoreSafe, NEW a \in Actors, NEW at \in {"unref", "read"},
           op[a].at \in {"select", "lookup"}, refs[op[a].key] # None,
           op' = [op EXCEPT ![a].at = at, ![a].hash = refs[op[a].key],
                            ![a].backend = Resolved(op[a].key)],
           UNCHANGED <<refs, count, located, blob, raced, cleared>>
    PROVE  StoreSafe'
<1> DEFINE h == refs[op[a].key]
           b == Resolved(op[a].key)
           q == Named(op[a], at, h, b)
<1>1. OpOK(op[a]) /\ op[a] \in Ops /\ op[a].key \in Keys
  BY DEF StoreSafe, OpOK
<1>2. h \in Hashes /\ b \in Backends /\ at \in AllAts
  BY <1>1, ResolvedType DEF StoreSafe, StoreTypeOK, AllAts
<1>3. op' = [op EXCEPT ![a] = q]
  BY <1>1 DEF Named, StoreSafe, StoreTypeOK
<1> HIDE DEF h, b
<1>4. /\ q \in Ops /\ q.at = at /\ q.old = op[a].old /\ q.key = op[a].key
      /\ q.hash = h /\ q.backend = b /\ q.state = op[a].state
  BY <1>1, <1>2, NamedFields
<1> HIDE DEF q
<1>5. OpOK(q)
  BY <1>1, <1>2, <1>4 DEF OpOK, StoreAts, Inside
<1>6. q.at \notin {"remap", "unblob"} \cup Inside
  BY <1>4 DEF Inside
<1> QED
  BY <1>3, <1>5, <1>6, SameBlobsStay, Replaced DEF Replaces

LEMMA SelectSafe ==
    ASSUME StoreSafe, NEW a \in Actors, Select(a), UNCHANGED cleared
    PROVE  StoreSafe'
<1>1. CASE refs[op[a].key] = None
  <2>1. Follows(op[a].at, "forget") /\ Goes(a, "forget")
    BY <1>1 DEF Select, Follows, AllAts, StoreAts, Inside
  <2> QED
    BY <2>1, SameBlobsStay, FollowsSafe DEF Select
<1>2. CASE refs[op[a].key] # None
  BY <1>2, NamesSafe DEF Select
<1> QED
  BY <1>1, <1>2

\* What a retrieval answers.
LEMMA GotSafe ==
    ASSUME StoreSafe, NEW a \in Actors, NEW state \in BlobStates,
           op[a].at \in ReadAts \ {"got"},
           state # "absent" => op[a].hash \in Hashes,
           op' = [op EXCEPT ![a] = Got(op[a], state)],
           UNCHANGED <<refs, count, located, blob, raced, cleared>>
    PROVE  StoreSafe'
<1> DEFINE q == Got(op[a], state)
<1>1. OpOK(op[a]) /\ op[a] \in Ops /\ op[a].key \in Keys
  BY DEF StoreSafe, OpOK, ReadAts
<1>2. /\ q \in Ops /\ q.at = "got" /\ q.key = op[a].key
      /\ q.hash = op[a].hash /\ q.backend = op[a].backend /\ q.state = state
  BY <1>1, GotFields
<1> HIDE DEF q
<1>3. OpOK(q)
  BY <1>1, <1>2 DEF OpOK, StoreAts, Inside
<1>4. q.at \notin {"remap", "unblob"} \cup Inside
  BY <1>2 DEF Inside
<1>5. op' = [op EXCEPT ![a] = q]
  BY DEF q
<1> QED
  BY <1>3, <1>4, <1>5, SameBlobsStay, Replaced DEF Replaces

LEMMA LookupSafe ==
    ASSUME StoreSafe, NEW a \in Actors, Lookup(a), UNCHANGED cleared
    PROVE  StoreSafe'
<1>1. CASE refs[op[a].key] = None
  <2>1. op[a] \in Ops /\ op[a].state = "absent" /\ op[a].at \in ReadAts \ {"got"}
    BY DEF Lookup, StoreSafe, OpOK, ReadAts
  <2>2. op' = [op EXCEPT ![a] = Got(op[a], "absent")]
    BY <1>1, <2>1 DEF Lookup, Goes, Got, Ops
  <2> QED
    BY <2>1, <2>2, GotSafe DEF Lookup, BlobStates
<1>2. CASE refs[op[a].key] # None
  BY <1>2, NamesSafe DEF Lookup
<1> QED
  BY <1>1, <1>2

LEMMA ReadSafe ==
    ASSUME StoreSafe, NEW a \in Actors, Read(a), UNCHANGED cleared
    PROVE  StoreSafe'
<1> DEFINE state == blob[op[a].backend][op[a].hash]
<1>1. op[a].at \in ReadAts \ {"got"} /\ op[a].backend \in Backends /\ op[a].hash \in Hashes
  BY DEF Read, StoreSafe, OpOK, ReadAts
<1>2. state \in BlobStates
  BY <1>1 DEF StoreSafe, StoreTypeOK
<1>3. op' = [op EXCEPT ![a] = Got(op[a], state)]
  BY DEF Read, Got, StoreSafe, StoreTypeOK
<1> HIDE DEF state
<1> QED
  BY <1>1, <1>2, <1>3, GotSafe DEF Read

LEMMA UnrefSafe ==
    ASSUME StoreSafe, NEW a \in Actors, Unref(a), UNCHANGED cleared
    PROVE  StoreSafe'
<1> DEFINE k == op[a].key
           x == op[a].hash
           at == IF count[x] = 1 THEN "unblob" ELSE "forget"
           q == Moved(op[a], at)
           refused == count[x] = 0 \/ (count[x] = 1 /\ StillNamed(x, k))
<1>1. /\ op[a].at = "unref" /\ OpOK(op[a]) /\ op[a] \in Ops
      /\ k \in Keys /\ x \in Hashes /\ IndexFree(a, x)
  BY DEF Unref, StoreSafe, OpOK
<1>2. CASE refused
  <2>1. Follows(op[a].at, "failed") /\ Goes(a, "failed")
    BY <1>1, <1>2 DEF Unref, Follows, AllAts, Ends, StoreAts, Inside
  <2> QED
    BY <1>2, <2>1, SameBlobsStay, FollowsSafe DEF Unref
<1>3. CASE ~refused
  <2>1. /\ refs' = [refs EXCEPT ![k] = None]
        /\ count' = [count EXCEPT ![x] = @ - 1]
        /\ Goes(a, at) /\ UNCHANGED <<located, blob, raced>>
    BY <1>3 DEF Unref
  <2>2. at \in AllAts /\ at \in {"unblob", "forget"}
    BY DEF AllAts
  <2>3. /\ q \in Ops /\ q.at = at /\ q.key = k /\ q.hash = x
        /\ q.backend = op[a].backend /\ q.state = op[a].state
    BY <1>1, <2>2, MovedFields
  <2>4. at = "unblob" <=> count[x] = 1
    OBVIOUS
  <2> HIDE DEF at, q
  <2>5. OpOK(q)
    BY <1>1, <2>2, <2>3 DEF OpOK, StoreAts, Inside
  <2>6. Replaces(a, q)
    BY <1>1, <2>1, <2>2, <2>5, GoesReplaces DEF q
  <2>7. /\ op'[a] = q
        /\ \A b \in Actors : b # a => op'[b] = op[b]
        /\ op' \in [Actors -> Ops]
        /\ \A b \in Actors : OpOK(op'[b])
    BY <2>6, ReplacesOne
  <2>8. refs'[k] = None /\ \A l \in Keys : l # k => refs'[l] = refs[l]
    BY <1>1, <2>1 DEF StoreSafe, StoreTypeOK
  <2>9. /\ count[x] \in Nat /\ count[x] > 0 /\ (count[x] = 1 => ~StillNamed(x, k))
        /\ count'[x] = count[x] - 1
        /\ \A h \in Hashes : h # x => count'[h] = count[h]
    BY <1>1, <1>3, <2>1 DEF StoreSafe, StoreTypeOK
  <2>10. count' \in [Hashes -> Nat] /\ refs' \in [Keys -> Hashes \cup {None}]
    BY <1>1, <2>1, <2>9 DEF StoreSafe, StoreTypeOK
  <2>11. None \notin Hashes
    BY StoreAssumption
  <2> HIDE DEF k, x, refused
  <2>12. StoreTypeOK' /\ (cleared \in BOOLEAN)' /\ (\A b \in Actors : OpOK(op[b]))'
    BY <2>1, <2>7, <2>10 DEF StoreSafe, StoreTypeOK
  <2>13. Exclusive'
    <3>1. \A h : ~Holds(q, h)
      BY <2>2, <2>3 DEF Holds, Inside
    <3> QED
      BY <2>7, <3>1 DEF StoreSafe, Exclusive
  <2>14. OldCounted'
    <3> SUFFICES ASSUME NEW b \in Actors, op'[b].at \in Inside, op'[b].old # None
                 PROVE  /\ count'[op'[b].old] > 0
                        /\ count'[op'[b].old] = 1 => ~(StillNamed(op[b].old, op[b].key)')
      BY DEF OldCounted
    <3>1. b # a /\ op'[b] = op[b]
      BY <2>2, <2>3, <2>7 DEF Inside
    <3>2. op[b].old \in Hashes /\ op[b].at \in Inside
      BY <3>1 DEF StoreSafe, OpOK, Ops
    <3>3. op[b].old # x
      BY <1>1, <3>1, <3>2, HoldsIsLocks DEF IndexFree, Holds
    <3>4. count'[op[b].old] = count[op[b].old]
      BY <2>9, <3>2, <3>3
    <3>5. StillNamed(op[b].old, op[b].key)' => StillNamed(op[b].old, op[b].key)
      BY <2>8, <2>11, <3>1, <3>2 DEF StillNamed
    <3> QED
      BY <3>1, <3>2, <3>4, <3>5 DEF StoreSafe, OldCounted
  <2>15. Counted'
    <3> SUFFICES ASSUME NEW l \in Keys, refs'[l] # None PROVE count'[refs'[l]] > 0
      BY DEF Counted
    <3>1. l # k /\ refs'[l] = refs[l] /\ refs[l] \in Hashes
      BY <2>8, <2>10
    <3>2. count[refs[l]] > 0
      BY <3>1 DEF StoreSafe, Counted
    <3>3. refs[l] = x => count[x] # 1
      BY <2>9, <3>1 DEF StillNamed
    <3> QED
      BY <2>9, <3>1, <3>2, <3>3
  <2>16. Routed'
    BY <2>1 DEF StoreSafe, Routed
  <2>17. CommitHasBlob'
    BY <2>1, <2>2, <2>3, <2>7 DEF StoreSafe, CommitHasBlob, Lost
  <2>18. UnblobUnnamed'
    <3> SUFFICES ASSUME NEW b \in Actors, op'[b].at = "unblob", NEW l \in Keys,
                        refs'[l] = op'[b].hash
                 PROVE  op'[b].hash \in raced'
      BY DEF UnblobUnnamed
    <3>1. op'[b].hash \in Hashes
      BY <2>7 DEF OpOK
    <3>2. l # k /\ refs[l] = op'[b].hash
      BY <2>8, <2>11, <3>1
    <3>3. CASE b = a
      BY <2>3, <2>4, <2>7, <2>9, <3>2, <3>3 DEF StillNamed
    <3>4. CASE b # a
      BY <2>1, <2>7, <3>2, <3>4 DEF StoreSafe, UnblobUnnamed
    <3> QED
      BY <3>3, <3>4
  <2>19. ReferenceHasBlob'
    BY <2>1, <2>8 DEF StoreSafe, ReferenceHasBlob, Lost
  <2> QED
    BY <2>12, <2>13, <2>14, <2>15, <2>16, <2>17, <2>18, <2>19 DEF StoreSafe
<1> QED
  BY <1>2, <1>3

LEMMA UnblobSafe ==
    ASSUME StoreSafe, NEW a \in Actors, Unblob(a), UNCHANGED cleared
    PROVE  StoreSafe'
<1> DEFINE x == op[a].hash
           y == op[a].backend
           q == Moved(op[a], "forget")
<1>1. /\ op[a].at = "unblob" /\ OpOK(op[a]) /\ op[a] \in Ops
      /\ x \in Hashes /\ y \in Backends
  BY DEF Unblob, StoreSafe, OpOK
<1>2. Follows(op[a].at, "forget")
  BY <1>1 DEF Follows, AllAts, StoreAts, Inside
<1>3. /\ blob' = [blob EXCEPT ![y][x] = "absent"]
      /\ Goes(a, "forget") /\ UNCHANGED <<refs, count, located>>
  BY DEF Unblob
<1>4. Replaces(a, q) /\ q.at = "forget"
  BY <1>1, <1>2, <1>3, FollowsOK, GoesReplaces DEF Follows
<1>5. /\ op'[a] = q
      /\ \A b \in Actors : b # a => op'[b] = op[b]
      /\ op' \in [Actors -> Ops]
      /\ \A b \in Actors : OpOK(op'[b])
  BY <1>4, ReplacesOne
<1>6. /\ blob' \in [Backends -> [Hashes -> BlobStates]]
      /\ \A b \in Backends : \A h \in Hashes : h # x => blob'[b][h] = blob[b][h]
  BY <1>1, <1>3 DEF StoreSafe, StoreTypeOK, BlobStates
<1>7. /\ raced' \subseteq Hashes /\ raced \subseteq raced'
      /\ (\E b \in Actors : op[b].at = "commit" /\ op[b].hash = x) => x \in raced'
  BY <1>1 DEF Unblob, StoreSafe, StoreTypeOK
<1>8. \A k \in Keys : refs[k] = x => x \in raced
  BY <1>1 DEF StoreSafe, UnblobUnnamed
<1> HIDE DEF x, y, q
<1>9. StoreTypeOK' /\ (cleared \in BOOLEAN)' /\ (\A b \in Actors : OpOK(op[b]))'
  BY <1>3, <1>5, <1>6, <1>7 DEF StoreSafe, StoreTypeOK
<1>10. Exclusive'
  <2>1. \A h : ~Holds(q, h)
    BY <1>4 DEF Holds, Inside
  <2> QED
    BY <1>5, <2>1 DEF StoreSafe, Exclusive
<1>11. OldCounted'
  BY <1>3, <1>4, <1>5 DEF StoreSafe, OldCounted, StillNamed, Inside
<1>12. Counted' /\ Routed'
  BY <1>3 DEF StoreSafe, Counted, Routed
<1>13. CommitHasBlob'
  <2> SUFFICES ASSUME NEW b \in Actors, op'[b].at = "commit"
               PROVE  \/ blob'[op'[b].backend][op'[b].hash] # "absent"
                      \/ cleared' \/ op'[b].hash \in raced'
    BY DEF CommitHasBlob, Lost
  <2>1. b # a /\ op'[b] = op[b]
    BY <1>4, <1>5
  <2>2. op[b].backend \in Backends /\ op[b].hash \in Hashes
    BY <2>1 DEF StoreSafe, OpOK, StoreAts
  <2>3. blob[op[b].backend][op[b].hash] # "absent" \/ Lost(op[b].hash)
    BY <2>1 DEF StoreSafe, CommitHasBlob
  <2> QED
    BY <1>6, <1>7, <2>1, <2>2, <2>3 DEF Lost
<1>14. UnblobUnnamed'
  BY <1>3, <1>4, <1>5, <1>7 DEF StoreSafe, UnblobUnnamed
<1>15. ReferenceHasBlob'
  <2> SUFFICES ASSUME NEW k \in Keys, refs'[k] # None
               PROVE  blob'[Route[k]][refs'[k]] # "absent" \/ cleared' \/ refs'[k] \in raced'
    BY DEF ReferenceHasBlob, Lost
  <2>1. refs'[k] = refs[k] /\ refs[k] \in Hashes /\ Route[k] \in Backends
    BY <1>3, StoreAssumption DEF StoreSafe, StoreTypeOK
  <2>2. blob[Route[k]][refs[k]] # "absent" \/ Lost(refs[k])
    BY <2>1 DEF StoreSafe, ReferenceHasBlob
  <2> QED
    BY <1>6, <1>7, <1>8, <2>1, <2>2 DEF Lost
<1> QED
  BY <1>9, <1>10, <1>11, <1>12, <1>13, <1>14, <1>15 DEF StoreSafe

LEMMA StoreFailsSafe ==
    ASSUME StoreSafe, NEW a \in Actors, StoreFails(a), UNCHANGED cleared
    PROVE  StoreSafe'
<1>1. op[a] \in Ops /\ Goes(a, AfterFailure(op[a].at))
      /\ op[a].at \notin {"idle"} \cup Ends
      /\ UNCHANGED <<refs, count, located, blob, raced>>
  BY DEF StoreFails, StoreSafe, OpOK
<1>2. CASE op[a].at = "blob"
  <2>1. AfterFailure(op[a].at) = "move"
    BY <1>2 DEF AfterFailure
  <2> QED
    BY <1>1, <1>2, <2>1, SameBlobsStay, StaysInside DEF Inside
<1>3. CASE op[a].at # "blob"
  <2>1. Follows(op[a].at, AfterFailure(op[a].at))
    BY <1>1, <1>3 DEF Follows, AfterFailure, AllAts, Ends, StoreAts, Inside
  <2> QED
    BY <1>1, <2>1, SameBlobsStay, FollowsSafe
<1> QED
  BY <1>2, <1>3

LEMMA StoreStepSafe ==
    ASSUME StoreSafe, NEW a \in Actors, StoreStep(a), UNCHANGED cleared
    PROVE  StoreSafe'
BY ExistingSafe, UpsertSafe, RemapSafe, CheckBlobSafe, MoveSafe, CommitSafe, AgainSafe,
   RestoreSafe, RecordSafe, SelectSafe, UnrefSafe, UnblobSafe, ForgetSafe, LookupSafe,
   ReadSafe
   DEF StoreStep

\* A step of a call stays within its operation and keeps its key, and there is
\* none while the caller has nothing to wait for.
StepOf(a) ==
    /\ op[a].at \notin {"idle"} \cup Ends
    /\ op' \in [Actors -> Ops]
    /\ op'[a].key = op[a].key
    /\ op[a].at \in StoreAts => op'[a].at \in StoreAts \cup {"failed"}
    /\ op[a].at \in DeleteAts => op'[a].at \in DeleteAts \cup {"failed"}
    /\ op[a].at \in ReadAts => op'[a].at \in ReadAts \cup {"failed"}
    /\ \A b \in Actors : b # a => op'[b] = op[b]

LEMMA GoesIsStep ==
    ASSUME StoreSafe, StoreSafe', NEW a \in Actors, NEW at \in AllAts, Goes(a, at),
           op[a].at \notin {"idle"} \cup Ends,
           op[a].at \in StoreAts => at \in StoreAts \cup {"failed"},
           op[a].at \in DeleteAts => at \in DeleteAts \cup {"failed"},
           op[a].at \in ReadAts => at \in ReadAts \cup {"failed"}
    PROVE  StepOf(a)
<1>1. op \in [Actors -> Ops] /\ op' \in [Actors -> Ops]
  BY DEF StoreSafe, StoreTypeOK
<1>2. op' = [op EXCEPT ![a] = Moved(op[a], at)]
  BY <1>1 DEF Goes, Moved
<1>3. op'[a] = Moved(op[a], at) /\ \A b \in Actors : b # a => op'[b] = op[b]
  BY <1>1, <1>2
<1>4. op[a] \in Ops
  BY <1>1
<1>5. op'[a].at = at /\ op'[a].key = op[a].key
  BY <1>3, <1>4, MovedFields
<1> QED
  BY <1>1, <1>3, <1>5 DEF StepOf

\* The steps that change more of a call than the point it has reached.
LEMMA SetsIsStep ==
    ASSUME StoreSafe, StoreSafe', NEW a \in Actors,
           Existing(a) \/ (Select(a) /\ refs[op[a].key] # None)
           \/ (Lookup(a) /\ refs[op[a].key] # None) \/ Read(a)
    PROVE  StepOf(a)
<1>1. op \in [Actors -> Ops] /\ op' \in [Actors -> Ops] /\ op[a] \in Ops
  BY DEF StoreSafe, StoreTypeOK
<1>2. CASE Existing(a)
  <2>1. op'[a].key = op[a].key /\ op'[a].at \in {"again", "upsert"}
        /\ \A b \in Actors : b # a => op'[b] = op[b]
    BY <1>1, <1>2 DEF Existing, Ops
  <2> QED
    BY <1>1, <1>2, <2>1 DEF Existing, StepOf, StoreAts, DeleteAts, ReadAts, Ends
<1>3. CASE Select(a) /\ refs[op[a].key] # None
  <2>1. op'[a].key = op[a].key /\ op'[a].at = "unref"
        /\ \A b \in Actors : b # a => op'[b] = op[b]
    BY <1>1, <1>3 DEF Select, Ops
  <2> QED
    BY <1>1, <1>3, <2>1 DEF Select, StepOf, StoreAts, DeleteAts, ReadAts, Ends
<1>4. CASE Lookup(a) /\ refs[op[a].key] # None
  <2>1. op'[a].key = op[a].key /\ op'[a].at = "read"
        /\ \A b \in Actors : b # a => op'[b] = op[b]
    BY <1>1, <1>4 DEF Lookup, Ops
  <2> QED
    BY <1>1, <1>4, <2>1 DEF Lookup, StepOf, StoreAts, DeleteAts, ReadAts, Ends
<1>5. CASE Read(a)
  <2>1. op'[a].key = op[a].key /\ op'[a].at = "got"
        /\ \A b \in Actors : b # a => op'[b] = op[b]
    BY <1>1, <1>5 DEF Read, Ops
  <2> QED
    BY <1>1, <1>5, <2>1 DEF Read, StepOf, StoreAts, DeleteAts, ReadAts, Ends
<1> QED
  BY <1>2, <1>3, <1>4, <1>5

LEMMA StoreStepIsStep ==
    ASSUME StoreSafe, StoreSafe', NEW a \in Actors, StoreStep(a) \/ StoreFails(a)
    PROVE  StepOf(a)
<1> USE DEF AllAts, StoreAts, DeleteAts, ReadAts, Ends
<1>1. CASE Existing(a) \/ Read(a)
  BY <1>1, SetsIsStep
<1>2. CASE Select(a) \/ Lookup(a)
  <2>1. CASE refs[op[a].key] # None
    BY <1>2, <2>1, SetsIsStep
  <2>2. CASE refs[op[a].key] = None
    BY <1>2, <2>2, GoesIsStep DEF Select, Lookup
  <2> QED
    BY <2>1, <2>2
<1>3. CASE Upsert(a) \/ Commit(a) \/ Record(a) \/ Unblob(a) \/ Forget(a)
  BY <1>3, GoesIsStep DEF Upsert, Commit, Record, Unblob, Forget
<1>4. CASE Remap(a)
  <2>1. op[a].at = "remap" /\ (Goes(a, "failed") \/ Goes(a, "blob"))
    BY <1>4 DEF Remap
  <2> QED
    BY <2>1, GoesIsStep
<1>5. CASE CheckBlob(a) \/ Again(a)
  <2>1. \/ op[a].at = "blob" /\ (Goes(a, "commit") \/ Goes(a, "move"))
        \/ op[a].at = "again" /\ (Goes(a, "record") \/ Goes(a, "restore"))
    BY <1>5 DEF CheckBlob, Again
  <2> QED
    BY <2>1, GoesIsStep
<1>6. CASE Move(a) \/ Restore(a)
  BY <1>6, GoesIsStep DEF Move, Restore, Materialize
<1>7. CASE Unref(a)
  <2>1. op[a].at = "unref" /\ (Goes(a, "failed") \/ Goes(a, "unblob") \/ Goes(a, "forget"))
    BY <1>7 DEF Unref
  <2> QED
    BY <2>1, GoesIsStep
<1>8. CASE StoreFails(a)
  <2> DEFINE at == AfterFailure(op[a].at)
  <2>1. op[a] \in Ops
    BY DEF StoreSafe, StoreTypeOK
  <2>2. /\ op[a].at \notin {"idle"} \cup Ends /\ Goes(a, at) /\ at \in AllAts
        /\ op[a].at \in StoreAts => at \in StoreAts \cup {"failed"}
        /\ op[a].at \in DeleteAts => at \in DeleteAts \cup {"failed"}
        /\ op[a].at \in ReadAts => at \in ReadAts \cup {"failed"}
    BY <1>8, <2>1 DEF StoreFails, AfterFailure, Ops
  <2> HIDE DEF at
  <2> QED
    BY <2>2, GoesIsStep
<1> QED
  BY <1>1, <1>2, <1>3, <1>4, <1>5, <1>6, <1>7, <1>8 DEF StoreStep

-----------------------------------------------------------------------------
(* The cache. *)

Quiet(q) == q.at \notin {"remap", "unblob"} \cup Inside

LEMMA ActorsAre ==
    /\ Clients \subseteq Actors /\ Evictor \in Actors /\ Sweeper \in Actors
    /\ Evictor # Sweeper /\ Evictor \notin Clients /\ Sweeper \notin Clients
    /\ \A a \in Actors : a \in Clients \/ a = Evictor \/ a = Sweeper
BY CacheAssumption

LEMMA FreshQuiet ==
    ASSUME NEW q, Fresh(q)
    PROVE  OpOK(q) /\ Quiet(q)
BY FreshFields DEF Quiet, Inside

\* A call of the store under way, or failing: the caller waits on.
LEMMA CallsSafe ==
    ASSUME CacheSafe, NEW a \in Actors, StoreStep(a) \/ StoreFails(a),
           UNCHANGED <<meta, req, evict, sweep, pending, cleared, wrong>>,
           spent' \in 0 .. MaxEvents
    PROVE  CacheSafe'
<1>1. StoreSafe'
  BY StoreStepSafe, StoreFailsSafe DEF CacheSafe
<1>2. StepOf(a)
  BY <1>1, StoreStepIsStep DEF CacheSafe
<1>3. TypeOK'
  BY <1>1 DEF CacheSafe, TypeOK, StoreSafe
<1>4. op[a] # NoOp /\ op[a].at # "got" /\ op[a].at # "failed"
  BY <1>2 DEF StepOf, NoOp, Ends
<1>5. ASSUME NEW c \in Clients PROVE Asks(req[c], op'[c])
  <2>1. Asks(req[c], op[c]) /\ c \in Actors
    BY ActorsAre DEF CacheSafe
  <2>2. CASE c = a
    BY <1>2, <1>4, <2>1, <2>2 DEF Asks, StepOf
  <2>3. CASE c # a
    BY <1>2, <2>1, <2>3 DEF StepOf
  <2> QED
    BY <2>2, <2>3
<1>6. Drops(evict, op'[Evictor]) /\ Drops(sweep, op'[Sweeper])
  BY <1>2, <1>4, ActorsAre DEF CacheSafe, Drops, StepOf
<1> QED
  BY <1>1, <1>3, <1>5, <1>6 DEF CacheSafe

\* A client goes on with its request.
Turn(c, r, q) ==
    /\ r \in Requests /\ OpOK(q) /\ Quiet(q) /\ Asks(r, q)
    /\ req' = [req EXCEPT ![c] = r]
    /\ op' = [op EXCEPT ![c] = q]
    /\ meta' \in [Keys -> Rows] /\ wrong' \subseteq Keys /\ spent' \in 0 .. MaxEvents
    /\ UNCHANGED <<refs, count, located, blob, raced, evict, sweep, pending, cleared>>

LEMMA TurnSafe ==
    ASSUME CacheSafe, NEW c \in Clients, NEW r, NEW q, Turn(c, r, q)
    PROVE  CacheSafe'
<1>1. c \in Actors /\ StoreSafe
  BY ActorsAre DEF CacheSafe
<1>2. Replaces(c, q) /\ q.at \notin {"remap", "unblob"} \cup Inside
      /\ UNCHANGED <<refs, count, located, raced, cleared>> /\ UNCHANGED blob
  BY DEF Turn, Replaces, Quiet
<1>3. StoreSafe'
  BY <1>1, <1>2, SameBlobsStay, Replaced
<1>4. op'[c] = q /\ \A b \in Actors : b # c => op'[b] = op[b]
  BY <1>1, <1>2, ReplacesOne
<1>5. req' \in [Clients -> Requests] /\ req'[c] = r
      /\ \A d \in Clients : d # c => req'[d] = req[d]
  BY DEF Turn, CacheSafe, TypeOK
<1>6. TypeOK'
  BY <1>3, <1>5 DEF CacheSafe, TypeOK, StoreSafe, Turn
<1>7. \A d \in Clients : Asks(req'[d], op'[d])
  BY <1>4, <1>5, ActorsAre DEF CacheSafe, Turn
<1>8. Drops(evict, op[Evictor])' /\ Drops(sweep, op[Sweeper])'
  BY <1>4, ActorsAre DEF CacheSafe, Turn, Drops
<1> QED
  BY <1>3, <1>6, <1>7, <1>8 DEF CacheSafe

\* The evictor and the sweeper go on.
TaskTurn(a, q) ==
    /\ OpOK(q) /\ Quiet(q)
    /\ op' = [op EXCEPT ![a] = q]
    /\ meta' \in [Keys -> Rows] /\ spent' \in 0 .. MaxEvents
    /\ UNCHANGED <<refs, count, located, blob, raced, req, cleared, wrong>>

LEMMA EvictorTurn ==
    ASSUME CacheSafe, NEW q, TaskTurn(Evictor, q), UNCHANGED <<sweep, pending>>,
           evict' \in [at : {"idle", "run", "drop"}, todo : SUBSET Keys],
           Drops(evict', q)
    PROVE  CacheSafe'
<1>1. Replaces(Evictor, q) /\ q.at \notin {"remap", "unblob"} \cup Inside
      /\ UNCHANGED <<refs, count, located, raced, cleared>> /\ UNCHANGED blob
  BY DEF TaskTurn, Replaces, Quiet
<1>2. StoreSafe'
  BY <1>1, ActorsAre, SameBlobsStay, Replaced DEF CacheSafe
<1>3. op'[Evictor] = q /\ \A b \in Actors : b # Evictor => op'[b] = op[b]
  BY <1>1, ActorsAre, ReplacesOne DEF CacheSafe
<1>4. TypeOK'
  BY <1>2 DEF CacheSafe, TypeOK, StoreSafe, TaskTurn
<1>5. \A d \in Clients : Asks(req'[d], op'[d])
  BY <1>3, ActorsAre DEF CacheSafe, TaskTurn
<1>6. Drops(sweep, op[Sweeper])' /\ Drops(evict', op'[Evictor])
  BY <1>3, ActorsAre DEF CacheSafe, Drops
<1> QED
  BY <1>2, <1>4, <1>5, <1>6 DEF CacheSafe

LEMMA SweeperTurn ==
    ASSUME CacheSafe, NEW q, TaskTurn(Sweeper, q), UNCHANGED evict,
           sweep' \in [at : {"idle", "run", "drop"}, todo : SUBSET Keys,
                       still : SUBSET Keys],
           pending' \subseteq Keys,
           Drops(sweep', q)
    PROVE  CacheSafe'
<1>1. Replaces(Sweeper, q) /\ q.at \notin {"remap", "unblob"} \cup Inside
      /\ UNCHANGED <<refs, count, located, raced, cleared>> /\ UNCHANGED blob
  BY DEF TaskTurn, Replaces, Quiet
<1>2. StoreSafe'
  BY <1>1, ActorsAre, SameBlobsStay, Replaced DEF CacheSafe
<1>3. op'[Sweeper] = q /\ \A b \in Actors : b # Sweeper => op'[b] = op[b]
  BY <1>1, ActorsAre, ReplacesOne DEF CacheSafe
<1>4. TypeOK'
  BY <1>2 DEF CacheSafe, TypeOK, StoreSafe, TaskTurn
<1>5. \A d \in Clients : Asks(req'[d], op'[d])
  BY <1>3, ActorsAre DEF CacheSafe, TaskTurn
<1>6. Drops(evict, op[Evictor])' /\ Drops(sweep', op'[Sweeper])
  BY <1>3, ActorsAre DEF CacheSafe, Drops
<1> QED
  BY <1>2, <1>4, <1>5, <1>6 DEF CacheSafe

\* The tables and the calls stay, the blobs stay or are lost with the bucket.
LEMMA OutsideSafe ==
    ASSUME CacheSafe, UNCHANGED <<refs, count, located, op, raced, req, evict, sweep>>,
           BlobsStay \/ (cleared' /\ blob' \in [Backends -> [Hashes -> BlobStates]]),
           cleared' = cleared \/ cleared' = TRUE,
           pending' \subseteq Keys, wrong' = wrong, meta' \in [Keys -> Rows],
           spent' \in 0 .. MaxEvents
    PROVE  CacheSafe'
<1>1. StoreTypeOK' /\ cleared' \in BOOLEAN /\ (\A a \in Actors : OpOK(op[a]))'
  BY DEF CacheSafe, StoreSafe, StoreTypeOK, BlobsStay
<1>2. Exclusive' /\ OldCounted' /\ Counted' /\ Routed' /\ UnblobUnnamed'
  BY DEF CacheSafe, StoreSafe, Exclusive, OldCounted, Counted, Routed, UnblobUnnamed,
         StillNamed
<1>3. CommitHasBlob'
  <2> SUFFICES ASSUME NEW b \in Actors, op[b].at = "commit"
               PROVE  blob'[op[b].backend][op[b].hash] # "absent" \/ Lost(op[b].hash)'
    BY DEF CommitHasBlob, Lost
  <2>1. op[b].backend \in Backends /\ op[b].hash \in Hashes
    BY DEF CacheSafe, StoreSafe, OpOK, StoreAts
  <2> QED
    BY <2>1 DEF CacheSafe, StoreSafe, CommitHasBlob, Lost, BlobsStay
<1>4. ReferenceHasBlob'
  <2> SUFFICES ASSUME NEW k \in Keys, refs[k] # None
               PROVE  blob'[Route[k]][refs[k]] # "absent" \/ Lost(refs[k])'
    BY DEF ReferenceHasBlob, Lost
  <2>1. Route[k] \in Backends /\ refs[k] \in Hashes
    BY StoreAssumption DEF CacheSafe, StoreSafe, StoreTypeOK
  <2>2. blob[Route[k]][refs[k]] # "absent" \/ Lost(refs[k])
    BY DEF CacheSafe, StoreSafe, ReferenceHasBlob
  <2>3. cleared => cleared'
    OBVIOUS
  <2>4. CASE BlobsStay
    BY <2>1, <2>2, <2>3, <2>4 DEF Lost, BlobsStay
  <2>5. CASE cleared'
    BY <2>5 DEF Lost
  <2> QED
    BY <2>4, <2>5
<1>5. StoreSafe'
  BY <1>1, <1>2, <1>3, <1>4 DEF StoreSafe
<1>6. TypeOK'
  <2>1. TypeOK
    BY DEF CacheSafe
  <2> QED
    BY <1>1, <2>1, Zenon DEF TypeOK
<1>7. /\ \A c \in Clients : Asks(req'[c], op'[c])
      /\ Drops(evict', op'[Evictor]) /\ Drops(sweep', op'[Sweeper])
  BY DEF CacheSafe
<1> QED
  BY <1>5, <1>6, <1>7 DEF CacheSafe

-----------------------------------------------------------------------------
(* What a request does. *)

Storing(k, h) == [NoOp EXCEPT !.at = "existing", !.key = k, !.hash = h, !.backend = Route[k]]
Deleting(k) == [NoOp EXCEPT !.at = "select", !.key = k]
Reading(k) == [NoOp EXCEPT !.at = "lookup", !.key = k]

\* The calls that are made.
LEMMA CallFields ==
    ASSUME NEW k \in Keys
    PROVE  /\ OpOK(NoOp) /\ Quiet(NoOp) /\ NoOp.at = "idle"
           /\ OpOK(Deleting(k)) /\ Quiet(Deleting(k))
           /\ Deleting(k).at = "select" /\ Deleting(k).key = k
           /\ OpOK(Reading(k)) /\ Quiet(Reading(k))
           /\ Reading(k).at = "lookup" /\ Reading(k).key = k
           /\ \A h \in Hashes : /\ OpOK(Storing(k, h)) /\ Quiet(Storing(k, h))
                                /\ Storing(k, h).at = "existing" /\ Storing(k, h).key = k
                                /\ Storing(k, h).hash = h
<1>1. Fresh(NoOp) /\ Fresh(Deleting(k)) /\ Fresh(Reading(k))
      /\ \A h \in Hashes : Fresh(Storing(k, h))
  BY DEF Fresh, Deleting, Reading, Storing
<1>2. /\ NoOp.at = "idle"
      /\ Deleting(k).at = "select" /\ Deleting(k).key = k
      /\ Reading(k).at = "lookup" /\ Reading(k).key = k
  BY DEF NoOp, Deleting, Reading
<1>3. ASSUME NEW h \in Hashes
      PROVE  Storing(k, h).at = "existing" /\ Storing(k, h).key = k /\ Storing(k, h).hash = h
  BY DEF NoOp, Storing
<1> QED
  BY <1>1, <1>2, <1>3, FreshQuiet

Went(r, at) == [r EXCEPT !.at = at]
ReqAts == {"idle", "look", "check", "reopen", "evict", "fetch", "store", "serve"}

LEMMA WentFields ==
    ASSUME NEW r \in Requests, NEW at \in ReqAts
    PROVE  Went(r, at) \in Requests /\ Went(r, at).at = at /\ Went(r, at).key = r.key
BY DEF Went, Requests, ReqAts

\* A request under way, and what it has asked of the store.
LEMMA RequestAt ==
    ASSUME CacheSafe, NEW c \in Clients
    PROVE  /\ req[c] \in Requests /\ Asks(req[c], op[c]) /\ OpOK(op[c]) /\ c \in Actors
           /\ req[c].at # "idle" => req[c].key \in Keys
           /\ meta \in [Keys -> Rows] /\ wrong \subseteq Keys /\ spent \in 0 .. MaxEvents
BY ActorsAre DEF CacheSafe, TypeOK, StoreSafe, Asks

LEMMA SpendType ==
    ASSUME CacheSafe, NEW e, Spend(e)
    PROVE  spent' \in 0 .. MaxEvents
<1>1. spent \in 0 .. MaxEvents /\ MaxEvents \in Nat
  BY CacheAssumption DEF CacheSafe, TypeOK
<1> QED
  BY <1>1 DEF Spend

LEMMA DropRowType ==
    ASSUME CacheSafe, NEW k \in Keys, DropRow(k)
    PROVE  meta' \in [Keys -> Rows] /\ spent' \in 0 .. MaxEvents
<1>1. meta \in [Keys -> Rows] /\ NoRow \in Rows /\ spent \in 0 .. MaxEvents
  BY DEF CacheSafe, TypeOK, Rows
<1> QED
  BY <1>1, SpendType DEF DropRow

Kept == UNCHANGED <<refs, count, located, blob, raced, evict, sweep, pending, cleared>>

\* The request ends, answered or not.
LEMMA OverTurn ==
    ASSUME CacheSafe, NEW c \in Clients, Over(c), Kept,
           meta' \in [Keys -> Rows], wrong' \subseteq Keys, spent' \in 0 .. MaxEvents
    PROVE  CacheSafe'
<1>1. NoReq \in Requests
  BY DEF NoReq, Requests
<1>2. Asks(NoReq, NoOp)
  BY DEF Asks, NoReq
<1>3. OpOK(NoOp) /\ Quiet(NoOp)
  BY FreshQuiet DEF Fresh
<1>4. Turn(c, NoReq, NoOp)
  BY <1>1, <1>2, <1>3 DEF Turn, Over, NoCall, Kept
<1> QED
  BY <1>4, TurnSafe

LEMMA ErrorTurn ==
    ASSUME CacheSafe, NEW c \in Clients, Error(c), Kept,
           meta' \in [Keys -> Rows], spent' \in 0 .. MaxEvents
    PROVE  CacheSafe'
<1>1. wrong' \subseteq Keys
  BY DEF Error, CacheSafe, TypeOK
<1> QED
  BY <1>1, OverTurn DEF Error

LEMMA ServeTurn ==
    ASSUME CacheSafe, NEW c \in Clients, NEW h, NEW state, Serve(c, h, state), Kept,
           req[c].at # "idle", meta' \in [Keys -> Rows], spent' \in 0 .. MaxEvents
    PROVE  CacheSafe'
<1>1. req[c].key \in Keys /\ wrong \subseteq Keys
  BY RequestAt
<1>2. wrong' \subseteq Keys
  BY <1>1 DEF Serve
<1> QED
  BY <1>2, OverTurn DEF Serve

\* The request goes on with another call, or with what the last one brought.
LEMMA GoesOn ==
    ASSUME CacheSafe, NEW c \in Clients, NEW at \in ReqAts, NEW q,
           OpOK(q), Quiet(q), Asks(Went(req[c], at), q), At(c, at),
           op' = [op EXCEPT ![c] = q], Kept, UNCHANGED <<meta, wrong, spent>>
    PROVE  CacheSafe'
<1>1. req[c] \in Requests /\ meta \in [Keys -> Rows] /\ wrong \subseteq Keys
      /\ spent \in 0 .. MaxEvents /\ req \in [Clients -> Requests]
  BY RequestAt DEF CacheSafe, TypeOK
<1>2. Went(req[c], at) \in Requests
  BY <1>1, WentFields
<1>3. req' = [req EXCEPT ![c] = Went(req[c], at)]
  BY <1>1 DEF At, Went
<1>4. Turn(c, Went(req[c], at), q)
  BY <1>1, <1>2, <1>3 DEF Turn, Kept
<1> QED
  BY <1>4, TurnSafe

LEMMA RequestSafe ==
    ASSUME CacheSafe, NEW c \in Clients, NEW k \in Keys, Request(c, k)
    PROVE  CacheSafe'
<1> DEFINE r == [NoReq EXCEPT !.at = "look", !.key = k]
<1>1. NoReq \in Requests
  BY DEF NoReq, Requests
<1>2. r \in Requests /\ r.at = "look" /\ r.key = k
  BY <1>1 DEF Requests
<1>3. req' = [req EXCEPT ![c] = r] /\ op' = [op EXCEPT ![c] = Reading(k)]
  BY DEF Request, Retrieve, Reading
<1> HIDE DEF r
<1>4. Asks(r, Reading(k)) /\ OpOK(Reading(k)) /\ Quiet(Reading(k))
  BY <1>2, CallFields DEF Asks, ReadAts
<1>5. meta \in [Keys -> Rows] /\ wrong \subseteq Keys /\ spent \in 0 .. MaxEvents
  BY RequestAt
<1>6. Turn(c, r, Reading(k))
  BY <1>2, <1>3, <1>4, <1>5 DEF Turn, Request
<1> QED
  BY <1>6, TurnSafe

LEMMA LookedSafe ==
    ASSUME CacheSafe, NEW c \in Clients, Looked(c)
    PROVE  CacheSafe'
<1>1. req[c].at = "look" /\ Kept /\ UNCHANGED <<meta, spent>> /\ Answered(c)
  BY DEF Looked, Kept
<1>2. /\ req[c] \in Requests /\ Asks(req[c], op[c]) /\ OpOK(op[c]) /\ req[c].key \in Keys
      /\ meta \in [Keys -> Rows] /\ spent \in 0 .. MaxEvents
  BY <1>1, RequestAt
<1>3. CASE Error(c)
  BY <1>1, <1>2, <1>3, ErrorTurn
<1>4. CASE At(c, "fetch") /\ NoCall(c) /\ UNCHANGED wrong
  <2>1. /\ Went(req[c], "fetch").at = "fetch" /\ Went(req[c], "fetch").key = req[c].key
    BY <1>2, WentFields DEF ReqAts
  <2>2. Asks(Went(req[c], "fetch"), NoOp)
    BY <1>2, <2>1 DEF Asks
  <2>3. OpOK(NoOp) /\ Quiet(NoOp)
    BY FreshQuiet DEF Fresh
  <2> QED
    BY <1>1, <1>4, <2>2, <2>3, GoesOn DEF NoCall, ReqAts
<1>5. CASE /\ op[c].at = "got" /\ Opened(c)
           /\ At(c, "check") /\ UNCHANGED <<op, wrong>>
  <2>1. Went(req[c], "check").at = "check" /\ Went(req[c], "check").key = req[c].key
    BY <1>2, WentFields DEF ReqAts
  <2>2. Asks(Went(req[c], "check"), op[c])
    BY <1>1, <1>2, <1>5, <2>1 DEF Asks, Opened
  <2>3. Quiet(op[c]) /\ op' = [op EXCEPT ![c] = op[c]]
    BY <1>5 DEF Quiet, Inside, CacheSafe, StoreSafe, StoreTypeOK
  <2> QED
    BY <1>1, <1>2, <1>5, <2>2, <2>3, GoesOn DEF ReqAts
<1>6. CASE Serve(c, op[c].hash, op[c].state)
  BY <1>1, <1>2, <1>6, ServeTurn
<1>7. CASE op[c].at = "failed"
  BY <1>3, <1>7 DEF Looked
<1>8. CASE op[c].at = "got" /\ (~Opened(c) \/ Expired(req[c].key))
  BY <1>4, <1>8 DEF Looked
<1>9. CASE op[c].at = "got" /\ Opened(c) /\ ~Expired(req[c].key)
  BY <1>5, <1>6, <1>9 DEF Looked
<1> QED
  BY <1>1, <1>7, <1>8, <1>9 DEF Answered

LEMMA CheckSafe ==
    ASSUME CacheSafe, NEW c \in Clients, Check(c)
    PROVE  CacheSafe'
<1> DEFINE k == req[c].key
<1>1. req[c].at = "check" /\ Kept /\ UNCHANGED <<meta, spent>>
  BY DEF Check, Kept
<1>2. /\ req[c] \in Requests /\ Asks(req[c], op[c]) /\ k \in Keys
      /\ meta \in [Keys -> Rows] /\ spent \in 0 .. MaxEvents
  BY <1>1, RequestAt
<1>3. CASE Serve(c, op[c].hash, op[c].state)
  BY <1>1, <1>2, <1>3, ServeTurn
<1>4. CASE At(c, "evict") /\ Delete(c, k) /\ UNCHANGED wrong
  <2>1. Went(req[c], "evict").at = "evict" /\ Went(req[c], "evict").key = k
    BY <1>2, WentFields DEF ReqAts
  <2>2. Asks(Went(req[c], "evict"), Deleting(k))
    BY <1>2, <2>1, CallFields DEF Asks, DeleteAts
  <2>3. op' = [op EXCEPT ![c] = Deleting(k)]
    BY <1>4 DEF Delete, Deleting
  <2> QED
    BY <1>1, <1>2, <1>4, <2>2, <2>3, CallFields, GoesOn DEF ReqAts
<1>5. CASE At(c, "reopen") /\ Retrieve(c, k) /\ UNCHANGED wrong
  <2>1. Went(req[c], "reopen").at = "reopen" /\ Went(req[c], "reopen").key = k
    BY <1>2, WentFields DEF ReqAts
  <2>2. Asks(Went(req[c], "reopen"), Reading(k))
    BY <1>2, <2>1, CallFields DEF Asks, ReadAts
  <2>3. op' = [op EXCEPT ![c] = Reading(k)]
    BY <1>5 DEF Retrieve, Reading
  <2> QED
    BY <1>1, <1>2, <1>5, <2>2, <2>3, CallFields, GoesOn DEF ReqAts
<1> QED
  BY <1>3, <1>4, <1>5 DEF Check

LEMMA ServedSafe ==
    ASSUME CacheSafe, NEW c \in Clients, Served(c)
    PROVE  CacheSafe'
<1>1. /\ req[c].at # "idle" /\ Kept /\ UNCHANGED <<meta, spent>>
      /\ Serve(c, op[c].hash, op[c].state) \/ Error(c)
  BY DEF Served, Kept
<1>2. meta \in [Keys -> Rows] /\ spent \in 0 .. MaxEvents
  BY RequestAt
<1> QED
  BY <1>1, <1>2, ServeTurn, ErrorTurn

LEMMA EvictedSafe ==
    ASSUME CacheSafe, NEW c \in Clients, Evicted(c)
    PROVE  CacheSafe'
<1>1. req[c].at = "evict" /\ Kept /\ DropRow(req[c].key) /\ Error(c)
  BY DEF Evicted, Kept
<1>2. req[c].key \in Keys
  BY <1>1, RequestAt
<1> QED
  BY <1>1, <1>2, DropRowType, ErrorTurn

LEMMA DeliveredType ==
    ASSUME NEW k \in Keys, NEW h \in Delivered(k)
    PROVE  h \in Hashes
<1>1. Contents[k] \subseteq Hashes
  BY CacheAssumption
<1> QED
  BY <1>1, CacheAssumption DEF Delivered

LEMMA FetchSafe ==
    ASSUME CacheSafe, NEW c \in Clients, Fetch(c)
    PROVE  CacheSafe'
<1> DEFINE k == req[c].key
<1>1. req[c].at = "fetch" /\ Kept /\ UNCHANGED <<meta, spent>>
  BY DEF Fetch, Kept
<1>2. /\ req[c] \in Requests /\ k \in Keys
      /\ meta \in [Keys -> Rows] /\ spent \in 0 .. MaxEvents
  BY <1>1, RequestAt
<1>3. CASE Error(c)
  BY <1>1, <1>2, <1>3, ErrorTurn
<1>4. ASSUME NEW h \in Delivered(k), At(c, "store"), Store(c, k, h), UNCHANGED wrong
      PROVE  CacheSafe'
  <2>1. Went(req[c], "store").at = "store" /\ Went(req[c], "store").key = k
    BY <1>2, WentFields DEF ReqAts
  <2>2. h \in Hashes
    BY <1>2, DeliveredType
  <2>3. /\ OpOK(Storing(k, h)) /\ Quiet(Storing(k, h))
        /\ Storing(k, h).at = "existing" /\ Storing(k, h).key = k
    BY <1>2, <2>2, CallFields
  <2>4. Asks(Went(req[c], "store"), Storing(k, h))
    BY <1>2, <2>1, <2>3 DEF Asks, StoreAts
  <2>5. op' = [op EXCEPT ![c] = Storing(k, h)]
    BY <1>4 DEF Store, Storing
  <2> QED
    BY <1>1, <1>2, <1>4, <2>3, <2>4, <2>5, GoesOn DEF ReqAts
<1> QED
  BY <1>3, <1>4 DEF Fetch

LEMMA FetchNoStoreSafe ==
    ASSUME CacheSafe, NEW c \in Clients, FetchNoStore(c)
    PROVE  CacheSafe'
<1>1. /\ req[c].at # "idle" /\ Kept /\ UNCHANGED <<meta, spent>>
      /\ \E h : Serve(c, h, "whole")
  BY DEF FetchNoStore, Kept
<1>2. meta \in [Keys -> Rows] /\ spent \in 0 .. MaxEvents
  BY RequestAt
<1> QED
  BY <1>1, <1>2, ServeTurn

ToServe(r) == [r EXCEPT !.at = "serve", !.slow = FALSE]

LEMMA NotedSafe ==
    ASSUME CacheSafe, NEW c \in Clients, Noted(c)
    PROVE  CacheSafe'
<1> DEFINE k == req[c].key
<1>1. req[c].at = "store" /\ Kept
  BY DEF Noted, Kept
<1>2. /\ req[c] \in Requests /\ Asks(req[c], op[c]) /\ OpOK(op[c]) /\ k \in Keys
      /\ meta \in [Keys -> Rows] /\ spent \in 0 .. MaxEvents /\ wrong \subseteq Keys
      /\ req \in [Clients -> Requests]
  BY <1>1, RequestAt DEF CacheSafe, TypeOK
<1>3. CASE op[c].at = "failed" /\ Error(c) /\ UNCHANGED <<meta, spent>>
  BY <1>1, <1>2, <1>3, ErrorTurn
<1>4. CASE op[c].at = "stored"
  <2> DEFINE r == ToServe(req[c])
  <2>1. op[c].hash \in Hashes
    BY <1>2, <1>4 DEF OpOK, StoreAts
  <2>2. /\ \/ meta' = [meta EXCEPT ![k] = [sum |-> op[c].hash, stale |-> FALSE]]
              /\ UNCHANGED spent
           \/ Spend("fault") /\ UNCHANGED meta
        /\ req' = [req EXCEPT ![c].at = "serve", ![c].slow = FALSE]
        /\ Retrieve(c, k) /\ UNCHANGED wrong
    BY <1>4 DEF Noted
  <2>3. [sum |-> op[c].hash, stale |-> FALSE] \in Rows
    BY <2>1 DEF Rows
  <2>4. meta' \in [Keys -> Rows] /\ spent' \in 0 .. MaxEvents
    <3> DEFINE row == [sum |-> op[c].hash, stale |-> FALSE]
    <3> HIDE DEF row
    <3>1. row \in Rows
      BY <2>3 DEF row
    <3>2. \/ meta' = [meta EXCEPT ![k] = row] /\ UNCHANGED spent
          \/ Spend("fault") /\ UNCHANGED meta
      BY <2>2 DEF row
    <3> QED
      BY <1>2, <3>1, <3>2, SpendType
  <2>5. r \in Requests /\ r.at = "serve" /\ r.key = k
    BY <1>2 DEF ToServe, Requests
  <2>6. req' = [req EXCEPT ![c] = r]
    BY <1>2, <2>2 DEF ToServe, Requests
  <2>7. op' = [op EXCEPT ![c] = Reading(k)]
    BY <2>2 DEF Retrieve, Reading
  <2> HIDE DEF r
  <2>8. Asks(r, Reading(k)) /\ OpOK(Reading(k)) /\ Quiet(Reading(k))
    BY <1>2, <2>5, CallFields DEF Asks, ReadAts
  <2>9. Turn(c, r, Reading(k))
    BY <1>1, <1>2, <2>2, <2>4, <2>5, <2>6, <2>7, <2>8 DEF Turn, Kept
  <2> QED
    BY <2>9, TurnSafe
<1> QED
  BY <1>3, <1>4 DEF Noted

LEMMA RequestFailsSafe ==
    ASSUME CacheSafe, NEW c \in Clients, RequestFails(c)
    PROVE  CacheSafe'
<1>1. Kept /\ UNCHANGED meta /\ Spend("fault") /\ Error(c)
  BY DEF RequestFails, Kept
<1>2. meta \in [Keys -> Rows]
  BY RequestAt
<1> QED
  BY <1>1, <1>2, SpendType, ErrorTurn

-----------------------------------------------------------------------------
(* What the evictor and the sweeper do. *)

LEMMA Tasks ==
    ASSUME CacheSafe
    PROVE  /\ Evictor \in Actors /\ Sweeper \in Actors
           /\ OpOK(op[Evictor]) /\ OpOK(op[Sweeper])
           /\ Drops(evict, op[Evictor]) /\ Drops(sweep, op[Sweeper])
           /\ evict \in [at : {"idle", "run", "drop"}, todo : SUBSET Keys]
           /\ sweep \in [at : {"idle", "run", "drop"}, todo : SUBSET Keys,
                         still : SUBSET Keys]
           /\ pending \subseteq Keys /\ meta \in [Keys -> Rows] /\ spent \in 0 .. MaxEvents
           /\ op \in [Actors -> Ops]
           /\ OpOK(NoOp) /\ Quiet(NoOp)
BY ActorsAre, FreshQuiet DEF CacheSafe, StoreSafe, StoreTypeOK, TypeOK, Fresh

\* The task whose last call has ended stays without one.
LEMMA SameCall ==
    ASSUME CacheSafe, NEW a \in Actors, UNCHANGED op, op[a] = NoOp
    PROVE  op' = [op EXCEPT ![a] = NoOp]
BY Tasks

LEMMA EvictStepSafe ==
    ASSUME CacheSafe, EvictStep
    PROVE  CacheSafe'
<1>1. CASE EvictStart
  <2>1. op[Evictor] = NoOp
    BY <1>1, Tasks DEF EvictStart, Drops
  <2>2. op' = [op EXCEPT ![Evictor] = NoOp]
    BY <1>1, <2>1, Tasks, SameCall DEF EvictStart, storeVars
  <2>3. TaskTurn(Evictor, NoOp) /\ UNCHANGED <<sweep, pending>>
    BY <1>1, <2>2, Tasks DEF EvictStart, TaskTurn, storeVars
  <2>4. evict' \in [at : {"idle", "run", "drop"}, todo : SUBSET Keys] /\ evict'.at = "run"
    BY <1>1 DEF EvictStart
  <2>5. Drops(evict', NoOp)
    BY <2>4 DEF Drops
  <2> QED
    BY <2>3, <2>4, <2>5, EvictorTurn
<1>2. CASE EvictNext
  <2>1. op[Evictor] = NoOp /\ evict.at = "run" /\ evict.todo \subseteq Keys
    BY <1>2, Tasks DEF EvictNext, Drops
  <2>2. CASE evict.todo = {}
    <3>1. evict' = NoRun /\ UNCHANGED op
      BY <1>2, <2>2 DEF EvictNext
    <3>2. TaskTurn(Evictor, NoOp) /\ UNCHANGED <<sweep, pending>>
      BY <1>2, <2>1, <3>1, Tasks, SameCall DEF EvictNext, TaskTurn
    <3>3. evict' \in [at : {"idle", "run", "drop"}, todo : SUBSET Keys] /\ evict'.at = "idle"
      BY <3>1 DEF NoRun
    <3>4. Drops(evict', NoOp)
      BY <3>3 DEF Drops
    <3> QED
      BY <3>2, <3>3, <3>4, EvictorTurn
  <2>3. CASE evict.todo # {}
    <3>1. PICK k \in evict.todo : /\ evict' = [at |-> "drop", todo |-> evict.todo \ {k}]
                                  /\ Delete(Evictor, k)
      BY <1>2, <2>3 DEF EvictNext
    <3>2. /\ OpOK(Deleting(k)) /\ Quiet(Deleting(k)) /\ Deleting(k).at = "select"
      BY <2>1, CallFields
    <3>3. TaskTurn(Evictor, Deleting(k)) /\ UNCHANGED <<sweep, pending>>
      BY <1>2, <3>1, <3>2, Tasks DEF EvictNext, TaskTurn, Delete, Deleting
    <3>4. evict' \in [at : {"idle", "run", "drop"}, todo : SUBSET Keys] /\ evict'.at = "drop"
      BY <2>1, <3>1
    <3>5. Drops(evict', Deleting(k))
      BY <3>2, <3>4 DEF Drops, DeleteAts
    <3> QED
      BY <3>3, <3>4, <3>5, EvictorTurn
  <2> QED
    BY <2>2, <2>3
<1>3. CASE EvictDropped
  <2>1. op[Evictor].key \in Keys
    BY <1>3, Tasks DEF EvictDropped, OpOK
  <2>2. meta' \in [Keys -> Rows] /\ spent' \in 0 .. MaxEvents
    BY <1>3, <2>1, Tasks, DropRowType DEF EvictDropped
  <2>3. TaskTurn(Evictor, NoOp) /\ UNCHANGED <<sweep, pending>>
    BY <1>3, <2>2, Tasks DEF EvictDropped, TaskTurn, NoCall
  <2>4. evict' \in [at : {"idle", "run", "drop"}, todo : SUBSET Keys] /\ evict'.at = "run"
    BY <1>3, Tasks DEF EvictDropped
  <2>5. Drops(evict', NoOp)
    BY <2>4 DEF Drops
  <2> QED
    BY <2>3, <2>4, <2>5, EvictorTurn
<1> QED
  BY <1>1, <1>2, <1>3 DEF EvictStep

SweepType == [at : {"idle", "run", "drop"}, todo : SUBSET Keys, still : SUBSET Keys]

\* The sweeper goes on without a call.
LEMMA SweeperIdles ==
    ASSUME CacheSafe, sweep.at # "drop", sweep' \in SweepType, sweep'.at # "drop",
           UNCHANGED <<storeVars, meta, req, evict, pending, cleared, wrong>>,
           spent' \in 0 .. MaxEvents
    PROVE  CacheSafe'
<1>1. op[Sweeper] = NoOp
  BY Tasks DEF Drops
<1>2. op' = [op EXCEPT ![Sweeper] = NoOp]
  BY <1>1, Tasks, SameCall DEF storeVars
<1>3. TaskTurn(Sweeper, NoOp)
  BY <1>2, Tasks DEF TaskTurn, storeVars
<1>4. Drops(sweep', NoOp)
  BY DEF Drops
<1> QED
  BY <1>3, <1>4, Tasks, SweeperTurn DEF SweepType

LEMMA SweepNextSafe ==
    ASSUME CacheSafe, SweepNext
    PROVE  CacheSafe'
<1>1. sweep \in SweepType /\ sweep.at = "run" /\ spent \in 0 .. MaxEvents
      /\ UNCHANGED <<refs, count, located, blob, raced,
                     meta, req, evict, pending, cleared, wrong, spent>>
  BY Tasks DEF SweepNext, SweepType
<1>2. PICK k \in sweep.todo :
           IF meta[k] # NoRow
           THEN sweep' = [sweep EXCEPT !.todo = @ \ {k}] /\ UNCHANGED op
           ELSE IF k \in pending
           THEN /\ sweep' = [sweep EXCEPT !.at = "drop", !.todo = @ \ {k}]
                /\ Delete(Sweeper, k)
           ELSE /\ sweep' = [sweep EXCEPT !.still = @ \cup {k}, !.todo = @ \ {k}]
                /\ UNCHANGED op
  BY DEF SweepNext
<1>3. k \in Keys
  BY <1>1 DEF SweepType
<1>4. CASE sweep' = [sweep EXCEPT !.todo = @ \ {k}] /\ UNCHANGED op
  <2>1. sweep' \in SweepType /\ sweep'.at = "run"
    BY <1>1, <1>4 DEF SweepType
  <2> QED
    BY <1>1, <1>4, <2>1, SweeperIdles DEF storeVars
<1>5. CASE /\ sweep' = [sweep EXCEPT !.at = "drop", !.todo = @ \ {k}]
           /\ Delete(Sweeper, k)
  <2>1. sweep' \in SweepType /\ sweep'.at = "drop"
    BY <1>1, <1>5 DEF SweepType
  <2>2. OpOK(Deleting(k)) /\ Quiet(Deleting(k)) /\ Deleting(k).at = "select"
    BY <1>3, CallFields
  <2>3. TaskTurn(Sweeper, Deleting(k))
    BY <1>1, <1>5, <2>2, Tasks DEF TaskTurn, Delete, Deleting
  <2>4. Drops(sweep', Deleting(k))
    BY <2>1, <2>2 DEF Drops, DeleteAts
  <2> QED
    BY <1>1, <2>1, <2>3, <2>4, Tasks, SweeperTurn DEF SweepType
<1>6. CASE /\ sweep' = [sweep EXCEPT !.still = @ \cup {k}, !.todo = @ \ {k}]
           /\ UNCHANGED op
  <2>1. sweep' \in SweepType /\ sweep'.at = "run"
    BY <1>1, <1>3, <1>6 DEF SweepType
  <2> QED
    BY <1>1, <1>6, <2>1, SweeperIdles DEF storeVars
<1> QED
  BY <1>2, <1>4, <1>5, <1>6

\* The end of a run marks the requests in their window and keeps everything else
\* of them.
LEMMA SweepEndSafe ==
    ASSUME CacheSafe, SweepEnd
    PROVE  CacheSafe'
<1>1. /\ sweep.at = "run" /\ sweep \in SweepType
      /\ pending' = sweep.still /\ sweep' = NoSweep
      /\ req' = [c \in Clients |-> [req[c] EXCEPT !.slow = InWindow(c)]]
      /\ UNCHANGED <<storeVars, meta, evict, cleared, wrong, spent>>
  BY Tasks DEF SweepEnd, SweepType
<1>2. UNCHANGED <<refs, count, located, blob, op, raced>>
  BY <1>1 DEF storeVars
<1>3. StoreSafe'
  BY <1>1, <1>2 DEF CacheSafe, StoreSafe, StoreTypeOK, Exclusive, OldCounted, Counted,
                    Routed, CommitHasBlob, UnblobUnnamed, ReferenceHasBlob, StillNamed, Lost
<1>4. ASSUME NEW c \in Clients
      PROVE  /\ req'[c] \in Requests
             /\ req'[c].at = req[c].at /\ req'[c].key = req[c].key
  <2> DEFINE w == InWindow(c)
  <2>1. w \in BOOLEAN
    BY DEF InWindow
  <2>2. req'[c] = [req[c] EXCEPT !.slow = w] /\ req[c] \in Requests
    BY <1>1, RequestAt
  <2> HIDE DEF w
  <2> QED
    BY <2>1, <2>2 DEF Requests
<1>5. req' \in [Clients -> Requests]
  BY <1>1, <1>4
<1>6. \A c \in Clients : Asks(req'[c], op'[c])
  BY <1>2, <1>4 DEF CacheSafe, Asks
<1>7. sweep' \in SweepType /\ sweep'.at = "idle" /\ pending' \subseteq Keys
  BY <1>1 DEF NoSweep, SweepType
<1>8. TypeOK'
  BY <1>1, <1>3, <1>5, <1>7 DEF CacheSafe, TypeOK, StoreSafe, SweepType
<1>9. Drops(evict, op[Evictor])' /\ Drops(sweep', op'[Sweeper])
  <2>1. op[Sweeper] = NoOp
    BY <1>1, Tasks DEF Drops
  <2> QED
    BY <1>1, <1>2, <1>7, <2>1, Tasks DEF Drops
<1> QED
  BY <1>3, <1>6, <1>8, <1>9 DEF CacheSafe

LEMMA SweepStepSafe ==
    ASSUME CacheSafe, SweepStep \/ SweepUnsure
    PROVE  CacheSafe'
<1>1. CASE SweepStart
  <2>1. sweep' \in SweepType /\ sweep'.at = "run"
    <3>1. NoSweep \in SweepType /\ Unnoted \subseteq Keys
      BY DEF NoSweep, SweepType, Unnoted
    <3>2. sweep' = [NoSweep EXCEPT !.at = "run", !.todo = Unnoted]
      BY <1>1 DEF SweepStart
    <3> HIDE DEF NoSweep
    <3> QED
      BY <3>1, <3>2 DEF SweepType
  <2> QED
    BY <1>1, <2>1, Tasks, SweeperIdles DEF SweepStart
<1>2. CASE SweepUnsure
  <2>1. sweep' \in SweepType /\ sweep'.at = "run"
    BY <1>2, Tasks DEF SweepUnsure, SweepType
  <2> QED
    BY <1>2, <2>1, SpendType, SweeperIdles DEF SweepUnsure
<1>3. CASE SweepDropped
  <2> DEFINE still == IF op[Sweeper].at = "failed" THEN sweep.still \cup {op[Sweeper].key}
                      ELSE sweep.still
  <2>1. op[Sweeper].key \in Keys
    BY <1>3, Tasks DEF SweepDropped, OpOK
  <2>2. still \in SUBSET Keys
    BY <2>1, Tasks
  <2>3. sweep' = [sweep EXCEPT !.at = "run", !.still = still]
    BY <1>3 DEF SweepDropped
  <2> HIDE DEF still
  <2>4. sweep' \in SweepType /\ sweep'.at = "run"
    BY <2>2, <2>3, Tasks DEF SweepType
  <2>5. TaskTurn(Sweeper, NoOp) /\ UNCHANGED <<evict, pending>>
    BY <1>3, Tasks DEF SweepDropped, TaskTurn, NoCall
  <2>6. Drops(sweep', NoOp)
    BY <2>4 DEF Drops
  <2> QED
    BY <2>4, <2>5, <2>6, Tasks, SweeperTurn DEF SweepType
<1> QED
  BY <1>1, <1>2, <1>3, SweepNextSafe, SweepEndSafe DEF SweepStep

-----------------------------------------------------------------------------
(* The rest. *)

LEMMA AgeSafe ==
    ASSUME CacheSafe, NEW k \in Keys, Age(k)
    PROVE  CacheSafe'
<1>1. meta \in [Keys -> Rows] /\ meta[k] # NoRow /\ pending \subseteq Keys
      /\ meta' = [meta EXCEPT ![k].stale = TRUE]
      /\ UNCHANGED <<storeVars, req, evict, sweep, pending, cleared, wrong>> /\ Spend("age")
  BY Tasks DEF Age
<1>2. meta[k] \in [sum : Hashes, stale : BOOLEAN]
  BY <1>1 DEF Rows
<1>3. [meta[k] EXCEPT !.stale = TRUE] \in Rows
  BY <1>2 DEF Rows
<1>4. meta' \in [Keys -> Rows]
  BY <1>1, <1>3
<1>5. BlobsStay
  BY <1>1, SameBlobsStay DEF CacheSafe, storeVars
<1> QED
  BY <1>1, <1>4, <1>5, SpendType, OutsideSafe DEF storeVars

LEMMA RotSafe ==
    ASSUME CacheSafe, NEW b \in Backends, NEW h \in Hashes, Rot(b, h)
    PROVE  CacheSafe'
<1>1. BlobsStay
  BY DEF Rot, BlobsStay, CacheSafe, StoreSafe, StoreTypeOK, BlobStates
<1> QED
  BY <1>1, SpendType, Tasks, OutsideSafe DEF Rot

LEMMA ClearSafe ==
    ASSUME CacheSafe, Clear
    PROVE  CacheSafe'
<1>1. blob' \in [Backends -> [Hashes -> BlobStates]] /\ cleared' = TRUE
  BY DEF Clear, BlobStates
<1> QED
  BY <1>1, SpendType, Tasks, OutsideSafe DEF Clear

LEMMA CrashSafe ==
    ASSUME CacheSafe, NEW a \in Actors, Crash(a)
    PROVE  CacheSafe'
<1>1. /\ op' = [op EXCEPT ![a] = NoOp] /\ spent' \in 0 .. MaxEvents
      /\ UNCHANGED <<refs, count, located, blob, raced, meta, cleared, wrong>>
  BY SpendType DEF Crash, NoCall
<1>2. CASE a \in Clients
  <2>1. Over(a) /\ Kept /\ meta' \in [Keys -> Rows] /\ wrong' \subseteq Keys
    BY <1>1, <1>2, ActorsAre, Tasks DEF Crash, Over, NoCall, Kept, CacheSafe, TypeOK
  <2> QED
    BY <1>1, <1>2, <2>1, OverTurn
<1>3. CASE a = Evictor
  <2>1. TaskTurn(Evictor, NoOp) /\ UNCHANGED <<sweep, pending>> /\ evict' = NoRun
    BY <1>1, <1>3, ActorsAre, Tasks DEF Crash, TaskTurn
  <2>2. evict' \in [at : {"idle", "run", "drop"}, todo : SUBSET Keys] /\ evict'.at = "idle"
    BY <2>1 DEF NoRun
  <2>3. Drops(evict', NoOp)
    BY <2>2 DEF Drops
  <2> QED
    BY <2>1, <2>2, <2>3, EvictorTurn
<1>4. CASE a = Sweeper
  <2>1. TaskTurn(Sweeper, NoOp) /\ UNCHANGED evict /\ sweep' = NoSweep /\ pending' = {}
    BY <1>1, <1>4, ActorsAre, Tasks DEF Crash, TaskTurn
  <2>2. sweep' \in SweepType /\ sweep'.at = "idle"
    BY <2>1 DEF NoSweep, SweepType
  <2>3. Drops(sweep', NoOp)
    BY <2>2 DEF Drops
  <2> QED
    BY <2>1, <2>2, <2>3, SweeperTurn DEF SweepType
<1> QED
  BY <1>2, <1>3, <1>4, ActorsAre

LEMMA NextSafe ==
    ASSUME CacheSafe, Next
    PROVE  CacheSafe'
<1>1. ASSUME NEW a \in Actors, Calls(a) \/ CallFails(a) \/ Deadlock(a) \/ Crash(a)
      PROVE  CacheSafe'
  <2>1. spent \in 0 .. MaxEvents
    BY Tasks
  <2>2. CASE Calls(a)
    BY <2>1, <2>2, CallsSafe DEF Calls, cacheVars
  <2>3. CASE CallFails(a)
    BY <2>3, SpendType, CallsSafe DEF CallFails
  <2>4. CASE Deadlock(a)
    BY <2>1, <2>4, CallsSafe DEF Deadlock, cacheVars
  <2>5. CASE Crash(a)
    BY <2>5, CrashSafe
  <2> QED
    BY <1>1, <2>2, <2>3, <2>4, <2>5
<1>2. ASSUME NEW c \in Clients,
             ClientStep(c) \/ RequestFails(c) \/ \E k \in Keys : Request(c, k)
      PROVE  CacheSafe'
  BY <1>2, LookedSafe, CheckSafe, ServedSafe, EvictedSafe, FetchSafe, FetchNoStoreSafe,
     NotedSafe, RequestFailsSafe, RequestSafe
     DEF ClientStep
<1> QED
  BY <1>1, <1>2, EvictStepSafe, SweepStepSafe, AgeSafe, RotSafe, ClearSafe DEF Next

LEMMA InitSafe == Init => CacheSafe
<1> SUFFICES ASSUME Init PROVE CacheSafe
  OBVIOUS
<1>1. OpOK(NoOp) /\ Quiet(NoOp) /\ NoOp.at = "idle" /\ NoOp \in Ops
  BY FreshQuiet DEF Fresh, NoOp, OpOK
<1> USE DEF Init, StoreInit
<1>2. \A a \in Actors : op[a] = NoOp
  OBVIOUS
<1>3. StoreTypeOK
  BY <1>1 DEF StoreTypeOK, BlobStates
<1>4. Exclusive /\ OldCounted /\ CommitHasBlob /\ UnblobUnnamed
  BY <1>1, <1>2 DEF Exclusive, Holds, OldCounted, CommitHasBlob, UnblobUnnamed, Inside
<1>5. Counted /\ Routed /\ ReferenceHasBlob
  BY DEF Counted, Routed, ReferenceHasBlob
<1>6. StoreSafe
  BY <1>1, <1>2, <1>3, <1>4, <1>5 DEF StoreSafe
<1>7. NoReq \in Requests /\ NoReq.at = "idle"
  BY DEF NoReq, Requests
<1>8. NoRow \in Rows /\ MaxEvents \in Nat
  BY CacheAssumption DEF Rows
<1>9. evict \in [at : {"idle", "run", "drop"}, todo : SUBSET Keys] /\ evict.at = "idle"
      /\ sweep \in SweepType /\ sweep.at = "idle"
  BY DEF NoRun, NoSweep, SweepType
<1>10. TypeOK
  <2>1. meta \in [Keys -> Rows] /\ req \in [Clients -> Requests]
    BY <1>7, <1>8
  <2>2. spent \in 0 .. MaxEvents
    BY <1>8
  <2>3. pending \subseteq Keys /\ cleared \in BOOLEAN /\ wrong \subseteq Keys
    OBVIOUS
  <2> QED
    BY <1>3, <1>9, <2>1, <2>2, <2>3 DEF TypeOK, SweepType
<1>11. \A c \in Clients : Asks(req[c], op[c])
  BY <1>2, <1>7, ActorsAre DEF Asks
<1>12. Drops(evict, op[Evictor]) /\ Drops(sweep, op[Sweeper])
  BY <1>2, <1>9, ActorsAre DEF Drops
<1> QED
  BY <1>6, <1>10, <1>11, <1>12 DEF CacheSafe

\* The inductive invariant of the store and the cache.
THEOREM CacheAlwaysSafe == Spec => []CacheSafe
<1>1. CacheSafe /\ UNCHANGED vars => CacheSafe'
  <2> SUFFICES ASSUME CacheSafe, UNCHANGED vars PROVE CacheSafe'
    OBVIOUS
  <2>1. BlobsStay /\ UNCHANGED <<refs, count, located, op, raced, req, evict, sweep>>
        /\ cleared' = cleared /\ wrong' = wrong
    BY SameBlobsStay DEF vars, storeVars, cacheVars, CacheSafe
  <2>2. pending' \subseteq Keys /\ meta' \in [Keys -> Rows] /\ spent' \in 0 .. MaxEvents
    BY Tasks DEF vars, cacheVars
  <2> QED
    BY <2>1, <2>2, OutsideSafe
<1>2. CacheSafe /\ [Next]_vars => CacheSafe'
  BY <1>1, NextSafe
<1> QED
  BY <1>2, InitSafe, PTL DEF Spec

\* Type correctness of the tables, the calls and the requests.  That a count is
\* never decremented below zero is what the row locks are for.
THEOREM CacheTypeCorrect == Spec => []TypeOK
<1>1. CacheSafe => TypeOK
  BY DEF CacheSafe
<1> QED
  BY <1>1, CacheAlwaysSafe, PTL

\* artifact_dedup_refs and artifact_dedup_index agree: whatever stores, deletes
\* and deadlocks interleave, a reference has an index row with a positive count,
\* and two transactions never hold the same index row.
THEOREM ReferencesAreCounted == Spec => [](Counted /\ Exclusive)
<1>1. CacheSafe => Counted /\ Exclusive
  BY DEF CacheSafe, StoreSafe
<1> QED
  BY <1>1, CacheAlwaysSafe, PTL

\* For any assignment of registries to backends: the bytes of a reference are on
\* the backend that its registry is assigned to, but for a bucket that was
\* cleared and for the race the router leaves open (commit_new_hash,
\* delete_dedup_entry).
THEOREM ReferencesHaveBytes == Spec => []ReferenceHasBlob
<1>1. CacheSafe => ReferenceHasBlob
  BY DEF CacheSafe, StoreSafe
<1> QED
  BY <1>1, CacheAlwaysSafe, PTL

\* Where every registry is on the default backend, so that a lookup before
\* record_backend goes to the right place, the tables never point at a blob that
\* is not there.
THEOREM TablesResolve ==
    ASSUME \A k \in Keys : Route[k] = Default
    PROVE  Spec => []ReferencesResolve
<1>1. CacheSafe => ReferencesResolve
  <2> SUFFICES ASSUME CacheSafe, ~cleared, NEW k \in Keys, Dangling(k)
               PROVE  refs[k] \in raced
    BY DEF ReferencesResolve
  <2>1. refs[k] # None /\ blob[Resolved(k)][refs[k]] = "absent"
    BY DEF Dangling
  <2>2. Resolved(k) = Route[k]
    BY DEF Resolved, CacheSafe, StoreSafe, Routed
  <2>3. blob[Route[k]][refs[k]] # "absent" \/ Lost(refs[k])
    BY <2>1 DEF CacheSafe, StoreSafe, ReferenceHasBlob
  <2> QED
    BY <2>1, <2>2, <2>3 DEF Lost
<1> QED
  BY <1>1, CacheAlwaysSafe, PTL

-----------------------------------------------------------------------------
(* What is served. *)

Sound == \A b \in Backends : \A h \in Hashes : blob[b][h] # "rotten"

\* One call changes, the tables stay and so does what was served.
LEMMA GenuineCall ==
    ASSUME CacheSafe, AllGenuine, NEW a \in Actors, NEW q, Genuine(q),
           op' = [op EXCEPT ![a] = q], refs' = refs, Sound', wrong' = wrong
    PROVE  AllGenuine'
<1>1. op'[a] = q /\ \A b \in Actors : b # a => op'[b] = op[b]
  BY Tasks
<1>2. \A b \in Actors : Genuine(op'[b])
  BY <1>1 DEF AllGenuine
<1> QED
  BY <1>2 DEF AllGenuine, Sound

LEMMA GenuineSame ==
    ASSUME AllGenuine, UNCHANGED <<refs, op, wrong>>, Sound'
    PROVE  AllGenuine'
BY DEF AllGenuine, Sound

LEMMA SoundSame ==
    ASSUME AllGenuine, UNCHANGED blob
    PROVE  Sound'
BY DEF AllGenuine, Sound

\* A call that has been made, or none, carries nothing but what it stores.
LEMMA FreshGenuine ==
    ASSUME NEW k \in Keys
    PROVE  /\ Genuine(NoOp) /\ Genuine(Deleting(k)) /\ Genuine(Reading(k))
           /\ \A h \in Hashes : h \in Contents[k] => Genuine(Storing(k, h))
BY CallFields DEF Genuine, StoreAts

LEMMA NoOpGenuine == Genuine(NoOp)
BY DEF Genuine, NoOp, StoreAts

\* A call that moves on carries what it carried.
LEMMA MovedGenuine ==
    ASSUME CacheSafe, AllGenuine, NEW a \in Actors, NEW at \in AllAts, Goes(a, at),
           at \in StoreAts => op[a].at \in StoreAts,
           at # "read", at = "got" => op[a].state = "absent"
    PROVE  op' = [op EXCEPT ![a] = Moved(op[a], at)] /\ Genuine(Moved(op[a], at))
<1>1. op[a] \in Ops /\ op \in [Actors -> Ops] /\ Genuine(op[a])
  BY DEF CacheSafe, StoreSafe, StoreTypeOK, AllGenuine
<1>2. /\ Moved(op[a], at).at = at /\ Moved(op[a], at).key = op[a].key
      /\ Moved(op[a], at).hash = op[a].hash /\ Moved(op[a], at).state = op[a].state
  BY <1>1, MovedFields
<1>3. Genuine(Moved(op[a], at))
  BY <1>1, <1>2 DEF Genuine
<1> QED
  BY <1>1, <1>3 DEF Goes, Moved

\* Such a step, with the tables as they are.
LEMMA GoesGenuine ==
    ASSUME CacheSafe, AllGenuine, NEW a \in Actors, NEW at \in AllAts, Goes(a, at),
           at \in StoreAts => op[a].at \in StoreAts,
           at # "read", at = "got" => op[a].state = "absent",
           refs' = refs, Sound', wrong' = wrong
    PROVE  AllGenuine'
BY MovedGenuine, GenuineCall

LEMMA CallKey ==
    ASSUME CacheSafe, NEW a \in Actors
    PROVE  /\ op[a] \in Ops /\ op \in [Actors -> Ops]
           /\ op[a].at # "idle" => op[a].key \in Keys
           /\ op[a].at \in StoreAts \cup {"unref", "unblob", "read"} =>
                  op[a].hash \in Hashes /\ op[a].backend \in Backends
           /\ op[a].at # "got" => op[a].state = "absent"
           /\ refs \in [Keys -> Hashes \cup {None}]
           /\ blob \in [Backends -> [Hashes -> BlobStates]]
BY DEF CacheSafe, StoreSafe, StoreTypeOK, OpOK

\* The hash that a deletion or a retrieval looks up is genuine.
LEMMA NamesGenuine ==
    ASSUME CacheSafe, AllGenuine, NEW a \in Actors, NEW at \in {"unref", "read"},
           op[a].at \in {"select", "lookup"}, refs[op[a].key] # None,
           op' = [op EXCEPT ![a].at = at, ![a].hash = refs[op[a].key],
                            ![a].backend = Resolved(op[a].key)],
           UNCHANGED <<refs, blob, wrong>>
    PROVE  AllGenuine'
<1> DEFINE h == refs[op[a].key]
           b == Resolved(op[a].key)
           q == Named(op[a], at, h, b)
<1>1. op[a] \in Ops /\ op[a].key \in Keys /\ h \in Contents[op[a].key]
  BY CallKey DEF AllGenuine
<1>2. h \in Hashes /\ b \in Backends /\ at \in AllAts
  BY <1>1, CallKey, ResolvedType DEF CacheSafe, AllAts
<1>3. op' = [op EXCEPT ![a] = q]
  BY CallKey DEF Named
<1> HIDE DEF h, b
<1>4. q.at = at /\ q.key = op[a].key /\ q.hash = h
  BY <1>1, <1>2, NamedFields
<1> HIDE DEF q
<1>5. Genuine(q)
  BY <1>1, <1>4 DEF Genuine, StoreAts, h
<1> QED
  BY <1>3, <1>5, SoundSame, GenuineCall

LEMMA StoreGenuine ==
    ASSUME CacheSafe, AllGenuine, NEW a \in Actors, StoreStep(a), wrong' = wrong
    PROVE  AllGenuine'
<1> USE DEF AllAts, StoreAts, Ends
<1>1. CASE Existing(a)
  <2> DEFINE same == refs[op[a].key] = op[a].hash
             at == IF same THEN "again" ELSE "upsert"
             old == IF same THEN None ELSE refs[op[a].key]
             q == Found(op[a], at, old)
  <2>1. op[a].at = "existing" /\ op[a] \in Ops /\ op[a].key \in Keys
    BY <1>1, CallKey DEF Existing
  <2>2. at \in {"again", "upsert"} /\ at \in AllAts /\ old \in Hashes \cup {None}
    BY <2>1, CallKey
  <2>3. op' = [op EXCEPT ![a] = q] /\ UNCHANGED <<refs, blob>>
    BY <1>1, CallKey DEF Existing, Found, Moved
  <2> HIDE DEF at, old
  <2>4. q.at = at /\ q.key = op[a].key /\ q.hash = op[a].hash
    BY <2>1, <2>2, FoundFields
  <2> HIDE DEF q
  <2>5. Genuine(op[a])
    BY DEF AllGenuine
  <2>6. Genuine(q)
    BY <2>1, <2>2, <2>4, <2>5 DEF Genuine
  <2> QED
    BY <2>3, <2>6, SoundSame, GenuineCall
<1>2. CASE Upsert(a) \/ Record(a) \/ Forget(a)
  BY <1>2, SoundSame, GoesGenuine DEF Upsert, Record, Forget
<1>3. CASE Remap(a) \/ CheckBlob(a) \/ Again(a)
  <2>1. UNCHANGED <<refs, blob>> /\ op[a].at \in StoreAts
        /\ \E at \in StoreAts \cup {"failed"} : Goes(a, at)
    BY <1>3 DEF Remap, CheckBlob, Again
  <2> QED
    BY <2>1, SoundSame, GoesGenuine
<1>4. CASE Move(a) \/ Restore(a)
  <2>1. PICK at \in {"commit", "record"} : Materialize(a, at) /\ op[a].at \in StoreAts
    BY <1>4 DEF Move, Restore
  <2>2. op[a].backend \in Backends /\ op[a].hash \in Hashes
    BY <2>1, CallKey
  <2>3. Sound'
    BY <2>1, <2>2, CallKey DEF Materialize, Sound, AllGenuine
  <2> QED
    BY <2>1, <2>3, GoesGenuine DEF Materialize
<1>5. CASE Commit(a)
  <2> DEFINE q == Moved(op[a], "record")
  <2>1. /\ op[a].at = "commit" /\ op[a].key \in Keys
        /\ refs' = [refs EXCEPT ![op[a].key] = op[a].hash]
        /\ Goes(a, "record") /\ UNCHANGED blob
    BY <1>5, CallKey DEF Commit
  <2>2. op[a].hash \in Contents[op[a].key]
    BY <2>1 DEF AllGenuine, Genuine
  <2>3. op' = [op EXCEPT ![a] = q] /\ Genuine(q)
    BY <2>1, MovedGenuine
  <2> HIDE DEF q
  <2>4. \A b \in Actors : Genuine(op'[b])
    BY <2>3, CallKey DEF AllGenuine
  <2>5. \A k \in Keys : refs'[k] \in Contents[k] \cup {None}
    BY <2>1, <2>2, CallKey DEF AllGenuine
  <2> QED
    BY <2>1, <2>4, <2>5 DEF AllGenuine
<1>6. CASE Unref(a)
  <2>1. PICK at \in {"failed", "unblob", "forget"} :
            /\ Goes(a, at) /\ UNCHANGED blob
            /\ refs' = refs \/ refs' = [refs EXCEPT ![op[a].key] = None]
    BY <1>6 DEF Unref
  <2> DEFINE q == Moved(op[a], at)
  <2>2. op' = [op EXCEPT ![a] = q] /\ Genuine(q)
    BY <2>1, MovedGenuine
  <2> HIDE DEF q
  <2>3. \A b \in Actors : Genuine(op'[b])
    BY <2>2, CallKey DEF AllGenuine
  <2>4. \A k \in Keys : refs'[k] \in Contents[k] \cup {None}
    BY <2>1, CallKey DEF AllGenuine
  <2> QED
    BY <2>1, <2>3, <2>4 DEF AllGenuine
<1>7. CASE Unblob(a)
  <2>1. op[a].backend \in Backends /\ op[a].hash \in Hashes
    BY <1>7, CallKey DEF Unblob
  <2>2. Sound'
    BY <1>7, <2>1, CallKey DEF Unblob, Sound, AllGenuine
  <2> QED
    BY <1>7, <2>2, GoesGenuine DEF Unblob
<1>8. CASE Select(a) \/ Lookup(a)
  <2>1. CASE refs[op[a].key] = None
    <3>1. op[a].at \in {"select", "lookup"} /\ op[a].state = "absent"
      BY <1>8, CallKey DEF Select, Lookup
    <3> QED
      BY <1>8, <2>1, <3>1, SoundSame, GoesGenuine DEF Select, Lookup
  <2>2. CASE refs[op[a].key] # None
    BY <1>8, <2>2, NamesGenuine DEF Select, Lookup
  <2> QED
    BY <2>1, <2>2
<1>9. CASE Read(a)
  <2> DEFINE state == blob[op[a].backend][op[a].hash]
             q == Got(op[a], state)
  <2>1. op[a].at = "read" /\ op[a].backend \in Backends /\ op[a].hash \in Hashes
        /\ op[a] \in Ops
    BY <1>9, CallKey DEF Read
  <2>2. state \in BlobStates /\ state # "rotten"
    BY <2>1, CallKey DEF AllGenuine
  <2>3. op' = [op EXCEPT ![a] = q] /\ UNCHANGED <<refs, blob>>
    BY <1>9, CallKey DEF Read, Got
  <2> HIDE DEF state
  <2>4. q.at = "got" /\ q.key = op[a].key /\ q.hash = op[a].hash /\ q.state = state
    BY <2>1, <2>2, GotFields
  <2> HIDE DEF q
  <2>5. op[a].hash \in Contents[op[a].key]
    BY <2>1 DEF AllGenuine, Genuine
  <2>6. Genuine(q)
    BY <2>2, <2>4, <2>5 DEF Genuine, BlobStates
  <2> QED
    BY <2>3, <2>6, SoundSame, GenuineCall
<1> QED
  BY <1>1, <1>2, <1>3, <1>4, <1>5, <1>6, <1>7, <1>8, <1>9 DEF StoreStep

LEMMA FailsGenuine ==
    ASSUME CacheSafe, AllGenuine, NEW a \in Actors, StoreFails(a), wrong' = wrong
    PROVE  AllGenuine'
<1> DEFINE at == AfterFailure(op[a].at)
<1>1. op[a] \in Ops
  BY CallKey
<1>2. /\ Goes(a, at) /\ UNCHANGED <<refs, blob>> /\ at \in AllAts
      /\ at \in StoreAts => op[a].at \in StoreAts
      /\ at # "read" /\ at # "got"
  BY <1>1 DEF StoreFails, AfterFailure, AllAts, StoreAts, Ends
<1> HIDE DEF at
<1> QED
  BY <1>2, SoundSame, GoesGenuine

\* gate_missing_checksum and the mismatch check leave only what upstream has.
LEMMA AcceptedIsGenuine ==
    ASSUME Strict, NEW k \in Keys, NEW advert \in Advertised(k), NEW h,
           ~Refused(advert, h)
    PROVE  h \in Contents[k]
<1>1. advert # None
  BY DEF Strict, Refused
<1>2. advert \in Contents[k]
  BY <1>1 DEF Advertised
<1>3. h = advert
  BY <1>1 DEF Strict, Refused
<1> QED
  BY <1>2, <1>3

LEMMA ErrorGenuine ==
    ASSUME CacheSafe, AllGenuine, NEW c \in Clients, Error(c), UNCHANGED <<refs, blob>>
    PROVE  AllGenuine'
<1>1. op' = [op EXCEPT ![c] = NoOp] /\ wrong' = wrong /\ c \in Actors
  BY ActorsAre DEF Error, Over, NoCall
<1> QED
  BY <1>1, NoOpGenuine, SoundSame, GenuineCall

LEMMA ServeGenuine ==
    ASSUME CacheSafe, AllGenuine, NEW c \in Clients, NEW h, NEW state,
           Serve(c, h, state), h \in Contents[req[c].key], state = "whole",
           UNCHANGED <<refs, blob>>
    PROVE  AllGenuine'
<1>1. op' = [op EXCEPT ![c] = NoOp] /\ wrong' = wrong /\ c \in Actors
  BY ActorsAre DEF Serve, Over, NoCall
<1> QED
  BY <1>1, NoOpGenuine, SoundSame, GenuineCall

\* A request that makes another call, or gives the one it has back.
LEMMA TurnGenuine ==
    ASSUME CacheSafe, AllGenuine, NEW c \in Clients, NEW k \in Keys,
           Delete(c, k) \/ Retrieve(c, k) \/ NoCall(c),
           UNCHANGED <<refs, blob, wrong>>
    PROVE  AllGenuine'
<1>1. c \in Actors /\ Sound'
  BY ActorsAre, SoundSame
<1>2. CASE Delete(c, k)
  <2>1. op' = [op EXCEPT ![c] = Deleting(k)]
    BY <1>2 DEF Delete, Deleting
  <2> QED
    BY <1>1, <2>1, FreshGenuine, GenuineCall
<1>3. CASE Retrieve(c, k)
  <2>1. op' = [op EXCEPT ![c] = Reading(k)]
    BY <1>3 DEF Retrieve, Reading
  <2> QED
    BY <1>1, <2>1, FreshGenuine, GenuineCall
<1>4. CASE NoCall(c)
  BY <1>1, <1>4, NoOpGenuine, GenuineCall DEF NoCall
<1> QED
  BY <1>2, <1>3, <1>4

\* What a request opened is what upstream has for the key it asked for.
LEMMA OpenedGenuine ==
    ASSUME CacheSafe, AllGenuine, NEW c \in Clients, Opened(c),
           req[c].at \in {"look", "check", "reopen", "serve"}
    PROVE  op[c].hash \in Contents[req[c].key] /\ op[c].state = "whole"
<1>1. op[c].key = req[c].key
  BY DEF CacheSafe, Asks
<1>2. Genuine(op[c])
  BY ActorsAre DEF AllGenuine
<1> QED
  BY <1>1, <1>2 DEF Genuine, Opened

LEMMA ClientGenuine ==
    ASSUME CacheSafe, AllGenuine, Strict, NEW c \in Clients,
           ClientStep(c) \/ RequestFails(c) \/ \E k \in Keys : Request(c, k)
    PROVE  AllGenuine'
<1> DEFINE k == req[c].key
<1>1. UNCHANGED <<refs, blob>>
  BY DEF ClientStep, RequestFails, Request, Looked, Check, Served, Evicted, Fetch,
         FetchNoStore, Noted
<1>2. req[c].at # "idle" => k \in Keys
  BY DEF CacheSafe, Asks
<1>3. CASE Looked(c)
  <2>1. req[c].at = "look" /\ Answered(c)
    BY <1>3 DEF Looked
  <2>2. CASE op[c].at = "failed"
    BY <1>1, <1>3, <2>2, ErrorGenuine DEF Looked
  <2>3. CASE op[c].at = "got" /\ (~Opened(c) \/ Expired(k))
    BY <1>1, <1>2, <1>3, <2>1, <2>3, TurnGenuine DEF Looked
  <2>4. CASE op[c].at = "got" /\ Opened(c) /\ ~Expired(k)
    <3>1. \/ At(c, "check") /\ UNCHANGED <<op, wrong>>
          \/ Serve(c, op[c].hash, op[c].state)
      BY <1>3, <2>4 DEF Looked
    <3> QED
      BY <1>1, <2>1, <2>4, <3>1, SoundSame, GenuineSame, OpenedGenuine, ServeGenuine
  <2> QED
    BY <2>1, <2>2, <2>3, <2>4 DEF Answered
<1>4. CASE Check(c)
  <2>1. req[c].at = "check" /\ Opened(c)
    BY <1>4 DEF Check, CacheSafe, Asks, Opened
  <2>2. \/ Serve(c, op[c].hash, op[c].state)
        \/ Delete(c, k) /\ UNCHANGED wrong
        \/ Retrieve(c, k) /\ UNCHANGED wrong
    BY <1>4 DEF Check
  <2> QED
    BY <1>1, <1>2, <2>1, <2>2, OpenedGenuine, ServeGenuine, TurnGenuine
<1>5. CASE Served(c)
  <2>1. req[c].at \in {"reopen", "serve"}
    BY <1>5 DEF Served
  <2>2. CASE Opened(c)
    BY <1>1, <1>5, <2>1, <2>2, OpenedGenuine, ServeGenuine DEF Served
  <2>3. CASE ~Opened(c)
    BY <1>1, <1>5, <2>3, ErrorGenuine DEF Served
  <2> QED
    BY <2>2, <2>3
<1>6. CASE Evicted(c) \/ RequestFails(c)
  BY <1>1, <1>6, ErrorGenuine DEF Evicted, RequestFails
<1>7. CASE Fetch(c)
  <2>1. k \in Keys
    BY <1>2, <1>7 DEF Fetch
  <2>2. PICK advert \in Advertised(k), h \in Delivered(k) :
            IF Refused(advert, h) THEN Error(c)
            ELSE At(c, "store") /\ Store(c, k, h) /\ UNCHANGED wrong
    BY <1>7 DEF Fetch
  <2>3. CASE Refused(advert, h)
    BY <1>1, <2>2, <2>3, ErrorGenuine
  <2>4. CASE ~Refused(advert, h)
    <3>1. h \in Contents[k] /\ h \in Hashes
      BY <2>1, <2>4, AcceptedIsGenuine, DeliveredType
    <3>2. op' = [op EXCEPT ![c] = Storing(k, h)] /\ wrong' = wrong
      BY <2>2, <2>4 DEF Store, Storing
    <3>3. Genuine(Storing(k, h))
      BY <2>1, <3>1, FreshGenuine
    <3> QED
      BY <1>1, <3>2, <3>3, ActorsAre, SoundSame, GenuineCall
  <2> QED
    BY <2>3, <2>4
<1>8. CASE FetchNoStore(c)
  <2>1. k \in Keys
    BY <1>2, <1>8 DEF FetchNoStore
  <2>2. PICK advert \in Advertised(k), h \in Delivered(k) :
            ~Refused(advert, h) /\ Serve(c, h, "whole")
    BY <1>8 DEF FetchNoStore
  <2>3. h \in Contents[k]
    BY <2>1, <2>2, AcceptedIsGenuine
  <2> QED
    BY <1>1, <2>2, <2>3, ServeGenuine
<1>9. CASE Noted(c)
  BY <1>1, <1>2, <1>9, ErrorGenuine, TurnGenuine DEF Noted
<1>10. CASE \E j \in Keys : Request(c, j)
  BY <1>1, <1>10, TurnGenuine DEF Request
<1> QED
  BY <1>3, <1>4, <1>5, <1>6, <1>7, <1>8, <1>9, <1>10 DEF ClientStep

\* The evictor and the sweeper only delete.
LEMMA TaskGenuine ==
    ASSUME CacheSafe, AllGenuine, EvictStep \/ SweepStep \/ SweepUnsure
    PROVE  AllGenuine'
<1>1. UNCHANGED <<refs, blob, wrong>>
  BY DEF EvictStep, EvictStart, EvictNext, EvictDropped, SweepStep, SweepStart, SweepNext,
         SweepDropped, SweepEnd, SweepUnsure, storeVars
<1>2. evict.todo \subseteq Keys /\ sweep.todo \subseteq Keys
  BY Tasks
<1>3. \/ UNCHANGED op
      \/ \E a \in {Evictor, Sweeper} : NoCall(a) \/ \E k \in Keys : Delete(a, k)
  BY <1>2 DEF EvictStep, EvictStart, EvictNext, EvictDropped, SweepStep, SweepStart,
              SweepNext, SweepDropped, SweepEnd, SweepUnsure, storeVars
<1>4. Sound'
  BY <1>1, SoundSame
<1>5. CASE UNCHANGED op
  BY <1>1, <1>4, <1>5, GenuineSame
<1>6. ASSUME NEW a \in {Evictor, Sweeper}, NoCall(a)
      PROVE  AllGenuine'
  BY <1>1, <1>4, <1>6, Tasks, NoOpGenuine, GenuineCall DEF NoCall
<1>7. ASSUME NEW a \in {Evictor, Sweeper}, NEW k \in Keys, Delete(a, k)
      PROVE  AllGenuine'
  <2>1. op' = [op EXCEPT ![a] = Deleting(k)]
    BY <1>7 DEF Delete, Deleting
  <2> QED
    BY <1>1, <1>4, <2>1, Tasks, FreshGenuine, GenuineCall
<1> QED
  BY <1>3, <1>5, <1>6, <1>7

LEMMA NextGenuine ==
    ASSUME CacheSafe, AllGenuine, Strict, "rot" \notin Events, Next
    PROVE  AllGenuine'
<1>1. ASSUME NEW a \in Actors, Calls(a) \/ CallFails(a) \/ Deadlock(a)
      PROVE  AllGenuine'
  BY <1>1, StoreGenuine, FailsGenuine DEF Calls, CallFails, Deadlock, cacheVars
<1>2. ASSUME NEW a \in Actors, Crash(a)
      PROVE  AllGenuine'
  BY <1>2, NoOpGenuine, SoundSame, GenuineCall DEF Crash, NoCall
<1>3. CASE \E k \in Keys : Age(k)
  BY <1>3, SoundSame, GenuineSame DEF Age, storeVars
<1>4. ASSUME NEW b \in Backends, NEW h \in Hashes, Rot(b, h)
      PROVE  FALSE
  BY <1>4 DEF Rot, Spend
<1>5. CASE Clear
  <2>1. Sound'
    BY <1>5 DEF Clear, Sound
  <2> QED
    BY <1>5, <2>1, GenuineSame DEF Clear
<1> QED
  BY <1>1, <1>2, <1>3, <1>4, <1>5, ClientGenuine, TaskGenuine DEF Next

LEMMA InitGenuine == Init => AllGenuine
<1> SUFFICES ASSUME Init PROVE AllGenuine
  OBVIOUS
<1> USE DEF Init, StoreInit
<1>1. \A a \in Actors : Genuine(op[a])
  BY NoOpGenuine
<1>2. Sound
  BY DEF Sound
<1>3. wrong = {} /\ \A k \in Keys : refs[k] = None
  OBVIOUS
<1> QED
  BY <1>1, <1>2, <1>3 DEF AllGenuine, Sound

\* While no stored blob is damaged, and under block_on_mismatch and
\* require_metadata, no interleaving of downloads, stores that share a blob,
\* evictions, sweeps, failures, deadlocks and crashes serves bytes that upstream
\* never had for the key (integrity.rs, cache.rs).
THEOREM NothingWrongIsServed ==
    ASSUME "rot" \notin Events
    PROVE  Spec => []ServedAsAdvertised
<1> DEFINE StrictIsGenuine == Strict => AllGenuine
<1>1. Init => StrictIsGenuine
  BY InitGenuine
<1>2. CacheSafe /\ StrictIsGenuine /\ [Next]_vars => StrictIsGenuine'
  <2> SUFFICES ASSUME CacheSafe, Strict, AllGenuine, [Next]_vars PROVE AllGenuine'
    BY DEF Strict
  <2>1. CASE Next
    BY <2>1, NextGenuine
  <2>2. CASE UNCHANGED vars
    BY <2>2, SoundSame, GenuineSame DEF vars, storeVars, cacheVars
  <2> QED
    BY <2>1, <2>2
<1>3. StrictIsGenuine => ServedAsAdvertised
  BY DEF Strict, AllGenuine, ServedAsAdvertised
<1> HIDE DEF StrictIsGenuine
<1> QED
  BY <1>1, <1>2, <1>3, CacheAlwaysSafe, PTL DEF Spec

=============================================================================
