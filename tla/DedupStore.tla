------------------------------ MODULE DedupStore ------------------------------
(***************************************************************************)
(* The storage router (adapters/src/storage/router): logical keys that     *)
(* share one content-addressed blob per backend, over the Postgres tables  *)
(* artifact_dedup_refs (refs), artifact_dedup_index (count; 0 stands for   *)
(* no row) and artifact_storage (located).                                 *)
(*                                                                         *)
(* Every statement that can meet a row lock, every call of a backend and   *)
(* every commit is a step.  A transaction's writes appear at its commit:   *)
(* the rows it has touched are locked until then, and a lock is a guard    *)
(* over what the other operations have reached.  Postgres resolves a       *)
(* deadlock by aborting a transaction, which is StoreFails.  The           *)
(* foreign key of artifact_dedup_refs refuses to drop an index row that a  *)
(* reference still names.  A staged upload has a name of its own (a uuid)  *)
(* and is invisible until it is moved, so it is no state here; neither are *)
(* artifacts stored before deduplication existed (the legacy path).        *)
(***************************************************************************)
EXTENDS Naturals, FiniteSets

CONSTANTS
    Actors,     \* tasks that call the store, at most one call each at a time
    Keys,       \* logical keys
    Hashes,     \* contents, named by their SHA-256
    Backends,   \* leaf backends
    Default,    \* the default backend
    Route,      \* [Keys -> Backends], the registries' assignments
    None

ASSUME StoreAssumption ==
    /\ Route \in [Keys -> Backends]
    /\ Default \in Backends
    /\ None \notin Keys \cup Hashes \cup Backends

VARIABLES
    refs,       \* [Keys -> Hashes \cup {None}], artifact_dedup_refs
    count,      \* [Hashes -> Nat], ref_count of artifact_dedup_index
    located,    \* [Keys -> Backends \cup {None}], artifact_storage
    blob,       \* [Backends -> [Hashes -> state of blob/<hash>]]
    op,         \* what each actor's call of the store has reached
    raced       \* history: contents stored while a deletion of the same
                \* content was between its commit and the blob's removal

storeVars == <<refs, count, located, blob, op, raced>>

BlobStates == {"absent", "whole", "rotten"}

Ends == {"stored", "deleted", "got", "failed"}

Ops == [at : {"idle", "existing", "upsert", "remap", "blob", "move", "commit",
              "again", "restore", "record", "select", "unref", "unblob",
              "forget", "lookup", "read"} \cup Ends,
        key : Keys \cup {None}, hash : Hashes \cup {None},
        old : Hashes \cup {None}, backend : Backends \cup {None},
        state : BlobStates]

NoOp == [at |-> "idle", key |-> None, hash |-> None, old |-> None,
         backend |-> None, state |-> "absent"]

StoreTypeOK ==
    /\ refs \in [Keys -> Hashes \cup {None}]
    /\ count \in [Hashes -> Nat]
    /\ located \in [Keys -> Backends \cup {None}]
    /\ blob \in [Backends -> [Hashes -> BlobStates]]
    /\ op \in [Actors -> Ops]
    /\ raced \subseteq Hashes

StoreInit ==
    /\ refs = [k \in Keys |-> None]
    /\ count = [h \in Hashes |-> 0]
    /\ located = [k \in Keys |-> None]
    /\ blob = [b \in Backends |-> [h \in Hashes |-> "absent"]]
    /\ op = [a \in Actors |-> NoOp]
    /\ raced = {}

-----------------------------------------------------------------------------
(* Row locks.                                                              *)

\* SELECT ... FOR UPDATE locks the reference it found; the remapping of the
\* key locks it in any case, also as a row that is not there yet.
LocksRef(a, k) ==
    /\ op[a].key = k
    /\ \/ op[a].at \in {"blob", "move", "commit"}
       \/ op[a].at \in {"upsert", "remap"} /\ op[a].old # None

LocksIndex(a, h) ==
    \/ op[a].hash = h /\ op[a].at \in {"remap", "blob", "move", "commit"}
    \/ op[a].old = h /\ op[a].at \in {"blob", "move", "commit"}

RefFree(a, k) == \A b \in Actors \ {a} : ~LocksRef(b, k)
IndexFree(a, h) == \A b \in Actors \ {a} : ~LocksIndex(b, h)

\* Deleting the index row of h for key k breaks the foreign key.
StillNamed(h, k) == \E l \in Keys \ {k} : refs[l] = h

\* The backend a lookup of k is sent to: the recorded one, or the default.
Resolved(k) == IF located[k] = None THEN Default ELSE located[k]

Goes(a, at) == op' = [op EXCEPT ![a].at = at]

-----------------------------------------------------------------------------
(* store, store_streaming and promote: finalize_dedup for staged bytes.    *)

Store(a, k, h) ==
    op' = [op EXCEPT ![a] = [NoOp EXCEPT !.at = "existing", !.key = k,
                                         !.hash = h, !.backend = Route[k]]]

\* The same bytes again roll the transaction back; other bytes keep the lock.
Existing(a) ==
    LET o == op[a] IN
    /\ o.at = "existing"
    /\ refs[o.key] # None => RefFree(a, o.key)
    /\ op' = [op EXCEPT ![a].at = IF refs[o.key] = o.hash THEN "again" ELSE "upsert",
                        ![a].old = IF refs[o.key] = o.hash THEN None ELSE refs[o.key]]
    /\ UNCHANGED <<refs, count, located, blob, raced>>

\* The index row is inserted, or its count incremented once no other
\* transaction holds it.
Upsert(a) ==
    LET o == op[a] IN
    /\ o.at = "upsert"
    /\ IndexFree(a, o.hash)
    /\ Goes(a, "remap")
    /\ UNCHANGED <<refs, count, located, blob, raced>>

\* The key is mapped to the new hash and the old one loses a reference; its
\* row goes with the last one, if no other key names it.
Remap(a) ==
    LET o == op[a] IN
    /\ o.at = "remap"
    /\ RefFree(a, o.key)
    /\ o.old # None => IndexFree(a, o.old)
    /\ Goes(a, IF o.old # None /\ \/ count[o.old] = 0
                                  \/ count[o.old] = 1 /\ StillNamed(o.old, o.key)
               THEN "failed" ELSE "blob")
    /\ UNCHANGED <<refs, count, located, blob, raced>>

\* A later reference trusts the blob only if the backend has it.
CheckBlob(a) ==
    LET o == op[a] IN
    /\ o.at = "blob"
    /\ Goes(a, IF count[o.hash] > 0 /\ blob[o.backend][o.hash] # "absent"
               THEN "commit" ELSE "move")
    /\ UNCHANGED <<refs, count, located, blob, raced>>

\* materialize: the staged bytes are renamed to blob/<hash>.
Materialize(a, next) ==
    /\ blob' = [blob EXCEPT ![op[a].backend][op[a].hash] = "whole"]
    /\ Goes(a, next)
    /\ UNCHANGED <<refs, count, located, raced>>

Move(a) == op[a].at = "move" /\ Materialize(a, "commit")

Commit(a) ==
    LET o == op[a] IN
    /\ o.at = "commit"
    /\ refs' = [refs EXCEPT ![o.key] = o.hash]
    /\ count' = [h \in Hashes |-> CASE h = o.hash -> count[h] + 1
                                    [] h = o.old -> count[h] - 1
                                    [] OTHER -> count[h]]
    /\ raced' = IF \E b \in Actors : op[b].at = "unblob" /\ op[b].hash = o.hash
                THEN raced \cup {o.hash} ELSE raced
    /\ Goes(a, "record")
    /\ UNCHANGED <<located, blob>>

\* Mutant: the same bytes are taken to be there.
AgainTrusted(a) ==
    /\ op[a].at = "again"
    /\ Goes(a, "record")
    /\ UNCHANGED <<refs, count, located, blob, raced>>

\* reuse_identical_blob, outside any transaction.
Again(a) ==
    LET o == op[a] IN
    /\ o.at = "again"
    /\ Goes(a, IF blob[o.backend][o.hash] # "absent" THEN "record" ELSE "restore")
    /\ UNCHANGED <<refs, count, located, blob, raced>>

Restore(a) == op[a].at = "restore" /\ Materialize(a, "record")

\* record_backend.
Record(a) ==
    LET o == op[a] IN
    /\ o.at = "record"
    /\ located' = [located EXCEPT ![o.key] = o.backend]
    /\ Goes(a, "stored")
    /\ UNCHANGED <<refs, count, blob, raced>>

-----------------------------------------------------------------------------
(* delete.                                                                 *)

Delete(a, k) ==
    op' = [op EXCEPT ![a] = [NoOp EXCEPT !.at = "select", !.key = k]]

\* The hash is read before the transaction that drops the reference.
Select(a) ==
    LET o == op[a] IN
    /\ o.at = "select"
    /\ IF refs[o.key] = None
       THEN Goes(a, "forget")
       ELSE op' = [op EXCEPT ![a].at = "unref", ![a].hash = refs[o.key],
                             ![a].backend = Resolved(o.key)]
    /\ UNCHANGED <<refs, count, located, blob, raced>>

\* Mutant: the count is decremented without looking at it.
UnrefUncounted(a) ==
    LET o == op[a] IN
    /\ o.at = "unref"
    /\ RefFree(a, o.key) /\ IndexFree(a, o.hash)
    /\ refs' = [refs EXCEPT ![o.key] = None]
    /\ count' = [count EXCEPT ![o.hash] = @ - 1]
    /\ Goes(a, IF count[o.hash] = 1 THEN "unblob" ELSE "forget")
    /\ UNCHANGED <<located, blob, raced>>

\* Mutant: no foreign key.
UnrefCascades(a) ==
    LET o == op[a] IN
    /\ o.at = "unref"
    /\ RefFree(a, o.key) /\ IndexFree(a, o.hash)
    /\ IF count[o.hash] = 0
       THEN Goes(a, "failed") /\ UNCHANGED <<refs, count>>
       ELSE /\ refs' = [refs EXCEPT ![o.key] = None]
            /\ count' = [count EXCEPT ![o.hash] = @ - 1]
            /\ Goes(a, IF count[o.hash] = 1 THEN "unblob" ELSE "forget")
    /\ UNCHANGED <<located, blob, raced>>

\* delete_dedup_entry's transaction: whatever the key maps to now is dropped,
\* and the hash that was read loses a reference.
Unref(a) ==
    LET o == op[a] IN
    /\ o.at = "unref"
    /\ RefFree(a, o.key) /\ IndexFree(a, o.hash)
    /\ IF count[o.hash] = 0 \/ (count[o.hash] = 1 /\ StillNamed(o.hash, o.key))
       THEN Goes(a, "failed") /\ UNCHANGED <<refs, count>>
       ELSE /\ refs' = [refs EXCEPT ![o.key] = None]
            /\ count' = [count EXCEPT ![o.hash] = @ - 1]
            /\ Goes(a, IF count[o.hash] = 1 THEN "unblob" ELSE "forget")
    /\ UNCHANGED <<located, blob, raced>>

\* The blob goes after the commit.
Unblob(a) ==
    LET o == op[a] IN
    /\ o.at = "unblob"
    /\ blob' = [blob EXCEPT ![o.backend][o.hash] = "absent"]
    /\ raced' = IF \E b \in Actors : op[b].at = "commit" /\ op[b].hash = o.hash
                THEN raced \cup {o.hash} ELSE raced
    /\ Goes(a, "forget")
    /\ UNCHANGED <<refs, count, located>>

Forget(a) ==
    LET o == op[a] IN
    /\ o.at = "forget"
    /\ located' = [located EXCEPT ![o.key] = None]
    /\ Goes(a, "deleted")
    /\ UNCHANGED <<refs, count, blob, raced>>

-----------------------------------------------------------------------------
(* retrieve: the key is resolved in the tables, then the blob is opened.   *)

Retrieve(a, k) ==
    op' = [op EXCEPT ![a] = [NoOp EXCEPT !.at = "lookup", !.key = k]]

Lookup(a) ==
    LET o == op[a] IN
    /\ o.at = "lookup"
    /\ IF refs[o.key] = None
       THEN Goes(a, "got")
       ELSE op' = [op EXCEPT ![a].at = "read", ![a].hash = refs[o.key],
                             ![a].backend = Resolved(o.key)]
    /\ UNCHANGED <<refs, count, located, blob, raced>>

\* A blob that is missing is no artifact; what was opened is read to its end
\* whatever happens to the key.
Read(a) ==
    LET o == op[a] IN
    /\ o.at = "read"
    /\ op' = [op EXCEPT ![a].at = "got", ![a].state = blob[o.backend][o.hash]]
    /\ UNCHANGED <<refs, count, located, blob, raced>>

-----------------------------------------------------------------------------

\* What a failing statement, commit or backend call leads to.  A transaction
\* is rolled back and what was staged is discarded; an exists() that fails
\* counts as a no; the removal of a blob and the writes of artifact_storage are
\* best effort.
AfterFailure(at) ==
    CASE at = "blob" -> "move"
      [] at = "again" -> "restore"
      [] at = "record" -> "stored"
      [] at = "unblob" -> "forget"
      [] at = "forget" -> "deleted"
      [] OTHER -> "failed"

StoreFails(a) ==
    /\ op[a].at \notin {"idle"} \cup Ends
    /\ Goes(a, AfterFailure(op[a].at))
    /\ UNCHANGED <<refs, count, located, blob, raced>>

\* The transaction of a waits for a row that b's has locked.
WaitsFor(a, b) ==
    LET o == op[a] IN
    /\ a # b
    /\ \/ o.at = "upsert" /\ LocksIndex(b, o.hash)
       \/ /\ o.at = "remap"
          /\ LocksRef(b, o.key) \/ (o.old # None /\ LocksIndex(b, o.old))

StoreStep(a) ==
    \/ Existing(a) \/ Upsert(a) \/ Remap(a) \/ CheckBlob(a) \/ Move(a) \/ Commit(a)
    \/ Again(a) \/ Restore(a) \/ Record(a)
    \/ Select(a) \/ Unref(a) \/ Unblob(a) \/ Forget(a)
    \/ Lookup(a) \/ Read(a)

\* A reference whose blob is not where a lookup of its key goes.
Dangling(k) == refs[k] # None /\ blob[Resolved(k)][refs[k]] = "absent"

===============================================================================
