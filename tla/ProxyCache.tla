------------------------------ MODULE ProxyCache ------------------------------
(***************************************************************************)
(* The artifact cache of a proxied registry over the deduplicating store:  *)
(* downloads that are answered from the cache or fetched, verified, stored *)
(* and noted in artifact_cache_meta (core/src/services/proxy), eviction's  *)
(* drop_artifact and the coherence sweep (core/src/services/eviction).     *)
(*                                                                         *)
(* The state of a request, of the evictor and of the sweeper is what the   *)
(* handler holds between two awaits.  Verdicts and rules have been passed  *)
(* before a request starts here; the introspection of fetched bytes        *)
(* (SBOM, README) and the touch of last_accessed_at are left out.          *)
(* Eviction is the TTL strategy's: the other strategies select other rows  *)
(* and drop them the same way.                                             *)
(***************************************************************************)
EXTENDS DedupStore

CONSTANTS
    Clients, Evictor, Sweeper,
    Contents,   \* [Keys -> the contents upstream may have under each, one after
                \* the other: a moved tag, a rebuilt archive]
    Corrupt,    \* a body that upstream never advertised
    Integrity,  \* [enabled, block_on_mismatch, require_metadata,
                \*  verify_on_serve : BOOLEAN]
    Ttl,        \* whether the registry has an artifact_ttl
    Coherence,  \* whether the periodic coherence sweep is on
    Events,     \* which of the bounded events happen
    MaxEvents   \* bound on them, together

ASSUME CacheAssumption ==
    /\ Actors = Clients \cup {Evictor, Sweeper}
    /\ Evictor # Sweeper /\ Evictor \notin Clients /\ Sweeper \notin Clients
    /\ Contents \in [Keys -> (SUBSET (Hashes \ {Corrupt})) \ {{}}]
    /\ Integrity \in [enabled : BOOLEAN, block_on_mismatch : BOOLEAN,
                      require_metadata : BOOLEAN, verify_on_serve : BOOLEAN]
    /\ Ttl \in BOOLEAN /\ Coherence \in BOOLEAN /\ MaxEvents \in Nat
    /\ Events \subseteq {"age", "rot", "clear", "fault", "crash",
                         "corrupt", "bare", "no-store"}
    /\ "corrupt" \in Events => Corrupt \in Hashes

VARIABLES
    meta,       \* [Keys -> row or NoRow], artifact_cache_meta
    req,        \* what each client's request has reached
    evict,      \* the eviction run: keys left of its list, and the one in hand
    sweep,      \* the coherence run
    pending,    \* coherence_pending: orphans of the previous run
    cleared,    \* history: the blobs were lost behind the database's back
    wrong,      \* history: keys served with damaged bytes, or with bytes that
                \* upstream never had for them
    spent       \* events so far

cacheVars == <<meta, req, evict, sweep, pending, cleared, wrong, spent>>
vars == <<storeVars, cacheVars>>

NoRow == [sum |-> None, stale |-> FALSE]
Rows == [sum : Hashes, stale : BOOLEAN] \cup {NoRow}

NoReq == [at |-> "idle", key |-> None, slow |-> FALSE]
Requests ==
    [at : {"idle", "look", "check", "reopen", "evict", "fetch", "store", "serve"},
     key : Keys \cup {None}, slow : BOOLEAN]

NoRun == [at |-> "idle", todo |-> {}]
NoSweep == [at |-> "idle", todo |-> {}, still |-> {}]

TypeOK ==
    /\ StoreTypeOK
    /\ meta \in [Keys -> Rows]
    /\ req \in [Clients -> Requests]
    /\ evict \in [at : {"idle", "run", "drop"}, todo : SUBSET Keys]
    /\ sweep \in [at : {"idle", "run", "drop"}, todo : SUBSET Keys,
                  still : SUBSET Keys]
    /\ pending \subseteq Keys
    /\ cleared \in BOOLEAN
    /\ wrong \subseteq Keys
    /\ spent \in 0..MaxEvents

Init ==
    /\ StoreInit
    /\ meta = [k \in Keys |-> NoRow]
    /\ req = [c \in Clients |-> NoReq]
    /\ evict = NoRun /\ sweep = NoSweep /\ pending = {}
    /\ cleared = FALSE /\ wrong = {} /\ spent = 0

Spend(e) == e \in Events /\ spent < MaxEvents /\ spent' = spent + 1

-----------------------------------------------------------------------------
(* Requests.  What a retrieve opened stays in op until the request is done  *)
(* with it.                                                                 *)

At(c, at) == req' = [req EXCEPT ![c].at = at]
NoCall(a) == op' = [op EXCEPT ![a] = NoOp]

Over(c) == req' = [req EXCEPT ![c] = NoReq] /\ NoCall(c)
Error(c) == Over(c) /\ UNCHANGED wrong
Serve(c, h, state) ==
    /\ Over(c)
    /\ wrong' = IF h \in Contents[req[c].key] /\ state = "whole"
                THEN wrong ELSE wrong \cup {req[c].key}

\* A retrieve that returned, and one that opened something.
Answered(c) == op[c].at \in {"got", "failed"}
Opened(c) == op[c].at = "got" /\ op[c].state # "absent"

\* The metadata is resolved before the cache is asked; what it advertises
\* matters at the fetch.
Request(c, k) ==
    /\ req[c].at = "idle"
    /\ req' = [req EXCEPT ![c] = [NoReq EXCEPT !.at = "look", !.key = k]]
    /\ Retrieve(c, k)
    /\ UNCHANGED <<refs, count, located, blob, raced,
                   meta, evict, sweep, pending, cleared, wrong, spent>>

\* An artifact without a row counts as expired.
Expired(k) == Ttl /\ (meta[k] = NoRow \/ meta[k].stale)

\* fresh_cached_artifact, and serve_cache_hit up to the re-verification.
Looked(c) ==
    /\ req[c].at = "look" /\ Answered(c)
    /\ CASE op[c].at = "failed" -> Error(c)
         [] op[c].at = "got" /\ (~Opened(c) \/ Expired(req[c].key)) ->
                At(c, "fetch") /\ NoCall(c) /\ UNCHANGED wrong
         [] OTHER ->
                IF Integrity.enabled /\ Integrity.verify_on_serve
                THEN At(c, "check") /\ UNCHANGED <<op, wrong>>
                ELSE Serve(c, op[c].hash, op[c].state)
    /\ UNCHANGED <<refs, count, located, blob, raced,
                   meta, evict, sweep, pending, cleared, spent>>

\* Mutant: a mismatch is an error and no more.
CheckOnly(c) ==
    LET k == req[c].key IN
    /\ req[c].at = "check"
    /\ CASE meta[k] = NoRow -> Serve(c, op[c].hash, op[c].state)
         [] meta[k] # NoRow /\ (meta[k].sum # op[c].hash \/ op[c].state = "rotten") ->
                Error(c)
         [] OTHER -> Serve(c, op[c].hash, op[c].state)
    /\ UNCHANGED <<refs, count, located, blob, raced,
                   meta, evict, sweep, pending, cleared, spent>>

\* reverify_on_serve: no row, no check; a mismatch evicts; a match serves the
\* bytes that were hashed, or opens a large artifact again.
Check(c) ==
    LET k == req[c].key IN
    /\ req[c].at = "check"
    /\ CASE meta[k] = NoRow -> Serve(c, op[c].hash, op[c].state)
         [] meta[k] # NoRow /\ (meta[k].sum # op[c].hash \/ op[c].state = "rotten") ->
                At(c, "evict") /\ Delete(c, k) /\ UNCHANGED wrong
         [] OTHER -> \/ Serve(c, op[c].hash, op[c].state)
                     \/ At(c, "reopen") /\ Retrieve(c, k) /\ UNCHANGED wrong
    /\ UNCHANGED <<refs, count, located, blob, raced,
                   meta, evict, sweep, pending, cleared, spent>>

\* The second retrieve, of a large artifact or of one that was just fetched.
Served(c) ==
    /\ req[c].at \in {"reopen", "serve"} /\ Answered(c)
    /\ IF Opened(c) THEN Serve(c, op[c].hash, op[c].state) ELSE Error(c)
    /\ UNCHANGED <<refs, count, located, blob, raced,
                   meta, evict, sweep, pending, cleared, spent>>

\* delete_artifact_meta, whose failure is only logged.
DropRow(k) ==
    \/ meta' = [meta EXCEPT ![k] = NoRow] /\ UNCHANGED spent
    \/ Spend("fault") /\ UNCHANGED meta

\* evict_reverify_mismatch: the bytes, then the row; both best effort.
Evicted(c) ==
    /\ req[c].at = "evict" /\ op[c].at \in {"deleted", "failed"}
    /\ DropRow(req[c].key)
    /\ Error(c)
    /\ UNCHANGED <<refs, count, located, blob, raced,
                   evict, sweep, pending, cleared>>

-----------------------------------------------------------------------------
(* fetch_and_cache.                                                        *)

\* The checksum that the metadata advertised, if any, and the bytes that came:
\* upstream may have changed in between.
Advertised(k) == Contents[k] \cup (IF "bare" \in Events THEN {None} ELSE {})
Delivered(k) == Contents[k] \cup (IF "corrupt" \in Events THEN {Corrupt} ELSE {})

\* Mutant: bytes without a checksum pass.
RefusedOnMismatch(advert, h) ==
    Integrity.enabled /\ Integrity.block_on_mismatch /\ advert # None /\ h # advert

\* gate_missing_checksum, and a mismatch under block_on_mismatch: the staged
\* bytes are dropped before anybody can see them.
Refused(advert, h) ==
    /\ Integrity.enabled
    /\ IF advert = None THEN Integrity.require_metadata
       ELSE Integrity.block_on_mismatch /\ h # advert

\* Bytes that cannot be refused are stored as they come; the others are
\* promoted once verified.  Either way they become visible with the store's
\* transaction.
Fetch(c) ==
    LET k == req[c].key IN
    /\ req[c].at = "fetch"
    /\ \E advert \in Advertised(k), h \in Delivered(k) :
           IF Refused(advert, h) THEN Error(c)
           ELSE At(c, "store") /\ Store(c, k, h) /\ UNCHANGED wrong
    /\ UNCHANGED <<refs, count, located, blob, raced,
                   meta, evict, sweep, pending, cleared, spent>>

\* Cache-Control: no-store; the bytes are verified and served from memory.
FetchNoStore(c) ==
    LET k == req[c].key IN
    /\ req[c].at = "fetch" /\ "no-store" \in Events
    /\ \E advert \in Advertised(k), h \in Delivered(k) :
           ~Refused(advert, h) /\ Serve(c, h, "whole")
    /\ UNCHANGED <<refs, count, located, blob, raced,
                   meta, evict, sweep, pending, cleared, spent>>

\* The store's answer, and record_artifact, whose failure is only logged; then
\* the key is opened.
Noted(c) ==
    LET k == req[c].key IN
    /\ req[c].at = "store"
    /\ \/ op[c].at = "failed" /\ Error(c) /\ UNCHANGED <<meta, spent>>
       \/ /\ op[c].at = "stored"
          /\ \/ /\ meta' = [meta EXCEPT ![k] = [sum |-> op[c].hash, stale |-> FALSE]]
                /\ UNCHANGED spent
             \/ Spend("fault") /\ UNCHANGED meta
          /\ req' = [req EXCEPT ![c].at = "serve", ![c].slow = FALSE]
          /\ Retrieve(c, k)
          /\ UNCHANGED wrong
    /\ UNCHANGED <<refs, count, located, blob, raced,
                   evict, sweep, pending, cleared>>

\* The upstream call, the TTL query or the checksum lookup fails: the request
\* fails and the cache stays as it is.
RequestFails(c) ==
    /\ req[c].at \in {"fetch", "check"} \/ (req[c].at = "look" /\ Opened(c) /\ Ttl)
    /\ Spend("fault")
    /\ Error(c)
    /\ UNCHANGED <<refs, count, located, blob, raced,
                   meta, evict, sweep, pending, cleared>>

-----------------------------------------------------------------------------
(* run_ttl and drop_artifact.                                              *)

EvictStart ==
    /\ evict.at = "idle"
    /\ \E k \in Keys : meta[k].stale
    /\ evict' = [at |-> "run", todo |-> {k \in Keys : meta[k].stale}]
    /\ UNCHANGED <<storeVars, meta, req, sweep, pending, cleared, wrong, spent>>

EvictNext ==
    /\ evict.at = "run"
    /\ IF evict.todo = {} THEN evict' = NoRun /\ UNCHANGED op
       ELSE \E k \in evict.todo :
                /\ evict' = [at |-> "drop", todo |-> evict.todo \ {k}]
                /\ Delete(Evictor, k)
    /\ UNCHANGED <<refs, count, located, blob, raced,
                   meta, req, sweep, pending, cleared, wrong, spent>>

\* A failed delete leaves the row.
EvictDropped ==
    /\ evict.at = "drop"
    /\ \/ op[Evictor].at = "deleted" /\ DropRow(op[Evictor].key)
       \/ op[Evictor].at = "failed" /\ UNCHANGED <<meta, spent>>
    /\ evict' = [evict EXCEPT !.at = "run"]
    /\ NoCall(Evictor)
    /\ UNCHANGED <<refs, count, located, blob, raced,
                   req, sweep, pending, cleared, wrong>>

-----------------------------------------------------------------------------
(* run_coherence_check.                                                    *)

\* Between the store's commit and record_artifact.
InWindow(c) == req[c].at = "store"

\* The keys in storage that have no row.
Unnoted == {k \in Keys : (refs[k] # None \/ located[k] # None) /\ meta[k] = NoRow}

\* The two lists are read one after the other; a key that changes in between is
\* decided by the point lookup below.  A run that finds and carries nothing
\* changes nothing and is left out.  Runs are far enough apart for a request that
\* was in its window at the end of one to have left it before the next: the
\* comment's own premise.
SweepStart ==
    /\ Coherence /\ sweep.at = "idle"
    /\ Unnoted \cup pending # {}
    /\ \A c \in Clients : ~req[c].slow
    /\ sweep' = [NoSweep EXCEPT !.at = "run", !.todo = Unnoted]
    /\ UNCHANGED <<storeVars, meta, req, evict, pending, cleared, wrong, spent>>

\* A key that still has no row is an orphan: deleted if it was one in the
\* previous run, carried forward if not.
SweepNext ==
    /\ sweep.at = "run"
    /\ \E k \in sweep.todo :
           IF meta[k] # NoRow
           THEN sweep' = [sweep EXCEPT !.todo = @ \ {k}] /\ UNCHANGED op
           ELSE IF k \in pending
           THEN /\ sweep' = [sweep EXCEPT !.at = "drop", !.todo = @ \ {k}]
                /\ Delete(Sweeper, k)
           ELSE /\ sweep' = [sweep EXCEPT !.still = @ \cup {k}, !.todo = @ \ {k}]
                /\ UNCHANGED op
    /\ UNCHANGED <<refs, count, located, blob, raced,
                   meta, req, evict, pending, cleared, wrong, spent>>

\* The point lookup fails: the key is left alone and not carried forward.
SweepUnsure ==
    /\ sweep.at = "run"
    /\ Spend("fault")
    /\ \E k \in sweep.todo : sweep' = [sweep EXCEPT !.todo = @ \ {k}]
    /\ UNCHANGED <<storeVars, meta, req, evict, pending, cleared, wrong>>

SweepDropped ==
    /\ sweep.at = "drop" /\ op[Sweeper].at \in {"deleted", "failed"}
    /\ sweep' = [sweep EXCEPT !.at = "run",
                     !.still = IF op[Sweeper].at = "failed" THEN @ \cup {op[Sweeper].key}
                               ELSE @]
    /\ NoCall(Sweeper)
    /\ UNCHANGED <<refs, count, located, blob, raced,
                   meta, req, evict, pending, cleared, wrong, spent>>

\* Mutant: the run starts the next one from nothing.
SweepEndForgets ==
    /\ sweep.at = "run" /\ sweep.todo = {}
    /\ pending' = {}
    /\ sweep' = NoSweep
    /\ req' = [c \in Clients |-> [req[c] EXCEPT !.slow = InWindow(c)]]
    /\ UNCHANGED <<storeVars, meta, evict, cleared, wrong, spent>>

SweepEnd ==
    /\ sweep.at = "run" /\ sweep.todo = {}
    /\ pending' = sweep.still
    /\ sweep' = NoSweep
    /\ req' = [c \in Clients |-> [req[c] EXCEPT !.slow = InWindow(c)]]
    /\ UNCHANGED <<storeVars, meta, evict, cleared, wrong, spent>>

-----------------------------------------------------------------------------
(* What else happens.                                                      *)

\* A row outlives the TTL.
Age(k) ==
    /\ Spend("age")
    /\ meta[k] # NoRow /\ ~meta[k].stale
    /\ meta' = [meta EXCEPT ![k].stale = TRUE]
    /\ UNCHANGED <<storeVars, req, evict, sweep, pending, cleared, wrong>>

\* A stored blob is damaged.
Rot(b, h) ==
    /\ Spend("rot")
    /\ blob[b][h] = "whole"
    /\ blob' = [blob EXCEPT ![b][h] = "rotten"]
    /\ UNCHANGED <<refs, count, located, op, raced,
                   meta, req, evict, sweep, pending, cleared, wrong>>

\* An operator recreates the bucket and keeps the database.
Clear ==
    /\ Spend("clear")
    /\ blob' = [b \in Backends |-> [h \in Hashes |-> "absent"]]
    /\ cleared' = TRUE
    /\ UNCHANGED <<refs, count, located, op, raced,
                   meta, req, evict, sweep, pending, wrong>>

CallFails(a) == Spend("fault") /\ StoreFails(a)
                /\ UNCHANGED <<meta, req, evict, sweep, pending, cleared, wrong>>

\* Two transactions wait for each other and Postgres aborts one.
Deadlock(a) ==
    /\ \E b \in Actors : WaitsFor(a, b) /\ WaitsFor(b, a)
    /\ StoreFails(a)
    /\ UNCHANGED cacheVars

\* A client goes away, or the process of a task dies, with its transaction;
\* the sweeper's takes the pending set with it.
Crash(a) ==
    /\ Spend("crash")
    /\ \/ a \in Clients /\ req[a] # NoReq
       \/ a = Evictor /\ evict # NoRun
       \/ a = Sweeper /\ (sweep # NoSweep \/ pending # {})
    /\ req' = IF a \in Clients THEN [req EXCEPT ![a] = NoReq] ELSE req
    /\ evict' = IF a = Evictor THEN NoRun ELSE evict
    /\ sweep' = IF a = Sweeper THEN NoSweep ELSE sweep
    /\ pending' = IF a = Sweeper THEN {} ELSE pending
    /\ NoCall(a)
    /\ UNCHANGED <<refs, count, located, blob, raced, meta, cleared, wrong>>

Calls(a) == StoreStep(a) /\ UNCHANGED cacheVars

ClientStep(c) ==
    \/ Looked(c) \/ Check(c) \/ Served(c) \/ Evicted(c)
    \/ Fetch(c) \/ FetchNoStore(c) \/ Noted(c)
EvictStep == EvictStart \/ EvictNext \/ EvictDropped
SweepStep == SweepStart \/ SweepNext \/ SweepDropped \/ SweepEnd

Next ==
    \/ \E a \in Actors : Calls(a) \/ CallFails(a) \/ Deadlock(a) \/ Crash(a)
    \/ \E c \in Clients : ClientStep(c) \/ RequestFails(c) \/ \E k \in Keys : Request(c, k)
    \/ EvictStep \/ SweepStep \/ SweepUnsure
    \/ \E k \in Keys : Age(k)
    \/ \E b \in Backends, h \in Hashes : Rot(b, h)
    \/ Clear

Spec == Init /\ [][Next]_vars

\* Tasks run and the periodic sweep ticks; Postgres queues lock waiters.  Nobody
\* has to ask for anything.
FairSpec ==
    /\ Spec
    /\ \A a \in Actors : SF_vars(Calls(a))
    /\ \A c \in Clients : WF_vars(ClientStep(c))
    /\ WF_vars(EvictNext \/ EvictDropped)
    /\ WF_vars(SweepStep)

-----------------------------------------------------------------------------
(* Properties.                                                             *)

\* Under block_on_mismatch and require_metadata no interleaving of downloads,
\* evictions, sweeps and shared blobs serves bytes that upstream did not have
\* for that very key (cache.rs: bytes stay staged until their digest verifies),
\* as long as no stored blob is damaged.
ServedAsAdvertised ==
    Integrity.enabled /\ Integrity.block_on_mismatch /\ Integrity.require_metadata =>
        wrong = {}

\* The tables never point at a blob that is not there, but for the one race
\* the router leaves open, a store of the same bytes between the commit of a
\* deletion and the removal of the blob, and for a bucket that was cleared:
\* miscounted references never cost a referenced blob, the foreign key stops
\* the deletion first (router/mod.rs commit_new_hash, delete_dedup_entry).
ReferencesResolve ==
    cleared \/ \A k \in Keys : Dangling(k) => refs[k] \in raced

\* A key that clients keep asking for.
Asked(k) == \E c \in Clients : req[c].key = k /\ req[c].at = "look"

\* A reference without its blob is repaired by later downloads of that key,
\* whoever else shares the bytes (reuse_identical_blob, and the exists() of
\* commit_new_hash).
DanglingHeals ==
    \A k \in Keys : []<>Asked(k) => (Dangling(k) ~> ~Dangling(k))

\* An artifact without its row, left by a crash or a failed record_artifact,
\* is noted or collected in the end, also when nobody asks for it again
\* (run_coherence_check).
OrphansGo ==
    \A k \in Keys : (refs[k] # None /\ meta[k] = NoRow)
                        ~> (meta[k] # NoRow \/ refs[k] = None)

\* A damaged blob that k alone refers to, and is counted to.
RottenAlone(k) ==
    /\ refs[k] # None /\ ~StillNamed(refs[k], k) /\ count[refs[k]] = 1
    /\ blob[Resolved(k)][refs[k]] = "rotten"

\* With verify_on_serve a damaged blob is dropped and fetched again once the key
\* is asked for, if no other key shares it (evict_reverify_mismatch; a shared one
\* is found by every store of the same bytes and stays).
RotHeals == \A k \in Keys : []<>Asked(k) => (RottenAlone(k) ~> ~RottenAlone(k))

===============================================================================
