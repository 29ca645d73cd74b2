---------------------------- MODULE UpstreamAudit ----------------------------
(***************************************************************************)
(* The upstream audit (core/src/services/upstream_audit): sweeps of one    *)
(* proxied registry that ask its upstream about every cached package, the  *)
(* confirmation of a disappearance, the blocks a confirmation writes and a *)
(* reappearance lifts, and the administrator's recheck, which runs the     *)
(* same code on one package beside the sweep.  on_confirmed is "block".    *)
(*                                                                         *)
(* A probe, a statement on upstream_status, a read and a write of a        *)
(* package's status are steps of their own.  The metadata pin, the rescan  *)
(* jobs and the notifications that follow a transition are left out: they  *)
(* change nothing that is read here.                                       *)
(***************************************************************************)
EXTENDS Integers, Sequences, FiniteSets

CONSTANTS
    Packages,           \* packages cached from the registry
    Versions,           \* [Packages -> number of cached versions]
    Offers,             \* [Packages -> what upstream may have of each]
    Listing,            \* whether the registry kind lists versions (rung 1)
    Cap,                \* MAX_VERSION_PROBES_PER_PACKAGE
    MinProbed,          \* MIN_PROBED_FOR_RATIO
    RatioNum, RatioDen, \* outage_ratio
    ConfirmAfter,       \* confirm_after
    ConfirmMinAge,      \* confirm_min_age, in sweep intervals
    Sweeper,            \* the process that sweeps
    Rechecks,           \* recheck requests
    MaxChanges,         \* bound on the changes of upstream
    MaxEvents,          \* bound on downloads, rechecks, administrator's
                        \* decisions, crashes and failures, together
    Events              \* which of these happen

ASSUME PackagesAssumption ==
    /\ Versions \in [Packages -> Nat \ {0}]
    /\ \A p \in Packages : Offers[p] \subseteq SUBSET (1..Versions[p])
    /\ Sweeper \notin Rechecks
ASSUME PolicyAssumption ==
    /\ Listing \in BOOLEAN
    /\ {Cap, RatioDen, ConfirmAfter} \subseteq Nat \ {0}
    /\ {MinProbed, RatioNum, ConfirmMinAge} \subseteq Nat
    /\ {MaxChanges, MaxEvents} \subseteq Nat
    /\ Events \subseteq {"fetch", "recheck", "admin", "fault"}

VARIABLES
    due,        \* the sweep's interval has passed
    up,         \* [Packages -> versions upstream has]; {} when it denies the package
    outage,     \* upstream denies everything it is asked about
    recent,     \* packages cached from upstream since the last sweep started
    row,        \* upstream_status: the rows of packages and of versions
    block,      \* who blocks each cached version
    work,       \* what the sweep and each recheck are doing
    denied,     \* history: packages upstream really denied, in whole or part
    thin,       \* history: packages missed by a sweep below the floor
    spent       \* how often each bounded event happened

vars == <<due, up, outage, recent, row, block, work, denied, thin, spent>>

Workers == {Sweeper} \cup Rechecks

Held(p) == 1..Versions[p]

\* A row is keyed by a package and a version, 0 for the package itself.
Keys == UNION {{p} \X (0..Versions[p]) : p \in Packages}

Coordinates == UNION {{p} \X Held(p) : p \in Packages}

NoRow == [state |-> "none", misses |-> 0, age |-> 0]

Idle == [pc |-> "idle", scope |-> {}, ask |-> {}, out |-> {},
         ops |-> {}, trans |-> <<>>, acts |-> {}]

Spend(what, limit) ==
    /\ spent[what] < limit
    /\ spent' = [spent EXCEPT ![what] = @ + 1]

Event(what) == what \in Events /\ Spend("event", MaxEvents)

-----------------------------------------------------------------------------
\* The world: the clock, the upstream, downloads and the administrator

\* One interval passes: every row is that much older, and a sweep is due.
\* Applying the outcomes of a sweep takes less than an interval.  Ages and
\* counts stop at their floors: they are compared with nothing else.
Tick ==
    /\ ~due \/ \E k \in Keys : row[k].state = "missing" /\ row[k].age < ConfirmMinAge
    /\ \A w \in Workers : work[w].pc # "apply"
    /\ due' = TRUE
    /\ row' = [k \in Keys |-> IF row[k].state = "none" \/ row[k].age = ConfirmMinAge
                             THEN row[k] ELSE [row[k] EXCEPT !.age = @ + 1]]
    /\ UNCHANGED <<up, outage, recent, block, work, denied, thin, spent>>

\* Upstream withdraws or restores versions.
Change(p, versions) ==
    /\ Spend("change", MaxChanges)
    /\ versions # up[p]
    /\ up' = [up EXCEPT ![p] = versions]
    /\ denied' = IF versions = Held(p) THEN denied ELSE denied \cup {p}
    /\ UNCHANGED <<due, outage, recent, row, block, work, thin>>

\* An outage begins or ends between the probes of no sweep.
Outage ==
    /\ Spend("change", MaxChanges)
    /\ \A w \in Workers : work[w].pc # "probe"
    /\ outage' = ~outage
    /\ UNCHANGED <<due, up, recent, row, block, work, denied, thin>>

\* A client downloads an artifact that upstream still has.
Fetch(p) ==
    /\ Event("fetch")
    /\ ~outage /\ up[p] # {}
    /\ recent' = recent \cup {p}
    /\ UNCHANGED <<due, up, outage, row, block, work, denied, thin>>

AdminBlock(c) ==
    /\ Event("admin")
    /\ block' = [block EXCEPT ![c] = "admin"]
    /\ UNCHANGED <<due, up, outage, recent, row, work, denied, thin>>

AdminUnblock(c) ==
    /\ Event("admin")
    /\ block[c] # "none"
    /\ block' = [block EXCEPT ![c] = "none"]
    /\ UNCHANGED <<due, up, outage, recent, row, work, denied, thin>>

-----------------------------------------------------------------------------
\* Probing (probe.rs)

Oldest(vs) == {v \in vs : Cardinality({u \in vs : u < v}) < Cap}

\* The versions one probe asks about: all of them through a listing, the
\* oldest Cap of them one by one.
Asked(vs) == IF Listing THEN vs ELSE Oldest(vs)

\* What upstream answers about the held versions vs of p.
Answer(p, vs) ==
    LET has == IF outage THEN {} ELSE up[p]
    IN  IF Listing /\ has = {}
        THEN [pkg |-> p, held |-> vs, kind |-> "package", missing |-> {}]
        ELSE [pkg |-> p, held |-> vs, kind |-> "versions",
              missing |-> Asked(vs) \ has]

Inconclusive(p, vs) ==
    [pkg |-> p, held |-> vs, kind |-> "inconclusive", missing |-> {}]

SetWork(w, r) ==
    /\ work' = [work EXCEPT ![w] = r]
    /\ UNCHANGED <<up, outage, denied>>

\* A sweep leaves out what real traffic saw since the last one started.
SweepStart ==
    /\ work[Sweeper].pc = "idle"
    /\ due
    /\ due' = FALSE
    /\ SetWork(Sweeper,
            [Idle EXCEPT !.pc = "probe", !.ask = Packages \ recent,
                         !.scope = Coordinates])
    /\ recent' = {}
    /\ UNCHANGED <<row, block, thin, spent>>

\* A recheck asks about one package, or about one cached version of it.
RecheckStart(w, p, vs) ==
    /\ work[w].pc = "idle"
    /\ Event("recheck")
    /\ SetWork(w, [Idle EXCEPT !.pc = "probe", !.ask = {p}, !.scope = {p} \X vs])
    /\ UNCHANGED <<due, recent, row, block, thin>>

ScopeOf(r, p) == {v \in Held(p) : <<p, v>> \in r.scope}

Probe(w, p) ==
    /\ work[w].pc = "probe"
    /\ p \in work[w].ask
    /\ \E o \in {Answer(p, ScopeOf(work[w], p)),
                 Inconclusive(p, ScopeOf(work[w], p))} :
        /\ IF o.kind = "inconclusive" THEN Event("fault")
           ELSE UNCHANGED spent
        /\ SetWork(w, [work[w] EXCEPT !.ask = @ \ {p}, !.out = @ \cup {o}])
    /\ UNCHANGED <<due, recent, row, block, thin>>

-----------------------------------------------------------------------------
\* The state machine (confirm.rs)

IsMissing(o) == o.kind = "package" \/ o.missing # {}

Conclusive(out) == {o \in out : o.kind # "inconclusive"}

\* Mutant: the ratio only counts above the floor, not at it.
VoidAboveFloor(out) ==
    LET n == Cardinality(Conclusive(out))
        m == Cardinality({o \in Conclusive(out) : IsMissing(o)})
    IN  n > MinProbed /\ m * RatioDen > n * RatioNum

\* The population gate: most of the registry missing is an outage.
Void(out) ==
    LET n == Cardinality(Conclusive(out))
        m == Cardinality({o \in Conclusive(out) : IsMissing(o)})
    IN  n >= MinProbed /\ m * RatioDen > n * RatioNum

Op(do, p, v, covered) == [do |-> do, key |-> <<p, v>>, covered |-> covered]

\* The statements one outcome leads to (present, missing_versions, miss).
Ops(o) ==
    LET per(v) == Op(IF v \in o.missing THEN "miss" ELSE "clear", o.pkg, v, {v})
        scope == IF o.missing # {} THEN o.held ELSE Oldest(o.held)
    IN  IF o.kind = "package"
        THEN {Op("miss", o.pkg, 0, o.held)}
        ELSE {Op("clear", o.pkg, 0, o.held)} \cup {per(v) : v \in scope}

\* The package's statement first, then those of its versions, oldest first.
Turn(r) == {op \in r.ops : \A o \in r.ops : op.key[2] <= o.key[2]}

\* All probes are in: the sweep is void, or its outcomes are applied.
Gate(w) ==
    LET r == work[w]
    IN  /\ r.pc = "probe"
        /\ r.ask = {}
        /\ SetWork(w, IF Void(r.out) THEN Idle
                      ELSE [r EXCEPT !.pc = "apply", !.out = Conclusive(r.out)])
        /\ thin' = IF Void(r.out) \/ Cardinality(Conclusive(r.out)) >= MinProbed
                   THEN thin
                   ELSE thin \cup {o.pkg : o \in {x \in r.out : IsMissing(x)}}
        /\ UNCHANGED <<due, recent, row, block, spent>>

ApplyOutcome(w) ==
    LET r == work[w]
    IN  /\ r.pc = "apply"
        /\ r.ops = {}
        /\ \E o \in r.out :
            SetWork(w, [r EXCEPT !.ops = Ops(o), !.out = @ \ {o}])
        /\ UNCHANGED <<due, recent, row, block, thin, spent>>

\* A transition: what happened, to which package, covering which versions.
Transition(do, key, covered) == [do |-> do, pkg |-> key[1], vs |-> covered]

Pop(r, op) == [r EXCEPT !.ops = @ \ {op}]

\* A clear deletes the row; only a disappearance that ends lifts blocks.
Clear(w) ==
    LET r == work[w] IN
    \E op \in Turn(r) :
        /\ op.do = "clear"
        /\ row' = [row EXCEPT ![op.key] = NoRow]
        /\ SetWork(w, IF row[op.key].state # "disappeared" THEN Pop(r, op)
                      ELSE [Pop(r, op) EXCEPT !.trans = Append(@,
                                Transition("unblock", op.key, op.covered))])
        /\ UNCHANGED <<due, recent, block, thin, spent>>

\* The row a miss leaves.
Missed(key) ==
    IF row[key].state = "none"
    THEN [state |-> "missing", misses |-> 1, age |-> 0]
    ELSE [row[key] EXCEPT !.misses = IF @ < ConfirmAfter THEN @ + 1 ELSE @]

FloorsMet(r) == r.misses >= ConfirmAfter /\ r.age >= ConfirmMinAge

Miss(w) ==
    LET r == work[w] IN
    \E op \in Turn(r) :
        /\ op.do = "miss"
        /\ row' = [row EXCEPT ![op.key] = Missed(op.key)]
        /\ SetWork(w, IF row[op.key].state # "disappeared" /\ FloorsMet(Missed(op.key))
                      THEN [Pop(r, op) EXCEPT !.ops = @ \cup {[op EXCEPT !.do = "confirm"]}]
                      ELSE Pop(r, op))
        /\ UNCHANGED <<due, recent, block, thin, spent>>

\* The confirmation is an update of whatever row is there by now.
Confirm(w) ==
    LET r == work[w] IN
    \E op \in Turn(r) :
        /\ op.do = "confirm"
        /\ IF row[op.key].state = "none"
           THEN SetWork(w, Pop(r, op)) /\ UNCHANGED row
           ELSE /\ row' = [row EXCEPT ![op.key].state = "disappeared"]
                /\ SetWork(w, [Pop(r, op) EXCEPT !.trans = Append(@,
                                Transition("block", op.key, op.covered))])
        /\ UNCHANGED <<due, recent, block, thin, spent>>

\* A statement that fails is logged and passed over.
StatementFails(w) ==
    /\ Event("fault")
    /\ \E op \in Turn(work[w]) : SetWork(w, Pop(work[w], op))
    /\ UNCHANGED <<due, recent, row, block, thin>>

-----------------------------------------------------------------------------
\* What a transition does to the blocks, then the reconciliation (mod.rs)

Act(do, p, vs) == {[do |-> do, at |-> <<p, v>>] : v \in vs}

Applied(r) == r.pc = "apply" /\ r.ops = {} /\ r.out = {} /\ r.acts = {}

ActOn(w) ==
    LET r == work[w]
        t == Head(r.trans)
    IN  /\ Applied(r)
        /\ r.trans # <<>>
        /\ SetWork(w, [r EXCEPT !.trans = Tail(@), !.acts = Act(t.do, t.pkg, t.vs)])
        /\ UNCHANGED <<due, recent, row, block, thin, spent>>

\* Mutant: a row covers the version it is keyed by, a package row too.
CoveredByKey(r, key) == {key[2]}

\* Every disappeared row is read, with the held versions it covers.
Covered(r, key) == IF key[2] = 0 THEN ScopeOf(r, key[1]) ELSE {key[2]}

Gone(r) ==
    UNION {{key[1]} \X Covered(r, key) :
           key \in {k \in Keys : row[k].state = "disappeared"}}

Checks(C) == {[do |-> "reconcile", at |-> c] : c \in C}

\* Mutant: a sweep ends with its own transitions.
ReconcileNothing(w) ==
    LET r == work[w]
    IN  /\ Applied(r)
        /\ r.trans = <<>>
        /\ SetWork(w, [r EXCEPT !.pc = "reconcile"])
        /\ UNCHANGED <<due, recent, row, block, thin, spent>>

Reconcile(w) ==
    LET r == work[w]
    IN  /\ Applied(r)
        /\ r.trans = <<>>
        /\ SetWork(w, [r EXCEPT !.pc = "reconcile", !.acts = Checks(Gone(r))])
        /\ UNCHANGED <<due, recent, row, block, thin, spent>>

\* What has been read is written before the next is read; oldest first.
Reads(a) == a.do \in {"unblock", "reconcile"}
Before(a, b) == IF Reads(a) <=> Reads(b) THEN a.at[2] <= b.at[2] ELSE Reads(b)
ActTurn(r) == {a \in r.acts : \A b \in r.acts : Before(a, b)}

\* A confirmation blocks without looking.  A reappearance lifts a block it has
\* read to be its own, the reconciliation blocks what it has read to be free.
ActStep(w) ==
    LET r == work[w] IN
    \E a \in ActTurn(r) :
        LET rest == [r EXCEPT !.acts = @ \ {a}]
            then(do) == [rest EXCEPT !.acts = @ \cup {[a EXCEPT !.do = do]}]
        IN  /\ \/ /\ a.do = "block"
                  /\ block' = [block EXCEPT ![a.at] = "system"]
                  /\ SetWork(w, rest)
               \/ /\ a.do = "lift"
                  /\ block' = [block EXCEPT ![a.at] = "none"]
                  /\ SetWork(w, rest)
               \/ /\ a.do = "unblock"
                  /\ SetWork(w, IF block[a.at] = "system" THEN then("lift") ELSE rest)
                  /\ UNCHANGED block
               \/ /\ a.do = "reconcile"
                  /\ SetWork(w, IF block[a.at] = "none" THEN then("block") ELSE rest)
                  /\ UNCHANGED block
            /\ UNCHANGED <<due, recent, row, thin, spent>>

ActFails(w) ==
    /\ Event("fault")
    /\ \E a \in ActTurn(work[w]) :
           SetWork(w, [work[w] EXCEPT !.acts = @ \ {a}])
    /\ UNCHANGED <<due, recent, row, block, thin>>

Finish(w) ==
    /\ work[w].pc = "reconcile"
    /\ work[w].acts = {}
    /\ SetWork(w, Idle)
    /\ UNCHANGED <<due, recent, row, block, thin, spent>>

\* The process dies in the middle of a sweep; the next sweep starts afresh.
Crash(w) ==
    /\ work[w].pc # "idle"
    /\ Event("fault")
    /\ SetWork(w, Idle)
    /\ UNCHANGED <<due, recent, row, block, thin>>

-----------------------------------------------------------------------------
Init ==
    /\ due = FALSE
    /\ up = [p \in Packages |-> Held(p)]
    /\ outage = FALSE
    /\ recent = {}
    /\ row = [k \in Keys |-> NoRow]
    /\ block = [c \in Coordinates |-> "none"]
    /\ work = [w \in Workers |-> Idle]
    /\ denied = {}
    /\ thin = {}
    /\ spent = [change |-> 0, event |-> 0]

Goes(w) ==
    \/ \E p \in Packages : Probe(w, p)
    \/ Gate(w) \/ ApplyOutcome(w) \/ Clear(w) \/ Miss(w) \/ Confirm(w)
    \/ ActOn(w) \/ Reconcile(w) \/ ActStep(w) \/ Finish(w)

Next ==
    \/ Tick
    \/ \E p \in Packages : \E versions \in Offers[p] : Change(p, versions)
    \/ Outage
    \/ \E p \in Packages : Fetch(p)
    \/ \E c \in Coordinates : AdminBlock(c) \/ AdminUnblock(c)
    \/ SweepStart
    \/ \E w \in Rechecks, p \in Packages :
            \E vs \in {Held(p)} \cup {{v} : v \in Held(p)} : RecheckStart(w, p, vs)
    \/ \E w \in Workers :
            Goes(w) \/ StatementFails(w) \/ ActFails(w) \/ Crash(w)

Spec == Init /\ [][Next]_vars

\* Sweeps come for ever, a sweep that has begun goes on, and time passes.
FairSpec ==
    /\ Spec
    /\ WF_vars(Tick)
    /\ WF_vars(SweepStart)
    /\ \A w \in Workers : WF_vars(Goes(w))

-----------------------------------------------------------------------------
\* Properties

Statements ==
    UNION {[do : {"clear", "miss", "confirm"}, key : {p} \X (0..Versions[p]),
            covered : SUBSET Held(p)] : p \in Packages}

Acts == [do : {"block", "lift", "unblock", "reconcile"}, at : Coordinates]

\* The rows, the blocks and the local state of every sweep have their types.
TypeOK ==
    /\ due \in BOOLEAN /\ outage \in BOOLEAN
    /\ up \in [Packages -> SUBSET Nat]
    /\ recent \subseteq Packages /\ denied \subseteq Packages /\ thin \subseteq Packages
    /\ row \in [Keys -> [state : {"none", "missing", "disappeared"},
                         misses : 0..ConfirmAfter, age : 0..ConfirmMinAge]]
    /\ block \in [Coordinates -> {"none", "system", "admin"}]
    /\ \A w \in Workers :
        /\ work[w].pc \in {"idle", "probe", "apply", "reconcile"}
        /\ work[w].scope \subseteq Coordinates
        /\ work[w].ask \subseteq Packages
        /\ work[w].ops \subseteq Statements
        /\ work[w].acts \subseteq Acts

\* "No single upstream failure mode can confirm a disappearance"
\* (confirm.rs:4-8): a package that upstream never withdrew is confirmed only
\* if it was missed by a sweep that asked about fewer packages than the
\* population floor, which is a recheck, or a sweep that skipped the others
\* as recently seen.
OutageConfirmsNothing ==
    \A k \in Keys : row[k].state = "disappeared" => k[1] \in denied \cup thin

\* A package that upstream denies for good, while it has the others, ends up
\* blocked in every held version, whatever crashes between the row and the
\* block, whichever write fails and whatever an administrator unblocks.
GoneIsBlocked ==
    \A p \in Packages :
        <>[](up[p] = {} /\ ~outage /\ \A q \in Packages \ {p} : up[q] = Held(q))
            => <>[](\A v \in Held(p) : block[<<p, v>>] # "none")
==============================================================================
