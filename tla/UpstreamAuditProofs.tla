-------------------------- MODULE UpstreamAuditProofs --------------------------
(***************************************************************************)
(* What the upstream audit may confirm, for every set of packages, number  *)
(* of rechecks, population floor, ratio below one and confirmation floors. *)
(*                                                                         *)
(* The argument follows a disappearance back to its evidence: a confirmed  *)
(* row comes from a statement, the statement from an outcome that passed   *)
(* the population gate, and an outcome that passed the gate while upstream *)
(* denied everything came from a sweep below the floor.                    *)
(***************************************************************************)
EXTENDS UpstreamAudit, FiniteSetTheorems, TLAPS

Kinds == {"package", "versions", "inconclusive"}

Rows == [state : {"none", "missing", "disappeared"},
         misses : 0..ConfirmAfter, age : 0..ConfirmMinAge]

Outcomes ==
    UNION {[pkg : {p}, held : SUBSET Held(p), kind : Kinds,
            missing : SUBSET Held(p)] : p \in Packages}

Transitions ==
    UNION {[do : {"block", "unblock"}, pkg : {p}, vs : SUBSET Held(p)] :
           p \in Packages}

Works ==
    [pc : {"idle", "probe", "apply", "reconcile"}, scope : SUBSET Coordinates,
     ask : SUBSET Packages, out : SUBSET Outcomes, ops : SUBSET Statements,
     trans : Seq(Transitions), acts : SUBSET Acts]

AuditType == TypeOK /\ work \in [Workers -> Works]

\* An answer, given whether upstream is out and what it ever denied.
Heard(o, out, den) ==
    \/ o.kind = "inconclusive" /\ o.missing = {}
    \/ /\ o.kind # "inconclusive"
       /\ IF out THEN IsMissing(o) ELSE IsMissing(o) => o.pkg \in den

\* A sweep asks about something of every package, and its evidence is sound: the
\* answers before the gate, the outcomes and statements after it.
Evidence(r, out, den, bad) ==
    /\ IsFiniteSet(r.out)
    /\ r.pc = "probe" =>
           /\ \A p \in r.ask : \E v \in ScopeOf(r, p) : \A u \in ScopeOf(r, p) : v <= u
           /\ \A o \in r.out : Heard(o, out, den)
    /\ r.pc # "probe" => \A o \in r.out : IsMissing(o) => o.pkg \in bad
    /\ \A op \in r.ops : op.do # "clear" => op.key[1] \in bad

Withdrawn == \A p \in Packages : up[p] = Held(p) \/ p \in denied

Founded ==
    /\ Withdrawn
    /\ \A w \in Workers : Evidence(work[w], outage, denied, denied \cup thin)
    /\ OutageConfirmsNothing

\* With a ratio of one the population gate never closes, and an outage may
\* confirm anything: the evidence is only sound below it.
Gated == RatioNum < RatioDen

AuditSafe == AuditType /\ (Gated => Founded)

-----------------------------------------------------------------------------
(* The types of keys, statements, outcomes and work. *)

LEMMA KeysAre ==
    /\ \A p \in Packages : \A v \in 0..Versions[p] : <<p, v>> \in Keys
    /\ \A k \in Keys : k[1] \in Packages /\ k[2] \in 0..Versions[k[1]] /\ k = <<k[1], k[2]>>
BY DEF Keys

LEMMA CoordinatesAre ==
    /\ \A p \in Packages : \A v \in Held(p) : <<p, v>> \in Coordinates
    /\ \A c \in Coordinates : c[1] \in Packages /\ c[2] \in Held(c[1]) /\ c = <<c[1], c[2]>>
BY DEF Coordinates

LEMMA HeldAre ==
    ASSUME NEW p \in Packages
    PROVE  /\ Versions[p] \in Nat \ {0} /\ Held(p) = 1..Versions[p]
           /\ Held(p) \subseteq 0..Versions[p] /\ Held(p) \subseteq Nat
           /\ 1 \in Held(p) /\ \A v \in Held(p) : 1 <= v
BY PackagesAssumption DEF Held

LEMMA StatementFields ==
    ASSUME NEW op \in Statements
    PROVE  /\ op.do \in {"clear", "miss", "confirm"} /\ op.key \in Keys
           /\ op.key[1] \in Packages /\ op.covered \subseteq Held(op.key[1])
           /\ op.key[2] \in Nat
<1>1. PICK p \in Packages :
          op \in [do : {"clear", "miss", "confirm"}, key : {p} \X (0..Versions[p]),
                  covered : SUBSET Held(p)]
  BY DEF Statements
<1>2. op.key[1] = p /\ op.key[2] \in 0..Versions[p] /\ op.key = <<op.key[1], op.key[2]>>
  BY <1>1
<1> QED
  BY <1>1, <1>2, KeysAre, HeldAre

LEMMA OpIsStatement ==
    ASSUME NEW do \in {"clear", "miss", "confirm"}, NEW p \in Packages,
           NEW v \in 0..Versions[p], NEW c \in SUBSET Held(p)
    PROVE  /\ Op(do, p, v, c) \in Statements /\ Op(do, p, v, c).do = do
           /\ Op(do, p, v, c).key = <<p, v>>
<1>1. Op(do, p, v, c) \in [do : {"clear", "miss", "confirm"}, key : {p} \X (0..Versions[p]),
                           covered : SUBSET Held(p)]
  BY DEF Op
<1> QED
  BY <1>1 DEF Statements, Op

\* A statement whose floors are met becomes the confirmation of the same row.
LEMMA ConfirmIsStatement ==
    ASSUME NEW op \in Statements
    PROVE  /\ [op EXCEPT !.do = "confirm"] \in Statements
           /\ [op EXCEPT !.do = "confirm"].key = op.key
<1>1. PICK p \in Packages :
          op \in [do : {"clear", "miss", "confirm"}, key : {p} \X (0..Versions[p]),
                  covered : SUBSET Held(p)]
  BY DEF Statements
<1>2. [op EXCEPT !.do = "confirm"] \in
          [do : {"clear", "miss", "confirm"}, key : {p} \X (0..Versions[p]),
           covered : SUBSET Held(p)]
  BY <1>1
<1> QED
  BY <1>1, <1>2 DEF Statements

LEMMA OutcomeFields ==
    ASSUME NEW o \in Outcomes
    PROVE  /\ o.pkg \in Packages /\ o.held \subseteq Held(o.pkg)
           /\ o.missing \subseteq Held(o.pkg) /\ o.kind \in Kinds
BY DEF Outcomes

LEMMA OutcomeIs ==
    ASSUME NEW p \in Packages, NEW vs \in SUBSET Held(p), NEW kind \in Kinds,
           NEW missing \in SUBSET Held(p)
    PROVE  [pkg |-> p, held |-> vs, kind |-> kind, missing |-> missing] \in Outcomes
<1>1. [pkg |-> p, held |-> vs, kind |-> kind, missing |-> missing] \in
          [pkg : {p}, held : SUBSET Held(p), kind : Kinds, missing : SUBSET Held(p)]
  OBVIOUS
<1> QED
  BY <1>1 DEF Outcomes

LEMMA TransitionIs ==
    ASSUME NEW do \in {"block", "unblock"}, NEW op \in Statements
    PROVE  Transition(do, op.key, op.covered) \in Transitions
<1>1. op.key[1] \in Packages /\ op.covered \subseteq Held(op.key[1])
  BY StatementFields
<1>2. Transition(do, op.key, op.covered) \in
          [do : {"block", "unblock"}, pkg : {op.key[1]}, vs : SUBSET Held(op.key[1])]
  BY <1>1 DEF Transition
<1> QED
  BY <1>1, <1>2 DEF Transitions

LEMMA TransitionFields ==
    ASSUME NEW t \in Transitions
    PROVE  t.do \in {"block", "unblock"} /\ t.pkg \in Packages /\ t.vs \subseteq Held(t.pkg)
BY DEF Transitions

LEMMA ScopeIsHeld ==
    ASSUME NEW r, NEW p
    PROVE  ScopeOf(r, p) \subseteq Held(p)
BY DEF ScopeOf

LEMMA IdleIs ==
    ASSUME NEW out, NEW den, NEW bad
    PROVE  Idle \in Works /\ Evidence(Idle, out, den, bad)
<1>1. Idle \in Works
  BY DEF Idle, Works
<1>2. IsFiniteSet({})
  BY FS_EmptySet
<1> QED
  BY <1>1, <1>2 DEF Idle, Evidence

-----------------------------------------------------------------------------
(* One step of one worker, and the steps of the world. *)

Blocks == [Coordinates -> {"none", "system", "admin"}]

LEMMA TypesOf ==
    ASSUME AuditType
    PROVE  /\ due \in BOOLEAN /\ outage \in BOOLEAN /\ up \in [Packages -> SUBSET Nat]
           /\ recent \subseteq Packages /\ denied \subseteq Packages /\ thin \subseteq Packages
           /\ row \in [Keys -> Rows] /\ block \in Blocks /\ work \in [Workers -> Works]
BY DEF AuditType, TypeOK, Rows, Blocks

LEMMA TypesFrom ==
    ASSUME due' \in BOOLEAN, outage' \in BOOLEAN, up' \in [Packages -> SUBSET Nat],
           recent' \subseteq Packages, denied' \subseteq Packages, thin' \subseteq Packages,
           row' \in [Keys -> Rows], block' \in Blocks, work' \in [Workers -> Works]
    PROVE  AuditType'
<1>1. \A w \in Workers :
        /\ work'[w].pc \in {"idle", "probe", "apply", "reconcile"}
        /\ work'[w].scope \subseteq Coordinates
        /\ work'[w].ask \subseteq Packages
        /\ work'[w].ops \subseteq Statements
        /\ work'[w].acts \subseteq Acts
  BY DEF Works
<1> QED
  BY <1>1 DEF AuditType, TypeOK, Rows, Blocks

LEMMA MoreEvidence ==
    ASSUME NEW r, NEW out, NEW den, NEW bad, NEW den2, NEW bad2,
           Evidence(r, out, den, bad), den \subseteq den2, bad \subseteq bad2
    PROVE  Evidence(r, out, den2, bad2)
BY DEF Evidence, Heard

\* What is confirmed has a reason in these sets.
Reasons(rows, bad) == \A k \in Keys : rows[k].state = "disappeared" => k[1] \in bad

\* One worker goes on, with evidence for what it does; the world stays.
LEMMA Moves ==
    ASSUME AuditSafe, NEW w \in Workers, NEW r \in Works, SetWork(w, r),
           due' \in BOOLEAN, recent' \subseteq Packages,
           row' \in [Keys -> Rows], block' \in Blocks,
           thin \subseteq thin', thin' \subseteq Packages,
           Gated => /\ Evidence(r, outage, denied, denied \cup thin')
                    /\ Reasons(row', denied \cup thin')
    PROVE  AuditSafe'
<1>1. AuditType'
  BY TypesOf, TypesFrom DEF AuditSafe, SetWork
<1>2. ASSUME Gated PROVE Founded'
  <2>1. Founded
    BY <1>2 DEF AuditSafe
  <2>2. Withdrawn'
    BY <2>1 DEF Founded, Withdrawn, SetWork
  <2>3. \A x \in Workers : work'[x] = IF x = w THEN r ELSE work[x]
    BY TypesOf DEF AuditSafe, SetWork
  <2>4. \A x \in Workers : Evidence(work[x], outage, denied, denied \cup thin')
    BY <2>1, MoreEvidence DEF Founded
  <2>5. \A x \in Workers : Evidence(work'[x], outage', denied', denied' \cup thin')
    BY <1>2, <2>3, <2>4 DEF SetWork
  <2>6. OutageConfirmsNothing'
    BY <1>2 DEF OutageConfirmsNothing, Reasons, SetWork
  <2> QED
    BY <2>2, <2>5, <2>6 DEF Founded
<1> QED
  BY <1>1, <1>2 DEF AuditSafe, Gated

\* The same, when the worker writes no row and passes no gate.
LEMMA MovesAlone ==
    ASSUME AuditSafe, NEW w \in Workers, NEW r \in Works, SetWork(w, r),
           due' \in BOOLEAN, recent' \subseteq Packages, block' \in Blocks,
           UNCHANGED <<row, thin>>,
           Gated => Evidence(r, outage, denied, denied \cup thin)
    PROVE  AuditSafe'
<1>1. row' \in [Keys -> Rows] /\ thin \subseteq thin' /\ thin' \subseteq Packages
  BY TypesOf DEF AuditSafe
<1>2. Gated => Reasons(row', denied \cup thin')
  BY DEF AuditSafe, Founded, OutageConfirmsNothing, Reasons
<1> QED
  BY <1>1, <1>2, Moves

LEMMA WorkOf ==
    ASSUME AuditSafe, NEW w \in Workers
    PROVE  /\ work[w] \in Works
           /\ due \in BOOLEAN /\ recent \subseteq Packages /\ block \in Blocks
           /\ row \in [Keys -> Rows] /\ thin \subseteq Packages
           /\ Gated => /\ Evidence(work[w], outage, denied, denied \cup thin)
                       /\ Reasons(row, denied \cup thin)
BY TypesOf DEF AuditSafe, Founded, OutageConfirmsNothing, Reasons

\* The world changes and nobody works.
LEMMA WorldMoves ==
    ASSUME AuditSafe, AuditType', UNCHANGED work,
           denied \subseteq denied', thin' = thin,
           outage' = outage \/ \A w \in Workers : work[w].pc # "probe",
           Gated => Withdrawn',
           \A k \in Keys : row'[k].state = row[k].state
    PROVE  AuditSafe'
<1>1. ASSUME Gated PROVE Founded'
  <2>1. Founded
    BY <1>1 DEF AuditSafe
  <2>2. ASSUME NEW w \in Workers
        PROVE  Evidence(work[w], outage', denied', denied' \cup thin')
    <3>1. Evidence(work[w], outage, denied', denied' \cup thin')
      BY <2>1, MoreEvidence DEF Founded
    <3>2. CASE outage' = outage
      BY <3>1, <3>2
    <3>3. CASE work[w].pc # "probe"
      BY <3>1, <3>3 DEF Evidence
    <3> QED
      BY <3>2, <3>3
  <2>3. \A w \in Workers : Evidence(work'[w], outage', denied', denied' \cup thin')
    BY <2>2
  <2>4. OutageConfirmsNothing'
    BY <2>1 DEF Founded, OutageConfirmsNothing
  <2> QED
    BY <1>1, <2>3, <2>4 DEF Founded
<1> QED
  BY <1>1 DEF AuditSafe, Gated

LEMMA TickSafe ==
    ASSUME AuditSafe, Tick
    PROVE  AuditSafe'
<1>1. row \in [Keys -> Rows] /\ ConfirmMinAge \in Nat
  BY TypesOf, PolicyAssumption DEF AuditSafe
<1>2. ASSUME NEW k \in Keys
      PROVE  row'[k] \in Rows /\ row'[k].state = row[k].state
  <2>1. row[k] \in Rows
    BY <1>1
  <2>2. CASE row'[k] = row[k]
    BY <2>1, <2>2
  <2>3. CASE row[k].age # ConfirmMinAge /\ row'[k] = [row[k] EXCEPT !.age = @ + 1]
    <3>1. row[k].age + 1 \in 0..ConfirmMinAge
      BY <1>1, <2>1, <2>3 DEF Rows
    <3> QED
      BY <2>1, <2>3, <3>1 DEF Rows
  <2> QED
    BY <2>2, <2>3 DEF Tick
<1>3. row' \in [Keys -> Rows]
  BY <1>2 DEF Tick
<1>4. AuditType'
  BY <1>3, TypesOf, TypesFrom DEF AuditSafe, Tick
<1>5. Gated => Withdrawn'
  BY DEF AuditSafe, Founded, Withdrawn, Tick
<1> QED
  BY <1>2, <1>4, <1>5, WorldMoves DEF Tick

LEMMA WorldSafe ==
    ASSUME AuditSafe,
           \/ \E p \in Packages : \E versions \in Offers[p] : Change(p, versions)
           \/ Outage
           \/ \E p \in Packages : Fetch(p)
           \/ \E c \in Coordinates : AdminBlock(c) \/ AdminUnblock(c)
    PROVE  AuditSafe'
<1> USE TypesOf, TypesFrom, WorldMoves DEF AuditSafe
<1>1. ASSUME NEW p \in Packages, NEW versions \in Offers[p], Change(p, versions)
      PROVE  AuditSafe'
  <2>1. versions \subseteq Nat
    BY PackagesAssumption
  <2>2. denied' \subseteq Packages /\ denied \subseteq denied'
    BY <1>1 DEF Change
  <2>3. AuditType'
    BY <1>1, <2>1, <2>2 DEF Change
  <2>4. Gated => Withdrawn'
    BY <1>1 DEF Founded, Withdrawn, Change
  <2> QED
    BY <1>1, <2>2, <2>3, <2>4 DEF Change
<1>2. CASE Outage
  <2>1. AuditType'
    BY <1>2 DEF Outage
  <2>2. Gated => Withdrawn'
    BY <1>2 DEF Founded, Withdrawn, Outage
  <2> QED
    BY <1>2, <2>1, <2>2 DEF Outage
<1>3. ASSUME NEW p \in Packages, Fetch(p)
      PROVE  AuditSafe'
  <2>1. AuditType'
    BY <1>3 DEF Fetch
  <2>2. Gated => Withdrawn'
    BY <1>3 DEF Founded, Withdrawn, Fetch
  <2> QED
    BY <1>3, <2>1, <2>2 DEF Fetch
<1>4. ASSUME NEW c \in Coordinates, AdminBlock(c) \/ AdminUnblock(c)
      PROVE  AuditSafe'
  <2>1. AuditType'
    BY <1>4 DEF AdminBlock, AdminUnblock, Blocks
  <2>2. Gated => Withdrawn'
    BY <1>4 DEF Founded, Withdrawn, AdminBlock, AdminUnblock
  <2> QED
    BY <1>4, <2>1, <2>2 DEF AdminBlock, AdminUnblock
<1> QED
  BY <1>1, <1>2, <1>3, <1>4

-----------------------------------------------------------------------------
(* Sweeps and rechecks up to the gate. *)

Begun(ask, scope) == [Idle EXCEPT !.pc = "probe", !.ask = ask, !.scope = scope]

LEMMA BegunIs ==
    ASSUME NEW ask \in SUBSET Packages, NEW scope \in SUBSET Coordinates
    PROVE  /\ Begun(ask, scope) \in Works
           /\ Begun(ask, scope).pc = "probe" /\ Begun(ask, scope).ask = ask
           /\ Begun(ask, scope).scope = scope
           /\ Begun(ask, scope).out = {} /\ Begun(ask, scope).ops = {}
BY IdleIs DEF Begun, Works, Idle

LEMMA BegunEvidence ==
    ASSUME NEW ask \in SUBSET Packages, NEW scope \in SUBSET Coordinates,
           \A p \in ask : \E v \in Held(p) : /\ <<p, v>> \in scope
                                             /\ \A u \in Held(p) : <<p, u>> \in scope => v <= u,
           NEW out, NEW den, NEW bad
    PROVE  Evidence(Begun(ask, scope), out, den, bad)
<1> DEFINE r == Begun(ask, scope)
<1>1. r.pc = "probe" /\ r.ask = ask /\ r.scope = scope /\ r.out = {} /\ r.ops = {}
  BY BegunIs
<1> HIDE DEF r
<1>2. IsFiniteSet(r.out)
  BY <1>1, FS_EmptySet
<1>3. \A p \in r.ask : \E v \in ScopeOf(r, p) : \A u \in ScopeOf(r, p) : v <= u
  BY <1>1 DEF ScopeOf
<1>4. Evidence(r, out, den, bad)
  BY <1>1, <1>2, <1>3 DEF Evidence
<1> QED
  BY <1>4 DEF r

LEMMA SweepStartSafe ==
    ASSUME AuditSafe, SweepStart
    PROVE  AuditSafe'
<1> DEFINE r == Begun(Packages \ recent, Coordinates)
<1>1. /\ Sweeper \in Workers /\ SetWork(Sweeper, r)
      /\ due' \in BOOLEAN /\ recent' \subseteq Packages /\ UNCHANGED <<row, block, thin>>
  BY DEF SweepStart, Begun, Workers
<1>2. r \in Works /\ Evidence(r, outage, denied, denied \cup thin)
  <2>1. \A p \in Packages \ recent :
            \E v \in Held(p) : /\ <<p, v>> \in Coordinates
                               /\ \A u \in Held(p) : <<p, u>> \in Coordinates => v <= u
    BY HeldAre, CoordinatesAre
  <2> QED
    BY <2>1, BegunIs, BegunEvidence
<1> HIDE DEF r
<1>3. block' \in Blocks
  BY <1>1, WorkOf
<1> QED
  BY <1>1, <1>2, <1>3, MovesAlone

LEMMA RecheckStartSafe ==
    ASSUME AuditSafe, NEW w \in Rechecks, NEW p \in Packages,
           NEW vs \in {Held(p)} \cup {{v} : v \in Held(p)}, RecheckStart(w, p, vs)
    PROVE  AuditSafe'
<1> DEFINE ask == {p}
           scope == {p} \X vs
           r == Begun(ask, scope)
<1>1. /\ w \in Workers /\ SetWork(w, r) /\ UNCHANGED <<due, recent, row, block, thin>>
  BY DEF RecheckStart, Begun, Workers
<1>2. vs \subseteq Held(p) /\ \E v \in vs : \A u \in vs : v <= u
  BY HeldAre
<1>3. {p} \X vs \subseteq Coordinates
  BY <1>2, CoordinatesAre
<1>4. r \in Works /\ Evidence(r, outage, denied, denied \cup thin)
  <2>1. \A q \in ask :
            \E v \in Held(q) : /\ <<q, v>> \in scope
                               /\ \A u \in Held(q) : <<q, u>> \in scope => v <= u
    BY <1>2
  <2>2. ask \in SUBSET Packages /\ scope \in SUBSET Coordinates
    BY <1>3
  <2> HIDE DEF ask, scope
  <2> QED
    BY <2>1, <2>2, BegunIs, BegunEvidence
<1> HIDE DEF r
<1> QED
  BY <1>1, <1>4, WorkOf, MovesAlone

LEMMA AnswerIs ==
    ASSUME NEW p \in Packages, NEW vs \in SUBSET Held(p)
    PROVE  /\ Answer(p, vs) \in Outcomes /\ Inconclusive(p, vs) \in Outcomes
           /\ Answer(p, vs).pkg = p
           /\ Inconclusive(p, vs).kind = "inconclusive" /\ Inconclusive(p, vs).missing = {}
           /\ Answer(p, vs).kind # "inconclusive"
           /\ LET has == IF outage THEN {} ELSE up[p]
              IN  IF Listing /\ has = {} THEN Answer(p, vs).kind = "package"
                  ELSE /\ Answer(p, vs).kind = "versions"
                       /\ Answer(p, vs).missing = Asked(vs) \ has
<1>1. Asked(vs) \subseteq Held(p)
  BY DEF Asked, Oldest
<1>2. Answer(p, vs) \in Outcomes
  BY <1>1, OutcomeIs DEF Answer, Kinds
<1>3. Inconclusive(p, vs) \in Outcomes
  BY OutcomeIs DEF Inconclusive, Kinds
<1> QED
  BY <1>2, <1>3 DEF Answer, Inconclusive

\* The oldest version is always among those asked about.
LEMMA SomethingIsAsked ==
    ASSUME NEW vs, NEW v \in vs, \A u \in vs : v <= u, vs \subseteq Nat
    PROVE  v \in Asked(vs)
<1>1. {u \in vs : u < v} = {}
  <2>1. \A u \in vs : u \in Int /\ v \in Int /\ v <= u
    OBVIOUS
  <2>2. \A u \in vs : ~(u < v)
    BY <2>1
  <2> QED
    BY <2>2
<1>2. Cardinality({u \in vs : u < v}) = 0
  BY <1>1, FS_EmptySet
<1> QED
  BY <1>2, PolicyAssumption DEF Asked, Oldest

LEMMA AnswerIsHeard ==
    ASSUME AuditSafe, Gated, NEW p \in Packages, NEW vs \in SUBSET Held(p),
           NEW v \in vs, \A u \in vs : v <= u
    PROVE  /\ Heard(Answer(p, vs), outage, denied)
           /\ Heard(Inconclusive(p, vs), outage, denied)
<1>1. Heard(Inconclusive(p, vs), outage, denied)
  BY AnswerIs DEF Heard
<1>2. v \in Asked(vs) /\ Asked(vs) \subseteq Held(p)
  BY SomethingIsAsked, HeldAre DEF Asked, Oldest
<1>3. CASE outage
  BY <1>2, <1>3, AnswerIs DEF Heard, IsMissing
<1>4. CASE ~outage
  <2>1. IsMissing(Answer(p, vs)) => up[p] # Held(p)
    BY <1>2, <1>4, AnswerIs DEF IsMissing
  <2> QED
    BY <1>1, <1>4, <2>1, AnswerIs DEF Heard, AuditSafe, Founded, Withdrawn
<1> QED
  BY <1>1, <1>3, <1>4

LEMMA ProbeSafe ==
    ASSUME AuditSafe, NEW w \in Workers, NEW p \in Packages, Probe(w, p)
    PROVE  AuditSafe'
<1> DEFINE vs == ScopeOf(work[w], p)
<1>1. PICK o \in {Answer(p, vs), Inconclusive(p, vs)} :
          SetWork(w, [work[w] EXCEPT !.ask = @ \ {p}, !.out = @ \cup {o}])
  BY DEF Probe
<1>2. /\ work[w].pc = "probe" /\ p \in work[w].ask
      /\ UNCHANGED <<due, recent, row, block, thin>>
  BY DEF Probe
<1>3. vs \in SUBSET Held(p) /\ work[w] \in Works
  BY ScopeIsHeld, WorkOf
<1>4. o \in Outcomes
  BY <1>1, <1>3, AnswerIs
<1> DEFINE r == [work[w] EXCEPT !.ask = @ \ {p}, !.out = @ \cup {o}]
<1>5. /\ r \in Works /\ r.pc = "probe" /\ r.ask = work[w].ask \ {p}
      /\ r.out = work[w].out \cup {o} /\ r.scope = work[w].scope /\ r.ops = work[w].ops
  BY <1>2, <1>3, <1>4 DEF Works
<1>6. SetWork(w, r)
  BY <1>1
<1> HIDE DEF r
<1>7. ASSUME Gated PROVE Evidence(r, outage, denied, denied \cup thin)
  <2>1. Evidence(work[w], outage, denied, denied \cup thin)
    BY <1>7, WorkOf
  <2>2. PICK v \in vs : \A u \in vs : v <= u
    BY <1>2, <2>1 DEF Evidence
  <2>3. Heard(o, outage, denied)
    BY <1>1, <1>3, <1>7, <2>2, AnswerIsHeard
  <2>4. IsFiniteSet(r.out)
    BY <1>5, <2>1, FS_AddElement DEF Evidence
  <2>5. \A q : ScopeOf(r, q) = ScopeOf(work[w], q)
    BY <1>5 DEF ScopeOf
  <2> QED
    BY <1>2, <1>5, <2>1, <2>3, <2>4, <2>5 DEF Evidence
<1> QED
  BY <1>2, <1>5, <1>6, <1>7, WorkOf, MovesAlone

-----------------------------------------------------------------------------
(* The population gate. *)

LEMMA ConclusiveFinite ==
    ASSUME NEW out, IsFiniteSet(out)
    PROVE  /\ IsFiniteSet(Conclusive(out)) /\ Conclusive(out) \subseteq out
           /\ Cardinality(Conclusive(out)) \in Nat
           /\ Cardinality(Conclusive(out)) = 0 => Conclusive(out) = {}
<1>1. Conclusive(out) \subseteq out
  BY DEF Conclusive
<1>2. IsFiniteSet(Conclusive(out))
  BY <1>1, FS_Subset
<1> QED
  BY <1>1, <1>2, FS_CardinalityType, FS_EmptySet

\* In an outage every conclusive answer is a miss, and a sweep that reached the
\* floor with any is void.
LEMMA OutageIsVoid ==
    ASSUME Gated, NEW out, IsFiniteSet(out),
           \A o \in Conclusive(out) : IsMissing(o),
           Conclusive(out) # {}, Cardinality(Conclusive(out)) >= MinProbed
    PROVE  Void(out)
<1> DEFINE n == Cardinality(Conclusive(out))
<1>1. {o \in Conclusive(out) : IsMissing(o)} = Conclusive(out)
  OBVIOUS
<1>2. n \in Nat /\ n # 0
  BY ConclusiveFinite
<1>3. RatioNum \in Nat /\ RatioDen \in Nat /\ RatioNum < RatioDen
  BY PolicyAssumption DEF Gated
<1> HIDE DEF n
<1>4. n * RatioDen > n * RatioNum
  BY <1>2, <1>3
<1> QED
  BY <1>1, <1>4 DEF Void, n

LEMMA GateSafe ==
    ASSUME AuditSafe, NEW w \in Workers, Gate(w)
    PROVE  AuditSafe'
<1> DEFINE s == work[w]
           t == [s EXCEPT !.pc = "apply", !.out = Conclusive(s.out)]
           r == IF Void(s.out) THEN Idle ELSE t
           missed == {o.pkg : o \in {x \in s.out : IsMissing(x)}}
<1>1. s \in Works /\ s.pc = "probe" /\ SetWork(w, r) /\ UNCHANGED <<due, recent, row, block>>
  BY WorkOf DEF Gate
<1>2. thin' = IF Void(s.out) \/ Cardinality(Conclusive(s.out)) >= MinProbed
              THEN thin ELSE thin \cup missed
  BY DEF Gate
<1>3. missed \subseteq Packages
  BY <1>1, OutcomeFields DEF Works
<1>4. thin \subseteq thin' /\ thin' \subseteq Packages
  BY <1>2, <1>3, WorkOf
<1>5. /\ t \in Works /\ t.pc = "apply" /\ t.out = Conclusive(s.out) /\ t.ops = s.ops
  BY <1>1 DEF Works, Conclusive
<1> HIDE DEF t
<1>6. r \in Works
  BY <1>5, IdleIs
<1>7. ASSUME Gated
      PROVE  Evidence(r, outage, denied, denied \cup thin') /\ Reasons(row', denied \cup thin')
  <2>1. Evidence(s, outage, denied, denied \cup thin) /\ Reasons(row, denied \cup thin)
    BY <1>7, WorkOf
  <2>2. Reasons(row', denied \cup thin')
    BY <1>1, <1>4, <2>1 DEF Reasons
  <2>3. CASE Void(s.out)
    BY <2>2, <2>3, IdleIs
  <2>4. CASE ~Void(s.out)
    <3>1. IsFiniteSet(s.out)
      BY <2>1 DEF Evidence
    <3>2. IsFiniteSet(t.out)
      BY <1>5, <3>1, ConclusiveFinite
    <3>3. \A o \in s.out : Heard(o, outage, denied)
      BY <1>1, <2>1 DEF Evidence
    <3>4. \A o \in Conclusive(s.out) : IsMissing(o) => o.pkg \in denied \cup thin'
      <4>1. CASE ~outage
        BY <3>3, <4>1 DEF Heard, Conclusive
      <4>2. CASE outage
        <5>1. \A o \in Conclusive(s.out) : IsMissing(o)
          BY <3>3, <4>2 DEF Heard, Conclusive
        <5>2. CASE Conclusive(s.out) = {}
          BY <5>2
        <5>3. CASE Conclusive(s.out) # {}
          <6>1. ~(Cardinality(Conclusive(s.out)) >= MinProbed)
            BY <1>7, <2>4, <3>1, <5>1, <5>3, OutageIsVoid
          <6>2. thin' = thin \cup missed
            BY <1>2, <2>4, <6>1
          <6> QED
            BY <6>2 DEF Conclusive
        <5> QED
          BY <5>2, <5>3
      <4> QED
        BY <4>1, <4>2
    <3>5. \A op \in t.ops : op.do # "clear" => op.key[1] \in denied \cup thin'
      BY <1>4, <1>5, <2>1 DEF Evidence
    <3>6. Evidence(t, outage, denied, denied \cup thin')
      BY <1>5, <3>2, <3>4, <3>5 DEF Evidence
    <3> QED
      BY <2>2, <2>4, <3>6
  <2> QED
    BY <2>3, <2>4
<1> HIDE DEF r
<1> QED
  BY <1>1, <1>4, <1>6, <1>7, WorkOf, Moves

-----------------------------------------------------------------------------
(* Statements. *)

LEMMA OpsAre ==
    ASSUME NEW o \in Outcomes
    PROVE  /\ Ops(o) \subseteq Statements
           /\ \A op \in Ops(o) : op.do # "clear" => IsMissing(o) /\ op.key[1] = o.pkg
<1> DEFINE per(v) == Op(IF v \in o.missing THEN "miss" ELSE "clear", o.pkg, v, {v})
           scope == IF o.missing # {} THEN o.held ELSE Oldest(o.held)
<1>1. /\ o.pkg \in Packages /\ o.held \in SUBSET Held(o.pkg) /\ 0 \in 0..Versions[o.pkg]
      /\ Held(o.pkg) \subseteq 0..Versions[o.pkg]
  BY OutcomeFields, HeldAre
<1>2. scope \subseteq Held(o.pkg)
  BY <1>1 DEF Oldest
<1>3. CASE o.kind = "package"
  <2>1. Ops(o) = {Op("miss", o.pkg, 0, o.held)}
    BY <1>3 DEF Ops
  <2>2. Op("miss", o.pkg, 0, o.held) \in Statements
        /\ Op("miss", o.pkg, 0, o.held).key = <<o.pkg, 0>>
    BY <1>1, OpIsStatement
  <2> QED
    BY <1>3, <2>1, <2>2 DEF IsMissing
<1>4. CASE o.kind # "package"
  <2>1. Ops(o) = {Op("clear", o.pkg, 0, o.held)} \cup {per(v) : v \in scope}
    BY <1>4 DEF Ops
  <2>2. Op("clear", o.pkg, 0, o.held) \in Statements
        /\ Op("clear", o.pkg, 0, o.held).do = "clear"
    BY <1>1, OpIsStatement
  <2>3. ASSUME NEW v \in scope
        PROVE  /\ per(v) \in Statements
               /\ per(v).do # "clear" => IsMissing(o) /\ per(v).key[1] = o.pkg
    <3>1. v \in 0..Versions[o.pkg] /\ {v} \in SUBSET Held(o.pkg)
      BY <1>1, <1>2
    <3>2. CASE v \in o.missing
      <4>1. per(v) = Op("miss", o.pkg, v, {v})
        BY <3>2
      <4> QED
        BY <1>1, <3>1, <3>2, <4>1, OpIsStatement DEF IsMissing
    <3>3. CASE v \notin o.missing
      <4>1. per(v) = Op("clear", o.pkg, v, {v})
        BY <3>3
      <4> QED
        BY <1>1, <3>1, <4>1, OpIsStatement
    <3> QED
      BY <3>2, <3>3
  <2> HIDE DEF per, scope
  <2> QED
    BY <2>1, <2>2, <2>3
<1> QED
  BY <1>3, <1>4

LEMMA ApplyOutcomeSafe ==
    ASSUME AuditSafe, NEW w \in Workers, ApplyOutcome(w)
    PROVE  AuditSafe'
<1>1. PICK o \in work[w].out :
          SetWork(w, [work[w] EXCEPT !.ops = Ops(o), !.out = @ \ {o}])
  BY DEF ApplyOutcome
<1>2. work[w].pc = "apply" /\ UNCHANGED <<due, recent, row, block, thin>>
  BY DEF ApplyOutcome
<1>3. work[w] \in Works /\ o \in Outcomes
  BY WorkOf DEF Works
<1> DEFINE r == [work[w] EXCEPT !.ops = Ops(o), !.out = @ \ {o}]
<1>4. r \in Works /\ r.pc = "apply" /\ r.ops = Ops(o) /\ r.out = work[w].out \ {o}
  BY <1>2, <1>3, OpsAre DEF Works
<1>5. SetWork(w, r)
  BY <1>1
<1> HIDE DEF r
<1>6. ASSUME Gated PROVE Evidence(r, outage, denied, denied \cup thin)
  <2>1. Evidence(work[w], outage, denied, denied \cup thin)
    BY <1>6, WorkOf
  <2>2. IsFiniteSet(r.out)
    BY <1>4, <2>1, FS_RemoveElement DEF Evidence
  <2>3. IsMissing(o) => o.pkg \in denied \cup thin
    BY <1>2, <2>1 DEF Evidence
  <2>4. \A op \in r.ops : op.do # "clear" => op.key[1] \in denied \cup thin
    BY <1>3, <1>4, <2>3, OpsAre
  <2> QED
    BY <1>2, <1>4, <2>1, <2>2, <2>4 DEF Evidence
<1> QED
  BY <1>2, <1>4, <1>5, <1>6, WorkOf, MovesAlone

LEMMA PopIs ==
    ASSUME AuditSafe, NEW w \in Workers, NEW op \in Turn(work[w])
    PROVE  /\ op \in work[w].ops /\ op \in Statements
           /\ Pop(work[w], op) \in Works
           /\ Gated => /\ Evidence(Pop(work[w], op), outage, denied, denied \cup thin)
                       /\ op.do # "clear" => op.key[1] \in denied \cup thin
<1>1. work[w] \in Works /\ op \in work[w].ops
  BY WorkOf DEF Turn
<1> DEFINE r == Pop(work[w], op)
<1>2. /\ r \in Works /\ r.pc = work[w].pc /\ r.ops = work[w].ops \ {op}
      /\ r.out = work[w].out /\ r.ask = work[w].ask /\ r.scope = work[w].scope
  BY <1>1 DEF Pop, Works
<1> HIDE DEF r
<1>3. ASSUME Gated
      PROVE  /\ Evidence(r, outage, denied, denied \cup thin)
             /\ op.do # "clear" => op.key[1] \in denied \cup thin
  <2>1. Evidence(work[w], outage, denied, denied \cup thin)
    BY <1>3, WorkOf
  <2>2. \A q : ScopeOf(r, q) = ScopeOf(work[w], q)
    BY <1>2 DEF ScopeOf
  <2>3. op.do # "clear" => op.key[1] \in denied \cup thin
    BY <1>1, <2>1 DEF Evidence
  <2> QED
    BY <1>2, <2>1, <2>2, <2>3 DEF Evidence
<1> QED
  BY <1>1, <1>2, <1>3 DEF r, Works

\* A transition is remembered; the evidence is as it was.
LEMMA RememberIs ==
    ASSUME NEW r \in Works, NEW t \in Transitions, NEW out, NEW den, NEW bad
    PROVE  /\ [r EXCEPT !.trans = Append(@, t)] \in Works
           /\ Evidence(r, out, den, bad) =>
                  Evidence([r EXCEPT !.trans = Append(@, t)], out, den, bad)
<1> DEFINE q == [r EXCEPT !.trans = Append(@, t)]
<1>1. Append(r.trans, t) \in Seq(Transitions)
  BY DEF Works
<1>2. /\ q \in Works /\ q.pc = r.pc /\ q.ops = r.ops
      /\ q.out = r.out /\ q.ask = r.ask /\ q.scope = r.scope
  BY <1>1 DEF Works
<1> HIDE DEF q
<1>3. \A p : ScopeOf(q, p) = ScopeOf(r, p)
  BY <1>2 DEF ScopeOf
<1>4. Evidence(r, out, den, bad) => Evidence(q, out, den, bad)
  BY <1>2, <1>3 DEF Evidence
<1> QED
  BY <1>2, <1>4 DEF q

LEMMA ClearSafe ==
    ASSUME AuditSafe, NEW w \in Workers, Clear(w)
    PROVE  AuditSafe'
<1>1. PICK op \in Turn(work[w]) :
          /\ row' = [row EXCEPT ![op.key] = NoRow]
          /\ SetWork(w, IF row[op.key].state # "disappeared" THEN Pop(work[w], op)
                        ELSE [Pop(work[w], op) EXCEPT !.trans = Append(@,
                                Transition("unblock", op.key, op.covered))])
          /\ UNCHANGED <<due, recent, block, thin>>
  BY DEF Clear
<1> DEFINE s == Pop(work[w], op)
           t == Transition("unblock", op.key, op.covered)
           q == [s EXCEPT !.trans = Append(@, t)]
           r == IF row[op.key].state # "disappeared" THEN s ELSE q
<1>2. SetWork(w, r)
  BY <1>1
<1>3. op \in Statements /\ s \in Works /\ t \in Transitions
  BY PopIs, TransitionIs
<1> HIDE DEF s, t
<1>4. q \in Works /\ (Gated => Evidence(q, outage, denied, denied \cup thin))
  BY <1>3, PopIs, RememberIs DEF s
<1> HIDE DEF q
<1>5. r \in Works /\ (Gated => Evidence(r, outage, denied, denied \cup thin))
  BY <1>3, <1>4, PopIs DEF s
<1> HIDE DEF r
<1>6. NoRow \in Rows /\ NoRow.state = "none"
  BY PolicyAssumption DEF NoRow, Rows
<1>7. row' \in [Keys -> Rows] /\ (Gated => Reasons(row', denied \cup thin'))
  <2>1. op.key \in Keys
    BY <1>3, StatementFields
  <2> HIDE DEF NoRow
  <2> QED
    BY <1>1, <1>6, <2>1, WorkOf DEF Reasons
<1> QED
  BY <1>1, <1>2, <1>5, <1>7, WorkOf, Moves

LEMMA MissedIs ==
    ASSUME AuditSafe, NEW k \in Keys
    PROVE  /\ Missed(k) \in Rows
           /\ Missed(k).state = "disappeared" => row[k].state = "disappeared"
<1>1. row[k] \in Rows
  BY TypesOf DEF AuditSafe
<1>2. ConfirmAfter \in Nat \ {0} /\ ConfirmMinAge \in Nat
  BY PolicyAssumption
<1>3. CASE row[k].state = "none"
  BY <1>2, <1>3 DEF Missed, Rows
<1>4. CASE row[k].state # "none"
  <2> DEFINE m == IF row[k].misses < ConfirmAfter THEN row[k].misses + 1 ELSE row[k].misses
  <2>1. m \in 0..ConfirmAfter
    BY <1>1, <1>2 DEF Rows
  <2>2. Missed(k) = [row[k] EXCEPT !.misses = m]
    BY <1>4 DEF Missed
  <2> HIDE DEF m
  <2> QED
    BY <1>1, <2>1, <2>2 DEF Rows
<1> QED
  BY <1>3, <1>4

LEMMA MissSafe ==
    ASSUME AuditSafe, NEW w \in Workers, Miss(w)
    PROVE  AuditSafe'
<1>1. PICK op \in Turn(work[w]) :
          /\ op.do = "miss"
          /\ row' = [row EXCEPT ![op.key] = Missed(op.key)]
          /\ SetWork(w, IF row[op.key].state # "disappeared" /\ FloorsMet(Missed(op.key))
                        THEN [Pop(work[w], op) EXCEPT
                                 !.ops = @ \cup {[op EXCEPT !.do = "confirm"]}]
                        ELSE Pop(work[w], op))
          /\ UNCHANGED <<due, recent, block, thin>>
  BY DEF Miss
<1> DEFINE s == Pop(work[w], op)
           c == [op EXCEPT !.do = "confirm"]
           q == [s EXCEPT !.ops = @ \cup {c}]
<1>2. SetWork(w, q) \/ SetWork(w, s)
  BY <1>1
<1>3. op \in Statements /\ s \in Works /\ c \in Statements /\ c.key = op.key
  BY PopIs, ConfirmIsStatement
<1> HIDE DEF s, c
<1>4. /\ q \in Works /\ q.pc = s.pc /\ q.ops = s.ops \cup {c}
      /\ q.out = s.out /\ q.ask = s.ask /\ q.scope = s.scope
  BY <1>3 DEF Works
<1> HIDE DEF q
<1>5. ASSUME Gated
      PROVE  /\ Evidence(q, outage, denied, denied \cup thin)
             /\ Evidence(s, outage, denied, denied \cup thin)
  <2>1. Evidence(s, outage, denied, denied \cup thin) /\ op.key[1] \in denied \cup thin
    BY <1>1, <1>5, PopIs DEF s
  <2>2. \A p : ScopeOf(q, p) = ScopeOf(s, p)
    BY <1>4 DEF ScopeOf
  <2> QED
    BY <1>3, <1>4, <2>1, <2>2 DEF Evidence
<1>6. row' \in [Keys -> Rows] /\ (Gated => Reasons(row', denied \cup thin'))
  <2>1. op.key \in Keys
    BY <1>3, StatementFields
  <2> QED
    BY <1>1, <2>1, WorkOf, MissedIs DEF Reasons
<1> QED
  BY <1>1, <1>2, <1>3, <1>4, <1>5, <1>6, WorkOf, Moves

LEMMA ConfirmSafe ==
    ASSUME AuditSafe, NEW w \in Workers, Confirm(w)
    PROVE  AuditSafe'
<1>1. PICK op \in Turn(work[w]) :
          /\ op.do = "confirm"
          /\ IF row[op.key].state = "none"
             THEN SetWork(w, Pop(work[w], op)) /\ UNCHANGED row
             ELSE /\ row' = [row EXCEPT ![op.key].state = "disappeared"]
                  /\ SetWork(w, [Pop(work[w], op) EXCEPT !.trans = Append(@,
                                  Transition("block", op.key, op.covered))])
          /\ UNCHANGED <<due, recent, block, thin>>
  BY DEF Confirm
<1> DEFINE s == Pop(work[w], op)
           t == Transition("block", op.key, op.covered)
           q == [s EXCEPT !.trans = Append(@, t)]
<1>2. op \in Statements /\ s \in Works /\ t \in Transitions /\ op.key \in Keys
  BY PopIs, TransitionIs, StatementFields
<1>3. CASE row[op.key].state = "none"
  BY <1>1, <1>2, <1>3, PopIs, WorkOf, MovesAlone
<1>4. CASE row[op.key].state # "none"
  <2>1. SetWork(w, q) /\ row' = [row EXCEPT ![op.key].state = "disappeared"]
    BY <1>1, <1>4
  <2> HIDE DEF s, t
  <2>2. q \in Works /\ (Gated => Evidence(q, outage, denied, denied \cup thin))
    BY <1>2, PopIs, RememberIs DEF s
  <2> HIDE DEF q
  <2>3. row \in [Keys -> Rows] /\ row[op.key] \in Rows
    BY <1>2, WorkOf
  <2>4. [row[op.key] EXCEPT !.state = "disappeared"] \in Rows
    BY <2>3 DEF Rows
  <2>5. row' = [row EXCEPT ![op.key] = [row[op.key] EXCEPT !.state = "disappeared"]]
    BY <2>1
  <2>6. row' \in [Keys -> Rows]
    BY <2>3, <2>4, <2>5
  <2>7. Gated => Reasons(row', denied \cup thin')
    BY <1>1, <1>2, <2>3, <2>5, WorkOf, PopIs DEF Reasons
  <2> QED
    BY <1>1, <2>1, <2>2, <2>6, <2>7, WorkOf, Moves
<1> QED
  BY <1>3, <1>4

LEMMA StatementFailsSafe ==
    ASSUME AuditSafe, NEW w \in Workers, StatementFails(w)
    PROVE  AuditSafe'
<1>1. PICK op \in Turn(work[w]) : SetWork(w, Pop(work[w], op))
  BY DEF StatementFails
<1>2. UNCHANGED <<due, recent, row, block, thin>>
  BY DEF StatementFails
<1> QED
  BY <1>1, <1>2, PopIs, WorkOf, MovesAlone

-----------------------------------------------------------------------------
(* Blocks. *)

\* A worker whose acts, transitions or place change, and whose evidence does not.
LEMMA SameEvidence ==
    ASSUME AuditSafe, NEW w \in Workers, NEW r \in Works,
           work[w].pc # "probe", r.pc # "probe",
           r.out = work[w].out, r.ops = work[w].ops, Gated
    PROVE  Evidence(r, outage, denied, denied \cup thin)
<1>1. Evidence(work[w], outage, denied, denied \cup thin)
  BY WorkOf
<1> QED
  BY <1>1 DEF Evidence

LEMMA ActsAre ==
    ASSUME NEW do \in {"block", "unblock"}, NEW p \in Packages, NEW vs \in SUBSET Held(p)
    PROVE  Act(do, p, vs) \subseteq Acts
BY CoordinatesAre DEF Act, Acts

LEMMA ActOnSafe ==
    ASSUME AuditSafe, NEW w \in Workers, ActOn(w)
    PROVE  AuditSafe'
<1> DEFINE s == work[w]
           t == Head(s.trans)
           acts == Act(t.do, t.pkg, t.vs)
           r == [s EXCEPT !.trans = Tail(@), !.acts = acts]
<1>1. /\ SetWork(w, r) /\ s.pc = "apply" /\ s.trans # <<>>
      /\ UNCHANGED <<due, recent, row, block, thin>>
  BY DEF ActOn, Applied
<1>2. s \in Works /\ s.trans \in Seq(Transitions)
  BY WorkOf DEF Works
<1>3. t \in Transitions /\ Tail(s.trans) \in Seq(Transitions)
  BY <1>1, <1>2
<1>4. acts \subseteq Acts
  BY <1>3, TransitionFields, ActsAre
<1> HIDE DEF acts
<1>5. r \in Works /\ r.pc # "probe" /\ r.out = s.out /\ r.ops = s.ops
  BY <1>1, <1>2, <1>3, <1>4 DEF Works
<1> HIDE DEF r
<1> QED
  BY <1>1, <1>5, SameEvidence, WorkOf, MovesAlone

LEMMA GoneIsHeld ==
    ASSUME NEW r \in Works
    PROVE  Gone(r) \subseteq Coordinates
<1>1. ASSUME NEW k \in Keys, NEW v \in Covered(r, k)
      PROVE  <<k[1], v>> \in Coordinates
  <2>1. k[1] \in Packages /\ k[2] \in 0..Versions[k[1]] /\ Versions[k[1]] \in Nat
    BY KeysAre, HeldAre
  <2>2. v \in Held(k[1])
    BY <2>1, ScopeIsHeld DEF Covered, Held
  <2> QED
    BY <2>1, <2>2, CoordinatesAre
<1>2. ASSUME NEW c \in Gone(r)
      PROVE  c \in Coordinates
  <2>1. PICK k \in Keys : c \in {k[1]} \X Covered(r, k)
    BY DEF Gone
  <2>2. c = <<k[1], c[2]>> /\ c[2] \in Covered(r, k)
    BY <2>1
  <2> QED
    BY <1>1, <2>2
<1> QED
  BY <1>2

LEMMA ReconcileSafe ==
    ASSUME AuditSafe, NEW w \in Workers, Reconcile(w)
    PROVE  AuditSafe'
<1> DEFINE s == work[w]
           acts == Checks(Gone(s))
           r == [s EXCEPT !.pc = "reconcile", !.acts = acts]
<1>1. /\ SetWork(w, r) /\ s.pc = "apply" /\ UNCHANGED <<due, recent, row, block, thin>>
  BY DEF Reconcile, Applied
<1>2. s \in Works
  BY WorkOf
<1>3. acts \subseteq Acts
  BY <1>2, GoneIsHeld DEF Checks, Acts
<1> HIDE DEF acts
<1>4. r \in Works /\ r.pc # "probe" /\ r.out = s.out /\ r.ops = s.ops
  BY <1>1, <1>2, <1>3 DEF Works
<1> HIDE DEF r
<1> QED
  BY <1>1, <1>4, SameEvidence, WorkOf, MovesAlone

\* A worker does, drops or prepares an act; its evidence stays.
LEMMA ActsChange ==
    ASSUME AuditSafe, NEW w \in Workers, NEW acts \in SUBSET Acts,
           SetWork(w, [work[w] EXCEPT !.acts = acts]),
           UNCHANGED <<due, recent, row, thin>>, block' \in Blocks
    PROVE  AuditSafe'
<1> DEFINE s == work[w]
           r == [s EXCEPT !.acts = acts]
<1>1. s \in Works
  BY WorkOf
<1>2. /\ r \in Works /\ r.pc = s.pc /\ r.ask = s.ask /\ r.scope = s.scope
      /\ r.out = s.out /\ r.ops = s.ops
  BY <1>1 DEF Works
<1>3. SetWork(w, r)
  OBVIOUS
<1> HIDE DEF r
<1>4. \A p : ScopeOf(r, p) = ScopeOf(s, p)
  BY <1>2 DEF ScopeOf
<1>5. Gated => Evidence(r, outage, denied, denied \cup thin)
  BY <1>2, <1>4, WorkOf DEF Evidence
<1> QED
  BY <1>2, <1>3, <1>5, WorkOf, MovesAlone

LEMMA ActStepSafe ==
    ASSUME AuditSafe, NEW w \in Workers, ActStep(w)
    PROVE  AuditSafe'
<1> DEFINE s == work[w]
           done(a) == s.acts \ {a}
           then(a, do) == done(a) \cup {[a EXCEPT !.do = do]}
<1>1. PICK a \in ActTurn(s) :
          \/ /\ block' = [block EXCEPT ![a.at] = "system"]
             /\ SetWork(w, [s EXCEPT !.acts = done(a)])
          \/ /\ block' = [block EXCEPT ![a.at] = "none"]
             /\ SetWork(w, [s EXCEPT !.acts = done(a)])
          \/ /\ UNCHANGED block
             /\ \E acts \in {done(a), then(a, "lift"), then(a, "block")} :
                    SetWork(w, [s EXCEPT !.acts = acts])
  BY WorkOf DEF ActStep, Works
<1>2. UNCHANGED <<due, recent, row, thin>>
  BY DEF ActStep
<1>3. s.acts \subseteq Acts /\ a \in Acts /\ block \in Blocks
  BY WorkOf DEF ActTurn, Works
<1>4. {done(a), then(a, "lift"), then(a, "block")} \subseteq SUBSET Acts
  BY <1>3 DEF Acts
<1>5. a.at \in Coordinates
  BY <1>3 DEF Acts
<1>6. block' \in Blocks
  BY <1>1, <1>3, <1>5 DEF Blocks
<1> HIDE DEF done, then
<1>7. \E acts \in SUBSET Acts : SetWork(w, [s EXCEPT !.acts = acts])
  BY <1>1, <1>4
<1> QED
  BY <1>2, <1>6, <1>7, ActsChange

LEMMA ActFailsSafe ==
    ASSUME AuditSafe, NEW w \in Workers, ActFails(w)
    PROVE  AuditSafe'
<1>1. PICK a \in ActTurn(work[w]) :
          SetWork(w, [work[w] EXCEPT !.acts = @ \ {a}])
  BY DEF ActFails
<1>2. UNCHANGED <<due, recent, row, block, thin>>
  BY DEF ActFails
<1>3. work[w].acts \ {a} \in SUBSET Acts
  BY WorkOf DEF Works
<1> DEFINE acts == work[w].acts \ {a}
<1>4. SetWork(w, [work[w] EXCEPT !.acts = acts])
  BY <1>1
<1> HIDE DEF acts
<1> QED
  BY <1>2, <1>3, <1>4, WorkOf, ActsChange DEF acts

LEMMA EndSafe ==
    ASSUME AuditSafe, NEW w \in Workers, Finish(w) \/ Crash(w)
    PROVE  AuditSafe'
<1>1. SetWork(w, Idle) /\ UNCHANGED <<due, recent, row, block, thin>>
  BY DEF Finish, Crash
<1> QED
  BY <1>1, IdleIs, WorkOf, MovesAlone

-----------------------------------------------------------------------------
(* The theorems. *)

LEMMA NextSafe ==
    ASSUME AuditSafe, [Next]_vars
    PROVE  AuditSafe'
<1>1. CASE UNCHANGED vars
  <2>1. AuditType'
    BY <1>1, TypesOf, TypesFrom DEF vars, AuditSafe
  <2>2. Gated => Withdrawn'
    BY <1>1 DEF vars, AuditSafe, Founded, Withdrawn
  <2> QED
    BY <1>1, <2>1, <2>2, WorldMoves DEF vars
<1>2. ASSUME NEW w \in Workers,
             Goes(w) \/ StatementFails(w) \/ ActFails(w) \/ Crash(w)
      PROVE  AuditSafe'
  BY <1>2, ProbeSafe, GateSafe, ApplyOutcomeSafe, ClearSafe, MissSafe, ConfirmSafe,
     ActOnSafe, ReconcileSafe, ActStepSafe, EndSafe, StatementFailsSafe, ActFailsSafe
     DEF Goes
<1>3. CASE Next
  BY <1>2, <1>3, TickSafe, WorldSafe, SweepStartSafe, RecheckStartSafe DEF Next
<1> QED
  BY <1>1, <1>3

LEMMA InitSafe == Init => AuditSafe
<1> SUFFICES ASSUME Init PROVE AuditSafe
  OBVIOUS
<1>1. NoRow \in Rows /\ NoRow.state = "none"
  BY PolicyAssumption DEF NoRow, Rows
<1>2. Idle \in Works /\ \A out, den, bad : Evidence(Idle, out, den, bad)
  BY IdleIs
<1>3. /\ row \in [Keys -> Rows] /\ work \in [Workers -> Works]
      /\ \A k \in Keys : row[k].state = "none"
      /\ \A w \in Workers : work[w] = Idle
  BY <1>1, <1>2 DEF Init
<1>4. up \in [Packages -> SUBSET Nat] /\ \A p \in Packages : up[p] = Held(p)
  BY HeldAre DEF Init
<1>5. AuditType
  <2>1. \A w \in Workers :
          /\ work[w].pc \in {"idle", "probe", "apply", "reconcile"}
          /\ work[w].scope \subseteq Coordinates
          /\ work[w].ask \subseteq Packages
          /\ work[w].ops \subseteq Statements
          /\ work[w].acts \subseteq Acts
    BY <1>3 DEF Works
  <2> QED
    BY <1>3, <1>4, <2>1 DEF AuditType, TypeOK, Rows, Init
<1>6. Founded
  BY <1>2, <1>3, <1>4 DEF Founded, Withdrawn, OutageConfirmsNothing
<1> QED
  BY <1>5, <1>6 DEF AuditSafe

\* The inductive invariant: the types of everything a sweep holds and, where the
\* outage ratio is below one, the evidence behind every outcome, statement and
\* confirmed row (upstream_audit/confirm.rs).
THEOREM AuditAlwaysSafe == Spec => []AuditSafe
BY InitSafe, NextSafe, PTL DEF Spec

\* Rows, blocks and the local state of sweeps and rechecks keep their types: a
\* sweep only ever writes rows of cached packages and blocks cached versions.
THEOREM UpstreamTypeCorrect == Spec => []TypeOK
<1>1. AuditSafe => TypeOK
  BY DEF AuditSafe, AuditType
<1> QED
  BY <1>1, AuditAlwaysSafe, PTL

\* "No single upstream failure mode can confirm a disappearance" (confirm.rs:4-8),
\* for any number of packages, sweeps and concurrent rechecks and any floors, as
\* long as outage_ratio is below one: an outage confirms only packages that
\* upstream really denied, or that a sweep below the population floor missed.
THEOREM OutageNeverConfirms ==
    ASSUME RatioNum < RatioDen
    PROVE  Spec => []OutageConfirmsNothing
<1>1. AuditSafe => OutageConfirmsNothing
  BY DEF AuditSafe, Gated, Founded
<1> QED
  BY <1>1, AuditAlwaysSafe, PTL

===============================================================================
