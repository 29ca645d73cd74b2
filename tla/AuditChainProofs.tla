--------------------------- MODULE AuditChainProofs ---------------------------
(***************************************************************************)
(* The audit trail's writers, for every number of sealers, lifecycle jobs, *)
(* operators and verifiers, every retention and every interleaving.        *)
(***************************************************************************)
EXTENDS AuditChain, SequenceTheorems, FiniteSetTheorems, TLAPS

-----------------------------------------------------------------------------
(* The inductive invariant, in terms of the chain c, the clock n, the rows R *)
(* and the pending events P.                                               *)

\* An event is inserted within a window of its stamp.
PendingRecent(n, P) == \A e \in P : e.t <= n /\ n <= e.t + 1

\* The primary key of access_events, and the identifiers of events under way.
Keys(R, P) ==
    /\ \A r, s \in R : SameRow(r, s) => r = s
    /\ \A e \in P, r \in R : e.id # r.id
    /\ \A e, f \in P : e.id = f.id => e = f

\* The sealed windows are an interval that begins with the chain and ends a window
\* before the clock; every record is about one of them.
SealedRange(c, n) ==
    /\ c # <<>> => \E k \in 0 .. n : /\ SealedIn(c) = c[1].window .. k
                                     /\ c[1].window <= k
                                     /\ k + 2 <= n
    /\ \A i \in DOMAIN c : c[i].window \in SealedIn(c)

\* What SealedWindowsMatch says.
Matches(c, R) ==
    /\ Linked(c)
    /\ \A w \in SealedIn(c) : RowsIn(R, w) = Latest(c, w).rows

StoreSafe(c, n, R, P) ==
    /\ c \in Seq(SealRecord) /\ n \in Nat /\ R \in SUBSET Row /\ P \in SUBSET Row
    /\ n >= 2 /\ PendingRecent(n, P) /\ Keys(R, P) /\ SealedRange(c, n) /\ Matches(c, R)

\* A sealer whose head is current is about to seal the window after the last.
SealerSafe(s, c, n) ==
    /\ s \in SealerState
    /\ s.head <= Len(c) /\ s.until <= n
    /\ s.pc # "idle" /\ s.head = Len(c) /\ c # <<>> => s.next = SealedUntil(SealedIn(c))
    /\ s.pc = "apply" => s.next + 2 <= s.until

\* What operation o of job j says of the row r.
Fits(j, r, o) ==
    /\ o.cls = r.cls
    /\ j.query = "subject" => o.user = "pseudonym" /\ o.net = r.net
    /\ j.query = "pseudonymise" => o.net = "network" /\ o.user = r.user

\* PreChain.
Before(c, r) == c # <<>> /\ r.t < c[1].window

Reads == {"candidates", "loose", "rows", "record"}

\* The job's operations fit the rows as they are now, but for those from before the
\* chain.
OpsFit(j, c, R) ==
    \A o \in j.ops, r \in R : SameRow(r, o) /\ ~Before(c, o) => Fits(j, r, o)

\* An operation is about a row that still exists or is older than the clock's window,
\* so no event under way has its key.
OpSafe(j, o, n, R, P) ==
    /\ Deletes(j) => o.t < n
    /\ Bounded(j) => o.t < j.bound
    /\ o.t < n \/ \E r \in R : SameRow(r, o)
    /\ \A e \in P : ~SameRow(e, o)

\* A job whose head is current knows the sealed windows.
JobSafe(j, c, n, R, P) ==
    /\ j \in JobState
    /\ j.head <= Len(c) /\ j.at <= n
    /\ Bounded(j) => c # <<>> /\ j.bound <= SealedUntil(SealedIn(c))
    /\ j.pc \notin {"loose", "rows", "record"} => j.ops = {}
    /\ j.pc \in Reads \cup {"windows"} => j.query # "none"
    /\ j.pc \in {"rows", "record"} => j.ops # {} /\ \A o \in j.ops : o.t \in j.sealed
    /\ \A o \in j.ops : OpSafe(j, o, n, R, P)
    /\ \A a, b \in j.ops : SameRow(a, b) => a = b
    /\ j.pc \in Reads /\ j.head = Len(c) => j.sealed = SealedIn(c) /\ OpsFit(j, c, R)

\* A verification has only sealed windows to look at.
VerifierSafe(v, c) ==
    /\ v \in VerifierState
    /\ v.head <= Len(c) /\ v.todo \subseteq SealedIn(c)
    /\ v.failed => v.head < Len(c)

Safe ==
    /\ StoreSafe(chain, now, rows, pending)
    /\ sealer \in [Sealers -> SealerState]
    /\ \A p \in Sealers : SealerSafe(sealer[p], chain, now)
    /\ job \in [Jobs -> JobState]
    /\ \A p \in Jobs : JobSafe(job[p], chain, now, rows, pending)
    /\ verifier \in [Verifiers -> VerifierState]
    /\ \A p \in Verifiers : VerifierSafe(verifier[p], chain)
    /\ subject \in [block : {"none", "name", "pseudonym"}, token : {"live", "revoked"}]
    /\ crashes \in Nat

-----------------------------------------------------------------------------
(* Numbers, sequences and the chain.                                       *)

LEMMA LeastNumber ==
    ASSUME NEW T, T \subseteq Nat, T # {}
    PROVE  \E x \in T : \A y \in T : x <= y
<1>1. \E x \in T : \A y \in T : ~(<<y, x>> \in OpToRel(<, Nat))
  BY NatLessThanWellFounded, WFMin
<1>2. ASSUME NEW x \in Nat, NEW y \in Nat PROVE <<y, x>> \in OpToRel(<, Nat) <=> y < x
  <2>1. <<y, x>> \in Nat \X Nat /\ <<y, x>>[1] = y /\ <<y, x>>[2] = x
    OBVIOUS
  <2> QED  BY <2>1 DEF OpToRel
<1>3. PICK x \in T : \A y \in T : ~(<<y, x>> \in OpToRel(<, Nat))
  BY <1>1
<1>4. ASSUME NEW y \in T PROVE x <= y
  <2>1. x \in Nat /\ y \in Nat
    OBVIOUS
  <2>2. ~(y < x)
    BY <1>2, <1>3, <2>1
  <2> QED  BY <2>1, <2>2
<1> QED  BY <1>4

\* The end of an interval of sealed windows.
LEMMA UntilOfRange ==
    ASSUME NEW a \in Nat, NEW k \in Nat, a <= k
    PROVE  SealedUntil(a .. k) = k + 1
<1>1. k \in a .. k /\ \A v \in a .. k : v <= k
  OBVIOUS
<1>2. \A w \in a .. k : (\A v \in a .. k : v <= w) => w = k
  OBVIOUS
<1>3. (CHOOSE w \in a .. k : \A v \in a .. k : v <= w) = k
  BY <1>1, <1>2
<1> QED  BY <1>3 DEF SealedUntil

LEMMA AppendFacts ==
    ASSUME NEW c \in Seq(SealRecord), NEW rec \in SealRecord
    PROVE  /\ Append(c, rec) \in Seq(SealRecord)
           /\ Len(Append(c, rec)) = Len(c) + 1 /\ Len(c) \in Nat
           /\ DOMAIN c = 1 .. Len(c)
           /\ DOMAIN Append(c, rec) = 1 .. Len(c) + 1
           /\ \A i \in 1 .. Len(c) : Append(c, rec)[i] = c[i] /\ c[i] \in SealRecord
           /\ Append(c, rec)[Len(c) + 1] = rec
           /\ Append(c, rec) # <<>>
<1>1. /\ Append(c, rec) \in Seq(SealRecord)
      /\ Len(Append(c, rec)) = Len(c) + 1
      /\ \A i \in 1 .. Len(c) : Append(c, rec)[i] = c[i]
      /\ Append(c, rec)[Len(c) + 1] = rec
  BY AppendProperties
<1>2. Len(c) \in Nat /\ DOMAIN c = 1 .. Len(c)
  BY LenProperties
<1>3. DOMAIN Append(c, rec) = 1 .. Len(c) + 1
  BY <1>1, LenProperties
<1>4. Append(c, rec) # <<>>
  BY <1>1, <1>2, EmptySeq
<1>5. \A i \in 1 .. Len(c) : c[i] \in SealRecord
  BY ElementOfSeq
<1> QED  BY <1>1, <1>2, <1>3, <1>4, <1>5

LEMMA SealedAppend ==
    ASSUME NEW c \in Seq(SealRecord), NEW rec \in SealRecord
    PROVE  SealedIn(Append(c, rec)) =
             SealedIn(c) \cup (IF rec.kind = "seal" THEN {rec.window} ELSE {})
<1> DEFINE d == Append(c, rec)
           n == Len(c)
<1>1. /\ DOMAIN c = 1 .. n /\ DOMAIN d = 1 .. n + 1 /\ n \in Nat
      /\ \A i \in 1 .. n : d[i] = c[i]
      /\ d[n + 1] = rec
  BY AppendFacts
<1> HIDE DEF d, n
<1>2. ASSUME NEW w \in SealedIn(d)
      PROVE  w \in SealedIn(c) \cup (IF rec.kind = "seal" THEN {rec.window} ELSE {})
  <2>1. PICK i \in DOMAIN d : d[i].kind = "seal" /\ d[i].window = w
    BY <1>2 DEF SealedIn
  <2> QED  BY <1>1, <2>1 DEF SealedIn
<1>3. ASSUME NEW w \in SealedIn(c) PROVE w \in SealedIn(d)
  <2>1. PICK i \in DOMAIN c : c[i].kind = "seal" /\ c[i].window = w
    BY <1>3 DEF SealedIn
  <2> QED  BY <1>1, <2>1 DEF SealedIn
<1>4. ASSUME rec.kind = "seal" PROVE rec.window \in SealedIn(d)
  <2>1. n + 1 \in DOMAIN d /\ d[n + 1].kind = "seal"
    BY <1>1, <1>4
  <2> QED  BY <1>1, <2>1 DEF SealedIn
<1> QED  BY <1>2, <1>3, <1>4 DEF d

\* The latest record about a window is the one a maximal position holds.
LEMMA LatestIs ==
    ASSUME NEW c \in Seq(SealRecord), NEW w, NEW i \in DOMAIN c, c[i].window = w,
           \A k \in DOMAIN c : c[k].window = w => k <= i
    PROVE  Latest(c, w) = c[i]
<1>1. DOMAIN c \subseteq Nat
  BY LenProperties
<1>2. \A m \in DOMAIN c :
        (c[m].window = w /\ \A k \in DOMAIN c : c[k].window = w => k <= m) => m = i
  BY <1>1
<1>3. (CHOOSE m \in DOMAIN c :
        /\ c[m].window = w
        /\ \A k \in DOMAIN c : c[k].window = w => k <= m) = i
  BY <1>2
<1> QED  BY <1>3 DEF Latest

LEMMA LatestExists ==
    ASSUME NEW c \in Seq(SealRecord), NEW w, \E i \in DOMAIN c : c[i].window = w
    PROVE  \E i \in DOMAIN c : /\ c[i].window = w
                               /\ \A k \in DOMAIN c : c[k].window = w => k <= i
<1> DEFINE n == Len(c)
           T == {m \in Nat : n - m \in DOMAIN c /\ c[n - m].window = w}
<1>1. n \in Nat /\ DOMAIN c = 1 .. n
  BY LenProperties
<1>2. T # {}
  <2>1. PICK i \in DOMAIN c : c[i].window = w
    OBVIOUS
  <2>2. n - i \in Nat /\ n - (n - i) = i
    BY <1>1
  <2>3. n - i \in T
    BY <2>1, <2>2
  <2> QED  BY <2>3
<1>3. PICK m \in T : \A k \in T : m <= k
  BY <1>2, LeastNumber
<1>4. ASSUME NEW k \in DOMAIN c, c[k].window = w PROVE k <= n - m
  <2>1. n - k \in Nat /\ n - (n - k) = k
    BY <1>1
  <2>2. n - k \in T
    BY <1>4, <2>1
  <2>3. m <= n - k /\ m \in Nat
    BY <1>3, <2>2
  <2> QED  BY <1>1, <2>3
<1> QED  BY <1>3, <1>4

LEMMA LatestAppend ==
    ASSUME NEW c \in Seq(SealRecord), NEW rec \in SealRecord
    PROVE  /\ Latest(Append(c, rec), rec.window) = rec
           /\ \A w : w # rec.window /\ (\E i \in DOMAIN c : c[i].window = w)
                       => Latest(Append(c, rec), w) = Latest(c, w)
<1> DEFINE d == Append(c, rec)
           n == Len(c)
<1>1. /\ DOMAIN c = 1 .. n /\ DOMAIN d = 1 .. n + 1 /\ n \in Nat
      /\ \A i \in 1 .. n : d[i] = c[i]
      /\ d[n + 1] = rec /\ d \in Seq(SealRecord)
  BY AppendFacts
<1> HIDE DEF d, n
<1>2. Latest(d, rec.window) = rec
  <2>1. n + 1 \in DOMAIN d /\ d[n + 1].window = rec.window
        /\ \A k \in DOMAIN d : k <= n + 1
    BY <1>1
  <2>2. Latest(d, rec.window) = d[n + 1]
    BY <1>1, <2>1, LatestIs
  <2> QED  BY <1>1, <2>2
<1>3. ASSUME NEW w, w # rec.window, \E i \in DOMAIN c : c[i].window = w
      PROVE  Latest(d, w) = Latest(c, w)
  <2>1. PICK i \in DOMAIN c : /\ c[i].window = w
                              /\ \A k \in DOMAIN c : c[k].window = w => k <= i
    BY <1>3, LatestExists
  <2>2. Latest(c, w) = c[i]
    BY <2>1, LatestIs
  <2>3. i \in DOMAIN d /\ d[i].window = w /\ \A k \in DOMAIN d : d[k].window = w => k <= i
    BY <1>1, <1>3, <2>1
  <2>4. Latest(d, w) = d[i]
    BY <1>1, <2>3, LatestIs
  <2> QED  BY <1>1, <2>1, <2>2, <2>4
<1> QED  BY <1>2, <1>3 DEF d

-----------------------------------------------------------------------------
(* Rows.                                                                   *)

\* A row with its mutable columns replaced.
LEMMA UpdatedRow ==
    ASSUME NEW r \in Row, NEW o \in Row
    PROVE  /\ Updated(r, o) \in Row /\ SameRow(r, Updated(r, o))
           /\ Updated(r, o).cls = r.cls
           /\ Updated(r, o).user = o.user /\ Updated(r, o).net = o.net
BY DEF Row, Updated, SameRow

\* The rows after a batch: the ones it does not name, and the updated ones.
LEMMA InApplied ==
    ASSUME NEW R, NEW ops, NEW delete \in BOOLEAN, NEW s
    PROVE  s \in ApplyOps(R, ops, delete) <=>
             \/ s \in R /\ \A o \in ops : ~SameRow(s, o)
             \/ ~delete /\ \E r \in R, o \in ops : SameRow(r, o) /\ s = Updated(r, o)
<1>1. CASE delete  BY <1>1 DEF ApplyOps
<1>2. CASE ~delete  BY <1>2 DEF ApplyOps
<1> QED  BY <1>1, <1>2

\* A batch keeps rows rows, and touches only what it names.
LEMMA AppliedRow ==
    ASSUME NEW R \in SUBSET Row, NEW ops \in SUBSET Row, NEW delete \in BOOLEAN
    PROVE  /\ ApplyOps(R, ops, delete) \in SUBSET Row
           /\ \A s \in ApplyOps(R, ops, delete) :
                \/ s \in R /\ \A o \in ops : ~SameRow(s, o)
                \/ /\ ~delete
                   /\ \E r \in R, o \in ops :
                        /\ SameRow(r, o) /\ SameRow(r, s) /\ s.cls = r.cls
                        /\ s.user = o.user /\ s.net = o.net
           /\ \A r \in R : \/ r \in ApplyOps(R, ops, delete)
                           \/ delete /\ \E o \in ops : SameRow(r, o)
                           \/ \E s \in ApplyOps(R, ops, delete) : SameRow(r, s)
<1>1. ASSUME NEW s \in ApplyOps(R, ops, delete)
      PROVE  /\ s \in Row
             /\ \/ s \in R /\ \A o \in ops : ~SameRow(s, o)
                \/ /\ ~delete
                   /\ \E r \in R, o \in ops :
                        /\ SameRow(r, o) /\ SameRow(r, s) /\ s.cls = r.cls
                        /\ s.user = o.user /\ s.net = o.net
  <2>1. CASE s \in R /\ \A o \in ops : ~SameRow(s, o)
    BY <2>1
  <2>2. ASSUME ~delete, NEW r \in R, NEW o \in ops, SameRow(r, o), s = Updated(r, o)
        PROVE  /\ s \in Row /\ SameRow(r, s) /\ s.cls = r.cls
               /\ s.user = o.user /\ s.net = o.net
    BY <2>2, UpdatedRow
  <2> QED  BY <2>1, <2>2, InApplied
<1>2. ASSUME NEW r \in R
      PROVE  \/ r \in ApplyOps(R, ops, delete)
             \/ delete /\ \E o \in ops : SameRow(r, o)
             \/ \E s \in ApplyOps(R, ops, delete) : SameRow(r, s)
  <2>1. CASE \A o \in ops : ~SameRow(r, o)
    BY <2>1, InApplied
  <2>2. ASSUME NEW o \in ops, SameRow(r, o), ~delete
        PROVE  Updated(r, o) \in ApplyOps(R, ops, delete) /\ SameRow(r, Updated(r, o))
    BY <2>2, InApplied, UpdatedRow
  <2> QED  BY <2>1, <2>2
<1> QED  BY <1>1, <1>2

LEMMA AppliedCases ==
    ASSUME NEW R \in SUBSET Row, NEW ops \in SUBSET Row, NEW delete \in BOOLEAN,
           NEW s \in ApplyOps(R, ops, delete)
    PROVE  \/ s \in R /\ \A o \in ops : ~SameRow(s, o)
           \/ /\ ~delete
              /\ \E r \in R, o \in ops :
                   /\ SameRow(r, o) /\ SameRow(r, s) /\ s.cls = r.cls
                   /\ s.user = o.user /\ s.net = o.net
BY AppliedRow

\* A batch leaves alone every row whose window it does not name.
LEMMA AppliedElsewhere ==
    ASSUME NEW R \in SUBSET Row, NEW ops \in SUBSET Row, NEW delete \in BOOLEAN, NEW w,
           \A o \in ops : o.t # w
    PROVE  RowsIn(ApplyOps(R, ops, delete), w) = RowsIn(R, w)
<1>1. ASSUME NEW s \in RowsIn(ApplyOps(R, ops, delete), w) PROVE s \in RowsIn(R, w)
  BY <1>1, AppliedRow DEF RowsIn, SameRow
<1>2. ASSUME NEW s \in RowsIn(R, w) PROVE s \in RowsIn(ApplyOps(R, ops, delete), w)
  BY <1>2, InApplied DEF RowsIn, SameRow
<1> QED  BY <1>1, <1>2

-----------------------------------------------------------------------------
(* The sealed windows.                                                     *)

LEMMA NothingSealed == SealedIn(<<>>) = {}
BY EmptySeq DEF SealedIn

LEMMA SealedInterval ==
    ASSUME NEW c \in Seq(SealRecord), NEW n \in Nat, SealedRange(c, n), c # <<>>
    PROVE  \E k \in Nat : /\ c[1].window \in Nat /\ c[1].window <= k /\ k + 2 <= n
                          /\ SealedIn(c) = c[1].window .. k
                          /\ SealedUntil(SealedIn(c)) = k + 1
<1>1. PICK k \in 0 .. n : /\ SealedIn(c) = c[1].window .. k
                          /\ c[1].window <= k
                          /\ k + 2 <= n
  BY DEF SealedRange
<1>2. Len(c) \in Nat /\ Len(c) # 0
  BY LenProperties, EmptySeq
<1>3. c[1] \in SealRecord
  BY <1>2, ElementOfSeq
<1>4. c[1].window \in Nat
  BY <1>3 DEF SealRecord
<1>5. k \in Nat
  BY <1>1
<1>6. SealedUntil(SealedIn(c)) = k + 1
  BY <1>1, <1>4, <1>5, UntilOfRange
<1> QED  BY <1>1, <1>4, <1>5, <1>6

LEMMA SealedFacts ==
    ASSUME NEW c \in Seq(SealRecord), NEW n \in Nat, SealedRange(c, n)
    PROVE  /\ SealedIn(c) \in SUBSET Nat
           /\ SealedIn(c) = {} <=> c = <<>>
           /\ \A w \in SealedIn(c) : w + 2 <= n
           /\ c # <<>> => SealedUntil(SealedIn(c)) \in Nat
<1>1. CASE c = <<>>
  BY <1>1, NothingSealed
<1>2. CASE c # <<>>
  <2>1. PICK k \in Nat : /\ c[1].window \in Nat /\ c[1].window <= k /\ k + 2 <= n
                         /\ SealedIn(c) = c[1].window .. k
                         /\ SealedUntil(SealedIn(c)) = k + 1
    BY <1>2, SealedInterval
  <2> QED  BY <1>2, <2>1
<1> QED  BY <1>1, <1>2

\* A record that seals the next window, or is about a sealed one, keeps the range.
LEMMA RangeGrows ==
    ASSUME NEW c \in Seq(SealRecord), NEW n \in Nat, SealedRange(c, n), NEW rec \in SealRecord,
           \/ /\ rec.kind = "seal" /\ rec.window + 2 <= n
              /\ c # <<>> => rec.window = SealedUntil(SealedIn(c))
           \/ rec.kind # "seal" /\ rec.window \in SealedIn(c)
    PROVE  /\ SealedRange(Append(c, rec), n)
           /\ c # <<>> => /\ Append(c, rec)[1] = c[1]
                          /\ SealedUntil(SealedIn(c)) <= SealedUntil(SealedIn(Append(c, rec)))
           /\ SealedIn(c) \subseteq SealedIn(Append(c, rec))
           /\ rec.window \in SealedIn(Append(c, rec))
           /\ rec.kind = "seal" => /\ SealedUntil(SealedIn(Append(c, rec))) = rec.window + 1
                                   /\ rec.window \notin SealedIn(c)
                                   /\ c # <<>> => rec.window - 1 \in SealedIn(c)
<1> DEFINE d == Append(c, rec)
           m == Len(c)
           S == SealedIn(c)
           T == SealedIn(d)
<1>1. /\ d \in Seq(SealRecord) /\ m \in Nat /\ d # <<>>
      /\ DOMAIN c = 1 .. m /\ DOMAIN d = 1 .. m + 1
      /\ \A i \in 1 .. m : d[i] = c[i]
      /\ d[m + 1] = rec
  BY AppendFacts
<1>2. T = S \cup (IF rec.kind = "seal" THEN {rec.window} ELSE {})
  BY SealedAppend
<1>3. rec.window \in Nat
  BY DEF SealRecord
<1>4. c = <<>> <=> m = 0
  BY <1>1, EmptySeq
<1> HIDE DEF d, m
<1>5. \A i \in DOMAIN d : d[i].window \in T
  <2>1. \A i \in 1 .. m : c[i].window \in S
    BY <1>1 DEF SealedRange
  <2>2. rec.window \in T
    BY <1>2
  <2> QED  BY <1>1, <1>2, <2>1, <2>2
<1>6. CASE c = <<>>
  <2>1. S = {}
    BY <1>6, NothingSealed
  <2>2. rec.kind = "seal" /\ rec.window + 2 <= n /\ T = {rec.window} /\ d[1] = rec
    BY <1>1, <1>2, <1>4, <1>6, <2>1
  <2>3. T = rec.window .. rec.window
    BY <1>3, <2>2
  <2>4. SealedUntil(T) = rec.window + 1
    <3>1. SealedUntil(rec.window .. rec.window) = rec.window + 1
      <4>1. ASSUME NEW k \in Nat PROVE k <= k
        OBVIOUS
      <4>2. ASSUME NEW k \in Nat PROVE SealedUntil(k .. k) = k + 1
        BY <4>1, UntilOfRange, Zenon
      <4> QED  BY <1>3, <4>2
    <3> HIDE DEF T
    <3> QED  BY <2>3, <3>1
  <2>5. rec.window \in 0 .. n
    BY <1>3, <2>2
  <2>6. SealedRange(d, n)
    <3>1. \E l \in 0 .. n : T = d[1].window .. l /\ d[1].window <= l /\ l + 2 <= n
      <4> HIDE DEF T
      <4> QED  BY <1>3, <2>2, <2>3, <2>5
    <3> QED  BY <1>5, <3>1 DEF SealedRange
  <2> QED  BY <1>6, <2>1, <2>2, <2>4, <2>6 DEF d
<1>7. CASE c # <<>>
  <2>1. PICK k \in Nat : /\ c[1].window \in Nat /\ c[1].window <= k /\ k + 2 <= n
                         /\ S = c[1].window .. k
                         /\ SealedUntil(S) = k + 1
    BY <1>7, SealedInterval
  <2>2. d[1] = c[1]
    BY <1>1, <1>4, <1>7
  <2>3. CASE rec.kind = "seal"
    <3>1. rec.window = k + 1 /\ k + 3 <= n
      BY <1>7, <2>1, <2>3
    <3>2. T = c[1].window .. (k + 1)
      BY <1>2, <2>1, <2>3, <3>1
    <3>3. SealedUntil(T) = k + 2
      <4>1. k + 1 \in Nat /\ c[1].window <= k + 1 /\ (k + 1) + 1 = k + 2
        BY <2>1
      <4>2. SealedUntil(c[1].window .. (k + 1)) = (k + 1) + 1
        BY <2>1, <4>1, UntilOfRange
      <4> HIDE DEF T
      <4> QED  BY <3>2, <4>1, <4>2
    <3>4. \E l \in 0 .. n : T = c[1].window .. l /\ c[1].window <= l /\ l + 2 <= n
      <4>1. k + 1 \in 0 .. n /\ c[1].window <= k + 1 /\ (k + 1) + 2 <= n
        BY <2>1, <3>1
      <4> HIDE DEF T
      <4> QED  BY <3>2, <4>1
    <3>5. SealedRange(d, n)
      BY <1>5, <2>2, <3>4 DEF SealedRange
    <3>6. rec.window \notin S /\ rec.window - 1 \in S
      BY <2>1, <3>1
    <3> QED  BY <1>2, <2>1, <2>2, <2>3, <3>1, <3>3, <3>5, <3>6 DEF d
  <2>4. CASE rec.kind # "seal"
    <3>1. T = S
      BY <1>2, <2>4
    <3>2. k \in 0 .. n
      BY <2>1
    <3>3. SealedRange(d, n)
      BY <1>5, <2>1, <2>2, <3>1, <3>2 DEF SealedRange
    <3> QED  BY <2>1, <2>2, <2>4, <3>1, <3>3 DEF d
  <2> QED  BY <2>3, <2>4
<1> QED  BY <1>6, <1>7

\* The range outlives a tick.
LEMMA RangeLasts ==
    ASSUME NEW c \in Seq(SealRecord), NEW n \in Nat, SealedRange(c, n)
    PROVE  SealedRange(c, n + 1)
<1>1. CASE c = <<>>
  BY <1>1, EmptySeq DEF SealedRange
<1>2. CASE c # <<>>
  <2>1. PICK k \in 0 .. n : /\ SealedIn(c) = c[1].window .. k
                            /\ c[1].window <= k
                            /\ k + 2 <= n
    BY <1>2 DEF SealedRange
  <2>2. k \in 0 .. (n + 1) /\ k + 2 <= n + 1
    BY <2>1
  <2> QED  BY <1>2, <2>1, <2>2 DEF SealedRange
<1> QED  BY <1>1, <1>2

-----------------------------------------------------------------------------
(* The store under each kind of step.                                      *)

LEMMA RecordType ==
    ASSUME NEW h \in Nat, NEW kind \in SealKind, NEW w \in Nat, NEW R \in SUBSET Row
    PROVE  LET rec == NextRecord(h, kind, w, R)
           IN  /\ rec \in SealRecord /\ rec.kind = kind /\ rec.window = w /\ rec.rows = R
               /\ rec.seq = h + 1 /\ rec.prev = h
BY DEF NextRecord, SealRecord

LEMMA LinkedGrows ==
    ASSUME NEW c \in Seq(SealRecord), Linked(c), NEW rec \in SealRecord,
           rec.seq = Len(c) + 1, rec.prev = Len(c)
    PROVE  Linked(Append(c, rec))
<1> DEFINE d == Append(c, rec)
           m == Len(c)
<1>1. /\ m \in Nat /\ DOMAIN c = 1 .. m /\ DOMAIN d = 1 .. m + 1
      /\ \A i \in 1 .. m : d[i] = c[i]
      /\ d[m + 1] = rec
  BY AppendFacts
<1>2. rec.seq = m + 1 /\ rec.prev = m
  OBVIOUS
<1> HIDE DEF d, m
<1>3. ASSUME NEW i \in DOMAIN d PROVE d[i].seq = i /\ d[i].prev = i - 1
  <2>1. CASE i \in 1 .. m
    BY <1>1, <2>1 DEF Linked
  <2>2. CASE i = m + 1
    BY <1>1, <1>2, <2>2
  <2> QED  BY <1>1, <2>1, <2>2
<1>4. Linked(d)
  BY <1>3 DEF Linked
<1> QED  BY <1>4 DEF d

\* The latest records after one more.
LEMMA MatchesGrows ==
    ASSUME NEW c \in Seq(SealRecord), NEW R \in SUBSET Row, NEW Q \in SUBSET Row,
           Matches(c, R), NEW rec \in SealRecord, rec.seq = Len(c) + 1, rec.prev = Len(c),
           rec.rows = RowsIn(Q, rec.window),
           \A w : w # rec.window => RowsIn(Q, w) = RowsIn(R, w)
    PROVE  Matches(Append(c, rec), Q)
<1>1. Linked(Append(c, rec))
  BY LinkedGrows DEF Matches
<1>2. ASSUME NEW w \in SealedIn(Append(c, rec))
      PROVE  RowsIn(Q, w) = Latest(Append(c, rec), w).rows
  <2>1. CASE w = rec.window
    BY <2>1, LatestAppend
  <2>2. CASE w # rec.window
    <3>1. w \in SealedIn(c)
      BY <1>2, <2>2, SealedAppend
    <3>2. \E i \in DOMAIN c : c[i].window = w
      BY <3>1 DEF SealedIn
    <3>3. Latest(Append(c, rec), w) = Latest(c, w)
      BY <2>2, <3>2, LatestAppend
    <3> QED  BY <2>2, <3>1, <3>3 DEF Matches
  <2> QED  BY <2>1, <2>2
<1> QED  BY <1>1, <1>2 DEF Matches

LEMMA StoreNewEvent ==
    ASSUME NEW c, NEW n, NEW R, NEW P, StoreSafe(c, n, R, P), NEW e \in Row, e.t = n,
           \A r \in R \cup P : r.id # e.id
    PROVE  StoreSafe(c, n, R, P \cup {e})
BY DEF StoreSafe, PendingRecent, Keys

\* An event under way is too recent for any sealed window.
LEMMA InsertElsewhere ==
    ASSUME NEW c, NEW n, NEW R, NEW P, StoreSafe(c, n, R, P), NEW e \in P, NEW w \in SealedIn(c)
    PROVE  RowsIn(R \cup {e}, w) = RowsIn(R, w)
<1>1. w + 2 <= n /\ w \in Nat
  BY SealedFacts DEF StoreSafe
<1>2. n <= e.t + 1 /\ e.t \in Nat /\ n \in Nat
  BY DEF StoreSafe, PendingRecent, Row
<1>3. e.t # w
  BY <1>1, <1>2
<1> QED  BY <1>3 DEF RowsIn

LEMMA StoreInsert ==
    ASSUME NEW c, NEW n, NEW R, NEW P, StoreSafe(c, n, R, P), NEW e \in P
    PROVE  StoreSafe(c, n, R \cup {e}, P \ {e})
<1>1. Keys(R \cup {e}, P \ {e}) /\ PendingRecent(n, P \ {e})
  BY DEF StoreSafe, Keys, PendingRecent, SameRow
<1>2. \A w \in SealedIn(c) : RowsIn(R \cup {e}, w) = RowsIn(R, w)
  BY InsertElsewhere
<1> QED  BY <1>1, <1>2 DEF StoreSafe, Matches

LEMMA StoreTick ==
    ASSUME NEW c, NEW n, NEW R, NEW P, StoreSafe(c, n, R, P), \A e \in P : n <= e.t
    PROVE  StoreSafe(c, n + 1, R, P)
<1>1. PendingRecent(n + 1, P)
  BY DEF StoreSafe, PendingRecent, Row
<1>2. SealedRange(c, n + 1) /\ n + 1 \in Nat /\ n + 1 >= 2
  BY RangeLasts DEF StoreSafe
<1> QED  BY <1>1, <1>2 DEF StoreSafe

LEMMA StoreSeal ==
    ASSUME NEW c, NEW n, NEW R, NEW P, StoreSafe(c, n, R, P), NEW w \in Nat, w + 2 <= n,
           c # <<>> => w = SealedUntil(SealedIn(c))
    PROVE  StoreSafe(Append(c, NextRecord(Len(c), "seal", w, RowsIn(R, w))), n, R, P)
<1> DEFINE rec == NextRecord(Len(c), "seal", w, RowsIn(R, w))
<1>1. /\ c \in Seq(SealRecord) /\ Len(c) \in Nat /\ n \in Nat /\ R \in SUBSET Row
      /\ RowsIn(R, w) \in SUBSET Row /\ "seal" \in SealKind
  BY LenProperties DEF StoreSafe, RowsIn, SealKind
<1>2. /\ rec \in SealRecord /\ rec.kind = "seal" /\ rec.window = w /\ rec.rows = RowsIn(R, w)
      /\ rec.seq = Len(c) + 1 /\ rec.prev = Len(c)
  <2>1. ASSUME NEW h \in Nat, NEW S \in SUBSET Row
        PROVE  LET x == NextRecord(h, "seal", w, S)
               IN  /\ x \in SealRecord /\ x.kind = "seal" /\ x.window = w /\ x.rows = S
                   /\ x.seq = h + 1 /\ x.prev = h
    BY <1>1, RecordType
  <2> QED  BY <1>1, <2>1
<1> HIDE DEF rec
<1>3. Append(c, rec) \in Seq(SealRecord)
  BY <1>1, <1>2, AppendFacts
<1>4. SealedRange(Append(c, rec), n)
  BY <1>1, <1>2, RangeGrows DEF StoreSafe
<1>5. Matches(Append(c, rec), R)
  BY <1>1, <1>2, MatchesGrows DEF StoreSafe
<1>6. StoreSafe(Append(c, rec), n, R, P)
  BY <1>3, <1>4, <1>5 DEF StoreSafe
<1> QED  BY <1>6 DEF rec

\* The primary key outlives a batch.
LEMMA AppliedKeys ==
    ASSUME NEW R \in SUBSET Row, NEW P, Keys(R, P), NEW ops \in SUBSET Row,
           NEW delete \in BOOLEAN, \A a, b \in ops : SameRow(a, b) => a = b
    PROVE  Keys(ApplyOps(R, ops, delete), P)
<1> DEFINE Q == ApplyOps(R, ops, delete)
<1>1. \A s : s \in Q <=>
             \/ s \in R /\ \A o \in ops : ~SameRow(s, o)
             \/ ~delete /\ \E r \in R, o \in ops : SameRow(r, o) /\ s = Updated(r, o)
  BY InApplied
<1>2. \A r \in R, o \in ops : SameRow(r, Updated(r, o))
  BY UpdatedRow
<1> HIDE DEF Q
<1>3. ASSUME NEW a \in Q, NEW b \in Q, SameRow(a, b) PROVE a = b
  <2>1. CASE a \in R /\ b \in R
    BY <1>3, <2>1 DEF Keys
  <2>2. ASSUME NEW r \in R, NEW o \in ops, SameRow(r, o), a = Updated(r, o),
               b \in R, \A x \in ops : ~SameRow(b, x)
        PROVE  FALSE
    <3>1. SameRow(r, b)
      BY <1>2, <1>3, <2>2 DEF SameRow
    <3>2. r = b
      BY <2>2, <3>1 DEF Keys
    <3> QED  BY <2>2, <3>2
  <2>3. ASSUME NEW r \in R, NEW o \in ops, SameRow(r, o), b = Updated(r, o),
               a \in R, \A x \in ops : ~SameRow(a, x)
        PROVE  FALSE
    <3>1. SameRow(r, a)
      BY <1>2, <1>3, <2>3 DEF SameRow
    <3>2. r = a
      BY <2>3, <3>1 DEF Keys
    <3> QED  BY <2>3, <3>2
  <2>4. ASSUME NEW r \in R, NEW o \in ops, SameRow(r, o), a = Updated(r, o),
               NEW q \in R, NEW x \in ops, SameRow(q, x), b = Updated(q, x)
        PROVE  a = b
    <3>1. SameRow(r, q)
      BY <1>2, <1>3, <2>4 DEF SameRow
    <3>2. r = q
      BY <3>1 DEF Keys
    <3>3. SameRow(o, x)
      BY <2>4, <3>2 DEF SameRow
    <3>4. o = x
      BY <3>3
    <3> QED  BY <2>4, <3>2, <3>4
  <2> QED  BY <1>1, <2>1, <2>2, <2>3, <2>4
<1>4. ASSUME NEW e \in P, NEW s \in Q PROVE e.id # s.id
  BY <1>1, <1>2 DEF Keys, SameRow
<1>5. Keys(Q, P)
  BY <1>3, <1>4 DEF Keys
<1> QED  BY <1>5 DEF Q

LEMMA StoreLoose ==
    ASSUME NEW c, NEW n, NEW R, NEW P, StoreSafe(c, n, R, P), NEW ops \in SUBSET Row,
           NEW delete \in BOOLEAN, \A a, b \in ops : SameRow(a, b) => a = b,
           \A o \in ops : o.t \notin SealedIn(c)
    PROVE  StoreSafe(c, n, ApplyOps(R, ops, delete), P)
<1>1. R \in SUBSET Row /\ Keys(R, P)
  BY DEF StoreSafe
<1>2. ApplyOps(R, ops, delete) \in SUBSET Row
  BY <1>1, AppliedRow
<1>3. Keys(ApplyOps(R, ops, delete), P)
  BY <1>1, AppliedKeys
<1>4. \A w \in SealedIn(c) : RowsIn(ApplyOps(R, ops, delete), w) = RowsIn(R, w)
  BY <1>1, AppliedElsewhere
<1> QED  BY <1>2, <1>3, <1>4 DEF StoreSafe, Matches

LEMMA StoreRecord ==
    ASSUME NEW c, NEW n, NEW R, NEW P, StoreSafe(c, n, R, P), NEW ops \in SUBSET Row,
           NEW delete \in BOOLEAN, \A a, b \in ops : SameRow(a, b) => a = b,
           NEW w \in SealedIn(c), \A o \in ops : o.t = w, NEW kind \in {"expire", "amend"}
    PROVE  LET Q == ApplyOps(R, ops, delete)
           IN  StoreSafe(Append(c, NextRecord(Len(c), kind, w, RowsIn(Q, w))), n, Q, P)
<1> DEFINE Q == ApplyOps(R, ops, delete)
           rec == NextRecord(Len(c), kind, w, RowsIn(Q, w))
<1>1. /\ c \in Seq(SealRecord) /\ Len(c) \in Nat /\ n \in Nat /\ R \in SUBSET Row /\ Keys(R, P)
      /\ kind \in SealKind
  BY LenProperties DEF StoreSafe, SealKind
<1>2. Q \in SUBSET Row /\ Keys(Q, P)
  <2>1. Q \in SUBSET Row
    BY <1>1, AppliedRow
  <2>2. Keys(Q, P)
    BY <1>1, AppliedKeys, Zenon
  <2> QED  BY <2>1, <2>2
<1>3. \A v : v # w => RowsIn(Q, v) = RowsIn(R, v)
  BY <1>1, AppliedElsewhere
<1> HIDE DEF Q
<1>4. w \in Nat /\ RowsIn(Q, w) \in SUBSET Row
  BY <1>1, <1>2, SealedFacts DEF StoreSafe, RowsIn
<1>5. /\ rec \in SealRecord /\ rec.kind = kind /\ rec.window = w /\ rec.rows = RowsIn(Q, w)
      /\ rec.seq = Len(c) + 1 /\ rec.prev = Len(c)
  BY <1>1, <1>4, RecordType
<1> HIDE DEF rec
<1>6. Append(c, rec) \in Seq(SealRecord)
  BY <1>1, <1>5, AppendFacts
<1>7. SealedRange(Append(c, rec), n)
  BY <1>1, <1>5, RangeGrows DEF StoreSafe
<1>8. Matches(Append(c, rec), Q)
  BY <1>1, <1>2, <1>3, <1>5, MatchesGrows DEF StoreSafe
<1>9. StoreSafe(Append(c, rec), n, Q, P)
  BY <1>2, <1>6, <1>7, <1>8 DEF StoreSafe
<1> QED  BY <1>9 DEF rec, Q

-----------------------------------------------------------------------------
(* What a task knows outlives the steps of the others.                     *)

LEMMA SealerLasts ==
    ASSUME NEW s, NEW c \in Seq(SealRecord), NEW n \in Nat, SealerSafe(s, c, n),
           NEW d \in Seq(SealRecord), NEW m \in Nat, n <= m, d = c \/ Len(d) = Len(c) + 1
    PROVE  SealerSafe(s, d, m)
<1>1. s.head \in Nat /\ s.until \in Nat /\ Len(c) \in Nat /\ Len(d) \in Nat
  BY LenProperties DEF SealerSafe, SealerState
<1>2. s.until <= m /\ s.head <= Len(d)
  BY <1>1 DEF SealerSafe
<1>3. d # c => s.head # Len(d)
  BY <1>1 DEF SealerSafe
<1> QED  BY <1>2, <1>3 DEF SealerSafe

LEMMA VerifierLasts ==
    ASSUME NEW v, NEW c \in Seq(SealRecord), VerifierSafe(v, c), NEW d \in Seq(SealRecord),
           SealedIn(c) \subseteq SealedIn(d), d = c \/ Len(d) = Len(c) + 1
    PROVE  VerifierSafe(v, d)
<1>1. v.head \in Nat /\ Len(c) \in Nat /\ Len(d) \in Nat
  BY LenProperties DEF VerifierSafe, VerifierState
<1> QED  BY <1>1 DEF VerifierSafe

LEMMA JobLasts ==
    ASSUME NEW j, NEW c, NEW n, NEW R, NEW P, StoreSafe(c, n, R, P), JobSafe(j, c, n, R, P),
           NEW d, NEW m, NEW Q, NEW S, StoreSafe(d, m, Q, S), n <= m,
           \/ d = c
           \/ /\ Len(d) = Len(c) + 1
              /\ c # <<>> => /\ d # <<>>
                             /\ SealedUntil(SealedIn(c)) <= SealedUntil(SealedIn(d)),
           d = c /\ OpsFit(j, c, R) => OpsFit(j, c, Q),
           \A r \in R : r.t < m \/ \E q \in Q : SameRow(r, q),
           \A e \in S : e \in P \/ \A o \in j.ops : ~SameRow(e, o)
    PROVE  JobSafe(j, d, m, Q, S)
<1>1. /\ c \in Seq(SealRecord) /\ n \in Nat /\ SealedRange(c, n) /\ R \in SUBSET Row
      /\ d \in Seq(SealRecord) /\ m \in Nat /\ SealedRange(d, m) /\ Q \in SUBSET Row
      /\ Len(c) \in Nat /\ Len(d) \in Nat
  BY LenProperties DEF StoreSafe
<1>2. /\ j \in JobState /\ j.head \in Nat /\ j.at \in Nat /\ j.bound \in Nat
      /\ j.ops \in SUBSET Row
  BY DEF JobSafe, JobState
<1>3. j.head <= Len(d) /\ j.at <= m
  BY <1>1, <1>2 DEF JobSafe
<1>4. Bounded(j) => d # <<>> /\ j.bound <= SealedUntil(SealedIn(d))
  <2>1. c # <<>> => SealedUntil(SealedIn(c)) \in Nat
    BY <1>1, SealedFacts
  <2>2. d # <<>> => SealedUntil(SealedIn(d)) \in Nat
    BY <1>1, SealedFacts
  <2> QED  BY <1>2, <2>1, <2>2 DEF JobSafe
<1>5. ASSUME NEW o \in j.ops PROVE OpSafe(j, o, m, Q, S)
  <2>1. OpSafe(j, o, n, R, P) /\ o.t \in Nat
    BY <1>2 DEF JobSafe, Row
  <2>2. Deletes(j) => o.t < m
    BY <1>1, <2>1 DEF OpSafe
  <2>3. o.t < m \/ \E r \in Q : SameRow(r, o)
    <3>1. CASE o.t < n
      BY <1>1, <2>1, <3>1
    <3>2. ASSUME NEW r \in R, SameRow(r, o)
          PROVE  o.t < m \/ \E q \in Q : SameRow(q, o)
      BY <3>2 DEF SameRow
    <3> QED  BY <2>1, <3>1, <3>2 DEF OpSafe
  <2> QED  BY <2>1, <2>2, <2>3 DEF OpSafe
<1>6. j.head = Len(d) => d = c
  BY <1>1, <1>2 DEF JobSafe
<1>7. j.pc \in Reads /\ j.head = Len(d) => j.sealed = SealedIn(d) /\ OpsFit(j, d, Q)
  BY <1>6 DEF JobSafe
<1> QED  BY <1>3, <1>4, <1>5, <1>7 DEF JobSafe

\* What a query that does not delete does to a row: it takes personal data away.
LEMMA FitRedacts ==
    ASSUME NEW j \in JobState, j.query # "none", ~Deletes(j), NEW r, NEW o, NEW s,
           Fits(j, r, o), SameRow(r, s), s.cls = r.cls, s.user = o.user, s.net = o.net
    PROVE  RedactedRow(r, s)
BY DEF JobState, Deletes, Fits, RedactedRow

\* A window after the chain's start and before its end is sealed.
LEMMA InsideIsSealed ==
    ASSUME NEW c \in Seq(SealRecord), NEW n \in Nat, SealedRange(c, n), c # <<>>,
           NEW w \in Nat, c[1].window <= w, NEW b \in Nat, w < b,
           b <= SealedUntil(SealedIn(c))
    PROVE  w \in SealedIn(c)
<1>1. PICK k \in Nat : /\ c[1].window \in Nat /\ c[1].window <= k /\ k + 2 <= n
                       /\ SealedIn(c) = c[1].window .. k
                       /\ SealedUntil(SealedIn(c)) = k + 1
  BY SealedInterval
<1>2. w <= k
  BY <1>1
<1> QED  BY <1>1, <1>2

\* Only an erasure works on rows at or after the end of the sealed range without
\* deleting them.
LEMMA LooseIsSubject ==
    ASSUME NEW j, NEW c, NEW n, NEW R, NEW P, StoreSafe(c, n, R, P), JobSafe(j, c, n, R, P),
           NEW o \in j.ops, ~Before(c, o), o.t \notin SealedIn(c)
    PROVE  ~Bounded(j)
<1> SUFFICES ASSUME Bounded(j) PROVE FALSE
  OBVIOUS
<1>1. /\ c \in Seq(SealRecord) /\ n \in Nat /\ SealedRange(c, n) /\ c # <<>>
      /\ j.bound \in Nat /\ j.bound <= SealedUntil(SealedIn(c))
      /\ o.t \in Nat /\ o.t < j.bound
  BY DEF StoreSafe, JobSafe, JobState, OpSafe, Row
<1>2. c[1].window \in Nat
  BY <1>1, SealedInterval
<1>3. c[1].window <= o.t
  BY <1>1, <1>2 DEF Before
<1> QED  BY <1>1, <1>3, InsideIsSealed

\* One job's batch without a record leaves the operations of another fitting.
LEMMA FitsAfterLoose ==
    ASSUME NEW c, NEW n, NEW R, NEW P, StoreSafe(c, n, R, P),
           NEW k, JobSafe(k, c, n, R, P), k.pc = "loose", k.head = Len(c),
           NEW j, JobSafe(j, c, n, R, P), OpsFit(j, c, R)
    PROVE  OpsFit(j, c, ApplyOps(R, LooseOps(k), Deletes(k)))
<1> DEFINE del == Deletes(k)
           Q == ApplyOps(R, LooseOps(k), del)
<1>1. /\ R \in SUBSET Row /\ k \in JobState /\ j \in JobState /\ LooseOps(k) \in SUBSET Row
      /\ del \in BOOLEAN /\ j.ops \in SUBSET Row
  BY DEF StoreSafe, JobSafe, JobState, LooseOps, Deletes
<1>2. k.sealed = SealedIn(c) /\ OpsFit(k, c, R) /\ k.query # "none"
  BY DEF JobSafe, Reads
<1>0. del <=> Deletes(k)
  OBVIOUS
<1> HIDE DEF del
<1>3. ASSUME NEW o \in j.ops, NEW q \in Q, SameRow(q, o), ~Before(c, o) PROVE Fits(j, q, o)
  <2>1. CASE q \in R
    BY <1>3, <2>1 DEF OpsFit
  <2>2. ASSUME ~Deletes(k), NEW r \in R, NEW x \in LooseOps(k), SameRow(r, x), SameRow(r, q),
               q.cls = r.cls, q.user = x.user, q.net = x.net
        PROVE  Fits(j, q, o)
    <3>1. x \in k.ops /\ x.t \notin SealedIn(c) /\ ~Before(c, x) /\ x.t = o.t /\ SameRow(r, o)
      BY <1>2, <1>3, <2>2 DEF LooseOps, SameRow, Before
    <3>2. ~Bounded(k) /\ ~Bounded(j)
      BY <1>3, <3>1, LooseIsSubject
    <3>3. k.query = "subject"
      BY <1>1, <1>2, <2>2, <3>2 DEF JobState, Deletes, Bounded
    <3>4. Fits(k, r, x)
      BY <1>2, <2>2, <3>1 DEF OpsFit
    <3>5. Fits(j, r, o)
      BY <1>3, <3>1 DEF OpsFit
    <3>6. q.net = r.net /\ q.cls = r.cls
      BY <2>2, <3>3, <3>4 DEF Fits
    <3> QED  BY <3>2, <3>5, <3>6 DEF Fits, Bounded
  <2> QED  BY <1>0, <1>1, <2>1, <2>2, AppliedCases
<1>4. OpsFit(j, c, Q)
  BY <1>3 DEF OpsFit
<1> QED  BY <1>4 DEF Q, del

-----------------------------------------------------------------------------
(* The steps of a sealer.                                                  *)

LEMMA SealerIdleSafe ==
    ASSUME NEW c, NEW n, NEW R, NEW P, StoreSafe(c, n, R, P)
    PROVE  SealerSafe(SealerIdle, c, n)
<1>1. Len(c) \in Nat /\ n \in Nat
  BY LenProperties DEF StoreSafe
<1>2. /\ SealerIdle \in SealerState /\ SealerIdle.pc = "idle" /\ SealerIdle.head = 0
      /\ SealerIdle.until = 0
  BY DEF SealerIdle, SealerState
<1> QED  BY <1>1, <1>2 DEF SealerSafe

LEMMA SealStartSafe ==
    ASSUME NEW c, NEW n, NEW R, NEW P, StoreSafe(c, n, R, P)
    PROVE  SealerSafe([SealerIdle EXCEPT
               !.pc = "read", !.head = Len(c), !.until = n,
               !.next = IF SealedIn(c) = {} THEN n - 2 ELSE SealedUntil(SealedIn(c))], c, n)
<1> DEFINE x == IF SealedIn(c) = {} THEN n - 2 ELSE SealedUntil(SealedIn(c))
           s == [SealerIdle EXCEPT !.pc = "read", !.head = Len(c), !.until = n, !.next = x]
<1>1. /\ c \in Seq(SealRecord) /\ n \in Nat /\ SealedRange(c, n) /\ n >= 2 /\ Len(c) \in Nat
  BY LenProperties DEF StoreSafe
<1>2. x \in Nat /\ (c # <<>> => x = SealedUntil(SealedIn(c)))
  <2>1. /\ SealedIn(c) = {} <=> c = <<>>
        /\ c # <<>> => SealedUntil(SealedIn(c)) \in Nat
    BY <1>1, SealedFacts
  <2>2. n - 2 \in Nat
    BY <1>1
  <2> QED  BY <2>1, <2>2
<1> HIDE DEF x
<1>3. /\ s \in SealerState /\ s.pc = "read" /\ s.head = Len(c) /\ s.until = n /\ s.next = x
  BY <1>1, <1>2 DEF SealerIdle, SealerState
<1> HIDE DEF s
<1>4. SealerSafe(s, c, n)
  BY <1>1, <1>2, <1>3 DEF SealerSafe
<1> QED  BY <1>4 DEF s, x

LEMMA SealReadSafe ==
    ASSUME NEW c, NEW n, NEW s, SealerSafe(s, c, n), s.pc = "read", SealDue(s),
           NEW S \in SUBSET Row
    PROVE  SealerSafe([s EXCEPT !.pc = "apply", !.snap = S], c, n)
<1> DEFINE k == [s EXCEPT !.pc = "apply", !.snap = S]
<1>1. s \in SealerState
  BY DEF SealerSafe
<1>2. /\ k \in SealerState /\ k.pc = "apply" /\ k.head = s.head /\ k.until = s.until
      /\ k.next = s.next
  BY <1>1 DEF SealerState
<1> HIDE DEF k
<1>3. s.next + 2 <= s.until
  BY <1>1 DEF SealDue, SealerState
<1>4. SealerSafe(k, c, n)
  BY <1>2, <1>3 DEF SealerSafe
<1> QED  BY <1>4 DEF k

LEMMA SealedFields ==
    ASSUME NEW s \in SealerState,
           NEW k, k = [s EXCEPT !.pc = "read", !.head = s.head + 1, !.next = s.next + 1,
                                !.count = s.count + 1, !.snap = {}]
    PROVE  /\ k \in SealerState /\ k.pc = "read" /\ k.head = s.head + 1
           /\ k.next = s.next + 1 /\ k.until = s.until
<1> DEFINE h == s.head + 1
           x == s.next + 1
           y == s.count + 1
           f == [s EXCEPT !.pc = "read", !.head = h, !.next = x, !.count = y, !.snap = {}]
<1>1. h \in Nat /\ x \in Nat /\ y \in Nat /\ k = f
  BY DEF SealerState
<1> HIDE DEF h, x, y
<1>2. f \in SealerState /\ f.pc = "read" /\ f.head = h /\ f.next = x /\ f.until = s.until
  BY <1>1 DEF SealerState
<1> QED  BY <1>1, <1>2 DEF h, x, y

\* The window after the last one joins the chain.
Sealing(c, n, R, P, w, d) ==
    /\ StoreSafe(c, n, R, P) /\ w \in Nat /\ w + 2 <= n
    /\ c # <<>> => w = SealedUntil(SealedIn(c))
    /\ d = Append(c, NextRecord(Len(c), "seal", w, RowsIn(R, w)))

LEMMA SealGrows ==
    ASSUME NEW c, NEW n, NEW R, NEW P, NEW w, NEW d, Sealing(c, n, R, P, w, d)
    PROVE  /\ StoreSafe(d, n, R, P)
           /\ Len(d) = Len(c) + 1 /\ Len(c) \in Nat
           /\ SealedIn(d) = SealedIn(c) \cup {w} /\ w \notin SealedIn(c)
           /\ SealedUntil(SealedIn(d)) = w + 1
           /\ c # <<>> => /\ d # <<>> /\ w - 1 \in SealedIn(c)
                          /\ SealedUntil(SealedIn(c)) <= SealedUntil(SealedIn(d))
<1> USE DEF Sealing
<1> DEFINE rec == NextRecord(Len(c), "seal", w, RowsIn(R, w))
<1>1. /\ c \in Seq(SealRecord) /\ n \in Nat /\ SealedRange(c, n) /\ Len(c) \in Nat
      /\ R \in SUBSET Row
  BY LenProperties DEF StoreSafe
<1>2. RowsIn(R, w) \in SUBSET Row
  BY <1>1 DEF RowsIn
<1>3. rec \in SealRecord /\ rec.kind = "seal" /\ rec.window = w
  BY <1>1, <1>2, RecordType DEF SealKind
<1>4. StoreSafe(d, n, R, P)
  BY StoreSeal
<1>5. d = Append(c, rec)
  OBVIOUS
<1> HIDE DEF rec
<1>6. d \in Seq(SealRecord) /\ Len(d) = Len(c) + 1 /\ d # <<>>
  BY <1>1, <1>3, <1>5, AppendFacts
<1>7. SealedIn(d) = SealedIn(c) \cup {w}
  BY <1>1, <1>3, <1>5, SealedAppend
<1>8. /\ c # <<>> => SealedUntil(SealedIn(c)) <= SealedUntil(SealedIn(d))
      /\ SealedUntil(SealedIn(d)) = w + 1
      /\ w \notin SealedIn(c) /\ (c # <<>> => w - 1 \in SealedIn(c))
  BY <1>1, <1>3, <1>5, RangeGrows
<1> QED  BY <1>1, <1>4, <1>6, <1>7, <1>8

-----------------------------------------------------------------------------
(* The steps of a verification.                                            *)

LEMMA VerifierIdleSafe ==
    ASSUME NEW c \in Seq(SealRecord)
    PROVE  VerifierSafe(VerifierIdle, c)
<1>1. Len(c) \in Nat
  BY LenProperties
<1>2. /\ VerifierIdle \in VerifierState /\ VerifierIdle.head = 0 /\ VerifierIdle.todo = {}
      /\ ~VerifierIdle.failed
  BY DEF VerifierIdle, VerifierState
<1> QED  BY <1>1, <1>2 DEF VerifierSafe

LEMMA VerifyStartSafe ==
    ASSUME NEW c, NEW n, NEW R, NEW P, StoreSafe(c, n, R, P)
    PROVE  VerifierSafe([pc |-> "window", head |-> Len(c),
                         todo |-> {c[i].window : i \in DOMAIN c}, failed |-> ~Linked(c)], c)
<1> DEFINE T == {c[i].window : i \in DOMAIN c}
           b == ~Linked(c)
           v == [pc |-> "window", head |-> Len(c), todo |-> T, failed |-> b]
<1>1. Linked(c) /\ Len(c) \in Nat
  BY LenProperties DEF StoreSafe, Matches
<1>2. T \in SUBSET Nat /\ T \subseteq SealedIn(c)
  BY SealedFacts DEF StoreSafe, SealedRange
<1>3. b = FALSE
  BY <1>1
<1> HIDE DEF T, b
<1>4. v \in VerifierState /\ v.head = Len(c) /\ v.todo = T /\ v.failed = FALSE
  BY <1>1, <1>2, <1>3 DEF VerifierState
<1> HIDE DEF v
<1>5. VerifierSafe(v, c)
  BY <1>1, <1>2, <1>4 DEF VerifierSafe
<1> QED  BY <1>5 DEF v, T, b

\* On a chain that has not moved, every window matches its latest record.
LEMMA VerifyWindowSafe ==
    ASSUME NEW c, NEW n, NEW R, NEW P, StoreSafe(c, n, R, P), NEW v, VerifierSafe(v, c),
           NEW w \in v.todo
    PROVE  VerifierSafe([v EXCEPT !.todo = v.todo \ {w},
               !.failed = v.failed \/ Latest(SubSeq(c, 1, v.head), w).rows # RowsIn(R, w)], c)
<1> DEFINE b == v.failed \/ Latest(SubSeq(c, 1, v.head), w).rows # RowsIn(R, w)
           k == [v EXCEPT !.todo = v.todo \ {w}, !.failed = b]
<1>1. /\ c \in Seq(SealRecord) /\ Len(c) \in Nat /\ v \in VerifierState /\ w \in SealedIn(c)
      /\ v.head \in Nat /\ v.head <= Len(c)
  BY LenProperties DEF StoreSafe, VerifierSafe, VerifierState
<1>2. ASSUME v.head = Len(c) PROVE ~b
  <2>1. SubSeq(c, 1, v.head) = c
    BY <1>1, <1>2, SubSeqFull
  <2>2. Latest(c, w).rows = RowsIn(R, w)
    BY <1>1 DEF StoreSafe, Matches
  <2>3. ~v.failed
    BY <1>1, <1>2 DEF VerifierSafe
  <2> QED  BY <2>1, <2>2, <2>3
<1>3. b \in BOOLEAN
  BY <1>1, <1>2 DEF VerifierState
<1> HIDE DEF b
<1>4. k \in VerifierState /\ k.head = v.head /\ k.todo = v.todo \ {w} /\ k.failed = b
  BY <1>1, <1>3 DEF VerifierState
<1> HIDE DEF k
<1>5. k.failed => k.head < Len(c)
  BY <1>1, <1>2, <1>4
<1>6. VerifierSafe(k, c)
  BY <1>1, <1>4, <1>5 DEF VerifierSafe
<1> QED  BY <1>6 DEF k, b

-----------------------------------------------------------------------------
(* The steps of a job.                                                     *)

\* A job that holds no operation.
LEMMA FreshJobSafe ==
    ASSUME NEW c, NEW n, NEW R, NEW P, StoreSafe(c, n, R, P), NEW k \in JobState,
           k.pc \in {"idle", "windows", "elsewhere"}, k.ops = {}, k.head = 0, k.at <= n,
           k.pc = "windows" => k.query # "none",
           Bounded(k) => c # <<>> /\ k.bound <= SealedUntil(SealedIn(c))
    PROVE  JobSafe(k, c, n, R, P)
<1>1. Len(c) \in Nat
  BY LenProperties DEF StoreSafe
<1> QED  BY <1>1 DEF JobSafe, Reads

LEMMA JobIdleSafe ==
    ASSUME NEW c, NEW n, NEW R, NEW P, StoreSafe(c, n, R, P)
    PROVE  /\ JobSafe(JobIdle, c, n, R, P)
           /\ JobSafe([JobIdle EXCEPT !.pc = "elsewhere"], c, n, R, P)
<1> DEFINE k == [JobIdle EXCEPT !.pc = "elsewhere"]
<1>1. n \in Nat
  BY DEF StoreSafe
<1>2. /\ JobIdle \in JobState /\ JobIdle.pc = "idle" /\ JobIdle.ops = {} /\ JobIdle.head = 0
      /\ JobIdle.at = 0 /\ JobIdle.query = "none"
  BY DEF JobIdle, JobState
<1>3. /\ k \in JobState /\ k.pc = "elsewhere" /\ k.ops = {} /\ k.head = 0
      /\ k.at = 0 /\ k.query = "none"
  BY DEF JobIdle, JobState
<1> HIDE DEF k
<1>4. JobSafe(JobIdle, c, n, R, P)
  BY <1>1, <1>2, FreshJobSafe DEF Bounded
<1>5. JobSafe(k, c, n, R, P)
  BY <1>1, <1>3, FreshJobSafe DEF Bounded
<1> QED  BY <1>4, <1>5 DEF k

Queries == {"expire", "purge", "pseudonymise", "subject"}

\* A job that starts over with some query.
LEMMA RewriteSafe ==
    ASSUME NEW c, NEW n, NEW R, NEW P, StoreSafe(c, n, R, P), NEW j, NEW query \in Queries,
           j.at \in Nat, j.bound \in Nat, j.at <= n, NEW tries \in Nat,
           query \in {"expire", "pseudonymise"} =>
             c # <<>> /\ j.bound <= SealedUntil(SealedIn(c))
    PROVE  /\ JobSafe(Rewrite(j, query), c, n, R, P)
           /\ JobSafe([Rewrite(j, query) EXCEPT !.tries = tries], c, n, R, P)
<1> DEFINE k == Rewrite(j, query)
           l == [k EXCEPT !.tries = tries]
<1>1. /\ k \in JobState /\ k.pc = "windows" /\ k.ops = {} /\ k.head = 0
      /\ k.at = j.at /\ k.query = query /\ k.bound = j.bound
  BY DEF Rewrite, JobIdle, JobState, Queries
<1> HIDE DEF k
<1>2. /\ l \in JobState /\ l.pc = "windows" /\ l.ops = {} /\ l.head = 0
      /\ l.at = j.at /\ l.query = query /\ l.bound = j.bound
  BY <1>1 DEF JobState
<1> HIDE DEF l
<1>3. query # "none"
  BY DEF Queries
<1>4. JobSafe(k, c, n, R, P)
  BY <1>1, <1>3, FreshJobSafe DEF Bounded
<1>5. JobSafe(l, c, n, R, P)
  BY <1>2, <1>3, FreshJobSafe DEF Bounded
<1> QED  BY <1>4, <1>5 DEF k, l

\* The same query again.
LEMMA AgainSafe ==
    ASSUME NEW c, NEW n, NEW R, NEW P, StoreSafe(c, n, R, P), NEW j, JobSafe(j, c, n, R, P),
           j.pc \in Reads, NEW tries \in Nat
    PROVE  /\ JobSafe(Rewrite(j, j.query), c, n, R, P)
           /\ JobSafe([Rewrite(j, j.query) EXCEPT !.tries = tries], c, n, R, P)
<1>1. /\ j.query \in Queries /\ j.at \in Nat /\ j.bound \in Nat /\ j.at <= n
      /\ j.query \in {"expire", "pseudonymise"} =>
           c # <<>> /\ j.bound <= SealedUntil(SealedIn(c))
  BY DEF JobSafe, JobState, Queries, Bounded
<1> QED  BY <1>1, RewriteSafe

LEMMA ReadWindowsSafe ==
    ASSUME NEW c, NEW n, NEW R, NEW P, StoreSafe(c, n, R, P), NEW j, JobSafe(j, c, n, R, P),
           j.pc = "windows"
    PROVE  JobSafe([j EXCEPT !.pc = "candidates", !.head = Len(c), !.sealed = SealedIn(c)],
                   c, n, R, P)
<1> DEFINE k == [j EXCEPT !.pc = "candidates", !.head = Len(c), !.sealed = SealedIn(c)]
<1>1. Len(c) \in Nat /\ SealedIn(c) \in SUBSET Nat /\ j \in JobState
  BY LenProperties, SealedFacts DEF StoreSafe, JobSafe
<1>2. /\ k \in JobState /\ k.pc = "candidates" /\ k.head = Len(c) /\ k.sealed = SealedIn(c)
      /\ k.query = j.query /\ k.at = j.at /\ k.bound = j.bound /\ k.ops = j.ops
  BY <1>1 DEF JobState
<1> HIDE DEF k
<1>3. j.ops = {} /\ j.query # "none" /\ j.at <= n
      /\ (Bounded(j) => c # <<>> /\ j.bound <= SealedUntil(SealedIn(c)))
  BY DEF JobSafe
<1>4. JobSafe(k, c, n, R, P)
  BY <1>1, <1>2, <1>3 DEF JobSafe, OpsFit, Bounded
<1> QED  BY <1>4 DEF k

\* A job that goes on with some of its operations, all of them in sealed windows.
LEMMA GoOnSafe ==
    ASSUME NEW c, NEW n, NEW R, NEW P, NEW j, JobSafe(j, c, n, R, P),
           j.pc \in {"loose", "rows", "record"},
           NEW k \in JobState, k.pc \in {"rows", "record"}, k.query = j.query, k.at = j.at,
           k.bound = j.bound, k.head = j.head, k.sealed = j.sealed,
           k.ops \subseteq j.ops, k.ops # {}, \A o \in k.ops : o.t \in j.sealed
    PROVE  JobSafe(k, c, n, R, P)
<1>1. ASSUME NEW o \in k.ops PROVE OpSafe(k, o, n, R, P)
  BY DEF JobSafe, OpSafe, Deletes, Bounded
<1>2. OpsFit(j, c, R) => OpsFit(k, c, R)
  BY DEF OpsFit, Fits
<1>3. Bounded(k) <=> Bounded(j)
  BY DEF Bounded
<1> QED  BY <1>1, <1>2, <1>3 DEF JobSafe, Reads

\* The new columns of a row.
LEMMA ChangeFacts ==
    ASSUME NEW j \in JobState, NEW r \in Row
    PROVE  /\ Change(j, r) \in Row /\ SameRow(r, Change(j, r)) /\ Fits(j, r, Change(j, r))
           /\ Change(j, r).t = r.t
<1>1. CASE j.query = "pseudonymise"
  <2>1. Change(j, r) = [r EXCEPT !.net = "network"]
    BY <1>1 DEF Change
  <2> QED  BY <1>1, <2>1 DEF Row, Nets, SameRow, Fits
<1>2. CASE j.query = "subject"
  <2>1. Change(j, r) = [r EXCEPT !.user = "pseudonym"]
    BY <1>2 DEF Change
  <2> QED  BY <1>2, <2>1 DEF Row, Users, SameRow, Fits
<1>3. CASE j.query \notin {"pseudonymise", "subject"}
  <2>1. Change(j, r) = r
    BY <1>3 DEF Change
  <2> QED  BY <1>3, <2>1 DEF SameRow, Fits
<1> QED  BY <1>1, <1>2, <1>3

LEMMA CutoffBound ==
    ASSUME NEW at \in Nat, NEW age \in Nat
    PROVE  Cutoff(at, age) \in Nat /\ Cutoff(at, age) <= at
BY DEF Cutoff

\* Only rows from before the clock's window are deleted.
LEMMA DeletedIsPast ==
    ASSUME NEW j \in JobState, NEW n \in Nat, j.at <= n, NEW r \in Row, Due(j, r), Deletes(j)
    PROVE  r.t < n
<1>1. j.at \in Nat /\ r.t \in Nat
  BY DEF JobState, Row
<1>2. CASE j.query = "expire"
  <2>1. Retention(r.cls) \in Nat
    BY PolicyAssumption DEF Retention
  <2>2. r.t < Cutoff(j.at, Retention(r.cls))
    BY <1>2 DEF Due
  <2>3. Cutoff(j.at, Retention(r.cls)) \in Nat /\ Cutoff(j.at, Retention(r.cls)) <= j.at
    BY <1>1, <2>1, CutoffBound
  <2> QED  BY <1>1, <2>2, <2>3
<1>3. CASE j.query = "purge"
  <2>1. r.t < j.at
    BY <1>3 DEF Due
  <2> QED  BY <1>1, <2>1
<1> QED  BY <1>2, <1>3 DEF Deletes

LEMMA BatchesNotEmpty ==
    ASSUME NEW C, C # {}, NEW B \in Batches(C)
    PROVE  B # {} /\ B \subseteq C
<1>1. Cardinality({}) = 0
  BY FS_EmptySet
<1>2. Batch # 0
  BY PolicyAssumption
<1> QED  BY <1>1, <1>2 DEF Batches

\* A job with its batch.
Chosen(j, B, pc) == [j EXCEPT !.ops = {Change(j, r) : r \in B}, !.pc = pc]

LEMMA ReadCandidatesSafe ==
    ASSUME NEW c, NEW n, NEW R, NEW P, StoreSafe(c, n, R, P), NEW j, JobSafe(j, c, n, R, P),
           j.pc = "candidates", NEW B \in SUBSET R, B # {},
           \A r \in B : Due(j, r) /\ (Bounded(j) => r.t < j.bound),
           NEW pc \in {"loose", "rows"},
           pc = "rows" => \A r \in B : r.t \in j.sealed
    PROVE  JobSafe(Chosen(j, B, pc), c, n, R, P)
<1> DEFINE ops == {Change(j, r) : r \in B}
           k == [j EXCEPT !.ops = ops, !.pc = pc]
<1>1. j \in JobState /\ R \in SUBSET Row /\ n \in Nat /\ Keys(R, P)
  BY DEF JobSafe, StoreSafe
<1>2. \A r \in B : /\ Change(j, r) \in Row /\ SameRow(r, Change(j, r))
                   /\ Fits(j, r, Change(j, r)) /\ Change(j, r).t = r.t
  BY <1>1, ChangeFacts
<1>3. ops \in SUBSET Row
  BY <1>2
<1>4. \A o \in ops : \E r \in B : o = Change(j, r)
  OBVIOUS
<1>5. ops # {}
  OBVIOUS
<1> HIDE DEF ops
<1>6. /\ k \in JobState /\ k.pc = pc /\ k.ops = ops /\ k.head = j.head /\ k.sealed = j.sealed
      /\ k.query = j.query /\ k.at = j.at /\ k.bound = j.bound
  BY <1>1, <1>3 DEF JobState
<1> HIDE DEF k
<1>7. ASSUME NEW o \in ops PROVE OpSafe(k, o, n, R, P)
  <2>1. PICK r \in B : o = Change(j, r)
    BY <1>4
  <2>2. r \in R /\ r \in Row /\ o.t = r.t /\ SameRow(r, o)
    BY <1>1, <1>2, <2>1
  <2>3. Deletes(k) => o.t < n
    BY <1>1, <1>6, <2>2, DeletedIsPast DEF Deletes, JobSafe
  <2>4. Bounded(k) => o.t < k.bound
    BY <1>6, <2>2 DEF Bounded
  <2>5. \A e \in P : ~SameRow(e, o)
    BY <1>1, <2>2 DEF Keys, SameRow
  <2> QED  BY <2>2, <2>3, <2>4, <2>5 DEF OpSafe
<1>8. ASSUME NEW a \in ops, NEW b \in ops, SameRow(a, b) PROVE a = b
  <2>1. PICK r \in B : a = Change(j, r)
    BY <1>4
  <2>2. PICK q \in B : b = Change(j, q)
    BY <1>4
  <2>3. SameRow(r, q)
    BY <1>2, <1>8, <2>1, <2>2 DEF SameRow
  <2>4. r = q
    BY <1>1, <2>3 DEF Keys
  <2> QED  BY <2>1, <2>2, <2>4
<1>9. OpsFit(k, c, R)
  <2>1. ASSUME NEW o \in ops, NEW q \in R, SameRow(q, o) PROVE Fits(k, q, o)
    <3>1. PICK r \in B : o = Change(j, r)
      BY <1>4
    <3>2. SameRow(q, r)
      BY <1>2, <2>1, <3>1 DEF SameRow
    <3>3. q = r
      BY <1>1, <3>2 DEF Keys
    <3> QED  BY <1>2, <1>6, <3>1, <3>3 DEF Fits
  <2> QED  BY <1>6, <2>1 DEF OpsFit
<1>10. pc = "rows" => \A o \in ops : o.t \in j.sealed
  BY <1>2, <1>4
<1>11. Bounded(k) <=> Bounded(j)
  BY <1>6 DEF Bounded
<1>12. /\ j.head <= Len(c) /\ j.at <= n /\ j.query # "none"
       /\ Bounded(j) => c # <<>> /\ j.bound <= SealedUntil(SealedIn(c))
       /\ j.head = Len(c) => j.sealed = SealedIn(c)
  BY DEF JobSafe, Reads
<1>13. JobSafe(k, c, n, R, P)
  BY <1>5, <1>6, <1>7, <1>8, <1>9, <1>10, <1>11, <1>12 DEF JobSafe
<1> QED  BY <1>13 DEF k, ops, Chosen

-----------------------------------------------------------------------------
(* The two kinds of batches.                                               *)

\* What becomes of a row that survives a batch whose operations fit it.
LEMMA AppliedRedacts ==
    ASSUME NEW R \in SUBSET Row, NEW P, Keys(R, P), NEW j \in JobState, j.query # "none",
           NEW ops \in SUBSET Row, NEW r \in R, \A o \in ops : SameRow(r, o) => Fits(j, r, o),
           NEW s \in ApplyOps(R, ops, Deletes(j)), SameRow(r, s)
    PROVE  RedactedRow(r, s) /\ (Deletes(j) => s = r)
<1> DEFINE del == Deletes(j)
<1>1. del \in BOOLEAN /\ (del <=> Deletes(j)) /\ s \in ApplyOps(R, ops, del)
  BY DEF Deletes
<1> HIDE DEF del
<1>2. CASE s \in R
  <2>1. s = r
    BY <1>2 DEF Keys
  <2> QED  BY <2>1 DEF RedactedRow, SameRow
<1>3. ASSUME ~del, NEW q \in R, NEW x \in ops, SameRow(q, x), SameRow(q, s),
             s.cls = q.cls, s.user = x.user, s.net = x.net
      PROVE  RedactedRow(r, s)
  <2>1. SameRow(r, q)
    BY <1>3 DEF SameRow
  <2>2. r = q
    BY <2>1 DEF Keys
  <2> QED  BY <1>1, <1>3, <2>2, FitRedacts
<1>4. \/ s \in R
      \/ /\ ~del
         /\ \E q \in R, x \in ops :
              /\ SameRow(q, x) /\ SameRow(q, s) /\ s.cls = q.cls
              /\ s.user = x.user /\ s.net = x.net
  BY <1>1, AppliedCases
<1>5. s \in R => s = r
  BY DEF Keys
<1> QED  BY <1>1, <1>2, <1>3, <1>4, <1>5

\* Rows that a batch drops are older than the clock's window.
LEMMA AppliedPersist ==
    ASSUME NEW R \in SUBSET Row, NEW ops \in SUBSET Row, NEW j, NEW n \in Nat,
           \A o \in ops : Deletes(j) => o.t < n
    PROVE  \A r \in R : r.t < n \/ \E q \in ApplyOps(R, ops, Deletes(j)) : SameRow(r, q)
<1> DEFINE del == Deletes(j)
           Q == ApplyOps(R, ops, del)
<1>1. del \in BOOLEAN /\ (del <=> Deletes(j))
  BY DEF Deletes
<1> HIDE DEF del
<1>2. ASSUME NEW r \in R PROVE r.t < n \/ \E q \in Q : SameRow(r, q)
  <2>1. \/ r \in Q
        \/ del /\ \E o \in ops : SameRow(r, o)
        \/ \E q \in Q : SameRow(r, q)
    BY <1>1, AppliedRow
  <2>2. r \in Q => \E q \in Q : SameRow(r, q)
    BY DEF SameRow
  <2>3. (del /\ \E o \in ops : SameRow(r, o)) => r.t < n
    BY <1>1 DEF SameRow
  <2> QED  BY <2>1, <2>2, <2>3
<1> QED  BY <1>2 DEF del

\* What GoOn leaves of a job.
NextJob(j) ==
    IF j.ops = {} THEN Rewrite(j, j.query) ELSE [j EXCEPT !.pc = "rows", !.snap = {}]

LEMMA NextJobFields ==
    ASSUME NEW j \in JobState, j.ops # {}
    PROVE  /\ NextJob(j) \in JobState /\ NextJob(j).pc = "rows" /\ NextJob(j).ops = j.ops
           /\ NextJob(j).query = j.query /\ NextJob(j).at = j.at
           /\ NextJob(j).bound = j.bound /\ NextJob(j).head = j.head
           /\ NextJob(j).sealed = j.sealed
BY DEF NextJob, JobState

LEMMA NextJobOver ==
    ASSUME NEW c, NEW n, NEW R, NEW P, StoreSafe(c, n, R, P), NEW j, JobSafe(j, c, n, R, P),
           j.pc \in Reads, NEW m \in JobState, m.ops = {}, m.query = j.query, m.at = j.at,
           m.bound = j.bound
    PROVE  JobSafe(NextJob(m), c, n, R, P)
<1>1. /\ m.query \in Queries /\ m.at \in Nat /\ m.bound \in Nat /\ m.at <= n
      /\ m.query \in {"expire", "pseudonymise"} =>
           c # <<>> /\ m.bound <= SealedUntil(SealedIn(c))
  BY DEF JobSafe, JobState, Queries, Bounded
<1>2. JobSafe(Rewrite(m, m.query), c, n, R, P)
  BY <1>1, RewriteSafe
<1> QED  BY <1>2 DEF NextJob

\* A batch outside every sealed window.
Loosening(c, n, R, P, k, Q) ==
    /\ StoreSafe(c, n, R, P) /\ JobSafe(k, c, n, R, P) /\ k.pc = "loose" /\ k.head = Len(c)
    /\ Q = ApplyOps(R, LooseOps(k), Deletes(k))

LEMMA LooseElsewhere ==
    ASSUME NEW c, NEW n, NEW R, NEW P, NEW k, NEW Q, Loosening(c, n, R, P, k, Q),
           NEW w \in SealedIn(c)
    PROVE  RowsIn(Q, w) = RowsIn(R, w)
<1> DEFINE ops == LooseOps(k)
           del == Deletes(k)
<1>1. /\ R \in SUBSET Row /\ ops \in SUBSET Row /\ del \in BOOLEAN
      /\ k.sealed = SealedIn(c)
  <2>1. k.sealed = SealedIn(c) /\ R \in SUBSET Row
    BY DEF Loosening, StoreSafe, JobSafe, Reads
  <2>2. ops \in SUBSET Row
    BY DEF Loosening, JobSafe, JobState, LooseOps
  <2>3. del \in BOOLEAN
    BY DEF Deletes
  <2> QED  BY <2>1, <2>2, <2>3
<1>2. Q = ApplyOps(R, ops, del) /\ \A o \in ops : o.t # w
  BY <1>1 DEF Loosening, LooseOps
<1> HIDE DEF ops, del
<1> QED  BY <1>1, <1>2, AppliedElsewhere

LEMMA LooseSafe ==
    ASSUME NEW c, NEW n, NEW R, NEW P, NEW k, NEW Q, Loosening(c, n, R, P, k, Q)
    PROVE  /\ StoreSafe(c, n, Q, P)
           /\ \A j : JobSafe(j, c, n, R, P) => JobSafe(j, c, n, Q, P)
           /\ \A r \in R, s \in Q : SameRow(r, s) /\ ~Before(c, r) => RedactedRow(r, s)
           /\ JobSafe(NextJob([k EXCEPT !.ops = k.ops \ LooseOps(k)]), c, n, Q, P)
<1> USE DEF Loosening
<1> DEFINE ops == LooseOps(k)
           del == Deletes(k)
<1>1. /\ R \in SUBSET Row /\ Keys(R, P) /\ n \in Nat /\ k \in JobState /\ k.query # "none"
      /\ k.sealed = SealedIn(c) /\ OpsFit(k, c, R)
  BY DEF StoreSafe, JobSafe, Reads
<1>2. /\ ops \subseteq k.ops /\ ops \in SUBSET Row
      /\ \A o \in ops : o.t \notin SealedIn(c)
      /\ \A a, b \in ops : SameRow(a, b) => a = b
      /\ \A o \in ops : Deletes(k) => o.t < n
  BY <1>1 DEF LooseOps, JobState, JobSafe, OpSafe
<1>3. \A o \in k.ops \ ops : o.t \in k.sealed
  BY DEF LooseOps
<1>4. Q = ApplyOps(R, ops, del) /\ del \in BOOLEAN
  BY DEF Deletes
<1>5. \A j : JobSafe(j, c, n, R, P) /\ OpsFit(j, c, R) => OpsFit(j, c, Q)
  BY FitsAfterLoose
<1>6. \A r \in R : r.t < n \/ \E q \in Q : SameRow(r, q)
  BY <1>1, <1>2, AppliedPersist
<1>7. ASSUME NEW r \in R, NEW s \in Q, SameRow(r, s), ~Before(c, r) PROVE RedactedRow(r, s)
  <2>1. \A o \in ops : SameRow(r, o) => Fits(k, r, o)
    BY <1>1, <1>2, <1>7 DEF OpsFit, Before, SameRow
  <2> QED  BY <1>1, <1>2, <1>7, <2>1, AppliedRedacts
<1> HIDE DEF ops, del
<1>8. StoreSafe(c, n, Q, P)
  BY <1>2, <1>4, StoreLoose
<1>10. ASSUME NEW j, JobSafe(j, c, n, R, P) PROVE JobSafe(j, c, n, Q, P)
  <2>1. OpsFit(j, c, R) => OpsFit(j, c, Q)
    BY <1>5, <1>10
  <2>2. n <= n
    BY <1>1
  <2> QED  BY <1>6, <1>8, <1>10, <2>1, <2>2, JobLasts
<1>11. JobSafe(NextJob([k EXCEPT !.ops = k.ops \ ops]), c, n, Q, P)
  <2> DEFINE rest == k.ops \ ops
             m == [k EXCEPT !.ops = rest]
  <2>0. rest \in SUBSET Row /\ rest \subseteq k.ops /\ \A o \in rest : o.t \in k.sealed
    BY <1>1, <1>3 DEF JobState
  <2> HIDE DEF rest
  <2>1. /\ m \in JobState /\ m.ops = rest /\ m.query = k.query /\ m.at = k.at
        /\ m.bound = k.bound /\ m.head = k.head /\ m.sealed = k.sealed
    BY <1>1, <2>0 DEF JobState
  <2>2. JobSafe(k, c, n, Q, P)
    BY <1>10
  <2> HIDE DEF m
  <2>3. ASSUME rest = {} PROVE JobSafe(NextJob(m), c, n, Q, P)
    <3>1. m.ops = {} /\ k.pc \in Reads
      BY <2>1, <2>3 DEF Reads
    <3> QED  BY <1>8, <2>1, <2>2, <3>1, NextJobOver
  <2>4. ASSUME rest # {} PROVE JobSafe(NextJob(m), c, n, Q, P)
    <3> DEFINE x == NextJob(m)
    <3>1. /\ x \in JobState /\ x.pc = "rows" /\ x.ops = rest /\ x.query = k.query
          /\ x.at = k.at /\ x.bound = k.bound /\ x.head = k.head /\ x.sealed = k.sealed
      BY <2>1, <2>4, NextJobFields
    <3> HIDE DEF x
    <3>2. JobSafe(x, c, n, Q, P)
      BY <2>0, <2>2, <2>4, <3>1, GoOnSafe
    <3> QED  BY <3>2 DEF x
  <2>5. JobSafe(NextJob(m), c, n, Q, P)
    BY <2>3, <2>4
  <2> QED  BY <2>5 DEF m, rest
<1> QED  BY <1>7, <1>8, <1>10, <1>11 DEF ops

LEMMA FirstWindowIs ==
    ASSUME NEW j \in JobState, j.ops # {}
    PROVE  \E o \in j.ops : FirstWindow(j) = o.t
<1> DEFINE T == {o.t : o \in j.ops}
<1>1. T \subseteq Nat /\ T # {}
  BY DEF JobState, Row
<1>2. PICK x \in T : \A y \in T : x <= y
  BY <1>1, LeastNumber
<1>3. \A o \in j.ops : x <= o.t
  BY <1>2
<1>4. FirstWindow(j) \in T
  BY <1>3 DEF FirstWindow
<1> QED  BY <1>4

\* A batch in one sealed window, with its record.
Recording(c, n, R, P, k, Q, w, d) ==
    /\ StoreSafe(c, n, R, P) /\ JobSafe(k, c, n, R, P) /\ k.pc = "record" /\ k.head = Len(c)
    /\ Q = ApplyOps(R, WindowOps(k), Deletes(k))
    /\ w = FirstWindow(k)
    /\ d = Append(c, NextRecord(Len(c), Kind(k), w, RowsIn(Q, w)))

\* The job once its window's changes are in.
Recorded(k) == [k EXCEPT !.ops = k.ops \ WindowOps(k), !.head = k.head + 1]

LEMMA RecordSafe ==
    ASSUME NEW c, NEW n, NEW R, NEW P, NEW k, NEW Q, NEW w, NEW d,
           Recording(c, n, R, P, k, Q, w, d)
    PROVE  /\ StoreSafe(d, n, Q, P)
           /\ Len(d) = Len(c) + 1 /\ SealedIn(d) = SealedIn(c) /\ w \in SealedIn(c)
           /\ \A v : v # w => RowsIn(Q, v) = RowsIn(R, v)
           /\ Redaction(Kind(k), RowsIn(R, w), RowsIn(Q, w))
           /\ \A j : JobSafe(j, c, n, R, P) => JobSafe(j, d, n, Q, P)
           /\ \A r \in R, s \in Q : SameRow(r, s) => RedactedRow(r, s)
           /\ JobSafe(NextJob(Recorded(k)), d, n, Q, P)
<1> USE DEF Recording
<1> DEFINE ops == WindowOps(k)
           del == Deletes(k)
           kind == Kind(k)
           rec == NextRecord(Len(c), kind, w, RowsIn(Q, w))
<1>1. /\ c \in Seq(SealRecord) /\ Len(c) \in Nat /\ SealedRange(c, n)
      /\ R \in SUBSET Row /\ Keys(R, P) /\ n \in Nat /\ k \in JobState /\ k.query # "none"
      /\ k.sealed = SealedIn(c) /\ OpsFit(k, c, R) /\ k.ops # {}
      /\ \A o \in k.ops : o.t \in SealedIn(c)
  BY LenProperties DEF StoreSafe, JobSafe, Reads
<1>2. w \in SealedIn(c) /\ w \in Nat /\ c # <<>> /\ w + 2 <= n /\ c[1].window <= w
  <2>1. w \in SealedIn(c)
    BY <1>1, FirstWindowIs
  <2>2. c # <<>>
    BY <2>1, NothingSealed
  <2>3. PICK l \in Nat : /\ c[1].window \in Nat /\ c[1].window <= l /\ l + 2 <= n
                         /\ SealedIn(c) = c[1].window .. l
                         /\ SealedUntil(SealedIn(c)) = l + 1
    BY <1>1, <2>2, SealedInterval
  <2> QED  BY <1>1, <2>1, <2>2, <2>3
<1>3. /\ ops \subseteq k.ops /\ ops \in SUBSET Row
      /\ \A o \in ops : o.t = w
      /\ \A a, b \in ops : SameRow(a, b) => a = b
      /\ \A o \in ops : Deletes(k) => o.t < n
  BY <1>1 DEF WindowOps, JobState, JobSafe, OpSafe
<1>4. \A o \in k.ops \ ops : o.t # w
  BY DEF WindowOps
<1>5. /\ Q = ApplyOps(R, ops, del) /\ del \in BOOLEAN /\ kind \in {"expire", "amend"}
      /\ (kind = "expire" <=> Deletes(k)) /\ kind \in SealKind
  <2>1. kind \in {"expire", "amend"} /\ kind \in SealKind /\ (kind = "expire" <=> Deletes(k))
    BY DEF Kind, SealKind
  <2>2. del \in BOOLEAN
    BY DEF Deletes
  <2> QED  BY <2>1, <2>2
<1>6. \A r \in R : r.t < n \/ \E q \in Q : SameRow(r, q)
  <2>1. \A r \in R : r.t < n \/ \E q \in ApplyOps(R, ops, Deletes(k)) : SameRow(r, q)
    <3> HIDE DEF ops
    <3> QED  BY <1>1, <1>3, AppliedPersist
  <2> QED  BY <2>1
<1>7. ASSUME NEW r \in R, NEW s \in Q, SameRow(r, s)
      PROVE  RedactedRow(r, s) /\ (Deletes(k) => s = r)
  <2>1. \A o \in ops : SameRow(r, o) => Fits(k, r, o)
    <3>1. ASSUME NEW o \in ops, SameRow(r, o) PROVE Fits(k, r, o)
      <4>1. c[1].window \in Nat /\ o.t = w /\ o \in k.ops
        BY <1>1, <1>2, <1>3, SealedInterval
      <4>2. ~Before(c, o)
        BY <1>2, <4>1 DEF Before
      <4> QED  BY <1>1, <3>1, <4>1, <4>2 DEF OpsFit
    <3> QED  BY <3>1
  <2> QED  BY <1>1, <1>3, <1>7, <2>1, AppliedRedacts
<1> HIDE DEF ops, del, kind
<1>8. Q \in SUBSET Row
  BY <1>1, <1>3, <1>5, AppliedRow
<1>9. \A v : v # w => RowsIn(Q, v) = RowsIn(R, v)
  BY <1>1, <1>3, <1>5, AppliedElsewhere
<1>10. \A s \in Q : \E r \in R : SameRow(r, s)
  <2>1. \A s \in R : SameRow(s, s)
    BY DEF SameRow
  <2> QED  BY <1>1, <1>3, <1>5, <2>1, AppliedCases
<1>11. Redaction(kind, RowsIn(R, w), RowsIn(Q, w))
  <2>1. CASE kind = "expire"
    <3>1. ASSUME NEW s \in RowsIn(Q, w) PROVE s \in RowsIn(R, w)
      BY <1>5, <1>7, <1>10, <2>1 DEF RowsIn
    <3> QED  BY <2>1, <3>1 DEF Redaction
  <2>2. CASE kind = "amend"
    <3>1. ASSUME NEW s \in RowsIn(Q, w) PROVE \E r \in RowsIn(R, w) : RedactedRow(r, s)
      BY <1>7, <1>10 DEF RowsIn, SameRow
    <3>2. ASSUME NEW r \in RowsIn(R, w) PROVE \E s \in RowsIn(Q, w) : SameRow(r, s)
      <4>0. r \in R
        BY DEF RowsIn
      <4>1. \/ r \in Q
            \/ del /\ \E o \in ops : SameRow(r, o)
            \/ \E s \in Q : SameRow(r, s)
        <5>1. \/ r \in ApplyOps(R, ops, del)
              \/ del /\ \E o \in ops : SameRow(r, o)
              \/ \E s \in ApplyOps(R, ops, del) : SameRow(r, s)
          BY <1>1, <1>3, <1>5, <4>0, AppliedRow
        <5> QED  BY <1>5, <5>1
      <4>2. ~del
        <5>1. kind # "expire"
          BY <2>2
        <5>2. ~Deletes(k)
          BY <1>5, <5>1
        <5> QED  BY <5>2 DEF del
      <4>3. \E s \in Q : SameRow(r, s)
        BY <4>1, <4>2 DEF SameRow
      <4> QED  BY <4>3 DEF RowsIn, SameRow
    <3> QED  BY <2>2, <3>1, <3>2 DEF Redaction
  <2> QED  BY <1>5, <2>1, <2>2
<1>12. d = Append(c, rec) /\ StoreSafe(d, n, Q, P)
  <2>1. d = Append(c, rec)
    BY DEF kind
  <2>2. StoreSafe(Append(c, NextRecord(Len(c), kind, w, RowsIn(ApplyOps(R, ops, del), w))),
                  n, ApplyOps(R, ops, del), P)
    BY <1>2, <1>3, <1>5, StoreRecord
  <2> QED  BY <1>5, <2>1, <2>2
<1>13. rec \in SealRecord /\ rec.kind = kind /\ rec.window = w
  <2>1. RowsIn(Q, w) \in SUBSET Row
    BY <1>8 DEF RowsIn
  <2> QED  BY <1>1, <1>2, <1>5, <2>1, RecordType
<1> HIDE DEF rec
<1>14. /\ d \in Seq(SealRecord) /\ Len(d) = Len(c) + 1 /\ d # <<>>
  BY <1>1, <1>12, <1>13, AppendFacts
<1>15. SealedIn(d) = SealedIn(c) /\ d[1] = c[1]
  <2>1. rec.kind # "seal"
    BY <1>5, <1>13
  <2>2. SealedIn(d) = SealedIn(c)
    BY <1>1, <1>12, <1>13, <2>1, SealedAppend
  <2>3. d[1] = c[1]
    BY <1>1, <1>2, <1>12, <1>13, <2>1, RangeGrows
  <2> QED  BY <2>2, <2>3
<1>16. ASSUME NEW j, JobSafe(j, c, n, R, P) PROVE JobSafe(j, d, n, Q, P)
  <2>1. SealedUntil(SealedIn(c)) \in Nat
    BY <1>1, <1>2, SealedFacts
  <2>2. n <= n /\ SealedUntil(SealedIn(c)) <= SealedUntil(SealedIn(d)) /\ d # c
    BY <1>1, <1>14, <1>15, <2>1
  <2> QED  BY <1>6, <1>12, <1>14, <1>16, <2>2, JobLasts
<1>17. JobSafe(NextJob([k EXCEPT !.ops = k.ops \ ops, !.head = k.head + 1]), d, n, Q, P)
  <2> DEFINE rest == k.ops \ ops
             h == k.head + 1
             m == [k EXCEPT !.ops = rest, !.head = h]
  <2>0. /\ rest \in SUBSET Row /\ rest \subseteq k.ops
        /\ \A o \in rest : o.t \in SealedIn(c) /\ o.t # w
        /\ h \in Nat /\ h = Len(d)
    BY <1>1, <1>4, <1>14 DEF JobState
  <2> HIDE DEF rest, h
  <2>1. /\ m \in JobState /\ m.ops = rest /\ m.query = k.query /\ m.at = k.at
        /\ m.bound = k.bound /\ m.head = h /\ m.sealed = k.sealed
    BY <1>1, <2>0 DEF JobState
  <2>2. JobSafe(k, d, n, Q, P)
    BY <1>16
  <2> HIDE DEF m
  <2>3. ASSUME rest = {} PROVE JobSafe(NextJob(m), d, n, Q, P)
    <3>1. m.ops = {} /\ k.pc \in Reads
      BY <2>1, <2>3 DEF Reads
    <3> QED  BY <1>12, <2>1, <2>2, <3>1, NextJobOver
  <2>4. ASSUME rest # {} PROVE JobSafe(NextJob(m), d, n, Q, P)
    <3> DEFINE x == NextJob(m)
    <3>1. /\ x \in JobState /\ x.pc = "rows" /\ x.ops = rest /\ x.query = k.query
          /\ x.at = k.at /\ x.bound = k.bound /\ x.head = h /\ x.sealed = k.sealed
      BY <2>1, <2>4, NextJobFields
    <3> HIDE DEF x
    <3>2. ASSUME NEW o \in rest PROVE OpSafe(x, o, n, Q, P)
      BY <2>0, <2>2, <3>1 DEF JobSafe, OpSafe, Deletes, Bounded
    <3>3. OpsFit(x, d, Q)
      <4>1. ASSUME NEW o \in rest, NEW q \in Q, SameRow(q, o), ~Before(d, o)
            PROVE  Fits(x, q, o)
        <5>1. q \in R
          <6>1. q \in RowsIn(Q, o.t)
            BY <4>1 DEF RowsIn, SameRow
          <6> QED  BY <1>9, <2>0, <6>1 DEF RowsIn
        <5>2. ~Before(c, o)
          BY <1>2, <1>14, <1>15, <4>1 DEF Before
        <5>3. Fits(k, q, o)
          BY <1>1, <2>0, <4>1, <5>1, <5>2 DEF OpsFit
        <5> QED  BY <3>1, <5>3 DEF Fits
      <4> QED  BY <3>1, <4>1 DEF OpsFit
    <3>4. Bounded(x) <=> Bounded(k)
      BY <3>1 DEF Bounded
    <3>5. h <= Len(d)
      BY <2>0
    <3>6. /\ k.at <= n /\ k.query # "none"
          /\ Bounded(k) => d # <<>> /\ k.bound <= SealedUntil(SealedIn(d))
          /\ \A a, b \in k.ops : SameRow(a, b) => a = b
      BY <1>1, <2>2 DEF JobSafe
    <3>7. k.sealed = SealedIn(d) /\ \A o \in rest : o.t \in k.sealed
      BY <1>1, <1>15, <2>0
    <3>8. JobSafe(x, d, n, Q, P)
      BY <2>0, <2>4, <3>1, <3>2, <3>3, <3>4, <3>5, <3>6, <3>7 DEF JobSafe
    <3> QED  BY <3>8 DEF x
  <2>5. JobSafe(NextJob(m), d, n, Q, P)
    BY <2>3, <2>4
  <2> QED  BY <2>5 DEF m, rest, h
<1>18. \A r \in R, s \in Q : SameRow(r, s) => RedactedRow(r, s)
  BY <1>7
<1>19. JobSafe(NextJob(Recorded(k)), d, n, Q, P)
  BY <1>17 DEF Recorded, ops
<1> QED  BY <1>2, <1>9, <1>11, <1>12, <1>14, <1>15, <1>16, <1>18, <1>19 DEF kind

-----------------------------------------------------------------------------
(* The invariant, step by step.                                            *)

SubjectState == [block : {"none", "name", "pseudonym"}, token : {"live", "revoked"}]

\* A step that moves the store and one task: the others keep what they know.
LEMMA SafeAfter ==
    ASSUME Safe, StoreSafe(chain', now', rows', pending'), now <= now',
           chain' = chain \/ Len(chain') = Len(chain) + 1,
           SealedIn(chain) \subseteq SealedIn(chain'),
           \A q \in Jobs : JobSafe(job[q], chain', now', rows', pending'),
           \/ sealer' = sealer
           \/ \E p \in Sealers : \E s : /\ SealerSafe(s, chain', now')
                                        /\ sealer' = [sealer EXCEPT ![p] = s],
           \/ job' = job
           \/ \E p \in Jobs : \E k : /\ JobSafe(k, chain', now', rows', pending')
                                     /\ job' = [job EXCEPT ![p] = k],
           \/ verifier' = verifier
           \/ \E p \in Verifiers : \E v : /\ VerifierSafe(v, chain')
                                          /\ verifier' = [verifier EXCEPT ![p] = v],
           subject' \in SubjectState, crashes' \in Nat
    PROVE  Safe'
<1>1. /\ chain \in Seq(SealRecord) /\ now \in Nat
      /\ chain' \in Seq(SealRecord) /\ now' \in Nat
  BY DEF Safe, StoreSafe
<1>2. \A p \in Sealers : SealerSafe(sealer[p], chain', now')
  BY <1>1, SealerLasts DEF Safe
<1>3. \A p \in Verifiers : VerifierSafe(verifier[p], chain')
  BY <1>1, VerifierLasts DEF Safe
<1>4. /\ sealer' \in [Sealers -> SealerState]
      /\ \A p \in Sealers : SealerSafe(sealer'[p], chain', now')
  <2>1. CASE sealer' = sealer
    BY <1>2, <2>1 DEF Safe
  <2>2. ASSUME NEW p \in Sealers, NEW s, SealerSafe(s, chain', now'),
               sealer' = [sealer EXCEPT ![p] = s]
        PROVE  /\ sealer' \in [Sealers -> SealerState]
               /\ \A q \in Sealers : SealerSafe(sealer'[q], chain', now')
    <3>1. sealer \in [Sealers -> SealerState] /\ s \in SealerState
      BY <2>2 DEF Safe, SealerSafe
    <3>2. \A q \in Sealers : sealer'[q] = IF q = p THEN s ELSE sealer[q]
      BY <2>2, <3>1
    <3>3. sealer' \in [Sealers -> SealerState]
      BY <2>2, <3>1
    <3> QED  BY <1>2, <2>2, <3>2, <3>3
  <2> QED  BY <2>1, <2>2
<1>5. /\ job' \in [Jobs -> JobState]
      /\ \A p \in Jobs : JobSafe(job'[p], chain', now', rows', pending')
  <2>1. CASE job' = job
    BY <2>1 DEF Safe
  <2>2. ASSUME NEW p \in Jobs, NEW k, JobSafe(k, chain', now', rows', pending'),
               job' = [job EXCEPT ![p] = k]
        PROVE  /\ job' \in [Jobs -> JobState]
               /\ \A q \in Jobs : JobSafe(job'[q], chain', now', rows', pending')
    <3>1. job \in [Jobs -> JobState] /\ k \in JobState
      BY <2>2 DEF Safe, JobSafe
    <3>2. \A q \in Jobs : job'[q] = IF q = p THEN k ELSE job[q]
      BY <2>2, <3>1
    <3>3. job' \in [Jobs -> JobState]
      BY <2>2, <3>1
    <3> QED  BY <2>2, <3>2, <3>3
  <2> QED  BY <2>1, <2>2
<1>6. /\ verifier' \in [Verifiers -> VerifierState]
      /\ \A p \in Verifiers : VerifierSafe(verifier'[p], chain')
  <2>1. CASE verifier' = verifier
    BY <1>3, <2>1 DEF Safe
  <2>2. ASSUME NEW p \in Verifiers, NEW v, VerifierSafe(v, chain'),
               verifier' = [verifier EXCEPT ![p] = v]
        PROVE  /\ verifier' \in [Verifiers -> VerifierState]
               /\ \A q \in Verifiers : VerifierSafe(verifier'[q], chain')
    <3>1. verifier \in [Verifiers -> VerifierState] /\ v \in VerifierState
      BY <2>2 DEF Safe, VerifierSafe
    <3>2. \A q \in Verifiers : verifier'[q] = IF q = p THEN v ELSE verifier[q]
      BY <2>2, <3>1
    <3>3. verifier' \in [Verifiers -> VerifierState]
      BY <2>2, <3>1
    <3> QED  BY <1>3, <2>2, <3>2, <3>3
  <2> QED  BY <2>1, <2>2
<1> QED  BY <1>4, <1>5, <1>6 DEF Safe, SubjectState

\* A step of one task that leaves the store alone.
LEMMA SafeQuiet ==
    ASSUME Safe, UNCHANGED <<chain, now, rows, pending>>,
           subject' \in SubjectState, crashes' \in Nat,
           \/ /\ UNCHANGED <<job, verifier>>
              /\ \E p \in Sealers : \E s : /\ SealerSafe(s, chain, now)
                                           /\ sealer' = [sealer EXCEPT ![p] = s]
           \/ /\ UNCHANGED <<sealer, verifier>>
              /\ \E p \in Jobs : \E k : /\ JobSafe(k, chain, now, rows, pending)
                                        /\ job' = [job EXCEPT ![p] = k]
           \/ /\ UNCHANGED <<sealer, job>>
              /\ \E p \in Verifiers : \E v : /\ VerifierSafe(v, chain)
                                             /\ verifier' = [verifier EXCEPT ![p] = v]
           \/ UNCHANGED <<sealer, job, verifier>>
    PROVE  Safe'
<1>1. /\ StoreSafe(chain', now', rows', pending') /\ now <= now' /\ chain' = chain
      /\ SealedIn(chain) \subseteq SealedIn(chain')
      /\ \A q \in Jobs : JobSafe(job[q], chain', now', rows', pending')
  <2>1. chain' = chain /\ now' = now /\ rows' = rows /\ pending' = pending /\ now \in Nat
    BY DEF Safe, StoreSafe
  <2> QED  BY <2>1 DEF Safe
<1> QED  BY <1>1, SafeAfter

LEMMA InitSafe == Init => Safe
<1> SUFFICES ASSUME Init PROVE Safe
  OBVIOUS
<1>1. StoreSafe(<<>>, InitNow, InitRows, {})
  <2>1. SealedIn(<<>>) = {} /\ <<>> \in Seq(SealRecord) /\ DOMAIN <<>> = {}
    BY NothingSealed, EmptySeq
  <2>2. SealedRange(<<>>, InitNow) /\ Matches(<<>>, InitRows)
    BY <2>1 DEF SealedRange, Matches, Linked
  <2>3. PendingRecent(InitNow, {}) /\ Keys(InitRows, {})
    BY RowsAssumption DEF PendingRecent, Keys
  <2>4. InitNow \in Nat /\ InitNow >= 2 /\ InitRows \in SUBSET Row
    BY ClockAssumption, RowsAssumption
  <2> QED  BY <2>1, <2>2, <2>3, <2>4 DEF StoreSafe
<1>2. /\ chain = <<>> /\ now = InitNow /\ rows = InitRows /\ pending = {}
      /\ StoreSafe(chain, now, rows, pending) /\ chain \in Seq(SealRecord)
  BY <1>1 DEF Init, StoreSafe
<1>3. /\ SealerSafe(SealerIdle, chain, now) /\ SealerIdle \in SealerState
      /\ JobSafe(JobIdle, chain, now, rows, pending) /\ JobIdle \in JobState
      /\ VerifierSafe(VerifierIdle, chain) /\ VerifierIdle \in VerifierState
  <2>1. /\ SealerSafe(SealerIdle, chain, now)
        /\ JobSafe(JobIdle, chain, now, rows, pending)
        /\ VerifierSafe(VerifierIdle, chain)
    BY <1>2, SealerIdleSafe, JobIdleSafe, VerifierIdleSafe
  <2> QED  BY <2>1 DEF SealerSafe, JobSafe, VerifierSafe
<1>4. /\ sealer = [p \in Sealers |-> SealerIdle] /\ job = [p \in Jobs |-> JobIdle]
      /\ verifier = [p \in Verifiers |-> VerifierIdle] /\ crashes = 0
      /\ subject = [block |-> "none", token |-> "live"]
  BY DEF Init
<1> QED  BY <1>2, <1>3, <1>4 DEF Safe

\* The trail being written, and the clock.
LEMMA SafeNewEvent ==
    ASSUME Safe, NEW id \in RowIds, NEW kind \in NewRows, NewEvent(id, kind)
    PROVE  Safe'
<1> DEFINE e == [id |-> id, t |-> now, cls |-> kind.cls, user |-> kind.user, net |-> "full"]
<1>1. StoreSafe(chain, now, rows, pending) /\ now \in Nat
  BY DEF Safe, StoreSafe
<1>2. e \in Row /\ e.t = now /\ e.id = id
  BY <1>1, RowsAssumption DEF Row, Nets
<1>3. pending' = pending \cup {e} /\ \A r \in rows \cup pending : r.id # id
  BY DEF NewEvent
<1> HIDE DEF e
<1>4. StoreSafe(chain, now, rows, pending \cup {e})
  BY <1>1, <1>2, <1>3, StoreNewEvent
<1>5. ASSUME NEW q \in Jobs PROVE JobSafe(job[q], chain, now, rows, pending \cup {e})
  <2>1. JobSafe(job[q], chain, now, rows, pending)
    BY DEF Safe
  <2>2. ASSUME NEW o \in job[q].ops PROVE ~SameRow(e, o)
    <3>1. OpSafe(job[q], o, now, rows, pending) /\ o.t \in Nat
      BY <2>1 DEF JobSafe, JobState, Row
    <3>2. CASE o.t < now
      BY <1>1, <1>2, <3>1, <3>2 DEF SameRow
    <3>3. CASE \E r \in rows : SameRow(r, o)
      BY <1>2, <1>3, <3>3 DEF SameRow
    <3> QED  BY <3>1, <3>2, <3>3 DEF OpSafe
  <2>3. now <= now /\ \A r \in rows : SameRow(r, r)
    BY <1>1 DEF SameRow
  <2>4. \A f \in pending \cup {e} : f \in pending \/ \A o \in job[q].ops : ~SameRow(f, o)
    BY <2>2
  <2> QED  BY <1>1, <1>4, <2>1, <2>3, <2>4, JobLasts
<1>6. UNCHANGED <<now, rows, chain, sealer, job, verifier, subject, crashes>>
  BY DEF NewEvent
<1>7. now <= now /\ subject \in SubjectState /\ crashes \in Nat
  BY <1>1 DEF Safe, SubjectState
<1> QED  BY <1>3, <1>4, <1>5, <1>6, <1>7, SafeAfter

LEMMA SafeInsertEvent ==
    ASSUME Safe, NEW e \in pending, InsertEvent(e)
    PROVE  Safe'
<1>1. StoreSafe(chain, now, rows, pending) /\ now \in Nat
  BY DEF Safe, StoreSafe
<1>2. /\ rows' = rows \cup {e} /\ pending' = pending \ {e}
      /\ UNCHANGED <<now, chain, sealer, job, verifier, subject, crashes>>
  BY DEF InsertEvent
<1>3. StoreSafe(chain, now, rows \cup {e}, pending \ {e})
  BY <1>1, StoreInsert
<1>4. ASSUME NEW q \in Jobs PROVE JobSafe(job[q], chain, now, rows \cup {e}, pending \ {e})
  <2>1. JobSafe(job[q], chain, now, rows, pending)
    BY DEF Safe
  <2>2. \A o \in job[q].ops : ~SameRow(e, o)
    BY <2>1 DEF JobSafe, OpSafe
  <2>3. OpsFit(job[q], chain, rows) => OpsFit(job[q], chain, rows \cup {e})
    BY <2>2 DEF OpsFit
  <2>4. now <= now /\ \A r \in rows : SameRow(r, r)
    BY <1>1 DEF SameRow
  <2> QED  BY <1>1, <1>3, <2>1, <2>3, <2>4, JobLasts
<1>5. now <= now /\ subject \in SubjectState /\ crashes \in Nat
  BY <1>1 DEF Safe, SubjectState
<1> QED  BY <1>2, <1>3, <1>4, <1>5, SafeAfter

LEMMA SafeTick ==
    ASSUME Safe, Tick
    PROVE  Safe'
<1>1. StoreSafe(chain, now, rows, pending) /\ now \in Nat
  BY DEF Safe, StoreSafe
<1>2. /\ now' = now + 1 /\ \A e \in pending : now <= e.t
      /\ UNCHANGED <<rows, pending, chain, sealer, job, verifier, subject, crashes>>
  BY DEF Tick
<1>3. StoreSafe(chain, now + 1, rows, pending)
  BY <1>1, <1>2, StoreTick
<1>4. ASSUME NEW q \in Jobs PROVE JobSafe(job[q], chain, now + 1, rows, pending)
  <2>1. JobSafe(job[q], chain, now, rows, pending)
    BY DEF Safe
  <2>2. now <= now + 1 /\ \A r \in rows : SameRow(r, r)
    BY <1>1 DEF SameRow
  <2> QED  BY <1>1, <1>3, <2>1, <2>2, JobLasts
<1>5. now <= now + 1 /\ subject \in SubjectState /\ crashes \in Nat
  BY <1>1 DEF Safe, SubjectState
<1> QED  BY <1>2, <1>3, <1>4, <1>5, SafeAfter

\* What a job may count on when it moves.
LEMMA SafeFacts ==
    ASSUME Safe
    PROVE  /\ StoreSafe(chain, now, rows, pending) /\ now \in Nat
           /\ chain \in Seq(SealRecord) /\ Len(chain) \in Nat
           /\ rows \in SUBSET Row
           /\ subject \in SubjectState /\ crashes \in Nat
           /\ \A p \in Sealers : SealerSafe(sealer[p], chain, now)
           /\ \A p \in Jobs : JobSafe(job[p], chain, now, rows, pending)
           /\ \A p \in Verifiers : VerifierSafe(verifier[p], chain)
BY LenProperties DEF Safe, StoreSafe, SubjectState

\* The batch of a record that fits puts exactly that record on the chain.
LEMMA BatchOfOne ==
    ASSUME NEW h, NEW R, NEW rec, ApplyBatch(h, R, {rec})
    PROVE  Len(chain) = h /\ RowsIn(R, rec.window) = rec.rows /\ rows' = R
           /\ chain' = Append(chain, rec)
<1>1. (CHOOSE r \in {rec} : TRUE) = rec
  OBVIOUS
<1> QED  BY <1>1 DEF ApplyBatch, BatchFits

\* A window is sealed: the one after the last, with the rows it holds.
LEMMA SealApplied ==
    ASSUME Safe, NEW p \in Sealers, sealer[p].pc = "apply",
           ApplyBatch(sealer[p].head, rows,
                      {NextRecord(sealer[p].head, "seal", sealer[p].next, sealer[p].snap)})
    PROVE  /\ Len(chain) = sealer[p].head /\ rows' = rows
           /\ Sealing(chain, now, rows, pending, sealer[p].next, chain')
<1> DEFINE s == sealer[p]
           rec == NextRecord(s.head, "seal", s.next, s.snap)
<1>1. rec.window = s.next /\ rec.rows = s.snap
  BY DEF NextRecord
<1> HIDE DEF rec
<1>2. ApplyBatch(s.head, rows, {rec})
  BY DEF rec
<1>3. /\ Len(chain) = s.head /\ rows' = rows /\ chain' = Append(chain, rec)
      /\ RowsIn(rows, rec.window) = rec.rows
  BY <1>2, BatchOfOne
<1>4. rec = NextRecord(Len(chain), "seal", s.next, RowsIn(rows, s.next))
  BY <1>1, <1>3 DEF rec
<1>5. SealerSafe(s, chain, now) /\ now \in Nat /\ StoreSafe(chain, now, rows, pending)
  BY SafeFacts
<1>6. /\ s.next \in Nat /\ s.next + 2 <= now
      /\ chain # <<>> => s.next = SealedUntil(SealedIn(chain))
  BY <1>3, <1>5 DEF SealerSafe, SealerState
<1> QED  BY <1>3, <1>4, <1>5, <1>6 DEF Sealing

LEMMA SafeSealStep ==
    ASSUME Safe, NEW p \in Sealers, SealStep(p)
    PROVE  Safe'
<1> DEFINE s == sealer[p]
<1>0. /\ StoreSafe(chain, now, rows, pending) /\ now \in Nat /\ SealerSafe(s, chain, now)
      /\ subject \in SubjectState /\ crashes \in Nat /\ rows \in SUBSET Row
      /\ chain \in Seq(SealRecord)
      /\ \A q \in Jobs : JobSafe(job[q], chain, now, rows, pending)
  BY SafeFacts
<1>1. ASSUME NEW k, SealerSafe(k, chain, now), SetSealer(p, k), UNCHANGED <<rows, chain>>
      PROVE  Safe'
  BY <1>0, <1>1, SafeQuiet DEF SetSealer
<1>2. CASE SealStart(p)
  <2> DEFINE k == [SealerIdle EXCEPT
                 !.pc = "read", !.head = Len(chain), !.until = now,
                 !.next = IF SealedIn(chain) = {} THEN now - 2
                          ELSE SealedUntil(SealedIn(chain))]
  <2>1. SealerSafe(k, chain, now)
    BY <1>0, SealStartSafe
  <2>2. SetSealer(p, k) /\ UNCHANGED <<rows, chain>>
    BY <1>2 DEF SealStart, Sealed
  <2> HIDE DEF k
  <2> QED  BY <1>1, <2>1, <2>2
<1>3. CASE SealRead(p)
  <2> DEFINE S == RowsIn(rows, s.next)
             k == [s EXCEPT !.pc = "apply", !.snap = S]
  <2>1. S \in SUBSET Row
    BY <1>0 DEF RowsIn
  <2>2. SetSealer(p, k) /\ UNCHANGED <<rows, chain>> /\ s.pc = "read" /\ SealDue(s)
    BY <1>3 DEF SealRead
  <2> HIDE DEF S
  <2>3. SealerSafe(k, chain, now)
    BY <1>0, <2>1, <2>2, SealReadSafe
  <2> HIDE DEF k
  <2> QED  BY <1>1, <2>2, <2>3
<1>4. CASE SealEnd(p)
  BY <1>0, <1>1, <1>4, SealerIdleSafe DEF SealEnd
<1>5. CASE SealApply(p)
  <2> DEFINE rec == NextRecord(s.head, "seal", s.next, s.snap)
             k == [s EXCEPT !.pc = "read", !.head = s.head + 1, !.next = s.next + 1,
                            !.count = s.count + 1, !.snap = {}]
  <2>1. /\ s.pc = "apply"
        /\ \/ ApplyBatch(s.head, rows, {rec}) /\ SetSealer(p, k)
           \/ Conflict(s.head, rows, {rec}) /\ SetSealer(p, SealerIdle)
    BY <1>5 DEF SealApply
  <2>2. CASE Conflict(s.head, rows, {rec}) /\ SetSealer(p, SealerIdle)
    BY <1>0, <1>1, <2>2, SealerIdleSafe DEF Conflict
  <2>3. CASE ApplyBatch(s.head, rows, {rec}) /\ SetSealer(p, k)
    <3> DEFINE w == s.next
    <3>1. /\ Len(chain) = s.head /\ rows' = rows
          /\ Sealing(chain, now, rows, pending, w, chain')
      BY <2>1, <2>3, SealApplied
    <3>2. /\ StoreSafe(chain', now, rows, pending)
          /\ Len(chain') = Len(chain) + 1 /\ Len(chain) \in Nat
          /\ SealedIn(chain') = SealedIn(chain) \cup {w}
          /\ SealedUntil(SealedIn(chain')) = w + 1
          /\ chain # <<>> => /\ chain' # <<>>
                             /\ SealedUntil(SealedIn(chain)) <= SealedUntil(SealedIn(chain'))
      BY <3>1, SealGrows
    <3>3. sealer' = [sealer EXCEPT ![p] = k]
          /\ UNCHANGED <<now, pending, job, verifier, subject, crashes>>
      BY <2>3 DEF SetSealer
    <3>4. SealerSafe(k, chain', now)
      <4>1. s \in SealerState /\ s.until \in Nat /\ s.until <= now
        BY <1>0 DEF SealerSafe, SealerState
      <4>2. /\ k \in SealerState /\ k.pc = "read" /\ k.head = s.head + 1
            /\ k.next = w + 1 /\ k.until = s.until
        BY <4>1, SealedFields
      <4> HIDE DEF k, w
      <4> QED  BY <3>1, <3>2, <4>1, <4>2 DEF SealerSafe
    <3> HIDE DEF k
    <3>5. ASSUME NEW q \in Jobs PROVE JobSafe(job[q], chain', now, rows, pending)
      <4>1. now <= now /\ chain' # chain /\ \A r \in rows : SameRow(r, r)
        BY <1>0, <3>2 DEF SameRow
      <4>2. JobSafe(job[q], chain, now, rows, pending)
        BY <1>0
      <4> QED  BY <1>0, <3>2, <4>1, <4>2, JobLasts
    <3>6. now <= now
      BY <1>0
    <3> QED  BY <1>0, <3>1, <3>2, <3>3, <3>4, <3>5, <3>6, SafeAfter
  <2> QED  BY <2>1, <2>2, <2>3
<1> QED  BY <1>2, <1>3, <1>4, <1>5 DEF SealStep

LEMMA SafeVerifyStep ==
    ASSUME Safe, NEW p \in Verifiers, VerifyStep(p)
    PROVE  Safe'
<1> DEFINE v == verifier[p]
<1>0. /\ StoreSafe(chain, now, rows, pending) /\ VerifierSafe(v, chain)
      /\ subject \in SubjectState /\ crashes \in Nat /\ chain \in Seq(SealRecord)
  BY SafeFacts
<1>1. ASSUME NEW k, VerifierSafe(k, chain), SetVerifier(p, k)
      PROVE  Safe'
  BY <1>0, <1>1, SafeQuiet DEF SetVerifier
<1>2. CASE VerifyStart(p)
  <2> DEFINE k == [pc |-> "window", head |-> Len(chain),
                   todo |-> {chain[i].window : i \in DOMAIN chain},
                   failed |-> ~Linked(chain)]
  <2>1. VerifierSafe(k, chain)
    BY <1>0, VerifyStartSafe
  <2>2. SetVerifier(p, k)
    BY <1>2 DEF VerifyStart
  <2> HIDE DEF k
  <2> QED  BY <1>1, <2>1, <2>2
<1>3. CASE VerifyWindow(p)
  <2>1. PICK w \in v.todo :
          SetVerifier(p, [v EXCEPT !.todo = v.todo \ {w},
              !.failed = v.failed \/ Latest(SubSeq(chain, 1, v.head), w).rows
                                       # RowsIn(rows, w)])
    BY <1>3 DEF VerifyWindow
  <2> DEFINE k == [v EXCEPT !.todo = v.todo \ {w},
                     !.failed = v.failed \/ Latest(SubSeq(chain, 1, v.head), w).rows
                                              # RowsIn(rows, w)]
  <2>2. VerifierSafe(k, chain)
    BY <1>0, VerifyWindowSafe
  <2>3. SetVerifier(p, k)
    BY <2>1
  <2> HIDE DEF k
  <2> QED  BY <1>1, <2>2, <2>3
<1>4. CASE VerifyEnd(p)
  BY <1>0, <1>1, <1>4, VerifierIdleSafe DEF VerifyEnd
<1> QED  BY <1>2, <1>3, <1>4 DEF VerifyStep

\* The batch of a job that commits.
LEMMA LooseApplied ==
    ASSUME Safe, NEW p \in Jobs, job[p].pc = "loose",
           NEW R, R = ApplyOps(rows, LooseOps(job[p]), Deletes(job[p])),
           ApplyBatch(job[p].head, R, {})
    PROVE  /\ Loosening(chain, now, rows, pending, job[p], rows')
           /\ chain' = chain
<1>1. Len(chain) = job[p].head /\ rows' = R /\ chain' = chain
  BY DEF ApplyBatch, BatchFits
<1> QED  BY <1>1, SafeFacts DEF Loosening

LEMMA RecordApplied ==
    ASSUME Safe, NEW p \in Jobs, job[p].pc = "record",
           NEW R, R = ApplyOps(rows, WindowOps(job[p]), Deletes(job[p])),
           ApplyBatch(job[p].head, R, {NextRecord(job[p].head, Kind(job[p]),
                                                  FirstWindow(job[p]), job[p].snap)})
    PROVE  Recording(chain, now, rows, pending, job[p], rows', FirstWindow(job[p]), chain')
<1> DEFINE rec == NextRecord(job[p].head, Kind(job[p]), FirstWindow(job[p]), job[p].snap)
<1>1. rec.window = FirstWindow(job[p]) /\ rec.rows = job[p].snap
  BY DEF NextRecord
<1>2. ApplyBatch(job[p].head, R, {rec})
  OBVIOUS
<1> HIDE DEF rec
<1>3. /\ Len(chain) = job[p].head /\ rows' = R /\ chain' = Append(chain, rec)
      /\ RowsIn(R, rec.window) = rec.rows
  BY <1>2, BatchOfOne
<1>4. rec = NextRecord(Len(chain), Kind(job[p]), FirstWindow(job[p]),
                       RowsIn(rows', FirstWindow(job[p])))
  BY <1>1, <1>3 DEF rec
<1> QED  BY <1>3, <1>4, SafeFacts DEF Recording

\* A conflict: the job starts over, or gives up.
LEMMA SafeRetry ==
    ASSUME Safe, NEW p \in Jobs, job[p].pc \in Reads, Retry(p), UNCHANGED <<rows, chain, subject>>
    PROVE  Safe'
<1> DEFINE j == job[p]
           x == j.tries + 1
           k == IF x >= ConflictRetries THEN JobIdle ELSE [Rewrite(j, j.query) EXCEPT !.tries = x]
<1>1. /\ StoreSafe(chain, now, rows, pending) /\ JobSafe(j, chain, now, rows, pending)
      /\ subject \in SubjectState /\ crashes \in Nat
  BY SafeFacts
<1>2. x \in Nat
  BY <1>1 DEF JobSafe, JobState
<1>3. job' = [job EXCEPT ![p] = k] /\ UNCHANGED <<now, pending, sealer, verifier, crashes>>
  BY DEF Retry, SetJob
<1> HIDE DEF x
<1>4. JobSafe(k, chain, now, rows, pending)
  <2>1. JobSafe(JobIdle, chain, now, rows, pending)
    BY <1>1, JobIdleSafe
  <2>2. JobSafe([Rewrite(j, j.query) EXCEPT !.tries = x], chain, now, rows, pending)
    BY <1>1, <1>2, AgainSafe
  <2> QED  BY <2>1, <2>2
<1> HIDE DEF k
<1> QED  BY <1>1, <1>3, <1>4, SafeQuiet

LEMMA SafeLooseApply ==
    ASSUME Safe, NEW p \in Jobs, LooseApply(p)
    PROVE  Safe'
<1> DEFINE j == job[p]
           R == ApplyOps(rows, LooseOps(j), Deletes(j))
           m == [j EXCEPT !.ops = j.ops \ LooseOps(j)]
<1>1. /\ StoreSafe(chain, now, rows, pending) /\ now \in Nat
      /\ subject \in SubjectState /\ crashes \in Nat
      /\ \A q \in Jobs : JobSafe(job[q], chain, now, rows, pending)
  BY SafeFacts
<1>2. /\ j.pc = "loose" /\ subject' = subject
      /\ \/ ApplyBatch(j.head, R, {}) /\ GoOn(p, m)
         \/ Conflict(j.head, R, {}) /\ Retry(p)
  BY DEF LooseApply
<1>3. CASE Conflict(j.head, R, {}) /\ Retry(p)
  BY <1>2, <1>3, SafeRetry DEF Conflict, Reads
<1>4. CASE ApplyBatch(j.head, R, {}) /\ GoOn(p, m)
  <2>1. Loosening(chain, now, rows, pending, j, rows') /\ chain' = chain
    BY <1>2, <1>4, LooseApplied
  <2>2. /\ job' = [job EXCEPT ![p] = NextJob(m)]
        /\ UNCHANGED <<now, pending, sealer, verifier, crashes>>
    BY <1>4 DEF GoOn, SetJob, NextJob
  <2>3. /\ StoreSafe(chain, now, rows', pending)
        /\ \A i : JobSafe(i, chain, now, rows, pending)
                    => JobSafe(i, chain, now, rows', pending)
        /\ JobSafe(NextJob(m), chain, now, rows', pending)
    BY <2>1, LooseSafe
  <2> DEFINE k == NextJob(m)
  <2> HIDE DEF k
  <2>4. job' = [job EXCEPT ![p] = k] /\ JobSafe(k, chain, now, rows', pending)
    BY <2>2, <2>3 DEF k
  <2>5. now <= now /\ \A q \in Jobs : JobSafe(job[q], chain, now, rows', pending)
    BY <1>1, <2>3
  <2> HIDE DEF m
  <2> QED  BY <1>1, <1>2, <2>1, <2>2, <2>3, <2>4, <2>5, SafeAfter
<1> QED  BY <1>2, <1>3, <1>4

LEMMA SafeRecordApply ==
    ASSUME Safe, NEW p \in Jobs, RecordApply(p)
    PROVE  Safe'
<1> DEFINE j == job[p]
           w == FirstWindow(j)
           R == ApplyOps(rows, WindowOps(j), Deletes(j))
           rec == NextRecord(j.head, Kind(j), w, j.snap)
           m == Recorded(j)
<1>1. /\ StoreSafe(chain, now, rows, pending) /\ now \in Nat
      /\ subject \in SubjectState /\ crashes \in Nat
      /\ \A q \in Jobs : JobSafe(job[q], chain, now, rows, pending)
  BY SafeFacts
<1>2. /\ j.pc = "record" /\ subject' = subject
      /\ \/ ApplyBatch(j.head, R, {rec}) /\ GoOn(p, m)
         \/ Conflict(j.head, R, {rec}) /\ Retry(p)
  BY DEF RecordApply, Recorded
<1>3. CASE Conflict(j.head, R, {rec}) /\ Retry(p)
  BY <1>2, <1>3, SafeRetry DEF Conflict, Reads
<1>4. CASE ApplyBatch(j.head, R, {rec}) /\ GoOn(p, m)
  <2>1. Recording(chain, now, rows, pending, j, rows', w, chain')
    BY <1>2, <1>4, RecordApplied
  <2>2. /\ job' = [job EXCEPT ![p] = NextJob(m)]
        /\ UNCHANGED <<now, pending, sealer, verifier, crashes>>
    <3> HIDE DEF m
    <3> QED  BY <1>4 DEF GoOn, SetJob, NextJob
  <2>3. /\ StoreSafe(chain', now, rows', pending)
        /\ Len(chain') = Len(chain) + 1 /\ SealedIn(chain') = SealedIn(chain)
        /\ \A i : JobSafe(i, chain, now, rows, pending)
                    => JobSafe(i, chain', now, rows', pending)
        /\ JobSafe(NextJob(m), chain', now, rows', pending)
    <3> HIDE DEF j
    <3> QED  BY <2>1, RecordSafe
  <2> DEFINE k == NextJob(m)
  <2> HIDE DEF k
  <2>4. job' = [job EXCEPT ![p] = k] /\ JobSafe(k, chain', now, rows', pending)
    BY <2>2, <2>3 DEF k
  <2>5. now <= now /\ \A q \in Jobs : JobSafe(job[q], chain', now, rows', pending)
    BY <1>1, <2>3
  <2> HIDE DEF m
  <2> QED  BY <1>1, <1>2, <2>2, <2>3, <2>4, <2>5, SafeAfter
<1> QED  BY <1>2, <1>3, <1>4

LEMMA SafeReadCandidates ==
    ASSUME Safe, NEW p \in Jobs, ReadCandidates(p)
    PROVE  Safe'
<1> DEFINE j == job[p]
<1>1. /\ StoreSafe(chain, now, rows, pending) /\ JobSafe(j, chain, now, rows, pending)
      /\ subject \in SubjectState /\ crashes \in Nat
  BY SafeFacts
<1>2. PICK B \in Batches(Candidates(j)) :
        SetJob(p, [j EXCEPT !.ops = {Change(j, r) : r \in B},
            !.pc = IF LooseOps([j EXCEPT !.ops = {Change(j, r) : r \in B}]) # {}
                   THEN "loose" ELSE "rows"])
  BY DEF ReadCandidates
<1>3. j.pc = "candidates" /\ Candidates(j) # {} /\ UNCHANGED <<rows, chain, subject>>
  BY DEF ReadCandidates
<1> DEFINE ops == {Change(j, r) : r \in B}
           i == [j EXCEPT !.ops = ops]
           pc == IF LooseOps(i) # {} THEN "loose" ELSE "rows"
           k == Chosen(j, B, pc)
<1>4. /\ B # {} /\ B \in SUBSET rows
      /\ \A r \in B : Due(j, r) /\ (Bounded(j) => r.t < j.bound)
  BY <1>3, BatchesNotEmpty DEF Candidates
<1>5. job' = [job EXCEPT ![p] = k] /\ UNCHANGED <<now, pending, sealer, verifier, crashes>>
  BY <1>2 DEF SetJob, Chosen
<1>6. ASSUME pc = "rows", NEW r \in B PROVE r.t \in j.sealed
  <2>1. j \in JobState /\ r \in Row
    BY <1>1, <1>4 DEF JobSafe, StoreSafe
  <2>2. Change(j, r) \in ops /\ Change(j, r).t = r.t
    BY <2>1, ChangeFacts
  <2>3. i.ops = ops /\ i.sealed = j.sealed
    BY <2>1 DEF JobState
  <2>4. LooseOps(i) = {}
    BY <1>6
  <2> HIDE DEF ops, i
  <2> QED  BY <2>2, <2>3, <2>4 DEF LooseOps
<1>7. pc \in {"loose", "rows"}
  OBVIOUS
<1> HIDE DEF pc
<1>8. JobSafe(k, chain, now, rows, pending)
  BY <1>1, <1>3, <1>4, <1>6, <1>7, ReadCandidatesSafe
<1> HIDE DEF k
<1> QED  BY <1>1, <1>3, <1>5, <1>8, SafeQuiet

LEMMA SafeRewriteDone ==
    ASSUME Safe, NEW p \in Jobs, RewriteDone(p)
    PROVE  Safe'
<1> DEFINE j == job[p]
           k == CASE j.query = "subject" -> [JobIdle EXCEPT !.pc = "elsewhere"]
                  [] j.query = "expire" /\ PseudonymiseAfter > 0 -> Rewrite(j, "pseudonymise")
                  [] OTHER -> JobIdle
<1>1. /\ StoreSafe(chain, now, rows, pending) /\ JobSafe(j, chain, now, rows, pending)
      /\ subject \in SubjectState /\ crashes \in Nat
  BY SafeFacts
<1>2. /\ job' = [job EXCEPT ![p] = k]
      /\ UNCHANGED <<now, pending, sealer, verifier, crashes, rows, chain, subject>>
  BY DEF RewriteDone, SetJob
<1>3. JobSafe(k, chain, now, rows, pending)
  <2>1. CASE j.query = "subject"
    BY <1>1, <2>1, JobIdleSafe
  <2>2. CASE j.query = "expire" /\ PseudonymiseAfter > 0
    <3>1. k = Rewrite(j, "pseudonymise")
      BY <2>2
    <3>2. /\ j.at \in Nat /\ j.bound \in Nat /\ j.at <= now
          /\ chain # <<>> /\ j.bound <= SealedUntil(SealedIn(chain))
          /\ "pseudonymise" \in Queries /\ 0 \in Nat
      BY <1>1, <2>2 DEF JobSafe, JobState, Bounded, Queries
    <3>3. JobSafe(Rewrite(j, "pseudonymise"), chain, now, rows, pending)
      BY <1>1, <3>2, RewriteSafe
    <3> QED  BY <3>1, <3>3
  <2>3. CASE j.query # "subject" /\ ~(j.query = "expire" /\ PseudonymiseAfter > 0)
    <3>1. k = JobIdle
      BY <2>3
    <3> QED  BY <1>1, <3>1, JobIdleSafe
  <2> QED  BY <2>1, <2>2, <2>3
<1> HIDE DEF k
<1> QED  BY <1>1, <1>2, <1>3, SafeQuiet

LEMMA SafeReadRows ==
    ASSUME Safe, NEW p \in Jobs, ReadRows(p)
    PROVE  Safe'
<1> DEFINE j == job[p]
           S == ApplyOps(RowsIn(rows, FirstWindow(j)), WindowOps(j), Deletes(j))
           k == [j EXCEPT !.pc = "record", !.snap = S]
<1>1. /\ StoreSafe(chain, now, rows, pending) /\ JobSafe(j, chain, now, rows, pending)
      /\ subject \in SubjectState /\ crashes \in Nat /\ rows \in SUBSET Row
  BY SafeFacts
<1>2. /\ job' = [job EXCEPT ![p] = k] /\ j.pc = "rows"
      /\ UNCHANGED <<now, pending, sealer, verifier, crashes, rows, chain, subject>>
  BY DEF ReadRows, SetJob
<1>3. S \in SUBSET Row
  <2> DEFINE R == RowsIn(rows, FirstWindow(j))
             ops == WindowOps(j)
             del == Deletes(j)
  <2>1. R \in SUBSET Row /\ ops \in SUBSET Row /\ del \in BOOLEAN
    <3>1. R \in SUBSET Row
      BY <1>1 DEF RowsIn
    <3>2. ops \in SUBSET Row
      BY <1>1 DEF WindowOps, JobSafe, JobState
    <3>3. del \in BOOLEAN
      BY DEF Deletes
    <3> QED  BY <3>1, <3>2, <3>3
  <2>2. S = ApplyOps(R, ops, del)
    OBVIOUS
  <2> HIDE DEF R, ops, del, S
  <2> QED  BY <2>1, <2>2, AppliedRow
<1> HIDE DEF S
<1>4. j \in JobState
  BY <1>1 DEF JobSafe
<1>5. /\ k \in JobState /\ k.pc = "record" /\ k.ops = j.ops /\ k.query = j.query
      /\ k.at = j.at /\ k.bound = j.bound /\ k.head = j.head /\ k.sealed = j.sealed
  BY <1>3, <1>4 DEF JobState
<1>6. j.ops # {} /\ \A o \in j.ops : o.t \in j.sealed
  BY <1>1, <1>2 DEF JobSafe
<1> HIDE DEF k
<1>7. JobSafe(k, chain, now, rows, pending)
  BY <1>1, <1>2, <1>5, <1>6, GoOnSafe
<1> QED  BY <1>1, <1>2, <1>7, SafeQuiet

LEMMA SafeRewriteStep ==
    ASSUME Safe, NEW p \in Jobs, RewriteStep(p)
    PROVE  Safe'
<1> DEFINE j == job[p]
<1>1. /\ StoreSafe(chain, now, rows, pending) /\ JobSafe(j, chain, now, rows, pending)
      /\ subject \in SubjectState /\ crashes \in Nat
  BY SafeFacts
<1>2. CASE ReadWindows(p)
  <2> DEFINE k == [j EXCEPT !.pc = "candidates", !.head = Len(chain),
                            !.sealed = SealedIn(chain)]
  <2>1. /\ job' = [job EXCEPT ![p] = k] /\ j.pc = "windows"
        /\ UNCHANGED <<now, pending, sealer, verifier, crashes, rows, chain, subject>>
    BY <1>2 DEF ReadWindows, SetJob, Sealed
  <2>2. JobSafe(k, chain, now, rows, pending)
    BY <1>1, <2>1, ReadWindowsSafe
  <2> HIDE DEF k
  <2> QED  BY <1>1, <2>1, <2>2, SafeQuiet
<1>3. CASE EraseElsewhere(p)
  <2>1. /\ job' = [job EXCEPT ![p] = JobIdle]
        /\ UNCHANGED <<now, pending, sealer, verifier, crashes, rows, chain>>
    BY <1>3 DEF EraseElsewhere, SetJob
  <2>2. subject' \in SubjectState
    BY <1>1, <1>3 DEF EraseElsewhere, SubjectState
  <2>3. JobSafe(JobIdle, chain, now, rows, pending)
    BY <1>1, JobIdleSafe
  <2> QED  BY <1>1, <2>1, <2>2, <2>3, SafeQuiet
<1> QED  BY <1>2, <1>3, SafeReadCandidates, SafeRewriteDone, SafeLooseApply, SafeReadRows,
            SafeRecordApply DEF RewriteStep

\* A job that begins.
LEMMA SafeJobStart ==
    ASSUME Safe, NEW p \in Jobs, NEW at \in Nat, NEW bound \in Nat, NEW query \in Queries,
           at <= now,
           query \in {"expire", "pseudonymise"} =>
             chain # <<>> /\ bound <= SealedUntil(SealedIn(chain)),
           SetJob(p, Rewrite([at |-> at, bound |-> bound], query)),
           UNCHANGED <<rows, chain, subject>>
    PROVE  Safe'
<1> DEFINE i == [at |-> at, bound |-> bound]
           k == Rewrite(i, query)
<1>1. /\ StoreSafe(chain, now, rows, pending)
      /\ subject \in SubjectState /\ crashes \in Nat
  BY SafeFacts
<1>2. i.at = at /\ i.bound = bound /\ 0 \in Nat
  OBVIOUS
<1>3. job' = [job EXCEPT ![p] = k] /\ UNCHANGED <<now, pending, sealer, verifier, crashes>>
  BY DEF SetJob
<1> HIDE DEF i
<1>4. JobSafe(k, chain, now, rows, pending)
  BY <1>1, <1>2, RewriteSafe
<1> HIDE DEF k
<1> QED  BY <1>1, <1>3, <1>4, SafeQuiet

LEMMA SafeLifecycleStart ==
    ASSUME Safe, NEW p \in Jobs, LifecycleStart(p)
    PROVE  Safe'
<1> DEFINE u == SealedUntil(SealedIn(chain))
<1>1. PICK query \in {"expire", "pseudonymise"} :
        SetJob(p, Rewrite([at |-> now, bound |-> u], query))
  BY DEF LifecycleStart, Sealed
<1>2. SealedIn(chain) # {} /\ UNCHANGED <<rows, chain, subject>>
  BY DEF LifecycleStart, Sealed
<1>3. StoreSafe(chain, now, rows, pending) /\ now \in Nat
  BY SafeFacts
<1>4. chain # <<>> /\ u \in Nat
  BY <1>2, <1>3, SealedFacts DEF StoreSafe
<1>5. u <= SealedUntil(SealedIn(chain)) /\ now <= now
  BY <1>3, <1>4
<1> HIDE DEF u
<1>6. query \in Queries
  BY DEF Queries
<1> QED  BY <1>1, <1>2, <1>3, <1>4, <1>5, <1>6, SafeJobStart

LEMMA SafeOperatorStart ==
    ASSUME Safe, NEW p \in Jobs,
           \/ \E before \in PurgeCutoffs : PurgeStart(p, before)
           \/ \E force \in BOOLEAN : EraseStart(p, force)
    PROVE  Safe'
<1>1. now \in Nat /\ 0 \in Nat /\ 0 <= now
  BY SafeFacts
<1>2. ASSUME NEW before \in PurgeCutoffs, PurgeStart(p, before) PROVE Safe'
  <2>1. /\ before \in Nat /\ before <= now /\ "purge" \in Queries
        /\ SetJob(p, Rewrite([at |-> before, bound |-> 0], "purge"))
        /\ UNCHANGED <<rows, chain, subject>>
    BY <1>2, RowsAssumption DEF PurgeStart, Queries
  <2>2. "purge" \notin {"expire", "pseudonymise"}
    OBVIOUS
  <2> QED  BY <1>1, <2>1, <2>2, SafeJobStart
<1>3. ASSUME NEW force \in BOOLEAN, EraseStart(p, force) PROVE Safe'
  <2>1. /\ "subject" \in Queries
        /\ SetJob(p, Rewrite([at |-> 0, bound |-> 0], "subject"))
        /\ UNCHANGED <<rows, chain, subject>>
    BY <1>3 DEF EraseStart, Queries
  <2>2. "subject" \notin {"expire", "pseudonymise"}
    OBVIOUS
  <2> QED  BY <1>1, <2>1, <2>2, SafeJobStart
<1> QED  BY <1>2, <1>3

LEMMA SafeCrash ==
    ASSUME Safe, Crash
    PROVE  Safe'
<1>1. /\ StoreSafe(chain, now, rows, pending)
      /\ subject \in SubjectState /\ crashes \in Nat
  BY SafeFacts
<1>2. SealerSafe(SealerIdle, chain, now) /\ JobSafe(JobIdle, chain, now, rows, pending)
  BY <1>1, SealerIdleSafe, JobIdleSafe
<1>3. /\ crashes' \in Nat /\ subject' = subject
      /\ UNCHANGED <<chain, now, rows, pending, verifier>>
  BY <1>1 DEF Crash
<1>4. \/ job' = job /\ \E p \in Sealers : sealer' = [sealer EXCEPT ![p] = SealerIdle]
      \/ sealer' = sealer /\ \E p \in Jobs : job' = [job EXCEPT ![p] = JobIdle]
  BY DEF Crash
<1> QED  BY <1>1, <1>2, <1>3, <1>4, SafeQuiet

LEMMA SafeStep == Safe /\ [Next]_vars => Safe'
<1> SUFFICES ASSUME Safe, [Next]_vars PROVE Safe'
  OBVIOUS
<1>1. subject \in SubjectState /\ crashes \in Nat
  BY SafeFacts
<1>2. CASE UNCHANGED vars
  BY <1>1, <1>2, SafeQuiet DEF vars
<1>3. CASE BlockAccount
  <2>1. subject' \in SubjectState
    BY <1>1, <1>3 DEF BlockAccount, SubjectState
  <2> QED  BY <1>1, <1>3, <2>1, SafeQuiet DEF BlockAccount
<1>4. ASSUME NEW p \in Lifecyclers, LifecycleStart(p) PROVE Safe'
  BY <1>4, SafeLifecycleStart DEF Jobs
<1>5. ASSUME NEW p \in Operators,
             \/ \E before \in PurgeCutoffs : PurgeStart(p, before)
             \/ \E force \in BOOLEAN : EraseStart(p, force)
      PROVE  Safe'
  BY <1>5, SafeOperatorStart DEF Jobs
<1> QED
  BY <1>2, <1>3, <1>4, <1>5, SafeNewEvent, SafeInsertEvent, SafeTick, SafeSealStep,
     SafeRewriteStep, SafeVerifyStep, SafeCrash DEF Next

-----------------------------------------------------------------------------
(* What a step does to the rows and the chain.                             *)

LEMMA StoreMoves ==
    ASSUME Safe, [Next]_vars
    PROVE  \/ rows' = rows /\ chain' = chain
           \/ chain' = chain /\ \E e \in pending : rows' = rows \cup {e}
           \/ rows' = rows /\ \E w : Sealing(chain, now, rows, pending, w, chain')
           \/ /\ chain' = chain
              /\ \E p \in Jobs : Loosening(chain, now, rows, pending, job[p], rows')
           \/ \E p \in Jobs : Recording(chain, now, rows, pending, job[p], rows',
                                        FirstWindow(job[p]), chain')
<1> DEFINE Claim ==
             \/ rows' = rows /\ chain' = chain
             \/ chain' = chain /\ \E e \in pending : rows' = rows \cup {e}
             \/ rows' = rows /\ \E w : Sealing(chain, now, rows, pending, w, chain')
             \/ /\ chain' = chain
                /\ \E p \in Jobs : Loosening(chain, now, rows, pending, job[p], rows')
             \/ \E p \in Jobs : Recording(chain, now, rows, pending, job[p], rows',
                                          FirstWindow(job[p]), chain')
<1>1. CASE UNCHANGED vars
  BY <1>1 DEF vars
<1>2. ASSUME NEW id \in RowIds, NEW kind \in NewRows, NewEvent(id, kind) PROVE Claim
  BY <1>2 DEF NewEvent
<1>3. ASSUME NEW e \in pending, InsertEvent(e) PROVE Claim
  BY <1>3 DEF InsertEvent
<1>4. CASE Tick \/ BlockAccount \/ Crash
  BY <1>4 DEF Tick, BlockAccount, Crash
<1>5. ASSUME NEW p \in Sealers, SealStep(p) PROVE Claim
  <2>1. CASE SealStart(p) \/ SealRead(p) \/ SealEnd(p)
    BY <2>1 DEF SealStart, SealRead, SealEnd
  <2>2. CASE SealApply(p)
    <3> DEFINE s == sealer[p]
               rec == NextRecord(s.head, "seal", s.next, s.snap)
    <3>1. /\ s.pc = "apply"
          /\ ApplyBatch(s.head, rows, {rec}) \/ Conflict(s.head, rows, {rec})
      BY <2>2 DEF SealApply
    <3>2. CASE Conflict(s.head, rows, {rec})
      BY <3>2 DEF Conflict
    <3>3. CASE ApplyBatch(s.head, rows, {rec})
      BY <3>1, <3>3, SealApplied
    <3> QED  BY <3>1, <3>2, <3>3
  <2> QED  BY <1>5, <2>1, <2>2 DEF SealStep
<1>6. ASSUME NEW p \in Lifecyclers, LifecycleStart(p) PROVE Claim
  BY <1>6 DEF LifecycleStart
<1>7. ASSUME NEW p \in Operators,
             \/ \E before \in PurgeCutoffs : PurgeStart(p, before)
             \/ \E force \in BOOLEAN : EraseStart(p, force)
      PROVE  Claim
  BY <1>7 DEF PurgeStart, EraseStart
<1>8. ASSUME NEW p \in Jobs, RewriteStep(p) PROVE Claim
  <2> DEFINE j == job[p]
  <2>1. CASE ReadWindows(p) \/ ReadCandidates(p) \/ RewriteDone(p) \/ ReadRows(p)
             \/ EraseElsewhere(p)
    BY <2>1 DEF ReadWindows, ReadCandidates, RewriteDone, ReadRows, EraseElsewhere
  <2>2. CASE LooseApply(p)
    <3> DEFINE R == ApplyOps(rows, LooseOps(j), Deletes(j))
    <3>1. j.pc = "loose" /\ (ApplyBatch(j.head, R, {}) \/ Conflict(j.head, R, {}))
      BY <2>2 DEF LooseApply
    <3>2. CASE Conflict(j.head, R, {})
      BY <3>2 DEF Conflict
    <3>3. CASE ApplyBatch(j.head, R, {})
      BY <3>1, <3>3, LooseApplied
    <3> QED  BY <3>1, <3>2, <3>3
  <2>3. CASE RecordApply(p)
    <3> DEFINE R == ApplyOps(rows, WindowOps(j), Deletes(j))
               rec == NextRecord(j.head, Kind(j), FirstWindow(j), j.snap)
    <3>1. j.pc = "record" /\ (ApplyBatch(j.head, R, {rec}) \/ Conflict(j.head, R, {rec}))
      BY <2>3 DEF RecordApply
    <3>2. CASE Conflict(j.head, R, {rec})
      BY <3>2 DEF Conflict
    <3>3. CASE ApplyBatch(j.head, R, {rec})
      BY <3>1, <3>3, RecordApplied
    <3> QED  BY <3>1, <3>2, <3>3
  <2> QED  BY <1>8, <2>1, <2>2, <2>3 DEF RewriteStep
<1>9. ASSUME NEW p \in Verifiers, VerifyStep(p) PROVE Claim
  BY <1>9 DEF VerifyStep, VerifyStart, VerifyWindow, VerifyEnd, SetVerifier
<1> QED  BY <1>1, <1>2, <1>3, <1>4, <1>5, <1>6, <1>7, <1>8, <1>9 DEF Next

\* No step gives a row at or after the start of the chain anything back.
LEMMA RedactStep ==
    ASSUME Safe, [Next]_vars, NEW r \in rows, NEW s \in rows', SameRow(r, s), ~PreChain(r)
    PROVE  RedactedRow(r, s)
<1>1. StoreSafe(chain, now, rows, pending) /\ Keys(rows, pending)
  BY DEF Safe, StoreSafe
<1>2. ASSUME s \in rows PROVE RedactedRow(r, s)
  <2>1. r = s
    BY <1>1, <1>2 DEF Keys
  <2> QED  BY <2>1 DEF RedactedRow, SameRow
<1>3. ASSUME NEW e \in pending, rows' = rows \cup {e} PROVE RedactedRow(r, s)
  BY <1>1, <1>2, <1>3 DEF Keys, SameRow
<1>4. ASSUME NEW p \in Jobs, Loosening(chain, now, rows, pending, job[p], rows')
      PROVE  RedactedRow(r, s)
  <2>1. ~Before(chain, r)
    BY DEF PreChain, Before
  <2> QED  BY <1>4, <2>1, LooseSafe
<1>5. ASSUME NEW p \in Jobs, Recording(chain, now, rows, pending, job[p], rows',
                                       FirstWindow(job[p]), chain')
      PROVE  RedactedRow(r, s)
  BY <1>5, RecordSafe
<1> QED  BY <1>2, <1>3, <1>4, <1>5, StoreMoves

-----------------------------------------------------------------------------
(* The refinement of the ledger.                                           *)

\* What the ledger's `held' is in the store.
Held == [w \in Sealed |-> RowsIn(rows, w)]

LEMMA HeldFacts ==
    /\ DOMAIN Held = SealedIn(chain)
    /\ \A w \in SealedIn(chain) : Held[w] = RowsIn(rows, w)
    /\ DOMAIN Held' = SealedIn(chain')
    /\ \A w \in SealedIn(chain') : Held'[w] = RowsIn(rows', w)
BY DEF Held, Sealed

LEMMA HeldStays ==
    ASSUME chain' = chain, \A w \in SealedIn(chain) : RowsIn(rows', w) = RowsIn(rows, w)
    PROVE  Held' = Held
BY DEF Held, Sealed

LEMMA LedgerSeals ==
    ASSUME NEW w, Sealing(chain, now, rows, pending, w, chain'), rows' = rows
    PROVE  Ledger!Seal
<1>1. /\ SealedIn(chain') = SealedIn(chain) \cup {w} /\ w \notin SealedIn(chain)
      /\ chain # <<>> => w - 1 \in SealedIn(chain)
  BY SealGrows
<1>2. w \in Nat /\ SealedIn(chain) \in SUBSET Nat /\ (SealedIn(chain) = {} <=> chain = <<>>)
  BY SealedFacts DEF Sealing, StoreSafe
<1>3. SealedIn(chain) # {} => \E v \in SealedIn(chain) : w = v + 1
  <2>1. (w - 1) + 1 = w
    BY <1>2
  <2> QED  BY <1>1, <1>2, <2>1
<1>4. chain' = Append(chain, NextRecord(Len(chain), "seal", w, RowsIn(rows, w)))
  BY DEF Sealing
<1>5. /\ w \in DOMAIN Held' /\ w \notin DOMAIN Held
      /\ DOMAIN Held # {} => \E v \in DOMAIN Held : w = v + 1
      /\ DOMAIN Held' = DOMAIN Held \cup {w}
      /\ \A v \in DOMAIN Held \ {w} : Held'[v] = Held[v]
      /\ chain' = Append(chain, NextRecord(Len(chain), "seal", w, Held'[w]))
  BY <1>1, <1>3, <1>4, HeldFacts
<1> QED  BY <1>5 DEF Ledger!Seal, Ledger!NextToSeal, Ledger!OthersKept, Ledger!NextRecord,
                     NextRecord, Held

LEMMA LedgerRedacts ==
    ASSUME NEW k, NEW w, Recording(chain, now, rows, pending, k, rows', w, chain')
    PROVE  Ledger!Redact
<1>1. /\ SealedIn(chain') = SealedIn(chain) /\ w \in SealedIn(chain)
      /\ \A v : v # w => RowsIn(rows', v) = RowsIn(rows, v)
      /\ Redaction(Kind(k), RowsIn(rows, w), RowsIn(rows', w))
  BY RecordSafe
<1>2. Kind(k) \in SealKind
  BY DEF Kind, SealKind
<1>3. chain' = Append(chain, NextRecord(Len(chain), Kind(k), w, RowsIn(rows', w)))
  BY DEF Recording
<1> DEFINE kind == Kind(k)
<1>4. /\ w \in DOMAIN Held /\ kind \in SealKind
      /\ DOMAIN Held' = DOMAIN Held
      /\ \A v \in DOMAIN Held \ {w} : Held'[v] = Held[v]
      /\ Redaction(kind, Held[w], Held'[w])
      /\ chain' = Append(chain, NextRecord(Len(chain), kind, w, Held'[w]))
  BY <1>1, <1>2, <1>3, HeldFacts
<1> HIDE DEF kind
<1> QED  BY <1>4 DEF Ledger!Redact, Ledger!OthersKept, Ledger!NextRecord, NextRecord,
                     Ledger!Redaction, Redaction, Ledger!RedactedRow, RedactedRow,
                     Ledger!SameRow, SameRow, Ledger!SealKind, SealKind, Held

LEMMA LedgerInit == Init => Ledger!Init
<1> SUFFICES ASSUME Init PROVE Ledger!Init
  OBVIOUS
<1>1. chain = <<>> /\ SealedIn(chain) = {}
  BY NothingSealed DEF Init
<1>2. DOMAIN Held = {}
  BY <1>1, HeldFacts
<1> QED  BY <1>1, <1>2 DEF Ledger!Init, Held

LEMMA LedgerStep == Safe /\ [Next]_vars => [Ledger!Next]_(Ledger!vars)
<1> SUFFICES ASSUME Safe, [Next]_vars PROVE Ledger!Next \/ UNCHANGED Ledger!vars
  OBVIOUS
<1>1. StoreSafe(chain, now, rows, pending)
  BY DEF Safe
<1>2. ASSUME chain' = chain, \A w \in SealedIn(chain) : RowsIn(rows', w) = RowsIn(rows, w)
      PROVE  UNCHANGED Ledger!vars
  <2>1. Held' = Held
    BY <1>2, HeldStays
  <2> QED  BY <1>2, <2>1 DEF Ledger!vars, Held
<1>3. CASE rows' = rows /\ chain' = chain
  BY <1>2, <1>3
<1>4. ASSUME chain' = chain, NEW e \in pending, rows' = rows \cup {e}
      PROVE  UNCHANGED Ledger!vars
  BY <1>1, <1>2, <1>4, InsertElsewhere
<1>5. ASSUME rows' = rows, NEW w, Sealing(chain, now, rows, pending, w, chain')
      PROVE  Ledger!Next
  BY <1>5, LedgerSeals DEF Ledger!Next
<1>6. ASSUME chain' = chain, NEW p \in Jobs,
             Loosening(chain, now, rows, pending, job[p], rows')
      PROVE  UNCHANGED Ledger!vars
  <2>1. \A w \in SealedIn(chain) : RowsIn(rows', w) = RowsIn(rows, w)
    BY <1>6, LooseElsewhere
  <2> QED  BY <1>2, <1>6, <2>1
<1>7. ASSUME NEW p \in Jobs, Recording(chain, now, rows, pending, job[p], rows',
                                       FirstWindow(job[p]), chain')
      PROVE  Ledger!Next
  BY <1>7, LedgerRedacts DEF Ledger!Next
<1> QED  BY <1>3, <1>4, <1>5, <1>6, <1>7, StoreMoves

-----------------------------------------------------------------------------
(* The theorems.                                                           *)

\* The inductive invariant of the trail: the sealed range, the rows behind every
\* record, and what each task may still hold of a chain it read (audit_trail.rs).
THEOREM AuditSafe == Spec => []Safe
BY InitSafe, SafeStep, PTL DEF Spec

\* The rows, the chain and every task keep their types, for any number of processes.
THEOREM AuditTypeCorrect == Spec => []TypeOK
<1>1. Safe => TypeOK
  BY DEF Safe, StoreSafe, TypeOK
<1> QED  BY <1>1, AuditSafe, PTL

\* At every moment the rows of every sealed window are the ones its latest record says, and
\* the records are linked, whoever expires, purges, erases, seals or inserts at the same
\* time (seal_window, apply_ops and the check of the head under the lock).
THEOREM SealedAlwaysMatch == Spec => []SealedWindowsMatch
<1>1. Safe => SealedWindowsMatch
  BY DEF Safe, StoreSafe, Matches, SealedWindowsMatch, Sealed
<1> QED  BY <1>1, AuditSafe, PTL

\* A verification fails only on a chain that has moved since it read the head.
THEOREM AlarmsAreOvertaken == Spec => []AlarmMeansOvertaken
<1>1. Safe => AlarmMeansOvertaken
  BY DEF Safe, VerifierSafe, AlarmMeansOvertaken
<1> QED  BY <1>1, AuditSafe, PTL

\* No step of any writer puts a name or an address back into a row at or after the start of
\* the chain.
THEOREM NothingIsRestored == Spec => NothingComesBack
<1>1. Safe /\ [Next]_vars =>
        [\A r \in rows, s \in rows' :
            SameRow(r, s) /\ ~PreChain(r) => RedactedRow(r, s)]_vars
  BY RedactStep
<1> QED  BY <1>1, AuditSafe, PTL DEF Spec, NothingComesBack

\* The trail implements the ledger: windows are sealed once and in order, and what a sealed
\* window holds changes only with its record and only by redaction.
THEOREM TrailImplementsLedger == Spec => LedgerSpec
BY LedgerInit, LedgerStep, AuditSafe, PTL DEF Spec, LedgerSpec, Ledger!Spec

===============================================================================
