--------------------------- MODULE RowDiff_proofs ---------------------------
(***************************************************************************)
(* Facts about the operators of RowDiff, for all tables, baselines and     *)
(* scans.  SyncRounds_proofs rests on them.                                *)
(***************************************************************************)
EXTENDS RowDiff, FiniteSetTheorems, WellFoundedInduction, TLAPS

-----------------------------------------------------------------------------
(* Tables and rows.                                                        *)

LEMMA TableFacts ==
    ASSUME NEW t \in Table
    PROVE  /\ DOMAIN t \subseteq PK
           /\ t \in [DOMAIN t -> Row]
  BY DEF Table

LEMMA TableIntro ==
    ASSUME NEW t, DOMAIN t \subseteq PK, t \in [DOMAIN t -> Row]
    PROVE  t \in Table
  BY DEF Table

LEMMA RowsFacts ==
    ASSUME NEW rows \in Rows
    PROVE  /\ DOMAIN rows \subseteq Id
           /\ rows \in [DOMAIN rows -> ScannedRow]
  BY DEF Rows

LEMMA RowsIntro ==
    ASSUME NEW rows, DOMAIN rows \subseteq Id,
           rows \in [DOMAIN rows -> ScannedRow]
    PROVE  rows \in Rows
  BY DEF Rows

LEMMA ScannedRowFacts ==
    ASSUME NEW row \in ScannedRow
    PROVE  /\ row.ver \in Version
           /\ DOMAIN row.val \subseteq Column
           /\ row.val \in [DOMAIN row.val -> Value]
           /\ row = [ver |-> row.ver, val |-> row.val]
  BY DEF ScannedRow

LEMMA ScannedRowIntro ==
    ASSUME NEW C \in SUBSET Column, NEW v \in Version, NEW f \in [C -> Value]
    PROVE  [ver |-> v, val |-> f] \in ScannedRow
  BY DEF ScannedRow

\* Every set of natural numbers that is not empty has a least element.
LEMMA LeastNat ==
    ASSUME NEW T \in SUBSET Nat, T # {}
    PROVE  \E x \in T : \A y \in T : ~ (y < x)
<1>1. \E x \in T : \A y \in T : ~ (<<y, x>> \in OpToRel(<, Nat))
  BY WFMin, NatLessThanWellFounded
<1> QED
  BY <1>1 DEF OpToRel

\* The row scan_table keeps of an identity exists: it is one of the rows, and
\* none of that identity sorts before it.
LEMMA FirstOfRow ==
    ASSUME NEW rows, rows \subseteq PK, NEW id \in IdsOf(rows)
    PROVE  /\ FirstOf(rows, id) \in rows
           /\ FirstOf(rows, id)[1] = id
           /\ \A q \in rows : q[1] = id => ~ Before(q, FirstOf(rows, id))
<1> DEFINE T == {pk[2] : pk \in {p \in rows : p[1] = id}}
           Q(pk) == /\ pk[1] = id
                    /\ \A q \in rows : q[1] = id => ~ Before(q, pk)
<1>1. /\ T \subseteq Nat
      /\ T # {}
  <2>1. \A p \in rows : p[1] \in Nat /\ p[2] \in Nat
    BY RowAssumption DEF PK
  <2>2. PICK p \in rows : p[1] = id
    BY DEF IdsOf
  <2> QED
    BY <2>1, <2>2
<1>2. PICK v \in T : \A w \in T : ~ (w < v)
  BY <1>1, LeastNat
<1>3. PICK pk \in rows : pk[1] = id /\ pk[2] = v
  BY <1>2
<1>4. ASSUME NEW q \in rows, q[1] = id
      PROVE  ~ Before(q, pk)
  <2>1. q[2] \in T
    BY <1>4
  <2>2. q[1] \in Nat
    BY RowAssumption DEF PK
  <2> QED
    BY <1>1, <1>2, <1>3, <1>4, <2>1, <2>2 DEF Before
<1>5. \E p \in rows : Q(p)
  BY <1>3, <1>4
<1>6. FirstOf(rows, id) = CHOOSE p \in rows : Q(p)
  BY DEF FirstOf
<1> QED
  BY <1>5, <1>6

\* What a page returns are rows of the table.
LEMMA PageRows ==
    ASSUME NEW t \in Table, NEW f, NEW offset, NEW size
    PROVE  /\ Page(t, f, offset, size) \subseteq DOMAIN t
           /\ Page(t, f, offset, size) \subseteq PK
           /\ IdsOf(Page(t, f, offset, size)) \subseteq Id
  BY TableFacts DEF Page, Selected, IdsOf, PK

LEMMA FiniteRows ==
    ASSUME NEW S \in SUBSET PK
    PROVE  /\ IsFiniteSet(S) /\ Cardinality(S) \in Nat
           /\ IsFiniteSet(IdsOf(S)) /\ Cardinality(IdsOf(S)) \in Nat
<1>1. IsFiniteSet(PK)
  BY RowAssumption, FS_Product DEF PK
<1>2. IdsOf(S) \in SUBSET Id
  BY DEF IdsOf, PK
<1> QED
  BY <1>1, <1>2, RowAssumption, FS_Subset, FS_CardinalityType

LEMMA ScannedType ==
    ASSUME NEW t \in Table, NEW pk \in DOMAIN t, NEW cols \in SUBSET Column
    PROVE  Scanned(t, pk, cols) \in ScannedRow
<1>1. pk[2] \in Version /\ t[pk] \in Row
  BY TableFacts DEF PK
<1>2. [c \in cols |-> t[pk][c]] \in [cols -> Value]
  BY <1>1 DEF Row
<1> QED
  BY <1>1, <1>2, ScannedRowIntro DEF Scanned

\* Folding a page into the rows read so far gives rows over the same columns.
LEMMA AbsorbRows ==
    ASSUME NEW live \in Rows, NEW t \in Table, NEW page \in SUBSET (DOMAIN t),
           NEW cols \in SUBSET Column,
           \A id \in DOMAIN live : DOMAIN live[id].val = cols
    PROVE  /\ Absorb(live, t, page, cols) \in Rows
           /\ DOMAIN Absorb(live, t, page, cols) = DOMAIN live \cup IdsOf(page)
           /\ \A id \in DOMAIN Absorb(live, t, page, cols) :
                  DOMAIN Absorb(live, t, page, cols)[id].val = cols
<1> DEFINE A == Absorb(live, t, page, cols)
<1>1. page \subseteq PK
  BY TableFacts
<1>2. IdsOf(page) \subseteq Id
  BY <1>1 DEF IdsOf, PK
<1>3. DOMAIN A = DOMAIN live \cup IdsOf(page)
  BY DEF Absorb
<1>4. ASSUME NEW id \in DOMAIN A
      PROVE  A[id] \in ScannedRow /\ DOMAIN A[id].val = cols
  <2>1. CASE id \in DOMAIN live
    BY <2>1, <1>3, RowsFacts DEF Absorb
  <2>2. CASE id \notin DOMAIN live
    <3>1. id \in IdsOf(page)
      BY <2>2, <1>3
    <3>2. FirstOf(page, id) \in DOMAIN t
      BY <3>1, <1>1, FirstOfRow
    <3>3. A[id] = Scanned(t, FirstOf(page, id), cols)
      BY <2>2, <1>3 DEF Absorb
    <3>4. DOMAIN Scanned(t, FirstOf(page, id), cols).val = cols
      BY DEF Scanned
    <3> QED
      BY <3>2, <3>3, <3>4, ScannedType
  <2> QED
    BY <2>1, <2>2
<1>5. A = [id \in DOMAIN A |-> A[id]]
  BY DEF Absorb
<1>6. A \in [DOMAIN A -> ScannedRow]
  BY <1>4, <1>5
<1>7. DOMAIN A \subseteq Id
  BY <1>2, <1>3, RowsFacts
<1>8. A \in Rows
  BY <1>6, <1>7, RowsIntro
<1> QED
  BY <1>3, <1>4, <1>8

-----------------------------------------------------------------------------
(* The comparison.                                                         *)

\* compare: the four buckets are disjoint and cover every identity of either
\* side.  That 03 and 04 may be run in either order rests on it.
THEOREM BucketsPartition ==
    ASSUME NEW base, NEW live, NEW hashCols, NEW added,
           NEW d, d = Compare(base, live, hashCols, added)
    PROVE  /\ d.inserts \cup d.updates \cup d.unchanged \cup d.removed
                = DOMAIN base \cup DOMAIN live
           /\ d.inserts \cap d.updates = {} /\ d.inserts \cap d.unchanged = {}
           /\ d.updates \cap d.unchanged = {}
           /\ Arriving(d) \cup d.unchanged = DOMAIN live
           /\ d.removed \cap DOMAIN live = {}
           /\ d.removed \cap Arriving(d) = {}
  BY DEF Compare, Arriving

\* A row left alone hashes as the baseline's does, and the columns the table
\* gained carry nothing in it.
LEMMA UnchangedRow ==
    ASSUME NEW base, NEW live, NEW hashCols, NEW added,
           NEW d, d = Compare(base, live, hashCols, added),
           NEW id \in DOMAIN live, id \notin Arriving(d)
    PROVE  /\ id \in DOMAIN base
           /\ base[id] = HashOf(hashCols, live[id])
           /\ \A c \in added : live[id].val[c] \in Blank
  BY DEF Compare, Arriving, CarriesAValue

\* README, "either order will do": 03 and 04 commute, on any target, because
\* no identity is both written and removed.
THEOREM ScriptsCommute ==
    ASSUME NEW t, NEW arriving, NEW removed, NEW live, NEW cols, NEW fill,
           arriving \cap removed = {}
    PROVE  Remove(Overwrite(t, arriving, live, cols, fill), removed)
             = Overwrite(Remove(t, removed), arriving, live, cols, fill)
<1> DEFINE A == Remove(Overwrite(t, arriving, live, cols, fill), removed)
           B == Overwrite(Remove(t, removed), arriving, live, cols, fill)
           written == {<<id, live[id].ver>> : id \in arriving}
           kept    == {pk \in DOMAIN t : pk[1] \notin arriving}
           keptB   == {pk \in DOMAIN Remove(t, removed) : pk[1] \notin arriving}
           New(pk) == [c \in Column |-> IF c \in cols THEN live[pk[1]].val[c]
                                        ELSE fill[c]]
<1>1. \A pk \in written : pk[1] \in arriving /\ pk[1] \notin removed
  OBVIOUS
<1>2. DOMAIN A = {pk \in kept \cup written : pk[1] \notin removed}
  BY DEF Remove, Overwrite
<1>3. keptB = {pk \in kept : pk[1] \notin removed}
  BY DEF Remove
<1>4. DOMAIN B = keptB \cup written
  BY DEF Overwrite
<1>5. DOMAIN A = DOMAIN B
  BY <1>1, <1>2, <1>3, <1>4
<1>6. ASSUME NEW pk \in DOMAIN A
      PROVE  A[pk] = B[pk]
  <2>1. A[pk] = IF pk \in kept THEN t[pk] ELSE New(pk)
    BY <1>2, <1>6 DEF Remove, Overwrite
  <2>2. B[pk] = IF pk \in keptB THEN Remove(t, removed)[pk] ELSE New(pk)
    BY <1>4, <1>5, <1>6 DEF Overwrite
  <2>3. CASE pk \in kept
    <3>1. pk \in keptB
      BY <2>3, <1>2, <1>3, <1>6
    <3>2. Remove(t, removed)[pk] = t[pk]
      BY <3>1 DEF Remove
    <3> QED
      BY <2>1, <2>2, <2>3, <3>1, <3>2
  <2>4. CASE pk \notin kept
    <3>1. pk \notin keptB
      BY <2>4, <1>3
    <3> QED
      BY <2>1, <2>2, <2>4, <3>1
  <2> QED
    BY <2>3, <2>4
<1>7. A = [pk \in DOMAIN A |-> A[pk]] /\ B = [pk \in DOMAIN B |-> B[pk]]
  BY DEF Remove, Overwrite
<1> QED
  BY <1>5, <1>6, <1>7

\* What the table R holds after both scripts have run on t: the arriving rows
\* as they were read, and the others, but for the removed ones, as they were.
RanOn(R, t, rows, arriving, removed, cols, fill) ==
    /\ \A pk \in DOMAIN R :
         /\ pk[1] \notin removed
         /\ \/ /\ pk[1] \in arriving
               /\ \A c \in cols : R[pk][c] = rows[pk[1]].val[c]
               /\ \A c \in Column \ cols : R[pk][c] = fill[c]
            \/ /\ pk[1] \notin arriving /\ pk \in DOMAIN t
               /\ R[pk] = t[pk]
    /\ \A id \in arriving \ removed : <<id, rows[id].ver>> \in DOMAIN R
    /\ \A pk \in DOMAIN t :
         pk[1] \notin arriving \cup removed => pk \in DOMAIN R

LEMMA AfterScripts ==
    ASSUME NEW t \in Table, NEW rows \in Rows, NEW arriving \in SUBSET DOMAIN rows,
           NEW removed, NEW cols, NEW fill \in Row,
           \A id \in DOMAIN rows : DOMAIN rows[id].val = cols,
           NEW R, R = Remove(Overwrite(t, arriving, rows, cols, fill), removed)
    PROVE  R \in Table /\ RanOn(R, t, rows, arriving, removed, cols, fill)
<1> DEFINE O == Overwrite(t, arriving, rows, cols, fill)
           kept    == {pk \in DOMAIN t : pk[1] \notin arriving}
           written == {<<id, rows[id].ver>> : id \in arriving}
           New(pk) == [c \in Column |-> IF c \in cols THEN rows[pk[1]].val[c]
                                        ELSE fill[c]]
<1>1. /\ DOMAIN rows \subseteq Id
      /\ \A id \in DOMAIN rows : /\ rows[id].ver \in Version
                                 /\ cols \subseteq Column
                                 /\ rows[id].val \in [cols -> Value]
  BY RowsFacts, ScannedRowFacts
<1>2. /\ DOMAIN t \subseteq PK
      /\ \A pk \in DOMAIN t : t[pk] \in Row
  BY TableFacts
<1>3. written \subseteq PK /\ \A pk \in written : pk[1] \in arriving
  BY <1>1 DEF PK
<1>4. /\ DOMAIN O = kept \cup written
      /\ \A pk \in DOMAIN O : O[pk] = IF pk \in kept THEN t[pk] ELSE New(pk)
  BY DEF Overwrite
<1>5. /\ DOMAIN R = {pk \in kept \cup written : pk[1] \notin removed}
      /\ R = [pk \in DOMAIN R |-> O[pk]]
  BY <1>4 DEF Remove
<1>6. \A pk \in DOMAIN R : R[pk] = IF pk \in kept THEN t[pk] ELSE New(pk)
  BY <1>4, <1>5
<1>7. ASSUME NEW pk \in DOMAIN R
      PROVE  R[pk] \in Row
  <2>1. CASE pk \in kept
    BY <2>1, <1>2, <1>6
  <2>2. CASE pk \notin kept
    <3>1. pk[1] \in DOMAIN rows /\ R[pk] = New(pk)
      BY <2>2, <1>3, <1>5, <1>6
    <3>2. \A c \in Column : New(pk)[c] \in Value
      BY <3>1, <1>1 DEF Row
    <3>3. New(pk) \in Row
      BY <3>2 DEF Row
    <3> QED
      BY <3>1, <3>3
  <2> QED
    BY <2>1, <2>2
<1>8. R \in Table
  <2>1. DOMAIN R \subseteq PK
    BY <1>2, <1>3, <1>5
  <2>2. R \in [DOMAIN R -> Row]
    BY <1>5, <1>7
  <2> QED
    BY <2>1, <2>2, TableIntro
<1>9. ASSUME NEW pk \in DOMAIN R
      PROVE  /\ pk[1] \notin removed
             /\ \/ /\ pk[1] \in arriving
                   /\ \A c \in cols : R[pk][c] = rows[pk[1]].val[c]
                   /\ \A c \in Column \ cols : R[pk][c] = fill[c]
                \/ /\ pk[1] \notin arriving /\ pk \in DOMAIN t
                   /\ R[pk] = t[pk]
  <2>1. CASE pk \in kept
    BY <2>1, <1>5, <1>6
  <2>2. CASE pk \notin kept
    <3>1. pk[1] \in arriving /\ pk[1] \notin removed /\ R[pk] = New(pk)
      BY <2>2, <1>3, <1>5, <1>6
    <3>2. cols \subseteq Column
      BY <3>1, <1>1
    <3> QED
      BY <3>1, <3>2
  <2> QED
    BY <2>1, <2>2
<1>10. /\ \A id \in arriving \ removed : <<id, rows[id].ver>> \in DOMAIN R
       /\ \A pk \in DOMAIN t :
            pk[1] \notin arriving \cup removed => pk \in DOMAIN R
  BY <1>5
<1> QED
  BY <1>8, <1>9, <1>10 DEF RanOn

-----------------------------------------------------------------------------
(* Paging.                                                                 *)

\* The database's order of a table's rows is total.
LEMMA BeforeOrder ==
    ASSUME NEW p \in PK, NEW q \in PK
    PROVE  /\ ~ Before(p, p)
           /\ p # q => Before(p, q) \/ Before(q, p)
           /\ \A r \in PK : Before(p, q) /\ Before(q, r) => Before(p, r)
<1>1. \A r \in PK : r = <<r[1], r[2]>> /\ r[1] \in Nat /\ r[2] \in Nat
  <2>1. \A r \in PK : r = <<r[1], r[2]>> /\ r[1] \in Id /\ r[2] \in Version
    BY DEF PK
  <2> QED
    BY <2>1, RowAssumption
<1>2. ~ Before(p, p)
  BY <1>1 DEF Before
<1>3. p # q => Before(p, q) \/ Before(q, p)
  BY <1>1 DEF Before
<1>4. ASSUME NEW r \in PK, Before(p, q), Before(q, r)
      PROVE  Before(p, r)
  BY <1>1, <1>4 DEF Before
<1> QED
  BY <1>2, <1>3, <1>4

\* The row that sorts first among those of its identity is the one kept.
LEMMA FirstIs ==
    ASSUME NEW rows, rows \subseteq PK, NEW p \in rows,
           \A q \in rows : q[1] = p[1] => ~ Before(q, p)
    PROVE  FirstOf(rows, p[1]) = p
<1> DEFINE F == FirstOf(rows, p[1])
<1>1. p[1] \in IdsOf(rows)
  BY DEF IdsOf
<1>2. F \in rows /\ F[1] = p[1] /\ ~ Before(p, F)
  BY <1>1, FirstOfRow
<1>3. ~ Before(F, p)
  BY <1>2
<1> HIDE DEF F
<1>4. F = p
  BY <1>2, <1>3, BeforeOrder
<1> QED
  BY <1>4 DEF F

\* The place of a row in the database's order, from 0.
RankIn(rows, pk) == Cardinality({q \in rows : Before(q, pk)})

LEMMA RankGrows ==
    ASSUME NEW S \in SUBSET PK, NEW p \in S
    PROVE  /\ RankIn(S, p) \in 0 .. Cardinality(S) - 1
           /\ \A q \in S : Before(p, q) => RankIn(S, p) < RankIn(S, q)
<1> DEFINE Below(x) == {y \in S : Before(y, x)}
<1>1. IsFiniteSet(S) /\ Cardinality(S) \in Nat
  BY FiniteRows
<1>2. ASSUME NEW x \in S
      PROVE  IsFiniteSet(Below(x)) /\ Cardinality(Below(x)) \in Nat
  <2>1. Below(x) \in SUBSET S
    OBVIOUS
  <2> HIDE DEF Below
  <2> QED
    BY <1>1, <2>1, FS_Subset, FS_CardinalityType
<1>3. Cardinality(Below(p)) < Cardinality(S)
  <2>1. Below(p) \in SUBSET S /\ p \notin Below(p)
    BY BeforeOrder
  <2> HIDE DEF Below
  <2>2. /\ Cardinality(Below(p)) <= Cardinality(S)
        /\ Cardinality(S) = Cardinality(Below(p)) => S = Below(p)
    BY <1>1, <2>1, FS_Subset
  <2> QED
    BY <1>1, <1>2, <2>1, <2>2
<1>4. ASSUME NEW q \in S, Before(p, q)
      PROVE  Cardinality(Below(p)) < Cardinality(Below(q))
  <2>1. /\ Below(p) \in SUBSET Below(q)
        /\ p \in Below(q) /\ p \notin Below(p)
    BY <1>4, BeforeOrder
  <2>2. /\ IsFiniteSet(Below(q)) /\ Cardinality(Below(q)) \in Nat
        /\ Cardinality(Below(p)) \in Nat
    BY <1>2
  <2> HIDE DEF Below
  <2>3. /\ Cardinality(Below(p)) <= Cardinality(Below(q))
        /\ Cardinality(Below(q)) = Cardinality(Below(p)) => Below(q) = Below(p)
    BY <2>1, <2>2, FS_Subset
  <2> QED
    BY <2>1, <2>2, <2>3
<1> QED
  BY <1>1, <1>2, <1>3, <1>4 DEF RankIn

\* Every place is taken by one row: ranks are a bijection.
LEMMA RankBijects ==
    ASSUME NEW S \in SUBSET PK
    PROVE  [p \in S |-> RankIn(S, p)] \in Bijection(S, 0 .. Cardinality(S) - 1)
<1> DEFINE n == Cardinality(S)
           T == 0 .. n - 1
           f == [p \in S |-> RankIn(S, p)]
<1>1. IsFiniteSet(S) /\ n \in Nat
  BY FiniteRows
<1>2. f \in [S -> T]
  BY RankGrows
<1>3. ASSUME NEW p \in S, NEW q \in S, p # q
      PROVE  f[p] # f[q]
  <2>1. Before(p, q) \/ Before(q, p)
    BY <1>3, BeforeOrder
  <2>2. /\ RankIn(S, p) \in Int /\ RankIn(S, q) \in Int
        /\ Before(p, q) => RankIn(S, p) < RankIn(S, q)
        /\ Before(q, p) => RankIn(S, q) < RankIn(S, p)
    BY RankGrows
  <2> QED
    BY <2>1, <2>2
<1>4. f \in Injection(S, T)
  <2> HIDE DEF f, T
  <2> QED
    BY <1>2, <1>3 DEF Injection, IsInjective
<1>5. IsFiniteSet(T) /\ Cardinality(T) = n
  <2>1. 0 \in Int /\ n - 1 \in Int /\ (IF 0 > n - 1 THEN 0 ELSE n - 1 - 0 + 1) = n
    BY <1>1
  <2> HIDE DEF n
  <2> QED
    BY <2>1, FS_Interval
<1>6. f \in Surjection(S, T)
  <2> HIDE DEF f, T
  <2> QED
    BY <1>4, <1>5, FS_Injection DEF n
<1> QED
  BY <1>4, <1>6 DEF Bijection

\* A page that is not full is the last one: all rows are before its end.
LEMMA ShortPageIsLast ==
    ASSUME NEW t \in Table, NEW f, NEW offset \in Nat, NEW size \in Nat,
           Cardinality(Page(t, f, offset, size)) < size
    PROVE  \A p \in Selected(t, f) : RankIn(Selected(t, f), p) < offset + size
<1> DEFINE S == Selected(t, f)
           n == Cardinality(S)
           P == Page(t, f, offset, size)
           T == offset .. offset + size - 1
           g == [p \in P |-> RankIn(S, p)]
<1>1. S \in SUBSET PK /\ n \in Nat
  <2>1. S \in SUBSET PK
    BY TableFacts DEF Selected
  <2> QED
    BY <2>1, FiniteRows
<1> SUFFICES ASSUME NEW p \in S, RankIn(S, p) >= offset + size
             PROVE  FALSE
  <2>1. \A p \in S : RankIn(S, p) \in Int
    BY <1>1, RankGrows
  <2> QED
    BY <2>1
<1>2. offset + size <= n - 1
  BY <1>1, RankGrows
<1>3. P = {q \in S : offset <= RankIn(S, q) /\ RankIn(S, q) < offset + size}
  BY DEF Page, RankIn
<1>4. P \in SUBSET PK /\ IsFiniteSet(P) /\ Cardinality(P) \in Nat
  BY <1>1, <1>3, FiniteRows
<1>5. g \in [P -> T]
  <2>1. \A q \in P : RankIn(S, q) \in Int
    BY <1>1, <1>3, RankGrows
  <2> QED
    BY <1>3, <2>1
<1>6. \A k \in T : \E q \in P : g[q] = k
  <2> SUFFICES ASSUME NEW k \in T PROVE \E q \in P : g[q] = k
    OBVIOUS
  <2>1. k \in 0 .. n - 1 /\ k \in Int /\ offset <= k /\ k < offset + size
    BY <1>1, <1>2
  <2>2. PICK q \in S : RankIn(S, q) = k
    <3>1. [x \in S |-> RankIn(S, x)] \in Surjection(S, 0 .. n - 1)
      BY <1>1, RankBijects DEF Bijection
    <3> QED
      BY <2>1, <3>1 DEF Surjection
  <2> QED
    BY <1>3, <2>1, <2>2
<1>7. g \in Surjection(P, T)
  BY <1>5, <1>6 DEF Surjection
<1>8. Cardinality(T) = size
  <2>1. /\ offset \in Int /\ offset + size - 1 \in Int
        /\ (IF offset > offset + size - 1 THEN 0
            ELSE offset + size - 1 - offset + 1) = size
    OBVIOUS
  <2> QED
    BY <2>1, FS_Interval
<1>9. Cardinality(T) <= Cardinality(P)
  <2> HIDE DEF g, T, P
  <2> QED
    BY <1>4, <1>7, FS_Surjection
<1> QED
  BY <1>4, <1>8, <1>9

\* Two pages in a row are one longer page, and the first sorts first.
THEOREM PagesJoin ==
    ASSUME NEW t \in Table, NEW f, NEW offset \in Nat, NEW size \in Nat
    PROVE  /\ Page(t, f, 0, offset) \cup Page(t, f, offset, size)
                = Page(t, f, 0, offset + size)
           /\ \A p \in Page(t, f, 0, offset), q \in Page(t, f, offset, size) :
                Before(p, q)
<1> DEFINE S == Selected(t, f)
<1>1. S \in SUBSET PK
  BY TableFacts DEF Selected
<1>2. \A p \in S : RankIn(S, p) \in Nat
  <2>1. Cardinality(S) \in Nat
    BY <1>1, FiniteRows
  <2> QED
    BY <1>1, <2>1, RankGrows
<1>3. \A a, b : Page(t, f, a, b)
                  = {q \in S : a <= RankIn(S, q) /\ RankIn(S, q) < a + b}
  BY DEF Page, RankIn
<1>4. ASSUME NEW p \in Page(t, f, 0, offset), NEW q \in Page(t, f, offset, size)
      PROVE  Before(p, q)
  <2>1. p \in S /\ q \in S /\ RankIn(S, p) < RankIn(S, q)
    BY <1>2, <1>3
  <2>2. p # q /\ ~ Before(q, p)
    BY <1>1, <1>2, <2>1, RankGrows
  <2> QED
    BY <1>1, <2>1, <2>2, BeforeOrder
<1>5. Page(t, f, 0, offset) \cup Page(t, f, offset, size)
        = Page(t, f, 0, offset + size)
  <2>1. ASSUME NEW q \in S
        PROVE  (\/ 0 <= RankIn(S, q) /\ RankIn(S, q) < 0 + offset
                \/ offset <= RankIn(S, q) /\ RankIn(S, q) < offset + size)
               <=> (0 <= RankIn(S, q) /\ RankIn(S, q) < 0 + (offset + size))
    BY <1>2
  <2> QED
    BY <1>3, <2>1
<1> QED
  BY <1>4, <1>5

LEMMA NoPage ==
    ASSUME NEW t \in Table, NEW f
    PROVE  Page(t, f, 0, 0) = {}
<1> DEFINE S == Selected(t, f)
<1>1. S \in SUBSET PK
  BY TableFacts DEF Selected
<1>2. \A p \in S : RankIn(S, p) \in Int
  BY <1>1, RankGrows
<1>3. Page(t, f, 0, 0) = {q \in S : 0 <= RankIn(S, q) /\ RankIn(S, q) < 0 + 0}
  BY DEF Page, RankIn
<1> QED
  BY <1>2, <1>3

LEMMA WholePage ==
    ASSUME NEW t \in Table, NEW f, NEW size \in Nat,
           \A p \in Selected(t, f) : RankIn(Selected(t, f), p) < size
    PROVE  Page(t, f, 0, size) = Selected(t, f)
<1> DEFINE S == Selected(t, f)
<1>1. S \in SUBSET PK
  BY TableFacts DEF Selected
<1>2. \A p \in S : 0 <= RankIn(S, p) /\ RankIn(S, p) < 0 + size
  <2>1. \A p \in S : RankIn(S, p) \in 0 .. Cardinality(S) - 1
    BY <1>1, RankGrows
  <2> QED
    BY <2>1
<1>3. Page(t, f, 0, size)
        = {q \in S : 0 <= RankIn(S, q) /\ RankIn(S, q) < 0 + size}
  BY DEF Page, RankIn
<1> QED
  BY <1>2, <1>3

\* The rows of a set of primary keys, folded to one for each identity.
Folded(table, rows, cols) ==
    [id \in IdsOf(rows) |-> Scanned(table, FirstOf(rows, id), cols)]

\* Absorbing rows that sort after those absorbed so far folds them together.
LEMMA AbsorbFolds ==
    ASSUME NEW t \in Table, NEW P \in SUBSET DOMAIN t, NEW Q \in SUBSET DOMAIN t,
           NEW cols, \A p \in P, q \in Q : Before(p, q)
    PROVE  Absorb(Folded(t, P, cols), t, Q, cols) = Folded(t, P \cup Q, cols)
<1> DEFINE A == Absorb(Folded(t, P, cols), t, Q, cols)
           W == Folded(t, P \cup Q, cols)
<1>1. P \subseteq PK /\ Q \subseteq PK /\ P \cup Q \subseteq PK
  BY TableFacts
<1>2. /\ DOMAIN A = IdsOf(P) \cup IdsOf(Q)
      /\ DOMAIN W = IdsOf(P \cup Q)
      /\ IdsOf(P \cup Q) = IdsOf(P) \cup IdsOf(Q)
  BY DEF Absorb, Folded, IdsOf
<1>3. ASSUME NEW id \in IdsOf(P)
      PROVE  A[id] = W[id]
  <2> DEFINE p == FirstOf(P, id)
  <2>1. /\ p \in P /\ p[1] = id
        /\ \A q \in P : q[1] = id => ~ Before(q, p)
    BY <1>1, FirstOfRow
  <2>2. \A q \in Q : ~ Before(q, p)
    <3> SUFFICES ASSUME NEW q \in Q, Before(q, p) PROVE FALSE
      OBVIOUS
    <3>1. Before(p, q) /\ p \in PK /\ q \in PK
      BY <1>1, <2>1
    <3> QED
      BY <3>1, BeforeOrder
  <2>3. FirstOf(P \cup Q, id) = p
    <3> HIDE DEF p
    <3> QED
      BY <1>1, <2>1, <2>2, FirstIs
  <2>4. A[id] = Scanned(t, p, cols)
    BY DEF Absorb, Folded
  <2>5. W[id] = Scanned(t, FirstOf(P \cup Q, id), cols)
    BY <1>2 DEF Folded
  <2> QED
    BY <2>3, <2>4, <2>5
<1>4. ASSUME NEW id \in IdsOf(Q), id \notin IdsOf(P)
      PROVE  A[id] = W[id]
  <2> DEFINE q == FirstOf(Q, id)
  <2>1. /\ q \in Q /\ q[1] = id
        /\ \A x \in Q : x[1] = id => ~ Before(x, q)
    BY <1>1, FirstOfRow
  <2>2. \A x \in P : x[1] # id
    BY <1>4 DEF IdsOf
  <2>3. FirstOf(P \cup Q, id) = q
    <3> HIDE DEF q
    <3> QED
      BY <1>1, <2>1, <2>2, FirstIs
  <2>4. A[id] = Scanned(t, q, cols)
    BY <1>4 DEF Absorb, Folded
  <2>5. W[id] = Scanned(t, FirstOf(P \cup Q, id), cols)
    BY <1>2 DEF Folded
  <2> QED
    BY <2>3, <2>4, <2>5
<1>5. A = [id \in DOMAIN A |-> A[id]] /\ W = [id \in DOMAIN W |-> W[id]]
  BY DEF Absorb, Folded
<1>6. DOMAIN A = DOMAIN W /\ \A id \in DOMAIN A : A[id] = W[id]
  <2> HIDE DEF A, W
  <2> QED
    BY <1>2, <1>3, <1>4
<1> HIDE DEF A, W
<1>7. A = W
  BY <1>5, <1>6
<1> QED
  BY <1>7 DEF A, W

\* Rows that do not repeat an identity are as many as their identities.
LEMMA OnePerId ==
    ASSUME NEW S \in SUBSET PK
    PROVE  Cardinality(IdsOf(S)) = Cardinality(S)
             <=> \A p, q \in S : p[1] = q[1] => p = q
<1> DEFINE f == [p \in S |-> p[1]]
           T == IdsOf(S)
<1>1. f \in Surjection(S, T)
  BY DEF Surjection, IdsOf
<1>2. IsFiniteSet(S)
  BY FiniteRows
<1>3. f \in Injection(S, T) <=> \A p, q \in S : p[1] = q[1] => p = q
  <2>1. f \in [S -> T] /\ \A p \in S : f[p] = p[1]
    BY DEF IdsOf
  <2> HIDE DEF f, T
  <2> QED
    BY <2>1 DEF Injection, IsInjective
<1>4. Cardinality(T) = Cardinality(S) <=> f \in Injection(S, T)
  <2> HIDE DEF f, T
  <2> QED
    BY <1>1, <1>2, FS_Surjection
<1> QED
  BY <1>3, <1>4

\* 03 leaves one row of an identity it writes.
LEMMA WrittenOnce ==
    ASSUME NEW t, NEW rows, NEW arriving, NEW removed, NEW cols, NEW fill,
           NEW pk \in DOMAIN Remove(Overwrite(t, arriving, rows, cols, fill), removed),
           pk[1] \in arriving
    PROVE  pk = <<pk[1], rows[pk[1]].ver>>
<1>1. pk \in {<<id, rows[id].ver>> : id \in arriving}
  BY DEF Remove, Overwrite
<1> QED
  BY <1>1

=============================================================================
