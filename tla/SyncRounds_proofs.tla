------------------------- MODULE SyncRounds_proofs -------------------------
(***************************************************************************)
(* The target keeps up with the snapshots, for every table, filter, page   *)
(* size and number of rounds.                                              *)
(*                                                                         *)
(* The invariant says of each comparison that its scripts and its snapshot *)
(* come from the same rows (Faithful); from that alone, and not from what  *)
(* the scan saw of the source, running the scripts on a target that holds  *)
(* what the baseline recorded makes it hold what the new snapshot records. *)
(*                                                                         *)
(* On it rest two more invariants: of what an undisturbed scan reads, and  *)
(* so of what its snapshot is worth (ReadInv), and of what the precheck    *)
(* counts (CountsInv).                                                     *)
(***************************************************************************)
EXTENDS SyncRounds, RowDiff_proofs, SequenceTheorems

\* The scripts s and the snapshot new of one comparison with old.
Faithful(s, old, new) ==
    /\ old.columns \subseteq s.cols
    /\ new.columns = s.cols
    /\ new.filter = s.filter
    /\ new.hash = [id \in DOMAIN s.rows |-> HashOf(s.cols, s.rows[id])]
    /\ \E d : /\ d = Compare(old.hash, s.rows, old.columns, s.cols \ old.columns)
              /\ s.arriving = Arriving(d)
              /\ s.removed = d.removed
    /\ \A id \in DOMAIN s.rows : DOMAIN s.rows[id].val = s.cols
    /\ new.narrow => old.narrow /\ s.filter \subseteq old.filter

SnapInv == \A n \in DOMAIN snaps : BaseColumns \subseteq snaps[n].columns

ScriptInv ==
    \A n \in DOMAIN scripts :
        /\ scripts[n].from \in 1 .. n
        /\ Faithful(scripts[n], snaps[scripts[n].from], snaps[n + 1])

JobInv ==
    job # NoJob =>
        /\ job.base \in DOMAIN snaps
        /\ snaps[job.base].columns \subseteq job.cols
        /\ \A id \in DOMAIN job.rows : DOMAIN job.rows[id].val = job.cols

\* No column is added with a default that reads as a value.
QuietDefaults == Defaults \subseteq Blank

\* The target has the columns its snapshot recorded, and nothing in others.
TargetInv ==
    /\ snaps[at].columns \subseteq Columns(targetShape)
    /\ QuietDefaults =>
         \A pk \in DOMAIN target : \A c \in Column \ snaps[at].columns :
             target[pk][c] \in Blank

HoldsInv == QuietDefaults => TargetHolds

HistoryInv == TypeOK /\ SnapInv /\ ScriptInv /\ JobInv

IInv == HistoryInv /\ TargetInv /\ HoldsInv /\ NothingExtra

-----------------------------------------------------------------------------
(* Adding columns.                                                         *)

LEMMA FillTable ==
    ASSUME NEW t \in Table, NEW old \in Shape, NEW new \in Shape
    PROVE  /\ Fill(t, old, new) \in Table
           /\ DOMAIN Fill(t, old, new) = DOMAIN t
           /\ \A pk \in DOMAIN t : \A c \in Column :
                Fill(t, old, new)[pk][c]
                  = IF old[c] = NoColumn /\ new[c] # NoColumn
                    THEN new[c] ELSE t[pk][c]
<1> DEFINE F == Fill(t, old, new)
<1>1. DOMAIN F = DOMAIN t
  BY DEF Fill
<1>2. ASSUME NEW pk \in DOMAIN t
      PROVE  F[pk] \in Row
  <2>1. t[pk] \in Row
    BY TableFacts
  <2>2. \A c \in Column : new[c] # NoColumn => new[c] \in Value
    BY SyncAssumption DEF Shape
  <2> QED
    BY <2>1, <2>2 DEF Fill, Row
<1>3. F \in [DOMAIN t -> Row]
  BY <1>2 DEF Fill
<1>4. F \in Table
  BY <1>1, <1>3, TableFacts, TableIntro
<1> QED
  BY <1>1, <1>4 DEF Fill

LEMMA WidenedShape ==
    ASSUME TypeOK, NEW s \in Script
    PROVE  /\ Widened(s) \in Shape
           /\ Columns(targetShape) \subseteq Columns(Widened(s))
           /\ FillOf(Widened(s)) \in Row
<1>1. s.schema \in Shape /\ targetShape \in Shape
  BY DEF Script, TypeOK
<1>2. Widened(s) \in Shape
  BY <1>1 DEF Widened, Shape
<1>3. Columns(targetShape) \subseteq Columns(Widened(s))
  BY <1>1 DEF Columns, Widened
<1>4. FillOf(Widened(s)) \in Row
  BY <1>2, SyncAssumption, RowAssumption DEF FillOf, Row, Shape
<1> QED
  BY <1>2, <1>3, <1>4

-----------------------------------------------------------------------------
(* The initial state.                                                      *)

LEMMA CollapseRows ==
    ASSUME NEW t \in Table, NEW f, NEW cols \in SUBSET Column
    PROVE  /\ Collapse(t, f, cols) \in Rows
           /\ DOMAIN Collapse(t, f, cols) = IdsOf(Selected(t, f))
           /\ \A id \in IdsOf(Selected(t, f)) :
                /\ FirstOf(Selected(t, f), id) \in Selected(t, f)
                /\ FirstOf(Selected(t, f), id)[1] = id
                /\ Collapse(t, f, cols)[id]
                     = Scanned(t, FirstOf(Selected(t, f), id), cols)
<1> DEFINE S == Selected(t, f)
           C == Collapse(t, f, cols)
<1>1. S \subseteq DOMAIN t /\ S \subseteq PK
  BY TableFacts DEF Selected
<1>2. DOMAIN C = IdsOf(S) /\ IdsOf(S) \subseteq Id
  BY <1>1 DEF Collapse, IdsOf, PK
<1>3. ASSUME NEW id \in IdsOf(S)
      PROVE  /\ FirstOf(S, id) \in S
             /\ FirstOf(S, id)[1] = id
             /\ C[id] = Scanned(t, FirstOf(S, id), cols)
             /\ C[id] \in ScannedRow
  <2>1. FirstOf(S, id) \in S /\ FirstOf(S, id)[1] = id
    BY <1>1, FirstOfRow
  <2>2. C[id] = Scanned(t, FirstOf(S, id), cols)
    BY DEF Collapse
  <2> QED
    BY <2>1, <2>2, <1>1, ScannedType
<1>4. C \in [IdsOf(S) -> ScannedRow]
  BY <1>3 DEF Collapse
<1>5. C \in Rows
  BY <1>2, <1>4, RowsIntro
<1> QED
  BY <1>2, <1>3, <1>5

\* The hashes of a snapshot are rows over the columns it claims.
LEMMA RecordedRows ==
    ASSUME NEW rows \in Rows, NEW cols \in SUBSET Column, NEW hashCols,
           \A id \in DOMAIN rows : DOMAIN rows[id].val = cols
    PROVE  /\ Recorded(hashCols, cols, rows) \in Rows
           /\ DOMAIN Recorded(hashCols, cols, rows) = DOMAIN rows
           /\ \A id \in DOMAIN rows :
                /\ Recorded(hashCols, cols, rows)[id] = HashOf(cols, rows[id])
                /\ DOMAIN Recorded(hashCols, cols, rows)[id].val = cols
                /\ Recorded(hashCols, cols, rows)[id].ver = rows[id].ver
                /\ \A c \in cols :
                     Recorded(hashCols, cols, rows)[id].val[c] = rows[id].val[c]
<1> DEFINE H == Recorded(hashCols, cols, rows)
<1>1. DOMAIN rows \subseteq Id /\ \A id \in DOMAIN rows : rows[id] \in ScannedRow
  BY RowsFacts
<1>2. ASSUME NEW id \in DOMAIN rows
      PROVE  H[id] = HashOf(cols, rows[id]) /\ HashOf(cols, rows[id]) \in ScannedRow
  <2>1. /\ rows[id].ver \in Version
        /\ rows[id].val \in [cols -> Value]
    BY <1>1, ScannedRowFacts
  <2>2. [c \in cols |-> rows[id].val[c]] \in [cols -> Value]
    BY <2>1
  <2>3. HashOf(cols, rows[id]) \in ScannedRow
    BY <2>1, <2>2, ScannedRowIntro DEF HashOf
  <2> QED
    BY <2>3 DEF Recorded
<1>3. H \in [DOMAIN rows -> ScannedRow]
  BY <1>2 DEF Recorded
<1>4. H \in Rows
  BY <1>1, <1>3, RowsIntro
<1> QED
  BY <1>2, <1>4 DEF Recorded, HashOf

LEMMA InitInv == Init => IInv
<1> SUFFICES ASSUME Init PROVE IInv
  OBVIOUS
<1> USE DEF Init
<1>1. PICK f \in Filters :
        snaps = << [columns |-> BaseColumns, filter |-> f,
                    hash |-> Recorded(BaseColumns, BaseColumns,
                                      Collapse(source, f, BaseColumns)),
                    countStar |-> Cardinality(Selected(source, f)), narrow |-> TRUE,
                    unfolded |-> Cardinality(Selected(source, f))
                      = Cardinality(DOMAIN Collapse(source, f, BaseColumns)),
                    steady |-> TRUE] >>
  BY Zenon
<1> DEFINE rows == Collapse(source, f, BaseColumns)
           hash == Recorded(BaseColumns, BaseColumns, rows)
           S    == Selected(source, f)
<1>2. /\ source \in Table /\ target = source
      /\ \A pk \in DOMAIN source : \A c \in Column \ BaseColumns :
           source[pk][c] = Null
  BY SyncAssumption
<1>3. BaseColumns \in SUBSET Column
  BY RowAssumption
<1>4. /\ rows \in Rows /\ DOMAIN rows = IdsOf(S)
      /\ \A id \in DOMAIN rows : /\ FirstOf(S, id) \in S
                                 /\ FirstOf(S, id)[1] = id
                                 /\ rows[id] = Scanned(source, FirstOf(S, id), BaseColumns)
  BY <1>2, <1>3, CollapseRows
<1>5. \A id \in DOMAIN rows : DOMAIN rows[id].val = BaseColumns
  BY <1>4 DEF Scanned
<1>6. /\ hash \in Rows /\ DOMAIN hash = DOMAIN rows
      /\ \A id \in DOMAIN rows :
           /\ DOMAIN hash[id].val = BaseColumns
           /\ hash[id].ver = rows[id].ver
           /\ \A c \in BaseColumns : hash[id].val[c] = rows[id].val[c]
  BY <1>3, <1>4, <1>5, RecordedRows
<1>7. /\ S \in SUBSET PK
      /\ Cardinality(S) \in Nat
  BY <1>2, TableFacts, FiniteRows DEF Selected
<1>8. /\ snaps[1].columns = BaseColumns /\ snaps[1].filter = f
      /\ snaps[1].hash = hash /\ snaps[1].narrow = TRUE
      /\ snaps[1] \in Snapshot
      /\ Len(snaps) = 1 /\ DOMAIN snaps = {1} /\ snaps \in Seq(Snapshot)
  BY <1>1, <1>3, <1>6, <1>7 DEF Snapshot
<1>9. BaseShape \in Shape /\ BaseColumns = Columns(BaseShape)
  BY <1>3, SyncAssumption, RowAssumption DEF BaseShape, Shape, Columns
<1>10. TypeOK
  <2>1. scripts \in Seq(Script) /\ Len(scripts) = 0
    OBVIOUS
  <2> QED
    BY <1>2, <1>6, <1>8, <1>9, <2>1 DEF TypeOK
<1>11. SnapInv /\ ScriptInv /\ JobInv
  BY <1>8 DEF SnapInv, ScriptInv, JobInv
<1>12. TargetInv
  BY <1>2, <1>8, <1>9 DEF TargetInv, Blank
<1>13. TargetHolds
  <2> SUFFICES ASSUME NEW id \in DOMAIN hash
               PROVE  LET pk == <<id, hash[id].ver>>
                      IN  /\ pk \in DOMAIN target
                          /\ \A c \in BaseColumns :
                               Agree(c, target[pk][c], hash[id].val[c])
    BY <1>8 DEF TargetHolds
  <2>1. FirstOf(S, id) \in S /\ FirstOf(S, id) \in PK /\ FirstOf(S, id)[1] = id
    BY <1>4, <1>6, <1>7
  <2>2. <<id, hash[id].ver>> = FirstOf(S, id)
    BY <2>1, <1>4, <1>6 DEF Scanned, PK
  <2>3. FirstOf(S, id) \in DOMAIN source
    BY <2>1 DEF Selected
  <2>4. \A c \in BaseColumns : hash[id].val[c] = source[FirstOf(S, id)][c]
    BY <1>4, <1>6 DEF Scanned
  <2> QED
    BY <1>2, <2>2, <2>3, <2>4 DEF Agree
<1>14. NothingExtra
  BY <1>2, <1>4, <1>6, <1>8 DEF NothingExtra
<1> QED
  BY <1>10, <1>11, <1>12, <1>13, <1>14 DEF IInv, HistoryInv, HoldsInv

-----------------------------------------------------------------------------
(* The steps that leave the snapshots and the target alone.                *)

\* What the rest of the invariant depends on.
resultVars == <<target, targetShape, snaps, scripts, at>>

LEMMA ResultStep ==
    ASSUME IInv, UNCHANGED resultVars
    PROVE  SnapInv' /\ ScriptInv' /\ TargetInv' /\ HoldsInv' /\ NothingExtra'
<1>1. /\ target' = target /\ targetShape' = targetShape /\ snaps' = snaps
      /\ scripts' = scripts /\ at' = at
  BY DEF resultVars
<1>2. SnapInv /\ ScriptInv /\ TargetInv /\ HoldsInv /\ NothingExtra
  BY DEF IInv, HistoryInv
<1>3. SnapInv'
  BY <1>1, <1>2 DEF SnapInv
<1>4. ScriptInv'
  BY <1>1, <1>2, Zenon DEF ScriptInv
<1>5. TargetInv'
  BY <1>1, <1>2 DEF TargetInv, Columns
<1>6. HoldsInv'
  BY <1>1, <1>2, Zenon DEF HoldsInv, TargetHolds
<1>7. NothingExtra'
  BY <1>1, <1>2, Zenon DEF NothingExtra
<1> QED
  BY <1>3, <1>4, <1>5, <1>6, <1>7

LEMMA TouchStep ==
    ASSUME IInv, Touch, source' \in Table, shape' \in Shape
    PROVE  IInv'
<1>1. UNCHANGED resultVars
  BY DEF Touch, resultVars
<1>2. job' \in {NoJob} \cup Scan /\ (job # NoJob => job.pc # "idle")
  BY DEF Touch, IInv, HistoryInv, TypeOK, Scan, NoJob
<1>3. TypeOK'
  BY <1>2 DEF Touch, IInv, HistoryInv, TypeOK
<1>4. JobInv'
  <2>1. CASE job = NoJob
    <3>1. job' = NoJob
      BY <2>1 DEF Touch, NoJob
    <3> QED
      BY <3>1 DEF JobInv
  <2>2. CASE job # NoJob
    <3>1. job \in Scan /\ job' = [job EXCEPT !.quiet = FALSE]
      BY <2>2, <1>2 DEF Touch, IInv, HistoryInv, TypeOK
    <3>2. job'.base = job.base /\ job'.cols = job.cols /\ job'.rows = job.rows
      BY <3>1 DEF Scan
    <3> QED
      BY <2>2, <3>2 DEF Touch, JobInv, IInv, HistoryInv
  <2> QED
    BY <2>1, <2>2
<1> QED
  BY <1>1, <1>3, <1>4, ResultStep DEF IInv, HistoryInv

LEMMA SourceStep ==
    ASSUME IInv,
           \/ \E pk \in PK, r \in Row : PutRow(pk, r)
           \/ \E pk \in PK : DropRow(pk)
           \/ \E c \in Column, d \in Defaults : AddColumn(c, d)
           \/ \E c \in Column : DropColumn(c)
    PROVE  IInv'
<1>1. /\ source \in Table /\ shape \in Shape
      /\ DOMAIN source \subseteq PK /\ source \in [DOMAIN source -> Row]
  BY TableFacts DEF IInv, HistoryInv, TypeOK
<1>2. ASSUME NEW pk \in PK, NEW r \in Row, PutRow(pk, r)
      PROVE  IInv'
  <2>1. source' \in [DOMAIN source \cup {pk} -> Row]
    BY <1>1, <1>2 DEF PutRow
  <2>2. source' \in Table
    BY <1>1, <2>1, TableIntro
  <2> QED
    BY <1>1, <1>2, <2>2, TouchStep DEF PutRow
<1>3. ASSUME NEW pk \in PK, DropRow(pk)
      PROVE  IInv'
  <2>1. source' \in [DOMAIN source \ {pk} -> Row]
    BY <1>1, <1>3 DEF DropRow
  <2>2. source' \in Table
    BY <1>1, <2>1, TableIntro
  <2> QED
    BY <1>1, <1>3, <2>2, TouchStep DEF DropRow
<1>4. ASSUME NEW c \in Column, NEW d \in Defaults, AddColumn(c, d)
      PROVE  IInv'
  <2>1. shape' \in Shape
    BY <1>1, <1>4 DEF AddColumn, Shape
  <2>2. source' \in Table
    BY <1>1, <1>4, <2>1, FillTable DEF AddColumn
  <2> QED
    BY <1>4, <2>1, <2>2, TouchStep DEF AddColumn
<1>5. ASSUME NEW c \in Column, DropColumn(c)
      PROVE  IInv'
  <2>1. shape' \in Shape
    BY <1>1, <1>5 DEF DropColumn, Shape
  <2>2. \A pk \in DOMAIN source : [source[pk] EXCEPT ![c] = Null] \in Row
    BY <1>1, RowAssumption DEF Row
  <2>3. source' \in [DOMAIN source -> Row]
    BY <1>5, <2>2 DEF DropColumn
  <2>4. source' \in Table
    BY <1>1, <2>3, TableIntro
  <2> QED
    BY <1>5, <2>1, <2>4, TouchStep DEF DropColumn
<1> QED
  BY <1>2, <1>3, <1>4, <1>5

LEMMA JobStep ==
    ASSUME IInv, UNCHANGED <<source, shape, target, targetShape, snaps, scripts,
                             at, current, writes>>,
           job' \in {NoJob} \cup Scan, JobInv'
    PROVE  IInv'
<1>1. UNCHANGED resultVars
  BY DEF resultVars
<1>2. TypeOK'
  BY DEF IInv, HistoryInv, TypeOK
<1> QED
  BY <1>1, <1>2, ResultStep DEF IInv, HistoryInv

LEMMA StartStep ==
    ASSUME IInv, NEW b \in DOMAIN snaps, NEW f \in Filters, StartCompare(b, f)
    PROVE  IInv'
<1>1. <<>> \in Rows
  <2>1. <<>> \in [{} -> ScannedRow] /\ DOMAIN <<>> = {}
    OBVIOUS
  <2>2. <<>> \in [DOMAIN <<>> -> ScannedRow]
    BY <2>1
  <2> QED
    BY <2>1, <2>2, RowsIntro
<1>2. Columns(shape) \in SUBSET Column /\ b \in Nat /\ BaseShape \in Shape
  BY SyncAssumption, RowAssumption
  DEF Columns, IInv, HistoryInv, TypeOK, BaseShape, Shape
<1>3. job' \in Scan
  BY <1>1, <1>2 DEF StartCompare, Scan
<1>4. JobInv'
  BY DEF StartCompare, JobInv
<1> QED
  BY <1>3, <1>4, JobStep DEF StartCompare

LEMMA SchemaStep ==
    ASSUME IInv, ReadSchema
    PROVE  IInv'
<1>1. job \in Scan /\ job # NoJob /\ shape \in Shape
  BY DEF ReadSchema, IInv, HistoryInv, TypeOK, NoJob
<1>2. job' \in Scan /\ job'.base = job.base /\ job'.cols = job.cols
      /\ job'.rows = job.rows
  BY <1>1 DEF ReadSchema, Scan
<1>3. JobInv'
  BY <1>1, <1>2 DEF ReadSchema, JobInv, IInv, HistoryInv
<1> QED
  BY <1>2, <1>3, JobStep DEF ReadSchema

LEMMA AbandonStep ==
    ASSUME IInv, Abandon
    PROVE  IInv'
  BY JobStep DEF Abandon, JobInv

LEMMA PageStep ==
    ASSUME IInv, ScanPage
    PROVE  IInv'
<1> DEFINE page  == Page(source, job.filter, job.offset, PageSize)
           fresh == IdsOf(page) \ DOMAIN job.rows
           A     == Absorb(job.rows, source, page, job.cols)
<1>1. job \in Scan /\ job # NoJob /\ source \in Table
  BY DEF ScanPage, IInv, HistoryInv, TypeOK, NoJob
<1>2. page \in SUBSET (DOMAIN source) /\ page \in SUBSET PK
  BY <1>1, PageRows
<1>3. /\ job.rows \in Rows /\ job.cols \in SUBSET Column
      /\ job.offset \in Nat /\ job.collapsed \in Int
      /\ \A id \in DOMAIN job.rows : DOMAIN job.rows[id].val = job.cols
  BY <1>1 DEF Scan, JobInv, IInv, HistoryInv
<1>4. A \in Rows /\ \A id \in DOMAIN A : DOMAIN A[id].val = job.cols
  <2> DEFINE live == job.rows
             cols == job.cols
  <2>1. /\ live \in Rows /\ cols \in SUBSET Column /\ A = Absorb(live, source, page, cols)
        /\ \A id \in DOMAIN live : DOMAIN live[id].val = cols
    BY <1>3
  <2> HIDE DEF page, live, cols, A
  <2>2. /\ Absorb(live, source, page, cols) \in Rows
        /\ \A id \in DOMAIN Absorb(live, source, page, cols) :
             DOMAIN Absorb(live, source, page, cols)[id].val = cols
    BY <1>1, <1>2, <2>1, AbsorbRows
  <2> QED
    BY <2>1, <2>2 DEF cols
<1>5. /\ Cardinality(page) \in Nat
      /\ Cardinality(fresh) \in Nat
  <2>1. IsFiniteSet(IdsOf(page)) /\ Cardinality(page) \in Nat
    BY <1>2, FiniteRows
  <2>2. IsFiniteSet(fresh)
    BY <2>1, FS_Subset
  <2> QED
    BY <2>1, <2>2, FS_CardinalityType
<1>6. job' = [job EXCEPT
                !.pc        = IF LastPage(Cardinality(page)) THEN "count" ELSE "scan",
                !.rows      = A,
                !.offset    = job.offset + PageSize,
                !.collapsed = job.collapsed + Cardinality(page) - Cardinality(fresh)]
  BY DEF ScanPage
<1>7. job' \in Scan /\ job'.base = job.base /\ job'.cols = job.cols /\ job'.rows = A
  <2>1. job.offset + PageSize \in Nat
    BY <1>3, SyncAssumption
  <2>2. job.collapsed + Cardinality(page) - Cardinality(fresh) \in Int
    BY <1>3, <1>5
  <2> HIDE DEF page, fresh, A
  <2> QED
    BY <1>1, <1>4, <1>6, <2>1, <2>2 DEF Scan
<1>8. JobInv'
  BY <1>1, <1>4, <1>7 DEF ScanPage, JobInv, IInv, HistoryInv
<1> QED
  BY <1>7, <1>8, JobStep DEF ScanPage


-----------------------------------------------------------------------------
(* The end of a comparison.                                                *)

LEMMA FinishStep ==
    ASSUME IInv, Finish
    PROVE  IInv'
<1> DEFINE old   == snaps[job.base]
           delta == Compare(old.hash, job.rows, old.columns, job.cols \ old.columns)
           hash  == Recorded(old.columns, job.cols, job.rows)
           S     == [from |-> job.base, filter |-> job.filter, cols |-> job.cols,
                     schema |-> job.schema, rows |-> job.rows,
                     arriving |-> Arriving(delta), removed |-> delta.removed,
                     expected |-> Expected(old, job.rows),
                     idle |-> job.filter = old.filter /\ current = job.base]
           W(count) ==
                [columns |-> job.cols, filter |-> job.filter, hash |-> hash,
                 countStar |-> count,
                 narrow   |-> old.narrow /\ job.filter \subseteq old.filter,
                 unfolded |-> old.unfolded /\ job.collapsed = 0,
                 steady   |-> /\ old.steady
                              /\ count = Cardinality(DOMAIN job.rows) + job.collapsed]
<1>1. /\ job \in Scan /\ job # NoJob /\ source \in Table
      /\ snaps \in Seq(Snapshot) /\ scripts \in Seq(Script)
      /\ Len(snaps) = Len(scripts) + 1
      /\ at \in DOMAIN snaps /\ current \in 0 .. Len(snaps)
  BY DEF Finish, IInv, HistoryInv, TypeOK, NoJob
<1>2. PICK count \in {Cardinality(Selected(source, job.filter)), NoCount} :
        scripts' = Append(scripts, S) /\ snaps' = Append(snaps, W(count))
  BY Zenon DEF Finish
<1>3. /\ job.base \in DOMAIN snaps /\ old \in Snapshot
      /\ old.columns \subseteq job.cols
      /\ BaseColumns \subseteq old.columns
      /\ job.rows \in Rows /\ job.cols \in SUBSET Column
      /\ \A id \in DOMAIN job.rows : DOMAIN job.rows[id].val = job.cols
  BY <1>1 DEF Scan, JobInv, SnapInv, IInv, HistoryInv
<1>4. /\ hash \in Rows
      /\ hash = [id \in DOMAIN job.rows |-> HashOf(job.cols, job.rows[id])]
      /\ \A id \in DOMAIN hash : DOMAIN hash[id].val = job.cols
  <2> DEFINE rows == job.rows
             cols == job.cols
  <2>1. /\ rows \in Rows /\ cols \in SUBSET Column
        /\ \A id \in DOMAIN rows : DOMAIN rows[id].val = cols
    BY <1>3
  <2> HIDE DEF rows, cols
  <2>2. /\ Recorded(old.columns, cols, rows) \in Rows
        /\ DOMAIN Recorded(old.columns, cols, rows) = DOMAIN rows
        /\ \A id \in DOMAIN rows :
             DOMAIN Recorded(old.columns, cols, rows)[id].val = cols
    BY <2>1, RecordedRows
  <2> QED
    BY <2>2 DEF rows, cols, Recorded
<1>5. /\ count \in Nat \cup {NoCount}
      /\ IsFiniteSet(DOMAIN old.hash) /\ Cardinality(DOMAIN old.hash) \in Nat
  <2>1. Selected(source, job.filter) \in SUBSET PK
    BY <1>1, TableFacts DEF Selected
  <2>2. DOMAIN old.hash \subseteq Id
    BY <1>3, RowsFacts DEF Snapshot
  <2>3. Cardinality(Selected(source, job.filter)) \in Nat
    BY <2>1, FiniteRows
  <2>4. IsFiniteSet(DOMAIN old.hash)
    <3> HIDE DEF old
    <3> QED
      BY <2>2, RowAssumption, FS_Subset
  <2>5. Cardinality(DOMAIN old.hash) \in Nat
    <3> HIDE DEF old
    <3> QED
      BY <2>4, FS_CardinalityType
  <2> QED
    BY <2>3, <2>4, <2>5
<1>6. S \in Script
  <2>1. Arriving(delta) \in SUBSET Id /\ delta.removed \in SUBSET Id
    <3>1. DOMAIN job.rows \subseteq Id /\ DOMAIN old.hash \subseteq Id
      BY <1>3, RowsFacts DEF Snapshot
    <3> QED
      BY <3>1 DEF Compare, Arriving
  <2>2. Expected(old, job.rows) \in Nat
    BY <1>3, <1>5 DEF Expected, Snapshot
  <2>3. job.base \in Nat /\ job.filter \in Filters /\ job.schema \in Shape
    BY <1>1 DEF Scan
  <2> HIDE DEF old, delta
  <2> QED
    BY <1>3, <2>1, <2>2, <2>3 DEF Script
<1>7. W(count) \in Snapshot
  <2>1. job.filter \in Filters
    BY <1>1 DEF Scan
  <2>2. old.narrow \in BOOLEAN /\ old.unfolded \in BOOLEAN /\ old.steady \in BOOLEAN
    BY <1>3 DEF Snapshot
  <2> HIDE DEF old, hash
  <2> QED
    BY <1>3, <1>4, <1>5, <2>1, <2>2 DEF Snapshot
<1>8. Faithful(S, old, W(count))
  <2> HIDE DEF old, hash
  <2> QED
    BY <1>3, <1>4 DEF Faithful
<1> HIDE DEF S, W
<1>9. /\ snaps' \in Seq(Snapshot) /\ Len(snaps') = Len(snaps) + 1
      /\ \A n \in DOMAIN snaps : snaps'[n] = snaps[n]
      /\ snaps'[Len(snaps) + 1] = W(count)
      /\ DOMAIN snaps = 1 .. Len(snaps) /\ DOMAIN snaps' = 1 .. Len(snaps) + 1
  BY <1>1, <1>2, <1>7
<1>10. /\ scripts' \in Seq(Script) /\ Len(scripts') = Len(scripts) + 1
       /\ \A n \in DOMAIN scripts : scripts'[n] = scripts[n]
       /\ scripts'[Len(snaps)] = S
       /\ DOMAIN scripts = 1 .. Len(scripts) /\ DOMAIN scripts' = 1 .. Len(snaps)
  BY <1>1, <1>2, <1>6
<1>11. W(count).columns = job.cols /\ W(count).hash = hash
       /\ S.from = job.base
  BY DEF W, S
<1>12. TypeOK'
  <2>1. \A n \in DOMAIN snaps' :
          \A id \in DOMAIN snaps'[n].hash :
            DOMAIN snaps'[n].hash[id].val = snaps'[n].columns
    <3> HIDE DEF hash
    <3>1. \A n \in DOMAIN snaps :
            \A id \in DOMAIN snaps[n].hash :
              DOMAIN snaps[n].hash[id].val = snaps[n].columns
      BY DEF IInv, HistoryInv, TypeOK
    <3>2. ASSUME NEW n \in DOMAIN snaps'
          PROVE  \A id \in DOMAIN snaps'[n].hash :
                   DOMAIN snaps'[n].hash[id].val = snaps'[n].columns
      <4>1. CASE n \in DOMAIN snaps
        <5>1. snaps'[n] = snaps[n]
          BY <1>9, <4>1
        <5> QED
          BY <3>1, <4>1, <5>1
      <4>2. CASE n = Len(snaps) + 1
        <5>1. snaps'[n] = W(count)
          BY <1>9, <4>2
        <5> QED
          BY <1>4, <1>11, <5>1
      <4> QED
        BY <1>1, <1>9, <4>1, <4>2
    <3> QED
      BY <3>2
  <2>2. current' \in 0 .. Len(snaps')
    BY <1>1, <1>9 DEF Finish
  <2>3. at' \in DOMAIN snaps' /\ job' = NoJob
    BY <1>1, <1>9 DEF Finish
  <2>4. /\ source' = source /\ shape' = shape /\ target' = target
        /\ targetShape' = targetShape /\ writes' = writes
    BY DEF Finish
  <2> QED
    BY <1>1, <1>9, <1>10, <2>1, <2>2, <2>3, <2>4 DEF IInv, HistoryInv, TypeOK
<1>13. SnapInv'
  BY <1>3, <1>9, <1>11 DEF SnapInv, IInv, HistoryInv
<1>14. ScriptInv'
  <2>1. ASSUME NEW n \in DOMAIN scripts
        PROVE  /\ scripts'[n].from \in 1 .. n
               /\ Faithful(scripts'[n], snaps'[scripts'[n].from], snaps'[n + 1])
    <3>1. /\ scripts[n].from \in 1 .. n
          /\ Faithful(scripts[n], snaps[scripts[n].from], snaps[n + 1])
      BY DEF IInv, HistoryInv, ScriptInv
    <3>2. scripts[n].from \in DOMAIN snaps /\ n + 1 \in DOMAIN snaps
      BY <1>1, <1>9, <1>10, <3>1
    <3>3. /\ scripts'[n] = scripts[n]
          /\ snaps'[scripts[n].from] = snaps[scripts[n].from]
          /\ snaps'[n + 1] = snaps[n + 1]
      BY <1>9, <1>10, <3>2
    <3> QED
      BY <3>1, <3>3, Zenon
  <2>2. /\ job.base \in 1 .. Len(snaps)
        /\ Faithful(S, snaps'[job.base], snaps'[Len(snaps) + 1])
    BY <1>3, <1>8, <1>9
  <2>3. \A n \in DOMAIN scripts' : n \in DOMAIN scripts \/ n = Len(snaps)
    BY <1>1, <1>10
  <2> QED
    BY <1>10, <1>11, <2>1, <2>2, <2>3 DEF ScriptInv
<1>15. JobInv'
  BY DEF Finish, JobInv
<1>16. TargetInv' /\ HoldsInv' /\ NothingExtra'
  <2>1. /\ target' = target /\ targetShape' = targetShape /\ at' = at
        /\ snaps'[at] = snaps[at]
    BY <1>1, <1>9 DEF Finish
  <2>2. TargetInv /\ HoldsInv /\ NothingExtra
    BY DEF IInv
  <2>3. TargetInv'
    BY <2>1, <2>2 DEF TargetInv, Columns
  <2>4. HoldsInv'
    BY <2>1, <2>2, Zenon DEF HoldsInv, TargetHolds
  <2>5. NothingExtra'
    BY <2>1, <2>2, Zenon DEF NothingExtra
  <2> QED
    BY <2>3, <2>4, <2>5
<1> QED
  BY <1>12, <1>13, <1>14, <1>15, <1>16 DEF IInv, HistoryInv


-----------------------------------------------------------------------------
(* Running the scripts.                                                    *)

\* An arriving identity is written as it was read.  One that is left alone has
\* the hash the baseline recorded and nothing in the gained columns, so the
\* target holds it already.  A removed one goes.
LEMMA RunStep ==
    ASSUME IInv, NEW n \in DOMAIN scripts, RunScripts(n)
    PROVE  IInv'
<1> DEFINE s    == scripts[n]
           old  == snaps[at]
           new  == snaps[n + 1]
           w    == Widened(s)
           F    == Fill(target, targetShape, w)
           fill == FillOf(w)
           R    == Remove(Overwrite(F, s.arriving, s.rows, s.cols, fill), s.removed)
<1>1. /\ s.from = at /\ s.cols \subseteq Columns(w)
      /\ targetShape' = w /\ target' = R /\ at' = n + 1
      /\ source' = source /\ shape' = shape /\ snaps' = snaps
      /\ scripts' = scripts /\ job' = job /\ current' = current
      /\ writes' = writes
  BY DEF RunScripts
<1>2. /\ TypeOK /\ SnapInv /\ ScriptInv /\ JobInv
      /\ TargetInv /\ HoldsInv /\ NothingExtra
  BY DEF IInv, HistoryInv
<1>3. /\ snaps \in Seq(Snapshot) /\ scripts \in Seq(Script)
      /\ Len(snaps) = Len(scripts) + 1
      /\ at \in DOMAIN snaps /\ target \in Table /\ targetShape \in Shape
  BY <1>2 DEF TypeOK
<1>4. /\ n + 1 \in DOMAIN snaps
      /\ s \in Script /\ old \in Snapshot /\ new \in Snapshot
      /\ Faithful(s, old, new)
  BY <1>1, <1>2, <1>3 DEF ScriptInv
<1>5. PICK d : /\ d = Compare(old.hash, s.rows, old.columns, s.cols \ old.columns)
               /\ s.arriving = Arriving(d)
               /\ s.removed = d.removed
  BY <1>4 DEF Faithful
<1>6. /\ s.rows \in Rows /\ s.cols \in SUBSET Column /\ s.filter \in Filters
      /\ old.filter \in Filters
      /\ old.columns \subseteq s.cols /\ new.columns = s.cols
      /\ new.filter = s.filter
      /\ new.hash = [id \in DOMAIN s.rows |-> HashOf(s.cols, s.rows[id])]
      /\ (new.narrow => old.narrow /\ s.filter \subseteq old.filter)
      /\ BaseColumns \subseteq old.columns
      /\ old.columns \subseteq Columns(targetShape)
  BY <1>2, <1>3, <1>4 DEF Faithful, Script, Snapshot, SnapInv, TargetInv
<1>7. \A id \in DOMAIN s.rows : DOMAIN s.rows[id].val = s.cols
  BY <1>4 DEF Faithful
<1>8. /\ w \in Shape /\ fill \in Row
      /\ Columns(targetShape) \subseteq Columns(w)
  BY <1>2, <1>4, WidenedShape
<1>9. /\ s.arriving \in SUBSET DOMAIN s.rows
      /\ s.removed = DOMAIN old.hash \ DOMAIN s.rows
      /\ s.arriving \cap s.removed = {}
  BY <1>5 DEF Compare, Arriving
<1>10. /\ F \in Table /\ DOMAIN F = DOMAIN target
       /\ \A pk \in DOMAIN target : \A c \in Column :
            F[pk][c] = IF targetShape[c] = NoColumn /\ w[c] # NoColumn
                       THEN w[c] ELSE target[pk][c]
  BY <1>3, <1>8, FillTable
<1>11. /\ R \in Table
       /\ \A pk \in DOMAIN R :
            /\ pk[1] \notin s.removed
            /\ \/ /\ pk[1] \in s.arriving
                  /\ \A c \in s.cols : R[pk][c] = s.rows[pk[1]].val[c]
                  /\ \A c \in Column \ s.cols : R[pk][c] = fill[c]
               \/ /\ pk[1] \notin s.arriving /\ pk \in DOMAIN F
                  /\ R[pk] = F[pk]
       /\ \A id \in s.arriving \ s.removed : <<id, s.rows[id].ver>> \in DOMAIN R
       /\ \A pk \in DOMAIN F :
            pk[1] \notin s.arriving \cup s.removed => pk \in DOMAIN R
  <2> DEFINE rows == s.rows
             cols == s.cols
             arriving == s.arriving
             removed == s.removed
  <2>1. /\ rows \in Rows /\ arriving \in SUBSET DOMAIN rows
        /\ \A id \in DOMAIN rows : DOMAIN rows[id].val = cols
        /\ R = Remove(Overwrite(F, arriving, rows, cols, fill), removed)
    BY <1>6, <1>7, <1>9
  <2> HIDE DEF rows, cols, arriving, removed, R, F, fill
  <2>2. F \in Table /\ fill \in Row
    BY <1>8, <1>10
  <2>3. R \in Table /\ RanOn(R, F, rows, arriving, removed, cols, fill)
    BY <2>1, <2>2, AfterScripts
  <2> QED
    BY <2>3 DEF RanOn, rows, cols, arriving, removed
\* The values with which columns are filled.
<1>12. /\ \A c \in Column : w[c] \in Defaults \cup {NoColumn}
       /\ \A c \in Column : fill[c] \in {Null} \cup Defaults
  BY <1>8 DEF Shape, FillOf
\* A row that stays has the values it had in every column the target had.
<1>13. \A pk \in DOMAIN F : \A c \in old.columns : F[pk][c] = target[pk][c]
  <2>1. \A c \in old.columns : c \in Column /\ targetShape[c] # NoColumn
    BY <1>6 DEF Columns
  <2> QED
    BY <2>1, <1>10
<1> HIDE DEF s, old, new, w, F, fill, R
<1>14. TypeOK'
  BY <1>1, <1>2, <1>4, <1>8, <1>11 DEF TypeOK
<1>15. SnapInv' /\ ScriptInv' /\ JobInv'
  <2>1. SnapInv'
    BY <1>1, <1>2 DEF SnapInv
  <2>2. ScriptInv'
    BY <1>1, <1>2, Zenon DEF ScriptInv
  <2>3. JobInv'
    BY <1>1, <1>2, Zenon DEF JobInv
  <2> QED
    BY <2>1, <2>2, <2>3
<1>16. snaps'[at'] = new
  BY <1>1 DEF new
<1>17. TargetInv'
  <2>1. new.columns \subseteq Columns(targetShape)'
    BY <1>1, <1>6 DEF Columns
  <2>2. ASSUME QuietDefaults, NEW pk \in DOMAIN R, NEW c \in Column \ s.cols
        PROVE  R[pk][c] \in Blank
    <3>1. fill[c] \in Blank /\ (w[c] # NoColumn => w[c] \in Blank)
      BY <1>12, <2>2 DEF QuietDefaults, Blank
    <3>2. CASE pk[1] \in s.arriving
      BY <3>1, <3>2, <1>11
    <3>3. CASE pk[1] \notin s.arriving
      <4>1. R[pk] = F[pk] /\ pk \in DOMAIN target
        BY <3>3, <1>10, <1>11
      <4>2. target[pk][c] \in Blank
        BY <4>1, <2>2, <1>2, <1>6 DEF TargetInv, old
      <4> QED
        BY <3>1, <4>1, <4>2, <1>10
    <3> QED
      BY <3>2, <3>3
  <2> QED
    BY <1>1, <1>6, <1>16, <2>1, <2>2 DEF TargetInv
<1>18. HoldsInv'
  <2> SUFFICES ASSUME QuietDefaults, NEW id \in DOMAIN s.rows
               PROVE  /\ <<id, s.rows[id].ver>> \in DOMAIN R
                      /\ \A c \in s.cols :
                           Agree(c, R[<<id, s.rows[id].ver>>][c], s.rows[id].val[c])
    BY <1>1, <1>6, <1>16 DEF HoldsInv, TargetHolds, HashOf
  <2> DEFINE pk == <<id, s.rows[id].ver>>
  <2>1. CASE id \in s.arriving
    <3>1. pk \in DOMAIN R /\ pk[1] = id
      BY <2>1, <1>9, <1>11
    <3>2. \A c \in s.cols : R[pk][c] = s.rows[id].val[c]
      BY <2>1, <3>1, <1>11
    <3> QED
      BY <3>1, <3>2 DEF Agree
  <2>2. CASE id \notin s.arriving
    <3>1. /\ id \in DOMAIN old.hash
          /\ old.hash[id] = HashOf(old.columns, s.rows[id])
          /\ \A c \in s.cols \ old.columns : s.rows[id].val[c] \in Blank
      BY <2>2, <1>5, UnchangedRow
    <3>2. /\ old.hash[id].ver = s.rows[id].ver
          /\ \A c \in old.columns : old.hash[id].val[c] = s.rows[id].val[c]
      BY <3>1 DEF HashOf
    <3>3. /\ pk \in DOMAIN target
          /\ \A c \in old.columns : Agree(c, target[pk][c], s.rows[id].val[c])
      BY <3>1, <3>2, <1>2 DEF HoldsInv, TargetHolds, old
    <3>4. pk \in DOMAIN R /\ R[pk] = F[pk]
      BY <2>2, <3>3, <1>9, <1>10, <1>11
    <3>5. ASSUME NEW c \in s.cols
          PROVE  Agree(c, R[pk][c], s.rows[id].val[c])
      <4>1. CASE c \in old.columns
        BY <4>1, <3>3, <3>4, <1>10, <1>13
      <4>2. CASE c \notin old.columns
        <5>1. c \notin BaseColumns /\ s.rows[id].val[c] \in Blank
          BY <4>2, <3>1, <1>6
        <5>2. target[pk][c] \in Blank /\ c \in Column
          BY <4>2, <3>3, <1>2, <1>6 DEF TargetInv, old
        <5>3. w[c] # NoColumn => w[c] \in Blank
          BY <5>2, <1>12 DEF QuietDefaults
        <5>4. F[pk][c] \in Blank
          BY <5>2, <5>3, <3>3, <1>10
        <5> QED
          BY <5>1, <5>4, <3>4 DEF Agree
      <4> QED
        BY <4>1, <4>2
    <3> QED
      BY <3>4, <3>5
  <2> QED
    BY <2>1, <2>2
<1>19. NothingExtra'
  <2> SUFFICES ASSUME new.narrow, NEW pk \in Selected(R, s.filter)
               PROVE  pk[1] \in DOMAIN s.rows
    BY <1>1, <1>6, <1>16 DEF NothingExtra, IdsOf
  <2>1. pk \in DOMAIN R /\ R[pk] \in s.filter
    BY DEF Selected
  <2>2. CASE pk[1] \in s.arriving
    BY <2>2, <1>9
  <2>3. CASE pk[1] \notin s.arriving
    <3>1. R[pk] = F[pk] /\ pk \in DOMAIN target /\ pk \in DOMAIN F
      BY <2>1, <2>3, <1>10, <1>11
    <3>2. F[pk] \in Row /\ target[pk] \in Row
      BY <3>1, <1>3, <1>10, TableFacts
    <3>3. \A c \in BaseColumns : F[pk][c] = target[pk][c]
      BY <3>1, <1>6, <1>13
    <3>4. F[pk] \in old.filter
      BY <2>1, <3>1, <1>6
    <3>5. target[pk] \in old.filter
      BY <3>2, <3>3, <3>4, <1>6, RowAssumption
    <3>6. pk[1] \in DOMAIN old.hash
      BY <3>1, <3>5, <1>2, <1>6 DEF NothingExtra, Selected, IdsOf, old
    <3> QED
      BY <2>1, <3>6, <1>9, <1>11
  <2> QED
    BY <2>2, <2>3
<1> QED
  BY <1>14, <1>15, <1>17, <1>18, <1>19 DEF IInv, HistoryInv


-----------------------------------------------------------------------------
(* The specification.                                                      *)

LEMMA NextStep ==
    ASSUME IInv, [Next]_vars
    PROVE  IInv'
<1>1. CASE \/ \E pk \in PK, r \in Row : PutRow(pk, r)
           \/ \E pk \in PK : DropRow(pk)
           \/ \E c \in Column, d \in Defaults : AddColumn(c, d)
           \/ \E c \in Column : DropColumn(c)
  BY <1>1, SourceStep
<1>2. CASE \E b \in DOMAIN snaps, f \in Filters : StartCompare(b, f)
  BY <1>2, StartStep
<1>3. CASE ReadSchema
  BY <1>3, SchemaStep
<1>4. CASE Abandon
  BY <1>4, AbandonStep
<1>5. CASE ScanPage
  BY <1>5, PageStep
<1>6. CASE Finish
  BY <1>6, FinishStep
<1>7. CASE \E n \in DOMAIN scripts : RunScripts(n)
  BY <1>7, RunStep
<1>8. CASE UNCHANGED vars
  <2>1. UNCHANGED resultVars /\ job' = job
    BY <1>8 DEF vars, resultVars
  <2>2. TypeOK'
    BY <1>8 DEF vars, IInv, HistoryInv, TypeOK
  <2>3. JobInv'
    BY <1>8 DEF vars, IInv, HistoryInv, JobInv
  <2> QED
    BY <2>1, <2>2, <2>3, ResultStep DEF IInv, HistoryInv
<1> QED
  BY <1>1, <1>2, <1>3, <1>4, <1>5, <1>6, <1>7, <1>8 DEF Next

\* Every comparison stays the faithful record of the rows it read, and the
\* target stays what the snapshot it was brought to records.
THEOREM RoundsInductive == Spec => []IInv
  BY InitInv, NextStep, PTL DEF Spec

\* Every variable keeps its type, and the hashes of every snapshot cover the
\* columns it claims, whatever columns came and went.
THEOREM RoundsTypeCorrect == Spec => []TypeOK
<1>1. IInv => TypeOK
  BY DEF IInv, HistoryInv
<1> QED
  BY <1>1, RoundsInductive, PTL

\* The target keeps no row under the snapshot's filter that the snapshot does
\* not know, unless a comparison widened the filter: 04-delete.sql misses
\* none, for any number of rounds, page size and interleaving with writes.
THEOREM NothingLeftOver == Spec => []NothingExtra
<1>1. IInv => NothingExtra
  BY DEF IInv
<1> QED
  BY <1>1, RoundsInductive, PTL

\* If columns are only added with defaults that read as empty, the target
\* holds every row its snapshot recorded, whatever the scans saw.
THEOREM TargetKeepsUp ==
    ASSUME Defaults \subseteq Blank
    PROVE  Spec => []TargetHolds
<1>1. IInv => TargetHolds
  BY DEF IInv, HoldsInv, QuietDefaults
<1> QED
  BY <1>1, RoundsInductive, PTL

-----------------------------------------------------------------------------
(* What an undisturbed comparison reads, and what its snapshot is then     *)
(* worth.  These invariants are a second layer: they use IInv, which does  *)
(* not use them.                                                           *)

\* As long as the source has not changed, the rows read so far are the first
\* pages, folded; once it has, no snapshot equals it.
ScanInv ==
    job # NoJob =>
        /\ ~ job.quiet => current = 0
        /\ job.quiet =>
             /\ job.cols = Columns(shape)
             /\ job.pc = "schema" => job.rows = <<>> /\ job.offset = 0
             /\ job.pc = "scan" =>
                  job.rows = Folded(source, Page(source, job.filter, 0, job.offset),
                                    job.cols)
             /\ job.pc = "count" =>
                  job.rows = Collapse(source, job.filter, job.cols)

\* The snapshot the source still equals records all of it.
CurrentInv ==
    current # 0 =>
        /\ snaps[current].columns = Columns(shape)
        /\ snaps[current].hash
             = Collapse(source, snaps[current].filter, snaps[current].columns)

ReadInv == ScanInv /\ CurrentInv /\ SelfCompareEmpty

\* Hashing rows over the columns they were read with keeps them as they are.
LEMMA RecordedSame ==
    ASSUME NEW rows \in Rows, NEW cols \in SUBSET Column, NEW hashCols,
           \A id \in DOMAIN rows : DOMAIN rows[id].val = cols
    PROVE  Recorded(hashCols, cols, rows) = rows
<1>1. rows \in [DOMAIN rows -> ScannedRow]
  BY RowsFacts
<1>2. ASSUME NEW id \in DOMAIN rows
      PROVE  HashOf(cols, rows[id]) = rows[id]
  <2>1. /\ rows[id].val \in [cols -> Value]
        /\ rows[id] = [ver |-> rows[id].ver, val |-> rows[id].val]
    BY <1>1, ScannedRowFacts
  <2>2. [c \in cols |-> rows[id].val[c]] = rows[id].val
    BY <2>1
  <2> QED
    BY <2>1, <2>2 DEF HashOf
<1>3. rows = [id \in DOMAIN rows |-> rows[id]]
  BY <1>1
<1>4. Recorded(hashCols, cols, rows) = [id \in DOMAIN rows |-> rows[id]]
  BY <1>2, Zenon DEF Recorded
<1> QED
  BY <1>3, <1>4

LEMMA CollapseFolds ==
    ASSUME NEW t, NEW f, NEW cols
    PROVE  Collapse(t, f, cols) = Folded(t, Selected(t, f), cols)
  BY Zenon DEF Collapse, Folded

LEMMA ReadInit == Init => ReadInv
<1> SUFFICES ASSUME Init PROVE ReadInv
  OBVIOUS
<1>1. PICK f \in Filters :
        /\ snaps[1].columns = BaseColumns /\ snaps[1].filter = f
        /\ snaps[1].hash = Recorded(BaseColumns, BaseColumns,
                                    Collapse(source, f, BaseColumns))
  <2>1. PICK f \in Filters :
          snaps = << [columns |-> BaseColumns, filter |-> f,
                      hash |-> Recorded(BaseColumns, BaseColumns,
                                        Collapse(source, f, BaseColumns)),
                      countStar |-> Cardinality(Selected(source, f)), narrow |-> TRUE,
                      unfolded |-> Cardinality(Selected(source, f))
                        = Cardinality(DOMAIN Collapse(source, f, BaseColumns)),
                      steady |-> TRUE] >>
    BY Zenon DEF Init
  <2> QED
    BY <2>1
<1>2. source \in Table /\ BaseColumns \in SUBSET Column
  BY SyncAssumption, RowAssumption DEF Init
<1>3. Recorded(BaseColumns, BaseColumns, Collapse(source, f, BaseColumns))
        = Collapse(source, f, BaseColumns)
  <2> DEFINE rows == Collapse(source, f, BaseColumns)
  <2>1. rows \in Rows /\ \A id \in DOMAIN rows :
           rows[id] = Scanned(source, FirstOf(Selected(source, f), id), BaseColumns)
    BY <1>2, CollapseRows
  <2>2. \A id \in DOMAIN rows : DOMAIN rows[id].val = BaseColumns
    BY <2>1 DEF Scanned
  <2> HIDE DEF rows
  <2>3. Recorded(BaseColumns, BaseColumns, rows) = rows
    BY <1>2, <2>1, <2>2, RecordedSame
  <2> QED
    BY <2>3 DEF rows
<1>4. Columns(shape) = BaseColumns
  BY <1>2, SyncAssumption, RowAssumption DEF Init, BaseShape, Columns
<1>5. CurrentInv
  BY <1>1, <1>3, <1>4 DEF Init, CurrentInv
<1>6. ScanInv /\ SelfCompareEmpty
  BY DEF Init, ScanInv, SelfCompareEmpty
<1> QED
  BY <1>5, <1>6 DEF ReadInv

\* A change of the source outdates what was read, and every snapshot.
LEMMA ReadTouch ==
    ASSUME IInv, ReadInv, Touch
    PROVE  ReadInv'
<1>1. current' = 0 /\ scripts' = scripts
  BY DEF Touch
<1>2. job' # NoJob => ~ job'.quiet
  <2>1. CASE job = NoJob
    BY <2>1 DEF Touch, NoJob
  <2>2. CASE job # NoJob
    <3>1. job \in Scan /\ job' = [job EXCEPT !.quiet = FALSE]
      BY <2>2 DEF Touch, IInv, HistoryInv, TypeOK, Scan
    <3> QED
      BY <3>1 DEF Scan
  <2> QED
    BY <2>1, <2>2
<1> QED
  BY <1>1, <1>2 DEF ReadInv, ScanInv, CurrentInv, SelfCompareEmpty

\* The steps of a comparison before its end leave the rest alone.
LEMMA ReadFrame ==
    ASSUME ReadInv, UNCHANGED <<source, shape, snaps, scripts, current>>, ScanInv'
    PROVE  ReadInv'
<1>1. /\ source' = source /\ shape' = shape /\ snaps' = snaps
      /\ scripts' = scripts /\ current' = current
  OBVIOUS
<1>2. CurrentInv'
  BY <1>1 DEF ReadInv, CurrentInv, Columns
<1>3. SelfCompareEmpty'
  BY <1>1 DEF ReadInv, SelfCompareEmpty
<1> QED
  BY <1>2, <1>3 DEF ReadInv

LEMMA ReadStart ==
    ASSUME IInv, ReadInv, NEW b \in DOMAIN snaps, NEW f \in Filters,
           StartCompare(b, f)
    PROVE  ReadInv'
<1>1. ScanInv'
  BY DEF StartCompare, ScanInv, Columns
<1> QED
  BY <1>1, ReadFrame DEF StartCompare

LEMMA ReadSchemaStep ==
    ASSUME IInv, ReadInv, ReadSchema
    PROVE  ReadInv'
<1>1. job \in Scan /\ job # NoJob /\ source \in Table
  BY DEF ReadSchema, IInv, HistoryInv, TypeOK, NoJob
<1>2. /\ job'.pc = "scan" /\ job'.cols = job.cols /\ job'.rows = job.rows
      /\ job'.filter = job.filter /\ job'.offset = job.offset
      /\ job'.quiet = job.quiet
  BY <1>1 DEF ReadSchema, Scan
<1>3. Folded(source, Page(source, job.filter, 0, 0), job.cols) = <<>>
  <2>1. Page(source, job.filter, 0, 0) = {}
    BY <1>1, NoPage
  <2>2. IdsOf({}) = {}
    BY DEF IdsOf
  <2> QED
    BY <2>1, <2>2 DEF Folded
<1>4. ScanInv'
  BY <1>1, <1>2, <1>3 DEF ReadSchema, ReadInv, ScanInv, Columns
<1> QED
  BY <1>4, ReadFrame DEF ReadSchema

LEMMA ReadAbandon ==
    ASSUME ReadInv, Abandon
    PROVE  ReadInv'
  BY ReadFrame DEF Abandon, ScanInv

\* The page joins those before it; one that is not full is the last.
LEMMA ReadPage ==
    ASSUME IInv, ReadInv, ScanPage
    PROVE  ReadInv'
<1> DEFINE f    == job.filter
           off  == job.offset
           cols == job.cols
           page == Page(source, f, off, PageSize)
           done == Page(source, f, 0, off)
           both == Page(source, f, 0, off + PageSize)
<1>1. /\ job \in Scan /\ job # NoJob /\ source \in Table
      /\ off \in Nat /\ PageSize \in Nat
  BY SyncAssumption DEF ScanPage, IInv, HistoryInv, TypeOK, NoJob, Scan
<1>2. /\ job'.pc = IF LastPage(Cardinality(page)) THEN "count" ELSE "scan"
      /\ job'.rows = Absorb(job.rows, source, page, cols)
      /\ job'.offset = off + PageSize /\ job'.filter = f /\ job'.cols = cols
      /\ job'.quiet = job.quiet
  BY <1>1 DEF ScanPage, Scan
<1>3. ASSUME job.quiet
      PROVE  /\ job'.rows = Folded(source, both, cols)
             /\ cols = Columns(shape)
             /\ job'.pc = "count" => job'.rows = Collapse(source, f, cols)
  <2>1. job.rows = Folded(source, done, cols) /\ cols = Columns(shape)
    BY <1>1, <1>3 DEF ScanPage, ReadInv, ScanInv
  <2>2. /\ done \in SUBSET DOMAIN source /\ page \in SUBSET DOMAIN source
        /\ done \cup page = both
        /\ \A p \in done, q \in page : Before(p, q)
    BY <1>1, PageRows, PagesJoin
  <2>3. job'.rows = Folded(source, both, cols)
    <3>1. Absorb(Folded(source, done, cols), source, page, cols)
            = Folded(source, done \cup page, cols)
      <4> HIDE DEF done, page, cols
      <4> QED
        BY <1>1, <2>2, AbsorbFolds
    <3> QED
      BY <1>2, <2>1, <2>2, <3>1
  <2>4. ASSUME job'.pc = "count"
        PROVE  both = Selected(source, f)
    <3>1. Cardinality(page) < PageSize
      BY <1>2, <2>4 DEF LastPage
    <3>2. \A p \in Selected(source, f) :
            RankIn(Selected(source, f), p) < off + PageSize
      BY <1>1, <3>1, ShortPageIsLast
    <3>3. off + PageSize \in Nat
      BY <1>1
    <3> HIDE DEF f, off
    <3> QED
      BY <1>1, <3>2, <3>3, WholePage
  <2> QED
    BY <2>1, <2>3, <2>4, CollapseFolds
<1>4. /\ source' = source /\ shape' = shape /\ current' = current
      /\ snaps' = snaps /\ scripts' = scripts
  BY DEF ScanPage
<1>5. job'.pc # "schema"
  BY <1>2
<1>6. ~ job.quiet => current = 0
  BY <1>1 DEF ReadInv, ScanInv
<1> HIDE DEF page, done
<1>7. ScanInv'
  BY <1>2, <1>3, <1>4, <1>5, <1>6 DEF ScanInv, Columns
<1> QED
  BY <1>4, <1>7, ReadFrame

\* Comparing rows with themselves finds nothing.
LEMMA CompareSame ==
    ASSUME NEW rows \in Rows, NEW cols \in SUBSET Column,
           \A id \in DOMAIN rows : DOMAIN rows[id].val = cols,
           NEW d, d = Compare(rows, rows, cols, {})
    PROVE  Arriving(d) = {} /\ d.removed = {}
<1>1. \A id \in DOMAIN rows : rows[id] = HashOf(cols, rows[id])
  <2>1. DOMAIN Recorded(cols, cols, rows) = DOMAIN rows
    BY DEF Recorded
  <2>2. \A id \in DOMAIN rows : Recorded(cols, cols, rows)[id] = HashOf(cols, rows[id])
    BY DEF Recorded
  <2> QED
    BY <2>2, RecordedSame
<1>2. /\ d.removed = {} /\ d.inserts = {}
      /\ d.updates = {}
  BY <1>1 DEF Compare
<1> QED
  BY <1>2 DEF Arriving

LEMMA ReadFinish ==
    ASSUME IInv, ReadInv, Finish
    PROVE  ReadInv'
<1> DEFINE old   == snaps[job.base]
           rows  == job.rows
           cols  == job.cols
           delta == Compare(old.hash, rows, old.columns, cols \ old.columns)
           new   == snaps'[Len(snaps) + 1]
           s     == scripts'[Len(scripts) + 1]
<1>1. /\ job \in Scan /\ job # NoJob /\ source \in Table
      /\ snaps \in Seq(Snapshot) /\ scripts \in Seq(Script)
      /\ current \in 0 .. Len(snaps) /\ job.base \in DOMAIN snaps
      /\ rows \in Rows /\ cols \in SUBSET Column
      /\ \A id \in DOMAIN rows : DOMAIN rows[id].val = cols
  BY DEF Finish, IInv, HistoryInv, TypeOK, NoJob, Scan, JobInv
<1>2. PICK S, W : /\ scripts' = Append(scripts, S) /\ snaps' = Append(snaps, W)
                  /\ S.arriving = Arriving(delta) /\ S.removed = delta.removed
                  /\ S.idle => job.filter = old.filter /\ current = job.base
                  /\ W.columns = cols /\ W.filter = job.filter
                  /\ W.hash = Recorded(old.columns, cols, rows)
  <2>1. PICK count \in {Cardinality(Selected(source, job.filter)), NoCount} :
          /\ scripts' = Append(scripts,
                 [from |-> job.base, filter |-> job.filter, cols |-> job.cols,
                  schema |-> job.schema, rows |-> job.rows,
                  arriving |-> Arriving(delta), removed |-> delta.removed,
                  expected |-> Expected(old, job.rows),
                  idle |-> job.filter = old.filter /\ current = job.base])
          /\ snaps' = Append(snaps,
                 [columns |-> job.cols, filter |-> job.filter,
                  hash |-> Recorded(old.columns, job.cols, job.rows),
                  countStar |-> count,
                  narrow   |-> old.narrow /\ job.filter \subseteq old.filter,
                  unfolded |-> old.unfolded /\ job.collapsed = 0,
                  steady   |-> /\ old.steady
                               /\ count = Cardinality(DOMAIN job.rows) + job.collapsed])
    BY Zenon DEF Finish
  <2> DEFINE S == [from |-> job.base, filter |-> job.filter, cols |-> job.cols,
                  schema |-> job.schema, rows |-> job.rows,
                  arriving |-> Arriving(delta), removed |-> delta.removed,
                  expected |-> Expected(old, job.rows),
                  idle |-> job.filter = old.filter /\ current = job.base]
             W == [columns |-> job.cols, filter |-> job.filter,
                  hash |-> Recorded(old.columns, job.cols, job.rows),
                  countStar |-> count,
                  narrow   |-> old.narrow /\ job.filter \subseteq old.filter,
                  unfolded |-> old.unfolded /\ job.collapsed = 0,
                  steady   |-> /\ old.steady
                               /\ count = Cardinality(DOMAIN job.rows) + job.collapsed]
  <2>2. /\ S.arriving = Arriving(delta) /\ S.removed = delta.removed
        /\ S.idle => job.filter = old.filter /\ current = job.base
        /\ W.columns = cols /\ W.filter = job.filter
        /\ W.hash = Recorded(old.columns, cols, rows)
    <3> HIDE DEF old, delta
    <3> QED
      OBVIOUS
  <2>3. scripts' = Append(scripts, S) /\ snaps' = Append(snaps, W)
    BY <2>1
  <2> HIDE DEF S, W, old, delta
  <2> QED
    BY <2>2, <2>3
<1>3. /\ snaps' = Append(snaps, W) /\ new = W
      /\ \A n \in DOMAIN snaps : snaps'[n] = snaps[n]
      /\ scripts' = Append(scripts, S) /\ s = S
      /\ DOMAIN scripts' = 1 .. Len(scripts) + 1
      /\ \A n \in DOMAIN scripts : scripts'[n] = scripts[n]
      /\ DOMAIN scripts = 1 .. Len(scripts)
  <2> HIDE DEF old, delta
  <2> QED
    BY <1>1, <1>2
<1>4. /\ source' = source /\ shape' = shape /\ job' = NoJob
      /\ current' = IF job.quiet THEN Len(snaps) + 1 ELSE current
  BY DEF Finish
<1>5. ASSUME job.quiet
      PROVE  cols = Columns(shape) /\ rows = Collapse(source, job.filter, cols)
  BY <1>1, <1>5 DEF ReadInv, ScanInv, Finish
<1>6. CurrentInv'
  <2>1. CASE job.quiet
    <3>1. Recorded(old.columns, cols, rows) = rows
      <4> HIDE DEF rows, cols, old
      <4> QED
        BY <1>1, RecordedSame
    <3>2. new.hash = Collapse(source, new.filter, new.columns)
          /\ new.columns = Columns(shape)
      BY <2>1, <1>2, <1>3, <1>5, <3>1
    <3>3. current' = Len(snaps) + 1
      BY <2>1, <1>4
    <3> HIDE DEF new
    <3> QED
      BY <1>4, <3>2, <3>3 DEF CurrentInv, Columns, new
  <2>2. CASE ~ job.quiet
    BY <2>2, <1>1, <1>4 DEF ReadInv, ScanInv, CurrentInv
  <2> QED
    BY <2>1, <2>2
<1>7. ASSUME s.idle
      PROVE  s.arriving = {} /\ s.removed = {}
  <2>1. job.filter = old.filter /\ current = job.base
    BY <1>2, <1>3, <1>7
  <2>2. current # 0
    BY <1>1, <2>1
  <2>3. job.quiet
    BY <1>1, <2>2 DEF ReadInv, ScanInv
  <2>4. old.columns = cols /\ old.hash = rows
    BY <1>5, <2>1, <2>2, <2>3 DEF ReadInv, CurrentInv
  <2>5. delta = Compare(rows, rows, cols, {})
    BY <2>4
  <2>6. Arriving(delta) = {} /\ delta.removed = {}
    <3> HIDE DEF rows, cols, delta
    <3> QED
      BY <1>1, <2>5, CompareSame
  <2> QED
    BY <1>2, <1>3, <2>6
<1>8. SelfCompareEmpty'
  <2> SUFFICES ASSUME NEW n \in DOMAIN scripts', scripts'[n].idle
               PROVE  scripts'[n].arriving = {} /\ scripts'[n].removed = {}
    BY DEF SelfCompareEmpty
  <2>1. CASE n \in DOMAIN scripts
    BY <2>1, <1>3 DEF ReadInv, SelfCompareEmpty
  <2>2. CASE n = Len(scripts) + 1
    BY <2>2, <1>7
  <2>3. Len(scripts) \in Nat
    BY <1>1
  <2> QED
    BY <1>3, <2>1, <2>2, <2>3
<1>9. ScanInv'
  BY <1>4 DEF ScanInv
<1> QED
  BY <1>6, <1>8, <1>9 DEF ReadInv

LEMMA ReadNext ==
    ASSUME IInv, ReadInv, [Next]_vars
    PROVE  ReadInv'
<1>1. CASE \/ \E pk \in PK, r \in Row : PutRow(pk, r)
           \/ \E pk \in PK : DropRow(pk)
           \/ \E c \in Column, d \in Defaults : AddColumn(c, d)
           \/ \E c \in Column : DropColumn(c)
  BY <1>1, ReadTouch DEF PutRow, DropRow, AddColumn, DropColumn
<1>2. CASE \E b \in DOMAIN snaps, f \in Filters : StartCompare(b, f)
  BY <1>2, ReadStart
<1>3. CASE ReadSchema
  BY <1>3, ReadSchemaStep
<1>4. CASE Abandon
  BY <1>4, ReadAbandon
<1>5. CASE ScanPage
  BY <1>5, ReadPage
<1>6. CASE Finish
  BY <1>6, ReadFinish
<1>7. CASE \/ \E n \in DOMAIN scripts : RunScripts(n)
           \/ UNCHANGED vars
  <2>1. UNCHANGED <<source, shape, snaps, scripts, current>> /\ job' = job
    BY <1>7 DEF RunScripts, vars
  <2>2. ScanInv'
    BY <2>1 DEF ReadInv, ScanInv, Columns
  <2> QED
    BY <2>1, <2>2, ReadFrame
<1> QED
  BY <1>1, <1>2, <1>3, <1>4, <1>5, <1>6, <1>7 DEF Next

\* Undisturbed reads fold the pages exactly, the current snapshot records all of
\* the source, and an idle script is empty: invariant, given IInv.
THEOREM ReadsInductive == Spec => []ReadInv
<1>1. ReadInv /\ IInv /\ [Next]_vars => ReadInv'
  BY ReadNext
<1> QED
  BY <1>1, ReadInit, RoundsInductive, PTL DEF Spec

\* A scan of a source that does not change meanwhile returns each identity
\* once, the first version of it, for any page size and number of rows: paging
\* by OFFSET skips and repeats none.
THEOREM ScansAreExact == Spec => []ScanExact
<1>1. ReadInv => ScanExact
  BY DEF ReadInv, ScanInv, ScanExact, NoJob
<1> QED
  BY <1>1, ReadsInductive, PTL

\* A snapshot compared with the source it was taken of, under its own filter,
\* gives no statement, also when the run that took it met new columns.
THEOREM SelfCompareIsEmpty == Spec => []SelfCompareEmpty
<1>1. ReadInv => SelfCompareEmpty
  BY DEF ReadInv
<1> QED
  BY <1>1, ReadsInductive, PTL

\* Self-healing: once the scripts of an undisturbed comparison have run, the
\* target holds the source's rows and, if no filter was widened, no others,
\* whatever earlier scans tore, if columns are only added with defaults that
\* read as empty.
THEOREM RoundsHeal ==
    ASSUME Defaults \subseteq Blank
    PROVE  Spec => []Healed
<1>1. ASSUME IInv, ReadInv, at = current
      PROVE  Healed
  <2> DEFINE s == snaps[at]
  <2>1. at \in DOMAIN snaps /\ snaps \in Seq(Snapshot)
    BY <1>1 DEF IInv, HistoryInv, TypeOK
  <2>2. s.hash = Collapse(source, s.filter, s.columns)
    BY <1>1, <2>1 DEF ReadInv, CurrentInv
  <2>3. TargetHolds /\ NothingExtra
    BY <1>1 DEF IInv, HoldsInv, QuietDefaults
  <2>4. /\ \A id \in DOMAIN s.hash :
             /\ <<id, s.hash[id].ver>> \in DOMAIN target
             /\ \A c \in s.columns : Agree(c, target[<<id, s.hash[id].ver>>][c],
                                           s.hash[id].val[c])
        /\ s.narrow => IdsOf(Selected(target, s.filter)) \subseteq DOMAIN s.hash
    BY <2>3, Zenon DEF TargetHolds, NothingExtra
  <2> HIDE DEF s
  <2> QED
    BY <2>2, <2>4, Zenon DEF Healed, s
<1>2. IInv /\ ReadInv => Healed
  BY <1>1 DEF Healed
<1> QED
  BY <1>2, RoundsInductive, ReadsInductive, PTL
-----------------------------------------------------------------------------
(* What 00-precheck.sql counts.                                            *)

\* Any row with the base columns of a row read is under the filter.
Kept(rows, filter) ==
    \A id \in DOMAIN rows : \A r \in Row :
        (\A c \in BaseColumns : r[c] = rows[id].val[c]) => r \in filter

\* What was read is under the filter it was read with, and a COUNT(*) that
\* agreed with the rows, none of them folded, counts the identities.
KeptInv ==
    /\ job # NoJob => Kept(job.rows, job.filter)
    /\ \A n \in DOMAIN snaps :
         /\ Kept(snaps[n].hash, snaps[n].filter)
         /\ snaps[n].unfolded /\ snaps[n].steady =>
              snaps[n].countStar = Cardinality(DOMAIN snaps[n].hash)

\* The precheck expects what the baseline counted; folding is not forgotten.
ExpectedInv ==
    \A n \in DOMAIN scripts :
        /\ scripts[n].expected
             = Expected(snaps[scripts[n].from], scripts[n].rows)
        /\ snaps[n + 1].unfolded => snaps[scripts[n].from].unfolded

\* The target has the recorded rows, up to the columns that came later ...
BaseHolds ==
    LET s == snaps[at]
    IN  \A id \in DOMAIN s.hash :
          /\ <<id, s.hash[id].ver>> \in DOMAIN target
          /\ \A c \in BaseColumns :
               target[<<id, s.hash[id].ver>>][c] = s.hash[id].val[c]

\* ... and one of each identity, unless one was folded or the filter widened.
OneEach ==
    LET s == snaps[at]
    IN  s.narrow /\ s.unfolded =>
          \A p, q \in Selected(target, s.filter) : p[1] = q[1] => p = q

CountsInv == KeptInv /\ ExpectedInv /\ BaseHolds /\ OneEach

\* A row of a table under a filter speaks for all that share its base columns.
LEMMA KeptRow ==
    ASSUME NEW t \in Table, NEW f \in Filters, NEW pk \in Selected(t, f),
           NEW r \in Row, \A c \in BaseColumns : r[c] = t[pk][c]
    PROVE  r \in f
<1>1. t[pk] \in Row /\ t[pk] \in f
  BY TableFacts DEF Selected
<1> QED
  BY <1>1, RowAssumption

LEMMA KeptFolded ==
    ASSUME NEW t \in Table, NEW f \in Filters, NEW P \in SUBSET Selected(t, f),
           NEW cols, BaseColumns \subseteq cols
    PROVE  Kept(Folded(t, P, cols), f)
<1>1. P \subseteq PK
  BY TableFacts DEF Selected
<1> SUFFICES ASSUME NEW id \in IdsOf(P), NEW r \in Row,
                    \A c \in BaseColumns : r[c] = Folded(t, P, cols)[id].val[c]
             PROVE  r \in f
  BY DEF Kept, Folded
<1>2. FirstOf(P, id) \in Selected(t, f)
  BY <1>1, FirstOfRow
<1>3. Folded(t, P, cols)[id] = Scanned(t, FirstOf(P, id), cols)
  BY DEF Folded
<1>4. \A c \in BaseColumns : r[c] = t[FirstOf(P, id)][c]
  BY <1>3 DEF Scanned
<1> QED
  BY <1>2, <1>4, KeptRow

LEMMA CountsInit == Init => CountsInv
<1> SUFFICES ASSUME Init PROVE CountsInv
  OBVIOUS
<1>1. PICK f \in Filters :
        /\ snaps[1].columns = BaseColumns /\ snaps[1].filter = f
        /\ snaps[1].countStar = Cardinality(Selected(source, f))
        /\ snaps[1].unfolded = (Cardinality(Selected(source, f))
             = Cardinality(DOMAIN Collapse(source, f, BaseColumns)))
        /\ DOMAIN snaps = {1}
  <2>1. PICK f \in Filters :
          snaps = << [columns |-> BaseColumns, filter |-> f,
                      hash |-> Recorded(BaseColumns, BaseColumns,
                                        Collapse(source, f, BaseColumns)),
                      countStar |-> Cardinality(Selected(source, f)), narrow |-> TRUE,
                      unfolded |-> Cardinality(Selected(source, f))
                        = Cardinality(DOMAIN Collapse(source, f, BaseColumns)),
                      steady |-> TRUE] >>
    BY Zenon DEF Init
  <2> QED
    BY <2>1
<1> DEFINE S == Selected(source, f)
           rows == Collapse(source, f, BaseColumns)
<1>2. source \in Table /\ BaseColumns \in SUBSET Column /\ target = source /\ at = 1
      /\ job = NoJob /\ scripts = <<>> /\ current = 1
  BY SyncAssumption, RowAssumption DEF Init
<1>3. snaps[1].hash = rows
  BY <1>1, <1>2, ReadInit DEF ReadInv, CurrentInv
<1>4. S \in SUBSET PK
  BY <1>2, TableFacts DEF Selected
<1>5. /\ DOMAIN rows = IdsOf(S)
      /\ \A id \in IdsOf(S) : /\ FirstOf(S, id) \in S /\ FirstOf(S, id)[1] = id
                              /\ rows[id] = Scanned(source, FirstOf(S, id), BaseColumns)
  BY <1>2, CollapseRows
<1>6. Kept(rows, f)
  BY <1>2, CollapseFolds, KeptFolded
<1>7. KeptInv
  <2> HIDE DEF rows, S
  <2> QED
    BY <1>1, <1>2, <1>3, <1>6 DEF KeptInv, rows, S
<1>8. ExpectedInv
  BY <1>2 DEF ExpectedInv
<1>9. BaseHolds
  <2> SUFFICES ASSUME NEW id \in IdsOf(S)
               PROVE  /\ <<id, rows[id].ver>> \in DOMAIN source
                      /\ \A c \in BaseColumns :
                           source[<<id, rows[id].ver>>][c] = rows[id].val[c]
    BY <1>2, <1>3, <1>5 DEF BaseHolds
  <2>1. FirstOf(S, id) \in PK /\ FirstOf(S, id) \in DOMAIN source
    BY <1>4, <1>5 DEF Selected
  <2>2. <<id, rows[id].ver>> = FirstOf(S, id)
    BY <2>1, <1>5 DEF Scanned, PK
  <2> QED
    BY <2>1, <2>2, <1>5 DEF Scanned
<1>10. OneEach
  <2>1. snaps[1].unfolded => \A p, q \in S : p[1] = q[1] => p = q
    <3> HIDE DEF S, rows
    <3>1. snaps[1].unfolded => Cardinality(IdsOf(S)) = Cardinality(S)
      BY <1>1, <1>5 DEF S, rows
    <3> QED
      BY <1>4, <3>1, OnePerId
  <2> QED
    BY <2>1, <1>1, <1>2 DEF OneEach
<1> QED
  BY <1>7, <1>8, <1>9, <1>10 DEF CountsInv

\* Steps that leave the snapshots, the scripts and the target alone.
LEMMA CountsFrame ==
    ASSUME CountsInv, UNCHANGED resultVars,
           job' # NoJob => Kept(job'.rows, job'.filter)
    PROVE  CountsInv'
<1>1. /\ target' = target /\ snaps' = snaps /\ scripts' = scripts /\ at' = at
  BY DEF resultVars
<1>2. KeptInv'
  BY <1>1, Zenon DEF CountsInv, KeptInv
<1>3. ExpectedInv'
  BY <1>1, Zenon DEF CountsInv, ExpectedInv
<1>4. BaseHolds' /\ OneEach'
  BY <1>1, Zenon DEF CountsInv, BaseHolds, OneEach
<1> QED
  BY <1>2, <1>3, <1>4 DEF CountsInv

LEMMA CountsTouch ==
    ASSUME IInv, CountsInv, Touch
    PROVE  CountsInv'
<1>1. ASSUME job' # NoJob
      PROVE  Kept(job'.rows, job'.filter)
  <2>1. job # NoJob
    BY <1>1 DEF Touch, NoJob
  <2>2. job \in Scan /\ job' = [job EXCEPT !.quiet = FALSE]
    BY <2>1 DEF Touch, IInv, HistoryInv, TypeOK, Scan
  <2>3. job'.rows = job.rows /\ job'.filter = job.filter
    BY <2>2 DEF Scan
  <2> QED
    BY <2>1, <2>3 DEF CountsInv, KeptInv
<1> QED
  BY <1>1, CountsFrame DEF Touch, resultVars

LEMMA CountsJob ==
    ASSUME IInv, CountsInv,
           \/ \E b \in DOMAIN snaps, f \in Filters : StartCompare(b, f)
           \/ ReadSchema
           \/ Abandon
    PROVE  CountsInv'
<1>1. CASE \E b \in DOMAIN snaps, f \in Filters : StartCompare(b, f)
  BY <1>1, CountsFrame DEF StartCompare, resultVars, Kept
<1>2. CASE ReadSchema
  <2>1. job \in Scan /\ job # NoJob
    BY <1>2 DEF ReadSchema, IInv, HistoryInv, TypeOK, NoJob
  <2>2. job'.rows = job.rows /\ job'.filter = job.filter
    BY <2>1, <1>2 DEF ReadSchema, Scan
  <2> QED
    BY <2>1, <2>2, <1>2, CountsFrame DEF ReadSchema, resultVars, CountsInv, KeptInv
<1>3. CASE Abandon
  BY <1>3, CountsFrame DEF Abandon, resultVars
<1> QED
  BY <1>1, <1>2, <1>3

\* A page adds rows that were under the filter when it was read.
LEMMA CountsPage ==
    ASSUME IInv, CountsInv, ScanPage
    PROVE  CountsInv'
<1> DEFINE f    == job.filter
           cols == job.cols
           live == job.rows
           page == Page(source, f, job.offset, PageSize)
           A    == Absorb(live, source, page, cols)
<1>1. /\ job \in Scan /\ job # NoJob /\ source \in Table /\ f \in Filters
      /\ snaps[job.base].columns \subseteq cols
      /\ BaseColumns \subseteq snaps[job.base].columns
  BY DEF ScanPage, IInv, HistoryInv, TypeOK, NoJob, Scan, JobInv, SnapInv
<1>2. job'.rows = A /\ job'.filter = f
  BY <1>1 DEF ScanPage, Scan
<1>3. page \in SUBSET Selected(source, f)
  BY DEF Page
<1>4. Kept(live, f) /\ Kept(Folded(source, page, cols), f)
  <2>1. Kept(live, f)
    BY <1>1 DEF CountsInv, KeptInv
  <2>2. BaseColumns \subseteq cols
    BY <1>1
  <2> HIDE DEF page, cols, f
  <2> QED
    BY <1>1, <1>3, <2>1, <2>2, KeptFolded
<1>5. \A id \in DOMAIN A :
        \/ id \in DOMAIN live /\ A[id] = live[id]
        \/ /\ id \in DOMAIN Folded(source, page, cols)
           /\ A[id] = Folded(source, page, cols)[id]
  BY DEF Absorb, Folded
<1>6. Kept(A, f)
  <2> HIDE DEF A, live, page, cols, f
  <2> QED
    BY <1>4, <1>5 DEF Kept
<1>7. UNCHANGED resultVars
  BY DEF ScanPage, resultVars
<1> HIDE DEF A, f
<1> QED
  BY <1>2, <1>6, <1>7, CountsFrame

LEMMA CountsFinish ==
    ASSUME IInv, CountsInv, Finish
    PROVE  CountsInv'
<1> DEFINE old  == snaps[job.base]
           rows == job.rows
           cols == job.cols
           Ok(n) == /\ Kept(snaps'[n].hash, snaps'[n].filter)
                    /\ snaps'[n].unfolded /\ snaps'[n].steady =>
                         snaps'[n].countStar = Cardinality(DOMAIN snaps'[n].hash)
           Fits(n) == /\ scripts'[n].expected
                           = Expected(snaps'[scripts'[n].from], scripts'[n].rows)
                      /\ snaps'[n + 1].unfolded => snaps'[scripts'[n].from].unfolded
<1>1. /\ job \in Scan /\ job # NoJob
      /\ snaps \in Seq(Snapshot) /\ scripts \in Seq(Script)
      /\ Len(snaps) = Len(scripts) + 1
      /\ at \in DOMAIN snaps /\ job.base \in DOMAIN snaps
      /\ rows \in Rows /\ cols \in SUBSET Column
      /\ \A id \in DOMAIN rows : DOMAIN rows[id].val = cols
  BY DEF Finish, IInv, HistoryInv, TypeOK, NoJob, Scan, JobInv
<1>2. Recorded(old.columns, cols, rows) = rows
  <2> HIDE DEF old, rows, cols
  <2> QED
    BY <1>1, RecordedSame
<1>3. IsFiniteSet(DOMAIN rows) /\ Cardinality(DOMAIN rows) \in Nat
  <2> HIDE DEF rows
  <2>1. DOMAIN rows \in SUBSET Id
    BY <1>1, RowsFacts
  <2> QED
    BY <2>1, RowAssumption, FS_Subset, FS_CardinalityType
<1>4. PICK S, W : /\ scripts' = Append(scripts, S) /\ snaps' = Append(snaps, W)
                  /\ S.from = job.base /\ S.rows = rows
                  /\ S.expected = Expected(old, rows)
                  /\ W.filter = job.filter /\ W.hash = rows
                  /\ W.unfolded => old.unfolded /\ job.collapsed = 0
                  /\ W.steady => W.countStar = Cardinality(DOMAIN rows) + job.collapsed
  <2> DEFINE delta == Compare(old.hash, job.rows, old.columns,
                              job.cols \ old.columns)
             S == [from |-> job.base, filter |-> job.filter, cols |-> job.cols,
                   schema |-> job.schema, rows |-> job.rows,
                   arriving |-> Arriving(delta), removed |-> delta.removed,
                   expected |-> Expected(old, job.rows),
                   idle |-> job.filter = old.filter /\ current = job.base]
             W(count) ==
                  [columns |-> job.cols, filter |-> job.filter,
                   hash |-> Recorded(old.columns, job.cols, job.rows),
                   countStar |-> count,
                   narrow   |-> old.narrow /\ job.filter \subseteq old.filter,
                   unfolded |-> old.unfolded /\ job.collapsed = 0,
                   steady   |-> /\ old.steady
                                /\ count = Cardinality(DOMAIN job.rows) + job.collapsed]
  <2>1. PICK count : scripts' = Append(scripts, S) /\ snaps' = Append(snaps, W(count))
    BY Zenon DEF Finish
  <2>2. S.from = job.base /\ S.rows = rows /\ S.expected = Expected(old, rows)
    <3> HIDE DEF old, delta
    <3> QED
      OBVIOUS
  <2>3. /\ W(count).filter = job.filter /\ W(count).hash = rows
        /\ W(count).unfolded => old.unfolded /\ job.collapsed = 0
        /\ W(count).steady =>
             W(count).countStar = Cardinality(DOMAIN rows) + job.collapsed
    <3> HIDE DEF old
    <3> QED
      BY <1>2
  <2> HIDE DEF S, W, old
  <2> QED
    BY <2>1, <2>2, <2>3
<1> HIDE DEF old
<1>5. /\ snaps'[Len(snaps) + 1] = W
      /\ \A n \in DOMAIN snaps : snaps'[n] = snaps[n]
      /\ DOMAIN snaps = 1 .. Len(snaps) /\ DOMAIN snaps' = 1 .. Len(snaps) + 1
      /\ scripts'[Len(snaps)] = S
      /\ \A n \in DOMAIN scripts : scripts'[n] = scripts[n]
      /\ DOMAIN scripts = 1 .. Len(scripts) /\ DOMAIN scripts' = 1 .. Len(snaps)
      /\ Len(scripts) \in Nat
  BY <1>1, <1>4
<1>6. job' = NoJob /\ target' = target /\ at' = at
  BY DEF Finish
<1>7. KeptInv'
  <2>1. Ok(Len(snaps) + 1)
    <3>1. Kept(rows, job.filter)
      BY <1>1 DEF CountsInv, KeptInv
    <3>2. W.unfolded /\ W.steady => W.countStar = Cardinality(DOMAIN rows)
      BY <1>3, <1>4
    <3> HIDE DEF rows
    <3> QED
      BY <1>4, <1>5, <3>1, <3>2
  <2>2. \A n \in DOMAIN snaps : Ok(n)
    BY <1>5 DEF CountsInv, KeptInv
  <2>3. \A n \in DOMAIN snaps' : n \in DOMAIN snaps \/ n = Len(snaps) + 1
    BY <1>5, <1>1
  <2>4. \A n \in DOMAIN snaps' : Ok(n)
    <3> HIDE DEF Ok
    <3> QED
      BY <2>1, <2>2, <2>3
  <2> QED
    BY <1>6, <2>4, Zenon DEF KeptInv
<1>8. ExpectedInv'
  <2>1. Fits(Len(snaps))
    <3>1. snaps'[job.base] = old
      BY <1>1, <1>5 DEF old
    <3> HIDE DEF rows
    <3> QED
      BY <1>4, <1>5, <3>1
  <2>2. ASSUME NEW n \in DOMAIN scripts
        PROVE  Fits(n)
    <3>1. /\ scripts[n].expected = Expected(snaps[scripts[n].from], scripts[n].rows)
          /\ snaps[n + 1].unfolded => snaps[scripts[n].from].unfolded
          /\ scripts[n].from \in 1 .. n
      BY DEF CountsInv, ExpectedInv, IInv, HistoryInv, ScriptInv
    <3>2. n + 1 \in DOMAIN snaps /\ scripts[n].from \in DOMAIN snaps
      BY <1>1, <1>5, <3>1
    <3>3. /\ scripts'[n] = scripts[n] /\ snaps'[n + 1] = snaps[n + 1]
          /\ snaps'[scripts[n].from] = snaps[scripts[n].from]
      BY <1>5, <3>2
    <3> QED
      BY <3>1, <3>3
  <2>3. \A n \in DOMAIN scripts' : n \in DOMAIN scripts \/ n = Len(snaps)
    BY <1>1, <1>5
  <2>4. \A n \in DOMAIN scripts' : Fits(n)
    <3> HIDE DEF Fits
    <3> QED
      BY <2>1, <2>2, <2>3
  <2> QED
    BY <2>4, Zenon DEF ExpectedInv
<1>9. BaseHolds' /\ OneEach'
  <2>1. snaps'[at'] = snaps[at] /\ target' = target
    BY <1>1, <1>5, <1>6
  <2>2. BaseHolds'
    BY <2>1, Zenon DEF CountsInv, BaseHolds
  <2>3. OneEach'
    BY <2>1, Zenon DEF CountsInv, OneEach
  <2> QED
    BY <2>2, <2>3
<1> QED
  BY <1>7, <1>8, <1>9 DEF CountsInv

\* 03 leaves one row of each identity it writes and touches no other, so no
\* identity is doubled that was not before.
LEMMA CountsRun ==
    ASSUME IInv, CountsInv, NEW n \in DOMAIN scripts, RunScripts(n)
    PROVE  CountsInv'
<1> DEFINE s    == scripts[n]
           old  == snaps[at]
           new  == snaps[n + 1]
           w    == Widened(s)
           F    == Fill(target, targetShape, w)
           fill == FillOf(w)
           R    == Remove(Overwrite(F, s.arriving, s.rows, s.cols, fill), s.removed)
<1>1. /\ s.from = at /\ target' = R /\ at' = n + 1
      /\ snaps' = snaps /\ scripts' = scripts /\ job' = job
  BY DEF RunScripts
<1>2. /\ TypeOK /\ SnapInv /\ ScriptInv /\ TargetInv
      /\ snaps \in Seq(Snapshot) /\ scripts \in Seq(Script)
      /\ at \in DOMAIN snaps /\ target \in Table /\ targetShape \in Shape
      /\ Len(snaps) = Len(scripts) + 1
  BY DEF IInv, HistoryInv, TypeOK
<1>3. /\ s \in Script /\ old \in Snapshot /\ n + 1 \in DOMAIN snaps
      /\ Faithful(s, old, new)
  BY <1>1, <1>2 DEF ScriptInv
<1>4. PICK d : /\ d = Compare(old.hash, s.rows, old.columns, s.cols \ old.columns)
               /\ s.arriving = Arriving(d)
               /\ s.removed = d.removed
  BY <1>3 DEF Faithful
<1>5. /\ s.rows \in Rows /\ s.cols \in SUBSET Column /\ s.filter \in Filters
      /\ old.filter \in Filters /\ new.filter = s.filter
      /\ new.hash = [id \in DOMAIN s.rows |-> HashOf(s.cols, s.rows[id])]
      /\ (new.narrow => old.narrow /\ s.filter \subseteq old.filter)
      /\ (new.unfolded => old.unfolded)
      /\ BaseColumns \subseteq old.columns /\ old.columns \subseteq s.cols
      /\ old.columns \subseteq Columns(targetShape)
      /\ \A id \in DOMAIN s.rows : DOMAIN s.rows[id].val = s.cols
  BY <1>1, <1>2, <1>3
  DEF Faithful, Script, Snapshot, SnapInv, TargetInv, CountsInv, ExpectedInv
<1>6. w \in Shape /\ fill \in Row
  BY <1>2, <1>3, WidenedShape
<1>7. /\ s.arriving \in SUBSET DOMAIN s.rows
      /\ s.removed = DOMAIN old.hash \ DOMAIN s.rows
  BY <1>4 DEF Compare, Arriving
<1>8. /\ F \in Table /\ DOMAIN F = DOMAIN target
      /\ \A pk \in DOMAIN target : \A c \in BaseColumns : F[pk][c] = target[pk][c]
  <2>1. \A c \in BaseColumns : c \in Column /\ targetShape[c] # NoColumn
    BY <1>5 DEF Columns
  <2>2. /\ F \in Table /\ DOMAIN F = DOMAIN target
        /\ \A pk \in DOMAIN target : \A c \in Column :
             F[pk][c] = IF targetShape[c] = NoColumn /\ w[c] # NoColumn
                        THEN w[c] ELSE target[pk][c]
    <3> HIDE DEF w
    <3> QED
      BY <1>2, <1>6, FillTable
  <2> HIDE DEF F, w
  <2> QED
    BY <2>1, <2>2
<1>9. /\ R \in Table
      /\ RanOn(R, F, s.rows, s.arriving, s.removed, s.cols, fill)
      /\ \A pk \in DOMAIN R :
           pk[1] \in s.arriving => pk = <<pk[1], s.rows[pk[1]].ver>>
  <2> DEFINE rows == s.rows
             cols == s.cols
             arriving == s.arriving
             removed == s.removed
  <2>1. /\ rows \in Rows /\ arriving \in SUBSET DOMAIN rows
        /\ \A id \in DOMAIN rows : DOMAIN rows[id].val = cols
        /\ R = Remove(Overwrite(F, arriving, rows, cols, fill), removed)
        /\ F \in Table /\ fill \in Row
    BY <1>5, <1>6, <1>7, <1>8
  <2> HIDE DEF rows, cols, arriving, removed, R, F, fill
  <2> QED
    BY <2>1, AfterScripts, WrittenOnce DEF rows, cols, arriving, removed
<1> HIDE DEF s, old, new, w, F, fill, R
<1>10. KeptInv' /\ ExpectedInv'
  BY <1>1, Zenon DEF CountsInv, KeptInv, ExpectedInv
<1>11. snaps'[at'] = new
  BY <1>1 DEF new
<1>12. BaseHolds'
  <2> SUFFICES ASSUME NEW id \in DOMAIN s.rows
               PROVE  /\ <<id, s.rows[id].ver>> \in DOMAIN R
                      /\ \A c \in BaseColumns :
                           R[<<id, s.rows[id].ver>>][c] = s.rows[id].val[c]
    BY <1>1, <1>5, <1>11 DEF BaseHolds, HashOf
  <2> DEFINE pk == <<id, s.rows[id].ver>>
  <2>1. CASE id \in s.arriving
    <3>1. pk \in DOMAIN R /\ pk[1] = id
      BY <2>1, <1>7, <1>9 DEF RanOn
    <3> QED
      BY <2>1, <3>1, <1>5, <1>9 DEF RanOn
  <2>2. CASE id \notin s.arriving
    <3>1. /\ id \in DOMAIN old.hash
          /\ old.hash[id] = HashOf(old.columns, s.rows[id])
      BY <2>2, <1>4, UnchangedRow
    <3>2. /\ old.hash[id].ver = s.rows[id].ver
          /\ \A c \in BaseColumns : old.hash[id].val[c] = s.rows[id].val[c]
      BY <3>1, <1>5 DEF HashOf
    <3>3. /\ pk \in DOMAIN target
          /\ \A c \in BaseColumns : target[pk][c] = s.rows[id].val[c]
      BY <3>1, <3>2 DEF CountsInv, BaseHolds, old
    <3>4. pk \in DOMAIN R /\ R[pk] = F[pk]
      BY <2>2, <3>3, <1>7, <1>8, <1>9 DEF RanOn
    <3> QED
      BY <3>3, <3>4, <1>8
  <2> QED
    BY <2>1, <2>2
<1>13. OneEach'
  <2> SUFFICES ASSUME new.narrow, new.unfolded,
                      NEW p \in Selected(R, s.filter), NEW q \in Selected(R, s.filter),
                      p[1] = q[1]
               PROVE  p = q
    BY <1>1, <1>5, <1>11 DEF OneEach
  <2>1. p \in DOMAIN R /\ q \in DOMAIN R /\ R[p] \in s.filter /\ R[q] \in s.filter
    BY DEF Selected
  <2>2. CASE p[1] \in s.arriving
    <3>1. /\ p = <<p[1], s.rows[p[1]].ver>>
          /\ q = <<q[1], s.rows[q[1]].ver>>
      BY <2>1, <2>2, <1>9
    <3> QED
      BY <3>1
  <2>3. CASE p[1] \notin s.arriving
    <3>1. ASSUME NEW x \in {p, q}
          PROVE  x \in Selected(target, old.filter)
      <4>1. /\ x \in DOMAIN target /\ R[x] = F[x] /\ R[x] \in s.filter
        BY <2>1, <2>3, <1>8, <1>9 DEF RanOn
      <4>2. F[x] \in Row /\ target[x] \in Row
        BY <4>1, <1>2, <1>8, TableFacts
      <4>3. \A c \in BaseColumns : F[x][c] = target[x][c]
        BY <4>1, <1>8
      <4>4. F[x] \in old.filter
        BY <4>1, <1>5
      <4>5. target[x] \in old.filter
        BY <4>2, <4>3, <4>4, <1>5, RowAssumption
      <4> QED
        BY <4>1, <4>5 DEF Selected
    <3> QED
      BY <3>1, <1>5 DEF CountsInv, OneEach, old
  <2> QED
    BY <2>2, <2>3
<1> QED
  BY <1>10, <1>12, <1>13 DEF CountsInv

LEMMA CountsNext ==
    ASSUME IInv, CountsInv, [Next]_vars
    PROVE  CountsInv'
<1>1. CASE \/ \E pk \in PK, r \in Row : PutRow(pk, r)
           \/ \E pk \in PK : DropRow(pk)
           \/ \E c \in Column, d \in Defaults : AddColumn(c, d)
           \/ \E c \in Column : DropColumn(c)
  BY <1>1, CountsTouch DEF PutRow, DropRow, AddColumn, DropColumn
<1>2. CASE \/ \E b \in DOMAIN snaps, f \in Filters : StartCompare(b, f)
           \/ ReadSchema
           \/ Abandon
  BY <1>2, CountsJob
<1>3. CASE ScanPage
  BY <1>3, CountsPage
<1>4. CASE Finish
  BY <1>4, CountsFinish
<1>5. CASE \E n \in DOMAIN scripts : RunScripts(n)
  BY <1>5, CountsRun
<1>6. CASE UNCHANGED vars
  <2>1. UNCHANGED resultVars /\ job' = job
    BY <1>6 DEF vars, resultVars
  <2> QED
    BY <2>1, CountsFrame DEF CountsInv, KeptInv
<1> QED
  BY <1>1, <1>2, <1>3, <1>4, <1>5, <1>6 DEF Next

\* What was read stays under its filter, what was counted is what is expected,
\* and the target has one row of each identity: invariant, given IInv.
THEOREM CountsInductive == Spec => []CountsInv
<1>1. CountsInv /\ IInv /\ [Next]_vars => CountsInv'
  BY CountsNext
<1> QED
  BY <1>1, CountsInit, RoundsInductive, PTL DEF Spec

\* On the target its baseline describes, the precheck of a comparison under
\* the same filter says ok, if on the way there no filter was widened, no
\* identity folded, and every COUNT(*) agreed with the rows read: the rows
\* counted are then one for each identity of the baseline.  No assumption on
\* the defaults of added columns is needed.
THEOREM PrecheckSaysOk == Spec => []PrecheckAccepts
<1>1. ASSUME IInv, CountsInv, NEW n \in DOMAIN scripts, scripts[n].from = at,
             scripts[n].filter = snaps[at].filter,
             snaps[at].narrow, snaps[at].unfolded, snaps[at].steady
      PROVE  Verdict(scripts[n])
  <2> DEFINE b == snaps[at]
             S == Selected(target, b.filter)
             H == DOMAIN b.hash
  <2>1. at \in DOMAIN snaps /\ snaps \in Seq(Snapshot) /\ target \in Table
    BY <1>1 DEF IInv, HistoryInv, TypeOK
  <2>2. b \in Snapshot
    BY <2>1
  <2>3. scripts[n].expected = Cardinality(H)
    <3>1. b.countStar = Cardinality(H)
      BY <1>1, <2>1 DEF CountsInv, KeptInv
    <3>2. scripts[n].expected = Expected(b, scripts[n].rows)
      BY <1>1 DEF CountsInv, ExpectedInv
    <3> QED
      BY <3>1, <3>2 DEF Expected
  <2>4. S \in SUBSET PK
    BY <2>1, TableFacts DEF Selected
  <2>5. IdsOf(S) \subseteq H
    BY <1>1 DEF IInv, NothingExtra
  <2>6. H \subseteq IdsOf(S)
    <3> SUFFICES ASSUME NEW id \in H PROVE id \in IdsOf(S)
      OBVIOUS
    <3> DEFINE pk == <<id, b.hash[id].ver>>
    <3>1. /\ pk \in DOMAIN target
          /\ \A c \in BaseColumns : target[pk][c] = b.hash[id].val[c]
      BY <1>1 DEF CountsInv, BaseHolds
    <3>2. target[pk] \in Row
      BY <2>1, <3>1, TableFacts
    <3>3. target[pk] \in b.filter
      BY <1>1, <2>1, <3>1, <3>2 DEF CountsInv, KeptInv, Kept
    <3>4. pk \in S /\ pk[1] = id
      BY <3>1, <3>3 DEF Selected
    <3> HIDE DEF pk, S
    <3> QED
      BY <3>4 DEF IdsOf
  <2>7. Cardinality(IdsOf(S)) = Cardinality(S)
    <3>1. \A p, q \in S : p[1] = q[1] => p = q
      BY <1>1 DEF CountsInv, OneEach
    <3> HIDE DEF S
    <3> QED
      BY <2>4, <3>1, OnePerId
  <2>8. IdsOf(S) = H
    BY <2>5, <2>6
  <2> HIDE DEF b, H
  <2> QED
    BY <1>1, <2>3, <2>7, <2>8 DEF Verdict, b
<1>2. IInv /\ CountsInv => PrecheckAccepts
  BY <1>1 DEF PrecheckAccepts
<1> QED
  BY <1>2, RoundsInductive, CountsInductive, PTL

=============================================================================
