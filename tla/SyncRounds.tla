---------------------------- MODULE SyncRounds ----------------------------
(***************************************************************************)
(* Rounds of comparison, over one table: the source changes, also between  *)
(* two pages of a scan; each comparison reads it, writes scripts and       *)
(* records a snapshot; the scripts are run on a target that holds what an  *)
(* earlier snapshot recorded (backend/src/diff.rs, collect_and_compare).   *)
(*                                                                         *)
(* Neither side is locked and no transaction spans two pages.  What must   *)
(* hold is that the target keeps up with the snapshots, whatever the scans *)
(* saw, so that the next round repairs what this one missed.               *)
(***************************************************************************)
EXTENDS RowDiff, Sequences

CONSTANTS
    InitTables,    \* tables the source may hold at the beginning
    Defaults,      \* defaults a column may be added with
    NoColumn,      \* the default of a column the table does not have
    NoCount,       \* COUNT(*) failed
    PageSize,      \* cli::PAGE_SIZE
    MaxSnaps,      \* bound: snapshots recorded
    MaxWrites      \* bound: changes of the source

ASSUME SyncAssumption ==
    /\ Defaults \subseteq Value
    /\ Null \in Defaults
    /\ NoColumn \notin Value
    /\ NoCount \notin Nat
    /\ PageSize \in Nat \ {0}
    /\ InitTables \subseteq Table
    /\ \A t \in InitTables : \A pk \in DOMAIN t :
           \A c \in Column \ BaseColumns : t[pk][c] = Null

VARIABLES
    source, shape,         \* the live table: rows, and defaults of its columns
    target, targetShape,   \* the same for the table the scripts are run on
    snaps,                 \* the snapshots; scripts[n] leads to snaps[n + 1]
    scripts,
    at,                    \* the snapshot whose state the target was brought to
    job,                   \* the comparison that runs
    current,               \* history: the snapshot the source still equals, or 0
    writes                 \* changes of the source so far

vars == <<source, shape, target, targetShape, snaps, scripts, at, job, current,
          writes>>

Shape      == [Column -> Defaults \cup {NoColumn}]
Columns(s) == {c \in Column : s[c] # NoColumn}
\* The shape of a table that has only ever had its base columns.
BaseShape ==
    [c \in Column |-> IF c \in BaseColumns THEN Null ELSE NoColumn]

\* A snapshot of the table: its meta.json and its data file.  narrow, unfolded
\* and steady are history: no comparison that led to it widened the filter,
\* folded an identity, or counted other than it read.
Snapshot == [columns : SUBSET Column, filter : Filters, hash : Rows,
             countStar : Nat \cup {NoCount}, narrow : BOOLEAN,
             unfolded : BOOLEAN, steady : BOOLEAN]

\* The output of a comparison.  idle is history: the source still equalled the
\* baseline, and the filter was the same.
Script == [from : Nat, filter : Filters, cols : SUBSET Column, schema : Shape,
           rows : Rows, arriving : SUBSET Id, removed : SUBSET Id,
           expected : Nat, idle : BOOLEAN]

\* A comparison that runs.  quiet is history: the source has not changed yet.
Scan == [pc : {"schema", "scan", "count"}, base : Nat, filter : Filters,
         cols : SUBSET Column, schema : Shape, rows : Rows, offset : Nat,
         collapsed : Int, quiet : BOOLEAN]

NoJob == [pc |-> "idle"]

-----------------------------------------------------------------------------
(* The source.                                                             *)

\* Every change of the source outdates the snapshots and the running scan.
Touch ==
    /\ writes < MaxWrites
    /\ writes' = writes + 1
    /\ current' = 0
    /\ job' = IF job.pc = "idle" THEN job ELSE [job EXCEPT !.quiet = FALSE]
    /\ UNCHANGED <<target, targetShape, snaps, scripts, at>>

\* INSERT or UPDATE of one row; columns the table lacks stay Null.
PutRow(pk, r) ==
    /\ \A c \in Column \ Columns(shape) : r[c] = Null
    /\ source' = [p \in DOMAIN source \cup {pk} |->
                     IF p = pk THEN r ELSE source[p]]
    /\ UNCHANGED shape
    /\ Touch

DropRow(pk) ==
    /\ pk \in DOMAIN source
    /\ source' = [p \in DOMAIN source \ {pk} |-> source[p]]
    /\ UNCHANGED shape
    /\ Touch

\* ADD COLUMN: every row gets the default.
Fill(table, old, new) ==
    [pk \in DOMAIN table |->
        [c \in Column |-> IF old[c] = NoColumn /\ new[c] # NoColumn
                          THEN new[c] ELSE table[pk][c]]]

AddColumn(c, default) ==
    /\ c \notin Columns(shape)
    /\ shape' = [shape EXCEPT ![c] = default]
    /\ source' = Fill(source, shape, shape')
    /\ Touch

DropColumn(c) ==
    /\ c \in Columns(shape) \ BaseColumns
    /\ shape' = [shape EXCEPT ![c] = NoColumn]
    /\ source' = [pk \in DOMAIN source |-> [source[pk] EXCEPT ![c] = Null]]
    /\ Touch

-----------------------------------------------------------------------------
(* The comparison.                                                         *)

\* start: the table's columns are looked up; a column the baseline hashed and
\* the table has lost refuses the comparison.  A filter that is not the
\* baseline's has been confirmed (force).
StartCompare(b, filter) ==
    /\ job.pc = "idle"
    /\ Len(snaps) < MaxSnaps
    /\ snaps[b].columns \subseteq Columns(shape)
    /\ job' = [pc |-> "schema", base |-> b, filter |-> filter,
               cols |-> Columns(shape), schema |-> BaseShape,
               rows |-> <<>>, offset |-> 0, collapsed |-> 0, quiet |-> TRUE]
    /\ UNCHANGED <<source, shape, target, targetShape, snaps, scripts, at,
                   current, writes>>

\* schema::collect: what 01-schema-auto.sql will bring the target to.
ReadSchema ==
    /\ job.pc = "schema"
    /\ job' = [job EXCEPT !.pc = "scan", !.schema = shape]
    /\ UNCHANGED <<source, shape, target, targetShape, snaps, scripts, at,
                   current, writes>>

\* A query fails, the user cancels: nothing is recorded.
Abandon ==
    /\ job.pc # "idle"
    /\ job' = NoJob
    /\ UNCHANGED <<source, shape, target, targetShape, snaps, scripts, at,
                   current, writes>>

\* Mutant of LastPage: a full page is taken for the last one.
LastPageEarly(fetched) == fetched <= PageSize

\* scan_table reads on until a page is not full.
LastPage(fetched) == fetched < PageSize

\* One page.  The select list names the columns, so a column that has gone
\* fails the query.
ScanPage ==
    /\ job.pc = "scan"
    /\ job.cols \subseteq Columns(shape)
    /\ LET page  == Page(source, job.filter, job.offset, PageSize)
           fresh == IdsOf(page) \ DOMAIN job.rows
       IN  job' = [job EXCEPT
                    !.pc        = IF LastPage(Cardinality(page)) THEN "count" ELSE "scan",
                    !.rows      = Absorb(@, source, page, job.cols),
                    !.offset    = @ + PageSize,
                    !.collapsed = @ + Cardinality(page) - Cardinality(fresh)]
    /\ UNCHANGED <<source, shape, target, targetShape, snaps, scripts, at,
                   current, writes>>

\* Mutant of Recorded: the hashes of the comparison go into the snapshot.
RecordedAsCompared(hashCols, cols, rows) ==
    [id \in DOMAIN rows |-> HashOf(hashCols, rows[id])]

\* The hashes of the new snapshot cover the columns it claims (for_snapshot).
Recorded(hashCols, cols, rows) ==
    [id \in DOMAIN rows |-> HashOf(cols, rows[id])]

\* Mutant of Expected: rows read where rows counted are meant.
ExpectedOfRun(old, rows) == Cardinality(DOMAIN rows)

\* render_precheck: the baseline's COUNT(*), its row count where that failed.
Expected(old, rows) ==
    IF old.countStar = NoCount THEN Cardinality(DOMAIN old.hash) ELSE old.countStar

\* COUNT(*) under the run's filter, then compare, meta.json and the scripts.
Finish ==
    /\ job.pc = "count"
    /\ \E count \in {Cardinality(Selected(source, job.filter)), NoCount} :
         LET old   == snaps[job.base]
             delta == Compare(old.hash, job.rows, old.columns,
                              job.cols \ old.columns)
             same  == job.filter = old.filter
         IN  /\ scripts' = Append(scripts,
                    [from |-> job.base, filter |-> job.filter, cols |-> job.cols,
                     schema |-> job.schema, rows |-> job.rows,
                     arriving |-> Arriving(delta), removed |-> delta.removed,
                     expected |-> Expected(old, job.rows),
                     idle |-> same /\ current = job.base])
             /\ snaps' = Append(snaps,
                    [columns |-> job.cols, filter |-> job.filter,
                     hash |-> Recorded(old.columns, job.cols, job.rows),
                     countStar |-> count,
                     narrow   |-> old.narrow /\ job.filter \subseteq old.filter,
                     unfolded |-> old.unfolded /\ job.collapsed = 0,
                     steady   |-> /\ old.steady
                                  /\ count = Cardinality(DOMAIN job.rows) + job.collapsed])
    /\ current' = IF job.quiet THEN Len(snaps) + 1 ELSE current
    /\ job' = NoJob
    /\ UNCHANGED <<source, shape, target, targetShape, at, writes>>

-----------------------------------------------------------------------------
(* The target.                                                             *)

\* 01-schema-auto.sql adds the columns the target does not have yet.
Widened(s) ==
    [c \in Column |-> IF targetShape[c] = NoColumn THEN s.schema[c]
                      ELSE targetShape[c]]

FillOf(s) == [c \in Column |-> IF s[c] = NoColumn THEN Null ELSE s[c]]

\* The scripts of one comparison, in order, on the state they were made for.
\* 03 needs every column it names.
RunScripts(n) ==
    LET s == scripts[n]
        w == Widened(s)
    IN  /\ s.from = at
        /\ s.cols \subseteq Columns(w)
        /\ targetShape' = w
        /\ target' = Remove(Overwrite(Fill(target, targetShape, w), s.arriving,
                                      s.rows, s.cols, FillOf(w)),
                            s.removed)
        /\ at' = n + 1
        /\ UNCHANGED <<source, shape, snaps, scripts, job, current, writes>>

-----------------------------------------------------------------------------

\* A snapshot of a source at rest, and a target cloned from that source.
Init ==
    /\ source \in InitTables
    /\ shape = BaseShape
    /\ target = source
    /\ targetShape = shape
    /\ \E f \in Filters :
         LET rows  == Collapse(source, f, BaseColumns)
             count == Cardinality(Selected(source, f))
         IN  snaps = << [columns |-> BaseColumns, filter |-> f,
                         hash |-> Recorded(BaseColumns, BaseColumns, rows),
                         countStar |-> count, narrow |-> TRUE,
                         unfolded |-> count = Cardinality(DOMAIN rows),
                         steady |-> TRUE] >>
    /\ scripts = <<>>
    /\ at = 1
    /\ job = NoJob
    /\ current = 1
    /\ writes = 0

Next ==
    \/ \E pk \in PK, r \in Row : PutRow(pk, r)
    \/ \E pk \in PK : DropRow(pk)
    \/ \E c \in Column, d \in Defaults : AddColumn(c, d)
    \/ \E c \in Column : DropColumn(c)
    \/ \E b \in DOMAIN snaps, f \in Filters : StartCompare(b, f)
    \/ ReadSchema
    \/ Abandon
    \/ ScanPage
    \/ Finish
    \/ \E n \in DOMAIN scripts : RunScripts(n)

Spec == Init /\ [][Next]_vars

-----------------------------------------------------------------------------
(* Properties.                                                             *)

\* Every variable keeps its type; in particular the hashes of a snapshot
\* cover the columns it claims (PLAN.md section 0, 5).
TypeOK ==
    /\ source \in Table /\ shape \in Shape
    /\ target \in Table /\ targetShape \in Shape
    /\ snaps \in Seq(Snapshot)
    /\ \A n \in DOMAIN snaps :
         \A id \in DOMAIN snaps[n].hash :
           DOMAIN snaps[n].hash[id].val = snaps[n].columns
    /\ scripts \in Seq(Script)
    /\ Len(snaps) = Len(scripts) + 1
    /\ at \in DOMAIN snaps
    /\ current \in 0 .. Len(snaps)
    /\ job \in {NoJob} \cup Scan
    /\ writes \in Nat

\* A recorded value and the target's: the same, or both empty, in a column
\* that was added and held nothing.
Agree(c, a, b) == a = b \/ (c \notin BaseColumns /\ a \in Blank /\ b \in Blank)

\* Whatever the scans saw, the target holds the row the snapshot recorded for
\* each of its identities (PLAN.md section 0, 1: the source of self-healing).
TargetHolds ==
    LET s == snaps[at]
    IN  \A id \in DOMAIN s.hash :
          LET pk == <<id, s.hash[id].ver>>
          IN  /\ pk \in DOMAIN target
              /\ \A c \in s.columns : Agree(c, target[pk][c], s.hash[id].val[c])

\* As long as no comparison has widened the filter, the target keeps no row
\* under the filter that the snapshot does not know: 04 misses none.
NothingExtra ==
    LET s == snaps[at]
    IN  s.narrow => IdsOf(Selected(target, s.filter)) \subseteq DOMAIN s.hash

\* A scan during which the source did not change returned its rows, each
\* identity once, the first version of it (scan_table's paging and folding).
ScanExact ==
    (job.pc = "count" /\ job.quiet) =>
        job.rows = Collapse(source, job.filter, job.cols)

\* Self-healing: once the scripts of an undisturbed comparison have run, the
\* target holds the source's rows and, if the filter was never widened, no
\* others, whatever earlier scans tore.
Healed ==
    at = current =>
        LET s    == snaps[at]
            rows == Collapse(source, s.filter, s.columns)
        IN  /\ \A id \in DOMAIN rows :
                 LET pk == <<id, rows[id].ver>>
                 IN  /\ pk \in DOMAIN target
                     /\ \A c \in s.columns :
                          Agree(c, target[pk][c], rows[id].val[c])
            /\ s.narrow => IdsOf(Selected(target, s.filter)) \subseteq DOMAIN rows

\* A snapshot compared with the source it was taken of gives no statement
\* (README: comparing a snapshot with itself is 0 differences, also for the
\* snapshot written by the run in which the columns drifted).
SelfCompareEmpty ==
    \A n \in DOMAIN scripts :
        scripts[n].idle => scripts[n].arriving = {} /\ scripts[n].removed = {}

\* What 00-precheck.sql counts on the target.
Verdict(s) == Cardinality(Selected(target, s.filter)) = s.expected

\* On the target its baseline describes, the precheck of a comparison under
\* the same filter says ok, if on the way there no filter was widened, no
\* identity folded, and every COUNT(*) agreed with the rows read.
PrecheckAccepts ==
    \A n \in DOMAIN scripts :
        LET s == scripts[n]
            b == snaps[at]
        IN  (/\ s.from = at /\ s.filter = b.filter
             /\ b.narrow /\ b.unfolded /\ b.steady) => Verdict(s)

=============================================================================
