------------------------------ MODULE RowDiff ------------------------------
(***************************************************************************)
(* The data channel for one table, as pure operators: what a page of a     *)
(* scan returns (backend/src/snapshot.rs, scan_table), how the rows of a   *)
(* scan are compared with a baseline (backend/src/diff.rs, compare), and   *)
(* what the two generated data scripts do to the table they are run on     *)
(* (render_insert, render_delete).                                         *)
(*                                                                         *)
(* A table is a function from primary keys <<id, version>> to rows; the id *)
(* alone is the identity the comparison uses.  A row assigns a value to    *)
(* every column, Null to a column the table does not have.                 *)
(*                                                                         *)
(* A hash over a list of columns stands for the values it was computed     *)
(* from: encode_values is injective on rows of one width, and collisions   *)
(* of SHA-256 are left out.  ds_version is one of the hashed columns.      *)
(***************************************************************************)
EXTENDS Integers, FiniteSets

CONSTANTS
    Id,            \* values of the identity column
    Version,       \* values of the rest of the primary key
    Column,        \* every column the table has at some time
    BaseColumns,   \* those it always has, and filters may mention
    Value, Null, Empty,
    Filters        \* effective WHERE clauses, each the set of rows it keeps

Row   == [Column -> Value]
PK    == Id \X Version
Table == UNION {[K -> Row] : K \in SUBSET PK}

\* Rows as a scan hands them on: one per identity, over some columns.
ScannedRow == UNION {[ver : Version, val : [C -> Value]] : C \in SUBSET Column}
Rows       == UNION {[I -> ScannedRow] : I \in SUBSET Id}

ASSUME RowAssumption ==
    /\ Id \subseteq Nat /\ IsFiniteSet(Id)
    /\ Version \subseteq Nat /\ IsFiniteSet(Version)
    /\ BaseColumns \subseteq Column
    /\ Null \in Value
    /\ Empty \in Value
    /\ \A f \in Filters : \A r, s \in Row :
           (\A c \in BaseColumns : r[c] = s[c]) => (r \in f <=> s \in f)

Blank == {Null, Empty}

CarriesAValue(v) == v \notin Blank

-----------------------------------------------------------------------------
(* Reading a table.                                                        *)

\* ORDER BY the database's own primary key.
Before(p, q) == p[1] < q[1] \/ (p[1] = q[1] /\ p[2] < q[2])

\* The rows a WHERE clause keeps.
Selected(table, filter) == {pk \in DOMAIN table : table[pk] \in filter}

\* LIMIT size OFFSET offset, on the table as it is at this moment.
Page(table, filter, offset, size) ==
    LET rows == Selected(table, filter)
        Rank(pk) == Cardinality({q \in rows : Before(q, pk)})
    IN  {pk \in rows : offset <= Rank(pk) /\ Rank(pk) < offset + size}

IdsOf(rows) == {pk[1] : pk \in rows}

\* The row of an identity that sorts first.
FirstOf(rows, id) ==
    CHOOSE pk \in rows : /\ pk[1] = id
                         /\ \A q \in rows : q[1] = id => ~ Before(q, pk)

\* A scanned row: its version, and its values over the selected columns.
Scanned(table, pk, cols) ==
    [ver |-> pk[2], val |-> [c \in cols |-> table[pk][c]]]

\* Hand one page to on_row.  An identity seen before is folded away.
Absorb(live, table, page, cols) ==
    [id \in DOMAIN live \cup IdsOf(page) |->
        IF id \in DOMAIN live THEN live[id]
        ELSE Scanned(table, FirstOf(page, id), cols)]

\* What a scan of a table at rest has to return.
Collapse(table, filter, cols) ==
    LET rows == Selected(table, filter)
    IN  [id \in IdsOf(rows) |-> Scanned(table, FirstOf(rows, id), cols)]

HashOf(cols, row) ==
    [ver |-> row.ver, val |-> [c \in cols |-> row.val[c]]]

-----------------------------------------------------------------------------
(* Comparing a scan with a baseline.                                       *)

\* Mutant of Compare: a gained column is left to the next comparison.
CompareOldColumnsOnly(base, live, hashCols, added) ==
    LET both    == DOMAIN base \cap DOMAIN live
        changed == {id \in both : base[id] # HashOf(hashCols, live[id])}
    IN  [inserts   |-> DOMAIN live \ DOMAIN base,
         updates   |-> changed,
         unchanged |-> both \ changed,
         removed   |-> DOMAIN base \ DOMAIN live]

\* Mutant of Compare: only the rows of the scan are looked at.
CompareNoRemovals(base, live, hashCols, added) ==
    [CompareOldColumnsOnly(base, live, hashCols, added) EXCEPT !.removed = {}]

\* compare: base maps identities to hashes over hashCols; added are the
\* columns the table has gained since.
Compare(base, live, hashCols, added) ==
    LET both     == DOMAIN base \cap DOMAIN live
        changed  == {id \in both : base[id] # HashOf(hashCols, live[id])}
        promoted == {id \in both \ changed :
                        \E c \in added : CarriesAValue(live[id].val[c])}
    IN  [inserts   |-> DOMAIN live \ DOMAIN base,
         updates   |-> changed \cup promoted,
         unchanged |-> both \ (changed \cup promoted),
         removed   |-> DOMAIN base \ DOMAIN live]

\* Mutant of Arriving: an update is not written back.
ArrivingInsertsOnly(delta) == delta.inserts

Arriving(delta) == delta.inserts \cup delta.updates

-----------------------------------------------------------------------------
(* Running the generated scripts on a target table.                        *)

\* 03-data.sql: the arriving identities are deleted, whatever their version,
\* and written back one row each.  fill holds the values of the columns that
\* the INSERT does not name.
Overwrite(table, arriving, live, cols, fill) ==
    LET kept    == {pk \in DOMAIN table : pk[1] \notin arriving}
        written == {<<id, live[id].ver>> : id \in arriving}
    IN  [pk \in kept \cup written |->
            IF pk \in kept THEN table[pk]
            ELSE [c \in Column |-> IF c \in cols THEN live[pk[1]].val[c]
                                   ELSE fill[c]]]

\* 04-delete.sql: the removed identities go, whatever their version.
Remove(table, removed) ==
    [pk \in {p \in DOMAIN table : p[1] \notin removed} |-> table[pk]]

=============================================================================
