---------------------------- MODULE SchemaDiff ----------------------------
(***************************************************************************)
(* The schema channel as pure operators (backend/src/schema.rs, and        *)
(* schema_pg.rs for PostgreSQL): what diff makes of two schemas, and what  *)
(* the statements do to a database.                                        *)
(*                                                                         *)
(* A schema is four functions, one per kind of object: tables to their     *)
(* default collation, columns <<table, column>> to their definition,       *)
(* indexes <<table, index>> to the column they are on, and foreign keys    *)
(* <<table, key>> to the table they refer to.                              *)
(***************************************************************************)
EXTENDS Widening, FiniteSets, Functions

Kinds == {"tables", "columns", "indexes", "keys"}
Empty == <<>>
NoSchema == [k \in Kinds |-> Empty]

NoDefault == "none"
Inherit   == "inherit"     \* no COLLATE in the statement

\* The entries of one kind that belong to a table, by name.
Of(f, t) == [n \in {x[2] : x \in {y \in DOMAIN f : y[1] = t}} |-> f[<<t, n>>]]
Put(f, x, v) == [y \in DOMAIN f \cup {x} |-> IF y = x THEN v ELSE f[y]]
Over(f, g) == [x \in DOMAIN f \cup DOMAIN g |-> IF x \in DOMAIN f THEN f[x] ELSE g[x]]
Without(f, X) == Restrict(f, DOMAIN f \ X)

-----------------------------------------------------------------------------
(* Statements.                                                             *)

\* file is 1 or 2; order is where the statement stands in the two files:
\* tables, columns, indexes, foreign keys, options, each by name.
Statement(file, section, op, obj, text) ==
    [file |-> file, order |-> <<file, section, obj[2], obj[3]>>, op |-> op,
     obj |-> obj, text |-> text]

Before(a, b) ==
    \E i \in 1 .. 4 :
        /\ a.order[i] < b.order[i]
        /\ \A j \in 1 .. i - 1 : a.order[j] = b.order[j]

\* Mutant of Definition: the entry of the snapshot goes out as it is, with the
\* position of the column in it.
DefinitionVerbatim(dialect, new, x) == new.columns[x]

\* column_definition: a collation is spelled out only if it is not the
\* table's; PostgreSQL's is never.
Definition(dialect, new, x) ==
    LET d == new.columns[x] IN
    [type |-> d.type, default |-> d.default,
     collation |-> IF dialect = "postgres" \/ d.collation = new.tables[x[1]]
                   THEN Inherit ELSE d.collation]

Both(old, new) == DOMAIN old.tables \cap DOMAIN new.tables

\* A new table with its columns; MySQL's with its indexes and foreign keys.
CreateTable(dialect, new, t) ==
    Statement(1, 1, "create", <<"tables", t, 0>>,
        [collation |-> new.tables[t],
         columns |-> [c \in DOMAIN Of(new.columns, t) |->
                          Definition(dialect, new, <<t, c>>)],
         indexes |-> IF dialect = "mysql" THEN Of(new.indexes, t) ELSE Empty,
         keys    |-> IF dialect = "mysql" THEN Of(new.keys, t) ELSE Empty])

TableStatements(dialect, old, new) ==
    LET added == DOMAIN new.tables \ DOMAIN old.tables IN
    {CreateTable(dialect, new, t) : t \in added}
    \cup IF dialect = "mysql" THEN {}
         ELSE {Statement(1, 1, "index", <<"indexes", x[1], x[2]>>, new.indexes[x]) :
                   x \in {y \in DOMAIN new.indexes : y[1] \in added}}

\* A changed column is for the first file unless its type changes other than
\* by widening, or EXTRA or its collation change and the type does not.
Reviewed(dialect, was, is) ==
    IF was.type # is.type
    THEN ~ IF dialect = "mysql" THEN Widens(was.type, is.type)
           ELSE PgWidens(was.type, is.type)
    ELSE was.collation # is.collation

\* Mutant of ColumnStatements: only new columns get a statement.
ColumnStatementsAdded(dialect, old, new) ==
    {Statement(1, 2, "add", <<"columns", x[1], x[2]>>, Definition(dialect, new, x)) :
        x \in {y \in DOMAIN new.columns \ DOMAIN old.columns : y[1] \in Both(old, new)}}

ColumnStatements(dialect, old, new) ==
    {Statement(1, 2, "add", <<"columns", x[1], x[2]>>, Definition(dialect, new, x)) :
        x \in {y \in DOMAIN new.columns \ DOMAIN old.columns : y[1] \in Both(old, new)}}
    \cup
    {Statement(IF Reviewed(dialect, old.columns[x], new.columns[x]) THEN 2 ELSE 1,
               2, "modify", <<"columns", x[1], x[2]>>, Definition(dialect, new, x)) :
        x \in {y \in DOMAIN new.columns \cap DOMAIN old.columns :
                   y[1] \in Both(old, new) /\ old.columns[y] # new.columns[y]}}

IndexStatements(old, new) ==
    {Statement(1, 3, "index", <<"indexes", x[1], x[2]>>, new.indexes[x]) :
        x \in {y \in DOMAIN new.indexes \ DOMAIN old.indexes : y[1] \in Both(old, new)}}

\* Only new ones: a changed foreign key goes by without a statement or a note.
KeyStatements(old, new) ==
    {Statement(2, 4, "key", <<"keys", x[1], x[2]>>, new.keys[x]) :
        x \in {y \in DOMAIN new.keys \ DOMAIN old.keys : y[1] \in Both(old, new)}}

OptionStatements(old, new) ==
    {Statement(1, 5, "collation", <<"options", t, 0>>, new.tables[t]) :
        t \in {u \in Both(old, new) : old.tables[u] # new.tables[u]}}

\* Mutant of Notes: an index is known by its name.
NotesNone(old, new) == {}

\* Indexes whose definition changed: DROP and ADD would be needed.
Notes(old, new) ==
    {<<"indexes", x[1], x[2]>> :
        x \in {y \in DOMAIN new.indexes \cap DOMAIN old.indexes :
                   y[1] \in Both(old, new) /\ old.indexes[y] # new.indexes[y]}}

\* Mutant of Removed: only tables.
RemovedTables(old, new) ==
    {<<"tables", t, 0>> : t \in DOMAIN old.tables \ DOMAIN new.tables}

Removed(old, new) ==
    {<<"tables", t, 0>> : t \in DOMAIN old.tables \ DOMAIN new.tables}
    \cup UNION {{<<k, x[1], x[2]>> :
                    x \in {y \in DOMAIN old[k] \ DOMAIN new[k] : y[1] \in Both(old, new)}} :
                k \in Kinds \ {"tables"}}

Diff(dialect, old, new) ==
    [statements |-> TableStatements(dialect, old, new)
                    \cup ColumnStatements(dialect, old, new)
                    \cup IndexStatements(old, new) \cup KeyStatements(old, new)
                    \cup OptionStatements(old, new),
     notes   |-> Notes(old, new),
     removed |-> Removed(old, new)]

-----------------------------------------------------------------------------
(* What a statement does to a database, if it does not fail.               *)

Spelled(d, collation) ==
    IF d.collation = Inherit THEN [d EXCEPT !.collation = collation] ELSE d

\* Why a statement cannot take effect, but for the rows in the table.
Applies(s, db) ==
    LET t == s.obj[2]
        x == <<s.obj[2], s.obj[3]>>
    IN CASE s.op = "create" ->
              /\ t \notin DOMAIN db.tables /\ s.text.columns # Empty
              /\ \A i \in DOMAIN s.text.indexes : s.text.indexes[i] \in DOMAIN s.text.columns
              /\ \A k \in DOMAIN s.text.keys : s.text.keys[k] \in DOMAIN db.tables \cup {t}
         [] s.op = "add"    -> t \in DOMAIN db.tables /\ x \notin DOMAIN db.columns
         [] s.op = "modify" -> x \in DOMAIN db.columns
         [] s.op = "index"  -> <<t, s.text>> \in DOMAIN db.columns /\ x \notin DOMAIN db.indexes
         [] s.op = "key"    -> {t, s.text} \subseteq DOMAIN db.tables /\ x \notin DOMAIN db.keys
         [] s.op = "collation" -> t \in DOMAIN db.tables

\* MODIFY replaces the definition; PostgreSQL's statements leave a default
\* alone when there is none to set.
Modified(dialect, was, d) ==
    IF dialect = "postgres" /\ d.default = NoDefault
    THEN [d EXCEPT !.default = was.default] ELSE d

Prefixed(t, f) == [x \in {t} \X DOMAIN f |-> f[x[2]]]

Applied(dialect, s, db) ==
    LET t == s.obj[2]
        x == <<s.obj[2], s.obj[3]>>
    IN CASE s.op = "create" ->
              [tables  |-> Put(db.tables, t, s.text.collation),
               columns |-> Over([y \in {t} \X DOMAIN s.text.columns |->
                                    Spelled(s.text.columns[y[2]], s.text.collation)],
                                db.columns),
               indexes |-> Over(Prefixed(t, s.text.indexes), db.indexes),
               keys    |-> Over(Prefixed(t, s.text.keys), db.keys)]
         [] s.op = "add" ->
              [db EXCEPT !.columns = Put(@, x, Spelled(s.text, db.tables[t]))]
         [] s.op = "modify" ->
              [db EXCEPT !.columns =
                  Put(@, x, Modified(dialect, db.columns[x], Spelled(s.text, db.tables[t])))]
         [] s.op = "index" -> [db EXCEPT !.indexes = Put(@, x, s.text)]
         [] s.op = "key"   -> [db EXCEPT !.keys = Put(@, x, s.text)]
         [] s.op = "collation" -> [db EXCEPT !.tables[t] = s.text]

=============================================================================
