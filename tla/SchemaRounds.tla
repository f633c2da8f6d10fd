--------------------------- MODULE SchemaRounds ---------------------------
(***************************************************************************)
(* Rounds of comparison of the schema.  The source's tables change, also   *)
(* between the four catalogue queries of one collection (schema.rs,        *)
(* collect_mysql; schema_pg.rs, collect); each comparison with the last    *)
(* snapshot writes 01 and 02, which are run on the target statement by     *)
(* statement: one that fails, or that the user declines, is skipped, and    *)
(* the files may be run again.                                             *)
(*                                                                         *)
(* The target is behind on an object if a statement about it was skipped.  *)
(***************************************************************************)
EXTENDS SchemaDiff

CONSTANTS
    Table, Column, Index, Key,    \* names, by number: their sort order
    Collations,
    Types,         \* for each dialect, the types a column may have
    Defaults,      \* the defaults, NoDefault among them
    InitSchema,    \* for each dialect, schemas to begin with
    Keeps,         \* the sets of tables a schema filter may keep
    MaxRounds,     \* bound: comparisons
    MaxChanges,    \* bound: changes of the source
    MaxReruns      \* bound: times the files are run again

Dialects == {"mysql", "postgres"}

\* A column of a database, and the names in a schema.
DetailOf(d) == [type : Types[d], default : Defaults, collation : Collations]

IsSchema(db) ==
    /\ DOMAIN db = Kinds
    /\ DOMAIN db.tables \subseteq Table
    /\ DOMAIN db.columns \subseteq Table \X Column
    /\ DOMAIN db.indexes \subseteq Table \X Index
    /\ DOMAIN db.keys \subseteq Table \X Key

\* What a database says of its columns, indexes and keys is about tables and
\* columns it has.
IsDatabase(d, db) ==
    /\ IsSchema(db)
    /\ \A t \in DOMAIN db.tables : db.tables[t] \in Collations
    /\ \A x \in DOMAIN db.columns : x[1] \in DOMAIN db.tables /\ db.columns[x] \in DetailOf(d)
    /\ \A x \in DOMAIN db.indexes : <<x[1], db.indexes[x]>> \in DOMAIN db.columns
    /\ \A x \in DOMAIN db.keys : {x[1], db.keys[x]} \subseteq DOMAIN db.tables

ASSUME SchemaAssumption ==
    /\ Table \cup Column \cup Index \cup Key \subseteq Nat \ {0}
    /\ NoDefault \in Defaults /\ Inherit \notin Collations
    /\ \A d \in Dialects : \A db \in InitSchema[d] : IsDatabase(d, db)
    /\ Keeps \subseteq SUBSET Table
    /\ MaxRounds \in Nat /\ MaxChanges \in Nat /\ MaxReruns \in Nat

VARIABLES
    dialect,
    live, target,      \* the two databases
    snapshot,          \* the last schema.jsonl
    job,               \* the collection that runs: next query, filter, so far
    script,            \* the statements of the last comparison
    pending,           \* those still to run
    done,              \* those that took effect
    behind,            \* history: objects on which the target is behind
    reported,          \* history: objects reported as removed
    lossy,             \* history: types narrowed by 01, and whether behind
    unsteady,          \* history: tables whose default collation changed
    rounds, changes, reruns

vars == <<dialect, live, target, snapshot, job, script, pending, done, behind,
          reported, lossy, unsteady, rounds, changes, reruns>>
historyVars == <<behind, reported, lossy, unsteady>>
scriptVars  == <<script, pending, done>>
counters    == <<rounds, changes, reruns>>

Detail == DetailOf(dialect)
NoJob == [query |-> "none", keep |-> {}, got |-> NoSchema]

-----------------------------------------------------------------------------
(* The source.                                                             *)

\* PostgreSQL has one default, the database's.
CollationsOf(db) ==
    IF dialect = "mysql" THEN Collations ELSE {db.tables[t] : t \in DOMAIN db.tables}

\* A table comes with a column.
WithTable(db, t, u, c, d) ==
    [db EXCEPT !.tables = Put(@, t, u), !.columns = Put(@, <<t, c>>, d)]

\* The databases one ALTER away.
NewTable(db) ==
    {WithTable(db, t, u, c, d) :
        t \in Table \ DOMAIN db.tables, u \in CollationsOf(db), c \in Column, d \in Detail}

\* A table is only dropped if no other refers to it.
LessTable(db) ==
    {[tables  |-> Without(db.tables, {t}),
      columns |-> Without(db.columns, {t} \X Column),
      indexes |-> Without(db.indexes, {t} \X Index),
      keys    |-> Without(db.keys, {t} \X Key)] :
        t \in {u \in DOMAIN db.tables :
                  \A x \in DOMAIN db.keys : db.keys[x] = u => x[1] = u}}

OtherColumn(db) ==
    {[db EXCEPT !.columns = Put(@, <<t, c>>, d)] :
        t \in DOMAIN db.tables, c \in Column, d \in Detail}

\* Its indexes go with a column that is not the last.
LessColumn(db) ==
    {[db EXCEPT !.columns = Without(@, {x}),
                !.indexes = Without(@, {y \in DOMAIN @ : y[1] = x[1] /\ @[y] = x[2]})] :
        x \in {y \in DOMAIN db.columns : \E z \in DOMAIN db.columns : z[1] = y[1] /\ z # y}}

OtherIndex(db) ==
    {[db EXCEPT !.indexes = Put(@, <<x[1], i>>, x[2])] : x \in DOMAIN db.columns, i \in Index}
LessIndex(db) == {[db EXCEPT !.indexes = Without(@, {x})] : x \in DOMAIN db.indexes}

OtherKey(db) ==
    {[db EXCEPT !.keys = Put(@, <<t, k>>, u)] :
        t \in DOMAIN db.tables, k \in Key, u \in DOMAIN db.tables}
LessKey(db) == {[db EXCEPT !.keys = Without(@, {x})] : x \in DOMAIN db.keys}

OtherCollation(db) ==
    IF dialect = "mysql"
    THEN {[db EXCEPT !.tables[t] = u] : t \in DOMAIN db.tables, u \in Collations} ELSE {}

Altered(db) ==
    NewTable(db) \cup LessTable(db) \cup OtherColumn(db) \cup LessColumn(db)
    \cup OtherIndex(db) \cup LessIndex(db) \cup OtherKey(db) \cup LessKey(db)
    \cup OtherCollation(db)

\* The source and the target do not touch each other, so the changes that
\* fall between two statements may as well come after the last.
Alter ==
    /\ pending = {} /\ changes < MaxChanges
    /\ live' \in Altered(live) \ {live}
    /\ changes' = changes + 1
    /\ UNCHANGED <<dialect, target, snapshot, job, scriptVars, historyVars, rounds, reruns>>

-----------------------------------------------------------------------------
(* The job.                                                                *)

\* With a filter, the other queries ask for the tables of the first; without
\* one, for all there are.
Asked(t) == job.keep = Table \/ t \in DOMAIN job.got.tables

OfAsked(f) == [x \in {y \in DOMAIN f : Asked(y[1])} |-> f[x]]

\* MySQL's ORDINAL_POSITION: a column moves when one before it comes or goes.
\* PostgreSQL's attnum is the column's own (a column that comes back with a
\* new one is left out).
Ordinal(x) ==
    IF dialect = "postgres" THEN x[2]
    ELSE Cardinality({y \in DOMAIN live.columns : y[1] = x[1] /\ y[2] <= x[2]})

Columns ==
    [x \in DOMAIN live.columns |->
        [type |-> live.columns[x].type, default |-> live.columns[x].default,
         collation |-> live.columns[x].collation, ordinal |-> Ordinal(x)]]

ReadTables(keep) ==
    /\ job = NoJob /\ pending = {} /\ rounds < MaxRounds
    /\ job' = [query |-> "columns", keep |-> keep,
               got |-> [NoSchema EXCEPT
                           !.tables = Restrict(live.tables, DOMAIN live.tables \cap keep)]]
    /\ UNCHANGED <<dialect, live, target, snapshot, scriptVars, historyVars, counters>>

ReadColumns ==
    /\ job.query = "columns"
    /\ job' = [job EXCEPT !.query = "indexes", !.got.columns = OfAsked(Columns)]
    /\ UNCHANGED <<dialect, live, target, snapshot, scriptVars, historyVars, counters>>

ReadIndexes ==
    /\ job.query = "indexes"
    /\ job' = [job EXCEPT !.query = "keys", !.got.indexes = OfAsked(live.indexes)]
    /\ UNCHANGED <<dialect, live, target, snapshot, scriptVars, historyVars, counters>>

\* The last query, diff, and what is recorded and written.
Finish ==
    /\ job.query = "keys"
    /\ LET now == [job.got EXCEPT !.keys = OfAsked(live.keys)]
           d == Diff(dialect, snapshot, now)
       IN  /\ snapshot' = now
           /\ script' = d.statements /\ pending' = d.statements
           /\ behind' = behind \cup d.notes
           /\ reported' = reported \cup d.removed
           /\ unsteady' = unsteady \cup {s.obj[2] : s \in OptionStatements(snapshot, now)}
    /\ done' = {} /\ job' = NoJob
    /\ rounds' = rounds + 1
    /\ UNCHANGED <<dialect, live, target, lossy, changes, reruns>>

\* Any failure, and a cancel.
Abandon ==
    /\ job # NoJob
    /\ job' = NoJob
    /\ UNCHANGED <<dialect, live, target, snapshot, scriptVars, historyVars, counters>>

-----------------------------------------------------------------------------
(* The files.                                                              *)

Least(s) == s \in pending /\ \A u \in pending \ {s} : Before(s, u)

\* A created table is what its statement says, columns and all.
Settles(s) ==
    IF s.op = "create"
    THEN {s.obj} \cup {<<"columns", s.obj[2], c>> : c \in DOMAIN s.text.columns}
         \cup {<<"indexes", s.obj[2], i>> : i \in DOMAIN s.text.indexes}
         \cup {<<"keys", s.obj[2], k>> : k \in DOMAIN s.text.keys}
    ELSE {s.obj}

Behind(kind, x) == {<<kind, x[1], x[2]>>, <<"tables", x[1], 0>>} \cap behind # {}

Run(s) ==
    /\ Least(s) /\ Applies(s, target)
    /\ target' = Applied(dialect, s, target)
    /\ pending' = pending \ {s} /\ done' = done \cup {s}
    /\ behind' = behind \ Settles(s)
    /\ lossy' =
          LET x == <<s.obj[2], s.obj[3]>>
          IN  IF s.op = "modify" /\ s.file = 1 /\ ~ Covers(target.columns[x].type, s.text.type)
              THEN lossy \cup {[was |-> target.columns[x].type, is |-> s.text.type,
                                behind |-> Behind("columns", x)]}
              ELSE lossy
    /\ UNCHANGED <<dialect, live, snapshot, job, script, reported, unsteady, counters>>

\* It fails, or the user declines it.
Skip(s) ==
    /\ Least(s)
    /\ pending' = pending \ {s}
    /\ behind' = IF s \in done THEN behind ELSE behind \cup {s.obj}
    /\ UNCHANGED <<dialect, live, target, snapshot, job, script, done, reported, lossy,
                   unsteady, counters>>

Rerun ==
    /\ pending = {} /\ job = NoJob /\ script # {} /\ reruns < MaxReruns
    /\ pending' = script
    /\ reruns' = reruns + 1
    /\ UNCHANGED <<dialect, live, target, snapshot, job, script, done, historyVars,
                   rounds, changes>>

-----------------------------------------------------------------------------

\* The first snapshot was taken of a source that stood still, and the target
\* is a copy of it.
Init ==
    /\ dialect \in Dialects
    /\ live \in InitSchema[dialect] /\ target = live
    /\ snapshot = [live EXCEPT !.columns = Columns]
    /\ job = NoJob
    /\ script = {} /\ pending = {} /\ done = {}
    /\ behind = {} /\ reported = {} /\ lossy = {} /\ unsteady = {}
    /\ rounds = 0 /\ changes = 0 /\ reruns = 0

Next ==
    \/ Alter
    \/ \E keep \in Keeps : ReadTables(keep)
    \/ ReadColumns
    \/ ReadIndexes
    \/ Finish
    \/ Abandon
    \/ \E s \in pending : Run(s)
    \/ \E s \in pending : Skip(s)
    \/ Rerun

Spec == Init /\ [][Next]_vars

-----------------------------------------------------------------------------
(* Properties.                                                             *)

\* Every variable keeps its type; both databases stay whole.
TypeOK ==
    /\ IsDatabase(dialect, live) /\ IsDatabase(dialect, target)
    /\ IsSchema(snapshot) /\ IsSchema(job.got)
    /\ pending \subseteq script /\ done \subseteq script

\* Once the files were run, a column of the snapshot is in the target as it
\* was recorded, unless a statement about it was skipped.  What PostgreSQL's
\* statements do not say (a collation, the end of a default) is left out, and
\* so are collations in tables whose default has changed.
ColumnsKeepUp ==
    pending = {} =>
        \A x \in DOMAIN snapshot.columns :
            x[1] \in DOMAIN snapshot.tables /\ ~ Behind("columns", x) =>
                /\ x \in DOMAIN target.columns
                /\ target.columns[x].type = snapshot.columns[x].type
                /\ dialect = "mysql" =>
                      target.columns[x].default = snapshot.columns[x].default
                /\ dialect = "mysql" /\ x[1] \notin unsteady =>
                      target.columns[x].collation = snapshot.columns[x].collation

\* The same of indexes, whose changes are noted, and in MySQL of the names of
\* foreign keys.
IndexesKeepUp ==
    pending = {} =>
        /\ \A x \in DOMAIN snapshot.indexes :
              x[1] \in DOMAIN snapshot.tables /\ ~ Behind("indexes", x) =>
                  x \in DOMAIN target.indexes /\ target.indexes[x] = snapshot.indexes[x]
        /\ dialect = "mysql" =>
              \A x \in DOMAIN snapshot.keys :
                  x[1] \in DOMAIN snapshot.tables /\ ~ Behind("keys", x) =>
                      x \in DOMAIN target.keys

\* What the target has and the snapshot does not know has been reported.
ExtrasReported ==
    \A k \in Kinds \ {"tables"} : \A x \in DOMAIN target[k] \ DOMAIN snapshot[k] :
        {<<k, x[1], x[2]>>, <<"tables", x[1], 0>>} \cap reported # {}

\* 01 never narrows a column of a target that is not behind on it -- for the types
\* of the run, which are decimals.  Of floats and doubles with two numbers widens
\* lets narrowings through (float(7,3) to float(8,5)), and the theorem excludes
\* them (ExactTypes).
AutoKeepsData == \A x \in lossy : x.behind

\* 01 says of itself that widening loses no data (diff.rs, auto_header).
AutoLosesNothing == lossy = {}

=============================================================================
