--------------------------- MODULE TargetScripts ---------------------------
(***************************************************************************)
(* 03-data.sql and 04-delete.sql of one comparison, statement by           *)
(* statement, on the target's table (backend/src/diff.rs, render_insert    *)
(* and render_delete).  A client runs a file from its first statement; a   *)
(* statement that fails is skipped, or the run ends there; a run may also  *)
(* end anywhere and the whole file be run again.  The two files may be run *)
(* in any order, also side by side.  Every statement commits on its own.   *)
(* Other programs write to the table as well.                              *)
(*                                                                         *)
(* Each file backs up what it deletes in a table of its own, which has the *)
(* primary key of the original (create_table_like).                        *)
(***************************************************************************)
EXTENDS RowDiff, Sequences

CONSTANTS
    Chunks,      \* per file, its key list in chunks of CHUNK
    Inserts,     \* the arriving identities, in the order of the INSERTs
    Live,        \* what they hold
    NewColumn,   \* the INSERTs name a column that the table did not have
    NoTable,     \* a backup table that does not exist
    InitTargets, \* tables the target may hold at the beginning
    MaxRuns,     \* bound: runs of the two files
    MaxWrites    \* bound: writes of other programs

File == {"data", "delete"}
\* The identities a file deletes.
Listed(f) == UNION {Chunks[f][n] : n \in DOMAIN Chunks[f]}

\* A backup table: the columns of the moment it was created, and its rows.
Backup == [wide : BOOLEAN, rows : Table]

ASSUME ScriptsAssumption ==
    /\ Chunks \in [File -> Seq(SUBSET Id)]
    /\ Inserts \in Seq(Id)
    /\ \A i, j \in DOMAIN Inserts : Inserts[i] = Inserts[j] => i = j
    /\ {Inserts[i] : i \in DOMAIN Inserts} = Listed("data")
    /\ \A f \in File : Chunks[f] = <<>> <=> Listed(f) = {}
    /\ \A f \in File : \A m, n \in DOMAIN Chunks[f] :
           m # n => Chunks[f][m] \cap Chunks[f][n] = {}
    /\ Listed("data") \cap Listed("delete") = {}
    /\ Live \in [Listed("data") -> [ver : Version, val : Row]]
    /\ NewColumn \in BOOLEAN
    /\ NoTable \notin Backup
    /\ InitTargets \subseteq Table
    /\ MaxRuns \in Nat /\ MaxWrites \in Nat

VARIABLES
    target,      \* the table
    wide,        \* 01 has added the new column
    bak,         \* the backup table of each file
    pos,         \* the statement each run is at
    theirs,      \* history: what the table would hold without the scripts
    clean,       \* history: no DELETE or INSERT of the run was skipped
    applied,     \* history: the last run of the file ended clean
    drifted,     \* history: others wrote to listed rows after a first run began
    raced,       \* history: ... while a run was under way, or before a rerun
                 \* whose failing backup was skipped
    unsaved,     \* history: a backup that failed on something else was skipped
    runs, writes \* counters for the bounds

vars == <<target, wide, bak, pos, theirs, clean, applied, drifted, raced,
          unsaved, runs, writes>>
history == <<theirs, clean, applied, drifted, raced, unsaved>>
counters == <<runs, writes>>

Idle     == [step |-> "idle", n |-> 0]
Step     == {"create", "backup", "delete", "insert"}
Position == [step : Step \cup {"idle"}, n : Nat]

\* The statements a file has.
Placed(f, p) ==
    /\ p.step = "create" => Chunks[f] # <<>>
    /\ p.step \in {"backup", "delete"} => p.n \in DOMAIN Chunks[f]
    /\ p.step = "insert" => f = "data" /\ p.n \in DOMAIN Inserts
    /\ p.step = "idle" => p = Idle

At(f, step) == pos[f].step = step
RowsOf(table, ids) == {pk \in DOMAIN table : pk[1] \in ids}
\* The chunk that a backup or a delete is about.
Chunk(f) == Chunks[f][pos[f].n]

\* Mutant of Following: a chunk or a row too many.
FollowingTooFar(f, p) ==
    IF \/ p.step \in {"backup", "delete"} /\ p.n <= Len(Chunks[f])
       \/ p.step = "insert" /\ p.n <= Len(Inserts)
    THEN [p EXCEPT !.n = @ + 1]
    ELSE CASE p.step = "create" -> [step |-> "backup", n |-> 1]
           [] p.step = "backup" -> [step |-> "delete", n |-> 1]
           [] p.step = "delete" /\ f = "data" -> [step |-> "insert", n |-> 1]
           [] OTHER -> Idle

\* The order of a file: the backup table, every backup, every delete, and in
\* 03 one INSERT per row.
Following(f, p) ==
    IF \/ p.step \in {"backup", "delete"} /\ p.n < Len(Chunks[f])
       \/ p.step = "insert" /\ p.n < Len(Inserts)
    THEN [p EXCEPT !.n = @ + 1]
    ELSE CASE p.step = "create" -> [step |-> "backup", n |-> 1]
           [] p.step = "backup" -> [step |-> "delete", n |-> 1]
           [] p.step = "delete" /\ f = "data" -> [step |-> "insert", n |-> 1]
           [] OTHER -> Idle

\* The run goes on to its next statement; at the end of the file it is done.
Advance(f, ok) ==
    /\ pos' = [pos EXCEPT ![f] = Following(f, @)]
    /\ clean' = [clean EXCEPT ![f] = @ /\ ok]
    /\ applied' = [applied EXCEPT ![f] = pos'[f] = Idle /\ clean'[f]]

Succeeds(f) ==
    /\ Advance(f, TRUE)
    /\ UNCHANGED <<theirs, drifted, raced, unsaved, wide, counters>>

-----------------------------------------------------------------------------
(* Running a file.                                                         *)

Begin(f) ==
    /\ At(f, "idle")
    /\ Chunks[f] # <<>>
    /\ runs["data"] + runs["delete"] < MaxRuns
    /\ runs' = [runs EXCEPT ![f] = @ + 1]
    /\ pos' = [pos EXCEPT ![f] = [step |-> "create", n |-> 1]]
    /\ clean' = [clean EXCEPT ![f] = TRUE]
    /\ applied' = [applied EXCEPT ![f] = FALSE]
    /\ UNCHANGED <<target, wide, bak, theirs, drifted, raced, unsaved, writes>>

\* CREATE TABLE IF NOT EXISTS ... LIKE: the columns of this moment.
CreateBackup(f) ==
    /\ At(f, "create")
    /\ bak' = IF bak[f] = NoTable
              THEN [bak EXCEPT ![f] = [wide |-> wide, rows |-> <<>>]] ELSE bak
    /\ Succeeds(f)
    /\ UNCHANGED target

\* A row of the chunk is in the backup table already.
Conflict(f) ==
    /\ bak[f] # NoTable
    /\ RowsOf(target, Chunk(f)) \cap DOMAIN bak[f].rows # {}

\* Mutant of Saved: INSERT IGNORE of the identities not backed up yet.
SavedOnce(f) ==
    LET fresh == {pk \in RowsOf(target, Chunk(f)) :
                    \A q \in DOMAIN bak[f].rows : q[1] # pk[1]}
    IN  [pk \in DOMAIN bak[f].rows \cup fresh |->
            IF pk \in fresh THEN target[pk] ELSE bak[f].rows[pk]]

\* What the backup table holds once the chunk is in it.
Saved(f) ==
    [pk \in DOMAIN bak[f].rows \cup RowsOf(target, Chunk(f)) |->
        IF pk \in RowsOf(target, Chunk(f)) THEN target[pk] ELSE bak[f].rows[pk]]

\* INSERT INTO backup SELECT * FROM table WHERE the key is in the chunk.
BackUp(f) ==
    /\ At(f, "backup")
    /\ bak[f] # NoTable
    /\ bak[f].wide = wide
    /\ ~ Conflict(f)
    /\ bak' = [bak EXCEPT ![f].rows = Saved(f)]
    /\ Succeeds(f)
    /\ UNCHANGED target

\* Mutant of Deletes: the whole primary key is named, as the source has it.
DeletesExactly(f) ==
    {pk \in RowsOf(target, Chunk(f)) :
        f = "data" => pk[2] = Live[pk[1]].ver}

\* The key list holds identities, so every version of one goes.
Deletes(f) == RowsOf(target, Chunk(f))

DeleteChunk(f) ==
    /\ At(f, "delete")
    /\ target' = [pk \in DOMAIN target \ Deletes(f) |-> target[pk]]
    /\ Succeeds(f)
    /\ UNCHANGED bak

InsertRow ==
    /\ At("data", "insert")
    /\ NewColumn => wide
    /\ LET id == Inserts[pos["data"].n]
           pk == <<id, Live[id].ver>>
       IN  /\ pk \notin DOMAIN target
           /\ target' = [p \in DOMAIN target \cup {pk} |->
                            IF p = pk THEN Live[id].val ELSE target[p]]
    /\ Succeeds("data")
    /\ UNCHANGED bak

\* A statement fails, for a reason of its own or in passing, and the next one
\* is run all the same.
Skip(f) ==
    /\ ~ At(f, "idle")
    /\ Advance(f, pos[f].step \in {"create", "backup"})
    /\ unsaved' = \/ unsaved
                  \/ At(f, "backup") /\ ~ Conflict(f) /\ RowsOf(target, Chunk(f)) # {}
    /\ raced' = (raced \/ (At(f, "backup") /\ drifted[f]))
    /\ UNCHANGED <<target, wide, bak, theirs, drifted, counters>>

\* A run ends before the end of the file.
Halt(f) ==
    /\ ~ At(f, "idle")
    /\ pos' = [pos EXCEPT ![f] = Idle]
    /\ UNCHANGED <<target, wide, bak, history, counters>>

-----------------------------------------------------------------------------
(* The rest of the world.                                                  *)

\* 01-schema-auto.sql, if it has the new column.
WidenTable ==
    /\ NewColumn /\ ~ wide
    /\ wide' = TRUE
    /\ UNCHANGED <<target, bak, pos, history, counters>>

\* Another program has written to pk: new, afterwards.
Drift(pk) ==
    LET hit(f) == pk[1] \in Listed(f)
    IN  /\ writes < MaxWrites
        /\ writes' = writes + 1
        /\ clean'   = [f \in File |-> clean[f] /\ ~ hit(f)]
        /\ applied' = [f \in File |-> applied[f] /\ ~ hit(f)]
        /\ drifted' = [f \in File |-> drifted[f] \/ (hit(f) /\ runs[f] > 0)]
        /\ raced'   = (raced \/ \E f \in File : hit(f) /\ ~ At(f, "idle"))
        /\ UNCHANGED <<wide, bak, pos, unsaved, runs>>

With(table, pk, row) ==
    [p \in DOMAIN table \cup {pk} |-> IF p = pk THEN row ELSE table[p]]
Without(table, pk) == [p \in DOMAIN table \ {pk} |-> table[p]]

OtherPuts(pk, row) ==
    /\ target' = With(target, pk, row)
    /\ theirs' = With(theirs, pk, row)
    /\ Drift(pk)

OtherDrops(pk) ==
    /\ pk \in DOMAIN target
    /\ target' = Without(target, pk)
    /\ theirs' = Without(theirs, pk)
    /\ Drift(pk)

-----------------------------------------------------------------------------

Init ==
    /\ target \in InitTargets
    /\ theirs = target
    /\ wide = FALSE
    /\ bak = [f \in File |-> NoTable]
    /\ pos = [f \in File |-> Idle]
    /\ clean = [f \in File |-> FALSE]
    /\ applied = clean
    /\ drifted = clean
    /\ raced = FALSE
    /\ unsaved = FALSE
    /\ runs = [f \in File |-> 0]
    /\ writes = 0

Next ==
    \/ \E f \in File :
         \/ Begin(f)
         \/ CreateBackup(f)
         \/ BackUp(f)
         \/ DeleteChunk(f)
         \/ Skip(f)
         \/ Halt(f)
    \/ InsertRow
    \/ WidenTable
    \/ \E pk \in PK, row \in Row : OtherPuts(pk, row)
    \/ \E pk \in PK : OtherDrops(pk)

Spec == Init /\ [][Next]_vars

-----------------------------------------------------------------------------
(* Properties.                                                             *)

\* Every variable keeps its type; a run is at a statement its file has.
TypeOK ==
    /\ target \in Table /\ theirs \in Table
    /\ wide \in BOOLEAN
    /\ bak \in [File -> {NoTable} \cup Backup]
    /\ pos \in [File -> Position]
    /\ \A f \in File : Placed(f, pos[f])
    /\ clean \in [File -> BOOLEAN] /\ applied \in [File -> BOOLEAN]
    /\ drifted \in [File -> BOOLEAN]
    /\ raced \in BOOLEAN /\ unsaved \in BOOLEAN
    /\ runs \in [File -> Nat] /\ writes \in Nat

\* Fills a row in which 03 names every column.
Blanks == [c \in Column |-> Null]

Holds(table, pk) == pk \in DOMAIN table /\ table[pk] = theirs[pk]
SavedBy(f, pk)   == bak[f] # NoTable /\ Holds(bak[f].rows, pk)

\* Whatever a file removed can be found in its own backup table (README.md,
\* "单独跑任何一个，它删掉的东西都能从自己那张备份表里找回来"): after failures,
\* interruptions and reruns, in any order of the two files, as long as no
\* other program wrote to the listed rows in between and the only failing
\* backups that were skipped met a row that was in the backup table already.
Recoverable ==
    raced \/ unsaved \/
    \A pk \in DOMAIN theirs :
        Holds(target, pk) \/ \E f \in File : pk[1] \in Listed(f) /\ SavedBy(f, pk)

\* After a run whose DELETEs and INSERTs all succeeded, the table holds the
\* rows of the comparison and no other version of their identities, none of
\* the removed ones, and of the rest what it held: what SyncRounds takes the
\* scripts to do in one step, whatever runs came before.
Effect ==
    /\ applied["data"] =>
         \A pk \in PK : pk[1] \in Listed("data") =>
             (pk \in DOMAIN target <=> pk[2] = Live[pk[1]].ver)
    /\ (applied["data"] /\ applied["delete"]) =>
         target = Remove(Overwrite(theirs, Listed("data"), Live, Column, Blanks),
                         Listed("delete"))

\* README.md of a rerun: a backup that fails on the primary key can be
\* skipped, "那说明已经备份过了" (the rows have been backed up already).
ConflictMeansSaved ==
    \A f \in File :
        (At(f, "backup") /\ Conflict(f)) =>
            \A pk \in RowsOf(target, Chunk(f)) :
                (pk \in DOMAIN theirs /\ target[pk] = theirs[pk])
                    => pk \in DOMAIN bak[f].rows /\ bak[f].rows[pk] = target[pk]

=============================================================================
