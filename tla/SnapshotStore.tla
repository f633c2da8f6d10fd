--------------------------- MODULE SnapshotStore ---------------------------
(***************************************************************************)
(* The snapshot directories of one connection (backend/src/store.rs).      *)
(*                                                                         *)
(* A snapshot is a directory named after the local wall-clock second it    *)
(* was started in, with a numeric suffix when that second is taken.  It    *)
(* holds one data file per compared table, schema.jsonl, and meta.json,    *)
(* which is written last; a directory is offered to the user exactly when  *)
(* its meta.json can be read.                                              *)
(*                                                                         *)
(* The contents of a file are abstracted to who finished writing it: a     *)
(* file is Absent, Partial (created, not finished), or complete, in which  *)
(* case its value is the job that wrote it (Old for a snapshot that was    *)
(* there before).                                                          *)
(***************************************************************************)
EXTENDS Integers, FiniteSets

CONSTANTS
    Databases,       \* the databases of the connection
    Seconds,         \* the wall-clock seconds of this run of the plugin
    LegacySeconds,   \* the seconds of snapshots in the flat, older layout
    MaxSuffix,       \* how many names one second offers (999 in the code)
    NumTables,       \* the compared tables (6 in tables.rs)
    Jobs,            \* the jobs ever launched
    Absent, Partial, Old

ASSUME StoreAssumption ==
    /\ NumTables \in Nat \ {0}
    /\ MaxSuffix \in Nat \ {0}
    /\ Seconds \cap LegacySeconds = {}
    /\ Absent # Partial
    /\ Old \notin Jobs \cup {Absent, Partial}
    /\ Absent \notin Jobs
    /\ Partial \notin Jobs

Tables == 1 .. NumTables
Schema == NumTables + 1
Meta   == NumTables + 2
Part   == 1 .. NumTables + 2

Key     == Databases \X (Seconds \cup LegacySeconds) \X (1 .. MaxSuffix)
Writer  == Jobs \cup {Old}
Content == Writer \cup {Absent, Partial}

VARIABLES
    clock,      \* the current second, Local::now()
    dirs,       \* the snapshot directories at <connection>/<database>/
    content,    \* what each of their files holds
    legacy      \* the snapshot directories still at <connection>/

storeVars == <<clock, dirs, content, legacy>>

StoreTypeOK ==
    /\ clock \in Seconds
    /\ dirs \subseteq Key
    /\ content \in [Key -> [Part -> Content]]
    /\ legacy \subseteq Key

NoFiles    == [p \in Part |-> Absent]
FilesBy(w) == [p \in Part |-> w]

(* Older versions may have left any set of complete flat snapshots.        *)
StoreInit ==
    /\ clock \in Seconds
    /\ dirs = {}
    /\ content = [k \in Key |-> NoFiles]
    /\ legacy \in SUBSET (Databases \X LegacySeconds \X {1})

-----------------------------------------------------------------------------
(* What a directory looks like from outside.                               *)

\* read_meta succeeds: snapshot/list shows it, diff/run accepts it.
Readable(k) == k \in dirs /\ content[k][Meta] \in Writer

\* Every file is there, finished, and from the job that wrote meta.json.
Complete(k) == \A p \in Part : content[k][p] = content[k][Meta]

-----------------------------------------------------------------------------
(* The operations, as the parts of an action that change the store.        *)

\* Mutant of FreshKey: the second is taken for unique.
FreshKeyUnchecked(d, k) == k = <<d, clock, 1>>

\* next_snapshot_id: the second itself, else the first free suffix.
FreshKey(d, k) ==
    \E n \in 1 .. MaxSuffix :
        /\ k = <<d, clock, n>>
        /\ k \notin dirs
        /\ \A m \in 1 .. n - 1 : <<d, clock, m>> \in dirs

\* prepare_dir: create_dir_all also succeeds on a directory that exists.
MakeDir(k) ==
    /\ dirs' = dirs \cup {k}
    /\ UNCHANGED <<clock, content, legacy>>

\* File::create and fs::write: the directory has to be there.
CreateFile(k, p) ==
    /\ k \in dirs
    /\ content' = [content EXCEPT ![k][p] = Partial]
    /\ UNCHANGED <<clock, dirs, legacy>>

\* The end of a write.  A file removed under its writer stays removed.
FinishFile(k, p, w) ==
    /\ content' = [content EXCEPT ![k][p] = IF @ = Partial THEN w ELSE @]
    /\ UNCHANGED <<clock, dirs, legacy>>

\* remove_dir_all takes the entries one by one, in no particular order ...
RemoveFile(k, p) ==
    /\ content[k][p] # Absent
    /\ content' = [content EXCEPT ![k][p] = Absent]
    /\ UNCHANGED <<clock, dirs, legacy>>

\* ... and the directory itself when nothing is left in it.
RemoveDir(k) ==
    /\ k \in dirs
    /\ content[k] = NoFiles
    /\ dirs' = dirs \ {k}
    /\ UNCHANGED <<clock, content, legacy>>

\* Mutant of MoveLegacy: a copy of the top-level files, without data/.
MoveLegacyByCopy(k) ==
    /\ k \in legacy
    /\ k \notin dirs
    /\ legacy' = legacy \ {k}
    /\ dirs' = dirs \cup {k}
    /\ content' = [content EXCEPT ![k] =
                       [p \in Part |-> IF p \in Tables THEN Absent ELSE Old]]
    /\ UNCHANGED clock

\* One rename of migrate_legacy.  Onto an existing directory it fails.
MoveLegacy(k) ==
    /\ k \in legacy
    /\ k \notin dirs
    /\ legacy' = legacy \ {k}
    /\ dirs' = dirs \cup {k}
    /\ content' = [content EXCEPT ![k] = FilesBy(Old)]
    /\ UNCHANGED clock

\* Local time: it advances, and it jumps at a clock change.
Tick ==
    /\ \E s \in Seconds : clock' = s
    /\ UNCHANGED <<dirs, content, legacy>>

=============================================================================
