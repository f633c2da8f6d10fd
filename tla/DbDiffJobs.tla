----------------------------- MODULE DbDiffJobs -----------------------------
(***************************************************************************)
(* The sidecar process: its request handlers, the worker thread of the     *)
(* running job (a snapshot or a comparison), the job slot they share, and  *)
(* the snapshot directories on disk; with crashes of the process.          *)
(*                                                                         *)
(* A worker runs run_snapshot (backend/src/snapshot.rs) or run and         *)
(* collect_and_compare (backend/src/diff.rs) and then settle.  Its steps   *)
(* are cut at every point where another thread's step can matter: around   *)
(* each access of the slot, each file, and each dbx query, which takes     *)
(* from milliseconds to minutes and during which the user may cancel.      *)
(***************************************************************************)
EXTENDS JobSlot

CONSTANTS
    Handlers,      \* the threads the plugin SDK serves requests on
    MaxPages       \* the bound on the full pages of one table

ASSUME PagesAssumption == MaxPages \in Nat

VARIABLES
    work,               \* the worker thread of each job
    handler,            \* what each request handler is in the middle of
    asked,              \* ids the user has asked to delete
    discarded,          \* ids a failed or cancelled job has set out to remove
    finished            \* the snapshots jobs reported done, with their writer

vars == <<storeVars, slotVars, work, handler, asked, discarded, finished>>

-----------------------------------------------------------------------------
(* The worker's program counter.  A step named after a query or a file is  *)
(* the one in which that query is in flight or that file is being written. *)

\* Inside a query that polls the cancel flag, or inside one that does not.
Killable   == {"fetch", "schema"}
Unkillable == {"resolve", "count", "probe"}

\* Before the job has a directory, after, and at the end.
Early  == {"resolve", "name", "mkdir"}
Middle == {"base", "schema", "table", "page", "fetch", "flush", "count",
           "schemaFile", "probe", "metaOpen", "metaClose", "outputs"}
PC     == {"unused", "cleanup", "settle", "gone"} \cup Early \cup Middle

Alive(j) == work[j].pc \notin {"unused", "gone"}

Idle == [op |-> "idle", key |-> NoKey, by |-> NoJob]

NoWork == [pc |-> "unused", kind |-> "snapshot", db |-> NoKey, own |-> NoKey,
           base |-> NoKey, baseBy |-> NoJob, seen |-> {}, tables |-> 0,
           pages |-> 0, outcome |-> "none", late |-> 0]

Work == [pc : PC, kind : Kind, db : Databases \cup {NoKey},
         own : Key \cup {NoKey}, base : Key \cup {NoKey},
         baseBy : Writer \cup {NoJob}, seen : SUBSET (Writer \cup {Partial}),
         tables : 0 .. NumTables, pages : 0 .. MaxPages,
         outcome : Outcome \cup {"none"}, late : Nat]

(* The variables' types.                                                   *)
TypeOK ==
    /\ StoreTypeOK
    /\ SlotTypeOK
    /\ work \in [Jobs -> Work]
    /\ handler \in [Handlers -> [op : {"idle", "list", "delete", "diff"},
                                 key : Key \cup {NoKey},
                                 by : Writer \cup {NoJob}]]
    /\ asked \subseteq Key
    /\ discarded \subseteq Key
    /\ finished \subseteq Key \X Writer

Init ==
    /\ StoreInit
    /\ SlotInit
    /\ work = [j \in Jobs |-> NoWork]
    /\ handler = [h \in Handlers |-> Idle]
    /\ asked = {}
    /\ discarded = {}
    /\ finished = legacy \X {Old}

-----------------------------------------------------------------------------
(* Request handlers.                                                       *)

\* start_create and the end of diff::start: take the slot, start the thread.
Launch(j, first) ==
    /\ work[j].pc = "unused"
    /\ BeginJob(j, first.kind, NumTables + 1)
    /\ work' = [work EXCEPT ![j] = first]

StartCreate(h, j, d) ==
    /\ handler[h] = Idle
    /\ Launch(j, [NoWork EXCEPT !.pc = "resolve", !.kind = "snapshot", !.db = d])
    /\ UNCHANGED <<storeVars, handler, asked, discarded, finished>>

\* diff::start up to the checks on the baseline; the live table shapes are
\* then queried before the slot is taken.
CheckBaseline(h, k) ==
    /\ handler[h] = Idle
    /\ Readable(k)
    /\ handler' = [handler EXCEPT ![h] = [op |-> "diff", key |-> k,
                                          by |-> content[k][Meta]]]
    /\ UNCHANGED <<storeVars, slotVars, work, asked, discarded, finished>>

StartDiff(h, j) ==
    /\ handler[h].op = "diff"
    /\ Launch(j, [NoWork EXCEPT !.pc = "name", !.kind = "diff",
                                !.db = handler[h].key[1],
                                !.base = handler[h].key,
                                !.baseBy = handler[h].by])
    /\ handler' = [handler EXCEPT ![h] = Idle]
    /\ UNCHANGED <<storeVars, asked, discarded, finished>>

\* A busy slot, a refused plan, a failed query, or a changed filter.
RefuseDiff(h) ==
    /\ handler[h].op = "diff"
    /\ handler' = [handler EXCEPT ![h] = Idle]
    /\ UNCHANGED <<storeVars, slotVars, work, asked, discarded, finished>>

Cancel(h) ==
    /\ handler[h] = Idle
    /\ RequestCancel
    /\ UNCHANGED <<storeVars, work, handler, asked, discarded, finished>>

\* snapshot/list moves flat snapshots, one rename after the other, and then
\* reads the directories.
StartList(h) ==
    /\ handler[h] = Idle
    /\ handler' = [handler EXCEPT ![h] = [Idle EXCEPT !.op = "list"]]
    /\ UNCHANGED <<storeVars, slotVars, work, asked, discarded, finished>>

MigrateOne(h, k) ==
    /\ handler[h].op = "list"
    /\ MoveLegacy(k)
    /\ UNCHANGED <<slotVars, work, handler, asked, discarded, finished>>

FinishList(h) ==
    /\ handler[h].op = "list"
    /\ handler' = [handler EXCEPT ![h] = Idle]
    /\ UNCHANGED <<storeVars, slotVars, work, asked, discarded, finished>>

\* snapshot/delete, on an id the list shows.
StartDelete(h, k) ==
    /\ handler[h] = Idle
    /\ Readable(k)
    /\ handler' = [handler EXCEPT ![h] = [Idle EXCEPT !.op = "delete", !.key = k]]
    /\ asked' = asked \cup {k}
    /\ UNCHANGED <<storeVars, slotVars, work, discarded, finished>>

DeleteFile(h, p) ==
    /\ handler[h].op = "delete"
    /\ RemoveFile(handler[h].key, p)
    /\ UNCHANGED <<slotVars, work, handler, asked, discarded, finished>>

\* The directory is gone for every handler that was removing it.
DeleteDir(h) ==
    /\ handler[h].op = "delete"
    /\ RemoveDir(handler[h].key)
    /\ handler' = [x \in Handlers |->
           IF handler[x].op = "delete" /\ handler[x].key = handler[h].key
               THEN Idle ELSE handler[x]]
    /\ UNCHANGED <<slotVars, work, asked, discarded, finished>>

\* An entry that cannot be removed ends remove_dir_all where it is.
DeleteFails(h) ==
    /\ handler[h].op = "delete"
    /\ handler' = [handler EXCEPT ![h] = Idle]
    /\ UNCHANGED <<storeVars, slotVars, work, asked, discarded, finished>>

HandlerStep(h) ==
    \/ \E j \in Jobs, d \in Databases : StartCreate(h, j, d)
    \/ \E k \in Key : CheckBaseline(h, k)
    \/ \E j \in Jobs : StartDiff(h, j)
    \/ RefuseDiff(h)
    \/ Cancel(h)
    \/ StartList(h)
    \/ \E k \in Key : MigrateOne(h, k)
    \/ FinishList(h)
    \/ \E k \in Key : StartDelete(h, k)
    \/ \E p \in Part : DeleteFile(h, p)
    \/ DeleteDir(h)
    \/ DeleteFails(h)

-----------------------------------------------------------------------------
(* The worker thread of job j.                                             *)

At(j, pc)      == work[j].pc = pc
Goto(j, pc)    == work' = [work EXCEPT ![j].pc = pc]
Cancelled(j)   == cancelFlag[j]
IsSnapshot(j)  == work[j].kind = "snapshot"
Own(j)         == work[j].own
NextTable(j)   == work[j].tables + 1

\* A thread's locals end with it.
Gone(j) == [NoWork EXCEPT !.pc = "gone", !.kind = work[j].kind,
                          !.outcome = work[j].outcome]

\* A query is started although the job has been told to stop.
LateBy(j)      == IF Cancelled(j) THEN 1 ELSE 0

handlerVars == <<handler, asked>>

\* Mutant of Abort: the two ids a comparison passes around are swapped.
AbortWrongId(j, outcome) ==
    /\ work' = [work EXCEPT ![j].pc = "cleanup", ![j].outcome = outcome,
                           ![j].own = IF IsSnapshot(j) THEN @ ELSE work[j].base]
    /\ discarded' = discarded \cup {Own(j)}
    /\ UNCHANGED <<storeVars, slotVars, handlerVars, finished>>

\* Every early return after the directory exists removes it first.
Abort(j, outcome) ==
    /\ work' = [work EXCEPT ![j].pc = "cleanup", ![j].outcome = outcome]
    /\ discarded' = discarded \cup {Own(j)}
    /\ UNCHANGED <<storeVars, slotVars, handlerVars, finished>>

\* Mutant of GiveUp: a return from the thread that skips settle.
GiveUpUnsettled(j) ==
    /\ work' = [work EXCEPT ![j].pc = "gone", ![j].outcome = "failed"]
    /\ UNCHANGED <<storeVars, slotVars, handlerVars, discarded, finished>>

\* Before that there is nothing to remove.
GiveUp(j) ==
    /\ work' = [work EXCEPT ![j].pc = "settle", ![j].outcome = "failed"]
    /\ UNCHANGED <<storeVars, slotVars, handlerVars, discarded, finished>>

\* resolve_specs, which ignores the cancel flag.
ResolveSpecs(j) ==
    /\ At(j, "resolve")
    /\ \/ /\ Goto(j, "name")
          /\ UNCHANGED <<storeVars, slotVars, handlerVars, discarded, finished>>
       \/ GiveUp(j)

ChooseName(j) ==
    /\ At(j, "name")
    /\ \E k \in Key :
          /\ FreshKey(work[j].db, k)
          /\ work' = [work EXCEPT ![j].pc = "mkdir", ![j].own = k]
    /\ UNCHANGED <<storeVars, slotVars, handlerVars, discarded, finished>>

\* A directory created under a name used before has none of its history, and
\* is not the baseline a request has checked.
Forget(k) ==
    IF k \in dirs
        THEN UNCHANGED <<handler, asked, discarded, finished>>
        ELSE /\ handler' = [h \in Handlers |->
                   IF handler[h].op = "diff" /\ handler[h].key = k
                       THEN [handler[h] EXCEPT !.by = NoJob] ELSE handler[h]]
             /\ asked' = asked \ {k}
             /\ discarded' = discarded \ {k}
             /\ finished' = {f \in finished : f[1] # k}

\* Only the snapshot reports its id here; a comparison does when it is done.
PrepareDir(j) ==
    /\ At(j, "mkdir")
    /\ \/ /\ MakeDir(Own(j))
          /\ IF IsSnapshot(j)
                THEN /\ Goto(j, "table")
                     /\ ReportKey(Own(j))
                ELSE /\ Goto(j, "base")
                     /\ UNCHANGED slotVars
          /\ Forget(Own(j))
       \/ GiveUp(j)

\* read_jsonl and read_baseline_rows: schema.jsonl first, then every data
\* file meta.json names.  A truncated file may or may not parse.
BaselinePart(j) == IF work[j].seen = {} THEN Schema ELSE NextTable(j)

\* Mutant of ReadBaseline: a missing data file reads as an empty table.
ReadBaselineDefault(j) ==
    LET p == BaselinePart(j)
    IN  /\ At(j, "base")
        /\ work[j].tables < NumTables
        /\ work' = [work EXCEPT ![j].seen = @ \cup {content[work[j].base][p]},
                               ![j].tables = IF p = Schema THEN 0 ELSE @ + 1]
        /\ UNCHANGED <<storeVars, slotVars, handlerVars, discarded, finished>>

ReadBaseline(j) ==
    LET p   == BaselinePart(j)
        got == content[work[j].base][p]
    IN  /\ At(j, "base")
        /\ work[j].tables < NumTables
        /\ \/ /\ got # Absent
              /\ work' = [work EXCEPT ![j].seen = @ \cup {got},
                                     ![j].tables = IF p = Schema THEN 0 ELSE @ + 1]
              /\ UNCHANGED <<storeVars, slotVars, handlerVars, discarded, finished>>
           \/ /\ got \in {Absent, Partial}
              /\ Abort(j, "failed")

\* Mutant of BaselineRead: the table counter is not reset for the live read.
BaselineReadNoReset(j) ==
    /\ At(j, "base")
    /\ work[j].tables = NumTables
    /\ \/ /\ Cancelled(j)
          /\ Abort(j, "cancelled")
       \/ /\ ~Cancelled(j)
          /\ Goto(j, "schema")
          /\ ReportDone(1)
          /\ UNCHANGED <<storeVars, handlerVars, discarded, finished>>

\* The first check_cancel of a comparison.
BaselineRead(j) ==
    /\ At(j, "base")
    /\ work[j].tables = NumTables
    /\ \/ /\ Cancelled(j)
          /\ Abort(j, "cancelled")
       \/ /\ ~Cancelled(j)
          /\ work' = [work EXCEPT ![j].pc = "schema", ![j].tables = 0]
          /\ ReportDone(1)
          /\ UNCHANGED <<storeVars, handlerVars, discarded, finished>>

\* Mutant of CollectSchema: the collection never looks at the flag.
CollectSchemaDeaf(j) ==
    /\ At(j, "schema")
    /\ \/ Abort(j, "failed")
       \/ /\ Goto(j, IF IsSnapshot(j) THEN "schemaFile" ELSE "table")
          /\ UNCHANGED <<storeVars, slotVars, handlerVars, discarded, finished>>

\* schema::collect (and, in a comparison, the column types): every page
\* checks the flag before it starts and while it runs.
CollectSchema(j) ==
    /\ At(j, "schema")
    /\ \/ /\ Cancelled(j)
          /\ Abort(j, "cancelled")
       \/ /\ ~Cancelled(j)
          /\ Abort(j, "failed")
       \/ /\ ~Cancelled(j)
          /\ Goto(j, IF IsSnapshot(j) THEN "schemaFile" ELSE "table")
          /\ UNCHANGED <<storeVars, slotVars, handlerVars, discarded, finished>>

\* The head of the per-table loop, and the creation of the data file.
BeginTable(j) ==
    /\ At(j, "table")
    /\ \/ /\ Cancelled(j)
          /\ Abort(j, "cancelled")
       \/ /\ ~Cancelled(j)
          /\ CreateFile(Own(j), NextTable(j))
          /\ work' = [work EXCEPT ![j].pc = "page", ![j].pages = 0]
          /\ IF IsSnapshot(j) THEN ReportDone(work[j].tables) ELSE UNCHANGED slotVars
          /\ UNCHANGED <<handlerVars, discarded, finished>>
       \/ /\ ~Cancelled(j)
          /\ Abort(j, "failed")

\* scan_table asks the slot, not its own flag, before every page ...
BeginPage(j) ==
    /\ At(j, "page")
    /\ \/ /\ SlotCancelled
          /\ Abort(j, "cancelled")
       \/ /\ ~SlotCancelled
          /\ Goto(j, "fetch")
          /\ UNCHANGED <<storeVars, slotVars, handlerVars, discarded, finished>>

\* ... and while the page is in flight.  A full page is followed by another.
FetchPage(j) ==
    /\ At(j, "fetch")
    /\ \/ /\ SlotCancelled
          /\ Abort(j, "cancelled")
       \/ /\ ~SlotCancelled
          /\ Abort(j, "failed")
       \/ /\ ~SlotCancelled
          /\ work[j].pages < MaxPages
          /\ work' = [work EXCEPT ![j].pc = "page", ![j].pages = @ + 1]
          /\ UNCHANGED <<storeVars, slotVars, handlerVars, discarded, finished>>
       \/ /\ ~SlotCancelled
          /\ Goto(j, "flush")
          /\ UNCHANGED <<storeVars, slotVars, handlerVars, discarded, finished>>

\* The data file is complete; COUNT(*) starts, whatever the flag says.
FlushTable(j) ==
    /\ At(j, "flush")
    /\ \/ /\ FinishFile(Own(j), NextTable(j), j)
          /\ work' = [work EXCEPT ![j].pc = "count", ![j].late = @ + LateBy(j)]
          /\ UNCHANGED <<slotVars, handlerVars, discarded, finished>>
       \/ Abort(j, "failed")

\* Mutant of CountRows: a comparison counts its tables from zero again.
CountRowsFromZero(j) ==
    LET last == NextTable(j) = NumTables
    IN  /\ At(j, "count")
        /\ work' = [work EXCEPT
               ![j].tables = @ + 1,
               ![j].pc = CASE ~last                  -> "table"
                           [] last /\ IsSnapshot(j)  -> "schema"
                           [] last /\ ~IsSnapshot(j) -> "schemaFile"]
        /\ ReportDone(IF IsSnapshot(j) THEN NextTable(j) ELSE work[j].tables)
        /\ UNCHANGED <<storeVars, handlerVars, discarded, finished>>

\* count_rows(...).ok(): a failed count is not an error.  A comparison does
\* not look at the flag again after its last table.
CountRows(j) ==
    LET last == NextTable(j) = NumTables
    IN  /\ At(j, "count")
        /\ work' = [work EXCEPT
               ![j].tables = @ + 1,
               ![j].pc = CASE ~last                  -> "table"
                           [] last /\ IsSnapshot(j)  -> "schema"
                           [] last /\ ~IsSnapshot(j) -> "schemaFile"]
        /\ ReportDone(IF IsSnapshot(j) THEN NextTable(j) ELSE NextTable(j) + 1)
        /\ UNCHANGED <<storeVars, handlerVars, discarded, finished>>

\* schema.jsonl.  The snapshot then reports full progress and probes the
\* session, again whatever the flag says.
WriteSchema(j) ==
    /\ At(j, "schemaFile")
    /\ \/ /\ Own(j) \in dirs
          /\ content' = [content EXCEPT ![Own(j)][Schema] = j]
          /\ UNCHANGED <<clock, dirs, legacy>>
          /\ IF IsSnapshot(j)
                THEN /\ work' = [work EXCEPT ![j].pc = "probe",
                                            ![j].late = @ + LateBy(j)]
                     /\ ReportDone(slot.tablesTotal)
                ELSE /\ Goto(j, "metaOpen")
                     /\ UNCHANGED slotVars
          /\ UNCHANGED <<handlerVars, discarded, finished>>
       \/ Abort(j, "failed")

\* probe_session: its answer is recorded, its failure is not an error.
ProbeSession(j) ==
    /\ At(j, "probe")
    /\ Goto(j, "metaOpen")
    /\ UNCHANGED <<storeVars, slotVars, handlerVars, discarded, finished>>

\* write_meta is an fs::write: the file is truncated, then filled.
OpenMeta(j) ==
    /\ At(j, "metaOpen")
    /\ \/ /\ CreateFile(Own(j), Meta)
          /\ Goto(j, "metaClose")
          /\ UNCHANGED <<slotVars, handlerVars, discarded, finished>>
       \/ Abort(j, "failed")

CloseMeta(j) ==
    /\ At(j, "metaClose")
    /\ \/ /\ FinishFile(Own(j), Meta, j)
          /\ work' = IF IsSnapshot(j)
                        THEN [work EXCEPT ![j].pc = "settle", ![j].outcome = "done"]
                        ELSE [work EXCEPT ![j].pc = "outputs"]
          /\ UNCHANGED <<slotVars, handlerVars, discarded, finished>>
       \/ Abort(j, "failed")

\* Mutant of WriteOutputs: its error returns without the deletion in run.
WriteOutputsNoCleanup(j) ==
    /\ At(j, "outputs")
    /\ \/ /\ work' = [work EXCEPT ![j].pc = "settle", ![j].outcome = "done"]
          /\ UNCHANGED <<storeVars, slotVars, handlerVars, discarded, finished>>
       \/ GiveUp(j)

\* write_outputs: the SQL files, the report and the manifest.
WriteOutputs(j) ==
    /\ At(j, "outputs")
    /\ \/ /\ work' = [work EXCEPT ![j].pc = "settle", ![j].outcome = "done"]
          /\ UNCHANGED <<storeVars, slotVars, handlerVars, discarded, finished>>
       \/ Abort(j, "failed")

\* cleanup, and the deletion in run: store::delete with its error ignored.
Cleanup(j) ==
    /\ At(j, "cleanup")
    /\ \/ /\ \E p \in Part : RemoveFile(Own(j), p)
          /\ UNCHANGED <<work, handler>>
       \/ /\ RemoveDir(Own(j))
          /\ Goto(j, "settle")
          /\ handler' = [h \in Handlers |->
                 IF handler[h].op = "delete" /\ handler[h].key = Own(j)
                     THEN Idle ELSE handler[h]]
       \/ /\ Goto(j, "settle")
          /\ UNCHANGED <<storeVars, handler>>
    /\ UNCHANGED <<slotVars, asked, discarded, finished>>

\* Mutant of Settle: a raised flag makes any ending a cancellation.
SettleByFlag(j) ==
    /\ At(j, "settle")
    /\ SettleJob(IF Cancelled(j) THEN "cancelled" ELSE work[j].outcome, Own(j))
    /\ work' = [work EXCEPT ![j] = Gone(j)]
    /\ finished' = IF work[j].outcome = "done"
                      THEN finished \cup {<<Own(j), j>>} ELSE finished
    /\ UNCHANGED <<storeVars, handlerVars, discarded>>

Settle(j) ==
    /\ At(j, "settle")
    /\ SettleJob(work[j].outcome, Own(j))
    /\ work' = [work EXCEPT ![j] = Gone(j)]
    /\ finished' = IF work[j].outcome = "done"
                      THEN finished \cup {<<Own(j), j>>} ELSE finished
    /\ UNCHANGED <<storeVars, handlerVars, discarded>>

WorkerStep(j) ==
    \/ ResolveSpecs(j) \/ ChooseName(j)   \/ PrepareDir(j)
    \/ ReadBaseline(j) \/ BaselineRead(j) \/ CollectSchema(j)
    \/ BeginTable(j)   \/ BeginPage(j)    \/ FetchPage(j)
    \/ FlushTable(j)   \/ CountRows(j)    \/ WriteSchema(j)
    \/ ProbeSession(j) \/ OpenMeta(j)     \/ CloseMeta(j)
    \/ WriteOutputs(j) \/ Cleanup(j)      \/ Settle(j)

-----------------------------------------------------------------------------
(* The process dies and is started again: the slot, the handlers and the   *)
(* threads are gone, the disk stays as it is.                              *)
Crash ==
    /\ slot' = EmptySlot
    /\ work' = [j \in Jobs |->
           IF Alive(j) THEN Gone(j) ELSE work[j]]
    /\ handler' = [h \in Handlers |-> Idle]
    /\ UNCHANGED <<storeVars, cancelFlag, asked, discarded, finished>>

Clock ==
    /\ Tick
    /\ UNCHANGED <<slotVars, work, handlerVars, discarded, finished>>

Next ==
    \/ \E h \in Handlers : HandlerStep(h)
    \/ \E j \in Jobs : WorkerStep(j)
    \/ Crash
    \/ Clock

(* A worker is a thread that is never waited for: dbx queries end at their *)
(* deadline at the latest (cli.rs), so its next step always comes.         *)
Fairness == \A j \in Jobs : WF_vars(WorkerStep(j))

Spec == Init /\ [][Next]_vars /\ Fairness

-----------------------------------------------------------------------------
(* Properties.                                                             *)

(* One job at a time: as long as any worker thread is alive -- removing    *)
(* its leftovers included -- the slot says running and describes that very *)
(* thread's job, so its with_job and settle calls reach no other job.      *)
OneWorker == \A j \in Jobs : Alive(j) => Running /\ slot.owner = j

(* What snapshot/list shows is a whole snapshot of one run: every file     *)
(* complete and from the job that wrote meta.json.  Excepted are ids whose *)
(* removal has begun (and may have been cut short).                        *)
ListedComplete ==
    \A k \in Key : Readable(k) /\ k \notin asked \cup discarded => Complete(k)

(* A snapshot a job reported done, and one an older version left behind,   *)
(* stays intact -- through other jobs and their cleanup, crashes, and the  *)
(* move to the new layout -- until the user asks to delete that id.        *)
FinishedSurvives ==
    \A f \in finished :
        \/ f[1] \in asked
        \/ f[1] \in dirs /\ content[f[1]] = FilesBy(f[2])
        \/ f[1] \in legacy /\ f[2] = Old

(* A comparison that goes on after reading its baseline has read all of it *)
(* from one whole snapshot, even if that is deleted while the job runs:    *)
(* the one whose meta.json the request was checked against, unless its     *)
(* name has gone to another snapshot before the job started.               *)
BaselineSound ==
    \A j \in Jobs : \E w \in Writer :
        /\ work[j].seen \subseteq {w}
        /\ work[j].baseBy \in {w, NoJob}

(* A job that ends cancelled or failed leaves nothing that can be read as  *)
(* a snapshot, except a comparison whose cleanup could not be completed.   *)
NothingLeftBehind ==
    \A j \in Jobs, k \in dirs :
        /\ At(j, "gone")
        /\ work[j].outcome \in {"cancelled", "failed"}
        /\ content[k][Meta] = j
        => ~IsSnapshot(j) /\ k \in discarded

(* After a cancel the job starts at most one more dbx query, wherever the  *)
(* cancel finds it.                                                        *)
AtMostOneLateQuery == \A j \in Jobs : work[j].late <= 1

(* The progress a running job shows never goes back and never exceeds its  *)
(* total, over the three writers of tables_done and both kinds of job.     *)
ProgressMonotone ==
    [][Running /\ slot'.owner = slot.owner
         => slot'.tablesDone \in slot.tablesDone .. slot.tablesTotal]_vars

(* The slot does not stay taken: every job settles (or dies in a crash).   *)
JobSettles == Running ~> ~Running

-----------------------------------------------------------------------------
(* The abstract view: only whole, readable directories count, and a        *)
(* removal takes effect when it begins.                                    *)

UsableBy(k) == IF Readable(k) /\ k \notin asked \cup discarded
                   THEN content[k][Meta] ELSE NoJob

Published(j) ==
    \/ At(j, "outputs")
    \/ At(j, "settle") /\ work[j].outcome = "done"

Atomic == INSTANCE AtomicStore WITH
              Keys      <- Key,
              usable    <- [k \in Key |-> UsableBy(k)],
              busy      <- IF Running THEN slot.owner ELSE NoJob,
              published <- \E j \in Jobs : Published(j),
              last      <- slot.phase

(* Files, threads, interrupted removals and crashes implement the atomic   *)
(* store: one snapshot per job appears, whole, and "done" is shown exactly *)
(* when it has.                                                            *)
ImplementsAtomicStore == Atomic!Spec

=============================================================================
