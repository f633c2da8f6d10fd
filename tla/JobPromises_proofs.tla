------------------------- MODULE JobPromises_proofs -------------------------
(***************************************************************************)
(* What the jobs of DbDiffJobs promise beyond the store's consistency, for *)
(* any number of jobs, request handlers, tables, databases and clock       *)
(* readings: that a cancel starts at most one more query, that progress    *)
(* never goes back, that a comparison reads one snapshot, that a job that  *)
(* did not finish leaves nothing readable, and that all of it implements   *)
(* AtomicStore.                                                            *)
(***************************************************************************)
EXTENDS DbDiffJobs_proofs

-----------------------------------------------------------------------------
(* What the steps of a worker leave alone.                                 *)

\* The other threads, the flags, and whose job the slot describes.
LEMMA WorkerFrame ==
  ASSUME TypeOK, NEW j \in Jobs, WorkerStep(j)
  PROVE  /\ \A i \in Jobs : i # j => work'[i] = work[i]
         /\ UNCHANGED cancelFlag
         /\ slot'.owner = slot.owner /\ slot'.tablesTotal = slot.tablesTotal
<1>1. work \in [Jobs -> Work] /\ SlotTypeOK
  BY DEF TypeOK
<1>2. CASE ResolveSpecs(j) \/ ChooseName(j) \/ PrepareDir(j)
  BY <1>1, <1>2 DEF ResolveSpecs, ChooseName, PrepareDir, Goto, GiveUp, ReportKey,
     SlotTypeOK, slotVars
<1>3. CASE ReadBaseline(j) \/ BaselineRead(j) \/ CollectSchema(j)
  BY <1>1, <1>3 DEF ReadBaseline, BaselineRead, CollectSchema, Goto, Abort, ReportDone,
     SlotTypeOK, slotVars
<1>4. CASE BeginTable(j) \/ BeginPage(j) \/ FetchPage(j)
  BY <1>1, <1>4 DEF BeginTable, BeginPage, FetchPage, Goto, Abort, ReportDone,
     SlotTypeOK, slotVars
<1>5. CASE FlushTable(j) \/ CountRows(j) \/ WriteSchema(j)
  BY <1>1, <1>5 DEF FlushTable, CountRows, WriteSchema, Goto, Abort, ReportDone,
     SlotTypeOK, slotVars
<1>6. CASE ProbeSession(j) \/ OpenMeta(j) \/ CloseMeta(j) \/ WriteOutputs(j)
  BY <1>1, <1>6 DEF ProbeSession, OpenMeta, CloseMeta, WriteOutputs, Goto, Abort, slotVars
<1>7. CASE Cleanup(j) \/ Settle(j)
  BY <1>1, <1>7 DEF Cleanup, Settle, SettleJob, Goto, SlotTypeOK, slotVars
<1> QED
  BY <1>2, <1>3, <1>4, <1>5, <1>6, <1>7 DEF WorkerStep

-----------------------------------------------------------------------------
(* Queries after a cancel.                                                 *)

\* After its late query a job only meets checks of the flag that end it, or
\* steps without a query of their own.
LateInv(j) ==
    /\ work[j].late <= 1
    /\ work[j].late = 1 =>
         /\ cancelFlag[j]
         /\ \/ work[j].pc \in {"table", "count", "schema", "probe", "metaOpen",
                               "metaClose", "outputs", "cleanup", "settle"}
            \/ At(j, "schemaFile") /\ ~IsSnapshot(j)

LEMMA LateWorker ==
  ASSUME IInv, \A j \in Jobs : LateInv(j), NEW j \in Jobs, WorkerStep(j)
  PROVE  LateInv(j)'
<1>1. work[j] \in Work /\ work \in [Jobs -> Work] /\ LateInv(j) /\ UNCHANGED cancelFlag
      /\ cancelFlag[j] \in BOOLEAN /\ work[j].late \in Nat
  BY WorkerFrame DEF IInv, TypeOK, SlotTypeOK, Work
<1>2. Alive(j) => (SlotCancelled <=> cancelFlag[j])
  BY DEF IInv, OneWorker, SlotCancelled
<1> USE <1>1 DEF Work, LateInv, At, IsSnapshot, Goto, Abort, GiveUp, Cancelled, LateBy
<1>3. CASE ResolveSpecs(j) \/ ChooseName(j) \/ PrepareDir(j)
  BY <1>3 DEF ResolveSpecs, ChooseName, PrepareDir
<1>4. CASE ReadBaseline(j)
  BY <1>4 DEF ReadBaseline
<1>5. CASE BaselineRead(j) \/ CollectSchema(j)
  BY <1>5 DEF BaselineRead, CollectSchema
<1>6. CASE BeginTable(j) \/ BeginPage(j) \/ FetchPage(j)
  BY <1>2, <1>6 DEF BeginTable, BeginPage, FetchPage
<1>7. CASE FlushTable(j)
  BY <1>7 DEF FlushTable
<1>8. CASE CountRows(j) \/ WriteSchema(j)
  BY <1>8 DEF CountRows, WriteSchema
<1>9. CASE ProbeSession(j) \/ OpenMeta(j) \/ CloseMeta(j) \/ WriteOutputs(j)
  BY <1>9 DEF ProbeSession, OpenMeta, CloseMeta, WriteOutputs
<1>10. CASE Cleanup(j)
  BY <1>10 DEF Cleanup
<1>11. CASE Settle(j)
  BY <1>11 DEF Settle, Gone, NoWork
<1> QED
  BY <1>3, <1>4, <1>5, <1>6, <1>7, <1>8, <1>9, <1>10, <1>11 DEF WorkerStep

\* Job j has just been given the slot and a thread.
Launched(j) ==
    /\ ~Running /\ work[j].pc = "unused"
    /\ \A i \in Jobs : i # j => work'[i] = work[i] /\ cancelFlag'[i] = cancelFlag[i]
    /\ slot'.owner = j /\ slot'.phase = "running"
    /\ slot'.tablesDone = 0 /\ slot'.tablesTotal = NumTables + 1
    /\ work'[j].pc = IF work'[j].kind = "snapshot" THEN "resolve" ELSE "name"
    /\ work'[j].late = 0 /\ work'[j].seen = {} /\ work'[j].outcome = "none"

\* A handler starts a job, or leaves the slot and the threads alone.
LEMMA HandlerFrame ==
  ASSUME TypeOK, NEW h \in Handlers, HandlerStep(h)
  PROVE  \/ /\ UNCHANGED <<slot, work>>
            /\ \A j \in Jobs : cancelFlag[j] => cancelFlag'[j]
         \/ \E j \in Jobs : Launched(j) /\ UNCHANGED <<storeVars, asked, discarded, finished>>
<1>1. work \in [Jobs -> Work] /\ SlotTypeOK /\ cancelFlag \in [Jobs -> BOOLEAN]
  BY DEF TypeOK, SlotTypeOK
<1>2. ASSUME NEW j \in Jobs, NEW d \in Databases, StartCreate(h, j, d)
      PROVE  Launched(j) /\ UNCHANGED <<storeVars, asked, discarded, finished>>
  BY <1>1, <1>2 DEF StartCreate, Launch, Launched, BeginJob, NoWork
<1>3. ASSUME NEW j \in Jobs, StartDiff(h, j)
      PROVE  Launched(j) /\ UNCHANGED <<storeVars, asked, discarded, finished>>
  BY <1>1, <1>3 DEF StartDiff, Launch, Launched, BeginJob, NoWork
<1>4. ASSUME Cancel(h)
      PROVE  UNCHANGED <<slot, work>> /\ \A j \in Jobs : cancelFlag[j] => cancelFlag'[j]
  BY <1>1, <1>4 DEF Cancel, RequestCancel
<1>5. ASSUME \/ \E k \in Key : CheckBaseline(h, k) \/ MigrateOne(h, k) \/ StartDelete(h, k)
             \/ RefuseDiff(h) \/ StartList(h) \/ FinishList(h)
             \/ \E p \in Part : DeleteFile(h, p)
             \/ DeleteDir(h) \/ DeleteFails(h)
      PROVE  UNCHANGED <<slot, work, cancelFlag>>
  BY <1>5 DEF CheckBaseline, MigrateOne, StartDelete, RefuseDiff, StartList, FinishList,
     DeleteFile, DeleteDir, DeleteFails, slotVars
<1> QED
  BY <1>2, <1>3, <1>4, <1>5 DEF HandlerStep

LEMMA LateStep ==
  ASSUME IInv, \A j \in Jobs : LateInv(j), [Next]_vars
  PROVE  \A j \in Jobs : LateInv(j)'
<1>1. TypeOK /\ work \in [Jobs -> Work]
  BY DEF IInv, TypeOK
<1>2. ASSUME NEW j \in Jobs, WorkerStep(j), NEW i \in Jobs PROVE LateInv(i)'
  <2>1. CASE i = j
    BY <1>2, <2>1, LateWorker
  <2>2. CASE i # j
    BY <1>1, <1>2, <2>2, WorkerFrame DEF LateInv, At, IsSnapshot
  <2> QED
    BY <2>1, <2>2
<1>3. ASSUME NEW h \in Handlers, HandlerStep(h), NEW i \in Jobs PROVE LateInv(i)'
  <2>1. ASSUME UNCHANGED work, \A j \in Jobs : cancelFlag[j] => cancelFlag'[j]
        PROVE  LateInv(i)'
    BY <2>1 DEF LateInv, At, IsSnapshot
  <2>2. ASSUME NEW j \in Jobs, Launched(j) PROVE LateInv(i)'
    BY <2>2 DEF LateInv, Launched, At, IsSnapshot
  <2> QED
    BY <1>1, <1>3, <2>1, <2>2, HandlerFrame
<1>4. ASSUME Crash, NEW i \in Jobs PROVE LateInv(i)'
  <2>1. UNCHANGED cancelFlag /\ (work'[i] = work[i] \/ work'[i].late = 0)
    BY <1>4 DEF Crash, Gone, NoWork
  <2> QED
    BY <2>1 DEF LateInv, At, IsSnapshot
<1>5. ASSUME Clock \/ UNCHANGED vars, NEW i \in Jobs PROVE LateInv(i)'
  BY <1>5 DEF Clock, vars, slotVars, LateInv, At, IsSnapshot
<1> QED
  BY <1>2, <1>3, <1>4, <1>5 DEF Next

(* After a cancel a job starts at most one more dbx query, wherever the    *)
(* cancel finds it, with any number of tables and pages.                   *)
THEOREM CancelStopsQueries == Spec => []AtMostOneLateQuery
<1> DEFINE Late == \A j \in Jobs : LateInv(j)
<1>1. Init => Late
  BY DEF Init, LateInv, NoWork
<1>2. IInv /\ Late /\ [Next]_vars => Late'
  BY LateStep
<1>3. Late => AtMostOneLateQuery
  BY DEF LateInv, AtMostOneLateQuery
<1> HIDE DEF Late
<1> QED
  BY <1>1, <1>2, <1>3, Inductive, PTL DEF Spec

-----------------------------------------------------------------------------
(* Progress.                                                               *)

\* What the slot shows of job j, by where j is.
Shown(j) ==
    /\ slot.tablesTotal = NumTables + 1
    /\ slot.tablesDone <= NumTables + 1
    /\ work[j].pc \in Early \cup {"base"} => slot.tablesDone = 0
    /\ work[j].pc \in Reading =>
           slot.tablesDone <= IF IsSnapshot(j) THEN work[j].tables ELSE work[j].tables + 1
    /\ At(j, "schema") => slot.tablesDone <= IF IsSnapshot(j) THEN NumTables ELSE 1

\* A slot that says running describes a live job.
ProgressInv ==
    Running => slot.owner \in Jobs /\ Alive(slot.owner) /\ Shown(slot.owner)

LEMMA ProgressWorker ==
  ASSUME IInv, ProgressInv, NEW j \in Jobs, WorkerStep(j)
  PROVE  /\ slot'.tablesDone \in slot.tablesDone .. slot.tablesTotal
         /\ ProgressInv'
<1>1. /\ work[j] \in Work /\ work \in [Jobs -> Work] /\ SlotTypeOK /\ WorkInv(j)
      /\ slot.tablesDone \in Nat /\ slot.tablesTotal \in Nat /\ NumTables \in Nat
      /\ work[j].tables \in Nat
  BY StoreAssumption DEF IInv, TypeOK, SlotTypeOK, Work
<1>2. Alive(j)
  BY DEF WorkerStep, ResolveSpecs, ChooseName, PrepareDir, ReadBaseline, BaselineRead,
     CollectSchema, BeginTable, BeginPage, FetchPage, FlushTable, CountRows, WriteSchema,
     ProbeSession, OpenMeta, CloseMeta, WriteOutputs, Cleanup, Settle, At, Alive
<1>3. Running /\ slot.owner = j /\ Shown(j)
  BY <1>2 DEF IInv, OneWorker, ProgressInv
<1>4. slot'.owner = j /\ slot'.tablesTotal = NumTables + 1
  BY <1>1, <1>3, WorkerFrame DEF IInv, Shown
<1>5. SUFFICES /\ slot'.tablesDone \in slot.tablesDone .. NumTables + 1
               /\ Running' => Alive(j)' /\ Shown(j)'
  BY <1>3, <1>4 DEF ProgressInv, Shown
<1> USE <1>1, <1>3 DEF Shown, Work, SlotTypeOK, At, Alive, IsSnapshot, NextTable, Goto,
        Abort, GiveUp, ReportDone, ReportKey, slotVars, Early, Reading, Running
<1>6. CASE ResolveSpecs(j) \/ ChooseName(j)
  BY <1>4, <1>6 DEF ResolveSpecs, ChooseName
<1>7. CASE PrepareDir(j)
  <2>1. work[j].tables = 0
    BY <1>7 DEF PrepareDir, WorkInv
  <2> QED
    BY <1>4, <1>7, <2>1 DEF PrepareDir
<1>8. CASE ReadBaseline(j)
  BY <1>4, <1>8 DEF ReadBaseline
<1>9. CASE BaselineRead(j)
  <2>1. ~IsSnapshot(j)
    BY <1>9 DEF BaselineRead, WorkInv
  <2> QED
    BY <1>4, <1>9, <2>1 DEF BaselineRead
<1>10. CASE CollectSchema(j)
  <2>1. ~IsSnapshot(j) => work[j].tables = 0
    BY <1>10 DEF CollectSchema, WorkInv
  <2> QED
    BY <1>4, <1>10, <2>1 DEF CollectSchema
<1>11. CASE BeginTable(j)
  BY <1>4, <1>11 DEF BeginTable, WorkInv
<1>12. CASE BeginPage(j) \/ FetchPage(j)
  BY <1>4, <1>12 DEF BeginPage, FetchPage
<1>13. CASE FlushTable(j)
  BY <1>4, <1>13 DEF FlushTable
<1>14. CASE CountRows(j)
  <2>1. work[j].tables < NumTables
    BY <1>14 DEF CountRows, WorkInv
  <2> QED
    BY <1>4, <1>14, <2>1 DEF CountRows
<1>15. CASE WriteSchema(j)
  BY <1>4, <1>15 DEF WriteSchema
<1>16. CASE ProbeSession(j) \/ OpenMeta(j) \/ CloseMeta(j) \/ WriteOutputs(j)
  BY <1>4, <1>16 DEF ProbeSession, OpenMeta, CloseMeta, WriteOutputs
<1>17. CASE Cleanup(j)
  BY <1>4, <1>17 DEF Cleanup
<1>18. CASE Settle(j)
  <2>1. work[j].outcome \in Outcome
    BY <1>18 DEF Settle, WorkInv
  <2> QED
    BY <1>4, <1>18, <2>1 DEF Settle, SettleJob, Outcome
<1> QED
  BY <1>6, <1>7, <1>8, <1>9, <1>10, <1>11, <1>12, <1>13, <1>14, <1>15, <1>16, <1>17, <1>18
     DEF WorkerStep

LEMMA ProgressStep ==
  ASSUME IInv, ProgressInv, [Next]_vars
  PROVE  /\ ProgressInv'
         /\ Running /\ slot'.owner = slot.owner
              => slot'.tablesDone \in slot.tablesDone .. slot.tablesTotal
<1>1. /\ work \in [Jobs -> Work] /\ SlotTypeOK /\ TypeOK
      /\ slot.tablesDone \in Nat /\ NumTables \in Nat /\ NoJob \notin Jobs
  BY StoreAssumption, SlotAssumption DEF IInv, TypeOK, SlotTypeOK, Writer
<1>2. ASSUME NEW j \in Jobs, WorkerStep(j)
      PROVE  ProgressInv' /\ slot'.tablesDone \in slot.tablesDone .. slot.tablesTotal
  BY <1>2, ProgressWorker
<1>3. ASSUME UNCHANGED slot, UNCHANGED work
      PROVE  /\ ProgressInv'
             /\ Running => slot'.tablesDone \in slot.tablesDone .. slot.tablesTotal
  <2>1. ProgressInv'
    BY <1>3 DEF ProgressInv, Running, Alive, Shown, At, IsSnapshot
  <2>2. Running => slot.tablesDone \in slot.tablesDone .. slot.tablesTotal
    BY <1>1 DEF ProgressInv, Shown
  <2> QED
    BY <1>3, <2>1, <2>2
<1>4. ASSUME NEW j \in Jobs, Launched(j) PROVE ProgressInv' /\ ~Running
  BY <1>1, <1>4 DEF Launched, ProgressInv, Running, Alive, Shown, At, Reading, Early
<1>5. ASSUME Crash PROVE ProgressInv' /\ (Running => slot'.owner # slot.owner)
  BY <1>1, <1>5 DEF Crash, EmptySlot, ProgressInv, Running
<1>6. ASSUME NEW h \in Handlers, HandlerStep(h)
      PROVE  (UNCHANGED slot /\ UNCHANGED work) \/ \E j \in Jobs : Launched(j)
  BY <1>1, <1>6, HandlerFrame
<1>7. Clock \/ UNCHANGED vars => UNCHANGED slot /\ UNCHANGED work
  BY DEF Clock, vars, slotVars
<1> QED
  BY <1>2, <1>3, <1>4, <1>5, <1>6, <1>7 DEF Next

(* The progress of a running job never goes back and never exceeds its     *)
(* total, for either kind of job and any number of tables.                 *)
THEOREM ProgressOnly == Spec => ProgressMonotone
<1>1. Init => ProgressInv
  BY DEF Init, SlotInit, EmptySlot, ProgressInv, Running
<1>2. IInv /\ ProgressInv /\ [Next]_vars => ProgressInv'
  BY ProgressStep
<1>3. IInv /\ ProgressInv /\ [Next]_vars =>
        [Running /\ slot'.owner = slot.owner
           => slot'.tablesDone \in slot.tablesDone .. slot.tablesTotal]_vars
  BY ProgressStep
<1> QED
  BY <1>1, <1>2, <1>3, Inductive, PTL DEF Spec, ProgressMonotone

-----------------------------------------------------------------------------
(* Whose files there are.                                                  *)

\* A job's outcome is chosen when it leaves its work.
OutcomeInv ==
    \A j \in Jobs : Alive(j) /\ work[j].pc \notin {"cleanup", "settle"}
                       => work[j].outcome = "none"

\* A job writes to the directory it chose, from then on.
WriterInv ==
    \A k \in Key, j \in Jobs, p \in Part : content[k][p] = j =>
        /\ work[j].pc \notin Early \cup {"unused", "base"}
        /\ Alive(j) => k = Own(j)

\* meta.json is there only if the job came to its end; a job that did not
\* finish after it has set out to remove it.
MetaInv ==
    \A k \in Key, j \in Jobs : content[k][Meta] = j =>
        /\ work[j].pc \in {"outputs", "cleanup", "settle", "gone"}
        /\ IsSnapshot(j) => work[j].outcome = "done"
        /\ work[j].outcome \in {"cancelled", "failed"} => k \in discarded

\* The user is not shown a snapshot before it is whole, and cannot delete it.
UnaskedInv ==
    \A j \in Jobs : work[j].pc \in Middle \ {"outputs"} => Own(j) \notin asked

FilesInv == OutcomeInv /\ WriterInv /\ MetaInv /\ UnaskedInv

\* What a step of job j does to a file: it leaves it, removes it, or creates or
\* finishes one of its own.
Wrote(j, k, p) ==
    \/ content'[k][p] = content[k][p]
    \/ content'[k][p] = Absent
    \/ /\ content'[k][p] = Partial /\ k = Own(j)
       /\ \/ At(j, "table") /\ p \in Tables
          \/ At(j, "metaOpen") /\ p = Meta
    \/ /\ content'[k][p] = j /\ k = Own(j)
       /\ \/ At(j, "flush") /\ p \in Tables
          \/ At(j, "schemaFile") /\ p = Schema
          \/ At(j, "metaClose") /\ p = Meta

LEMMA WorkerWrites ==
  ASSUME IInv, NEW j \in Jobs, WorkerStep(j), NEW k \in Key, NEW p \in Part
  PROVE  Wrote(j, k, p)
<1>1. /\ content \in [Key -> [Part -> Content]] /\ content[k] \in [Part -> Content]
      /\ TypeOK /\ WorkInv(j)
  BY DEF IInv, TypeOK, StoreTypeOK
<1>2. ASSUME NEW q \in Part, CreateFile(Own(j), q),
             \/ At(j, "table") /\ q \in Tables
             \/ At(j, "metaOpen") /\ q = Meta
      PROVE  Wrote(j, k, p)
  <2>1. CASE k = Own(j) /\ p = q
    <3>1. content'[k][p] = Partial
      BY <1>1, <1>2, <2>1 DEF CreateFile
    <3> QED
      BY <1>2, <2>1, <3>1 DEF Wrote
  <2>2. CASE ~(k = Own(j) /\ p = q)
    <3>1. content'[k][p] = content[k][p]
      BY <1>1, <1>2, <2>2 DEF CreateFile
    <3> QED
      BY <3>1 DEF Wrote
  <2> QED
    BY <2>1, <2>2
<1>3. ASSUME NEW q \in Part, FinishFile(Own(j), q, j),
             \/ At(j, "flush") /\ q \in Tables
             \/ At(j, "metaClose") /\ q = Meta
      PROVE  Wrote(j, k, p)
  <2>1. CASE k = Own(j) /\ p = q
    <3>1. content'[k][p] \in {content[k][p], j}
      BY <1>1, <1>3, <2>1 DEF FinishFile
    <3> QED
      BY <1>3, <2>1, <3>1 DEF Wrote
  <2>2. CASE ~(k = Own(j) /\ p = q)
    <3>1. content'[k][p] = content[k][p]
      BY <1>1, <1>3, <2>2 DEF FinishFile
    <3> QED
      BY <3>1 DEF Wrote
  <2> QED
    BY <2>1, <2>2
<1>4. ASSUME UNCHANGED content PROVE Wrote(j, k, p)
  BY <1>4 DEF Wrote
<1>5. ASSUME NEW q \in Part, RemoveFile(Own(j), q) PROVE Wrote(j, k, p)
  <2>1. content'[k][p] \in {content[k][p], Absent}
    BY <1>1, <1>5 DEF RemoveFile
  <2> QED
    BY <2>1 DEF Wrote
<1>6. CASE BeginTable(j) \/ FlushTable(j)
  <2>1. NextTable(j) \in Part /\ NextTable(j) \in Tables
    BY <1>1, <1>6, Parts DEF BeginTable, FlushTable, WorkInv, At, Reading
  <2> QED
    BY <1>2, <1>3, <1>4, <1>6, <2>1 DEF BeginTable, FlushTable, Abort, storeVars
<1>7. CASE OpenMeta(j) \/ CloseMeta(j)
  BY <1>2, <1>3, <1>4, <1>7, Parts DEF OpenMeta, CloseMeta, Abort, storeVars
<1>8. CASE WriteSchema(j)
  <2>1. ASSUME content' = [content EXCEPT ![Own(j)][Schema] = j] PROVE Wrote(j, k, p)
    <3>1. content'[k][p] = content[k][p] \/ (content'[k][p] = j /\ k = Own(j) /\ p = Schema)
      BY <1>1, <2>1
    <3> QED
      BY <1>8, <3>1 DEF Wrote, WriteSchema
  <2> QED
    BY <1>4, <1>8, <2>1 DEF WriteSchema, Abort, storeVars
<1>9. CASE Cleanup(j)
  BY <1>4, <1>5, <1>9 DEF Cleanup, RemoveDir, storeVars
<1>10. ASSUME ~(BeginTable(j) \/ FlushTable(j) \/ OpenMeta(j) \/ CloseMeta(j)
                \/ WriteSchema(j) \/ Cleanup(j))
       PROVE  UNCHANGED content
  BY <1>10 DEF WorkerStep, ResolveSpecs, ChooseName, PrepareDir, ReadBaseline, BaselineRead,
     CollectSchema, BeginPage, FetchPage, CountRows, ProbeSession, WriteOutputs, Settle,
     GiveUp, Abort, MakeDir, storeVars
<1> QED
  BY <1>4, <1>6, <1>7, <1>8, <1>9, <1>10

\* Where a job has a directory but not yet a schema.jsonl.
Unwritten == {"base", "schema", "schemaFile"} \cup Reading

\* How a job moves on, and what that says of its outcome, its directory and
\* the ids it has given up.
Moved(j) ==
    LET old  == work[j].pc
        new  == work'[j].pc
        Kept == work'[j].outcome = work[j].outcome
    IN  /\ work'[j].kind = work[j].kind
        /\ old \notin {"name", "settle"} => work'[j].own = work[j].own
        /\ \/ old \in Early /\ new \in Early /\ Kept
           \/ old = "mkdir" /\ new \in {"base", "table"} /\ Kept
           \/ old \in Early /\ new = "settle" /\ work'[j].outcome = "failed"
           \/ /\ old \in Middle \ {"outputs"} /\ new \in Middle /\ Kept
              /\ new = "base" => old = "base"
              /\ IF old = "metaClose" THEN new = "outputs" /\ ~IsSnapshot(j)
                                      ELSE new # "outputs"
              /\ new \in Unwritten => old \in Unwritten \ {"schemaFile"}
           \/ /\ old \in Middle /\ new = "cleanup"
              /\ work'[j].outcome \in {"cancelled", "failed"}
              /\ Own(j) \in discarded'
           \/ /\ old = "outputs" \/ (old = "metaClose" /\ IsSnapshot(j))
              /\ new = "settle" /\ work'[j].outcome = "done"
           \/ old = "cleanup" /\ new \in {"cleanup", "settle"} /\ Kept
           \/ old = "settle" /\ new = "gone" /\ Kept

LEMMA WorkerMoves ==
  ASSUME IInv, NEW j \in Jobs, WorkerStep(j)
  PROVE  Moved(j)
<1>1. work[j] \in Work /\ work \in [Jobs -> Work] /\ WorkInv(j)
  BY DEF IInv, TypeOK
<1>2. ASSUME NEW o \in {"cancelled", "failed"}, Abort(j, o), work[j].pc \in Middle
      PROVE  Moved(j)
  BY <1>1, <1>2 DEF Abort, Moved, Work, Early, Middle, Own, IsSnapshot
<1>3. ASSUME GiveUp(j), work[j].pc \in Early PROVE Moved(j)
  BY <1>1, <1>3 DEF GiveUp, Moved, Work, Early, Middle, Own, IsSnapshot
<1>4. ASSUME NEW pc \in Middle, Goto(j, pc), work[j].pc \in Middle \ {"outputs"},
             pc = "base" => work[j].pc = "base",
             work[j].pc # "metaClose", pc # "outputs",
             pc \in Unwritten => work[j].pc \in Unwritten \ {"schemaFile"}
      PROVE  Moved(j)
  BY <1>1, <1>4 DEF Goto, Moved, Work, Early, Middle, Own, IsSnapshot
<1> USE <1>1 DEF At, Work, Early, Middle, Own, IsSnapshot, Unwritten, Reading
<1>5. CASE ResolveSpecs(j)
  BY <1>3, <1>5 DEF ResolveSpecs, Goto, Moved
<1>6. CASE ChooseName(j)
  BY <1>6 DEF ChooseName, Moved
<1>7. CASE PrepareDir(j)
  BY <1>3, <1>7 DEF PrepareDir, Goto, Moved
<1>8. CASE ReadBaseline(j)
  BY <1>2, <1>8 DEF ReadBaseline, Moved
<1>9. CASE BaselineRead(j)
  BY <1>2, <1>9 DEF BaselineRead, Moved
<1>10. CASE CollectSchema(j)
  BY <1>2, <1>4, <1>10 DEF CollectSchema
<1>11. CASE BeginTable(j)
  BY <1>2, <1>11 DEF BeginTable, Moved
<1>12. CASE BeginPage(j)
  BY <1>2, <1>4, <1>12 DEF BeginPage
<1>13. CASE FetchPage(j)
  BY <1>2, <1>4, <1>13 DEF FetchPage, Moved
<1>14. CASE FlushTable(j)
  BY <1>2, <1>14 DEF FlushTable, Moved
<1>15. CASE CountRows(j)
  BY <1>15 DEF CountRows, Moved
<1>16. CASE WriteSchema(j)
  BY <1>2, <1>4, <1>16 DEF WriteSchema, Moved
<1>17. CASE ProbeSession(j)
  BY <1>4, <1>17 DEF ProbeSession
<1>18. CASE OpenMeta(j)
  BY <1>2, <1>4, <1>18 DEF OpenMeta
<1>19. CASE CloseMeta(j)
  BY <1>2, <1>19 DEF CloseMeta, Moved
<1>20. CASE WriteOutputs(j)
  BY <1>2, <1>20 DEF WriteOutputs, Moved
<1>21. CASE Cleanup(j)
  BY <1>21 DEF Cleanup, Goto, Moved
<1>22. CASE Settle(j)
  BY <1>22 DEF Settle, Gone, NoWork, Moved
<1> QED
  BY <1>5, <1>6, <1>7, <1>8, <1>9, <1>10, <1>11, <1>12, <1>13, <1>14, <1>15, <1>16, <1>17,
     <1>18, <1>19, <1>20, <1>21, <1>22 DEF WorkerStep

\* Only a directory that is created loses its history, and it has no files.
LEMMA WorkerNotes ==
  ASSUME IInv, NEW j \in Jobs, WorkerStep(j)
  PROVE  /\ asked' = asked \/ (asked' = asked \ {Own(j)} /\ At(j, "mkdir"))
         /\ \A k \in Key : k \in discarded /\ content[k] # NoFiles => k \in discarded'
         /\ At(j, "mkdir") => Own(j) \notin asked' \/ At(j, "settle")'
<1>1. work[j] \in Work /\ work \in [Jobs -> Work] /\ WorkInv(j) /\ StoreInv
  BY DEF IInv, TypeOK
<1>2. CASE PrepareDir(j)
  <2>1. Own(j) \notin dirs
    BY <1>1, <1>2 DEF PrepareDir, WorkInv
  <2>2. CASE GiveUp(j)
    BY <1>1, <1>2, <2>2 DEF GiveUp, handlerVars, At, Work
  <2>3. CASE Forget(Own(j))
    BY <1>1, <1>2, <2>1, <2>3 DEF Forget, StoreInv, PrepareDir
  <2> QED
    BY <1>2, <2>2, <2>3 DEF PrepareDir
<1>3. CASE ~PrepareDir(j)
  <2>1. discarded \subseteq discarded' /\ asked' = asked /\ ~At(j, "mkdir")
    BY <1>3 DEF WorkerStep, ResolveSpecs, ChooseName, ReadBaseline, BaselineRead,
       CollectSchema, BeginTable, BeginPage, FetchPage, FlushTable, CountRows, WriteSchema,
       ProbeSession, OpenMeta, CloseMeta, WriteOutputs, Cleanup, Settle, At, Abort, GiveUp,
       handlerVars
  <2> QED
    BY <2>1
<1> QED
  BY <1>2, <1>3

\* The step of a job about to close its meta.json.
LEMMA OnlyCloses ==
  ASSUME NEW j \in Jobs, WorkerStep(j), At(j, "metaClose")
  PROVE  CloseMeta(j)
BY DEF WorkerStep, ResolveSpecs, ChooseName, PrepareDir, ReadBaseline, BaselineRead,
   CollectSchema, BeginTable, BeginPage, FetchPage, FlushTable, CountRows, WriteSchema,
   ProbeSession, OpenMeta, CloseMeta, WriteOutputs, Cleanup, Settle, At

LEMMA FilesWorker ==
  ASSUME IInv, FilesInv, NEW j \in Jobs, WorkerStep(j)
  PROVE  FilesInv'
<1>1. /\ work[j] \in Work /\ work \in [Jobs -> Work] /\ WorkInv(j) /\ Moved(j)
      /\ \A i \in Jobs : i # j => work'[i] = work[i]
      /\ content \in [Key -> [Part -> Content]]
      /\ \A k \in Key : content[k] \in [Part -> Content]
      /\ Alive(j)
  <2>1. Alive(j)
    BY WorkerMoves DEF Moved, Alive, Early, Middle
  <2> QED
    BY <2>1, WorkerMoves, WorkerFrame DEF IInv, TypeOK, StoreTypeOK
<1>2. \A k \in Key, p \in Part : Wrote(j, k, p)
  BY WorkerWrites
<1>3. \A i \in Jobs, k \in Key, p \in Part :
         content'[k][p] = i => content[k][p] = i
                               \/ (i = j /\ k = Own(j) /\ work[j].pc \in Middle \ {"base"}
                                   /\ (p = Meta => At(j, "metaClose")))
  BY <1>2, StoreAssumption, Parts DEF Wrote, At, Middle
<1>4. OutcomeInv'
  BY <1>1 DEF FilesInv, OutcomeInv, Moved, Alive, Early, Middle
<1>5. WriterInv'
  <2> SUFFICES ASSUME NEW k \in Key, NEW i \in Jobs, NEW p \in Part, content'[k][p] = i
               PROVE  /\ work'[i].pc \notin Early \cup {"unused", "base"}
                      /\ Alive(i)' => k = Own(i)'
    BY DEF WriterInv
  <2>1. CASE i # j
    BY <1>1, <1>3, <2>1 DEF FilesInv, WriterInv, Alive, Own
  <2>2. CASE i = j
    <3>1. work[j].pc \notin Early \cup {"unused", "base"} /\ k = Own(j)
      BY <1>1, <1>3, <2>2 DEF FilesInv, WriterInv, Early, Middle
    <3> QED
      BY <1>1, <2>2, <3>1 DEF Moved, Alive, Own, Early, Middle
  <2> QED
    BY <2>1, <2>2
<1>6. MetaInv'
  <2> SUFFICES ASSUME NEW k \in Key, NEW i \in Jobs, content'[k][Meta] = i
               PROVE  /\ work'[i].pc \in {"outputs", "cleanup", "settle", "gone"}
                      /\ IsSnapshot(i)' => work'[i].outcome = "done"
                      /\ work'[i].outcome \in {"cancelled", "failed"} => k \in discarded'
    BY DEF MetaInv
  <2>1. content[k][Meta] = i => content[k] # NoFiles
    BY StoreAssumption, Parts DEF NoFiles
  <2>2. content[k][Meta] = i \/ (i = j /\ k = Own(j) /\ At(j, "metaClose"))
    BY <1>3, Parts
  <2>3. CASE i # j
    BY <1>1, <2>1, <2>2, <2>3, WorkerNotes DEF FilesInv, MetaInv, IsSnapshot
  <2>4. CASE i = j /\ content[k][Meta] = j
    <3>1. k = Own(j) /\ (k \in discarded => k \in discarded')
      BY <1>1, <2>1, <2>4, WorkerNotes, Parts DEF FilesInv, WriterInv
    <3> QED
      BY <1>1, <2>4, <3>1 DEF FilesInv, MetaInv, OutcomeInv, WorkInv, Moved, IsSnapshot,
         At, Alive, Early, Middle, Outcome
  <2>5. CASE i = j /\ content[k][Meta] # j /\ At(j, "metaClose")
    <3>1. CloseMeta(j) /\ ~Abort(j, "failed")
      BY <2>5, OnlyCloses DEF Abort, storeVars
    <3>2. work[j].outcome = "none"
      BY <1>1, <2>5 DEF FilesInv, OutcomeInv, At
    <3> QED
      BY <1>1, <2>5, <3>1, <3>2 DEF CloseMeta, IsSnapshot, Work
  <2> QED
    BY <2>2, <2>3, <2>4, <2>5
<1>7. UnaskedInv'
  <2> SUFFICES ASSUME NEW i \in Jobs, work'[i].pc \in Middle \ {"outputs"}
               PROVE  work'[i].own \notin asked'
    BY DEF UnaskedInv, Own
  <2>1. asked' \subseteq asked
    BY WorkerNotes
  <2>2. CASE i # j
    BY <1>1, <2>1, <2>2 DEF FilesInv, UnaskedInv, Own
  <2>3. CASE i = j /\ At(j, "mkdir")
    BY <1>1, <2>3, WorkerNotes DEF Moved, Own, At, Middle
  <2>4. CASE i = j /\ ~At(j, "mkdir")
    <3>1. work[j].pc \in Middle \ {"outputs"} /\ work'[j].own = Own(j)
      BY <1>1, <2>4 DEF Moved, At, Own, Early, Middle
    <3> QED
      BY <2>1, <2>4, <3>1 DEF FilesInv, UnaskedInv
  <2> QED
    BY <2>2, <2>3, <2>4
<1> QED
  BY <1>4, <1>5, <1>6, <1>7 DEF FilesInv

\* A request removes files, moves an older snapshot, or is for one it sees.
LEMMA HandlerWrites ==
  ASSUME IInv, NEW h \in Handlers, HandlerStep(h)
  PROVE  /\ UNCHANGED discarded
         /\ \A k \in Key, p \in Part :
                \/ content'[k][p] = content[k][p]
                \/ content'[k][p] = Absent
                \/ content'[k][p] = Old /\ k \in legacy /\ k \notin dirs
         /\ \A k \in asked' : k \in asked \/ Readable(k)
<1> DEFINE Writes == \A k \in Key, p \in Part :
                \/ content'[k][p] = content[k][p]
                \/ content'[k][p] = Absent
                \/ content'[k][p] = Old /\ k \in legacy /\ k \notin dirs
<1>1. content \in [Key -> [Part -> Content]] /\ \A k \in Key : content[k] \in [Part -> Content]
  BY DEF IInv, TypeOK, StoreTypeOK
<1>2. ASSUME NEW x \in Key, MigrateOne(h, x)
      PROVE  Writes /\ UNCHANGED <<asked, discarded>>
  <2>1. \A k \in Key : content'[k] = IF k = x THEN FilesBy(Old) ELSE content[k]
    BY <1>1, <1>2 DEF MigrateOne, MoveLegacy
  <2> QED
    BY <1>2, <2>1 DEF MigrateOne, MoveLegacy, FilesBy
<1>3. ASSUME NEW q \in Part, DeleteFile(h, q)
      PROVE  Writes /\ UNCHANGED <<asked, discarded>>
  <2>1. handler[h].key \in Key
    BY <1>3 DEF DeleteFile, IInv, HandlerInv, TypeOK, StoreTypeOK
  <2>2. \A k \in Key, p \in Part : content'[k][p] \in {content[k][p], Absent}
    BY <1>1, <1>3, <2>1 DEF DeleteFile, RemoveFile
  <2> QED
    BY <1>3, <2>2 DEF DeleteFile
<1>4. ASSUME NEW k \in Key, StartDelete(h, k)
      PROVE  Writes /\ UNCHANGED discarded /\ asked' = asked \cup {k} /\ Readable(k)
  BY <1>4 DEF StartDelete, storeVars
<1>5. ASSUME \/ \E j \in Jobs, d \in Databases : StartCreate(h, j, d)
             \/ \E k \in Key : CheckBaseline(h, k)
             \/ \E j \in Jobs : StartDiff(h, j)
             \/ RefuseDiff(h) \/ Cancel(h) \/ StartList(h) \/ FinishList(h)
             \/ DeleteDir(h) \/ DeleteFails(h)
      PROVE  Writes /\ UNCHANGED <<asked, discarded>>
  BY <1>5 DEF StartCreate, CheckBaseline, StartDiff, RefuseDiff, Cancel, StartList,
     FinishList, DeleteDir, RemoveDir, DeleteFails, storeVars
<1> QED
  BY <1>2, <1>3, <1>4, <1>5 DEF HandlerStep

LEMMA FilesHandler ==
  ASSUME IInv, FilesInv, NEW h \in Handlers, HandlerStep(h)
  PROVE  FilesInv'
<1>1. /\ UNCHANGED discarded
      /\ \A k \in Key, i \in Jobs, p \in Part : content'[k][p] = i => content[k][p] = i
      /\ \A k \in asked' : k \in asked \/ Readable(k)
  BY HandlerWrites, StoreAssumption
<1>2. \A i \in Jobs : work'[i] = work[i] \/ (Launched(i) /\ UNCHANGED asked)
  BY HandlerFrame DEF IInv, Launched
<1>3. OutcomeInv'
  BY <1>2 DEF FilesInv, OutcomeInv, Alive, Launched
<1>4. WriterInv'
  <2> SUFFICES ASSUME NEW k \in Key, NEW i \in Jobs, NEW p \in Part, content'[k][p] = i
               PROVE  /\ work'[i].pc \notin Early \cup {"unused", "base"}
                      /\ Alive(i)' => k = Own(i)'
    BY DEF WriterInv
  <2>1. content[k][p] = i /\ work[i].pc # "unused"
    BY <1>1 DEF FilesInv, WriterInv
  <2> QED
    BY <1>2, <2>1 DEF FilesInv, WriterInv, Launched, Alive, Own
<1>5. MetaInv'
  <2> SUFFICES ASSUME NEW k \in Key, NEW i \in Jobs, content'[k][Meta] = i
               PROVE  /\ work'[i].pc \in {"outputs", "cleanup", "settle", "gone"}
                      /\ IsSnapshot(i)' => work'[i].outcome = "done"
                      /\ work'[i].outcome \in {"cancelled", "failed"} => k \in discarded'
    BY DEF MetaInv
  <2>1. content[k][Meta] = i /\ work[i].pc # "unused"
    BY <1>1, Parts DEF FilesInv, WriterInv
  <2> QED
    BY <1>1, <1>2, <2>1 DEF FilesInv, MetaInv, Launched, IsSnapshot
<1>6. UnaskedInv'
  <2> SUFFICES ASSUME NEW i \in Jobs, work'[i].pc \in Middle \ {"outputs"}
               PROVE  work'[i].own \notin asked'
    BY DEF UnaskedInv, Own
  <2>1. work'[i] = work[i]
    BY <1>2 DEF Launched, Middle
  <2>2. Own(i) \notin asked
    BY <2>1 DEF FilesInv, UnaskedInv
  <2>3. ~Readable(Own(i))
    BY <2>1, <2>2, StoreAssumption DEF IInv, WorkInv, Building, Readable, At, Writer
  <2> QED
    BY <1>1, <2>1, <2>2, <2>3 DEF Own
<1> QED
  BY <1>3, <1>4, <1>5, <1>6 DEF FilesInv

LEMMA FilesStep ==
  ASSUME IInv, FilesInv, [Next]_vars
  PROVE  FilesInv'
<1>1. ASSUME Crash PROVE FilesInv'
  <2>1. UNCHANGED <<content, asked, discarded>>
    BY <1>1 DEF Crash, storeVars
  <2>2. \A i \in Jobs :
           IF Alive(i) THEN /\ work'[i].pc = "gone" /\ work'[i].kind = work[i].kind
                            /\ work'[i].outcome = work[i].outcome
                       ELSE work'[i] = work[i]
    BY <1>1 DEF Crash, Gone, NoWork
  <2>3. OutcomeInv' /\ UnaskedInv'
    BY <2>1, <2>2 DEF FilesInv, OutcomeInv, UnaskedInv, Alive, Own, Middle
  <2>4. WriterInv'
    BY <2>1, <2>2 DEF FilesInv, WriterInv, Alive, Own, Early
  <2>5. MetaInv'
    BY <2>1, <2>2 DEF FilesInv, MetaInv, IsSnapshot
  <2> QED
    BY <2>3, <2>4, <2>5 DEF FilesInv
<1>2. ASSUME Clock \/ UNCHANGED vars PROVE FilesInv'
  <2>1. UNCHANGED <<content, work, asked, discarded>>
    BY <1>2 DEF Clock, Tick, vars, storeVars, slotVars, handlerVars
  <2> QED
    BY <2>1 DEF FilesInv, OutcomeInv, UnaskedInv, WriterInv, MetaInv, Alive, Own, IsSnapshot
<1> QED
  BY <1>1, <1>2, FilesWorker, FilesHandler DEF Next

LEMMA FilesAlways == Spec => []FilesInv
<1>1. Init => FilesInv
  <2> SUFFICES ASSUME Init PROVE FilesInv
    OBVIOUS
  <2>1. \A k \in Key, p \in Part : content[k][p] = Absent
    BY DEF Init, StoreInit, NoFiles
  <2> QED
    BY <2>1, Parts, StoreAssumption DEF Init, FilesInv, OutcomeInv, UnaskedInv, WriterInv,
       MetaInv, Alive, NoWork, Middle
<1>2. IInv /\ FilesInv /\ [Next]_vars => FilesInv'
  BY FilesStep
<1> QED
  BY <1>1, <1>2, Inductive, PTL DEF Spec

(* A job that ends cancelled or failed leaves nothing that can be read as  *)
(* a snapshot, except a comparison whose cleanup could not be completed:   *)
(* through crashes, failed deletions, and ids that are used again.         *)
THEOREM NothingUnfinishedLeft == Spec => []NothingLeftBehind
<1>1. IInv /\ FilesInv => NothingLeftBehind
  BY DEF IInv, TypeOK, StoreTypeOK, FilesInv, MetaInv, NothingLeftBehind
<1> QED
  BY <1>1, Inductive, FilesAlways, PTL

-----------------------------------------------------------------------------
(* What a comparison reads.                                                *)

\* What is left of the directory is one job's.
Holds(k, w) == \A p \in Part : content[k][p] \in {w, Absent}

\* meta.json and schema.jsonl are written after what they go with, and the
\* latter in one piece.
WholeInv ==
    \A k \in Key :
        /\ content[k][Meta] \in Writer => Holds(k, content[k][Meta])
        /\ content[k][Schema] \in Writer =>
               \A t \in Tables : content[k][t] \in {content[k][Schema], Absent}
        /\ content[k][Schema] # Partial

UnwrittenInv ==
    \A j \in Jobs : work[j].pc \in Unwritten => content[Own(j)][Schema] = Absent

\* Nobody is writing to a baseline that has been checked.
CheckedInv ==
    \A h \in Handlers : handler[h].op = "diff" =>
        /\ handler[h].key \notin legacy
        /\ handler[h].by # NoJob =>
               /\ Holds(handler[h].key, handler[h].by)
               /\ \A j \in Jobs : work[j].pc \in Middle \ {"outputs"} =>
                                      Own(j) # handler[h].key

\* What a comparison has read, and what it still has to read.
BaseInv(j) ==
    LET base == work[j].base
    IN  /\ \E w \in Writer : work[j].seen \subseteq {w} /\ work[j].baseBy \in {w, NoJob}
        /\ work[j].pc \in Early => work[j].seen = {}
        /\ Alive(j) /\ ~IsSnapshot(j) => base \notin legacy
        /\ work[j].pc \in Early \cup {"base"} /\ ~IsSnapshot(j) /\ work[j].baseBy # NoJob
               => Holds(base, work[j].baseBy)
        /\ At(j, "base") => \A w \in work[j].seen, t \in Tables :
                                content[base][t] \in {w, Absent}

BaselineInv == WholeInv /\ UnwrittenInv /\ CheckedInv /\ \A j \in Jobs : BaseInv(j)

\* Where a job fills its directory, the invariants say with what.
LEMMA Filling ==
  ASSUME IInv, FilesInv, NEW j \in Jobs, work[j].pc \in Middle \ {"outputs"}
  PROVE  Building(j) /\ Own(j) \in Key /\ Own(j) \notin asked
BY DEF IInv, WorkInv, FilesInv, UnaskedInv, NewKey, Key

LEMMA WholeWorker ==
  ASSUME IInv, FilesInv, BaselineInv, NEW j \in Jobs, WorkerStep(j)
  PROVE  WholeInv'
<1> SUFFICES ASSUME NEW k \in Key
             PROVE  /\ content'[k][Meta] \in Writer =>
                           \A p \in Part : content'[k][p] \in {content'[k][Meta], Absent}
                    /\ content'[k][Schema] \in Writer =>
                           \A t \in Tables : content'[k][t] \in {content'[k][Schema], Absent}
                    /\ content'[k][Schema] # Partial
  BY DEF WholeInv, Holds
<1>1. \A p \in Part : Wrote(j, k, p)
  BY WorkerWrites
<1>2. /\ Absent \notin Writer /\ Partial \notin Writer /\ Absent # Partial /\ j \in Writer
      /\ Absent # j /\ Partial # j
  BY StoreAssumption DEF Writer
<1>3. /\ content[k][Meta] \in Writer =>
             \A p \in Part : content[k][p] \in {content[k][Meta], Absent}
      /\ content[k][Schema] \in Writer =>
             \A t \in Tables : content[k][t] \in {content[k][Schema], Absent}
      /\ content[k][Schema] # Partial
  BY DEF BaselineInv, WholeInv, Holds
<1>4. CASE \A p \in Part : content'[k][p] \in {content[k][p], Absent}
  BY <1>2, <1>3, <1>4, Parts
<1>5. CASE k = Own(j) /\ (At(j, "table") \/ At(j, "flush"))
  <2>1. content[k][Meta] = Absent /\ content[k][Schema] = Absent
    BY <1>5, Filling DEF BaselineInv, UnwrittenInv, Building, Unwritten, Reading, Middle, At
  <2>2. content'[k][Meta] = Absent /\ content'[k][Schema] = Absent
    BY <1>1, <1>5, <2>1, Parts DEF Wrote, At
  <2> QED
    BY <1>2, <2>2
<1>6. CASE k = Own(j) /\ At(j, "schemaFile")
  <2>1. content[k][Meta] = Absent /\ \A t \in Tables : content[k][t] = j
    BY <1>6, Filling DEF Building, Writing, Middle, At
  <2>2. content'[k][Meta] = Absent /\ content'[k][Schema] \in {content[k][Schema], Absent, j}
    BY <1>1, <1>6, <2>1, Parts DEF Wrote, At
  <2>3. \A t \in Tables : content'[k][t] \in {j, Absent}
    BY <1>1, <1>6, <2>1, Parts DEF Wrote, At
  <2>4. content[k][Schema] = Absent
    BY <1>6 DEF BaselineInv, UnwrittenInv, Unwritten, At
  <2> QED
    BY <1>2, <2>2, <2>3, <2>4
<1>7. CASE k = Own(j) /\ (At(j, "metaOpen") \/ At(j, "metaClose"))
  <2>1. /\ content[k][Schema] = j /\ \A t \in Tables : content[k][t] = j
        /\ content[k][Meta] \in {Absent, Partial}
    BY <1>7, Filling DEF Building, Writing, Middle, At
  <2>2. \A p \in Part \ {Meta} : content'[k][p] \in {j, Absent}
    <3>1. \A p \in Part \ {Meta} : p \in Tables \cup {Schema}
      BY StoreAssumption DEF Part, Meta, Schema, Tables
    <3> QED
      BY <1>1, <1>7, <2>1, <3>1, Parts DEF Wrote, At
  <2>3. content'[k][Meta] \in {Absent, Partial, j}
    BY <1>1, <1>7, <2>1, Parts DEF Wrote, At
  <2> QED
    BY <1>2, <2>2, <2>3, Parts
<1> QED
  BY <1>1, <1>4, <1>5, <1>6, <1>7 DEF Wrote

\* A job's baseline and what it has read of it change in one step only.
LEMMA WorkerReads ==
  ASSUME IInv, NEW j \in Jobs, WorkerStep(j)
  PROVE  /\ UNCHANGED legacy
         /\ \/ ReadBaseline(j)
            \/ work'[j] = Gone(j)
            \/ /\ work'[j].seen = work[j].seen /\ work'[j].base = work[j].base
               /\ work'[j].baseBy = work[j].baseBy
<1>1. work[j] \in Work /\ work \in [Jobs -> Work]
  BY DEF IInv, TypeOK
<1> USE <1>1 DEF Work, Abort, GiveUp, Goto, storeVars
<1>2. CASE ResolveSpecs(j) \/ ChooseName(j) \/ PrepareDir(j)
  BY <1>2 DEF ResolveSpecs, ChooseName, PrepareDir, MakeDir
<1>3. CASE ReadBaseline(j)
  BY <1>3 DEF ReadBaseline
<1>4. CASE BaselineRead(j) \/ CollectSchema(j) \/ BeginTable(j)
  BY <1>4 DEF BaselineRead, CollectSchema, BeginTable, CreateFile
<1>5. CASE BeginPage(j) \/ FetchPage(j) \/ FlushTable(j)
  BY <1>5 DEF BeginPage, FetchPage, FlushTable, FinishFile
<1>6. CASE CountRows(j) \/ WriteSchema(j) \/ ProbeSession(j)
  BY <1>6 DEF CountRows, WriteSchema, ProbeSession
<1>7. CASE OpenMeta(j) \/ CloseMeta(j) \/ WriteOutputs(j)
  BY <1>7 DEF OpenMeta, CloseMeta, WriteOutputs, CreateFile, FinishFile
<1>8. CASE Cleanup(j)
  BY <1>8 DEF Cleanup, RemoveFile, RemoveDir
<1>9. CASE Settle(j)
  BY <1>9 DEF Settle
<1> QED
  BY <1>2, <1>3, <1>4, <1>5, <1>6, <1>7, <1>8, <1>9 DEF WorkerStep

\* A directory a job creates is not one a request has checked.
LEMMA WorkerChecked ==
  ASSUME IInv, NEW j \in Jobs, WorkerStep(j), NEW h \in Handlers, handler'[h].op = "diff"
  PROVE  /\ handler[h].op = "diff" /\ handler'[h].key = handler[h].key
         /\ handler'[h].by \in {handler[h].by, NoJob}
         /\ At(j, "mkdir") /\ Own(j) = handler[h].key =>
                handler'[h].by = NoJob \/ At(j, "settle")'
<1>1. /\ work[j] \in Work /\ work \in [Jobs -> Work] /\ WorkInv(j)
      /\ handler \in [Handlers -> [op : {"idle", "list", "delete", "diff"},
                                   key : Key \cup {NoKey}, by : Writer \cup {NoJob}]]
  BY DEF IInv, TypeOK
<1>2. CASE PrepareDir(j)
  <2>1. Own(j) \notin dirs
    BY <1>2, <1>1 DEF PrepareDir, WorkInv
  <2>2. CASE GiveUp(j)
    BY <1>1, <2>2 DEF GiveUp, handlerVars, At, Work
  <2>3. CASE Forget(Own(j))
    BY <1>1, <2>1, <2>3 DEF Forget
  <2> QED
    BY <1>2, <2>2, <2>3 DEF PrepareDir
<1>3. CASE Cleanup(j)
  BY <1>1, <1>3 DEF Cleanup, Idle, At
<1>4. CASE ~PrepareDir(j) /\ ~Cleanup(j)
  <2>1. UNCHANGED handler /\ ~At(j, "mkdir")
    BY <1>4 DEF WorkerStep, ResolveSpecs, ChooseName, ReadBaseline, BaselineRead,
       CollectSchema, BeginTable, BeginPage, FetchPage, FlushTable, CountRows, WriteSchema,
       ProbeSession, OpenMeta, CloseMeta, WriteOutputs, Settle, At, Abort, GiveUp,
       handlerVars
  <2> QED
    BY <2>1, <1>4
<1> QED
  BY <1>2, <1>3, <1>4

LEMMA BaselineWorker ==
  ASSUME IInv, FilesInv, BaselineInv, NEW j \in Jobs, WorkerStep(j)
  PROVE  BaselineInv'
<1>1. /\ work[j] \in Work /\ work \in [Jobs -> Work] /\ WorkInv(j) /\ Moved(j)
      /\ \A i \in Jobs : i # j => work'[i] = work[i] /\ ~Alive(i)
      /\ NumTables \in Nat
  <2>1. Alive(j)
    BY WorkerMoves DEF Moved, Alive, Early, Middle
  <2> QED
    BY <2>1, WorkerMoves, WorkerFrame, StoreAssumption DEF IInv, TypeOK, OneWorker
<1>2. \A k \in Key, p \in Part : Wrote(j, k, p)
  BY WorkerWrites
<1>3. \A k \in Key, p \in Part : k # Own(j) \/ work[j].pc \notin Middle \ {"base", "outputs"}
                                     => content'[k][p] \in {content[k][p], Absent}
  BY <1>2 DEF Wrote, At, Middle
<1>4. UnwrittenInv'
  <2> SUFFICES ASSUME NEW i \in Jobs, work'[i].pc \in Unwritten
               PROVE  content'[work'[i].own][Schema] = Absent
    BY DEF UnwrittenInv, Own
  <2>1. i = j
    BY <1>1 DEF Unwritten, Reading, Alive
  <2>2. CASE At(j, "mkdir")
    <3>1. Own(j) \in Key /\ Own(j) \notin dirs
      BY <1>1, <2>2 DEF WorkInv, NewKey, Key, At
    <3>2. content[Own(j)][Schema] = Absent
      BY <3>1, Parts DEF IInv, StoreInv, NoFiles
    <3>3. work'[j].own = Own(j)
      BY <1>1, <2>2 DEF Moved, At, Own
    <3> QED
      BY <1>2, <2>1, <2>2, <3>1, <3>2, <3>3, Parts DEF Wrote, At
  <2>3. CASE ~At(j, "mkdir")
    <3>1. work[j].pc \in Unwritten \ {"schemaFile"} /\ work'[j].own = Own(j)
      BY <1>1, <2>1, <2>3 DEF Moved, At, Own, Unwritten, Reading, Early, Middle
    <3>2. content[Own(j)][Schema] = Absent /\ Own(j) \in Key
      BY <1>1, <3>1 DEF BaselineInv, UnwrittenInv, WorkInv, NewKey, Key, Unwritten, Reading,
         Middle
    <3> QED
      BY <1>2, <2>1, <3>1, <3>2, Parts DEF Wrote, At, Unwritten, Reading
  <2> QED
    BY <2>2, <2>3
<1>5. CheckedInv'
  <2> SUFFICES ASSUME NEW h \in Handlers, handler'[h].op = "diff"
               PROVE  /\ handler'[h].key \notin legacy'
                      /\ handler'[h].by # NoJob =>
                             /\ \A p \in Part : content'[handler'[h].key][p]
                                                    \in {handler'[h].by, Absent}
                             /\ \A i \in Jobs : work'[i].pc \in Middle \ {"outputs"} =>
                                                    work'[i].own # handler'[h].key
    BY DEF CheckedInv, Holds, Own
  <2> DEFINE k == handler[h].key
  <2>1. /\ handler[h].op = "diff" /\ handler'[h].key = k
        /\ handler'[h].by \in {handler[h].by, NoJob} /\ k \in Key /\ k \notin legacy
    BY WorkerChecked DEF BaselineInv, CheckedInv, IInv, HandlerInv
  <2>2. k \notin legacy'
    BY <2>1, WorkerReads
  <2>3. ASSUME handler'[h].by # NoJob
        PROVE  /\ \A p \in Part : content'[k][p] \in {handler'[h].by, Absent}
               /\ \A i \in Jobs : work'[i].pc \in Middle \ {"outputs"} => work'[i].own # k
    <3>1. /\ handler'[h].by = handler[h].by
          /\ \A p \in Part : content[k][p] \in {handler[h].by, Absent}
          /\ \A i \in Jobs : work[i].pc \in Middle \ {"outputs"} => Own(i) # k
      BY <2>1, <2>3 DEF BaselineInv, CheckedInv, Holds
    <3>2. \A p \in Part : content'[k][p] \in {content[k][p], Absent}
      BY <1>3, <2>1, <3>1
    <3>3. ASSUME NEW i \in Jobs, work'[i].pc \in Middle \ {"outputs"} PROVE work'[i].own # k
      <4>1. CASE i # j
        BY <1>1, <3>1, <3>3, <4>1 DEF Own
      <4>2. CASE i = j /\ At(j, "mkdir")
        BY <1>1, <2>1, <2>3, <3>3, <4>2, WorkerChecked DEF Moved, At, Own, Middle
      <4>3. CASE i = j /\ ~At(j, "mkdir")
        <5>1. work[j].pc \in Middle \ {"outputs"} /\ work'[j].own = Own(j)
          BY <1>1, <3>3, <4>3 DEF Moved, At, Own, Early, Middle
        <5> QED
          BY <3>1, <4>3, <5>1
      <4> QED
        BY <4>1, <4>2, <4>3
    <3> QED
      BY <3>1, <3>2, <3>3
  <2> QED
    BY <2>1, <2>2, <2>3
<1>6. ASSUME NEW i \in Jobs PROVE BaseInv(i)'
  <2>1. BaseInv(i) /\ UNCHANGED legacy
    BY WorkerReads DEF BaselineInv
  <2>2. CASE i # j
    BY <1>1, <2>1, <2>2 DEF BaseInv, Alive, At, IsSnapshot, Early
  <2>3. CASE i = j /\ work'[j] = Gone(j)
    BY <2>3, SlotAssumption DEF BaseInv, Gone, NoWork, Alive, At, Early, Writer
  <2>4. CASE i = j /\ ReadBaseline(j)
    <3> DEFINE base == work[j].base
               got  == content[base][BaselinePart(j)]
    <3>1. /\ At(j, "base") /\ ~IsSnapshot(j) /\ base \in Key /\ UNCHANGED content
          /\ work[j].tables < NumTables
          /\ work'[j].base = base /\ work'[j].baseBy = work[j].baseBy
          /\ \/ work'[j].seen = work[j].seen
             \/ work'[j].seen = work[j].seen \cup {got} /\ got # Absent
      BY <1>1, <2>4 DEF ReadBaseline, WorkInv, Alive, At, Work, Abort, storeVars
    <3>2. ASSUME got # Absent
          PROVE  /\ got \in Writer /\ \A w \in work[j].seen : w = got
                 /\ work[j].baseBy \in {got, NoJob}
                 /\ \A t \in Tables : content[base][t] \in {got, Absent}
      <4> HIDE DEF base, got
      <4>0. content[base] \in [Part -> Content]
        BY <3>1 DEF IInv, TypeOK, StoreTypeOK
      <4>1. /\ work[j].baseBy # NoJob => \A p \in Part : content[base][p]
                                                    \in {work[j].baseBy, Absent}
            /\ \A w \in work[j].seen, t \in Tables : content[base][t] \in {w, Absent}
            /\ \E w \in Writer : work[j].seen \subseteq {w} /\ work[j].baseBy \in {w, NoJob}
        BY <2>1, <2>4, <3>1 DEF BaseInv, Holds, At, base
      <4>2. BaselinePart(j) \in Part
        BY <1>1, <3>1, Parts DEF BaselinePart, IInv
      <4>3. work[j].baseBy \in {got, NoJob}
        BY <3>2, <4>1, <4>2 DEF got
      <4>4. CASE work[j].seen = {}
        <5>1. got = content[base][Schema] /\ got # Partial
          BY <3>1, <4>4 DEF BaselinePart, BaselineInv, WholeInv, got
        <5> QED
          BY <3>1, <3>2, <4>0, <4>3, <4>4, <5>1, Parts DEF BaselineInv, WholeInv, Content
      <4>5. CASE work[j].seen # {}
        <5>1. BaselinePart(j) \in Tables
          BY <1>1, <3>1, <4>5, Parts DEF BaselinePart, IInv
        <5>2. \A w \in work[j].seen : w = got
          BY <3>2, <4>1, <5>1 DEF got
        <5> QED
          BY <4>1, <4>3, <4>5, <5>2
      <4> QED
        BY <4>4, <4>5
    <3>3. \E w \in Writer : work'[j].seen \subseteq {w} /\ work'[j].baseBy \in {w, NoJob}
      BY <2>1, <2>4, <3>1, <3>2 DEF BaseInv
    <3>4. \A w \in work'[j].seen, t \in Tables : At(j, "base") =>
              content'[base][t] \in {w, Absent}
      BY <2>1, <2>4, <3>1, <3>2 DEF BaseInv
    <3>5. base \notin legacy' /\ work'[j].pc \notin Early /\ work'[j].kind = work[j].kind
      BY <1>1, <2>1, <2>4, <3>1 DEF BaseInv, Moved, Alive, At, Early, Middle
    <3>6. work[j].baseBy # NoJob =>
              \A p \in Part : content'[base][p] \in {work[j].baseBy, Absent}
      BY <2>1, <2>4, <3>1 DEF BaseInv, Holds, At
    <3> HIDE DEF base, got
    <3> QED
      BY <2>4, <3>1, <3>3, <3>4, <3>5, <3>6 DEF BaseInv, Holds, At, base
  <2>5. CASE /\ i = j /\ work'[j].seen = work[j].seen /\ work'[j].base = work[j].base
             /\ work'[j].baseBy = work[j].baseBy
    <3>1. work[j].pc # "gone" /\ (Alive(j)' => Alive(j)) /\ work'[j].kind = work[j].kind
          /\ (work'[j].pc \in Early => work[j].pc \in Early)
          /\ (work'[j].pc = "base" => work[j].pc \in Early \cup {"base"})
      BY <1>1 DEF Moved, Alive, Early, Middle
    <3>2. work[j].pc \in Early \cup {"base"} /\ work[j].base \in Key =>
              \A p \in Part : content'[work[j].base][p] \in {content[work[j].base][p], Absent}
      BY <1>3 DEF Early, Middle
    <3>3. Alive(j) /\ ~IsSnapshot(j) => work[j].base \in Key
      BY <1>1 DEF WorkInv
    <3>4. At(j, "base")' => ~IsSnapshot(j)
      BY <3>1, WorkerSteps DEF IInv, WorkInv, IsSnapshot
    <3>5. At(j, "base")' => \A w \in work[j].seen, t \in Tables :
              content'[work[j].base][t] \in {w, Absent}
      <4>1. work[j].pc \in Early => work[j].seen = {}
        BY <2>1, <2>5 DEF BaseInv
      <4>2. At(j, "base") => \A w \in work[j].seen, t \in Tables :
                content'[work[j].base][t] \in {w, Absent}
        BY <1>1, <2>1, <2>5, <3>2, <3>3, Parts DEF BaseInv, At, Alive, WorkInv
      <4> QED
        BY <3>1, <4>1, <4>2 DEF At
    <3>6. /\ \E w \in Writer : work'[j].seen \subseteq {w} /\ work'[j].baseBy \in {w, NoJob}
          /\ work'[j].pc \in Early => work'[j].seen = {}
          /\ Alive(j)' /\ ~IsSnapshot(j) => work'[j].base \notin legacy'
      BY <2>1, <2>5, <3>1 DEF BaseInv
    <3>7. work'[j].pc \in Early \cup {"base"} /\ ~IsSnapshot(j) /\ work'[j].baseBy # NoJob
              => \A p \in Part : content'[work'[j].base][p] \in {work'[j].baseBy, Absent}
      <4> SUFFICES ASSUME work'[j].pc \in Early \cup {"base"}, ~IsSnapshot(j),
                          work[j].baseBy # NoJob
                   PROVE  \A p \in Part : content'[work[j].base][p] \in {work[j].baseBy, Absent}
        BY <2>5
      <4>1. work[j].pc \in Early \cup {"base"} /\ Alive(j)
        BY <3>1 DEF Alive, Early
      <4>2. \A p \in Part : content[work[j].base][p] \in {work[j].baseBy, Absent}
        BY <2>1, <2>5, <4>1 DEF BaseInv, Holds
      <4> QED
        BY <3>2, <3>3, <4>1, <4>2
    <3> QED
      BY <2>5, <3>1, <3>5, <3>6, <3>7 DEF BaseInv, Holds, At, IsSnapshot
  <2> QED
    BY <2>2, <2>3, <2>4, <2>5, WorkerReads
<1> QED
  BY <1>4, <1>5, <1>6, WholeWorker DEF BaselineInv

\* What a request does to the store: it moves an older snapshot, or at most
\* removes files; and to the other requests.
LEMMA HandlerStore ==
  ASSUME IInv, NEW h \in Handlers, HandlerStep(h)
  PROVE  /\ \/ \E k \in Key : MoveLegacy(k) /\ UNCHANGED <<work, handler>>
            \/ /\ UNCHANGED legacy
               /\ \A k \in Key, p \in Part : content'[k][p] \in {content[k][p], Absent}
         /\ \/ \E k \in Key : CheckBaseline(h, k)
            \/ \A x \in Handlers : handler'[x].op = "diff" => handler'[x] = handler[x]
<1>1. /\ content \in [Key -> [Part -> Content]] /\ \A k \in Key : content[k] \in [Part -> Content]
      /\ handler \in [Handlers -> [op : {"idle", "list", "delete", "diff"},
                                   key : Key \cup {NoKey}, by : Writer \cup {NoJob}]]
  BY DEF IInv, TypeOK, StoreTypeOK
<1>2. ASSUME NEW k \in Key, MigrateOne(h, k)
      PROVE  MoveLegacy(k) /\ UNCHANGED <<work, handler>>
  BY <1>2 DEF MigrateOne
<1>3. ASSUME NEW q \in Part, DeleteFile(h, q)
      PROVE  /\ UNCHANGED <<legacy, handler>>
             /\ \A k \in Key, p \in Part : content'[k][p] \in {content[k][p], Absent}
  <2>1. handler[h].key \in Key
    BY <1>3 DEF DeleteFile, IInv, HandlerInv, TypeOK, StoreTypeOK
  <2> QED
    BY <1>1, <1>3, <2>1 DEF DeleteFile, RemoveFile
<1>4. ASSUME \/ \E j \in Jobs, d \in Databases : StartCreate(h, j, d)
             \/ \E j \in Jobs : StartDiff(h, j)
             \/ \E k \in Key : StartDelete(h, k)
             \/ RefuseDiff(h) \/ Cancel(h) \/ StartList(h) \/ FinishList(h)
             \/ DeleteDir(h) \/ DeleteFails(h)
      PROVE  /\ UNCHANGED <<content, legacy>>
             /\ \A x \in Handlers : handler'[x].op = "diff" => handler'[x] = handler[x]
  <2> DEFINE Same == UNCHANGED <<content, legacy>>
             Known == \A x \in Handlers : handler'[x].op = "diff" => handler'[x] = handler[x]
  <2>1. ASSUME \E j \in Jobs, d \in Databases : StartCreate(h, j, d) PROVE Same /\ Known
    BY <2>1 DEF StartCreate, storeVars
  <2>2. ASSUME Cancel(h) PROVE Same /\ Known
    BY <2>2 DEF Cancel, storeVars
  <2>3. ASSUME (\E j \in Jobs : StartDiff(h, j)) \/ RefuseDiff(h) \/ FinishList(h)
               \/ DeleteFails(h)
        PROVE  Same /\ Known
    BY <1>1, <2>3 DEF StartDiff, RefuseDiff, FinishList, DeleteFails, Idle, storeVars
  <2>4. ASSUME StartList(h) \/ \E k \in Key : StartDelete(h, k) PROVE Same /\ Known
    BY <1>1, <2>4 DEF StartList, StartDelete, Idle, storeVars
  <2>5. ASSUME DeleteDir(h) PROVE Same /\ Known
    BY <1>1, <2>5 DEF DeleteDir, RemoveDir, Idle
  <2> QED
    BY <1>4, <2>1, <2>2, <2>3, <2>4, <2>5
<1>5. ASSUME NEW k \in Key, CheckBaseline(h, k) PROVE UNCHANGED <<content, legacy>>
  BY <1>5 DEF CheckBaseline, storeVars
<1> QED
  BY <1>2, <1>3, <1>4, <1>5 DEF HandlerStep

LEMMA BaselineHandler ==
  ASSUME IInv, FilesInv, BaselineInv, NEW h \in Handlers, HandlerStep(h)
  PROVE  BaselineInv'
<1>1. /\ content \in [Key -> [Part -> Content]] /\ \A k \in Key : content[k] \in [Part -> Content]
      /\ Absent \notin Writer /\ Old \in Writer /\ Old # Partial /\ NoJob \notin Writer
      /\ work \in [Jobs -> Work]
  BY StoreAssumption, SlotAssumption DEF IInv, TypeOK, StoreTypeOK, Writer
<1>2. /\ \A k \in Key : \/ \A p \in Part : content'[k][p] \in {content[k][p], Absent}
                        \/ k \in legacy /\ k \notin dirs /\ \A p \in Part : content'[k][p] = Old
      /\ legacy' \subseteq legacy
  <2>1. ASSUME NEW x \in Key, MoveLegacy(x)
        PROVE  /\ \A k \in Key : \/ content'[k] = content[k]
                                 \/ /\ k \in legacy /\ k \notin dirs
                                    /\ \A p \in Part : content'[k][p] = Old
               /\ legacy' \subseteq legacy
    BY <1>1, <2>1 DEF MoveLegacy, FilesBy
  <2> QED
    BY <2>1, HandlerStore
<1>3. \A i \in Jobs : work'[i] = work[i] \/ (Launched(i) /\ UNCHANGED storeVars)
  BY HandlerFrame DEF IInv, Launched
<1>4. WholeInv'
  <2> SUFFICES ASSUME NEW k \in Key
               PROVE  /\ content'[k][Meta] \in Writer =>
                             \A p \in Part : content'[k][p] \in {content'[k][Meta], Absent}
                      /\ content'[k][Schema] \in Writer =>
                             \A t \in Tables : content'[k][t] \in {content'[k][Schema], Absent}
                      /\ content'[k][Schema] # Partial
    BY DEF WholeInv, Holds
  <2>1. CASE \A p \in Part : content'[k][p] \in {content[k][p], Absent}
    <3>1. /\ content[k][Meta] \in Writer =>
                 \A p \in Part : content[k][p] \in {content[k][Meta], Absent}
          /\ content[k][Schema] \in Writer =>
                 \A t \in Tables : content[k][t] \in {content[k][Schema], Absent}
          /\ content[k][Schema] # Partial
      BY DEF BaselineInv, WholeInv, Holds
    <3> QED
      BY <1>1, <2>1, <3>1, Parts, StoreAssumption
  <2>2. CASE \A p \in Part : content'[k][p] = Old
    BY <1>1, <2>2, Parts
  <2> QED
    BY <1>2, <2>1, <2>2
<1>5. UnwrittenInv'
  <2> SUFFICES ASSUME NEW i \in Jobs, work'[i].pc \in Unwritten
               PROVE  content'[work'[i].own][Schema] = Absent
    BY DEF UnwrittenInv, Own
  <2>1. work'[i] = work[i] /\ work[i].pc \in Middle \ {"outputs"}
    BY <1>3 DEF Launched, Unwritten, Reading, Middle
  <2>2. content[Own(i)][Schema] = Absent /\ Own(i) \in Key /\ Own(i) \in dirs
    BY <2>1, Filling DEF BaselineInv, UnwrittenInv, Building
  <2> QED
    BY <1>2, <2>1, <2>2, Parts DEF Own
<1>6. CheckedInv'
  <2> SUFFICES ASSUME NEW x \in Handlers, handler'[x].op = "diff"
               PROVE  /\ handler'[x].key \notin legacy'
                      /\ handler'[x].by # NoJob =>
                             /\ \A p \in Part : content'[handler'[x].key][p]
                                                    \in {handler'[x].by, Absent}
                             /\ \A i \in Jobs : work'[i].pc \in Middle \ {"outputs"} =>
                                                    work'[i].own # handler'[x].key
    BY DEF CheckedInv, Holds, Own
  <2>1. \A i \in Jobs : work'[i].pc \in Middle \ {"outputs"} => work'[i] = work[i]
    BY <1>3 DEF Launched, Middle
  <2>2. CASE handler'[x] = handler[x]
    <3>1. handler[x].key \in Key
      BY <2>2 DEF IInv, HandlerInv
    <3>2. /\ handler[x].key \notin legacy
          /\ handler[x].by # NoJob =>
                 /\ \A p \in Part : content[handler[x].key][p] \in {handler[x].by, Absent}
                 /\ \A i \in Jobs : work[i].pc \in Middle \ {"outputs"} =>
                                        work[i].own # handler[x].key
      BY <2>2 DEF BaselineInv, CheckedInv, Holds, Own
    <3> QED
      BY <1>2, <2>1, <2>2, <3>1, <3>2
  <2>3. CASE \E k \in Key : CheckBaseline(h, k)
    <3>1. PICK k \in Key : CheckBaseline(h, k)
      BY <2>3
    <3>2. CASE x # h
      BY <2>2, <3>1, <3>2 DEF CheckBaseline
    <3>3. CASE x = h
      <4>1. /\ handler'[x].key = k /\ handler'[x].by = content[k][Meta]
            /\ Readable(k) /\ UNCHANGED <<content, legacy, work>>
        BY <3>1, <3>3 DEF CheckBaseline, storeVars, IInv, TypeOK
      <4>2. k \notin legacy /\ \A p \in Part : content[k][p] \in {content[k][Meta], Absent}
        BY <4>1 DEF Readable, BaselineInv, WholeInv, Holds, IInv, StoreInv
      <4>3. ASSUME NEW i \in Jobs, work[i].pc \in Middle \ {"outputs"} PROVE Own(i) # k
        BY <4>1, <4>3, Filling, StoreAssumption DEF Building, Readable, At, Writer
      <4> QED
        BY <4>1, <4>2, <4>3 DEF Own
    <3> QED
      BY <3>2, <3>3
  <2> QED
    BY <2>2, <2>3, HandlerStore
<1>7. ASSUME NEW i \in Jobs PROVE BaseInv(i)'
  <2>1. BaseInv(i)
    BY DEF BaselineInv
  <2>2. CASE work'[i] = work[i]
    <3>1. Alive(i) /\ ~IsSnapshot(i) =>
              /\ work[i].base \in Key /\ work[i].base \notin legacy'
              /\ \A p \in Part : content'[work[i].base][p] \in {content[work[i].base][p], Absent}
      BY <1>2, <2>1 DEF BaseInv, IInv, WorkInv
    <3>2. /\ At(i, "base") => Alive(i) /\ ~IsSnapshot(i)
          /\ work[i].pc \in Early \cup {"base"} => Alive(i)
      BY DEF IInv, WorkInv, At, Alive, Early
    <3>3. work[i].pc \in Early \cup {"base"} /\ ~IsSnapshot(i) /\ work[i].baseBy # NoJob
              => \A p \in Part : content'[work[i].base][p] \in {work[i].baseBy, Absent}
      BY <2>1, <3>1, <3>2 DEF BaseInv, Holds
    <3>4. At(i, "base") => \A w \in work[i].seen, t \in Tables :
                               content'[work[i].base][t] \in {w, Absent}
      BY <2>1, <3>1, <3>2, Parts DEF BaseInv
    <3>5. /\ \E w \in Writer : work[i].seen \subseteq {w} /\ work[i].baseBy \in {w, NoJob}
          /\ work[i].pc \in Early => work[i].seen = {}
      BY <2>1 DEF BaseInv
    <3> QED
      BY <2>2, <3>1, <3>3, <3>4, <3>5 DEF BaseInv, Holds, At, Alive, IsSnapshot
  <2>3. ASSUME NEW d \in Databases, StartCreate(h, i, d) PROVE BaseInv(i)'
    <3>1. /\ work'[i].pc = "resolve" /\ work'[i].kind = "snapshot" /\ work'[i].seen = {}
          /\ work'[i].baseBy = NoJob
      BY <1>1, <2>3 DEF StartCreate, Launch, NoWork
    <3> QED
      BY <1>1, <3>1 DEF BaseInv, At, IsSnapshot
  <2>4. ASSUME StartDiff(h, i) PROVE BaseInv(i)'
    <3>1. /\ work'[i].pc = "name" /\ work'[i].seen = {} /\ work'[i].base = handler[h].key
          /\ work'[i].baseBy = handler[h].by /\ UNCHANGED <<content, legacy>>
          /\ handler[h].op = "diff" /\ handler[h].by \in Writer \cup {NoJob}
      BY <1>1, <2>4 DEF StartDiff, Launch, NoWork, storeVars, IInv, TypeOK
    <3>2. /\ handler[h].key \notin legacy
          /\ handler[h].by # NoJob =>
                 \A p \in Part : content[handler[h].key][p] \in {handler[h].by, Absent}
      BY <3>1 DEF BaselineInv, CheckedInv, Holds
    <3> QED
      BY <1>1, <3>1, <3>2 DEF BaseInv, Holds, At
  <2>5. \/ work'[i] = work[i]
        \/ \E d \in Databases : StartCreate(h, i, d)
        \/ StartDiff(h, i)
    BY <1>1 DEF HandlerStep, StartCreate, StartDiff, Launch, CheckBaseline, MigrateOne,
       StartDelete, RefuseDiff, Cancel, StartList, FinishList, DeleteFile, DeleteDir,
       DeleteFails
  <2> QED
    BY <2>2, <2>3, <2>4, <2>5
<1> QED
  BY <1>4, <1>5, <1>6, <1>7 DEF BaselineInv

LEMMA BaselineStep ==
  ASSUME IInv, FilesInv, BaselineInv, [Next]_vars
  PROVE  BaselineInv'
<1>1. ASSUME Crash PROVE BaselineInv'
  <2>1. UNCHANGED <<content, legacy>> /\ \A h \in Handlers : handler'[h].op # "diff"
    BY <1>1 DEF Crash, Idle, storeVars
  <2>2. \A i \in Jobs : work'[i] = work[i] \/ work'[i] = Gone(i)
    BY <1>1 DEF Crash
  <2>3. \A i \in Jobs : work'[i] = work[i] \/
            (work'[i].pc = "gone" /\ work'[i].seen = {} /\ work'[i].baseBy = NoJob)
    BY <2>2 DEF Gone, NoWork
  <2>4. WholeInv' /\ CheckedInv'
    BY <2>1 DEF BaselineInv, WholeInv, Holds, CheckedInv
  <2>5. UnwrittenInv'
    BY <2>1, <2>3 DEF BaselineInv, UnwrittenInv, Own, Unwritten, Reading
  <2>6. \A i \in Jobs : BaseInv(i)'
    BY <2>1, <2>3 DEF BaselineInv, BaseInv, Holds, Alive, At, IsSnapshot, Early, Writer
  <2> QED
    BY <2>4, <2>5, <2>6 DEF BaselineInv
<1>2. ASSUME Clock \/ UNCHANGED vars PROVE BaselineInv'
  <2>1. UNCHANGED <<content, legacy, work, handler>>
    BY <1>2 DEF Clock, Tick, vars, storeVars, slotVars, handlerVars
  <2> QED
    BY <2>1 DEF BaselineInv, WholeInv, UnwrittenInv, CheckedInv, BaseInv, Holds, Alive, At,
       Own, IsSnapshot
<1> QED
  BY <1>1, <1>2, BaselineWorker, BaselineHandler DEF Next

(* A comparison that goes on after reading its baseline has read all of it *)
(* from one whole snapshot, the one its request was checked against, with  *)
(* any number of handlers deleting, migrating and starting jobs meanwhile, *)
(* and ids that are used again.                                            *)
THEOREM BaselineOfOne == Spec => []BaselineSound
<1>1. Init => BaselineInv
  <2> SUFFICES ASSUME Init PROVE BaselineInv
    OBVIOUS
  <2>1. \A k \in Key, p \in Part : content[k][p] = Absent
    BY DEF Init, StoreInit, NoFiles
  <2>2. \A j \in Jobs : work[j].pc = "unused" /\ work[j].seen = {} /\ work[j].baseBy = NoJob
    BY DEF Init, NoWork
  <2>3. \A h \in Handlers : handler[h].op # "diff"
    BY DEF Init, Idle
  <2>4. WholeInv /\ CheckedInv
    BY <2>1, <2>3, Parts, StoreAssumption DEF WholeInv, CheckedInv, Writer
  <2>5. UnwrittenInv /\ \A j \in Jobs : BaseInv(j)
    BY <2>2 DEF UnwrittenInv, Unwritten, Reading, BaseInv, Early, Alive, At, Writer
  <2> QED
    BY <2>4, <2>5 DEF BaselineInv
<1>2. IInv /\ FilesInv /\ BaselineInv /\ [Next]_vars => BaselineInv'
  BY BaselineStep
<1>3. BaselineInv => BaselineSound
  BY DEF BaselineInv, BaseInv, BaselineSound
<1> QED
  BY <1>1, <1>2, <1>3, Inductive, FilesAlways, PTL DEF Spec

-----------------------------------------------------------------------------
(* The refinement of AtomicStore, step by step.                            *)

Usable == [k \in Key |-> UsableBy(k)]
Busy   == IF Running THEN slot.owner ELSE NoJob
Done   == \E j \in Jobs : Published(j)

\* A step that neither the user nor another job can tell from none.
LEMMA Unseen ==
  ASSUME \A k \in Key : UsableBy(k)' = UsableBy(k), Busy' = Busy, Done' = Done,
         slot'.phase = slot.phase
  PROVE  UNCHANGED Atomic!vars
BY DEF Atomic!vars, Busy, Done

\* What the abstract store sees of a step of worker j.
LEMMA OneBusy ==
  ASSUME IInv, NEW j \in Jobs, WorkerStep(j)
  PROVE  /\ Alive(j) /\ Busy = j /\ Busy # NoJob
         /\ Done <=> Published(j)
         /\ Done' <=> Published(j)'
         /\ slot'.phase = "running" => Busy' = j
<1>1. Alive(j) /\ j # NoJob
  BY WorkerMoves, SlotAssumption DEF Moved, Alive, Early, Middle, Writer
<1>2. Running /\ slot.owner = j /\ \A i \in Jobs : i # j => ~Alive(i) /\ work'[i] = work[i]
  BY <1>1, WorkerFrame DEF IInv, OneWorker
<1>3. \A i \in Jobs : i # j => ~Published(i) /\ ~Published(i)'
  BY <1>2 DEF Published, Alive, At
<1>4. slot'.owner = j
  BY <1>2, WorkerFrame DEF IInv
<1> QED
  BY <1>1, <1>2, <1>3, <1>4 DEF Busy, Done, Running

\* A job that gives up its directory withdraws what it may have published.
LEMMA AbortWithdraws ==
  ASSUME IInv, FilesInv, NEW j \in Jobs, WorkerStep(j), work[j].pc \in Middle,
         NEW o \in {"cancelled", "failed"}, Abort(j, o)
  PROVE  Atomic!Withdraw
<1>1. /\ Busy = j /\ Busy # NoJob /\ slot' = slot /\ UNCHANGED <<dirs, content, asked>>
      /\ work'[j].pc = "cleanup" /\ discarded' = discarded \cup {Own(j)}
      /\ Running /\ slot.owner = j
  BY OneBusy DEF IInv, TypeOK, OneWorker, Abort, storeVars, slotVars, handlerVars
<1>2. Done' = FALSE
  BY <1>1, OneBusy DEF Published, At
<1>3. ASSUME NEW k \in Key
      PROVE  UsableBy(k)' = IF UsableBy(k) = j THEN NoJob ELSE UsableBy(k)
  <2>1. CASE k = Own(j)
    <3>1. UsableBy(k)' = NoJob
      BY <1>1, <2>1 DEF UsableBy
    <3>2. k \in asked \/ content[k][Meta] \in {j, Absent, Partial}
      BY <2>1 DEF IInv, WorkInv, Building
    <3>3. UsableBy(k) \in {j, NoJob}
      BY <3>2, StoreAssumption DEF UsableBy, Readable, Writer
    <3> QED
      BY <3>1, <3>3
  <2>2. CASE k # Own(j)
    <3>1. content[k][Meta] # j
      BY <2>2, OneBusy, Parts DEF FilesInv, WriterInv
    <3>2. UsableBy(k) # j
      BY <3>1, <1>1 DEF UsableBy
    <3>3. UsableBy(k)' = UsableBy(k)
      BY <1>1, <2>2 DEF UsableBy, Readable
    <3> QED
      BY <3>2, <3>3
  <2> QED
    BY <2>1, <2>2
<1>4. Busy' = Busy /\ slot'.phase = slot.phase
  BY <1>1 DEF Busy, Running
<1> QED
  BY <1>1, <1>2, <1>3, <1>4 DEF Atomic!Withdraw, Busy, Done

\* The end of meta.json publishes the snapshot.
LEMMA ClosePublishes ==
  ASSUME IInv, FilesInv, NEW j \in Jobs, WorkerStep(j), CloseMeta(j), ~Abort(j, "failed"),
         NEW own \in Key, own = Own(j)
  PROVE  Atomic!Publish(own)
<1>1. /\ At(j, "metaClose") /\ content \in [Key -> [Part -> Content]]
      /\ work \in [Jobs -> Work] /\ work[j] \in Work
  BY DEF CloseMeta, IInv, TypeOK, StoreTypeOK
<1>2. /\ own \in dirs /\ own \notin asked \cup discarded
      /\ content[own][Meta] = Partial
  BY <1>1, Filling DEF Building, At, Middle
<1>3. /\ \A k \in Key : k # own => content'[k] = content[k]
      /\ content'[own][Meta] = j
      /\ UNCHANGED <<dirs, asked, discarded, slot>>
  BY <1>1, <1>2, Parts DEF CloseMeta, FinishFile, slotVars, handlerVars
<1>4. Published(j)' /\ ~Published(j)
  BY <1>1 DEF CloseMeta, Published, At, Work
<1>5. UsableBy(own) = NoJob /\ UsableBy(own)' = j
  BY <1>2, <1>3, StoreAssumption DEF UsableBy, Readable, Writer
<1>6. \A k \in Key : k # own => UsableBy(k)' = UsableBy(k)
  BY <1>3 DEF UsableBy, Readable
<1>7. Busy = j /\ Busy # NoJob /\ Busy' = Busy /\ slot'.phase = slot.phase
      /\ ~Done /\ Done'
  BY <1>3, <1>4, OneBusy DEF Busy, Running
<1>8. Usable' = [Usable EXCEPT ![own] = j] /\ Usable[own] = NoJob
  BY <1>2, <1>5, <1>6 DEF Usable
<1> QED
  BY <1>7, <1>8 DEF Atomic!Publish, Usable, Busy, Done

\* The job is shown as done exactly if its snapshot is there.
LEMMA SettleEnds ==
  ASSUME IInv, FilesInv, NEW j \in Jobs, WorkerStep(j), Settle(j)
  PROVE  Atomic!End(work[j].outcome) /\ work[j].outcome \in {"done", "cancelled", "failed"}
<1> DEFINE o == work[j].outcome
<1>1. /\ At(j, "settle") /\ o \in {"done", "cancelled", "failed"}
      /\ slot'.phase = o /\ work'[j].pc = "gone"
      /\ UNCHANGED <<dirs, content, asked, discarded>>
  BY DEF Settle, SettleJob, IInv, TypeOK, SlotTypeOK, WorkInv, Outcome, Gone, NoWork,
     storeVars, handlerVars
<1>2. (Done <=> o = "done") /\ ~Done'
  BY <1>1, OneBusy DEF Published, At
<1>3. Busy = j /\ Busy # NoJob /\ Busy' = NoJob
  BY <1>1, OneBusy DEF Busy, Running
<1>4. \A k \in Key : UsableBy(k)' = UsableBy(k)
  BY <1>1 DEF UsableBy, Readable
<1>5. o # "done" => \A k \in Key : UsableBy(k) # j
  BY <1>1, <1>3 DEF FilesInv, MetaInv, UsableBy
<1> QED
  BY <1>1, <1>2, <1>3, <1>4, <1>5 DEF Atomic!End, Busy, Done

\* A file of a directory that is not readable before and after.
LEMMA UnseenFile ==
  ASSUME IInv, FilesInv, NEW j \in Jobs, NEW p \in Part, NEW v \in Content,
         work[j].pc \in Middle \ {"outputs", "metaClose"}, NEW own \in Key, own = Own(j),
         content' = [content EXCEPT ![own][p] = v], v \in Writer => p # Meta,
         UNCHANGED <<dirs, asked, discarded>>
  PROVE  \A k \in Key : UsableBy(k)' = UsableBy(k)
<1>1. /\ content \in [Key -> [Part -> Content]]
      /\ content[own][Meta] \notin Writer
  BY Filling, StoreAssumption DEF IInv, TypeOK, StoreTypeOK, Building, At, Writer
<1>2. content'[own][Meta] \notin Writer /\ \A k \in Key : k # own => content'[k] = content[k]
  BY <1>1, Parts
<1> QED
  BY <1>1, <1>2 DEF UsableBy, Readable

LEMMA WorkerUnseen ==
  ASSUME IInv, FilesInv, NEW j \in Jobs, WorkerStep(j),
         ~Settle(j), ~CloseMeta(j), \A o \in {"cancelled", "failed"} : ~Abort(j, o)
  PROVE  UNCHANGED Atomic!vars
<1>1. /\ work[j] \in Work /\ work \in [Jobs -> Work] /\ WorkInv(j)
      /\ content \in [Key -> [Part -> Content]] /\ SlotTypeOK /\ StoreInv
      /\ j \in Content /\ Partial \in Content /\ Partial \notin Writer /\ Absent \notin Writer
  BY StoreAssumption DEF IInv, TypeOK, StoreTypeOK, Content, Writer
<1> DEFINE Same  == \A k \in Key : UsableBy(k)' = UsableBy(k)
           Quiet == UNCHANGED <<dirs, content, asked, discarded>>
<1>2. Quiet => Same
  BY DEF UsableBy, Readable
<1>3. Same
  <2>1. CASE PrepareDir(j)
    <3>1. CASE GiveUp(j)
      BY <1>2, <3>1 DEF GiveUp, storeVars, handlerVars
    <3>2. CASE MakeDir(Own(j)) /\ Forget(Own(j))
      <4> SUFFICES ASSUME NEW k \in Key PROVE UsableBy(k)' = UsableBy(k)
        OBVIOUS
      <4>1. UNCHANGED content /\ dirs' = dirs \cup {Own(j)} /\ Own(j) \notin dirs
        BY <1>1, <2>1, <3>2 DEF MakeDir, PrepareDir, WorkInv
      <4>2. asked' = asked \ {Own(j)} /\ discarded' = discarded \ {Own(j)}
        BY <3>2, <4>1 DEF Forget
      <4>3. CASE k = Own(j)
        <5>1. content[k][Meta] = Absent
          BY <1>1, <4>1, <4>3, Parts DEF StoreInv, NoFiles
        <5> QED
          BY <1>1, <4>1, <4>3, <5>1 DEF UsableBy, Readable
      <4>4. CASE k # Own(j)
        BY <4>1, <4>2, <4>4 DEF UsableBy, Readable
      <4> QED
        BY <4>3, <4>4
    <3> QED
      BY <2>1, <3>1, <3>2 DEF PrepareDir
  <2>2. CASE BeginTable(j)
    <3>1. /\ content' = [content EXCEPT ![Own(j)][NextTable(j)] = Partial]
          /\ UNCHANGED <<dirs, asked, discarded>> /\ At(j, "table")
      BY <2>2 DEF BeginTable, CreateFile, handlerVars
    <3>2. NextTable(j) \in Tables /\ NextTable(j) \in Part
      BY <1>1, <3>1, Parts DEF WorkInv, Reading, At, IInv
    <3> QED
      BY <1>1, <3>1, <3>2, UnseenFile, Filling, Parts DEF At, Middle
  <2>3. CASE FlushTable(j)
    <3>1. /\ FinishFile(Own(j), NextTable(j), j)
          /\ UNCHANGED <<dirs, asked, discarded>> /\ At(j, "flush")
      BY <2>3 DEF FlushTable, FinishFile, handlerVars
    <3>2. NextTable(j) \in Tables /\ NextTable(j) \in Part
      BY <1>1, <3>1, Parts DEF WorkInv, Reading, At, IInv
    <3>3. content[Own(j)][NextTable(j)] = Partial
      BY <3>1, Filling DEF Building, At, Middle
    <3>4. content' = [content EXCEPT ![Own(j)][NextTable(j)] = j]
      BY <3>1, <3>3 DEF FinishFile
    <3> QED
      BY <1>1, <3>1, <3>2, <3>4, UnseenFile, Filling, Parts DEF At, Middle
  <2>4. CASE WriteSchema(j)
    <3>1. /\ content' = [content EXCEPT ![Own(j)][Schema] = j]
          /\ UNCHANGED <<dirs, asked, discarded>> /\ At(j, "schemaFile")
      BY <2>4 DEF WriteSchema, handlerVars
    <3> QED
      BY <1>1, <3>1, UnseenFile, Filling, Parts DEF At, Middle
  <2>5. CASE OpenMeta(j)
    <3>1. /\ content' = [content EXCEPT ![Own(j)][Meta] = Partial]
          /\ UNCHANGED <<dirs, asked, discarded>> /\ At(j, "metaOpen")
      BY <2>5 DEF OpenMeta, CreateFile, handlerVars
    <3> QED
      BY <1>1, <3>1, UnseenFile, Filling, Parts DEF At, Middle
  <2>6. CASE Cleanup(j)
    <3> SUFFICES ASSUME NEW k \in Key PROVE UsableBy(k)' = UsableBy(k)
      OBVIOUS
    <3>1. /\ At(j, "cleanup") /\ UNCHANGED <<asked, discarded>>
          /\ \/ \E p \in Part : RemoveFile(Own(j), p)
             \/ RemoveDir(Own(j)) \/ UNCHANGED <<dirs, content>>
      BY <2>6 DEF Cleanup, storeVars
    <3>2. Own(j) \in discarded
      BY <1>1, <3>1 DEF WorkInv
    <3>3. CASE k = Own(j)
      BY <3>1, <3>2, <3>3 DEF UsableBy
    <3>4. CASE k # Own(j)
      <4>1. content'[k] = content[k] /\ (k \in dirs' <=> k \in dirs)
        BY <1>1, <3>1, <3>4 DEF RemoveFile, RemoveDir
      <4> QED
        BY <3>1, <4>1 DEF UsableBy, Readable
    <3> QED
      BY <3>3, <3>4
  <2>7. CASE ~(PrepareDir(j) \/ BeginTable(j) \/ FlushTable(j) \/ WriteSchema(j)
               \/ OpenMeta(j) \/ Cleanup(j))
    <3>1. Quiet
      BY <2>7 DEF WorkerStep, ResolveSpecs, ChooseName, ReadBaseline, BaselineRead,
         CollectSchema, BeginPage, FetchPage, CountRows, ProbeSession, WriteOutputs, GiveUp,
         storeVars, handlerVars
    <3> QED
      BY <1>2, <3>1
  <2> QED
    BY <2>1, <2>2, <2>3, <2>4, <2>5, <2>6, <2>7
<1>4. slot'.phase = slot.phase
  <2> USE <1>1 DEF SlotTypeOK, ReportDone, ReportKey, slotVars, GiveUp
  <2>1. CASE ResolveSpecs(j) \/ ChooseName(j) \/ PrepareDir(j) \/ ReadBaseline(j)
    BY <2>1 DEF ResolveSpecs, ChooseName, PrepareDir, ReadBaseline
  <2>2. CASE BaselineRead(j) \/ CollectSchema(j) \/ BeginTable(j) \/ BeginPage(j)
    BY <2>2 DEF BaselineRead, CollectSchema, BeginTable, BeginPage
  <2>3. CASE FetchPage(j) \/ FlushTable(j) \/ CountRows(j) \/ WriteSchema(j)
    BY <2>3 DEF FetchPage, FlushTable, CountRows, WriteSchema
  <2>4. CASE ProbeSession(j) \/ OpenMeta(j) \/ WriteOutputs(j) \/ Cleanup(j)
    BY <2>4 DEF ProbeSession, OpenMeta, WriteOutputs, Cleanup
  <2> QED
    BY <2>1, <2>2, <2>3, <2>4 DEF WorkerStep
<1>5. Published(j)' <=> Published(j)
  <2>1. CASE WriteOutputs(j)
    BY <1>1, <2>1 DEF WriteOutputs, Published, At, Work
  <2>2. CASE Cleanup(j)
    BY <1>1, <2>2 DEF Cleanup, Published, At, Work, WorkInv, Goto
  <2>3. CASE ~WriteOutputs(j) /\ ~Cleanup(j)
    <3>1. work[j].pc \notin {"outputs", "cleanup", "settle", "metaClose"}
      BY <2>3 DEF WorkerStep, ResolveSpecs, ChooseName, PrepareDir, ReadBaseline, BaselineRead,
         CollectSchema, BeginTable, BeginPage, FetchPage, FlushTable, CountRows, WriteSchema,
         ProbeSession, OpenMeta, At
    <3>2. work'[j].pc # "outputs" /\ (work'[j].pc = "settle" => work'[j].outcome = "failed")
      BY <3>1, WorkerMoves DEF Moved, Early, Middle
    <3> QED
      BY <3>1, <3>2 DEF Published, At
  <2> QED
    BY <2>1, <2>2, <2>3
<1>6. Done' <=> Done
  BY <1>5, OneBusy
<1>7. Busy' = Busy
  BY <1>4, WorkerFrame DEF IInv, Busy, Running
<1> QED
  BY <1>3, <1>4, <1>6, <1>7, Unseen DEF Done

LEMMA WorkerRefines ==
  ASSUME IInv, FilesInv, NEW j \in Jobs, WorkerStep(j)
  PROVE  [Atomic!Next]_(Atomic!vars)
<1>1. CASE Settle(j)
  BY <1>1, SettleEnds DEF Atomic!Next
<1>2. ASSUME NEW o \in {"cancelled", "failed"}, Abort(j, o)
      PROVE  [Atomic!Next]_(Atomic!vars)
  <2>1. work[j].pc \in Middle
    <3>1. /\ work[j] \in Work /\ work \in [Jobs -> Work]
          /\ content \in [Key -> [Part -> Content]]
      BY DEF IInv, TypeOK, StoreTypeOK
    <3>2. UNCHANGED <<dirs, content>> /\ work'[j].pc = "cleanup"
      BY <1>2, <3>1 DEF Abort, storeVars
    <3>3. ASSUME Cleanup(j) PROVE FALSE
      <4>1. Own(j) \in Key
        BY <3>3, CleanupRemovable DEF Cleanup
      <4>2. \E p \in Part : RemoveFile(Own(j), p)
        BY <3>1, <3>2, <3>3 DEF Cleanup, Goto, Work
      <4> QED
        BY <3>1, <3>2, <4>1, <4>2, StoreAssumption DEF RemoveFile
    <3>4. ~At(j, "cleanup")
      BY <3>3 DEF WorkerStep, ResolveSpecs, ChooseName, PrepareDir, ReadBaseline, BaselineRead,
         CollectSchema, BeginTable, BeginPage, FetchPage, FlushTable, CountRows, WriteSchema,
         ProbeSession, OpenMeta, CloseMeta, WriteOutputs, Settle, At
    <3> QED
      BY <3>2, <3>4, WorkerMoves DEF Moved, Early, Middle, At
  <2> QED
    BY <1>2, <2>1, AbortWithdraws DEF Atomic!Next
<1>3. CASE CloseMeta(j) /\ ~Abort(j, "failed")
  <2>1. Own(j) \in Key
    BY <1>3, Filling DEF CloseMeta, At, Middle
  <2>2. PICK k \in Key : k = Own(j)
    BY <2>1
  <2>3. Atomic!Publish(k)
    BY <1>3, <2>2, ClosePublishes
  <2> QED
    BY <2>3 DEF Atomic!Next
<1>4. CASE ~Settle(j) /\ ~CloseMeta(j) /\ \A o \in {"cancelled", "failed"} : ~Abort(j, o)
  BY <1>4, WorkerUnseen
<1> QED
  BY <1>1, <1>2, <1>3, <1>4

LEMMA HandlerRefines ==
  ASSUME IInv, NEW h \in Handlers, HandlerStep(h)
  PROVE  [Atomic!Next]_(Atomic!vars)
<1>1. content \in [Key -> [Part -> Content]] /\ Meta \in Part
  BY Parts DEF IInv, TypeOK, StoreTypeOK
<1>2. ASSUME NEW j \in Jobs, Launched(j), UNCHANGED <<storeVars, asked, discarded, finished>>
      PROVE  Atomic!Next
  <2>1. \A i \in Jobs : ~Alive(i)
    BY <1>2 DEF Launched, IInv, OneWorker
  <2>2. ~Done
    BY <2>1 DEF Done, Published, Alive, At
  <2>3. ~Done'
    BY <1>2, <2>1 DEF Launched, Done, Published, Alive, At
  <2>4. \A k \in Key : UsableBy(k)' = UsableBy(k)
    BY <1>2 DEF UsableBy, Readable, storeVars
  <2>5. Busy = NoJob /\ Busy' = j /\ slot'.phase = "running"
    BY <1>2 DEF Launched, Busy, Running
  <2>6. Atomic!Begin(j)
    BY <2>2, <2>3, <2>4, <2>5 DEF Atomic!Begin, Busy, Done
  <2> QED
    BY <2>6 DEF Atomic!Next
<1>3. ASSUME UNCHANGED <<slot, work>>
      PROVE  [Atomic!Next]_(Atomic!vars)
  <2>1. Busy' = Busy /\ (Done' <=> Done) /\ slot'.phase = slot.phase
    BY <1>3 DEF Busy, Done, Published, Running, At
  <2>2. ASSUME NEW x \in Key, MigrateOne(h, x) PROVE [Atomic!Next]_(Atomic!vars)
    <3>1. /\ x \notin dirs /\ dirs' = dirs \cup {x} /\ content'[x][Meta] = Old
          /\ \A k \in Key : k # x => content'[k] = content[k]
          /\ UNCHANGED <<asked, discarded>>
      BY <1>1, <2>2 DEF MigrateOne, MoveLegacy, FilesBy
    <3>2. \A k \in Key : k # x => UsableBy(k)' = UsableBy(k)
      BY <3>1 DEF UsableBy, Readable
    <3>3. UsableBy(x) = NoJob
      BY <3>1 DEF UsableBy, Readable
    <3>4. CASE x \in asked \cup discarded
      <4>1. UsableBy(x)' = NoJob
        BY <3>1, <3>4 DEF UsableBy
      <4> QED
        BY <2>1, <3>2, <3>3, <4>1, Unseen DEF Done
    <3>5. CASE x \notin asked \cup discarded
      <4>1. UsableBy(x)' = Old
        BY <3>1, <3>5 DEF UsableBy, Readable, Writer
      <4>2. Usable' = [Usable EXCEPT ![x] = Old] /\ Usable[x] = NoJob
        BY <3>2, <3>3, <4>1 DEF Usable
      <4>3. Atomic!Adopt(x)
        BY <2>1, <4>2 DEF Atomic!Adopt, Usable, Busy, Done
      <4> QED
        BY <4>3 DEF Atomic!Next
    <3> QED
      BY <3>4, <3>5
  <2>3. ASSUME NEW x \in Key, StartDelete(h, x) PROVE [Atomic!Next]_(Atomic!vars)
    <3>1. UNCHANGED <<dirs, content, discarded>> /\ asked' = asked \cup {x}
      BY <2>3 DEF StartDelete, storeVars
    <3>2. /\ \A k \in Key : k # x => UsableBy(k)' = UsableBy(k)
          /\ UsableBy(x)' = NoJob
      BY <3>1 DEF UsableBy, Readable
    <3>3. Usable' = [Usable EXCEPT ![x] = NoJob]
      BY <3>2 DEF Usable
    <3>4. Atomic!Delete(x)
      BY <2>1, <3>3 DEF Atomic!Delete, Usable, Busy, Done
    <3> QED
      BY <3>4 DEF Atomic!Next
  <2>4. ASSUME (\E q \in Part : DeleteFile(h, q)) \/ DeleteDir(h)
        PROVE  [Atomic!Next]_(Atomic!vars)
    <3> DEFINE x == handler[h].key
    <3>1. /\ x \in Key /\ x \in asked /\ UNCHANGED <<asked, discarded>>
          /\ (\E q \in Part : RemoveFile(x, q)) \/ RemoveDir(x)
      BY <2>4 DEF DeleteFile, DeleteDir, IInv, HandlerInv, TypeOK
    <3> HIDE DEF x
    <3>2. \A k \in Key : k # x => content'[k] = content[k] /\ (k \in dirs' <=> k \in dirs)
      BY <1>1, <3>1 DEF RemoveFile, RemoveDir
    <3>3. \A k \in Key : UsableBy(k)' = UsableBy(k)
      BY <3>1, <3>2 DEF UsableBy, Readable
    <3> QED
      BY <2>1, <3>3, Unseen DEF Done
  <2>5. ASSUME UNCHANGED <<storeVars, asked, discarded>> PROVE [Atomic!Next]_(Atomic!vars)
    <3>1. \A k \in Key : UsableBy(k)' = UsableBy(k)
      BY <2>5 DEF UsableBy, Readable, storeVars
    <3> QED
      BY <2>1, <3>1, Unseen DEF Done
  <2>6. ASSUME \/ \E j \in Jobs, d \in Databases : StartCreate(h, j, d)
               \/ \E k \in Key : CheckBaseline(h, k)
               \/ \E j \in Jobs : StartDiff(h, j)
               \/ RefuseDiff(h) \/ Cancel(h) \/ StartList(h) \/ FinishList(h) \/ DeleteFails(h)
        PROVE  UNCHANGED <<storeVars, asked, discarded>>
    BY <2>6 DEF StartCreate, CheckBaseline, StartDiff, RefuseDiff, Cancel, StartList,
       FinishList, DeleteFails
  <2> QED
    BY <2>2, <2>3, <2>4, <2>5, <2>6 DEF HandlerStep
<1> QED
  BY <1>2, <1>3, HandlerFrame DEF IInv

(* Files, threads, interrupted removals, failed writes and crashes of the  *)
(* process implement the atomic store, for any number of jobs, handlers,   *)
(* tables and databases: a job's snapshot appears once and whole, done is  *)
(* shown exactly when it has, and a cancelled or failed job has withdrawn  *)
(* what it had published.                                                  *)
THEOREM Refinement == Spec => ImplementsAtomicStore
<1>1. Init => Atomic!Init
  <2> SUFFICES ASSUME Init PROVE Atomic!Init
    OBVIOUS
  <2>1. \A k \in Key : UsableBy(k) = NoJob
    BY DEF Init, StoreInit, UsableBy, Readable
  <2>2. Busy = NoJob /\ ~Done /\ slot.phase = "idle"
    BY DEF Init, SlotInit, EmptySlot, Busy, Running, Done, Published, At, NoWork
  <2> QED
    BY <2>1, <2>2 DEF Atomic!Init, Busy, Done
<1>2. IInv /\ FilesInv /\ [Next]_vars => [Atomic!Next]_(Atomic!vars)
  <2> SUFFICES ASSUME IInv, FilesInv, [Next]_vars PROVE [Atomic!Next]_(Atomic!vars)
    OBVIOUS
  <2>1. ASSUME Crash PROVE Atomic!Restart
    <3>1. UNCHANGED <<storeVars, asked, discarded>> /\ slot' = EmptySlot
          /\ \A j \in Jobs : work'[j] = IF Alive(j) THEN Gone(j) ELSE work[j]
      BY <2>1 DEF Crash
    <3>2. \A j \in Jobs : work'[j].pc \notin {"outputs", "settle"}
      BY <3>1 DEF Gone, NoWork, Alive
    <3>3. Busy' = NoJob /\ ~Done' /\ slot'.phase = "idle"
      BY <3>1, <3>2 DEF EmptySlot, Busy, Running, Done, Published, At
    <3>4. \A k \in Key : UsableBy(k)' = UsableBy(k)
      BY <3>1 DEF UsableBy, Readable, storeVars
    <3> QED
      BY <3>3, <3>4 DEF Atomic!Restart, Busy, Done
  <2>2. ASSUME Clock \/ UNCHANGED vars PROVE UNCHANGED Atomic!vars
    <3>1. UNCHANGED <<dirs, content, asked, discarded, slot, work>>
      BY <2>2 DEF Clock, Tick, vars, storeVars, slotVars, handlerVars
    <3> QED
      BY <3>1, Unseen DEF UsableBy, Readable, Busy, Running, Done, Published, At
  <2> QED
    BY <2>1, <2>2, WorkerRefines, HandlerRefines DEF Next, Atomic!Next
<1> QED
  BY <1>1, <1>2, Inductive, FilesAlways, PTL DEF Spec, ImplementsAtomicStore, Atomic!Spec

=============================================================================
