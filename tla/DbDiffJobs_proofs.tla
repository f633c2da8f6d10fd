------------------------- MODULE DbDiffJobs_proofs -------------------------
(***************************************************************************)
(* Theorems about DbDiffJobs, for any number of jobs, request handlers,    *)
(* tables, databases and clock readings.                                   *)
(*                                                                         *)
(* ListedComplete and FinishedSurvives are not inductive: whether the file *)
(* about to be written completes a snapshot depends on what the worker has *)
(* written before, and that nothing else wrote to its directory; whether a *)
(* removal hits a finished snapshot depends on whose directory it is.      *)
(* IInv adds where each worker is in building its directory, that it is    *)
(* the only worker, that only directories the user asked for are being     *)
(* deleted, that a job reported done has ended, and that a directory that  *)
(* does not exist has no files.                                            *)
(***************************************************************************)
EXTENDS DbDiffJobs, TLAPS

\* The ids this run of the plugin can choose.
NewKey == Databases \X Seconds \X (1 .. MaxSuffix)

Reading == {"table", "page", "fetch", "flush", "count"}
Writing == {"schemaFile", "probe", "metaOpen", "metaClose", "outputs"}

StoreInv ==
    /\ \A k \in Key : k \notin dirs => content[k] = NoFiles
    /\ \A k \in legacy : k \notin dirs /\ k[2] \in LegacySeconds

HandlerInv ==
    \A h \in Handlers :
        /\ handler[h].op = "diff" => handler[h].key \in Key
        /\ handler[h].op = "delete" => handler[h].key \in dirs \cap asked

\* How far the directory of a live worker has been filled.
Building(j) ==
    /\ Own(j) \in dirs
    /\ Own(j) \notin discarded
    /\ content[Own(j)][Meta] = IF At(j, "outputs") THEN j
                               ELSE IF At(j, "metaClose") THEN Partial ELSE Absent
    /\ work[j].pc \in Reading =>
           \A t \in Tables : t <= work[j].tables => content[Own(j)][t] = j
    /\ work[j].pc \in {"page", "fetch", "flush"} => content[Own(j)][NextTable(j)] = Partial
    /\ At(j, "count") => content[Own(j)][NextTable(j)] = j
    /\ work[j].pc \in Writing \/ (At(j, "schema") /\ IsSnapshot(j)) =>
           \A t \in Tables : content[Own(j)][t] = j
    /\ work[j].pc \in Writing \ {"schemaFile"} => content[Own(j)][Schema] = j

\* A snapshot is reported done by the last step of its job.
FinishedInv ==
    \A f \in finished : f[2] \in Jobs => At(f[2], "gone")

WorkInv(j) ==
    /\ Alive(j) => work[j].db \in Databases
    /\ Alive(j) /\ ~IsSnapshot(j) => work[j].base \in Key
    /\ work[j].pc \in {"mkdir", "cleanup"} \cup Middle =>
           Own(j) \in NewKey
    /\ At(j, "base") => ~IsSnapshot(j)
    /\ work[j].pc \in Reading => work[j].tables < NumTables
    /\ At(j, "schema") /\ ~IsSnapshot(j) => work[j].tables = 0
    /\ At(j, "settle") => work[j].outcome \in Outcome
    /\ At(j, "settle") /\ work[j].outcome = "done" =>
           /\ Own(j) \in NewKey
           /\ Own(j) \in asked \/ (Own(j) \in dirs /\ content[Own(j)] = FilesBy(j))
    /\ At(j, "mkdir") => Own(j) \notin dirs
    /\ work[j].pc \in Early => work[j].tables = 0
    /\ At(j, "cleanup") =>
           /\ work[j].outcome \in {"cancelled", "failed"}
           /\ Own(j) \in discarded
           /\ Own(j) \in asked \/ \A f \in finished : f[1] # Own(j)
    /\ work[j].pc \in Middle => Own(j) \in asked \/ Building(j)

IInv ==
    /\ TypeOK
    /\ OneWorker
    /\ StoreInv
    /\ HandlerInv
    /\ \A j \in Jobs : WorkInv(j)
    /\ ListedComplete
    /\ FinishedInv
    /\ FinishedSurvives

-----------------------------------------------------------------------------
(* The initial states.                                                     *)

LEMMA NoWorkType == NoWork \in Work /\ NoWork.tables = 0
BY StoreAssumption, PagesAssumption DEF NoWork, Work, PC, Kind, Outcome

LEMMA InitIInv == Init => IInv
<1> SUFFICES ASSUME Init PROVE IInv
  OBVIOUS
<1> USE StoreAssumption, SlotAssumption, PagesAssumption
<1>1. TypeOK
  <2>1. StoreTypeOK
    BY SMT DEF Init, StoreInit, StoreTypeOK, NoFiles, Content, Writer, Key, Part
  <2>2. SlotTypeOK
    BY DEF Init, SlotInit, SlotTypeOK, EmptySlot, Phase, Outcome, Kind
  <2>3. NoWork \in Work
    BY NoWorkType
  <2>4. finished \subseteq Key \X Writer
    BY DEF Init, StoreInit, Key, Writer
  <2> QED
    BY <2>1, <2>2, <2>3, <2>4 DEF TypeOK, Init, Idle
<1>2. OneWorker /\ \A j \in Jobs : WorkInv(j)
  BY DEF Init, OneWorker, WorkInv, Alive, At, NoWork, Reading, Early, Middle
<1>3. StoreInv /\ HandlerInv
  BY DEF Init, StoreInit, StoreInv, HandlerInv, Idle, Key
<1>4. ListedComplete
  BY DEF Init, StoreInit, ListedComplete, Readable
<1>5. FinishedInv /\ FinishedSurvives
  BY DEF Init, StoreInit, FinishedInv, FinishedSurvives
<1> QED
  BY <1>1, <1>2, <1>3, <1>4, <1>5 DEF IInv

-----------------------------------------------------------------------------
(* Frames.                                                                 *)

\* With the live worker's own part of the invariant, the others' is free.
LEMMA WorkersFrame ==
  ASSUME IInv, NEW j \in Jobs, Alive(j),
         \A i \in Jobs : i # j => work'[i] = work[i],
         Alive(j)' => slot'.phase = slot.phase /\ slot'.owner = slot.owner,
         WorkInv(j)'
  PROVE  OneWorker' /\ \A i \in Jobs : WorkInv(i)'
<1>1. \A i \in Jobs : i # j => ~Alive(i) /\ ~Alive(i)'
  BY DEF IInv, OneWorker, Alive
<1>2. OneWorker'
  BY <1>1 DEF IInv, OneWorker, Alive, Running
<1>3. \A i \in Jobs : i # j => WorkInv(i)'
  BY <1>1 DEF WorkInv, Alive, At, Reading, Early, Middle
<1> QED
  BY <1>2, <1>3

\* A step of a worker that touches no file: the outcomes of the queries it
\* waits for, its early returns, and what it reports to the slot.
LEMMA QuietStep ==
  ASSUME IInv, NEW j \in Jobs, Alive(j),
         NEW w \in Work,
         work' = [work EXCEPT ![j] = w],
         w.pc # "unused",
         UNCHANGED <<storeVars, handlerVars, finished>>,
         discarded \subseteq discarded', discarded' \subseteq Key,
         SlotTypeOK',
         slot'.phase = slot.phase, slot'.owner = slot.owner,
         WorkInv(j)'
  PROVE  IInv'
<1>1. TypeOK'
  BY DEF IInv, TypeOK, StoreTypeOK, storeVars, handlerVars
<1>2. work \in [Jobs -> Work] /\ finished \subseteq Key \X Writer
  BY DEF IInv, TypeOK
<1>3. OneWorker' /\ \A i \in Jobs : WorkInv(i)'
  BY <1>2, WorkersFrame
<1>4. StoreInv' /\ HandlerInv'
  BY DEF IInv, StoreInv, HandlerInv, storeVars, handlerVars
<1>5. ListedComplete'
  BY DEF IInv, ListedComplete, Readable, Complete, storeVars, handlerVars
<1>6. FinishedInv'
  BY <1>2 DEF IInv, FinishedInv, At, Alive
<1>7. FinishedSurvives'
  BY DEF IInv, FinishedSurvives, storeVars, handlerVars
<1> QED
  BY <1>1, <1>3, <1>4, <1>5, <1>6, <1>7 DEF IInv

-----------------------------------------------------------------------------
(* The early returns.                                                      *)

\* The directory a job is filling is not that of a finished snapshot.
LEMMA OwnUnfinished ==
  ASSUME IInv, NEW j \in Jobs, work[j].pc \in Middle
  PROVE  Own(j) \in asked \/ \A f \in finished : f[1] # Own(j)
<1> SUFFICES ASSUME Own(j) \notin asked, NEW f \in finished, f[1] = Own(j)
             PROVE  FALSE
  OBVIOUS
<1>1. Own(j) \in dirs /\ content[Own(j)][Meta] \in {j, Absent, Partial}
  BY DEF IInv, WorkInv, Building
<1>2. f[2] \in Writer /\ Meta \in Part
  BY StoreAssumption DEF IInv, TypeOK, Meta, Part
<1>3. content[Own(j)] = FilesBy(f[2])
  BY <1>1 DEF IInv, FinishedSurvives, StoreInv
<1>4. f[2] = j
  BY <1>1, <1>2, <1>3, StoreAssumption DEF FilesBy, Writer
<1> QED
  BY <1>4 DEF IInv, FinishedInv, At, Middle

LEMMA AbortStep ==
  ASSUME IInv, NEW j \in Jobs, work[j].pc \in Middle,
         NEW outcome \in {"cancelled", "failed"}, Abort(j, outcome)
  PROVE  IInv'
<1> DEFINE w == [work[j] EXCEPT !.pc = "cleanup", !.outcome = outcome]
<1>1. work[j] \in Work /\ work \in [Jobs -> Work]
  BY DEF IInv, TypeOK
<1>2. w \in Work /\ work' = [work EXCEPT ![j] = w] /\ w.pc # "unused"
  BY <1>1 DEF Work, PC, Abort, Outcome
<1>3. Own(j) \in Key
  BY DEF IInv, WorkInv, NewKey, Key
<1>4. Alive(j)
  BY DEF Alive, Middle
<1>5. Own(j) \in asked \/ \A f \in finished : f[1] # Own(j)
  BY OwnUnfinished
<1>6. WorkInv(j)'
  BY <1>1, <1>2, <1>4, <1>5 DEF IInv, WorkInv, Abort, Alive, At, Own, IsSnapshot,
     handlerVars, Reading, Early, Middle
<1>7. discarded' = discarded \cup {Own(j)} /\ discarded \subseteq Key
  BY DEF Abort, IInv, TypeOK
<1>8. SlotTypeOK'
  BY DEF IInv, TypeOK, SlotTypeOK, Abort, slotVars
<1> HIDE DEF w
<1> QED
  BY <1>2, <1>3, <1>4, <1>6, <1>7, <1>8, QuietStep DEF Abort, slotVars

LEMMA GiveUpStep ==
  ASSUME IInv, NEW j \in Jobs, Alive(j), GiveUp(j)
  PROVE  IInv'
<1> DEFINE w == [work[j] EXCEPT !.pc = "settle", !.outcome = "failed"]
<1>1. work[j] \in Work /\ work \in [Jobs -> Work]
  BY DEF IInv, TypeOK
<1>2. w \in Work /\ work' = [work EXCEPT ![j] = w] /\ w.pc # "unused"
  BY <1>1 DEF Work, PC, GiveUp, Outcome
<1>3. WorkInv(j)'
  BY <1>1, <1>2 DEF IInv, WorkInv, Alive, At, IsSnapshot, Reading, Early, Middle, Outcome
<1>4. discarded' = discarded /\ discarded \subseteq Key
  BY DEF GiveUp, IInv, TypeOK
<1>5. SlotTypeOK'
  BY DEF IInv, TypeOK, SlotTypeOK, GiveUp, slotVars
<1> HIDE DEF w
<1> QED
  BY <1>2, <1>3, <1>4, <1>5, QuietStep DEF GiveUp, slotVars

-----------------------------------------------------------------------------
(* The steps of a worker that write no file.                               *)

LEMMA ResolveSpecsStep ==
  ASSUME IInv, NEW j \in Jobs, ResolveSpecs(j)
  PROVE  IInv'
<1>1. At(j, "resolve") /\ Alive(j)
  BY DEF ResolveSpecs, At, Alive
<1>2. CASE GiveUp(j)
  BY <1>1, <1>2, GiveUpStep
<1>3. CASE Goto(j, "name") /\ UNCHANGED <<storeVars, slotVars, handlerVars, discarded, finished>>
  <2> DEFINE w == [work[j] EXCEPT !.pc = "name"]
  <2>1. work[j] \in Work /\ work \in [Jobs -> Work] /\ SlotTypeOK /\ discarded \subseteq Key
    BY DEF IInv, TypeOK
  <2>2. w \in Work /\ work' = [work EXCEPT ![j] = w] /\ w.pc # "unused"
    BY <1>3, <2>1 DEF Work, PC, Goto, Early
  <2>3. WorkInv(j)'
    BY <1>1, <2>1, <2>2 DEF IInv, WorkInv, Alive, At, IsSnapshot, Reading, Early, Middle
  <2>4. SlotTypeOK'
    BY <1>3, <2>1 DEF SlotTypeOK, slotVars
  <2> HIDE DEF w
  <2> QED
    BY <1>1, <1>3, <2>1, <2>2, <2>3, <2>4, QuietStep DEF slotVars
<1> QED
  BY <1>2, <1>3 DEF ResolveSpecs

LEMMA ChooseNameStep ==
  ASSUME IInv, NEW j \in Jobs, ChooseName(j)
  PROVE  IInv'
<1>1. At(j, "name") /\ Alive(j)
  BY DEF ChooseName, At, Alive
<1>2. PICK k \in Key : FreshKey(work[j].db, k)
                       /\ work' = [work EXCEPT ![j].pc = "mkdir", ![j].own = k]
  BY DEF ChooseName
<1> DEFINE w == [work[j] EXCEPT !.pc = "mkdir", !.own = k]
<1>3. work[j] \in Work /\ work \in [Jobs -> Work] /\ SlotTypeOK /\ discarded \subseteq Key
  BY DEF IInv, TypeOK
<1>4. w \in Work /\ work' = [work EXCEPT ![j] = w] /\ w.pc # "unused"
  BY <1>2, <1>3 DEF Work, PC, Early
<1>5. k \in NewKey /\ k \notin dirs
  <2>1. work[j].db \in Databases /\ clock \in Seconds
    BY <1>1 DEF IInv, WorkInv, TypeOK, StoreTypeOK
  <2> QED
    BY <1>2, <2>1 DEF FreshKey, NewKey
<1>6. WorkInv(j)'
  <2>1. work'[j] = w /\ w.pc = "mkdir" /\ w.own = k /\ w.db = work[j].db
        /\ w.kind = work[j].kind /\ w.base = work[j].base
        /\ w.tables = work[j].tables
    BY <1>3, <1>4 DEF Work
  <2>2. dirs' = dirs
    BY DEF ChooseName, storeVars
  <2> HIDE DEF w
  <2> QED
    BY <1>1, <1>5, <2>1, <2>2 DEF IInv, WorkInv, Alive, At, Own, IsSnapshot, Reading, Early, Middle
<1>7. SlotTypeOK'
  BY <1>3 DEF ChooseName, SlotTypeOK, slotVars
<1> HIDE DEF w
<1> QED
  BY <1>1, <1>3, <1>4, <1>6, <1>7, QuietStep DEF ChooseName, slotVars

LEMMA ReadBaselineStep ==
  ASSUME IInv, NEW j \in Jobs, ReadBaseline(j)
  PROVE  IInv'
<1> DEFINE got == content[work[j].base][BaselinePart(j)]
           w   == [work[j] EXCEPT !.seen = @ \cup {got},
                                  !.tables = IF BaselinePart(j) = Schema THEN 0 ELSE @ + 1]
<1>1. At(j, "base") /\ Alive(j) /\ work[j].pc \in Middle /\ work[j].tables < NumTables
  BY DEF ReadBaseline, At, Alive, Middle
<1>2. CASE Abort(j, "failed")
  BY <1>1, <1>2, AbortStep
<1>3. CASE /\ got # Absent
           /\ work' = [work EXCEPT ![j].seen = @ \cup {got},
                  ![j].tables = IF BaselinePart(j) = Schema THEN 0 ELSE @ + 1]
           /\ UNCHANGED <<storeVars, slotVars, handlerVars, discarded, finished>>
  <2>1. work[j] \in Work /\ work \in [Jobs -> Work] /\ SlotTypeOK /\ discarded \subseteq Key
    BY DEF IInv, TypeOK
  <2>2. got \in Content
    <3>1. work[j].base \in Key /\ content \in [Key -> [Part -> Content]]
      BY <1>1 DEF IInv, WorkInv, TypeOK, StoreTypeOK
    <3>2. BaselinePart(j) \in Part
      BY <1>1, <2>1, StoreAssumption DEF BaselinePart, Part, Schema, NextTable, Work
    <3> QED
      BY <3>1, <3>2
  <2>3. w \in Work /\ work' = [work EXCEPT ![j] = w] /\ w.pc # "unused"
    <3>1. w.seen \in SUBSET (Writer \cup {Partial})
      BY <1>3, <2>1, <2>2 DEF Work, Content
    <3>2. w.tables \in 0 .. NumTables
      BY <1>1, <2>1, StoreAssumption DEF Work
    <3>3. work' = [work EXCEPT ![j] = w]
      BY <1>3, <2>1 DEF Work
    <3> QED
      BY <1>1, <2>1, <3>1, <3>2, <3>3 DEF Work, PC, At
  <2>4. WorkInv(j)'
    BY <1>1, <1>3, <2>1, <2>3 DEF IInv, WorkInv, Alive, At, Own, IsSnapshot, Reading,
       Writing, Early, Middle, Building, storeVars, handlerVars
  <2>5. SlotTypeOK'
    BY <1>3, <2>1 DEF SlotTypeOK, slotVars
  <2> HIDE DEF w
  <2> QED
    BY <1>1, <1>3, <2>1, <2>3, <2>4, <2>5, QuietStep DEF slotVars
<1> QED
  BY <1>2, <1>3 DEF ReadBaseline

LEMMA BaselineReadStep ==
  ASSUME IInv, NEW j \in Jobs, BaselineRead(j)
  PROVE  IInv'
<1>1. At(j, "base") /\ Alive(j) /\ work[j].pc \in Middle
  BY DEF BaselineRead, At, Alive, Middle
<1>2. CASE Abort(j, "cancelled")
  BY <1>1, <1>2, AbortStep
<1>3. CASE /\ work' = [work EXCEPT ![j].pc = "schema", ![j].tables = 0]
           /\ ReportDone(1)
           /\ UNCHANGED <<storeVars, handlerVars, discarded, finished>>
  <2> DEFINE w == [work[j] EXCEPT !.pc = "schema", !.tables = 0]
  <2>1. work[j] \in Work /\ work \in [Jobs -> Work] /\ SlotTypeOK /\ discarded \subseteq Key
    BY DEF IInv, TypeOK
  <2>2. w \in Work /\ work' = [work EXCEPT ![j] = w] /\ w.pc # "unused"
    <3>1. w.pc \in PC \ {"unused"} /\ w.tables \in 0 .. NumTables
      BY <2>1, StoreAssumption DEF Work, PC, Middle
    <3>2. work' = [work EXCEPT ![j] = w]
      BY <1>3, <2>1 DEF Work
    <3> QED
      BY <2>1, <3>1, <3>2 DEF Work
  <2>3. WorkInv(j)'
    BY <1>1, <1>3, <2>1, <2>2 DEF IInv, WorkInv, Alive, At, Own, IsSnapshot, Reading,
       Writing, Early, Middle, Building, storeVars, handlerVars
  <2>4. SlotTypeOK' /\ slot'.phase = slot.phase /\ slot'.owner = slot.owner
    BY <1>3, <2>1 DEF SlotTypeOK, ReportDone
  <2> HIDE DEF w
  <2> QED
    BY <1>1, <1>3, <2>1, <2>2, <2>3, <2>4, QuietStep
<1> QED
  BY <1>2, <1>3 DEF BaselineRead

LEMMA CollectSchemaStep ==
  ASSUME IInv, NEW j \in Jobs, CollectSchema(j)
  PROVE  IInv'
<1>1. At(j, "schema") /\ Alive(j) /\ work[j].pc \in Middle
  BY DEF CollectSchema, At, Alive, Middle
<1>2. CASE Abort(j, "cancelled") \/ Abort(j, "failed")
  BY <1>1, <1>2, AbortStep
<1>3. CASE /\ Goto(j, IF IsSnapshot(j) THEN "schemaFile" ELSE "table")
           /\ UNCHANGED <<storeVars, slotVars, handlerVars, discarded, finished>>
  <2> DEFINE w == [work[j] EXCEPT !.pc = IF IsSnapshot(j) THEN "schemaFile" ELSE "table"]
  <2>1. work[j] \in Work /\ work \in [Jobs -> Work] /\ SlotTypeOK /\ discarded \subseteq Key
    BY DEF IInv, TypeOK
  <2>2. w \in Work /\ work' = [work EXCEPT ![j] = w] /\ w.pc # "unused"
    <3>1. w.pc \in PC \ {"unused"}
      BY <2>1 DEF Work, PC, Middle
    <3> QED
      BY <1>3, <2>1, <3>1 DEF Work, Goto
  <2>3. WorkInv(j)'
    BY <1>1, <1>3, <2>1, <2>2, StoreAssumption DEF IInv, WorkInv, Alive, At, Own,
       IsSnapshot, Reading, Writing, Early, Middle, Building, Tables, storeVars, handlerVars
  <2>4. SlotTypeOK'
    BY <1>3, <2>1 DEF SlotTypeOK, slotVars
  <2> HIDE DEF w
  <2> QED
    BY <1>1, <1>3, <2>1, <2>2, <2>3, <2>4, QuietStep DEF slotVars
<1> QED
  BY <1>2, <1>3 DEF CollectSchema

LEMMA BeginPageStep ==
  ASSUME IInv, NEW j \in Jobs, BeginPage(j)
  PROVE  IInv'
<1>1. At(j, "page") /\ Alive(j) /\ work[j].pc \in Middle
  BY DEF BeginPage, At, Alive, Middle
<1>2. CASE Abort(j, "cancelled")
  BY <1>1, <1>2, AbortStep
<1>3. CASE /\ Goto(j, "fetch")
           /\ UNCHANGED <<storeVars, slotVars, handlerVars, discarded, finished>>
  <2> DEFINE w == [work[j] EXCEPT !.pc = "fetch"]
  <2>1. work[j] \in Work /\ work \in [Jobs -> Work] /\ SlotTypeOK /\ discarded \subseteq Key
    BY DEF IInv, TypeOK
  <2>2. w \in Work /\ work' = [work EXCEPT ![j] = w] /\ w.pc # "unused"
    BY <1>3, <2>1 DEF Work, PC, Middle, Goto
  <2>3. WorkInv(j)'
    BY <1>1, <1>3, <2>1, <2>2 DEF IInv, WorkInv, Alive, At, Own, NextTable,
       IsSnapshot, Reading, Writing, Early, Middle, Building, storeVars, handlerVars
  <2>4. SlotTypeOK'
    BY <1>3, <2>1 DEF SlotTypeOK, slotVars
  <2> HIDE DEF w
  <2> QED
    BY <1>1, <1>3, <2>1, <2>2, <2>3, <2>4, QuietStep DEF slotVars
<1> QED
  BY <1>2, <1>3 DEF BeginPage

LEMMA FetchPageStep ==
  ASSUME IInv, NEW j \in Jobs, FetchPage(j)
  PROVE  IInv'
<1>1. At(j, "fetch") /\ Alive(j) /\ work[j].pc \in Middle
  BY DEF FetchPage, At, Alive, Middle
<1>2. CASE Abort(j, "cancelled") \/ Abort(j, "failed")
  BY <1>1, <1>2, AbortStep
<1>3. work[j] \in Work /\ work \in [Jobs -> Work] /\ SlotTypeOK /\ discarded \subseteq Key
  BY DEF IInv, TypeOK
<1>4. ASSUME UNCHANGED <<storeVars, slotVars, handlerVars, discarded, finished>>,
             NEW pc \in {"page", "flush"}, NEW n \in 0 .. MaxPages,
             work' = [work EXCEPT ![j].pc = pc, ![j].pages = n]
      PROVE  IInv'
  <2> DEFINE w == [work[j] EXCEPT !.pc = pc, !.pages = n]
  <2>1. w \in Work /\ work' = [work EXCEPT ![j] = w] /\ w.pc # "unused"
    BY <1>3, <1>4 DEF Work, PC, Middle
  <2>2. WorkInv(j)'
    BY <1>1, <1>3, <1>4, <2>1 DEF IInv, WorkInv, Alive, At, Own, NextTable,
       IsSnapshot, Reading, Writing, Early, Middle, Building, storeVars, handlerVars
  <2>3. SlotTypeOK'
    BY <1>3, <1>4 DEF SlotTypeOK, slotVars
  <2> HIDE DEF w
  <2> QED
    BY <1>1, <1>3, <1>4, <2>1, <2>2, <2>3, QuietStep DEF slotVars
<1>5. CASE /\ work[j].pages < MaxPages
           /\ work' = [work EXCEPT ![j].pc = "page", ![j].pages = @ + 1]
           /\ UNCHANGED <<storeVars, slotVars, handlerVars, discarded, finished>>
  <2>1. work[j].pages \in 0 .. MaxPages
    BY <1>3 DEF Work
  <2>2. work[j].pages + 1 \in 0 .. MaxPages
    BY <1>5, <2>1, PagesAssumption
  <2> QED
    BY <1>4, <1>5, <2>2
<1>6. CASE /\ Goto(j, "flush")
           /\ UNCHANGED <<storeVars, slotVars, handlerVars, discarded, finished>>
  <2>1. work[j].pages \in 0 .. MaxPages
    BY <1>3 DEF Work
  <2>2. work' = [work EXCEPT ![j].pc = "flush", ![j].pages = work[j].pages]
    BY <1>3, <1>6 DEF Goto, Work
  <2> QED
    BY <1>4, <1>6, <2>1, <2>2
<1> QED
  BY <1>2, <1>5, <1>6 DEF FetchPage

LEMMA CountRowsStep ==
  ASSUME IInv, NEW j \in Jobs, CountRows(j)
  PROVE  IInv'
<1>1. At(j, "count") /\ Alive(j) /\ work[j].pc \in Middle
  BY DEF CountRows, At, Alive, Middle
<1>2. work[j] \in Work /\ work \in [Jobs -> Work] /\ SlotTypeOK /\ discarded \subseteq Key
  BY DEF IInv, TypeOK
<1>3. PICK pc \in {"table", "schema", "schemaFile"} :
        /\ work' = [work EXCEPT ![j].tables = @ + 1, ![j].pc = pc]
        /\ pc = "table" => NextTable(j) # NumTables
        /\ pc # "table" => NextTable(j) = NumTables
        /\ pc = "schema" => IsSnapshot(j)
  <2>1. CASE NextTable(j) # NumTables
    BY <2>1 DEF CountRows
  <2>2. CASE NextTable(j) = NumTables /\ IsSnapshot(j)
    BY <2>2 DEF CountRows
  <2>3. CASE NextTable(j) = NumTables /\ ~IsSnapshot(j)
    BY <2>3 DEF CountRows
  <2> QED
    BY <2>1, <2>2, <2>3
<1> DEFINE w == [work[j] EXCEPT !.tables = @ + 1, !.pc = pc]
<1>4. work[j].tables \in Nat /\ work[j].tables < NumTables /\ NumTables \in Nat
  BY <1>1, <1>2, StoreAssumption DEF IInv, WorkInv, At, Reading, Work
<1>5. w \in Work /\ work' = [work EXCEPT ![j] = w] /\ w.pc # "unused"
  <2>1. w.tables \in 0 .. NumTables /\ w.pc \in PC \ {"unused"}
    BY <1>2, <1>4 DEF Work, PC, Middle
  <2> QED
    BY <1>2, <1>3, <2>1 DEF Work
<1>6. WorkInv(j)'
  <2>1. work'[j] = w /\ w.pc = pc /\ w.own = work[j].own /\ w.db = work[j].db
        /\ w.kind = work[j].kind /\ w.base = work[j].base
        /\ w.tables = work[j].tables + 1
    BY <1>2, <1>5 DEF Work
  <2>2. UNCHANGED <<dirs, content, asked, discarded>>
    BY DEF CountRows, storeVars, handlerVars
  <2>3. Own(j)' = Own(j)
    BY <2>1 DEF Own
  <2>4. \A t \in Tables : t <= work[j].tables + 1 => t <= work[j].tables \/ t = NextTable(j)
    BY <1>4 DEF Tables, NextTable
  <2>5. Own(j) \notin asked => Building(j)'
    <3> SUFFICES ASSUME Own(j) \notin asked PROVE Building(j)'
      OBVIOUS
    <3>1. Building(j)
      BY <1>1 DEF IInv, WorkInv
    <3>2. \A t \in Tables : t <= work[j].tables + 1 => content[Own(j)][t] = j
      BY <1>1, <2>4, <3>1 DEF Building, At, Reading
    <3>3. NextTable(j) = NumTables => \A t \in Tables : t <= work[j].tables + 1
      BY <1>4 DEF Tables, NextTable
    <3>4. content[Own(j)][Meta] = Absent
      BY <1>1, <3>1 DEF Building, At
    <3> HIDE DEF w
    <3> QED
      BY <1>3, <2>1, <2>2, <2>3, <3>1, <3>2, <3>3, <3>4
         DEF Building, At, Reading, Writing, IsSnapshot
  <2>6. pc = "table" => work[j].tables + 1 < NumTables
    BY <1>3, <1>4 DEF NextTable
  <2> HIDE DEF w
  <2> QED
    BY <1>1, <1>3, <2>1, <2>2, <2>3, <2>5, <2>6
       DEF IInv, WorkInv, Alive, At, IsSnapshot, Reading, Early, Middle
<1>7. SlotTypeOK' /\ slot'.phase = slot.phase /\ slot'.owner = slot.owner
  <2>1. PICK n \in Nat : ReportDone(n)
    BY <1>4 DEF CountRows, NextTable
  <2> QED
    BY <1>2, <2>1 DEF SlotTypeOK, ReportDone
<1> HIDE DEF w
<1> QED
  BY <1>1, <1>2, <1>5, <1>6, <1>7, QuietStep DEF CountRows

LEMMA ProbeSessionStep ==
  ASSUME IInv, NEW j \in Jobs, ProbeSession(j)
  PROVE  IInv'
<1> DEFINE w == [work[j] EXCEPT !.pc = "metaOpen"]
<1>1. At(j, "probe") /\ Alive(j) /\ work[j].pc \in Middle
  BY DEF ProbeSession, At, Alive, Middle
<1>2. work[j] \in Work /\ work \in [Jobs -> Work] /\ SlotTypeOK /\ discarded \subseteq Key
  BY DEF IInv, TypeOK
<1>3. w \in Work /\ work' = [work EXCEPT ![j] = w] /\ w.pc # "unused"
  BY <1>2 DEF Work, PC, Middle, Goto, ProbeSession
<1>4. WorkInv(j)'
  BY <1>1, <1>2, <1>3 DEF ProbeSession, IInv, WorkInv, Alive, At, Own,
     IsSnapshot, Reading, Writing, Early, Middle, Building, storeVars, handlerVars
<1>5. SlotTypeOK'
  BY <1>2 DEF SlotTypeOK, ProbeSession, slotVars
<1> HIDE DEF w
<1> QED
  BY <1>1, <1>2, <1>3, <1>4, <1>5, QuietStep DEF ProbeSession, slotVars

\* All the parts in place make a whole snapshot.
LEMMA BuiltWhole ==
  ASSUME IInv, NEW j \in Jobs, At(j, "outputs")
  PROVE  Own(j) \in asked \/ (Own(j) \in dirs /\ content[Own(j)] = FilesBy(j))
<1> SUFFICES ASSUME Own(j) \notin asked
             PROVE  Own(j) \in dirs /\ content[Own(j)] = FilesBy(j)
  OBVIOUS
<1>1. Building(j)
  BY DEF IInv, WorkInv, At, Middle
<1>2. \A p \in Part : p \in Tables \/ p = Schema \/ p = Meta
  BY StoreAssumption DEF Part, Tables, Schema, Meta
<1>3. \A p \in Part : content[Own(j)][p] = j
  BY <1>1, <1>2 DEF Building, At, Writing
<1>4. content[Own(j)] \in [Part -> Content] /\ Own(j) \in dirs
  BY <1>1 DEF Building, IInv, TypeOK, StoreTypeOK
<1> QED
  BY <1>3, <1>4 DEF FilesBy

LEMMA WriteOutputsStep ==
  ASSUME IInv, NEW j \in Jobs, WriteOutputs(j)
  PROVE  IInv'
<1>1. At(j, "outputs") /\ Alive(j) /\ work[j].pc \in Middle
  BY DEF WriteOutputs, At, Alive, Middle
<1>2. CASE Abort(j, "failed")
  BY <1>1, <1>2, AbortStep
<1>3. CASE /\ work' = [work EXCEPT ![j].pc = "settle", ![j].outcome = "done"]
           /\ UNCHANGED <<storeVars, slotVars, handlerVars, discarded, finished>>
  <2> DEFINE w == [work[j] EXCEPT !.pc = "settle", !.outcome = "done"]
  <2>1. work[j] \in Work /\ work \in [Jobs -> Work] /\ SlotTypeOK /\ discarded \subseteq Key
    BY DEF IInv, TypeOK
  <2>2. w \in Work /\ work' = [work EXCEPT ![j] = w] /\ w.pc # "unused"
    BY <1>3, <2>1 DEF Work, PC, Outcome
  <2>3. Own(j) \in NewKey
    BY <1>1 DEF IInv, WorkInv
  <2>4. Own(j) \in asked \/ (Own(j) \in dirs /\ content[Own(j)] = FilesBy(j))
    BY <1>1, BuiltWhole
  <2>5. WorkInv(j)'
    BY <1>1, <1>3, <2>1, <2>2, <2>3, <2>4 DEF IInv, WorkInv, Alive, At, Own,
       IsSnapshot, Reading, Early, Middle, Outcome, storeVars, handlerVars
  <2>6. SlotTypeOK'
    BY <1>3, <2>1 DEF SlotTypeOK, slotVars
  <2> HIDE DEF w
  <2> QED
    BY <1>1, <1>3, <2>1, <2>2, <2>5, <2>6, QuietStep DEF slotVars
<1> QED
  BY <1>2, <1>3 DEF WriteOutputs

-----------------------------------------------------------------------------
(* The steps of a worker that write a file of its own directory.           *)

\* What the parts are.
LEMMA Parts ==
  /\ Tables \subseteq Part /\ Schema \in Part /\ Meta \in Part
  /\ Schema \notin Tables /\ Meta \notin Tables /\ Schema # Meta
  /\ \A j \in Jobs : TypeOK /\ work[j].tables < NumTables => NextTable(j) \in Tables
BY StoreAssumption DEF Tables, Schema, Meta, Part, NextTable, TypeOK, Work

LEMMA FileStep ==
  ASSUME IInv, NEW j \in Jobs, work[j].pc \in Middle,
         NEW w \in Work, work' = [work EXCEPT ![j] = w], w.pc # "unused",
         NEW p \in Part, NEW v \in Content,
         content' = [content EXCEPT ![Own(j)][p] = v],
         Own(j) \notin dirs => v = Absent,
         UNCHANGED <<clock, dirs, legacy, handlerVars, discarded, finished>>,
         SlotTypeOK', slot'.phase = slot.phase, slot'.owner = slot.owner,
         Own(j) \in asked \/ content'[Own(j)][Meta] \notin Writer \/ content'[Own(j)] = FilesBy(j),
         WorkInv(j)'
  PROVE  IInv'
<1>1. work \in [Jobs -> Work] /\ content \in [Key -> [Part -> Content]] /\ Alive(j)
      /\ discarded \subseteq Key /\ finished \subseteq Key \X Writer
  BY DEF IInv, TypeOK, StoreTypeOK, Alive, Middle
<1>2. Own(j) \in Key
  BY DEF IInv, WorkInv, NewKey, Key
<1>3. \A k \in Key : k # Own(j) => content'[k] = content[k]
  BY <1>1
<1>4. TypeOK'
  <2>1. content' \in [Key -> [Part -> Content]]
    BY <1>1, <1>2
  <2> QED
    BY <1>1, <2>1 DEF IInv, TypeOK, StoreTypeOK, handlerVars
<1>5. OneWorker' /\ \A i \in Jobs : WorkInv(i)'
  BY <1>1, WorkersFrame
<1>6. StoreInv'
  <2>1. Own(j) \notin dirs => content'[Own(j)] = NoFiles
    BY <1>1, <1>2 DEF IInv, StoreInv, NoFiles
  <2> QED
    BY <1>3, <2>1 DEF IInv, StoreInv, NoFiles
<1>7. HandlerInv'
  BY DEF IInv, HandlerInv, handlerVars
<1>8. ListedComplete'
  <2> SUFFICES ASSUME NEW k \in Key, Readable(k)', k \notin asked \cup discarded
               PROVE  Complete(k)'
    BY DEF ListedComplete, handlerVars
  <2>1. CASE k = Own(j)
    BY <2>1, Parts DEF Readable, Complete, FilesBy
  <2>2. CASE k # Own(j)
    <3>1. content'[k] = content[k] /\ dirs' = dirs
      BY <1>3, <2>2
    <3>2. Readable(k)
      BY <3>1 DEF Readable
    <3>3. Complete(k)
      BY <3>2 DEF IInv, ListedComplete
    <3> QED
      BY <3>1, <3>3 DEF Complete
  <2> QED
    BY <2>1, <2>2
<1>9. FinishedInv'
  BY <1>1 DEF IInv, FinishedInv, At, Alive
<1>10. FinishedSurvives'
  <2> SUFFICES ASSUME NEW f \in finished, f[1] \notin asked
               PROVE  \/ f[1] \in dirs /\ content'[f[1]] = FilesBy(f[2])
                      \/ f[1] \in legacy /\ f[2] = Old
    BY DEF FinishedSurvives, handlerVars, FilesBy
  <2>1. f[1] # Own(j) /\ f[1] \in Key
    BY <1>1, OwnUnfinished
  <2> QED
    BY <1>3, <2>1 DEF IInv, FinishedSurvives
<1> QED
  BY <1>4, <1>5, <1>6, <1>7, <1>8, <1>9, <1>10 DEF IInv

LEMMA BeginTableStep ==
  ASSUME IInv, NEW j \in Jobs, BeginTable(j)
  PROVE  IInv'
<1>1. At(j, "table") /\ Alive(j) /\ work[j].pc \in Middle
  BY DEF BeginTable, At, Alive, Middle
<1>2. CASE Abort(j, "cancelled") \/ Abort(j, "failed")
  BY <1>1, <1>2, AbortStep
<1>3. CASE /\ CreateFile(Own(j), NextTable(j))
           /\ work' = [work EXCEPT ![j].pc = "page", ![j].pages = 0]
           /\ IF IsSnapshot(j) THEN ReportDone(work[j].tables) ELSE UNCHANGED slotVars
           /\ UNCHANGED <<handlerVars, discarded, finished>>
  <2> DEFINE w == [work[j] EXCEPT !.pc = "page", !.pages = 0]
  <2>1. work[j] \in Work /\ work \in [Jobs -> Work] /\ SlotTypeOK
        /\ content \in [Key -> [Part -> Content]]
    BY DEF IInv, TypeOK, StoreTypeOK
  <2>2. w \in Work /\ work' = [work EXCEPT ![j] = w] /\ w.pc = "page"
        /\ w.tables = work[j].tables /\ w.own = work[j].own /\ w.kind = work[j].kind
        /\ w.db = work[j].db /\ w.base = work[j].base
    <3>1. w.pages \in 0 .. MaxPages /\ w.pc \in PC
      BY <2>1, PagesAssumption DEF Work, PC, Middle
    <3> QED
      BY <1>3, <2>1, <3>1 DEF Work
  <2>3. work[j].tables < NumTables /\ NextTable(j) \in Tables /\ work[j].tables \in Nat
    BY <1>1, <2>1, Parts DEF IInv, WorkInv, At, Reading, Work
  <2>4. content' = [content EXCEPT ![Own(j)][NextTable(j)] = Partial] /\ Own(j) \in dirs
        /\ UNCHANGED <<clock, dirs, legacy>>
    BY <1>3 DEF CreateFile
  <2>5. Own(j) \in Key /\ Own(j)' = Own(j) /\ NextTable(j)' = NextTable(j)
    BY <1>1, <2>1, <2>2 DEF IInv, WorkInv, NewKey, Key, Own, NextTable
  <2>6. Own(j) \notin asked => Building(j)'
    <3> SUFFICES ASSUME Own(j) \notin asked PROVE Building(j)'
      OBVIOUS
    <3>1. Building(j)
      BY <1>1 DEF IInv, WorkInv
    <3>2. content'[Own(j)][NextTable(j)] = Partial
      BY <2>1, <2>3, <2>4, <2>5, Parts
    <3>3. \A t \in Tables : t <= work[j].tables => content'[Own(j)][t] = j
      <4>1. \A t \in Tables : t <= work[j].tables => t # NextTable(j)
        BY <2>3 DEF Tables, NextTable
      <4> QED
        BY <1>1, <2>1, <2>4, <2>5, <3>1, <4>1, Parts DEF Building, At, Reading
    <3>4. content'[Own(j)][Meta] = Absent
      BY <1>1, <2>1, <2>3, <2>4, <2>5, <3>1, Parts DEF Building, At
    <3> HIDE DEF w
    <3> QED
      BY <1>3, <2>1, <2>2, <2>4, <2>5, <3>1, <3>2, <3>3, <3>4
         DEF Building, At, Reading, Writing, IsSnapshot
  <2>7. WorkInv(j)'
    <3> HIDE DEF w
    <3> QED
      BY <1>1, <1>3, <2>1, <2>2, <2>3, <2>5, <2>6
         DEF IInv, WorkInv, Alive, At, IsSnapshot, Reading, Early, Middle, handlerVars
  <2>8. SlotTypeOK' /\ slot'.phase = slot.phase /\ slot'.owner = slot.owner
    BY <1>3, <2>1, <2>3 DEF SlotTypeOK, slotVars, ReportDone
  <2>9. Own(j) \in asked \/ content'[Own(j)][Meta] \notin Writer
    <3>1. Own(j) \in asked \/ content'[Own(j)][Meta] = Absent
      <4> HIDE DEF w
      <4> QED
        BY <2>1, <2>2, <2>5, <2>6 DEF Building, At
    <3> QED
      BY <3>1, StoreAssumption DEF Writer
  <2> HIDE DEF w
  <2> QED
    BY <1>1, <1>3, <2>2, <2>3, <2>4, <2>7, <2>8, <2>9, Parts, FileStep DEF Content
<1> QED
  BY <1>2, <1>3 DEF BeginTable

LEMMA FlushTableStep ==
  ASSUME IInv, NEW j \in Jobs, FlushTable(j)
  PROVE  IInv'
<1>1. At(j, "flush") /\ Alive(j) /\ work[j].pc \in Middle
  BY DEF FlushTable, At, Alive, Middle
<1>2. CASE Abort(j, "failed")
  BY <1>1, <1>2, AbortStep
<1>3. CASE /\ FinishFile(Own(j), NextTable(j), j)
           /\ work' = [work EXCEPT ![j].pc = "count", ![j].late = @ + LateBy(j)]
           /\ UNCHANGED <<slotVars, handlerVars, discarded, finished>>
  <2> DEFINE w == [work[j] EXCEPT !.pc = "count", !.late = @ + LateBy(j)]
             v == IF content[Own(j)][NextTable(j)] = Partial
                     THEN j ELSE content[Own(j)][NextTable(j)]
  <2>1. work[j] \in Work /\ work \in [Jobs -> Work] /\ SlotTypeOK
        /\ content \in [Key -> [Part -> Content]]
    BY DEF IInv, TypeOK, StoreTypeOK
  <2>2. w \in Work /\ work' = [work EXCEPT ![j] = w] /\ w.pc = "count"
        /\ w.tables = work[j].tables /\ w.own = work[j].own /\ w.kind = work[j].kind
        /\ w.db = work[j].db /\ w.base = work[j].base
    <3>1. w.late \in Nat /\ w.pc \in PC
      BY <2>1 DEF Work, PC, Middle, LateBy
    <3> QED
      BY <1>3, <2>1, <3>1 DEF Work
  <2>3. work[j].tables < NumTables /\ NextTable(j) \in Tables /\ work[j].tables \in Nat
    BY <1>1, <2>1, Parts DEF IInv, WorkInv, At, Reading, Work
  <2>4. content' = [content EXCEPT ![Own(j)][NextTable(j)] = v]
        /\ UNCHANGED <<clock, dirs, legacy>>
    BY <1>1, <1>3, <2>1 DEF FinishFile
  <2>5. Own(j) \in Key /\ Own(j)' = Own(j) /\ NextTable(j)' = NextTable(j)
    BY <1>1, <2>1, <2>2 DEF IInv, WorkInv, NewKey, Key, Own, NextTable
  <2>6. v \in Content /\ (Own(j) \notin dirs => v = Absent)
    BY <2>1, <2>3, <2>5, Parts, StoreAssumption
       DEF Content, Writer, IInv, StoreInv, NoFiles
  <2>7. Own(j) \notin asked => Building(j)'
    <3> SUFFICES ASSUME Own(j) \notin asked PROVE Building(j)'
      OBVIOUS
    <3>1. Building(j)
      BY <1>1 DEF IInv, WorkInv
    <3>2. content'[Own(j)][NextTable(j)] = j
      BY <1>1, <2>1, <2>3, <2>4, <2>5, <3>1, Parts DEF Building, At
    <3>3. \A t \in Tables : t <= work[j].tables => content'[Own(j)][t] = j
      <4>1. \A t \in Tables : t <= work[j].tables => t # NextTable(j)
        BY <2>3 DEF Tables, NextTable
      <4> QED
        BY <1>1, <2>1, <2>4, <2>5, <3>1, <4>1, Parts DEF Building, At, Reading
    <3>4. content'[Own(j)][Meta] = Absent
      BY <1>1, <2>1, <2>3, <2>4, <2>5, <3>1, Parts DEF Building, At
    <3> HIDE DEF w, v
    <3> QED
      BY <1>3, <2>1, <2>2, <2>4, <2>5, <3>1, <3>2, <3>3, <3>4
         DEF Building, At, Reading, Writing, IsSnapshot
  <2>8. WorkInv(j)'
    <3> HIDE DEF w, v
    <3> QED
      BY <1>1, <1>3, <2>1, <2>2, <2>3, <2>5, <2>7
         DEF IInv, WorkInv, Alive, At, IsSnapshot, Reading, Early, Middle, handlerVars
  <2>9. SlotTypeOK' /\ slot'.phase = slot.phase /\ slot'.owner = slot.owner
    BY <1>3, <2>1 DEF SlotTypeOK, slotVars
  <2>10. Own(j) \in asked \/ content'[Own(j)][Meta] \notin Writer
    <3>1. Own(j) \in asked \/ content'[Own(j)][Meta] = Absent
      <4> HIDE DEF w, v
      <4> QED
        BY <2>1, <2>2, <2>5, <2>7 DEF Building, At
    <3> QED
      BY <3>1, StoreAssumption DEF Writer
  <2> HIDE DEF w, v
  <2> QED
    BY <1>1, <1>3, <2>2, <2>3, <2>4, <2>6, <2>8, <2>9, <2>10, Parts, FileStep
<1> QED
  BY <1>2, <1>3 DEF FlushTable

LEMMA WriteSchemaStep ==
  ASSUME IInv, NEW j \in Jobs, WriteSchema(j)
  PROVE  IInv'
<1>1. At(j, "schemaFile") /\ Alive(j) /\ work[j].pc \in Middle
  BY DEF WriteSchema, At, Alive, Middle
<1>2. CASE Abort(j, "failed")
  BY <1>1, <1>2, AbortStep
<1>3. CASE ~Abort(j, "failed")
  <2>1. work[j] \in Work /\ work \in [Jobs -> Work] /\ SlotTypeOK
        /\ content \in [Key -> [Part -> Content]]
    BY DEF IInv, TypeOK, StoreTypeOK
  <2>2. /\ content' = [content EXCEPT ![Own(j)][Schema] = j] /\ Own(j) \in dirs
        /\ UNCHANGED <<clock, dirs, legacy, handlerVars, discarded, finished>>
    BY <1>3 DEF WriteSchema
  <2>3. PICK w \in Work :
           /\ work' = [work EXCEPT ![j] = w] /\ w.pc \in {"probe", "metaOpen"}
           /\ w.tables = work[j].tables /\ w.own = work[j].own /\ w.kind = work[j].kind
           /\ w.db = work[j].db /\ w.base = work[j].base
    <3>1. CASE IsSnapshot(j)
      <4> DEFINE w == [work[j] EXCEPT !.pc = "probe", !.late = @ + LateBy(j)]
      <4>1. w.late \in Nat /\ w.pc \in PC
        BY <2>1 DEF Work, PC, Middle, LateBy
      <4>2. w \in Work /\ w.pc = "probe"
        BY <2>1, <4>1 DEF Work
      <4>3. work' = [work EXCEPT ![j] = w]
        BY <1>3, <2>1, <3>1 DEF WriteSchema, Work
      <4>4. /\ w.tables = work[j].tables /\ w.own = work[j].own /\ w.kind = work[j].kind
            /\ w.db = work[j].db /\ w.base = work[j].base
        BY <2>1 DEF Work
      <4> HIDE DEF w
      <4> QED
        BY <4>2, <4>3, <4>4
    <3>2. CASE ~IsSnapshot(j)
      <4> DEFINE w == [work[j] EXCEPT !.pc = "metaOpen"]
      <4>1. w \in Work /\ w.pc = "metaOpen"
        BY <2>1 DEF Work, PC, Middle
      <4>2. work' = [work EXCEPT ![j] = w]
        BY <1>3, <2>1, <3>2 DEF WriteSchema, Work, Goto
      <4>3. /\ w.tables = work[j].tables /\ w.own = work[j].own /\ w.kind = work[j].kind
            /\ w.db = work[j].db /\ w.base = work[j].base
        BY <2>1 DEF Work
      <4> HIDE DEF w
      <4> QED
        BY <4>1, <4>2, <4>3
    <3> QED
      BY <3>1, <3>2
  <2>4. Own(j) \in Key /\ Own(j)' = Own(j)
    BY <1>1, <2>1, <2>3 DEF IInv, WorkInv, NewKey, Key, Own
  <2>5. Own(j) \notin asked => Building(j)' /\ content'[Own(j)][Meta] = Absent
    <3> SUFFICES ASSUME Own(j) \notin asked
                 PROVE  Building(j)' /\ content'[Own(j)][Meta] = Absent
      OBVIOUS
    <3>1. Building(j)
      BY <1>1 DEF IInv, WorkInv
    <3>2. content'[Own(j)][Schema] = j
      BY <2>1, <2>2, <2>4, Parts
    <3>3. \A t \in Tables : content'[Own(j)][t] = j
      BY <1>1, <2>1, <2>2, <2>4, <3>1, Parts DEF Building, At, Writing
    <3>4. content'[Own(j)][Meta] = Absent
      BY <1>1, <2>1, <2>2, <2>4, <3>1, Parts DEF Building, At
    <3> QED
      BY <2>1, <2>2, <2>3, <2>4, <3>1, <3>2, <3>3, <3>4
         DEF Building, At, Reading, Writing, IsSnapshot
  <2>6. WorkInv(j)'
    BY <1>1, <2>1, <2>2, <2>3, <2>4, <2>5
       DEF IInv, WorkInv, Alive, At, IsSnapshot, Reading, Early, Middle, handlerVars
  <2>7. SlotTypeOK' /\ slot'.phase = slot.phase /\ slot'.owner = slot.owner
    <3>1. CASE UNCHANGED slotVars
      BY <2>1, <3>1 DEF SlotTypeOK, slotVars
    <3>2. CASE ReportDone(slot.tablesTotal)
      BY <2>1, <3>2 DEF SlotTypeOK, ReportDone
    <3> QED
      BY <1>3, <3>1, <3>2 DEF WriteSchema
  <2>8. Own(j) \in asked \/ content'[Own(j)][Meta] \notin Writer
    BY <2>5, StoreAssumption DEF Writer
  <2> QED
    BY <1>1, <2>2, <2>3, <2>6, <2>7, <2>8, Parts, FileStep DEF Content, Writer
<1> QED
  BY <1>2, <1>3

LEMMA OpenMetaStep ==
  ASSUME IInv, NEW j \in Jobs, OpenMeta(j)
  PROVE  IInv'
<1>1. At(j, "metaOpen") /\ Alive(j) /\ work[j].pc \in Middle
  BY DEF OpenMeta, At, Alive, Middle
<1>2. CASE Abort(j, "failed")
  BY <1>1, <1>2, AbortStep
<1>3. CASE /\ CreateFile(Own(j), Meta)
           /\ Goto(j, "metaClose")
           /\ UNCHANGED <<slotVars, handlerVars, discarded, finished>>
  <2> DEFINE w == [work[j] EXCEPT !.pc = "metaClose"]
  <2>1. work[j] \in Work /\ work \in [Jobs -> Work] /\ SlotTypeOK
        /\ content \in [Key -> [Part -> Content]]
    BY DEF IInv, TypeOK, StoreTypeOK
  <2>2. w \in Work /\ work' = [work EXCEPT ![j] = w] /\ w.pc = "metaClose"
        /\ w.tables = work[j].tables /\ w.own = work[j].own /\ w.kind = work[j].kind
        /\ w.db = work[j].db /\ w.base = work[j].base
    BY <1>3, <2>1 DEF Work, PC, Middle, Goto
  <2>3. content' = [content EXCEPT ![Own(j)][Meta] = Partial] /\ Own(j) \in dirs
        /\ UNCHANGED <<clock, dirs, legacy>>
    BY <1>3 DEF CreateFile
  <2>4. Own(j) \in Key /\ Own(j)' = Own(j)
    BY <1>1, <2>1, <2>2 DEF IInv, WorkInv, NewKey, Key, Own
  <2>5. content'[Own(j)][Meta] = Partial
    BY <2>1, <2>3, <2>4, Parts
  <2>6. Own(j) \notin asked => Building(j)'
    <3> SUFFICES ASSUME Own(j) \notin asked PROVE Building(j)'
      OBVIOUS
    <3>1. Building(j)
      BY <1>1 DEF IInv, WorkInv
    <3>2. \A t \in Tables : content'[Own(j)][t] = j
      BY <1>1, <2>1, <2>3, <2>4, <3>1, Parts DEF Building, At, Writing
    <3>3. content'[Own(j)][Schema] = j
      BY <1>1, <2>1, <2>3, <2>4, <3>1, Parts DEF Building, At, Writing
    <3> HIDE DEF w
    <3> QED
      BY <1>3, <2>1, <2>2, <2>3, <2>4, <2>5, <3>1, <3>2, <3>3
         DEF Building, At, Reading, Writing, IsSnapshot
  <2>7. WorkInv(j)'
    <3> HIDE DEF w
    <3> QED
      BY <1>1, <1>3, <2>1, <2>2, <2>4, <2>6
         DEF IInv, WorkInv, Alive, At, IsSnapshot, Reading, Early, Middle, handlerVars
  <2>8. SlotTypeOK' /\ slot'.phase = slot.phase /\ slot'.owner = slot.owner
    BY <1>3, <2>1 DEF SlotTypeOK, slotVars
  <2>9. content'[Own(j)][Meta] \notin Writer
    BY <2>5, StoreAssumption DEF Writer
  <2> HIDE DEF w
  <2> QED
    BY <1>1, <1>3, <2>2, <2>3, <2>7, <2>8, <2>9, Parts, FileStep DEF Content
<1> QED
  BY <1>2, <1>3 DEF OpenMeta

LEMMA CloseMetaStep ==
  ASSUME IInv, NEW j \in Jobs, CloseMeta(j)
  PROVE  IInv'
<1>1. At(j, "metaClose") /\ Alive(j) /\ work[j].pc \in Middle
  BY DEF CloseMeta, At, Alive, Middle
<1>2. CASE Abort(j, "failed")
  BY <1>1, <1>2, AbortStep
<1>3. CASE ~Abort(j, "failed")
  <2> DEFINE v == IF content[Own(j)][Meta] = Partial THEN j ELSE content[Own(j)][Meta]
  <2>1. work[j] \in Work /\ work \in [Jobs -> Work] /\ SlotTypeOK
        /\ content \in [Key -> [Part -> Content]]
    BY DEF IInv, TypeOK, StoreTypeOK
  <2>2. PICK w \in Work :
           /\ work' = [work EXCEPT ![j] = w]
           /\ w.pc = "outputs" \/ (w.pc = "settle" /\ w.outcome = "done")
           /\ w.tables = work[j].tables /\ w.own = work[j].own /\ w.kind = work[j].kind
           /\ w.db = work[j].db /\ w.base = work[j].base
    <3>1. CASE IsSnapshot(j)
      <4> DEFINE w == [work[j] EXCEPT !.pc = "settle", !.outcome = "done"]
      <4>1. w \in Work /\ w.pc = "settle" /\ w.outcome = "done"
        BY <2>1 DEF Work, PC, Outcome
      <4>2. work' = [work EXCEPT ![j] = w]
        BY <1>3, <2>1, <3>1 DEF CloseMeta, Work
      <4>3. /\ w.tables = work[j].tables /\ w.own = work[j].own /\ w.kind = work[j].kind
            /\ w.db = work[j].db /\ w.base = work[j].base
        BY <2>1 DEF Work
      <4> HIDE DEF w
      <4> QED
        BY <4>1, <4>2, <4>3
    <3>2. CASE ~IsSnapshot(j)
      <4> DEFINE w == [work[j] EXCEPT !.pc = "outputs"]
      <4>1. w \in Work /\ w.pc = "outputs"
        BY <2>1 DEF Work, PC, Middle
      <4>2. work' = [work EXCEPT ![j] = w]
        BY <1>3, <2>1, <3>2 DEF CloseMeta, Work
      <4>3. /\ w.tables = work[j].tables /\ w.own = work[j].own /\ w.kind = work[j].kind
            /\ w.db = work[j].db /\ w.base = work[j].base
        BY <2>1 DEF Work
      <4> HIDE DEF w
      <4> QED
        BY <4>1, <4>2, <4>3
    <3> QED
      BY <3>1, <3>2
  <2>3. /\ content' = [content EXCEPT ![Own(j)][Meta] = v]
        /\ UNCHANGED <<clock, dirs, legacy, slotVars, handlerVars, discarded, finished>>
    BY <1>3, <2>1 DEF CloseMeta, FinishFile
  <2>4. Own(j) \in Key /\ Own(j) \in NewKey /\ Own(j)' = Own(j)
    BY <1>1, <2>1, <2>2 DEF IInv, WorkInv, NewKey, Key, Own
  <2>5. v \in Content /\ (Own(j) \notin dirs => v = Absent)
    BY <2>1, <2>4, Parts, StoreAssumption DEF Content, Writer, IInv, StoreInv, NoFiles
  <2>6. Own(j) \notin asked => Building(j) /\ content'[Own(j)] = FilesBy(j)
    <3> SUFFICES ASSUME Own(j) \notin asked
                 PROVE  Building(j) /\ content'[Own(j)] = FilesBy(j)
      OBVIOUS
    <3>1. Building(j)
      BY <1>1 DEF IInv, WorkInv
    <3>2. \A p \in Part : p \in Tables \/ p = Schema \/ p = Meta
      BY StoreAssumption DEF Part, Tables, Schema, Meta
    <3>3. \A p \in Part : p # Meta => content[Own(j)][p] = j
      BY <1>1, <3>1, <3>2 DEF Building, At, Writing
    <3>4. v = j
      BY <1>1, <3>1 DEF Building, At
    <3> HIDE DEF v
    <3>5. content'[Own(j)] \in [Part -> Content] /\ \A p \in Part : content'[Own(j)][p] = j
      BY <2>1, <2>3, <2>4, <2>5, <3>3, <3>4, Parts
    <3> QED
      BY <3>1, <3>5 DEF FilesBy
  <2> HIDE DEF v
  <2>7. WorkInv(j)'
    <3>1. Own(j) \notin asked /\ w.pc = "outputs" => Building(j)'
      <4> SUFFICES ASSUME Own(j) \notin asked, w.pc = "outputs" PROVE Building(j)'
        OBVIOUS
      <4>1. \A p \in Part : content'[Own(j)][p] = j
        BY <2>6 DEF FilesBy
      <4> QED
        BY <2>1, <2>2, <2>3, <2>4, <2>6, <4>1, Parts
           DEF Building, At, Reading, Writing, IsSnapshot
    <3> QED
      BY <1>1, <2>1, <2>2, <2>3, <2>4, <2>6, <3>1
         DEF IInv, WorkInv, Building, Alive, At, IsSnapshot, Reading, Early, Middle, Outcome, handlerVars
  <2>8. SlotTypeOK' /\ slot'.phase = slot.phase /\ slot'.owner = slot.owner
    BY <2>1, <2>3 DEF SlotTypeOK, slotVars
  <2> QED
    BY <1>1, <2>2, <2>3, <2>5, <2>6, <2>7, <2>8, Parts, FileStep
<1> QED
  BY <1>2, <1>3

-----------------------------------------------------------------------------
(* Removals, of the user's and of a job's own, and migration.              *)

\* No one relies on a directory that is being removed.
Removable(k) ==
    \/ k \in asked
    \/ /\ k \in discarded
       /\ \A f \in finished : f[1] # k
       /\ \A i \in Jobs : work[i].pc \in Middle \cup {"settle"} /\ Own(i) = k
             => At(i, "settle") /\ work[i].outcome # "done"

LEMMA CleanupRemovable ==
  ASSUME IInv, NEW j \in Jobs, At(j, "cleanup")
  PROVE  Removable(Own(j)) /\ Own(j) \in NewKey /\ Own(j) \in Key
<1>1. \A i \in Jobs : i # j => ~Alive(i)
  BY DEF IInv, OneWorker, Alive, At
<1>2. \A i \in Jobs : work[i].pc \notin Middle \cup {"settle"}
  BY <1>1 DEF Alive, At, Middle
<1> QED
  BY <1>2 DEF IInv, WorkInv, NewKey, Key, At, Removable

\* Changes at one id disturb no worker that has its directory elsewhere.
LEMMA WorkElsewhere ==
  ASSUME IInv, NEW i \in Jobs, NEW k \in Key, work'[i] = work[i],
         \A x \in Key : x # k => content'[x] = content[x] /\ (x \in dirs' <=> x \in dirs),
         UNCHANGED <<asked, discarded, finished>>,
         k \in dirs => Removable(k),
         k \notin dirs => k \notin NewKey
  PROVE  WorkInv(i)'
<1>1. CASE k \in dirs
  <2>1. At(i, "mkdir") => Own(i) # k
    BY <1>1 DEF IInv, WorkInv
  <2>2. work[i].pc \in Middle /\ Own(i) = k => Own(i) \in asked
    BY <1>1 DEF Removable, At, Middle
  <2>3. At(i, "settle") /\ work[i].outcome = "done" /\ Own(i) = k => Own(i) \in asked
    BY <1>1 DEF Removable, At
  <2> QED
    BY <2>1, <2>2, <2>3 DEF IInv, WorkInv, Building, Alive, At, Own, NextTable, IsSnapshot,
       Reading, Writing, Early, Middle, NewKey, Key
<1>2. CASE k \notin dirs
  BY <1>2 DEF IInv, WorkInv, Building, Alive, At, Own, NextTable, IsSnapshot,
     Reading, Writing, Early, Middle, NewKey, Key
<1> QED
  BY <1>1, <1>2

\* The store's part of removing one file of a directory.
LEMMA RemoveFileStore ==
  ASSUME IInv, NEW k \in Key, NEW p \in Part, RemoveFile(k, p), Removable(k),
         UNCHANGED <<asked, discarded, finished>>
  PROVE  StoreTypeOK' /\ StoreInv' /\ ListedComplete' /\ FinishedSurvives'
<1>1. content \in [Key -> [Part -> Content]] /\ StoreTypeOK /\ finished \subseteq Key \X Writer
  BY DEF IInv, TypeOK, StoreTypeOK
<1>2. /\ content' = [content EXCEPT ![k][p] = Absent]
      /\ UNCHANGED <<clock, dirs, legacy>>
  BY DEF RemoveFile
<1>3. \A x \in Key : x # k => content'[x] = content[x]
  BY <1>1, <1>2
<1>4. StoreTypeOK'
  <2>1. content' \in [Key -> [Part -> Content]]
    BY <1>1, <1>2 DEF Content
  <2> QED
    BY <1>1, <1>2, <2>1 DEF StoreTypeOK
<1>5. StoreInv'
  BY <1>1, <1>2 DEF IInv, StoreInv, NoFiles
<1>6. ListedComplete'
  <2> SUFFICES ASSUME NEW x \in Key, Readable(x)', x \notin asked \cup discarded
               PROVE  Complete(x)'
    BY DEF ListedComplete
  <2>1. x # k
    BY DEF Removable
  <2>2. content'[x] = content[x] /\ dirs' = dirs
    BY <1>2, <1>3, <2>1
  <2>3. Complete(x)
    BY <2>2 DEF IInv, ListedComplete, Readable
  <2> QED
    BY <2>2, <2>3 DEF Complete
<1>7. FinishedSurvives'
  BY <1>1, <1>2, <1>3 DEF IInv, FinishedSurvives, Removable
<1> QED
  BY <1>4, <1>5, <1>6, <1>7

\* The same for the directory.
LEMMA RemoveDirStore ==
  ASSUME IInv, NEW k \in Key, RemoveDir(k), Removable(k),
         UNCHANGED <<asked, discarded, finished>>
  PROVE  StoreTypeOK' /\ StoreInv' /\ ListedComplete' /\ FinishedSurvives'
<1>1. content \in [Key -> [Part -> Content]] /\ StoreTypeOK /\ finished \subseteq Key \X Writer
  BY DEF IInv, TypeOK, StoreTypeOK
<1>2. dirs' = dirs \ {k} /\ content[k] = NoFiles /\ UNCHANGED <<clock, content, legacy>>
  BY DEF RemoveDir
<1>3. StoreTypeOK'
  BY <1>1, <1>2 DEF StoreTypeOK
<1>4. StoreInv'
  BY <1>2 DEF IInv, StoreInv
<1>5. ListedComplete'
  BY <1>2 DEF IInv, ListedComplete, Readable, Complete
<1>6. FinishedSurvives'
  BY <1>1, <1>2 DEF IInv, FinishedSurvives, Removable
<1> QED
  BY <1>3, <1>4, <1>5, <1>6

LEMMA CleanupStep ==
  ASSUME IInv, NEW j \in Jobs, Cleanup(j)
  PROVE  IInv'
<1>1. At(j, "cleanup") /\ Alive(j) /\ UNCHANGED <<slotVars, asked, discarded, finished>>
  BY DEF Cleanup, At, Alive
<1>2. Removable(Own(j)) /\ Own(j) \in NewKey /\ Own(j) \in Key
  BY <1>1, CleanupRemovable
<1>3. TypeOK /\ work \in [Jobs -> Work] /\ SlotTypeOK
  BY DEF IInv, TypeOK
<1>4. SlotTypeOK'
  BY <1>1, <1>3 DEF SlotTypeOK, slotVars
<1>5. CASE (\E p \in Part : RemoveFile(Own(j), p)) /\ UNCHANGED <<work, handler>>
  <2>1. PICK p \in Part : RemoveFile(Own(j), p)
    BY <1>5
  <2>2. StoreTypeOK' /\ StoreInv' /\ ListedComplete' /\ FinishedSurvives'
    BY <1>1, <1>2, <2>1, RemoveFileStore
  <2>3. dirs' = dirs /\ \A x \in Key : x # Own(j) => content'[x] = content[x]
    BY <1>3, <2>1 DEF RemoveFile, TypeOK, StoreTypeOK
  <2>4. TypeOK'
    BY <1>1, <1>3, <1>4, <1>5, <2>2 DEF TypeOK
  <2>5. OneWorker' /\ FinishedInv' /\ HandlerInv'
    BY <1>1, <1>5, <2>3 DEF IInv, OneWorker, FinishedInv, HandlerInv, Alive, Running, At, slotVars
  <2>6. \A i \in Jobs : WorkInv(i)'
    <3>1. CASE Own(j) \in dirs
      BY <1>1, <1>2, <1>5, <2>3, <3>1, WorkElsewhere
    <3>2. CASE Own(j) \notin dirs
      <4>1. content[Own(j)][p] = Absent
        BY <1>2, <3>2 DEF IInv, StoreInv, NoFiles
      <4> QED
        BY <2>1, <4>1 DEF RemoveFile
    <3> QED
      BY <3>1, <3>2
  <2> QED
    BY <2>2, <2>4, <2>5, <2>6 DEF IInv
<1> DEFINE w == [work[j] EXCEPT !.pc = "settle"]
<1>6. /\ w \in Work /\ w.pc = "settle" /\ w.outcome = work[j].outcome
      /\ w.kind = work[j].kind /\ w.db = work[j].db /\ w.base = work[j].base
  BY <1>3 DEF Work, PC
<1>7. ASSUME work' = [work EXCEPT ![j] = w]
      PROVE  WorkInv(j)'
  <2>1. work[j].outcome # "done"
    BY <1>1 DEF IInv, WorkInv
  <2> HIDE DEF w
  <2> QED
    BY <1>1, <1>3, <1>6, <1>7, <2>1 DEF IInv, WorkInv, Outcome, Alive, At, IsSnapshot, Reading, Early, Middle
<1>8. CASE Goto(j, "settle") /\ UNCHANGED <<storeVars, handler>>
  <2>1. work' = [work EXCEPT ![j] = w]
    BY <1>3, <1>8 DEF Goto
  <2> HIDE DEF w
  <2> QED
    BY <1>1, <1>3, <1>4, <1>6, <1>7, <1>8, <2>1, QuietStep DEF TypeOK, handlerVars, slotVars
<1>9. CASE /\ RemoveDir(Own(j))
           /\ Goto(j, "settle")
           /\ handler' = [h \in Handlers |->
                 IF handler[h].op = "delete" /\ handler[h].key = Own(j)
                     THEN Idle ELSE handler[h]]
  <2>1. work' = [work EXCEPT ![j] = w]
    BY <1>3, <1>9 DEF Goto
  <2> HIDE DEF w
  <2>2. StoreTypeOK' /\ StoreInv' /\ ListedComplete' /\ FinishedSurvives'
    BY <1>1, <1>2, <1>9, RemoveDirStore
  <2>3. TypeOK'
    BY <1>1, <1>3, <1>4, <1>6, <1>9, <2>1, <2>2 DEF TypeOK, Idle
  <2>4. OneWorker' /\ \A i \in Jobs : WorkInv(i)'
    BY <1>1, <1>3, <1>7, <2>1, WorkersFrame DEF slotVars
  <2>5. HandlerInv'
    BY <1>1, <1>9 DEF IInv, HandlerInv, RemoveDir, Idle
  <2>6. FinishedInv'
    BY <1>1, <1>3, <2>1 DEF IInv, FinishedInv, At
  <2> QED
    BY <2>2, <2>3, <2>4, <2>5, <2>6 DEF IInv
<1> QED
  BY <1>5, <1>8, <1>9 DEF Cleanup

LEMMA PrepareDirStep ==
  ASSUME IInv, NEW j \in Jobs, PrepareDir(j)
  PROVE  IInv'
<1>1. At(j, "mkdir") /\ Alive(j)
  BY DEF PrepareDir, At, Alive
<1>2. CASE GiveUp(j)
  BY <1>1, <1>2, GiveUpStep
<1>3. CASE ~GiveUp(j)
  <2>1. work[j] \in Work /\ work \in [Jobs -> Work] /\ SlotTypeOK /\ StoreTypeOK
        /\ content \in [Key -> [Part -> Content]] /\ TypeOK
    BY DEF IInv, TypeOK, StoreTypeOK
  <2>2. Own(j) \in Key /\ Own(j) \in NewKey /\ Own(j) \notin dirs
    BY <1>1 DEF IInv, WorkInv, NewKey, Key, At
  <2>3. /\ dirs' = dirs \cup {Own(j)} /\ asked' = asked \ {Own(j)}
        /\ discarded' = discarded \ {Own(j)} /\ finished' = {f \in finished : f[1] # Own(j)}
        /\ handler' = [h \in Handlers |->
               IF handler[h].op = "diff" /\ handler[h].key = Own(j)
                   THEN [handler[h] EXCEPT !.by = NoJob] ELSE handler[h]]
        /\ UNCHANGED <<clock, content, legacy>>
    BY <1>3, <2>2 DEF PrepareDir, MakeDir, Forget
  <2>4. PICK w \in Work :
           /\ work' = [work EXCEPT ![j] = w]
           /\ w.pc = IF IsSnapshot(j) THEN "table" ELSE "base"
           /\ w.tables = work[j].tables /\ w.own = work[j].own /\ w.kind = work[j].kind
           /\ w.db = work[j].db /\ w.base = work[j].base
    <3> DEFINE w == [work[j] EXCEPT !.pc = IF IsSnapshot(j) THEN "table" ELSE "base"]
    <3>1. w.pc \in PC
      BY <2>1 DEF PC, Middle
    <3>2. w \in Work
      BY <2>1, <3>1 DEF Work
    <3>3. work' = [work EXCEPT ![j] = w]
      BY <1>3, <2>1 DEF PrepareDir, Goto, Work
    <3>4. /\ w.pc = IF IsSnapshot(j) THEN "table" ELSE "base"
          /\ w.tables = work[j].tables /\ w.own = work[j].own /\ w.kind = work[j].kind
          /\ w.db = work[j].db /\ w.base = work[j].base
      BY <2>1 DEF Work
    <3> HIDE DEF w
    <3> QED
      BY <3>2, <3>3, <3>4
  <2>5. SlotTypeOK' /\ slot'.phase = slot.phase /\ slot'.owner = slot.owner
    <3>1. CASE UNCHANGED slotVars
      BY <2>1, <3>1 DEF SlotTypeOK, slotVars
    <3>2. CASE ReportKey(Own(j))
      BY <2>1, <2>2, <3>2 DEF SlotTypeOK, ReportKey
    <3> QED
      BY <1>3, <3>1, <3>2 DEF PrepareDir
  <2>6. TypeOK'
    BY <2>1, <2>2, <2>3, <2>4, <2>5 DEF TypeOK, StoreTypeOK
  <2>7. content[Own(j)] = NoFiles
    BY <2>2 DEF IInv, StoreInv
  <2>8. WorkInv(j)'
    <3>1. Own(j)' = Own(j)
      BY <2>1, <2>4 DEF Own
    <3>2. w.tables = 0
      BY <1>1, <2>4 DEF IInv, WorkInv, At, Early
    <3>3. Building(j)'
      BY <2>1, <2>2, <2>3, <2>4, <2>7, <3>1, <3>2, Parts
         DEF Building, At, Reading, Writing, IsSnapshot, NoFiles, Tables
    <3> QED
      BY <1>1, <2>1, <2>2, <2>4, <3>1, <3>2, <3>3, StoreAssumption
         DEF IInv, WorkInv, Alive, At, IsSnapshot, Reading, Early, Middle
  <2>9. OneWorker' /\ \A i \in Jobs : WorkInv(i)'
    BY <1>1, <2>1, <2>4, <2>5, <2>8, WorkersFrame
  <2>10. StoreInv'
    <3>1. \A k \in legacy : k # Own(j)
      BY <2>2, StoreAssumption DEF IInv, StoreInv, NewKey
    <3> QED
      BY <2>3, <3>1 DEF IInv, StoreInv, NoFiles
  <2>11. HandlerInv'
    BY <2>1, <2>2, <2>3 DEF IInv, HandlerInv, TypeOK
  <2>12. ListedComplete'
    <3> SUFFICES ASSUME NEW k \in Key, Readable(k)', k \notin asked' \cup discarded'
                 PROVE  Complete(k)'
      BY DEF ListedComplete
    <3>1. k # Own(j)
      BY <2>3, <2>7, Parts, StoreAssumption DEF Readable, NoFiles, Writer
    <3>2. Readable(k) /\ k \notin asked \cup discarded
      BY <2>3, <3>1 DEF Readable
    <3>3. Complete(k)
      BY <3>2 DEF IInv, ListedComplete
    <3> QED
      BY <2>3, <3>3 DEF Complete
  <2>13. FinishedInv'
    BY <1>1, <2>1, <2>3, <2>4 DEF IInv, FinishedInv, At
  <2>14. FinishedSurvives'
    BY <2>3 DEF IInv, FinishedSurvives
  <2> QED
    BY <2>6, <2>9, <2>10, <2>11, <2>12, <2>13, <2>14 DEF IInv
<1> QED
  BY <1>2, <1>3

LEMMA SettleStep ==
  ASSUME IInv, NEW j \in Jobs, Settle(j)
  PROVE  IInv'
<1>1. At(j, "settle") /\ Alive(j) /\ UNCHANGED <<storeVars, handlerVars, discarded>>
  BY DEF Settle, At, Alive
<1>2. work[j] \in Work /\ work \in [Jobs -> Work] /\ SlotTypeOK /\ StoreTypeOK
      /\ TypeOK /\ finished \subseteq Key \X Writer
  BY DEF IInv, TypeOK, StoreTypeOK
<1>3. work' = [work EXCEPT ![j] = Gone(j)] /\ Gone(j) \in Work /\ Gone(j).pc = "gone"
  BY <1>2, NoWorkType DEF Settle, Gone, Work, PC
<1>4. ~Alive(j)' /\ At(j, "gone")'
  BY <1>2, <1>3 DEF Alive, At
<1>5. WorkInv(j)'
  BY <1>4 DEF WorkInv, At, Alive, Reading, Early, Middle
<1>6. OneWorker' /\ \A i \in Jobs : WorkInv(i)'
  BY <1>1, <1>2, <1>3, <1>4, <1>5, WorkersFrame
<1>7. SlotTypeOK'
  <2>1. work[j].outcome \in Outcome
    BY <1>1 DEF IInv, WorkInv
  <2>2. work[j].outcome = "done" => Own(j) \in Key
    BY <1>1 DEF IInv, WorkInv, NewKey, Key
  <2> QED
    BY <1>2, <2>1, <2>2 DEF Settle, SettleJob, SlotTypeOK, Phase
<1>8. \A f \in finished' : f \in finished \/ (work[j].outcome = "done" /\ f = <<Own(j), j>>)
  BY DEF Settle
<1>9. work[j].outcome = "done" =>
         /\ Own(j) \in Key
         /\ Own(j) \in asked \/ (Own(j) \in dirs /\ content[Own(j)] = FilesBy(j))
  BY <1>1 DEF IInv, WorkInv, NewKey, Key
<1>10. TypeOK'
  <2>1. finished' \subseteq Key \X Writer
    BY <1>2, <1>8, <1>9 DEF Writer
  <2> QED
    BY <1>1, <1>2, <1>3, <1>7, <2>1 DEF TypeOK, StoreTypeOK, storeVars, handlerVars
<1>11. StoreInv' /\ HandlerInv'
  BY <1>1 DEF IInv, StoreInv, HandlerInv, storeVars, handlerVars
<1>12. ListedComplete'
  BY <1>1 DEF IInv, ListedComplete, Readable, Complete, storeVars, handlerVars
<1>13. FinishedInv'
  <2>1. \A i \in Jobs : At(i, "gone") => At(i, "gone")'
    BY <1>2, <1>3, <1>4 DEF At
  <2> QED
    BY <1>4, <1>8, <2>1 DEF IInv, FinishedInv
<1>14. FinishedSurvives'
  <2> SUFFICES ASSUME NEW f \in finished'
               PROVE  \/ f[1] \in asked
                      \/ f[1] \in dirs /\ content[f[1]] = FilesBy(f[2])
                      \/ f[1] \in legacy /\ f[2] = Old
    BY <1>1 DEF FinishedSurvives, storeVars, handlerVars, FilesBy
  <2> QED
    BY <1>8, <1>9 DEF IInv, FinishedSurvives
<1> QED
  BY <1>6, <1>10, <1>11, <1>12, <1>13, <1>14 DEF IInv

-----------------------------------------------------------------------------
(* The steps of the request handlers.                                      *)

\* A step that changes no more than what handlers are doing, what the user
\* has asked for, and the cancel flags.
LEMMA HandlerQuiet ==
  ASSUME IInv, UNCHANGED <<storeVars, slot, work, discarded, finished>>,
         cancelFlag' \in [Jobs -> BOOLEAN],
         handler' \in [Handlers -> [op : {"idle", "list", "delete", "diff"},
                                    key : Key \cup {NoKey},
                                    by : Writer \cup {NoJob}]],
         asked \subseteq asked', asked' \subseteq Key,
         HandlerInv'
  PROVE  IInv'
<1>1. TypeOK'
  BY DEF IInv, TypeOK, StoreTypeOK, SlotTypeOK, storeVars
<1>2. OneWorker' /\ FinishedInv'
  BY DEF IInv, OneWorker, FinishedInv, Alive, At, Running
<1>3. \A i \in Jobs : WorkInv(i)'
  <2> SUFFICES ASSUME NEW i \in Jobs PROVE WorkInv(i)'
    OBVIOUS
  <2>1. Building(i)' = Building(i) /\ WorkInv(i)
    BY DEF IInv, Building, At, Own, IsSnapshot, NextTable, storeVars
  <2> QED
    BY <2>1 DEF WorkInv, Alive, At, Own, IsSnapshot, storeVars
<1>4. StoreInv'
  BY DEF IInv, StoreInv, storeVars
<1>5. ListedComplete'
  BY DEF IInv, ListedComplete, Readable, Complete, storeVars
<1>6. FinishedSurvives'
  BY DEF IInv, FinishedSurvives, storeVars
<1> QED
  BY <1>1, <1>2, <1>3, <1>4, <1>5, <1>6 DEF IInv

LEMMA LaunchStep ==
  ASSUME IInv, NEW j \in Jobs, NEW w \in Work,
         Launch(j, w), w.pc \in {"resolve", "name"}, w.tables = 0, w.db \in Databases,
         w.kind = "diff" => w.base \in Key,
         UNCHANGED <<storeVars, asked, discarded, finished>>,
         handler' \in [Handlers -> [op : {"idle", "list", "delete", "diff"},
                                    key : Key \cup {NoKey},
                                    by : Writer \cup {NoJob}]],
         HandlerInv'
  PROVE  IInv'
<1>1. ~Running /\ work' = [work EXCEPT ![j] = w] /\ work[j].pc = "unused"
      /\ slot'.phase = "running" /\ slot'.owner = j
  BY DEF Launch, BeginJob
<1>2. work \in [Jobs -> Work] /\ TypeOK /\ SlotTypeOK /\ finished \subseteq Key \X Writer
  BY DEF IInv, TypeOK
<1>3. SlotTypeOK'
  <2>1. w.kind \in Kind
    BY DEF Work
  <2> QED
    BY <1>2, <2>1, StoreAssumption DEF Launch, BeginJob, SlotTypeOK, Phase
<1>4. TypeOK'
  BY <1>1, <1>2, <1>3 DEF TypeOK, StoreTypeOK, storeVars
<1>5. \A i \in Jobs : i # j => ~Alive(i) /\ work'[i] = work[i]
  BY <1>1, <1>2 DEF IInv, OneWorker
<1>6. OneWorker'
  BY <1>1, <1>5 DEF OneWorker, Alive, Running
<1>7. \A i \in Jobs : WorkInv(i)'
  <2>1. WorkInv(j)'
    <3>1. w.kind \in Kind
      BY DEF Work
    <3> QED
      BY <1>1, <1>2, <3>1
         DEF WorkInv, Alive, At, IsSnapshot, Kind, Reading, Early, Middle
  <2>2. \A i \in Jobs : i # j => WorkInv(i)'
    BY <1>5 DEF WorkInv, Alive, At, IsSnapshot, Reading, Early, Middle
  <2> QED
    BY <2>1, <2>2
<1>8. StoreInv'
  BY DEF IInv, StoreInv, storeVars
<1>9. ListedComplete'
  BY DEF IInv, ListedComplete, Readable, Complete, storeVars
<1>10. FinishedInv'
  BY <1>1, <1>2 DEF IInv, FinishedInv, At
<1>11. FinishedSurvives'
  BY DEF IInv, FinishedSurvives, storeVars
<1> QED
  BY <1>4, <1>6, <1>7, <1>8, <1>9, <1>10, <1>11 DEF IInv

LEMMA StartCreateStep ==
  ASSUME IInv, NEW h \in Handlers, NEW j \in Jobs, NEW d \in Databases, StartCreate(h, j, d)
  PROVE  IInv'
<1> DEFINE w == [NoWork EXCEPT !.pc = "resolve", !.kind = "snapshot", !.db = d]
<1>1. /\ w \in Work /\ w.pc = "resolve" /\ w.tables = 0 /\ w.db \in Databases
      /\ w.kind = "snapshot"
  BY NoWorkType DEF Work, PC, Early, Kind
<1>2. Launch(j, w) /\ UNCHANGED <<storeVars, handler, asked, discarded, finished>>
  BY DEF StartCreate
<1> HIDE DEF w
<1>3. handler' \in [Handlers -> [op : {"idle", "list", "delete", "diff"},
                                 key : Key \cup {NoKey},
                                 by : Writer \cup {NoJob}]]
  BY <1>2 DEF IInv, TypeOK
<1>4. HandlerInv'
  BY <1>2 DEF IInv, HandlerInv, storeVars
<1> QED
  BY <1>1, <1>2, <1>3, <1>4, LaunchStep

LEMMA StartDiffStep ==
  ASSUME IInv, NEW h \in Handlers, NEW j \in Jobs, StartDiff(h, j)
  PROVE  IInv'
<1> DEFINE w == [NoWork EXCEPT !.pc = "name", !.kind = "diff", !.db = handler[h].key[1],
                               !.base = handler[h].key, !.baseBy = handler[h].by]
<1>1. handler[h].key \in Key /\ handler[h].by \in Writer \cup {NoJob}
  BY DEF IInv, TypeOK, HandlerInv, StartDiff
<1>2. handler[h].key[1] \in Databases
  BY <1>1 DEF Key
<1>3. /\ w \in Work /\ w.pc = "name" /\ w.tables = 0 /\ w.db \in Databases
      /\ w.base \in Key
  BY <1>1, <1>2, NoWorkType DEF Work, PC, Early, Kind
<1>4. Launch(j, w) /\ UNCHANGED <<storeVars, asked, discarded, finished>>
      /\ handler' = [handler EXCEPT ![h] = Idle]
  BY DEF StartDiff
<1> HIDE DEF w
<1>5. handler' \in [Handlers -> [op : {"idle", "list", "delete", "diff"},
                                 key : Key \cup {NoKey},
                                 by : Writer \cup {NoJob}]]
  BY <1>4 DEF IInv, TypeOK, Idle
<1>6. HandlerInv'
  BY <1>4 DEF IInv, TypeOK, HandlerInv, Idle, storeVars
<1> QED
  BY <1>3, <1>4, <1>5, <1>6, LaunchStep

\* Handlers that only look, or only note what the user asked for.
LEMMA QuietHandlerSteps ==
  ASSUME IInv, NEW h \in Handlers,
         \/ \E k \in Key : CheckBaseline(h, k) \/ StartDelete(h, k)
         \/ RefuseDiff(h) \/ Cancel(h) \/ StartList(h) \/ FinishList(h) \/ DeleteFails(h)
  PROVE  IInv'
<1> DEFINE HandlerType == [op : {"idle", "list", "delete", "diff"},
                           key : Key \cup {NoKey}, by : Writer \cup {NoJob}]
<1>1. /\ handler \in [Handlers -> HandlerType] /\ SlotTypeOK /\ asked \subseteq Key
      /\ cancelFlag \in [Jobs -> BOOLEAN] /\ Idle \in HandlerType
  BY DEF IInv, TypeOK, SlotTypeOK, Idle
<1>2. CASE \E k \in Key : CheckBaseline(h, k)
  <2>1. PICK k \in Key : CheckBaseline(h, k)
    BY <1>2
  <2>2. content[k][Meta] \in Writer
    BY <2>1 DEF CheckBaseline, Readable
  <2>3. handler' \in [Handlers -> HandlerType]
    BY <1>1, <2>1, <2>2 DEF CheckBaseline
  <2>4. HandlerInv'
    BY <1>1, <2>1, <2>2 DEF CheckBaseline, IInv, HandlerInv, storeVars
  <2> QED
    BY <1>1, <2>1, <2>3, <2>4, HandlerQuiet DEF CheckBaseline, slotVars
<1>3. CASE \E k \in Key : StartDelete(h, k)
  <2>1. PICK k \in Key : StartDelete(h, k)
    BY <1>3
  <2>2. handler' \in [Handlers -> HandlerType]
    BY <1>1, <2>1 DEF StartDelete, Idle
  <2>3. HandlerInv'
    BY <1>1, <2>1 DEF StartDelete, Readable, Idle, IInv, HandlerInv, storeVars
  <2> QED
    BY <1>1, <2>1, <2>2, <2>3, HandlerQuiet DEF StartDelete, slotVars
<1>4. CASE Cancel(h)
  <2>1. cancelFlag' \in [Jobs -> BOOLEAN] /\ UNCHANGED <<slot, handler>>
    BY <1>1, <1>4 DEF Cancel, RequestCancel
  <2>2. HandlerInv'
    BY <1>4 DEF Cancel, IInv, HandlerInv, storeVars
  <2> QED
    BY <1>1, <1>4, <2>1, <2>2, HandlerQuiet DEF Cancel
<1>5. CASE RefuseDiff(h) \/ StartList(h) \/ FinishList(h) \/ DeleteFails(h)
  <2>1. PICK new \in {Idle, [Idle EXCEPT !.op = "list"]} :
           /\ handler' = [handler EXCEPT ![h] = new]
           /\ UNCHANGED <<storeVars, slotVars, work, asked, discarded, finished>>
    BY <1>5 DEF RefuseDiff, StartList, FinishList, DeleteFails
  <2>2. new \in HandlerType /\ new.op \notin {"diff", "delete"}
    BY DEF Idle
  <2>3. handler' \in [Handlers -> HandlerType]
    BY <1>1, <2>1, <2>2
  <2>4. HandlerInv'
    BY <1>1, <2>1, <2>2 DEF IInv, HandlerInv, storeVars
  <2> QED
    BY <1>1, <2>1, <2>3, <2>4, HandlerQuiet DEF slotVars
<1> QED
  BY <1>2, <1>3, <1>4, <1>5

LEMMA DeleteFileStep ==
  ASSUME IInv, NEW h \in Handlers, NEW p \in Part, DeleteFile(h, p)
  PROVE  IInv'
<1> DEFINE k == handler[h].key
<1>1. /\ RemoveFile(k, p) /\ handler[h].op = "delete"
      /\ UNCHANGED <<slotVars, work, handler, asked, discarded, finished>>
  BY DEF DeleteFile
<1>2. k \in dirs /\ k \in asked /\ k \in Key
  BY <1>1 DEF IInv, HandlerInv, TypeOK, StoreTypeOK
<1> HIDE DEF k
<1>3. Removable(k)
  BY <1>2 DEF Removable
<1>4. StoreTypeOK' /\ StoreInv' /\ ListedComplete' /\ FinishedSurvives'
  BY <1>1, <1>2, <1>3, RemoveFileStore
<1>5. TypeOK'
  BY <1>1, <1>4 DEF IInv, TypeOK, SlotTypeOK, slotVars
<1>6. OneWorker' /\ FinishedInv' /\ HandlerInv'
  BY <1>1 DEF IInv, OneWorker, FinishedInv, HandlerInv, Alive, Running, At, RemoveFile, slotVars
<1>7. \A x \in Key : x # k => content'[x] = content[x] /\ (x \in dirs' <=> x \in dirs)
  BY <1>1 DEF RemoveFile, IInv, TypeOK, StoreTypeOK
<1>8. \A i \in Jobs : WorkInv(i)'
  BY <1>1, <1>2, <1>3, <1>7, WorkElsewhere
<1> QED
  BY <1>4, <1>5, <1>6, <1>8 DEF IInv

LEMMA DeleteDirStep ==
  ASSUME IInv, NEW h \in Handlers, DeleteDir(h)
  PROVE  IInv'
<1> DEFINE k == handler[h].key
<1>1. /\ RemoveDir(k) /\ handler[h].op = "delete"
      /\ handler' = [x \in Handlers |->
             IF handler[x].op = "delete" /\ handler[x].key = k THEN Idle ELSE handler[x]]
      /\ UNCHANGED <<slotVars, work, asked, discarded, finished>>
  BY DEF DeleteDir
<1>2. k \in dirs /\ k \in asked /\ k \in Key
  BY <1>1 DEF IInv, HandlerInv, TypeOK, StoreTypeOK
<1> HIDE DEF k
<1>3. Removable(k)
  BY <1>2 DEF Removable
<1>4. StoreTypeOK' /\ StoreInv' /\ ListedComplete' /\ FinishedSurvives'
  BY <1>1, <1>2, <1>3, RemoveDirStore
<1>5. TypeOK'
  BY <1>1, <1>4 DEF IInv, TypeOK, SlotTypeOK, slotVars, Idle
<1>6. OneWorker' /\ FinishedInv'
  BY <1>1 DEF IInv, OneWorker, FinishedInv, Alive, Running, At, slotVars
<1>7. HandlerInv'
  BY <1>1 DEF IInv, HandlerInv, RemoveDir, Idle
<1>8. \A x \in Key : x # k => content'[x] = content[x] /\ (x \in dirs' <=> x \in dirs)
  BY <1>1 DEF RemoveDir
<1>9. \A i \in Jobs : WorkInv(i)'
  BY <1>1, <1>2, <1>3, <1>8, WorkElsewhere
<1> QED
  BY <1>4, <1>5, <1>6, <1>7, <1>9 DEF IInv

LEMMA MigrateOneStep ==
  ASSUME IInv, NEW h \in Handlers, NEW k \in Key, MigrateOne(h, k)
  PROVE  IInv'
<1>1. /\ k \in legacy /\ k \notin dirs
      /\ legacy' = legacy \ {k} /\ dirs' = dirs \cup {k}
      /\ content' = [content EXCEPT ![k] = FilesBy(Old)]
      /\ UNCHANGED <<clock, slotVars, work, handler, asked, discarded, finished>>
  BY DEF MigrateOne, MoveLegacy
<1>2. TypeOK /\ content \in [Key -> [Part -> Content]] /\ finished \subseteq Key \X Writer
      /\ FilesBy(Old) \in [Part -> Content]
  BY DEF IInv, TypeOK, StoreTypeOK, FilesBy, Content, Writer
<1>3. content'[k] = FilesBy(Old) /\ \A x \in Key : x # k => content'[x] = content[x]
  BY <1>1, <1>2
<1>4. k \notin NewKey
  BY <1>1, StoreAssumption DEF IInv, StoreInv, NewKey
<1>5. TypeOK'
  BY <1>1, <1>2 DEF TypeOK, StoreTypeOK, SlotTypeOK, slotVars
<1>6. OneWorker' /\ FinishedInv'
  BY <1>1 DEF IInv, OneWorker, FinishedInv, Alive, Running, At, slotVars
<1>7. StoreInv'
  BY <1>1, <1>3 DEF IInv, StoreInv, NoFiles
<1>8. HandlerInv'
  BY <1>1 DEF IInv, HandlerInv
<1>9. \A i \in Jobs : WorkInv(i)'
  BY <1>1, <1>3, <1>4, WorkElsewhere
<1>10. ListedComplete'
  <2> SUFFICES ASSUME NEW x \in Key, Readable(x)', x \notin asked \cup discarded
               PROVE  Complete(x)'
    BY <1>1 DEF ListedComplete
  <2>1. CASE x = k
    BY <1>3, <2>1, Parts DEF Complete, FilesBy
  <2>2. CASE x # k
    <3>1. content'[x] = content[x] /\ (x \in dirs' <=> x \in dirs)
      BY <1>1, <1>3, <2>2
    <3>2. Complete(x)
      BY <3>1 DEF IInv, ListedComplete, Readable
    <3> QED
      BY <3>1, <3>2 DEF Complete
  <2> QED
    BY <2>1, <2>2
<1>11. FinishedSurvives'
  BY <1>1, <1>2, <1>3 DEF IInv, FinishedSurvives, FilesBy
<1> QED
  BY <1>5, <1>6, <1>7, <1>8, <1>9, <1>10, <1>11 DEF IInv

LEMMA HandlerSteps ==
  ASSUME IInv, NEW h \in Handlers, HandlerStep(h)
  PROVE  IInv'
BY QuietHandlerSteps, StartCreateStep, StartDiffStep, MigrateOneStep, DeleteFileStep,
   DeleteDirStep DEF HandlerStep

LEMMA WorkerSteps ==
  ASSUME IInv, NEW j \in Jobs, WorkerStep(j)
  PROVE  IInv'
BY ResolveSpecsStep, ChooseNameStep, PrepareDirStep, ReadBaselineStep, BaselineReadStep,
   CollectSchemaStep, BeginTableStep, BeginPageStep, FetchPageStep, FlushTableStep,
   CountRowsStep, WriteSchemaStep, ProbeSessionStep, OpenMetaStep, CloseMetaStep,
   WriteOutputsStep, CleanupStep, SettleStep DEF WorkerStep

-----------------------------------------------------------------------------
(* The environment's steps.                                                *)

LEMMA CrashStep ==
  ASSUME IInv, Crash
  PROVE  IInv'
<1>1. /\ slot' = EmptySlot
      /\ work' = [j \in Jobs |-> IF Alive(j) THEN Gone(j) ELSE work[j]]
      /\ handler' = [h \in Handlers |-> Idle]
      /\ UNCHANGED <<storeVars, cancelFlag, asked, discarded, finished>>
  BY DEF Crash
<1>2. work \in [Jobs -> Work] /\ TypeOK
  BY DEF IInv, TypeOK
<1>3. \A j \in Jobs : Gone(j) \in Work /\ Gone(j).pc = "gone"
  BY <1>2, NoWorkType DEF Gone, Work, PC
<1>4. TypeOK'
  <2>1. SlotTypeOK'
    BY <1>1, <1>2 DEF TypeOK, SlotTypeOK, EmptySlot, Phase, Kind
  <2>2. work' \in [Jobs -> Work]
    BY <1>1, <1>2, <1>3
  <2>3. Idle \in [op : {"idle", "list", "delete", "diff"}, key : Key \cup {NoKey},
                  by : Writer \cup {NoJob}]
    BY DEF Idle
  <2> QED
    BY <1>1, <1>2, <2>1, <2>2, <2>3 DEF TypeOK, StoreTypeOK, storeVars
<1>5. \A j \in Jobs : ~Alive(j)'
  BY <1>1, <1>3 DEF Alive
<1>6. OneWorker' /\ \A j \in Jobs : WorkInv(j)'
  BY <1>5 DEF OneWorker, WorkInv, Alive, At, Reading, Early, Middle
<1>7. StoreInv' /\ HandlerInv'
  BY <1>1 DEF IInv, StoreInv, HandlerInv, Idle, storeVars
<1>8. ListedComplete'
  BY <1>1 DEF IInv, ListedComplete, Readable, Complete, storeVars
<1>9. FinishedInv'
  BY <1>1 DEF IInv, FinishedInv, At, Alive
<1>10. FinishedSurvives'
  BY <1>1 DEF IInv, FinishedSurvives, storeVars
<1> QED
  BY <1>4, <1>6, <1>7, <1>8, <1>9, <1>10 DEF IInv

LEMMA ClockStep ==
  ASSUME IInv, Clock
  PROVE  IInv'
<1>1. /\ clock' \in Seconds
      /\ UNCHANGED <<dirs, content, legacy, slotVars, work, handler, asked, discarded, finished>>
  BY DEF Clock, Tick, handlerVars
<1>2. TypeOK'
  BY <1>1 DEF IInv, TypeOK, StoreTypeOK, SlotTypeOK, slotVars
<1>3. OneWorker' /\ FinishedInv' /\ HandlerInv' /\ StoreInv'
  BY <1>1 DEF IInv, OneWorker, FinishedInv, HandlerInv, StoreInv, Alive, Running, At, slotVars
<1>4. \A i \in Jobs : WorkInv(i)'
  <2> SUFFICES ASSUME NEW i \in Jobs PROVE WorkInv(i)'
    OBVIOUS
  <2>1. Building(i)' = Building(i) /\ WorkInv(i)
    BY <1>1 DEF IInv, Building, At, Own, IsSnapshot, NextTable
  <2> QED
    BY <1>1, <2>1 DEF WorkInv, Alive, At, Own, IsSnapshot
<1>5. ListedComplete' /\ FinishedSurvives'
  BY <1>1 DEF IInv, ListedComplete, FinishedSurvives, Readable, Complete
<1> QED
  BY <1>2, <1>3, <1>4, <1>5 DEF IInv

LEMMA Stutter ==
  ASSUME IInv, UNCHANGED vars
  PROVE  IInv'
<1>1. UNCHANGED <<clock, dirs, content, legacy, slot, cancelFlag, work, handler, asked,
                  discarded, finished>>
  BY DEF vars, storeVars, slotVars
<1> QED
  BY <1>1 DEF IInv, TypeOK, StoreTypeOK, SlotTypeOK, OneWorker, FinishedInv, HandlerInv,
     StoreInv, ListedComplete, FinishedSurvives, Readable, Complete, WorkInv, Building,
     Alive, Running, At, Own, IsSnapshot, NextTable

-----------------------------------------------------------------------------
(* The theorems.                                                           *)

(* IInv is an inductive invariant of the sidecar: no step of a handler, of *)
(* a worker, of the clock or a crash leads out of it.                      *)
THEOREM Inductive == Spec => []IInv
<1>1. Init => IInv
  BY InitIInv
<1>2. IInv /\ [Next]_vars => IInv'
  BY HandlerSteps, WorkerSteps, CrashStep, ClockStep, Stutter DEF Next
<1> QED
  BY <1>1, <1>2, PTL DEF Spec

(* Every variable keeps its type: among others, no table counter, page     *)
(* counter or directory entry leaves its range.                            *)
THEOREM TypeCorrect == Spec => []TypeOK
<1>1. IInv => TypeOK
  BY DEF IInv
<1> QED
  BY <1>1, Inductive, PTL

(* One job at a time, with any number of handlers starting jobs: begin_job *)
(* and settle keep the slot and the live thread in step.                   *)
THEOREM SlotExclusion == Spec => []OneWorker
<1>1. IInv => OneWorker
  BY DEF IInv
<1> QED
  BY <1>1, Inductive, PTL

(* What snapshot/list shows is a whole snapshot of one run, through        *)
(* cancels, failures, crashes between any two writes, and name reuse.      *)
THEOREM ListedWhole == Spec => []ListedComplete
<1>1. IInv => ListedComplete
  BY DEF IInv
<1> QED
  BY <1>1, Inductive, PTL

(* A finished snapshot stays intact until the user asks to delete it: no   *)
(* other job's writes, cleanup or crash and no migration damages it.       *)
THEOREM FinishedIntact == Spec => []FinishedSurvives
<1>1. IInv => FinishedSurvives
  BY DEF IInv
<1> QED
  BY <1>1, Inductive, PTL

=============================================================================
