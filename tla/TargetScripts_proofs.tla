------------------------ MODULE TargetScripts_proofs ------------------------
(***************************************************************************)
(* Proofs about TargetScripts: types, that what a file removed can be      *)
(* found in its backup table, and that a clean run of both files has the   *)
(* effect SyncRounds takes them to have.                                   *)
(***************************************************************************)
EXTENDS TargetScripts, RowDiff_proofs

-----------------------------------------------------------------------------
(* Types.                                                                  *)

\* The next statement of a run is one of the file.
LEMMA FollowingPlaced ==
    ASSUME NEW f \in File, NEW p \in Position, Placed(f, p), p.step # "idle"
    PROVE  Following(f, p) \in Position /\ Placed(f, Following(f, p))
<1>1. /\ Len(Chunks[f]) \in Nat /\ DOMAIN Chunks[f] = 1 .. Len(Chunks[f])
      /\ Len(Inserts) \in Nat /\ DOMAIN Inserts = 1 .. Len(Inserts)
  BY ScriptsAssumption DEF File
<1>2. Chunks["data"] # <<>> => 1 \in DOMAIN Inserts
  <2>1. Chunks["data"] # <<>> => Listed("data") # {}
    BY ScriptsAssumption DEF File
  <2>2. Listed("data") # {} => DOMAIN Inserts # {}
    BY ScriptsAssumption
  <2> QED
    BY <1>1, <2>1, <2>2
<1>3. Chunks[f] # <<>> => 1 \in DOMAIN Chunks[f]
  BY <1>1, ScriptsAssumption DEF File
<1>4. p.step \in Step /\ p.n \in Nat
  BY DEF Position
<1>5. p.n \in DOMAIN Chunks[f] => Chunks[f] # <<>>
  BY <1>1
<1>6. CASE p.step = "create"
  BY <1>6, <1>3 DEF Following, Placed, Position, Step
<1>7. CASE p.step = "backup"
  BY <1>7, <1>1, <1>3, <1>4, <1>5 DEF Following, Placed, Position, Step
<1>8. CASE p.step = "delete"
  BY <1>8, <1>1, <1>2, <1>4, <1>5 DEF Following, Placed, Position, Step, Idle, File
<1>9. CASE p.step = "insert"
  BY <1>9, <1>1, <1>4 DEF Following, Placed, Position, Step, Idle, File
<1> QED
  BY <1>4, <1>6, <1>7, <1>8, <1>9 DEF Step

LEMMA WithTable ==
    ASSUME NEW t \in Table, NEW pk \in PK, NEW row \in Row
    PROVE  With(t, pk, row) \in Table
<1>1. DOMAIN With(t, pk, row) \subseteq PK
  BY TableFacts DEF With
<1>2. \A p \in DOMAIN With(t, pk, row) : With(t, pk, row)[p] \in Row
  BY TableFacts DEF With
<1> QED
  BY <1>1, <1>2, TableIntro DEF With

LEMMA SubTable ==
    ASSUME NEW t \in Table, NEW S \in SUBSET DOMAIN t
    PROVE  [pk \in S |-> t[pk]] \in Table
  BY TableFacts, TableIntro

LEMMA EmptyTable == <<>> \in Table
<1>1. DOMAIN <<>> = {}
  OBVIOUS
<1>2. <<>> \in [{} -> Row]
  OBVIOUS
<1> QED
  BY <1>1, <1>2, TableIntro

LEMMA AdvanceType ==
    ASSUME TypeOK, NEW f \in File, NEW ok \in BOOLEAN, ~ At(f, "idle"), Advance(f, ok)
    PROVE  /\ pos' \in [File -> Position]
           /\ \A g \in File : Placed(g, pos'[g])
           /\ clean' \in [File -> BOOLEAN] /\ applied' \in [File -> BOOLEAN]
<1>1. /\ pos' = [pos EXCEPT ![f] = Following(f, pos[f])]
      /\ Following(f, pos[f]) \in Position
      /\ Placed(f, Following(f, pos[f]))
  BY FollowingPlaced DEF TypeOK, At, Advance
<1> QED
  BY <1>1 DEF TypeOK, Advance

LEMMA SavedTable ==
    ASSUME TypeOK, NEW f \in File, bak[f] # NoTable
    PROVE  Saved(f) \in Table
<1>1. bak[f].rows \in Table /\ target \in Table
  BY DEF TypeOK, Backup
<1>2. /\ DOMAIN Saved(f) = DOMAIN bak[f].rows \cup RowsOf(target, Chunk(f))
      /\ \A pk \in DOMAIN Saved(f) :
           Saved(f)[pk] = IF pk \in RowsOf(target, Chunk(f)) THEN target[pk]
                          ELSE bak[f].rows[pk]
      /\ Saved(f) \in [DOMAIN Saved(f) -> {Saved(f)[pk] : pk \in DOMAIN Saved(f)}]
  BY DEF Saved
<1>3. DOMAIN Saved(f) \subseteq PK
  BY <1>1, <1>2, TableFacts DEF RowsOf
<1>4. \A pk \in DOMAIN Saved(f) : Saved(f)[pk] \in Row
  BY <1>1, <1>2, TableFacts DEF RowsOf
<1> QED
  BY <1>2, <1>3, <1>4, TableIntro

LEMMA TypeInit == Init => TypeOK
<1> SUFFICES ASSUME Init PROVE TypeOK
  OBVIOUS
<1>1. target \in Table /\ theirs \in Table
  BY ScriptsAssumption DEF Init
<1>2. pos \in [File -> Position] /\ \A f \in File : pos[f] = Idle
  BY DEF Init, Position, Idle
<1>3. \A f \in File : Placed(f, pos[f])
  BY <1>2 DEF Placed, Idle
<1>4. /\ bak \in [File -> {NoTable} \cup Backup]
      /\ clean \in [File -> BOOLEAN] /\ applied \in [File -> BOOLEAN]
      /\ drifted \in [File -> BOOLEAN] /\ runs \in [File -> Nat]
      /\ wide \in BOOLEAN /\ raced \in BOOLEAN /\ unsaved \in BOOLEAN
      /\ writes \in Nat
  BY DEF Init
<1> QED
  BY <1>1, <1>2, <1>3, <1>4 DEF TypeOK

LEMMA TypeStep ==
    ASSUME TypeOK, [Next]_vars
    PROVE  TypeOK'
<1> USE DEF TypeOK
<1>1. ASSUME NEW f \in File, Begin(f) PROVE TypeOK'
  BY <1>1 DEF Begin, Placed, Position, Step
<1>2. ASSUME NEW f \in File, CreateBackup(f) PROVE TypeOK'
  <2>1. bak' \in [File -> {NoTable} \cup Backup]
    BY <1>2, EmptyTable DEF CreateBackup, Backup
  <2> QED
    BY <1>2, <2>1, AdvanceType DEF CreateBackup, Succeeds, At, counters
<1>3. ASSUME NEW f \in File, BackUp(f) PROVE TypeOK'
  <2>1. bak'[f] = [wide |-> bak[f].wide, rows |-> Saved(f)]
    BY <1>3 DEF BackUp, Backup
  <2>2. bak' \in [File -> {NoTable} \cup Backup]
    BY <1>3, <2>1, SavedTable DEF BackUp, Backup
  <2> QED
    BY <1>3, <2>2, AdvanceType DEF BackUp, Succeeds, At, counters
<1>4. ASSUME NEW f \in File, DeleteChunk(f) PROVE TypeOK'
  <2>1. target' \in Table
    BY <1>4, SubTable DEF DeleteChunk
  <2> QED
    BY <1>4, <2>1, AdvanceType DEF DeleteChunk, Succeeds, At, counters
<1>5. CASE InsertRow
  <2> DEFINE id == Inserts[pos["data"].n]
  <2>1. id \in Listed("data") /\ Live[id].ver \in Version /\ Live[id].val \in Row
    BY <1>5, ScriptsAssumption DEF InsertRow, Placed, At, File
  <2>2. id \in Id
    BY <2>1, ScriptsAssumption DEF Listed, File
  <2>3. target' = With(target, <<id, Live[id].ver>>, Live[id].val)
    BY <1>5 DEF InsertRow, With
  <2>4. target' \in Table
    BY <2>1, <2>2, <2>3, WithTable DEF PK
  <2> QED
    BY <1>5, <2>4, AdvanceType DEF InsertRow, Succeeds, At, counters, File
<1>6. ASSUME NEW f \in File, Skip(f) PROVE TypeOK'
  <2>1. (pos[f].step \in {"create", "backup"}) \in BOOLEAN
    OBVIOUS
  <2> QED
    BY <1>6, <2>1, AdvanceType DEF Skip, counters
<1>7. ASSUME NEW f \in File, Halt(f) PROVE TypeOK'
  BY <1>7 DEF Halt, history, counters, Placed, Idle, Position
<1>8. CASE WidenTable
  BY <1>8 DEF WidenTable, history, counters
<1>9. ASSUME NEW pk \in PK, Drift(pk), target' \in Table, theirs' \in Table
      PROVE  TypeOK'
  BY <1>9 DEF Drift
<1>10. ASSUME NEW pk \in PK, NEW row \in Row, OtherPuts(pk, row) PROVE TypeOK'
  BY <1>9, <1>10, WithTable DEF OtherPuts
<1>11. ASSUME NEW pk \in PK, OtherDrops(pk) PROVE TypeOK'
  <2>1. Without(target, pk) \in Table /\ Without(theirs, pk) \in Table
    BY SubTable DEF Without
  <2> QED
    BY <1>9, <1>11, <2>1 DEF OtherDrops
<1>12. CASE UNCHANGED vars
  BY <1>12 DEF vars
<1> QED
  BY <1>1, <1>2, <1>3, <1>4, <1>5, <1>6, <1>7, <1>8, <1>10, <1>11, <1>12 DEF Next

\* Every variable keeps its type, and a run is never at a statement its file
\* does not have, for every key list, chunk size and number of runs.
THEOREM ScriptsTypeCorrect == Spec => []TypeOK
  BY TypeInit, TypeStep, PTL DEF Spec

-----------------------------------------------------------------------------
(* What was removed is in the backup table.                                *)

\* The rows of a chunk that are not the scripts' own are in the backup table.
Secured(f, n) ==
    \A pk \in RowsOf(target, Chunks[f][n]) :
        pk \in DOMAIN theirs /\ Holds(target, pk) => SavedBy(f, pk)

\* The run has passed the backup of the chunk.
Past(f, n) ==
    \/ At(f, "backup") /\ n < pos[f].n
    \/ At(f, "delete")
    \/ At(f, "insert")

\* Rows of the chunk are in the backup table, and nobody else wrote since.
Backed(f, n) ==
    /\ ~ drifted[f] /\ bak[f] # NoTable
    /\ RowsOf(bak[f].rows, Chunks[f][n]) # {}

SomewhereSaved(pk) ==
    Holds(target, pk) \/ \E f \in File : pk[1] \in Listed(f) /\ SavedBy(f, pk)

Safe ==
    /\ \A f \in File : \A n \in DOMAIN Chunks[f] :
         Past(f, n) \/ Backed(f, n) => Secured(f, n)
    /\ \A pk \in DOMAIN theirs : SomewhereSaved(pk)

SafeInv ==
    /\ TypeOK
    /\ \A f \in File : bak[f] # NoTable \/ pos[f] # Idle => runs[f] > 0
    /\ raced \/ unsaved \/ Safe

LEMMA SafeInit == Init => SafeInv
<1> SUFFICES ASSUME Init PROVE SafeInv
  OBVIOUS
<1>1. \A f \in File : bak[f] = NoTable /\ pos[f] = Idle
  BY DEF Init
<1>2. Safe
  BY <1>1 DEF Init, Safe, Past, Backed, At, Idle, SomewhereSaved, Holds
<1> QED
  BY <1>1, <1>2, TypeInit DEF SafeInv

\* A step of a run that changes neither table keeps what is safe, if the
\* chunk it passes is secured.
LEMMA MoveSafe ==
    ASSUME TypeOK, Safe, UNCHANGED <<target, theirs, bak>>,
           \A g \in File : drifted'[g] = drifted[g],
           \A g \in File : \A n \in DOMAIN Chunks[g] :
               Past(g, n)' => Past(g, n) \/ Secured(g, n)
    PROVE  Safe'
<1>1. \A g \in File : \A n \in DOMAIN Chunks[g] :
        (Secured(g, n)' <=> Secured(g, n)) /\ (Backed(g, n)' <=> Backed(g, n))
  BY DEF Secured, Backed, Holds, SavedBy, RowsOf
<1>2. \A pk : SomewhereSaved(pk)' <=> SomewhereSaved(pk)
  BY DEF SomewhereSaved, Holds, SavedBy
<1> QED
  BY <1>1, <1>2 DEF Safe

\* Where a run stands after a statement.
LEMMA PastNext ==
    ASSUME TypeOK, NEW f \in File, ~ At(f, "idle"), NEW ok \in BOOLEAN,
           Advance(f, ok), NEW g \in File, NEW n \in DOMAIN Chunks[g], Past(g, n)'
    PROVE  Past(g, n) \/ (g = f /\ At(f, "backup") /\ n = pos[f].n)
<1>1. pos' = [pos EXCEPT ![f] = Following(f, pos[f])]
  BY DEF Advance
<1>2. CASE g # f
  BY <1>1, <1>2 DEF Past, At, TypeOK
<1>3. CASE g = f
  <2>1. pos'[f] = Following(f, pos[f])
    BY <1>1 DEF TypeOK
  <2>2. pos[f] \in Position /\ Placed(f, pos[f]) /\ pos[f].step # "idle"
    BY DEF TypeOK, At
  <2>3. /\ pos[f].step \in Step /\ pos[f].n \in Nat
        /\ Len(Chunks[f]) \in Nat /\ DOMAIN Chunks[f] = 1 .. Len(Chunks[f])
    BY <2>2, ScriptsAssumption DEF Position
  <2>4. CASE pos[f].step = "create"
    BY <1>3, <2>1, <2>3, <2>4 DEF Following, Past, At
  <2>5. CASE pos[f].step = "backup"
    <3>1. pos[f].n \in 1 .. Len(Chunks[f])
      BY <2>2, <2>3, <2>5 DEF Placed
    <3> QED
      BY <1>3, <2>1, <2>3, <2>5, <3>1 DEF Following, Past, At
  <2>6. CASE pos[f].step \in {"delete", "insert"}
    BY <1>3, <2>6 DEF Past, At
  <2> QED
    BY <2>3, <2>4, <2>5, <2>6 DEF Step
<1> QED
  BY <1>2, <1>3

\* Backing up a chunk secures it and takes nothing out of a backup table.
LEMMA BackUpSafe ==
    ASSUME TypeOK, Safe, NEW f \in File, BackUp(f)
    PROVE  Safe'
<1> DEFINE c == pos[f].n
<1>1. /\ c \in DOMAIN Chunks[f] /\ Chunk(f) = Chunks[f][c]
      /\ bak[f] # NoTable /\ bak[f] \in Backup /\ UNCHANGED <<target, theirs, drifted>>
  BY DEF BackUp, TypeOK, Placed, At, Chunk, Succeeds
<1>2. /\ bak'[f] = [wide |-> bak[f].wide, rows |-> Saved(f)]
      /\ \A g \in File : g # f => bak'[g] = bak[g]
      /\ bak'[f].rows = Saved(f)
  BY <1>1 DEF BackUp, TypeOK, Backup
<1>3. bak'[f] # NoTable
  <2>1. bak'[f] \in Backup
    BY <1>1, <1>2, SavedTable DEF Backup
  <2> QED
    BY <2>1, ScriptsAssumption
<1>4. /\ DOMAIN Saved(f) = DOMAIN bak[f].rows \cup RowsOf(target, Chunk(f))
      /\ \A pk \in DOMAIN Saved(f) :
           Saved(f)[pk] = IF pk \in RowsOf(target, Chunk(f)) THEN target[pk]
                          ELSE bak[f].rows[pk]
  BY DEF Saved
<1>5. \A pk \in DOMAIN bak[f].rows : pk \notin RowsOf(target, Chunk(f))
  BY DEF BackUp, Conflict
<1>6. \A g \in File : \A pk : SavedBy(g, pk) => SavedBy(g, pk)'
  BY <1>1, <1>2, <1>3, <1>4, <1>5 DEF SavedBy, Holds
<1>7. \A n : n = c => Secured(f, n)'
  BY <1>1, <1>2, <1>3, <1>4 DEF Secured, SavedBy, Holds, RowsOf
<1>8. \A g \in File : \A n \in DOMAIN Chunks[g] : Secured(g, n) => Secured(g, n)'
  BY <1>1, <1>6 DEF Secured, Holds, RowsOf
<1>9. \A pk : SomewhereSaved(pk) => SomewhereSaved(pk)'
  BY <1>1, <1>6 DEF SomewhereSaved, Holds
<1>10. ASSUME NEW g \in File, NEW n \in DOMAIN Chunks[g], Backed(g, n)',
              ~ (g = f /\ n = c)
       PROVE  Backed(g, n)
  <2>1. CASE g # f
    BY <1>1, <1>2, <1>10, <2>1 DEF Backed
  <2>2. CASE g = f
    <3>1. Chunks[f][n] \cap Chunks[f][c] = {}
      BY <1>1, <1>10, <2>2, ScriptsAssumption
    <3> QED
      BY <1>1, <1>2, <1>4, <1>10, <2>2, <3>1 DEF Backed, RowsOf
  <2> QED
    BY <2>1, <2>2
<1>11. ASSUME NEW g \in File, NEW n \in DOMAIN Chunks[g], Past(g, n)',
              ~ (g = f /\ n = c)
       PROVE  Past(g, n)
  BY <1>11, PastNext DEF BackUp, Succeeds, At
<1> QED
  BY <1>1, <1>7, <1>8, <1>9, <1>10, <1>11 DEF Safe

\* Deleting a chunk whose rows are secured loses none of them.
LEMMA DeleteSafe ==
    ASSUME TypeOK, Safe, NEW f \in File, DeleteChunk(f)
    PROVE  Safe'
<1> DEFINE c == pos[f].n
<1>1. /\ c \in DOMAIN Chunks[f] /\ Chunk(f) = Chunks[f][c]
      /\ UNCHANGED <<theirs, bak, drifted>>
      /\ Past(f, c)
  BY DEF DeleteChunk, TypeOK, Placed, At, Chunk, Succeeds, Past
<1>2. Secured(f, c)
  BY <1>1 DEF Safe
<1>3. /\ DOMAIN target' = DOMAIN target \ Deletes(f)
      /\ \A pk \in DOMAIN target' : target'[pk] = target[pk]
  BY DEF DeleteChunk
<1>4. \A g \in File : \A n \in DOMAIN Chunks[g] :
        /\ Secured(g, n) => Secured(g, n)'
        /\ Backed(g, n)' <=> Backed(g, n)
  BY <1>1, <1>3 DEF Secured, SavedBy, Holds, RowsOf, Backed
<1>5. ASSUME NEW g \in File, NEW n \in DOMAIN Chunks[g], Past(g, n)'
      PROVE  Past(g, n)
  BY <1>5, PastNext DEF DeleteChunk, Succeeds, At
<1>6. ASSUME NEW pk \in DOMAIN theirs, SomewhereSaved(pk) PROVE SomewhereSaved(pk)'
  <2>1. CASE Holds(target, pk) /\ pk \in Deletes(f)
    <3>1. pk \in RowsOf(target, Chunks[f][c]) /\ pk[1] \in Chunks[f][c]
      BY <1>1, <2>1 DEF Deletes, RowsOf
    <3>2. SavedBy(f, pk) /\ pk[1] \in Listed(f)
      BY <1>1, <1>2, <2>1, <3>1 DEF Secured, Listed
    <3> QED
      BY <1>1, <3>2 DEF SomewhereSaved, SavedBy, Holds
  <2>2. CASE Holds(target, pk) /\ pk \notin Deletes(f)
    BY <1>1, <1>3, <2>2 DEF SomewhereSaved, Holds
  <2>3. CASE ~ Holds(target, pk)
    BY <1>1, <1>6, <2>3 DEF SomewhereSaved, SavedBy, Holds
  <2> QED
    BY <2>1, <2>2, <2>3
<1> QED
  BY <1>1, <1>4, <1>5, <1>6 DEF Safe

\* A row that 03 writes is in nobody's way: if it equals one that was there,
\* that one is in the backup table.
LEMMA InsertSafe ==
    ASSUME TypeOK, Safe, InsertRow
    PROVE  Safe'
<1> DEFINE id == Inserts[pos["data"].n]
           new == <<id, Live[id].ver>>
<1>1. /\ UNCHANGED <<theirs, bak, drifted>> /\ new \notin DOMAIN target
      /\ "data" \in File /\ id \in Listed("data")
      /\ DOMAIN target' = DOMAIN target \cup {new}
      /\ \A pk \in DOMAIN target : target'[pk] = target[pk]
  BY ScriptsAssumption DEF InsertRow, Succeeds, TypeOK, Placed, At, File
<1>2. \A pk : SomewhereSaved(pk) => SomewhereSaved(pk)'
  BY <1>1 DEF SomewhereSaved, Holds, SavedBy
<1>3. ASSUME NEW g \in File, NEW n \in DOMAIN Chunks[g], Secured(g, n)
      PROVE  Secured(g, n)'
  <2>1. ASSUME NEW pk \in RowsOf(target', Chunks[g][n]),
               pk \in DOMAIN theirs, Holds(target, pk)'
        PROVE  SavedBy(g, pk)
    <3>1. CASE pk \in DOMAIN target
      BY <1>1, <1>3, <2>1, <3>1 DEF Secured, RowsOf, Holds
    <3>2. CASE pk = new
      <4>1. ~ Holds(target, pk) /\ pk \in DOMAIN theirs
        BY <1>1, <2>1, <3>2 DEF Holds
      <4>2. PICK h \in File : pk[1] \in Listed(h) /\ SavedBy(h, pk)
        BY <4>1 DEF Safe, SomewhereSaved
      <4>3. pk[1] \in Listed("data") /\ pk[1] \in Listed(g)
        BY <1>1, <2>1, <3>2 DEF RowsOf, Listed
      <4>4. g = "data" /\ h = "data"
        BY <4>2, <4>3, ScriptsAssumption DEF File
      <4> QED
        BY <4>2, <4>4
    <3> QED
      BY <1>1, <2>1, <3>1, <3>2 DEF RowsOf
  <2> QED
    BY <1>1, <2>1 DEF Secured, SavedBy, Holds, RowsOf
<1>4. \A g \in File : \A n \in DOMAIN Chunks[g] : Backed(g, n)' <=> Backed(g, n)
  BY <1>1 DEF Backed
<1>5. ASSUME NEW g \in File, NEW n \in DOMAIN Chunks[g], Past(g, n)'
      PROVE  Past(g, n)
  BY <1>1, <1>5, PastNext DEF InsertRow, Succeeds, At
<1> QED
  BY <1>1, <1>2, <1>3, <1>4, <1>5 DEF Safe

\* A write of another program is in the table, and touches no chunk of a run
\* that goes on.
LEMMA DriftSafe ==
    ASSUME SafeInv, Safe, NEW pk \in PK, Drift(pk), ~ raced',
           \A q : q # pk => /\ q \in DOMAIN target' <=> q \in DOMAIN target
                            /\ q \in DOMAIN theirs' <=> q \in DOMAIN theirs
                            /\ q \in DOMAIN target => target'[q] = target[q]
                            /\ q \in DOMAIN theirs => theirs'[q] = theirs[q],
           pk \in DOMAIN theirs' => Holds(target, pk)'
    PROVE  Safe'
<1>1. /\ UNCHANGED <<bak, pos>>
      /\ \A f \in File : pk[1] \in Listed(f) => At(f, "idle")
      /\ drifted' = [f \in File |->
                        drifted[f] \/ (pk[1] \in Listed(f) /\ runs[f] > 0)]
  BY DEF Drift
<1>2. ASSUME NEW f \in File, NEW n \in DOMAIN Chunks[f],
             Past(f, n)' \/ Backed(f, n)'
      PROVE  Secured(f, n)'
  <2>1. pk[1] \notin Listed(f)
    <3>1. CASE Past(f, n)'
      BY <1>1, <3>1 DEF Past, At
    <3>2. CASE Backed(f, n)'
      <4>1. bak[f] # NoTable /\ runs[f] > 0
        BY <1>1, <3>2 DEF Backed, SafeInv
      <4> QED
        BY <1>1, <3>2, <4>1 DEF Backed
    <3> QED
      BY <1>2, <3>1, <3>2
  <2>2. Past(f, n) \/ Backed(f, n)
    BY <1>1, <1>2 DEF Past, Backed, At
  <2>3. Secured(f, n)
    BY <2>2 DEF Safe
  <2>4. pk[1] \notin Chunks[f][n]
    BY <2>1 DEF Listed
  <2> QED
    BY <1>1, <2>3, <2>4 DEF Secured, SavedBy, Holds, RowsOf
<1>3. ASSUME NEW q \in DOMAIN theirs' PROVE SomewhereSaved(q)'
  <2>1. CASE q = pk
    BY <2>1 DEF SomewhereSaved
  <2>2. CASE q # pk
    <3>1. SomewhereSaved(q)
      BY <1>3, <2>2 DEF Safe
    <3> QED
      BY <1>1, <1>3, <2>2, <3>1 DEF SomewhereSaved, SavedBy, Holds
  <2> QED
    BY <2>1, <2>2
<1> QED
  BY <1>2, <1>3 DEF Safe

\* A failing backup that is skipped met rows that are in the backup table, or
\* had nothing to save.
LEMMA SkipSafe ==
    ASSUME TypeOK, Safe, NEW f \in File, Skip(f), ~ raced', ~ unsaved'
    PROVE  Safe'
<1>1. UNCHANGED <<target, theirs, bak, drifted>>
  BY DEF Skip
<1>2. At(f, "backup") => Secured(f, pos[f].n)
  <2> SUFFICES ASSUME At(f, "backup") PROVE Secured(f, pos[f].n)
    OBVIOUS
  <2>1. pos[f].n \in DOMAIN Chunks[f] /\ Chunk(f) = Chunks[f][pos[f].n]
    BY DEF TypeOK, Placed, At, Chunk
  <2>2. ~ drifted[f] /\ (Conflict(f) \/ RowsOf(target, Chunk(f)) = {})
    BY DEF Skip, TypeOK
  <2>3. CASE Conflict(f)
    <3>1. Backed(f, pos[f].n)
      BY <2>1, <2>2, <2>3 DEF Conflict, Backed, RowsOf
    <3> QED
      BY <2>1, <3>1 DEF Safe
  <2>4. CASE RowsOf(target, Chunk(f)) = {}
    BY <2>1, <2>4 DEF Secured
  <2> QED
    BY <2>2, <2>3, <2>4
<1>3. \A g \in File : \A n \in DOMAIN Chunks[g] :
        Past(g, n)' => Past(g, n) \/ Secured(g, n)
  <2>1. (pos[f].step \in {"create", "backup"}) \in BOOLEAN
    OBVIOUS
  <2> QED
    BY <1>2, <2>1, PastNext DEF Skip
<1> QED
  BY <1>1, <1>3, MoveSafe

LEMMA RunsStep ==
    ASSUME SafeInv, [Next]_vars
    PROVE  \A f \in File : bak'[f] # NoTable \/ pos'[f] # Idle => runs'[f] > 0
<1> DEFINE R == \A f \in File : bak'[f] # NoTable \/ pos'[f] # Idle => runs'[f] > 0
<1> USE DEF SafeInv, TypeOK
<1>1. ASSUME NEW f \in File, Begin(f) PROVE R
  BY <1>1 DEF Begin
<1>2. ASSUME NEW f \in File, ~ At(f, "idle"), pos' = [pos EXCEPT ![f] = pos'[f]],
             bak' = [bak EXCEPT ![f] = bak'[f]], UNCHANGED runs
      PROVE  R
  BY <1>2 DEF At, Idle
<1>3. ASSUME NEW f \in File, CreateBackup(f) PROVE R
  BY <1>2, <1>3 DEF CreateBackup, Succeeds, Advance, At, counters
<1>4. ASSUME NEW f \in File, BackUp(f) PROVE R
  BY <1>2, <1>4 DEF BackUp, Succeeds, Advance, At, counters
<1>5. ASSUME NEW f \in File, DeleteChunk(f) PROVE R
  BY <1>2, <1>5 DEF DeleteChunk, Succeeds, Advance, At, counters
<1>6. CASE InsertRow
  <2>1. "data" \in File /\ ~ At("data", "idle")
    BY <1>6 DEF InsertRow, At, File
  <2> QED
    BY <1>2, <1>6, <2>1 DEF InsertRow, Succeeds, Advance, counters
<1>7. ASSUME NEW f \in File, Skip(f) PROVE R
  BY <1>2, <1>7 DEF Skip, Advance, counters
<1>8. ASSUME NEW f \in File, Halt(f) PROVE R
  BY <1>2, <1>8 DEF Halt, counters
<1>9. CASE WidenTable
  BY <1>9 DEF WidenTable, counters
<1>10. ASSUME NEW pk \in PK, Drift(pk) PROVE R
  BY <1>10 DEF Drift
<1>11. CASE UNCHANGED vars
  BY <1>11 DEF vars, counters
<1> QED
  BY <1>1, <1>3, <1>4, <1>5, <1>6, <1>7, <1>8, <1>9, <1>10, <1>11
     DEF Next, OtherPuts, OtherDrops

LEMMA SafeStep ==
    ASSUME SafeInv, [Next]_vars
    PROVE  SafeInv'
<1> DEFINE Bad == raced \/ unsaved
<1>1. TypeOK /\ TypeOK'
  BY TypeStep DEF SafeInv
<1>2. raced => raced'
  BY <1>1 DEF Next, vars, Begin, CreateBackup, BackUp, DeleteChunk, InsertRow, Skip, Halt,
        WidenTable, OtherPuts, OtherDrops, Drift, Succeeds, history
<1>3. unsaved => unsaved'
  BY <1>1 DEF Next, vars, Begin, CreateBackup, BackUp, DeleteChunk, InsertRow, Skip, Halt,
        WidenTable, OtherPuts, OtherDrops, Drift, Succeeds, history
<1>4. ASSUME Safe, ~ raced', ~ unsaved' PROVE Safe'
  <2>1. ASSUME NEW f \in File, Begin(f) PROVE Safe'
    <3>1. \A g \in File : \A n \in DOMAIN Chunks[g] : Past(g, n)' => Past(g, n)
      BY <1>1, <2>1 DEF Begin, Past, At, TypeOK
    <3> QED
      BY <1>1, <1>4, <2>1, <3>1, MoveSafe DEF Begin
  <2>2. ASSUME NEW f \in File, CreateBackup(f) PROVE Safe'
    <3>1. \A g \in File : \A n \in DOMAIN Chunks[g] : Past(g, n)' => Past(g, n)
      BY <1>1, <2>2, PastNext DEF CreateBackup, Succeeds, At
    <3>2. UNCHANGED <<target, theirs, drifted>>
      BY <2>2 DEF CreateBackup, Succeeds
    <3>3. CASE bak' = bak
      BY <1>1, <1>4, <3>1, <3>2, <3>3, MoveSafe
    <3>4. CASE bak[f] = NoTable
      <4>1. /\ bak'[f].rows = <<>> /\ DOMAIN <<>> = {}
            /\ \A g \in File : g # f => bak'[g] = bak[g]
        BY <1>1, <2>2, <3>4 DEF CreateBackup, TypeOK
      <4>2. \A g \in File : \A pk : SavedBy(g, pk) => SavedBy(g, pk)'
        BY <3>2, <3>4, <4>1 DEF SavedBy, Holds
      <4>3. \A g \in File : \A n \in DOMAIN Chunks[g] :
              /\ Secured(g, n) => Secured(g, n)'
              /\ Backed(g, n)' => Backed(g, n)
        BY <3>2, <3>4, <4>1, <4>2 DEF Secured, Holds, RowsOf, Backed
      <4>4. \A pk : SomewhereSaved(pk) => SomewhereSaved(pk)'
        BY <3>2, <4>2 DEF SomewhereSaved, Holds
      <4> QED
        BY <1>4, <3>1, <3>2, <4>3, <4>4 DEF Safe
    <3> QED
      BY <2>2, <3>3, <3>4 DEF CreateBackup
  <2>3. ASSUME NEW f \in File, BackUp(f) PROVE Safe'
    BY <1>1, <1>4, <2>3, BackUpSafe
  <2>4. ASSUME NEW f \in File, DeleteChunk(f) PROVE Safe'
    BY <1>1, <1>4, <2>4, DeleteSafe
  <2>5. CASE InsertRow
    BY <1>1, <1>4, <2>5, InsertSafe
  <2>6. ASSUME NEW f \in File, Skip(f) PROVE Safe'
    BY <1>1, <1>4, <2>6, SkipSafe
  <2>7. ASSUME NEW f \in File, Halt(f) PROVE Safe'
    <3>1. \A g \in File : \A n \in DOMAIN Chunks[g] : Past(g, n)' => Past(g, n)
      BY <1>1, <2>7 DEF Halt, Past, At, TypeOK, Idle
    <3> QED
      BY <1>1, <1>4, <2>7, <3>1, MoveSafe DEF Halt, history
  <2>8. CASE WidenTable
    <3>1. \A g \in File : \A n \in DOMAIN Chunks[g] : Past(g, n)' => Past(g, n)
      BY <2>8 DEF WidenTable, Past, At
    <3> QED
      BY <1>1, <1>4, <2>8, <3>1, MoveSafe DEF WidenTable, history
  <2>9. ASSUME NEW pk \in PK, NEW row \in Row, OtherPuts(pk, row) PROVE Safe'
    BY <1>4, <2>9, DriftSafe DEF OtherPuts, With, Holds
  <2>10. ASSUME NEW pk \in PK, OtherDrops(pk) PROVE Safe'
    BY <1>4, <2>10, DriftSafe DEF OtherDrops, Without, Holds
  <2>11. CASE UNCHANGED vars
    <3>1. \A g \in File : \A n \in DOMAIN Chunks[g] : Past(g, n)' => Past(g, n)
      BY <2>11 DEF vars, Past, At
    <3> QED
      BY <1>1, <1>4, <2>11, <3>1, MoveSafe DEF vars
  <2> QED
    BY <2>1, <2>2, <2>3, <2>4, <2>5, <2>6, <2>7, <2>8, <2>9, <2>10, <2>11 DEF Next
<1> QED
  BY <1>1, <1>2, <1>3, <1>4, RunsStep DEF SafeInv

\* Recoverable for every table, key list, chunk size and number of runs.
THEOREM RemovedIsRecoverable == Spec => []Recoverable
<1>1. SafeInv => Recoverable
  BY DEF SafeInv, Safe, SomewhereSaved, Recoverable
<1> QED
  BY <1>1, SafeInit, SafeStep, PTL DEF Spec

-----------------------------------------------------------------------------
(* What a clean run leaves.                                                *)

\* The first chunks of a file are gone from the table.
Gone(f, n) ==
    \A m \in DOMAIN Chunks[f] : m < n => RowsOf(target, Chunks[f][m]) = {}

\* Of the arriving identities the table holds the first, as they are read.
Written(n) ==
    \A pk \in PK : pk[1] \in Listed("data") =>
        /\ pk \in DOMAIN target <=>
             /\ pk[2] = Live[pk[1]].ver
             /\ \E i \in DOMAIN Inserts : i < n /\ Inserts[i] = pk[1]
        /\ pk \in DOMAIN target => target[pk] = Live[pk[1]].val

\* The rest of the table is as others left it.
Rest ==
    \A pk \in PK : pk[1] \notin Listed("data") \cup Listed("delete") =>
        /\ pk \in DOMAIN target <=> pk \in DOMAIN theirs
        /\ pk \in DOMAIN target => target[pk] = theirs[pk]

EffectInv ==
    /\ TypeOK
    /\ Rest
    /\ \A f \in File :
         /\ clean[f] /\ At(f, "delete") => \A n : n = pos[f].n => Gone(f, n)
         /\ applied[f] => At(f, "idle")
    /\ clean["data"] /\ At("data", "insert")
         => \A n : n = pos["data"].n => Written(n)
    /\ applied["data"] => Written(Len(Inserts) + 1)
    /\ applied["delete"] => Gone("delete", Len(Chunks["delete"]) + 1)

LEMMA Lists ==
    /\ "data" \in File /\ "delete" \in File
    /\ \A f \in File : /\ Len(Chunks[f]) \in Nat
                       /\ DOMAIN Chunks[f] = 1 .. Len(Chunks[f])
    /\ Len(Inserts) \in Nat /\ DOMAIN Inserts = 1 .. Len(Inserts)
    /\ \A id : id \in Listed("data") <=> \E i \in DOMAIN Inserts : Inserts[i] = id
    /\ \A f \in File : \A id :
         id \in Listed(f) <=> \E n \in DOMAIN Chunks[f] : id \in Chunks[f][n]
<1>1. \A f \in File : /\ Len(Chunks[f]) \in Nat
                      /\ DOMAIN Chunks[f] = 1 .. Len(Chunks[f])
  BY ScriptsAssumption
<1>2. Len(Inserts) \in Nat /\ DOMAIN Inserts = 1 .. Len(Inserts)
  BY ScriptsAssumption
<1>3. \A id : id \in Listed("data") <=> \E i \in DOMAIN Inserts : Inserts[i] = id
  BY ScriptsAssumption
<1>4. \A f \in File : \A id :
        id \in Listed(f) <=> \E n \in DOMAIN Chunks[f] : id \in Chunks[f][n]
  BY DEF Listed
<1> QED
  BY <1>1, <1>2, <1>3, <1>4 DEF File

LEMMA EffectInit == Init => EffectInv
<1> SUFFICES ASSUME Init PROVE EffectInv
  OBVIOUS
<1>1. \A f \in File : ~ clean[f] /\ ~ applied[f]
  BY DEF Init
<1>2. Rest
  BY DEF Init, Rest
<1> QED
  BY <1>1, <1>2, TypeInit, Lists DEF EffectInv

\* The two files and other programs keep out of each other's way: what Gone
\* and Written say of a file depends on the rows of its identities only.
LEMMA Elsewhere ==
    ASSUME NEW f \in File,
           \A pk \in PK : pk[1] \in Listed(f) =>
               /\ pk \in DOMAIN target' <=> pk \in DOMAIN target
               /\ pk \in DOMAIN target => target'[pk] = target[pk],
           target \in Table, target' \in Table
    PROVE  /\ \A n : Gone(f, n) => Gone(f, n)'
           /\ f = "data" => \A n : Written(n) => Written(n)'
<1>1. DOMAIN target \subseteq PK /\ DOMAIN target' \subseteq PK
  BY TableFacts
<1> QED
  BY <1>1, Lists DEF Gone, Written, RowsOf

\* A step of a run: what it says of its own file is for the caller to show.
LEMMA RunStep ==
    ASSUME EffectInv, NEW f \in File, ~ At(f, "idle"), NEW ok \in BOOLEAN,
           Advance(f, ok), TypeOK', Rest',
           \A g \in File : g # f =>
               \A pk \in PK : pk[1] \in Listed(g) =>
                   /\ pk \in DOMAIN target' <=> pk \in DOMAIN target
                   /\ pk \in DOMAIN target => target'[pk] = target[pk],
           clean[f] /\ ok /\ At(f, "delete") => \A n : n = pos[f].n + 1 => Gone(f, n)',
           clean[f] /\ ok /\ At(f, "insert") => \A n : n = pos[f].n + 1 => Written(n)'
    PROVE  EffectInv'
<1>1. /\ pos' = [pos EXCEPT ![f] = Following(f, pos[f])]
      /\ pos'[f] = Following(f, pos[f])
      /\ \A g \in File : g # f => pos'[g] = pos[g] /\ clean'[g] = clean[g]
                                  /\ applied'[g] = applied[g]
      /\ clean'[f] <=> clean[f] /\ ok
      /\ applied'[f] <=> pos'[f] = Idle /\ clean'[f]
      /\ target \in Table /\ target' \in Table
  BY DEF EffectInv, TypeOK, Advance
<1>2. /\ pos[f] \in Position /\ Placed(f, pos[f]) /\ pos[f].step \in Step
      /\ pos[f].n \in Nat
  BY DEF EffectInv, TypeOK, At, Position
<1>3. ASSUME NEW g \in File, g # f
      PROVE  /\ clean'[g] /\ At(g, "delete")' => \A n : n = pos'[g].n => Gone(g, n)'
             /\ applied'[g] => At(g, "idle")'
             /\ g = "data" /\ clean'[g] /\ At(g, "insert")' => \A n : n = pos'[g].n => Written(n)'
             /\ g = "data" /\ applied'[g] => Written(Len(Inserts) + 1)'
             /\ g = "delete" /\ applied'[g] => Gone("delete", Len(Chunks["delete"]) + 1)'
  <2>1. /\ \A n : Gone(g, n) => Gone(g, n)'
        /\ g = "data" => \A n : Written(n) => Written(n)'
    BY <1>1, <1>3, Elsewhere
  <2>2. /\ At(g, "delete")' <=> At(g, "delete")
        /\ At(g, "insert")' <=> At(g, "insert")
        /\ At(g, "idle")' <=> At(g, "idle")
        /\ pos'[g].n = pos[g].n
    BY <1>1, <1>3 DEF At
  <2>3. /\ clean[g] /\ At(g, "delete") => \A n : n = pos[g].n => Gone(g, n)
        /\ applied[g] => At(g, "idle")
        /\ g = "data" /\ clean[g] /\ At(g, "insert") => \A n : n = pos[g].n => Written(n)
        /\ g = "data" /\ applied[g] => Written(Len(Inserts) + 1)
        /\ g = "delete" /\ applied[g] => Gone("delete", Len(Chunks["delete"]) + 1)
    BY DEF EffectInv
  <2> QED
    BY <1>1, <1>3, <2>1, <2>2, <2>3
<1>4. Gone(f, 1)'
  BY Lists DEF Gone
<1>5. Gone(f, Len(Chunks[f]) + 1)' /\ f = "data" => Written(1)'
  <2> SUFFICES ASSUME Gone(f, Len(Chunks[f]) + 1)', f = "data"
               PROVE  \A pk \in PK : pk[1] \in Listed("data") => pk \notin DOMAIN target'
    BY Lists DEF Written
  <2> QED
    BY Lists DEF Gone, RowsOf
<1>6. Following(f, pos[f]) # Idle => ~ applied'[f]
  BY <1>1
<1>7. /\ clean'[f] /\ At(f, "delete")' => \A n : n = pos'[f].n => Gone(f, n)'
      /\ applied'[f] => At(f, "idle")'
      /\ f = "data" /\ clean'[f] /\ At(f, "insert")' => \A n : n = pos'[f].n => Written(n)'
      /\ f = "data" /\ applied'[f] => Written(Len(Inserts) + 1)'
      /\ f = "delete" /\ applied'[f] => Gone("delete", Len(Chunks["delete"]) + 1)'
  <2>1. CASE At(f, "create")
    BY <1>1, <2>1 DEF At, Following, Idle
  <2>2. CASE At(f, "backup")
    <3>1. CASE pos[f].n < Len(Chunks[f])
      BY <1>1, <1>2, <2>2, <3>1 DEF At, Following, Idle
    <3>2. CASE ~ (pos[f].n < Len(Chunks[f]))
      BY <1>1, <1>2, <1>4, <2>2, <3>2 DEF At, Following, Idle
    <3> QED
      BY <3>1, <3>2
  <2>3. CASE At(f, "delete")
    <3>1. pos[f].n \in 1 .. Len(Chunks[f])
      BY <1>2, <2>3, Lists DEF Placed, At
    <3>2. CASE pos[f].n < Len(Chunks[f])
      <4>1. /\ Following(f, pos[f]) = [pos[f] EXCEPT !.n = pos[f].n + 1]
            /\ Following(f, pos[f]).step = pos[f].step
            /\ Following(f, pos[f]).n = pos[f].n + 1
        BY <1>2, <2>3, <3>2 DEF At, Following, Position
      <4>2. pos'[f].step = "delete" /\ pos'[f].n = pos[f].n + 1
        <5>1. pos'[f] = Following(f, pos[f])
          BY <1>1
        <5>2. pos[f].step = "delete"
          BY <2>3 DEF At
        <5> QED
          BY <4>1, <5>1, <5>2
      <4>4. pos'[f] # Idle
        BY <4>2 DEF Idle
      <4>3. clean'[f] => clean[f] /\ ok
        BY <1>1
      <4> QED
        BY <1>1, <2>3, <4>2, <4>3, <4>4 DEF At
    <3>3. CASE ~ (pos[f].n < Len(Chunks[f]))
      <4>1. pos[f].n = Len(Chunks[f])
        BY <3>1, <3>3, Lists
      <4>2. CASE f = "data"
        BY <1>1, <1>2, <1>5, <2>3, <3>3, <4>1, <4>2 DEF At, Following, Idle
      <4>3. CASE f # "data"
        BY <1>1, <1>2, <2>3, <3>3, <4>1, <4>3 DEF At, Following, Idle, File
      <4> QED
        BY <4>2, <4>3
    <3> QED
      BY <3>2, <3>3
  <2>4. CASE At(f, "insert")
    <3>1. f = "data" /\ pos[f].n \in 1 .. Len(Inserts)
      BY <1>2, <2>4, Lists DEF Placed, At
    <3>2. CASE pos[f].n < Len(Inserts)
      <4>1. /\ Following(f, pos[f]) = [pos[f] EXCEPT !.n = pos[f].n + 1]
            /\ Following(f, pos[f]).step = pos[f].step
            /\ Following(f, pos[f]).n = pos[f].n + 1
        BY <1>2, <2>4, <3>2 DEF At, Following, Position
      <4> QED
        BY <1>1, <2>4, <3>1, <4>1 DEF At, Idle
    <3>3. CASE ~ (pos[f].n < Len(Inserts))
      <4>1. pos[f].n = Len(Inserts)
        BY <3>1, <3>3, Lists
      <4> QED
        BY <1>1, <1>2, <2>4, <3>1, <3>3, <4>1 DEF At, Following, Idle
    <3> QED
      BY <3>2, <3>3
  <2> QED
    BY <1>2, <2>1, <2>2, <2>3, <2>4 DEF Step, At
<1>8. "data" \in File /\ "delete" \in File
  BY Lists
<1> QED
  BY <1>3, <1>7, <1>8 DEF EffectInv

\* A step that leaves the table alone says nothing new of a run: none of them
\* is a DELETE or an INSERT that succeeds.
LEMMA StillRest ==
    ASSUME Rest, UNCHANGED <<target, theirs>>
    PROVE  Rest'
  BY DEF Rest

LEMMA DeleteEffect ==
    ASSUME EffectInv, TypeOK', NEW f \in File, DeleteChunk(f)
    PROVE  EffectInv'
<1> DEFINE c == pos[f].n
<1>1. /\ c \in DOMAIN Chunks[f] /\ c \in Nat /\ Chunk(f) = Chunks[f][c]
      /\ ~ At(f, "idle") /\ Advance(f, TRUE) /\ UNCHANGED theirs
      /\ target \in Table /\ target' \in Table
      /\ At(f, "delete")
  BY DEF EffectInv, DeleteChunk, TypeOK, Placed, At, Chunk, Succeeds, Position
<1>2. /\ DOMAIN target' = DOMAIN target \ RowsOf(target, Chunks[f][c])
      /\ \A pk \in DOMAIN target' : target'[pk] = target[pk]
  BY <1>1 DEF DeleteChunk, Deletes
<1>3. \A pk \in RowsOf(target, Chunks[f][c]) : pk[1] \in Listed(f)
  BY <1>1, Lists DEF RowsOf
<1>4. \A g \in File : g # f => Listed(f) \cap Listed(g) = {}
  BY ScriptsAssumption DEF File
<1>5. Rest'
  BY <1>1, <1>2, <1>3 DEF EffectInv, Rest, File
<1>6. clean[f] => \A n : n = c + 1 => Gone(f, n)'
  <2> SUFFICES ASSUME clean[f], NEW m \in DOMAIN Chunks[f], m < c + 1
               PROVE  RowsOf(target', Chunks[f][m]) = {}
    BY DEF Gone
  <2>1. CASE m = c
    BY <1>2, <2>1 DEF RowsOf
  <2>2. CASE m # c
    <3>1. m < c /\ Gone(f, c)
      BY <1>1, <2>2, Lists DEF EffectInv
    <3> QED
      BY <1>2, <3>1 DEF Gone, RowsOf
  <2> QED
    BY <2>1, <2>2
<1>8. ~ At(f, "insert")
  BY <1>1 DEF At
<1>9. \A g \in File : g # f =>
        \A pk \in PK : pk[1] \in Listed(g) =>
            /\ pk \in DOMAIN target' <=> pk \in DOMAIN target
            /\ pk \in DOMAIN target => target'[pk] = target[pk]
  BY <1>2, <1>3, <1>4
<1> QED
  BY <1>1, <1>5, <1>6, <1>8, <1>9, RunStep

LEMMA InsertEffect ==
    ASSUME EffectInv, TypeOK', InsertRow
    PROVE  EffectInv'
<1> DEFINE c == pos["data"].n
           id == Inserts[c]
           new == <<id, Live[id].ver>>
<1>1. /\ c \in DOMAIN Inserts /\ c \in Nat
      /\ ~ At("data", "idle") /\ Advance("data", TRUE) /\ UNCHANGED theirs
      /\ target \in Table /\ target' \in Table
      /\ At("data", "insert")
  BY Lists DEF EffectInv, InsertRow, TypeOK, Placed, At, Succeeds, Position
<1>2. /\ DOMAIN target' = DOMAIN target \cup {new} /\ new \notin DOMAIN target
      /\ \A pk \in DOMAIN target : target'[pk] = target[pk]
      /\ target'[new] = Live[id].val
      /\ new[1] = id /\ new[2] = Live[id].ver
  BY DEF InsertRow
<1>3. id \in Listed("data")
  BY <1>1, Lists
<1>4. Rest'
  BY <1>1, <1>2, <1>3 DEF EffectInv, Rest
<1>5. \A g \in File : g # "data" =>
        \A pk \in PK : pk[1] \in Listed(g) =>
            /\ pk \in DOMAIN target' <=> pk \in DOMAIN target
            /\ pk \in DOMAIN target => target'[pk] = target[pk]
  <2>1. \A g \in File : g # "data" => id \notin Listed(g)
    BY <1>3, ScriptsAssumption DEF File
  <2> QED
    BY <1>2, <2>1
<1>6. clean["data"] => \A n : n = c + 1 => Written(n)'
  <2> SUFFICES ASSUME clean["data"] PROVE \A n : n = c + 1 => Written(n)'
    OBVIOUS
  <2>1. Written(c)
    BY <1>1 DEF EffectInv
  <2>2. ASSUME NEW pk \in PK, pk[1] \in Listed("data")
        PROVE  /\ pk \in DOMAIN target' <=>
                    /\ pk[2] = Live[pk[1]].ver
                    /\ \E i \in DOMAIN Inserts : i < c + 1 /\ Inserts[i] = pk[1]
               /\ pk \in DOMAIN target' => target'[pk] = Live[pk[1]].val
    <3>1. pk = <<pk[1], pk[2]>>
      BY DEF PK
    <3>2. CASE pk[1] = id
      <4>1. \E i \in DOMAIN Inserts : i < c + 1 /\ Inserts[i] = pk[1]
        BY <1>1, <3>2
      <4>2. \A i \in DOMAIN Inserts : i < c => Inserts[i] # pk[1]
        BY <1>1, <3>2, ScriptsAssumption, Lists
      <4>3. pk \notin DOMAIN target
        BY <2>1, <2>2, <4>2 DEF Written
      <4>4. pk \in DOMAIN target' <=> pk = new
        BY <1>2, <4>3
      <4>5. pk = new <=> pk[2] = Live[pk[1]].ver
        BY <3>1, <3>2
      <4> QED
        BY <1>2, <3>2, <4>1, <4>4, <4>5
    <3>3. CASE pk[1] # id
      <4>1. pk # new
        BY <1>2, <3>3
      <4>2. pk \in DOMAIN target' <=> pk \in DOMAIN target
        BY <1>2, <4>1
      <4>3. (\E i \in DOMAIN Inserts : i < c + 1 /\ Inserts[i] = pk[1])
              <=> (\E i \in DOMAIN Inserts : i < c /\ Inserts[i] = pk[1])
        BY <1>1, <3>3, Lists
      <4> QED
        BY <1>2, <2>1, <2>2, <4>2, <4>3 DEF Written
    <3> QED
      BY <3>2, <3>3
  <2> QED
    BY <2>2 DEF Written
<1>7. ~ At("data", "delete") /\ "data" \in File
  BY <1>1, Lists DEF At
<1> QED
  BY <1>1, <1>4, <1>5, <1>6, <1>7, RunStep

LEMMA DriftEffect ==
    ASSUME EffectInv, TypeOK', NEW pk \in PK, Drift(pk),
           \A q : q # pk => /\ q \in DOMAIN target' <=> q \in DOMAIN target
                            /\ q \in DOMAIN theirs' <=> q \in DOMAIN theirs
                            /\ q \in DOMAIN target => target'[q] = target[q]
                            /\ q \in DOMAIN theirs => theirs'[q] = theirs[q],
           pk \in DOMAIN target' <=> pk \in DOMAIN theirs',
           pk \in DOMAIN target' => target'[pk] = theirs'[pk]
    PROVE  EffectInv'
<1>1. /\ UNCHANGED pos
      /\ \A f \in File : /\ clean'[f] <=> clean[f] /\ pk[1] \notin Listed(f)
                         /\ applied'[f] <=> applied[f] /\ pk[1] \notin Listed(f)
      /\ target \in Table /\ target' \in Table
  BY DEF Drift, EffectInv, TypeOK
<1>2. Rest'
  BY DEF Rest, EffectInv
<1>3. ASSUME NEW f \in File, pk[1] \notin Listed(f)
      PROVE  /\ \A n : Gone(f, n) => Gone(f, n)'
             /\ f = "data" => \A n : Written(n) => Written(n)'
  <2>1. \A q \in PK : q[1] \in Listed(f) =>
          /\ q \in DOMAIN target' <=> q \in DOMAIN target
          /\ q \in DOMAIN target => target'[q] = target[q]
    BY <1>3
  <2> QED
    BY <1>1, <2>1, Elsewhere
<1>4. ASSUME NEW f \in File PROVE
        /\ clean'[f] /\ At(f, "delete")' => \A n : n = pos'[f].n => Gone(f, n)'
        /\ applied'[f] => At(f, "idle")'
  BY <1>1, <1>3 DEF EffectInv, At
<1>5. /\ clean'["data"] /\ At("data", "insert")' => \A n : n = pos'["data"].n => Written(n)'
      /\ applied'["data"] => Written(Len(Inserts) + 1)'
  BY <1>1, <1>3, Lists DEF EffectInv, At
<1>6. applied'["delete"] => Gone("delete", Len(Chunks["delete"]) + 1)'
  BY <1>1, <1>3, Lists DEF EffectInv
<1> QED
  BY <1>2, <1>4, <1>5, <1>6 DEF EffectInv

LEMMA QuietEffect ==
    ASSUME EffectInv, TypeOK', UNCHANGED <<target, theirs>>,
           \A f \in File : /\ pos'[f] = pos[f] \/ At(f, "idle")' \/ At(f, "create")'
                           /\ applied'[f] => applied[f] /\ At(f, "idle")'
                           /\ clean'[f] => clean[f] \/ At(f, "create")'
    PROVE  EffectInv'
<1>1. \A f : \A n : Gone(f, n) => Gone(f, n)'
  BY DEF Gone, RowsOf
<1>2. \A n : Written(n) => Written(n)'
  BY DEF Written
<1>3. Rest'
  BY StillRest DEF EffectInv
<1>4. \A f \in File : /\ clean'[f] /\ At(f, "delete")' => \A n : n = pos'[f].n => Gone(f, n)'
                      /\ applied'[f] => At(f, "idle")'
  <2> SUFFICES ASSUME NEW f \in File, clean'[f] /\ At(f, "delete")'
               PROVE  \A n : n = pos'[f].n => Gone(f, n)'
    OBVIOUS
  <2>1. pos'[f] = pos[f] /\ clean[f] /\ At(f, "delete")
    BY DEF At
  <2> QED
    BY <1>1, <2>1 DEF EffectInv
<1>5. clean'["data"] /\ At("data", "insert")' => \A n : n = pos'["data"].n => Written(n)'
  <2> SUFFICES ASSUME clean'["data"] /\ At("data", "insert")'
               PROVE  \A n : n = pos'["data"].n => Written(n)'
    OBVIOUS
  <2>1. pos'["data"] = pos["data"] /\ clean["data"] /\ At("data", "insert")
    BY Lists DEF At
  <2> QED
    BY <1>2, <2>1 DEF EffectInv
<1> QED
  BY <1>1, <1>2, <1>3, <1>4, <1>5, Lists DEF EffectInv

LEMMA EffectStep ==
    ASSUME EffectInv, [Next]_vars
    PROVE  EffectInv'
<1>1. TypeOK /\ TypeOK' /\ Rest
  BY TypeStep DEF EffectInv
<1>2. ASSUME NEW f \in File, NEW ok \in BOOLEAN, ~ At(f, "idle"), Advance(f, ok),
             UNCHANGED <<target, theirs>>, At(f, "delete") \/ At(f, "insert") => ~ ok
      PROVE  EffectInv'
  BY <1>1, <1>2, StillRest, RunStep
<1>3. ASSUME NEW f \in File, Begin(f) PROVE EffectInv'
  BY <1>1, <1>3, QuietEffect DEF Begin, At, TypeOK, EffectInv
<1>4. ASSUME NEW f \in File, CreateBackup(f) PROVE EffectInv'
  BY <1>2, <1>4 DEF CreateBackup, Succeeds, At
<1>5. ASSUME NEW f \in File, BackUp(f) PROVE EffectInv'
  BY <1>2, <1>5 DEF BackUp, Succeeds, At
<1>6. ASSUME NEW f \in File, DeleteChunk(f) PROVE EffectInv'
  BY <1>1, <1>6, DeleteEffect
<1>7. CASE InsertRow
  BY <1>1, <1>7, InsertEffect
<1>8. ASSUME NEW f \in File, Skip(f) PROVE EffectInv'
  <2>1. (pos[f].step \in {"create", "backup"}) \in BOOLEAN
    OBVIOUS
  <2> QED
    BY <1>2, <1>8, <2>1 DEF Skip, At
<1>9. ASSUME NEW f \in File, Halt(f) PROVE EffectInv'
  <2>1. ~ applied[f]
    BY <1>9 DEF Halt, EffectInv
  <2> QED
    BY <1>1, <1>9, <2>1, QuietEffect DEF Halt, history, At, TypeOK, Idle, EffectInv
<1>10. CASE WidenTable
  BY <1>1, <1>10, QuietEffect DEF WidenTable, history, EffectInv, At
<1>11. ASSUME NEW pk \in PK, NEW row \in Row, OtherPuts(pk, row) PROVE EffectInv'
  <2>1. /\ \A q : q # pk => /\ q \in DOMAIN target' <=> q \in DOMAIN target
                            /\ q \in DOMAIN theirs' <=> q \in DOMAIN theirs
                            /\ q \in DOMAIN target => target'[q] = target[q]
                            /\ q \in DOMAIN theirs => theirs'[q] = theirs[q]
        /\ pk \in DOMAIN target' /\ pk \in DOMAIN theirs'
        /\ target'[pk] = theirs'[pk]
    BY <1>11 DEF OtherPuts, With
  <2> QED
    BY <1>1, <1>11, <2>1, DriftEffect DEF OtherPuts
<1>12. ASSUME NEW pk \in PK, OtherDrops(pk) PROVE EffectInv'
  <2>1. /\ \A q : q # pk => /\ q \in DOMAIN target' <=> q \in DOMAIN target
                            /\ q \in DOMAIN theirs' <=> q \in DOMAIN theirs
                            /\ q \in DOMAIN target => target'[q] = target[q]
                            /\ q \in DOMAIN theirs => theirs'[q] = theirs[q]
        /\ pk \notin DOMAIN target' /\ pk \notin DOMAIN theirs'
    BY <1>12 DEF OtherDrops, Without
  <2> QED
    BY <1>1, <1>12, <2>1, DriftEffect DEF OtherDrops
<1>13. CASE UNCHANGED vars
  BY <1>1, <1>13, QuietEffect DEF vars, EffectInv, At
<1> QED
  BY <1>3, <1>4, <1>5, <1>6, <1>7, <1>8, <1>9, <1>10, <1>11, <1>12, <1>13 DEF Next

\* What the invariant says once both files have been applied.
LEMMA BothApplied ==
    ASSUME EffectInv, applied["data"], applied["delete"]
    PROVE  target = Remove(Overwrite(theirs, Listed("data"), Live, Column, Blanks),
                           Listed("delete"))
<1> DEFINE O == Overwrite(theirs, Listed("data"), Live, Column, Blanks)
           R == Remove(O, Listed("delete"))
           kept == {pk \in DOMAIN theirs : pk[1] \notin Listed("data")}
           written == {<<id, Live[id].ver>> : id \in Listed("data")}
           L(pk) == [c \in Column |-> IF c \in Column THEN Live[pk[1]].val[c]
                                      ELSE Blanks[c]]
<1>1. /\ DOMAIN target \subseteq PK /\ DOMAIN theirs \subseteq PK
      /\ target \in [DOMAIN target -> Row]
  BY TableFacts DEF EffectInv, TypeOK
<1>2. /\ Listed("data") \subseteq Id
      /\ \A id \in Listed("data") : Live[id].ver \in Version /\ Live[id].val \in Row
  BY ScriptsAssumption, Lists DEF Listed
<1>3. Written(Len(Inserts) + 1) /\ Rest /\ Gone("delete", Len(Chunks["delete"]) + 1)
  BY DEF EffectInv
<1>4. \A pk \in PK : pk[1] \in Listed("data") =>
        /\ pk \in DOMAIN target <=> pk[2] = Live[pk[1]].ver
        /\ pk \in DOMAIN target => target[pk] = Live[pk[1]].val
  BY <1>3, Lists DEF Written
<1>5. \A pk \in DOMAIN target : pk[1] \notin Listed("delete")
  BY <1>3, Lists DEF Gone, RowsOf
<1>6. Listed("data") \cap Listed("delete") = {}
  BY ScriptsAssumption
<1>7. /\ DOMAIN O = kept \cup written
      /\ \A pk \in DOMAIN O : O[pk] = IF pk \in kept THEN theirs[pk] ELSE L(pk)
  BY DEF Overwrite
<1>8. /\ DOMAIN R = {pk \in DOMAIN O : pk[1] \notin Listed("delete")}
      /\ \A pk \in DOMAIN R : R[pk] = O[pk]
      /\ R = [pk \in DOMAIN R |-> R[pk]]
  BY DEF Remove
<1>9. \A pk \in PK : pk[1] \in Listed("data") => (pk \in written <=> pk[2] = Live[pk[1]].ver)
  BY DEF PK
<1>10. \A pk \in written : pk \in PK /\ pk[1] \in Listed("data") /\ L(pk) = Live[pk[1]].val
  BY <1>2 DEF PK, Row
<1>11. DOMAIN R = DOMAIN target
  <2>1. ASSUME NEW pk \in PK PROVE pk \in DOMAIN R <=> pk \in DOMAIN target
    <3>1. CASE pk[1] \in Listed("data")
      BY <1>4, <1>6, <1>7, <1>8, <1>9, <3>1
    <3>2. CASE pk[1] \in Listed("delete")
      BY <1>5, <1>8, <3>2
    <3>3. CASE pk[1] \notin Listed("data") \cup Listed("delete")
      BY <1>3, <1>7, <1>8, <1>10, <3>3 DEF Rest
    <3> QED
      BY <3>1, <3>2, <3>3
  <2>2. DOMAIN R \subseteq PK
    BY <1>1, <1>7, <1>8, <1>10
  <2> QED
    BY <1>1, <2>1, <2>2
<1>12. ASSUME NEW pk \in DOMAIN target PROVE R[pk] = target[pk]
  <2>1. CASE pk[1] \in Listed("data")
    BY <1>1, <1>4, <1>7, <1>8, <1>10, <1>11, <2>1
  <2>2. CASE pk[1] \notin Listed("data")
    BY <1>1, <1>3, <1>5, <1>7, <1>8, <1>10, <1>11, <2>2 DEF Rest
  <2> QED
    BY <2>1, <2>2
<1> QED
  BY <1>1, <1>8, <1>11, <1>12

\* Effect for every table, key list, chunk size and number of runs: the step
\* RunScripts of SyncRounds is what the statements do.
THEOREM CleanRunsApply == Spec => []Effect
<1>1. EffectInv => Effect
  <2> SUFFICES ASSUME EffectInv PROVE Effect
    OBVIOUS
  <2>1. applied["data"] =>
          \A pk \in PK : pk[1] \in Listed("data") =>
              (pk \in DOMAIN target <=> pk[2] = Live[pk[1]].ver)
    BY Lists DEF EffectInv, Written
  <2> QED
    BY <2>1, BothApplied DEF Effect
<1> QED
  BY <1>1, EffectInit, EffectStep, PTL DEF Spec

=============================================================================
