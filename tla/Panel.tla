------------------------------- MODULE Panel -------------------------------
(***************************************************************************)
(* The panel (ui/index.html): event handlers that await answers of the     *)
(* sidecar, and between whose awaits other handlers run.  The page's       *)
(* JavaScript is single-threaded, so what happens between two awaits is    *)
(* one step.  A request is served by the sidecar in one step and answered  *)
(* in another, in any order, or fails at the panel (timeout) before or     *)
(* after it is served (and then it is not served any more).                *)
(*                                                                         *)
(* Left out: the status line and the progress bar, the detail window,      *)
(* export, reveal and copy, which change nothing else.  A condition stands *)
(* for the filters of all tables; the schema filter's box, which is always *)
(* there, only by the timer it starts.                                     *)
(***************************************************************************)
EXTENDS Naturals

CONSTANTS
    Connection, FirstConnection,
    Placeholder,     \* what the connection picker says without connections
    Database,
    Databases,       \* the databases of each connection
    Configured,      \* its default, or NoDb
    NoDb,            \* the empty entry of the database picker
    Dash,            \* what the picker says before any database was read
    Condition, Blank, NoBoxes, Saved,
    Activity,        \* handlers that can be under way at a time
    MaxSnaps, MaxClicks, MaxFails  \* bounds

ASSUME PanelAssumption ==
    /\ FirstConnection \in Connection /\ Placeholder \notin Connection
    /\ {NoDb, Dash} \cap Database = {} /\ NoDb # Dash
    /\ Databases \in [Connection -> SUBSET Database]
    /\ Configured \in [Connection -> Database \cup {NoDb}]
    /\ {Blank, Saved} \subseteq Condition /\ NoBoxes \notin Condition
    /\ Activity # {}
    /\ MaxSnaps \in Nat \ {0} /\ MaxClicks \in Nat /\ MaxFails \in Nat

Pair     == (Connection \cup {Placeholder}) \X (Database \cup {NoDb, Dash})
Snapshot == [id : 1..MaxSnaps, cond : Condition]
NoList   == [pair |-> <<Placeholder, Dash>>, snaps |-> {}]
Control  == {"create", "connection", "database", "boxes", "rest"}
Task     == {"start", "refresh", "pick", "list", "autosave", "import",
             "create", "diff", "delete"}
Request  == {"config", "info", "connections", "databases", "list", "save",
             "create", "diff", "force", "poll", "delete"}
Answer   == {"pending", "ok", "failed", "confirm", "done", "over"}

VARIABLES
    page,    \* what the panel shows and remembers
    act,     \* the handlers that are under way
    file,    \* config.json: the conditions
    store,   \* the snapshots of each connection and database
    job,     \* the sidecar's job
    entered, \* history: other conditions that the user typed or imported
    blind,   \* history: saved, or filled the boxes, without having the filters
    late,    \* history: an answer was overtaken by a later one's
    failed,  \* history: a request failed
    unpolled,\* history: a comparison's status request failed
    unheard, \* history: the panel has given up a job that is running
    opened,  \* history: since the panel was locked, a load has ended
    doubled, \* history: a job was asked for while another one's handler ran
    older,   \* history: the requests of the same kind sent before this one
    clicks, fails \* counters for the bounds

vars == <<page, act, file, store, job, entered, blind, late, failed, unpolled,
          unheard, opened, doubled, older, clicks, fails>>
backend == <<file, store, job>>

Free == [task |-> "list", pc |-> "free", pair |-> <<Placeholder, Dash>>,
         cond |-> Blank, snaps |-> {}, reply |-> "ok"]
NoJob   == [phase |-> "over", pair |-> <<Placeholder, Dash>>, cond |-> Blank]
New     == CHOOSE i \in Activity : act[i] = Free
\* Mutant of Current: what was saved last.
CurrentSaved == page.saved
\* currentFilters: what the boxes say.
Current == IF page.boxes = NoBoxes THEN Blank ELSE page.boxes
Handler(task) == [Free EXCEPT !.task = task, !.pair = <<page.conn, page.db>>,
                              !.cond = Current]
\* A request is sent.  When it is served matters only if its answer changes.
Settled == {"info", "connections", "databases"}
Asks(a, pc) ==
    [a EXCEPT !.pc = pc, !.reply = IF pc \in Settled THEN "ok" ELSE "pending"]

-----------------------------------------------------------------------------
(* What the synchronous functions do to the page.                          *)

\* beginProgress: everything but the cancel button is off.
BeginProgress(p) ==
    [p EXCEPT !.busy = TRUE, !.off = Control, !.cancel = "ready"]

\* Mutant of ResetProgress: what beginProgress turned off by name.
ResetProgressCreate(p) ==
    [p EXCEPT !.busy = FALSE, !.cancel = "hidden",
              !.off = IF p.loaded THEN @ \ {"create"} ELSE @]

\* resetProgress: the states are computed afresh, or were on before.
ResetProgress(p) ==
    [p EXCEPT !.busy = FALSE, !.cancel = "hidden",
              !.off = IF p.loaded THEN {} ELSE {"create", "connection"}]

\* saveConfig up to its request.
SaveConfig(p) == [p EXCEPT !.timer = FALSE, !.saved = Current]

\* The picker after a list of names, or after none could be had.
FillDatabases(p, c, names) ==
    LET options == names \cup ({Configured[c]} \ {NoDb})
    IN  [p EXCEPT !.offer = c, !.options = options, !.db = Configured[c],
                  !.off = IF options = {} THEN @ ELSE @ \ {"database"}]

-----------------------------------------------------------------------------
(* Handlers: what follows an answer, up to the next await.                 *)

\* Handler i goes on as a, on page p; the order of requests is noted.
Raced == {"save", "databases", "list"}
Become(i, a, p) ==
    /\ page' = p
    /\ act' = [act EXCEPT ![i] = a]
Overtakes(i) == act[i].pc \in Raced /\ older[i] # {}
Track ==
    older' = [i \in Activity |->
        IF act'[i].pc \in Raced /\ act'[i].pc # act[i].pc
        THEN {j \in Activity \ {i} : act'[j].pc = act'[i].pc}
        ELSE {j \in older[i] : act'[j].pc = act[j].pc /\ act'[i].pc = act[i].pc}]

\* Mutant of Ends: every handler unlocks the panel.
EndsUnlocking(i, a, p) == Become(i, Free, ResetProgress(p))

\* The end of a handler; pollJob's handlers unlock the panel.
Ends(i, a, p) ==
    Become(i, Free, IF a.task \in {"create", "diff"} THEN ResetProgress(p) ELSE p)

\* Mutant of LoadSnapshots: the pair of the beginning of the handler.
LoadSnapshotsOf(i, a, p) ==
    IF a.pair[2] = NoDb
    THEN Ends(i, a, [p EXCEPT !.shown = NoList])
    ELSE Become(i, Asks(a, "list"), p)

\* loadSnapshots, for the selection of this moment.
LoadSnapshots(i, a, p) ==
    IF p.db = NoDb
    THEN Ends(i, a, [p EXCEPT !.shown = NoList])
    ELSE Become(i, Asks([a EXCEPT !.pair = <<p.conn, p.db>>], "list"), p)

\* The list follows the pickers; at the start also the boxes (Promise.all).
Loaded(i, a, p) ==
    IF a.task = "start" /\ \E j \in Activity \ {i} : act[j].task = "start"
    THEN Become(i, Free, p)
    ELSE LoadSnapshots(i, a, p)

ConfigRead(i, r) ==
    /\ act[i].pc = "config"
    /\ \E j \in Activity \ {i} :
         /\ act[j] = Free
         /\ act' = [act EXCEPT ![i] = Asks(Handler("start"), "info"),
                               ![j] = Asks(Handler("start"), "connections")]
    /\ page' = [page EXCEPT !.saved = IF r = "failed" THEN @ ELSE act[i].cond,
                            !.off = @ \cup {"connection"}]

\* Mutant of InfoRead: the boxes start empty.
InfoReadEmpty(i, r) ==
    /\ act[i].pc = "info"
    /\ Loaded(i, act[i],
         IF r = "failed" THEN page
         ELSE [page EXCEPT !.boxes = Blank, !.off = @ \ {"boxes"}])

\* loadHostInfo: the boxes are built, also while a job has the panel locked.
InfoRead(i, r) ==
    /\ act[i].pc = "info"
    /\ Loaded(i, act[i],
         IF r = "failed" THEN page
         ELSE [page EXCEPT !.boxes = page.saved, !.off = @ \ {"boxes"}])

ConnectionsRead(i, r) ==
    LET a == act[i]
        p == [page EXCEPT !.conn = FirstConnection, !.loaded = TRUE,
                          !.off = (@ \ {"connection", "create"}) \cup {"database"}]
        q == [page EXCEPT !.conn = Placeholder]
    IN  /\ a.pc = "connections"
        /\ IF r # "failed"
           THEN Become(i, Asks([a EXCEPT !.pair = <<p.conn, p.db>>], "databases"), p)
           ELSE Loaded(i, a, q)

\* loadDatabases after its request: for the connection it was called with.
DatabasesRead(i, r) ==
    LET a == act[i]
        p == FillDatabases(page, a.pair[1],
                 IF r = "failed" THEN {} ELSE Databases[a.pair[1]])
    IN  /\ a.pc = "databases"
        /\ Loaded(i, a, p)

ListRead(i, r) ==
    LET a == act[i]
    IN  /\ a.pc = "list"
        /\ Ends(i, a, [page EXCEPT !.shown =
               IF r = "failed" THEN NoList
               ELSE [pair |-> a.pair, snaps |-> a.snaps]])

\* saveConfig has returned: a snapshot takes what the panel says now, a
\* comparison what it said at the click.
ConfigSaved(i, r) ==
    LET a == act[i]
    IN  /\ a.pc = "save"
        /\ CASE a.task = "create" ->
                  Become(i, Asks(Handler("create"), "create"), BeginProgress(page))
             [] a.task = "diff" -> Become(i, Asks(a, "diff"), BeginProgress(page))
             [] OTHER -> Become(i, Free, page)

\* A dialog replaces the one that was open, whose handler never hears of it.
OpenDialog(i, a, p) ==
    /\ page' = p
    /\ act' = [j \in Activity |->
                 IF j = i THEN [a EXCEPT !.pc = "confirm", !.reply = "ok"]
                 ELSE IF act[j].pc = "confirm" THEN Free ELSE act[j]]

JobStarted(i, r) ==
    LET a == act[i]
    IN  /\ a.pc \in {"create", "diff", "force"}
        /\ CASE r = "failed"  -> Become(i, Free, ResetProgress(page))
             [] r = "confirm" -> OpenDialog(i, a, ResetProgress(page))
             [] OTHER         -> Become(i, Asks(a, "poll"), page)

\* Mutant of Polled: a job that did not end well leaves the panel as it is.
PolledDoneOnly(i, r) ==
    LET a == act[i]
    IN  /\ a.pc = "poll"
        /\ CASE r = "done"    -> LoadSnapshots(i, a, page)
             [] OTHER         -> Become(i, Free, page)

\* pollJob.  runJob catches its failure, runDiff does not.
Polled(i, r) ==
    LET a == act[i]
    IN  /\ a.pc = "poll"
        /\ CASE r = "done"    -> LoadSnapshots(i, a, page)
             [] r = "failed" /\ a.task = "diff" -> Become(i, Free, page)
             [] OTHER         -> Ends(i, a, page)

Deleted(i, r) ==
    LET a == act[i]
    IN  /\ a.pc = "delete"
        /\ IF r = "failed" THEN Become(i, Free, page) ELSE LoadSnapshots(i, a, page)

\* The failures after which a handler unlocks the panel without having seen the
\* end of its job (runJob; runDiff, before it polls).
GivesUp(a, r) ==
    /\ r = "failed"
    /\ a.pc \in {"create", "diff", "force"} \/ (a.pc = "poll" /\ a.task = "create")

\* What the history notes when an answer is used.
Continue(i, r) ==
    /\ \/ ConfigRead(i, r)    \/ InfoRead(i, r)    \/ ConnectionsRead(i, r)
       \/ DatabasesRead(i, r) \/ ListRead(i, r)    \/ ConfigSaved(i, r)
       \/ JobStarted(i, r)    \/ Polled(i, r)      \/ Deleted(i, r)
    /\ Track
    /\ blind' = (blind \/ (act[i].pc = "config" /\ r = "failed"))
    /\ late' = \/ late
               \/ Overtakes(i) /\ act[i].pc # "save"
               \/ /\ page'.db = NoDb /\ act'[i] = Free
                  /\ \E j \in Activity \ {i} : act[j].pc = "list"
    /\ unpolled' = (unpolled \/ (act[i].pc = "poll" /\ act[i].task = "diff" /\ r = "failed"))
    /\ unheard' = (unheard \/ (job.phase = "running" /\ GivesUp(act[i], r)))
    /\ opened' = (page'.busy /\ (opened \/ act[i].pc \in Settled))
    /\ doubled' = (doubled \/ (page.busy /\ act'[i].pc \in {"create", "diff"}))
    /\ UNCHANGED <<backend, entered, clicks>>

Answered(i) ==
    /\ act[i].pc \in Request /\ act[i].reply # "pending"
    /\ Continue(i, act[i].reply)
    /\ failed' = (failed \/ act[i].reply = "failed")
    /\ UNCHANGED fails

\* The request times out at the panel.
TimesOut(i) ==
    /\ act[i].pc \in Request /\ fails < MaxFails
    /\ Continue(i, "failed")
    /\ failed' = TRUE /\ fails' = fails + 1

-----------------------------------------------------------------------------
(* The sidecar.                                                            *)

Reply(i, r) == act' = [act EXCEPT ![i].reply = r]

ServeConfig(i) ==
    /\ act[i].pc = "config"
    /\ act' = [act EXCEPT ![i].reply = "ok", ![i].cond = file.cond]
    /\ UNCHANGED <<backend, late>>

\* config/save replaces the whole file; the panel sends no cliPath.
ServeSave(i) ==
    /\ act[i].pc = "save"
    /\ file' = [cond |-> act[i].cond]
    /\ late' = (late \/ Overtakes(i))
    /\ Reply(i, "ok")
    /\ UNCHANGED <<store, job>>

ServeList(i) ==
    /\ act[i].pc = "list"
    /\ act' = [act EXCEPT ![i].reply = "ok", ![i].snaps = store[act[i].pair]]
    /\ UNCHANGED <<backend, late>>

\* snapshot/create and diff/run: refused, a question, or a job.
ServeStart(i) ==
    LET a == act[i]
        unknown == IF a.pc = "create" THEN a.pair[1] = Placeholder \/ a.pair[2] = NoDb
                   ELSE ~ a.snaps \subseteq store[a.pair]
        asks == a.pc = "diff" /\ \E s \in a.snaps : s.cond # a.cond
    IN  /\ a.pc \in {"create", "diff", "force"}
        /\ IF ~ unknown /\ ~ asks /\ job.phase # "running"
           THEN /\ job' = [phase |-> "running", pair |-> a.pair, cond |-> a.cond]
                /\ Reply(i, "ok")
           ELSE /\ Reply(i, IF ~ unknown /\ asks THEN "confirm" ELSE "failed")
                /\ UNCHANGED job
        /\ UNCHANGED <<file, store, late>>

\* An answer that the job is running moves the progress bar, and the panel
\* asks again: only the last one counts.
ServeStatus(i) ==
    /\ act[i].pc = "poll" /\ job.phase # "running"
    /\ Reply(i, job.phase)
    /\ UNCHANGED <<backend, late>>

ServeDelete(i) ==
    LET a == act[i]
    IN  /\ a.pc = "delete"
        /\ store' = [store EXCEPT ![a.pair] = @ \ a.snaps]
        /\ Reply(i, IF a.snaps \subseteq store[a.pair] THEN "ok" ELSE "failed")
        /\ UNCHANGED <<file, job, late>>

Serve(i) ==
    /\ act[i].reply = "pending"
    /\ \/ ServeConfig(i) \/ ServeSave(i)   \/ ServeList(i)
       \/ ServeStart(i)  \/ ServeStatus(i) \/ ServeDelete(i)
    /\ UNCHANGED <<page, entered, blind, failed, unpolled, unheard, opened, doubled,
                   older, clicks, fails>>

\* The job ends: with a snapshot of its own if the database exists, or
\* failed, cancelled, or gone with the sidecar.
Taken == {s.id : s \in UNION {store[p] : p \in Pair}}
JobEnds ==
    /\ job.phase = "running"
    /\ \/ /\ job.pair[1] \in Connection
          /\ job.pair[2] \in Databases[job.pair[1]]
          /\ \E n \in 1..MaxSnaps \ Taken :
               /\ \A m \in Taken : m < n
               /\ store' = [store EXCEPT ![job.pair] =
                              @ \cup {[id |-> n, cond |-> job.cond]}]
          /\ job' = [NoJob EXCEPT !.phase = "done"]
       \/ job' = NoJob /\ UNCHANGED store
    /\ unheard' = FALSE
    /\ UNCHANGED <<page, act, file, entered, blind, late, failed, unpolled, opened,
                   doubled, older, clicks, fails>>

-----------------------------------------------------------------------------
(* The user.                                                               *)

\* A click on a control that is on, with no dialog over the page.
Click(control) ==
    /\ clicks < MaxClicks
    /\ clicks' = clicks + 1
    /\ control \notin page.off
    /\ \A i \in Activity : act[i].pc \notin {"confirm", "picker"}
    /\ UNCHANGED <<backend, failed, unpolled, unheard, opened, doubled, fails>>

\* A new handler runs up to its first await.
Starts(a, p) ==
    /\ \E i \in Activity : act[i] = Free
    /\ Become(New, a, p)
    /\ Track

Saves(a, p) ==
    /\ Starts(Asks(a, "save"), p)
    /\ blind' = (blind \/ page.boxes = NoBoxes)

Type(c) ==
    /\ Click("boxes")
    /\ page.boxes \notin {NoBoxes, c}
    /\ page' = [page EXCEPT !.boxes = c, !.timer = TRUE]
    /\ entered' = entered \cup ({c} \ {Saved})
    /\ UNCHANGED <<act, blind, late, older>>

\* The schema filter's box is there from the beginning.
TypeSchema ==
    /\ Click("rest")
    /\ page' = [page EXCEPT !.timer = TRUE]
    /\ UNCHANGED <<act, entered, blind, late, older>>

\* 600 ms after the last key.
TimerFires ==
    /\ page.timer
    /\ Saves(Handler("autosave"), SaveConfig(page))
    /\ UNCHANGED <<backend, entered, late, failed, unpolled, unheard, opened, doubled,
                   clicks, fails>>

PickConnection(c) ==
    /\ Click("connection")
    /\ page.conn # Placeholder /\ c # page.conn
    /\ LET p == [page EXCEPT !.conn = c, !.off = @ \cup {"database"}]
       IN  Starts(Asks([Handler("pick") EXCEPT !.pair[1] = c], "databases"), p)
    /\ UNCHANGED <<entered, blind, late>>

\* A handler that does no more than load the list.
Lists(p) ==
    /\ \E i \in Activity : act[i] = Free
    /\ LoadSnapshots(New, Handler("list"), p)
    /\ Track
    /\ late' = (late \/ (p.db = NoDb /\ \E j \in Activity : act[j].pc = "list"))
    /\ UNCHANGED <<entered, blind>>

\* The picker has an empty entry if the connection has no default.
Entries ==
    page.options \cup {d \in {NoDb} : page.offer \in Connection /\ Configured[page.offer] = d}

PickDatabase(d) ==
    /\ Click("database")
    /\ d \in Entries \ {page.db}
    /\ Lists([page EXCEPT !.db = d])

ClickReload == Click("rest") /\ Lists(page)

ClickRefresh ==
    /\ Click("rest")
    /\ Starts(Asks(Handler("refresh"), "connections"),
              [page EXCEPT !.off = @ \cup {"connection"}])
    /\ UNCHANGED <<entered, blind, late>>

\* Without a database: requireDatabase's dialog, and nothing more.
ClickCreate ==
    /\ Click("create")
    /\ page.db # NoDb
    /\ Saves(Handler("create"), SaveConfig(page))
    /\ UNCHANGED <<entered, late>>

\* The id is the row's, the connection and database are the selection's.
ClickCompare(s) ==
    /\ Click("rest")
    /\ page.db # NoDb
    /\ Saves([Handler("diff") EXCEPT !.snaps = {s}], SaveConfig(page))
    /\ UNCHANGED <<entered, late>>

\* All three are those of the row.
ClickDelete(s) ==
    /\ Click("rest")
    /\ Starts([Handler("delete") EXCEPT !.pc = "confirm", !.snaps = {s},
                                        !.pair = page.shown.pair], page)
    /\ UNCHANGED <<entered, blind, late>>

ClickImport ==
    /\ Click("rest")
    /\ Starts([Handler("import") EXCEPT !.pc = "picker"], page)
    /\ UNCHANGED <<entered, blind, late>>

ClickCancel ==
    /\ page.cancel = "ready"
    /\ \A i \in Activity : act[i].pc \notin {"confirm", "picker"}
    /\ page' = [page EXCEPT !.cancel = "asked"]
    /\ UNCHANGED <<act, backend, entered, blind, late, failed, unpolled, unheard, opened,
                   doubled, older, clicks, fails>>

\* applyConditions, saveConfig.
Apply(i, c) ==
    LET p == [page EXCEPT !.boxes = IF @ = NoBoxes THEN NoBoxes ELSE c,
                          !.saved = IF page.boxes = NoBoxes THEN Blank ELSE c,
                          !.timer = FALSE]
    IN  /\ Become(i, Asks([act[i] EXCEPT !.cond = p.saved], "save"), p)
        /\ entered' = entered \cup ({c} \ {Saved})
        /\ blind' = (blind \/ page.boxes = NoBoxes)

\* A file was picked: nothing to do, a question if something is overwritten.
FilePicked(i, c) ==
    /\ act[i].pc = "picker"
    /\ IF page.boxes = c
       THEN Become(i, Free, page) /\ UNCHANGED <<entered, blind>>
       ELSE IF Current # Blank
       THEN /\ OpenDialog(i, [act[i] EXCEPT !.cond = c], page)
            /\ UNCHANGED <<entered, blind>>
       ELSE Apply(i, c)
    /\ Track
    /\ UNCHANGED <<backend, late, failed, unpolled, unheard, opened, doubled, clicks,
                   fails>>

\* A dialog is answered.
Refuses(i) ==
    /\ act[i].pc = "confirm"
    /\ Become(i, Free, page)
    /\ Track
    /\ UNCHANGED <<backend, entered, blind, late, failed, unpolled, unheard, opened,
                   doubled, clicks, fails>>

Confirms(i) ==
    /\ act[i].pc = "confirm"
    /\ CASE act[i].task = "delete" ->
              Become(i, Asks(act[i], "delete"), page) /\ UNCHANGED <<entered, blind>>
         [] act[i].task = "diff" ->
              /\ Become(i, Asks(act[i], "force"), BeginProgress(page))
              /\ UNCHANGED <<entered, blind>>
         [] OTHER -> Apply(i, act[i].cond)
    /\ Track
    /\ doubled' = (doubled \/ (page.busy /\ act[i].task = "diff"))
    /\ UNCHANGED <<backend, late, failed, unpolled, unheard, opened, clicks, fails>>

User ==
    \/ \E c \in Condition : Type(c)
    \/ TypeSchema
    \/ \E c \in Connection : PickConnection(c)
    \/ \E d \in Database \cup {NoDb} : PickDatabase(d)
    \/ ClickReload \/ ClickRefresh \/ ClickCreate \/ ClickImport \/ ClickCancel
    \/ \E s \in page.shown.snaps : ClickCompare(s) \/ ClickDelete(s)
    \/ \E i \in Activity :
         \/ \E c \in Condition : FilePicked(i, c)
         \/ Refuses(i)
         \/ Confirms(i)

-----------------------------------------------------------------------------

Init ==
    /\ page = [conn |-> Placeholder, loaded |-> FALSE, offer |-> Placeholder,
               options |-> {}, db |-> Dash, boxes |-> NoBoxes, saved |-> Blank,
               timer |-> FALSE, off |-> {"create"}, busy |-> FALSE,
               cancel |-> "hidden", shown |-> NoList]
    /\ act = [i \in Activity |-> IF i = (CHOOSE j \in Activity : TRUE)
                                 THEN [Free EXCEPT !.task = "start", !.pc = "config",
                                                   !.reply = "pending"]
                                 ELSE Free]
    /\ file = [cond |-> Saved]
    /\ store = [p \in Pair |->
                  IF p = <<FirstConnection, Configured[FirstConnection]>>
                  THEN {[id |-> 1, cond |-> Saved]} ELSE {}]
    /\ job = NoJob
    /\ entered = {}
    /\ blind = FALSE /\ late = FALSE /\ failed = FALSE /\ unpolled = FALSE
    /\ unheard = FALSE /\ opened = FALSE /\ doubled = FALSE
    /\ older = [i \in Activity |-> {}]
    /\ clicks = 0 /\ fails = 0

Next ==
    \/ \E i \in Activity : Serve(i) \/ Answered(i) \/ TimesOut(i)
    \/ JobEnds
    \/ TimerFires
    \/ User

\* Requests are served and answered, in whatever order, and jobs end; nothing
\* is asked of users.
Fairness ==
    WF_vars(JobEnds \/ \E i \in Activity : Serve(i) \/ Answered(i))

Spec == Init /\ [][Next]_vars /\ Fairness

-----------------------------------------------------------------------------
(* Properties.                                                             *)

\* Every variable keeps its type, and in a panel that is not busy no control is
\* off but the pickers and the create button, which the loads turn off.
TypeOK ==
    /\ page \in [conn : Connection \cup {Placeholder}, loaded : BOOLEAN,
                 offer : Connection \cup {Placeholder}, options : SUBSET Database,
                 db : Database \cup {NoDb, Dash},
                 boxes : Condition \cup {NoBoxes}, saved : Condition,
                 timer : BOOLEAN, off : SUBSET Control, busy : BOOLEAN,
                 cancel : {"hidden", "ready", "asked"},
                 shown : [pair : Pair, snaps : SUBSET Snapshot]]
    /\ act \in [Activity ->
                 [task : Task, pc : Request \cup {"free", "confirm", "picker"},
                  pair : Pair, cond : Condition, snaps : SUBSET Snapshot,
                  reply : Answer]]
    /\ file \in [cond : Condition]
    /\ store \in [Pair -> SUBSET Snapshot]
    /\ job \in [phase : {"running", "done", "over"}, pair : Pair, cond : Condition]
    /\ entered \subseteq Condition
    /\ {blind, late, failed, unpolled, unheard, opened, doubled} \subseteq BOOLEAN
    /\ older \in [Activity -> SUBSET Activity]
    /\ clicks \in 0..MaxClicks /\ fails \in 0..MaxFails
    /\ page.busy => page.cancel # "hidden"
    /\ ~ page.busy => page.off \cap {"boxes", "rest"} = {}

AtRest ==
    /\ \A i \in Activity : act[i].pc = "free"
    /\ ~ page.timer
    /\ job.phase # "running"

\* At rest the panel shows the selection: the databases on offer are those of
\* the connection, and the list has the snapshots of connection and database,
\* whatever was clicked while what was under way -- as long as no request
\* failed and no answer was overtaken by a later one's, which the panel does
\* not notice (loadSnapshots, loadDatabases).
ShowsSelection ==
    (AtRest /\ ~ failed /\ ~ late /\ ~ doubled) =>
        /\ page.offer = page.conn
        /\ page.db \in page.options \cup {NoDb}
        /\ page.shown =
             IF page.db = NoDb THEN NoList
             ELSE [pair  |-> <<page.conn, page.db>>,
                   snaps |-> store[<<page.conn, page.db>>]]

\* At rest config.json has what is in the boxes (under the same conditions):
\* no edit is lost between the timer, the import and the saves that jobs do.
SavesBoxes ==
    (AtRest /\ ~ failed /\ ~ late /\ ~ blind) => file.cond = page.boxes

\* Saved conditions are replaced by what the user entered and by nothing else,
\* unless they were saved while the boxes were missing, or built from nothing.
KeepsConditions == blind \/ file.cond \in entered \cup {Saved}

\* From the request for a job until the job has ended, everything but the cancel
\* button is off (README.md, "除「取消」外的所有按钮和输入框都会被禁用").  Three things
\* undo this: a request of the job's handler that fails while the job runs
\* (unheard; LockedToTheEnd), a load that ends meanwhile and turns pickers, boxes
\* and the create button on (opened), and a second job that is clicked in the time
\* it takes to save the configuration (doubled).
Locked ==
    LET asked   == \E i \in Activity : act[i].pc \in {"create", "diff", "force", "poll"}
        running == job.phase = "running" /\ ~ unheard
    IN  (~ doubled /\ (asked \/ running)) =>
            /\ page.busy /\ "rest" \in page.off /\ page.cancel # "hidden"
            /\ ~ opened => page.off = Control

\* README.md, "任务结束后按各自的正常状态恢复": while a job runs, whatever becomes of
\* the panel's requests, the panel is not given back.
LockedToTheEnd == (job.phase = "running" /\ ~ doubled) => page.busy

\* The panel is unlocked in the end (README.md, "任务结束后按各自的正常状态恢复"),
\* unless a comparison's status request fails, which runDiff does not catch.
Unlocks == page.busy ~> (~ page.busy \/ unpolled)

\* README.md: "不会用别的库凑合".  A snapshot is asked of a database that was
\* picked among those of its connection.
AskedAsPicked ==
    [][\A i \in Activity :
         (act[i].pc = "save" /\ act'[i].pc = "create")
            => page.db = Dash \/ page.offer = page.conn]_vars

=============================================================================
