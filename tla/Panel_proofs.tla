---------------------------- MODULE Panel_proofs ----------------------------
(***************************************************************************)
(* What the panel shows and keeps, for any number of handlers between two  *)
(* awaits, connections, databases, conditions, clicks and failures: its    *)
(* types, the lock, the conditions and the selection.  The lemma XTyped is *)
(* about the types after action X, XMoves about what X changes of what the *)
(* invariants look at.                                                     *)
(***************************************************************************)
EXTENDS Panel, TLAPS

-----------------------------------------------------------------------------
(* Types.                                                                  *)

PageType ==
    [conn : Connection \cup {Placeholder}, loaded : BOOLEAN,
     offer : Connection \cup {Placeholder}, options : SUBSET Database,
     db : Database \cup {NoDb, Dash},
     boxes : Condition \cup {NoBoxes}, saved : Condition,
     timer : BOOLEAN, off : SUBSET Control, busy : BOOLEAN,
     cancel : {"hidden", "ready", "asked"},
     shown : [pair : Pair, snaps : SUBSET Snapshot]]

HandlerType ==
    [task : Task, pc : Request \cup {"free", "confirm", "picker"},
     pair : Pair, cond : Condition, snaps : SUBSET Snapshot, reply : Answer]

\* A page in which the lock and the cancel button go together.
PageOK(p) ==
    /\ p \in PageType
    /\ p.busy => p.cancel # "hidden" /\ "rest" \in p.off
    /\ ~ p.busy => p.off \cap {"boxes", "rest"} = {}

\* Which handlers send which requests, and the answers these can get.
HandlerOK(a) ==
    /\ a \in HandlerType
    /\ a.pc = "free" => a = Free
    /\ a.pc \in {"config", "info"} => a.task = "start"
    /\ a.pc = "connections" => a.task \in {"start", "refresh"}
    /\ a.pc = "databases" =>
         a.task \in {"start", "refresh", "pick"} /\ a.pair[1] \in Connection
    /\ a.pc \in {"info", "connections", "databases"} => a.reply = "ok"
    /\ a.pc \in {"config", "save", "list"} => a.reply \in {"pending", "ok"}
    /\ a.pc = "list" => a.task \notin {"autosave", "import"}
    /\ a.pc = "save" => a.task \in {"create", "diff", "autosave", "import"}
    /\ a.pc = "create" => a.task = "create"
    /\ a.pc \in {"diff", "force"} => a.task = "diff"
    /\ a.pc \in {"create", "force"} => a.reply \in {"pending", "ok", "failed"}
    /\ a.pc = "diff" => a.reply \in {"pending", "ok", "failed", "confirm"}
    /\ a.pc = "poll" => /\ a.task \in {"create", "diff"}
                        /\ a.reply \in {"pending", "done", "over"}
    /\ a.pc = "delete" => /\ a.task = "delete"
                          /\ a.reply \in {"pending", "ok", "failed"}
    /\ a.pc = "confirm" => a.task \in {"delete", "diff", "import"}
    /\ a.pc = "picker" => a.task = "import"

HandlerSet == {a \in HandlerType : HandlerOK(a)}

BackendOK ==
    /\ file \in [cond : Condition]
    /\ store \in [Pair -> SUBSET Snapshot]
    /\ job \in [phase : {"running", "done", "over"}, pair : Pair, cond : Condition]

HistoryOK ==
    /\ entered \subseteq Condition
    /\ {blind, late, failed, unpolled, unheard, opened, doubled} \subseteq BOOLEAN
    /\ older \in [Activity -> SUBSET Activity]
    /\ clicks \in 0..MaxClicks /\ fails \in 0..MaxFails

TypeInv ==
    PageOK(page) /\ act \in [Activity -> HandlerSet] /\ BackendOK /\ HistoryOK

-----------------------------------------------------------------------------
(* The pieces the handlers are made of.                                    *)

LEMMA ConstantTypes ==
    /\ Free \in HandlerSet /\ NoList \in [pair : Pair, snaps : SUBSET Snapshot]
    /\ <<Placeholder, Dash>> \in Pair
    /\ \A c \in Connection \cup {Placeholder}, d \in Database \cup {NoDb, Dash} :
         <<c, d>> \in Pair
    /\ \A q \in Pair : q[1] \in Connection \cup {Placeholder}
<1>1. <<Placeholder, Dash>> \in Pair /\ Blank \in Condition
  BY PanelAssumption DEF Pair
<1>2. Free \in HandlerType
  BY <1>1 DEF Free, HandlerType, Task, Answer
<1>3. Free \in HandlerSet
  BY <1>2 DEF HandlerSet, HandlerOK, Free
<1> QED
  BY <1>1, <1>3 DEF NoList, Pair

LEMMA TupleUpdate ==
    ASSUME NEW a, NEW b, NEW c
    PROVE  [<<a, b>> EXCEPT ![1] = c] = <<c, b>>
  OBVIOUS

LEMMA HandlerFields ==
    ASSUME PageOK(page), NEW t \in Task
    PROVE  /\ Handler(t) \in HandlerType
           /\ Handler(t).task = t /\ Handler(t).pc = "free"
           /\ Handler(t).cond = Current /\ Current \in Condition
           /\ Handler(t).pair = <<page.conn, page.db>>
           /\ Handler(t).snaps = {} /\ Handler(t).reply = "ok"
<1>1. Current \in Condition
  BY PanelAssumption DEF Current, PageOK, PageType
<1>2. <<page.conn, page.db>> \in Pair
  BY DEF PageOK, PageType, Pair
<1>3. Free \in HandlerType /\ Free.pc = "free" /\ Free.snaps = {} /\ Free.reply = "ok"
  BY ConstantTypes DEF HandlerSet, Free
<1> QED
  BY <1>1, <1>2, <1>3 DEF Handler, HandlerType

LEMMA AsksFields ==
    ASSUME NEW a \in HandlerType, NEW pc \in Request
    PROVE  /\ Asks(a, pc) \in HandlerType
           /\ Asks(a, pc).pc = pc /\ Asks(a, pc).task = a.task
           /\ Asks(a, pc).pair = a.pair /\ Asks(a, pc).cond = a.cond
           /\ Asks(a, pc).snaps = a.snaps
           /\ Asks(a, pc).reply = IF pc \in Settled THEN "ok" ELSE "pending"
  BY DEF Asks, HandlerType, Answer

\* What only locks and unlocks the page shows the same.
SameShown(p, q) ==
    /\ q.conn = p.conn /\ q.db = p.db /\ q.boxes = p.boxes
    /\ q.saved = p.saved /\ q.timer = p.timer /\ q.shown = p.shown
    /\ q.offer = p.offer /\ q.options = p.options /\ q.loaded = p.loaded

LEMMA PageEdits ==
    ASSUME NEW p, PageOK(p)
    PROVE  /\ PageOK(BeginProgress(p)) /\ BeginProgress(p).busy
           /\ SameShown(p, BeginProgress(p))
           /\ PageOK(ResetProgress(p)) /\ ~ ResetProgress(p).busy
           /\ SameShown(p, ResetProgress(p))
<1>1. p \in PageType
  BY DEF PageOK
<1> DEFINE b == BeginProgress(p)
           r == ResetProgress(p)
<1>2. /\ b \in PageType /\ b.busy = TRUE /\ b.off = Control /\ b.cancel = "ready"
      /\ SameShown(p, b)
  BY <1>1 DEF PageType, BeginProgress, SameShown
<1>3. /\ r \in PageType /\ r.busy = FALSE /\ SameShown(p, r)
      /\ r.off \subseteq {"create", "connection"}
  BY <1>1 DEF PageType, ResetProgress, SameShown, Control
<1>4. PageOK(b)
  BY <1>2 DEF PageOK, Control
<1>5. PageOK(r)
  BY <1>3 DEF PageOK
<1> QED
  BY <1>2, <1>3, <1>4, <1>5

Typed == PageOK(page) /\ act \in [Activity -> HandlerSet]

LEMMA BecomeTyped ==
    ASSUME Typed, NEW i \in Activity, NEW a \in HandlerSet, NEW p, PageOK(p),
           Become(i, a, p)
    PROVE  Typed'
  BY DEF Typed, Become

LEMMA HandlerIn ==
    ASSUME Typed, NEW i \in Activity
    PROVE  act[i] \in HandlerType /\ HandlerOK(act[i])
  BY DEF Typed, HandlerSet

LEMMA EndsTyped ==
    ASSUME Typed, NEW i \in Activity, NEW a, NEW p, PageOK(p), Ends(i, a, p)
    PROVE  Typed'
  BY BecomeTyped, ConstantTypes, PageEdits DEF Ends

\* A page with another list is as well locked as before.
LEMMA ShownOK ==
    ASSUME NEW p, PageOK(p), NEW l \in [pair : Pair, snaps : SUBSET Snapshot]
    PROVE  PageOK([p EXCEPT !.shown = l])
<1> DEFINE q == [p EXCEPT !.shown = l]
<1>1. p \in PageType
  BY DEF PageOK
<1>2. q \in PageType /\ q.busy = p.busy /\ q.off = p.off /\ q.cancel = p.cancel
  BY <1>1 DEF PageType
<1> QED
  BY <1>2 DEF PageOK

LEMMA LoadSnapshotsTyped ==
    ASSUME Typed, NEW i \in Activity, NEW a \in HandlerType,
           a.task \notin {"autosave", "import"}, NEW p, PageOK(p),
           LoadSnapshots(i, a, p)
    PROVE  Typed'
<1>1. CASE p.db = NoDb
  BY <1>1, ShownOK, ConstantTypes, EndsTyped DEF LoadSnapshots
<1>2. CASE p.db # NoDb
  <2> DEFINE b == [a EXCEPT !.pair = <<p.conn, p.db>>]
  <2>1. p.conn \in Connection \cup {Placeholder} /\ p.db \in Database \cup {NoDb, Dash}
    BY DEF PageOK, PageType
  <2>2. <<p.conn, p.db>> \in Pair
    BY <2>1, ConstantTypes
  <2>3. b \in HandlerType /\ b.task = a.task
    BY <2>2 DEF HandlerType
  <2> HIDE DEF b
  <2>4. Asks(b, "list") \in HandlerSet
    BY <2>3, AsksFields DEF HandlerSet, HandlerOK, Request, Settled
  <2>5. Become(i, Asks(b, "list"), p)
    BY <1>2 DEF LoadSnapshots, b
  <2> QED
    BY <2>4, <2>5, BecomeTyped
<1> QED
  BY <1>1, <1>2

LEMMA LoadedTyped ==
    ASSUME Typed, NEW i \in Activity, NEW a \in HandlerType,
           a.task \notin {"autosave", "import"}, NEW p, PageOK(p),
           Loaded(i, a, p)
    PROVE  Typed'
  BY LoadSnapshotsTyped, BecomeTyped, ConstantTypes DEF Loaded

\* How a page may be changed without its lock being touched.
LEMMA PageChange ==
    ASSUME NEW p, PageOK(p), NEW q \in PageType, q.busy = p.busy, q.cancel = p.cancel,
           "rest" \in p.off => "rest" \in q.off,
           q.off \subseteq p.off \cup {"connection", "create", "database"}
    PROVE  PageOK(q)
  BY DEF PageOK

LEMMA ConfigReadTyped ==
    ASSUME Typed, NEW i \in Activity, NEW r, ConfigRead(i, r)
    PROVE  Typed'
<1>1. PICK j \in Activity \ {i} :
        act' = [act EXCEPT ![i] = Asks(Handler("start"), "info"),
                           ![j] = Asks(Handler("start"), "connections")]
  BY DEF ConfigRead
<1>2. /\ Asks(Handler("start"), "info") \in HandlerSet
      /\ Asks(Handler("start"), "connections") \in HandlerSet
  <2>1. Handler("start") \in HandlerType /\ Handler("start").task = "start"
    BY HandlerFields DEF Typed, Task
  <2> QED
    BY <2>1, AsksFields DEF HandlerSet, HandlerOK, Request, Settled
<1>3. act' \in [Activity -> HandlerSet]
  BY <1>1, <1>2 DEF Typed
<1>4. page \in PageType /\ act[i].cond \in Condition
  BY HandlerIn DEF Typed, PageOK, HandlerType
<1> DEFINE q == [page EXCEPT !.saved = IF r = "failed" THEN page.saved ELSE act[i].cond,
                             !.off = page.off \cup {"connection"}]
<1>5. /\ q \in PageType /\ q.busy = page.busy /\ q.cancel = page.cancel
      /\ q.off = page.off \cup {"connection"}
  BY <1>4 DEF PageType, Control
<1>6. page' = q
  BY DEF ConfigRead
<1> HIDE DEF q
<1>7. PageOK(page')
  BY <1>5, <1>6, PageChange DEF Typed
<1> QED
  BY <1>3, <1>7 DEF Typed

LEMMA InfoReadTyped ==
    ASSUME Typed, NEW i \in Activity, NEW r, InfoRead(i, r)
    PROVE  Typed'
<1> DEFINE q == [page EXCEPT !.boxes = page.saved, !.off = page.off \ {"boxes"}]
<1>1. page \in PageType /\ act[i] \in HandlerType /\ act[i].task = "start"
  BY HandlerIn DEF Typed, PageOK, HandlerOK, InfoRead
<1>2. /\ q \in PageType /\ q.busy = page.busy /\ q.cancel = page.cancel
      /\ q.off = page.off \ {"boxes"}
  BY <1>1 DEF PageType, Control
<1>3. Loaded(i, act[i], page) \/ Loaded(i, act[i], q)
  BY DEF InfoRead
<1> HIDE DEF q
<1>4. PageOK(page) /\ PageOK(q)
  BY <1>2, PageChange DEF Typed
<1> QED
  BY <1>1, <1>3, <1>4, LoadedTyped

LEMMA ConnectionsReadTyped ==
    ASSUME Typed, NEW i \in Activity, NEW r, ConnectionsRead(i, r)
    PROVE  Typed'
<1> DEFINE a == act[i]
           p == [page EXCEPT !.conn = FirstConnection, !.loaded = TRUE,
                    !.off = (page.off \ {"connection", "create"}) \cup {"database"}]
           q == [page EXCEPT !.conn = Placeholder]
           b == [a EXCEPT !.pair = <<p.conn, p.db>>]
<1>1. page \in PageType /\ a \in HandlerType /\ a.task \in {"start", "refresh"}
  BY HandlerIn DEF Typed, PageOK, HandlerOK, ConnectionsRead
<1>2. /\ p \in PageType /\ p.busy = page.busy /\ p.cancel = page.cancel
      /\ p.off = (page.off \ {"connection", "create"}) \cup {"database"}
      /\ p.conn = FirstConnection
  BY <1>1, PanelAssumption DEF PageType, Control
<1>3. q \in PageType /\ q.busy = page.busy /\ q.cancel = page.cancel /\ q.off = page.off
  BY <1>1 DEF PageType
<1>4. Become(i, Asks(b, "databases"), p) \/ Loaded(i, a, q)
  BY DEF ConnectionsRead
<1>5. b \in HandlerType /\ b.task = a.task /\ b.pair = <<p.conn, p.db>>
  <2>1. p.conn \in Connection \cup {Placeholder} /\ p.db \in Database \cup {NoDb, Dash}
    BY <1>2 DEF PageType
  <2>2. <<p.conn, p.db>> \in Pair
    BY <2>1, ConstantTypes
  <2> HIDE DEF p
  <2> QED
    BY <1>1, <2>2 DEF HandlerType
<1> HIDE DEF p, q, b
<1>6. PageOK(p) /\ PageOK(q)
  BY <1>2, <1>3, PageChange DEF Typed
<1>7. Asks(b, "databases") \in HandlerSet
  <2>1. b.pair[1] \in Connection
    BY <1>2, <1>5, PanelAssumption
  <2> HIDE DEF a
  <2> QED
    BY <1>1, <1>5, <2>1, AsksFields DEF HandlerSet, HandlerOK, Request, Settled
<1> QED
  BY <1>1, <1>4, <1>6, <1>7, BecomeTyped, LoadedTyped

LEMMA FilledOK ==
    ASSUME NEW p, PageOK(p), NEW c \in Connection, NEW names \in SUBSET Database
    PROVE  /\ PageOK(FillDatabases(p, c, names))
           /\ FillDatabases(p, c, names).db = Configured[c]
           /\ FillDatabases(p, c, names).offer = c
           /\ FillDatabases(p, c, names).options = names \cup ({Configured[c]} \ {NoDb})
<1> DEFINE options == names \cup ({Configured[c]} \ {NoDb})
           off == IF options = {} THEN p.off ELSE p.off \ {"database"}
           q == [p EXCEPT !.offer = c, !.options = options, !.db = Configured[c],
                          !.off = off]
<1>1. options \in SUBSET Database /\ Configured[c] \in Database \cup {NoDb}
  BY PanelAssumption
<1>2. p \in PageType
  BY DEF PageOK
<1>3. off \in SUBSET Control /\ off \subseteq p.off /\ ("rest" \in p.off => "rest" \in off)
  BY <1>2 DEF PageType
<1> HIDE DEF options, off
<1>4. q \in PageType /\ q.busy = p.busy /\ q.cancel = p.cancel /\ q.off = off
      /\ q.db = Configured[c] /\ q.offer = c /\ q.options = options
  BY <1>1, <1>2, <1>3 DEF PageType
<1> HIDE DEF q
<1>5. PageOK(q)
  BY <1>3, <1>4, PageChange
<1>6. q = FillDatabases(p, c, names)
  BY DEF q, options, off, FillDatabases
<1> QED
  BY <1>4, <1>5, <1>6 DEF options

LEMMA DatabasesReadTyped ==
    ASSUME Typed, NEW i \in Activity, NEW r, DatabasesRead(i, r)
    PROVE  Typed'
<1> DEFINE a == act[i]
           names == IF r = "failed" THEN {} ELSE Databases[a.pair[1]]
           p == FillDatabases(page, a.pair[1], names)
<1>1. a \in HandlerType /\ a.task \in {"start", "refresh", "pick"}
      /\ a.pair[1] \in Connection
  BY HandlerIn DEF HandlerOK, DatabasesRead
<1>2. names \in SUBSET Database
  BY <1>1, PanelAssumption
<1>3. Loaded(i, a, p)
  BY DEF DatabasesRead
<1> HIDE DEF a, names
<1>4. PageOK(p)
  BY <1>1, <1>2, FilledOK DEF Typed
<1> HIDE DEF p
<1> QED
  BY <1>1, <1>3, <1>4, LoadedTyped

LEMMA ListReadTyped ==
    ASSUME Typed, NEW i \in Activity, NEW r, ListRead(i, r)
    PROVE  Typed'
<1>1. act[i] \in HandlerType
  BY HandlerIn
<1> DEFINE l == IF r = "failed" THEN NoList
                ELSE [pair |-> act[i].pair, snaps |-> act[i].snaps]
<1>2. l \in [pair : Pair, snaps : SUBSET Snapshot]
  BY <1>1, ConstantTypes DEF HandlerType
<1>3. Ends(i, act[i], [page EXCEPT !.shown = l])
  BY DEF ListRead
<1> HIDE DEF l
<1> QED
  BY <1>2, <1>3, ShownOK, EndsTyped DEF Typed

LEMMA ConfigSavedTyped ==
    ASSUME Typed, NEW i \in Activity, NEW r, ConfigSaved(i, r)
    PROVE  Typed'
<1>1. act[i] \in HandlerType
  BY HandlerIn
<1>2. CASE act[i].task = "create"
  <2>1. Become(i, Asks(Handler("create"), "create"), BeginProgress(page))
    BY <1>2 DEF ConfigSaved
  <2>2. Asks(Handler("create"), "create") \in HandlerSet
    BY HandlerFields, AsksFields
    DEF Typed, HandlerSet, HandlerOK, Request, Settled, Task
  <2> QED
    BY <2>1, <2>2, PageEdits, BecomeTyped DEF Typed
<1>3. CASE act[i].task = "diff"
  <2>1. Become(i, Asks(act[i], "diff"), BeginProgress(page))
    BY <1>3 DEF ConfigSaved
  <2>2. Asks(act[i], "diff") \in HandlerSet
    BY <1>1, <1>3, AsksFields DEF HandlerSet, HandlerOK, Request, Settled
  <2> QED
    BY <2>1, <2>2, PageEdits, BecomeTyped DEF Typed
<1>4. CASE act[i].task \notin {"create", "diff"}
  BY <1>4, ConstantTypes, BecomeTyped DEF ConfigSaved, Typed
<1> QED
  BY <1>2, <1>3, <1>4

\* A question is one of the three kinds of handlers that ask any.
LEMMA ConfirmIn ==
    ASSUME NEW a \in HandlerType, a.task \in {"delete", "diff", "import"}
    PROVE  [a EXCEPT !.pc = "confirm", !.reply = "ok"] \in HandlerSet
<1> DEFINE b == [a EXCEPT !.pc = "confirm", !.reply = "ok"]
<1>1. b \in HandlerType /\ b.pc = "confirm" /\ b.task = a.task
  BY DEF HandlerType, Answer
<1> QED
  BY <1>1 DEF HandlerSet, HandlerOK

LEMMA OpenDialogTyped ==
    ASSUME Typed, NEW i \in Activity, NEW a \in HandlerType,
           a.task \in {"delete", "diff", "import"}, NEW p, PageOK(p),
           OpenDialog(i, a, p)
    PROVE  Typed'
  BY ConfirmIn, ConstantTypes DEF Typed, OpenDialog

LEMMA JobStartedTyped ==
    ASSUME Typed, NEW i \in Activity, NEW r, r = act[i].reply \/ r = "failed",
           JobStarted(i, r)
    PROVE  Typed'
<1>1. act[i] \in HandlerType /\ HandlerOK(act[i])
      /\ act[i].pc \in {"create", "diff", "force"}
  BY HandlerIn DEF JobStarted
<1>2. act[i].task \in {"create", "diff"} /\ (r = "confirm" => act[i].task = "diff")
  BY <1>1 DEF HandlerOK
<1>3. PageOK(page) /\ PageOK(ResetProgress(page))
  BY PageEdits DEF Typed
<1>4. CASE r = "failed"
  BY <1>3, <1>4, ConstantTypes, BecomeTyped DEF JobStarted
<1>5. CASE r = "confirm"
  BY <1>1, <1>2, <1>3, <1>5, OpenDialogTyped DEF JobStarted
<1>6. CASE r \notin {"failed", "confirm"}
  <2>1. Asks(act[i], "poll") \in HandlerSet
    BY <1>1, <1>2, AsksFields DEF HandlerSet, HandlerOK, Request, Settled
  <2> QED
    BY <1>3, <1>6, <2>1, BecomeTyped DEF JobStarted
<1> QED
  BY <1>4, <1>5, <1>6

LEMMA PolledTyped ==
    ASSUME Typed, NEW i \in Activity, NEW r, Polled(i, r)
    PROVE  Typed'
<1>1. act[i] \in HandlerType /\ act[i].task \in {"create", "diff"} /\ PageOK(page)
  BY HandlerIn DEF Polled, HandlerOK, Typed
<1>2. \/ LoadSnapshots(i, act[i], page) \/ Become(i, Free, page) \/ Ends(i, act[i], page)
  BY DEF Polled
<1> QED
  BY <1>1, <1>2, LoadSnapshotsTyped, EndsTyped, BecomeTyped, ConstantTypes

LEMMA DeletedTyped ==
    ASSUME Typed, NEW i \in Activity, NEW r, Deleted(i, r)
    PROVE  Typed'
<1>1. act[i] \in HandlerType /\ act[i].task = "delete" /\ PageOK(page)
  BY HandlerIn DEF Deleted, HandlerOK, Typed
<1>2. LoadSnapshots(i, act[i], page) \/ Become(i, Free, page)
  BY DEF Deleted
<1> QED
  BY <1>1, <1>2, LoadSnapshotsTyped, BecomeTyped, ConstantTypes

LEMMA TrackTyped ==
    ASSUME Track, older \in [Activity -> SUBSET Activity]
    PROVE  older' \in [Activity -> SUBSET Activity]
  BY DEF Track

LEMMA ContinueTyped ==
    ASSUME TypeInv, NEW i \in Activity, NEW r, r = act[i].reply \/ r = "failed",
           Continue(i, r)
    PROVE  Typed' /\ BackendOK' /\ older' \in [Activity -> SUBSET Activity]
           /\ entered' \subseteq Condition
           /\ {blind, late, unpolled, unheard, opened, doubled}' \subseteq BOOLEAN
           /\ clicks' \in 0..MaxClicks
<1>1. Typed
  BY DEF TypeInv, Typed
<1>2. \/ ConfigRead(i, r)    \/ InfoRead(i, r)    \/ ConnectionsRead(i, r)
      \/ DatabasesRead(i, r) \/ ListRead(i, r)    \/ ConfigSaved(i, r)
      \/ JobStarted(i, r)    \/ Polled(i, r)      \/ Deleted(i, r)
  BY DEF Continue
<1>3. Typed'
  BY <1>1, <1>2, ConfigReadTyped, InfoReadTyped, ConnectionsReadTyped,
     DatabasesReadTyped, ListReadTyped, ConfigSavedTyped, JobStartedTyped,
     PolledTyped, DeletedTyped
<1>4. BackendOK'
  BY DEF Continue, backend, TypeInv, BackendOK
<1>5. Track /\ HistoryOK
  BY DEF Continue, TypeInv
<1>6. older' \in [Activity -> SUBSET Activity]
  BY <1>5, TrackTyped DEF HistoryOK
<1>7. {blind, late, unpolled, unheard, opened, doubled}' \subseteq BOOLEAN
  <2>1. blind' \in BOOLEAN /\ late' \in BOOLEAN /\ unpolled' \in BOOLEAN
        /\ unheard' \in BOOLEAN /\ doubled' \in BOOLEAN
    BY <1>5 DEF HistoryOK, Continue
  <2>2. opened' \in BOOLEAN
    <3>1. PageOK(page') /\ opened \in BOOLEAN
      BY <1>3, <1>5 DEF Typed, HistoryOK
    <3>2. page'.busy \in BOOLEAN
      BY <3>1 DEF PageOK, PageType
    <3> QED
      BY <3>1, <3>2 DEF Continue
  <2> QED
    BY <2>1, <2>2
<1> QED
  BY <1>3, <1>4, <1>5, <1>6, <1>7 DEF Continue, HistoryOK

LEMMA AnswersTyped ==
    ASSUME TypeInv, NEW i \in Activity, Answered(i) \/ TimesOut(i)
    PROVE  TypeInv'
<1>1. CASE Answered(i)
  <2>1. Continue(i, act[i].reply) /\ fails' = fails /\ failed' \in BOOLEAN
    BY <1>1 DEF Answered, TypeInv, HistoryOK
  <2> QED
    BY <2>1, ContinueTyped DEF TypeInv, Typed, HistoryOK
<1>2. CASE TimesOut(i)
  <2>1. Continue(i, "failed") /\ failed' = TRUE
    BY <1>2 DEF TimesOut
  <2>2. fails' \in 0..MaxFails
    BY <1>2, PanelAssumption DEF TimesOut, TypeInv, HistoryOK
  <2> QED
    BY <2>1, <2>2, ContinueTyped DEF TypeInv, Typed, HistoryOK
<1> QED
  BY <1>1, <1>2

-----------------------------------------------------------------------------
(* The sidecar's steps.                                                    *)

\* An answer to a request that has none yet.
LEMMA ReplyTyped ==
    ASSUME NEW a \in HandlerType, HandlerOK(a), a.reply = "pending", NEW r,
           \/ a.pc \in {"config", "save", "list"} /\ r = "ok"
           \/ a.pc \in {"create", "force", "delete"} /\ r \in {"ok", "failed"}
           \/ a.pc = "diff" /\ r \in {"ok", "failed", "confirm"}
           \/ a.pc = "poll" /\ r \in {"done", "over"}
    PROVE  [a EXCEPT !.reply = r] \in HandlerSet
<1> DEFINE b == [a EXCEPT !.reply = r]
<1>1. b \in HandlerType /\ b.pc = a.pc /\ b.task = a.task /\ b.pair = a.pair
      /\ b.reply = r
  BY DEF HandlerType, Answer
<1>2. HandlerOK(b)
  BY <1>1 DEF HandlerOK
<1> QED
  BY <1>1, <1>2 DEF HandlerSet

LEMMA ServeStartTyped ==
    ASSUME TypeInv, NEW i \in Activity, act[i].reply = "pending", ServeStart(i)
    PROVE  act' \in [Activity -> HandlerSet] /\ BackendOK'
<1> DEFINE a == act[i]
<1>1. a \in HandlerType /\ HandlerOK(a) /\ a.pc \in {"create", "diff", "force"}
  BY HandlerIn DEF TypeInv, Typed, ServeStart
<1>2. PICK r \in {"ok", "failed", "confirm"} :
        Reply(i, r) /\ (r = "confirm" => a.pc = "diff")
  BY DEF ServeStart
<1>3. [a EXCEPT !.reply = r] \in HandlerSet
  BY <1>1, <1>2, ReplyTyped
<1>4. act' \in [Activity -> HandlerSet]
  BY <1>2, <1>3 DEF Reply, TypeInv
<1>5. \/ job' = [phase |-> "running", pair |-> a.pair, cond |-> a.cond]
      \/ job' = job
  BY DEF ServeStart
<1>6. BackendOK'
  BY <1>1, <1>5 DEF ServeStart, TypeInv, BackendOK, HandlerType
<1> QED
  BY <1>4, <1>6

LEMMA ServeTyped ==
    ASSUME TypeInv, NEW i \in Activity, Serve(i)
    PROVE  TypeInv'
<1> DEFINE a == act[i]
<1>1. a \in HandlerType /\ HandlerOK(a) /\ a.reply = "pending"
  BY HandlerIn DEF TypeInv, Typed, Serve
<1>2. page' = page /\ HistoryOK'
  <2>1. late' \in BOOLEAN
    BY DEF Serve, ServeConfig, ServeSave, ServeList, ServeStart, ServeStatus,
       ServeDelete, TypeInv, HistoryOK
  <2> QED
    BY <2>1 DEF Serve, TypeInv, HistoryOK
<1>3. CASE ServeConfig(i)
  <2> DEFINE b == [a EXCEPT !.reply = "ok", !.cond = file.cond]
  <2>1. a.pc = "config" /\ act' = [act EXCEPT ![i] = b]
    BY <1>3 DEF ServeConfig
  <2>2. file.cond \in Condition
    BY DEF TypeInv, BackendOK
  <2>3. b \in HandlerType /\ b.pc = "config" /\ b.task = a.task /\ b.reply = "ok"
    BY <1>1, <2>1, <2>2 DEF HandlerType, Answer
  <2>4. b \in HandlerSet
    BY <1>1, <2>1, <2>3 DEF HandlerSet, HandlerOK
  <2> HIDE DEF b
  <2> QED
    BY <1>2, <1>3, <2>1, <2>4 DEF ServeConfig, TypeInv, backend, BackendOK
<1>4. CASE ServeSave(i)
  <2>1. act' = [act EXCEPT ![i] = [a EXCEPT !.reply = "ok"]] /\ a.pc = "save"
    BY <1>4 DEF ServeSave, Reply
  <2>2. [a EXCEPT !.reply = "ok"] \in HandlerSet
    BY <1>1, <2>1, ReplyTyped
  <2>3. file' \in [cond : Condition] /\ store' = store /\ job' = job
    BY <1>1, <1>4 DEF ServeSave, HandlerType
  <2> HIDE DEF a
  <2> QED
    BY <1>2, <2>1, <2>2, <2>3 DEF TypeInv, BackendOK
<1>5. CASE ServeList(i)
  <2> DEFINE b == [a EXCEPT !.reply = "ok", !.snaps = store[a.pair]]
  <2>1. a.pc = "list" /\ act' = [act EXCEPT ![i] = b]
    BY <1>5 DEF ServeList
  <2>2. store[a.pair] \in SUBSET Snapshot
    BY <1>1 DEF TypeInv, BackendOK, HandlerType
  <2>3. b \in HandlerType /\ b.pc = "list" /\ b.task = a.task /\ b.reply = "ok"
    BY <1>1, <2>1, <2>2 DEF HandlerType, Answer
  <2>4. b \in HandlerSet
    BY <1>1, <2>1, <2>3 DEF HandlerSet, HandlerOK
  <2> HIDE DEF b
  <2> QED
    BY <1>2, <1>5, <2>1, <2>4 DEF ServeList, TypeInv, backend, BackendOK
<1>6. CASE ServeStart(i)
  BY <1>1, <1>2, <1>6, ServeStartTyped DEF TypeInv
<1>7. CASE ServeStatus(i)
  <2>1. act' = [act EXCEPT ![i] = [a EXCEPT !.reply = job.phase]] /\ a.pc = "poll"
        /\ job.phase \in {"done", "over"}
    BY <1>7 DEF ServeStatus, Reply, TypeInv, BackendOK
  <2>2. [a EXCEPT !.reply = job.phase] \in HandlerSet
    BY <1>1, <2>1, ReplyTyped
  <2> HIDE DEF a
  <2> QED
    BY <1>2, <1>7, <2>1, <2>2 DEF ServeStatus, TypeInv, backend, BackendOK
<1>8. CASE ServeDelete(i)
  <2>1. PICK r \in {"ok", "failed"} : act' = [act EXCEPT ![i] = [a EXCEPT !.reply = r]]
    BY <1>8 DEF ServeDelete, Reply
  <2>2. a.pc = "delete"
    BY <1>8 DEF ServeDelete
  <2>3. [a EXCEPT !.reply = r] \in HandlerSet
    BY <1>1, <2>1, <2>2, ReplyTyped
  <2>4. store' \in [Pair -> SUBSET Snapshot] /\ file' = file /\ job' = job
    BY <1>1, <1>8 DEF ServeDelete, TypeInv, BackendOK, HandlerType
  <2> HIDE DEF a
  <2> QED
    BY <1>2, <2>1, <2>3, <2>4 DEF TypeInv, BackendOK
<1> QED
  BY <1>3, <1>4, <1>5, <1>6, <1>7, <1>8 DEF Serve

LEMMA JobEndsTyped ==
    ASSUME TypeInv, JobEnds
    PROVE  TypeInv'
<1>1. job' \in [phase : {"running", "done", "over"}, pair : Pair, cond : Condition]
  <2>1. NoJob \in [phase : {"running", "done", "over"}, pair : Pair, cond : Condition]
    BY ConstantTypes, PanelAssumption DEF NoJob
  <2>2. job' = [NoJob EXCEPT !.phase = "done"] \/ job' = NoJob
    BY DEF JobEnds
  <2> QED
    BY <2>1, <2>2
<1>2. store' \in [Pair -> SUBSET Snapshot]
  <2>1. store \in [Pair -> SUBSET Snapshot] /\ job.cond \in Condition
    BY DEF TypeInv, BackendOK
  <2>2. CASE store' = store
    BY <2>1, <2>2
  <2>3. CASE \E n \in 1..MaxSnaps \ Taken :
               store' = [store EXCEPT ![job.pair] =
                           @ \cup {[id |-> n, cond |-> job.cond]}]
    <3>1. PICK n \in 1..MaxSnaps :
            store' = [store EXCEPT ![job.pair] =
                        @ \cup {[id |-> n, cond |-> job.cond]}]
      BY <2>3
    <3>2. [id |-> n, cond |-> job.cond] \in Snapshot
      BY <2>1 DEF Snapshot
    <3> QED
      BY <2>1, <3>1, <3>2
  <2> QED
    BY <2>2, <2>3 DEF JobEnds
<1>3. file' = file /\ UNCHANGED <<page, act>> /\ HistoryOK'
  BY DEF JobEnds, TypeInv, HistoryOK
<1> QED
  BY <1>1, <1>2, <1>3 DEF TypeInv, BackendOK

-----------------------------------------------------------------------------
(* The user's steps.                                                       *)

\* There is a handler to be had.
LEMMA NewFree ==
    ASSUME \E i \in Activity : act[i] = Free
    PROVE  New \in Activity /\ act[New] = Free
  BY DEF New

LEMMA ClickTyped ==
    ASSUME TypeInv, NEW control, Click(control)
    PROVE  BackendOK' /\ clicks' \in 0..MaxClicks /\ failed' \in BOOLEAN
           /\ unpolled' \in BOOLEAN /\ unheard' \in BOOLEAN /\ opened' \in BOOLEAN
           /\ doubled' \in BOOLEAN /\ fails' \in 0..MaxFails
<1>1. BackendOK'
  BY DEF Click, backend, TypeInv, BackendOK
<1>2. clicks' \in 0..MaxClicks
  BY PanelAssumption DEF Click, TypeInv, HistoryOK
<1> QED
  BY <1>1, <1>2 DEF Click, TypeInv, HistoryOK

\* A handler that starts with a save, whatever it will do with the answer.
LEMMA SaveConfigOK ==
    ASSUME PageOK(page)
    PROVE  PageOK(SaveConfig(page)) /\ SaveConfig(page).boxes = page.boxes
           /\ SaveConfig(page).saved = Current /\ SaveConfig(page).timer = FALSE
           /\ SaveConfig(page).off = page.off /\ SaveConfig(page).busy = page.busy
           /\ SaveConfig(page).cancel = page.cancel
           /\ SaveConfig(page).conn = page.conn /\ SaveConfig(page).db = page.db
           /\ SaveConfig(page).offer = page.offer
           /\ SaveConfig(page).options = page.options
           /\ SaveConfig(page).shown = page.shown
<1> DEFINE q == [page EXCEPT !.timer = FALSE, !.saved = Current]
<1>1. page \in PageType /\ Current \in Condition
  BY PanelAssumption DEF PageOK, PageType, Current
<1> HIDE DEF Current
<1>2. /\ q \in PageType /\ q.busy = page.busy /\ q.cancel = page.cancel
      /\ q.off = page.off /\ q.boxes = page.boxes /\ q.saved = Current
      /\ q.timer = FALSE /\ q.conn = page.conn /\ q.db = page.db
      /\ q.offer = page.offer /\ q.options = page.options /\ q.shown = page.shown
  <2> HIDE DEF Current
  <2> QED
    BY <1>1 DEF PageType
<1>3. SaveConfig(page) = q
  BY DEF SaveConfig
<1> HIDE DEF q
<1> QED
  BY <1>2, <1>3, PageChange

LEMMA StartsTyped ==
    ASSUME TypeInv, NEW a \in HandlerSet, NEW p, PageOK(p), Starts(a, p)
    PROVE  Typed' /\ older' \in [Activity -> SUBSET Activity]
<1>1. New \in Activity /\ Become(New, a, p) /\ Track
  BY NewFree DEF Starts
<1> QED
  BY <1>1, BecomeTyped, TrackTyped DEF TypeInv, Typed, HistoryOK

LEMMA SavesTyped ==
    ASSUME TypeInv, NEW a \in HandlerType,
           a.task \in {"create", "diff", "autosave", "import"},
           NEW p, PageOK(p), Saves(a, p)
    PROVE  Typed' /\ older' \in [Activity -> SUBSET Activity] /\ blind' \in BOOLEAN
<1>1. Asks(a, "save") \in HandlerSet
  BY AsksFields DEF HandlerSet, HandlerOK, Request, Settled
<1>2. blind' \in BOOLEAN
  BY DEF Saves, TypeInv, HistoryOK
<1> QED
  BY <1>1, <1>2, StartsTyped DEF Saves

LEMMA ListsTyped ==
    ASSUME TypeInv, NEW p, PageOK(p), Lists(p)
    PROVE  Typed' /\ older' \in [Activity -> SUBSET Activity] /\ late' \in BOOLEAN
<1>1. New \in Activity /\ LoadSnapshots(New, Handler("list"), p) /\ Track
  BY NewFree DEF Lists
<1>2. Handler("list") \in HandlerType /\ Handler("list").task = "list" /\ Typed
  BY HandlerFields DEF TypeInv, Typed, Task
<1>3. Typed'
  BY <1>1, <1>2, LoadSnapshotsTyped
<1> QED
  BY <1>1, <1>3, TrackTyped DEF Lists, TypeInv, HistoryOK

LEMMA TypeTyped ==
    ASSUME TypeInv, (\E c \in Condition : Type(c)) \/ TypeSchema
    PROVE  TypeInv'
<1>1. PageOK(page')
  <2>1. CASE \E c \in Condition : Type(c)
    <3>1. PICK c \in Condition : page' = [page EXCEPT !.boxes = c, !.timer = TRUE]
      BY <2>1 DEF Type
    <3> QED
      BY <3>1 DEF TypeInv, PageOK, PageType
  <2>2. CASE TypeSchema
    BY <2>2 DEF TypeSchema, TypeInv, PageOK, PageType
  <2> QED
    BY <2>1, <2>2
<1>2. act' = act /\ UNCHANGED <<blind, late, older>> /\ entered' \subseteq Condition
      /\ \E control : Click(control)
  BY DEF Type, TypeSchema, TypeInv, HistoryOK
<1> QED
  BY <1>1, <1>2, ClickTyped DEF TypeInv, HistoryOK

LEMMA TimerTyped ==
    ASSUME TypeInv, TimerFires
    PROVE  TypeInv'
<1>1. Handler("autosave") \in HandlerType /\ Handler("autosave").task = "autosave"
  BY HandlerFields DEF TypeInv, Task
<1>2. PageOK(SaveConfig(page)) /\ Saves(Handler("autosave"), SaveConfig(page))
  BY SaveConfigOK DEF TimerFires, TypeInv
<1>3. Typed' /\ older' \in [Activity -> SUBSET Activity] /\ blind' \in BOOLEAN
  BY <1>1, <1>2, SavesTyped
<1> QED
  BY <1>3 DEF TimerFires, backend, TypeInv, Typed, BackendOK, HistoryOK

LEMMA PickConnectionTyped ==
    ASSUME TypeInv, NEW c \in Connection, PickConnection(c)
    PROVE  TypeInv'
<1> DEFINE h == Handler("pick")
           a == [h EXCEPT !.pair[1] = c]
           b == [h EXCEPT !.pair = <<c, page.db>>]
           p == [page EXCEPT !.conn = c, !.off = page.off \cup {"database"}]
<1>1. h \in HandlerType /\ h.task = "pick" /\ h.pair = <<page.conn, page.db>>
  BY HandlerFields DEF TypeInv, Task
<1>2. Starts(Asks(a, "databases"), p)
  BY DEF PickConnection
<1>3. PageOK(p)
  <2>1. page \in PageType
    BY DEF TypeInv, PageOK
  <2>2. p \in PageType /\ p.busy = page.busy /\ p.cancel = page.cancel
        /\ p.off = page.off \cup {"database"}
    BY <2>1 DEF PageType, Control
  <2> QED
    BY <2>2, PageChange DEF TypeInv
<1> HIDE DEF h, p
<1>4. a = b
  <2>1. a = [h EXCEPT !.pair = [h.pair EXCEPT ![1] = c]]
    BY <1>1 DEF HandlerType
  <2> QED
    BY <1>1, <2>1, TupleUpdate
<1>5. b \in HandlerType /\ b.task = "pick" /\ b.pair = <<c, page.db>>
  <2>1. <<c, page.db>> \in Pair
    BY DEF TypeInv, PageOK, PageType, Pair
  <2> QED
    BY <1>1, <2>1 DEF HandlerType
<1>6. Asks(b, "databases") \in HandlerSet
  <2>1. b.pair[1] = c
    BY <1>5
  <2> HIDE DEF b
  <2> QED
    BY <1>5, <2>1, AsksFields DEF HandlerSet, HandlerOK, Request, Settled
<1> HIDE DEF a, b
<1>7. Typed' /\ older' \in [Activity -> SUBSET Activity]
  BY <1>2, <1>3, <1>4, <1>6, StartsTyped
<1> QED
  BY <1>7, ClickTyped DEF PickConnection, TypeInv, Typed, HistoryOK

LEMMA ListClicksTyped ==
    ASSUME TypeInv, ClickReload \/ \E d \in Database \cup {NoDb} : PickDatabase(d)
    PROVE  TypeInv'
<1>1. PICK p : Lists(p) /\ PageOK(p)
  <2>1. CASE ClickReload
    BY <2>1 DEF ClickReload, TypeInv
  <2>2. CASE \E d \in Database \cup {NoDb} : PickDatabase(d)
    <3>1. PICK d \in Database \cup {NoDb} : Lists([page EXCEPT !.db = d])
      BY <2>2 DEF PickDatabase
    <3>2. PageOK([page EXCEPT !.db = d])
      BY DEF TypeInv, PageOK, PageType
    <3> QED
      BY <3>1, <3>2
  <2> QED
    BY <2>1, <2>2
<1>2. Typed' /\ older' \in [Activity -> SUBSET Activity] /\ late' \in BOOLEAN
  BY <1>1, ListsTyped
<1>3. UNCHANGED <<entered, blind>> /\ \E control : Click(control)
  BY DEF ClickReload, PickDatabase, Lists
<1> QED
  BY <1>2, <1>3, ClickTyped DEF TypeInv, Typed, HistoryOK

LEMMA RefreshTyped ==
    ASSUME TypeInv, ClickRefresh
    PROVE  TypeInv'
<1> DEFINE p == [page EXCEPT !.off = page.off \cup {"connection"}]
<1>1. Starts(Asks(Handler("refresh"), "connections"), p)
  BY DEF ClickRefresh
<1>2. PageOK(p)
  <2>1. page \in PageType
    BY DEF TypeInv, PageOK
  <2>2. p \in PageType /\ p.busy = page.busy /\ p.cancel = page.cancel
        /\ p.off = page.off \cup {"connection"}
    BY <2>1 DEF PageType, Control
  <2> QED
    BY <2>2, PageChange DEF TypeInv
<1>3. Asks(Handler("refresh"), "connections") \in HandlerSet
  <2>1. Handler("refresh") \in HandlerType /\ Handler("refresh").task = "refresh"
    BY HandlerFields DEF TypeInv, Task
  <2> QED
    BY <2>1, AsksFields DEF HandlerSet, HandlerOK, Request, Settled
<1> HIDE DEF p
<1>4. Typed' /\ older' \in [Activity -> SUBSET Activity]
  BY <1>1, <1>2, <1>3, StartsTyped
<1> QED
  BY <1>4, ClickTyped DEF ClickRefresh, TypeInv, Typed, HistoryOK

LEMMA JobClicksTyped ==
    ASSUME TypeInv, ClickCreate \/ \E s \in page.shown.snaps : ClickCompare(s)
    PROVE  TypeInv'
<1>1. PageOK(SaveConfig(page))
  BY SaveConfigOK DEF TypeInv
<1>2. PICK a \in HandlerType : Saves(a, SaveConfig(page)) /\ a.task \in {"create", "diff"}
  <2>1. CASE ClickCreate
    BY <2>1, HandlerFields DEF ClickCreate, TypeInv, Task
  <2>2. CASE \E s \in page.shown.snaps : ClickCompare(s)
    <3>1. PICK s \in page.shown.snaps :
            Saves([Handler("diff") EXCEPT !.snaps = {s}], SaveConfig(page))
      BY <2>2 DEF ClickCompare
    <3>2. Handler("diff") \in HandlerType /\ Handler("diff").task = "diff"
      BY HandlerFields DEF TypeInv, Task
    <3>3. s \in Snapshot
      BY DEF TypeInv, PageOK, PageType
    <3>4. [Handler("diff") EXCEPT !.snaps = {s}] \in HandlerType
          /\ [Handler("diff") EXCEPT !.snaps = {s}].task = "diff"
      BY <3>2, <3>3 DEF HandlerType
    <3> QED
      BY <3>1, <3>4
  <2> QED
    BY <2>1, <2>2
<1>3. Typed' /\ older' \in [Activity -> SUBSET Activity] /\ blind' \in BOOLEAN
  BY <1>1, <1>2, SavesTyped
<1>4. UNCHANGED <<entered, late>> /\ \E control : Click(control)
  BY DEF ClickCreate, ClickCompare
<1> QED
  BY <1>3, <1>4, ClickTyped DEF TypeInv, Typed, HistoryOK

LEMMA DialogClicksTyped ==
    ASSUME TypeInv, ClickImport \/ \E s \in page.shown.snaps : ClickDelete(s)
    PROVE  TypeInv'
<1>1. PICK a \in HandlerSet : Starts(a, page)
  <2>1. CASE ClickImport
    <3> DEFINE h == Handler("import")
    <3>1. h \in HandlerType /\ h.task = "import"
      BY HandlerFields DEF TypeInv, Task
    <3>2. Starts([h EXCEPT !.pc = "picker"], page)
      BY <2>1 DEF ClickImport
    <3> HIDE DEF h
    <3>3. [h EXCEPT !.pc = "picker"] \in HandlerSet
      BY <3>1 DEF HandlerSet, HandlerOK, HandlerType
    <3> QED
      BY <3>2, <3>3
  <2>2. CASE \E s \in page.shown.snaps : ClickDelete(s)
    <3> DEFINE h == Handler("delete")
    <3>1. PICK s \in page.shown.snaps :
            Starts([h EXCEPT !.pc = "confirm", !.snaps = {s},
                             !.pair = page.shown.pair], page)
      BY <2>2 DEF ClickDelete
    <3>2. h \in HandlerType /\ h.task = "delete" /\ h.reply = "ok"
      BY HandlerFields DEF TypeInv, Task
    <3>3. s \in Snapshot /\ page.shown.pair \in Pair
      BY DEF TypeInv, PageOK, PageType
    <3> DEFINE a == [h EXCEPT !.pc = "confirm", !.snaps = {s}, !.pair = page.shown.pair]
    <3> HIDE DEF h
    <3>4. a \in HandlerType /\ a.pc = "confirm" /\ a.task = "delete"
      BY <3>2, <3>3 DEF HandlerType
    <3>5. a \in HandlerSet
      BY <3>4 DEF HandlerSet, HandlerOK
    <3> QED
      BY <3>1, <3>5
  <2> QED
    BY <2>1, <2>2
<1>2. Typed' /\ older' \in [Activity -> SUBSET Activity]
  BY <1>1, StartsTyped DEF TypeInv
<1>3. UNCHANGED <<entered, blind, late>> /\ \E control : Click(control)
  BY DEF ClickImport, ClickDelete
<1> QED
  BY <1>2, <1>3, ClickTyped DEF TypeInv, Typed, HistoryOK

LEMMA CancelTyped ==
    ASSUME TypeInv, ClickCancel
    PROVE  TypeInv'
<1>1. PageOK(page')
  <2>1. page' = [page EXCEPT !.cancel = "asked"] /\ page.cancel = "ready"
    BY DEF ClickCancel
  <2> QED
    BY <2>1 DEF TypeInv, PageOK, PageType
<1> QED
  BY <1>1 DEF ClickCancel, backend, TypeInv, BackendOK, HistoryOK

\* What an import leaves in the boxes and in the panel's memory.
Imported(c) ==
    [page EXCEPT !.boxes = IF page.boxes = NoBoxes THEN NoBoxes ELSE c,
                 !.saved = IF page.boxes = NoBoxes THEN Blank ELSE c,
                 !.timer = FALSE]

LEMMA ImportedOK ==
    ASSUME PageOK(page), NEW c \in Condition
    PROVE  /\ PageOK(Imported(c)) /\ Imported(c).off = page.off
           /\ Imported(c).busy = page.busy /\ Imported(c).cancel = page.cancel
           /\ Imported(c).conn = page.conn /\ Imported(c).db = page.db
           /\ Imported(c).offer = page.offer /\ Imported(c).options = page.options
           /\ Imported(c).shown = page.shown /\ Imported(c).timer = FALSE
           /\ Imported(c).boxes = IF page.boxes = NoBoxes THEN NoBoxes ELSE c
           /\ Imported(c).saved = IF page.boxes = NoBoxes THEN Blank ELSE c
<1> DEFINE x == IF page.boxes = NoBoxes THEN NoBoxes ELSE c
           y == IF page.boxes = NoBoxes THEN Blank ELSE c
           q == [page EXCEPT !.boxes = x, !.saved = y, !.timer = FALSE]
<1>1. page \in PageType /\ x \in Condition \cup {NoBoxes} /\ y \in Condition
  BY PanelAssumption DEF PageOK
<1> HIDE DEF x, y
<1>2. q \in PageType /\ q.off = page.off /\ q.busy = page.busy
      /\ q.cancel = page.cancel /\ q.conn = page.conn /\ q.db = page.db
      /\ q.offer = page.offer /\ q.options = page.options
      /\ q.shown = page.shown /\ q.timer = FALSE /\ q.boxes = x /\ q.saved = y
  BY <1>1 DEF PageType
<1>3. Imported(c) = q
  BY DEF Imported, x, y
<1> HIDE DEF q
<1>4. PageOK(Imported(c))
  BY <1>2, <1>3, PageChange
<1> QED
  BY <1>2, <1>3, <1>4 DEF x, y

LEMMA ApplyTyped ==
    ASSUME TypeInv, NEW i \in Activity, act[i].task = "import",
           NEW c \in Condition, Apply(i, c)
    PROVE  Typed' /\ entered' \subseteq Condition /\ blind' \in BOOLEAN
<1> DEFINE p == Imported(c)
           b == [act[i] EXCEPT !.cond = p.saved]
<1>1. Become(i, Asks(b, "save"), p)
  BY DEF Apply, Imported
<1>2. PageOK(p) /\ p.saved \in Condition
  BY ImportedOK DEF TypeInv, PageOK, PageType
<1> HIDE DEF p
<1>3. act[i] \in HandlerType /\ Typed
  BY HandlerIn DEF TypeInv, Typed
<1>4. b \in HandlerType /\ b.task = "import"
  BY <1>2, <1>3 DEF HandlerType
<1> HIDE DEF b
<1>5. Asks(b, "save") \in HandlerSet
  BY <1>4, AsksFields DEF HandlerSet, HandlerOK, Request, Settled
<1>6. Typed'
  BY <1>1, <1>2, <1>3, <1>5, BecomeTyped
<1> QED
  BY <1>6 DEF Apply, TypeInv, HistoryOK

LEMMA FilePickedTyped ==
    ASSUME TypeInv, NEW i \in Activity, NEW c \in Condition, FilePicked(i, c)
    PROVE  TypeInv'
<1>1. act[i] \in HandlerType /\ act[i].task = "import" /\ Typed
  BY HandlerIn DEF TypeInv, Typed, HandlerOK, FilePicked
<1>2. Typed' /\ entered' \subseteq Condition /\ blind' \in BOOLEAN
  <2>1. CASE Become(i, Free, page) /\ UNCHANGED <<entered, blind>>
    BY <1>1, <2>1, BecomeTyped, ConstantTypes DEF TypeInv, HistoryOK
  <2>2. CASE OpenDialog(i, [act[i] EXCEPT !.cond = c], page)
             /\ UNCHANGED <<entered, blind>>
    <3>1. [act[i] EXCEPT !.cond = c] \in HandlerType
          /\ [act[i] EXCEPT !.cond = c].task = "import"
      BY <1>1 DEF HandlerType
    <3> QED
      BY <1>1, <2>2, <3>1, OpenDialogTyped DEF TypeInv, HistoryOK
  <2>3. CASE Apply(i, c)
    BY <1>1, <2>3, ApplyTyped
  <2> QED
    BY <2>1, <2>2, <2>3 DEF FilePicked
<1>3. older' \in [Activity -> SUBSET Activity]
  BY TrackTyped DEF FilePicked, TypeInv, HistoryOK
<1> QED
  BY <1>2, <1>3 DEF FilePicked, backend, TypeInv, Typed, BackendOK, HistoryOK

LEMMA AnsweredDialogTyped ==
    ASSUME TypeInv, NEW i \in Activity, Refuses(i) \/ Confirms(i)
    PROVE  TypeInv'
<1>1. act[i] \in HandlerType /\ act[i].task \in {"delete", "diff", "import"} /\ Typed
  BY HandlerIn DEF TypeInv, Typed, HandlerOK, Refuses, Confirms
<1>2. older' \in [Activity -> SUBSET Activity]
  BY TrackTyped DEF Refuses, Confirms, TypeInv, HistoryOK
<1>3. Typed' /\ entered' \subseteq Condition /\ blind' \in BOOLEAN
      /\ doubled' \in BOOLEAN
  <2>1. CASE Refuses(i)
    BY <1>1, <2>1, BecomeTyped, ConstantTypes DEF Refuses, TypeInv, HistoryOK
  <2>2. CASE Confirms(i)
    <3>1. doubled' \in BOOLEAN
      BY <2>2 DEF Confirms, TypeInv, HistoryOK
    <3>2. CASE act[i].task = "delete"
      <4>1. Asks(act[i], "delete") \in HandlerSet
        BY <1>1, <3>2, AsksFields DEF HandlerSet, HandlerOK, Request, Settled
      <4>2. Become(i, Asks(act[i], "delete"), page) /\ UNCHANGED <<entered, blind>>
        BY <2>2, <3>2 DEF Confirms
      <4> QED
        BY <1>1, <3>1, <4>1, <4>2, BecomeTyped DEF TypeInv, HistoryOK
    <3>3. CASE act[i].task = "diff"
      <4>1. Asks(act[i], "force") \in HandlerSet
        BY <1>1, <3>3, AsksFields DEF HandlerSet, HandlerOK, Request, Settled
      <4>2. Become(i, Asks(act[i], "force"), BeginProgress(page))
            /\ UNCHANGED <<entered, blind>>
        BY <2>2, <3>3 DEF Confirms
      <4> QED
        BY <1>1, <3>1, <4>1, <4>2, BecomeTyped, PageEdits DEF TypeInv, HistoryOK
    <3>4. CASE act[i].task = "import"
      <4>1. Apply(i, act[i].cond)
        BY <2>2, <3>4 DEF Confirms
      <4>2. act[i].cond \in Condition
        BY <1>1 DEF HandlerType
      <4> QED
        BY <3>1, <3>4, <4>1, <4>2, ApplyTyped
    <3> QED
      BY <1>1, <3>2, <3>3, <3>4
  <2> QED
    BY <2>1, <2>2
<1> QED
  BY <1>2, <1>3 DEF Refuses, Confirms, backend, TypeInv, Typed, BackendOK, HistoryOK

LEMMA UserTyped ==
    ASSUME TypeInv, User
    PROVE  TypeInv'
  BY TypeTyped, PickConnectionTyped, ListClicksTyped, RefreshTyped, JobClicksTyped,
     DialogClicksTyped, CancelTyped, FilePickedTyped, AnsweredDialogTyped DEF User

LEMMA InitTyped ==
    ASSUME Init
    PROVE  TypeInv
<1>1. page \in PageType /\ page.busy = FALSE /\ page.off = {"create"}
  BY ConstantTypes, PanelAssumption DEF Init, PageType, Control
<1>2. PageOK(page)
  BY <1>1 DEF PageOK
<1>3. act \in [Activity -> HandlerSet]
  <2> DEFINE b == [Free EXCEPT !.task = "start", !.pc = "config", !.reply = "pending"]
  <2>1. b \in HandlerType /\ b.pc = "config" /\ b.task = "start" /\ b.reply = "pending"
    BY ConstantTypes DEF HandlerSet, HandlerType, Task, Request, Answer
  <2>2. b \in HandlerSet
    BY <2>1 DEF HandlerSet, HandlerOK
  <2>3. \A i \in Activity : act[i] \in {b, Free} /\ act = [j \in Activity |-> act[j]]
    BY DEF Init
  <2> HIDE DEF b
  <2>4. \A i \in Activity : act[i] \in HandlerSet
    BY <2>2, <2>3, ConstantTypes
  <2>5. act = [j \in Activity |-> act[j]]
    BY DEF Init
  <2> QED
    BY <2>4, <2>5
<1>4. BackendOK
  <2>1. store \in [Pair -> SUBSET Snapshot]
    <3>1. [id |-> 1, cond |-> Saved] \in Snapshot
      BY PanelAssumption DEF Snapshot
    <3> QED
      BY <3>1 DEF Init
  <2>2. job \in [phase : {"running", "done", "over"}, pair : Pair, cond : Condition]
    BY PanelAssumption, ConstantTypes DEF Init, NoJob
  <2> QED
    BY <2>1, <2>2, PanelAssumption DEF BackendOK, Init
<1>5. HistoryOK
  <2>1. 0 \in 0..MaxClicks /\ 0 \in 0..MaxFails
    BY PanelAssumption
  <2>2. {blind, late, failed, unpolled, unheard, opened, doubled} \subseteq BOOLEAN
    BY DEF Init
  <2>3. older \in [Activity -> SUBSET Activity]
    BY DEF Init
  <2> QED
    BY <2>1, <2>2, <2>3 DEF HistoryOK, Init
<1> QED
  BY <1>2, <1>3, <1>4, <1>5 DEF TypeInv

\* TypeInv is inductive: besides the types, a handler sends only the requests
\* of its task and gets only the answers these have, and the lock is whole.
THEOREM PanelInductive == Spec => []TypeInv
<1>1. Init => TypeInv
  BY InitTyped
<1>2. TypeInv /\ [Next]_vars => TypeInv'
  <2> SUFFICES ASSUME TypeInv, [Next]_vars PROVE TypeInv'
    OBVIOUS
  <2>1. CASE Next
    BY <2>1, ServeTyped, AnswersTyped, JobEndsTyped, TimerTyped, UserTyped DEF Next
  <2>2. CASE UNCHANGED vars
    BY <2>2 DEF vars, TypeInv, BackendOK, HistoryOK
  <2> QED
    BY <2>1, <2>2
<1> QED
  BY <1>1, <1>2, PTL DEF Spec

\* The panel's variables have their types, the lock comes with its cancel
\* button, and without the lock no handler leaves the boxes or the other
\* controls off (beginProgress, resetProgress).
THEOREM PanelTypeCorrect == Spec => []TypeOK
<1>1. TypeInv => TypeOK
  <2> SUFFICES ASSUME TypeInv PROVE TypeOK
    OBVIOUS
  <2>1. page \in PageType /\ (page.busy => page.cancel # "hidden")
        /\ (~ page.busy => page.off \cap {"boxes", "rest"} = {})
    BY DEF TypeInv, PageOK
  <2>2. act \in [Activity -> HandlerType]
    BY DEF TypeInv, HandlerSet
  <2> QED
    BY <2>1, <2>2 DEF TypeInv, TypeOK, PageType, HandlerType, BackendOK, HistoryOK
<1> QED
  BY <1>1, PanelInductive, PTL

-----------------------------------------------------------------------------
(* What a step does to the handlers and to the page.                       *)

\* But for handler i, no handler moves, or one is forgotten by its dialog.
Others(i) ==
    \A j \in Activity \ {i} :
        act'[j] = act[j] \/ (act[j].pc = "confirm" /\ act'[j] = Free)

SameSelection(p, q) ==
    q.conn = p.conn /\ q.db = p.db /\ q.offer = p.offer /\ q.options = p.options

SameBoxes(p, q) == q.boxes = p.boxes /\ q.saved = p.saved /\ q.timer = p.timer

\* What loadSnapshots comes to: no list without a database, or a request.
Loads(i, a, p) ==
    /\ Others(i) /\ SameSelection(p, page') /\ SameBoxes(p, page')
    /\ \/ /\ page'.db = NoDb /\ page'.shown = NoList /\ act'[i] = Free
          /\ page'.busy = p.busy \/ a.task \in {"create", "diff"}
       \/ /\ page'.db # NoDb /\ page'.shown = p.shown /\ page'.busy = p.busy
          /\ act'[i].pc = "list" /\ act'[i].pair = <<page'.conn, page'.db>>
          /\ act'[i].task = a.task /\ act'[i].reply = "pending"

LEMMA BecomeMoves ==
    ASSUME Typed, NEW i \in Activity, NEW a, NEW p, Become(i, a, p)
    PROVE  Others(i) /\ act'[i] = a /\ page' = p
  BY DEF Typed, Become, Others

LEMMA EndsMoves ==
    ASSUME Typed, NEW i \in Activity, NEW a, NEW p, PageOK(p), Ends(i, a, p)
    PROVE  /\ Others(i) /\ act'[i] = Free /\ SameShown(p, page')
           /\ IF a.task \in {"create", "diff"} THEN ~ page'.busy
              ELSE page'.busy = p.busy
  BY BecomeMoves, PageEdits DEF Ends, SameShown

LEMMA LoadMoves ==
    ASSUME Typed, NEW i \in Activity, NEW a \in HandlerType, NEW p, PageOK(p),
           LoadSnapshots(i, a, p)
    PROVE  Loads(i, a, p)
<1>1. CASE p.db = NoDb
  <2> DEFINE q == [p EXCEPT !.shown = NoList]
  <2>1. Ends(i, a, q) /\ PageOK(q)
    BY <1>1, ShownOK, ConstantTypes DEF LoadSnapshots
  <2>2. /\ q.conn = p.conn /\ q.db = p.db /\ q.offer = p.offer /\ q.options = p.options
        /\ q.boxes = p.boxes /\ q.saved = p.saved /\ q.timer = p.timer
        /\ q.shown = NoList /\ q.busy = p.busy
    BY DEF PageOK, PageType
  <2> HIDE DEF q
  <2>3. /\ Others(i) /\ act'[i] = Free /\ SameShown(q, page')
        /\ page'.busy = p.busy \/ a.task \in {"create", "diff"}
    BY <2>1, <2>2, EndsMoves
  <2> QED
    BY <1>1, <2>2, <2>3 DEF SameShown, SameSelection, SameBoxes, Loads
<1>2. CASE p.db # NoDb
  <2> DEFINE b == [a EXCEPT !.pair = <<p.conn, p.db>>]
  <2>1. p.conn \in Connection \cup {Placeholder} /\ p.db \in Database \cup {NoDb, Dash}
    BY DEF PageOK, PageType
  <2>2. <<p.conn, p.db>> \in Pair
    BY <2>1, ConstantTypes
  <2>3. b \in HandlerType /\ b.task = a.task /\ b.pair = <<p.conn, p.db>>
    BY <2>2 DEF HandlerType
  <2>4. Become(i, Asks(b, "list"), p)
    BY <1>2 DEF LoadSnapshots
  <2> HIDE DEF b
  <2>5. /\ Asks(b, "list").pc = "list" /\ Asks(b, "list").task = a.task
        /\ Asks(b, "list").pair = <<p.conn, p.db>>
        /\ Asks(b, "list").reply = "pending"
    BY <2>3, AsksFields DEF Request, Settled
  <2>6. Others(i) /\ act'[i] = Asks(b, "list") /\ page' = p
    BY <2>4, BecomeMoves
  <2> QED
    BY <1>2, <2>5, <2>6 DEF SameSelection, SameBoxes, Loads
<1> QED
  BY <1>1, <1>2

\* A load of the start leaves the list to the other one.
Yields(i, a, p) ==
    /\ Others(i) /\ act'[i] = Free /\ page' = p /\ a.task = "start"
    /\ \E j \in Activity \ {i} : act[j].task = "start"

LEMMA LoadedMoves ==
    ASSUME Typed, NEW i \in Activity, NEW a \in HandlerType, NEW p, PageOK(p),
           Loaded(i, a, p)
    PROVE  \/ Yields(i, a, p)
           \/ /\ Loads(i, a, p)
              /\ a.task = "start" => \A j \in Activity \ {i} : act[j].task # "start"
  BY LoadMoves, BecomeMoves DEF Loaded, Yields

LEMMA InfoMoves ==
    ASSUME Typed, NEW i \in Activity, NEW r, InfoRead(i, r)
    PROVE  \E p : /\ PageOK(p) /\ SameSelection(page, p) /\ p.shown = page.shown
                  /\ p.saved = page.saved /\ p.timer = page.timer /\ p.busy = page.busy
                  /\ p.boxes = IF r = "failed" THEN page.boxes ELSE page.saved
                  /\ Loaded(i, act[i], p)
<1> DEFINE q == [page EXCEPT !.boxes = page.saved, !.off = page.off \ {"boxes"}]
<1>1. page \in PageType
  BY DEF Typed, PageOK
<1>2. /\ q \in PageType /\ q.busy = page.busy /\ q.cancel = page.cancel
      /\ q.off = page.off \ {"boxes"} /\ q.boxes = page.saved
      /\ q.saved = page.saved /\ q.timer = page.timer /\ q.shown = page.shown
      /\ q.conn = page.conn /\ q.db = page.db /\ q.offer = page.offer
      /\ q.options = page.options
  BY <1>1 DEF PageType, Control
<1>3. Loaded(i, act[i], IF r = "failed" THEN page ELSE q)
  BY DEF InfoRead
<1> HIDE DEF q
<1>4. PageOK(page) /\ PageOK(q)
  BY <1>2, PageChange DEF Typed
<1>5. SameSelection(page, page) /\ SameSelection(page, q)
  BY <1>2 DEF SameSelection
<1> QED
  BY <1>2, <1>3, <1>4, <1>5

LEMMA ConnectionsMoves ==
    ASSUME Typed, NEW i \in Activity, NEW r, ConnectionsRead(i, r)
    PROVE  \/ /\ r # "failed" /\ Others(i)
              /\ act'[i].pc = "databases" /\ act'[i].task = act[i].task
              /\ act'[i].pair[1] = page'.conn
              /\ SameBoxes(page, page') /\ page'.busy = page.busy
           \/ /\ r = "failed"
              /\ \E q : /\ PageOK(q) /\ SameBoxes(page, q) /\ q.busy = page.busy
                        /\ Loaded(i, act[i], q)
<1> DEFINE a == act[i]
           p == [page EXCEPT !.conn = FirstConnection, !.loaded = TRUE,
                    !.off = (page.off \ {"connection", "create"}) \cup {"database"}]
           q == [page EXCEPT !.conn = Placeholder]
           b == [a EXCEPT !.pair = <<p.conn, p.db>>]
<1>1. page \in PageType /\ a \in HandlerType
  BY HandlerIn DEF Typed, PageOK
<1>2. p.conn = FirstConnection /\ p.db = page.db /\ SameBoxes(page, p)
      /\ p.busy = page.busy
  BY <1>1 DEF PageType, SameBoxes
<1>3. /\ q \in PageType /\ q.busy = page.busy /\ q.cancel = page.cancel
      /\ q.off = page.off /\ SameBoxes(page, q)
  BY <1>1 DEF PageType, SameBoxes
<1>4. IF r # "failed" THEN Become(i, Asks(b, "databases"), p) ELSE Loaded(i, a, q)
  BY DEF ConnectionsRead
<1>5. b \in HandlerType /\ b.task = a.task /\ b.pair = <<p.conn, p.db>>
  <2>1. <<p.conn, p.db>> \in Pair
    BY <1>1, <1>2, PanelAssumption DEF PageType, Pair
  <2> HIDE DEF p
  <2> QED
    BY <1>1, <2>1 DEF HandlerType
<1> HIDE DEF p, q, b
<1>6. PageOK(q)
  BY <1>3, PageChange DEF Typed
<1>7. CASE r # "failed"
  <2>1. Others(i) /\ act'[i] = Asks(b, "databases") /\ page' = p
    BY <1>4, <1>7, BecomeMoves
  <2>2. /\ Asks(b, "databases").pc = "databases" /\ Asks(b, "databases").task = a.task
        /\ Asks(b, "databases").pair = <<p.conn, p.db>>
    BY <1>5, AsksFields DEF Request
  <2> QED
    BY <1>2, <1>7, <2>1, <2>2
<1> QED
  BY <1>3, <1>4, <1>6, <1>7

LEMMA DatabasesMoves ==
    ASSUME Typed, NEW i \in Activity, NEW r, DatabasesRead(i, r)
    PROVE  \E p : /\ PageOK(p) /\ SameBoxes(page, p) /\ p.busy = page.busy
                  /\ p.conn = page.conn /\ p.offer = act[i].pair[1]
                  /\ p.db \in p.options \cup {NoDb} /\ Loaded(i, act[i], p)
<1> DEFINE a == act[i]
           names == IF r = "failed" THEN {} ELSE Databases[a.pair[1]]
           p == FillDatabases(page, a.pair[1], names)
<1>1. a.pair[1] \in Connection
  BY HandlerIn DEF HandlerOK, DatabasesRead
<1>2. names \in SUBSET Database
  BY <1>1, PanelAssumption
<1>3. Loaded(i, a, p)
  BY DEF DatabasesRead
<1>4. SameBoxes(page, p) /\ p.busy = page.busy /\ p.conn = page.conn
  BY DEF Typed, PageOK, PageType, FillDatabases, SameBoxes
<1> HIDE DEF a, names
<1>5. PageOK(p) /\ p.offer = a.pair[1] /\ p.db = Configured[a.pair[1]]
      /\ p.options = names \cup ({Configured[a.pair[1]]} \ {NoDb})
  BY <1>1, <1>2, FilledOK DEF Typed
<1> HIDE DEF p
<1> QED
  BY <1>3, <1>4, <1>5 DEF a

LEMMA ListMoves ==
    ASSUME Typed, NEW i \in Activity, NEW r, ListRead(i, r)
    PROVE  /\ Others(i) /\ act'[i] = Free
           /\ SameSelection(page, page') /\ SameBoxes(page, page')
           /\ page'.shown = IF r = "failed" THEN NoList
                            ELSE [pair |-> act[i].pair, snaps |-> act[i].snaps]
           /\ IF act[i].task \in {"create", "diff"} THEN ~ page'.busy
              ELSE page'.busy = page.busy
<1>1. act[i] \in HandlerType
  BY HandlerIn
<1> DEFINE l == IF r = "failed" THEN NoList
                ELSE [pair |-> act[i].pair, snaps |-> act[i].snaps]
           q == [page EXCEPT !.shown = l]
<1>2. l \in [pair : Pair, snaps : SUBSET Snapshot]
  BY <1>1, ConstantTypes DEF HandlerType
<1>3. Ends(i, act[i], q)
  BY DEF ListRead
<1>4. /\ q.conn = page.conn /\ q.db = page.db /\ q.offer = page.offer
      /\ q.options = page.options /\ q.shown = l /\ q.busy = page.busy
      /\ q.boxes = page.boxes /\ q.saved = page.saved /\ q.timer = page.timer
  BY DEF Typed, PageOK, PageType
<1>5. PageOK(q)
  BY <1>2, ShownOK DEF Typed
<1> HIDE DEF q
<1>6. /\ Others(i) /\ act'[i] = Free /\ SameShown(q, page')
      /\ IF act[i].task \in {"create", "diff"} THEN ~ page'.busy
         ELSE page'.busy = q.busy
  BY <1>3, <1>5, EndsMoves
<1> QED
  BY <1>4, <1>6 DEF SameShown, SameSelection, SameBoxes

LEMMA SavedMoves ==
    ASSUME Typed, NEW i \in Activity, NEW r, ConfigSaved(i, r)
    PROVE  /\ Others(i) /\ SameShown(page, page')
           /\ \/ /\ act[i].task \in {"create", "diff"} /\ page'.busy
                 /\ act'[i].pc = act[i].task /\ act'[i].task = act[i].task
                 /\ act'[i].reply = "pending"
              \/ act'[i] = Free /\ page' = page
<1>1. act[i] \in HandlerType
  BY HandlerIn
<1>2. CASE act[i].task = "create"
  <2>1. Become(i, Asks(Handler("create"), "create"), BeginProgress(page))
    BY <1>2 DEF ConfigSaved
  <2>2. Handler("create") \in HandlerType /\ Handler("create").task = "create"
    BY HandlerFields DEF Typed, Task
  <2>3. /\ Asks(Handler("create"), "create").pc = "create"
        /\ Asks(Handler("create"), "create").task = "create"
        /\ Asks(Handler("create"), "create").reply = "pending"
    BY <2>2, AsksFields DEF Request, Settled
  <2> QED
    BY <1>2, <2>1, <2>3, BecomeMoves, PageEdits DEF Typed
<1>3. CASE act[i].task = "diff"
  <2>1. Become(i, Asks(act[i], "diff"), BeginProgress(page))
    BY <1>3 DEF ConfigSaved
  <2>2. /\ Asks(act[i], "diff").pc = "diff" /\ Asks(act[i], "diff").task = "diff"
        /\ Asks(act[i], "diff").reply = "pending"
    BY <1>1, <1>3, AsksFields DEF Request, Settled
  <2> QED
    BY <1>3, <2>1, <2>2, BecomeMoves, PageEdits DEF Typed
<1>4. CASE act[i].task \notin {"create", "diff"}
  <2>1. Become(i, Free, page)
    BY <1>4 DEF ConfigSaved
  <2> QED
    BY <2>1, BecomeMoves DEF SameShown
<1> QED
  BY <1>2, <1>3, <1>4

LEMMA StartedMoves ==
    ASSUME Typed, NEW i \in Activity, NEW r, JobStarted(i, r)
    PROVE  /\ Others(i) /\ SameShown(page, page')
           /\ \/ r \notin {"failed", "confirm"} /\ page'.busy = page.busy
                 /\ act'[i].pc = "poll" /\ act'[i].reply = "pending"
              \/ r \in {"failed", "confirm"} /\ act'[i].pc \in {"free", "confirm"}
<1>1. act[i] \in HandlerType
  BY HandlerIn
<1>2. CASE r = "failed"
  BY <1>2, BecomeMoves, PageEdits DEF JobStarted, Typed, Free
<1>3. CASE r = "confirm"
  <2>1. OpenDialog(i, act[i], ResetProgress(page))
    BY <1>3 DEF JobStarted
  <2>2. Others(i) /\ page' = ResetProgress(page)
        /\ act'[i] = [act[i] EXCEPT !.pc = "confirm", !.reply = "ok"]
    BY <2>1 DEF OpenDialog, Others
  <2>3. act'[i].pc = "confirm"
    BY <1>1, <2>2 DEF HandlerType
  <2> QED
    BY <1>3, <2>2, <2>3, PageEdits DEF Typed
<1>4. CASE r \notin {"failed", "confirm"}
  <2>1. Become(i, Asks(act[i], "poll"), page)
    BY <1>4 DEF JobStarted
  <2>2. Asks(act[i], "poll").pc = "poll" /\ Asks(act[i], "poll").reply = "pending"
    BY <1>1, AsksFields DEF Request, Settled
  <2> QED
    BY <1>4, <2>1, <2>2, BecomeMoves DEF SameShown
<1> QED
  BY <1>2, <1>3, <1>4

LEMMA PolledMoves ==
    ASSUME Typed, NEW i \in Activity, NEW r, Polled(i, r)
    PROVE  \/ r = "done" /\ Loads(i, act[i], page)
           \/ /\ r # "done" /\ Others(i) /\ act'[i] = Free /\ SameShown(page, page')
<1>1. act[i] \in HandlerType /\ PageOK(page)
  BY HandlerIn DEF Typed
<1>2. CASE r = "done"
  BY <1>1, <1>2, LoadMoves DEF Polled
<1>3. CASE r # "done"
  <2>1. Become(i, Free, page) \/ Ends(i, act[i], page)
    BY <1>3 DEF Polled
  <2> QED
    BY <1>1, <1>3, <2>1, BecomeMoves, EndsMoves DEF SameShown
<1> QED
  BY <1>2, <1>3

LEMMA DeletedMoves ==
    ASSUME Typed, NEW i \in Activity, NEW r, Deleted(i, r)
    PROVE  \/ r # "failed" /\ Loads(i, act[i], page)
           \/ r = "failed" /\ Others(i) /\ act'[i] = Free /\ page' = page
<1>1. act[i] \in HandlerType /\ PageOK(page)
  BY HandlerIn DEF Typed
<1> QED
  BY <1>1, LoadMoves, BecomeMoves DEF Deleted

\* No request of the panel is under way for it.
Idle(a) == a.pc \in {"free", "confirm", "picker"}

\* The boxes or the timer change, and no handler moves.
Edits ==
    /\ act' = act /\ older' = older /\ SameSelection(page, page')
    /\ page'.shown = page.shown /\ page'.busy = page.busy
    /\ page'.saved = page.saved /\ (page'.boxes = NoBoxes <=> page.boxes = NoBoxes)
    /\ page'.boxes = page.boxes \/ page'.boxes \in entered' \cup {Saved}
    /\ page'.timer \/ (page'.timer = page.timer /\ page'.boxes = page.boxes)

\* What the boxes say now is sent to be saved.
SendsBoxes(i) ==
    /\ Idle(act[i]) /\ Others(i) /\ Track
    /\ act'[i].pc = "save" /\ act'[i].reply = "pending"
    /\ act'[i].cond = page'.saved /\ act'[i].task # "start" /\ ~ page'.timer
    /\ SameSelection(page, page') /\ page'.shown = page.shown /\ page'.busy = page.busy
    /\ page.boxes = NoBoxes => blind'
    /\ page.boxes # NoBoxes =>
         /\ page'.boxes # NoBoxes /\ page'.boxes = page'.saved
         /\ page'.boxes = page.boxes \/ page'.boxes \in entered' \cup {Saved}

\* The list is asked for, perhaps after another database was picked.
AsksList(i) ==
    /\ Idle(act[i]) /\ Track /\ SameBoxes(page, page') /\ page'.busy = page.busy
    /\ page'.conn = page.conn /\ page'.offer = page.offer
    /\ page'.options = page.options
    /\ page'.db \in page.options \cup {NoDb} \/ page'.db = page.db
    /\ act'[i].task # "start"
    /\ (page'.db = NoDb /\ \E j \in Activity : act[j].pc = "list") => late'
    /\ \E a \in HandlerType : \E p : a.task = "list" /\ Loads(i, a, p)

\* Connections or databases are asked for.
AsksNames(i) ==
    /\ Idle(act[i]) /\ Others(i) /\ Track /\ act'[i].task \in {"refresh", "pick"}
    /\ SameBoxes(page, page') /\ page'.busy = page.busy
    /\ \/ act'[i].pc = "connections" /\ SameSelection(page, page')
       \/ act'[i].pc = "databases" /\ act'[i].pair[1] = page'.conn

\* A dialog opens or is answered.
Dialogs(i) ==
    /\ Idle(act[i]) /\ Others(i) /\ Track /\ act'[i].task # "start"
    /\ SameShown(page, page')
    /\ \/ (Idle(act'[i]) \/ act'[i].pc = "delete") /\ page'.busy = page.busy
       \/ /\ act'[i].pc = "force" /\ act'[i].reply = "pending"
          /\ page'.busy /\ (page.busy => doubled')

LEMMA SavesMoves ==
    ASSUME TypeInv, NEW a \in HandlerType, a.cond = Current, a.task # "start",
           Saves(a, SaveConfig(page))
    PROVE  \E i \in Activity : SendsBoxes(i)
<1>1. New \in Activity /\ act[New] = Free /\ Track
      /\ Become(New, Asks(a, "save"), SaveConfig(page))
      /\ (page.boxes = NoBoxes => blind')
  BY NewFree DEF Saves, Starts
<1>2. /\ Asks(a, "save").pc = "save" /\ Asks(a, "save").reply = "pending"
      /\ Asks(a, "save").cond = Current /\ Asks(a, "save").task = a.task
  BY AsksFields DEF Request, Settled
<1>3. Typed /\ PageOK(page)
  BY DEF TypeInv, Typed
<1>4. Others(New) /\ act'[New] = Asks(a, "save") /\ page' = SaveConfig(page)
  BY <1>1, <1>3, BecomeMoves
<1>5. Idle(act[New])
  BY <1>1 DEF Idle, Free
<1>6. /\ page'.boxes = page.boxes /\ page'.saved = Current /\ page'.timer = FALSE
      /\ SameSelection(page, page') /\ page'.shown = page.shown
      /\ page'.busy = page.busy
  BY <1>3, <1>4, SaveConfigOK DEF SameSelection
<1>7. page.boxes # NoBoxes => Current = page.boxes
  BY DEF Current
<1> QED
  BY <1>1, <1>2, <1>4, <1>5, <1>6, <1>7 DEF SendsBoxes

LEMMA ApplyMoves ==
    ASSUME TypeInv, NEW i \in Activity, Idle(act[i]), act[i].task = "import",
           NEW c \in Condition, Apply(i, c), Track
    PROVE  SendsBoxes(i)
<1> DEFINE p == Imported(c)
           b == [act[i] EXCEPT !.cond = p.saved]
<1>1. Become(i, Asks(b, "save"), p)
  BY DEF Apply, Imported
<1>2. act[i] \in HandlerType /\ Typed /\ PageOK(page) /\ c # NoBoxes
  BY HandlerIn, PanelAssumption DEF TypeInv, Typed
<1>3. /\ PageOK(p) /\ p.conn = page.conn /\ p.db = page.db /\ p.offer = page.offer
      /\ p.options = page.options /\ p.shown = page.shown /\ p.timer = FALSE
      /\ p.busy = page.busy
      /\ p.boxes = IF page.boxes = NoBoxes THEN NoBoxes ELSE c
      /\ p.saved = IF page.boxes = NoBoxes THEN Blank ELSE c
  BY <1>2, ImportedOK
<1> HIDE DEF p
<1>4. b \in HandlerType /\ b.cond = p.saved /\ b.task = "import"
  BY <1>2, <1>3 DEF HandlerType, PageOK, PageType
<1> HIDE DEF b
<1>5. /\ Asks(b, "save").pc = "save" /\ Asks(b, "save").reply = "pending"
      /\ Asks(b, "save").cond = p.saved /\ Asks(b, "save").task = "import"
  BY <1>4, AsksFields DEF Request, Settled
<1>6. Others(i) /\ act'[i] = Asks(b, "save") /\ page' = p
  BY <1>1, <1>2, BecomeMoves
<1>7. (page.boxes = NoBoxes => blind') /\ c \in entered' \cup {Saved}
  BY DEF Apply
<1> QED
  BY <1>2, <1>3, <1>5, <1>6, <1>7 DEF SendsBoxes, SameSelection

LEMMA ListsMoves ==
    ASSUME TypeInv, NEW p, PageOK(p), Lists(p), SameBoxes(page, p),
           p.busy = page.busy, p.conn = page.conn, p.offer = page.offer,
           p.options = page.options,
           p.db \in page.options \cup {NoDb} \/ p.db = page.db
    PROVE  \E i \in Activity : AsksList(i)
<1>1. New \in Activity /\ act[New] = Free /\ Track
      /\ LoadSnapshots(New, Handler("list"), p)
  BY NewFree DEF Lists
<1>2. Handler("list") \in HandlerType /\ Handler("list").task = "list"
  BY HandlerFields DEF TypeInv, Task
<1>3. Loads(New, Handler("list"), p)
  BY <1>1, <1>2, LoadMoves DEF TypeInv, Typed
<1>4. Idle(act[New]) /\ Free.task = "list"
  BY <1>1 DEF Idle, Free
<1>5. /\ SameBoxes(page, page') /\ page'.busy = page.busy
      /\ page'.conn = page.conn /\ page'.offer = page.offer
      /\ page'.options = page.options /\ page'.db = p.db
      /\ act'[New].task # "start"
  BY <1>2, <1>3, <1>4 DEF Loads, SameSelection, SameBoxes
<1>6. (page'.db = NoDb /\ \E j \in Activity : act[j].pc = "list") => late'
  BY <1>1, <1>4, <1>5 DEF Lists
<1> QED
  BY <1>1, <1>2, <1>3, <1>4, <1>5, <1>6 DEF AsksList

LEMMA EditsMoves ==
    ASSUME TypeInv, (\E c \in Condition : Type(c)) \/ TypeSchema \/ ClickCancel
    PROVE  Edits
<1>1. page \in PageType
  BY DEF TypeInv, PageOK
<1>2. CASE \E c \in Condition : Type(c)
  <2>1. PICK c \in Condition : Type(c)
    BY <1>2
  <2>2. page' = [page EXCEPT !.boxes = c, !.timer = TRUE] /\ page.boxes # NoBoxes
    BY <2>1 DEF Type
  <2>3. /\ page'.boxes = c /\ page'.timer = TRUE /\ SameSelection(page, page')
        /\ page'.shown = page.shown /\ page'.busy = page.busy
        /\ page'.saved = page.saved
    BY <1>1, <2>2 DEF PageType, SameSelection
  <2>4. c \in entered' \cup {Saved} /\ act' = act /\ older' = older
    BY <2>1 DEF Type
  <2> QED
    BY <2>2, <2>3, <2>4, PanelAssumption DEF Edits
<1>3. CASE TypeSchema \/ ClickCancel
  <2>1. act' = act /\ older' = older
    BY <1>3 DEF TypeSchema, ClickCancel
  <2>2. page' = [page EXCEPT !.timer = TRUE] \/ page' = [page EXCEPT !.cancel = "asked"]
    BY <1>3 DEF TypeSchema, ClickCancel
  <2>3. /\ page'.boxes = page.boxes /\ (page'.timer = TRUE \/ page'.timer = page.timer)
        /\ SameSelection(page, page') /\ page'.shown = page.shown
        /\ page'.busy = page.busy /\ page'.saved = page.saved
    BY <1>1, <2>2 DEF PageType, SameSelection
  <2> QED
    BY <2>1, <2>3 DEF Edits
<1> QED
  BY <1>2, <1>3

LEMMA StartsMoves ==
    ASSUME TypeInv, NEW a, NEW p, Starts(a, p)
    PROVE  \E i \in Activity : /\ Idle(act[i]) /\ Others(i) /\ Track
                               /\ act'[i] = a /\ page' = p
<1>1. New \in Activity /\ act[New] = Free /\ Track /\ Become(New, a, p)
  BY NewFree DEF Starts
<1>2. Idle(act[New])
  BY <1>1 DEF Idle, Free
<1> QED
  BY <1>1, <1>2, BecomeMoves DEF TypeInv, Typed

LEMMA NamesMoves ==
    ASSUME TypeInv, ClickRefresh \/ \E c \in Connection : PickConnection(c)
    PROVE  \E i \in Activity : AsksNames(i)
<1>1. page \in PageType
  BY DEF TypeInv, PageOK
<1>2. CASE ClickRefresh
  <2> DEFINE p == [page EXCEPT !.off = page.off \cup {"connection"}]
             b == Asks(Handler("refresh"), "connections")
  <2>1. Starts(b, p)
    BY <1>2 DEF ClickRefresh
  <2>2. SameBoxes(page, p) /\ p.busy = page.busy /\ SameSelection(page, p)
    BY <1>1 DEF PageType, SameBoxes, SameSelection
  <2>3. b.pc = "connections" /\ b.task = "refresh"
    <3>1. Handler("refresh") \in HandlerType /\ Handler("refresh").task = "refresh"
      BY HandlerFields DEF TypeInv, Task
    <3> QED
      BY <3>1, AsksFields DEF Request
  <2> HIDE DEF p, b
  <2>4. PICK i \in Activity : /\ Idle(act[i]) /\ Others(i) /\ Track
                              /\ act'[i] = b /\ page' = p
    BY <2>1, StartsMoves
  <2> QED
    BY <2>2, <2>3, <2>4 DEF AsksNames
<1>3. CASE \E c \in Connection : PickConnection(c)
  <2>1. PICK c \in Connection : PickConnection(c)
    BY <1>3
  <2> DEFINE p == [page EXCEPT !.conn = c, !.off = page.off \cup {"database"}]
             h == Handler("pick")
             a == [h EXCEPT !.pair[1] = c]
  <2>2. Starts(Asks(a, "databases"), p)
    BY <2>1 DEF PickConnection
  <2>3. SameBoxes(page, p) /\ p.busy = page.busy /\ p.conn = c
    BY <1>1 DEF PageType, SameBoxes
  <2>4. h \in HandlerType /\ h.task = "pick" /\ h.pair = <<page.conn, page.db>>
    BY HandlerFields DEF TypeInv, Task
  <2>5. <<c, page.db>> \in Pair
    BY <1>1 DEF PageType, Pair
  <2> HIDE DEF h, p
  <2>6. a \in HandlerType /\ a.task = "pick" /\ a.pair[1] = c
    <3>1. a = [h EXCEPT !.pair = [h.pair EXCEPT ![1] = c]]
      BY <2>4 DEF HandlerType
    <3>2. a = [h EXCEPT !.pair = <<c, page.db>>]
      BY <2>4, <3>1, TupleUpdate
    <3> HIDE DEF a
    <3>3. a \in HandlerType /\ a.task = "pick" /\ a.pair = <<c, page.db>>
      BY <2>4, <2>5, <3>2 DEF HandlerType
    <3> QED
      BY <3>3
  <2> HIDE DEF a
  <2>7. /\ Asks(a, "databases").pc = "databases" /\ Asks(a, "databases").task = "pick"
        /\ Asks(a, "databases").pair[1] = c
    BY <2>6, AsksFields DEF Request
  <2>8. PICK i \in Activity : /\ Idle(act[i]) /\ Others(i) /\ Track
                              /\ act'[i] = Asks(a, "databases") /\ page' = p
    BY <2>2, StartsMoves
  <2> QED
    BY <2>3, <2>7, <2>8 DEF AsksNames
<1> QED
  BY <1>2, <1>3

LEMMA ClickDialogMoves ==
    ASSUME TypeInv, ClickImport \/ \E s \in page.shown.snaps : ClickDelete(s)
    PROVE  \E i \in Activity : Dialogs(i)
<1>1. PICK a : Starts(a, page) /\ Idle(a) /\ a.task # "start"
  <2>1. CASE ClickImport
    <3> DEFINE h == Handler("import")
    <3>1. h \in HandlerType /\ h.task = "import"
      BY HandlerFields DEF TypeInv, Task
    <3>2. Starts([h EXCEPT !.pc = "picker"], page)
      BY <2>1 DEF ClickImport
    <3> HIDE DEF h
    <3>3. [h EXCEPT !.pc = "picker"].pc = "picker"
          /\ [h EXCEPT !.pc = "picker"].task = "import"
      BY <3>1 DEF HandlerType
    <3> QED
      BY <3>2, <3>3 DEF Idle
  <2>2. CASE \E s \in page.shown.snaps : ClickDelete(s)
    <3> DEFINE h == Handler("delete")
    <3>1. PICK s \in page.shown.snaps :
            Starts([h EXCEPT !.pc = "confirm", !.snaps = {s},
                             !.pair = page.shown.pair], page)
      BY <2>2 DEF ClickDelete
    <3>2. h \in HandlerType /\ h.task = "delete"
      BY HandlerFields DEF TypeInv, Task
    <3> DEFINE a == [h EXCEPT !.pc = "confirm", !.snaps = {s}, !.pair = page.shown.pair]
    <3> HIDE DEF h
    <3>3. a.pc = "confirm" /\ a.task = "delete"
      BY <3>2 DEF HandlerType
    <3> QED
      BY <3>1, <3>3 DEF Idle
  <2> QED
    BY <2>1, <2>2
<1>2. PICK i \in Activity : /\ Idle(act[i]) /\ Others(i) /\ Track
                            /\ act'[i] = a /\ page' = page
  BY <1>1, StartsMoves
<1> QED
  BY <1>1, <1>2 DEF Dialogs, SameShown

LEMMA FilePickedMoves ==
    ASSUME TypeInv, NEW i \in Activity, NEW c \in Condition, FilePicked(i, c)
    PROVE  SendsBoxes(i) \/ Dialogs(i)
<1>1. act[i] \in HandlerType /\ act[i].task = "import" /\ Typed /\ Idle(act[i]) /\ Track
  BY HandlerIn DEF TypeInv, Typed, HandlerOK, FilePicked, Idle
<1>2. CASE Become(i, Free, page)
  <2>1. Others(i) /\ act'[i] = Free /\ page' = page
    BY <1>1, <1>2, BecomeMoves
  <2> QED
    BY <1>1, <2>1 DEF Dialogs, SameShown, Idle, Free
<1>3. CASE OpenDialog(i, [act[i] EXCEPT !.cond = c], page)
  <2> DEFINE b == [act[i] EXCEPT !.cond = c]
  <2>1. Others(i) /\ page' = page /\ act'[i] = [b EXCEPT !.pc = "confirm", !.reply = "ok"]
    BY <1>3 DEF OpenDialog, Others
  <2>2. b \in HandlerType /\ b.task = "import"
    BY <1>1 DEF HandlerType
  <2> HIDE DEF b
  <2>3. act'[i].pc = "confirm" /\ act'[i].task = "import"
    BY <2>1, <2>2 DEF HandlerType
  <2> QED
    BY <1>1, <2>1, <2>3 DEF Dialogs, SameShown, Idle
<1>4. CASE Apply(i, c)
  BY <1>1, <1>4, ApplyMoves
<1> QED
  BY <1>2, <1>3, <1>4 DEF FilePicked

LEMMA AnsweredDialogMoves ==
    ASSUME TypeInv, NEW i \in Activity, Refuses(i) \/ Confirms(i)
    PROVE  SendsBoxes(i) \/ Dialogs(i)
<1>1. /\ act[i] \in HandlerType /\ act[i].task \in {"delete", "diff", "import"}
      /\ Typed /\ Idle(act[i]) /\ Track
  BY HandlerIn DEF TypeInv, Typed, HandlerOK, Refuses, Confirms, Idle
<1>2. CASE Refuses(i)
  <2>1. Others(i) /\ act'[i] = Free /\ page' = page
    BY <1>1, <1>2, BecomeMoves DEF Refuses
  <2> QED
    BY <1>1, <2>1 DEF Dialogs, SameShown, Idle, Free
<1>3. CASE Confirms(i) /\ act[i].task = "delete"
  <2>1. Become(i, Asks(act[i], "delete"), page)
    BY <1>3 DEF Confirms
  <2>2. Others(i) /\ act'[i] = Asks(act[i], "delete") /\ page' = page
    BY <1>1, <2>1, BecomeMoves
  <2>3. act'[i].pc = "delete" /\ act'[i].task = "delete"
    BY <1>1, <1>3, <2>2, AsksFields DEF Request
  <2> QED
    BY <1>1, <2>2, <2>3 DEF Dialogs, SameShown
<1>4. CASE Confirms(i) /\ act[i].task = "diff"
  <2>1. Become(i, Asks(act[i], "force"), BeginProgress(page))
        /\ (page.busy => doubled')
    BY <1>4 DEF Confirms
  <2>2. Others(i) /\ act'[i] = Asks(act[i], "force") /\ page' = BeginProgress(page)
    BY <1>1, <2>1, BecomeMoves
  <2>3. act'[i].pc = "force" /\ act'[i].task = "diff" /\ act'[i].reply = "pending"
    BY <1>1, <1>4, <2>2, AsksFields DEF Request, Settled
  <2> QED
    BY <1>1, <2>1, <2>2, <2>3, PageEdits DEF Dialogs, TypeInv
<1>5. CASE Confirms(i) /\ act[i].task = "import"
  <2>1. Apply(i, act[i].cond) /\ act[i].cond \in Condition
    BY <1>1, <1>5 DEF Confirms, HandlerType
  <2> QED
    BY <1>1, <1>5, <2>1, ApplyMoves
<1> QED
  BY <1>1, <1>2, <1>3, <1>4, <1>5

\* The steps of the user, and that of the timer.
LEMMA UserMoves ==
    ASSUME TypeInv, User \/ TimerFires
    PROVE  \/ Edits
           \/ \E i \in Activity :
                SendsBoxes(i) \/ AsksList(i) \/ AsksNames(i) \/ Dialogs(i)
<1>1. CASE TimerFires \/ ClickCreate \/ \E s \in page.shown.snaps : ClickCompare(s)
  <2>1. PICK a \in HandlerType : /\ a.cond = Current /\ a.task # "start"
                                 /\ Saves(a, SaveConfig(page))
    <3>1. CASE TimerFires
      BY <3>1, HandlerFields DEF TimerFires, TypeInv, Task
    <3>2. CASE ClickCreate
      BY <3>2, HandlerFields DEF ClickCreate, TypeInv, Task
    <3>3. CASE \E s \in page.shown.snaps : ClickCompare(s)
      <4>1. PICK s \in page.shown.snaps :
              Saves([Handler("diff") EXCEPT !.snaps = {s}], SaveConfig(page))
        BY <3>3 DEF ClickCompare
      <4>2. Handler("diff") \in HandlerType /\ Handler("diff").task = "diff"
            /\ Handler("diff").cond = Current /\ s \in Snapshot
        BY HandlerFields DEF TypeInv, Task, PageOK, PageType
      <4>3. [Handler("diff") EXCEPT !.snaps = {s}] \in HandlerType
            /\ [Handler("diff") EXCEPT !.snaps = {s}].task = "diff"
            /\ [Handler("diff") EXCEPT !.snaps = {s}].cond = Current
        BY <4>2 DEF HandlerType
      <4> QED
        BY <4>1, <4>3
    <3> QED
      BY <1>1, <3>1, <3>2, <3>3
  <2> QED
    BY <2>1, SavesMoves
<1>2. CASE ClickReload \/ \E d \in Database \cup {NoDb} : PickDatabase(d)
  <2>1. CASE ClickReload
    BY <2>1, ListsMoves DEF ClickReload, TypeInv, SameBoxes
  <2>2. CASE \E d \in Database \cup {NoDb} : PickDatabase(d)
    <3>1. PICK d \in Database \cup {NoDb} : PickDatabase(d)
      BY <2>2
    <3> DEFINE p == [page EXCEPT !.db = d]
    <3>2. page \in PageType /\ d \in page.options \cup {NoDb} /\ Lists(p)
      BY <3>1 DEF PickDatabase, Entries, TypeInv, PageOK
    <3>3. /\ PageOK(p) /\ SameBoxes(page, p) /\ p.busy = page.busy
          /\ p.conn = page.conn /\ p.offer = page.offer /\ p.options = page.options
          /\ p.db = d
      BY <3>2 DEF TypeInv, PageOK, PageType, SameBoxes
    <3> HIDE DEF p
    <3> QED
      BY <3>2, <3>3, ListsMoves
  <2> QED
    BY <1>2, <2>1, <2>2
<1> QED
  BY <1>1, <1>2, EditsMoves, NamesMoves, ClickDialogMoves, FilePickedMoves,
     AnsweredDialogMoves DEF User

\* The history is never forgotten.
Grows ==
    /\ blind => blind'
    /\ late => late'
    /\ failed => failed'
    /\ doubled => doubled'
    /\ entered \subseteq entered'

LEMMA ApplyGrows ==
    ASSUME NEW i, NEW c, Apply(i, c)
    PROVE  (blind => blind') /\ entered \subseteq entered'
<1>1. entered' = entered \cup ({c} \ {Saved})
  BY DEF Apply
<1>2. blind' = (blind \/ page.boxes = NoBoxes)
  BY DEF Apply
<1> QED
  BY <1>1, <1>2

LEMMA ClickGrows ==
    ASSUME NEW control, Click(control)
    PROVE  (failed => failed') /\ (doubled => doubled')
  BY DEF Click

LEMMA HistoryGrows ==
    ASSUME TypeInv, Next
    PROVE  Grows
<1>1. CASE \E i \in Activity : Serve(i)
  <2>1. UNCHANGED <<entered, blind, failed, doubled>>
    BY <1>1 DEF Serve
  <2>2. late => late'
    BY <1>1 DEF Serve, ServeConfig, ServeSave, ServeList, ServeStart, ServeStatus,
       ServeDelete
  <2> QED
    BY <2>1, <2>2 DEF Grows
<1>2. CASE \E i \in Activity : Answered(i) \/ TimesOut(i)
  <2>1. PICK i, r : i \in Activity /\ Continue(i, r)
    BY <1>2 DEF Answered, TimesOut
  <2>2. /\ blind => blind'
        /\ late => late'
        /\ doubled => doubled'
        /\ entered' = entered
    BY <2>1 DEF Continue
  <2>3. failed => failed'
    BY <1>2 DEF Answered, TimesOut
  <2> QED
    BY <2>2, <2>3 DEF Grows
<1>3. CASE JobEnds
  BY <1>3 DEF JobEnds, Grows
<1>4. CASE TimerFires
  BY <1>4 DEF TimerFires, Saves, Grows
<1>5. CASE User
  <2>1. CASE \E i \in Activity : Confirms(i)
    <3>1. PICK i \in Activity : Confirms(i)
      BY <2>1
    <3>2. UNCHANGED <<late, failed>> /\ (doubled => doubled')
      BY <3>1 DEF Confirms
    <3>3. UNCHANGED <<entered, blind>> \/ \E c : Apply(i, c)
      BY <3>1 DEF Confirms
    <3> QED
      BY <3>2, <3>3, ApplyGrows DEF Grows
  <2>2. CASE \E i \in Activity : Refuses(i) \/ \E c \in Condition : FilePicked(i, c)
    <3>1. UNCHANGED <<late, failed, doubled>>
      BY <2>2 DEF Refuses, FilePicked
    <3>2. UNCHANGED <<entered, blind>> \/ \E i, c : Apply(i, c)
      BY <2>2 DEF Refuses, FilePicked
    <3> QED
      BY <3>1, <3>2, ApplyGrows DEF Grows
  <2>3. CASE ClickCancel
    BY <2>3 DEF ClickCancel, Grows
  <2>4. CASE (\E c \in Condition : Type(c)) \/ TypeSchema
             \/ (\E c \in Connection : PickConnection(c))
             \/ ClickRefresh \/ ClickImport \/ \E s \in page.shown.snaps : ClickDelete(s)
    <3>1. \E control : Click(control)
      BY <2>4 DEF Type, TypeSchema, PickConnection, ClickRefresh, ClickImport, ClickDelete
    <3>2. UNCHANGED <<blind, late>> /\ entered \subseteq entered'
      BY <2>4 DEF Type, TypeSchema, PickConnection, ClickRefresh, ClickImport, ClickDelete
    <3> QED
      BY <3>1, <3>2, ClickGrows DEF Grows
  <2>5. CASE (\E d \in Database \cup {NoDb} : PickDatabase(d)) \/ ClickReload
             \/ ClickCreate \/ \E s \in page.shown.snaps : ClickCompare(s)
    <3>1. \E control : Click(control)
      BY <2>5 DEF PickDatabase, ClickReload, ClickCreate, ClickCompare
    <3>2. entered' = entered
      BY <2>5 DEF PickDatabase, ClickReload, ClickCreate, ClickCompare, Lists
    <3>3. UNCHANGED blind \/ \E a, p : Saves(a, p)
      BY <2>5 DEF PickDatabase, ClickReload, ClickCreate, ClickCompare, Lists
    <3>4. UNCHANGED late \/ \E p : Lists(p)
      BY <2>5 DEF PickDatabase, ClickReload, ClickCreate, ClickCompare
    <3>5. blind => blind'
      <4>1. \A a, p : Saves(a, p) => blind' = (blind \/ page.boxes = NoBoxes)
        BY DEF Saves
      <4> QED
        BY <3>3, <4>1
    <3>6. late => late'
      <4>1. \A p : Lists(p) => (late => late')
        BY DEF Lists
      <4> QED
        BY <3>4, <4>1
    <3> QED
      BY <3>1, <3>2, <3>5, <3>6, ClickGrows DEF Grows
  <2> QED
    BY <1>5, <2>1, <2>2, <2>3, <2>4, <2>5 DEF User
<1> QED
  BY <1>1, <1>2, <1>3, <1>4, <1>5 DEF Next

LEMMA BackendKept ==
    /\ User \/ TimerFires => UNCHANGED backend
    /\ \A i, r : Continue(i, r) => UNCHANGED backend
<1>1. TimerFires \/ (\E i, r : Continue(i, r)) => UNCHANGED backend
  BY DEF TimerFires, Continue
<1>2. User => UNCHANGED backend
  BY DEF User, Type, TypeSchema, PickConnection, PickDatabase, ClickReload,
     ClickRefresh, ClickCreate, ClickImport, ClickCancel, ClickCompare, ClickDelete,
     Click, FilePicked, Refuses, Confirms
<1> QED
  BY <1>1, <1>2

LEMMA HistoryFrame ==
    User \/ TimerFires => UNCHANGED <<unheard, opened>>
<1>1. TimerFires => UNCHANGED <<unheard, opened>>
  BY DEF TimerFires
<1>2. User => UNCHANGED <<unheard, opened>>
  BY DEF User, Type, TypeSchema, PickConnection, PickDatabase, ClickReload,
     ClickRefresh, ClickCreate, ClickImport, ClickCancel, ClickCompare, ClickDelete,
     Click, FilePicked, Refuses, Confirms
<1> QED
  BY <1>1, <1>2

-----------------------------------------------------------------------------
(* The lock.                                                               *)

\* A handler of a job, from its request to the end of its last load.
OfJob(a) ==
    \/ a.pc \in {"create", "diff", "force", "poll"}
    \/ a.pc = "list" /\ a.task \in {"create", "diff"}

LockInv ==
    ~ doubled =>
        /\ \A i \in Activity : OfJob(act[i]) => page.busy
        /\ \A i, j \in Activity : OfJob(act[i]) /\ OfJob(act[j]) => i = j


\* How a step of handler i may lock and unlock the page.
LockStep(i) ==
    \/ page'.busy = page.busy /\ (OfJob(act'[i]) => OfJob(act[i]))
    \/ OfJob(act[i]) /\ ~ OfJob(act'[i])
    \/ page'.busy /\ (page.busy => doubled')

\* The start loads its list with the last of its two handlers.
StartStep(i) ==
    act'[i].task = "start" =>
        /\ act[i].task = "start"
        /\ act'[i].pc = "list" => \A j \in Activity \ {i} : act[j].task # "start"

LEMMA LockKept ==
    ASSUME LockInv, Grows, NEW i \in Activity, Others(i), LockStep(i)
    PROVE  LockInv'
<1> SUFFICES ASSUME ~ doubled'
             PROVE  /\ \A k \in Activity : OfJob(act'[k]) => page'.busy
                    /\ \A k, j \in Activity : OfJob(act'[k]) /\ OfJob(act'[j]) => k = j
  BY DEF LockInv, OfJob
<1>1. /\ \A k \in Activity : OfJob(act[k]) => page.busy
      /\ \A k, j \in Activity : OfJob(act[k]) /\ OfJob(act[j]) => k = j
  BY DEF LockInv, Grows
<1>2. \A j \in Activity \ {i} : OfJob(act'[j]) => OfJob(act[j])
  <2>1. ~ OfJob(Free)
    BY DEF OfJob, Free
  <2> QED
    BY <2>1 DEF Others
<1>3. CASE page'.busy = page.busy /\ (OfJob(act'[i]) => OfJob(act[i]))
  BY <1>1, <1>2, <1>3
<1>4. CASE OfJob(act[i]) /\ ~ OfJob(act'[i])
  BY <1>1, <1>2, <1>4
<1>5. CASE page'.busy /\ (page.busy => doubled')
  BY <1>1, <1>2, <1>5
<1> QED
  BY <1>3, <1>4, <1>5 DEF LockStep

\* What asking for the list means for the lock, as the end of a job or else.
LEMMA LoadsStep ==
    ASSUME NEW i \in Activity, NEW a, NEW p, p.busy = page.busy, Loads(i, a, p),
           a.task \in {"create", "diff"} => OfJob(act[i])
    PROVE  Others(i) /\ SameBoxes(p, page') /\ LockStep(i)
           /\ act'[i].pc \in {"free", "list"} /\ act'[i].task \in {"list", a.task}
  BY DEF Loads, LockStep, OfJob, Free

LEMMA LoadedStep ==
    ASSUME Typed, NEW i \in Activity, NEW p, PageOK(p), p.busy = page.busy,
           Loaded(i, act[i], p), act[i].task \notin {"create", "diff"}
    PROVE  Others(i) /\ SameBoxes(p, page') /\ LockStep(i) /\ StartStep(i)
           /\ act'[i].pc \in {"free", "list"}
<1>1. act[i] \in HandlerType
  BY HandlerIn
<1>2. CASE Yields(i, act[i], p)
  BY <1>2 DEF Yields, SameBoxes, LockStep, StartStep, OfJob, Free
<1>3. CASE Loads(i, act[i], p)
           /\ (act[i].task = "start" => \A j \in Activity \ {i} : act[j].task # "start")
  BY <1>3, LoadsStep DEF StartStep
<1> QED
  BY <1>1, <1>2, <1>3, LoadedMoves

\* An answer but that to the first request.
LEMMA AnswerMoves ==
    ASSUME TypeInv, NEW i \in Activity, NEW r, r = act[i].reply \/ r = "failed",
           Continue(i, r), ~ ConfigRead(i, r)
    PROVE  /\ Others(i) /\ LockStep(i) /\ StartStep(i)
           /\ act'[i].pc \notin {"config", "info", "save"}
           /\ IF act[i].pc = "info" /\ r # "failed"
              THEN /\ page'.boxes = page.saved /\ page'.saved = page.saved
                   /\ page'.timer = page.timer
              ELSE SameBoxes(page, page')
<1>1. Typed /\ act[i] \in HandlerType /\ HandlerOK(act[i])
  BY HandlerIn DEF TypeInv, Typed
<1>2. CASE InfoRead(i, r)
  <2>1. PICK p : /\ PageOK(p) /\ p.saved = page.saved /\ p.timer = page.timer
                 /\ p.busy = page.busy /\ Loaded(i, act[i], p)
                 /\ p.boxes = IF r = "failed" THEN page.boxes ELSE page.saved
    BY <1>1, <1>2, InfoMoves
  <2>2. act[i].pc = "info" /\ act[i].task = "start"
    BY <1>1, <1>2 DEF InfoRead, HandlerOK
  <2> QED
    BY <1>1, <2>1, <2>2, LoadedStep DEF SameBoxes
<1>3. CASE ConnectionsRead(i, r)
  <2>1. act[i].task \in {"start", "refresh"}
    BY <1>1, <1>3 DEF ConnectionsRead, HandlerOK
  <2>0. act[i].pc # "info"
    BY <1>3 DEF ConnectionsRead
  <2>2. CASE r # "failed"
    <3>1. /\ Others(i) /\ act'[i].pc = "databases" /\ act'[i].task = act[i].task
          /\ SameBoxes(page, page') /\ page'.busy = page.busy
      BY <1>1, <1>3, <2>2, ConnectionsMoves
    <3> QED
      BY <2>0, <3>1 DEF LockStep, StartStep, OfJob
  <2>3. CASE r = "failed"
    <3>1. PICK q : /\ PageOK(q) /\ SameBoxes(page, q) /\ q.busy = page.busy
                   /\ Loaded(i, act[i], q)
      BY <1>1, <1>3, <2>3, ConnectionsMoves
    <3> QED
      BY <1>1, <2>0, <2>1, <3>1, LoadedStep DEF SameBoxes
  <2> QED
    BY <2>2, <2>3
<1>4. CASE DatabasesRead(i, r)
  <2>1. act[i].task \in {"start", "refresh", "pick"} /\ act[i].pc # "info"
    BY <1>1, <1>4 DEF DatabasesRead, HandlerOK
  <2>2. PICK p : /\ PageOK(p) /\ SameBoxes(page, p) /\ p.busy = page.busy
                 /\ Loaded(i, act[i], p)
    BY <1>1, <1>4, DatabasesMoves
  <2> QED
    BY <1>1, <2>1, <2>2, LoadedStep DEF SameBoxes
<1>5. CASE ListRead(i, r)
  <2>1. /\ Others(i) /\ act'[i] = Free /\ SameBoxes(page, page')
        /\ IF act[i].task \in {"create", "diff"} THEN ~ page'.busy
           ELSE page'.busy = page.busy
    BY <1>1, <1>5, ListMoves
  <2> QED
    BY <1>5, <2>1 DEF ListRead, LockStep, StartStep, OfJob, Free
<1>6. CASE ConfigSaved(i, r)
  <2>1. /\ Others(i) /\ SameShown(page, page')
        /\ \/ /\ act[i].task \in {"create", "diff"} /\ page'.busy
              /\ act'[i].pc = act[i].task /\ act'[i].task = act[i].task
           \/ act'[i] = Free /\ page' = page
    BY <1>1, <1>6, SavedMoves
  <2>2. /\ page.busy /\ act'[i].pc \in {"create", "diff"} => doubled'
        /\ act[i].pc # "info"
    BY <1>6 DEF Continue, ConfigSaved
  <2> QED
    BY <2>1, <2>2 DEF SameShown, SameBoxes, LockStep, StartStep, OfJob, Free
<1>7. CASE JobStarted(i, r)
  <2>1. /\ Others(i) /\ SameShown(page, page')
        /\ act'[i].pc \in {"free", "confirm"}
           \/ (act'[i].pc = "poll" /\ page'.busy = page.busy)
    BY <1>1, <1>7, StartedMoves
  <2>2. act'[i].task # "start"
    <3>1. Typed'
      BY <1>1, <1>7, JobStartedTyped
    <3>2. HandlerOK(act'[i])
      BY <3>1 DEF Typed, HandlerSet
    <3> QED
      BY <2>1, <3>2 DEF HandlerOK, Free
  <2> QED
    BY <1>7, <2>1, <2>2 DEF JobStarted, SameShown, SameBoxes, LockStep, StartStep, OfJob
<1>8. CASE Polled(i, r)
  <2>1. act[i].pc = "poll" /\ act[i].task \in {"create", "diff"}
    BY <1>1, <1>8 DEF Polled, HandlerOK
  <2>2. CASE Loads(i, act[i], page)
    BY <2>1, <2>2, LoadsStep DEF OfJob, StartStep
  <2>3. CASE Others(i) /\ act'[i] = Free /\ SameShown(page, page')
    BY <2>1, <2>3 DEF SameShown, SameBoxes, LockStep, StartStep, OfJob, Free
  <2> QED
    BY <1>1, <1>8, <2>2, <2>3, PolledMoves
<1>9. CASE Deleted(i, r)
  <2>1. act[i].pc = "delete" /\ act[i].task = "delete"
    BY <1>1, <1>9 DEF Deleted, HandlerOK
  <2>2. CASE Loads(i, act[i], page)
    BY <2>1, <2>2, LoadsStep DEF StartStep
  <2>3. CASE Others(i) /\ act'[i] = Free /\ page' = page
    BY <2>1, <2>3 DEF SameBoxes, LockStep, StartStep, OfJob, Free
  <2> QED
    BY <1>1, <1>9, <2>2, <2>3, DeletedMoves
<1> QED
  BY <1>2, <1>3, <1>4, <1>5, <1>6, <1>7, <1>8, <1>9 DEF Continue

LEMMA ConfigMoves ==
    ASSUME Typed, NEW i \in Activity, NEW r, ConfigRead(i, r)
    PROVE  /\ SameSelection(page, page') /\ page'.shown = page.shown
           /\ page'.busy = page.busy /\ page'.boxes = page.boxes
           /\ page'.timer = page.timer
           /\ page'.saved = IF r = "failed" THEN page.saved ELSE act[i].cond
           /\ \E j \in Activity \ {i} :
                /\ act[j] = Free
                /\ act'[i].pc = "info" /\ act'[i].task = "start"
                /\ act'[j].pc = "connections" /\ act'[j].task = "start"
                /\ \A k \in Activity \ {i, j} : act'[k] = act[k]
<1>1. page \in PageType
  BY DEF Typed, PageOK
<1> DEFINE q == [page EXCEPT !.saved = IF r = "failed" THEN page.saved ELSE act[i].cond,
                             !.off = page.off \cup {"connection"}]
<1>2. page' = q
  BY DEF ConfigRead
<1>3. /\ q.conn = page.conn /\ q.db = page.db /\ q.offer = page.offer
      /\ q.options = page.options /\ q.shown = page.shown /\ q.busy = page.busy
      /\ q.boxes = page.boxes /\ q.timer = page.timer
      /\ q.saved = IF r = "failed" THEN page.saved ELSE act[i].cond
  BY <1>1 DEF PageType
<1> HIDE DEF q
<1>4. PICK j \in Activity \ {i} :
        /\ act[j] = Free
        /\ act' = [act EXCEPT ![i] = Asks(Handler("start"), "info"),
                              ![j] = Asks(Handler("start"), "connections")]
  BY DEF ConfigRead
<1>5. Handler("start") \in HandlerType /\ Handler("start").task = "start"
  BY HandlerFields DEF Typed, Task
<1>6. /\ Asks(Handler("start"), "info").pc = "info"
      /\ Asks(Handler("start"), "info").task = "start"
      /\ Asks(Handler("start"), "connections").pc = "connections"
      /\ Asks(Handler("start"), "connections").task = "start"
  BY <1>5, AsksFields DEF Request
<1>7. /\ act'[i] = Asks(Handler("start"), "info")
      /\ act'[j] = Asks(Handler("start"), "connections")
      /\ \A k \in Activity \ {i, j} : act'[k] = act[k]
  BY <1>4 DEF Typed
<1> QED
  BY <1>2, <1>3, <1>4, <1>6, <1>7 DEF SameSelection

\* The sidecar answers, and may note conditions.
LEMMA ServeMoves ==
    ASSUME TypeInv, NEW i \in Activity, Serve(i)
    PROVE  /\ page' = page /\ older' = older /\ UNCHANGED <<entered, blind, failed, doubled>>
           /\ \A j \in Activity \ {i} : act'[j] = act[j]
           /\ act'[i].pc = act[i].pc /\ act'[i].task = act[i].task
           /\ act'[i].pair = act[i].pair /\ act[i].reply = "pending"
           /\ act'[i].reply # "pending"
           /\ act[i].pc = "config" => act'[i].cond = file.cond
           /\ act[i].pc # "config" => act'[i].cond = act[i].cond
           /\ act[i].pc # "save" => file' = file
           /\ act[i].pc = "save" => /\ file'.cond = act[i].cond
                                    /\ older[i] # {} => late'
           /\ act[i].pc = "list" => act'[i].snaps = store[act[i].pair]
           /\ act[i].pc # "delete" => store' = store
           /\ act[i].pc = "poll" => job.phase # "running" /\ act'[i].reply = job.phase
           /\ \/ job' = job
                 /\ (act[i].pc \in {"create", "diff", "force"} => act'[i].reply # "ok")
              \/ act[i].pc \in {"create", "diff", "force"} /\ act'[i].reply = "ok"
                 /\ job.phase # "running" /\ job'.phase = "running"
<1> DEFINE a == act[i]
<1>1. a \in HandlerType /\ act \in [Activity -> HandlerSet] /\ a.reply = "pending"
      /\ job.phase \in {"running", "done", "over"}
  BY HandlerIn DEF TypeInv, Typed, Serve, BackendOK
<1>2. page' = page /\ older' = older /\ UNCHANGED <<entered, blind, failed, doubled>>
  BY DEF Serve
<1>3. CASE ServeConfig(i)
  <2>1. a.pc = "config" /\ act' = [act EXCEPT ![i] = [a EXCEPT !.reply = "ok", !.cond = file.cond]]
        /\ file' = file /\ store' = store /\ job' = job
    BY <1>3 DEF ServeConfig, backend
  <2>2. act'[i] = [a EXCEPT !.reply = "ok", !.cond = file.cond]
        /\ \A j \in Activity \ {i} : act'[j] = act[j]
    BY <1>1, <2>1
  <2> HIDE DEF a
  <2>3. act'[i].pc = "config" /\ act'[i].task = a.task /\ act'[i].pair = a.pair
        /\ act'[i].reply = "ok" /\ act'[i].cond = file.cond
    BY <1>1, <2>1, <2>2 DEF HandlerType
  <2> QED
    BY <1>1, <1>2, <2>1, <2>2, <2>3 DEF a
<1>4. ASSUME NEW r \in Answer \ {"pending"}, Reply(i, r)
      PROVE  /\ act'[i].pc = a.pc /\ act'[i].task = a.task /\ act'[i].pair = a.pair
             /\ act'[i].cond = a.cond /\ act'[i].reply = r
             /\ \A j \in Activity \ {i} : act'[j] = act[j]
  <2>1. act'[i] = [a EXCEPT !.reply = r] /\ \A j \in Activity \ {i} : act'[j] = act[j]
    BY <1>1, <1>4 DEF Reply
  <2> HIDE DEF a
  <2> QED
    BY <1>1, <2>1 DEF HandlerType
<1>5. CASE ServeSave(i)
  <2>1. Reply(i, "ok") /\ a.pc = "save" /\ store' = store /\ job' = job
        /\ file' = [cond |-> a.cond]
        /\ (older[i] # {} => late')
    BY <1>5 DEF ServeSave, Overtakes, Raced
  <2> QED
    BY <1>1, <1>2, <1>4, <2>1 DEF Answer
<1>6. CASE ServeList(i)
  <2>1. a.pc = "list" /\ file' = file /\ store' = store /\ job' = job
        /\ act' = [act EXCEPT ![i] = [a EXCEPT !.reply = "ok", !.snaps = store[a.pair]]]
    BY <1>6 DEF ServeList, backend
  <2>2. act'[i] = [a EXCEPT !.reply = "ok", !.snaps = store[a.pair]]
        /\ \A j \in Activity \ {i} : act'[j] = act[j]
    BY <1>1, <2>1
  <2> HIDE DEF a
  <2>3. act'[i].pc = "list" /\ act'[i].task = a.task /\ act'[i].pair = a.pair
        /\ act'[i].reply = "ok" /\ act'[i].cond = a.cond
        /\ act'[i].snaps = store[a.pair]
    BY <1>1, <2>1, <2>2 DEF HandlerType
  <2> QED
    BY <1>1, <1>2, <2>1, <2>2, <2>3 DEF a
<1>7. CASE ServeStart(i)
  <2>1. a.pc \in {"create", "diff", "force"} /\ file' = file /\ store' = store
    BY <1>7 DEF ServeStart
  <2>2. \/ Reply(i, "ok") /\ job'.phase = "running" /\ job.phase # "running"
        \/ Reply(i, "confirm") /\ job' = job
        \/ Reply(i, "failed") /\ job' = job
    BY <1>7 DEF ServeStart
  <2> QED
    BY <1>1, <1>2, <1>4, <2>1, <2>2 DEF Answer
<1>8. CASE ServeStatus(i)
  <2>1. a.pc = "poll" /\ Reply(i, job.phase) /\ job.phase \in {"done", "over"}
        /\ file' = file /\ store' = store /\ job' = job
    BY <1>1, <1>8 DEF ServeStatus, backend
  <2> QED
    BY <1>1, <1>2, <1>4, <2>1 DEF Answer
<1>9. CASE ServeDelete(i)
  <2>1. a.pc = "delete" /\ file' = file /\ job' = job
        /\ \E r \in {"ok", "failed"} : Reply(i, r)
    BY <1>9 DEF ServeDelete
  <2> QED
    BY <1>1, <1>2, <1>4, <2>1 DEF Answer
<1> QED
  BY <1>3, <1>5, <1>6, <1>7, <1>8, <1>9 DEF Serve

LEMMA JobEndsMoves ==
    ASSUME JobEnds
    PROVE  UNCHANGED <<page, act, file, older, entered, blind, late, failed, doubled>>
  BY DEF JobEnds

\* A step of the user locks the page at most for a job.
LEMMA UserStep ==
    ASSUME TypeInv, NEW i \in Activity,
           SendsBoxes(i) \/ AsksList(i) \/ AsksNames(i) \/ Dialogs(i)
    PROVE  Others(i) /\ LockStep(i) /\ act'[i].task # "start" /\ Idle(act[i])
<1>1. CASE SendsBoxes(i)
  BY <1>1 DEF SendsBoxes, LockStep, OfJob
<1>2. CASE AsksList(i)
  <2>1. PICK a, p : a \in HandlerType /\ a.task = "list" /\ Loads(i, a, p)
    BY <1>2 DEF AsksList
  <2> QED
    BY <1>2, <2>1 DEF AsksList, Loads, LockStep, OfJob, Free
<1>3. CASE AsksNames(i)
  BY <1>3 DEF AsksNames, LockStep, OfJob
<1>4. CASE Dialogs(i)
  BY <1>4 DEF Dialogs, LockStep, OfJob, Idle
<1> QED
  BY <1>1, <1>2, <1>3, <1>4

\* Whatever handler moves: an answer but the first, or a step of the user.
LEMMA AnyStep ==
    ASSUME TypeInv, Next
    PROVE  \/ \E i \in Activity : Serve(i)
           \/ \E i \in Activity : \E r : ConfigRead(i, r)
           \/ \E i \in Activity : Others(i) /\ LockStep(i) /\ StartStep(i)
                                  /\ act'[i].pc \notin {"config", "info"}
           \/ act' = act /\ page'.busy = page.busy
<1>1. CASE \E i \in Activity : Answered(i) \/ TimesOut(i)
  <2>1. PICK i, r : i \in Activity /\ Continue(i, r) /\ (r = act[i].reply \/ r = "failed")
    BY <1>1 DEF Answered, TimesOut
  <2> QED
    BY <2>1, AnswerMoves
<1>2. CASE TimerFires \/ User
  <2>1. CASE Edits
    BY <2>1 DEF Edits
  <2>2. CASE \E i \in Activity :
               SendsBoxes(i) \/ AsksList(i) \/ AsksNames(i) \/ Dialogs(i)
    <3>1. PICK i \in Activity :
            SendsBoxes(i) \/ AsksList(i) \/ AsksNames(i) \/ Dialogs(i)
      BY <2>2
    <3>2. Others(i) /\ LockStep(i) /\ StartStep(i)
      BY <3>1, UserStep DEF StartStep
    <3>3. act'[i].pc \notin {"config", "info"}
      BY <3>1 DEF SendsBoxes, AsksList, AsksNames, Dialogs, Loads, Idle, Free
    <3> QED
      BY <3>2, <3>3
  <2> QED
    BY <1>2, <2>1, <2>2, UserMoves
<1>3. CASE JobEnds
  BY <1>3, JobEndsMoves
<1> QED
  BY <1>1, <1>2, <1>3 DEF Next

LEMMA LockNext ==
    ASSUME TypeInv, LockInv, Next
    PROVE  LockInv'
<1>1. Grows
  BY HistoryGrows
<1>2. CASE \E i \in Activity : Serve(i)
  <2>1. PICK i \in Activity : Serve(i)
    BY <1>2
  <2>2. /\ \A j \in Activity \ {i} : act'[j] = act[j]
        /\ act'[i].pc = act[i].pc /\ act'[i].task = act[i].task /\ page' = page
    BY <2>1, ServeMoves
  <2>3. Others(i) /\ LockStep(i)
    BY <2>2 DEF Others, LockStep, OfJob
  <2> QED
    BY <1>1, <2>3, LockKept
<1>3. CASE \E i \in Activity : \E r : ConfigRead(i, r)
  <2>1. PICK i, r : i \in Activity /\ ConfigRead(i, r)
    BY <1>3
  <2>2. PICK j \in Activity \ {i} :
          /\ act'[i].pc = "info" /\ act'[j].pc = "connections"
          /\ \A k \in Activity \ {i, j} : act'[k] = act[k]
    BY <2>1, ConfigMoves DEF TypeInv, Typed
  <2>3. page'.busy = page.busy
    BY <2>1, ConfigMoves DEF TypeInv, Typed
  <2>4. \A k \in Activity : OfJob(act'[k]) => k \notin {i, j} /\ OfJob(act[k])
    BY <2>2 DEF OfJob
  <2> QED
    BY <1>1, <2>3, <2>4 DEF LockInv, Grows, OfJob
<1>4. CASE \E i \in Activity : Others(i) /\ LockStep(i)
  BY <1>1, <1>4, LockKept
<1>5. CASE act' = act /\ page'.busy = page.busy
  BY <1>1, <1>5 DEF LockInv, Grows, OfJob
<1> QED
  BY <1>2, <1>3, <1>4, <1>5, AnyStep

\* The panel starts with one handler, which reads the configuration.
LEMMA InitHandlers ==
    ASSUME Init
    PROVE  \E i \in Activity :
             \A j \in Activity :
               IF j = i THEN act[j].pc = "config" /\ act[j].task = "start"
                             /\ act[j].reply = "pending"
               ELSE act[j] = Free
  BY PanelAssumption DEF Init, Free

\* At most one handler is about a job, and while one is, the panel is busy
\* (runJob, runDiff, pollJob) -- unless two jobs were clicked in the time a
\* save takes.
THEOREM PanelLockInductive == Spec => []LockInv
<1>1. Init => LockInv
  BY InitHandlers DEF LockInv, OfJob, Free
<1>2. TypeInv /\ LockInv /\ [Next]_vars => LockInv'
  <2> SUFFICES ASSUME TypeInv, LockInv, [Next]_vars PROVE LockInv'
    OBVIOUS
  <2>1. CASE UNCHANGED vars
    BY <2>1 DEF vars, LockInv, OfJob
  <2> QED
    BY <2>1, LockNext
<1> QED
  BY <1>1, <1>2, PanelInductive, PTL DEF Spec

\* The handler of a running job: the job was accepted, or its end is awaited.
Awaits(a) ==
    \/ a.pc \in {"create", "diff", "force"} /\ a.reply = "ok"
    \/ a.pc = "poll" /\ a.reply = "pending"

\* As long as a job runs, no other handler is about a job, none has unlocked
\* the page, and the one that may is not answered with anything but "ok".
JobInv ==
    (job.phase = "running" /\ ~ unheard /\ ~ doubled) =>
        page.busy /\ \A i \in Activity : OfJob(act[i]) => Awaits(act[i])

\* An answer for a handler that is about no job.
LEMMA JobOther ==
    ASSUME JobInv, Grows, NEW i \in Activity, Others(i), LockStep(i), ~ OfJob(act[i]),
           job' = job, unheard => unheard'
    PROVE  JobInv'
<1> SUFFICES ASSUME job.phase = "running", ~ unheard', ~ doubled'
             PROVE  page'.busy /\ \A k \in Activity : OfJob(act'[k]) => Awaits(act'[k])
  BY DEF JobInv, OfJob, Awaits
<1>1. page.busy /\ \A k \in Activity : OfJob(act[k]) => Awaits(act[k])
  BY DEF JobInv, Grows
<1>2. page'.busy = page.busy /\ ~ OfJob(act'[i])
  BY <1>1 DEF LockStep
<1>3. \A k \in Activity \ {i} : OfJob(act'[k]) => act'[k] = act[k]
  BY DEF Others, OfJob, Free
<1> QED
  BY <1>1, <1>2, <1>3

\* The job's own handler: only a failure, which is noted, unlocks the page.
LEMMA JobAnswer ==
    ASSUME TypeInv, JobInv, Grows, NEW i \in Activity, NEW r, Continue(i, r),
           r = "failed" \/ (r = act[i].reply /\ r # "pending"), OfJob(act[i])
    PROVE  JobInv'
<1> SUFFICES ASSUME job'.phase = "running", ~ unheard', ~ doubled'
             PROVE  page'.busy /\ \A k \in Activity : OfJob(act'[k]) => Awaits(act'[k])
  BY DEF JobInv, OfJob, Awaits
<1>1. job' = job /\ ~ unheard /\ ~ GivesUp(act[i], r)
  BY DEF Continue, backend
<1>2. page.busy /\ \A k \in Activity : OfJob(act[k]) => Awaits(act[k])
  BY <1>1 DEF JobInv, Grows
<1>3. Typed /\ act[i] \in HandlerType /\ HandlerOK(act[i])
  BY HandlerIn DEF TypeInv, Typed
<1>4. CASE act[i].pc \in {"create", "diff", "force"}
  <2>1. JobStarted(i, r) /\ r = "ok"
    BY <1>1, <1>2, <1>4 DEF Continue, ConfigRead, InfoRead, ConnectionsRead,
       DatabasesRead, ListRead, ConfigSaved, Polled, Deleted, GivesUp, Awaits, OfJob
  <2>2. /\ Others(i) /\ page'.busy = page.busy
        /\ act'[i].pc = "poll" /\ act'[i].reply = "pending"
    BY <1>3, <2>1, StartedMoves
  <2> QED
    BY <1>2, <2>2 DEF Others, OfJob, Awaits, Free
<1>5. CASE act[i].pc = "poll"
  <2>1. Polled(i, r) /\ r = "failed" /\ act[i].task = "diff"
    BY <1>1, <1>2, <1>3, <1>5 DEF Continue, ConfigRead, InfoRead, ConnectionsRead,
       DatabasesRead, ListRead, ConfigSaved, JobStarted, Deleted, GivesUp, Awaits,
       OfJob, HandlerOK
  <2>2. Become(i, Free, page)
    BY <2>1 DEF Polled
  <2>3. Others(i) /\ act'[i] = Free /\ page' = page
    BY <1>3, <2>2, BecomeMoves
  <2> QED
    BY <1>2, <2>3 DEF Others, OfJob, Awaits, Free
<1> QED
  BY <1>2, <1>4, <1>5 DEF Awaits

LEMMA JobNext ==
    ASSUME TypeInv, LockInv, JobInv, Next
    PROVE  JobInv'
<1>1. Grows
  BY HistoryGrows
<1>2. CASE \E i \in Activity : Serve(i)
  <2>1. PICK i \in Activity : Serve(i)
    BY <1>2
  <2>2. /\ page' = page /\ unheard' = unheard /\ doubled' = doubled
        /\ \A j \in Activity \ {i} : act'[j] = act[j]
        /\ act'[i].pc = act[i].pc /\ act'[i].task = act[i].task
        /\ act[i].reply = "pending"
        /\ act[i].pc = "poll" => job.phase # "running"
        /\ \/ job' = job
           \/ act[i].pc \in {"create", "diff", "force"} /\ act'[i].reply = "ok"
    BY <2>1, ServeMoves DEF Serve
  <2>3. CASE job' = job
    BY <2>2, <2>3 DEF JobInv, OfJob, Awaits
  <2>4. CASE act[i].pc \in {"create", "diff", "force"} /\ act'[i].reply = "ok"
    BY <2>2, <2>4 DEF LockInv, JobInv, OfJob, Awaits
  <2> QED
    BY <2>2, <2>3, <2>4
<1>3. CASE \E i \in Activity : Answered(i) \/ TimesOut(i)
  <2>1. PICK i, r : /\ i \in Activity /\ Continue(i, r)
                    /\ r = "failed" \/ (r = act[i].reply /\ r # "pending")
    BY <1>3 DEF Answered, TimesOut
  <2>2. job' = job /\ (unheard => unheard')
    BY <2>1 DEF Continue, backend
  <2>3. CASE OfJob(act[i])
    BY <1>1, <2>1, <2>3, JobAnswer
  <2>4. CASE ~ OfJob(act[i]) /\ ~ ConfigRead(i, r)
    <3>1. Others(i) /\ LockStep(i)
      BY <2>1, <2>4, AnswerMoves
    <3> QED
      BY <1>1, <2>1, <2>2, <2>4, <3>1, JobOther
  <2>5. CASE ConfigRead(i, r)
    <3>1. PICK j \in Activity \ {i} :
            /\ act'[i].pc = "info" /\ act'[j].pc = "connections"
            /\ \A k \in Activity \ {i, j} : act'[k] = act[k]
      BY <2>1, <2>5, ConfigMoves DEF TypeInv, Typed
    <3>2. page'.busy = page.busy
      BY <2>1, <2>5, ConfigMoves DEF TypeInv, Typed
    <3>3. \A k \in Activity : OfJob(act'[k]) => act'[k] = act[k]
      BY <3>1 DEF OfJob
    <3> QED
      BY <1>1, <2>2, <3>2, <3>3 DEF JobInv, Grows, OfJob, Awaits
  <2> QED
    BY <2>3, <2>4, <2>5
<1>4. CASE JobEnds
  <2>1. job'.phase # "running"
    BY <1>4 DEF JobEnds, NoJob
  <2> QED
    BY <2>1 DEF JobInv
<1>5. CASE TimerFires \/ User
  <2>1. job' = job /\ unheard' = unheard
    <3>1. job' = job
      BY <1>5, BackendKept DEF backend
    <3>2. unheard' = unheard
      BY <1>5, HistoryFrame
    <3> QED
      BY <3>1, <3>2
  <2>2. CASE Edits
    BY <1>1, <2>1, <2>2 DEF Edits, JobInv, Grows, OfJob, Awaits
  <2>3. CASE \E i \in Activity :
               SendsBoxes(i) \/ AsksList(i) \/ AsksNames(i) \/ Dialogs(i)
    <3>1. PICK i \in Activity :
            SendsBoxes(i) \/ AsksList(i) \/ AsksNames(i) \/ Dialogs(i)
      BY <2>3
    <3>2. Others(i) /\ LockStep(i) /\ Idle(act[i])
      BY <3>1, UserStep
    <3>3. ~ OfJob(act[i])
      BY <3>2 DEF Idle, OfJob
    <3> QED
      BY <1>1, <2>1, <3>2, <3>3, JobOther
  <2> QED
    BY <1>5, <2>2, <2>3, UserMoves
<1> QED
  BY <1>2, <1>3, <1>4, <1>5 DEF Next

-----------------------------------------------------------------------------
(* The pickers and the boxes under the lock.                               *)

AllOff(p) == p.busy => p.off = Control

\* Unless a load has ended since, the lock is on all controls.
OffInv == opened \/ AllOff(page)

LEMMA EndsOff ==
    ASSUME Typed, NEW i \in Activity, NEW a, NEW p, PageOK(p), AllOff(p), Ends(i, a, p)
    PROVE  AllOff(page')
<1>1. page' = ResetProgress(p) \/ page' = p
  BY DEF Ends, Become
<1> QED
  BY <1>1, PageEdits DEF AllOff

LEMMA LoadOff ==
    ASSUME Typed, NEW i \in Activity, NEW a, NEW p, PageOK(p), AllOff(p),
           LoadSnapshots(i, a, p)
    PROVE  AllOff(page')
<1>1. CASE p.db = NoDb
  <2> DEFINE q == [p EXCEPT !.shown = NoList]
  <2>1. Ends(i, a, q) /\ PageOK(q)
    BY <1>1, ShownOK, ConstantTypes DEF LoadSnapshots
  <2>2. q.busy = p.busy /\ q.off = p.off
    BY DEF PageOK, PageType
  <2> HIDE DEF q
  <2> QED
    BY <2>1, <2>2, EndsOff DEF AllOff
<1>2. CASE p.db # NoDb
  BY <1>2 DEF LoadSnapshots, Become
<1> QED
  BY <1>1, <1>2

LEMMA BeginOff ==
    ASSUME NEW p, PageOK(p)
    PROVE  AllOff(BeginProgress(p))
<1>1. BeginProgress(p).off = Control
  BY DEF PageOK, PageType, BeginProgress
<1> QED
  BY <1>1 DEF AllOff

\* An answer that is not a load's turns nothing on.
LEMMA AnswerOff ==
    ASSUME Typed, AllOff(page), NEW i \in Activity, NEW r, Continue(i, r),
           act[i].pc \notin Settled
    PROVE  AllOff(page')
<1>1. page \in PageType /\ PageOK(page)
  BY DEF Typed, PageOK
<1>2. CASE ConfigRead(i, r)
  <2>1. page'.busy = page.busy /\ page'.off = page.off \cup {"connection"}
    BY <1>1, <1>2 DEF ConfigRead, PageType
  <2> QED
    BY <2>1 DEF AllOff, Control
<1>3. CASE ListRead(i, r)
  <2> DEFINE l == IF r = "failed" THEN NoList
                  ELSE [pair |-> act[i].pair, snaps |-> act[i].snaps]
             q == [page EXCEPT !.shown = l]
  <2>1. l \in [pair : Pair, snaps : SUBSET Snapshot]
    BY HandlerIn, ConstantTypes DEF HandlerType
  <2>2. Ends(i, act[i], q)
    BY <1>3 DEF ListRead
  <2>3. q.busy = page.busy /\ q.off = page.off
    BY <1>1 DEF PageType
  <2>4. PageOK(q)
    BY <1>1, <2>1, ShownOK
  <2> HIDE DEF q
  <2> QED
    BY <2>2, <2>3, <2>4, EndsOff DEF AllOff
<1>4. CASE ConfigSaved(i, r)
  <2>1. page' = BeginProgress(page) \/ page' = page
    BY <1>4 DEF ConfigSaved, Become
  <2> QED
    BY <1>1, <2>1, BeginOff
<1>5. CASE JobStarted(i, r)
  <2>1. page' = ResetProgress(page) \/ page' = page
    BY <1>5 DEF JobStarted, Become, OpenDialog
  <2> QED
    BY <1>1, <2>1, PageEdits DEF AllOff
<1>6. CASE Polled(i, r)
  <2>1. \/ LoadSnapshots(i, act[i], page) \/ Become(i, Free, page)
        \/ Ends(i, act[i], page)
    BY <1>6 DEF Polled
  <2> QED
    BY <1>1, <2>1, LoadOff, EndsOff DEF Become
<1>7. CASE Deleted(i, r)
  <2>1. LoadSnapshots(i, act[i], page) \/ Become(i, Free, page)
    BY <1>7 DEF Deleted
  <2> QED
    BY <1>1, <2>1, LoadOff DEF Become
<1> QED
  BY <1>2, <1>3, <1>4, <1>5, <1>6, <1>7
  DEF Continue, InfoRead, ConnectionsRead, DatabasesRead, Settled

LEMMA UserOff ==
    ASSUME TypeInv, AllOff(page), TimerFires \/ User
    PROVE  AllOff(page')
<1>1. page \in PageType /\ PageOK(page) /\ Typed
  BY DEF TypeInv, PageOK, Typed
<1>2. CASE (\E c \in Condition : Type(c)) \/ TypeSchema \/ ClickCancel
  <2>1. page'.busy = page.busy /\ page'.off = page.off
    BY <1>1, <1>2 DEF Type, TypeSchema, ClickCancel, PageType
  <2> QED
    BY <2>1 DEF AllOff
<1>3. CASE TimerFires \/ ClickCreate \/ \E s \in page.shown.snaps : ClickCompare(s)
  <2>1. page' = SaveConfig(page)
    BY <1>3 DEF TimerFires, ClickCreate, ClickCompare, Saves, Starts, Become
  <2> QED
    BY <1>1, <2>1, SaveConfigOK DEF AllOff
<1>4. CASE ClickRefresh \/ \E c \in Connection : PickConnection(c)
  <2>1. page'.busy = page.busy /\ page.off \subseteq page'.off
    <3>1. CASE ClickRefresh
      <4>1. page' = [page EXCEPT !.off = page.off \cup {"connection"}]
        BY <3>1 DEF ClickRefresh, Starts, Become
      <4> QED
        BY <1>1, <4>1 DEF PageType
    <3>2. CASE \E c \in Connection : PickConnection(c)
      <4>1. PICK c \in Connection :
              page' = [page EXCEPT !.conn = c, !.off = page.off \cup {"database"}]
        BY <3>2 DEF PickConnection, Starts, Become
      <4> QED
        BY <1>1, <4>1 DEF PageType
    <3> QED
      BY <1>4, <3>1, <3>2
  <2>2. PageOK(page')
    <3>1. TypeInv'
      BY <1>4, UserTyped DEF User
    <3> QED
      BY <3>1 DEF TypeInv
  <2>3. page'.off \subseteq Control
    BY <2>2 DEF PageOK, PageType
  <2> QED
    BY <2>1, <2>3 DEF AllOff
<1>5. CASE ClickReload \/ \E d \in Database \cup {NoDb} : PickDatabase(d)
  <2>1. PICK p : /\ Lists(p) /\ PageOK(p) /\ AllOff(p)
    <3>1. CASE ClickReload
      BY <1>1, <3>1 DEF ClickReload
    <3>2. CASE \E d \in Database \cup {NoDb} : PickDatabase(d)
      <4>1. PICK d \in Database \cup {NoDb} : PickDatabase(d)
        BY <3>2
      <4> DEFINE q == [page EXCEPT !.db = d]
      <4>2. Lists(q)
        BY <4>1 DEF PickDatabase
      <4>3. q.busy = page.busy /\ q.off = page.off /\ PageOK(q)
        BY <1>1 DEF PageOK, PageType
      <4> HIDE DEF q
      <4> QED
        BY <4>2, <4>3 DEF AllOff
    <3> QED
      BY <1>5, <3>1, <3>2
  <2>2. New \in Activity /\ LoadSnapshots(New, Handler("list"), p)
    BY <2>1, NewFree DEF Lists
  <2> QED
    BY <1>1, <2>1, <2>2, LoadOff
<1>6. CASE ClickImport \/ \E s \in page.shown.snaps : ClickDelete(s)
  <2>1. page' = page
    BY <1>6 DEF ClickImport, ClickDelete, Starts, Become
  <2> QED
    BY <2>1
<1>7. CASE \E i \in Activity :
             \/ \E c \in Condition : FilePicked(i, c)
             \/ Refuses(i) \/ Confirms(i)
  <2>1. PICK i \in Activity : \/ \E c \in Condition : FilePicked(i, c)
                              \/ Refuses(i) \/ Confirms(i)
    BY <1>7
  <2>2. page' = page \/ page' = BeginProgress(page) \/ \E c : Apply(i, c)
    BY <2>1 DEF FilePicked, Refuses, Confirms, Become, OpenDialog
  <2>3. CASE \E c : Apply(i, c)
    <3>1. page'.busy = page.busy /\ page'.off = page.off
      BY <1>1, <2>3 DEF Apply, Become, PageType
    <3> QED
      BY <3>1 DEF AllOff
  <2> QED
    BY <1>1, <2>2, <2>3, BeginOff
<1> QED
  BY <1>2, <1>3, <1>4, <1>5, <1>6, <1>7 DEF User

LEMMA OffNext ==
    ASSUME TypeInv, OffInv, Next
    PROVE  OffInv'
<1>1. CASE \E i \in Activity : Serve(i)
  BY <1>1 DEF Serve, OffInv, AllOff
<1>2. CASE \E i \in Activity : Answered(i) \/ TimesOut(i)
  <2>1. PICK i, r : i \in Activity /\ Continue(i, r)
    BY <1>2 DEF Answered, TimesOut
  <2>2. opened' = (page'.busy /\ (opened \/ act[i].pc \in Settled))
    BY <2>1 DEF Continue
  <2>3. CASE ~ page'.busy
    BY <2>3 DEF OffInv, AllOff
  <2>4. CASE page'.busy /\ (opened \/ act[i].pc \in Settled)
    BY <2>2, <2>4 DEF OffInv
  <2>5. CASE ~ opened /\ act[i].pc \notin Settled
    BY <2>1, <2>5, AnswerOff DEF OffInv, AllOff, TypeInv, Typed
  <2> QED
    BY <2>3, <2>4, <2>5
<1>3. CASE JobEnds
  BY <1>3 DEF JobEnds, OffInv, AllOff
<1>4. CASE TimerFires \/ User
  <2>1. opened' = opened
    BY <1>4, HistoryFrame
  <2> QED
    BY <1>4, <2>1, UserOff DEF OffInv, AllOff
<1> QED
  BY <1>1, <1>2, <1>3, <1>4 DEF Next

\* A job that runs has the panel locked (JobInv), and the lock is on all
\* controls (OffInv), but for the failures and the loads that the history notes.
THEOREM PanelJobInductive == Spec => [](JobInv /\ OffInv)
<1>1. Init => JobInv /\ OffInv
  BY DEF Init, JobInv, OffInv, AllOff, NoJob
<1>2. TypeInv /\ LockInv /\ JobInv /\ OffInv /\ [Next]_vars => (JobInv /\ OffInv)'
  <2> SUFFICES ASSUME TypeInv, LockInv, JobInv, OffInv, [Next]_vars
               PROVE  (JobInv /\ OffInv)'
    OBVIOUS
  <2>1. CASE UNCHANGED vars
    BY <2>1 DEF vars, JobInv, OffInv, AllOff, OfJob, Awaits
  <2> QED
    BY <2>1, JobNext, OffNext
<1> QED
  BY <1>1, <1>2, PanelInductive, PanelLockInductive, PTL DEF Spec

\* From the request for a job until the job has ended, everything but the cancel
\* button is off, unless the panel gave the job up after a failed request, or a
\* second one was clicked while a save was under way; a load that ends meanwhile
\* turns on no more than pickers, boxes and the create button.
THEOREM PanelLocked == Spec => []Locked
<1>1. TypeInv /\ LockInv /\ JobInv /\ OffInv => Locked
  <2> SUFFICES ASSUME TypeInv, LockInv, JobInv, OffInv, ~ doubled,
                      \/ \E i \in Activity :
                           act[i].pc \in {"create", "diff", "force", "poll"}
                      \/ job.phase = "running" /\ ~ unheard
               PROVE  /\ page.busy /\ "rest" \in page.off /\ page.cancel # "hidden"
                      /\ ~ opened => page.off = Control
    BY DEF Locked
  <2>1. page.busy
    BY DEF LockInv, JobInv, OfJob
  <2> QED
    BY <2>1 DEF TypeInv, PageOK, OffInv, AllOff
<1> QED
  BY <1>1, PanelInductive, PanelLockInductive, PanelJobInductive, PTL

-----------------------------------------------------------------------------
(* The conditions.                                                         *)

Known(c) == c \in entered \cup {Saved}

KnownInv ==
    ~ blind =>
        /\ Known(file.cond)
        /\ page.boxes # NoBoxes => Known(page.boxes)
        /\ \A i \in Activity :
             /\ act[i].pc = "config" /\ act[i].reply = "ok" => Known(act[i].cond)
             /\ act[i].pc = "info" => Known(page.saved)
             /\ act[i].pc = "save" => Known(act[i].cond)

\* A save that the sidecar has not done yet.
Pending(i) == act[i].pc = "save" /\ act[i].reply = "pending"

\* The boxes are still to be built, from what config.json says.
Unbuilt ==
    /\ page.boxes = NoBoxes
    /\ \A i \in Activity : act[i].pc # "save"
    /\ \E i \in Activity :
         \/ act[i].pc = "config" /\ (act[i].reply = "ok" => act[i].cond = file.cond)
         \/ act[i].pc = "info" /\ page.saved = file.cond

\* The boxes are saved, or will be by the last save.
Built ==
    /\ page.boxes # NoBoxes
    /\ \A i \in Activity : act[i].pc \notin {"config", "info"}
    /\ \/ page.timer
       \/ file.cond = page.boxes /\ \A i \in Activity : ~ Pending(i)
       \/ \E i \in Activity :
            /\ Pending(i) /\ act[i].cond = page.boxes
            /\ \A j \in Activity \ {i} : Pending(j) => j \in older[i]

\* The page starts once.
StartInv ==
    /\ \A i, j \in Activity :
         act[i].pc \in {"config", "info"} /\ act[j].pc \in {"config", "info"} => i = j
    /\ \A i, j \in Activity :
         act[i].pc \in {"config", "list"} /\ act[i].task = "start" /\ act[j].task = "start"
            => i = j

SavedInv == (~ failed /\ ~ late /\ ~ blind) => Unbuilt \/ Built


LEMMA StartKept ==
    ASSUME StartInv, NEW i \in Activity, Others(i), StartStep(i),
           act'[i].pc \notin {"config", "info"}
    PROVE  StartInv'
<1>1. \A j \in Activity \ {i} : act'[j] = act[j] \/ act'[j] = Free
  BY DEF Others
<1>2. Free.pc = "free" /\ Free.task = "list"
  BY DEF Free
<1>3. \A k, j \in Activity :
        act'[k].pc \in {"config", "info"} /\ act'[j].pc \in {"config", "info"} => k = j
  BY <1>1, <1>2 DEF StartInv
<1>4. \A k, j \in Activity :
        act'[k].pc \in {"config", "list"} /\ act'[k].task = "start"
          /\ act'[j].task = "start" => k = j
  <2> SUFFICES ASSUME NEW k \in Activity, NEW j \in Activity,
                      act'[k].pc \in {"config", "list"}, act'[k].task = "start",
                      act'[j].task = "start", k # j
               PROVE  FALSE
    OBVIOUS
  <2>1. CASE k = i
    BY <1>1, <1>2, <2>1 DEF StartStep
  <2>2. CASE k # i
    <3>1. act'[k] = act[k] /\ act[j].task = "start"
      BY <1>1, <1>2, <2>2 DEF StartStep
    <3> QED
      BY <3>1 DEF StartInv
  <2> QED
    BY <2>1, <2>2
<1> QED
  BY <1>3, <1>4 DEF StartInv

LEMMA StartNext ==
    ASSUME TypeInv, StartInv, Next
    PROVE  StartInv'
<1>1. CASE \E i \in Activity : Serve(i)
  <2>1. PICK i \in Activity : Serve(i)
    BY <1>1
  <2>2. \A j \in Activity : act'[j].pc = act[j].pc /\ act'[j].task = act[j].task
    BY <2>1, ServeMoves
  <2> QED
    BY <2>2 DEF StartInv
<1>2. CASE \E i \in Activity : \E r : ConfigRead(i, r)
  <2>1. PICK i, r : i \in Activity /\ ConfigRead(i, r)
    BY <1>2
  <2>2. PICK j \in Activity \ {i} :
          /\ act'[i].pc = "info" /\ act'[j].pc = "connections"
          /\ \A k \in Activity \ {i, j} : act'[k] = act[k]
    BY <2>1, ConfigMoves DEF TypeInv, Typed
  <2>3. act[i].pc = "config" /\ act[i].task = "start"
    BY <2>1, HandlerIn DEF ConfigRead, HandlerOK, TypeInv, Typed
  <2>4. \A k \in Activity \ {i} : act[k].task # "start" /\ act[k].pc \notin {"config", "info"}
    BY <2>1, <2>3 DEF StartInv
  <2> QED
    BY <2>1, <2>2, <2>4 DEF StartInv
<1>3. CASE \E i \in Activity : Others(i) /\ LockStep(i) /\ StartStep(i)
                                 /\ act'[i].pc \notin {"config", "info"}
  BY <1>3, StartKept
<1>4. CASE act' = act
  BY <1>4 DEF StartInv
<1> QED
  BY <1>1, <1>2, <1>3, <1>4, AnyStep

\* The start reads the configuration once, builds the boxes once, and asks for
\* the list with the last of its two handlers (the Promise.all of
\* window.dbxPlugin.ready).
THEOREM PanelStartsOnce == Spec => []StartInv
<1>1. Init => StartInv
  BY InitHandlers DEF StartInv, Free
<1>2. TypeInv /\ StartInv /\ [Next]_vars => StartInv'
  BY StartNext DEF vars, StartInv
<1> QED
  BY <1>1, <1>2, PanelInductive, PTL DEF Spec

\* A step that saves nothing, or something known.
LEMMA KnownKept ==
    ASSUME KnownInv, Grows, NEW i \in Activity, Others(i), file' = file,
           act'[i].pc \notin {"config", "info"},
           ~ blind' =>
             /\ page'.boxes \in {page.boxes, NoBoxes} \cup entered' \cup {Saved}
             /\ page'.boxes # NoBoxes /\ page'.boxes = page.boxes
                  => page.boxes # NoBoxes
             /\ page'.saved \in {page.saved} \cup entered' \cup {Saved}
             /\ act'[i].pc = "save" => act'[i].cond \in entered' \cup {Saved}
    PROVE  KnownInv'
<1> SUFFICES ASSUME ~ blind'
             PROVE  /\ file'.cond \in entered' \cup {Saved}
                    /\ page'.boxes # NoBoxes => page'.boxes \in entered' \cup {Saved}
                    /\ \A j \in Activity :
                         /\ act'[j].pc = "config" /\ act'[j].reply = "ok"
                              => act'[j].cond \in entered' \cup {Saved}
                         /\ act'[j].pc = "info" => page'.saved \in entered' \cup {Saved}
                         /\ act'[j].pc = "save" => act'[j].cond \in entered' \cup {Saved}
  BY DEF KnownInv, Known
<1>1. /\ file.cond \in entered \cup {Saved}
      /\ page.boxes # NoBoxes => page.boxes \in entered \cup {Saved}
      /\ \A j \in Activity :
           /\ act[j].pc = "config" /\ act[j].reply = "ok"
                => act[j].cond \in entered \cup {Saved}
           /\ act[j].pc = "info" => page.saved \in entered \cup {Saved}
           /\ act[j].pc = "save" => act[j].cond \in entered \cup {Saved}
      /\ entered \subseteq entered'
  BY DEF KnownInv, Known, Grows
<1>2. \A j \in Activity \ {i} : act'[j] = act[j] \/ act'[j] = Free
  BY DEF Others
<1>3. Free.pc = "free"
  BY DEF Free
<1> QED
  BY <1>1, <1>2, <1>3

LEMMA KnownNext ==
    ASSUME TypeInv, KnownInv, Next
    PROVE  KnownInv'
<1>1. Grows /\ Typed
  BY HistoryGrows DEF TypeInv, Typed
<1>2. CASE \E i \in Activity : Serve(i)
  <2>1. PICK i \in Activity : Serve(i)
    BY <1>2
  <2>2. /\ page' = page /\ UNCHANGED <<entered, blind>>
        /\ \A j \in Activity \ {i} : act'[j] = act[j]
        /\ act'[i].pc = act[i].pc
        /\ act[i].pc = "config" => act'[i].cond = file.cond
        /\ act[i].pc # "config" => act'[i].cond = act[i].cond
        /\ act[i].pc # "save" => file' = file
        /\ act[i].pc = "save" => file'.cond = act[i].cond
    BY <2>1, ServeMoves
  <2> QED
    BY <2>2 DEF KnownInv, Known
<1>3. CASE \E i \in Activity : Answered(i) \/ TimesOut(i)
  <2>1. PICK i, r : /\ i \in Activity /\ Continue(i, r) /\ (r = act[i].reply \/ r = "failed")
                    /\ r # "pending"
    BY <1>3 DEF Answered, TimesOut
  <2>2. file' = file /\ entered' = entered
    BY <2>1, BackendKept DEF backend, Continue
  <2>3. CASE ConfigRead(i, r)
    <3>1. PICK j \in Activity \ {i} :
            /\ act'[i].pc = "info" /\ act'[j].pc = "connections"
            /\ \A k \in Activity \ {i, j} : act'[k] = act[k]
      BY <1>1, <2>1, <2>3, ConfigMoves
    <3>2. page'.boxes = page.boxes
          /\ page'.saved = IF r = "failed" THEN page.saved ELSE act[i].cond
      BY <1>1, <2>1, <2>3, ConfigMoves
    <3>3. act[i].pc = "config" /\ act[i].reply \in {"pending", "ok"}
      BY <1>1, <2>1, <2>3, HandlerIn DEF ConfigRead, HandlerOK
    <3>4. ~ blind' => r = "ok" /\ act[i].reply = "ok"
      BY <2>1, <3>3 DEF Continue
    <3> QED
      BY <1>1, <2>1, <2>2, <3>1, <3>2, <3>3, <3>4 DEF KnownInv, Known, Grows
  <2>4. CASE ~ ConfigRead(i, r)
    <3>1. /\ Others(i) /\ act'[i].pc \notin {"config", "info", "save"}
          /\ IF act[i].pc = "info" /\ r # "failed"
             THEN /\ page'.boxes = page.saved /\ page'.saved = page.saved
                  /\ page'.timer = page.timer
             ELSE SameBoxes(page, page')
      BY <2>1, <2>4, AnswerMoves
    <3>2. ~ blind' => (act[i].pc = "info" => page.saved \in entered \cup {Saved})
      BY <1>1, <2>1 DEF KnownInv, Known, Grows
    <3>3. ~ blind' =>
            /\ page'.boxes \in {page.boxes, NoBoxes} \cup entered' \cup {Saved}
            /\ page'.saved = page.saved
      BY <2>2, <3>1, <3>2 DEF SameBoxes
    <3> QED
      BY <1>1, <2>1, <2>2, <3>1, <3>3, KnownKept
  <2> QED
    BY <2>3, <2>4
<1>4. CASE User \/ TimerFires
  <2>1. file' = file
    BY <1>4, BackendKept DEF backend
  <2>2. CASE Edits
    <3>1. /\ act' = act /\ page'.saved = page.saved
          /\ (page'.boxes = NoBoxes <=> page.boxes = NoBoxes)
          /\ page'.boxes = page.boxes \/ page'.boxes \in entered' \cup {Saved}
      BY <2>2 DEF Edits
    <3> QED
      BY <1>1, <2>1, <3>1 DEF KnownInv, Known, Grows
  <2>3. ASSUME NEW i \in Activity, SendsBoxes(i)
        PROVE  KnownInv'
    <3>1. ~ blind' => /\ page.boxes # NoBoxes /\ page'.boxes = page'.saved
                      /\ page'.boxes = page.boxes \/ page'.boxes \in entered' \cup {Saved}
                      /\ act'[i].cond = page'.saved
      BY <2>3 DEF SendsBoxes
    <3>2. ~ blind' => page.boxes = NoBoxes \/ page.boxes \in entered' \cup {Saved}
      BY <1>1 DEF KnownInv, Known, Grows
    <3>3. Others(i) /\ act'[i].pc = "save"
      BY <2>3 DEF SendsBoxes
    <3> QED
      BY <1>1, <2>1, <3>1, <3>2, <3>3, KnownKept
  <2>4. ASSUME NEW i \in Activity, AsksList(i) \/ AsksNames(i) \/ Dialogs(i)
        PROVE  KnownInv'
    <3>1. Others(i) /\ act'[i].pc \notin {"config", "info", "save"}
      BY <2>4, UserStep DEF AsksList, AsksNames, Dialogs, Loads, Idle, Free
    <3>2. page'.boxes = page.boxes /\ page'.saved = page.saved
      BY <2>4 DEF AsksList, AsksNames, Dialogs, SameBoxes, SameShown
    <3> QED
      BY <1>1, <2>1, <3>1, <3>2, KnownKept
  <2> QED
    BY <1>4, <2>2, <2>3, <2>4, UserMoves
<1>5. CASE JobEnds
  BY <1>5, JobEndsMoves DEF KnownInv, Known
<1> QED
  BY <1>2, <1>3, <1>4, <1>5 DEF Next

\* What is saved was saved before or entered by the user: config.json and every
\* save under way have nothing else, unless the panel did not have the filters
\* (saveConfig, currentFilters).
THEOREM PanelKeepsConditions == Spec => []KeepsConditions
<1>1. Init => KnownInv
  <2> SUFFICES ASSUME Init PROVE KnownInv
    OBVIOUS
  <2>1. file.cond = Saved /\ page.boxes = NoBoxes
    BY DEF Init
  <2> QED
    BY <2>1, InitHandlers DEF KnownInv, Known, Free
<1>2. TypeInv /\ KnownInv /\ [Next]_vars => KnownInv'
  BY KnownNext DEF vars, KnownInv, Known
<1>3. KnownInv => KeepsConditions
  BY DEF KnownInv, Known, KeepsConditions
<1> QED
  BY <1>1, <1>2, <1>3, PanelInductive, PTL DEF Spec

\* A request that stays where it is remembers the others that do.
LEMMA TrackOld ==
    ASSUME Track, NEW i \in Activity, NEW j \in older[i],
           act'[i].pc = act[i].pc, act'[j].pc = act[j].pc
    PROVE  j \in older'[i]
  BY DEF Track

\* A new request remembers all the others of its kind.
LEMMA TrackNew ==
    ASSUME Track, NEW i \in Activity, act'[i].pc \in Raced, act'[i].pc # act[i].pc,
           NEW j \in Activity \ {i}, act'[j].pc = act'[i].pc
    PROVE  j \in older'[i]
  BY DEF Track

\* A step that leaves boxes, saves and config.json alone.
LEMMA SavedKept ==
    ASSUME Unbuilt \/ Built, NEW i \in Activity, Others(i), Track,
           page'.boxes = page.boxes, page'.saved = page.saved,
           page'.timer = page.timer, file' = file,
           act[i].pc \notin {"config", "info"}, ~ Pending(i),
           act'[i].pc \notin {"config", "info", "save"}
    PROVE  Unbuilt' \/ Built'
<1>1. \A j \in Activity \ {i} :
        act'[j] = act[j] \/ (act[j].pc = "confirm" /\ act'[j] = Free)
  BY DEF Others
<1>2. Free.pc = "free"
  BY DEF Free
<1>3. \A j \in Activity :
        (act'[j].pc = "save" /\ act'[j].reply = "pending") => j # i /\ Pending(j)
  BY <1>1, <1>2 DEF Pending
<1>4. CASE Unbuilt
  BY <1>1, <1>2, <1>4 DEF Unbuilt
<1>5. CASE Built
  <2>1. page'.boxes # NoBoxes /\ \A j \in Activity : act'[j].pc \notin {"config", "info"}
    BY <1>1, <1>2, <1>5 DEF Built
  <2>2. CASE page.timer
    BY <2>1, <2>2 DEF Built
  <2>3. CASE file.cond = page.boxes /\ \A j \in Activity : ~ Pending(j)
    BY <1>3, <2>1, <2>3 DEF Built, Pending
  <2>4. CASE \E k \in Activity :
               /\ Pending(k) /\ act[k].cond = page.boxes
               /\ \A j \in Activity \ {k} : Pending(j) => j \in older[k]
    <3>1. PICK k \in Activity :
            /\ Pending(k) /\ act[k].cond = page.boxes
            /\ \A j \in Activity \ {k} : Pending(j) => j \in older[k]
      BY <2>4
    <3>2. act'[k] = act[k] /\ act[k].pc = "save" /\ act[k].reply = "pending"
      BY <1>1, <3>1 DEF Pending
    <3>3. ASSUME NEW j \in Activity \ {k},
                 act'[j].pc = "save" /\ act'[j].reply = "pending"
          PROVE  j \in older'[k]
      <4>1. Pending(j) /\ j # i
        BY <1>3, <3>3
      <4>2. j \in older[k] /\ act'[j].pc = act[j].pc
        BY <1>1, <1>2, <3>1, <3>3, <4>1
      <4> QED
        BY <3>2, <4>2, TrackOld
    <3> QED
      BY <2>1, <3>1, <3>2, <3>3 DEF Built, Pending
  <2> QED
    BY <1>5, <2>2, <2>3, <2>4 DEF Built
<1> QED
  BY <1>4, <1>5

\* A save that overtakes none leaves what the last one has.
LEMMA SavedServe ==
    ASSUME TypeInv, Unbuilt \/ Built, ~ late', NEW i \in Activity, Serve(i)
    PROVE  Unbuilt' \/ Built'
<1>1. /\ page' = page /\ older' = older
      /\ \A j \in Activity \ {i} : act'[j] = act[j]
      /\ act'[i].pc = act[i].pc /\ act[i].reply = "pending" /\ act'[i].reply # "pending"
      /\ act[i].pc = "config" => act'[i].cond = file.cond
      /\ act[i].pc # "config" => act'[i].cond = act[i].cond
      /\ act[i].pc # "save" => file' = file
      /\ act[i].pc = "save" => file'.cond = act[i].cond /\ older[i] = {}
  BY ServeMoves
<1>2. CASE Unbuilt
  <2>1. file' = file
    BY <1>1, <1>2 DEF Unbuilt
  <2>2. PICK k \in Activity :
          \/ act[k].pc = "config" /\ (act[k].reply = "ok" => act[k].cond = file.cond)
          \/ act[k].pc = "info" /\ page.saved = file.cond
    BY <1>2 DEF Unbuilt
  <2>3. \/ act'[k].pc = "config" /\ (act'[k].reply = "ok" => act'[k].cond = file'.cond)
        \/ act'[k].pc = "info" /\ page'.saved = file'.cond
    BY <1>1, <2>1, <2>2
  <2>4. page'.boxes = NoBoxes /\ \A j \in Activity : act'[j].pc # "save"
    BY <1>1, <1>2 DEF Unbuilt
  <2> QED
    BY <2>3, <2>4 DEF Unbuilt
<1>3. CASE Built
  <2>1. page'.boxes # NoBoxes /\ \A j \in Activity : act'[j].pc \notin {"config", "info"}
    BY <1>1, <1>3 DEF Built
  <2>2. \A j \in Activity :
          (act'[j].pc = "save" /\ act'[j].reply = "pending") => j # i /\ Pending(j)
    BY <1>1 DEF Pending
  <2>3. CASE page.timer
    BY <1>1, <2>1, <2>3 DEF Built
  <2>4. CASE file.cond = page.boxes /\ \A j \in Activity : ~ Pending(j)
    <3>1. file' = file
      BY <1>1, <2>4 DEF Pending
    <3> QED
      BY <1>1, <2>1, <2>2, <2>4, <3>1 DEF Built, Pending
  <2>5. CASE \E k \in Activity :
               /\ Pending(k) /\ act[k].cond = page.boxes
               /\ \A j \in Activity \ {k} : Pending(j) => j \in older[k]
    <3>1. PICK k \in Activity :
            /\ Pending(k) /\ act[k].cond = page.boxes
            /\ \A j \in Activity \ {k} : Pending(j) => j \in older[k]
      BY <2>5
    <3>2. CASE k = i
      <4>1. file'.cond = page'.boxes
        BY <1>1, <3>1, <3>2 DEF Pending
      <4>2. \A j \in Activity : ~ (act'[j].pc = "save" /\ act'[j].reply = "pending")
        BY <1>1, <2>2, <3>1, <3>2 DEF Pending
      <4> QED
        BY <2>1, <4>1, <4>2 DEF Built, Pending
    <3>3. CASE k # i
      BY <1>1, <2>1, <2>2, <3>1, <3>3 DEF Built, Pending
    <3> QED
      BY <3>2, <3>3
  <2> QED
    BY <1>3, <2>3, <2>4, <2>5 DEF Built
<1> QED
  BY <1>2, <1>3

LEMMA SavedAnswer ==
    ASSUME TypeInv, StartInv, Unbuilt \/ Built, ~ failed', NEW i \in Activity,
           Answered(i) \/ TimesOut(i)
    PROVE  Unbuilt' \/ Built'
<1>1. /\ Continue(i, act[i].reply) /\ act[i].reply \notin {"failed", "pending"}
      /\ Track /\ Typed
  BY DEF Answered, TimesOut, Continue, TypeInv, Typed
<1>2. file' = file /\ ~ Pending(i)
  BY <1>1, BackendKept DEF backend, Pending
<1>3. act[i] \in HandlerType /\ HandlerOK(act[i]) /\ page \in PageType
  BY <1>1, HandlerIn DEF Typed, PageOK
<1>4. CASE ConfigRead(i, act[i].reply)
  <2>1. PICK j \in Activity \ {i} :
          /\ act'[i].pc = "info" /\ act'[j].pc = "connections"
          /\ \A k \in Activity \ {i, j} : act'[k] = act[k]
    BY <1>1, <1>4, ConfigMoves
  <2>2. page'.boxes = page.boxes /\ page'.saved = act[i].cond
    BY <1>1, <1>4, ConfigMoves
  <2>3. act[i].pc = "config" /\ act[i].reply = "ok"
    BY <1>1, <1>3, <1>4 DEF ConfigRead, HandlerOK
  <2>4. Unbuilt /\ act[i].cond = file.cond
    BY <2>3 DEF Built, Unbuilt, StartInv
  <2>5. \A k \in Activity : act'[k].pc # "save"
    BY <2>1, <2>4 DEF Unbuilt
  <2> QED
    BY <1>2, <2>1, <2>2, <2>4, <2>5 DEF Unbuilt
<1>5. CASE ~ ConfigRead(i, act[i].reply)
  <2>1. /\ Others(i) /\ act'[i].pc \notin {"config", "info", "save"}
        /\ IF act[i].pc = "info"
           THEN page'.boxes = page.saved
           ELSE SameBoxes(page, page')
    BY <1>1, <1>5, AnswerMoves
  <2>2. act[i].pc # "config"
    BY <1>1, <1>5 DEF Continue, InfoRead, ConnectionsRead, DatabasesRead, ListRead,
       ConfigSaved, JobStarted, Polled, Deleted
  <2>3. CASE act[i].pc # "info"
    BY <1>1, <1>2, <2>1, <2>2, <2>3, SavedKept DEF SameBoxes
  <2>4. CASE act[i].pc = "info"
    <3>1. \A j \in Activity \ {i} : act[j].pc \notin {"config", "info"}
      BY <2>4 DEF StartInv
    <3>2. Unbuilt /\ page.saved = file.cond
      BY <2>4, <3>1 DEF Unbuilt, Built
    <3>3. \A j \in Activity \ {i} : act'[j] = act[j] \/ act'[j] = Free
      BY <2>1 DEF Others
    <3>4. \A j \in Activity : act'[j].pc \notin {"config", "info", "save"}
      BY <2>1, <3>1, <3>2, <3>3 DEF Unbuilt, Free
    <3>5. page'.boxes = file'.cond /\ page'.boxes # NoBoxes
      BY <1>2, <1>3, <2>1, <2>4, <3>2, PanelAssumption DEF PageType
    <3> QED
      BY <3>4, <3>5 DEF Built, Pending
  <2> QED
    BY <2>3, <2>4
<1> QED
  BY <1>4, <1>5

LEMMA SavedUser ==
    ASSUME TypeInv, Unbuilt \/ Built, ~ blind', User \/ TimerFires
    PROVE  Unbuilt' \/ Built'
<1>1. file' = file
  BY BackendKept DEF backend
<1>2. CASE Edits
  <2>1. /\ act' = act /\ older' = older /\ page'.saved = page.saved
        /\ (page'.boxes = NoBoxes <=> page.boxes = NoBoxes)
        /\ page'.timer \/ (page'.timer = page.timer /\ page'.boxes = page.boxes)
    BY <1>2 DEF Edits
  <2>2. CASE Unbuilt
    BY <1>1, <2>1, <2>2 DEF Unbuilt
  <2>3. CASE Built
    BY <1>1, <2>1, <2>3 DEF Built, Pending
  <2> QED
    BY <2>2, <2>3
<1>3. ASSUME NEW i \in Activity, SendsBoxes(i)
      PROVE  Unbuilt' \/ Built'
  <2>1. /\ page.boxes # NoBoxes /\ page'.boxes # NoBoxes /\ act'[i].pc = "save"
        /\ act'[i].reply = "pending" /\ act'[i].cond = page'.boxes
        /\ Others(i) /\ Track /\ act[i].pc # "save"
    BY <1>3 DEF SendsBoxes, Idle
  <2>2. \A j \in Activity \ {i} : act'[j] = act[j] \/ act'[j] = Free
    BY <2>1 DEF Others
  <2>3. Built
    BY <2>1 DEF Unbuilt
  <2>4. \A j \in Activity : act'[j].pc \notin {"config", "info"}
    BY <2>1, <2>2, <2>3 DEF Built, Free
  <2>5. \A j \in Activity \ {i} : act'[j].pc = "save" => j \in older'[i]
    BY <2>1, TrackNew DEF Raced
  <2> QED
    BY <2>1, <2>4, <2>5 DEF Built, Pending
<1>4. ASSUME NEW i \in Activity, AsksList(i) \/ AsksNames(i) \/ Dialogs(i)
      PROVE  Unbuilt' \/ Built'
  <2>1. Others(i) /\ act'[i].pc \notin {"config", "info", "save"} /\ Idle(act[i])
    BY <1>4, UserStep DEF AsksList, AsksNames, Dialogs, Loads, Idle, Free
  <2>2. page'.boxes = page.boxes /\ page'.saved = page.saved
        /\ page'.timer = page.timer /\ Track
    BY <1>4 DEF AsksList, AsksNames, Dialogs, SameBoxes, SameShown
  <2> QED
    BY <1>1, <2>1, <2>2, SavedKept DEF Idle, Pending
<1> QED
  BY <1>2, <1>3, <1>4, UserMoves

LEMMA SavedNext ==
    ASSUME TypeInv, StartInv, SavedInv, Next
    PROVE  SavedInv'
<1> SUFFICES ASSUME ~ failed' /\ ~ late' /\ ~ blind'
             PROVE  Unbuilt' \/ Built'
  BY DEF SavedInv
<1>1. Unbuilt \/ Built
  BY HistoryGrows DEF Grows, SavedInv
<1>2. CASE JobEnds
  BY <1>1, <1>2, JobEndsMoves DEF Unbuilt, Built, Pending
<1> QED
  BY <1>1, <1>2, SavedServe, SavedAnswer, SavedUser DEF Next

\* At rest config.json has what is in the boxes: the last of the saves under
\* way has it, or all are done, or the timer runs (scheduleSave, saveConfig).
THEOREM PanelSavesBoxes == Spec => []SavesBoxes
<1>1. Init => SavedInv
  <2> SUFFICES ASSUME Init PROVE SavedInv
    OBVIOUS
  <2>1. page.boxes = NoBoxes
    BY DEF Init
  <2> QED
    BY <2>1, InitHandlers DEF SavedInv, Unbuilt, Free
<1>2. TypeInv /\ StartInv /\ SavedInv /\ [Next]_vars => SavedInv'
  BY SavedNext DEF vars, SavedInv, Unbuilt, Built, Pending
<1>3. SavedInv => SavesBoxes
  BY DEF SavedInv, Unbuilt, Built, Pending, SavesBoxes, AtRest
<1> QED
  BY <1>1, <1>2, <1>3, PanelInductive, PanelStartsOnce, PTL DEF Spec

-----------------------------------------------------------------------------
(* The selection.                                                          *)

\* A handler of a job that was started and whose end it has not seen.
Watches(a) ==
    \/ a.pc \in {"create", "diff", "force"} /\ a.reply = "ok"
    \/ a.pc = "poll" /\ a.reply = "pending"

Watched == \E i \in Activity : Watches(act[i])

\* A handler that goes on to load the list.
GoesOn(a) ==
    \/ a.pc \in {"config", "info", "connections", "databases", "delete"}
    \/ a.pc = "poll" /\ a.reply = "done"

WillLoad ==
    \/ \E i \in Activity : GoesOn(act[i])
    \/ Watched /\ job.phase = "done"

Selected ==
    IF page.db = NoDb THEN NoList
    ELSE [pair |-> <<page.conn, page.db>>, snaps |-> store[<<page.conn, page.db>>]]

\* The last list that was asked for is that of the selection.
Loading ==
    /\ page.db # NoDb
    /\ \E i \in Activity :
         /\ act[i].pc = "list" /\ act[i].pair = <<page.conn, page.db>>
         /\ act[i].reply = "ok" => act[i].snaps = store[act[i].pair]
         /\ \A j \in Activity \ {i} : act[j].pc = "list" => j \in older[i]

ListShown ==
    /\ \A i \in Activity : act[i].pc # "list"
    /\ page.shown = Selected

\* The last databases that were asked for are those of the connection.
Filling ==
    \E i \in Activity :
        /\ act[i].pc = "databases" /\ act[i].pair[1] = page.conn
        /\ \A j \in Activity \ {i} : act[j].pc = "databases" => j \in older[i]

Filled ==
    /\ \A i \in Activity : act[i].pc # "databases"
    /\ page.offer = page.conn /\ page.db \in page.options \cup {NoDb}

ListSound  == WillLoad \/ Loading \/ ListShown
NamesSound ==
    \/ \E i \in Activity : act[i].pc \in {"config", "connections"}
    \/ Filling
    \/ Filled
WatchSound == job.phase = "running" => Watched

ShownInv ==
    (~ failed /\ ~ late /\ ~ doubled) => WatchSound /\ ListSound /\ NamesSound

LEMMA OthersStay ==
    ASSUME NEW i, Others(i), NEW j \in Activity \ {i}
    PROVE  /\ act[j].pc # "confirm" => act'[j] = act[j]
           /\ act'[j] = act[j] \/ act'[j].pc = "free"
  BY DEF Others, Free

\* A job that runs has a handler that waits for its end.
LEMMA WatchNext ==
    ASSUME TypeInv, WatchSound, ~ failed', Next
    PROVE  WatchSound'
<1> SUFFICES ASSUME job'.phase = "running"
             PROVE  \E i \in Activity : Watches(act'[i])
  BY DEF WatchSound, Watched, Watches
<1>1. CASE \E i \in Activity : Serve(i)
  <2>1. PICK i \in Activity : Serve(i)
    BY <1>1
  <2>2. /\ \A j \in Activity \ {i} : act'[j] = act[j]
        /\ act'[i].pc = act[i].pc /\ act[i].reply = "pending"
        /\ act[i].pc = "poll" => job.phase # "running"
        /\ \/ job' = job
           \/ act[i].pc \in {"create", "diff", "force"} /\ act'[i].reply = "ok"
    BY <2>1, ServeMoves
  <2> QED
    BY <2>2 DEF WatchSound, Watched, Watches
<1>2. CASE \E i \in Activity : Answered(i) \/ TimesOut(i)
  <2>1. PICK i \in Activity : Answered(i)
    BY <1>2 DEF TimesOut
  <2>2. Continue(i, act[i].reply) /\ act[i].reply # "pending"
    BY <2>1 DEF Answered
  <2>3. PICK h \in Activity : Watches(act[h])
    BY <2>2, BackendKept DEF backend, WatchSound, Watched
  <2>4. CASE h = i
    <3>1. act[i].pc \in {"create", "diff", "force"} /\ act[i].reply = "ok"
      BY <2>2, <2>3, <2>4 DEF Watches
    <3>2. JobStarted(i, act[i].reply)
      BY <2>2, <3>1 DEF Continue, ConfigRead, InfoRead, ConnectionsRead, DatabasesRead,
         ListRead, ConfigSaved, Polled, Deleted
    <3>3. act'[i].pc = "poll" /\ act'[i].reply = "pending"
      BY <3>1, <3>2, StartedMoves DEF TypeInv, Typed
    <3> QED
      BY <3>3 DEF Watches
  <2>5. CASE h # i
    <3>1. act'[h] = act[h]
      <4>1. CASE ConfigRead(i, act[i].reply)
        <5>1. PICK j \in Activity \ {i} :
                act[j] = Free /\ \A k \in Activity \ {i, j} : act'[k] = act[k]
          BY <4>1, ConfigMoves DEF TypeInv, Typed
        <5> QED
          BY <2>3, <2>5, <5>1 DEF Watches, Free
      <4>2. CASE ~ ConfigRead(i, act[i].reply)
        BY <2>2, <2>3, <2>5, <4>2, AnswerMoves, OthersStay DEF Watches
      <4> QED
        BY <4>1, <4>2
    <3> QED
      BY <2>3, <3>1
  <2> QED
    BY <2>4, <2>5
<1>3. CASE JobEnds
  BY <1>3 DEF JobEnds, NoJob
<1>4. CASE User \/ TimerFires
  <2>1. PICK h \in Activity : Watches(act[h])
    BY <1>4, BackendKept DEF backend, WatchSound, Watched
  <2>2. CASE Edits
    BY <2>1, <2>2 DEF Edits
  <2>3. CASE \E i \in Activity :
               SendsBoxes(i) \/ AsksList(i) \/ AsksNames(i) \/ Dialogs(i)
    <3>1. PICK i \in Activity : Others(i) /\ Idle(act[i])
      BY <2>3, UserStep
    <3>2. h # i /\ act[h].pc # "confirm"
      BY <2>1, <3>1 DEF Watches, Idle
    <3> QED
      BY <2>1, <3>1, <3>2, OthersStay
  <2> QED
    BY <1>4, <2>2, <2>3, UserMoves
<1> QED
  BY <1>1, <1>2, <1>3, <1>4 DEF Next

\* A step that neither asks for databases nor reads any.
LEMMA NamesKept ==
    ASSUME NamesSound, NEW i \in Activity, Others(i), Track,
           page'.conn = page.conn, page'.offer = page.offer,
           page'.options = page.options,
           page'.db \in page.options \cup {NoDb} \/ page'.db = page.db,
           act[i].pc \notin {"config", "connections", "databases"},
           act'[i].pc # "databases"
    PROVE  NamesSound'
<1>1. CASE \E k \in Activity : act[k].pc \in {"config", "connections"}
  <2>1. PICK k \in Activity : act[k].pc \in {"config", "connections"}
    BY <1>1
  <2>2. act'[k] = act[k]
    BY <2>1, OthersStay
  <2> QED
    BY <2>1, <2>2 DEF NamesSound
<1>2. CASE Filling
  <2>1. PICK k \in Activity :
          /\ act[k].pc = "databases" /\ act[k].pair[1] = page.conn
          /\ \A j \in Activity \ {k} : act[j].pc = "databases" => j \in older[k]
    BY <1>2 DEF Filling
  <2>2. act'[k] = act[k] /\ k # i
    BY <2>1, OthersStay
  <2>3. ASSUME NEW j \in Activity \ {k}, act'[j].pc = "databases"
        PROVE  j \in older'[k]
    <3>1. act[j].pc = "databases"
      BY <2>3, OthersStay
    <3>2. j \in older[k]
      BY <2>1, <3>1
    <3> QED
      BY <2>1, <2>2, <2>3, <3>1, <3>2, TrackOld
  <2> QED
    BY <2>1, <2>2, <2>3 DEF NamesSound, Filling
<1>3. CASE Filled
  <2>1. \A j \in Activity : act'[j].pc # "databases"
    BY <1>3, OthersStay DEF Filled
  <2> QED
    BY <1>3, <2>1 DEF NamesSound, Filled
<1> QED
  BY <1>1, <1>2, <1>3 DEF NamesSound

\* A handler that asks for the databases of the connection.
LEMMA NamesAsked ==
    ASSUME NEW i \in Activity, Track, act'[i].pc = "databases",
           act[i].pc # "databases", act'[i].pair[1] = page'.conn
    PROVE  NamesSound'
<1>1. \A j \in Activity \ {i} : act'[j].pc = "databases" => j \in older'[i]
  BY TrackNew DEF Raced
<1> QED
  BY <1>1 DEF NamesSound, Filling

\* Databases that no later answer overtakes are those of the connection.
LEMMA NamesRead ==
    ASSUME Typed, NamesSound, NEW i \in Activity, NEW r, DatabasesRead(i, r),
           Track, older[i] = {}
    PROVE  NamesSound'
<1>1. PICK p : /\ PageOK(p) /\ SameBoxes(page, p) /\ p.busy = page.busy
               /\ p.conn = page.conn /\ p.offer = act[i].pair[1]
               /\ p.db \in p.options \cup {NoDb} /\ Loaded(i, act[i], p)
  BY DatabasesMoves
<1>2. act[i].pc = "databases" /\ act[i] \in HandlerType
  BY HandlerIn DEF DatabasesRead
<1>3. Others(i) /\ act'[i].pc \in {"free", "list"} /\ SameSelection(p, page')
  <2>1. CASE Yields(i, act[i], p)
    BY <2>1 DEF Yields, SameSelection, Free
  <2>2. CASE Loads(i, act[i], p)
    BY <2>2 DEF Loads, Free
  <2> QED
    BY <1>1, <1>2, <2>1, <2>2, LoadedMoves
<1>4. CASE \E k \in Activity : act[k].pc \in {"config", "connections"}
  <2>1. PICK k \in Activity : act[k].pc \in {"config", "connections"}
    BY <1>4
  <2>2. act'[k] = act[k]
    BY <1>2, <1>3, <2>1, OthersStay
  <2> QED
    BY <2>1, <2>2 DEF NamesSound
<1>5. CASE Filling
  <2>1. PICK k \in Activity :
          /\ act[k].pc = "databases" /\ act[k].pair[1] = page.conn
          /\ \A j \in Activity \ {k} : act[j].pc = "databases" => j \in older[k]
    BY <1>5 DEF Filling
  <2>2. CASE k = i
    <3>1. \A j \in Activity \ {i} : act[j].pc # "databases"
      BY <2>1, <2>2
    <3>2. \A j \in Activity : act'[j].pc # "databases"
      BY <1>3, <3>1, OthersStay
    <3> QED
      BY <1>1, <1>3, <2>1, <2>2, <3>2 DEF NamesSound, Filled, SameSelection
  <2>3. CASE k # i
    <3>1. act'[k] = act[k]
      BY <1>3, <2>1, <2>3, OthersStay
    <3>2. ASSUME NEW j \in Activity \ {k}, act'[j].pc = "databases"
          PROVE  j \in older'[k]
      <4>1. act[j].pc = "databases"
        BY <1>3, <3>2, OthersStay
      <4>2. j \in older[k]
        BY <2>1, <4>1
      <4> QED
        BY <2>1, <3>1, <3>2, <4>1, <4>2, TrackOld
    <3> QED
      BY <1>1, <1>3, <2>1, <3>1, <3>2 DEF NamesSound, Filling, SameSelection
  <2> QED
    BY <2>2, <2>3
<1> QED
  BY <1>2, <1>4, <1>5 DEF NamesSound, Filled

\* An answer that is used while nothing went wrong.
LEMMA GoodAnswer ==
    ASSUME TypeInv, ~ failed', ~ late', NEW i \in Activity, Answered(i) \/ TimesOut(i)
    PROVE  /\ Continue(i, act[i].reply) /\ Track
           /\ act[i].reply \notin {"failed", "pending"}
           /\ act[i].pc \in {"databases", "list"} => older[i] = {}
           /\ (page'.db = NoDb /\ act'[i] = Free)
                => \A j \in Activity \ {i} : act[j].pc # "list"
           /\ file' = file /\ store' = store /\ job' = job
<1>1. Continue(i, act[i].reply) /\ act[i].reply \notin {"failed", "pending"}
  BY DEF Answered, TimesOut
<1>2. Track /\ UNCHANGED backend
  BY <1>1 DEF Continue
<1>3. /\ act[i].pc \in {"databases", "list"} => older[i] = {}
      /\ (page'.db = NoDb /\ act'[i] = Free)
           => \A j \in Activity \ {i} : act[j].pc # "list"
  BY <1>1 DEF Continue, Overtakes, Raced
<1> QED
  BY <1>1, <1>2, <1>3 DEF backend

LEMMA NamesNext ==
    ASSUME TypeInv, NamesSound, ~ failed', ~ late', Next
    PROVE  NamesSound'
<1>0. Typed
  BY DEF TypeInv, Typed
<1>1. CASE \E i \in Activity : Serve(i)
  <2>1. PICK i \in Activity : Serve(i)
    BY <1>1
  <2>2. /\ page' = page /\ older' = older
        /\ \A j \in Activity : act'[j].pc = act[j].pc /\ act'[j].pair = act[j].pair
    BY <2>1, ServeMoves
  <2> QED
    BY <2>2 DEF NamesSound, Filling, Filled
<1>2. CASE \E i \in Activity : Answered(i) \/ TimesOut(i)
  <2>1. PICK i \in Activity : Answered(i) \/ TimesOut(i)
    BY <1>2
  <2> DEFINE r == act[i].reply
  <2>2. /\ Continue(i, r) /\ Track /\ r \notin {"failed", "pending"}
        /\ act[i].pc = "databases" => older[i] = {}
    BY <2>1, GoodAnswer
  <2>3. HandlerOK(act[i]) /\ act[i] \in HandlerType /\ PageOK(page)
    BY <1>0, HandlerIn DEF Typed
  <2> HIDE DEF r
  <2>4. CASE ConfigRead(i, r)
    BY <1>0, <2>4, ConfigMoves DEF NamesSound
  <2>5. CASE ConnectionsRead(i, r)
    <3>1. act'[i].pc = "databases" /\ act'[i].pair[1] = page'.conn
      BY <1>0, <2>2, <2>5, ConnectionsMoves
    <3> QED
      BY <2>2, <2>5, <3>1, NamesAsked DEF ConnectionsRead
  <2>6. CASE DatabasesRead(i, r)
    BY <1>0, <2>2, <2>6, NamesRead DEF DatabasesRead
  <2>7. CASE ListRead(i, r)
    <3>1. Others(i) /\ act'[i] = Free /\ SameSelection(page, page')
      BY <1>0, <2>7, ListMoves
    <3> QED
      BY <2>2, <2>7, <3>1, NamesKept DEF ListRead, SameSelection, Free
  <2>8. CASE ConfigSaved(i, r)
    <3>1. Others(i) /\ SameShown(page, page') /\ act'[i].pc # "databases"
      BY <1>0, <2>8, SavedMoves DEF Free
    <3> QED
      BY <2>2, <2>8, <3>1, NamesKept DEF ConfigSaved, SameShown
  <2>9. CASE JobStarted(i, r)
    <3>1. Others(i) /\ SameShown(page, page') /\ act'[i].pc # "databases"
      BY <1>0, <2>9, StartedMoves
    <3> QED
      BY <2>2, <2>9, <3>1, NamesKept DEF JobStarted, SameShown
  <2>10. CASE InfoRead(i, r)
    <3>1. PICK p : PageOK(p) /\ SameSelection(page, p) /\ Loaded(i, act[i], p)
      BY <1>0, <2>10, InfoMoves
    <3>2. Others(i) /\ act'[i].pc # "databases" /\ SameSelection(p, page')
      BY <1>0, <2>3, <3>1, LoadedMoves DEF Yields, Loads, SameSelection, Free
    <3> QED
      BY <2>2, <2>10, <3>1, <3>2, NamesKept DEF InfoRead, SameSelection
  <2>11. CASE Polled(i, r) \/ Deleted(i, r)
    <3>1. Others(i) /\ act'[i].pc # "databases" /\ SameSelection(page, page')
      BY <1>0, <2>11, PolledMoves, DeletedMoves
      DEF Loads, SameSelection, SameShown, Free
    <3>2. act[i].pc \in {"poll", "delete"}
      BY <2>11 DEF Polled, Deleted
    <3> QED
      BY <2>2, <3>1, <3>2, NamesKept DEF SameSelection
  <2> QED
    BY <2>2, <2>4, <2>5, <2>6, <2>7, <2>8, <2>9, <2>10, <2>11 DEF Continue
<1>3. CASE JobEnds
  BY <1>3, JobEndsMoves DEF NamesSound, Filling, Filled
<1>4. CASE User \/ TimerFires
  <2>1. CASE Edits
    BY <2>1 DEF Edits, SameSelection, NamesSound, Filling, Filled
  <2>2. ASSUME NEW i \in Activity, SendsBoxes(i) \/ Dialogs(i)
        PROVE  NamesSound'
    <3>1. Others(i) /\ Track /\ Idle(act[i]) /\ act'[i].pc # "databases"
      BY <2>2 DEF SendsBoxes, Dialogs, Idle
    <3>2. SameSelection(page, page')
      BY <2>2 DEF SendsBoxes, Dialogs, SameShown, SameSelection
    <3> QED
      BY <3>1, <3>2, NamesKept DEF Idle, SameSelection
  <2>3. ASSUME NEW i \in Activity, AsksList(i)
        PROVE  NamesSound'
    <3>1. Others(i) /\ act'[i].pc # "databases"
      BY <2>3 DEF AsksList, Loads, Free
    <3> QED
      BY <2>3, <3>1, NamesKept DEF AsksList, Idle
  <2>4. ASSUME NEW i \in Activity, AsksNames(i)
        PROVE  NamesSound'
    <3>1. CASE act'[i].pc = "connections"
      BY <3>1 DEF NamesSound
    <3>2. CASE act'[i].pc = "databases" /\ act'[i].pair[1] = page'.conn
      BY <2>4, <3>2, NamesAsked DEF AsksNames, Idle
    <3> QED
      BY <2>4, <3>1, <3>2 DEF AsksNames
  <2> QED
    BY <1>4, <2>1, <2>2, <2>3, <2>4, UserMoves
<1> QED
  BY <1>1, <1>2, <1>3, <1>4 DEF Next

\* A step that neither asks for a list, nor reads one, nor will.
LEMMA ListKept ==
    ASSUME ListSound, NEW i \in Activity, Others(i), Track,
           SameSelection(page, page'), page'.shown = page.shown,
           store' = store, job' = job, act[i].pc # "list", act'[i].pc # "list",
           ~ GoesOn(act[i]), Watches(act[i]) => Watches(act'[i])
    PROVE  ListSound'
<1>1. CASE \E k \in Activity : GoesOn(act[k])
  <2>1. PICK k \in Activity : GoesOn(act[k])
    BY <1>1
  <2>2. act'[k] = act[k]
    BY <2>1, OthersStay DEF GoesOn
  <2>3. GoesOn(act'[k])
    BY <2>1, <2>2
  <2> QED
    BY <2>3 DEF ListSound, WillLoad, GoesOn
<1>2. CASE Watched /\ job.phase = "done"
  <2>1. PICK k \in Activity : Watches(act[k])
    BY <1>2 DEF Watched
  <2>2. k = i \/ act'[k] = act[k]
    BY <2>1, OthersStay DEF Watches
  <2>3. Watches(act'[k])
    BY <2>1, <2>2
  <2> QED
    BY <1>2, <2>3 DEF ListSound, WillLoad, Watched, Watches
<1>3. CASE Loading
  <2>1. PICK k \in Activity :
          /\ act[k].pc = "list" /\ act[k].pair = <<page.conn, page.db>>
          /\ act[k].reply = "ok" => act[k].snaps = store[act[k].pair]
          /\ \A j \in Activity \ {k} : act[j].pc = "list" => j \in older[k]
    BY <1>3 DEF Loading
  <2>2. act'[k] = act[k] /\ page.db # NoDb
    BY <1>3, <2>1, OthersStay DEF Loading
  <2>3. ASSUME NEW j \in Activity \ {k}, act'[j].pc = "list"
        PROVE  j \in older'[k]
    <3>1. act[j].pc = "list"
      BY <2>3, OthersStay
    <3> QED
      BY <2>1, <2>2, <2>3, <3>1, TrackOld
  <2> QED
    BY <2>1, <2>2, <2>3 DEF ListSound, Loading, SameSelection
<1>4. CASE ListShown
  <2>1. \A j \in Activity : act'[j].pc # "list"
    BY <1>4, OthersStay DEF ListShown
  <2> QED
    BY <1>4, <2>1 DEF ListSound, ListShown, Selected, SameSelection
<1> QED
  BY <1>1, <1>2, <1>3, <1>4 DEF ListSound, WillLoad

\* A step that asks for the list of the selection, or needs none.
LEMMA ListAsked ==
    ASSUME NEW i \in Activity, NEW a, NEW p, Loads(i, a, p), Track,
           act[i].pc # "list",
           (page'.db = NoDb /\ act'[i] = Free)
             => \A j \in Activity \ {i} : act[j].pc # "list"
    PROVE  ListSound'
<1>1. CASE page'.db = NoDb /\ page'.shown = NoList /\ act'[i] = Free
  <2>1. \A j \in Activity : act'[j].pc # "list"
    BY <1>1, OthersStay DEF Loads, Free
  <2> QED
    BY <1>1, <2>1 DEF ListSound, ListShown, Selected
<1>2. CASE /\ page'.db # NoDb /\ act'[i].pc = "list"
           /\ act'[i].pair = <<page'.conn, page'.db>> /\ act'[i].reply = "pending"
  <2>1. \A j \in Activity \ {i} : act'[j].pc = "list" => j \in older'[i]
    BY <1>2, TrackNew DEF Raced
  <2> QED
    BY <1>2, <2>1 DEF ListSound, Loading
<1> QED
  BY <1>1, <1>2 DEF Loads

\* The start that leaves the list to its other handler.
LEMMA ListLeft ==
    ASSUME Typed, StartInv, NEW i \in Activity, act[i].pc \in {"info", "connections", "databases"},
           NEW p, Yields(i, act[i], p)
    PROVE  ListSound'
<1>1. PICK j \in Activity \ {i} : act[j].task = "start"
  BY DEF Yields
<1>2. act[i].task = "start" /\ Others(i)
  BY DEF Yields
<1>3. act[j].pc \notin {"config", "list"}
  BY <1>1, <1>2 DEF StartInv
<1>4. act[j].pc \in {"info", "connections", "databases"}
  <2>1. act[j] \in HandlerType /\ HandlerOK(act[j])
    BY HandlerIn
  <2> QED
    BY <1>1, <1>3, <2>1 DEF HandlerOK, HandlerType, Request, Free
<1>5. act'[j] = act[j]
  BY <1>2, <1>4, OthersStay
<1> QED
  BY <1>4, <1>5 DEF ListSound, WillLoad, GoesOn

\* The store changes only under a handler that will load the list again.
LEMMA ListServe ==
    ASSUME TypeInv, LockInv, ~ doubled, ListSound, NEW i \in Activity, Serve(i)
    PROVE  ListSound'
<1>1. /\ page' = page /\ older' = older
      /\ \A j \in Activity \ {i} : act'[j] = act[j]
      /\ act'[i].pc = act[i].pc /\ act'[i].pair = act[i].pair
      /\ act[i].reply = "pending" /\ act'[i].reply # "pending"
      /\ act[i].pc = "list" => act'[i].snaps = store[act[i].pair]
      /\ act[i].pc # "delete" => store' = store
      /\ act[i].pc = "poll" => act'[i].reply = job.phase
      /\ job' = job \/ act[i].pc \in {"create", "diff", "force"}
  BY ServeMoves
<1>2. CASE \E k \in Activity : GoesOn(act[k])
  <2>1. PICK k \in Activity : GoesOn(act[k])
    BY <1>2
  <2>2. GoesOn(act'[k])
    BY <1>1, <2>1 DEF GoesOn
  <2> QED
    BY <2>2 DEF ListSound, WillLoad, GoesOn
<1>3. CASE Watched /\ job.phase = "done"
  <2>1. PICK k \in Activity : Watches(act[k])
    BY <1>3 DEF Watched
  <2>2. CASE k = i
    <3>1. act'[i].pc = "poll" /\ act'[i].reply = "done"
      BY <1>1, <1>3, <2>1, <2>2 DEF Watches
    <3> QED
      BY <3>1 DEF ListSound, WillLoad, GoesOn
  <2>3. CASE k # i
    <3>1. act[i].pc \notin {"create", "diff", "force"}
      BY <2>1, <2>3 DEF LockInv, OfJob, Watches
    <3>2. job' = job /\ act'[k] = act[k]
      BY <1>1, <2>3, <3>1
    <3> QED
      BY <1>3, <2>1, <3>2 DEF ListSound, WillLoad, Watched, Watches
  <2> QED
    BY <2>2, <2>3
<1>4. CASE act[i].pc = "delete"
  BY <1>1, <1>4 DEF ListSound, WillLoad, GoesOn
<1>5. CASE act[i].pc # "delete" /\ Loading
  <2>1. PICK k \in Activity :
          /\ act[k].pc = "list" /\ act[k].pair = <<page.conn, page.db>>
          /\ act[k].reply = "ok" => act[k].snaps = store[act[k].pair]
          /\ \A j \in Activity \ {k} : act[j].pc = "list" => j \in older[k]
    BY <1>5 DEF Loading
  <2>2. /\ act'[k].pc = "list" /\ act'[k].pair = <<page'.conn, page'.db>>
        /\ act'[k].reply = "ok" => act'[k].snaps = store'[act'[k].pair]
    BY <1>1, <1>5, <2>1
  <2>3. \A j \in Activity \ {k} : act'[j].pc = "list" => j \in older'[k]
    BY <1>1, <2>1
  <2> QED
    BY <1>1, <1>5, <2>2, <2>3 DEF ListSound, Loading
<1>6. CASE act[i].pc # "delete" /\ ListShown
  BY <1>1, <1>6 DEF ListSound, ListShown, Selected
<1> QED
  BY <1>2, <1>3, <1>4, <1>5, <1>6 DEF ListSound, WillLoad

\* A list that no later answer overtakes is that of the selection.
LEMMA ListReadSound ==
    ASSUME Typed, ListSound, NEW i \in Activity, NEW r, r # "failed", r = act[i].reply,
           r # "pending", ListRead(i, r), Track, older[i] = {}, store' = store, job' = job
    PROVE  ListSound'
<1>1. /\ Others(i) /\ act'[i] = Free /\ SameSelection(page, page')
      /\ page'.shown = [pair |-> act[i].pair, snaps |-> act[i].snaps]
  BY ListMoves
<1>2. act[i].pc = "list" /\ act[i].reply = "ok"
  BY HandlerIn DEF ListRead, HandlerOK
<1>3. CASE \E k \in Activity : GoesOn(act[k])
  <2>1. PICK k \in Activity : GoesOn(act[k])
    BY <1>3
  <2>2. GoesOn(act'[k])
    BY <1>1, <1>2, <2>1, OthersStay DEF GoesOn
  <2> QED
    BY <2>2 DEF ListSound, WillLoad, GoesOn
<1>4. CASE Watched /\ job.phase = "done"
  <2>1. PICK k \in Activity : Watches(act[k])
    BY <1>4 DEF Watched
  <2>2. Watches(act'[k])
    BY <1>1, <1>2, <2>1, OthersStay DEF Watches
  <2> QED
    BY <1>4, <2>2 DEF ListSound, WillLoad, Watched, Watches
<1>5. CASE Loading
  <2>1. PICK k \in Activity :
          /\ act[k].pc = "list" /\ act[k].pair = <<page.conn, page.db>>
          /\ act[k].reply = "ok" => act[k].snaps = store[act[k].pair]
          /\ \A j \in Activity \ {k} : act[j].pc = "list" => j \in older[k]
    BY <1>5 DEF Loading
  <2>2. page.db # NoDb
    BY <1>5 DEF Loading
  <2>3. CASE k = i
    <3>1. \A j \in Activity : act'[j].pc # "list"
      BY <1>1, <2>1, <2>3, OthersStay DEF Free
    <3> QED
      BY <1>1, <1>2, <2>1, <2>2, <2>3, <3>1 DEF ListSound, ListShown, Selected, SameSelection
  <2>4. CASE k # i
    <3>1. act'[k] = act[k]
      BY <1>1, <2>1, <2>4, OthersStay
    <3>2. ASSUME NEW j \in Activity \ {k}, act'[j].pc = "list"
          PROVE  j \in older'[k]
      <4>1. act[j].pc = "list"
        BY <1>1, <3>2, OthersStay DEF Free
      <4> QED
        BY <2>1, <3>1, <3>2, <4>1, TrackOld
    <3> QED
      BY <1>1, <2>1, <2>2, <3>1, <3>2 DEF ListSound, Loading, SameSelection
  <2> QED
    BY <2>3, <2>4
<1> QED
  BY <1>2, <1>3, <1>4, <1>5 DEF ListSound, WillLoad, ListShown

LEMMA ListAnswer ==
    ASSUME TypeInv, StartInv, ListSound, ~ failed', ~ late', NEW i \in Activity,
           Answered(i) \/ TimesOut(i)
    PROVE  ListSound'
<1> DEFINE r == act[i].reply
<1>1. /\ Continue(i, r) /\ Track /\ r \notin {"failed", "pending"}
      /\ act[i].pc = "list" => older[i] = {}
      /\ (page'.db = NoDb /\ act'[i] = Free)
           => \A j \in Activity \ {i} : act[j].pc # "list"
      /\ store' = store /\ job' = job
  BY GoodAnswer
<1>2. Typed /\ HandlerOK(act[i]) /\ act[i] \in HandlerType /\ PageOK(page)
  BY HandlerIn DEF TypeInv, Typed
<1>3. CASE ConfigRead(i, r)
  BY <1>2, <1>3, ConfigMoves DEF ListSound, WillLoad, GoesOn
<1>4. CASE InfoRead(i, r) \/ DatabasesRead(i, r)
  <2>1. act[i].pc \in {"info", "databases"}
    BY <1>4 DEF InfoRead, DatabasesRead
  <2>2. PICK p : PageOK(p) /\ Loaded(i, act[i], p)
    BY <1>2, <1>4, InfoMoves, DatabasesMoves
  <2> HIDE DEF r
  <2>3. Yields(i, act[i], p) \/ Loads(i, act[i], p)
    BY <1>2, <2>2, LoadedMoves
  <2> QED
    BY <1>1, <1>2, <2>1, <2>3, ListLeft, ListAsked
<1>5. CASE ConnectionsRead(i, r)
  <2>1. act'[i].pc = "databases"
    BY <1>1, <1>2, <1>5, ConnectionsMoves
  <2> QED
    BY <2>1 DEF ListSound, WillLoad, GoesOn
<1>6. CASE ListRead(i, r)
  BY <1>1, <1>2, <1>6, ListReadSound DEF ListRead
<1>7. CASE ConfigSaved(i, r)
  <2>1. Others(i) /\ SameShown(page, page') /\ act'[i].pc # "list"
    BY <1>2, <1>7, SavedMoves DEF Free
  <2>2. act[i].pc = "save"
    BY <1>7 DEF ConfigSaved
  <2> QED
    BY <1>1, <2>1, <2>2, ListKept DEF SameShown, SameSelection, GoesOn, Watches
<1>8. CASE JobStarted(i, r)
  <2>1. /\ Others(i) /\ SameShown(page, page') /\ act'[i].pc # "list"
        /\ r # "confirm" => act'[i].pc = "poll" /\ act'[i].reply = "pending"
    BY <1>1, <1>2, <1>8, StartedMoves
  <2>2. act[i].pc \in {"create", "diff", "force"}
    BY <1>8 DEF JobStarted
  <2> QED
    BY <1>1, <2>1, <2>2, ListKept DEF SameShown, SameSelection, GoesOn, Watches
<1>9. CASE Polled(i, r)
  <2>1. act[i].pc = "poll"
    BY <1>9 DEF Polled
  <2>2. CASE r = "done"
    <3>1. Loads(i, act[i], page)
      BY <1>2, <1>9, <2>2, PolledMoves
    <3> QED
      BY <1>1, <2>1, <3>1, ListAsked
  <2>3. CASE r # "done"
    <3>1. Others(i) /\ act'[i] = Free /\ SameShown(page, page')
      BY <1>2, <1>9, <2>3, PolledMoves
    <3>2. ~ GoesOn(act[i]) /\ ~ Watches(act[i])
      BY <1>1, <2>1, <2>3 DEF GoesOn, Watches
    <3> QED
      BY <1>1, <2>1, <3>1, <3>2, ListKept DEF SameShown, SameSelection, Free
  <2> QED
    BY <2>2, <2>3
<1>10. CASE Deleted(i, r)
  <2>1. act[i].pc = "delete" /\ Loads(i, act[i], page)
    BY <1>1, <1>2, <1>10, DeletedMoves DEF Deleted
  <2> QED
    BY <1>1, <2>1, ListAsked
<1> QED
  BY <1>1, <1>3, <1>4, <1>5, <1>6, <1>7, <1>8, <1>9, <1>10 DEF Continue

LEMMA ListUser ==
    ASSUME TypeInv, ListSound, ~ late', User \/ TimerFires
    PROVE  ListSound'
<1>1. store' = store /\ job' = job
  BY BackendKept DEF backend
<1>2. CASE Edits
  <2>1. act' = act /\ older' = older /\ SameSelection(page, page') /\ page'.shown = page.shown
    BY <1>2 DEF Edits
  <2> QED
    BY <1>1, <2>1
    DEF ListSound, WillLoad, Watched, Loading, ListShown, Selected, SameSelection
<1>3. ASSUME NEW i \in Activity, SendsBoxes(i) \/ Dialogs(i)
      PROVE  ListSound'
  <2>1. Others(i) /\ Track /\ Idle(act[i]) /\ act'[i].pc # "list"
    BY <1>3 DEF SendsBoxes, Dialogs, Idle
  <2>2. SameSelection(page, page') /\ page'.shown = page.shown
    BY <1>3 DEF SendsBoxes, Dialogs, SameShown, SameSelection
  <2>3. act[i].pc # "list" /\ ~ GoesOn(act[i]) /\ ~ Watches(act[i])
    BY <2>1 DEF Idle, GoesOn, Watches
  <2> QED
    BY <1>1, <2>1, <2>2, <2>3, ListKept
<1>4. ASSUME NEW i \in Activity, AsksList(i)
      PROVE  ListSound'
  <2>1. PICK a, p : a \in HandlerType /\ Loads(i, a, p)
    BY <1>4 DEF AsksList
  <2>2. Track /\ act[i].pc # "list"
        /\ (page'.db = NoDb => \A j \in Activity : act[j].pc # "list")
    BY <1>4 DEF AsksList, Idle
  <2> QED
    BY <2>1, <2>2, ListAsked
<1>5. ASSUME NEW i \in Activity, AsksNames(i)
      PROVE  ListSound'
  BY <1>5 DEF AsksNames, ListSound, WillLoad, GoesOn
<1> QED
  BY <1>2, <1>3, <1>4, <1>5, UserMoves

LEMMA ListJobEnds ==
    ASSUME ListSound, WatchSound, JobEnds
    PROVE  ListSound'
<1>1. page' = page /\ act' = act /\ older' = older /\ job.phase = "running"
  BY DEF JobEnds
<1>2. Watched
  BY <1>1 DEF WatchSound
<1>3. CASE job'.phase = "done"
  BY <1>1, <1>2, <1>3 DEF ListSound, WillLoad, Watched
<1>4. CASE job'.phase # "done"
  <2>1. store' = store
    BY <1>4 DEF JobEnds, NoJob
  <2> QED
    BY <1>1, <2>1 DEF ListSound, WillLoad, Loading, ListShown, Selected
<1> QED
  BY <1>3, <1>4

LEMMA ShownNext ==
    ASSUME TypeInv, LockInv, StartInv, ShownInv, Next
    PROVE  ShownInv'
<1> SUFFICES ASSUME ~ failed' /\ ~ late' /\ ~ doubled'
             PROVE  WatchSound' /\ ListSound' /\ NamesSound'
  BY DEF ShownInv
<1>1. WatchSound /\ ListSound /\ NamesSound /\ ~ doubled
  BY HistoryGrows DEF Grows, ShownInv
<1>2. ListSound'
  BY <1>1, ListServe, ListAnswer, ListUser, ListJobEnds DEF Next
<1> QED
  BY <1>1, <1>2, WatchNext, NamesNext

\* At rest the panel shows the databases and the list of the selection: the
\* last request for them is for the selection and for what the store has now,
\* or a handler is under way that sends it (loadDatabases, loadSnapshots).
THEOREM PanelShowsSelection == Spec => []ShowsSelection
<1>1. Init => ShownInv
  <2> SUFFICES ASSUME Init PROVE ShownInv
    OBVIOUS
  <2>1. PICK i \in Activity : act[i].pc = "config"
    BY InitHandlers
  <2>2. job.phase # "running"
    BY DEF Init, NoJob
  <2> QED
    BY <2>1, <2>2 DEF ShownInv, WatchSound, ListSound, WillLoad, GoesOn, NamesSound
<1>2. TypeInv /\ LockInv /\ StartInv /\ ShownInv /\ [Next]_vars => ShownInv'
  <2> SUFFICES ASSUME TypeInv, LockInv, StartInv, ShownInv, [Next]_vars PROVE ShownInv'
    OBVIOUS
  <2>1. CASE UNCHANGED vars
    BY <2>1 DEF vars, ShownInv, WatchSound, ListSound, NamesSound, WillLoad, Watched,
       Loading, ListShown, Selected, Filling, Filled
  <2> QED
    BY <2>1, ShownNext
<1>3. ShownInv => ShowsSelection
  <2> SUFFICES ASSUME ShownInv, AtRest, ~ failed, ~ late, ~ doubled
               PROVE  /\ page.offer = page.conn
                      /\ page.db \in page.options \cup {NoDb}
                      /\ page.shown = Selected
    BY DEF ShowsSelection, Selected
  <2>1. \A i \in Activity : act[i].pc = "free"
    BY DEF AtRest
  <2>2. ~ WillLoad /\ ~ Loading
    BY <2>1 DEF WillLoad, Watched, Watches, GoesOn, Loading
  <2>3. ListShown
    BY <2>2 DEF ShownInv, ListSound
  <2>4. Filled
    BY <2>1 DEF ShownInv, NamesSound, Filling
  <2> QED
    BY <2>3, <2>4 DEF ListShown, Filled
<1> QED
  BY <1>1, <1>2, <1>3, PanelInductive, PanelLockInductive, PanelStartsOnce, PTL DEF Spec

=============================================================================
