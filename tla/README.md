# A TLA+ model of the dbdiff plugin

The plugin takes snapshots of six tables and the schema of a database, compares
a live database with an earlier snapshot, and writes the SQL that turns the old
state into the new one.  It is a sidecar process (Rust, `backend/src`) that
answers the JSON-RPC requests of a panel (`ui/index.html`) and talks to the
database only through the `dbx` command line program.

This directory holds TLA+ modules translated from that code, the TLC
configurations that check them on small instances, and proofs checked by TLAPS.

## Inventory

| part | state | operations | interacts with |
|---|---|---|---|
| job slot (`snapshot.rs`) | one `Option<Job>` behind a mutex, one cancel flag per job | `begin_job`, `with_job`, `settle`, `status`, `cancel`, `cancelled` | request handlers, worker thread |
| snapshot store (`store.rs`) | directories `<connection>/<database>/<id>/` with `data/*.jsonl`, `schema.jsonl`, `meta.json`; older snapshots one level up | `next_snapshot_id`, `prepare_dir`, `write_meta`, `read_meta`, `list`, `delete`, `migrate_legacy` | worker thread, list and delete requests |
| snapshot job (`snapshot.rs`) | worker thread | `run_snapshot`, `scan_table`, `collect_table_meta`, `write_schema`, `count_rows`, `probe_session`, `resolve_specs` | slot, store, `dbx` |
| comparison job (`diff.rs`) | worker thread | `start`, `run`, `collect_and_compare`, `read_baseline_rows`, `compare`, `write_outputs` and the renderers | slot, store, `dbx`, output directory |
| request handlers (`main.rs`) | none | the method table | all of the above |
| `dbx` client (`cli.rs`) | child process, resolved path, connection kinds | `query`, `query_with_cancel`, `query_once`, `run`, `resolve`, `connection_kind` | operating system |
| schema comparison (`schema.rs`, `schema_pg.rs`) | none | `collect`, `diff`, `widens` | `dbx` |
| tables and dialects (`tables.rs`, `dialect.rs`) | none | `resolve`, `resolve_all`, quoting | - |
| encoding (`encode.rs`) | none | `encode_values`, hashes | - |
| configuration (`config.rs`) | one JSON file | `load`, `save` | - |
| panel (`ui/index.html`) | pickers, list, filter boxes, save timer, busy flag | event handlers, each with its awaits | requests |
| generated files (`diff.rs`) | backup tables, on the target | the statements of 00 to 04 | the user's SQL client |

What is hard: the worker thread runs for minutes while handlers cancel, delete,
list and start; the process can die between any two files; every query can
fail, time out or be retried; the source changes while it is read; the SQL that
is produced is run later, possibly twice, on a database that has moved on.
What each part must keep true is listed as hazards in `PROJECT.json`, each at
its line.

## Modules

| module | models |
|---|---|
| `SnapshotStore` | the directories and files of one connection, each operation of `store.rs` as an operator |
| `JobSlot` | the job slot, each access under the mutex as an operator |
| `DbDiffJobs` | the process: handlers, the worker thread of either kind of job, crashes, the clock; composes the two above |
| `AtomicStore` | the abstract promise: whole snapshots appear and go at once, one job at a time |
| `DbDiffJobs_proofs` | the inductive invariant and the theorems |
| `JobPromises_proofs` | on top of it: what a job promises of its queries, progress, leftovers and baseline, and the refinement of `AtomicStore` |
| `MCDbDiffJobs` | instance for TLC |
| `RowDiff` | the data channel for one table, as pure operators: a page of a scan, folding, hashing, `compare`, the effect of 03 and 04 |
| `SyncRounds` | rounds of comparison: a source that changes while it is read, the snapshots, the scripts, and the target they are run on; composes the operators of `RowDiff` |
| `RowDiff_proofs`, `SyncRounds_proofs` | facts on the operators; the inductive invariant of the rounds and its theorems |
| `MCSyncRounds` | instance for TLC |
| `CliQuery` | one query through the `dbx` program: the process, its pipes, the deadline, cancel and retries |
| `QueryPromise` | what a job relies on: a query returns, once, and is cancelled only if asked |
| `CliQuery_proofs` | its inductive invariant and theorems, and that its steps are steps of `QueryPromise` |
| `MCCliQuery` | instance for TLC |
| `Widening` | column types, `widens` of either dialect, and what a column of a type can hold |
| `SchemaDiff` | the schema channel as pure operators: `diff` of two schemas into the statements of 01 and 02, notes and removals, and what a statement does to a database |
| `SchemaRounds` | rounds of comparison of the schema: a source altered between the catalogue queries, the snapshots, and a target on which the files are run, in part or twice; composes `SchemaDiff` |
| `SchemaRounds_proofs` | a widening loses no value; what databases and statements do to one another; the inductive invariant of the schema rounds and its theorems |
| `MCSchemaRounds` | instance for TLC |
| `TargetScripts` | 03 and 04 of one comparison, statement by statement, on a target others write to as well; below `RunScripts` of `SyncRounds` |
| `TargetScripts_proofs` | its inductive invariant and theorems |
| `MCTargetScripts` | instance for TLC |
| `Panel` | the handlers of the page, between whose awaits others run, and as much of the sidecar as answers them |
| `Panel_proofs` | its inductive invariants and theorems |
| `MCPanel` | instance for TLC |

`DbDiffJobs` and `SyncRounds` cut the system along its two concerns and meet in
`collect_and_compare`.  The first has every file, thread and early return and
no rows; the second has the rows and columns of one table and takes from the
first that one job runs at a time and that a snapshot is recorded whole or not
at all (`OneWorker`, `ListedComplete`).  `SchemaRounds` is the same cut for the
other channel: schemas and no rows.  `CliQuery` is below both: it shows that a
query returns, which `DbDiffJobs` assumes as the fairness of its workers.
`TargetScripts` is below `SyncRounds`: its `Effect` is stated with the operators
(`Overwrite`, `Remove`) that `RunScripts` applies in one step.  `Panel` is on
top: its sidecar is the one of `DbDiffJobs` seen from outside, one slot, jobs
that end, lists and deletions that are whole.

### State and actions

A file is `Absent`, `Partial`, or complete, and then its value is the job that
wrote it; what is in it does not matter here.  A directory is a key (database,
second, suffix).  `clock` may move to any second at every step: local time is
used, and it jumps.

A worker's `pc` names the query in flight or the file being written.  The cuts
are where another thread can matter:

* `resolve`, `name`, `mkdir`: before there is anything to clean up
  (`run_snapshot` to `prepare_dir`; a comparison resolves its tables in the
  request handler instead, between `CheckBaseline` and `StartDiff`);
* `base`: a comparison reads `schema.jsonl` and then the data files of its
  baseline, one step each;
* `table`, `page`, `fetch`, `flush`, `count`: `collect_table_meta` for one
  table, with one `page`/`fetch` pair per page;
* `schema`, `schemaFile`, `probe`, `metaOpen`, `metaClose`, `outputs`: the end
  of a job, in the different order the two kinds of job have;
* `cleanup`, `settle`: every early return.

`handler` holds what a request handler that takes more than one step is in the
middle of: `delete` (a `remove_dir_all`, one entry per step, which may fail
part-way), `list` (one rename per step), `diff` (a checked baseline, before the
job starts).  `asked`, `discarded` and `finished` are history: ids the user
asked to delete, ids a job has set out to remove, and snapshots reported done.
When a directory is created under an id used before, its history starts afresh.

### State and actions of the rounds

`source` and `shape` are the live table: a function from primary keys
`<<id, version>>` to rows, and its columns, each with the default it was added
with.  Identities are `id` alone, as in `tables.rs`, so an identity may have
several rows.  `target` and `targetShape` are the table the scripts are run on,
`snaps` and `scripts` what comparisons wrote (`scripts[n]` leads to
`snaps[n + 1]`, from any earlier snapshot), and `at` the snapshot the target
was brought to.  `current`, `quiet`, `idle`, `narrow`, `unfolded` and `steady`
are history, for the hypotheses of properties; no guard reads them.

* `PutRow`, `DropRow`, `AddColumn`, `DropColumn`: the source's users, at any
  moment, also between two pages.
* `StartCompare`: the table's columns are looked up by the request handler
  (`plan_comparisons`: a lost column refuses, gained columns are noted).  Any
  filter may be used: another one than the baseline's has been confirmed.
* `ReadSchema`: the job reads the columns a second time, for 01.
* `ScanPage`: one `LIMIT/OFFSET` query; `Abandon`: any failure or cancel.
* `Finish`: `COUNT(*)`, which may fail, `compare`, `meta.json`, the scripts.
* `RunScripts`: 01, 03 and 04 on a target that is where their baseline was.

### State and actions of a query

`pc` is where the calling thread is: `spawn`, `poll` (the loop in `run`), `join`
(the two reader threads), `backoff` (the sleep before a retry), `done`.  `plan`
is chosen when a process starts: how many chunks it would write to either pipe
and whether its JSON is an answer or an error.  `wrote`, `read` count chunks, a
pipe holds `Capacity` of them; `child` is the process that was spawned.

Time is counted in polls.  It passes only while the caller sleeps or waits and
the readers have nothing to read: the plugin's threads are prompt compared with
50 ms.  Nothing at all is assumed of the child, which may write, stop writing,
crash or hang at any moment.  The fairness is that of the plugin's own threads
and of the clock (`CallerStep`, `Drain`, `Tick`), never of the child or the user.

* `Spawn`, `SpawnFails`: the process and its two reader threads, or
  `CLI_NOT_FOUND`.
* `PollCancelled`, `PollExited`, `PollTimeout`, `PollAgain`, `PollFails`: one
  turn of the loop each, in the order in which it looks: flag, `try_wait`,
  deadline.
* `Joined`: both pipes are read to their end, the output is parsed, and
  `query_with_cancel` returns or retries.  Output that was cut off has no JSON;
  what then stands on stderr may still read like a connection error.
* `Write`, `ChildEnds`, `SetFlag`: the child and the user.

### State and actions of the schema rounds

A schema is four functions: tables to their default collation, columns to their
definition (type, default, collation), indexes to the column they are on, and
foreign keys to the table they refer to.  `live` and `target` are databases,
`snapshot` is the last `schema.jsonl`, which is the next baseline.  `script` is
what the last comparison wrote: each statement has its file (01 or 02) and its
place in it.  `behind` (objects with a skipped statement or a note), `reported`,
`lossy` and `unsteady` are history; no guard reads them.

* `Alter`: any legal change of the source by one object, also between two
  catalogue queries.
* `ReadTables`, `ReadColumns`, `ReadIndexes`, `Finish`: the four queries of
  `collect`; with a filter the later three ask for the tables of the first.
  `Finish` is also `diff` and the writing of the files.  `Abandon`: any failure
  or cancel.
* `Run`, `Skip`: the statements, in the order of the files.  One that the
  database refuses is skipped, and any may be: it may fail on the rows, or a
  user may decline it.  `Rerun`: both files from the start.

### State and actions of the scripts

`target` is the table, `bak[f]` the backup table of file `f` (03 is `"data"`, 04
`"delete"`), `pos[f]` the statement a run of the file is at.  `wide` says whether
01 has added the column that the INSERTs name.  `theirs` is what the table would
hold without the scripts; it, `clean`, `applied`, `drifted`, `raced` and
`unsaved` are history, and no guard reads them.

* `CreateBackup`: `CREATE TABLE IF NOT EXISTS ... LIKE`, with the columns and
  the primary key of that moment.
* `BackUp`, `DeleteChunk`: one `CHUNK` each.  A backup is one `INSERT ... SELECT
  *`: it fails as a whole on one row that is saved already (`Conflict`), and if
  the table has gained a column since the backup table was created.
* `InsertRow`: one row; it fails if its key is taken or its column missing.
* `Skip`: a statement fails, for one of those reasons or in passing, and the
  client goes on, as the header of the file tells it to.  `Halt`: it stops.
  `Begin`: the whole file, again.
* `WidenTable`: 01, before, between or never (the schema filter may leave the
  table out of it).  `OtherPuts`, `OtherDrops`: other programs.

### State and actions of the panel

`page` is what the page shows and remembers, `act[i]` a handler that is under
way: which one, the request it awaits (`pc`), and its local variables (`pair`,
`cond`, `snaps`).  `file`, `store` and `job` are the sidecar's `config.json`,
snapshots and slot.  JavaScript runs one handler at a time up to its next
`await`, so an action is what lies between two awaits.

* `ServeConfig` to `ServeDelete`: the sidecar serves a request; `Answered`: the
  handler goes on with the answer; `TimesOut`: it goes on with an exception,
  before or after the request was served.
* `ConfigRead` to `Deleted`: what each handler does after its request.
  `ConfigSaved` is where `createSnapshot` reads the pickers and boxes again,
  and `runDiff` uses what it read at the click.
* `BeginProgress`, `ResetProgress`: `setBusy`.  What is off cannot be clicked;
  nor can anything while a dialog or the file picker is open.
* `Type` to `Confirms`: the user.  `TimerFires`: `scheduleSave`.
* `doubled`, `unheard`, `opened`, `late`, `blind`, `unpolled` and `older` are history
  variables, read by no guard: what the properties of the panel exempt.

### Abstractions

* A hash is the values it was computed from, the version included:
  `encode_values` is injective, and collisions of SHA-256 are left out.
* `SyncRounds` has one table.  Nothing relates two data tables but the order in
  which they are read, and each is compared on its own.
* Filters are sets of rows that depend only on `BaseColumns`, the columns the
  table always has.  The built-in filter is on `ds_active`; a filter typed by
  the user that names a column a table has only lately gained is left out.
* The identity columns never change (a comparison refuses if they do), and the
  schema filter keeps the table, so that 01 adds the columns 03 names.
* The scripts of a comparison are one step in `SyncRounds`, run in the order of
  their numbers.  Stopped half-way, skipped or repeated statements are those of
  `TargetScripts`.
* `TargetScripts` has one table (the files list one table after the other, and
  nothing relates two) and at most one new column, which every INSERT names; a
  table 01 lacks it in is one whose `wide` stays false.  An identity stands for
  the predicate that names it.  Every statement commits on its own.
* In `Panel` a condition stands for the filters of all six tables, and the schema
  filter is seen only by the timer it starts.  Left out, as nothing else
  depends on them: status line, progress bar, report, detail window, export,
  reveal, copy.  Connections do not change while the page is open.  A request
  whose answer cannot change is not served in a step of its own.
* In `SchemaRounds` the pages and shards of one catalogue query are one step:
  they differ in which tables a tear falls between, and the tear between two
  queries is there already.  `collation` stands for every part of a column that
  `diff` reviews on its own (`EXTRA`, character set), `default` for every part
  that goes into 01 (nullability too), a table's collation for its options
  (`ENGINE` too).  An index is on one column.  Primary keys of PostgreSQL, which
  go into `CREATE TABLE`, are not told apart from its other indexes.
* The baseline of a schema comparison is the last snapshot.  Statements are run
  before the source changes again; the two databases do not touch, so this
  loses no outcome.
* What a column can hold (`Covers`) is digits on either side of the point, or a
  length; whether the rows in the table fit is left to `Skip`.
* A snapshot's `schema.jsonl` is written in one step: without `meta.json` no
  one reads it.  The output files of a comparison are one step: nothing in the
  store depends on them.
* A second offers `MaxSuffix` names and they do not run out (999 in the code,
  which then falls back to one more, unchecked name).
* In `DbDiffJobs` queries return or fail, which is what `CliQuery` shows
  (`ImplementsPromise`); it is the fairness assumed: `WF_vars(WorkerStep(j))`, a running thread takes its next
  step.  Nothing is assumed of users, handlers, the clock or crashes.
* The SDK that dispatches requests is not part of the repository.  `Handlers`
  is the set of its threads; the runs use one (requests one after the other)
  and two.  With two, a deletion in progress and a job that reuses the same
  name within the same second can meet, after the baseline was checked: the
  comparison then reads the one that took the name.  `BaselineSound` says so; it
  is checked with one handler and proved for any number.

## Runs

| run | instance | shows |
|---|---|---|
| `jobs_safety` (`MCDbDiffJobs.cfg`) | 2 jobs, 2 tables, 1 handler, 1 second with 2 names | the invariants, progress, and refinement of `AtomicStore` |
| `migration` (`MCMigration.cfg`) | 1 job, 1 table, 2 handlers, 2 seconds, 1 legacy second | nothing is lost while flat snapshots move; every job settles |
| `sync_rounds` (`MCSyncRounds.cfg`) | 2 identities, 2 versions, 2 columns, 3 values, pages of 1 row, 2 comparisons, 2 writes, 2 filters | the target keeps up, also under filters that narrow and widen; the next undisturbed comparison heals, comparing with oneself is empty, the precheck accepts |
| `sync_defaults` | 1 version, 1 filter | a statement that the code does not keep |
| `cli_query` (`MCCliQuery.cfg`) | 3 retries, deadline of 2 polls, pipes of 1 chunk, up to 2 chunks each | no answer lost, no blocked pipe, no orphan, bounded time, refinement of `QueryPromise` |
| `schema_rounds` (`MCSchemaRounds.cfg`) | 2 tables, 2 columns, 1 index, 1 key, 3 types, both dialects; 2 changes, 2 comparisons, 1 rerun, 2 filters | the target keeps up with what was neither skipped nor noted, extras are reported, 01 does not narrow |
| `schema_declined` | the same | a statement that the code does not keep |
| `target_scripts` (`MCTargetScripts.cfg`) | 3 identities, 2 versions, chunks of 1, a new column, 3 runs, 1 write of others | what was removed can be found, a clean run does what was meant |
| `scripts_rerun` | the same | a statement that the code does not keep |
| `panel` (`MCPanel.cfg`) | 2 connections with 2 and 1 databases, 2 conditions, 3 handlers at a time, 2 clicks, 1 timeout, 2 snapshots | locked and unlocked, shows the selection, keeps the conditions |
| `panel_unheard` | the same | a statement that the code does not keep |
| `panel_pair` | the same; without a timeout | a statement that the code does not keep |

For a query, pipes shorter than what is written let the child block; a deadline
of two polls lets it end before, at and after; the backoff unit is one poll, so
that cancels fall before, in and after a sleep.  `MaxNow` is beyond the bound of
`ReturnsInTime`, which shows that the clock's bound cuts nothing off.

The schema rounds need a second table for a filter to leave out and a key to
refer to, a second column for positions and the index to move, two changes for one to fall
between two queries or for a declined one to be followed by another of the same
column, and three decimals of which one pair widens, one narrows and one trades
digits across the point.

The rounds need two identities for a row to shift to another page, two versions
for one to be folded, on the same page or the next; a page of one row makes
every number of rows a multiple of the page size; two comparisons, as the
second reads what the first recorded and heals it; two writes for one to tear
a scan and one to change the columns.  With three writes (8 million states) the
properties hold as well.  The source and the target may stop, so deadlock is
not checked in these runs.

The scripts need an identity with two versions on the target, one whose version
differs from the source's and one that is absent from it; two chunks for a run
to stop between them; a run of each file and one rerun; one write of others to
fall before, between and after.

The panel needs a connection with a default database and one without, whose
database has the name of one of the other's, so that a stale pair still names
something; three handlers for two to overtake each other while the timer saves;
two clicks for the second to fall between the awaits of the first (the start of
the page is a third); one failure to fall at each await.  Clicks on the cancel
button, answers to dialogs and timers are not counted.

Two tables are needed for a loop that has a first and a last turn; two jobs for
one job's leftovers and files to meet the next; one second for both jobs to
want the same name.  One full page (`MaxPages`) gives a table with one and with
two pages.  Jobs are symmetric in `jobs_safety`, where all temporal formulas are
safety; `migration`, which checks liveness, uses no symmetry.

The properties:

* `OneWorker`: as long as a thread is alive, removing its leftovers included,
  the slot says running and is its own.
* `ListedComplete`: what the list shows is whole and from one run.
* `FinishedSurvives`: a finished snapshot stays until the user deletes it.
* `BaselineSound`: what a comparison that goes on has read of its baseline is
  of one writer: of the snapshot its request was checked against, unless the
  name went to another between that check and the start of the job.
* `NothingLeftBehind`: a failed or cancelled job leaves nothing that can be
  read as a snapshot, except a comparison whose removal was cut short.
* `AtMostOneLateQuery`: after a cancel at most one more query starts.
* `ProgressMonotone`: progress neither goes back nor exceeds its total.
* `ImplementsAtomicStore`: all of it implements `AtomicStore`.
* `JobSettles`: the slot is always given back.
* `TargetHolds`: for each identity of the snapshot the target was brought to,
  it holds the recorded row, whatever the scans saw of the source.
* `NothingExtra`: it holds no row under the filter that the snapshot does not
  know, as long as no comparison widened the filter.  (Widening is exempt by
  design: rows that only the wider filter keeps are in no earlier snapshot, so
  they cannot be found to be gone.)
* `ScanExact`: an undisturbed scan returns each identity once, first version.
* `Healed`: after the scripts of an undisturbed comparison the target holds the
  source's rows, whatever earlier scans tore.
* `SelfCompareEmpty`: a snapshot compared with an unchanged source under its
  own filter gives no statement, also right after columns drifted.
* `PrecheckAccepts`: the precheck does not reject the target its baseline
  describes, provided that nothing was folded, no filter widened, every
  `COUNT(*)` agreed with the rows read, and the filter is the baseline's.
* `AnswerNotLost`: an answer that was written whole is returned, also if the
  process then crashes or is killed at its deadline.
* `NoPipeDeadlock`: a query only times out if the child let time pass although
  it could have gone on; it is never held up by a pipe that nobody reads.
* `NoOrphan`: no `dbx` process outlives the call (but for a failed `try_wait`).
* `ReturnsInTime`: deadline and retries bound the whole call.
* `CancelPrompt`: after a cancel the call ends at the next poll or at the end of
  the sleep before a retry, and starts at most one more process.
* `ColumnsKeepUp`: once the files were run, a recorded column is in the target
  as recorded, unless a statement about it was skipped.  Not meant, because the
  statements do not say them: on PostgreSQL a collation and the end of a
  default; on MySQL a collation in a table whose default has changed.
* `IndexesKeepUp`: the same of indexes, whose changes are noted, and on MySQL of
  the names of foreign keys.
* `ExtrasReported`: what the target has and the snapshot lacks was reported as
  removed, in some round.
* `AutoKeepsData`: 01 narrows no column on which the target is not behind.  The
  types of the run are decimals; `float` and `double` with two numbers are left out,
  of which `widens` lets narrowings through (below).
* `ImplementsPromise`: it implements `QueryPromise`, liveness included.
* `Recoverable`: a row that the scripts removed is in a backup table of a file
  that lists it, whatever was skipped, interrupted, repeated or run side by
  side; unless others wrote to listed rows after a first run began and while one
  was under way or its failing backup was skipped, or a backup was skipped that
  failed on something else than a row saved already.
* `Effect`: after clean runs the table is what the comparison meant, whatever
  runs came before.
* `Locked`: from the request for a job until the job has ended, and on until the
  panel has seen it, everything but cancel is off, and cancel is not hidden;
  pickers, create button and boxes only if no load ended since the panel was locked
  (`opened`).  It does not speak of a job whose request or status poll failed
  (`unheard`) or of a second job clicked meanwhile (`doubled`).  The first two of
  the three contradict a text (below).
* `ShowsSelection`: at rest the panel shows the databases and snapshots of what
  is selected, unless a request failed or a later one's answer came first (`late`:
  it does not say that answers are told apart, as they are not).
* `SavesBoxes`: at rest `config.json` has what the boxes say, likewise.
* `KeepsConditions`: saved conditions are replaced by what the user entered and
  nothing else, unless they were saved before the boxes were there.
* `Unlocks`: a locked panel is unlocked in the end, unless a comparison's status
  request failed.  Assumed is that requests are answered and jobs end, which
  `CliQuery` and `JobSettles` show; nothing is assumed of the user.  One weak
  fairness of their disjunction is enough: a run without clicks does finitely
  many of these steps, and which comes first is left open.

## What the code does not keep

Shown by a run that finds the violation:

* `sync_defaults`: `README.md:64` and `diff.rs:571` say that a row whose gained
  columns are empty needs no statement.  If the column was added with a default,
  01 gives the target's row that default, and the snapshot records an empty
  value; no later comparison sees a difference.
* `schema_declined`: `schema.rs:444` calls the statements of 01 safe to run
  unattended, and a narrowing is for a human.  A change of a column restates all
  of it: if a narrowing was declined in 02, the next change of the column's
  default carries the narrow type into 01.
* `scripts_rerun`: `README.md:428` and `diff.rs:1033` say that a backup which fails
  in a rerun can be skipped, because the rows have been backed up.  It is one
  `INSERT` for up to 500 identities and fails as a whole on one row; what came
  to the others of the chunk since, or to that row, is saved nowhere, and the
  `DELETE` follows.
* `panel_pair`: `README.md:180` says that no other database is used for one that
  was not picked.  While the databases of a newly picked connection are read,
  the create button is on and the picker still has the old one's.

* `panel_unheard`: `README.md:237` says that all buttons and inputs but cancel are
  off while a job runs, until it has ended.  If a status poll, or the answer to
  `snapshot/create` or `diff/run`, fails or takes too long, `runJob` (and `runDiff`
  for its request) reports the error and calls `resetProgress`: the panel is open
  and the cancel button hidden while the job goes on.  No later poll brings them
  back.

Seen while modelling, from the lines named, and not kept as runs:

* `README.md:237` and 238 name the pickers and the boxes among what is off during a
  job.  A `loadConnections`, `loadDatabases` or `loadHostInfo` that was under way
  when the job was clicked turns its picker on when it ends, or builds boxes that
  are on (`index.html:638`, 588, 340), whether or not the panel is locked
  (`opened`).
* `config.rs:45` has `cliPath` set by editing the file.  Whatever the panel saves
  replaces the file, without it.
* `diff.rs:318` says that a failed comparison never leaves a partial directory
  that can be taken for a baseline.  The removal may be cut short (its result
  is ignored), and `meta.json` is not the first file it takes.
* `README.md:308` (and `diff.rs:834`, in the generated file) says that folding
  does not affect the precheck.  03 writes one row back for a folded identity
  that has changed, so the target has fewer rows than the source, and the next
  precheck expects the source's number.
* `diff.rs:658` (and `README.md:380`) says that a statement of 01 that has taken
  effect has none when it is run again.  A column's `COLLATE` is left out if it
  equals the table's new default, which 01 sets last: the first run gives the
  column the old default, the second run the new one.
* `README.md:240` says that cancelling kills the running `dbx` process.  Three
  queries of a job are made without looking at the flag (`COUNT(*)`, the table
  shapes, the session probe) and run to their own end.
* `snapshot.rs:297` says that the progress bar only reaches 100% when the
  snapshot is complete.  It does so before the session probe and `meta.json`.
* `diff.rs:826` writes into the precheck that any MISMATCH means that the target
  is not the baseline.  After a confirmed change of the filter the expected
  number is still the one counted under the baseline's.
* `cli.rs:96` says that a cancelled run must not sleep out the backoff.  The flag
  is read before the sleep only; a cancel during it waits, up to 6 s, and then a
  process is started and killed at its first poll.
* `README.md:316` says that connection errors are retried twice; it is three
  times (as `PLAN.md:216` says).
* `schema.rs:502` says that `widens` answers no whenever it is unsure.  For
  `float` and `double` with two numbers it compares them one by one, and
  `float(7,3)` to `float(8,5)`, or `float(10,2)` to `double(5,1)`, passes.
* `schema.rs:447` says that `EXTRA` changes need a human; one that comes together
  with a widening goes to 01 (the type is looked at first).
* A changed foreign key gets neither a statement nor a note, and on PostgreSQL
  the foreign keys of a new table are never written.
* `schema_pg.rs:500` says that a changed column matches the baseline exactly; a
  default that was removed is not dropped.  `real` to `double precision` is
  meant to be a widening, but the parser takes `precision` for a modifier.

Limits, rather than contradictions of a text, which are the hypotheses of the
properties of `TargetScripts` and `Panel`:

* A backup that is skipped for another reason than a saved row (a passing error,
  or 01 having widened the table after the backup table was created) loses the
  rows of its chunk: the `DELETE` does not depend on it (`unsaved`).
* A second click while `saveConfig` is awaited starts a second handler
  (`doubled`).  If the sidecar refuses its job, its `resetProgress` unlocks the
  panel and hides the cancel button although the first job runs; if it takes
  the slot, the first handler polls the second one's job.
* `runDiff` awaits `pollJob` outside of a `try`: one status request that fails
  leaves the panel locked until the page is loaded anew (`unpolled`).  `runJob`
  has the `try`.
* A late answer of `snapshot/list` or `databases/list` overwrites that of a later
  selection (`late`); so may a late `config/save`.
* If `config/get` failed, or the boxes are not built yet, the next save replaces
  the saved conditions by empty ones (`blind`).
* A cancel request that fails leaves the cancel button off for that job.
* `requireDatabase` takes the placeholders of the pickers for a database.

And of the query: `ReturnsInTime`, `CancelPrompt`
and `ImplementsPromise` hold for a `dbx` that is one process.  A path set by the
user (`DBX_CLI_BIN`, `cliPath`) is used as it is; if it is a script, killing it
leaves its own child alive and holding the pipes, and the join of the readers
then waits for that child, past the deadline and without looking at the flag.

## Proofs

`DbDiffJobs_proofs` proves, for any numbers of jobs, handlers, tables, pages,
databases and seconds, from the three assumptions on the constants
(`StoreAssumption`, `SlotAssumption`, `PagesAssumption`):

* `Inductive`: `Spec => []IInv`;
* `TypeCorrect`, `SlotExclusion`, `ListedWhole`, `FinishedIntact`: `TypeOK`,
  `OneWorker`, `ListedComplete` and `FinishedSurvives` are invariants.

`ListedComplete` is not inductive: whether the `meta.json` about to be closed
completes a snapshot depends on the files the worker wrote before.  `IInv` adds
`Building(j)` (how far each live worker has filled its directory), `OneWorker`
(so that no other worker writes there), `HandlerInv` (only directories the user
asked for are being deleted), `StoreInv` (a directory that does not exist has
no files; flat snapshots have seconds of their own) and `FinishedInv` (a job
reported done has ended).  The argument goes step by step, with three frames:
`QuietStep` for steps that touch no file, `FileStep` for steps that write one
file of the worker's own directory, and `Removable`/`WorkElsewhere` for
removals and migration.

`JobPromises_proofs` goes on from `IInv`, under the same assumptions:

* `CancelStopsQueries`: `AtMostOneLateQuery`.  `LateInv` says at which `pc` a
  worker can be whose flag is set and who has started a query since: between
  two looks at the flag there is one query.
* `ProgressOnly`: `ProgressMonotone`, as an action property.  `ProgressInv` ties
  what is counted as done to `pc`, the table and the page.
* `NothingUnfinishedLeft`: `NothingLeftBehind`.  `FilesInv` says of each
  directory who wrote its files (`WriterInv`), that `meta.json` is only of a job
  that came to the end of its collection, and of one that was cancelled or failed
  after that only if it has set out to remove it (`OutcomeInv`, `MetaInv`), and
  that the user has not asked for a directory to be deleted that is still being
  filled (`UnaskedInv`).
* `BaselineOfOne`: `BaselineSound`.  `BaselineInv` carries it from the request's
  check to the last read: the directory is whole (`WholeInv`), no live worker
  writes there (`UnwrittenInv`), nor has anything come to it since it was
  checked (`CheckedInv`) or since its first file was read (`BaseInv`).
* `Refinement`: `ImplementsAtomicStore`, from the mapping in `DbDiffJobs`, step by
  step.  `ClosePublishes`: the closing of the last file is the step at which a
  snapshot appears.  `AbortWithdraws`, `SettleEnds`: how a job ends there.
  `WorkerUnseen`, `UnseenFile`: every other step of a worker is a stutter.
  `HandlerRefines`: a deletion is the abstract one when its first file goes that
  the list needs; moving a flat snapshot loses nothing and is a stutter.

`RowDiff_proofs` proves, for all tables, baselines and scans, that the buckets
of a comparison partition the identities (`BucketsPartition`), that 03 and 04
commute (`ScriptsCommute`: README, "either order will do"), and that the pages of
a scan of an unchanged table join without a gap or an overlap (`PagesJoin`): the
rank of a row among the selected is a bijection onto an interval, so a page that
is not full is the last (`ShortPageIsLast`).  Lemmas on folding (`AbsorbFolds`,
`OnePerId`, `WrittenOnce`) carry this to what is recorded.

`SyncRounds_proofs` proves, for any identities, versions, columns, values,
filters, page size and number of rounds, from `RowAssumption` (identities and
versions are finite sets of numbers, filters look at the base columns only) and
`SyncAssumption`:

* `RoundsInductive`, `RoundsTypeCorrect`, `NothingLeftOver`: an inductive
  invariant, `TypeOK` and `NothingExtra`;
* `TargetKeepsUp`: `TargetHolds`, under the hypothesis that columns are only
  added with defaults that read as empty.  The hypothesis is needed:
  `sync_defaults` is a counterexample without it;
* `ScansAreExact`: `ScanExact`, and `SelfCompareIsEmpty`: `SelfCompareEmpty`;
* `RoundsHeal`: `Healed`, under the same hypothesis on defaults;
* `PrecheckSaysOk`: `PrecheckAccepts`.

`TargetHolds` is not inductive: what running a script does depends on what the
comparison put into it.  `IInv` adds `ScriptInv` (the scripts and the snapshot
of a comparison are of the same rows, and the delta is `Compare` of those rows
with the baseline), `JobInv` (the rows read so far are over the columns that were
looked up), `SnapInv` and `TargetInv` (the target has the recorded columns and
nothing in others).  Nothing in the argument says what the scan saw of the
source: that is why a torn scan is harmless.  `RunStep` is the heart: an arriving
identity is written as it was read, one left alone has the hash the baseline
recorded and nothing in the gained columns, and a removed one goes.

The last four look at the source again, and each has an invariant of its own on
top of `IInv`.  `ReadInv`: the rows of an undisturbed scan are the folded pages
read so far of the live table (`ScanInv`, from `PagesJoin`), and a snapshot that
nothing has touched since describes the source as it is (`CurrentInv`); a
comparison of a table with such a snapshot finds every hash equal.  `CountsInv`:
what was recorded passes the filter it was read with, and its number of rows is
the number counted if none was folded (`KeptInv`); what the precheck expects is
computed from the baseline (`ExpectedInv`); the target has the recorded rows in
the columns filters look at (`BaseHolds`), and one of each identity unless one was
folded or the filter widened (`OneEach`).

`SchemaRounds_proofs` proves first, for any precision, scale and length, that what
`widens` lets into 01 loses no value (`WideningLosesNothing`,
`PgWideningLosesNothing`): `Widens(old, new)` implies `Covers(old, new)`.  A base
word has one place in one family (`RankIsPlace`), so the later member of a family
holds more; on one base either the digits on both sides of the point are kept or
the only number grows.  Floats are excluded by hypothesis, as the claim is false
of them.

Then, for any tables, columns, indexes, keys, collations, types and defaults, and
any number of comparisons, changes and reruns, from `SchemaAssumption` (names are
positive numbers, `NoDefault` is a default and `Inherit` no collation, what there
is to begin with are whole databases): `SchemaTypeCorrect`, `SchemaColumnsKeepUp`,
`SchemaIndexesKeepUp`, `SchemaExtrasReported`, and under the hypothesis `ExactTypes`
(no float, no double) `SchemaAutoKeepsData`.  These are the invariants of
`schema_rounds`.

`ColumnsKeepUp` speaks of a moment at which nothing is left to run, and is not
inductive.  `ColumnsInv` says of every moment that a column of the snapshot is in
the target as recorded, or the target is behind on it, or a statement that has
not taken effect is to come and will see to it (`Waits`); `IndexesInv`, `KeysInv`
and `TablesInv` say it of the others.  They lean on three more: `ScriptInv` (the
statements are those of `Diff` from some schema to the snapshot, `Meant`, and a
column still to be modified has the type it had there), `FollowInv` (PostgreSQL's
index statements come after their table's, so none is passed while the table is
missing) and `ReportedInv`.  `TablesInv` is needed because a column statement
leaves out the table's collation: what the column gets is the target's.

Three layers of lemmas carry it.  `Diff…`: what is in a new table, or is new or
changed, has a statement; `…Object`: what a statement is about, and that no two
modify one column (`OneAColumn`).  `…Effect`, `…Whole`: what a statement or an
`ALTER` does to a whole database.  `RunCreate` to `RunOption`, `SkipStep`,
`RerunStep`, `FinishStep`: each step leaves the invariant.  `ModifyFits` is the
argument for 01: if a column of a target that is not behind is modified, it has
either the type of the last snapshot, from which 01 only widens, or, in a rerun,
the new type already.

`TargetScripts_proofs` proves, for any table, chunks, rows and numbers of runs and
writes, from `ScriptsAssumption` (the chunks of both files are disjoint, 03 has
one INSERT for each identity it lists) and `RowAssumption`:

* `ScriptsTypeCorrect`: `TypeOK`;
* `RemovedIsRecoverable`: `Recoverable`;
* `CleanRunsApply`: `Effect`.

Neither of the last two is inductive.  For the first, a chunk's `DELETE` is safe
because its backup came earlier in the same run: the invariant says of every
chunk whose backup a run has passed (`Backed`) that its rows are in a backup
table or untouched since (`Secured`), and of every row that is not where it was
that it is saved somewhere (`SomewhereSaved`).  For the second, it says what a
clean run has done up to the statement it is at: chunks passed are empty, rows
passed are written, others are as they were.  The disjoint lists make the steps
of one file leave what is said of the other alone.

`CliQuery_proofs` proves, for any number of retries, any deadline and backoff, pipes
of any capacity and outputs of any length, from `CliAssumption`: `QueryTypeCorrect`,
`AnswersKept`, `PipesNeverBlock`, `NoProcessLeft`, `QueryReturnsInTime` and
`CancelIsPrompt` (each of the run's invariants), and `StepsOfPromise`, the safety
half of `ImplementsPromise`.  The inductive invariant says where the caller stands:
what has become of the process (`ChildInv`), that it only goes on after an attempt
without an answer (`PlanInv`), when each attempt starts at the latest and how far
the caller may sleep (`TimeInv`: attempt `a` starts by `a * KillAfter` and the sum
of the sleeps so far), that no time passed while the child could go on (`IdleInv`)
and how long ago the flag was set (`CancelInv`).  Time stands still while a caller
joins its readers, because the process is reaped by then and the pipes can be read
to their end.  The rest of the proof is arithmetic of the sum of the sleeps.

`Panel_proofs` proves, for any connections, databases, conditions and handlers and
any number of snapshots, clicks and failures, from `PanelAssumption`: `PanelTypeCorrect`,
`PanelLocked`, `PanelKeepsConditions`, `PanelSavesBoxes` and `PanelShowsSelection`, each
of the run's invariants.  None is inductive, as each says something of a panel
at rest and handlers are under way in between:

* `TypeInv` says which handler waits for which request, and what it has kept
  from before the `await`;
* `LockInv`: between the click and the end of the job there is one handler for
  it, and the panel is busy as long as that one exists;
* `JobInv`: as long as a job runs that the panel has not given up, the panel is
  busy, and the only handler about a job is that job's, whose failing answer is
  what sets `unheard`;
* `OffInv`: a busy panel has every control but cancel off, unless a load has ended
  since.  With the two above it gives `PanelLocked`;
* `StartInv`: the handlers of the page's start are one chain until the boxes are
  built, so that no other one reads the configuration a second time;
* `KnownInv`: what a handler holds as saved conditions, what the page took for
  them and what is in the boxes was entered or was there before;
* `SavedInv`: the newest save under way carries what the boxes say, and if there
  is none the file has it or the timer is set; all others are older, and `older`
  records when one of them comes last;
* `ShownInv`: the last request for the list, and the last for the names of the
  databases, is of what is selected, or a handler is under way that will send
  one (`ListSound`, `NamesSound`; `WatchSound` for the job that ends).

Each handler has a lemma for types (`…Typed`) and one for what it changes
(`…Moves`); `AnswerMoves`, `UserStep` and `AnyStep` collect the latter, and the later
invariants are proved from these frames without opening a handler again.

What stays with TLC: liveness, which is out of the prover's reach, that is
`JobSettles`, `Unlocks`, and of `ImplementsPromise` that a query returns at last
(its safety half is `StepsOfPromise`).  Every other property of a passing run is
stated by a theorem.

## Not modelled

* The cache of connection kinds (`cli.rs:182`): one map, to which entries are
  only added.  That it survives a change of the connection is the comment's
  intention; a property could only repeat it.
* `dialect.rs` and `encode.rs` but for what the modules above take from them:
  quoting, SQL text, and a table of JSON types.  The parts of `tables.rs` are
  constant lists.
* The text of the catalogue queries of `schema.rs` and `schema_pg.rs`, of the
  report and of the files; engines apart from other table options; primary
  keys of PostgreSQL apart from other indexes.
* Where the executable, the data directory and the output directory are found.
* A panic of the worker thread, or a failing `thread::spawn`, which would leave
  the slot taken: no reachable `unwrap` was found on the worker's path.
* The panel's status line, progress bar, report, detail window, export, reveal
  and copy.

