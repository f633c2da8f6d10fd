------------------------------ MODULE JobSlot ------------------------------
(***************************************************************************)
(* The one job slot of the plugin process (backend/src/snapshot.rs).       *)
(*                                                                         *)
(* jobs() is a process-wide Mutex<Option<Job>>.  Every access takes the    *)
(* lock for one short closure, so each operator below is atomic.  with_job *)
(* writes to whatever job is in the slot: nothing ties an update to the    *)
(* thread it comes from, so a thread that outlived its job would write     *)
(* into its successor's.                                                   *)
(***************************************************************************)
EXTENDS SnapshotStore

CONSTANTS
    NoJob, NoKey

ASSUME SlotAssumption ==
    /\ NoJob \notin Writer
    /\ NoKey \notin Key

VARIABLES
    slot,          \* the Job in the slot; owner is the job it describes
    cancelFlag     \* each job's Arc<AtomicBool>

slotVars == <<slot, cancelFlag>>

Kind    == {"snapshot", "diff"}
Outcome == {"done", "cancelled", "failed"}
Phase   == {"idle", "running"} \cup Outcome

SlotTypeOK ==
    /\ slot \in [phase : Phase, owner : Jobs \cup {NoJob}, kind : Kind,
                 key : Key \cup {NoKey}, tablesDone : Nat, tablesTotal : Nat]
    /\ cancelFlag \in [Jobs -> BOOLEAN]

\* No job was started in this process: jobs() holds None.
EmptySlot == [phase |-> "idle", owner |-> NoJob, kind |-> "snapshot",
              key |-> NoKey, tablesDone |-> 0, tablesTotal |-> 0]

SlotInit ==
    /\ slot = EmptySlot
    /\ cancelFlag = [j \in Jobs |-> FALSE]

Running == slot.phase = "running"

\* Mutant of BeginJob: the slot is overwritten without looking.
BeginJobUnguarded(j, kind, total) ==
    /\ slot' = [phase |-> "running", owner |-> j, kind |-> kind,
                key |-> NoKey, tablesDone |-> 0, tablesTotal |-> total]
    /\ cancelFlag' = [cancelFlag EXCEPT ![j] = FALSE]

\* begin_job: refuse while a job is running, else overwrite the slot.
BeginJob(j, kind, total) ==
    /\ ~Running
    /\ slot' = [phase |-> "running", owner |-> j, kind |-> kind,
                key |-> NoKey, tablesDone |-> 0, tablesTotal |-> total]
    /\ cancelFlag' = [cancelFlag EXCEPT ![j] = FALSE]

\* with_job(|job| job.snapshot_id = ...)
ReportKey(k) ==
    /\ slot' = [slot EXCEPT !.key = k]
    /\ UNCHANGED cancelFlag

\* with_job(|job| job.tables_done = ...)
ReportDone(n) ==
    /\ slot' = [slot EXCEPT !.tablesDone = n]
    /\ UNCHANGED cancelFlag

\* settle: only a finished job replaces the id it reported while running.
SettleJob(outcome, k) ==
    /\ slot' = [slot EXCEPT !.phase = outcome,
                            !.key = IF outcome = "done" THEN k ELSE @]
    /\ UNCHANGED cancelFlag

\* snapshot/cancel: raise the flag of the job in the slot, if it is running.
RequestCancel ==
    /\ Running
    /\ cancelFlag' = [cancelFlag EXCEPT ![slot.owner] = TRUE]
    /\ UNCHANGED slot

\* cancelled(): the flag of the job in the slot, running or not.
SlotCancelled == slot.owner \in Jobs /\ cancelFlag[slot.owner]

=============================================================================
