---------------------------- MODULE AtomicStore ----------------------------
(***************************************************************************)
(* What the plugin promises about snapshots and jobs, without files and    *)
(* threads: a usable snapshot appears all at once, published by the one    *)
(* job that is running; a job is done exactly when it has published, and   *)
(* a cancelled or failed job has nothing published; a snapshot goes away   *)
(* all at once, by the user's request or when its own job withdraws it.    *)
(***************************************************************************)
CONSTANTS Keys, Jobs, Old, NoJob

VARIABLES
    usable,      \* who took the snapshot usable under each id, or NoJob
    busy,        \* the running job, or NoJob
    published,   \* whether it has published its snapshot
    last         \* how the last job ended, as status shows it

vars == <<usable, busy, published, last>>

Init ==
    /\ usable = [k \in Keys |-> NoJob]
    /\ busy = NoJob
    /\ published = FALSE
    /\ last = "idle"

Begin(j) ==
    /\ busy = NoJob
    /\ busy' = j
    /\ last' = "running"
    /\ UNCHANGED <<usable, published>>

Publish(k) ==
    /\ busy # NoJob
    /\ ~published
    /\ usable[k] = NoJob
    /\ usable' = [usable EXCEPT ![k] = busy]
    /\ published' = TRUE
    /\ UNCHANGED <<busy, last>>

Withdraw ==
    /\ busy # NoJob
    /\ usable' = [k \in Keys |-> IF usable[k] = busy THEN NoJob ELSE usable[k]]
    /\ published' = FALSE
    /\ UNCHANGED <<busy, last>>

End(outcome) ==
    /\ busy # NoJob
    /\ published = (outcome = "done")
    /\ ~published => \A k \in Keys : usable[k] # busy
    /\ busy' = NoJob
    /\ published' = FALSE
    /\ last' = outcome
    /\ UNCHANGED usable

\* A snapshot of an older version is taken over under a free id.
Adopt(k) ==
    /\ usable[k] = NoJob
    /\ usable' = [usable EXCEPT ![k] = Old]
    /\ UNCHANGED <<busy, published, last>>

Delete(k) ==
    /\ usable' = [usable EXCEPT ![k] = NoJob]
    /\ UNCHANGED <<busy, published, last>>

Restart ==
    /\ busy' = NoJob
    /\ published' = FALSE
    /\ last' = "idle"
    /\ UNCHANGED usable

Next ==
    \/ \E j \in Jobs : Begin(j)
    \/ \E k \in Keys : Publish(k) \/ Adopt(k) \/ Delete(k)
    \/ \E o \in {"done", "cancelled", "failed"} : End(o)
    \/ Withdraw
    \/ Restart

Spec == Init /\ [][Next]_vars

=============================================================================
