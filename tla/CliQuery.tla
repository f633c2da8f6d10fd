----------------------------- MODULE CliQuery -----------------------------
(***************************************************************************)
(* One query through the dbx command line program (backend/src/cli.rs:     *)
(* query_with_cancel, query_once, run): the child process and its two      *)
(* pipes, the threads that drain them, the cancel flag, the deadline, and  *)
(* the retries after connection errors.                                    *)
(*                                                                         *)
(* Time is counted in polls (POLL_INTERVAL).  It passes only while the     *)
(* caller sleeps or waits and the readers have nothing to read: the        *)
(* plugin's own threads are prompt.  Nothing is assumed of the child: it   *)
(* may hang, crash or answer at any moment.                                *)
(***************************************************************************)
EXTENDS Integers

CONSTANTS
    RETRIES, KillAfter, RETRY_BACKOFF,
    Capacity,      \* chunks a pipe holds
    MaxChunks,     \* bound: chunks the child writes to one pipe
    MaxNow         \* bound: the clock

ASSUME CliAssumption ==
    /\ RETRIES \in Nat /\ MaxNow \in Nat
    /\ KillAfter \in Nat \ {0} /\ RETRY_BACKOFF \in Nat \ {0}
    /\ Capacity \in Nat \ {0} /\ MaxChunks \in Nat \ {0}

VARIABLES
    pc,            \* of the caller: spawn, poll, join, backoff, done
    attempt,       \* retries so far
    plan,          \* what the child would write
    child,         \* none, running, exited, reaped
    wrote, read,   \* chunks written and read, per pipe
    deadline, wake, now,
    timedOut, result,
    flag,          \* the job's cancel flag
    flagAt,        \* history: when it was set
    late,          \* history: processes started after that
    idled          \* history: the child let time pass although it could write or end

vars == <<pc, attempt, plan, child, wrote, read, deadline, wake, now,
          timedOut, result, flag, flagAt, late, idled>>
childVars == <<plan, child, wrote, read>>
timeVars  == <<deadline, wake, now, timedOut, idled>>
flagVars  == <<flag, flagAt>>

Pipe == {"out", "err"}

\* The JSON text is an answer on stdout, or an error on stderr, of the
\* connection or another; either pipe may carry other text besides.
Carrier(kind) == IF kind = "answer" THEN "out" ELSE "err"
Plan == {p \in [size : [Pipe -> 0 .. MaxChunks],
                kind : {"answer", "connection", "sql"}] :
            p.size[Carrier(p.kind)] > 0}
NoPlan == [size |-> [s \in Pipe |-> 0], kind |-> "none"]

\* is_cancelled.  Mutant: query's, which is never true.
AskedNever == FALSE

Asked == flag

-----------------------------------------------------------------------------
(* The child, and whoever cancels.                                         *)

Write(s) ==
    /\ pc # "done" /\ child = "running"
    /\ wrote[s] < plan.size[s]
    /\ wrote[s] - read[s] < Capacity
    /\ wrote' = [wrote EXCEPT ![s] = @ + 1]
    /\ UNCHANGED <<pc, attempt, plan, child, read, timeVars, result,
                   flagVars, late>>

\* The child ends, or crashes half-way, and its pipes close.
ChildEnds ==
    /\ pc # "done" /\ child = "running"
    /\ child' = "exited"
    /\ UNCHANGED <<pc, attempt, plan, wrote, read, timeVars, result, flagVars, late>>

SetFlag ==
    /\ pc # "done" /\ ~ flag
    /\ flag' = TRUE /\ flagAt' = now
    /\ UNCHANGED <<pc, attempt, childVars, timeVars, result, late>>

-----------------------------------------------------------------------------
(* The threads that drain the pipes.                                       *)

\* Mutant of Drains: the pipes are read once the child has ended.
DrainsLate(s) == pc = "join" /\ read[s] < wrote[s]

Drains(s) == read[s] < wrote[s]

Drain(s) ==
    /\ pc \in {"poll", "join"}
    /\ Drains(s)
    /\ read' = [read EXCEPT ![s] = wrote[s]]
    /\ UNCHANGED <<pc, attempt, plan, child, wrote, timeVars, result,
                   flagVars, late>>

\* Mutant of Drained: the threads are not joined.
DrainedUnjoined == TRUE

\* Both readers have come to the end of their pipes.
Drained == child # "running" /\ \A s \in Pipe : read[s] = wrote[s]

-----------------------------------------------------------------------------
(* The caller.                                                             *)

Return(r) ==
    /\ pc' = "done" /\ result' = r
    /\ UNCHANGED <<attempt, late>>

\* run: both pipes get a thread as soon as the child is there.
Spawn(p) ==
    /\ pc = "spawn"
    /\ pc' = "poll"
    /\ plan' = p /\ child' = "running"
    /\ wrote' = [s \in Pipe |-> 0] /\ read' = [s \in Pipe |-> 0]
    /\ deadline' = now + KillAfter /\ wake' = now
    /\ timedOut' = FALSE /\ idled' = FALSE
    /\ late' = IF flag THEN late + 1 ELSE late
    /\ UNCHANGED <<attempt, now, result, flagVars>>

\* CLI_NOT_FOUND: no executable, or it does not start.
SpawnFails ==
    /\ pc = "spawn"
    /\ Return("failed")
    /\ UNCHANGED <<childVars, timeVars, flagVars>>

\* Mutant of Kill: the process is forgotten.
KillNot == UNCHANGED child

\* kill, then wait.
Kill == child' = "reaped"

\* The poll loop looks at the flag first.
PollCancelled ==
    /\ pc = "poll" /\ wake <= now /\ Asked
    /\ Kill
    /\ Return("cancelled")
    /\ UNCHANGED <<plan, wrote, read, timeVars, flagVars>>

PollExited ==
    /\ pc = "poll" /\ wake <= now /\ ~ Asked
    /\ child = "exited"
    /\ child' = "reaped" /\ pc' = "join"
    /\ UNCHANGED <<attempt, plan, wrote, read, timeVars, result,
                   flagVars, late>>

\* Mutant of PastDeadline: the server's own timeout is relied on.
PastDeadlineNever == FALSE

PastDeadline == now >= deadline

PollTimeout ==
    /\ pc = "poll" /\ wake <= now /\ ~ Asked
    /\ child = "running" /\ PastDeadline
    /\ Kill
    /\ timedOut' = TRUE /\ pc' = "join"
    /\ UNCHANGED <<attempt, plan, wrote, read, deadline, wake, now, idled,
                   result, flagVars, late>>

PollAgain ==
    /\ pc = "poll" /\ wake <= now /\ ~ Asked
    /\ child = "running" /\ ~ PastDeadline
    /\ wake' = now + 1
    /\ UNCHANGED <<pc, attempt, childVars, deadline, now, timedOut, idled,
                   result, flagVars, late>>

\* try_wait fails: the child is left to itself.
PollFails ==
    /\ pc = "poll" /\ wake <= now /\ ~ Asked
    /\ Return("unwaited")
    /\ UNCHANGED <<childVars, timeVars, flagVars>>

\* What the output is taken for: parse_json needs the whole text.  Without
\* one the message is stderr, in which the words of a connection error may
\* stand.
Reading ==
    IF read[Carrier(plan.kind)] = plan.size[Carrier(plan.kind)] THEN {plan.kind}
    ELSE {"garbled"} \cup (IF read["err"] > 0 THEN {"connection"} ELSE {})

\* Mutant of MayRetry: one retry too many.
MayRetryOnceMore(seen) == seen = "connection" /\ attempt <= RETRIES

MayRetry(seen) == seen = "connection" /\ attempt < RETRIES

\* The threads are joined, the output is read, and query_with_cancel decides.
Joined ==
    /\ pc = "join" /\ Drained
    /\ \E seen \in Reading :
         \/ /\ ~ MayRetry(seen)
            /\ Return(IF seen = "answer" THEN "ok" ELSE "failed")
            /\ UNCHANGED wake
         \/ /\ MayRetry(seen) /\ Asked
            /\ Return("cancelled")
            /\ UNCHANGED wake
         \/ /\ MayRetry(seen) /\ ~ Asked
            /\ pc' = "backoff"
            /\ attempt' = attempt + 1
            /\ wake' = now + RETRY_BACKOFF * attempt'
            /\ UNCHANGED <<result, late>>
    /\ UNCHANGED <<childVars, deadline, now, timedOut, idled, flagVars>>

\* thread::sleep has returned.
BackoffEnds ==
    /\ pc = "backoff" /\ wake <= now
    /\ pc' = "spawn"
    /\ UNCHANGED <<attempt, childVars, timeVars, result, flagVars, late>>

CallerStep ==
    \/ \E p \in Plan : Spawn(p)
    \/ SpawnFails
    \/ PollCancelled
    \/ PollExited
    \/ PollTimeout
    \/ PollAgain
    \/ PollFails
    \/ Joined
    \/ BackoffEnds

ChildStep == (\E s \in Pipe : Write(s)) \/ ChildEnds

\* The caller waits, and the readers have nothing to read.
Waiting ==
    /\ \/ pc \in {"poll", "backoff"} /\ now < wake
       \/ pc = "join" /\ ~ Drained
    /\ pc # "backoff" => \A s \in Pipe : ~ Drains(s)

\* The child could write its next chunk, or has none left and could end.
Able ==
    /\ child = "running"
    /\ \/ \E s \in Pipe : wrote[s] < plan.size[s] /\ wrote[s] - read[s] < Capacity
       \/ \A s \in Pipe : wrote[s] = plan.size[s]

Tick ==
    /\ Waiting /\ now < MaxNow
    /\ now' = now + 1
    /\ idled' = (idled \/ Able)
    /\ UNCHANGED <<pc, attempt, childVars, deadline, wake, timedOut, result,
                   flagVars, late>>

-----------------------------------------------------------------------------

Init ==
    /\ pc = "spawn" /\ attempt = 0
    /\ plan = NoPlan /\ child = "none"
    /\ wrote = [s \in Pipe |-> 0] /\ read = [s \in Pipe |-> 0]
    /\ deadline = 0 /\ wake = 0 /\ now = 0
    /\ timedOut = FALSE /\ result = "none"
    /\ flag = FALSE /\ flagAt = 0 /\ late = 0 /\ idled = FALSE

Next ==
    \/ CallerStep
    \/ ChildStep
    \/ \E s \in Pipe : Drain(s)
    \/ SetFlag
    \/ Tick

\* The plugin's threads run, and time passes.
Fairness ==
    /\ WF_vars(CallerStep)
    /\ \A s \in Pipe : WF_vars(Drain(s))
    /\ WF_vars(Tick)

Spec == Init /\ [][Next]_vars /\ Fairness

-----------------------------------------------------------------------------
(* Properties.                                                             *)

\* Every variable keeps its type.
TypeOK ==
    /\ pc \in {"spawn", "poll", "join", "backoff", "done"}
    /\ attempt \in 0 .. RETRIES
    /\ plan \in Plan \cup {NoPlan}
    /\ child \in {"none", "running", "exited", "reaped"}
    /\ wrote \in [Pipe -> 0 .. MaxChunks] /\ read \in [Pipe -> 0 .. MaxChunks]
    /\ \A s \in Pipe : read[s] <= wrote[s] /\ wrote[s] - read[s] <= Capacity
    /\ deadline \in Nat /\ wake \in Nat /\ now \in Nat
    /\ timedOut \in BOOLEAN /\ idled \in BOOLEAN /\ flag \in BOOLEAN
    /\ result \in {"none", "ok", "failed", "cancelled", "unwaited"}
    /\ flagAt \in 0 .. now /\ late \in Nat

\* An answer that was written whole is not lost, also when the process then
\* crashes or has to be killed: both pipes are read to their end first.
AnswerNotLost ==
    result = "failed" =>
        ~ (plan.kind = "answer" /\ wrote["out"] = plan.size["out"])

\* A query runs into its deadline only if the child lets time pass: a child
\* is never held up by a pipe that nobody reads (comment in run).
NoPipeDeadlock == timedOut => idled

\* No dbx process outlives the call, but for a failed try_wait.
NoOrphan == pc = "done" /\ result # "unwaited" => child \in {"none", "reaped"}

\* The deadline bounds the whole call, retries included.
ReturnsInTime ==
    now <= (RETRIES + 1) * KillAfter
             + RETRY_BACKOFF * ((RETRIES * (RETRIES + 1)) \div 2)

\* A cancel ends the call at the next poll, or after the sleep before a
\* retry, and at most one more process is started.
CancelPrompt ==
    flag /\ pc # "done" =>
        /\ now - flagAt <= IF RETRIES = 0 THEN 1 ELSE RETRY_BACKOFF * RETRIES
        /\ late <= 1

\* What a job relies on: a query returns, once, and reports a cancel only if
\* there was one.
Promise == INSTANCE QueryPromise WITH
    phase <- IF pc # "done" THEN "running"
             ELSE IF result \in {"ok", "cancelled"} THEN result ELSE "failed",
    asked <- flag
ImplementsPromise == Promise!Spec

=============================================================================
