-------------------------- MODULE CliQuery_proofs --------------------------
(***************************************************************************)
(* The safety of one query, for any number of retries, any deadline and    *)
(* backoff, pipes of any capacity and any length of output; and that the   *)
(* steps of the query are steps of QueryPromise.                           *)
(***************************************************************************)
EXTENDS CliQuery, TLAPS

-----------------------------------------------------------------------------
(* The inductive invariant.                                                *)

\* How long the sleep after attempt a is, and when it starts at the latest.
Pause(a)  == RETRY_BACKOFF * a
Tri(a)    == (a * (a + 1)) \div 2
Before(a) == a * KillAfter + RETRY_BACKOFF * Tri(a)

\* Where the caller is says what has become of the process.
ChildInv ==
    /\ pc \in {"spawn", "backoff"} => child \in {"none", "reaped"}
    /\ pc = "poll" => child \in {"running", "exited"}
    /\ pc = "join" => child = "reaped"
    /\ NoOrphan

\* A query goes on to another attempt only after one without an answer.
PlanInv ==
    /\ pc \in {"spawn", "backoff"} =>
         ~ (plan.kind = "answer" /\ wrote["out"] = plan.size["out"])
    /\ AnswerNotLost
    /\ \A s \in Pipe : wrote[s] <= plan.size[s]

\* Each attempt starts in time, and the caller never sleeps beyond the deadline.
TimeInv ==
    /\ now <= Before(attempt) + KillAfter
    /\ pc = "spawn" => now <= Before(attempt)
    /\ pc = "poll" => /\ now <= wake /\ wake <= now + 1
                      /\ wake <= deadline
                      /\ deadline <= Before(attempt) + KillAfter
    /\ pc = "backoff" => /\ now <= wake /\ wake <= Before(attempt)
                         /\ wake <= now + Pause(attempt)

\* As long as the child has not let time pass, none has passed.
IdleInv ==
    /\ NoPipeDeadlock
    /\ pc = "poll" /\ child = "running" /\ ~ idled => now < deadline

\* How far the call can be when the flag was set before.
CancelInv ==
    /\ ~ flag => late = 0
    /\ flag =>
         /\ pc = "spawn" => late = 0 /\ now - flagAt <= Pause(attempt)
         /\ pc = "poll" => \/ late = 0 /\ wake <= flagAt + 1
                           \/ late = 1 /\ wake = now /\ now - flagAt <= Pause(attempt)
         /\ pc = "join" => late = 0 /\ now = flagAt
         /\ pc = "backoff" => late = 0 /\ wake - flagAt <= Pause(attempt)

\* Only an asked query is cancelled.
ResultInv ==
    /\ result = "cancelled" => flag
    /\ pc # "done" => result = "none"

IInv == /\ TypeOK /\ ChildInv /\ PlanInv /\ TimeInv /\ IdleInv /\ CancelInv
        /\ ResultInv

-----------------------------------------------------------------------------
(* Facts on the sums.                                                      *)

\* A product does not fall when a factor grows.
LEMMA TimesMono ==
    ASSUME NEW k \in Nat, NEW x \in Nat, NEW y \in Nat, x <= y
    PROVE  k * x \in Nat /\ k * x <= k * y
<1>1. /\ y - x \in Nat
      /\ \A u, v \in Nat : u * v \in Nat
      /\ k * y = k * x + k * (y - x)
  BY SMT
<1>2. k * x \in Nat /\ k * (y - x) \in Nat
  BY <1>1
<1> QED
  BY <1>1, <1>2

\* The triangular numbers.
LEMMA TriNext ==
    ASSUME NEW a \in Nat
    PROVE  /\ Tri(a) \in Nat
           /\ Tri(a + 1) = Tri(a) + a + 1
<1>1. /\ a * (a + 1) \in Nat
      /\ (a + 1) * ((a + 1) + 1) = a * (a + 1) + 2 * (a + 1)
  BY SMT
<1>2. \A x, y \in Nat : x \div 2 \in Nat /\ (x + 2 * y) \div 2 = x \div 2 + y
  BY SMT
<1> QED
  BY <1>1, <1>2 DEF Tri

LEMMA TriMono ==
    ASSUME NEW a \in Nat, NEW b \in Nat, a <= b
    PROVE  Tri(a) <= Tri(b)
<1>1. /\ a * (a + 1) \in Nat /\ b * (b + 1) \in Nat
      /\ a * (a + 1) <= b * (b + 1)
  <2>1. /\ a * (a + 1) <= a * (b + 1) /\ a * (b + 1) \in Nat
        /\ (b + 1) * a <= (b + 1) * b
    BY TimesMono
  <2>2. /\ a * (b + 1) = (b + 1) * a
        /\ (b + 1) * b = b * (b + 1)
        /\ a * (a + 1) \in Nat /\ b * (b + 1) \in Nat
    BY SMT
  <2> QED
    BY <2>1, <2>2
<1>2. \A x, y \in Nat : x <= y => x \div 2 <= y \div 2
  BY SMT
<1> QED
  BY <1>1, <1>2 DEF Tri

\* The next attempt starts a deadline and a sleep after this one.
LEMMA BeforeNext ==
    ASSUME NEW a \in Nat
    PROVE  /\ Before(a) \in Nat /\ Pause(a) \in Nat /\ Pause(a + 1) \in Nat
           /\ Before(a + 1) = Before(a) + KillAfter + Pause(a + 1)
           /\ Pause(0) = 0 /\ Before(0) = 0
<1>1. /\ Tri(a) \in Nat /\ Tri(a + 1) = Tri(a) + (a + 1)
      /\ KillAfter \in Nat /\ RETRY_BACKOFF \in Nat
  BY TriNext, CliAssumption
<1>2. /\ (a + 1) * KillAfter = a * KillAfter + KillAfter
      /\ RETRY_BACKOFF * (Tri(a) + (a + 1))
           = RETRY_BACKOFF * Tri(a) + RETRY_BACKOFF * (a + 1)
      /\ a * KillAfter \in Nat /\ RETRY_BACKOFF * Tri(a) \in Nat
      /\ RETRY_BACKOFF * a \in Nat /\ RETRY_BACKOFF * (a + 1) \in Nat
  BY <1>1, SMT
<1>3. /\ Tri(0) = 0 /\ RETRY_BACKOFF * 0 = 0 /\ 0 * KillAfter = 0
  BY <1>1, SMT DEF Tri
<1> QED
  BY <1>1, <1>2, <1>3 DEF Before, Pause

\* No attempt starts, and no sleep is longer, than the last one may.
LEMMA LastAttempt ==
    ASSUME NEW a \in 0 .. RETRIES
    PROVE  /\ Before(a) + KillAfter
                <= (RETRIES + 1) * KillAfter
                     + RETRY_BACKOFF * ((RETRIES * (RETRIES + 1)) \div 2)
           /\ Pause(a) <= Pause(RETRIES)
           /\ RETRIES # 0 => 1 <= Pause(RETRIES)
<1>1. /\ a \in Nat /\ RETRIES \in Nat /\ a <= RETRIES
      /\ KillAfter \in Nat /\ RETRY_BACKOFF \in Nat /\ 1 <= RETRY_BACKOFF
  BY CliAssumption
<1>2. /\ Tri(a) \in Nat /\ Tri(RETRIES) \in Nat /\ Tri(a) <= Tri(RETRIES)
  BY <1>1, TriNext, TriMono
<1>3. /\ KillAfter * a <= KillAfter * RETRIES
      /\ KillAfter * a \in Nat
      /\ RETRY_BACKOFF * Tri(a) <= RETRY_BACKOFF * Tri(RETRIES)
      /\ RETRY_BACKOFF * Tri(a) \in Nat
      /\ RETRY_BACKOFF * a <= RETRY_BACKOFF * RETRIES
      /\ RETRIES # 0 => RETRY_BACKOFF * 1 <= RETRY_BACKOFF * RETRIES
  BY <1>1, <1>2, TimesMono
<1>4. /\ a * KillAfter = KillAfter * a
      /\ (RETRIES + 1) * KillAfter = KillAfter * RETRIES + KillAfter
      /\ KillAfter * RETRIES \in Nat /\ RETRY_BACKOFF * Tri(RETRIES) \in Nat
      /\ RETRY_BACKOFF * 1 = RETRY_BACKOFF
  BY <1>1, <1>2, SMT
<1>5. Before(a) + KillAfter
        <= (RETRIES + 1) * KillAfter + RETRY_BACKOFF * Tri(RETRIES)
  BY <1>1, <1>3, <1>4 DEF Before
<1>6. RETRY_BACKOFF * Tri(RETRIES) = RETRY_BACKOFF * ((RETRIES * (RETRIES + 1)) \div 2)
  BY DEF Tri
<1> QED
  BY <1>1, <1>3, <1>4, <1>5, <1>6 DEF Pause

-----------------------------------------------------------------------------
(* Types.                                                                  *)

\* What a process may write fits the pipes' counters.
LEMMA PlanSizes ==
    ASSUME NEW p \in Plan \cup {NoPlan}, NEW s \in Pipe
    PROVE  p.size[s] \in 0 .. MaxChunks
  BY CliAssumption DEF Plan, NoPlan, Pipe

LEMMA InitTypes == Init => TypeOK
<1> SUFFICES ASSUME Init PROVE TypeOK
  OBVIOUS
<1>1. /\ MaxChunks \in Nat /\ RETRIES \in Nat /\ Capacity \in Nat
  BY CliAssumption
<1>2. /\ wrote \in [Pipe -> 0 .. MaxChunks] /\ read \in [Pipe -> 0 .. MaxChunks]
      /\ \A s \in Pipe : read[s] <= wrote[s] /\ wrote[s] - read[s] <= Capacity
  BY <1>1 DEF Init
<1>3. /\ attempt \in 0 .. RETRIES /\ flagAt \in 0 .. now
      /\ deadline \in Nat /\ wake \in Nat /\ now \in Nat /\ late \in Nat
  BY <1>1 DEF Init
<1>4. /\ pc = "spawn" /\ plan = NoPlan /\ child = "none" /\ result = "none"
      /\ timedOut = FALSE /\ idled = FALSE /\ flag = FALSE
  BY DEF Init
<1> QED
  BY <1>2, <1>3, <1>4 DEF TypeOK

LEMMA CallerTypes == TypeOK /\ CallerStep => TypeOK'
<1> SUFFICES ASSUME TypeOK, CallerStep PROVE TypeOK'
  OBVIOUS
<1> USE CliAssumption
<1>1. ASSUME NEW p \in Plan, Spawn(p) PROVE TypeOK'
  <2>1. /\ wrote' \in [Pipe -> 0 .. MaxChunks] /\ read' \in [Pipe -> 0 .. MaxChunks]
        /\ \A s \in Pipe : read'[s] <= wrote'[s] /\ wrote'[s] - read'[s] <= Capacity
    BY <1>1 DEF Spawn
  <2>2. /\ pc' = "poll" /\ plan' \in Plan /\ child' = "running"
        /\ deadline' \in Nat /\ wake' \in Nat /\ late' \in Nat
        /\ timedOut' = FALSE /\ idled' = FALSE
        /\ UNCHANGED <<attempt, now, result, flag, flagAt>>
    BY <1>1 DEF Spawn, TypeOK, flagVars
  <2> QED
    BY <2>1, <2>2 DEF TypeOK
<1>2. ASSUME SpawnFails PROVE TypeOK'
  BY <1>2 DEF SpawnFails, Return, TypeOK, childVars, timeVars, flagVars
<1>3. ASSUME PollCancelled PROVE TypeOK'
  BY <1>3 DEF PollCancelled, Kill, Return, TypeOK, timeVars, flagVars
<1>4. ASSUME PollExited PROVE TypeOK'
  BY <1>4 DEF PollExited, TypeOK, timeVars, flagVars
<1>5. ASSUME PollTimeout PROVE TypeOK'
  BY <1>5 DEF PollTimeout, Kill, TypeOK, flagVars
<1>6. ASSUME PollAgain PROVE TypeOK'
  BY <1>6 DEF PollAgain, TypeOK, childVars, flagVars
<1>7. ASSUME PollFails PROVE TypeOK'
  BY <1>7 DEF PollFails, Return, TypeOK, childVars, timeVars, flagVars
<1>8. ASSUME Joined PROVE TypeOK'
  <2>1. PICK seen \in Reading :
         \/ /\ ~ MayRetry(seen)
            /\ Return(IF seen = "answer" THEN "ok" ELSE "failed")
            /\ UNCHANGED wake
         \/ /\ MayRetry(seen) /\ Asked
            /\ Return("cancelled")
            /\ UNCHANGED wake
         \/ /\ MayRetry(seen) /\ ~ Asked
            /\ pc' = "backoff"
            /\ attempt' = attempt + 1
            /\ wake' = now + RETRY_BACKOFF * attempt'
            /\ UNCHANGED <<result, late>>
    BY <1>8 DEF Joined
  <2>2. attempt + 1 \in Nat /\ now + Pause(attempt + 1) \in Nat
    BY BeforeNext DEF TypeOK
  <2>3. /\ attempt' \in 0 .. RETRIES /\ wake' \in Nat
        /\ pc' \in {"done", "backoff"} /\ late' \in Nat
        /\ result' \in {"none", "ok", "failed", "cancelled", "unwaited"}
    <3>1. CASE pc' = "done" /\ UNCHANGED <<attempt, wake, late>>
               /\ result' \in {"ok", "failed", "cancelled"}
      BY <3>1 DEF TypeOK
    <3>2. CASE /\ attempt < RETRIES /\ attempt' = attempt + 1 /\ pc' = "backoff"
               /\ wake' = now + Pause(attempt + 1)
               /\ UNCHANGED <<result, late>> /\ pc # "done"
      <4>1. attempt + 1 \in 0 .. RETRIES
        BY <3>2 DEF TypeOK
      <4> QED
        BY <3>2, <4>1, <2>2 DEF TypeOK
    <3>3. pc = "join"
      BY <1>8 DEF Joined
    <3>4. CASE UNCHANGED wake /\ \E r \in {"ok", "failed", "cancelled"} : Return(r)
      BY <3>1, <3>4 DEF Return
    <3>5. CASE ~ \E r \in {"ok", "failed", "cancelled"} : UNCHANGED wake /\ Return(r)
      <4>1. /\ MayRetry(seen) /\ pc' = "backoff" /\ attempt' = attempt + 1
            /\ wake' = now + RETRY_BACKOFF * attempt'
            /\ UNCHANGED <<result, late>>
        BY <2>1, <3>5
      <4> QED
        BY <3>2, <3>3, <4>1 DEF MayRetry, Pause
    <3> QED
      BY <3>4, <3>5
  <2>4. UNCHANGED <<plan, child, wrote, read, deadline, now, timedOut, idled, flag, flagAt>>
    BY <1>8 DEF Joined, childVars, flagVars
  <2> QED
    BY <2>3, <2>4 DEF TypeOK
<1>9. ASSUME BackoffEnds PROVE TypeOK'
  BY <1>9 DEF BackoffEnds, TypeOK, childVars, timeVars, flagVars
<1> QED
  BY <1>1, <1>2, <1>3, <1>4, <1>5, <1>6, <1>7, <1>8, <1>9 DEF CallerStep

LEMMA OtherTypes ==
    TypeOK /\ (ChildStep \/ (\E s \in Pipe : Drain(s)) \/ SetFlag \/ Tick) => TypeOK'
<1> SUFFICES ASSUME TypeOK, ChildStep \/ (\E s \in Pipe : Drain(s)) \/ SetFlag \/ Tick
             PROVE  TypeOK'
  OBVIOUS
<1> USE CliAssumption
<1>1. ASSUME NEW s \in Pipe, Write(s) PROVE TypeOK'
  <2>1. plan.size[s] \in 0 .. MaxChunks
    BY PlanSizes DEF TypeOK
  <2>2. /\ wrote' \in [Pipe -> 0 .. MaxChunks]
        /\ wrote'[s] = wrote[s] + 1
        /\ \A t \in Pipe : t # s => wrote'[t] = wrote[t]
    BY <1>1, <2>1 DEF Write, TypeOK
  <2>3. \A t \in Pipe : read[t] <= wrote'[t] /\ wrote'[t] - read[t] <= Capacity
    BY <1>1, <2>2 DEF Write, TypeOK
  <2> QED
    BY <1>1, <2>2, <2>3 DEF Write, TypeOK, timeVars, flagVars
<1>2. ASSUME ChildEnds PROVE TypeOK'
  BY <1>2 DEF ChildEnds, TypeOK, timeVars, flagVars
<1>3. ASSUME NEW s \in Pipe, Drain(s) PROVE TypeOK'
  <2>1. /\ read' \in [Pipe -> 0 .. MaxChunks]
        /\ read'[s] = wrote[s]
        /\ \A t \in Pipe : t # s => read'[t] = read[t]
    BY <1>3 DEF Drain, TypeOK
  <2>2. \A t \in Pipe : read'[t] <= wrote[t] /\ wrote[t] - read'[t] <= Capacity
    BY <2>1 DEF TypeOK
  <2> QED
    BY <1>3, <2>1, <2>2 DEF Drain, TypeOK, timeVars, flagVars
<1>4. ASSUME SetFlag PROVE TypeOK'
  BY <1>4 DEF SetFlag, TypeOK, childVars, timeVars
<1>5. ASSUME Tick PROVE TypeOK'
  <2>1. now' \in Nat /\ idled' \in BOOLEAN /\ flagAt \in 0 .. now'
    BY <1>5 DEF Tick, Able, TypeOK
  <2> QED
    BY <1>5, <2>1 DEF Tick, TypeOK, childVars, flagVars
<1> QED
  BY <1>1, <1>2, <1>3, <1>4, <1>5 DEF ChildStep

-----------------------------------------------------------------------------
(* The steps of the caller, one by one.                                    *)

LEMMA InitInv == Init => IInv
<1> SUFFICES ASSUME Init PROVE IInv
  OBVIOUS
<1>1. TypeOK
  BY InitTypes
<1>2. Before(0) \in Nat /\ Pause(0) = 0 /\ KillAfter \in Nat
  BY BeforeNext, CliAssumption
<1> QED
  BY <1>1, <1>2 DEF Init, IInv, ChildInv, NoOrphan, PlanInv, AnswerNotLost, TimeInv,
        IdleInv, NoPipeDeadlock, CancelInv, ResultInv, NoPlan

\* The numbers that TypeOK and the constants are about.
LEMMA Numbers ==
    ASSUME TypeOK
    PROVE  /\ now \in Nat /\ wake \in Nat /\ deadline \in Nat /\ flagAt \in Nat
           /\ flagAt <= now /\ attempt \in Nat /\ late \in Nat
           /\ KillAfter \in Nat /\ 1 <= KillAfter
           /\ Before(attempt) \in Nat /\ Pause(attempt) \in Nat
           /\ Pause(0) = 0
<1>1. /\ now \in Nat /\ wake \in Nat /\ deadline \in Nat /\ flagAt \in Nat
      /\ flagAt <= now /\ attempt \in Nat /\ late \in Nat
      /\ KillAfter \in Nat /\ 1 <= KillAfter
  BY CliAssumption DEF TypeOK
<1> QED
  BY <1>1, BeforeNext

\* A return, from wherever, when the process is gone and no answer was lost.
LEMMA ReturnKeeps ==
    ASSUME IInv, TypeOK', NEW r, Return(r), pc # "done",
           UNCHANGED <<plan, wrote>>, UNCHANGED timeVars, UNCHANGED flagVars,
           r # "unwaited" => child' \in {"none", "reaped"},
           r = "failed" => ~ (plan.kind = "answer" /\ wrote["out"] = plan.size["out"]),
           r = "cancelled" => flag
    PROVE  IInv'
<1>1. ChildInv' /\ PlanInv' /\ ResultInv'
  BY DEF Return, IInv, ChildInv, NoOrphan, PlanInv, AnswerNotLost, ResultInv, flagVars
<1>2. TimeInv' /\ IdleInv' /\ CancelInv'
  BY DEF Return, IInv, TimeInv, IdleInv, NoPipeDeadlock, CancelInv, timeVars, flagVars
<1> QED
  BY <1>1, <1>2 DEF IInv

LEMMA SpawnKeeps ==
    ASSUME IInv, TypeOK', NEW p \in Plan, Spawn(p)
    PROVE  IInv'
<1> USE Numbers DEF IInv
<1>1. ChildInv'
  BY DEF Spawn, ChildInv, NoOrphan
<1>2. PlanInv' /\ ResultInv'
  <2>1. \A s \in Pipe : wrote'[s] <= plan'.size[s]
    BY PlanSizes, CliAssumption DEF Spawn
  <2> QED
    BY <2>1 DEF Spawn, PlanInv, AnswerNotLost, ResultInv, flagVars
<1>3. TimeInv'
  BY DEF Spawn, TimeInv
<1>4. IdleInv'
  BY DEF Spawn, IdleInv, NoPipeDeadlock
<1>5. CancelInv'
  BY DEF Spawn, CancelInv, flagVars
<1> QED
  BY <1>1, <1>2, <1>3, <1>4, <1>5

LEMMA PollKeeps ==
    ASSUME IInv, TypeOK', PollExited \/ PollTimeout \/ PollAgain
    PROVE  IInv'
<1> USE Numbers DEF IInv
<1>1. CASE PollExited
  <2>1. ChildInv' /\ PlanInv' /\ ResultInv'
    BY <1>1 DEF PollExited, ChildInv, NoOrphan, PlanInv, AnswerNotLost, ResultInv, flagVars
  <2>2. TimeInv' /\ IdleInv' /\ CancelInv'
    BY <1>1 DEF PollExited, TimeInv, IdleInv, NoPipeDeadlock, CancelInv, Asked,
                timeVars, flagVars
  <2> QED
    BY <2>1, <2>2
<1>2. CASE PollTimeout
  <2>1. ChildInv' /\ PlanInv' /\ ResultInv'
    BY <1>2 DEF PollTimeout, Kill, ChildInv, NoOrphan, PlanInv, AnswerNotLost,
                ResultInv, flagVars
  <2>2. TimeInv' /\ CancelInv'
    BY <1>2 DEF PollTimeout, TimeInv, CancelInv, Asked, flagVars
  <2>3. idled
    BY <1>2 DEF PollTimeout, PastDeadline, IdleInv
  <2>4. IdleInv'
    BY <1>2, <2>3 DEF PollTimeout, IdleInv, NoPipeDeadlock
  <2> QED
    BY <2>1, <2>2, <2>4
<1>3. CASE PollAgain
  <2>1. ChildInv' /\ PlanInv' /\ ResultInv'
    BY <1>3 DEF PollAgain, ChildInv, NoOrphan, PlanInv, AnswerNotLost,
                ResultInv, childVars, flagVars
  <2>2. TimeInv' /\ IdleInv' /\ CancelInv'
    BY <1>3 DEF PollAgain, PastDeadline, TimeInv, IdleInv, NoPipeDeadlock, CancelInv,
                Asked, childVars, flagVars
  <2> QED
    BY <2>1, <2>2
<1> QED
  BY <1>1, <1>2, <1>3

\* What was read to the end is what was written.
LEMMA JoinedKeeps ==
    ASSUME IInv, TypeOK', Joined
    PROVE  IInv'
<1> USE DEF IInv
<1>1. PICK seen \in Reading :
         \/ /\ ~ MayRetry(seen)
            /\ Return(IF seen = "answer" THEN "ok" ELSE "failed")
            /\ UNCHANGED wake
         \/ /\ MayRetry(seen) /\ Asked
            /\ Return("cancelled")
            /\ UNCHANGED wake
         \/ /\ MayRetry(seen) /\ ~ Asked
            /\ pc' = "backoff"
            /\ attempt' = attempt + 1
            /\ wake' = now + RETRY_BACKOFF * attempt'
            /\ UNCHANGED <<result, late>>
  BY DEF Joined
<1>2. /\ pc = "join" /\ child = "reaped" /\ read["out"] = wrote["out"]
      /\ UNCHANGED <<plan, child, wrote, deadline, now, timedOut, idled>>
      /\ UNCHANGED flagVars
  BY DEF Joined, Drained, Pipe, childVars, ChildInv
<1>3. seen # "answer" => ~ (plan.kind = "answer" /\ wrote["out"] = plan.size["out"])
  BY <1>1, <1>2 DEF Reading, Carrier
<1>4. CASE pc' = "done"
  <2>1. UNCHANGED timeVars
    BY <1>1, <1>2, <1>4 DEF timeVars
  <2>2. CASE Return(IF seen = "answer" THEN "ok" ELSE "failed")
    BY <1>2, <1>3, <2>1, <2>2, ReturnKeeps
  <2>3. CASE Return("cancelled") /\ flag
    BY <1>2, <2>1, <2>3, ReturnKeeps
  <2> QED
    BY <1>1, <1>4, <2>2, <2>3 DEF Asked
<1>5. CASE pc' # "done"
  <2>1. /\ MayRetry(seen) /\ ~ flag /\ pc' = "backoff"
        /\ attempt' = attempt + 1 /\ wake' = now + Pause(attempt + 1)
        /\ UNCHANGED <<result, late>>
    BY <1>1, <1>5 DEF Return, Asked, Pause
  <2>2. ChildInv' /\ ResultInv'
    BY <1>2, <2>1 DEF ChildInv, NoOrphan, ResultInv, flagVars
  <2>3. PlanInv'
    BY <1>2, <1>3, <2>1 DEF PlanInv, AnswerNotLost, MayRetry
  <2>4. IdleInv' /\ CancelInv'
    BY <1>2, <2>1 DEF IdleInv, NoPipeDeadlock, CancelInv, flagVars
  <2>5. /\ Before(attempt + 1) = Before(attempt) + KillAfter + Pause(attempt + 1)
        /\ Before(attempt) \in Nat /\ Pause(attempt + 1) \in Nat
        /\ KillAfter \in Nat /\ now \in Nat
    BY Numbers, BeforeNext
  <2>6. TimeInv'
    BY <1>2, <2>1, <2>5 DEF TimeInv
  <2> QED
    BY <2>2, <2>3, <2>4, <2>6
<1> QED
  BY <1>4, <1>5

LEMMA CallerKeeps == IInv /\ TypeOK' /\ CallerStep => IInv'
<1> SUFFICES ASSUME IInv, TypeOK', CallerStep PROVE IInv'
  OBVIOUS
<1>1. ASSUME NEW p \in Plan, Spawn(p) PROVE IInv'
  BY <1>1, SpawnKeeps
<1>2. ASSUME SpawnFails PROVE IInv'
  <2>1. child' \in {"none", "reaped"}
        /\ ~ (plan.kind = "answer" /\ wrote["out"] = plan.size["out"])
    BY <1>2 DEF SpawnFails, IInv, ChildInv, PlanInv, childVars
  <2> QED
    BY <1>2, <2>1, ReturnKeeps DEF SpawnFails, childVars
<1>3. ASSUME PollCancelled PROVE IInv'
  BY <1>3, ReturnKeeps DEF PollCancelled, Kill, Asked
<1>4. ASSUME PollFails PROVE IInv'
  BY <1>4, ReturnKeeps DEF PollFails, childVars
<1>5. ASSUME BackoffEnds PROVE IInv'
  <2> USE Numbers DEF IInv
  <2>1. ChildInv' /\ PlanInv' /\ ResultInv'
    BY <1>5 DEF BackoffEnds, ChildInv, NoOrphan, PlanInv, AnswerNotLost, ResultInv,
                childVars, flagVars
  <2>2. TimeInv' /\ IdleInv' /\ CancelInv'
    BY <1>5 DEF BackoffEnds, TimeInv, IdleInv, NoPipeDeadlock, CancelInv,
                timeVars, flagVars, childVars
  <2> QED
    BY <2>1, <2>2
<1> QED
  BY <1>1, <1>2, <1>3, <1>4, <1>5, PollKeeps, JoinedKeeps DEF CallerStep

-----------------------------------------------------------------------------
(* Everyone else.                                                          *)

LEMMA OthersKeep ==
    IInv /\ TypeOK' /\ (ChildStep \/ (\E s \in Pipe : Drain(s)) \/ SetFlag) => IInv'
<1> SUFFICES ASSUME IInv, TypeOK', ChildStep \/ (\E s \in Pipe : Drain(s)) \/ SetFlag
             PROVE  IInv'
  OBVIOUS
<1> USE Numbers DEF IInv
<1>1. ASSUME NEW s \in Pipe, Write(s) PROVE IInv'
  <2>1. pc = "poll"
    BY <1>1 DEF Write, ChildInv, TypeOK
  <2>2. \A t \in Pipe : wrote'[t] <= plan.size[t]
    <3>1. \A t \in Pipe : wrote[t] \in Nat /\ plan.size[t] \in Nat
      BY PlanSizes, CliAssumption DEF TypeOK
    <3>2. \A t \in Pipe : wrote'[t] = IF t = s THEN wrote[t] + 1 ELSE wrote[t]
      BY <1>1 DEF Write, TypeOK
    <3> QED
      BY <1>1, <3>1, <3>2 DEF Write, PlanInv
  <2>3. ChildInv' /\ PlanInv' /\ ResultInv'
    BY <1>1, <2>1, <2>2 DEF Write, ChildInv, NoOrphan, PlanInv, AnswerNotLost, ResultInv, flagVars
  <2>4. TimeInv' /\ IdleInv' /\ CancelInv'
    BY <1>1, <2>1 DEF Write, TimeInv, IdleInv, NoPipeDeadlock, CancelInv, timeVars, flagVars
  <2> QED
    BY <2>3, <2>4
<1>2. ASSUME ChildEnds PROVE IInv'
  <2>1. pc = "poll"
    BY <1>2 DEF ChildEnds, ChildInv, TypeOK
  <2>2. ChildInv' /\ PlanInv' /\ ResultInv'
    BY <1>2, <2>1 DEF ChildEnds, ChildInv, NoOrphan, PlanInv, AnswerNotLost, ResultInv, flagVars
  <2>3. TimeInv' /\ IdleInv' /\ CancelInv'
    BY <1>2, <2>1 DEF ChildEnds, TimeInv, IdleInv, NoPipeDeadlock, CancelInv, timeVars, flagVars
  <2> QED
    BY <2>2, <2>3
<1>3. ASSUME NEW s \in Pipe, Drain(s) PROVE IInv'
  <2>1. ChildInv' /\ PlanInv' /\ ResultInv'
    BY <1>3 DEF Drain, ChildInv, NoOrphan, PlanInv, AnswerNotLost, ResultInv, flagVars
  <2>2. TimeInv' /\ IdleInv' /\ CancelInv'
    BY <1>3 DEF Drain, TimeInv, IdleInv, NoPipeDeadlock, CancelInv, timeVars, flagVars
  <2> QED
    BY <2>1, <2>2
<1>4. ASSUME SetFlag PROVE IInv'
  <2>1. ChildInv' /\ PlanInv' /\ ResultInv'
    BY <1>4 DEF SetFlag, ChildInv, NoOrphan, PlanInv, AnswerNotLost, ResultInv, childVars
  <2>2. TimeInv' /\ IdleInv'
    BY <1>4 DEF SetFlag, TimeInv, IdleInv, NoPipeDeadlock, timeVars, childVars
  <2>3. CancelInv'
    BY <1>4 DEF SetFlag, CancelInv, TimeInv, timeVars
  <2> QED
    BY <2>1, <2>2, <2>3
<1> QED
  BY <1>1, <1>2, <1>3, <1>4 DEF ChildStep

\* Time passes only in a sleep: at the end of a process the readers have
\* nothing left to wait for.
LEMMA TickKeeps == IInv /\ TypeOK' /\ Tick => IInv'
<1> SUFFICES ASSUME IInv, TypeOK', Tick PROVE IInv'
  OBVIOUS
<1> USE Numbers DEF IInv
<1>1. /\ pc \in {"poll", "backoff"} /\ now < wake /\ now' = now + 1
      /\ UNCHANGED <<pc, attempt, plan, child, wrote, read, deadline, wake, timedOut,
                     result, flag, flagAt, late>>
  <2>1. pc = "join" => Drained \/ \E s \in Pipe : Drains(s)
    <3>1. \A s \in Pipe : /\ read[s] \in Nat /\ wrote[s] \in Nat
                         /\ read[s] <= wrote[s]
      BY CliAssumption DEF TypeOK
    <3> QED
      BY <3>1 DEF Drained, Drains, ChildInv
  <2> QED
    BY <2>1 DEF Tick, Waiting, childVars, flagVars
<1>2. pc = "poll" /\ child = "running" => idled'
  <2> SUFFICES ASSUME pc = "poll", child = "running" PROVE Able
    BY DEF Tick
  <2>1. \A s \in Pipe : wrote[s] = read[s]
    BY DEF Tick, Waiting, Drains, TypeOK
  <2>2. \A s \in Pipe : wrote[s] - read[s] < Capacity
    BY <2>1, CliAssumption DEF TypeOK
  <2>3. \A s \in Pipe : /\ wrote[s] \in Nat /\ plan.size[s] \in Nat
                       /\ wrote[s] <= plan.size[s]
    BY PlanSizes, CliAssumption DEF TypeOK, PlanInv
  <2> QED
    BY <2>2, <2>3 DEF Able
<1>3. ChildInv' /\ PlanInv' /\ ResultInv'
  BY <1>1 DEF ChildInv, NoOrphan, PlanInv, AnswerNotLost, ResultInv
<1>4. TimeInv'
  BY <1>1 DEF TimeInv
<1>5. IdleInv'
  <2>1. idled => idled'
    BY DEF Tick
  <2> QED
    BY <1>1, <1>2, <2>1 DEF IdleInv, NoPipeDeadlock
<1>6. CancelInv'
  BY <1>1 DEF CancelInv
<1> QED
  BY <1>3, <1>4, <1>5, <1>6

\* A step in which nothing changes.
LEMMA StutterKeeps == IInv /\ UNCHANGED vars => IInv'
<1> SUFFICES ASSUME IInv, UNCHANGED vars PROVE IInv'
  OBVIOUS
<1>1. TypeOK'
  BY DEF IInv, TypeOK, vars
<1>2. ChildInv' /\ PlanInv' /\ ResultInv'
  BY DEF IInv, ChildInv, NoOrphan, PlanInv, AnswerNotLost, ResultInv, vars
<1>3. TimeInv' /\ IdleInv' /\ CancelInv'
  BY DEF IInv, TimeInv, IdleInv, NoPipeDeadlock, CancelInv, vars
<1> QED
  BY <1>1, <1>2, <1>3 DEF IInv

LEMMA NextKeeps == IInv /\ [Next]_vars => IInv'
<1> SUFFICES ASSUME IInv, [Next]_vars PROVE IInv'
  OBVIOUS
<1>1. CASE CallerStep
  BY <1>1, CallerTypes, CallerKeeps DEF IInv
<1>2. CASE ChildStep \/ (\E s \in Pipe : Drain(s)) \/ SetFlag
  BY <1>2, OtherTypes, OthersKeep DEF IInv
<1>3. CASE Tick
  BY <1>3, OtherTypes, TickKeeps DEF IInv
<1>4. CASE UNCHANGED vars
  BY <1>4, StutterKeeps
<1> QED
  BY <1>1, <1>2, <1>3, <1>4 DEF Next

-----------------------------------------------------------------------------
(* The theorems.                                                           *)

\* The strengthening holds in every state of a query.
THEOREM QueryInductive == Spec => []IInv
<1>1. Init => IInv
  BY InitInv
<1>2. IInv /\ [Next]_vars => IInv'
  BY NextKeeps
<1> QED
  BY <1>1, <1>2, PTL DEF Spec

\* Every variable of a query keeps its type; no pipe ever holds more than its
\* capacity.
THEOREM QueryTypeCorrect == Spec => []TypeOK
<1>1. IInv => TypeOK
  BY DEF IInv
<1> QED
  BY <1>1, QueryInductive, PTL

\* An answer that the child wrote whole is never turned into a failure, for
\* outputs and pipes of any size.
THEOREM AnswersKept == Spec => []AnswerNotLost
<1>1. IInv => AnswerNotLost
  BY DEF IInv, PlanInv
<1> QED
  BY <1>1, QueryInductive, PTL

\* A child that never lets time pass is never killed by the deadline: no pipe
\* holds it up, whatever the capacity.
THEOREM PipesNeverBlock == Spec => []NoPipeDeadlock
<1>1. IInv => NoPipeDeadlock
  BY DEF IInv, IdleInv
<1> QED
  BY <1>1, QueryInductive, PTL

\* However the call ends, but for a failed try_wait, no process is left.
THEOREM NoProcessLeft == Spec => []NoOrphan
<1>1. IInv => NoOrphan
  BY DEF IInv, ChildInv
<1> QED
  BY <1>1, QueryInductive, PTL

\* A call lasts at most one deadline for each attempt and the sleeps between
\* them.
THEOREM QueryReturnsInTime == Spec => []ReturnsInTime
<1>1. ASSUME IInv PROVE ReturnsInTime
  <2>1. /\ now <= Before(attempt) + KillAfter /\ attempt \in 0 .. RETRIES
        /\ now \in Nat /\ Before(attempt) \in Nat /\ KillAfter \in Nat
    BY <1>1, Numbers DEF IInv, TimeInv, TypeOK
  <2> DEFINE Bound == (RETRIES + 1) * KillAfter
                        + RETRY_BACKOFF * ((RETRIES * (RETRIES + 1)) \div 2)
  <2>2. Before(attempt) + KillAfter <= Bound
    BY <2>1, LastAttempt
  <2>3. Bound \in Int
    <3>1. RETRIES \in Nat /\ RETRY_BACKOFF \in Nat /\ Tri(RETRIES) \in Nat
      BY CliAssumption, TriNext
    <3>2. (RETRIES + 1) * KillAfter + RETRY_BACKOFF * Tri(RETRIES) \in Int
      BY <2>1, <3>1, SMT
    <3> QED
      BY <3>2 DEF Tri
  <2> HIDE DEF Bound
  <2>4. now <= Bound
    BY <2>1, <2>2, <2>3
  <2> QED
    BY <2>4 DEF Bound, ReturnsInTime
<1> QED
  BY <1>1, QueryInductive, PTL

\* After a cancel a call lasts at most one poll or one sleep longer, and
\* starts at most one more process.
THEOREM CancelIsPrompt == Spec => []CancelPrompt
<1>1. ASSUME IInv PROVE CancelPrompt
  <2> SUFFICES ASSUME flag, pc # "done"
               PROVE  /\ now - flagAt <= IF RETRIES = 0 THEN 1 ELSE Pause(RETRIES)
                      /\ late <= 1
    BY DEF CancelPrompt, Pause
  <2>1. /\ now \in Nat /\ flagAt \in Nat /\ wake \in Nat /\ Pause(attempt) \in Nat
        /\ late \in Nat /\ attempt \in 0 .. RETRIES /\ flagAt <= now
        /\ Pause(0) = 0 /\ pc \in {"spawn", "poll", "join", "backoff"}
    BY <1>1, Numbers DEF IInv, TypeOK
  <2>2. /\ Pause(attempt) <= Pause(RETRIES) /\ Pause(RETRIES) \in Nat
        /\ RETRIES # 0 => 1 <= Pause(RETRIES)
        /\ RETRIES = 0 => Pause(attempt) = 0
    BY <2>1, LastAttempt, BeforeNext, CliAssumption
  <2>3. late <= 1 /\ (now - flagAt <= Pause(attempt) \/ now - flagAt <= 1)
    BY <1>1, <2>1 DEF IInv, CancelInv, TimeInv
  <2> QED
    BY <2>1, <2>2, <2>3
<1> QED
  BY <1>1, QueryInductive, PTL

\* The safety half of ImplementsPromise: a query returns once, and reports a
\* cancel only if the flag was set; every other step is invisible to the job.
THEOREM StepsOfPromise == Spec => Promise!Init /\ [][Promise!Next]_(Promise!vars)
<1> DEFINE phase == IF pc # "done" THEN "running"
                    ELSE IF result \in {"ok", "cancelled"} THEN result ELSE "failed"
<1>1. Init => Promise!Init
  BY DEF Init, Promise!Init
<1>2. ASSUME IInv, IInv', [Next]_vars PROVE [Promise!Next]_(Promise!vars)
  <2>1. CASE SetFlag
    <3>1. phase = "running" /\ flag' = TRUE /\ phase' = phase
      BY <2>1 DEF SetFlag
    <3>2. Promise!Ask
      BY <3>1 DEF Promise!Ask
    <3> QED
      BY <3>2 DEF Promise!Next
  <2>2. CASE UNCHANGED <<pc, result, flag>>
    BY <2>2 DEF Promise!vars
  <2>3. CASE /\ pc # "done" /\ pc' # "done" /\ UNCHANGED flag
    BY <2>3 DEF Promise!vars
  <2>4. CASE pc # "done" /\ pc' = "done" /\ UNCHANGED flag
    <3>1. flag' = flag /\ phase = "running"
          /\ phase' \in {"ok", "failed"} \cup (IF flag THEN {"cancelled"} ELSE {})
      BY <1>2, <2>4 DEF IInv, ResultInv
    <3>2. Promise!Return
      BY <3>1 DEF Promise!Return
    <3> QED
      BY <3>2 DEF Promise!Next
  <2>5. \/ SetFlag
        \/ UNCHANGED <<pc, result, flag>>
        \/ pc # "done" /\ UNCHANGED flag
    <3>1. CallerStep => pc # "done" /\ UNCHANGED flag
      BY DEF CallerStep, Spawn, SpawnFails, PollCancelled, PollExited, PollTimeout,
             PollAgain, PollFails, Joined, BackoffEnds, flagVars
    <3>2. ChildStep \/ (\E s \in Pipe : Drain(s)) \/ Tick => UNCHANGED <<pc, result, flag>>
      BY DEF ChildStep, Write, ChildEnds, Drain, Tick, flagVars
    <3> QED
      BY <1>2, <3>1, <3>2 DEF Next, vars
  <2> QED
    BY <2>1, <2>2, <2>3, <2>4, <2>5
<1> QED
  BY <1>1, <1>2, QueryInductive, PTL DEF Spec

=============================================================================
