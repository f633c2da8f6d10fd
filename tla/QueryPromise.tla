--------------------------- MODULE QueryPromise ---------------------------
(***************************************************************************)
(* What the jobs of DbDiffJobs rely on when they issue a query that looks  *)
(* at the cancel flag: it returns, exactly once, and reports that it was   *)
(* cancelled only if somebody asked for it.                                *)
(***************************************************************************)

VARIABLES phase, asked

vars == <<phase, asked>>

Init == phase = "running" /\ asked = FALSE

Ask ==
    /\ phase = "running"
    /\ asked' = TRUE
    /\ UNCHANGED phase

Return ==
    /\ phase = "running"
    /\ phase' \in {"ok", "failed"} \cup (IF asked THEN {"cancelled"} ELSE {})
    /\ UNCHANGED asked

Next == Ask \/ Return

Spec == Init /\ [][Next]_vars /\ WF_vars(Return)

=============================================================================
