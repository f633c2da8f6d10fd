-------------------------- MODULE MCTargetScripts --------------------------
(* TargetScripts for TLC: 03 writes identities 1 and 2 in two chunks, 04     *)
(* removes 3.                                                                *)
EXTENDS TargetScripts

CONSTANTS X

R(v) == [c \in {"a"} |-> v]
Wanted == [id \in {1, 2} |-> [ver |-> 1, val |-> R(X)]]

TwoAndOne ==
    [f \in {"data", "delete"} |->
        IF f = "data" THEN <<{1}, {2}>> ELSE <<{3}>>]

InOrder == <<1, 2>>

\* An identity with two versions on the target, one with another version than
\* the source's, one the target does not have.
Targets ==
    {[pk \in {<<1, 1>>, <<1, 2>>, <<2, 2>>, <<3, 1>>} |-> R(Null)]}
=============================================================================
