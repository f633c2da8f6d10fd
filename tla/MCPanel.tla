------------------------------ MODULE MCPanel ------------------------------
(* Panel for TLC: "c1" has two databases and a default; "c2" has no default, *)
(* and a database of the same name as one of "c1".                           *)
EXTENDS Panel

Some == [c \in {"c1", "c2"} |-> IF c = "c1" THEN {"d1", "d2"} ELSE {"d1"}]
First == [c \in {"c1", "c2"} |-> IF c = "c1" THEN "d1" ELSE NoDb]
=============================================================================
