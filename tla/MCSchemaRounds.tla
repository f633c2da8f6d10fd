-------------------------- MODULE MCSchemaRounds --------------------------
(* Instance of SchemaRounds for TLC.  The types make every answer of widens  *)
(* occur: decimals that grow on either side of the point, on one at the      *)
(* expense of the other, or not at all.                                      *)
EXTENDS SchemaRounds, TLC

Decimals ==
    [d \in {"mysql", "postgres"} |->
        LET base == IF d = "mysql" THEN "decimal" ELSE "numeric"
        IN  {Type(base, <<2, 0>>), Type(base, <<3, 1>>), Type(base, <<3, 2>>)}]

SomeDefaults == {NoDefault, "0"}

Plain(d) == [type |-> Type(IF d = "mysql" THEN "decimal" ELSE "numeric", <<3, 1>>),
             default |-> "0", collation |-> "ci"]

\* One table with an index, which leaves another table to come and refer.
OneTable ==
    [d \in {"mysql", "postgres"} |->
        {[tables |-> (2 :> "ci"), columns |-> [x \in {<<2, 1>>, <<2, 2>>} |-> Plain(d)],
          indexes |-> (<<2, 1>> :> 1), keys |-> Empty]}]

\* All tables, or only the second.
Filters == {{1, 2}, {2}}
=============================================================================
