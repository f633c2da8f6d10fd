----------------------------- MODULE Widening -----------------------------
(***************************************************************************)
(* Whether a changed column type can hold everything the old one could     *)
(* (backend/src/schema.rs and schema_pg.rs: parse_column_type, widens),    *)
(* and, to check that answer, what a column of a type can hold.            *)
(*                                                                         *)
(* A type is what the parser makes of its text: base word, numbers in      *)
(* parentheses, other words.                                               *)
(***************************************************************************)
EXTENDS Integers, Sequences

Type(base, args) == [base |-> base, args |-> args, modifiers |-> <<>>]

\* Members in quotes are not numbers, and a user-defined type is not known.
Parses(t) == t.base \notin {"enum", "set"}
PgParses(t) == t.base # "array"

IntegerFamily == <<"tinyint", "smallint", "mediumint", "int", "bigint">>
TextFamily     == <<"tinytext", "text", "mediumtext", "longtext">>
BlobFamily     == <<"tinyblob", "blob", "mediumblob", "longblob">>
Families  == {IntegerFamily, TextFamily, BlobFamily}
PgIntegerFamily == <<"smallint", "integer", "bigint">>

Normalized(base) == IF base = "integer" THEN "int" ELSE base

\* Both are members of the family, and b is the later one.
Upward(family, a, b) ==
    \E i, j \in DOMAIN family : i < j /\ family[i] = a /\ family[j] = b

\* Mutant of DecimalWidens: precision is taken for capacity.
DecimalWidensByPrecision(old, new) ==
    /\ Len(old) = 2 /\ Len(new) = 2
    /\ new[1] >= old[1]
    /\ new[2] >= old[2]

\* A decimal grows if neither side of the point shrinks.
DecimalWidens(old, new) ==
    /\ Len(old) = 2 /\ Len(new) = 2
    /\ new[1] - new[2] >= old[1] - old[2]
    /\ new[2] >= old[2]

ArgsWiden(old, new) ==
    /\ old # <<>> /\ Len(old) = Len(new)
    /\ \A i \in DOMAIN old : new[i] >= old[i]

Widens(old, new) ==
    /\ Parses(old) /\ Parses(new)
    /\ old.modifiers = new.modifiers
    /\ \/ /\ old.base = new.base
          /\ IF old.base = "decimal" THEN DecimalWidens(old.args, new.args)
             ELSE ArgsWiden(old.args, new.args)
       \/ /\ old.base # new.base
          /\ \/ \E family \in Families :
                    Upward(family, Normalized(old.base), Normalized(new.base))
             \/ old.base = "float" /\ new.base = "double"

PgWidens(old, new) ==
    /\ PgParses(old) /\ PgParses(new)
    /\ old.modifiers = new.modifiers
    /\ \/ /\ old.base = new.base
          /\ \/ old.base = "numeric" /\ DecimalWidens(old.args, new.args)
             \/ Len(old.args) = 1 /\ Len(new.args) = 1 /\ new.args[1] >= old.args[1]
             \/ old.args = <<>> /\ new.args = <<>>
       \/ /\ old.base # new.base
          /\ \/ Upward(PgIntegerFamily, old.base, new.base)
             \/ old.base = "real" /\ new.base = "double precision"

-----------------------------------------------------------------------------
(* What a column can hold: how much on either side of the decimal point    *)
(* (of a text or a blob its size, of an integer its bytes), among values   *)
(* of one sort.                                                            *)

FixedPoint  == {"decimal", "numeric", "float", "double"}
Fractional  == {"datetime", "timestamp", "time"}

Sort(t) ==
    IF t.base \in {"tinyint", "smallint", "mediumint", "int", "integer", "bigint"}
        THEN "integer"
    ELSE IF \E i \in DOMAIN TextFamily : TextFamily[i] = t.base THEN "text"
    ELSE IF \E i \in DOMAIN BlobFamily : BlobFamily[i] = t.base THEN "blob"
    ELSE IF t.base \in {"float", "double"} THEN "float"
    ELSE t.base

\* Digits a float and a double keep if they are declared without numbers.
FloatRoom(base) == IF base = "float" THEN [int |-> 38, frac |-> 38]
                   ELSE [int |-> 308, frac |-> 308]

\* The place of a base word in its family.
Rank(base) ==
    CHOOSE i \in 1 .. 5 :
        \E family \in Families : i \in DOMAIN family /\ family[i] = Normalized(base)

Room(t) ==
    IF Sort(t) \in {"integer", "text", "blob"} THEN [int |-> Rank(t.base), frac |-> 0]
    ELSE IF t.base \in FixedPoint /\ Len(t.args) = 2
        THEN [int |-> t.args[1] - t.args[2], frac |-> t.args[2]]
    ELSE IF Sort(t) = "float" THEN FloatRoom(t.base)
    ELSE IF t.base \in Fractional /\ Len(t.args) = 1
        THEN [int |-> 0, frac |-> t.args[1]]
    ELSE IF Len(t.args) = 1 THEN [int |-> t.args[1], frac |-> 0]
    ELSE [int |-> 0, frac |-> 0]

\* Every value of a column of type old fits into one of type new.
Covers(old, new) ==
    \/ old = new
    \/ /\ Sort(old) = Sort(new) /\ old.modifiers = new.modifiers
       /\ Room(old).int <= Room(new).int
       /\ Room(old).frac <= Room(new).frac

=============================================================================
