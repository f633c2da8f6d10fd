---------------------------- MODULE MCSyncRounds ----------------------------
(* Instance of SyncRounds for TLC: column "a" was always there, "b" comes    *)
(* and goes; a row whose "a" is Null is inactive, as ds_active = '0' is.     *)
EXTENDS SyncRounds

CONSTANTS X

MCRow    == [{"a", "b"} -> {Null, Empty, X}]
Active   == {r \in MCRow : r["a"] # Null}
Marked   == {r \in MCRow : r["a"] = X}

OneFilter  == {Active}
TwoFilters == {Active, Marked}

R(v) == [c \in {"a", "b"} |-> IF c = "a" THEN v ELSE Null]

\* Two identities, the first with two versions: both active, or one of them.
Versioned ==
    { [pk \in {<<1, 1>>, <<1, 2>>, <<2, 1>>} |-> R(X)],
      [pk \in {<<1, 1>>, <<1, 2>>, <<2, 1>>} |->
           IF pk = <<1, 1>> THEN R(Null) ELSE R(Empty)] }

\* One version of each identity.
Plain == { [pk \in {<<1, 1>>, <<2, 1>>} |-> R(X)] }

Vanishing == {Null, Empty}
Filling   == {Null, X}
=============================================================================
