-------------------------- MODULE SchemaRounds_proofs --------------------------
(***************************************************************************)
(* The theorems of the schema rounds, for any tables, columns, types,      *)
(* filters and numbers of rounds, changes and reruns.                      *)
(*                                                                         *)
(* First: a change that widens calls a widening (schema.rs; schema_pg.rs)  *)
(* goes to the file that is run unattended, and every value of the old     *)
(* column fits.  Float and double are left out: with two numbers in        *)
(* parentheses the claim is false (float(7,3) to float(8,5) loses an       *)
(* integer digit).                                                         *)
(*                                                                         *)
(* Then the rounds.  What must be true between two statements of the files *)
(* is StoryInv: an object of the snapshot is in the target, or the target  *)
(* is behind on it, or a statement that has not taken effect is still to   *)
(* come and will see to it.                                                *)
(***************************************************************************)
EXTENDS SchemaRounds, TLAPS

ParsedType == [base : STRING, args : Seq(Int), modifiers : Seq(STRING)]

\* A base is one word, and MySQL reports numeric as decimal.
MySqlType(t) ==
    /\ t \in ParsedType
    /\ t.base \notin {"float", "double", "numeric"}

PgParsedType(t) ==
    /\ t \in ParsedType
    /\ t.base \notin {"float", "double", "double precision"}

-----------------------------------------------------------------------------

\* The families have no member in common and none twice, so the place where a
\* base word is found is its rank.
LEMMA RankIsPlace ==
    ASSUME NEW base, NEW family \in Families, NEW i \in DOMAIN family,
           family[i] = Normalized(base)
    PROVE  Rank(base) = i /\ i \in 1 .. 5
<1>1. i \in 1 .. 5
    BY DEF Families, IntegerFamily, TextFamily, BlobFamily
<1>2. ASSUME NEW j \in 1 .. 5, NEW other \in Families, j \in DOMAIN other,
             other[j] = Normalized(base)
      PROVE  j = i
    <2>1. CASE family = IntegerFamily
        BY <2>1, <1>2 DEF Families, IntegerFamily, TextFamily, BlobFamily
    <2>2. CASE family = TextFamily
        BY <2>2, <1>2 DEF Families, IntegerFamily, TextFamily, BlobFamily
    <2>3. CASE family = BlobFamily
        BY <2>3, <1>2 DEF Families, IntegerFamily, TextFamily, BlobFamily
    <2>4. QED  BY <2>1, <2>2, <2>3 DEF Families
<1>3. QED  BY <1>1, <1>2 DEF Rank

\* Two members of one family, the later one of which is larger.
LEMMA UpwardCovers ==
    ASSUME NEW old, NEW new, NEW family \in Families,
           Upward(family, Normalized(old.base), Normalized(new.base)),
           old.modifiers = new.modifiers
    PROVE  Covers(old, new)
<1>1. PICK i, j \in DOMAIN family :
          i < j /\ family[i] = Normalized(old.base) /\ family[j] = Normalized(new.base)
    BY DEF Upward
<1>2. Rank(old.base) = i /\ i \in 1 .. 5 /\ Rank(new.base) = j /\ j \in 1 .. 5
    BY <1>1, RankIsPlace
<1>3. Sort(old) = Sort(new) /\ Sort(old) \in {"integer", "text", "blob"}
    <2>1. CASE family = IntegerFamily
        BY <1>1, <2>1 DEF IntegerFamily, Normalized, Sort
    <2>2. CASE family = TextFamily
        BY <1>1, <2>2 DEF TextFamily, Normalized, Sort
    <2>3. CASE family = BlobFamily
        BY <1>1, <2>3 DEF BlobFamily, TextFamily, Normalized, Sort
    <2>4. QED  BY <2>1, <2>2, <2>3 DEF Families
<1>4. QED  BY <1>1, <1>2, <1>3 DEF Covers, Room

\* A type of a family has a rank.
LEMMA SameBaseRank ==
    ASSUME NEW old, Sort(old) \in {"integer", "text", "blob"}
    PROVE  Rank(old.base) \in 1 .. 5
<1>1. \E family \in Families : \E i \in DOMAIN family : family[i] = Normalized(old.base)
    <2>1. CASE Sort(old) = "integer"
        BY <2>1 DEF Sort, Families, IntegerFamily, Normalized
    <2>2. CASE Sort(old) = "text"
        BY <2>2 DEF Sort, Families, TextFamily, Normalized
    <2>3. CASE Sort(old) = "blob"
        BY <2>3 DEF Sort, Families, BlobFamily, Normalized
    <2>4. QED  BY <2>1, <2>2, <2>3
<1>2. QED  BY <1>1, RankIsPlace

\* Two types of one base are of one sort.
LEMMA SameBaseSort ==
    ASSUME NEW old, NEW new, old.base = new.base
    PROVE  Sort(old) = Sort(new)
BY DEF Sort

\* A type with one number in parentheses.
LEMMA OneNumber ==
    ASSUME NEW s \in Seq(Int), Len(s) = 1
    PROVE  s[1] \in Int /\ DOMAIN s = {1}
OBVIOUS

\* Outside decimals, floats and doubles: numbers that grow one by one hold
\* more, since what a type can hold depends on at most one of them.
LEMMA GrownCovers ==
    ASSUME NEW old \in ParsedType, NEW new \in ParsedType,
           old.base = new.base, old.modifiers = new.modifiers,
           old.base \notin FixedPoint \/ Len(old.args) # 2,
           Len(old.args) = Len(new.args),
           \A i \in DOMAIN old.args : new.args[i] >= old.args[i],
           Sort(old) # "float"
    PROVE  Covers(old, new)
<1>1. Sort(old) = Sort(new)
    BY SameBaseSort
<1>2. CASE Sort(old) \in {"integer", "text", "blob"}
    <2>1. Rank(old.base) \in 1 .. 5
        BY <1>2, SameBaseRank
    <2>2. QED  BY <1>1, <1>2, <2>1 DEF Covers, Room
<1>3. CASE Sort(old) \notin {"integer", "text", "blob"}
    <2>1. CASE Len(old.args) = 1
        <3>1. /\ old.args[1] \in Int /\ new.args[1] \in Int
              /\ new.args[1] >= old.args[1]
            <4>1. old.args \in Seq(Int) /\ new.args \in Seq(Int)
                BY DEF ParsedType
            <4>2. QED  BY <2>1, <4>1, OneNumber
        <3>2. QED  BY <1>1, <1>3, <2>1, <3>1 DEF Covers, Room
    <2>2. CASE Len(old.args) # 1
        BY <1>1, <1>3, <2>2 DEF Covers, Room
    <2>3. QED  BY <2>1, <2>2
<1>4. QED  BY <1>2, <1>3

\* A decimal that keeps its digits on both sides of the point.
LEMMA DecimalCovers ==
    ASSUME NEW old \in ParsedType, NEW new \in ParsedType,
           old.base = new.base, old.base \in {"decimal", "numeric"},
           old.modifiers = new.modifiers, DecimalWidens(old.args, new.args)
    PROVE  Covers(old, new)
<1>1. Sort(old) = Sort(new) /\ Sort(old) \notin {"integer", "text", "blob", "float"}
    BY DEF Sort, TextFamily, BlobFamily
<1>2. Len(old.args) = 2 /\ Len(new.args) = 2
    BY DEF DecimalWidens
<1>3. /\ old.args[1] \in Int /\ old.args[2] \in Int
      /\ new.args[1] \in Int /\ new.args[2] \in Int
    BY <1>2 DEF ParsedType
<1>4. QED  BY <1>1, <1>2, <1>3 DEF Covers, Room, FixedPoint, DecimalWidens

-----------------------------------------------------------------------------

(* What MySQL's widens lets into 01 loses no value, whatever the types.    *)
THEOREM WideningLosesNothing ==
    ASSUME NEW old, NEW new, MySqlType(old), MySqlType(new), Widens(old, new)
    PROVE  Covers(old, new)
<1>1. old \in ParsedType /\ new \in ParsedType /\ old.modifiers = new.modifiers
    BY DEF MySqlType, Widens
<1>2. CASE old.base = new.base /\ old.base = "decimal"
    BY <1>1, <1>2, DecimalCovers DEF Widens
<1>3. CASE old.base = new.base /\ old.base # "decimal"
    <2>1. old.base \notin FixedPoint /\ Sort(old) # "float"
        BY <1>3 DEF MySqlType, FixedPoint, Sort, TextFamily, BlobFamily
    <2>2. ArgsWiden(old.args, new.args)
        BY <1>3 DEF Widens
    <2>3. QED  BY <1>1, <1>3, <2>1, <2>2, GrownCovers DEF ArgsWiden
<1>4. CASE old.base # new.base
    <2>1. PICK family \in Families :
              Upward(family, Normalized(old.base), Normalized(new.base))
        BY <1>4 DEF Widens, MySqlType
    <2>2. QED  BY <1>1, <2>1, UpwardCovers
<1>5. QED  BY <1>2, <1>3, <1>4

(* The same of PostgreSQL's.                                               *)
THEOREM PgWideningLosesNothing ==
    ASSUME NEW old, NEW new, PgParsedType(old), PgParsedType(new), PgWidens(old, new)
    PROVE  Covers(old, new)
<1>1. old \in ParsedType /\ new \in ParsedType /\ old.modifiers = new.modifiers
    BY DEF PgParsedType, PgWidens
<1>2. CASE old.base = new.base
    <2>1. Sort(old) # "float"
        BY DEF PgParsedType, Sort
    <2>2. CASE old.base = "numeric" /\ DecimalWidens(old.args, new.args)
        BY <1>1, <1>2, <2>2, DecimalCovers
    <2>3. CASE Len(old.args) = 1 /\ Len(new.args) = 1 /\ new.args[1] >= old.args[1]
        <3>1. \A i \in DOMAIN old.args : i = 1
            BY <1>1, <2>3 DEF ParsedType
        <3>2. QED  BY <1>1, <1>2, <2>1, <2>3, <3>1, GrownCovers
    <2>4. CASE old.args = <<>> /\ new.args = <<>>
        <3>1. Len(old.args) = 0 /\ Len(new.args) = 0 /\ DOMAIN old.args = {}
            BY <2>4
        <3>2. QED  BY <1>1, <1>2, <2>1, <3>1, GrownCovers
    <2>5. QED  BY <1>2, <2>2, <2>3, <2>4 DEF PgWidens
<1>3. CASE old.base # new.base
    <2>1. Upward(PgIntegerFamily, old.base, new.base)
        BY <1>3 DEF PgWidens, PgParsedType
    <2>2. Upward(IntegerFamily, Normalized(old.base), Normalized(new.base))
        BY <2>1 DEF Upward, PgIntegerFamily, IntegerFamily, Normalized
    <2>3. QED  BY <1>1, <2>2, UpwardCovers DEF Families
<1>4. QED  BY <1>2, <1>3

-----------------------------------------------------------------------------
(* One ALTER leaves a database whole.                                      *)

LEMMA NewTableWhole ==
    ASSUME dialect \in Dialects, NEW db, IsDatabase(dialect, db), NEW new \in NewTable(db)
    PROVE  IsDatabase(dialect, new)
<1>1. DOMAIN db = Kinds
  BY DEF IsDatabase, IsSchema
<1>2. PICK t \in Table \ DOMAIN db.tables, u \in CollationsOf(db), c \in Column, d \in Detail :
        new = WithTable(db, t, u, c, d)
  BY DEF NewTable
<1>3. /\ DOMAIN new = Kinds /\ new.tables = Put(db.tables, t, u)
      /\ new.columns = Put(db.columns, <<t, c>>, d)
      /\ new.indexes = db.indexes /\ new.keys = db.keys
  BY <1>1, <1>2 DEF WithTable, Kinds
<1>4. u \in Collations
  BY DEF IsDatabase, CollationsOf
<1> QED
  BY <1>3, <1>4 DEF IsDatabase, IsSchema, Put, Detail

LEMMA LessTableWhole ==
    ASSUME NEW db, IsDatabase(dialect, db), NEW new \in LessTable(db)
    PROVE  IsDatabase(dialect, new)
<1>1. PICK t \in DOMAIN db.tables :
        /\ \A x \in DOMAIN db.keys : db.keys[x] = t => x[1] = t
        /\ new = [tables  |-> Without(db.tables, {t}),
                  columns |-> Without(db.columns, {t} \X Column),
                  indexes |-> Without(db.indexes, {t} \X Index),
                  keys    |-> Without(db.keys, {t} \X Key)]
  BY DEF LessTable
<1>2. /\ DOMAIN new.tables = DOMAIN db.tables \ {t}
      /\ \A u \in DOMAIN new.tables : new.tables[u] = db.tables[u]
  BY <1>1 DEF Without, Restrict
<1>3. /\ DOMAIN new.columns = {x \in DOMAIN db.columns : x[1] # t}
      /\ \A x \in DOMAIN new.columns : new.columns[x] = db.columns[x]
  BY <1>1 DEF IsDatabase, IsSchema, Without, Restrict
<1>4. /\ DOMAIN new.indexes = {x \in DOMAIN db.indexes : x[1] # t}
      /\ \A x \in DOMAIN new.indexes : new.indexes[x] = db.indexes[x]
  BY <1>1 DEF IsDatabase, IsSchema, Without, Restrict
<1>5. /\ DOMAIN new.keys = {x \in DOMAIN db.keys : x[1] # t}
      /\ \A x \in DOMAIN new.keys : new.keys[x] = db.keys[x]
  BY <1>1 DEF IsDatabase, IsSchema, Without, Restrict
<1>6. DOMAIN new = Kinds
  BY <1>1 DEF Kinds
<1>7. IsSchema(new)
  BY <1>2, <1>3, <1>4, <1>5, <1>6 DEF IsDatabase, IsSchema
<1>8. \A x \in DOMAIN new.columns :
        x[1] \in DOMAIN new.tables /\ new.columns[x] \in DetailOf(dialect)
  BY <1>2, <1>3 DEF IsDatabase
<1>9. \A x \in DOMAIN new.indexes : <<x[1], new.indexes[x]>> \in DOMAIN new.columns
  BY <1>3, <1>4 DEF IsDatabase
<1>10. \A x \in DOMAIN new.keys : {x[1], new.keys[x]} \subseteq DOMAIN new.tables
  <2> SUFFICES ASSUME NEW x \in DOMAIN new.keys
               PROVE  x[1] \in DOMAIN new.tables /\ new.keys[x] \in DOMAIN new.tables
    OBVIOUS
  <2>1. x \in DOMAIN db.keys /\ x[1] # t /\ new.keys[x] = db.keys[x]
    BY <1>5
  <2>2. x[1] \in DOMAIN db.tables /\ db.keys[x] \in DOMAIN db.tables
    BY <2>1 DEF IsDatabase
  <2> QED
    BY <2>1, <2>2, <1>1, <1>2
<1> QED
  BY <1>2, <1>7, <1>8, <1>9, <1>10 DEF IsDatabase

LEMMA OtherColumnWhole ==
    ASSUME NEW db, IsDatabase(dialect, db), NEW new \in OtherColumn(db)
    PROVE  IsDatabase(dialect, new)
<1>1. PICK t \in DOMAIN db.tables, c \in Column, d \in Detail :
        new = [db EXCEPT !.columns = Put(@, <<t, c>>, d)]
  BY DEF OtherColumn
<1>2. /\ DOMAIN new = Kinds /\ new.columns = Put(db.columns, <<t, c>>, d)
      /\ new.tables = db.tables /\ new.indexes = db.indexes /\ new.keys = db.keys
  BY <1>1 DEF IsDatabase, IsSchema, Kinds
<1> QED
  BY <1>2 DEF IsDatabase, IsSchema, Put, Detail

LEMMA LessColumnWhole ==
    ASSUME NEW db, IsDatabase(dialect, db), NEW new \in LessColumn(db)
    PROVE  IsDatabase(dialect, new)
<1>1. PICK x \in DOMAIN db.columns :
        new = [db EXCEPT !.columns = Without(@, {x}),
                         !.indexes = Without(@, {y \in DOMAIN @ : y[1] = x[1] /\ @[y] = x[2]})]
  BY DEF LessColumn
<1>2. /\ DOMAIN new = Kinds /\ new.tables = db.tables /\ new.keys = db.keys
      /\ new.columns = Without(db.columns, {x})
      /\ new.indexes = Without(db.indexes, {y \in DOMAIN db.indexes :
                                               y[1] = x[1] /\ db.indexes[y] = x[2]})
  BY <1>1 DEF IsDatabase, IsSchema, Kinds
<1>3. /\ DOMAIN new.columns = DOMAIN db.columns \ {x}
      /\ \A y \in DOMAIN new.columns : new.columns[y] = db.columns[y]
  BY <1>2 DEF Without, Restrict
<1>4. /\ DOMAIN new.indexes
           = DOMAIN db.indexes \ {y \in DOMAIN db.indexes : y[1] = x[1] /\ db.indexes[y] = x[2]}
      /\ \A y \in DOMAIN new.indexes : new.indexes[y] = db.indexes[y]
  BY <1>2 DEF Without, Restrict
<1>5. x = <<x[1], x[2]>>
  BY DEF IsDatabase, IsSchema
<1>6. \A y \in DOMAIN new.indexes : <<y[1], new.indexes[y]>> \in DOMAIN new.columns
  <2> SUFFICES ASSUME NEW y \in DOMAIN new.indexes
               PROVE  <<y[1], new.indexes[y]>> \in DOMAIN new.columns
    OBVIOUS
  <2>1. y \in DOMAIN db.indexes /\ ~ (y[1] = x[1] /\ db.indexes[y] = x[2])
        /\ new.indexes[y] = db.indexes[y]
    BY <1>4
  <2>2. <<y[1], db.indexes[y]>> \in DOMAIN db.columns
    BY <2>1 DEF IsDatabase
  <2> QED
    BY <2>1, <2>2, <1>3, <1>5
<1>7. IsSchema(new)
  BY <1>2, <1>3, <1>4 DEF IsDatabase, IsSchema
<1>8. \A y \in DOMAIN new.columns :
        y[1] \in DOMAIN new.tables /\ new.columns[y] \in DetailOf(dialect)
  BY <1>2, <1>3 DEF IsDatabase
<1> QED
  BY <1>2, <1>6, <1>7, <1>8 DEF IsDatabase

LEMMA IndexesWhole ==
    ASSUME NEW db, IsDatabase(dialect, db), NEW new \in OtherIndex(db) \cup LessIndex(db)
    PROVE  IsDatabase(dialect, new)
<1>1. CASE new \in OtherIndex(db)
  <2>1. PICK x \in DOMAIN db.columns, i \in Index :
          new = [db EXCEPT !.indexes = Put(@, <<x[1], i>>, x[2])]
    BY <1>1 DEF OtherIndex
  <2>2. /\ DOMAIN new = Kinds /\ new.indexes = Put(db.indexes, <<x[1], i>>, x[2])
        /\ new.tables = db.tables /\ new.columns = db.columns /\ new.keys = db.keys
    BY <2>1 DEF IsDatabase, IsSchema, Kinds
  <2>3. x = <<x[1], x[2]>> /\ x[1] \in Table
    BY DEF IsDatabase, IsSchema
  <2> QED
    BY <2>2, <2>3 DEF IsDatabase, IsSchema, Put
<1>2. CASE new \in LessIndex(db)
  <2>1. PICK x \in DOMAIN db.indexes : new = [db EXCEPT !.indexes = Without(@, {x})]
    BY <1>2 DEF LessIndex
  <2>2. /\ DOMAIN new = Kinds /\ new.indexes = Without(db.indexes, {x})
        /\ new.tables = db.tables /\ new.columns = db.columns /\ new.keys = db.keys
    BY <2>1 DEF IsDatabase, IsSchema, Kinds
  <2> QED
    BY <2>2 DEF IsDatabase, IsSchema, Without, Restrict
<1> QED
  BY <1>1, <1>2

LEMMA KeysWhole ==
    ASSUME NEW db, IsDatabase(dialect, db), NEW new \in OtherKey(db) \cup LessKey(db)
    PROVE  IsDatabase(dialect, new)
<1>1. CASE new \in OtherKey(db)
  <2>1. DOMAIN db = Kinds
    BY DEF IsDatabase, IsSchema
  <2>2. PICK t \in DOMAIN db.tables, k \in Key, u \in DOMAIN db.tables :
          /\ DOMAIN new = Kinds /\ new.keys = Put(db.keys, <<t, k>>, u)
          /\ new.tables = db.tables /\ new.columns = db.columns /\ new.indexes = db.indexes
    BY <1>1, <2>1 DEF OtherKey, Kinds
  <2> QED
    BY <2>2 DEF IsDatabase, IsSchema, Put
<1>2. CASE new \in LessKey(db)
  <2>1. PICK x \in DOMAIN db.keys : new = [db EXCEPT !.keys = Without(@, {x})]
    BY <1>2 DEF LessKey
  <2>2. /\ DOMAIN new = Kinds /\ new.keys = Without(db.keys, {x})
        /\ new.tables = db.tables /\ new.columns = db.columns /\ new.indexes = db.indexes
    BY <2>1 DEF IsDatabase, IsSchema, Kinds
  <2> QED
    BY <2>2 DEF IsDatabase, IsSchema, Without, Restrict
<1> QED
  BY <1>1, <1>2

LEMMA AlteredWhole ==
    ASSUME dialect \in Dialects, NEW db, IsDatabase(dialect, db), NEW new \in Altered(db)
    PROVE  IsDatabase(dialect, new)
<1>1. CASE new \in OtherCollation(db)
  <2>1. PICK t \in DOMAIN db.tables, u \in Collations : new = [db EXCEPT !.tables[t] = u]
    BY <1>1 DEF OtherCollation
  <2>2. /\ DOMAIN new = Kinds /\ new.tables = [db.tables EXCEPT ![t] = u]
        /\ new.columns = db.columns /\ new.indexes = db.indexes /\ new.keys = db.keys
    BY <2>1 DEF IsDatabase, IsSchema, Kinds
  <2> QED
    BY <2>2 DEF IsDatabase, IsSchema
<1> QED
  BY <1>1, NewTableWhole, LessTableWhole, OtherColumnWhole, LessColumnWhole, IndexesWhole,
     KeysWhole DEF Altered

-----------------------------------------------------------------------------
(* What is read of a database, and what is made of it.                     *)

\* A schema as it is recorded: columns may be of tables that were not read.
IsRecorded(d, db) ==
    /\ IsSchema(db)
    /\ \A t \in DOMAIN db.tables : db.tables[t] \in Collations
    /\ \A x \in DOMAIN db.columns :
         /\ db.columns[x].type \in Types[d]
         /\ db.columns[x].default \in Defaults
         /\ db.columns[x].collation \in Collations

\* The statements there can be for the way from old to new.
IsCreate(d, old, new, s) ==
    \E t \in DOMAIN new.tables \ DOMAIN old.tables : s = CreateTable(d, new, t)

IsAdd(d, old, new, s) ==
    \E x \in DOMAIN new.columns \ DOMAIN old.columns :
        /\ x[1] \in Both(old, new)
        /\ s = Statement(1, 2, "add", <<"columns", x[1], x[2]>>, Definition(d, new, x))

IsModify(d, old, new, s) ==
    \E x \in DOMAIN new.columns \cap DOMAIN old.columns :
        /\ x[1] \in Both(old, new) /\ old.columns[x] # new.columns[x]
        /\ s = Statement(IF Reviewed(d, old.columns[x], new.columns[x]) THEN 2 ELSE 1, 2,
                         "modify", <<"columns", x[1], x[2]>>, Definition(d, new, x))

IsIndex(d, old, new, s) ==
    \E x \in DOMAIN new.indexes, n \in {1, 3} :
        /\ x[1] \in DOMAIN new.tables
        /\ s = Statement(1, n, "index", <<"indexes", x[1], x[2]>>, new.indexes[x])

IsKey(d, old, new, s) ==
    \E x \in DOMAIN new.keys \ DOMAIN old.keys :
        /\ x[1] \in Both(old, new)
        /\ s = Statement(2, 4, "key", <<"keys", x[1], x[2]>>, new.keys[x])

IsOption(d, old, new, s) ==
    \E t \in Both(old, new) :
        /\ old.tables[t] # new.tables[t]
        /\ s = Statement(1, 5, "collation", <<"options", t, 0>>, new.tables[t])

Meant(d, old, new, s) ==
    \/ IsCreate(d, old, new, s) \/ IsAdd(d, old, new, s) \/ IsModify(d, old, new, s)
    \/ IsIndex(d, old, new, s) \/ IsKey(d, old, new, s) \/ IsOption(d, old, new, s)

LEMMA DiffMeant ==
    ASSUME NEW old, NEW new, NEW s \in Diff(dialect, old, new).statements
    PROVE  Meant(dialect, old, new, s)
<1>1. \/ s \in TableStatements(dialect, old, new)
      \/ s \in ColumnStatements(dialect, old, new)
      \/ s \in IndexStatements(old, new)
      \/ s \in KeyStatements(old, new)
      \/ s \in OptionStatements(old, new)
  BY DEF Diff
<1>2. CASE s \in TableStatements(dialect, old, new)
  BY <1>2 DEF TableStatements, Meant, IsCreate, IsIndex
<1>3. CASE s \in ColumnStatements(dialect, old, new)
  BY <1>3 DEF ColumnStatements, Meant, IsAdd, IsModify
<1>4. CASE s \in IndexStatements(old, new)
  BY <1>4 DEF IndexStatements, Meant, IsIndex, Both
<1>5. CASE s \in KeyStatements(old, new)
  BY <1>5 DEF KeyStatements, Meant, IsKey
<1>6. CASE s \in OptionStatements(old, new)
  BY <1>6 DEF OptionStatements, Meant, IsOption
<1> QED
  BY <1>1, <1>2, <1>3, <1>4, <1>5, <1>6

LEMMA StatementFields ==
    ASSUME NEW file, NEW section, NEW op, NEW obj, NEW text
    PROVE  LET s == Statement(file, section, op, obj, text) IN
           /\ s.file = file /\ s.op = op /\ s.obj = obj /\ s.text = text
           /\ s.order = <<file, section, obj[2], obj[3]>>
  BY DEF Statement

LEMMA DefinitionFields ==
    ASSUME NEW new, IsRecorded(dialect, new), NEW x \in DOMAIN new.columns, NEW u \in Collations
    PROVE  LET e == Spelled(Definition(dialect, new, x), u) IN
           /\ e \in DetailOf(dialect)
           /\ Definition(dialect, new, x).type = new.columns[x].type
           /\ e.type = new.columns[x].type /\ e.default = new.columns[x].default
           /\ (dialect = "mysql" /\ u = new.tables[x[1]])
                => e.collation = new.columns[x].collation
<1>1. /\ new.columns[x].type \in Types[dialect] /\ new.columns[x].default \in Defaults
      /\ new.columns[x].collation \in Collations
  BY DEF IsRecorded
<1> QED
  BY <1>1, SchemaAssumption DEF Spelled, Definition, DetailOf

\* The entries of a table.
LEMMA OfFields ==
    ASSUME NEW f, NEW t, \A x \in DOMAIN f : x = <<x[1], x[2]>>
    PROVE  /\ \A n : n \in DOMAIN Of(f, t) <=> <<t, n>> \in DOMAIN f
           /\ \A n \in DOMAIN Of(f, t) : Of(f, t)[n] = f[<<t, n>>]
<1> DEFINE D == {x[2] : x \in {y \in DOMAIN f : y[1] = t}}
<1>1. ASSUME NEW n \in D PROVE <<t, n>> \in DOMAIN f
  <2>1. PICK x \in DOMAIN f : x[1] = t /\ n = x[2]
    OBVIOUS
  <2> QED
    BY <2>1
<1>2. ASSUME NEW n, <<t, n>> \in DOMAIN f PROVE n \in D
  <2>1. <<t, n>>[1] = t /\ <<t, n>>[2] = n
    OBVIOUS
  <2> QED
    BY <1>2, <2>1
<1> QED
  BY <1>1, <1>2 DEF Of

LEMMA CreateFields ==
    ASSUME NEW new, IsRecorded(dialect, new), NEW t \in DOMAIN new.tables, NEW s,
           s = CreateTable(dialect, new, t)
    PROVE  /\ s.file = 1 /\ s.op = "create" /\ s.obj = <<"tables", t, 0>>
           /\ s.order = <<1, 1, t, 0>> /\ s.text.collation = new.tables[t]
           /\ DOMAIN s.text.columns = {c \in Column : <<t, c>> \in DOMAIN new.columns}
           /\ \A c \in DOMAIN s.text.columns :
                s.text.columns[c] = Definition(dialect, new, <<t, c>>)
           /\ DOMAIN s.text.indexes
                = {i \in Index : dialect = "mysql" /\ <<t, i>> \in DOMAIN new.indexes}
           /\ \A i \in DOMAIN s.text.indexes : s.text.indexes[i] = new.indexes[<<t, i>>]
           /\ DOMAIN s.text.keys
                = {k \in Key : dialect = "mysql" /\ <<t, k>> \in DOMAIN new.keys}
           /\ \A k \in DOMAIN s.text.keys : s.text.keys[k] = new.keys[<<t, k>>]
<1>1. /\ DOMAIN new.columns \subseteq Table \X Column
      /\ DOMAIN new.indexes \subseteq Table \X Index
      /\ DOMAIN new.keys \subseteq Table \X Key
  BY DEF IsRecorded, IsSchema
<1>2. \A n : n \in DOMAIN Of(new.columns, t) <=> <<t, n>> \in DOMAIN new.columns
  BY <1>1, OfFields
<1>5. /\ \A n : n \in DOMAIN Of(new.indexes, t) <=> <<t, n>> \in DOMAIN new.indexes
      /\ \A i \in DOMAIN Of(new.indexes, t) : Of(new.indexes, t)[i] = new.indexes[<<t, i>>]
  BY <1>1, OfFields
<1>6. /\ \A n : n \in DOMAIN Of(new.keys, t) <=> <<t, n>> \in DOMAIN new.keys
      /\ \A i \in DOMAIN Of(new.keys, t) : Of(new.keys, t)[i] = new.keys[<<t, i>>]
  BY <1>1, OfFields
<1>3. DOMAIN Empty = {}
  BY DEF Empty
<1>4. /\ s.file = 1 /\ s.op = "create" /\ s.obj = <<"tables", t, 0>>
      /\ s.order = <<1, 1, t, 0>> /\ s.text.collation = new.tables[t]
      /\ s.text.columns = [c \in DOMAIN Of(new.columns, t) |-> Definition(dialect, new, <<t, c>>)]
      /\ s.text.indexes = IF dialect = "mysql" THEN Of(new.indexes, t) ELSE Empty
      /\ s.text.keys = IF dialect = "mysql" THEN Of(new.keys, t) ELSE Empty
  BY DEF CreateTable, Statement
<1>7. /\ DOMAIN Of(new.columns, t) = {c \in Column : <<t, c>> \in DOMAIN new.columns}
      /\ DOMAIN Of(new.indexes, t) = {c \in Index : <<t, c>> \in DOMAIN new.indexes}
      /\ DOMAIN Of(new.keys, t) = {c \in Key : <<t, c>> \in DOMAIN new.keys}
  <2>1. /\ \A n : <<t, n>> \in DOMAIN new.columns => n \in Column
        /\ \A n : <<t, n>> \in DOMAIN new.indexes => n \in Index
        /\ \A n : <<t, n>> \in DOMAIN new.keys => n \in Key
    BY <1>1
  <2>2. DOMAIN Of(new.columns, t) = {c \in Column : <<t, c>> \in DOMAIN new.columns}
    BY <1>2, <2>1
  <2>3. DOMAIN Of(new.indexes, t) = {c \in Index : <<t, c>> \in DOMAIN new.indexes}
    BY <1>5, <2>1
  <2>4. DOMAIN Of(new.keys, t) = {c \in Key : <<t, c>> \in DOMAIN new.keys}
    BY <1>6, <2>1
  <2> QED
    BY <2>2, <2>3, <2>4
<1> QED
  BY <1>3, <1>4, <1>5, <1>6, <1>7

-----------------------------------------------------------------------------
(* What a statement that takes effect does to a whole database.            *)

LEMMA CreateEffect ==
    ASSUME NEW new, IsRecorded(dialect, new), NEW t \in DOMAIN new.tables, NEW s,
           s = CreateTable(dialect, new, t),
           NEW db, IsDatabase(dialect, db), Applies(s, db)
    PROVE  LET was == Applied(dialect, s, db) IN
           /\ t \notin DOMAIN db.tables
           /\ DOMAIN was = Kinds
           /\ DOMAIN was.tables = DOMAIN db.tables \cup {t} /\ was.tables[t] = new.tables[t]
           /\ \A u \in DOMAIN db.tables : was.tables[u] = db.tables[u]
           /\ DOMAIN was.columns = DOMAIN db.columns \cup {x \in DOMAIN new.columns : x[1] = t}
           /\ \A x \in DOMAIN db.columns : was.columns[x] = db.columns[x]
           /\ \A x \in DOMAIN new.columns : x[1] = t =>
                was.columns[x] = Spelled(Definition(dialect, new, x), new.tables[t])
           /\ DOMAIN was.indexes = DOMAIN db.indexes
                \cup {x \in DOMAIN new.indexes : dialect = "mysql" /\ x[1] = t}
           /\ \A x \in DOMAIN db.indexes : was.indexes[x] = db.indexes[x]
           /\ \A x \in DOMAIN new.indexes : dialect = "mysql" /\ x[1] = t =>
                was.indexes[x] = new.indexes[x]
           /\ DOMAIN was.keys = DOMAIN db.keys
                \cup {x \in DOMAIN new.keys : dialect = "mysql" /\ x[1] = t}
           /\ \A x \in DOMAIN db.keys : was.keys[x] = db.keys[x]
           /\ \A x \in DOMAIN new.keys : dialect = "mysql" /\ x[1] = t =>
                was.keys[x] = new.keys[x]
<1> DEFINE was == Applied(dialect, s, db)
<1>1. s.op = "create" /\ s.obj[2] = t /\ s.text.collation = new.tables[t]
  BY CreateFields
<1>2. t \notin DOMAIN db.tables
  BY <1>1 DEF Applies
<1>3. was = [tables  |-> Put(db.tables, t, new.tables[t]),
             columns |-> Over([y \in {t} \X DOMAIN s.text.columns |->
                                  Spelled(s.text.columns[y[2]], new.tables[t])], db.columns),
             indexes |-> Over(Prefixed(t, s.text.indexes), db.indexes),
             keys    |-> Over(Prefixed(t, s.text.keys), db.keys)]
  BY <1>1 DEF Applied
<1>4. /\ \A x \in DOMAIN new.columns : x = <<x[1], x[2]>> /\ x[2] \in Column
      /\ \A x \in DOMAIN new.indexes : x = <<x[1], x[2]>> /\ x[2] \in Index
      /\ \A x \in DOMAIN new.keys : x = <<x[1], x[2]>> /\ x[2] \in Key
  BY DEF IsRecorded, IsSchema
<1>5. /\ \A x \in DOMAIN db.columns : x[1] # t
      /\ \A x \in DOMAIN db.indexes : x[1] # t
      /\ \A x \in DOMAIN db.keys : x[1] # t
  BY <1>2 DEF IsDatabase
<1>6. /\ DOMAIN was = Kinds
      /\ DOMAIN was.tables = DOMAIN db.tables \cup {t} /\ was.tables[t] = new.tables[t]
      /\ \A u \in DOMAIN db.tables : was.tables[u] = db.tables[u]
  BY <1>2, <1>3 DEF Put, Kinds
<1>7. /\ DOMAIN was.columns = DOMAIN db.columns \cup {x \in DOMAIN new.columns : x[1] = t}
      /\ \A x \in DOMAIN db.columns : was.columns[x] = db.columns[x]
      /\ \A x \in DOMAIN new.columns : x[1] = t =>
           was.columns[x] = Spelled(Definition(dialect, new, x), new.tables[t])
  <2> DEFINE f == [y \in {t} \X DOMAIN s.text.columns |->
                      Spelled(s.text.columns[y[2]], new.tables[t])]
  <2>1. /\ DOMAIN s.text.columns = {c \in Column : <<t, c>> \in DOMAIN new.columns}
        /\ \A c \in DOMAIN s.text.columns :
             s.text.columns[c] = Definition(dialect, new, <<t, c>>)
    BY CreateFields
  <2>2. DOMAIN f = {x \in DOMAIN new.columns : x[1] = t}
    BY <2>1, <1>4
  <2>3. \A x \in DOMAIN f : x = <<t, x[2]>> /\ x[2] \in DOMAIN s.text.columns
    OBVIOUS
  <2>4. \A x \in DOMAIN f : f[x] = Spelled(Definition(dialect, new, x), new.tables[t])
    BY <2>1, <2>3
  <2>5. was.columns = Over(f, db.columns)
    BY <1>3
  <2> QED
    BY <2>2, <2>4, <2>5, <1>5 DEF Over
<1>8. /\ DOMAIN was.indexes = DOMAIN db.indexes
           \cup {x \in DOMAIN new.indexes : dialect = "mysql" /\ x[1] = t}
      /\ \A x \in DOMAIN db.indexes : was.indexes[x] = db.indexes[x]
      /\ \A x \in DOMAIN new.indexes : dialect = "mysql" /\ x[1] = t =>
           was.indexes[x] = new.indexes[x]
  <2> DEFINE f == Prefixed(t, s.text.indexes)
  <2>1. /\ DOMAIN s.text.indexes
             = {c \in Index : dialect = "mysql" /\ <<t, c>> \in DOMAIN new.indexes}
        /\ \A c \in DOMAIN s.text.indexes : s.text.indexes[c] = new.indexes[<<t, c>>]
    BY CreateFields
  <2>2. DOMAIN f = {x \in DOMAIN new.indexes : dialect = "mysql" /\ x[1] = t}
    BY <2>1, <1>4 DEF Prefixed
  <2>3. \A x \in DOMAIN f : x = <<t, x[2]>> /\ x[2] \in DOMAIN s.text.indexes
    BY DEF Prefixed
  <2>4. \A x \in DOMAIN f : f[x] = new.indexes[x]
    BY <2>1, <2>3 DEF Prefixed
  <2>5. was.indexes = Over(f, db.indexes)
    BY <1>3
  <2> QED
    BY <2>2, <2>4, <2>5, <1>5 DEF Over
<1>9. /\ DOMAIN was.keys = DOMAIN db.keys
           \cup {x \in DOMAIN new.keys : dialect = "mysql" /\ x[1] = t}
      /\ \A x \in DOMAIN db.keys : was.keys[x] = db.keys[x]
      /\ \A x \in DOMAIN new.keys : dialect = "mysql" /\ x[1] = t => was.keys[x] = new.keys[x]
  <2> DEFINE f == Prefixed(t, s.text.keys)
  <2>1. /\ DOMAIN s.text.keys
             = {c \in Key : dialect = "mysql" /\ <<t, c>> \in DOMAIN new.keys}
        /\ \A c \in DOMAIN s.text.keys : s.text.keys[c] = new.keys[<<t, c>>]
    BY CreateFields
  <2>2. DOMAIN f = {x \in DOMAIN new.keys : dialect = "mysql" /\ x[1] = t}
    BY <2>1, <1>4 DEF Prefixed
  <2>3. \A x \in DOMAIN f : x = <<t, x[2]>> /\ x[2] \in DOMAIN s.text.keys
    BY DEF Prefixed
  <2>4. \A x \in DOMAIN f : f[x] = new.keys[x]
    BY <2>1, <2>3 DEF Prefixed
  <2>5. was.keys = Over(f, db.keys)
    BY <1>3
  <2> QED
    BY <2>2, <2>4, <2>5, <1>5 DEF Over
<1> QED
  BY <1>2, <1>6, <1>7, <1>8, <1>9

LEMMA CreateWhole ==
    ASSUME NEW new, IsRecorded(dialect, new), NEW t \in DOMAIN new.tables, NEW s,
           s = CreateTable(dialect, new, t),
           NEW db, IsDatabase(dialect, db), Applies(s, db)
    PROVE  IsDatabase(dialect, Applied(dialect, s, db))
<1> DEFINE was == Applied(dialect, s, db)
<1>1. /\ DOMAIN was = Kinds
      /\ DOMAIN was.tables = DOMAIN db.tables \cup {t} /\ was.tables[t] = new.tables[t]
      /\ \A u \in DOMAIN db.tables : was.tables[u] = db.tables[u]
  BY CreateEffect
<1>2. /\ DOMAIN was.columns = DOMAIN db.columns \cup {x \in DOMAIN new.columns : x[1] = t}
      /\ \A x \in DOMAIN db.columns : was.columns[x] = db.columns[x]
      /\ \A x \in DOMAIN new.columns : x[1] = t =>
           was.columns[x] = Spelled(Definition(dialect, new, x), new.tables[t])
  BY CreateEffect
<1>3. /\ DOMAIN was.indexes = DOMAIN db.indexes
           \cup {x \in DOMAIN new.indexes : dialect = "mysql" /\ x[1] = t}
      /\ \A x \in DOMAIN db.indexes : was.indexes[x] = db.indexes[x]
      /\ \A x \in DOMAIN new.indexes : dialect = "mysql" /\ x[1] = t =>
           was.indexes[x] = new.indexes[x]
  BY CreateEffect
<1>4. /\ DOMAIN was.keys = DOMAIN db.keys
           \cup {x \in DOMAIN new.keys : dialect = "mysql" /\ x[1] = t}
      /\ \A x \in DOMAIN db.keys : was.keys[x] = db.keys[x]
      /\ \A x \in DOMAIN new.keys : dialect = "mysql" /\ x[1] = t => was.keys[x] = new.keys[x]
  BY CreateEffect
<1>5. t \in Table /\ new.tables[t] \in Collations
  BY DEF IsRecorded, IsSchema
<1>6. IsSchema(was)
  BY <1>1, <1>2, <1>3, <1>4, <1>5 DEF IsDatabase, IsSchema, IsRecorded
<1>7. \A u \in DOMAIN was.tables : was.tables[u] \in Collations
  BY <1>1, <1>5 DEF IsDatabase
<1>8. \A x \in DOMAIN was.columns :
        x[1] \in DOMAIN was.tables /\ was.columns[x] \in DetailOf(dialect)
  BY <1>1, <1>2, <1>5, DefinitionFields DEF IsDatabase
<1>9. /\ s.op = "create" /\ s.obj[2] = t
      /\ DOMAIN s.text.columns = {c \in Column : <<t, c>> \in DOMAIN new.columns}
      /\ DOMAIN s.text.indexes
           = {i \in Index : dialect = "mysql" /\ <<t, i>> \in DOMAIN new.indexes}
      /\ \A i \in DOMAIN s.text.indexes : s.text.indexes[i] = new.indexes[<<t, i>>]
      /\ DOMAIN s.text.keys = {k \in Key : dialect = "mysql" /\ <<t, k>> \in DOMAIN new.keys}
      /\ \A k \in DOMAIN s.text.keys : s.text.keys[k] = new.keys[<<t, k>>]
  BY CreateFields
<1>10. /\ \A i \in DOMAIN s.text.indexes : s.text.indexes[i] \in DOMAIN s.text.columns
       /\ \A k \in DOMAIN s.text.keys : s.text.keys[k] \in DOMAIN db.tables \cup {t}
  BY <1>9 DEF Applies
<1>11. ASSUME NEW x \in DOMAIN was.indexes
       PROVE  <<x[1], was.indexes[x]>> \in DOMAIN was.columns
  <2>1. CASE x \in DOMAIN db.indexes
    BY <2>1, <1>2, <1>3 DEF IsDatabase
  <2>2. CASE x \in DOMAIN new.indexes /\ dialect = "mysql" /\ x[1] = t
    <3>1. x = <<t, x[2]>> /\ x[2] \in Index
      BY <2>2 DEF IsRecorded, IsSchema
    <3>2. x[2] \in DOMAIN s.text.indexes /\ s.text.indexes[x[2]] = new.indexes[x]
      BY <2>2, <3>1, <1>9
    <3>3. <<t, new.indexes[x]>> \in DOMAIN new.columns
      BY <3>2, <1>9, <1>10
    <3> QED
      BY <2>2, <3>3, <1>2, <1>3
  <2> QED
    BY <2>1, <2>2, <1>3
<1>12. ASSUME NEW x \in DOMAIN was.keys
       PROVE  {x[1], was.keys[x]} \subseteq DOMAIN was.tables
  <2>1. CASE x \in DOMAIN db.keys
    BY <2>1, <1>1, <1>4 DEF IsDatabase
  <2>2. CASE x \in DOMAIN new.keys /\ dialect = "mysql" /\ x[1] = t
    <3>1. x = <<t, x[2]>> /\ x[2] \in Key
      BY <2>2 DEF IsRecorded, IsSchema
    <3>2. x[2] \in DOMAIN s.text.keys /\ s.text.keys[x[2]] = new.keys[x]
      BY <2>2, <3>1, <1>9
    <3> QED
      BY <2>2, <3>2, <1>1, <1>4, <1>10
  <2> QED
    BY <2>1, <2>2, <1>4
<1> QED
  BY <1>6, <1>7, <1>8, <1>11, <1>12 DEF IsDatabase

LEMMA ColumnEffect ==
    ASSUME NEW new, IsRecorded(dialect, new), NEW x \in DOMAIN new.columns, NEW s,
           s.op \in {"add", "modify"}, s.obj = <<"columns", x[1], x[2]>>,
           s.text = Definition(dialect, new, x), dialect \in Dialects,
           NEW db, IsDatabase(dialect, db), Applies(s, db)
    PROVE  LET was == Applied(dialect, s, db) IN
           /\ x[1] \in DOMAIN db.tables
           /\ s.op = "modify" => x \in DOMAIN db.columns
           /\ DOMAIN was = Kinds /\ was.tables = db.tables
           /\ was.indexes = db.indexes /\ was.keys = db.keys
           /\ DOMAIN was.columns = DOMAIN db.columns \cup {x}
           /\ \A y \in DOMAIN db.columns \ {x} : was.columns[y] = db.columns[y]
           /\ was.columns[x].type = new.columns[x].type
           /\ dialect = "mysql" => was.columns[x].default = new.columns[x].default
           /\ (dialect = "mysql" /\ db.tables[x[1]] = new.tables[x[1]])
                => was.columns[x].collation = new.columns[x].collation
           /\ IsDatabase(dialect, was)
<1> DEFINE was == Applied(dialect, s, db)
           e == Spelled(Definition(dialect, new, x), db.tables[x[1]])
           v == IF s.op = "add" THEN e ELSE Modified(dialect, db.columns[x], e)
<1>1. x = <<x[1], x[2]>> /\ x[1] \in Table /\ x[2] \in Column
  BY DEF IsRecorded, IsSchema
<1>2. s.obj[2] = x[1] /\ s.obj[3] = x[2]
  OBVIOUS
<1>3. x[1] \in DOMAIN db.tables /\ (s.op = "modify" => x \in DOMAIN db.columns)
  BY <1>1, <1>2 DEF Applies, IsDatabase
<1>4. was = [db EXCEPT !.columns = Put(db.columns, x, v)]
  <2>1. CASE s.op = "add"
    BY <2>1, <1>1, <1>2 DEF Applied
  <2>2. CASE s.op = "modify"
    BY <2>2, <1>1, <1>2 DEF Applied
  <2> QED
    BY <2>1, <2>2
<1>5. DOMAIN db = Kinds /\ "columns" \in Kinds
  BY DEF IsDatabase, IsSchema, Kinds
<1>6. /\ DOMAIN was = Kinds /\ was.tables = db.tables
      /\ was.indexes = db.indexes /\ was.keys = db.keys
      /\ was.columns = Put(db.columns, x, v)
  BY <1>4, <1>5
<1>7. /\ DOMAIN was.columns = DOMAIN db.columns \cup {x}
      /\ \A y \in DOMAIN db.columns \ {x} : was.columns[y] = db.columns[y]
      /\ was.columns[x] = v
  BY <1>6 DEF Put
<1>8. db.tables[x[1]] \in Collations
  BY <1>3 DEF IsDatabase
<1>9. /\ e \in DetailOf(dialect)
      /\ e.type = new.columns[x].type /\ e.default = new.columns[x].default
      /\ (dialect = "mysql" /\ db.tables[x[1]] = new.tables[x[1]])
           => e.collation = new.columns[x].collation
  BY <1>8, DefinitionFields
<1>10. s.op = "modify" => db.columns[x] \in DetailOf(dialect)
  BY <1>3 DEF IsDatabase
<1>11. /\ v \in DetailOf(dialect) /\ v.type = e.type
       /\ dialect = "mysql" => v = e
  BY <1>9, <1>10 DEF Modified, DetailOf, Dialects
<1>12. IsSchema(was)
  BY <1>1, <1>6, <1>7 DEF IsDatabase, IsSchema
<1>13. \A y \in DOMAIN was.columns :
         y[1] \in DOMAIN was.tables /\ was.columns[y] \in DetailOf(dialect)
  BY <1>3, <1>6, <1>7, <1>11 DEF IsDatabase
<1>14. IsDatabase(dialect, was)
  BY <1>6, <1>7, <1>12, <1>13 DEF IsDatabase
<1> QED
  BY <1>3, <1>6, <1>7, <1>9, <1>11, <1>14

LEMMA IndexEffect ==
    ASSUME NEW new, IsRecorded(dialect, new), NEW x \in DOMAIN new.indexes, NEW s,
           s.op = "index", s.obj = <<"indexes", x[1], x[2]>>, s.text = new.indexes[x],
           NEW db, IsDatabase(dialect, db), Applies(s, db)
    PROVE  LET was == Applied(dialect, s, db) IN
           /\ x \notin DOMAIN db.indexes
           /\ DOMAIN was = Kinds /\ was.tables = db.tables
           /\ was.columns = db.columns /\ was.keys = db.keys
           /\ DOMAIN was.indexes = DOMAIN db.indexes \cup {x}
           /\ \A y \in DOMAIN db.indexes : was.indexes[y] = db.indexes[y]
           /\ was.indexes[x] = new.indexes[x]
           /\ IsDatabase(dialect, was)
<1> DEFINE was == Applied(dialect, s, db)
<1>1. x = <<x[1], x[2]>> /\ x[1] \in Table /\ x[2] \in Index
  BY DEF IsRecorded, IsSchema
<1>2. s.obj[2] = x[1] /\ s.obj[3] = x[2]
  OBVIOUS
<1>3. x \notin DOMAIN db.indexes /\ <<x[1], new.indexes[x]>> \in DOMAIN db.columns
  BY <1>1, <1>2 DEF Applies
<1>4. was = [db EXCEPT !.indexes = Put(db.indexes, x, new.indexes[x])]
  BY <1>1, <1>2 DEF Applied
<1>5. DOMAIN db = Kinds /\ "indexes" \in Kinds
  BY DEF IsDatabase, IsSchema, Kinds
<1>6. /\ DOMAIN was = Kinds /\ was.tables = db.tables
      /\ was.columns = db.columns /\ was.keys = db.keys
      /\ was.indexes = Put(db.indexes, x, new.indexes[x])
  BY <1>4, <1>5
<1>7. /\ DOMAIN was.indexes = DOMAIN db.indexes \cup {x}
      /\ \A y \in DOMAIN db.indexes : was.indexes[y] = db.indexes[y]
      /\ was.indexes[x] = new.indexes[x]
  BY <1>3, <1>6 DEF Put
<1>8. IsDatabase(dialect, was)
  BY <1>1, <1>3, <1>6, <1>7 DEF IsDatabase, IsSchema
<1> QED
  BY <1>3, <1>6, <1>7, <1>8

LEMMA KeyEffect ==
    ASSUME NEW new, IsRecorded(dialect, new), NEW x \in DOMAIN new.keys, NEW s,
           s.op = "key", s.obj = <<"keys", x[1], x[2]>>, s.text = new.keys[x],
           NEW db, IsDatabase(dialect, db), Applies(s, db)
    PROVE  LET was == Applied(dialect, s, db) IN
           /\ DOMAIN was = Kinds /\ was.tables = db.tables
           /\ was.columns = db.columns /\ was.indexes = db.indexes
           /\ DOMAIN was.keys = DOMAIN db.keys \cup {x}
           /\ IsDatabase(dialect, was)
<1> DEFINE was == Applied(dialect, s, db)
<1>1. x = <<x[1], x[2]>> /\ x[1] \in Table /\ x[2] \in Key
  BY DEF IsRecorded, IsSchema
<1>2. s.obj[2] = x[1] /\ s.obj[3] = x[2]
  OBVIOUS
<1>3. x[1] \in DOMAIN db.tables /\ new.keys[x] \in DOMAIN db.tables
  BY <1>1, <1>2 DEF Applies
<1>4. was = [db EXCEPT !.keys = Put(db.keys, x, new.keys[x])]
  BY <1>1, <1>2 DEF Applied
<1>5. DOMAIN db = Kinds /\ "keys" \in Kinds
  BY DEF IsDatabase, IsSchema, Kinds
<1>6. /\ DOMAIN was = Kinds /\ was.tables = db.tables
      /\ was.columns = db.columns /\ was.indexes = db.indexes
      /\ was.keys = Put(db.keys, x, new.keys[x])
  BY <1>4, <1>5
<1>7. /\ DOMAIN was.keys = DOMAIN db.keys \cup {x}
      /\ \A y \in DOMAIN was.keys : was.keys[y] = IF y = x THEN new.keys[x] ELSE db.keys[y]
  BY <1>6 DEF Put
<1>8. IsDatabase(dialect, was)
  BY <1>1, <1>3, <1>6, <1>7 DEF IsDatabase, IsSchema
<1> QED
  BY <1>6, <1>7, <1>8

LEMMA OptionEffect ==
    ASSUME NEW new, IsRecorded(dialect, new), NEW t \in DOMAIN new.tables, NEW s,
           s.op = "collation", s.obj = <<"options", t, 0>>, s.text = new.tables[t],
           NEW db, IsDatabase(dialect, db), Applies(s, db)
    PROVE  LET was == Applied(dialect, s, db) IN
           /\ DOMAIN was = Kinds /\ DOMAIN was.tables = DOMAIN db.tables
           /\ \A u \in DOMAIN db.tables \ {t} : was.tables[u] = db.tables[u]
           /\ was.columns = db.columns /\ was.indexes = db.indexes /\ was.keys = db.keys
           /\ IsDatabase(dialect, was)
<1> DEFINE was == Applied(dialect, s, db)
<1>1. was = [db EXCEPT !.tables[t] = new.tables[t]]
  BY DEF Applied
<1>2. DOMAIN db = Kinds /\ "tables" \in Kinds
  BY DEF IsDatabase, IsSchema, Kinds
<1>3. /\ DOMAIN was = Kinds /\ was.tables = [db.tables EXCEPT ![t] = new.tables[t]]
      /\ was.columns = db.columns /\ was.indexes = db.indexes /\ was.keys = db.keys
  BY <1>1, <1>2
<1>4. new.tables[t] \in Collations
  BY DEF IsRecorded
<1>5. IsDatabase(dialect, was)
  BY <1>3, <1>4 DEF IsDatabase, IsSchema
<1> QED
  BY <1>3, <1>5

\* Which statement has which operation.
LEMMA MeantOp ==
    ASSUME NEW old, NEW new, NEW s, Meant(dialect, old, new, s)
    PROVE  /\ s.op \in {"create", "add", "modify", "index", "key", "collation"}
           /\ s.op = "create" => IsCreate(dialect, old, new, s)
           /\ s.op = "add" => IsAdd(dialect, old, new, s)
           /\ s.op = "modify" => IsModify(dialect, old, new, s)
           /\ s.op = "index" => IsIndex(dialect, old, new, s)
           /\ s.op = "key" => IsKey(dialect, old, new, s)
           /\ s.op = "collation" => IsOption(dialect, old, new, s)
<1>1. IsCreate(dialect, old, new, s) => s.op = "create"
  BY DEF IsCreate, CreateTable, Statement
<1>2. IsAdd(dialect, old, new, s) => s.op = "add"
  BY DEF IsAdd, Statement
<1>3. IsModify(dialect, old, new, s) => s.op = "modify"
  BY DEF IsModify, Statement
<1>4. IsIndex(dialect, old, new, s) => s.op = "index"
  BY DEF IsIndex, Statement
<1>5. IsKey(dialect, old, new, s) => s.op = "key"
  BY DEF IsKey, Statement
<1>6. IsOption(dialect, old, new, s) => s.op = "collation"
  BY DEF IsOption, Statement
<1> QED
  BY <1>1, <1>2, <1>3, <1>4, <1>5, <1>6 DEF Meant

\* What is in a table that is new, or is itself new or changed, has a statement.
LEMMA DiffTables ==
    ASSUME NEW old, NEW new, IsRecorded(dialect, new),
           NEW t \in DOMAIN new.tables \ DOMAIN old.tables
    PROVE  \E s \in Diff(dialect, old, new).statements : s.op = "create" /\ s.obj[2] = t
<1>1. CreateTable(dialect, new, t) \in Diff(dialect, old, new).statements
  BY DEF Diff, TableStatements
<1>2. CreateTable(dialect, new, t).op = "create" /\ CreateTable(dialect, new, t).obj[2] = t
  BY CreateFields
<1> QED
  BY <1>1, <1>2

LEMMA DiffColumns ==
    ASSUME NEW old, NEW new, NEW x \in DOMAIN new.columns, x[1] \in Both(old, new)
    PROVE  \/ x \in DOMAIN old.columns /\ old.columns[x] = new.columns[x]
           \/ \E s \in Diff(dialect, old, new).statements : s.obj = <<"columns", x[1], x[2]>>
<1>1. ColumnStatements(dialect, old, new) \subseteq Diff(dialect, old, new).statements
  BY DEF Diff
<1>2. CASE x \notin DOMAIN old.columns
  <2> DEFINE s == Statement(1, 2, "add", <<"columns", x[1], x[2]>>, Definition(dialect, new, x))
  <2>1. s \in Diff(dialect, old, new).statements
    BY <1>1, <1>2 DEF ColumnStatements
  <2>2. s.obj = <<"columns", x[1], x[2]>>
    BY DEF Statement
  <2> QED
    BY <2>1, <2>2
<1>3. CASE x \in DOMAIN old.columns /\ old.columns[x] # new.columns[x]
  <2> DEFINE s == Statement(IF Reviewed(dialect, old.columns[x], new.columns[x]) THEN 2 ELSE 1,
                            2, "modify", <<"columns", x[1], x[2]>>, Definition(dialect, new, x))
  <2>1. s \in Diff(dialect, old, new).statements
    BY <1>1, <1>3 DEF ColumnStatements
  <2>2. s.obj = <<"columns", x[1], x[2]>>
    BY DEF Statement
  <2> QED
    BY <2>1, <2>2
<1> QED
  BY <1>2, <1>3

LEMMA DiffIndexes ==
    ASSUME NEW old, NEW new, NEW x \in DOMAIN new.indexes, x \notin DOMAIN old.indexes,
           x[1] \in Both(old, new)
    PROVE  \E s \in Diff(dialect, old, new).statements : s.obj = <<"indexes", x[1], x[2]>>
<1> DEFINE s == Statement(1, 3, "index", <<"indexes", x[1], x[2]>>, new.indexes[x])
<1>1. s \in Diff(dialect, old, new).statements
  BY DEF Diff, IndexStatements
<1>2. s.obj = <<"indexes", x[1], x[2]>>
  BY DEF Statement
<1> QED
  BY <1>1, <1>2

LEMMA DiffNewIndexes ==
    ASSUME NEW old, NEW new, NEW x \in DOMAIN new.indexes, dialect # "mysql",
           x[1] \in DOMAIN new.tables \ DOMAIN old.tables
    PROVE  \E s \in Diff(dialect, old, new).statements :
               s.op = "index" /\ s.obj = <<"indexes", x[1], x[2]>>
<1> DEFINE s == Statement(1, 1, "index", <<"indexes", x[1], x[2]>>, new.indexes[x])
<1>1. s \in Diff(dialect, old, new).statements
  BY DEF Diff, TableStatements
<1>2. s.op = "index" /\ s.obj = <<"indexes", x[1], x[2]>>
  BY DEF Statement
<1> QED
  BY <1>1, <1>2

LEMMA DiffKeys ==
    ASSUME NEW old, NEW new, NEW x \in DOMAIN new.keys, x \notin DOMAIN old.keys,
           x[1] \in Both(old, new)
    PROVE  \E s \in Diff(dialect, old, new).statements : s.obj = <<"keys", x[1], x[2]>>
<1> DEFINE s == Statement(2, 4, "key", <<"keys", x[1], x[2]>>, new.keys[x])
<1>1. s \in Diff(dialect, old, new).statements
  BY DEF Diff, KeyStatements
<1>2. s.obj = <<"keys", x[1], x[2]>>
  BY DEF Statement
<1> QED
  BY <1>1, <1>2

\* A table whose default collation differs gets a statement, and no other does.
LEMMA DiffOptions ==
    ASSUME NEW old, NEW new
    PROVE  /\ \A t \in Both(old, new) : old.tables[t] # new.tables[t] =>
                t \in {s.obj[2] : s \in OptionStatements(old, new)}
           /\ \A s : Meant(dialect, old, new, s) /\ s.op = "collation" =>
                s.obj[2] \in {u.obj[2] : u \in OptionStatements(old, new)}
<1>1. ASSUME NEW t \in Both(old, new), old.tables[t] # new.tables[t]
      PROVE  t \in {s.obj[2] : s \in OptionStatements(old, new)}
  <2> DEFINE u == Statement(1, 5, "collation", <<"options", t, 0>>, new.tables[t])
  <2>1. u \in OptionStatements(old, new)
    BY <1>1 DEF OptionStatements
  <2>2. u.obj[2] = t
    BY DEF Statement
  <2> QED
    BY <2>1, <2>2
<1>2. ASSUME NEW s, Meant(dialect, old, new, s), s.op = "collation"
      PROVE  s.obj[2] \in {u.obj[2] : u \in OptionStatements(old, new)}
  <2>1. PICK t \in Both(old, new) :
          /\ old.tables[t] # new.tables[t]
          /\ s = Statement(1, 5, "collation", <<"options", t, 0>>, new.tables[t])
    BY <1>2, MeantOp DEF IsOption
  <2>2. s.obj[2] = t
    BY <2>1 DEF Statement
  <2> QED
    BY <2>1, <2>2, <1>1
<1> QED
  BY <1>1, <1>2

\* What there is in a whole database is of a table it has.
LEMMA OfTables ==
    ASSUME NEW db, IsDatabase(dialect, db), NEW k \in Kinds \ {"tables"}, NEW x \in DOMAIN db[k]
    PROVE  x[1] \in DOMAIN db.tables
<1>1. CASE k = "columns"
  BY <1>1 DEF IsDatabase
<1>2. CASE k = "indexes"
  <2>1. <<x[1], db.indexes[x]>> \in DOMAIN db.columns
    BY <1>2 DEF IsDatabase
  <2>2. <<x[1], db.indexes[x]>>[1] \in DOMAIN db.tables
    BY <2>1 DEF IsDatabase
  <2> QED
    BY <2>2
<1>3. CASE k = "keys"
  BY <1>3 DEF IsDatabase
<1> QED
  BY <1>1, <1>2, <1>3 DEF Kinds

-----------------------------------------------------------------------------
(* The invariants.                                                         *)

JobOK ==
    /\ DOMAIN job = {"query", "keep", "got"}
    /\ IsRecorded(dialect, job.got)
    /\ job # NoJob => pending = {}

TypeInv ==
    /\ dialect \in Dialects
    /\ IsDatabase(dialect, live) /\ IsDatabase(dialect, target)
    /\ IsRecorded(dialect, snapshot) /\ JobOK
    /\ pending \subseteq script /\ done \subseteq script

\* A statement that has not taken effect yet is still to come, and will see to
\* object x.
Waits(kind, x) ==
    \E s \in pending \ done :
        \/ s.obj = <<kind, x[1], x[2]>>
        \/ s.op = "create" /\ s.obj[2] = x[1] /\ (kind = "columns" \/ dialect = "mysql")

HasColumn(x) ==
    /\ x \in DOMAIN target.columns
    /\ target.columns[x].type = snapshot.columns[x].type
    /\ dialect = "mysql" => target.columns[x].default = snapshot.columns[x].default
    /\ dialect = "mysql" /\ x[1] \notin unsteady =>
          target.columns[x].collation = snapshot.columns[x].collation

HasIndex(x) == x \in DOMAIN target.indexes /\ target.indexes[x] = snapshot.indexes[x]

ColumnsInv ==
    \A x \in DOMAIN snapshot.columns :
        x[1] \in DOMAIN snapshot.tables /\ ~ Behind("columns", x) =>
            HasColumn(x) \/ Waits("columns", x)

IndexesInv ==
    \A x \in DOMAIN snapshot.indexes :
        x[1] \in DOMAIN snapshot.tables /\ ~ Behind("indexes", x) =>
            HasIndex(x) \/ Waits("indexes", x)

KeysInv ==
    dialect = "mysql" =>
        \A x \in DOMAIN snapshot.keys :
            x[1] \in DOMAIN snapshot.tables /\ ~ Behind("keys", x) =>
                x \in DOMAIN target.keys \/ Waits("keys", x)

\* So it is with a table and its default collation, which columns inherit.
TablesInv ==
    \A t \in DOMAIN snapshot.tables :
        t \notin unsteady /\ <<"tables", t, 0>> \notin behind =>
            \/ t \in DOMAIN target.tables /\ target.tables[t] = snapshot.tables[t]
            \/ \E s \in pending \ done : s.op = "create" /\ s.obj[2] = t

\* In PostgreSQL a new table's indexes come after the table.
Follow(Q) ==
    dialect # "mysql" =>
        \A s \in Q, x \in DOMAIN snapshot.indexes :
            s.op = "create" /\ s.obj[2] = x[1] =>
                \E u \in Q : u.op = "index" /\ u.obj = <<"indexes", x[1], x[2]>>

FollowInv ==
    /\ Follow(script) /\ Follow(pending)
    /\ \A u \in done : u.op = "index" => <<u.obj[2], u.obj[3]>> \in DOMAIN target.indexes

\* What is only in the target has been reported.
ReportedInv ==
    /\ ExtrasReported
    /\ \A t \in DOMAIN target.tables \ DOMAIN snapshot.tables : <<"tables", t, 0>> \in reported

\* The statements are for the way from some schema to the snapshot.  A column
\* that one of them is still to modify has the type it had there.
ScriptOK(old) ==
    /\ IsRecorded(dialect, old)
    /\ \A s \in script : Meant(dialect, old, snapshot, s)
    /\ \A s \in script : s.op = "collation" => s.obj[2] \in unsteady
    /\ \A s \in script \ done :
         LET x == <<s.obj[2], s.obj[3]>>
         IN  s.op = "modify" /\ ~ Behind("columns", x) /\ x \in DOMAIN target.columns
                => target.columns[x].type = old.columns[x].type

ScriptInv == \E old : ScriptOK(old)

-----------------------------------------------------------------------------
(* Types.                                                                  *)

LEMMA RunWhole ==
    ASSUME NEW old, NEW new, IsRecorded(dialect, new), dialect \in Dialects,
           NEW s, Meant(dialect, old, new, s),
           NEW db, IsDatabase(dialect, db), Applies(s, db)
    PROVE  IsDatabase(dialect, Applied(dialect, s, db))
<1>1. CASE IsCreate(dialect, old, new, s)
  BY <1>1, CreateWhole DEF IsCreate
<1>2. CASE IsAdd(dialect, old, new, s)
  BY <1>2, ColumnEffect DEF IsAdd, Statement
<1>3. CASE IsModify(dialect, old, new, s)
  BY <1>3, ColumnEffect DEF IsModify, Statement
<1>4. CASE IsIndex(dialect, old, new, s)
  BY <1>4, IndexEffect DEF IsIndex, Statement
<1>5. CASE IsKey(dialect, old, new, s)
  BY <1>5, KeyEffect DEF IsKey, Statement
<1>6. CASE IsOption(dialect, old, new, s)
  BY <1>6, OptionEffect DEF IsOption, Statement, Both
<1> QED
  BY <1>1, <1>2, <1>3, <1>4, <1>5, <1>6 DEF Meant

LEMMA EmptyRecorded ==
    /\ IsRecorded(dialect, NoSchema) /\ DOMAIN NoSchema = Kinds
    /\ \A k \in Kinds : DOMAIN NoSchema[k] = {}
  BY DEF IsRecorded, IsSchema, NoSchema, Empty, Kinds

\* What the queries return of a whole database.
LEMMA OfAskedFields ==
    ASSUME NEW f
    PROVE  /\ DOMAIN OfAsked(f) \subseteq DOMAIN f
           /\ \A x \in DOMAIN OfAsked(f) : OfAsked(f)[x] = f[x]
  BY DEF OfAsked

LEMMA ColumnsRead ==
    ASSUME IsDatabase(dialect, live), NEW got, IsRecorded(dialect, got)
    PROVE  IsRecorded(dialect, [got EXCEPT !.columns = OfAsked(Columns)])
<1> DEFINE new == [got EXCEPT !.columns = OfAsked(Columns)]
<1>1. DOMAIN Columns = DOMAIN live.columns
  BY DEF Columns
<1>2. \A x \in DOMAIN live.columns :
        /\ Columns[x].type \in Types[dialect] /\ Columns[x].default \in Defaults
        /\ Columns[x].collation \in Collations
  BY DEF Columns, IsDatabase, DetailOf
<1>3. /\ DOMAIN new = Kinds /\ new.columns = OfAsked(Columns)
      /\ new.tables = got.tables /\ new.indexes = got.indexes /\ new.keys = got.keys
  BY DEF IsRecorded, IsSchema, Kinds
<1>4. DOMAIN OfAsked(Columns) \subseteq DOMAIN live.columns
      /\ \A x \in DOMAIN OfAsked(Columns) : OfAsked(Columns)[x] = Columns[x]
  BY <1>1, OfAskedFields
<1>5. DOMAIN live.columns \subseteq Table \X Column
  BY DEF IsDatabase, IsSchema
<1>6. IsSchema(new)
  BY <1>3, <1>4, <1>5 DEF IsRecorded, IsSchema
<1>7. \A x \in DOMAIN new.columns :
        /\ new.columns[x].type \in Types[dialect] /\ new.columns[x].default \in Defaults
        /\ new.columns[x].collation \in Collations
  BY <1>2, <1>3, <1>4
<1> QED
  BY <1>3, <1>6, <1>7 DEF IsRecorded

LEMMA NamesRead ==
    ASSUME IsDatabase(dialect, live), NEW got, IsRecorded(dialect, got)
    PROVE  /\ IsRecorded(dialect, [got EXCEPT !.indexes = OfAsked(live.indexes)])
           /\ IsRecorded(dialect, [got EXCEPT !.keys = OfAsked(live.keys)])
<1>1. /\ DOMAIN OfAsked(live.indexes) \subseteq Table \X Index
      /\ DOMAIN OfAsked(live.keys) \subseteq Table \X Key
  BY OfAskedFields DEF IsDatabase, IsSchema
<1> QED
  BY <1>1 DEF IsRecorded, IsSchema, Kinds

LEMMA TablesRead ==
    ASSUME IsDatabase(dialect, live), NEW keep
    PROVE  IsRecorded(dialect,
               [NoSchema EXCEPT !.tables = Restrict(live.tables, DOMAIN live.tables \cap keep)])
<1> DEFINE f == Restrict(live.tables, DOMAIN live.tables \cap keep)
           new == [NoSchema EXCEPT !.tables = f]
<1>1. DOMAIN f \subseteq DOMAIN live.tables /\ \A t \in DOMAIN f : f[t] = live.tables[t]
  BY DEF Restrict
<1>2. /\ DOMAIN new = Kinds /\ new.tables = f
      /\ DOMAIN new.columns = {} /\ DOMAIN new.indexes = {} /\ DOMAIN new.keys = {}
  BY EmptyRecorded DEF Kinds
<1>3. DOMAIN live.tables \subseteq Table /\ \A t \in DOMAIN live.tables : live.tables[t] \in Collations
  BY DEF IsDatabase, IsSchema
<1> QED
  BY <1>1, <1>2, <1>3 DEF IsRecorded, IsSchema

LEMMA WholeRecorded ==
    ASSUME IsDatabase(dialect, live)
    PROVE  /\ IsRecorded(dialect, live)
           /\ IsRecorded(dialect, [live EXCEPT !.columns = Columns])
<1>1. IsRecorded(dialect, live)
  BY DEF IsRecorded, IsDatabase, DetailOf
<1>2. DOMAIN Columns = DOMAIN live.columns
  BY DEF Columns
<1>3. \A x \in DOMAIN live.columns :
        /\ Columns[x].type \in Types[dialect] /\ Columns[x].default \in Defaults
        /\ Columns[x].collation \in Collations
  BY DEF Columns, IsDatabase, DetailOf
<1> DEFINE new == [live EXCEPT !.columns = Columns]
<1>4. /\ DOMAIN new = Kinds /\ new.columns = Columns
      /\ new.tables = live.tables /\ new.indexes = live.indexes /\ new.keys = live.keys
  BY DEF IsDatabase, IsSchema, Kinds
<1>5. IsRecorded(dialect, new)
  BY <1>1, <1>2, <1>3, <1>4 DEF IsRecorded, IsSchema
<1> QED
  BY <1>1, <1>5

LEMMA TypeNext ==
    ASSUME TypeInv, ScriptInv, Next
    PROVE  TypeInv'
<1>1. CASE Alter
  <2>1. IsDatabase(dialect, live')
    BY <1>1, AlteredWhole DEF Alter, TypeInv
  <2> QED
    BY <1>1, <2>1 DEF Alter, TypeInv, JobOK, scriptVars
<1>2. CASE \E keep \in Keeps : ReadTables(keep)
  <2>1. PICK keep \in Keeps : ReadTables(keep)
    BY <1>2
  <2>2. DOMAIN job' = {"query", "keep", "got"} /\ IsRecorded(dialect, job'.got)
    BY <2>1, TablesRead DEF ReadTables, TypeInv
  <2> QED
    BY <2>1, <2>2 DEF ReadTables, TypeInv, JobOK, scriptVars
<1>3. CASE ReadColumns
  <2>1. job'.got = [job.got EXCEPT !.columns = OfAsked(Columns)]
        /\ DOMAIN job' = {"query", "keep", "got"}
    BY <1>3 DEF ReadColumns, TypeInv, JobOK, IsRecorded, IsSchema, Kinds
  <2>2. job # NoJob
    BY <1>3 DEF ReadColumns, NoJob
  <2> QED
    BY <1>3, <2>1, <2>2, ColumnsRead DEF ReadColumns, TypeInv, JobOK, scriptVars
<1>4. CASE ReadIndexes
  <2>1. job'.got = [job.got EXCEPT !.indexes = OfAsked(live.indexes)]
        /\ DOMAIN job' = {"query", "keep", "got"}
    BY <1>4 DEF ReadIndexes, TypeInv, JobOK, IsRecorded, IsSchema, Kinds
  <2>2. job # NoJob
    BY <1>4 DEF ReadIndexes, NoJob
  <2> QED
    BY <1>4, <2>1, <2>2, NamesRead DEF ReadIndexes, TypeInv, JobOK, scriptVars
<1>5. CASE Finish
  <2>1. IsRecorded(dialect, snapshot')
    BY <1>5, NamesRead DEF Finish, TypeInv, JobOK
  <2>2. pending' = script' /\ done' = {} /\ job' = NoJob
        /\ UNCHANGED <<dialect, live, target>>
    BY <1>5 DEF Finish
  <2> QED
    BY <2>1, <2>2, EmptyRecorded DEF TypeInv, JobOK, NoJob
<1>6. CASE Abandon
  BY <1>6, EmptyRecorded DEF Abandon, TypeInv, JobOK, NoJob, scriptVars
<1>7. CASE \E s \in pending : Run(s)
  <2>1. PICK s \in pending : Run(s)
    BY <1>7
  <2>2. PICK old : ScriptOK(old)
    BY DEF ScriptInv
  <2>3. s \in script /\ Meant(dialect, old, snapshot, s)
    BY <2>2 DEF ScriptOK, TypeInv
  <2>4. IsDatabase(dialect, target')
    BY <2>1, <2>3, RunWhole DEF Run, TypeInv
  <2>5. job = NoJob
    BY <2>1 DEF TypeInv, JobOK
  <2> QED
    BY <2>1, <2>3, <2>4, <2>5 DEF Run, TypeInv, JobOK
<1>8. CASE \E s \in pending : Skip(s)
  BY <1>8 DEF Skip, Least, TypeInv, JobOK
<1>9. CASE Rerun
  BY <1>9 DEF Rerun, TypeInv, JobOK
<1> QED
  BY <1>1, <1>2, <1>3, <1>4, <1>5, <1>6, <1>7, <1>8, <1>9 DEF Next

-----------------------------------------------------------------------------
(* What the steps of a round leave of what holds of objects.               *)

\* What a statement is about.
LEMMA CreateObject ==
    ASSUME NEW old, NEW new, IsRecorded(dialect, new), NEW s, Meant(dialect, old, new, s),
           s.op = "create"
    PROVE  /\ s.obj = <<"tables", s.obj[2], 0>> /\ s.order = <<1, 1, s.obj[2], 0>>
           /\ s.obj[2] \in DOMAIN new.tables \ DOMAIN old.tables
           /\ s = CreateTable(dialect, new, s.obj[2])
<1>1. PICK u \in DOMAIN new.tables \ DOMAIN old.tables : s = CreateTable(dialect, new, u)
  BY MeantOp DEF IsCreate
<1>2. s.obj = <<"tables", u, 0>> /\ s.order = <<1, 1, u, 0>>
  BY <1>1, CreateFields
<1> QED
  BY <1>1, <1>2

LEMMA ColumnObject ==
    ASSUME NEW old, NEW new, IsRecorded(dialect, new), NEW s, Meant(dialect, old, new, s),
           s.op \in {"add", "modify"}
    PROVE  LET x == <<s.obj[2], s.obj[3]>> IN
           /\ s.obj = <<"columns", s.obj[2], s.obj[3]>> /\ x \in DOMAIN new.columns
           /\ s.obj[2] \in Both(old, new) /\ s.text = Definition(dialect, new, x)
           /\ s.op = "add" => x \notin DOMAIN old.columns
           /\ s.op = "modify" =>
                /\ x \in DOMAIN old.columns
                /\ s.file = IF Reviewed(dialect, old.columns[x], new.columns[x]) THEN 2 ELSE 1
<1> DEFINE x == <<s.obj[2], s.obj[3]>>
<1>1. \A y \in DOMAIN new.columns : y = <<y[1], y[2]>>
  BY DEF IsRecorded, IsSchema
<1>2. CASE s.op = "add"
  <2>1. PICK y \in DOMAIN new.columns \ DOMAIN old.columns :
          /\ y[1] \in Both(old, new)
          /\ s = Statement(1, 2, "add", <<"columns", y[1], y[2]>>, Definition(dialect, new, y))
    BY <1>2, MeantOp DEF IsAdd
  <2>2. s.obj = <<"columns", y[1], y[2]>> /\ s.text = Definition(dialect, new, y)
    BY <2>1 DEF Statement
  <2>3. x = y
    BY <2>1, <2>2, <1>1
  <2> QED
    BY <1>2, <2>1, <2>2, <2>3
<1>3. CASE s.op = "modify"
  <2>1. PICK y \in DOMAIN new.columns \cap DOMAIN old.columns :
          /\ y[1] \in Both(old, new)
          /\ s = Statement(IF Reviewed(dialect, old.columns[y], new.columns[y]) THEN 2 ELSE 1, 2,
                           "modify", <<"columns", y[1], y[2]>>, Definition(dialect, new, y))
    BY <1>3, MeantOp DEF IsModify
  <2>2. /\ s.obj = <<"columns", y[1], y[2]>> /\ s.text = Definition(dialect, new, y)
        /\ s.file = IF Reviewed(dialect, old.columns[y], new.columns[y]) THEN 2 ELSE 1
    BY <2>1 DEF Statement
  <2>3. x = y
    BY <2>1, <2>2, <1>1
  <2> QED
    BY <1>3, <2>1, <2>2, <2>3
<1> QED
  BY <1>2, <1>3

LEMMA IndexObject ==
    ASSUME NEW old, NEW new, IsRecorded(dialect, new), NEW s, Meant(dialect, old, new, s),
           s.op = "index"
    PROVE  LET x == <<s.obj[2], s.obj[3]>> IN
           /\ s.obj = <<"indexes", s.obj[2], s.obj[3]>> /\ x \in DOMAIN new.indexes
           /\ s.text = new.indexes[x]
           /\ s.order \in {<<1, 1, s.obj[2], s.obj[3]>>, <<1, 3, s.obj[2], s.obj[3]>>}
<1>1. \A y \in DOMAIN new.indexes : y = <<y[1], y[2]>>
  BY DEF IsRecorded, IsSchema
<1>2. PICK y \in DOMAIN new.indexes, n \in {1, 3} :
        s = Statement(1, n, "index", <<"indexes", y[1], y[2]>>, new.indexes[y])
  BY MeantOp DEF IsIndex
<1>3. /\ s.obj = <<"indexes", y[1], y[2]>> /\ s.text = new.indexes[y]
      /\ s.order = <<1, n, y[1], y[2]>>
  BY <1>2 DEF Statement
<1>4. <<s.obj[2], s.obj[3]>> = y
  BY <1>1, <1>3
<1> QED
  BY <1>3, <1>4

LEMMA KeyObject ==
    ASSUME NEW old, NEW new, IsRecorded(dialect, new), NEW s, Meant(dialect, old, new, s),
           s.op = "key"
    PROVE  LET x == <<s.obj[2], s.obj[3]>> IN
           /\ s.obj = <<"keys", s.obj[2], s.obj[3]>> /\ x \in DOMAIN new.keys
           /\ s.text = new.keys[x]
<1>1. \A y \in DOMAIN new.keys : y = <<y[1], y[2]>>
  BY DEF IsRecorded, IsSchema
<1>2. PICK y \in DOMAIN new.keys :
        s = Statement(2, 4, "key", <<"keys", y[1], y[2]>>, new.keys[y])
  BY MeantOp DEF IsKey
<1>3. s.obj = <<"keys", y[1], y[2]>> /\ s.text = new.keys[y]
  BY <1>2 DEF Statement
<1>4. <<s.obj[2], s.obj[3]>> = y
  BY <1>1, <1>3
<1> QED
  BY <1>3, <1>4

LEMMA OptionObject ==
    ASSUME NEW old, NEW new, NEW s, Meant(dialect, old, new, s), s.op = "collation"
    PROVE  /\ s.obj = <<"options", s.obj[2], 0>> /\ s.obj[2] \in Both(old, new)
           /\ s.text = new.tables[s.obj[2]]
<1>1. PICK u \in Both(old, new) :
        s = Statement(1, 5, "collation", <<"options", u, 0>>, new.tables[u])
  BY MeantOp DEF IsOption
<1>2. s.obj = <<"options", u, 0>> /\ s.text = new.tables[u]
  BY <1>1 DEF Statement
<1> QED
  BY <1>1, <1>2

ObjectsInv == ColumnsInv /\ IndexesInv /\ KeysInv /\ TablesInv

StoryInv == ObjectsInv /\ FollowInv /\ ReportedInv /\ ScriptInv

\* A step that leaves all of it.
LEMMA QuietStep ==
    ASSUME StoryInv, UNCHANGED <<dialect, target, snapshot, scriptVars, historyVars>>
    PROVE  StoryInv'
<1>1. UNCHANGED <<dialect, target, snapshot, script, pending, done, behind, reported, unsteady>>
  BY DEF scriptVars, historyVars
<1>2. ObjectsInv'
  <2>1. ColumnsInv'
    BY <1>1 DEF StoryInv, ObjectsInv, ColumnsInv, HasColumn, Waits, Behind
  <2>2. IndexesInv'
    BY <1>1 DEF StoryInv, ObjectsInv, IndexesInv, HasIndex, Waits, Behind
  <2>3. KeysInv'
    BY <1>1 DEF StoryInv, ObjectsInv, KeysInv, Waits, Behind
  <2>4. TablesInv'
    BY <1>1 DEF StoryInv, ObjectsInv, TablesInv
  <2> QED
    BY <2>1, <2>2, <2>3, <2>4 DEF ObjectsInv
<1>3. FollowInv' /\ ReportedInv'
  BY <1>1 DEF StoryInv, FollowInv, Follow, ReportedInv, ExtrasReported
<1>4. ScriptInv'
  BY <1>1 DEF StoryInv, ScriptInv, ScriptOK, Behind
<1> QED
  BY <1>2, <1>3, <1>4 DEF StoryInv

LEMMA RerunStep ==
    ASSUME TypeInv, StoryInv, Rerun
    PROVE  StoryInv'
<1>1. /\ UNCHANGED <<dialect, target, snapshot, script, done, behind, reported, unsteady>>
      /\ pending' = script /\ pending \subseteq script
  BY DEF Rerun, TypeInv, historyVars
<1>2. \A kind, x : Waits(kind, x) => Waits(kind, x)'
  BY <1>1 DEF Waits
<1>3. ColumnsInv'
  BY <1>1, <1>2 DEF StoryInv, ObjectsInv, ColumnsInv, HasColumn, Behind
<1>4. IndexesInv'
  BY <1>1, <1>2 DEF StoryInv, ObjectsInv, IndexesInv, HasIndex, Behind
<1>5. KeysInv'
  BY <1>1, <1>2 DEF StoryInv, ObjectsInv, KeysInv, Behind
<1>6. TablesInv'
  BY <1>1 DEF StoryInv, ObjectsInv, TablesInv
<1>7. FollowInv' /\ ReportedInv'
  BY <1>1 DEF StoryInv, FollowInv, Follow, ReportedInv, ExtrasReported
<1>8. ScriptInv'
  BY <1>1 DEF StoryInv, ScriptInv, ScriptOK, Behind
<1> QED
  BY <1>3, <1>4, <1>5, <1>6, <1>7, <1>8 DEF StoryInv, ObjectsInv

\* A table's statement comes before those of its indexes.
LEMMA TableFirst ==
    ASSUME NEW t \in Nat, NEW i \in Nat \ {0}, NEW a, NEW b,
           a.order \in {<<1, 1, t, i>>, <<1, 3, t, i>>}, b.order = <<1, 1, t, 0>>
    PROVE  ~ Before(a, b)
<1>1. SUFFICES ASSUME NEW j \in 1 .. 4, a.order[j] < b.order[j] PROVE FALSE
  BY DEF Before
<1>2. /\ b.order[1] = 1 /\ b.order[2] = 1 /\ b.order[3] = t /\ b.order[4] = 0
      /\ a.order[1] = 1 /\ a.order[2] \in {1, 3} /\ a.order[3] = t /\ a.order[4] = i
  OBVIOUS
<1>3. j = 1 \/ j = 2 \/ j = 3 \/ j = 4
  OBVIOUS
<1> QED
  BY <1>1, <1>2, <1>3

\* So an index's statement is not the next while its table's is to come.
LEMMA IndexWaits ==
    ASSUME NEW old, IsRecorded(dialect, snapshot), NEW s, Least(s),
           Meant(dialect, old, snapshot, s), s.op = "index",
           NEW c \in pending, Meant(dialect, old, snapshot, c), c.op = "create",
           c.obj[2] = s.obj[2]
    PROVE  FALSE
<1> DEFINE x == <<s.obj[2], s.obj[3]>>
<1>1. /\ x \in DOMAIN snapshot.indexes
      /\ s.order \in {<<1, 1, x[1], x[2]>>, <<1, 3, x[1], x[2]>>}
  BY IndexObject
<1>2. c.order = <<1, 1, x[1], 0>>
  BY CreateObject
<1>3. x[1] \in Nat /\ x[2] \in Nat \ {0}
  BY <1>1, SchemaAssumption DEF IsRecorded, IsSchema
<1>4. ~ Before(s, c)
  BY <1>1, <1>2, <1>3, TableFirst
<1> QED
  BY <1>4 DEF Least

\* No two statements are about one column.
LEMMA OneAColumn ==
    ASSUME NEW old, NEW new, IsRecorded(dialect, new),
           NEW s, Meant(dialect, old, new, s), s.op = "modify",
           NEW u, Meant(dialect, old, new, u),
           \/ u.obj = s.obj
           \/ u.op = "create" /\ u.obj[2] = s.obj[2]
    PROVE  u = s
<1> DEFINE x == <<s.obj[2], s.obj[3]>>
<1>1. /\ s.obj = <<"columns", x[1], x[2]>> /\ x \in DOMAIN old.columns
      /\ s.obj[2] \in Both(old, new)
  BY ColumnObject
<1>2. u.op # "create" /\ u.obj = s.obj
  BY <1>1, CreateObject DEF Both
<1>3. u.obj[1] = "columns" /\ u.obj[2] = x[1] /\ u.obj[3] = x[2]
  BY <1>1, <1>2
<1>4. u.op \notin {"index", "key", "collation", "add"}
  <2>1. u.op = "add" => x \notin DOMAIN old.columns
    BY <1>3, ColumnObject
  <2>2. u.op = "index" => u.obj = <<"indexes", u.obj[2], u.obj[3]>>
    BY IndexObject
  <2>3. u.op = "key" => u.obj = <<"keys", u.obj[2], u.obj[3]>>
    BY KeyObject
  <2>4. u.op = "collation" => u.obj = <<"options", u.obj[2], 0>>
    BY OptionObject
  <2> QED
    BY <1>1, <1>3, <2>1, <2>2, <2>3, <2>4
<1>5. u.op = "modify"
  BY <1>2, <1>4, MeantOp
<1>6. \A y \in DOMAIN new.columns : y = <<y[1], y[2]>>
  BY DEF IsRecorded, IsSchema
<1>7. ASSUME NEW v, v.op = "modify", Meant(dialect, old, new, v), v.obj = s.obj
      PROVE  v = Statement(IF Reviewed(dialect, old.columns[x], new.columns[x]) THEN 2 ELSE 1,
                           2, "modify", <<"columns", x[1], x[2]>>, Definition(dialect, new, x))
  <2>1. PICK y \in DOMAIN new.columns \cap DOMAIN old.columns :
          v = Statement(IF Reviewed(dialect, old.columns[y], new.columns[y]) THEN 2 ELSE 1, 2,
                        "modify", <<"columns", y[1], y[2]>>, Definition(dialect, new, y))
    BY <1>7, MeantOp DEF IsModify
  <2>2. v.obj = <<"columns", y[1], y[2]>>
    BY <2>1 DEF Statement
  <2>3. x = y
    BY <2>2, <1>6, <1>7
  <2> QED
    BY <2>1, <2>3
<1> QED
  BY <1>2, <1>5, <1>7

LEMMA SkipStep ==
    ASSUME TypeInv, StoryInv, NEW s \in pending, Skip(s)
    PROVE  StoryInv'
<1>1. /\ UNCHANGED <<dialect, target, snapshot, script, done, reported, unsteady>>
      /\ pending' = pending \ {s} /\ Least(s) /\ pending \subseteq script
      /\ behind' = IF s \in done THEN behind ELSE behind \cup {s.obj}
  BY DEF Skip, TypeInv
<1>2. PICK old : ScriptOK(old)
  BY DEF StoryInv, ScriptInv
<1>3. IsRecorded(dialect, snapshot) /\ \A u \in script : Meant(dialect, old, snapshot, u)
  BY <1>2 DEF ScriptOK, TypeInv
<1>4. \A u \in script : u.op = "create" => u.obj = <<"tables", u.obj[2], 0>>
  BY <1>3, CreateObject
<1>5. \A kind, x : ~ Behind(kind, x)' => ~ Behind(kind, x)
  BY <1>1 DEF Behind
<1>6. ASSUME NEW kind, NEW x, Waits(kind, x), ~ Behind(kind, x)'
      PROVE  Waits(kind, x)'
  <2>1. PICK u \in pending \ done :
          \/ u.obj = <<kind, x[1], x[2]>>
          \/ u.op = "create" /\ u.obj[2] = x[1] /\ (kind = "columns" \/ dialect = "mysql")
    BY <1>6 DEF Waits
  <2>2. u.obj \in {<<kind, x[1], x[2]>>, <<"tables", x[1], 0>>}
    BY <2>1, <1>1, <1>4
  <2>3. u # s
    BY <2>1, <2>2, <1>1, <1>6 DEF Behind
  <2> QED
    BY <2>1, <2>3, <1>1 DEF Waits
<1>7. ColumnsInv'
  BY <1>1, <1>5, <1>6 DEF StoryInv, ObjectsInv, ColumnsInv, HasColumn
<1>8. IndexesInv'
  BY <1>1, <1>5, <1>6 DEF StoryInv, ObjectsInv, IndexesInv, HasIndex
<1>9. KeysInv'
  BY <1>1, <1>5, <1>6 DEF StoryInv, ObjectsInv, KeysInv
<1>10. TablesInv'
  <2>1. SUFFICES ASSUME NEW t \in DOMAIN snapshot.tables, t \notin unsteady,
                        <<"tables", t, 0>> \notin behind',
                        NEW u \in pending \ done, u.op = "create", u.obj[2] = t
                 PROVE  u # s
    BY <1>1 DEF StoryInv, ObjectsInv, TablesInv
  <2> QED
    BY <2>1, <1>1, <1>4
<1>11. FollowInv'
  <2>1. SUFFICES ASSUME NEW c \in pending', NEW x \in DOMAIN snapshot.indexes,
                        dialect # "mysql", c.op = "create", c.obj[2] = x[1]
                 PROVE  \E u \in pending' : u.op = "index" /\ u.obj = <<"indexes", x[1], x[2]>>
    BY <1>1 DEF StoryInv, FollowInv, Follow
  <2>2. PICK u \in pending : u.op = "index" /\ u.obj = <<"indexes", x[1], x[2]>>
    BY <2>1, <1>1 DEF StoryInv, FollowInv, Follow
  <2>3. u # s
    BY <2>1, <2>2, <1>1, <1>3, IndexWaits
  <2> QED
    BY <2>2, <2>3, <1>1
<1>12. ReportedInv'
  BY <1>1 DEF StoryInv, ReportedInv, ExtrasReported
<1>13. ScriptInv'
  BY <1>1, <1>2, <1>5 DEF ScriptInv, ScriptOK
<1> QED
  BY <1>7, <1>8, <1>9, <1>10, <1>11, <1>12, <1>13 DEF StoryInv, ObjectsInv

-----------------------------------------------------------------------------
(* A statement takes effect.                                               *)

\* What they have in common: an object on which the target is no longer
\* behind, and one that no longer waits, is what the statement settles.
LEMMA RunCommon ==
    ASSUME TypeInv, StoryInv, NEW old, ScriptOK(old), NEW s \in pending, Run(s)
    PROVE  /\ UNCHANGED <<dialect, snapshot, script, reported, unsteady>>
           /\ target' = Applied(dialect, s, target) /\ Applies(s, target)
           /\ pending' = pending \ {s} /\ done' = done \cup {s}
           /\ pending \subseteq script /\ s \in script
           /\ behind' = behind \ Settles(s)
           /\ IsRecorded(dialect, snapshot) /\ Meant(dialect, old, snapshot, s)
           /\ dialect \in Dialects
           /\ IsDatabase(dialect, target) /\ IsDatabase(dialect, target')
           /\ \A kind, x : Waits(kind, x) =>
                \/ Waits(kind, x)'
                \/ s.obj = <<kind, x[1], x[2]>>
                \/ s.op = "create" /\ s.obj[2] = x[1]
           /\ \A u : u \in pending \ done /\ u # s => u \in pending' \ done'
<1>1. /\ UNCHANGED <<dialect, snapshot, script, reported, unsteady>>
      /\ target' = Applied(dialect, s, target) /\ Applies(s, target)
      /\ pending' = pending \ {s} /\ done' = done \cup {s}
      /\ behind' = behind \ Settles(s)
  BY DEF Run
<1>2. /\ pending \subseteq script /\ s \in script
      /\ IsRecorded(dialect, snapshot) /\ Meant(dialect, old, snapshot, s)
      /\ dialect \in Dialects /\ IsDatabase(dialect, target)
  BY DEF TypeInv, ScriptOK
<1>3. IsDatabase(dialect, target')
  BY <1>1, <1>2, RunWhole
<1>4. \A u : u \in pending \ done /\ u # s => u \in pending' \ done'
  BY <1>1
<1>5. ASSUME NEW kind, NEW x, Waits(kind, x),
             s.obj # <<kind, x[1], x[2]>>, ~ (s.op = "create" /\ s.obj[2] = x[1])
      PROVE  Waits(kind, x)'
  <2>1. PICK u \in pending \ done :
          \/ u.obj = <<kind, x[1], x[2]>>
          \/ u.op = "create" /\ u.obj[2] = x[1] /\ (kind = "columns" \/ dialect = "mysql")
    BY <1>5 DEF Waits
  <2>2. u # s
    BY <2>1, <1>5
  <2> QED
    BY <2>1, <2>2, <1>1, <1>4 DEF Waits
<1> QED
  BY <1>1, <1>2, <1>3, <1>4, <1>5

\* The next statement of a table's or index's leaves PostgreSQL's order.
LEMMA RunFollows ==
    ASSUME TypeInv, StoryInv, NEW old, ScriptOK(old), NEW s \in pending, Run(s)
    PROVE  Follow(script)' /\ Follow(pending)'
<1>1. /\ UNCHANGED <<dialect, snapshot, script>> /\ pending' = pending \ {s}
      /\ pending \subseteq script /\ s \in script /\ IsRecorded(dialect, snapshot)
  BY RunCommon
<1>2. Least(s) /\ \A u \in script : Meant(dialect, old, snapshot, u)
  BY DEF Run, ScriptOK
<1>3. Follow(script)'
  BY <1>1 DEF StoryInv, FollowInv, Follow
<1>4. SUFFICES ASSUME NEW c \in pending', NEW x \in DOMAIN snapshot.indexes,
                      dialect # "mysql", c.op = "create", c.obj[2] = x[1]
               PROVE  \E u \in pending' : u.op = "index" /\ u.obj = <<"indexes", x[1], x[2]>>
  BY <1>1, <1>3 DEF Follow
<1>5. PICK u \in pending : u.op = "index" /\ u.obj = <<"indexes", x[1], x[2]>>
  BY <1>1, <1>4 DEF StoryInv, FollowInv, Follow
<1>6. u # s
  BY <1>1, <1>2, <1>4, <1>5, IndexWaits
<1> QED
  BY <1>1, <1>5, <1>6

\* What a statement settles is about its table.
LEMMA SettlesTable ==
    ASSUME NEW s, NEW e \in Settles(s)
    PROVE  e[2] = s.obj[2]
  BY DEF Settles

LEMMA RunCreate ==
    ASSUME TypeInv, StoryInv, NEW old, ScriptOK(old), NEW s \in pending, Run(s), s.op = "create"
    PROVE  StoryInv'
<1> DEFINE t == s.obj[2]
<1>1. /\ UNCHANGED <<dialect, snapshot, script, reported, unsteady>>
      /\ target' = Applied(dialect, s, target) /\ Applies(s, target)
      /\ pending' = pending \ {s} /\ done' = done \cup {s}
      /\ pending \subseteq script /\ s \in script /\ behind' = behind \ Settles(s)
      /\ IsRecorded(dialect, snapshot) /\ Meant(dialect, old, snapshot, s)
      /\ dialect \in Dialects /\ IsDatabase(dialect, target) /\ IsDatabase(dialect, target')
  BY RunCommon
<1>2. \A u : u \in pending \ done /\ u # s => u \in pending' \ done'
  BY RunCommon
<1>3. ASSUME NEW kind, NEW x, x[1] # t
      PROVE  /\ Waits(kind, x) => \/ Waits(kind, x)'
                                  \/ s.obj = <<kind, x[1], x[2]>>
             /\ Behind(kind, x)' <=> Behind(kind, x)
  <2>1. <<kind, x[1], x[2]>>[2] # t /\ <<"tables", x[1], 0>>[2] # t
    BY <1>3
  <2>2. <<kind, x[1], x[2]>> \notin Settles(s) /\ <<"tables", x[1], 0>> \notin Settles(s)
    BY <2>1, SettlesTable
  <2>3. Waits(kind, x) => Waits(kind, x)' \/ s.obj = <<kind, x[1], x[2]>>
    BY <1>3, RunCommon
  <2> QED
    BY <2>2, <2>3, <1>1 DEF Behind
<1>4. /\ s = CreateTable(dialect, snapshot, t) /\ s.obj = <<"tables", t, 0>>
      /\ t \in DOMAIN snapshot.tables \ DOMAIN old.tables
  BY <1>1, CreateObject
<1>5. /\ DOMAIN target'.tables = DOMAIN target.tables \cup {t}
      /\ target'.tables[t] = snapshot.tables[t]
      /\ \A u \in DOMAIN target.tables : target'.tables[u] = target.tables[u]
  BY <1>1, <1>4, CreateEffect
<1>6. /\ DOMAIN target'.columns
           = DOMAIN target.columns \cup {x \in DOMAIN snapshot.columns : x[1] = t}
      /\ \A x \in DOMAIN target.columns : target'.columns[x] = target.columns[x]
      /\ \A x \in DOMAIN snapshot.columns : x[1] = t =>
           target'.columns[x] = Spelled(Definition(dialect, snapshot, x), snapshot.tables[t])
  BY <1>1, <1>4, CreateEffect
<1>7. /\ DOMAIN target'.indexes = DOMAIN target.indexes
           \cup {x \in DOMAIN snapshot.indexes : dialect = "mysql" /\ x[1] = t}
      /\ \A x \in DOMAIN target.indexes : target'.indexes[x] = target.indexes[x]
      /\ \A x \in DOMAIN snapshot.indexes : dialect = "mysql" /\ x[1] = t =>
           target'.indexes[x] = snapshot.indexes[x]
  BY <1>1, <1>4, CreateEffect
<1>8. DOMAIN target'.keys = DOMAIN target.keys
           \cup {x \in DOMAIN snapshot.keys : dialect = "mysql" /\ x[1] = t}
  BY <1>1, <1>4, CreateEffect
<1>9. ColumnsInv'
  <2>1. SUFFICES ASSUME NEW x \in DOMAIN snapshot.columns, x[1] \in DOMAIN snapshot.tables,
                        ~ Behind("columns", x)'
                 PROVE  HasColumn(x)' \/ Waits("columns", x)'
    BY <1>1 DEF ColumnsInv
  <2>2. CASE x[1] = t
    <3>1. snapshot.tables[t] \in Collations
      BY <1>1, <1>4 DEF IsRecorded
    <3>2. LET e == target'.columns[x] IN
          /\ e.type = snapshot.columns[x].type /\ e.default = snapshot.columns[x].default
          /\ dialect = "mysql" => e.collation = snapshot.columns[x].collation
      BY <2>2, <3>1, <1>1, <1>6, DefinitionFields
    <3> QED
      BY <2>2, <3>2, <1>1, <1>6 DEF HasColumn
  <2>3. CASE x[1] # t
    <3>1. HasColumn(x) \/ Waits("columns", x)
      BY <2>1, <2>3, <1>3 DEF StoryInv, ObjectsInv, ColumnsInv
    <3>2. HasColumn(x) => HasColumn(x)'
      BY <1>1, <1>6 DEF HasColumn
    <3>3. Waits("columns", x) => Waits("columns", x)'
      BY <2>3, <1>3, <1>4
    <3> QED
      BY <3>1, <3>2, <3>3
  <2> QED
    BY <2>2, <2>3
<1>10. IndexesInv'
  <2>1. SUFFICES ASSUME NEW x \in DOMAIN snapshot.indexes, x[1] \in DOMAIN snapshot.tables,
                        ~ Behind("indexes", x)'
                 PROVE  HasIndex(x)' \/ Waits("indexes", x)'
    BY <1>1 DEF IndexesInv
  <2>2. CASE x[1] = t /\ dialect = "mysql"
    BY <2>2, <1>1, <1>7 DEF HasIndex
  <2>3. CASE x[1] = t /\ dialect # "mysql"
    <3>1. PICK u \in pending : u.op = "index" /\ u.obj = <<"indexes", x[1], x[2]>>
      BY <2>3 DEF StoryInv, FollowInv, Follow
    <3>2. x = <<x[1], x[2]>>
      BY <1>1 DEF IsRecorded, IsSchema
    <3>3. t \notin DOMAIN target.tables
      BY <1>1 DEF Applies
    <3>4. x \notin DOMAIN target.indexes
      BY <2>3, <3>3, <1>1 DEF IsDatabase
    <3>5. u.obj[2] = x[1] /\ u.obj[3] = x[2]
      BY <3>1
    <3>6. u \notin done
      BY <3>1, <3>2, <3>4, <3>5 DEF StoryInv, FollowInv
    <3>7. u \in pending' \ done'
      BY <3>1, <3>6, <1>2
    <3> QED
      BY <3>1, <3>7 DEF Waits
  <2>4. CASE x[1] # t
    <3>1. HasIndex(x) \/ Waits("indexes", x)
      BY <2>1, <2>4, <1>3 DEF StoryInv, ObjectsInv, IndexesInv
    <3>2. HasIndex(x) => HasIndex(x)'
      BY <1>1, <1>7 DEF HasIndex
    <3>3. Waits("indexes", x) => Waits("indexes", x)'
      BY <2>4, <1>3, <1>4
    <3> QED
      BY <3>1, <3>2, <3>3
  <2> QED
    BY <2>2, <2>3, <2>4
<1>11. KeysInv'
  <2>1. SUFFICES ASSUME dialect = "mysql", NEW x \in DOMAIN snapshot.keys,
                        x[1] \in DOMAIN snapshot.tables, ~ Behind("keys", x)'
                 PROVE  x \in DOMAIN target'.keys \/ Waits("keys", x)'
    BY <1>1 DEF KeysInv
  <2>2. CASE x[1] = t
    BY <2>1, <2>2, <1>8
  <2>3. CASE x[1] # t
    <3>1. x \in DOMAIN target.keys \/ Waits("keys", x)
      BY <2>1, <2>3, <1>3 DEF StoryInv, ObjectsInv, KeysInv
    <3>2. Waits("keys", x) => Waits("keys", x)'
      BY <2>3, <1>3, <1>4
    <3> QED
      BY <3>1, <3>2, <1>8
  <2> QED
    BY <2>2, <2>3
<1>12. TablesInv'
  <2>1. SUFFICES ASSUME NEW u \in DOMAIN snapshot.tables, u \notin unsteady,
                        <<"tables", u, 0>> \notin behind'
                 PROVE  \/ u \in DOMAIN target'.tables /\ target'.tables[u] = snapshot.tables[u]
                        \/ \E v \in pending' \ done' : v.op = "create" /\ v.obj[2] = u
    BY <1>1 DEF TablesInv
  <2>2. CASE u = t
    BY <2>2, <1>5
  <2>3. CASE u # t
    <3>1. <<"tables", u, 0>>[2] # t
      BY <2>3
    <3>2. <<"tables", u, 0>> \notin behind
      BY <3>1, <2>1, <1>1, SettlesTable
    <3>3. CASE u \in DOMAIN target.tables /\ target.tables[u] = snapshot.tables[u]
      BY <3>3, <1>5
    <3>4. CASE \E v \in pending \ done : v.op = "create" /\ v.obj[2] = u
      BY <3>4, <2>3, <1>2
    <3> QED
      BY <2>1, <3>2, <3>3, <3>4 DEF StoryInv, ObjectsInv, TablesInv
  <2> QED
    BY <2>2, <2>3
<1>13. FollowInv'
  <2>1. \A u \in done' : u.op = "index" => u \in done
    BY <1>1
  <2>2. \A u \in done : u.op = "index" => <<u.obj[2], u.obj[3]>> \in DOMAIN target.indexes
    BY DEF StoryInv, FollowInv
  <2> QED
    BY <2>1, <2>2, <1>7, RunFollows DEF FollowInv
<1>14. ReportedInv'
  <2>1. \A k \in Kinds \ {"tables"} : DOMAIN target'[k] \subseteq DOMAIN target[k] \cup DOMAIN snapshot[k]
    BY <1>6, <1>7, <1>8 DEF Kinds
  <2>2. ExtrasReported'
    BY <2>1, <1>1 DEF StoryInv, ReportedInv, ExtrasReported
  <2> QED
    BY <2>2, <1>1, <1>4, <1>5 DEF StoryInv, ReportedInv
<1>15. ScriptOK(old)'
  <2>1. ASSUME NEW v \in script \ done', v.op = "modify"
        PROVE  LET x == <<v.obj[2], v.obj[3]>>
               IN  ~ Behind("columns", x)' /\ x \in DOMAIN target'.columns
                     => target'.columns[x].type = old.columns[x].type
    <3> DEFINE x == <<v.obj[2], v.obj[3]>>
    <3>1. v.obj[2] \in Both(old, snapshot)
      BY <2>1, <1>1, ColumnObject DEF ScriptOK
    <3>2. x[1] # t
      BY <3>1, <1>4 DEF Both
    <3>3. x \in DOMAIN target'.columns => x \in DOMAIN target.columns
      BY <3>2, <1>6
    <3> QED
      BY <2>1, <3>2, <3>3, <1>1, <1>3, <1>6 DEF ScriptOK
  <2> QED
    BY <2>1, <1>1 DEF ScriptOK
<1> QED
  BY <1>9, <1>10, <1>11, <1>12, <1>13, <1>14, <1>15 DEF StoryInv, ObjectsInv, ScriptInv

\* A statement other than a table's settles what it is about and nothing else.
LEMMA RunOther ==
    ASSUME TypeInv, StoryInv, NEW old, ScriptOK(old), NEW s \in pending, Run(s), s.op # "create"
    PROVE  /\ s.obj[1] # "tables"
           /\ \A kind, x : s.obj # <<kind, x[1], x[2]>> =>
                /\ Waits(kind, x) => Waits(kind, x)'
                /\ Behind(kind, x)' <=> Behind(kind, x)
           /\ \A t : <<"tables", t, 0>> \in behind' <=> <<"tables", t, 0>> \in behind
           /\ \A t : (\E v \in pending \ done : v.op = "create" /\ v.obj[2] = t)
                       => \E v \in pending' \ done' : v.op = "create" /\ v.obj[2] = t
<1>1. /\ behind' = behind \ Settles(s) /\ IsRecorded(dialect, snapshot)
      /\ Meant(dialect, old, snapshot, s)
  BY RunCommon
<1>2. s.op \in {"add", "modify", "index", "key", "collation"}
  BY <1>1, MeantOp
<1>3. s.obj[1] # "tables"
  <2>1. CASE s.op \in {"add", "modify"}
    <3>1. s.obj = <<"columns", s.obj[2], s.obj[3]>>
      BY <2>1, <1>1, ColumnObject
    <3> QED
      BY <3>1
  <2>2. CASE s.op = "index"
    <3>1. s.obj = <<"indexes", s.obj[2], s.obj[3]>>
      BY <2>2, <1>1, IndexObject
    <3> QED
      BY <3>1
  <2>3. CASE s.op = "key"
    <3>1. s.obj = <<"keys", s.obj[2], s.obj[3]>>
      BY <2>3, <1>1, KeyObject
    <3> QED
      BY <3>1
  <2>4. CASE s.op = "collation"
    <3>1. s.obj = <<"options", s.obj[2], 0>>
      BY <2>4, <1>1, OptionObject
    <3> QED
      BY <3>1
  <2> QED
    BY <2>1, <2>2, <2>3, <2>4, <1>2
<1>4. Settles(s) = {s.obj}
  BY DEF Settles
<1>5. \A t : <<"tables", t, 0>> \notin Settles(s)
  <2>1. \A t : <<"tables", t, 0>>[1] = "tables"
    OBVIOUS
  <2> QED
    BY <2>1, <1>3, <1>4
<1>6. ASSUME NEW kind, NEW x, s.obj # <<kind, x[1], x[2]>>
      PROVE  /\ Waits(kind, x) => Waits(kind, x)'
             /\ Behind(kind, x)' <=> Behind(kind, x)
  <2>1. Waits(kind, x) => Waits(kind, x)'
    BY <1>6, RunCommon
  <2>2. <<kind, x[1], x[2]>> \notin Settles(s)
    BY <1>4, <1>6
  <2> QED
    BY <2>1, <2>2, <1>1, <1>5 DEF Behind
<1>7. \A u : u \in pending \ done /\ u # s => u \in pending' \ done'
  BY RunCommon
<1>8. ASSUME NEW t, NEW v \in pending \ done, v.op = "create", v.obj[2] = t
      PROVE  \E w \in pending' \ done' : w.op = "create" /\ w.obj[2] = t
  BY <1>7, <1>8
<1> QED
  BY <1>1, <1>3, <1>5, <1>6, <1>8

LEMMA RunColumn ==
    ASSUME TypeInv, StoryInv, NEW old, ScriptOK(old), NEW s \in pending, Run(s),
           s.op \in {"add", "modify"}
    PROVE  StoryInv'
<1> DEFINE z == <<s.obj[2], s.obj[3]>>
<1>1. /\ UNCHANGED <<dialect, snapshot, script, reported, unsteady>>
      /\ target' = Applied(dialect, s, target) /\ Applies(s, target)
      /\ pending' = pending \ {s} /\ done' = done \cup {s}
      /\ pending \subseteq script /\ s \in script
      /\ IsRecorded(dialect, snapshot) /\ Meant(dialect, old, snapshot, s)
      /\ dialect \in Dialects /\ IsDatabase(dialect, target)
  BY RunCommon
<1>2. /\ s.obj = <<"columns", z[1], z[2]>> /\ z \in DOMAIN snapshot.columns
      /\ z[1] \in Both(old, snapshot) /\ s.text = Definition(dialect, snapshot, z)
  BY <1>1, ColumnObject
<1>3. /\ \A kind, x : s.obj # <<kind, x[1], x[2]>> =>
           /\ Waits(kind, x) => Waits(kind, x)'
           /\ Behind(kind, x)' <=> Behind(kind, x)
      /\ \A t : <<"tables", t, 0>> \in behind' <=> <<"tables", t, 0>> \in behind
      /\ \A t : (\E v \in pending \ done : v.op = "create" /\ v.obj[2] = t)
                  => \E v \in pending' \ done' : v.op = "create" /\ v.obj[2] = t
  BY RunOther
<1>4. /\ target'.tables = target.tables /\ target'.indexes = target.indexes
      /\ target'.keys = target.keys
      /\ DOMAIN target'.columns = DOMAIN target.columns \cup {z}
      /\ \A y \in DOMAIN target.columns \ {z} : target'.columns[y] = target.columns[y]
      /\ target'.columns[z].type = snapshot.columns[z].type
      /\ dialect = "mysql" => target'.columns[z].default = snapshot.columns[z].default
      /\ (dialect = "mysql" /\ target.tables[z[1]] = snapshot.tables[z[1]])
           => target'.columns[z].collation = snapshot.columns[z].collation
  BY <1>1, <1>2, ColumnEffect
<1>5. \A kind, x : kind # "columns" => s.obj # <<kind, x[1], x[2]>>
  BY <1>2
<1>6. \A x \in DOMAIN snapshot.columns : x # z => s.obj # <<"columns", x[1], x[2]>>
  <2>1. \A x \in DOMAIN snapshot.columns : x = <<x[1], x[2]>>
    BY <1>1 DEF IsRecorded, IsSchema
  <2> QED
    BY <2>1
<1>7. ColumnsInv'
  <2>1. SUFFICES ASSUME NEW x \in DOMAIN snapshot.columns, x[1] \in DOMAIN snapshot.tables,
                        ~ Behind("columns", x)'
                 PROVE  HasColumn(x)' \/ Waits("columns", x)'
    BY <1>1 DEF ColumnsInv
  <2>2. CASE x = z
    <3>1. ASSUME z[1] \notin unsteady
          PROVE  target.tables[z[1]] = snapshot.tables[z[1]]
      <4>1. <<"tables", z[1], 0>> \notin behind
        BY <2>1, <2>2, <1>3 DEF Behind
      <4>2. \A v \in pending : v.op = "create" => v.obj[2] # z[1]
        BY <1>1, <1>2, CreateObject DEF ScriptOK, Both
      <4> QED
        BY <3>1, <4>1, <4>2, <1>2 DEF Both, StoryInv, ObjectsInv, TablesInv
    <3> QED
      BY <2>2, <3>1, <1>1, <1>4 DEF HasColumn
  <2>3. CASE x # z
    <3>1. HasColumn(x) \/ Waits("columns", x)
      BY <2>1, <2>3, <1>3, <1>6 DEF StoryInv, ObjectsInv, ColumnsInv
    <3>2. HasColumn(x) => HasColumn(x)'
      BY <2>3, <1>1, <1>4 DEF HasColumn
    <3> QED
      BY <2>3, <3>1, <3>2, <1>3, <1>6
  <2> QED
    BY <2>2, <2>3
<1>8. IndexesInv'
  BY <1>1, <1>3, <1>4, <1>5 DEF StoryInv, ObjectsInv, IndexesInv, HasIndex
<1>9. KeysInv'
  BY <1>1, <1>3, <1>4, <1>5 DEF StoryInv, ObjectsInv, KeysInv
<1>10. TablesInv'
  BY <1>1, <1>3, <1>4 DEF StoryInv, ObjectsInv, TablesInv
<1>11. FollowInv'
  BY <1>1, <1>4, RunFollows DEF StoryInv, FollowInv
<1>12. ReportedInv'
  <2>1. \A k \in Kinds \ {"tables"} : DOMAIN target'[k] \subseteq DOMAIN target[k] \cup DOMAIN snapshot[k]
    BY <1>2, <1>4 DEF Kinds
  <2> QED
    BY <2>1, <1>1, <1>4 DEF StoryInv, ReportedInv, ExtrasReported
<1>13. ScriptOK(old)'
  <2>1. ASSUME NEW v \in script \ done', v.op = "modify"
        PROVE  LET x == <<v.obj[2], v.obj[3]>>
               IN  ~ Behind("columns", x)' /\ x \in DOMAIN target'.columns
                     => target'.columns[x].type = old.columns[x].type
    <3> DEFINE x == <<v.obj[2], v.obj[3]>>
    <3>1. Meant(dialect, old, snapshot, v)
      BY <2>1 DEF ScriptOK
    <3>2. v # s /\ v \notin done
      BY <2>1, <1>1
    <3>3. v.obj # s.obj
      BY <2>1, <3>1, <3>2, <1>1, OneAColumn
    <3>4. v.obj = <<"columns", v.obj[2], v.obj[3]>>
      BY <2>1, <3>1, <1>1, ColumnObject
    <3>5. x # z /\ s.obj # <<"columns", x[1], x[2]>>
      BY <3>3, <3>4, <1>2
    <3> QED
      BY <2>1, <3>2, <3>5, <1>1, <1>3, <1>4 DEF ScriptOK
  <2> QED
    BY <2>1, <1>1 DEF ScriptOK
<1> QED
  BY <1>7, <1>8, <1>9, <1>10, <1>11, <1>12, <1>13 DEF StoryInv, ObjectsInv, ScriptInv

LEMMA RunIndex ==
    ASSUME TypeInv, StoryInv, NEW old, ScriptOK(old), NEW s \in pending, Run(s), s.op = "index"
    PROVE  StoryInv'
<1> DEFINE z == <<s.obj[2], s.obj[3]>>
<1>1. /\ UNCHANGED <<dialect, snapshot, script, reported, unsteady>>
      /\ target' = Applied(dialect, s, target) /\ Applies(s, target)
      /\ pending' = pending \ {s} /\ done' = done \cup {s}
      /\ pending \subseteq script /\ s \in script
      /\ IsRecorded(dialect, snapshot) /\ Meant(dialect, old, snapshot, s)
      /\ dialect \in Dialects /\ IsDatabase(dialect, target)
  BY RunCommon
<1>2. /\ s.obj = <<"indexes", s.obj[2], s.obj[3]>> /\ z \in DOMAIN snapshot.indexes
      /\ s.text = snapshot.indexes[z]
  BY <1>1, IndexObject
<1>3. /\ \A kind, x : s.obj # <<kind, x[1], x[2]>> =>
           /\ Waits(kind, x) => Waits(kind, x)'
           /\ Behind(kind, x)' <=> Behind(kind, x)
      /\ \A t : <<"tables", t, 0>> \in behind' <=> <<"tables", t, 0>> \in behind
      /\ \A t : (\E v \in pending \ done : v.op = "create" /\ v.obj[2] = t)
                  => \E v \in pending' \ done' : v.op = "create" /\ v.obj[2] = t
  BY RunOther
<1>4. /\ target'.tables = target.tables /\ target'.columns = target.columns
      /\ target'.keys = target.keys
      /\ DOMAIN target'.indexes = DOMAIN target.indexes \cup {z}
      /\ \A y \in DOMAIN target.indexes : target'.indexes[y] = target.indexes[y]
      /\ target'.indexes[z] = snapshot.indexes[z]
  BY <1>1, <1>2, IndexEffect
<1>5. \A kind, x : kind # "indexes" => s.obj # <<kind, x[1], x[2]>>
  BY <1>2
<1>6. \A x \in DOMAIN snapshot.indexes : x # z => s.obj # <<"indexes", x[1], x[2]>>
  <2>1. \A x \in DOMAIN snapshot.indexes : x = <<x[1], x[2]>>
    BY <1>1 DEF IsRecorded, IsSchema
  <2> QED
    BY <2>1
<1>7. ColumnsInv'
  BY <1>1, <1>3, <1>4, <1>5 DEF StoryInv, ObjectsInv, ColumnsInv, HasColumn
<1>8. IndexesInv'
  <2>1. SUFFICES ASSUME NEW x \in DOMAIN snapshot.indexes, x[1] \in DOMAIN snapshot.tables,
                        ~ Behind("indexes", x)', x # z
                 PROVE  HasIndex(x)' \/ Waits("indexes", x)'
    BY <1>1, <1>4 DEF IndexesInv, HasIndex
  <2>2. HasIndex(x) \/ Waits("indexes", x)
    BY <2>1, <1>3, <1>6 DEF StoryInv, ObjectsInv, IndexesInv
  <2>3. HasIndex(x) => HasIndex(x)'
    BY <1>1, <1>4 DEF HasIndex
  <2> QED
    BY <2>1, <2>2, <2>3, <1>3, <1>6
<1>9. KeysInv'
  BY <1>1, <1>3, <1>4, <1>5 DEF StoryInv, ObjectsInv, KeysInv
<1>10. TablesInv'
  BY <1>1, <1>3, <1>4 DEF StoryInv, ObjectsInv, TablesInv
<1>11. FollowInv'
  <2>1. \A u \in done : u.op = "index" => <<u.obj[2], u.obj[3]>> \in DOMAIN target.indexes
    BY DEF StoryInv, FollowInv
  <2> QED
    BY <2>1, <1>1, <1>4, RunFollows DEF FollowInv
<1>12. ReportedInv'
  <2>1. \A k \in Kinds \ {"tables"} : DOMAIN target'[k] \subseteq DOMAIN target[k] \cup DOMAIN snapshot[k]
    BY <1>2, <1>4 DEF Kinds
  <2> QED
    BY <2>1, <1>1, <1>4 DEF StoryInv, ReportedInv, ExtrasReported
<1>13. ScriptOK(old)'
  BY <1>1, <1>3, <1>4, <1>5 DEF ScriptOK
<1> QED
  BY <1>7, <1>8, <1>9, <1>10, <1>11, <1>12, <1>13 DEF StoryInv, ObjectsInv, ScriptInv

LEMMA RunKey ==
    ASSUME TypeInv, StoryInv, NEW old, ScriptOK(old), NEW s \in pending, Run(s), s.op = "key"
    PROVE  StoryInv'
<1> DEFINE z == <<s.obj[2], s.obj[3]>>
<1>1. /\ UNCHANGED <<dialect, snapshot, script, reported, unsteady>>
      /\ target' = Applied(dialect, s, target) /\ Applies(s, target)
      /\ pending' = pending \ {s} /\ done' = done \cup {s}
      /\ pending \subseteq script /\ s \in script
      /\ IsRecorded(dialect, snapshot) /\ Meant(dialect, old, snapshot, s)
      /\ dialect \in Dialects /\ IsDatabase(dialect, target)
  BY RunCommon
<1>2. /\ s.obj = <<"keys", s.obj[2], s.obj[3]>> /\ z \in DOMAIN snapshot.keys
      /\ s.text = snapshot.keys[z]
  BY <1>1, KeyObject
<1>3. /\ \A kind, x : s.obj # <<kind, x[1], x[2]>> =>
           /\ Waits(kind, x) => Waits(kind, x)'
           /\ Behind(kind, x)' <=> Behind(kind, x)
      /\ \A t : <<"tables", t, 0>> \in behind' <=> <<"tables", t, 0>> \in behind
      /\ \A t : (\E v \in pending \ done : v.op = "create" /\ v.obj[2] = t)
                  => \E v \in pending' \ done' : v.op = "create" /\ v.obj[2] = t
  BY RunOther
<1>4. /\ target'.tables = target.tables /\ target'.columns = target.columns
      /\ target'.indexes = target.indexes
      /\ DOMAIN target'.keys = DOMAIN target.keys \cup {z}
  BY <1>1, <1>2, KeyEffect
<1>5. \A kind, x : kind # "keys" => s.obj # <<kind, x[1], x[2]>>
  BY <1>2
<1>6. \A x \in DOMAIN snapshot.keys : x # z => s.obj # <<"keys", x[1], x[2]>>
  <2>1. \A x \in DOMAIN snapshot.keys : x = <<x[1], x[2]>>
    BY <1>1 DEF IsRecorded, IsSchema
  <2> QED
    BY <2>1
<1>7. ColumnsInv'
  BY <1>1, <1>3, <1>4, <1>5 DEF StoryInv, ObjectsInv, ColumnsInv, HasColumn
<1>8. IndexesInv'
  BY <1>1, <1>3, <1>4, <1>5 DEF StoryInv, ObjectsInv, IndexesInv, HasIndex
<1>9. KeysInv'
  <2>1. SUFFICES ASSUME dialect = "mysql", NEW x \in DOMAIN snapshot.keys,
                        x[1] \in DOMAIN snapshot.tables, ~ Behind("keys", x)', x # z
                 PROVE  x \in DOMAIN target'.keys \/ Waits("keys", x)'
    BY <1>1, <1>4 DEF KeysInv
  <2>2. x \in DOMAIN target.keys \/ Waits("keys", x)
    BY <2>1, <1>3, <1>6 DEF StoryInv, ObjectsInv, KeysInv
  <2> QED
    BY <2>1, <2>2, <1>3, <1>4, <1>6
<1>10. TablesInv'
  BY <1>1, <1>3, <1>4 DEF StoryInv, ObjectsInv, TablesInv
<1>11. FollowInv'
  BY <1>1, <1>4, RunFollows DEF StoryInv, FollowInv
<1>12. ReportedInv'
  <2>1. \A k \in Kinds \ {"tables"} : DOMAIN target'[k] \subseteq DOMAIN target[k] \cup DOMAIN snapshot[k]
    BY <1>2, <1>4 DEF Kinds
  <2> QED
    BY <2>1, <1>1, <1>4 DEF StoryInv, ReportedInv, ExtrasReported
<1>13. ScriptOK(old)'
  BY <1>1, <1>3, <1>4, <1>5 DEF ScriptOK
<1> QED
  BY <1>7, <1>8, <1>9, <1>10, <1>11, <1>12, <1>13 DEF StoryInv, ObjectsInv, ScriptInv

LEMMA RunOption ==
    ASSUME TypeInv, StoryInv, NEW old, ScriptOK(old), NEW s \in pending, Run(s),
           s.op = "collation"
    PROVE  StoryInv'
<1> DEFINE t == s.obj[2]
<1>1. /\ UNCHANGED <<dialect, snapshot, script, reported, unsteady>>
      /\ target' = Applied(dialect, s, target) /\ Applies(s, target)
      /\ pending' = pending \ {s} /\ done' = done \cup {s}
      /\ pending \subseteq script /\ s \in script
      /\ IsRecorded(dialect, snapshot) /\ Meant(dialect, old, snapshot, s)
      /\ dialect \in Dialects /\ IsDatabase(dialect, target)
  BY RunCommon
<1>2. /\ s.obj = <<"options", t, 0>> /\ t \in DOMAIN snapshot.tables
      /\ s.text = snapshot.tables[t]
  BY <1>1, OptionObject DEF Both
<1>3. /\ \A kind, x : s.obj # <<kind, x[1], x[2]>> =>
           /\ Waits(kind, x) => Waits(kind, x)'
           /\ Behind(kind, x)' <=> Behind(kind, x)
      /\ \A u : <<"tables", u, 0>> \in behind' <=> <<"tables", u, 0>> \in behind
      /\ \A u : (\E v \in pending \ done : v.op = "create" /\ v.obj[2] = u)
                  => \E v \in pending' \ done' : v.op = "create" /\ v.obj[2] = u
  BY RunOther
<1>4. /\ DOMAIN target'.tables = DOMAIN target.tables
      /\ \A u \in DOMAIN target.tables \ {t} : target'.tables[u] = target.tables[u]
      /\ target'.columns = target.columns /\ target'.indexes = target.indexes
      /\ target'.keys = target.keys
  BY <1>1, <1>2, OptionEffect
<1>5. \A kind, x : kind # "options" => s.obj # <<kind, x[1], x[2]>>
  BY <1>2
<1>6. t \in unsteady
  BY <1>1 DEF ScriptOK
<1>7. ColumnsInv'
  BY <1>1, <1>3, <1>4, <1>5 DEF StoryInv, ObjectsInv, ColumnsInv, HasColumn
<1>8. IndexesInv'
  BY <1>1, <1>3, <1>4, <1>5 DEF StoryInv, ObjectsInv, IndexesInv, HasIndex
<1>9. KeysInv'
  BY <1>1, <1>3, <1>4, <1>5 DEF StoryInv, ObjectsInv, KeysInv
<1>10. TablesInv'
  BY <1>1, <1>3, <1>4, <1>6 DEF StoryInv, ObjectsInv, TablesInv
<1>11. FollowInv'
  BY <1>1, <1>4, RunFollows DEF StoryInv, FollowInv
<1>12. ReportedInv'
  <2>1. \A k \in Kinds \ {"tables"} : DOMAIN target'[k] = DOMAIN target[k]
    BY <1>4 DEF Kinds
  <2> QED
    BY <2>1, <1>1, <1>4 DEF StoryInv, ReportedInv, ExtrasReported
<1>13. ScriptOK(old)'
  BY <1>1, <1>3, <1>4, <1>5 DEF ScriptOK
<1> QED
  BY <1>7, <1>8, <1>9, <1>10, <1>11, <1>12, <1>13 DEF StoryInv, ObjectsInv, ScriptInv

LEMMA RunStep ==
    ASSUME TypeInv, StoryInv, NEW s \in pending, Run(s)
    PROVE  StoryInv'
<1>1. PICK old : ScriptOK(old)
  BY DEF StoryInv, ScriptInv
<1>2. Meant(dialect, old, snapshot, s)
  BY <1>1, RunCommon
<1>3. s.op \in {"create", "add", "modify", "index", "key", "collation"}
  BY <1>2, MeantOp
<1> QED
  BY <1>1, <1>3, RunCreate, RunColumn, RunIndex, RunKey, RunOption

-----------------------------------------------------------------------------
(* A comparison comes to its end: nothing of the last one is still to run, *)
(* so what does not wait is there.                                         *)

LEMMA FinishStep ==
    ASSUME TypeInv, StoryInv, Finish
    PROVE  StoryInv'
<1> DEFINE now == [job.got EXCEPT !.keys = OfAsked(live.keys)]
           S == Diff(dialect, snapshot, now).statements
<1>1. /\ snapshot' = now /\ script' = S /\ pending' = S /\ done' = {}
      /\ behind' = behind \cup Notes(snapshot, now)
      /\ reported' = reported \cup Removed(snapshot, now)
      /\ unsteady' = unsteady \cup {s.obj[2] : s \in OptionStatements(snapshot, now)}
      /\ UNCHANGED <<dialect, live, target>>
  BY DEF Finish, Diff
<1>2. pending = {}
  BY DEF Finish, TypeInv, JobOK, NoJob
<1>3. IsRecorded(dialect, now) /\ IsRecorded(dialect, snapshot) /\ dialect \in Dialects
  BY NamesRead DEF TypeInv, JobOK
<1> HIDE DEF now, S
<1>4. \A kind, x : ~ Waits(kind, x)
  BY <1>2 DEF Waits
<1>5. \A kind, x : ~ Behind(kind, x)' => ~ Behind(kind, x)
  BY <1>1 DEF Behind
<1>6. ASSUME NEW kind, NEW x, NEW u \in S,
             \/ u.obj = <<kind, x[1], x[2]>>
             \/ u.op = "create" /\ u.obj[2] = x[1] /\ (kind = "columns" \/ dialect = "mysql")
      PROVE  Waits(kind, x)'
  BY <1>1, <1>6 DEF Waits
<1>7. \A t \in DOMAIN now.tables \ DOMAIN snapshot.tables :
        \E u \in S : u.op = "create" /\ u.obj[2] = t
  BY <1>3, DiffTables DEF S
<1>8. ColumnsInv'
  <2>1. SUFFICES ASSUME NEW x \in DOMAIN now.columns, x[1] \in DOMAIN now.tables,
                        ~ Behind("columns", x)'
                 PROVE  HasColumn(x)' \/ Waits("columns", x)'
    BY <1>1 DEF ColumnsInv
  <2>2. CASE x[1] \notin DOMAIN snapshot.tables
    BY <2>1, <2>2, <1>6, <1>7
  <2>3. CASE x[1] \in DOMAIN snapshot.tables
    <3>1. CASE \E u \in S : u.obj = <<"columns", x[1], x[2]>>
      BY <3>1, <1>6
    <3>2. CASE x \in DOMAIN snapshot.columns /\ snapshot.columns[x] = now.columns[x]
      <4>1. HasColumn(x)
        BY <2>1, <2>3, <3>2, <1>4, <1>5 DEF StoryInv, ObjectsInv, ColumnsInv
      <4> QED
        BY <3>2, <4>1, <1>1 DEF HasColumn
    <3> QED
      BY <2>1, <2>3, <3>1, <3>2, DiffColumns DEF Both, S
  <2> QED
    BY <2>2, <2>3
<1>9. IndexesInv'
  <2>1. SUFFICES ASSUME NEW x \in DOMAIN now.indexes, x[1] \in DOMAIN now.tables,
                        ~ Behind("indexes", x)'
                 PROVE  HasIndex(x)' \/ Waits("indexes", x)'
    BY <1>1 DEF IndexesInv
  <2>2. CASE x[1] \notin DOMAIN snapshot.tables /\ dialect = "mysql"
    BY <2>1, <2>2, <1>6, <1>7
  <2>3. CASE x[1] \notin DOMAIN snapshot.tables /\ dialect # "mysql"
    <3>1. \E u \in S : u.op = "index" /\ u.obj = <<"indexes", x[1], x[2]>>
      BY <2>1, <2>3, DiffNewIndexes DEF S
    <3> QED
      BY <3>1, <1>6
  <2>4. CASE x[1] \in DOMAIN snapshot.tables
    <3>1. CASE \E u \in S : u.obj = <<"indexes", x[1], x[2]>>
      BY <3>1, <1>6
    <3>2. CASE x \in DOMAIN snapshot.indexes
      <4>1. HasIndex(x)
        BY <2>1, <2>4, <3>2, <1>4, <1>5 DEF StoryInv, ObjectsInv, IndexesInv
      <4>2. <<"indexes", x[1], x[2]>> \notin Notes(snapshot, now)
        BY <2>1, <1>1 DEF Behind
      <4>3. snapshot.indexes[x] = now.indexes[x]
        BY <2>1, <2>4, <3>2, <4>2 DEF Notes, Both
      <4> QED
        BY <4>1, <4>3, <1>1 DEF HasIndex
    <3> QED
      BY <2>1, <2>4, <3>1, <3>2, DiffIndexes DEF Both, S
  <2> QED
    BY <2>2, <2>3, <2>4
<1>10. KeysInv'
  <2>1. SUFFICES ASSUME dialect = "mysql", NEW x \in DOMAIN now.keys,
                        x[1] \in DOMAIN now.tables, ~ Behind("keys", x)'
                 PROVE  x \in DOMAIN target'.keys \/ Waits("keys", x)'
    BY <1>1 DEF KeysInv
  <2>2. CASE x[1] \notin DOMAIN snapshot.tables
    BY <2>1, <2>2, <1>6, <1>7
  <2>3. CASE x[1] \in DOMAIN snapshot.tables
    <3>1. CASE \E u \in S : u.obj = <<"keys", x[1], x[2]>>
      BY <3>1, <1>6
    <3>2. CASE x \in DOMAIN snapshot.keys
      BY <2>1, <2>3, <3>2, <1>1, <1>4, <1>5 DEF StoryInv, ObjectsInv, KeysInv
    <3> QED
      BY <2>1, <2>3, <3>1, <3>2, DiffKeys DEF Both, S
  <2> QED
    BY <2>2, <2>3
<1>11. \A t \in Both(snapshot, now) : snapshot.tables[t] # now.tables[t] => t \in unsteady'
  BY <1>1, DiffOptions
<1>12. TablesInv'
  <2>1. SUFFICES ASSUME NEW t \in DOMAIN now.tables, t \notin unsteady',
                        <<"tables", t, 0>> \notin behind'
                 PROVE  \/ t \in DOMAIN target.tables /\ target.tables[t] = now.tables[t]
                        \/ \E v \in S : v.op = "create" /\ v.obj[2] = t
    BY <1>1 DEF TablesInv
  <2>2. CASE t \notin DOMAIN snapshot.tables
    BY <2>1, <2>2, <1>7
  <2>3. CASE t \in DOMAIN snapshot.tables
    BY <2>1, <2>3, <1>1, <1>2, <1>11 DEF Both, StoryInv, ObjectsInv, TablesInv
  <2> QED
    BY <2>2, <2>3
<1>13. FollowInv'
  <2>1. SUFFICES ASSUME NEW s \in S, NEW x \in DOMAIN now.indexes, dialect # "mysql",
                        s.op = "create", s.obj[2] = x[1]
                 PROVE  \E u \in S : u.op = "index" /\ u.obj = <<"indexes", x[1], x[2]>>
    BY <1>1 DEF FollowInv, Follow
  <2>2. Meant(dialect, snapshot, now, s)
    BY DiffMeant DEF S
  <2>3. x[1] \in DOMAIN now.tables \ DOMAIN snapshot.tables
    BY <2>1, <2>2, <1>3, CreateObject
  <2> QED
    BY <2>1, <2>3, DiffNewIndexes DEF S
<1>14. ReportedInv'
  <2>1. ASSUME NEW t \in DOMAIN target.tables \ DOMAIN now.tables
        PROVE  <<"tables", t, 0>> \in reported'
    BY <1>1 DEF Removed, StoryInv, ReportedInv
  <2>2. ASSUME NEW k \in Kinds \ {"tables"}, NEW x \in DOMAIN target[k] \ DOMAIN now[k]
        PROVE  {<<k, x[1], x[2]>>, <<"tables", x[1], 0>>} \cap reported' # {}
    <3>1. CASE x \notin DOMAIN snapshot[k]
      BY <2>2, <3>1, <1>1 DEF StoryInv, ReportedInv, ExtrasReported
    <3>2. CASE x \in DOMAIN snapshot[k] /\ x[1] \in Both(snapshot, now)
      <4>1. <<k, x[1], x[2]>> \in Removed(snapshot, now)
        BY <2>2, <3>2 DEF Removed
      <4> QED
        BY <4>1, <1>1
    <3>3. CASE x[1] \notin Both(snapshot, now)
      <4>1. x[1] \in DOMAIN target.tables
        BY <2>2, OfTables DEF TypeInv
      <4>2. <<"tables", x[1], 0>> \in Removed(snapshot, now) \/ <<"tables", x[1], 0>> \in reported
        BY <3>3, <4>1 DEF Both, Removed, StoryInv, ReportedInv
      <4> QED
        BY <4>2, <1>1
    <3> QED
      BY <3>1, <3>2, <3>3
  <2> QED
    BY <2>1, <2>2, <1>1 DEF ReportedInv, ExtrasReported
<1>15. ScriptInv'
  <2>1. \A s \in S : Meant(dialect, snapshot, now, s)
    BY DiffMeant DEF S
  <2>2. \A s \in S : s.op = "collation" => s.obj[2] \in unsteady'
    BY <2>1, <1>1, DiffOptions
  <2>3. ASSUME NEW s \in S, s.op = "modify"
        PROVE  LET x == <<s.obj[2], s.obj[3]>>
               IN  ~ Behind("columns", x)' /\ x \in DOMAIN target.columns
                     => target.columns[x].type = snapshot.columns[x].type
    <3> DEFINE x == <<s.obj[2], s.obj[3]>>
    <3>1. s.obj[2] \in Both(snapshot, now) /\ x \in DOMAIN snapshot.columns
      BY <2>1, <2>3, <1>3, ColumnObject
    <3>2. x[1] \in DOMAIN snapshot.tables
      BY <3>1 DEF Both
    <3>3. ~ Behind("columns", x)' => HasColumn(x)
      BY <3>1, <3>2, <1>4, <1>5 DEF StoryInv, ObjectsInv, ColumnsInv
    <3> QED
      BY <3>3 DEF HasColumn
  <2>4. PICK old : old = snapshot
    OBVIOUS
  <2>5. ScriptOK(old)'
    <3>1. IsRecorded(dialect, old) /\ \A s \in S : Meant(dialect, old, now, s)
      BY <2>1, <2>4, <1>3
    <3>2. ASSUME NEW s \in S, s.op = "modify"
          PROVE  LET x == <<s.obj[2], s.obj[3]>>
                 IN  ~ Behind("columns", x)' /\ x \in DOMAIN target.columns
                       => target.columns[x].type = old.columns[x].type
      BY <2>3, <2>4, <3>2
    <3> QED
      BY <2>2, <3>1, <3>2, <1>1 DEF ScriptOK
  <2> QED
    BY <2>5 DEF ScriptInv
<1> QED
  BY <1>8, <1>9, <1>10, <1>12, <1>13, <1>14, <1>15 DEF StoryInv, ObjectsInv

-----------------------------------------------------------------------------
(* The inductive invariant.                                                *)

\* At first the target has what the snapshot has.
LEMMA SchemaInit ==
    ASSUME Init
    PROVE  TypeInv /\ StoryInv
<1>1. /\ dialect \in Dialects /\ live \in InitSchema[dialect] /\ target = live
      /\ snapshot = [live EXCEPT !.columns = Columns] /\ job = NoJob
      /\ script = {} /\ pending = {} /\ done = {} /\ reported = {}
  BY DEF Init
<1>2. IsDatabase(dialect, live)
  BY <1>1, SchemaAssumption
<1>3. IsRecorded(dialect, snapshot)
  BY <1>1, <1>2, WholeRecorded
<1>4. TypeInv
  BY <1>1, <1>2, <1>3, EmptyRecorded DEF TypeInv, JobOK, NoJob
<1>5. /\ snapshot.tables = target.tables /\ snapshot.columns = Columns
      /\ snapshot.indexes = target.indexes /\ snapshot.keys = target.keys
  BY <1>1, <1>2 DEF IsDatabase, IsSchema, Kinds
<1>6. /\ DOMAIN Columns = DOMAIN target.columns
      /\ \A x \in DOMAIN Columns :
           /\ target.columns[x].type = Columns[x].type
           /\ target.columns[x].default = Columns[x].default
           /\ target.columns[x].collation = Columns[x].collation
  BY <1>1 DEF Columns
<1>7. ObjectsInv
  BY <1>5, <1>6 DEF ObjectsInv, ColumnsInv, IndexesInv, KeysInv, TablesInv, HasColumn, HasIndex
<1>8. FollowInv
  BY <1>1 DEF FollowInv, Follow
<1>9. ReportedInv
  <2>1. \A k \in Kinds \ {"tables"} : DOMAIN target[k] = DOMAIN snapshot[k]
    BY <1>5, <1>6 DEF Kinds
  <2> QED
    BY <2>1, <1>5 DEF ReportedInv, ExtrasReported
<1>10. ScriptOK(snapshot)
  BY <1>1, <1>3 DEF ScriptOK
<1> QED
  BY <1>4, <1>7, <1>8, <1>9, <1>10 DEF StoryInv, ScriptInv

LEMMA SchemaNext ==
    ASSUME TypeInv, StoryInv, [Next]_vars
    PROVE  TypeInv' /\ StoryInv'
<1>1. CASE UNCHANGED vars
  <2>1. UNCHANGED <<dialect, target, snapshot, scriptVars, historyVars, live, job>>
    BY <1>1 DEF vars, scriptVars, historyVars
  <2>2. TypeInv'
    BY <2>1 DEF TypeInv, JobOK, scriptVars
  <2> QED
    BY <2>1, <2>2, QuietStep
<1>2. CASE Next
  <2>1. TypeInv'
    BY <1>2, TypeNext DEF StoryInv
  <2>2. CASE Alter \/ (\E keep \in Keeps : ReadTables(keep)) \/ ReadColumns \/ ReadIndexes \/ Abandon
    <3>1. UNCHANGED <<dialect, target, snapshot, scriptVars, historyVars>>
      BY <2>2 DEF Alter, ReadTables, ReadColumns, ReadIndexes, Abandon
    <3> QED
      BY <2>1, <3>1, QuietStep
  <2>3. CASE Finish
    BY <2>1, <2>3, FinishStep
  <2>4. CASE \E s \in pending : Run(s)
    BY <2>1, <2>4, RunStep
  <2>5. CASE \E s \in pending : Skip(s)
    BY <2>1, <2>5, SkipStep
  <2>6. CASE Rerun
    BY <2>1, <2>6, RerunStep
  <2> QED
    BY <1>2, <2>2, <2>3, <2>4, <2>5, <2>6 DEF Next
<1> QED
  BY <1>1, <1>2

LEMMA SchemaInvariant == Spec => [](TypeInv /\ StoryInv)
<1>1. Init => TypeInv /\ StoryInv
  BY SchemaInit
<1>2. TypeInv /\ StoryInv /\ [Next]_vars => (TypeInv /\ StoryInv)'
  BY SchemaNext
<1> QED
  BY <1>1, <1>2, PTL DEF Spec

-----------------------------------------------------------------------------
(* What users rely on.                                                     *)

(* Whatever is altered, read, run, skipped and run again: the source and   *)
(* the target stay databases, no column, index or foreign key without its  *)
(* table, and only statements of the last comparison are run (Applied).    *)
THEOREM SchemaTypeCorrect == Spec => []TypeOK
<1>1. TypeInv => TypeOK
  BY DEF TypeInv, TypeOK, JobOK, IsRecorded
<1> QED
  BY <1>1, SchemaInvariant, PTL

(* Once the two files were run, the target has every column of the         *)
(* snapshot as it was recorded, unless a statement about it was skipped:   *)
(* however many rounds went before, whatever was skipped in them, and      *)
(* whatever changed between the queries of a collection (diff, schema.rs). *)
THEOREM SchemaColumnsKeepUp == Spec => []ColumnsKeepUp
<1>1. ASSUME StoryInv, pending = {}, NEW x \in DOMAIN snapshot.columns,
             x[1] \in DOMAIN snapshot.tables, ~ Behind("columns", x)
      PROVE  HasColumn(x)
  BY <1>1 DEF StoryInv, ObjectsInv, ColumnsInv, Waits
<1>2. StoryInv => ColumnsKeepUp
  BY <1>1 DEF ColumnsKeepUp, HasColumn
<1> QED
  BY <1>2, SchemaInvariant, PTL

(* The same of indexes, and in MySQL of foreign keys: a changed index is   *)
(* noted, since no statement brings it over.                               *)
THEOREM SchemaIndexesKeepUp == Spec => []IndexesKeepUp
<1>1. ASSUME StoryInv, pending = {} PROVE \A kind, x : ~ Waits(kind, x)
  BY <1>1 DEF Waits
<1>2. ASSUME StoryInv, pending = {}, NEW x \in DOMAIN snapshot.indexes,
             x[1] \in DOMAIN snapshot.tables, ~ Behind("indexes", x)
      PROVE  HasIndex(x)
  BY <1>1, <1>2 DEF StoryInv, ObjectsInv, IndexesInv
<1>3. ASSUME StoryInv, pending = {}, dialect = "mysql", NEW x \in DOMAIN snapshot.keys,
             x[1] \in DOMAIN snapshot.tables, ~ Behind("keys", x)
      PROVE  x \in DOMAIN target.keys
  BY <1>1, <1>3 DEF StoryInv, ObjectsInv, KeysInv
<1>4. StoryInv => IndexesKeepUp
  BY <1>2, <1>3 DEF IndexesKeepUp, HasIndex
<1> QED
  BY <1>4, SchemaInvariant, PTL

(* Whatever the target has and the snapshot does not know was reported as  *)
(* removed, by itself or with its table: nothing is dropped, and nothing   *)
(* goes by unsaid, also if a filter leaves tables out of a round.          *)
THEOREM SchemaExtrasReported == Spec => []ExtrasReported
<1>1. StoryInv => ExtrasReported
  BY DEF StoryInv, ReportedInv
<1> QED
  BY <1>1, SchemaInvariant, PTL

\* The types for which a widening holds what the old type held.
ExactTypes ==
    /\ \A t \in Types["mysql"] : MySqlType(t)
    /\ \A t \in Types["postgres"] : PgParsedType(t)

\* A change of a column that 01 makes, of one on which the target is not
\* behind, fits what is there: the type the column had in the last snapshot
\* or, if the statement is run again, the one it has now.
LEMMA ModifyFits ==
    ASSUME ExactTypes, TypeInv, StoryInv, NEW s \in pending, Run(s), s.op = "modify", s.file = 1,
           ~ Behind("columns", <<s.obj[2], s.obj[3]>>)
    PROVE  Covers(target.columns[<<s.obj[2], s.obj[3]>>].type, s.text.type)
<1> DEFINE x == <<s.obj[2], s.obj[3]>>
<1>1. PICK old : ScriptOK(old)
  BY DEF StoryInv, ScriptInv
<1>2. /\ s \in script /\ pending \subseteq script /\ Meant(dialect, old, snapshot, s)
      /\ Applies(s, target) /\ IsRecorded(dialect, snapshot) /\ IsRecorded(dialect, old)
      /\ dialect \in Dialects
  BY <1>1, RunCommon DEF ScriptOK
<1>3. /\ s.obj = <<"columns", s.obj[2], s.obj[3]>> /\ x \in DOMAIN snapshot.columns
      /\ s.obj[2] \in Both(old, snapshot) /\ s.text = Definition(dialect, snapshot, x)
      /\ x \in DOMAIN old.columns
      /\ ~ Reviewed(dialect, old.columns[x], snapshot.columns[x])
  <2>1. s.op \in {"add", "modify"}
    OBVIOUS
  <2>2. /\ s.obj = <<"columns", s.obj[2], s.obj[3]>> /\ x \in DOMAIN snapshot.columns
        /\ s.obj[2] \in Both(old, snapshot) /\ s.text = Definition(dialect, snapshot, x)
    BY <2>1, <1>2, ColumnObject
  <2>3. /\ x \in DOMAIN old.columns
        /\ s.file = IF Reviewed(dialect, old.columns[x], snapshot.columns[x]) THEN 2 ELSE 1
    BY <2>1, <1>2, ColumnObject
  <2> QED
    BY <2>2, <2>3
<1>4. x \in DOMAIN target.columns
  BY <1>2 DEF Applies
<1>5. s.text.type = snapshot.columns[x].type
  BY <1>3 DEF Definition
<1>6. CASE s \in done
  <2>1. ~ Waits("columns", x)
    <3>1. SUFFICES ASSUME NEW u \in pending \ done,
                          \/ u.obj = <<"columns", x[1], x[2]>>
                          \/ u.op = "create" /\ u.obj[2] = x[1]
                   PROVE  FALSE
      BY DEF Waits
    <3>2. s.obj = <<"columns", x[1], x[2]>>
      BY <1>3
    <3>3. Meant(dialect, old, snapshot, u)
      BY <1>1, <1>2 DEF ScriptOK
    <3>4. u = s
      BY <3>1, <3>2, <3>3, <1>2, OneAColumn
    <3> QED
      BY <3>1, <3>4, <1>6
  <2>2. x[1] \in DOMAIN snapshot.tables
    BY <1>3 DEF Both
  <2>3. HasColumn(x)
    BY <2>1, <2>2, <1>3 DEF StoryInv, ObjectsInv, ColumnsInv
  <2> QED
    BY <2>3, <1>5 DEF HasColumn, Covers
<1>7. CASE s \notin done
  <2>1. target.columns[x].type = old.columns[x].type
    BY <1>1, <1>2, <1>4, <1>7 DEF ScriptOK
  <2>2. old.columns[x].type \in Types[dialect] /\ snapshot.columns[x].type \in Types[dialect]
    BY <1>2, <1>3 DEF IsRecorded
  <2>3. \/ old.columns[x].type = snapshot.columns[x].type
        \/ dialect = "mysql" /\ Widens(old.columns[x].type, snapshot.columns[x].type)
        \/ dialect = "postgres" /\ PgWidens(old.columns[x].type, snapshot.columns[x].type)
    BY <1>2, <1>3 DEF Reviewed, Dialects
  <2> QED
    BY <2>1, <2>2, <2>3, <1>5, WideningLosesNothing, PgWideningLosesNothing DEF Covers, ExactTypes
<1> QED
  BY <1>6, <1>7

(* Of the types for which a widening holds what the old type held (not of  *)
(* float and double), 01 narrows no column of a target that is not behind  *)
(* on it, whichever statements were skipped or run twice before it.        *)
THEOREM SchemaAutoKeepsData ==
    ASSUME ExactTypes
    PROVE  Spec => []AutoKeepsData
<1>1. Init => AutoKeepsData
  BY DEF Init, AutoKeepsData
<1>2. ASSUME AutoKeepsData, TypeInv, StoryInv, [Next]_vars
      PROVE  AutoKeepsData'
  <2>1. CASE \E s \in pending : Run(s)
    <3>1. PICK s \in pending : Run(s)
      BY <2>1
    <3> DEFINE x == <<s.obj[2], s.obj[3]>>
               r == [was |-> target.columns[x].type, is |-> s.text.type,
                     behind |-> Behind("columns", x)]
    <3>2. CASE s.op = "modify" /\ s.file = 1 /\ ~ Covers(target.columns[x].type, s.text.type)
      <4>1. Behind("columns", x)
        BY <1>2, <3>1, <3>2, ModifyFits
      <4>2. lossy' = lossy \cup {r}
        BY <3>1, <3>2 DEF Run
      <4>3. r.behind = TRUE
        BY <4>1
      <4> QED
        BY <4>2, <4>3, <1>2 DEF AutoKeepsData
    <3>3. CASE ~ (s.op = "modify" /\ s.file = 1 /\ ~ Covers(target.columns[x].type, s.text.type))
      <4>1. lossy' = lossy
        BY <3>1, <3>3 DEF Run
      <4> QED
        BY <4>1, <1>2 DEF AutoKeepsData
    <3> QED
      BY <3>2, <3>3
  <2>2. CASE ~ \E s \in pending : Run(s)
    <3>1. lossy' = lossy
      BY <2>2, <1>2 DEF Next, vars, Alter, ReadTables, ReadColumns, ReadIndexes, Finish, Abandon,
         Skip, Rerun, historyVars
    <3> QED
      BY <3>1, <1>2 DEF AutoKeepsData
  <2> QED
    BY <2>1, <2>2
<1> QED
  BY <1>1, <1>2, SchemaInvariant, PTL DEF Spec

=============================================================================
