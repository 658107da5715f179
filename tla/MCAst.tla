-------------------------------- MODULE MCAst --------------------------------
(***************************************************************************)
(* Statements that between them have every production of the grammar.      *)
(***************************************************************************)
EXTENDS AstMeaning

Leaf(w, v) == Node(w, v, 0, <<>>)
Name(v) == Leaf("NAME", v)
Number(v) == Leaf("NUMBER", v)
Op(w, l, r) == Node(w, "", 0, <<l, r>>)
Un(w, e) == Node(w, "", 0, <<e>>)
Cmp(op, l, r) == Node("CMP", "", op, <<l, r>>)

Integer == [sql |-> "INTEGER", len |-> 0]
Varchar(n) == [sql |-> "VARCHAR", len |-> n]
Columns(names) == [i \in DOMAIN names |-> Leaf("COLUMN", names[i])]

-----------------------------------------------------------------------------

Create(kids) == Node("CREATE", "t", 0, kids)

Creates == {
  Create(<<Column("a", Integer, <<"PRIKEY", "AUTOINC">>), Column("b", Varchar(9999), <<>>),
           Node("PRIKEY", "", 0, Columns(<<"a">>)), Node("KEY", "", 0, Columns(<<"b", "a">>))>>),
  Create(<<Column("odd name", [sql |-> "TINYINT", len |-> 0], <<"NOTNULL", "UNIQUEKEY">>),
           Column("b", [sql |-> "DOUBLE", len |-> 0], <<>>)>>),
  Create(<<Column("a", Varchar(10000), <<>>), Column("b", [sql |-> "DATE", len |-> 0], <<>>)>>)}

Insert(flag, kids) == Node("INSERTVALS", "t", flag, kids)
Values(kids) == Node("VALUES", "", 0, kids)

Inserts == {
  Insert(1, <<Node("INSERTCOLS", "", 0, Columns(<<"a", "b">>)),
              Values(<<Op("SUB", Number("5"), Op("MUL", Number("3"), Number("2"))), Leaf("NULL", "")>>),
              Values(<<Un("NEG", Number("1")), Leaf("STRING", "plain")>>)>>),
  Insert(0, <<Values(<<Op("DIV", Un("NEG", Leaf("FLOAT", "1e+06")), Number("2"))>>),
              Values(<<Leaf("STRING", "empty")>>)>>),
  Insert(0, <<Values(<<Leaf("BOOL", "unknown"), Op("MOD", Number("3"), Number("2"))>>)>>)}

-----------------------------------------------------------------------------

Conditions == {
  Op("AND", Cmp(4, Name("a"), Number("1")), Un("ISNOTNULL", Name("b"))),
  Op("XOR", Node("ISNOTIN", "", 0, <<Name("a"), Number("1"), Leaf("NULL", "")>>),
            Cmp(2, Name("b"), Leaf("STRING", "doublequoted"))),
  Op("OR", Node("ISIN", "", 0, <<Name("a"), Number("1"), Number("2")>>), Un("ISNULL", Name("odd name"))),
  Cmp(1, Leaf("FLOAT", "2.5"), Leaf("BOOL", "1"))}

DeleteFrom(kids) == Node("DELETEONE", "t", 0, kids)

Deletes == {DeleteFrom(<<c>>) : c \in Conditions} \cup {DeleteFrom(<<>>)}

Assign(v, op, e) == Node("ASSIGN", v, op, <<e>>)
Set(name, flag, kids) == Node("UPDATE", name, flag, kids)

Updates ==
  {Set("t", 1, <<Assign("a", 4, Number("1")), Assign("b", 4, Name("a")), c>>) : c \in Conditions}
    \cup {Set("t", 0, <<Assign("a", op, Leaf("NULL", ""))>>) : op \in {2, 4}}
    \cup {Set("odd name", 0, <<Assign("a", 4, Leaf("BOOL", "0"))>>)}

-----------------------------------------------------------------------------

Select(distinct, kids) == Node("SELECT", "", distinct, kids)
TableNamed(v) == Leaf("TABLE", v)
Alias(v, e) == Node("ALIAS", v, 0, <<e>>)
Field(v) == Leaf("FIELDNAME", v)
Where(c) == Un("WHERE", c)
Join(type, l, r, c) == Node("JOIN", "", type, <<l, r, Un("ONEXPR", c)>>)

Selects == {
  Select(0, <<Op("SUB", Number("7"), Un("NEG", Op("ADD", Number("1"), Number("2"))))>>),
  Select(2, <<Alias("x", Name("a")), Node("COUNTFIELD", "", 0, <<Name("b")>>), TableNamed("t"),
              Where(Op("OR", Op("LIKE", Name("a"), Leaf("STRING", "plain")), Un("ISNULL", Name("b")))),
              Node("GROUPBYLIST", "", 0, <<Name("a"), Name("b")>>),
              Un("HAVING", Cmp(4, Leaf("COUNTALL", ""), Number("1"))),
              Node("ORDERBYLIST", "", 0,
                   <<Node("ORDERBYITEM", "", 1, <<Name("a")>>), Node("ORDERBYITEM", "", 0, <<Name("b")>>)>>),
              Node("LIMIT", "", 0, <<Number("1"), Number("2")>>)>>),
  Select(0, <<Leaf("SELECTALL", ""),
              Join(3, Join(1, Alias("x", TableNamed("t")), TableNamed("u"), Cmp(4, Field("x.a"), Field("u.a"))),
                   TableNamed("w"), Node("ISIN", "", 0, <<Field("u.b"), Number("1")>>)),
              Where(Op("NOTLIKE", Field("u.a"), Leaf("STRING", "plain")))>>),
  Select(0, <<Leaf("SELECTALL", ""), TableNamed("t"), TableNamed("u"),
              Where(Op("AND", Un("ISNOTNULL", Field("odd name")), Leaf("NULL", "")))>>),
  Select(0, <<Leaf("SELECTALL", "")>>),
  Select(0, <<Leaf("NOW", "")>>)}

MCStatements == Creates \cup Inserts \cup Deletes \cup Updates \cup Selects

RECURSIVE Below(_)
Below(t) == {t} \cup UNION {Below(k) : k \in ToSet(t.kids)}

MCTrees == UNION {Below(s) : s \in MCStatements}

\* Any number that grows from an operand to its tree will do.
MCDepth == [t \in MCTrees |-> Cardinality(Below(t))]

MCWordsOf == [s \in MCStatements |-> Statement(s)]

=============================================================================
