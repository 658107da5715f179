------------------------------ MODULE MCWhere ------------------------------
(***************************************************************************)
(* A table that holds every row over two INT columns (b without NULLs), a  *)
(* TINYINT and a VARCHAR, and the statements that are run against it.      *)
(***************************************************************************)
EXTENDS WhereMeaning

Cols == {"a", "b", "f", "s"}

ColumnTypes == [c \in Cols |-> CASE c \in {"a", "b"} -> "int" [] c = "f" -> "bool" [] c = "s" -> "str"]

V(type, val) == [type |-> type, val |-> val]

Ref(c) == [name |-> c]

Ints == {V("int", v) : v \in {0, 1}}
Bools == {V("bool", v) : v \in {0, 1}}
Strs == {V("str", v) : v \in {0, 1}}

Literals == Ints \cup Bools \cup Strs \cup {Null}

\* Every row, and a deleted one in front: digit d of a column is the value d,
\* or NULL if d is 2.
Digit(type, d) == IF d = 2 THEN Null ELSE V(type, d)

AllRows ==
  <<Gone>> \o
  [n \in 1 .. 54 |-> [c \in Cols |-> CASE c = "a" -> Digit("int", n % 3)
                                      [] c = "f" -> Digit("bool", (n \div 3) % 3)
                                      [] c = "s" -> Digit("str", (n \div 9) % 3)
                                      [] c = "b" -> Digit("int", (n \div 27) % 2)]]

FewRows == <<[c \in Cols |-> V(ColumnTypes[c], 0)], [c \in Cols |-> V(ColumnTypes[c], 1)]>>

\* -2 and 2 are one C int apart when IntHalf is 2.
WideRows == <<[FewRows[1] EXCEPT !["a"] = V("int", -2)], [FewRows[1] EXCEPT !["a"] = V("int", 2)]>>

Ops == {"=", "<>", "<", "<=", ">", ">="}

Cmp(l, op, r) == [node |-> "cmp", op |-> op, left |-> l, right |-> r]
IsNull(x, neg) == [node |-> "isnull", neg |-> neg, arg |-> x]
In(args, neg) == [node |-> "isin", neg |-> neg, args |-> args]
Log(gate, l, r) == [node |-> "logop", gate |-> gate, left |-> l, right |-> r]
Always == [node |-> "none"]

Delete(c) == [verb |-> "delete", where |-> c]
Select(c) == [verb |-> "select", where |-> c]
Update(set, c) == [verb |-> "update", where |-> c, set |-> set]
Set(field, value) == [field |-> field, value |-> value]

\* Comparisons that all three statements agree on; "x" is no column.
Names2 == {Ref(c) : c \in Cols \cup {"x"}}
Comparisons ==
  {Cmp(l, op, r) : l \in Names2 \cup Literals, op \in Ops, r \in Literals}
    \cup {Cmp(l, op, r) : l \in Literals, op \in Equality, r \in Names2}
    \cup {Cmp(p[1], op, p[2]) : p \in {p \in Names2 \X Names2 : p[1] # p[2]}, op \in Ops}

\* IN lists of one value; DELETE and UPDATE agree with SQL on longer ones.
Lists1 == {In(<<x, v>>, neg) : x \in Names2, v \in Literals \ {Null}, neg \in BOOLEAN}
            \cup {In(<<Ref("a"), V("int", 0), Ref("b")>>, FALSE)}
Lists2 == {In(<<x, v, w>>, FALSE) : x \in Names2, v \in Literals, w \in Literals}
            \cup {In(<<V("int", 0), Ref("a")>>, neg) : neg \in BOOLEAN}

NullTests == {IsNull(x, neg) : x \in Names2 \cup {V("int", 0)}, neg \in BOOLEAN}

\* Leaves that AND, OR and XOR join; those in Known are never unknown.
Known == {Cmp(Ref("b"), op, V("int", 1)) : op \in {"=", "<", ">="}}
           \cup {Cmp(V("int", 0), "=", Ref("b"))}
Joined == Known \cup
  {Cmp(Ref("a"), "=", V("int", 0)), Cmp(Ref("a"), "<", Ref("b")), Cmp(Ref("a"), "<>", Null),
   Cmp(Ref("f"), "<>", V("bool", 1)), Cmp(Ref("s"), "=", V("str", 0)),
   In(<<Ref("a"), V("int", 1)>>, TRUE), In(<<Ref("s"), V("str", 1)>>, FALSE)}

Pairs ==
  {Log(gate, l, r) : gate \in {"and", "or"}, l \in Joined, r \in Joined}
    \cup {Log("xor", l, r) : l \in Known, r \in Known}
    \cup {Log("and", Cmp(Ref("a"), "=", V("str", 0)), r) : r \in Joined}
    \cup {Log("or", IsNull(Ref("a"), neg), IsNull(Ref("b"), neg)) : neg \in BOOLEAN}

Triples ==
  {Log(g, Log(h, l, r), t) : g \in {"and", "or"}, h \in {"and", "or"},
                             l \in {Cmp(Ref("a"), "=", V("int", 0))},
                             r \in Joined, t \in {Cmp(Ref("f"), "=", V("bool", 1)), Cmp(Ref("b"), ">", Ref("a"))}}

Wheres == {Always} \cup Comparisons \cup Lists1 \cup NullTests \cup Pairs \cup Triples

Sets ==
  {<<Set("a", v)>> : v \in Literals}
    \cup {<<Set("s", V("str", 1)), Set("f", Null)>>, <<Set("f", V("bool", 1)), Set("b", V("bool", 1))>>,
          <<Set("a", V("int", 0)), Set("a", V("int", 1))>>, <<Set("x", V("int", 0))>>}

PlainStatements ==
  {Delete(c) : c \in Wheres \cup Lists2} \cup {Select(c) : c \in Wheres}
    \cup {Update(set, c) : set \in Sets, c \in {Always} \cup NullTests \cup Lists1 \cup Triples}

\* One kind of statement for each disagreement with SQL.
NotInStatements == {Delete(In(<<Ref("a"), V("int", 0), V("int", 1)>>, TRUE))}
TurnedStatements == {Delete(Cmp(V("int", 0), "<", Ref("a")))}
SelectInStatements == {Select(In(<<Ref("a"), V("int", 0), V("int", 1)>>, FALSE))}
WideStatements == {Delete(Cmp(Ref("a"), "=", V("int", -2)))}
OneColumnStatements == {Delete(Cmp(Ref("a"), "=", Ref("a"))), Update(<<Set("b", V("int", 0))>>, Cmp(Ref("a"), "=", Ref("a")))}
TwoWrongsStatements == {Select(Log("and", Cmp(Ref("a"), "=", V("str", 0)), Cmp(Ref("a"), "=", V("str", 1))))}
FromColumnStatements == {Update(<<Set("a", Ref("b"))>>, Always)}
CrossingStatements ==
  {Update(<<Set("a", V("int", 1))>>, Cmp(Ref("a"), "=", V("int", 0))),
   Update(<<Set("a", V("int", 0))>>, Cmp(Ref("a"), "=", V("int", 1)))}

OddStatements ==
  NotInStatements \cup TurnedStatements \cup SelectInStatements \cup WideStatements
    \cup OneColumnStatements \cup TwoWrongsStatements \cup FromColumnStatements \cup CrossingStatements

\* The conditions of the statements, with those that they join.
AllConditions ==
  LET joining == {stmt.where : stmt \in TwoWrongsStatements} \cup Pairs \cup Triples
  IN  {stmt.where : stmt \in PlainStatements \cup OddStatements}
        \cup {c.left : c \in joining} \cup {c.right : c \in joining}

RECURSIVE Height(_)
Height(c) == IF c.node = "logop" THEN 1 + Max({Height(c.left), Height(c.right)}) ELSE 0

Heights == [c \in AllConditions |-> Height(c)]

\* TLC keeps the value of a definition, but evaluates what the .cfg substitutes
\* wherever it is used: what is large has a definition of its own above.
MCConditions == AllConditions
MCDepth == Heights
MCRows == AllRows
MCStatements == PlainStatements

\* The plain statements are among those for which the code keeps its promises.
ASSUME Promised ==
  Statements = PlainStatements =>
    /\ OneSession /\ NarrowRows
    /\ \A stmt \in Statements :
         /\ NoTwoWrongs(stmt) /\ SetsLiterals(stmt) /\ NoTraps(stmt) /\ MeetsRows(stmt)
         /\ NarrowLiterals(stmt) /\ EvaluatedAsSQL(stmt)
=============================================================================
