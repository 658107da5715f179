------------------------------ MODULE MCSelect --------------------------------
(***************************************************************************)
(* Four tables, six contents and the statements that take each way       *)
(* through the phases of SELECT.                                           *)
(***************************************************************************)
EXTENDS SelectMeaning

Col(name, type) == [name |-> name, type |-> type]

MCTables ==
  "A" :> <<Col("id", "int"), Col("f", "int")>> @@
  "B" :> <<Col("id", "int"), Col("g", "double")>> @@
  "C" :> <<Col("k", "int"), Col("v", "str")>> @@
  "D" :> <<Col("h", "int")>>

Holding(a, b, c, d) == "A" :> a @@ "B" :> b @@ "C" :> c @@ "D" :> d

MCContents == {
  Holding(<<<<1, 1>>, <<2, 2>>, <<3, 1>>>>, <<<<1, 2>>, <<3, 4>>>>, <<<<1, 5>>, <<3, 6>>>>, <<<<1>>, <<3>>>>),
  Holding(<<<<1, 0>>, <<1, Null>>, <<2, Null>>>>, <<<<1, Null>>, <<Null, 4>>>>, <<<<2, Null>>>>, <<<<1>>>>),
  Holding(<<<<1, 1>>, Gone, <<2, 1>>, <<2, 2>>>>, <<Gone, <<2, 2>>>>, <<>>, <<>>),
  Holding(<<<<1, 2>>, <<2, 1>>, <<3, 2>>, <<1, 1>>, <<2, 2>>, <<3, 1>>>>, <<>>, <<<<1, 1>>>>, <<<<2>>>>),
  Holding(<<<<1, 9>>, <<9, 1>>>>, <<<<1, 1>>, <<1, 2>>>>, <<<<1, 5>>>>, <<<<9>>>>),
  Holding(<<<<2, 1>>>>, <<<<2, 2>>, <<2, 2>>, <<1, 6>>>>, <<<<1, 5>>, <<2, 5>>>>, <<<<1>>, <<2>>>>)}

T(t) == [kind |-> "table", table |-> t, as |-> ""]
As(t, a) == [kind |-> "table", table |-> t, as |-> a]
Joined_(type, l, r, on) == [kind |-> "join", type |-> type, left |-> l, right |-> r, on |-> on]
Join(l, r, on) == Joined_("inner", l, r, on)
N(col) == [tab |-> "", col |-> col]
Q(tab, col) == [tab |-> tab, col |-> col]
V(v) == [val |-> v]
Cmp(op, l, r) == [op |-> op, left |-> l, right |-> r]
Field(ref) == [kind |-> "field", ref |-> ref, as |-> ""]
Alias(ref, a) == [kind |-> "field", ref |-> ref, as |-> a]
All == [kind |-> "all", ref |-> NoRef, as |-> ""]
Count == [kind |-> "count", ref |-> NoRef, as |-> ""]
CountAs(a) == [kind |-> "count", ref |-> NoRef, as |-> a]

Ask(items, entries, where, by) == [items |-> items, from |-> entries, where |-> where, group |-> by]

AB == Join(T("A"), T("B"), Cmp("=", Q("A", "id"), Q("B", "id")))
ABC == Join(AB, T("C"), Cmp("=", N("k"), Q("A", "id")))
ABD == Join(AB, T("D"), Cmp("=", N("h"), Q("A", "id")))

OneTable == {
  Ask(<<All>>, <<T("A")>>, AnyRow, <<>>),
  Ask(<<Field(N("f"))>>, <<T("A")>>, Cmp("<", N("f"), V(2)), <<>>),
  Ask(<<Field(Q("A", "f")), Field(N("id"))>>, <<T("A")>>, Cmp("<>", Q("A", "id"), V(1)), <<>>),
  Ask(<<Field(N("v"))>>, <<T("C")>>, Cmp("<", N("k"), V(3)), <<>>),
  Ask(<<Field(N("f")), Count>>, <<T("A")>>, AnyRow, <<N("f")>>),
  Ask(<<Field(N("id")), Count>>, <<T("A")>>, Cmp("<", N("f"), V(2)), <<N("id")>>),
  Ask(<<Field(N("g"))>>, <<T("B")>>, AnyRow, <<N("g")>>),
  Ask(<<Field(N("id")), Field(N("f")), Count>>, <<T("A")>>, AnyRow, <<N("id"), N("f")>>),
  Ask(<<Count>>, <<T("A")>>, AnyRow, <<N("f")>>),
  Ask(<<Count>>, <<T("A")>>, Cmp("<", N("id"), V(0)), <<>>),
  Ask(<<Count>>, <<T("A")>>, Cmp("<>", N("f"), V(1)), <<>>),
  Ask(<<Count, Field(N("f"))>>, <<T("A")>>, AnyRow, <<>>),
  Ask(<<Field(N("z"))>>, <<T("A")>>, AnyRow, <<>>),
  Ask(<<All>>, <<T("Z")>>, AnyRow, <<>>)}

TwoTables == {
  Ask(<<All>>, <<T("A"), T("B")>>, AnyRow, <<>>),
  Ask(<<Field(N("id"))>>, <<T("A"), T("B")>>, AnyRow, <<>>),
  Ask(<<Field(N("f")), Field(Q("B", "id"))>>, <<T("A"), T("B")>>, Cmp("=", N("f"), Q("B", "id")), <<>>),
  Ask(<<All>>, <<AB>>, AnyRow, <<>>),
  Ask(<<Field(N("g")), Field(N("f"))>>, <<AB>>, Cmp("<", N("f"), V(2)), <<>>),
  Ask(<<Field(Q("A", "id")), Count>>, <<AB>>, AnyRow, <<Q("A", "id")>>),
  Ask(<<Count>>, <<AB>>, AnyRow, <<>>),
  Ask(<<Field(Q("x", "f")), Field(Q("y", "g"))>>,
      <<Join(As("A", "x"), As("B", "y"), Cmp("=", Q("x", "id"), Q("y", "id")))>>, AnyRow, <<>>),
  Ask(<<Field(Q("B", "f"))>>, <<As("A", "B"), As("B", "A")>>, AnyRow, <<>>),
  Ask(<<Field(N("v")), Field(N("f"))>>, <<Join(T("C"), T("A"), Cmp("=", N("k"), N("f")))>>, AnyRow, <<>>),
  Ask(<<Field(Q("x", "f"))>>, <<As("A", "x"), As("A", "y")>>, Cmp("=", Q("x", "id"), Q("y", "f")), <<>>),
  Ask(<<Field(N("f"))>>, <<As("A", "x"), T("D")>>, Cmp("=", Q("A", "id"), N("h")), <<>>)}

ThreeTables == {
  Ask(<<All>>, <<ABC>>, AnyRow, <<>>),
  Ask(<<Field(N("f")), Field(N("h"))>>, <<ABD>>, AnyRow, <<>>),
  Ask(<<Field(N("f")), Field(N("h"))>>, <<T("A"), T("D"), T("B")>>, Cmp("=", N("f"), N("h")), <<>>),
  Ask(<<Field(N("h"))>>, <<T("D"), AB>>, AnyRow, <<>>),
  Ask(<<Field(N("g"))>>, <<AB, T("D")>>, AnyRow, <<>>),
  Ask(<<All>>, <<AB, T("C"), T("D")>>, AnyRow, <<>>),
  Ask(<<All>>, <<AB, Join(T("C"), T("D"), Cmp("=", N("k"), N("h")))>>, AnyRow, <<>>)}

OuterJoins == {
  Ask(<<All>>, <<Joined_("left", T("A"), T("B"), Cmp("=", Q("A", "id"), Q("B", "id")))>>, AnyRow, <<>>),
  Ask(<<Field(N("f"))>>, <<Joined_("right outer", AB, T("D"), Cmp("=", N("h"), Q("A", "id")))>>, AnyRow, <<>>)}

Aliases == {
  Ask(<<Alias(N("f"), "x")>>, <<T("A")>>, AnyRow, <<>>),
  Ask(<<Alias(N("f"), "x")>>, <<T("A")>>, Cmp("<", N("x"), V(2)), <<>>),
  Ask(<<Alias(N("f"), "x"), Count>>, <<T("A")>>, AnyRow, <<N("x")>>),
  Ask(<<Alias(N("f"), "f")>>, <<T("A")>>, AnyRow, <<>>),
  Ask(<<Field(N("f")), CountAs("n")>>, <<T("A")>>, AnyRow, <<N("f")>>),
  Ask(<<CountAs("n")>>, <<T("A")>>, Cmp("<", N("n"), V(2)), <<>>),
  Ask(<<Alias(Q("A", "f"), "x")>>, <<T("A")>>, AnyRow, <<>>),
  Ask(<<Alias(N("f"), "x"), Alias(N("id"), "x")>>, <<T("A")>>, AnyRow, <<>>)}

MCQueries == OneTable \cup TwoTables \cup ThreeTables \cup OuterJoins \cup Aliases
=============================================================================
