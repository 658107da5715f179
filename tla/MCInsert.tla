------------------------------- MODULE MCInsert -------------------------------
(***************************************************************************)
(* Two sessions, five columns, four-bit ints; statements that have every   *)
(* kind of literal, every operator, and each reason for being refused.     *)
(***************************************************************************)
EXTENDS Insert, FiniteSetsExt

MCColumns == <<
  [name |-> "a", type |-> "INTEGER", precision |-> 8, nullable |-> FALSE],
  [name |-> "b", type |-> "DOUBLE", precision |-> 8, nullable |-> TRUE],
  [name |-> "v", type |-> "VARCHAR", precision |-> 3, nullable |-> TRUE],
  [name |-> "d", type |-> "DATE", precision |-> 8, nullable |-> TRUE],
  [name |-> "f", type |-> "TINYINT", precision |-> 1, nullable |-> TRUE]>>

Int_(n) == [op |-> "int", n |-> n, d |-> 1, args |-> <<>>]
Approx(n, d) == [op |-> "approx", n |-> n, d |-> d, args |-> <<>>]
Str(len) == [op |-> "str", n |-> len, d |-> 1, args |-> <<>>]
Date == [op |-> "date", n |-> 10, d |-> 1, args |-> <<>>]
Bool == [op |-> "bool", n |-> 1, d |-> 1, args |-> <<>>]
NullTerm == [op |-> "null", n |-> 0, d |-> 1, args |-> <<>>]
Bin(op, l, r) == [op |-> op, n |-> 0, d |-> 1, args |-> <<l, r>>]
Neg(e) == [op |-> "NEG", n |-> 0, d |-> 1, args |-> <<e>>]

By(l, r) == Bin("DIV", l, r)

\* Seven minus three times two, and what else can be told apart by its value.
IntExprs == {
  Bin("SUB", Int_(7), Bin("MUL", Int_(3), Int_(2))),
  Bin("SUB", Bin("SUB", Int_(1), Int_(5)), Int_(3)),
  By(Neg(Int_(7)), Int_(2)),
  Bin("MOD", Int_(-7), Int_(4)),
  Bin("ADD", Int_(7), Int_(1)),                         \* overflows
  Neg(Int_(-8)),                                        \* does not
  By(Int_(1), Bin("ADD", Int_(-8), Int_(-8))),          \* by a sum that overflows to zero
  Bin("ADD", By(Int_(1), Int_(0)), Int_(2))}            \* NULL

\* NULL on the right, a negated NULL, and remainders by zero.
BadExprs == {
  Bin("ADD", Int_(2), By(Int_(1), Int_(0))),
  Neg(By(Int_(1), Int_(0))),
  Bin("MOD", Int_(1), Int_(0)),
  Bin("MUL", Int_(1), Bool)}

ApproxExprs == {
  By(Bin("SUB", Approx(1, 2), Approx(2, 1)), Approx(-3, 4)),
  Bin("MOD", Approx(7, 1), Approx(5, 2)),
  Bin("MOD", Approx(7, 1), Approx(1, 2)),
  Neg(Bin("MUL", Approx(1, 2), Bin("ADD", Approx(1, 2), Approx(3, 1)))),
  Bin("MOD", Bin("MUL", Approx(-4, 1), Approx(2, 1)), Approx(-1, 1)),  \* of the least int by -1
  By(Approx(1, 2), Approx(0, 1))}

Into(cols, rows) == [table |-> "t", cols |-> cols, rows |-> rows]

MCStatements ==
     {Into(<<"a">>, <<<<e>>>>) : e \in IntExprs \cup BadExprs}
  \cup {Into(<<"b", "a">>, <<<<e, Int_(1)>>, <<NullTerm, Int_(2)>>>>) : e \in ApproxExprs}
  \cup {Into(<<"a", "f">>, <<<<Int_(3), t>>>>) : t \in {Bool, Int_(1), NullTerm}}
  \cup {Into(<<"v", "a">>, <<<<Str(2), Int_(1)>>, <<Str(len), Int_(2)>>>>) : len \in {1, 3}}
  \cup {Into(<<"d", "a">>, <<<<Date, Int_(1)>>, <<s, Int_(2)>>>>) : s \in {Date, Str(2)}}
  \cup {Into(<<>>, <<<<Int_(5), Approx(1, 2), Str(1), Date, Bool>>,
                     <<Int_(6), NullTerm, NullTerm, NullTerm, NullTerm>>>>),
        Into(<<>>, <<<<Int_(5)>>>>),
        Into(<<"a", "b">>, <<<<Int_(5), NullTerm>>, <<Int_(5)>>>>),
        Into(<<"a", "a">>, <<<<Int_(1), Int_(2)>>>>),
        Into(<<"a", "z">>, <<<<Int_(1), Int_(2)>>>>),
        Into(<<"a">>, <<<<NullTerm>>>>),
        Into(<<"b">>, <<<<Approx(1, 2)>>>>),
        [table |-> "u", cols |-> <<>>, rows |-> <<<<Int_(1)>>>>]}

RECURSIVE Operands(_)
Operands(e) == {e} \cup UNION {Operands(e.args[i]) : i \in DOMAIN e.args}

MCExprs ==
  UNION {UNION {UNION {Operands(stmt.rows[r][i]) : i \in DOMAIN stmt.rows[r]} : r \in DOMAIN stmt.rows} :
           stmt \in MCStatements}

RECURSIVE DepthOf(_)
DepthOf(e) == IF e.args = <<>> THEN 0 ELSE 1 + Max({DepthOf(e.args[i]) : i \in DOMAIN e.args})

MCDepth == [e \in MCExprs |-> DepthOf(e)]

=============================================================================
