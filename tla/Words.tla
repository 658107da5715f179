------------------------------- MODULE Words -------------------------------
(***************************************************************************)
(* What the grammar (src/src/parser/midorisql.y) makes of a statement: a   *)
(* sequence of words in postfix order, each reduction of a production      *)
(* emitting one.                                                           *)
(*                                                                         *)
(* A statement is a tree as it was written: every node has the kind w of   *)
(* the word it is emitted as, its name or literal v, a number opt (the     *)
(* operator of a comparison, the type of a join, a flag) and its operands  *)
(* kids, from left to right.  A column of CREATE TABLE also has its type   *)
(* and its attributes.                                                     *)
(***************************************************************************)
EXTENDS AstRules

CONSTANTS
  Trees,  \* the statements and, with each tree, its operands
  Depth   \* how deep a tree goes

\* A column of CREATE TABLE.
Column(v, type, attrs) ==
  [w |-> "COLUMNDEF", v |-> v, opt |-> 0, kids |-> <<>>, type |-> type, attrs |-> attrs]

\* How many operands the productions give to a word; the words that have any
\* number of them are those of the lists.
Operands(w) ==
  CASE w \in {"NEG", "ISNULL", "ISNOTNULL", "COUNTFIELD", "ALIAS", "ONEXPR", "WHERE", "HAVING",
              "ORDERBYITEM", "ASSIGN"} -> {1}
    [] w \in Arith \cup Logic \cup {"CMP", "LIKE", "NOTLIKE"} -> {2}
    [] w = "JOIN" -> {3}
    [] w = "DELETEONE" -> {0, 1}
    [] w \in {"ISIN", "ISNOTIN", "CASE", "CREATE", "PRIKEY", "KEY", "INSERTCOLS", "VALUES", "INSERTVALS",
              "UPDATE", "GROUPBYLIST", "ORDERBYLIST", "LIMIT", "SELECT"} -> Nat
    [] OTHER -> {0}

\* The words that the productions of each kind of statement emit.
Predicates == ExprVals \cup Logic \cup {"NAME", "CMP", "ISNULL", "ISNOTNULL", "ISIN", "ISNOTIN"}

Spoken(kind) ==
  {"STMT", kind} \cup
  CASE kind = "CREATE" -> {"STARTCOL", "ATTR", "COLUMNDEF", "COLUMN", "PRIKEY", "KEY"}
    [] kind = "INSERTVALS" -> ExprVals \cup Arith \cup {"NEG", "COLUMN", "INSERTCOLS", "VALUES"}
    [] kind = "DELETEONE" -> Predicates \cup {"WHERE"}
    [] kind = "UPDATE" -> Predicates \cup {"WHERE", "ASSIGN", "ERROR"}
    [] kind = "SELECT" ->
         Predicates \cup Arith \cup
         {"NEG", "FIELDNAME", "COUNTALL", "COUNTFIELD", "LIKE", "NOTLIKE", "CASE", "NOW", "ALIAS", "SELECTALL",
          "TABLE", "ONEXPR", "JOIN", "WHERE", "GROUPBYLIST", "HAVING", "ORDERBYITEM", "ORDERBYLIST", "LIMIT"}

\* The number a data type is emitted as; VARCHAR(n) adds its length.
TypeCode(type) ==
  CASE type.sql = "INTEGER"  -> 50000
    [] type.sql = "TINYINT"  -> 60000
    [] type.sql = "DOUBLE"   -> 80000
    [] type.sql = "DATE"     -> 100000
    [] type.sql = "DATETIME" -> 110000
    [] type.sql = "VARCHAR"  -> 130000 + type.len

EmitColumn(t) ==
  <<Word("STARTCOL", "", 0, 0)>>
    \o [i \in DOMAIN t.attrs |-> Word("ATTR", t.attrs[i], 0, 0)]
    \o <<Word("COLUMNDEF", t.v, TypeCode(t.type), 0)>>

\* DELETE and UPDATE have the word WHERE behind their condition.
EmitWhere(t) ==
  IF \/ t.w = "DELETEONE" /\ t.kids # <<>>
     \/ t.w = "UPDATE" /\ t.opt = 1
  THEN <<Word("WHERE", "", 0, 0)>>
  ELSE <<>>

\* What a word counts: not the tested value of IN, nor the column list of an
\* INSERT and the condition of an UPDATE, which have a flag.
Uncounted(t) ==
  CASE t.w \in {"ISIN", "ISNOTIN"} -> 1
    [] t.w \in {"UPDATE", "INSERTVALS"} -> t.opt
    [] OTHER -> 0

\* SET a > 5 is reported by yyerror, but does not stop the parse.
EmitComplaint(t) ==
  IF t.w = "ASSIGN" /\ t.opt # 4 THEN <<Word("ERROR", "", 0, 0)>> ELSE <<>>

EmitOwn(t) == Word(t.w, t.v, Len(t.kids) - Uncounted(t), t.opt)

Emit[t \in Trees] ==
  IF t.w = "COLUMNDEF"
  THEN EmitColumn(t)
  ELSE FlattenSeq([i \in DOMAIN t.kids |-> Emit[t.kids[i]]])
         \o EmitWhere(t) \o EmitComplaint(t) \o <<EmitOwn(t)>>

Statement(t) == Emit[t] \o <<Word("STMT", "", 0, 0)>>

=============================================================================
