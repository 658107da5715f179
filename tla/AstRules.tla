------------------------------ MODULE AstRules ------------------------------
(***************************************************************************)
(* The builders of the nodes of a statement's tree: ast_create.c,          *)
(* ast_insert.c, ast_delete.c, ast_update.c and ast_select.c.  They share  *)
(* a shape and differ in these respects:                                   *)
(*   polls   the word leaves the queue before the node is allocated        *)
(*           ("first") or after it ("late");                               *)
(*   match   the word goes through a regular expression, which may fail;   *)
(*   pops    how many nodes of the stack become its children;              *)
(*   order   each popped node is put in front of the ones popped before    *)
(*           ("written": the children are in the order they were written), *)
(*           or the two operands change places ("swapped");                *)
(*   marker  it makes a child of its own, the -1 of a negation.            *)
(***************************************************************************)
EXTENDS Integers, Sequences, SequencesExt

\* A word, as emit() writes it, and a node that is made of it.
Word(w, v, n, opt) == [w |-> w, v |-> v, n |-> n, opt |-> opt]

Node(w, v, opt, kids) == [w |-> w, v |-> v, opt |-> opt, kids |-> kids]

Rule(polls, match, pops, order) ==
  [polls |-> polls, match |-> match, pops |-> pops, order |-> order, marker |-> FALSE]

\* Allocate, take the word out of the queue, match it, pop.
Parsed(pops) == Rule("late", TRUE, pops, "written")

\* Throw the word away, allocate, pop.
Discarded(pops) == Rule("first", FALSE, pops, "written")

Unsupported == Rule("late", FALSE, 0, "exit")

ExprVals == {"NUMBER", "STRING", "FLOAT", "BOOL", "NULL"}
Logic == {"AND", "OR", "XOR"}
Arith == {"ADD", "SUB", "DIV", "MUL", "MOD"}

\* NULL is the only value that is not matched.
ExprVal(word) == IF word.w = "NULL" THEN Rule("late", FALSE, 0, "written") ELSE Parsed(0)

-----------------------------------------------------------------------------
(* CREATE TABLE; the column definition is an action of its own.            *)

CrtCreate(word) == Parsed(word.n)
CrtIndexcol(word) == Parsed(0)
CrtPrimary(word) == Parsed(word.n)
CrtIndex(word) == Parsed(word.n)

\* Words are told apart by how they begin: COLUMNDEF begins with COLUMN.
CreateRule(word) ==
  CASE word.w = "CREATE" -> CrtCreate(word)
    [] word.w \in {"COLUMN", "COLUMNDEF"} -> CrtIndexcol(word)
    [] word.w = "PRIKEY" -> CrtPrimary(word)
    [] word.w = "KEY" -> CrtIndex(word)
    [] OTHER -> Unsupported

-----------------------------------------------------------------------------
(* INSERT                                                                  *)

InsColumn(word) == Parsed(0)
InsInscols(word) == Parsed(word.n)
InsExprVal(word) == ExprVal(word)

\* The operands end up right one first; the constant folding reads them so.
InsExprOp(word) == Rule("first", FALSE, 2, "swapped")
InsNegation(word) == [Rule("first", FALSE, 1, "written") EXCEPT !.marker = TRUE]
InsValues(word) == Parsed(word.n)
\* Mutant of InsInsvals: the column list stays on the stack.
InsInsvalsRowsOnly(word) == Parsed(word.n)

InsInsvals(word) == Parsed(word.n + word.opt)

InsertRule(word) ==
  CASE word.w = "COLUMN" -> InsColumn(word)
    [] word.w = "INSERTCOLS" -> InsInscols(word)
    [] word.w \in ExprVals -> InsExprVal(word)
    [] word.w \in Arith -> InsExprOp(word)
    [] word.w = "NEG" -> InsNegation(word)
    [] word.w = "VALUES" -> InsValues(word)
    [] word.w = "INSERTVALS" -> InsInsvals(word)
    [] OTHER -> Unsupported

-----------------------------------------------------------------------------
(* DELETE                                                                  *)

DelIsxin(word) == Parsed(word.n + 1)
DelIsxnull(word) == Discarded(1)
DelExprVal(word) == ExprVal(word)
DelCmp(word) == Parsed(2)
DelLogop(word) == Discarded(2)

\* Whatever is on the stack is the condition.
DelDeleteone(word, depth) == Parsed(IF depth > 0 THEN 1 ELSE 0)

DeleteRule(word, depth) ==
  CASE word.w \in ExprVals \cup {"NAME"} -> DelExprVal(word)
    [] word.w = "CMP" -> DelCmp(word)
    [] word.w \in Logic -> DelLogop(word)
    [] word.w \in {"ISNULL", "ISNOTNULL"} -> DelIsxnull(word)
    [] word.w \in {"ISIN", "ISNOTIN"} -> DelIsxin(word)
    [] word.w = "DELETEONE" -> DelDeleteone(word, depth)
    [] OTHER -> Unsupported

-----------------------------------------------------------------------------
(* UPDATE                                                                  *)

UpdAssign(word) == Parsed(1)
UpdIsxin(word) == Parsed(word.n + 1)
UpdIsxnull(word) == Discarded(1)
UpdExprVal(word) == ExprVal(word)
UpdCmp(word) == Parsed(2)
UpdLogop(word) == Discarded(2)
UpdUpdate(word) == Parsed(word.opt + word.n)

UpdateRule(word) ==
  CASE word.w \in ExprVals \cup {"NAME"} -> UpdExprVal(word)
    [] word.w = "CMP" -> UpdCmp(word)
    [] word.w \in Logic -> UpdLogop(word)
    [] word.w \in {"ISNULL", "ISNOTNULL"} -> UpdIsxnull(word)
    [] word.w \in {"ISIN", "ISNOTIN"} -> UpdIsxin(word)
    [] word.w = "ASSIGN" -> UpdAssign(word)
    [] word.w = "UPDATE" -> UpdUpdate(word)
    [] OTHER -> Unsupported

-----------------------------------------------------------------------------
(* SELECT                                                                  *)

SelExprVal(word) == ExprVal(word)
SelExprOp(word) == Rule("first", FALSE, 2, "swapped")
SelNegation(word) == [Rule("first", FALSE, 1, "written") EXCEPT !.marker = TRUE]
SelAlias(word) == Parsed(1)
SelFieldname(word) == Parsed(0)
SelSelectall(word) == Discarded(0)
SelTable(word) == Parsed(0)
SelCmp(word) == Parsed(2)
SelLogop(word) == Discarded(2)
SelIsxnull(word) == Discarded(1)
SelIsxin(word) == Parsed(word.n + 1)
SelCount(word) == Discarded(IF word.w = "COUNTFIELD" THEN 1 ELSE 0)
SelLike(word) == Discarded(2)
SelOnexpr(word) == Discarded(1)
SelJoin(word) == Parsed(3)
SelWhere(word) == Discarded(1)
SelGroupby(word) == Parsed(word.n)
SelOrderbylist(word) == Parsed(word.n)
SelOrderbyitem(word) == Parsed(1)
SelLimit(word) == Parsed(word.n)
SelHaving(word) == Discarded(1)
SelSelect(word) == Parsed(word.n)

SelectRule(word) ==
  CASE word.w \in ExprVals \cup {"NAME"} -> SelExprVal(word)
    [] word.w \in Arith -> SelExprOp(word)
    [] word.w = "NEG" -> SelNegation(word)
    [] word.w = "ALIAS" -> SelAlias(word)
    [] word.w = "FIELDNAME" -> SelFieldname(word)
    [] word.w = "SELECTALL" -> SelSelectall(word)
    [] word.w = "TABLE" -> SelTable(word)
    [] word.w = "GROUPBYLIST" -> SelGroupby(word)
    [] word.w = "ORDERBYLIST" -> SelOrderbylist(word)
    [] word.w = "ORDERBYITEM" -> SelOrderbyitem(word)
    [] word.w = "CMP" -> SelCmp(word)
    [] word.w \in Logic -> SelLogop(word)
    [] word.w \in {"ISNULL", "ISNOTNULL"} -> SelIsxnull(word)
    [] word.w \in {"ISIN", "ISNOTIN"} -> SelIsxin(word)
    [] word.w \in {"COUNTFIELD", "COUNTALL"} -> SelCount(word)
    [] word.w \in {"LIKE", "NOTLIKE"} -> SelLike(word)
    [] word.w = "ONEXPR" -> SelOnexpr(word)
    [] word.w = "JOIN" -> SelJoin(word)
    [] word.w = "WHERE" -> SelWhere(word)
    [] word.w = "HAVING" -> SelHaving(word)
    [] word.w = "LIMIT" -> SelLimit(word)
    [] word.w = "SELECT" -> SelSelect(word)
    [] OTHER -> Unsupported

=============================================================================
