----------------------------- MODULE AstMeaning -----------------------------
(***************************************************************************)
(* What the builders owe the statement: the tree that was written.         *)
(***************************************************************************)
EXTENDS AstBuilder, Words

\* A tree is what a production makes of its operands; WHERE belongs to
\* SELECT, where it has a condition, and no statement is part of another.
ASSUME TreesAssumption ==
  /\ Depth \in [Trees -> Nat]
  /\ \A t \in Trees :
       /\ t = IF t.w = "COLUMNDEF" THEN Column(t.v, t.type, t.attrs) ELSE Node(t.w, t.v, t.opt, t.kids)
       /\ t.w \notin {"STARTCOL", "ATTR", "STMT"}
       /\ t.opt \in Nat
       /\ t.kids \in Seq(Trees) /\ Len(t.kids) \in Operands(t.w)
       /\ \A i \in DOMAIN t.kids :
            LET kid == t.kids[i] IN
              /\ Depth[kid] < Depth[t]
              /\ kid.w \notin Builders
              /\ kid.w = "WHERE" => t.w = "SELECT"
       /\ t.w = "COLUMNDEF" =>
            /\ t.attrs \in Seq(ToSet(t.attrs))
            /\ t.type = [sql |-> t.type.sql, len |-> t.type.len]
            /\ t.type.sql \in {"INTEGER", "TINYINT", "DOUBLE", "DATE", "DATETIME", "VARCHAR"}
            /\ IF t.type.sql = "VARCHAR" THEN t.type.len \in Nat ELSE t.type.len = 0

\* The words are those of the grammar, in which * alone is no statement.
ASSUME GrammarAssumption ==
  /\ Statements \subseteq Trees
  /\ \A s \in Statements :
       /\ s.w # "SELECTALL"
       /\ WordsOf[s] = Statement(s)
       /\ \A word \in ToSet(WordsOf[s]) :
            /\ word # None /\ word.v # NoMatch
            /\ s.w \in Builders => word.w \in Spoken(s.w)

\* A statement the builders claim to read: no word that ends the process,
\* no literal that does not match, no name or number that is cut.
Plain ==
  \A word \in ToSet(WordsOf[stmt]) :
    /\ word.w \notin {"CASE", "NOW", "ERROR"}
    /\ IF word.w = "COLUMNDEF"
       THEN KnownType(word.n) /\ CutAt(word.v) = word.v
       ELSE Matched(word) = word.v

\* The nodes of a memory that are the root of a copy of a tree.
Copies(m) ==
  LET Built[t \in Trees] ==
        {i \in DOMAIN m :
           LET node == m[i] IN
             CASE t.w = "COLUMNDEF" ->
                    /\ node.w = "COLUMNDEF"
                    /\ node.v = t.v
                    /\ node.type = t.type
                    /\ node.flags = FlagsOf(t.attrs)
               [] t.w = "NEG" ->
                    /\ node.w = "MUL"
                    /\ Len(node.kids) = 2
                    /\ m[node.kids[1]] = MarkerNode
                    /\ node.kids[2] \in Built[t.kids[1]]
               [] OTHER ->
                    /\ <<node.w, node.v, node.opt>> = <<t.w, t.v, t.opt>>
                    /\ Len(node.kids) = Len(t.kids)
                    /\ \A j \in DOMAIN t.kids :
                         node.kids[IF t.w \in Arith THEN 3 - j ELSE j] \in Built[t.kids[j]]}
  IN  Built

\* The tree that query_execute hands to the semantic phase is the statement
\* as it was written, operand by operand (an arithmetic one with its two
\* operands swapped, a negation as a product by the marker).  It is what a
\* wrong count in one of the words, or a wrong number of pops, destroys.
BuiltAsWritten ==
  pc = "built" /\ lost = None /\ Plain => root \in Copies(mem)[stmt]

\* The builders use BUG_ON, exit and unchecked pointers freely; a statement
\* that the grammar accepted and they claim to read ends the process only
\* when an allocation failed.
DownOnlyOnFaults == pc = "down" => oom \/ ~Plain

=============================================================================
