----------------------------- MODULE AstBuilder -----------------------------
(***************************************************************************)
(* From the text of a statement to its tree (src/src/parser/ast.c,         *)
(* syntax.c, midorisql.y): the grammar offers words to a queue, then the   *)
(* builder of the statement's kind polls them, makes a node of each and    *)
(* keeps the unfinished subtrees on a stack.  The queue and the stack are  *)
(* vectors (src/src/datastructure/vector.c) that grow.                     *)
(*                                                                         *)
(* Faults: one allocation fails, at any place of the phases modelled here; *)
(* the parse stops anywhere with a syntax error; a word does not match the *)
(* expression its builder reads it with.                                   *)
(***************************************************************************)
EXTENDS AstRules, FiniteSets

CONSTANTS
  Statements,   \* the statements to parse
  WordsOf,      \* the words that the grammar emits for each (module Words)
  NoMatch,      \* what a regular expression gives that does not match
  None          \* no node, no word

\* Words count what is on the stack; the last one, and no other, is STMT.
ASSUME WordsAssumption ==
  /\ None \notin Int
  /\ \A s \in Statements :
       /\ WordsOf[s] \in Seq(ToSet(WordsOf[s]))
       /\ \A i \in DOMAIN WordsOf[s] :
            /\ WordsOf[s][i].n \in Nat /\ WordsOf[s][i].opt \in Nat
            /\ WordsOf[s][i].w = "STMT" <=> i = Len(WordsOf[s])

VARIABLES
  stmt,     \* the statement
  todo,     \* its words the grammar has not emitted yet
  queue,    \* the words in the queue
  stack,    \* ids of nodes, the top is the last
  cap,      \* the bytes of the vector of the queue and of the stack
  mem,      \* the allocated nodes: id |-> node
  root,     \* the root of the tree that was built, an id or None
  answer,   \* what the client is told when the statement is refused
  oom,      \* an allocation failed
  lost,     \* the word that did not get into the queue, or None
  leaked,   \* words taken out of the queue and never freed
  pc

vars == <<stmt, todo, queue, stack, cap, mem, root, answer, oom, lost, leaked, pc>>

syntaxVars == <<stmt, todo, answer, lost>>

Ended == {"done", "failed", "refused", "down"}

PtrSize == 8

ErrorWord == Word("ERROR", "", 0, 0)

-----------------------------------------------------------------------------
(* What the regular expressions of the builders read.  They are not        *)
(* anchored: a name in backquotes with another character in it is cut      *)
(* there, and so is a number printed with an exponent.  Strings must be    *)
(* in single quotes, not empty, and short enough for the buffer of emit(). *)

BadStrings == {"empty", "long", "doublequoted"}

CutAt(v) == CASE v = "odd name" -> "odd" [] v = "1e+06" -> "1" [] OTHER -> v

Matched(word) ==
  CASE word.w = "STRING" -> IF word.v \in BadStrings THEN NoMatch ELSE word.v
    [] word.w = "BOOL" -> IF word.v = "unknown" THEN NoMatch ELSE word.v
    [] word.w \in {"FIELDNAME", "UPDATE"} -> IF CutAt(word.v) # word.v THEN NoMatch ELSE word.v
    [] word.w = "NAME" -> word.v
    [] word.w = "COLUMNDEF" -> NoMatch      \* read as "COLUMN <name>"
    [] OTHER -> CutAt(word.v)

-----------------------------------------------------------------------------
(* The vector: pushing a pointer grows it if more than half would be used. *)
(* A realloc that fails is only looked at after the new room was zeroed.   *)

MustGrow(which, len) == (len + 1) * PtrSize > cap[which] \div 2

CapAfterPush(which, len) ==
  IF MustGrow(which, len) THEN [cap EXCEPT ![which] = (len + 1) * PtrSize * 3] ELSE cap

-----------------------------------------------------------------------------

\* zalloc and vector_init of the queue, by query_execute.
InitAst ==
  /\ stmt \in Statements
  /\ todo = WordsOf[stmt]
  /\ queue = <<>>
  /\ stack = <<>>
  /\ cap = [which \in {"queue", "stack"} |-> 16]
  /\ mem = <<>>
  /\ root = None
  /\ answer = None
  /\ oom = FALSE
  /\ lost = None
  /\ leaked = 0
  /\ pc = "parse"

Fails == ~oom /\ oom' = TRUE

Crash ==
  /\ pc' = "down"
  /\ UNCHANGED <<syntaxVars, queue, stack, cap, mem, root, leaked>>

-----------------------------------------------------------------------------
(* yyparse: each reduction emits a word.                                   *)

EmitWord ==
  /\ pc = "parse"
  /\ todo # <<>>
  /\ queue' = Append(queue, Head(todo))
  /\ cap' = CapAfterPush("queue", Len(queue))
  /\ todo' = Tail(todo)
  /\ UNCHANGED <<stmt, stack, mem, root, answer, oom, lost, leaked, pc>>

\* queue_offer cannot copy the word; no action of the grammar looks at what
\* emit returns.
LoseWord ==
  /\ pc = "parse"
  /\ todo # <<>>
  /\ Fails
  /\ lost' = Head(todo)
  /\ todo' = Tail(todo)
  /\ UNCHANGED <<stmt, queue, stack, cap, mem, root, answer, leaked, pc>>

QueueCannotGrow ==
  /\ pc = "parse"
  /\ todo # <<>>
  /\ MustGrow("queue", Len(queue))
  /\ Fails
  /\ Crash

\* yyerror puts its message behind the words; the client is told the head.
SyntaxError ==
  /\ pc = "parse"
  /\ todo # <<>>
  /\ queue' = <<>>
  /\ cap' = CapAfterPush("queue", Len(queue))
  /\ answer' = Head(Append(queue, ErrorWord))
  /\ pc' = "refused"
  /\ UNCHANGED <<stmt, todo, stack, mem, root, oom, lost, leaked>>

\* The message does not get into the queue; without a word in it there is
\* no answer to copy.
SyntaxErrorUntold ==
  /\ pc = "parse"
  /\ todo # <<>>
  /\ Fails
  /\ \/ /\ queue # <<>>
        /\ answer' = Head(queue)
        /\ queue' = <<>>
        /\ pc' = "refused"
        /\ UNCHANGED <<stmt, todo, stack, cap, mem, root, lost, leaked>>
     \/ queue = <<>> /\ Crash

-----------------------------------------------------------------------------
(* ast_build_tree: the word before STMT tells the kind of the statement.   *)

Builders == {"CREATE", "INSERTVALS", "DELETEONE", "UPDATE", "SELECT"}

\* The word only has to begin with the kind; SELECTALL, which is left there when
\* SELECT itself was lost, does.
KindOf(word) == IF word.w = "SELECTALL" THEN "SELECT" ELSE word.w

EndOfStatement == {i \in DOMAIN queue : queue[i].w = "STMT"}

DispatchCrashes ==
  /\ pc = "parse"
  /\ todo = <<>>
  /\ EndOfStatement \cap (2 .. Len(queue)) = {}
  /\ UNCHANGED oom
  /\ Crash

\* An unknown kind gives no tree; stack_init may fail.
DispatchFails ==
  /\ pc = "parse"
  /\ todo = <<>>
  /\ \E i \in EndOfStatement \cap (2 .. Len(queue)) :
       \/ KindOf(queue[i - 1]) \notin Builders /\ UNCHANGED oom
       \/ KindOf(queue[i - 1]) \in Builders /\ Fails
  /\ pc' = "unwind"
  /\ UNCHANGED <<syntaxVars, queue, stack, cap, mem, root, leaked>>

Dispatch ==
  /\ pc = "parse"
  /\ todo = <<>>
  /\ \E i \in EndOfStatement \cap (2 .. Len(queue)) :
       KindOf(queue[i - 1]) \in Builders /\ pc' = KindOf(queue[i - 1])
  /\ UNCHANGED <<syntaxVars, queue, stack, cap, mem, root, oom, leaked>>

-----------------------------------------------------------------------------
(* The loop of the builders.                                               *)

Building == pc \in Builders /\ queue # <<>>

RuleOf(word) ==
  CASE pc = "CREATE" -> CreateRule(word)
    [] pc = "INSERTVALS" -> InsertRule(word)
    [] pc = "DELETEONE" -> DeleteRule(word, Len(stack))
    [] pc = "UPDATE" -> UpdateRule(word)
    [] pc = "SELECT" -> SelectRule(word)

\* Words that make no node; STARTCOL begins a column definition.
Special(word) ==
  \/ word.w = "STMT"
  \/ pc = "CREATE" /\ word.w = "STARTCOL"
  \/ pc \in {"DELETEONE", "UPDATE"} /\ word.w = "WHERE"

AtWord == Building /\ ~Special(Head(queue))

WordRule == RuleOf(Head(queue))

DiscardWhere ==
  /\ Building
  /\ pc \in {"DELETEONE", "UPDATE"}
  /\ Head(queue).w = "WHERE"
  /\ queue' = Tail(queue)
  /\ UNCHANGED <<syntaxVars, stack, cap, mem, root, oom, leaked, pc>>

Popped(n) == [i \in 1 .. n |-> stack[Len(stack) + 1 - i]]

\* Mutant of Kids: list_add_tail where list_add is meant.
KidsAppended(rule, marker) == (IF rule.marker THEN <<marker>> ELSE <<>>) \o Popped(rule.pops)

Kids(rule, marker) ==
  (IF rule.marker THEN <<marker>> ELSE <<>>)
    \o (IF rule.order = "swapped" THEN Popped(rule.pops) ELSE Reverse(Popped(rule.pops)))

MarkerNode == Node("NEGATION", "", 0, <<>>)

\* A negation is a multiplication by the marker.
NodeOf(word, rule, marker) ==
  Node(IF word.w = "NEG" THEN "MUL" ELSE word.w, Matched(word), word.opt, Kids(rule, marker))

NewId == Cardinality(DOMAIN mem) + 1

\* The node takes its children from the stack and is pushed on it.
BuildNode ==
  /\ AtWord
  /\ LET word == Head(queue)
         rule == WordRule
         rest == Len(stack) - rule.pops
     IN  /\ rule # Unsupported
         /\ rule.match => Matched(word) # NoMatch
         /\ rest >= 0
         /\ mem' = mem \o <<NodeOf(word, rule, NewId + 1)>>
                       \o (IF rule.marker THEN <<MarkerNode>> ELSE <<>>)
         /\ stack' = Append(SubSeq(stack, 1, rest), NewId)
         /\ cap' = CapAfterPush("stack", rest)
  /\ queue' = Tail(queue)
  /\ UNCHANGED <<syntaxVars, root, oom, leaked, pc>>

\* Mutant of NodeFails: what was popped by then is lost.
NodeFailsPopped ==
  /\ AtWord
  /\ WordRule # Unsupported
  /\ Fails
  /\ stack' = SubSeq(stack, 1, IF WordRule.pops =< Len(stack) THEN Len(stack) - WordRule.pops ELSE 0)
  /\ queue' = IF WordRule.polls = "first" THEN Tail(queue) ELSE queue
  /\ pc' = "unwind"
  /\ UNCHANGED <<syntaxVars, cap, mem, root, leaked>>

\* The node, its list head, its marker or the stack of the matches cannot be
\* allocated: the builder frees what it allocated, and nothing is popped.
NodeFails ==
  /\ AtWord
  /\ WordRule # Unsupported
  /\ Fails
  /\ queue' = IF WordRule.polls = "first" THEN Tail(queue) ELSE queue
  /\ pc' = "unwind"
  /\ UNCHANGED <<syntaxVars, stack, cap, mem, root, leaked>>

\* A word that does not match: regex_ext_match_grp frees the stack of its
\* matches, the builder frees it again, and what that does is undefined; the
\* same if a match cannot be copied.
MatchFails ==
  /\ AtWord
  /\ WordRule.match
  /\ \/ Matched(Head(queue)) = NoMatch /\ UNCHANGED oom
     \/ Fails
  /\ queue' = Tail(queue)
  /\ pc' \in {"unwind", "down"}
  /\ UNCHANGED <<syntaxVars, stack, cap, mem, root, leaked>>

\* stack_pop of an empty stack, or a word without a builder, ends the process.
BuilderCrashes ==
  /\ AtWord
  /\ \/ WordRule = Unsupported
     \/ WordRule.pops > Len(stack)
  /\ UNCHANGED oom
  /\ Crash

StackCannotGrow ==
  /\ AtWord
  /\ WordRule # Unsupported
  /\ WordRule.pops =< Len(stack)
  /\ MustGrow("stack", Len(stack) - WordRule.pops)
  /\ Fails
  /\ Crash

-----------------------------------------------------------------------------
(* build_columndef_node polls STARTCOL, the attributes and the definition. *)

AtColumn == Building /\ pc = "CREATE" /\ Head(queue).w = "STARTCOL"

AfterAttrs == CHOOSE i \in 2 .. Len(queue) :
                /\ queue[i].w # "ATTR"
                /\ \A j \in 2 .. i - 1 : queue[j].w = "ATTR"

\* What the attributes of a column set.
AttrFlags(attr) ==
  CASE attr = "PRIKEY" -> {"primary", "notnull", "unique"}
    [] attr = "AUTOINC" -> {"autoinc"}
    [] attr = "UNIQUEKEY" -> {"unique"}
    [] attr = "NOTNULL" -> {"notnull"}

FlagsOf(attrs) == UNION {AttrFlags(a) : a \in ToSet(attrs)}

Types ==
  [code \in {4, 5, 6, 8, 10, 11, 13} |->
     CASE code \in {4, 5} -> "INTEGER" [] code = 6 -> "TINYINT" [] code = 8 -> "DOUBLE" [] code = 10 -> "DATE"
       [] code = 11 -> "DATETIME" [] code = 13 -> "VARCHAR"]

KnownType(code) == code \div 10000 \in DOMAIN Types

\* parse_bison_data_type: the length is what exceeds the type's number.
DataType(code) ==
  LET sql == Types[code \div 10000]
  IN  [sql |-> sql, len |-> IF sql = "VARCHAR" THEN code % 10000 ELSE 0]

ColumnNode(def) ==
  [w |-> "COLUMNDEF", v |-> CutAt(def.v), opt |-> 0, kids |-> <<>>, type |-> DataType(def.n),
   flags |-> FlagsOf([i \in 1 .. AfterAttrs - 2 |-> queue[i + 1].v])]

BuildColumn ==
  /\ AtColumn
  /\ LET def == queue[AfterAttrs] IN
       /\ def.w = "COLUMNDEF"
       /\ KnownType(def.n)
       /\ mem' = mem \o <<ColumnNode(def)>>
       /\ queue' = SubSeq(queue, AfterAttrs + 1, Len(queue))
  /\ stack' = Append(stack, NewId)
  /\ cap' = CapAfterPush("stack", Len(stack))
  /\ UNCHANGED <<syntaxVars, root, oom, leaked, pc>>

\* The node cannot be allocated: the attributes stay in the queue.
ColumnFails ==
  /\ AtColumn
  /\ Fails
  /\ queue' = Tail(queue)
  /\ pc' = "unwind"
  /\ UNCHANGED <<syntaxVars, stack, cap, mem, root, leaked>>

\* Another word where the definition should be, or no memory to match it:
\* the word is not freed (the test before free is the wrong way round).
ColumnMatchFails ==
  /\ AtColumn
  /\ \/ queue[AfterAttrs].w # "COLUMNDEF" /\ UNCHANGED oom
     \/ Fails
  /\ queue' = SubSeq(queue, AfterAttrs + 1, Len(queue))
  /\ leaked' = leaked + 1
  /\ pc' \in {"unwind", "down"}
  /\ UNCHANGED <<syntaxVars, stack, cap, mem, root>>

\* VARCHAR(10000) and longer have the number of another type.
ColumnCrashes ==
  /\ AtColumn
  /\ \/ /\ queue[AfterAttrs].w = "COLUMNDEF"
        /\ ~KnownType(queue[AfterAttrs].n)
        /\ UNCHANGED oom
     \/ MustGrow("stack", Len(stack)) /\ Fails
  /\ Crash

-----------------------------------------------------------------------------
(* The end of the statement, and of the tree.                              *)

AtEnd == Building /\ Head(queue).w = "STMT"

FinishTree ==
  /\ AtEnd
  /\ Len(stack) = 1
  /\ root' = Last(stack)
  /\ stack' = <<>>
  /\ pc' = "built"
  /\ UNCHANGED <<syntaxVars, queue, cap, mem, oom, leaked>>

\* Nothing on the stack, or more than the root.
FinishCrashes ==
  /\ AtEnd
  /\ Len(stack) # 1
  /\ UNCHANGED oom
  /\ Crash

\* ast_free: the children first.
Subtree[i \in DOMAIN mem] == {i} \cup UNION {Subtree[k] : k \in ToSet(mem[i].kids)}

Without(gone) == [i \in DOMAIN mem \ gone |-> mem[i]]

\* Mutant of Unwind: stack_peek where stack_pop is meant.
UnwindPeeked ==
  /\ pc = "unwind"
  /\ stack # <<>>
  /\ mem' = Without(Subtree[Last(stack)])
  /\ UNCHANGED <<syntaxVars, queue, stack, cap, root, oom, leaked, pc>>

\* The builder failed: every node on the stack is freed with its subtree.
Unwind ==
  /\ pc = "unwind"
  /\ stack # <<>>
  /\ mem' = Without(Subtree[Last(stack)])
  /\ stack' = Front(stack)
  /\ UNCHANGED <<syntaxVars, queue, cap, root, oom, leaked, pc>>

\* query_execute frees the words that are left and answers with an error.
Refuse ==
  /\ pc = "unwind"
  /\ stack = <<>>
  /\ queue' = <<>>
  /\ pc' = "failed"
  /\ UNCHANGED <<syntaxVars, stack, cap, mem, root, oom, leaked>>

\* After the phases that work on the tree query_execute frees it.
Release ==
  /\ pc = "built"
  /\ mem' = Without(Subtree[root])
  /\ queue' = <<>>
  /\ root' = None
  /\ pc' = "done"
  /\ UNCHANGED <<syntaxVars, stack, cap, oom, leaked>>

-----------------------------------------------------------------------------

Ending == pc \in Ended /\ UNCHANGED vars

Next ==
  \/ EmitWord \/ LoseWord \/ QueueCannotGrow \/ SyntaxError \/ SyntaxErrorUntold
  \/ Dispatch \/ DispatchFails \/ DispatchCrashes
  \/ DiscardWhere \/ BuildNode \/ NodeFails \/ MatchFails \/ BuilderCrashes \/ StackCannotGrow
  \/ BuildColumn \/ ColumnFails \/ ColumnMatchFails \/ ColumnCrashes
  \/ FinishTree \/ FinishCrashes \/ Unwind \/ Refuse \/ Release
  \/ Ending

Spec == InitAst /\ [][Next]_vars

-----------------------------------------------------------------------------

\* Types: the stack, the root and the children of a node are allocated
\* nodes, and the program is at one of its places.
AstTypeOK ==
  /\ stmt \in Statements
  /\ ToSet(stack) \subseteq DOMAIN mem
  /\ root \in DOMAIN mem \cup {None}
  /\ \A i \in DOMAIN mem : ToSet(mem[i].kids) \subseteq DOMAIN mem
  /\ oom \in BOOLEAN
  /\ leaked \in {0, 1}
  /\ pc \in {"parse", "unwind", "built"} \cup Builders \cup Ended

\* Who refers to node i: a slot of the stack, the root, a place in the list of
\* children of a node.
Holders(i) ==
  {<<"stack", 0, j>> : j \in {j \in DOMAIN stack : stack[j] = i}}
    \cup (IF root = i THEN {<<"root", 0, 0>>} ELSE {})
    \cup UNION {{<<"kid", p, k>> : k \in {k \in DOMAIN mem[p].kids : mem[p].kids[k] = i}} : p \in DOMAIN mem}

\* Until the process goes down every allocated node has one owner: a slot of
\* the stack, the root, or the list of children of one node.  With no owner
\* left nothing is allocated, so a statement that failed left nothing behind.
OwnedOnce == pc # "down" => \A i \in DOMAIN mem : Cardinality(Holders(i)) = 1

=============================================================================
