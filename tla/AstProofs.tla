----------------------------- MODULE AstProofs -----------------------------
(***************************************************************************)
(* Proofs about the builders: for every statement, whatever its words are, *)
(* every node that was allocated has one owner, and a statement that was   *)
(* refused, that failed or that was carried out leaves none behind.  And   *)
(* for every statement of the grammar: the tree that is built is the one   *)
(* that was written, and the process goes down only by a fault.            *)
(***************************************************************************)
EXTENDS AstMeaning, RankedRecursion, SequenceTheorems, FiniteSetTheorems

(* The nodes of a memory m, a stack st and a root rt are a forest.         *)

Rank(m, i) == IF m[i].kids = <<>> THEN 0 ELSE i

IsKid(m, p, k, i) == p \in DOMAIN m /\ k \in DOMAIN m[p].kids /\ m[p].kids[k] = i

IsKept(st, j, i) == j \in DOMAIN st /\ st[j] = i

\* A child is older than its parent, or it has no children: the marker of a
\* negation is allocated after the node that it is a child of.
Ordered(m) ==
  /\ DOMAIN m \subseteq Nat \ {0}
  /\ \E n \in Nat : \A i \in DOMAIN m : i <= n
  /\ \A p \in DOMAIN m : m[p].kids \in Seq(DOMAIN m)
  /\ \A p, k, i : IsKid(m, p, k, i) => Rank(m, i) < p

NoTwoOwners(m, st, rt) ==
  /\ \A p, q, k, l, i : IsKid(m, p, k, i) /\ IsKid(m, q, l, i) => p = q /\ k = l
  /\ \A j, l, i : IsKept(st, j, i) /\ IsKept(st, l, i) => j = l
  /\ \A p, k, j, i : ~(IsKid(m, p, k, i) /\ IsKept(st, j, i))
  /\ \A p, k : ~IsKid(m, p, k, rt)
  /\ \A j : ~IsKept(st, j, rt)

HasOwner(m, st, rt, i) ==
  rt = i \/ (\E j : IsKept(st, j, i)) \/ (\E p, k : IsKid(m, p, k, i))

Forest(m, st, rt) ==
  /\ Ordered(m)
  /\ st \in Seq(DOMAIN m)
  /\ NoTwoOwners(m, st, rt)
  /\ \A i \in DOMAIN m : HasOwner(m, st, rt, i)

-----------------------------------------------------------------------------
(* The inductive invariant.                                                *)

Vocabulary == UNION {ToSet(WordsOf[s]) : s \in Statements}

\* While words are emitted STMT can only be the last one; a builder has it
\* before it as long as it has words.
Worded ==
  /\ todo \in Seq(Vocabulary)
  /\ queue \in Seq(Vocabulary)
  /\ pc = "parse" =>
       /\ \A i \in DOMAIN todo : todo[i].w = "STMT" => i = Len(todo)
       /\ \A i \in DOMAIN queue : queue[i].w = "STMT" => todo = <<>> /\ i = Len(queue)
  /\ pc \in Builders /\ queue # <<>> => queue[Len(queue)].w = "STMT"

Phases ==
  /\ stmt \in Statements
  /\ oom \in BOOLEAN
  /\ leaked \in {0, 1}
  /\ pc \in {"parse", "unwind", "built"} \cup Builders \cup Ended
  /\ pc \in {"parse"} \cup Builders => leaked = 0 /\ mem \in Seq(ToSet(mem))
  /\ pc \in {"parse", "refused"} => mem = <<>>
  /\ pc \in {"parse", "refused", "built", "done", "failed"} => stack = <<>>
  /\ IF pc = "built" THEN root \in DOMAIN mem ELSE root = None

AstInv ==
  /\ Worded
  /\ Phases
  /\ Forest(mem, stack, root)

-----------------------------------------------------------------------------
(* Sequences                                                               *)

LEMMA SelfTyped == ASSUME NEW S, NEW s \in Seq(S) PROVE s \in Seq(ToSet(s))
<1>1. Len(s) \in Nat /\ DOMAIN s = 1 .. Len(s) /\ s \in [1 .. Len(s) -> S]
  BY LenProperties
<1>2. s \in [1 .. Len(s) -> ToSet(s)]
  BY <1>1 DEF ToSet
<1> QED BY <1>1, <1>2

LEMMA Joined ==
  ASSUME NEW S, NEW s \in Seq(S), NEW T, NEW t \in Seq(T)
  PROVE  /\ s \o t \in Seq(S \cup T)
         /\ Len(s) \in Nat /\ Len(t) \in Nat
         /\ DOMAIN s = 1 .. Len(s) /\ DOMAIN t = 1 .. Len(t)
         /\ DOMAIN (s \o t) = 1 .. Len(s) + Len(t)
         /\ \A i \in 1 .. Len(s) + Len(t) : (s \o t)[i] = IF i <= Len(s) THEN s[i] ELSE t[i - Len(s)]
<1>1. s \in Seq(S \cup T) /\ t \in Seq(S \cup T)
  BY SeqMonotonic
<1>2. /\ s \o t \in Seq(S \cup T)
      /\ Len(s \o t) = Len(s) + Len(t)
      /\ \A i \in 1 .. Len(s) + Len(t) : (s \o t)[i] = IF i <= Len(s) THEN s[i] ELSE t[i - Len(s)]
  BY <1>1, ConcatProperties
<1>3. DOMAIN (s \o t) = 1 .. Len(s \o t)
  BY <1>2, LenProperties
<1>4. Len(s) \in Nat /\ Len(t) \in Nat /\ DOMAIN s = 1 .. Len(s) /\ DOMAIN t = 1 .. Len(t)
  BY LenProperties
<1> QED BY <1>2, <1>3, <1>4

LEMMA SingleSeq == \A x : <<x>> \in Seq({x}) /\ Len(<<x>>) = 1 /\ <<x>>[1] = x
OBVIOUS

LEMMA OneMore ==
  ASSUME NEW S, NEW s \in Seq(S), NEW x
  PROVE  LET t == s \o <<x>>
             n == Len(s) + 1
         IN  /\ t \in Seq(ToSet(t)) /\ Len(t) = n /\ n \in Nat \ {0}
             /\ DOMAIN s = 1 .. Len(s) /\ DOMAIN t = DOMAIN s \cup {n}
             /\ \A i \in DOMAIN s : t[i] = s[i]
             /\ t[n] = x
<1> DEFINE b == <<x>>
           n == Len(s) + 1
<1>1. b \in Seq({x}) /\ Len(b) = 1 /\ b[1] = x
  BY SingleSeq
<1> HIDE DEF b
<1>2. /\ s \o b \in Seq(S \cup {x})
      /\ Len(s) \in Nat /\ DOMAIN s = 1 .. Len(s)
      /\ DOMAIN (s \o b) = 1 .. Len(s) + Len(b)
      /\ \A i \in 1 .. Len(s) + Len(b) : (s \o b)[i] = IF i <= Len(s) THEN s[i] ELSE b[i - Len(s)]
  <2>1. s \in Seq(S) /\ b \in Seq({x})
    BY <1>1
  <2> QED BY ONLY <2>1, Joined
<1> DEFINE t == s \o b
<1>3. t \in Seq(ToSet(t)) /\ DOMAIN t = 1 .. Len(t)
  BY <1>2, SelfTyped, LenProperties
<1>4. t \in Seq(S \cup {x}) /\ Len(t) \in Nat
  BY <1>2, LenProperties
<1> HIDE DEF t
<1>5. /\ DOMAIN t = 1 .. Len(s) + 1
      /\ \A i \in 1 .. Len(s) + 1 : t[i] = IF i <= Len(s) THEN s[i] ELSE b[i - Len(s)]
  BY <1>1, <1>2 DEF t
<1>6. Len(t) = n
  <2>1. Len(t) \in Nat /\ n \in Nat
    BY <1>2, <1>4
  <2>2. DOMAIN t = 1 .. Len(t)
    BY <1>3
  <2>3. DOMAIN t = 1 .. n
    BY <1>5
  <2>4. n \in DOMAIN t /\ n + 1 \notin DOMAIN t
    BY <1>2, <2>1, <2>3
  <2>5. n <= Len(t) /\ ~(n + 1 <= Len(t))
    BY <1>2, <2>1, <2>2, <2>4
  <2> QED BY <2>1, <2>5
<1>7. DOMAIN t = DOMAIN s \cup {n} /\ t[n] = x /\ \A i \in DOMAIN s : t[i] = s[i]
  BY <1>1, <1>2, <1>5
<1> QED BY <1>2, <1>3, <1>6, <1>7 DEF t, b

\* The first n elements and one more.
LEMMA TopReplaced ==
  ASSUME NEW S, NEW s \in Seq(S), NEW n \in 0 .. Len(s), NEW T, NEW x \in T, S \subseteq T
  PROVE  /\ Append(SubSeq(s, 1, n), x) \in Seq(T)
         /\ DOMAIN Append(SubSeq(s, 1, n), x) = 1 .. n + 1
         /\ Append(SubSeq(s, 1, n), x)[n + 1] = x
         /\ \A i \in 1 .. n : Append(SubSeq(s, 1, n), x)[i] = s[i]
<1>0. Len(s) \in Nat /\ n \in Nat
  BY LenProperties
<1>1. \A i \in 1 .. n : s[i] \in T
  BY <1>0, ElementOfSeq
<1>2. /\ SubSeq(s, 1, n) \in Seq(T)
      /\ Len(SubSeq(s, 1, n)) = n
      /\ \A i \in 1 .. n : SubSeq(s, 1, n)[i] = s[i]
  <2>1. 1 \in Int /\ n \in Int
    BY <1>0
  <2>2. /\ SubSeq(s, 1, n) \in Seq(T)
        /\ Len(SubSeq(s, 1, n)) = IF 1 <= n THEN n - 1 + 1 ELSE 0
        /\ \A i \in 1 .. n - 1 + 1 : SubSeq(s, 1, n)[i] = s[1 + i - 1]
    BY <2>1, <1>1, SubSeqProperties
  <2>3. n - 1 + 1 = n /\ (~(1 <= n) => n = 0) /\ \A i \in 1 .. n : 1 + i - 1 = i
    BY <1>0
  <2>4. \A i \in 1 .. n : SubSeq(s, 1, n)[i] = s[1 + i - 1]
    BY <2>2, <2>3
  <2>5. Len(SubSeq(s, 1, n)) = n
    BY <2>2, <2>3
  <2> QED BY <2>2, <2>3, <2>4, <2>5
<1> DEFINE u == SubSeq(s, 1, n)
<1> HIDE DEF u
<1>3. u \in Seq(T) /\ Len(u) = n /\ \A i \in 1 .. n : u[i] = s[i]
  BY <1>2 DEF u
<1>4. /\ Append(u, x) \in Seq(T)
      /\ Len(Append(u, x)) = n + 1
      /\ Append(u, x)[n + 1] = x
      /\ \A i \in 1 .. n : Append(u, x)[i] = s[i]
  <2>1. Append(u, x) \in Seq(T) /\ Len(Append(u, x)) = Len(u) + 1
    BY <1>3, AppendProperties
  <2>2. Append(u, x)[Len(u) + 1] = x /\ \A i \in 1 .. Len(u) : Append(u, x)[i] = u[i]
    BY <1>3, AppendProperties
  <2> QED BY <1>3, <2>1, <2>2
<1>5. DOMAIN Append(u, x) = 1 .. n + 1
  BY <1>4, LenProperties
<1> QED BY <1>4, <1>5 DEF u

LEMMA FrontDef ==
  ASSUME NEW S, NEW s \in Seq(S), s # <<>>
  PROVE  /\ Len(s) \in Nat \ {0} /\ DOMAIN s = 1 .. Len(s)
         /\ Last(s) = s[Len(s)] /\ Last(s) \in S
         /\ Front(s) \in Seq(S)
         /\ DOMAIN Front(s) = 1 .. Len(s) - 1
         /\ \A i \in 1 .. Len(s) - 1 : Front(s)[i] = s[i]
<1>1. Len(s) \in Nat \ {0} /\ DOMAIN s = 1 .. Len(s)
  BY EmptySeq, LenProperties
<1>2. Last(s) = s[Len(s)] /\ Last(s) \in S
  BY <1>1, ElementOfSeq DEF Last
<1> DEFINE n == Len(s) - 1
<1>3. n \in Nat /\ n \in Int /\ 1 \in Int /\ \A i \in 1 .. n : s[i] \in S
  BY <1>1, ElementOfSeq
<1>4. Front(s) = SubSeq(s, 1, n)
  BY DEF Front
<1> HIDE DEF n
<1>5. /\ SubSeq(s, 1, n) \in Seq(S)
      /\ Len(SubSeq(s, 1, n)) = IF 1 <= n THEN n - 1 + 1 ELSE 0
      /\ \A i \in 1 .. n - 1 + 1 : SubSeq(s, 1, n)[i] = s[1 + i - 1]
  BY <1>3, SubSeqProperties
<1>6. n - 1 + 1 = n /\ (~(1 <= n) => n = 0) /\ \A i \in 1 .. n : 1 + i - 1 = i
  BY <1>3
<1>7. \A i \in 1 .. n : SubSeq(s, 1, n)[i] = s[i]
  <2>1. \A i \in 1 .. n : SubSeq(s, 1, n)[i] = s[1 + i - 1]
    BY <1>5, <1>6
  <2> QED BY <2>1, <1>6
<1>8. DOMAIN SubSeq(s, 1, n) = 1 .. n
  <2>1. Len(SubSeq(s, 1, n)) = n
    BY <1>5, <1>6
  <2> QED BY <2>1, <1>5, LenProperties
<1> QED BY <1>1, <1>2, <1>4, <1>5, <1>7, <1>8 DEF n

-----------------------------------------------------------------------------
(* Every rule pops a number of nodes, and makes a marker or not.           *)

Counted(rule) == rule.pops \in Nat /\ rule.marker \in BOOLEAN

LEMMA RuleShapes ==
  \A n \in Nat : /\ Counted(Parsed(n))
                 /\ Counted(Discarded(n))
                 /\ Counted(Unsupported)
                 /\ \A polls, match, order : Counted(Rule(polls, match, n, order))
                 /\ \A polls, match, order : Counted([Rule(polls, match, n, order) EXCEPT !.marker = TRUE])
BY DEF Counted, Parsed, Discarded, Unsupported, Rule

LEMMA RulesCount ==
  ASSUME NEW word, word.n \in Nat, word.opt \in Nat, NEW depth \in Nat
  PROVE  /\ Counted(CreateRule(word)) /\ Counted(InsertRule(word)) /\ Counted(DeleteRule(word, depth))
         /\ Counted(UpdateRule(word)) /\ Counted(SelectRule(word))
<1>1. Counted(ExprVal(word))
  BY RuleShapes DEF ExprVal
<1>2. Counted(CreateRule(word))
  <2>1. Counted(CrtCreate(word)) /\ Counted(CrtIndexcol(word)) /\ Counted(CrtPrimary(word)) /\ Counted(CrtIndex(word))
    BY RuleShapes DEF CrtCreate, CrtIndexcol, CrtPrimary, CrtIndex
  <2> QED BY <2>1, RuleShapes DEF CreateRule
<1>3. Counted(InsertRule(word))
  <2>1. /\ Counted(InsColumn(word)) /\ Counted(InsInscols(word)) /\ Counted(InsExprVal(word))
        /\ Counted(InsExprOp(word)) /\ Counted(InsNegation(word)) /\ Counted(InsValues(word))
    BY <1>1, RuleShapes DEF InsColumn, InsInscols, InsExprVal, InsExprOp, InsNegation, InsValues
  <2>2. Counted(InsInsvals(word))
    <3>1. word.n + word.opt \in Nat
      OBVIOUS
    <3> QED BY <3>1, RuleShapes DEF InsInsvals
  <2> QED BY <2>1, <2>2, RuleShapes DEF InsertRule
<1>4. word.n + 1 \in Nat /\ word.opt + word.n \in Nat
  OBVIOUS
<1>5. Counted(DeleteRule(word, depth))
  <2>1. /\ Counted(DelIsxin(word)) /\ Counted(DelIsxnull(word)) /\ Counted(DelExprVal(word))
        /\ Counted(DelCmp(word)) /\ Counted(DelLogop(word)) /\ Counted(DelDeleteone(word, depth))
    BY <1>1, <1>4, RuleShapes DEF DelIsxin, DelIsxnull, DelExprVal, DelCmp, DelLogop, DelDeleteone
  <2> QED BY <2>1, RuleShapes DEF DeleteRule
<1>6. Counted(UpdateRule(word))
  <2>1. /\ Counted(UpdAssign(word)) /\ Counted(UpdIsxin(word)) /\ Counted(UpdIsxnull(word)) /\ Counted(UpdExprVal(word))
        /\ Counted(UpdCmp(word)) /\ Counted(UpdLogop(word)) /\ Counted(UpdUpdate(word))
    BY <1>1, <1>4, RuleShapes DEF UpdAssign, UpdIsxin, UpdIsxnull, UpdExprVal, UpdCmp, UpdLogop, UpdUpdate
  <2> QED BY <2>1, RuleShapes DEF UpdateRule
<1>7. Counted(SelectRule(word))
  <2>1. /\ Counted(SelExprVal(word)) /\ Counted(SelExprOp(word)) /\ Counted(SelNegation(word)) /\ Counted(SelAlias(word))
        /\ Counted(SelFieldname(word)) /\ Counted(SelSelectall(word)) /\ Counted(SelTable(word)) /\ Counted(SelCmp(word))
        /\ Counted(SelLogop(word)) /\ Counted(SelIsxnull(word)) /\ Counted(SelIsxin(word))
    BY <1>1, <1>4, RuleShapes
    DEF SelExprVal, SelExprOp, SelNegation, SelAlias, SelFieldname, SelSelectall, SelTable, SelCmp, SelLogop, SelIsxnull, SelIsxin
  <2>2. /\ Counted(SelCount(word)) /\ Counted(SelLike(word)) /\ Counted(SelOnexpr(word)) /\ Counted(SelJoin(word))
        /\ Counted(SelWhere(word)) /\ Counted(SelGroupby(word)) /\ Counted(SelOrderbylist(word))
        /\ Counted(SelOrderbyitem(word)) /\ Counted(SelLimit(word)) /\ Counted(SelHaving(word)) /\ Counted(SelSelect(word))
    BY RuleShapes
    DEF SelCount, SelLike, SelOnexpr, SelJoin, SelWhere, SelGroupby, SelOrderbylist, SelOrderbyitem, SelLimit, SelHaving, SelSelect
  <2> QED BY <2>1, <2>2, RuleShapes DEF SelectRule
<1> QED BY <1>2, <1>3, <1>5, <1>6, <1>7

LEMMA RuleCounts ==
  ASSUME NEW word, word.n \in Nat, word.opt \in Nat, Len(stack) \in Nat, pc \in Builders
  PROVE  RuleOf(word).pops \in Nat /\ RuleOf(word).marker \in BOOLEAN
<1>1. Counted(RuleOf(word))
  BY RulesCount DEF RuleOf, Builders
<1> QED BY <1>1 DEF Counted

-----------------------------------------------------------------------------
(* The children of a new node are what is popped, and its marker.          *)

\* ks has every element of st above rest, and the marker if there is one, in
\* some order, and nothing else.
TakesOver(ks, st, rest, mk, marker) ==
  /\ ks \in Seq(ToSet(ks))
  /\ \A k \in DOMAIN ks : (mk /\ ks[k] = marker) \/ (\E j \in rest + 1 .. Len(st) : ks[k] = st[j])
  /\ \A k, l \in DOMAIN ks : ks[k] = ks[l] => k = l
  /\ \A j \in rest + 1 .. Len(st) : \E k \in DOMAIN ks : ks[k] = st[j]
  /\ mk => \E k \in DOMAIN ks : ks[k] = marker

LEMMA OperandsTaken ==
  ASSUME NEW rule, rule.pops \in 0 .. Len(stack), NEW S, stack \in Seq(S),
         \A j, l \in DOMAIN stack : stack[j] = stack[l] => j = l
  PROVE  TakesOver(IF rule.order = "swapped" THEN Popped(rule.pops) ELSE Reverse(Popped(rule.pops)),
                   stack, Len(stack) - rule.pops, FALSE, 0)
<1> DEFINE len == Len(stack)
           n == rule.pops
           at(x) == IF rule.order = "swapped" THEN len + 1 - x ELSE len - n + x
           ops == [x \in 1 .. n |-> stack[at(x)]]
<1>1. len \in Nat /\ n \in Nat /\ n <= len /\ DOMAIN stack = 1 .. len
  BY LenProperties
<1>2. Popped(n) \in Seq({stack[j] : j \in DOMAIN stack}) /\ Len(Popped(n)) = n
  <2>1. \A i \in 1 .. n : len + 1 - i \in 1 .. len
    BY <1>1
  <2>2. \A i \in 1 .. n : stack[len + 1 - i] \in {stack[j] : j \in DOMAIN stack}
    BY <1>1, <2>1
  <2>3. Popped(n) = [i \in 1 .. n |-> stack[len + 1 - i]]
    BY DEF Popped
  <2> QED BY <1>1, <2>2, <2>3
<1>3. (IF rule.order = "swapped" THEN Popped(n) ELSE Reverse(Popped(n))) = ops
  <2>1. CASE rule.order = "swapped"
    BY <2>1 DEF Popped
  <2>2. CASE rule.order # "swapped"
    <3>1. \A i \in 1 .. n : (n - i) + 1 \in 1 .. n /\ len + 1 - ((n - i) + 1) = len - n + i
      BY <1>1
    <3>2. \A i \in 1 .. n : Popped(n)[(n - i) + 1] = stack[len - n + i]
      BY <3>1 DEF Popped
    <3>3. Reverse(Popped(n)) = [i \in 1 .. n |-> Popped(n)[(n - i) + 1]]
      BY <1>2 DEF Reverse
    <3> HIDE DEF n
    <3>4. Reverse(Popped(n)) = [i \in 1 .. n |-> stack[len - n + i]]
      BY <3>2, <3>3
    <3> QED BY <2>2, <3>4
  <2> QED BY <2>1, <2>2
<1>4. \A x \in 1 .. n : at(x) \in len - n + 1 .. len
  BY <1>1
<1>5. \A j \in len - n + 1 .. len : \E x \in 1 .. n : at(x) = j
  <2> TAKE j \in len - n + 1 .. len
  <2>1. len + 1 - j \in 1 .. n /\ j - (len - n) \in 1 .. n
    BY <1>1
  <2>2. at(IF rule.order = "swapped" THEN len + 1 - j ELSE j - (len - n)) = j
    BY <1>1
  <2> QED BY <2>1, <2>2
<1>6. \A x, y \in 1 .. n : at(x) = at(y) => x = y
  BY <1>1
<1>7. \A j \in len - n + 1 .. len : j \in DOMAIN stack
  BY <1>1
<1> HIDE DEF at, n, len
<1>8. \A x \in 1 .. n : ops[x] = stack[at(x)] /\ at(x) \in DOMAIN stack
  BY <1>4, <1>7
<1>9. DOMAIN ops = 1 .. n
  OBVIOUS
<1>10. ops \in Seq(ToSet(ops))
  <2>1. ops \in Seq({stack[at(x)] : x \in 1 .. n})
    BY <1>1
  <2> QED BY <2>1, SelfTyped
<1> HIDE DEF ops
<1>11. \A k, l \in DOMAIN ops : ops[k] = ops[l] => k = l
  BY <1>6, <1>8, <1>9
<1>12. TakesOver(ops, stack, len - n, FALSE, 0)
  <2>1. \A k \in DOMAIN ops : \E j \in len - n + 1 .. len : ops[k] = stack[j]
    BY <1>4, <1>8, <1>9
  <2>2. \A j \in len - n + 1 .. len : \E k \in DOMAIN ops : ops[k] = stack[j]
    BY <1>5, <1>8, <1>9
  <2> QED BY <1>10, <1>11, <2>1, <2>2 DEF TakesOver, len
<1> QED BY <1>3, <1>12 DEF len, n

LEMMA KidsTaken ==
  ASSUME NEW rule, rule.pops \in 0 .. Len(stack), rule.marker \in BOOLEAN,
         NEW S, stack \in Seq(S), NEW marker, marker \notin S,
         \A j, l \in DOMAIN stack : stack[j] = stack[l] => j = l
  PROVE  TakesOver(Kids(rule, marker), stack, Len(stack) - rule.pops, rule.marker, marker)
<1> DEFINE ops == IF rule.order = "swapped" THEN Popped(rule.pops) ELSE Reverse(Popped(rule.pops))
           first == IF rule.marker THEN <<marker>> ELSE <<>>
           rest == Len(stack) - rule.pops
           ks == first \o ops
<1>1. TakesOver(ops, stack, rest, FALSE, 0)
  BY OperandsTaken
<1>2. Kids(rule, marker) = ks
  BY DEF Kids
<1> HIDE DEF ops
<1>3. first \in Seq({marker}) /\ Len(first) = IF rule.marker THEN 1 ELSE 0
  BY SingleSeq, EmptySeq
<1>4. rule.marker => first[1] = marker
  OBVIOUS
<1> HIDE DEF first
<1>5. /\ ops \in Seq(ToSet(ops))
      /\ \A k \in DOMAIN ops : \E j \in rest + 1 .. Len(stack) : ops[k] = stack[j]
      /\ \A k, l \in DOMAIN ops : ops[k] = ops[l] => k = l
      /\ \A j \in rest + 1 .. Len(stack) : \E k \in DOMAIN ops : ops[k] = stack[j]
  BY <1>1 DEF TakesOver
<1>6. /\ ks \in Seq({marker} \cup ToSet(ops))
      /\ Len(first) \in Nat /\ Len(ops) \in Nat
      /\ DOMAIN ops = 1 .. Len(ops)
      /\ DOMAIN ks = 1 .. Len(first) + Len(ops)
      /\ \A i \in 1 .. Len(first) + Len(ops) : ks[i] = IF i <= Len(first) THEN first[i] ELSE ops[i - Len(first)]
  <2>1. first \in Seq({marker})
    BY <1>3
  <2>2. ops \in Seq(ToSet(ops))
    BY <1>5
  <2> QED BY ONLY <2>1, <2>2, Joined
<1> HIDE DEF ks, rest
<1> DEFINE f == Len(first)
<1>7. \A x \in ToSet(ops) : x # marker
  <2>1. \A j \in rest + 1 .. Len(stack) : stack[j] \in S
    <3>1. Len(stack) \in Nat /\ \A j \in rest + 1 .. Len(stack) : j \in 1 .. Len(stack)
      BY LenProperties DEF rest
    <3> QED BY <3>1, ElementOfSeq
  <2>2. \A x \in ToSet(ops) : \E k \in DOMAIN ops : x = ops[k]
    BY DEF ToSet
  <2>3. \A k \in DOMAIN ops : ops[k] \in S
    BY <1>5, <2>1
  <2> QED BY <2>2, <2>3
<1>8. ASSUME NEW k \in DOMAIN ks
      PROVE  \/ rule.marker /\ k = 1 /\ ks[k] = marker
             \/ k - f \in DOMAIN ops /\ ks[k] = ops[k - f] /\ ks[k] # marker
  <2>1. CASE k <= f
    BY <1>3, <1>4, <1>6, <2>1
  <2>2. CASE ~(k <= f)
    <3>1. k - f \in DOMAIN ops /\ ks[k] = ops[k - f]
      BY <1>6, <2>2
    <3>2. ops[k - f] \in ToSet(ops)
      BY <3>1 DEF ToSet
    <3> QED BY <3>1, <3>2, <1>7
  <2> QED BY <2>1, <2>2
<1>9. \A x \in DOMAIN ops : x + f \in DOMAIN ks /\ ks[x + f] = ops[x]
  BY <1>6
<1>10. rule.marker => 1 \in DOMAIN ks /\ ks[1] = marker
  BY <1>3, <1>4, <1>6
<1>11. \A k \in DOMAIN ks : (rule.marker /\ ks[k] = marker) \/ (\E j \in rest + 1 .. Len(stack) : ks[k] = stack[j])
  BY <1>5, <1>8
<1>12. \A k, l \in DOMAIN ks : ks[k] = ks[l] => k = l
  <2> SUFFICES ASSUME NEW k \in DOMAIN ks, NEW l \in DOMAIN ks, ks[k] = ks[l] PROVE k = l
    OBVIOUS
  <2>1. CASE ks[k] = marker
    BY <1>8, <2>1
  <2>2. CASE ks[k] # marker
    <3>1. k - f \in DOMAIN ops /\ l - f \in DOMAIN ops /\ ops[k - f] = ops[l - f]
      BY <1>8, <2>2
    <3>2. k - f = l - f
      BY <1>5, <3>1
    <3> QED BY <1>6, <3>2
  <2> QED BY <2>1, <2>2
<1>13. \A j \in rest + 1 .. Len(stack) : \E k \in DOMAIN ks : ks[k] = stack[j]
  <2> TAKE j \in rest + 1 .. Len(stack)
  <2>1. PICK x \in DOMAIN ops : ops[x] = stack[j]
    BY <1>5
  <2> QED BY <1>9, <2>1
<1>14. ks \in Seq(ToSet(ks))
  BY <1>6, SelfTyped
<1> HIDE DEF f
<1>15. TakesOver(ks, stack, rest, rule.marker, marker)
  BY <1>10, <1>11, <1>12, <1>13, <1>14 DEF TakesOver
<1> QED BY <1>2, <1>15 DEF rest

-----------------------------------------------------------------------------
(* Subtrees                                                                *)

LEMMA RankType ==
  ASSUME NEW m, Ordered(m) PROVE [i \in DOMAIN m |-> Rank(m, i)] \in [DOMAIN m -> Nat]
<1>1. \A i \in DOMAIN m : Rank(m, i) \in Nat
  BY DEF Ordered, Rank
<1> QED BY <1>1

\* A child is ranked below its parent.
LEMMA KidRanked ==
  ASSUME NEW m, Ordered(m), NEW p \in DOMAIN m, NEW x \in ToSet(m[p].kids)
  PROVE  x \in DOMAIN m /\ Rank(m, x) < Rank(m, p) /\ \E k : IsKid(m, p, k, x)
<1>1. m[p].kids \in Seq(DOMAIN m)
  BY DEF Ordered
<1>2. PICK k \in DOMAIN m[p].kids : m[p].kids[k] = x
  BY DEF ToSet
<1>3. x \in DOMAIN m
  BY <1>1, <1>2, LenProperties, ElementOfSeq
<1>4. IsKid(m, p, k, x)
  BY <1>2 DEF IsKid
<1>5. Rank(m, x) < p
  BY <1>4 DEF Ordered
<1>6. m[p].kids # <<>>
  BY <1>2
<1>7. Rank(m, p) = p
  BY <1>6 DEF Rank
<1> QED BY <1>3, <1>4, <1>5, <1>7

\* The definition says what it seems to say: its equation has a solution.
LEMMA SubtreeDef ==
  ASSUME Ordered(mem)
  PROVE  /\ Subtree \in [DOMAIN mem -> SUBSET DOMAIN mem]
         /\ \A i \in DOMAIN mem : Subtree[i] = {i} \cup UNION {Subtree[k] : k \in ToSet(mem[i].kids)}
<1> DEFINE S == DOMAIN mem
           V == SUBSET S
           rank == [i \in S |-> Rank(mem, i)]
           F == [f \in [S -> V] |-> [i \in S |-> {i} \cup UNION {f[k] : k \in ToSet(mem[i].kids)}]]
<1>1. \A i \in S : \A x \in ToSet(mem[i].kids) : x \in S /\ rank[x] < rank[i]
  BY KidRanked
<1>2. F \in [[S -> V] -> [S -> V]]
  BY <1>1
<1>3. ASSUME NEW f \in [S -> V], NEW g \in [S -> V], NEW i \in S, \A x \in S : rank[x] < rank[i] => f[x] = g[x]
      PROVE  F[f][i] = F[g][i]
  <2>1. \A x \in ToSet(mem[i].kids) : f[x] = g[x]
    BY <1>1, <1>3
  <2>2. {f[k] : k \in ToSet(mem[i].kids)} = {g[k] : k \in ToSet(mem[i].kids)}
    BY <2>1
  <2> QED BY <2>2
<1>4. \E f \in [S -> V] : f = F[f]
  <2>1. rank \in [S -> Nat]
    BY RankType
  <2>2. V # {}
    OBVIOUS
  <2> HIDE DEF F, rank, V, S
  <2>3. FromLower(S, rank, V, F)
    BY <1>2, <1>3, <2>1, <2>2 DEF FromLower
  <2> QED BY <2>3, Recursion
<1>5. PICK f \in [S -> V] : f = F[f]
  BY <1>4
<1>6. f = [i \in S |-> {i} \cup UNION {f[k] : k \in ToSet(mem[i].kids)}]
  BY <1>5
<1>7. Subtree = [i \in S |-> {i} \cup UNION {Subtree[k] : k \in ToSet(mem[i].kids)}]
  BY <1>6 DEF Subtree
<1>8. Subtree \in [S -> V]
  <2>1. \A i \in S : {i} \cup UNION {f[k] : k \in ToSet(mem[i].kids)} \in V
    BY <1>1
  <2>2. Subtree = CHOOSE g : g = [i \in S |-> {i} \cup UNION {g[k] : k \in ToSet(mem[i].kids)}]
    BY DEF Subtree
  <2> DEFINE Solved(g) == g = [i \in S |-> {i} \cup UNION {g[k] : k \in ToSet(mem[i].kids)}]
  <2>3. ASSUME NEW g, Solved(g) PROVE g = f
    <3> DEFINE G == {i \in S : g[i] = f[i]}
    <3>1. ASSUME NEW i \in S, \A x \in S : rank[x] < rank[i] => x \in G PROVE i \in G
      <4>1. \A x \in ToSet(mem[i].kids) : g[x] = f[x]
        BY <1>1, <3>1
      <4>2. {f[k] : k \in ToSet(mem[i].kids)} = {g[k] : k \in ToSet(mem[i].kids)}
        BY <4>1
      <4>3. f[i] = {i} \cup UNION {f[k] : k \in ToSet(mem[i].kids)}
        BY <1>6
      <4>4. g[i] = {i} \cup UNION {g[k] : k \in ToSet(mem[i].kids)}
        BY <2>3
      <4> QED BY <4>2, <4>3, <4>4
    <3>2. G \in SUBSET S
      OBVIOUS
    <3>3. rank \in [S -> Nat]
      BY RankType
    <3>4. G = S
      <4> HIDE DEF G, S, rank
      <4> QED BY <3>1, <3>2, <3>3, RankInduction
    <3>5. \A i \in S : g[i] = f[i]
      BY <3>4
    <3>6. DOMAIN g = S /\ g = [i \in S |-> g[i]]
      BY <2>3
    <3>7. f = [i \in S |-> f[i]]
      OBVIOUS
    <3> QED BY <3>5, <3>6, <3>7
  <2>4. Subtree = f
    <3>1. Solved(Subtree)
      BY <1>7
    <3> HIDE DEF Solved
    <3> QED BY <2>3, <3>1
  <2> QED BY <2>4
<1> QED BY <1>7, <1>8

\* A subtree has the node it is of, and with a node the children of it; every
\* other node of it has a parent in it.
LEMMA SubtreeShape ==
  ASSUME Ordered(mem), NEW top \in DOMAIN mem
  PROVE  /\ Subtree[top] \subseteq DOMAIN mem
         /\ top \in Subtree[top]
         /\ \A p \in Subtree[top] : \A k, x : IsKid(mem, p, k, x) => x \in Subtree[top]
         /\ \A x \in Subtree[top] : x = top \/ \E p \in Subtree[top] : \E k : IsKid(mem, p, k, x)
<1> DEFINE S == DOMAIN mem
           rank == [i \in S |-> Rank(mem, i)]
           Closed(i) == \A p \in Subtree[i] : \A k, x : IsKid(mem, p, k, x) => x \in Subtree[i]
           Parented(i) == \A x \in Subtree[i] : x = i \/ \E p \in Subtree[i] : \E k : IsKid(mem, p, k, x)
           G == {i \in S : Closed(i) /\ Parented(i)}
<1>1. \A i \in S : Subtree[i] = {i} \cup UNION {Subtree[k] : k \in ToSet(mem[i].kids)} /\ Subtree[i] \subseteq S
  BY SubtreeDef
<1>2. \A i \in S : \A x \in ToSet(mem[i].kids) : x \in S /\ rank[x] < rank[i] /\ \E k : IsKid(mem, i, k, x)
  BY KidRanked
<1>3. \A i, k, x : IsKid(mem, i, k, x) => x \in ToSet(mem[i].kids)
  BY DEF IsKid, ToSet
<1>4. \A i \in S : i \in Subtree[i]
  BY <1>1
<1>5. \A i \in S : \A x \in ToSet(mem[i].kids) : Subtree[x] \subseteq Subtree[i]
  BY <1>1
<1>6. \A i \in S : \A y \in Subtree[i] : y = i \/ \E x \in ToSet(mem[i].kids) : y \in Subtree[x]
  BY <1>1
<1>7. ASSUME NEW i \in S, \A x \in S : rank[x] < rank[i] => x \in G PROVE i \in G
  <2>0. \A x \in ToSet(mem[i].kids) : x \in G
    BY <1>2, <1>7
  <2>1. \A x \in ToSet(mem[i].kids) : Closed(x) /\ Parented(x)
    BY <2>0
  <2>2. Closed(i)
    <3> SUFFICES ASSUME NEW p \in Subtree[i], NEW k, NEW x, IsKid(mem, p, k, x) PROVE x \in Subtree[i]
      OBVIOUS
    <3>1. CASE p = i
      <4>1. x \in ToSet(mem[i].kids)
        BY <1>3, <3>1
      <4> QED BY <4>1, <1>2, <1>4, <1>5
    <3>2. CASE p # i
      <4>1. PICK c \in ToSet(mem[i].kids) : p \in Subtree[c]
        BY <1>6, <3>2
      <4>2. x \in Subtree[c]
        BY <2>1, <4>1
      <4> QED BY <1>5, <4>2
    <3> QED BY <3>1, <3>2
  <2>3. Parented(i)
    <3> SUFFICES ASSUME NEW x \in Subtree[i], x # i PROVE \E p \in Subtree[i] : \E k : IsKid(mem, p, k, x)
      OBVIOUS
    <3>1. PICK c \in ToSet(mem[i].kids) : x \in Subtree[c]
      BY <1>6
    <3>2. CASE x = c
      BY <1>2, <1>4, <3>2
    <3>3. CASE x # c
      <4>1. PICK p \in Subtree[c] : \E k : IsKid(mem, p, k, x)
        BY <2>1, <3>1, <3>3
      <4> QED BY <1>5, <4>1
    <3> QED BY <3>2, <3>3
  <2> QED BY <2>2, <2>3
<1>8. rank \in [S -> Nat] /\ G \in SUBSET S
  BY RankType
<1>9. G = S
  <2> HIDE DEF G, S, rank
  <2> QED BY <1>7, <1>8, RankInduction
<1>10. Closed(top) /\ Parented(top)
  BY <1>9
<1> QED BY <1>1, <1>4, <1>10

-----------------------------------------------------------------------------
(* The steps that change the forest.                                       *)

\* A subtree without an owner is taken out.
LEMMA RemoveTree ==
  ASSUME Ordered(mem), NEW top \in DOMAIN mem, NEW st, NEW rt,
         st \in Seq(DOMAIN mem), NoTwoOwners(mem, st, rt),
         \A p, k : ~IsKid(mem, p, k, top), \A j : ~IsKept(st, j, top), rt # top,
         \A i \in DOMAIN mem : i = top \/ HasOwner(mem, st, rt, i)
  PROVE  /\ Forest(Without(Subtree[top]), st, rt)
         /\ rt \in DOMAIN mem => rt \in DOMAIN Without(Subtree[top])
<1> DEFINE gone == Subtree[top]
           m == Without(gone)
<1>1. /\ gone \subseteq DOMAIN mem
      /\ top \in gone
      /\ \A p \in gone : \A k, x : IsKid(mem, p, k, x) => x \in gone
      /\ \A x \in gone : x = top \/ \E p \in gone : \E k : IsKid(mem, p, k, x)
  BY SubtreeShape
<1>2. DOMAIN m = DOMAIN mem \ gone /\ \A i \in DOMAIN m : m[i] = mem[i]
  BY DEF Without
<1> HIDE DEF gone, m
<1>3. \A p, k, i : IsKid(m, p, k, i) <=> IsKid(mem, p, k, i) /\ p \notin gone
  BY <1>2 DEF IsKid
<1>4. \A p, k, i : IsKid(m, p, k, i) => i \notin gone
  BY <1>1, <1>3 DEF NoTwoOwners
<1>5. \A j, i : IsKept(st, j, i) => i \notin gone
  BY <1>1 DEF NoTwoOwners
<1>6. \A i \in DOMAIN m : Rank(m, i) = Rank(mem, i)
  BY <1>2 DEF Rank
<1>7. \A p \in DOMAIN m : m[p].kids \in Seq(DOMAIN m)
  <2> TAKE p \in DOMAIN m
  <2>1. mem[p].kids \in Seq(DOMAIN mem) /\ m[p].kids = mem[p].kids
    BY <1>2 DEF Ordered
  <2> DEFINE ks == m[p].kids
  <2>2. ks \in Seq(DOMAIN mem)
    BY <2>1
  <2> HIDE DEF ks
  <2>3. Len(ks) \in Nat /\ ks \in [1 .. Len(ks) -> DOMAIN mem]
    BY <2>2, LenProperties
  <2>4. \A k \in 1 .. Len(ks) : ks[k] \in DOMAIN m
    <3> TAKE k \in 1 .. Len(ks)
    <3>1. IsKid(m, p, k, ks[k])
      BY <2>3 DEF IsKid, ks
    <3> QED BY <1>2, <1>4, <2>3, <3>1
  <2>5. ks \in [1 .. Len(ks) -> DOMAIN m]
    BY <2>3, <2>4
  <2>6. ks \in Seq(DOMAIN m)
    BY <2>3, <2>5
  <2> QED BY <2>6 DEF ks
<1>8. Ordered(m)
  <2>1. DOMAIN m \subseteq Nat \ {0} /\ \E n \in Nat : \A i \in DOMAIN m : i <= n
    BY <1>2 DEF Ordered
  <2>2. \A p, k, i : IsKid(m, p, k, i) => Rank(m, i) < p
    <3> TAKE p, k, i
    <3> HAVE IsKid(m, p, k, i)
    <3>1. i \in DOMAIN m
      <4>1. p \in DOMAIN mem /\ k \in DOMAIN mem[p].kids /\ mem[p].kids[k] = i
        BY <1>3 DEF IsKid
      <4>2. mem[p].kids \in Seq(DOMAIN mem)
        BY <4>1 DEF Ordered
      <4>3. i \in DOMAIN mem
        BY <4>1, <4>2, LenProperties, ElementOfSeq
      <4> QED BY <4>3, <1>2, <1>4
    <3>2. IsKid(mem, p, k, i)
      BY <1>3
    <3> QED BY <1>6, <3>1, <3>2 DEF Ordered
  <2> QED BY <1>7, <2>1, <2>2 DEF Ordered
<1>9. st \in Seq(DOMAIN m)
  <2>1. Len(st) \in Nat /\ st \in [1 .. Len(st) -> DOMAIN mem]
    BY LenProperties
  <2>2. \A j \in 1 .. Len(st) : st[j] \in DOMAIN m
    BY <1>2, <1>5, <2>1 DEF IsKept
  <2>3. st \in [1 .. Len(st) -> DOMAIN m]
    BY <2>1, <2>2
  <2> QED BY <2>1, <2>3
<1>10. NoTwoOwners(m, st, rt)
  BY <1>3 DEF NoTwoOwners
<1>11. \A i \in DOMAIN m : HasOwner(m, st, rt, i)
  <2> TAKE i \in DOMAIN m
  <2>1. HasOwner(mem, st, rt, i) /\ i \notin gone
    BY <1>1, <1>2
  <2>2. \A p, k : IsKid(mem, p, k, i) => IsKid(m, p, k, i)
    BY <1>1, <1>3, <2>1
  <2> QED BY <2>1, <2>2 DEF HasOwner
<1>12. rt \in DOMAIN mem => rt \in DOMAIN m
  BY <1>1, <1>2 DEF NoTwoOwners
<1> QED BY <1>8, <1>9, <1>10, <1>11, <1>12 DEF Forest, m, gone

\* A new node takes its children from the top of the stack and goes on it.
LEMMA PushTree ==
  ASSUME NEW m, NEW n \in Nat \ {0}, NEW rest \in 0 .. Len(stack), NEW mk \in BOOLEAN, NEW ks,
         Forest(mem, stack, None),
         \A i \in DOMAIN mem : i < n,
         DOMAIN m = DOMAIN mem \cup {n} \cup (IF mk THEN {n + 1} ELSE {}),
         \A i \in DOMAIN mem : m[i].kids = mem[i].kids,
         m[n].kids = ks,
         mk => m[n + 1].kids = <<>>,
         TakesOver(ks, stack, rest, mk, n + 1)
  PROVE  Forest(m, Append(SubSeq(stack, 1, rest), n), None)
<1> DEFINE st == Append(SubSeq(stack, 1, rest), n)
           NewKid(k, i) == k \in DOMAIN ks /\ ks[k] = i
<1>0. Ordered(mem) /\ stack \in Seq(DOMAIN mem) /\ NoTwoOwners(mem, stack, None)
  BY DEF Forest
<1>1. /\ st \in Seq(DOMAIN m)
      /\ DOMAIN st = 1 .. rest + 1
      /\ st[rest + 1] = n
      /\ \A j \in 1 .. rest : st[j] = stack[j]
  <2>1. n \in DOMAIN m /\ DOMAIN mem \subseteq DOMAIN m
    OBVIOUS
  <2> QED BY <1>0, <2>1, TopReplaced
<1> HIDE DEF st
<1>2. DOMAIN stack = 1 .. Len(stack) /\ Len(stack) \in Nat /\ rest \in Nat /\ rest <= Len(stack)
  BY <1>0, LenProperties
<1>3. DOMAIN mem \subseteq Nat \ {0} /\ n \notin DOMAIN mem /\ n + 1 \notin DOMAIN mem
  BY <1>0 DEF Ordered
<1>4. \A p, k, i : IsKid(m, p, k, i) <=> IsKid(mem, p, k, i) \/ (p = n /\ NewKid(k, i))
  <2> TAKE p, k, i
  <2>1. CASE p \in DOMAIN mem
    <3>1. m[p].kids = mem[p].kids /\ p \in DOMAIN m /\ p # n
      BY <1>3, <2>1
    <3> QED BY <2>1, <3>1 DEF IsKid
  <2>2. CASE p = n
    <3>1. p \in DOMAIN m /\ p \notin DOMAIN mem
      BY <1>3, <2>2
    <3> QED BY <2>2, <3>1 DEF IsKid
  <2>3. CASE p = n + 1
    <3>1. p \notin DOMAIN mem /\ p # n
      BY <1>3, <2>3
    <3>2. p \in DOMAIN m => m[p].kids = <<>>
      BY <2>3, <3>1
    <3> QED BY <3>1, <3>2 DEF IsKid
  <2>4. CASE p \notin DOMAIN mem /\ p # n /\ p # n + 1
    <3>1. p \notin DOMAIN m
      BY <2>4
    <3> QED BY <2>4, <3>1 DEF IsKid
  <2> QED BY <2>1, <2>2, <2>3, <2>4
<1>5. \A j, i : IsKept(st, j, i) <=> (IsKept(stack, j, i) /\ j <= rest) \/ (j = rest + 1 /\ i = n)
  <2> TAKE j, i
  <2>1. CASE j \in 1 .. rest
    BY <1>1, <1>2, <2>1 DEF IsKept
  <2>2. CASE j = rest + 1
    BY <1>1, <1>2, <2>2 DEF IsKept
  <2>3. CASE j \notin 1 .. rest + 1
    BY <1>1, <1>2, <2>3 DEF IsKept
  <2> QED BY <1>2, <2>1, <2>2, <2>3
<1>6. \A p, k, i : IsKid(mem, p, k, i) => p \in DOMAIN mem /\ i \in DOMAIN mem
  <2> TAKE p, k, i
  <2> HAVE IsKid(mem, p, k, i)
  <2>1. p \in DOMAIN mem /\ k \in DOMAIN mem[p].kids /\ mem[p].kids[k] = i
    BY DEF IsKid
  <2>2. mem[p].kids \in Seq(DOMAIN mem)
    BY <1>0, <2>1 DEF Ordered
  <2> QED BY <2>1, <2>2, LenProperties, ElementOfSeq
<1>7. \A j, i : IsKept(stack, j, i) => i \in DOMAIN mem /\ j \in 1 .. Len(stack)
  BY <1>0, <1>2, ElementOfSeq DEF IsKept
<1>8. /\ ks \in Seq(ToSet(ks))
      /\ \A k, l, i : NewKid(k, i) /\ NewKid(l, i) => k = l
      /\ \A k, i : NewKid(k, i) => (mk /\ i = n + 1) \/ \E j : IsKept(stack, j, i) /\ j > rest
      /\ \A j, i : IsKept(stack, j, i) /\ j > rest => \E k : NewKid(k, i)
      /\ mk => \E k : NewKid(k, n + 1)
  <2>1. \A k \in DOMAIN ks : (mk /\ ks[k] = n + 1) \/ (\E j \in rest + 1 .. Len(stack) : ks[k] = stack[j])
    BY DEF TakesOver
  <2>2. \A j \in rest + 1 .. Len(stack) : \E k \in DOMAIN ks : ks[k] = stack[j]
    BY DEF TakesOver
  <2>3. \A j \in rest + 1 .. Len(stack) : j \in DOMAIN stack /\ j > rest
    BY <1>2
  <2>4. \A j \in DOMAIN stack : j > rest => j \in rest + 1 .. Len(stack)
    BY <1>2
  <2>5. \A k, i : NewKid(k, i) => (mk /\ i = n + 1) \/ \E j : IsKept(stack, j, i) /\ j > rest
    BY <2>1, <2>3 DEF IsKept
  <2>6. \A j, i : IsKept(stack, j, i) /\ j > rest => \E k : NewKid(k, i)
    BY <2>2, <2>4 DEF IsKept
  <2> QED BY <2>5, <2>6 DEF TakesOver
<1>9. \A k \in DOMAIN ks : NewKid(k, ks[k])
  OBVIOUS
<1> HIDE DEF NewKid
<1>10. \A k, i : NewKid(k, i) => (mk /\ i = n + 1) \/ i \in DOMAIN mem
  BY <1>7, <1>8
<1>11. Ordered(m)
  <2>1. DOMAIN m \subseteq Nat \ {0}
    BY <1>3
  <2>2. n + 1 \in Nat /\ \A i \in DOMAIN m : i <= n + 1
    BY <1>3
  <2>3. ASSUME NEW p \in DOMAIN m PROVE m[p].kids \in Seq(DOMAIN m)
    <3>1. CASE p \in DOMAIN mem
      <4>1. m[p].kids \in Seq(DOMAIN mem)
        BY <1>0, <3>1 DEF Ordered
      <4>2. DOMAIN mem \subseteq DOMAIN m
        OBVIOUS
      <4> QED BY <4>1, <4>2, SeqMonotonic
    <3>2. CASE p = n
      <4>1. \A k \in DOMAIN ks : ks[k] \in DOMAIN m
        BY <1>9, <1>10
      <4>2. ToSet(ks) \subseteq DOMAIN m
        BY <4>1 DEF ToSet
      <4>3. ks \in Seq(DOMAIN m)
        BY <1>8, <4>2, SeqMonotonic
      <4> QED BY <3>2, <4>3
    <3>3. CASE mk /\ p = n + 1
      <4>1. m[p].kids = <<>>
        BY <3>3
      <4> QED BY <4>1, EmptySeq
    <3> QED BY <3>1, <3>2, <3>3
  <2>4. \A i \in DOMAIN mem : Rank(m, i) = Rank(mem, i) /\ Rank(mem, i) <= i
    BY <1>3 DEF Rank
  <2>5. ASSUME NEW p, NEW k, NEW i, IsKid(m, p, k, i) PROVE Rank(m, i) < p
    <3>1. CASE IsKid(mem, p, k, i)
      BY <1>0, <1>6, <2>4, <3>1 DEF Ordered
    <3>2. CASE p = n /\ mk /\ i = n + 1
      BY <3>2 DEF Rank
    <3>3. CASE p = n /\ i \in DOMAIN mem
      <4>1. Rank(m, i) <= i /\ i < n
        BY <2>4, <3>3
      <4>2. Rank(m, i) \in Nat /\ i \in Nat
        BY <1>3, <2>4, <3>3 DEF Rank
      <4> QED BY <3>3, <4>1, <4>2
    <3> QED BY <1>4, <1>10, <2>5, <3>1, <3>2, <3>3
  <2>6. \E b \in Nat : \A i \in DOMAIN m : i <= b
    BY <2>2
  <2> QED BY <2>1, <2>3, <2>5, <2>6 DEF Ordered
<1>12. /\ \A p, q, k, l, i : IsKid(mem, p, k, i) /\ IsKid(mem, q, l, i) => p = q /\ k = l
       /\ \A j, l, i : IsKept(stack, j, i) /\ IsKept(stack, l, i) => j = l
       /\ \A p, k, j, i : ~(IsKid(mem, p, k, i) /\ IsKept(stack, j, i))
       /\ \A p, k : ~IsKid(mem, p, k, None)
       /\ \A j : ~IsKept(stack, j, None)
  BY <1>0 DEF NoTwoOwners
<1>13. \A p, k, l, i : ~(IsKid(mem, p, k, i) /\ NewKid(l, i))
  BY <1>3, <1>6, <1>8, <1>12
<1>14. NoTwoOwners(m, st, None)
  <2>1. \A p, q, k, l, i : IsKid(m, p, k, i) /\ IsKid(m, q, l, i) => p = q /\ k = l
    BY <1>4, <1>8, <1>12, <1>13
  <2>2. \A j, i : IsKept(stack, j, i) => i # n
    BY <1>3, <1>7
  <2>3. \A j, l, i : IsKept(st, j, i) /\ IsKept(st, l, i) => j = l
    BY <1>5, <1>12, <2>2
  <2>4. \A l, j, i : ~(NewKid(l, i) /\ IsKept(st, j, i))
    <3> SUFFICES ASSUME NEW l, NEW j, NEW i, NewKid(l, i), IsKept(st, j, i) PROVE FALSE
      OBVIOUS
    <3>1. i # n /\ IsKept(stack, j, i) /\ j <= rest
      <4>1. i # n
        BY <1>3, <1>10
      <4> QED BY <1>5, <4>1
    <3>2. i # n + 1
      BY <1>3, <1>7, <3>1
    <3>3. PICK a : IsKept(stack, a, i) /\ a > rest
      BY <1>8, <3>2
    <3>4. a = j /\ j \in Nat
      BY <1>7, <1>12, <3>1, <3>3
    <3> QED BY <1>2, <3>1, <3>3, <3>4
  <2>5. \A p, k, j, i : ~(IsKid(m, p, k, i) /\ IsKept(st, j, i))
    <3>1. \A p, k, j, i : ~(IsKid(mem, p, k, i) /\ IsKept(st, j, i))
      BY <1>3, <1>5, <1>6, <1>12
    <3> QED BY <1>4, <2>4, <3>1
  <2>6. None # n /\ None # n + 1 /\ None \notin DOMAIN mem
    BY <1>3, WordsAssumption
  <2>7. \A p, k : ~IsKid(m, p, k, None)
    BY <1>4, <1>10, <1>12, <2>6
  <2>8. \A j : ~IsKept(st, j, None)
    BY <1>5, <1>12, <2>6
  <2> QED BY <2>1, <2>3, <2>5, <2>7, <2>8 DEF NoTwoOwners
<1>15. ASSUME NEW i \in DOMAIN m PROVE HasOwner(m, st, None, i)
  <2>1. CASE i = n
    <3>1. IsKept(st, rest + 1, i)
      BY <1>5, <2>1
    <3> QED BY <3>1 DEF HasOwner
  <2>2. CASE mk /\ i = n + 1
    <3>1. PICK k : NewKid(k, i)
      BY <1>8, <2>2
    <3>2. IsKid(m, n, k, i)
      BY <1>4, <3>1
    <3> QED BY <3>2 DEF HasOwner
  <2>3. CASE i \in DOMAIN mem
    <3>1. HasOwner(mem, stack, None, i) /\ None # i
      BY <1>3, <2>3, WordsAssumption DEF Forest
    <3>2. CASE \E p, k : IsKid(mem, p, k, i)
      BY <1>4, <3>2 DEF HasOwner
    <3>3. CASE \E j : IsKept(stack, j, i)
      <4>1. PICK j : IsKept(stack, j, i)
        BY <3>3
      <4>2. CASE j <= rest
        BY <1>5, <4>1, <4>2 DEF HasOwner
      <4>3. CASE ~(j <= rest)
        <5>1. j > rest
          BY <1>2, <1>7, <4>1, <4>3
        <5>2. PICK k : NewKid(k, i)
          BY <1>8, <4>1, <5>1
        <5>3. IsKid(m, n, k, i)
          BY <1>4, <5>2
        <5> QED BY <5>3 DEF HasOwner
      <4> QED BY <4>2, <4>3
    <3> QED BY <3>1, <3>2, <3>3 DEF HasOwner
  <2> QED BY <2>1, <2>2, <2>3
<1> QED BY <1>1, <1>11, <1>14, <1>15 DEF Forest, st

-----------------------------------------------------------------------------
(* The words                                                               *)

LEMMA WordsCounted == \A word \in Vocabulary : word.n \in Nat /\ word.opt \in Nat
<1> SUFFICES ASSUME NEW s \in Statements, NEW word \in ToSet(WordsOf[s]) PROVE word.n \in Nat /\ word.opt \in Nat
  BY DEF Vocabulary
<1>1. PICK i \in DOMAIN WordsOf[s] : word = WordsOf[s][i]
  BY DEF ToSet
<1> QED BY <1>1, WordsAssumption

LEMMA TailEnd ==
  ASSUME NEW S, NEW s \in Seq(S), s # <<>>
  PROVE  /\ Len(s) \in Nat \ {0} /\ DOMAIN s = 1 .. Len(s)
         /\ Head(s) = s[1] /\ Head(s) \in S
         /\ Tail(s) \in Seq(S)
         /\ Len(Tail(s)) = Len(s) - 1 /\ DOMAIN Tail(s) = 1 .. Len(s) - 1
         /\ \A i \in 1 .. Len(s) - 1 : Tail(s)[i] = s[i + 1]
         /\ Tail(s) # <<>> => Len(s) > 1 /\ Tail(s)[Len(Tail(s))] = s[Len(s)]
<1>1. Len(s) \in Nat \ {0} /\ DOMAIN s = 1 .. Len(s) /\ Head(s) = s[1]
  BY EmptySeq, LenProperties
<1>2. /\ Head(s) \in S /\ Tail(s) \in Seq(S) /\ Len(Tail(s)) = Len(s) - 1
      /\ \A i \in 1 .. Len(Tail(s)) : Tail(s)[i] = s[i + 1]
  BY HeadTailProperties
<1>3. DOMAIN Tail(s) = 1 .. Len(s) - 1
  BY <1>2, LenProperties
<1>4. Tail(s) # <<>> => Len(s) > 1 /\ Tail(s)[Len(Tail(s))] = s[Len(s)]
  <2> HAVE Tail(s) # <<>>
  <2>1. Len(Tail(s)) \in Nat \ {0}
    BY <1>2, EmptySeq
  <2>2. Len(s) - 1 \in 1 .. Len(Tail(s)) /\ Len(s) - 1 + 1 = Len(s)
    BY <1>1, <1>2, <2>1
  <2> QED BY <1>1, <1>2, <2>1, <2>2
<1> QED BY <1>1, <1>2, <1>3, <1>4

\* What is behind a place of a sequence ends like the sequence.
LEMMA Behind ==
  ASSUME NEW S, NEW s \in Seq(S), NEW n \in 1 .. Len(s)
  PROVE  /\ SubSeq(s, n + 1, Len(s)) \in Seq(S)
         /\ SubSeq(s, n + 1, Len(s)) # <<>>
              => SubSeq(s, n + 1, Len(s))[Len(SubSeq(s, n + 1, Len(s)))] = s[Len(s)]
<1> DEFINE len == Len(s)
           u == SubSeq(s, n + 1, len)
<1>1. len \in Nat /\ n \in Nat /\ n <= len /\ n + 1 \in Int /\ len \in Int
  BY LenProperties
<1>2. \A i \in n + 1 .. len : s[i] \in S
  BY <1>1, ElementOfSeq
<1> HIDE DEF len
<1>3. /\ u \in Seq(S)
      /\ Len(u) = IF n + 1 <= len THEN len - (n + 1) + 1 ELSE 0
      /\ \A i \in 1 .. len - (n + 1) + 1 : u[i] = s[n + 1 + i - 1]
  BY <1>1, <1>2, SubSeqProperties
<1> HIDE DEF u
<1>4. u # <<>> => u[Len(u)] = s[len]
  <2> HAVE u # <<>>
  <2>1. Len(u) \in Nat \ {0}
    BY <1>3, EmptySeq
  <2>2. Len(u) = len - (n + 1) + 1 /\ Len(u) \in 1 .. len - (n + 1) + 1
    BY <1>1, <1>3, <2>1
  <2>3. u[Len(u)] = s[n + 1 + Len(u) - 1]
    BY <1>3, <2>2
  <2>4. n + 1 + Len(u) - 1 = len
    BY <1>1, <2>2
  <2> QED BY <2>3, <2>4
<1> QED BY <1>3, <1>4 DEF u, len

\* The attributes of a column end before the statement does.
LEMMA AttrsEnd ==
  ASSUME queue \in Seq(Vocabulary), queue # <<>>, Head(queue).w = "STARTCOL", queue[Len(queue)].w = "STMT"
  PROVE  /\ AfterAttrs \in 2 .. Len(queue)
         /\ queue[AfterAttrs].w # "ATTR"
         /\ \A j \in 2 .. AfterAttrs - 1 : queue[j].w = "ATTR"
<1> DEFINE T == {i \in 2 .. Len(queue) : queue[i].w # "ATTR"}
<1>1. Len(queue) \in Nat \ {0} /\ Head(queue) = queue[1]
  BY TailEnd
<1>2. Len(queue) # 1
  BY <1>1
<1>3. Len(queue) \in T /\ T \in SUBSET Nat
  BY <1>1, <1>2
<1>4. PICK i \in T : \A j \in T : i <= j
  <2> HIDE DEF T
  <2>1. T # {}
    BY <1>3
  <2> QED BY <1>3, <2>1, LeastNat
<1>5. \A j \in 2 .. i - 1 : queue[j].w = "ATTR"
  <2> SUFFICES ASSUME NEW j \in 2 .. i - 1, queue[j].w # "ATTR" PROVE FALSE
    OBVIOUS
  <2>1. j \in T /\ ~(i <= j)
    BY <1>1, <1>4
  <2> QED BY <1>4, <2>1
<1>6. i \in 2 .. Len(queue) /\ queue[i].w # "ATTR"
  BY <1>4
<1> QED BY <1>5, <1>6 DEF AfterAttrs

-----------------------------------------------------------------------------
(* The invariant holds                                                     *)

LEMMA BuilderNames == "parse" \notin Builders /\ "unwind" \notin Builders /\ "built" \notin Builders /\ "down" \notin Builders
                        /\ "done" \notin Builders /\ "failed" \notin Builders /\ "refused" \notin Builders
BY DEF Builders

LEMMA InvInit == InitAst => AstInv
<1> SUFFICES ASSUME InitAst PROVE AstInv
  OBVIOUS
<1> USE DEF InitAst
<1>1. Worded
  <2>1. WordsOf[stmt] \in Seq(ToSet(WordsOf[stmt])) /\ ToSet(WordsOf[stmt]) \subseteq Vocabulary
    BY WordsAssumption DEF Vocabulary
  <2>2. todo \in Seq(Vocabulary)
    BY <2>1, SeqMonotonic
  <2>3. queue \in Seq(Vocabulary) /\ DOMAIN queue = {}
    BY EmptySeq
  <2>4. \A i \in DOMAIN todo : todo[i].w = "STMT" => i = Len(todo)
    BY WordsAssumption
  <2> QED BY <2>2, <2>3, <2>4, BuilderNames DEF Worded
<1>2. Phases
  <2>1. mem \in Seq(ToSet(mem))
    BY EmptySeq
  <2> QED BY <2>1, BuilderNames DEF Phases
<1>3. Forest(mem, stack, root)
  <2>1. DOMAIN mem = {} /\ DOMAIN stack = {}
    OBVIOUS
  <2>2. stack \in Seq(DOMAIN mem)
    BY EmptySeq
  <2>3. (\A p, k, i : ~IsKid(mem, p, k, i)) /\ (\A j, i : ~IsKept(stack, j, i))
    BY <2>1 DEF IsKid, IsKept
  <2>4. 0 \in Nat /\ \A i \in DOMAIN mem : i <= 0
    BY <2>1
  <2>5. Ordered(mem)
    BY <2>1, <2>3, <2>4 DEF Ordered
  <2>6. NoTwoOwners(mem, stack, root)
    BY <2>3 DEF NoTwoOwners
  <2> QED BY <2>1, <2>2, <2>5, <2>6 DEF Forest
<1> QED BY <1>1, <1>2, <1>3 DEF AstInv

\* The steps that leave the trees alone.
LEMMA ForestKept ==
  ASSUME Forest(mem, stack, root), UNCHANGED <<mem, stack, root>>
  PROVE  Forest(mem, stack, root)'
<1>1. Forest(mem, stack, root)' = Forest(mem', stack', root')
  BY DEF Forest, Ordered, NoTwoOwners, HasOwner, IsKid, IsKept, Rank
<1> QED BY <1>1

LEMMA PhasesCrash == ASSUME AstInv, Crash, oom' \in BOOLEAN, pc \in {"parse"} \cup Builders PROVE AstInv'
<1>1. Forest(mem, stack, root)'
  BY ForestKept DEF AstInv, Crash
<1>2. Worded'
  BY BuilderNames DEF AstInv, Worded, Crash, syntaxVars
<1>3. Phases'
  BY BuilderNames DEF AstInv, Phases, Crash, syntaxVars, Ended
<1> QED BY <1>1, <1>2, <1>3 DEF AstInv

\* The parse.
LEMMA ParseSteps ==
  ASSUME AstInv, EmitWord \/ LoseWord \/ QueueCannotGrow \/ SyntaxError \/ SyntaxErrorUntold
  PROVE  AstInv'
<1>0. Worded /\ Phases /\ Forest(mem, stack, root)
  BY DEF AstInv
<1>1. pc = "parse" /\ todo # <<>>
  BY DEF EmitWord, LoseWord, QueueCannotGrow, SyntaxError, SyntaxErrorUntold
<1>2. /\ Len(todo) \in Nat \ {0} /\ DOMAIN todo = 1 .. Len(todo)
      /\ Head(todo) = todo[1] /\ Head(todo) \in Vocabulary
      /\ Tail(todo) \in Seq(Vocabulary)
      /\ Len(Tail(todo)) = Len(todo) - 1 /\ DOMAIN Tail(todo) = 1 .. Len(todo) - 1
      /\ \A i \in 1 .. Len(todo) - 1 : Tail(todo)[i] = todo[i + 1]
  BY <1>0, <1>1, TailEnd DEF Worded
<1>3. \A i \in DOMAIN Tail(todo) : Tail(todo)[i].w = "STMT" => i = Len(Tail(todo))
  <2> TAKE i \in DOMAIN Tail(todo)
  <2>1. i + 1 \in DOMAIN todo /\ Tail(todo)[i] = todo[i + 1]
    BY <1>2
  <2>2. todo[i + 1].w = "STMT" => i + 1 = Len(todo)
    BY <1>0, <1>1, <2>1 DEF Worded
  <2> QED BY <1>2, <2>1, <2>2
<1>4. \A i \in DOMAIN queue : queue[i].w # "STMT"
  BY <1>0, <1>1 DEF Worded
<1>5. CASE EmitWord
  <2>1. Forest(mem, stack, root)'
    BY <1>0, <1>5, ForestKept DEF EmitWord
  <2>2. /\ Append(queue, Head(todo)) \in Seq(Vocabulary)
        /\ Len(queue) \in Nat
        /\ DOMAIN queue = 1 .. Len(queue)
        /\ Len(Append(queue, Head(todo))) = Len(queue) + 1
        /\ DOMAIN Append(queue, Head(todo)) = 1 .. Len(queue) + 1
        /\ \A i \in 1 .. Len(queue) : Append(queue, Head(todo))[i] = queue[i]
        /\ Append(queue, Head(todo))[Len(queue) + 1] = Head(todo)
    BY <1>0, <1>2, AppendProperties, LenProperties DEF Worded
  <2>3. Head(todo).w = "STMT" => Tail(todo) = <<>>
    <3> HAVE Head(todo).w = "STMT"
    <3>1. 1 = Len(todo)
      BY <1>0, <1>1, <1>2 DEF Worded
    <3> DEFINE u == Tail(todo)
    <3>2. u \in Seq(Vocabulary) /\ Len(u) = Len(todo) - 1
      BY <1>2
    <3> HIDE DEF u
    <3>3. u = <<>>
      <4>1. \A s \in Seq(Vocabulary) : s # <<>> => Len(s) # 0
        BY EmptySeq
      <4>2. Len(u) = 0
        BY <3>1, <3>2
      <4> QED BY <3>2, <4>1, <4>2
    <3> QED BY <3>3 DEF u
  <2>4. \A i \in DOMAIN queue' : queue'[i].w = "STMT" => todo' = <<>> /\ i = Len(queue')
    BY <1>4, <1>5, <2>2, <2>3 DEF EmitWord
  <2>5. Worded'
    BY <1>1, <1>2, <1>3, <1>5, <2>2, <2>4, BuilderNames DEF Worded, EmitWord
  <2>6. Phases'
    BY <1>0, <1>5 DEF Phases, EmitWord
  <2> QED BY <2>1, <2>5, <2>6 DEF AstInv
<1>6. CASE LoseWord
  <2>1. Forest(mem, stack, root)'
    BY <1>0, <1>6, ForestKept DEF LoseWord
  <2>2. Worded'
    BY <1>0, <1>1, <1>2, <1>3, <1>4, <1>6, BuilderNames DEF Worded, LoseWord
  <2>3. Phases'
    BY <1>0, <1>6 DEF Phases, LoseWord, Fails
  <2> QED BY <2>1, <2>2, <2>3 DEF AstInv
<1>7. CASE QueueCannotGrow
  BY <1>1, <1>7, PhasesCrash DEF QueueCannotGrow, Fails
<1>8. ASSUME pc' = "refused", queue' = <<>>, oom' \in BOOLEAN, UNCHANGED <<stmt, todo, stack, mem, root, leaked>>
      PROVE  AstInv'
  <2>1. Forest(mem, stack, root)'
    BY <1>0, <1>8, ForestKept
  <2>2. Worded'
    BY <1>0, <1>8, EmptySeq, BuilderNames DEF Worded
  <2>3. Phases'
    BY <1>0, <1>1, <1>8, BuilderNames DEF Phases, Ended
  <2> QED BY <2>1, <2>2, <2>3 DEF AstInv
<1>9. CASE SyntaxError
  BY <1>0, <1>8, <1>9 DEF SyntaxError, Phases
<1>10. CASE SyntaxErrorUntold
  <2>1. oom' \in BOOLEAN
    BY <1>10 DEF SyntaxErrorUntold, Fails
  <2>2. CASE Crash
    BY <1>1, <2>1, <2>2, PhasesCrash
  <2>3. CASE ~Crash
    BY <1>8, <1>10, <2>1, <2>3 DEF SyntaxErrorUntold
  <2> QED BY <2>2, <2>3
<1> QED BY <1>5, <1>6, <1>7, <1>9, <1>10

\* The kind of the statement is found, or not.
LEMMA DispatchSteps ==
  ASSUME AstInv, Dispatch \/ DispatchFails \/ DispatchCrashes
  PROVE  AstInv'
<1>0. Worded /\ Phases /\ Forest(mem, stack, root)
  BY DEF AstInv
<1>1. pc = "parse"
  BY DEF Dispatch, DispatchFails, DispatchCrashes
<1>2. CASE DispatchCrashes
  BY <1>0, <1>1, <1>2, PhasesCrash DEF DispatchCrashes, Phases
<1>3. CASE DispatchFails
  <2>1. Forest(mem, stack, root)'
    BY <1>0, <1>3, ForestKept DEF DispatchFails
  <2>2. Worded'
    BY <1>0, <1>3, BuilderNames DEF Worded, DispatchFails, syntaxVars
  <2>3. Phases'
    <3>1. oom' \in BOOLEAN
      BY <1>0, <1>3 DEF DispatchFails, Fails, Phases
    <3> QED BY <1>0, <1>1, <1>3, <3>1, BuilderNames DEF Phases, DispatchFails, syntaxVars
  <2> QED BY <2>1, <2>2, <2>3 DEF AstInv
<1>4. CASE Dispatch
  <2>1. Forest(mem, stack, root)'
    BY <1>0, <1>4, ForestKept DEF Dispatch
  <2>2. PICK i \in EndOfStatement \cap (2 .. Len(queue)) : KindOf(queue[i - 1]) \in Builders /\ pc' = KindOf(queue[i - 1])
    BY <1>4 DEF Dispatch
  <2>3. queue[Len(queue)].w = "STMT"
    BY <1>0, <1>1, <2>2 DEF EndOfStatement, Worded
  <2>4. pc' \in Builders
    BY <2>2
  <2>5. UNCHANGED <<stmt, todo, queue, stack, mem, root, oom, leaked>>
    BY <1>4 DEF Dispatch, syntaxVars
  <2>6. Worded'
    BY <1>0, <2>3, <2>4, <2>5, BuilderNames DEF Worded
  <2>7. Phases'
    BY <1>0, <1>1, <2>4, <2>5, BuilderNames DEF Phases
  <2> QED BY <2>1, <2>6, <2>7 DEF AstInv
<1> QED BY <1>2, <1>3, <1>4

\* A step of a builder that leaves the trees alone, and the statement in the
\* builder or on its way out.
LEMMA BuilderStays ==
  ASSUME AstInv, pc \in Builders, queue # <<>>, UNCHANGED <<stmt, todo, mem, stack, root>>,
         queue' \in {queue, Tail(queue)} \/ (pc' # pc /\ queue' \in Seq(Vocabulary)),
         oom' \in BOOLEAN, leaked' \in {0, 1},
         pc' \in {"unwind", "down"} \/ (pc' = pc /\ UNCHANGED leaked)
  PROVE  AstInv'
<1>0. Worded /\ Phases /\ Forest(mem, stack, root)
  BY DEF AstInv
<1>1. Forest(mem, stack, root)'
  BY <1>0, ForestKept
<1>2. /\ Tail(queue) \in Seq(Vocabulary)
      /\ Tail(queue) # <<>> => Tail(queue)[Len(Tail(queue))] = queue[Len(queue)]
  BY <1>0, TailEnd DEF Worded
<1>3. Worded'
  <2>1. queue' \in Seq(Vocabulary)
    BY <1>0, <1>2 DEF Worded
  <2>2. pc' = pc => (queue' # <<>> => queue'[Len(queue')].w = "STMT")
    BY <1>0, <1>2 DEF Worded
  <2> QED BY <1>0, <2>1, <2>2, BuilderNames DEF Worded
<1>4. Phases'
  BY <1>0, BuilderNames DEF Phases, Ended
<1> QED BY <1>1, <1>3, <1>4 DEF AstInv

LEMMA FailingSteps ==
  ASSUME AstInv, DiscardWhere \/ NodeFails \/ MatchFails \/ BuilderCrashes \/ StackCannotGrow
  PROVE  AstInv'
<1>0. Phases
  BY DEF AstInv
<1>1. pc \in Builders /\ queue # <<>>
  BY DEF DiscardWhere, NodeFails, MatchFails, BuilderCrashes, StackCannotGrow, AtWord, Building
<1>2. oom' \in BOOLEAN
  BY <1>0 DEF DiscardWhere, NodeFails, MatchFails, BuilderCrashes, StackCannotGrow, Fails, Phases
<1>3. CASE DiscardWhere
  BY <1>0, <1>1, <1>2, <1>3, BuilderStays DEF DiscardWhere, syntaxVars, Phases
<1>4. CASE NodeFails
  <2>1. queue' \in {queue, Tail(queue)} /\ pc' = "unwind" /\ UNCHANGED <<stmt, todo, mem, stack, root, leaked>>
    BY <1>4 DEF NodeFails, syntaxVars
  <2> QED BY <1>0, <1>1, <1>2, <2>1, BuilderStays DEF Phases
<1>5. CASE MatchFails
  <2>1. queue' = Tail(queue) /\ pc' \in {"unwind", "down"} /\ UNCHANGED <<stmt, todo, mem, stack, root, leaked>>
    BY <1>5 DEF MatchFails, syntaxVars
  <2> QED BY <1>0, <1>1, <1>2, <2>1, BuilderStays DEF Phases
<1>6. CASE BuilderCrashes \/ StackCannotGrow
  BY <1>1, <1>2, <1>6, PhasesCrash DEF BuilderCrashes, StackCannotGrow
<1> QED BY <1>3, <1>4, <1>5, <1>6

LEMMA ColumnFailingSteps ==
  ASSUME AstInv, ColumnFails \/ ColumnMatchFails \/ ColumnCrashes
  PROVE  AstInv'
<1>0. Phases /\ Worded
  BY DEF AstInv
<1>1. pc \in Builders /\ queue # <<>> /\ Head(queue).w = "STARTCOL"
  BY DEF ColumnFails, ColumnMatchFails, ColumnCrashes, AtColumn, Building
<1>2. oom' \in BOOLEAN
  BY <1>0 DEF ColumnFails, ColumnMatchFails, ColumnCrashes, Fails, Phases
<1>3. CASE ColumnFails
  BY <1>0, <1>1, <1>2, <1>3, BuilderStays DEF ColumnFails, syntaxVars, Phases
<1>4. CASE ColumnMatchFails
  <2>1. AfterAttrs \in 2 .. Len(queue)
    BY <1>0, <1>1, AttrsEnd DEF Worded
  <2>2. AfterAttrs \in 1 .. Len(queue)
    BY <2>1
  <2>3. SubSeq(queue, AfterAttrs + 1, Len(queue)) \in Seq(Vocabulary)
    BY <1>0, <2>2, Behind DEF Worded
  <2>4. leaked' = 1
    BY <1>0, <1>1, <1>4 DEF ColumnMatchFails, Phases
  <2>5. pc' \in {"unwind", "down"} /\ UNCHANGED <<stmt, todo, mem, stack, root>> /\ queue' \in Seq(Vocabulary)
    BY <1>4, <2>3 DEF ColumnMatchFails, syntaxVars
  <2>6. pc' # pc
    BY <1>1, <2>5, BuilderNames
  <2> QED BY <1>1, <1>2, <2>4, <2>5, <2>6, BuilderStays
<1>5. CASE ColumnCrashes
  BY <1>1, <1>2, <1>5, PhasesCrash DEF ColumnCrashes
<1> QED BY <1>3, <1>4, <1>5

-----------------------------------------------------------------------------
(* A new node                                                              *)

LEMMA IdIsNew ==
  ASSUME NEW S, mem \in Seq(S)
  PROVE  NewId = Len(mem) + 1 /\ NewId \in Nat \ {0} /\ DOMAIN mem = 1 .. Len(mem) /\ \A i \in DOMAIN mem : i < NewId
<1>1. Len(mem) \in Nat /\ DOMAIN mem = 1 .. Len(mem)
  BY LenProperties
<1>2. Cardinality(1 .. Len(mem)) = Len(mem)
  BY <1>1, FS_Interval
<1> QED BY <1>1, <1>2 DEF NewId

\* What the step of a builder that pushes a node leaves true.
LEMMA BuilderPushes ==
  ASSUME AstInv, pc \in Builders, queue # <<>>, UNCHANGED <<stmt, todo, root, oom, leaked, pc>>,
         queue' \in Seq(Vocabulary), queue' # <<>> => queue'[Len(queue')] = queue[Len(queue)],
         mem' \in Seq(ToSet(mem')), Forest(mem', stack', None)
  PROVE  AstInv'
<1>0. Worded /\ Phases
  BY DEF AstInv
<1>1. root = None
  BY <1>0, BuilderNames DEF Phases
<1>2. Forest(mem, stack, root)'
  BY <1>1 DEF Forest, Ordered, NoTwoOwners, HasOwner, IsKid, IsKept, Rank
<1>3. Worded'
  BY <1>0, BuilderNames DEF Worded
<1>4. Phases'
  BY <1>0, <1>1, BuilderNames DEF Phases
<1> QED BY <1>2, <1>3, <1>4 DEF AstInv

\* What the allocated nodes are after one more.
LEMMA NodeStored ==
  ASSUME AstInv, BuildNode
  PROVE  LET rule == WordRule
             n == NewId
         IN  /\ rule.pops \in 0 .. Len(stack) /\ rule.marker \in BOOLEAN
             /\ n \in Nat \ {0} /\ \A i \in DOMAIN mem : i < n
             /\ mem' \in Seq(ToSet(mem'))
             /\ DOMAIN mem' = DOMAIN mem \cup {n} \cup (IF rule.marker THEN {n + 1} ELSE {})
             /\ \A i \in DOMAIN mem : mem'[i] = mem[i]
             /\ mem'[n] = NodeOf(Head(queue), rule, n + 1)
             /\ rule.marker => mem'[n + 1] = MarkerNode
<1>0. Worded /\ Phases /\ Forest(mem, stack, root)
  BY DEF AstInv
<1>1. pc \in Builders /\ queue # <<>>
  BY DEF BuildNode, AtWord, Building
<1> DEFINE word == Head(queue)
           rule == WordRule
           n == NewId
           node == NodeOf(word, rule, n + 1)
           marker == IF rule.marker THEN <<MarkerNode>> ELSE <<>>
           a == mem \o <<node>>
<1>2. word \in Vocabulary
  BY <1>0, <1>1, TailEnd DEF Worded
<1>3. mem \in Seq(ToSet(mem))
  BY <1>0, <1>1 DEF Phases
<1>4. Len(stack) \in Nat
  BY <1>0, LenProperties DEF Forest
<1>5. rule.pops \in Nat /\ rule.marker \in BOOLEAN
  BY <1>1, <1>2, <1>4, WordsCounted, RuleCounts DEF WordRule
<1>6. Len(stack) - rule.pops >= 0 /\ mem' = a \o marker
  BY DEF BuildNode
<1>7. n = Len(mem) + 1 /\ n \in Nat \ {0} /\ \A i \in DOMAIN mem : i < n
  BY <1>3, IdIsNew
<1> HIDE DEF n, word, rule, node
<1>8. /\ a \in Seq(ToSet(a)) /\ Len(a) = n
      /\ DOMAIN a = DOMAIN mem \cup {n}
      /\ \A i \in DOMAIN mem : a[i] = mem[i]
      /\ a[n] = node
  BY <1>3, <1>7, OneMore
<1> HIDE DEF a
<1> DEFINE Stored ==
             /\ mem' \in Seq(ToSet(mem'))
             /\ DOMAIN mem' = DOMAIN mem \cup {n} \cup (IF rule.marker THEN {n + 1} ELSE {})
             /\ \A i \in DOMAIN mem : mem'[i] = mem[i]
             /\ mem'[n] = node
             /\ rule.marker => mem'[n + 1] = MarkerNode
<1>9. rule.marker => Stored
  <2> HAVE rule.marker
  <2> DEFINE m == a \o <<MarkerNode>>
  <2>1. /\ m \in Seq(ToSet(m))
        /\ DOMAIN m = DOMAIN a \cup {n + 1}
        /\ \A i \in DOMAIN a : m[i] = a[i]
        /\ m[n + 1] = MarkerNode
    <3>1. a \in Seq(ToSet(a)) /\ Len(a) + 1 = n + 1
      BY <1>8
    <3> QED BY ONLY <3>1, OneMore
  <2>2. mem' = m
    BY <1>6
  <2> HIDE DEF m
  <2> QED BY <1>7, <1>8, <2>1, <2>2
<1>10. ~rule.marker => Stored
  <2> HAVE ~rule.marker
  <2>1. mem' = a
    BY <1>6, <1>8, ConcatEmptySeq
  <2> QED BY <1>8, <2>1
<1>11. Stored
  BY <1>9, <1>10
<1>12. rule.pops \in 0 .. Len(stack)
  BY <1>4, <1>5, <1>6
<1> QED BY <1>5, <1>7, <1>11, <1>12 DEF n, word, rule, node

LEMMA BuildNodeStep == ASSUME AstInv, BuildNode PROVE AstInv'
<1>0. Worded /\ Phases /\ Forest(mem, stack, root)
  BY DEF AstInv
<1>1. pc \in Builders /\ queue # <<>>
  BY DEF BuildNode, AtWord, Building
<1> DEFINE word == Head(queue)
           rule == WordRule
           rest == Len(stack) - rule.pops
           n == NewId
           node == NodeOf(word, rule, n + 1)
           m == mem'
           ks == Kids(rule, n + 1)
<1>2. /\ Tail(queue) \in Seq(Vocabulary)
      /\ Tail(queue) # <<>> => Tail(queue)[Len(Tail(queue))] = queue[Len(queue)]
  BY <1>0, <1>1, TailEnd DEF Worded
<1>3. root = None
  BY <1>0, <1>1, BuilderNames DEF Phases
<1>4. /\ stack \in Seq(DOMAIN mem) /\ Len(stack) \in Nat
      /\ \A j, l \in DOMAIN stack : stack[j] = stack[l] => j = l
  <2>1. stack \in Seq(DOMAIN mem) /\ NoTwoOwners(mem, stack, root)
    BY <1>0 DEF Forest
  <2> QED BY <2>1, LenProperties DEF NoTwoOwners, IsKept
<1>5. stack' = Append(SubSeq(stack, 1, rest), n) /\ queue' = Tail(queue)
  BY DEF BuildNode
<1>6. UNCHANGED <<stmt, todo, root, oom, leaked, pc>>
  BY DEF BuildNode, syntaxVars
<1>7. node.kids = ks
  <2>1. node = [w |-> IF word.w = "NEG" THEN "MUL" ELSE word.w, v |-> Matched(word), opt |-> word.opt, kids |-> ks]
    BY DEF NodeOf, Node
  <2> HIDE DEF node, ks
  <2> QED BY <2>1
<1>8. MarkerNode.kids = <<>>
  BY DEF MarkerNode, Node
<1>9. /\ rule.pops \in 0 .. Len(stack) /\ rule.marker \in BOOLEAN
      /\ n \in Nat \ {0} /\ \A i \in DOMAIN mem : i < n
      /\ m \in Seq(ToSet(m))
      /\ DOMAIN m = DOMAIN mem \cup {n} \cup (IF rule.marker THEN {n + 1} ELSE {})
      /\ \A i \in DOMAIN mem : m[i] = mem[i]
      /\ m[n] = node
      /\ rule.marker => m[n + 1] = MarkerNode
  BY NodeStored
<1> HIDE DEF n, word, rule, node, ks, m
<1>10. rest \in 0 .. Len(stack)
  BY <1>4, <1>9
<1>11. TakesOver(ks, stack, rest, rule.marker, n + 1)
  <2>1. n + 1 \notin DOMAIN mem
    BY <1>9
  <2> QED BY <1>4, <1>9, <2>1, KidsTaken DEF ks
<1>12. Forest(m, Append(SubSeq(stack, 1, rest), n), None)
  <2>1. Forest(mem, stack, None)
    BY <1>0, <1>3
  <2>2. (\A i \in DOMAIN mem : m[i].kids = mem[i].kids) /\ m[n].kids = ks /\ (rule.marker => m[n + 1].kids = <<>>)
    BY <1>7, <1>8, <1>9
  <2> HIDE DEF rest
  <2> QED BY <1>9, <1>10, <1>11, <2>1, <2>2, PushTree
<1> QED BY <1>1, <1>2, <1>5, <1>6, <1>9, <1>12, BuilderPushes DEF m

LEMMA BuildColumnStep == ASSUME AstInv, BuildColumn PROVE AstInv'
<1>0. Worded /\ Phases /\ Forest(mem, stack, root)
  BY DEF AstInv
<1>1. pc \in Builders /\ queue # <<>> /\ Head(queue).w = "STARTCOL"
  BY DEF BuildColumn, AtColumn, Building
<1> DEFINE n == NewId
           node == ColumnNode(queue[AfterAttrs])
           m == mem \o <<node>>
<1>2. AfterAttrs \in 1 .. Len(queue)
  <2>1. AfterAttrs \in 2 .. Len(queue)
    BY <1>0, <1>1, AttrsEnd DEF Worded
  <2> QED BY <2>1
<1>3. root = None /\ mem \in Seq(ToSet(mem))
  BY <1>0, <1>1, BuilderNames DEF Phases
<1>4. mem' = m /\ stack' = Append(stack, n) /\ queue' = SubSeq(queue, AfterAttrs + 1, Len(queue))
  BY DEF BuildColumn
<1>5. UNCHANGED <<stmt, todo, root, oom, leaked, pc>>
  BY DEF BuildColumn, syntaxVars
<1>6. queue' \in Seq(Vocabulary) /\ (queue' # <<>> => queue'[Len(queue')] = queue[Len(queue)])
  BY <1>0, <1>2, <1>4, Behind DEF Worded
<1>7. n = Len(mem) + 1 /\ n \in Nat \ {0} /\ DOMAIN mem = 1 .. Len(mem) /\ \A i \in DOMAIN mem : i < n
  BY <1>3, IdIsNew
<1>8. stack \in Seq(DOMAIN mem) /\ Len(stack) \in Nat
  BY <1>0, LenProperties DEF Forest
<1>9. node.kids = <<>>
  BY DEF ColumnNode
<1> HIDE DEF n, node
<1>10. /\ m \in Seq(ToSet(m))
       /\ DOMAIN m = DOMAIN mem \cup {n}
       /\ \A i \in DOMAIN mem : m[i] = mem[i]
       /\ m[n] = node
  BY <1>3, <1>7, OneMore
<1> HIDE DEF m
<1>11. Append(stack, n) = Append(SubSeq(stack, 1, Len(stack)), n)
  BY <1>8, SubSeqFull
<1>12. Forest(m, Append(SubSeq(stack, 1, Len(stack)), n), None)
  <2>1. Forest(mem, stack, None) /\ Len(stack) \in 0 .. Len(stack)
    BY <1>0, <1>3, <1>8
  <2>2. (\A i \in DOMAIN mem : m[i].kids = mem[i].kids) /\ m[n].kids = <<>>
    BY <1>9, <1>10
  <2>3. TakesOver(<<>>, stack, Len(stack), FALSE, n + 1)
    <3>1. DOMAIN <<>> = {} /\ Len(stack) + 1 .. Len(stack) = {}
      BY <1>8
    <3>2. <<>> \in Seq(ToSet(<<>>))
      BY EmptySeq
    <3> QED BY <3>1, <3>2 DEF TakesOver
  <2>4. DOMAIN m = DOMAIN mem \cup {n} \cup (IF FALSE THEN {n + 1} ELSE {})
    BY <1>10
  <2> QED BY <1>7, <2>1, <2>2, <2>3, <2>4, PushTree
<1> QED BY <1>1, <1>4, <1>5, <1>6, <1>10, <1>11, <1>12, BuilderPushes

-----------------------------------------------------------------------------
(* The end of the statement, and of the tree                               *)

LEMMA FinishSteps == ASSUME AstInv, FinishTree \/ FinishCrashes PROVE AstInv'
<1>0. Worded /\ Phases /\ Forest(mem, stack, root)
  BY DEF AstInv
<1>1. pc \in Builders
  BY DEF FinishTree, FinishCrashes, AtEnd, Building
<1>2. CASE FinishCrashes
  BY <1>0, <1>1, <1>2, PhasesCrash DEF FinishCrashes, Phases
<1>3. CASE FinishTree
  <2>1. root = None
    BY <1>0, <1>1, BuilderNames DEF Phases
  <2>2. Ordered(mem) /\ stack \in Seq(DOMAIN mem) /\ NoTwoOwners(mem, stack, None)
    BY <1>0, <2>1 DEF Forest
  <2>3. Len(stack) = 1 /\ stack' = <<>> /\ pc' = "built" /\ root' = Last(stack)
    BY <1>3 DEF FinishTree
  <2>4. UNCHANGED <<stmt, todo, queue, mem, oom, leaked>>
    BY <1>3 DEF FinishTree, syntaxVars
  <2>5. root' = stack[1] /\ root' \in DOMAIN mem /\ DOMAIN stack = 1 .. 1
    <3>1. stack # <<>>
      BY <2>3
    <3>2. Last(stack) = stack[Len(stack)] /\ Last(stack) \in DOMAIN mem /\ DOMAIN stack = 1 .. Len(stack)
      BY <2>2, <3>1, FrontDef
    <3> QED BY <2>3, <3>2
  <2>6. \A j, i : IsKept(stack, j, i) <=> j = 1 /\ i = root'
    BY <2>5 DEF IsKept
  <2>7. \A j, i : ~IsKept(<<>>, j, i)
    BY DEF IsKept
  <2>8. NoTwoOwners(mem, <<>>, root')
    BY <2>2, <2>6, <2>7 DEF NoTwoOwners
  <2>9. \A i \in DOMAIN mem : HasOwner(mem, <<>>, root', i)
    <3>1. \A i \in DOMAIN mem : HasOwner(mem, stack, None, i) /\ i # None
      BY <1>0, <2>1, <2>2, WordsAssumption DEF Forest, Ordered
    <3> QED BY <2>6, <3>1 DEF HasOwner
  <2>10. Forest(mem, <<>>, root')
    <3>1. <<>> \in Seq(DOMAIN mem)
      BY EmptySeq
    <3> QED BY <2>2, <2>8, <2>9, <3>1 DEF Forest
  <2>11. Forest(mem, stack, root)'
    BY <2>3, <2>4, <2>10 DEF Forest, Ordered, NoTwoOwners, HasOwner, IsKid, IsKept, Rank
  <2>12. Worded'
    BY <1>0, <2>3, <2>4, BuilderNames DEF Worded
  <2>13. Phases'
    BY <1>0, <2>3, <2>4, <2>5, BuilderNames DEF Phases
  <2> QED BY <2>11, <2>12, <2>13 DEF AstInv
<1> QED BY <1>2, <1>3

LEMMA UnwindStep == ASSUME AstInv, Unwind PROVE AstInv'
<1>0. Worded /\ Phases /\ Forest(mem, stack, root)
  BY DEF AstInv
<1> DEFINE top == Last(stack)
           st == Front(stack)
           m == Without(Subtree[top])
<1>1. pc = "unwind" /\ stack # <<>> /\ mem' = m /\ stack' = st
  BY DEF Unwind
<1>2. UNCHANGED <<stmt, todo, queue, root, oom, leaked, pc>>
  BY DEF Unwind, syntaxVars
<1>3. root = None
  BY <1>0, <1>1 DEF Phases
<1>4. Ordered(mem) /\ stack \in Seq(DOMAIN mem) /\ NoTwoOwners(mem, stack, None)
  BY <1>0, <1>3 DEF Forest
<1>5. /\ Len(stack) \in Nat \ {0} /\ DOMAIN stack = 1 .. Len(stack)
      /\ top = stack[Len(stack)] /\ top \in DOMAIN mem
      /\ st \in Seq(DOMAIN mem) /\ DOMAIN st = 1 .. Len(stack) - 1
      /\ \A j \in 1 .. Len(stack) - 1 : st[j] = stack[j]
  BY <1>1, <1>4, FrontDef
<1> HIDE DEF top, st, m
<1>6. \A j, i : IsKept(stack, j, i) <=> IsKept(st, j, i) \/ (j = Len(stack) /\ i = top)
  <2> TAKE j, i
  <2>1. CASE j \in 1 .. Len(stack) - 1
    <3>1. j \in 1 .. Len(stack) /\ j # Len(stack)
      <4>1. Len(stack) \in Nat
        BY <1>5
      <4> QED BY <2>1, <4>1
    <3>2. j \in DOMAIN stack /\ j \in DOMAIN st
      BY <1>5, <2>1, <3>1
    <3>3. st[j] = stack[j]
      BY <1>5, <2>1
    <3> QED BY <3>1, <3>2, <3>3 DEF IsKept
  <2>2. CASE j = Len(stack)
    BY <1>5, <2>2 DEF IsKept
  <2>3. CASE j \notin 1 .. Len(stack)
    BY <1>5, <2>3 DEF IsKept
  <2> QED BY <1>5, <2>1, <2>2, <2>3
<1>7. \A j : ~IsKept(st, j, top)
  <2> SUFFICES ASSUME NEW j, IsKept(st, j, top) PROVE FALSE
    OBVIOUS
  <2>1. IsKept(stack, j, top) /\ IsKept(stack, Len(stack), top)
    BY <1>6
  <2>2. j = Len(stack)
    BY <1>4, <2>1 DEF NoTwoOwners
  <2> QED BY <1>5, <2>2 DEF IsKept
<1>8. NoTwoOwners(mem, st, None) /\ \A p, k : ~IsKid(mem, p, k, top)
  BY <1>4, <1>6 DEF NoTwoOwners
<1>9. \A i \in DOMAIN mem : i = top \/ HasOwner(mem, st, None, i)
  <2>1. \A i \in DOMAIN mem : HasOwner(mem, stack, None, i)
    BY <1>0, <1>3 DEF Forest
  <2> QED BY <1>6, <2>1 DEF HasOwner
<1>10. None # top
  BY <1>4, <1>5, WordsAssumption DEF Ordered
<1>11. Forest(m, st, None)
  BY <1>4, <1>5, <1>7, <1>8, <1>9, <1>10, RemoveTree DEF m
<1>12. Forest(mem, stack, root)'
  BY <1>1, <1>2, <1>3, <1>11 DEF Forest, Ordered, NoTwoOwners, HasOwner, IsKid, IsKept, Rank
<1>13. Worded'
  BY <1>0, <1>2 DEF Worded
<1>14. Phases'
  BY <1>0, <1>1, <1>2, <1>3, BuilderNames DEF Phases
<1> QED BY <1>12, <1>13, <1>14 DEF AstInv

LEMMA ReleaseStep == ASSUME AstInv, Release PROVE AstInv'
<1>0. Worded /\ Phases /\ Forest(mem, stack, root)
  BY DEF AstInv
<1> DEFINE m == Without(Subtree[root])
<1>1. pc = "built" /\ pc' = "done" /\ mem' = m /\ queue' = <<>> /\ root' = None /\ UNCHANGED <<stmt, todo, stack, oom, leaked>>
  BY DEF Release, syntaxVars
<1>2. root \in DOMAIN mem /\ stack = <<>>
  BY <1>0, <1>1 DEF Phases
<1>3. Ordered(mem) /\ stack \in Seq(DOMAIN mem) /\ NoTwoOwners(mem, stack, root)
  BY <1>0 DEF Forest
<1>4. \A j, i : ~IsKept(stack, j, i)
  BY <1>2 DEF IsKept
<1>5. root \in Int /\ None \notin DOMAIN mem /\ None # root
  BY <1>2, <1>3, WordsAssumption DEF Ordered
<1>6. \A p, k, i : IsKid(mem, p, k, i) => i \in DOMAIN mem
  <2> TAKE p, k, i
  <2> HAVE IsKid(mem, p, k, i)
  <2>1. p \in DOMAIN mem /\ k \in DOMAIN mem[p].kids /\ mem[p].kids[k] = i
    BY DEF IsKid
  <2>2. mem[p].kids \in Seq(DOMAIN mem)
    BY <1>3, <2>1 DEF Ordered
  <2> QED BY <2>1, <2>2, LenProperties, ElementOfSeq
<1>7. NoTwoOwners(mem, stack, None) /\ \A p, k : ~IsKid(mem, p, k, root)
  BY <1>3, <1>4, <1>5, <1>6 DEF NoTwoOwners
<1>8. \A i \in DOMAIN mem : i = root \/ HasOwner(mem, stack, None, i)
  <2>1. \A i \in DOMAIN mem : HasOwner(mem, stack, root, i)
    BY <1>0 DEF Forest
  <2> QED BY <2>1 DEF HasOwner
<1>9. Forest(m, stack, None)
  BY <1>2, <1>3, <1>4, <1>5, <1>7, <1>8, RemoveTree
<1> HIDE DEF m
<1>10. Forest(mem, stack, root)'
  BY <1>1, <1>9 DEF Forest, Ordered, NoTwoOwners, HasOwner, IsKid, IsKept, Rank
<1>11. Worded'
  BY <1>0, <1>1, EmptySeq, BuilderNames DEF Worded
<1>12. Phases'
  BY <1>0, <1>1, BuilderNames DEF Phases, Ended
<1> QED BY <1>10, <1>11, <1>12 DEF AstInv

LEMMA RefuseStep == ASSUME AstInv, Refuse PROVE AstInv'
<1>0. Worded /\ Phases /\ Forest(mem, stack, root)
  BY DEF AstInv
<1>1. pc = "unwind" /\ pc' = "failed" /\ stack = <<>> /\ queue' = <<>> /\ UNCHANGED <<stmt, todo, stack, mem, root, oom, leaked>>
  BY DEF Refuse, syntaxVars
<1>2. Forest(mem, stack, root)'
  BY <1>0, <1>1, ForestKept
<1>3. Worded'
  BY <1>0, <1>1, EmptySeq, BuilderNames DEF Worded
<1>4. Phases'
  BY <1>0, <1>1, BuilderNames DEF Phases, Ended
<1> QED BY <1>2, <1>3, <1>4 DEF AstInv

LEMMA InvNext == AstInv /\ [Next]_vars => AstInv'
<1> SUFFICES ASSUME AstInv, [Next]_vars PROVE AstInv'
  OBVIOUS
<1>1. CASE EmitWord \/ LoseWord \/ QueueCannotGrow \/ SyntaxError \/ SyntaxErrorUntold
  BY <1>1, ParseSteps
<1>2. CASE Dispatch \/ DispatchFails \/ DispatchCrashes
  BY <1>2, DispatchSteps
<1>3. CASE DiscardWhere \/ NodeFails \/ MatchFails \/ BuilderCrashes \/ StackCannotGrow
  BY <1>3, FailingSteps
<1>4. CASE BuildNode
  BY <1>4, BuildNodeStep
<1>5. CASE BuildColumn
  BY <1>5, BuildColumnStep
<1>6. CASE ColumnFails \/ ColumnMatchFails \/ ColumnCrashes
  BY <1>6, ColumnFailingSteps
<1>7. CASE FinishTree \/ FinishCrashes
  BY <1>7, FinishSteps
<1>8. CASE Unwind
  BY <1>8, UnwindStep
<1>9. CASE Refuse
  BY <1>9, RefuseStep
<1>10. CASE Release
  BY <1>10, ReleaseStep
<1>11. CASE UNCHANGED vars
  <2>1. Forest(mem, stack, root)'
    BY <1>11, ForestKept DEF AstInv, vars
  <2>2. Worded' /\ Phases'
    BY <1>11 DEF AstInv, Worded, Phases, vars
  <2> QED BY <2>1, <2>2 DEF AstInv
<1> QED BY <1>1, <1>2, <1>3, <1>4, <1>5, <1>6, <1>7, <1>8, <1>9, <1>10, <1>11 DEF Next, Ending

LEMMA InvHolds == Spec => []AstInv
BY InvInit, InvNext, PTL DEF Spec

-----------------------------------------------------------------------------
(* What follows from it                                                    *)

LEMMA InvGivesTypes == AstInv => AstTypeOK
<1> SUFFICES ASSUME AstInv PROVE AstTypeOK
  OBVIOUS
<1>1. Phases /\ Forest(mem, stack, root)
  BY DEF AstInv
<1>2. \A s \in Seq(DOMAIN mem) : ToSet(s) \subseteq DOMAIN mem
  BY LenProperties, ElementOfSeq DEF ToSet
<1>3. ToSet(stack) \subseteq DOMAIN mem /\ \A i \in DOMAIN mem : ToSet(mem[i].kids) \subseteq DOMAIN mem
  BY <1>1, <1>2 DEF Forest, Ordered
<1> QED BY <1>1, <1>3 DEF AstTypeOK, Phases

\* An owner of a node is the only one.
LEMMA InvGivesOwners == AstInv => OwnedOnce
<1> SUFFICES ASSUME AstInv, NEW i \in DOMAIN mem PROVE Cardinality(Holders(i)) = 1
  BY DEF OwnedOnce
<1> DEFINE Slots == {<<"stack", 0, j>> : j \in {j \in DOMAIN stack : stack[j] = i}}
           Roots == IF root = i THEN {<<"root", 0, 0>>} ELSE {}
           Places == UNION {{<<"kid", p, k>> : k \in {k \in DOMAIN mem[p].kids : mem[p].kids[k] = i}} : p \in DOMAIN mem}
<1>1. Forest(mem, stack, root)
  BY DEF AstInv
<1>2. NoTwoOwners(mem, stack, root) /\ HasOwner(mem, stack, root, i)
  BY <1>1 DEF Forest
<1>3. Holders(i) = Slots \cup Roots \cup Places
  BY DEF Holders
<1>4. \A h : h \in Slots <=> \E j : h = <<"stack", 0, j>> /\ IsKept(stack, j, i)
  BY DEF IsKept
<1>5. \A h : h \in Places <=> \E p, k : h = <<"kid", p, k>> /\ IsKid(mem, p, k, i)
  BY DEF IsKid
<1>6. \A h : h \in Roots <=> h = <<"root", 0, 0>> /\ root = i
  OBVIOUS
<1> HIDE DEF Slots, Roots, Places
<1>7. \E h : Holders(i) = {h}
  <2>1. CASE root = i
    <3>1. (\A p, k : ~IsKid(mem, p, k, i)) /\ \A j : ~IsKept(stack, j, i)
      BY <1>2, <2>1 DEF NoTwoOwners
    <3>2. Slots = {} /\ Places = {} /\ Roots = {<<"root", 0, 0>>}
      BY <1>4, <1>5, <1>6, <2>1, <3>1
    <3> QED BY <1>3, <3>2
  <2>2. CASE \E j : IsKept(stack, j, i)
    <3>1. PICK j : IsKept(stack, j, i)
      BY <2>2
    <3>2. (\A p, k : ~IsKid(mem, p, k, i)) /\ root # i /\ \A l : IsKept(stack, l, i) => l = j
      BY <1>2, <3>1 DEF NoTwoOwners
    <3>3. Places = {} /\ Roots = {} /\ Slots = {<<"stack", 0, j>>}
      BY <1>4, <1>5, <1>6, <3>1, <3>2
    <3> QED BY <1>3, <3>3
  <2>3. CASE \E p, k : IsKid(mem, p, k, i)
    <3>1. PICK p, k : IsKid(mem, p, k, i)
      BY <2>3
    <3>2. (\A j : ~IsKept(stack, j, i)) /\ root # i /\ \A q, l : IsKid(mem, q, l, i) => q = p /\ l = k
      BY <1>2, <3>1 DEF NoTwoOwners
    <3>3. Slots = {} /\ Roots = {} /\ Places = {<<"kid", p, k>>}
      BY <1>4, <1>5, <1>6, <3>1, <3>2
    <3> QED BY <1>3, <3>3
  <2> QED BY <1>2, <2>1, <2>2, <2>3 DEF HasOwner
<1> QED BY <1>7, FS_Singleton

\* Where a statement ends without a crash, nothing is allocated.
NothingLeft == pc \in {"done", "failed", "refused"} => DOMAIN mem = {}

\* Without a slot of the stack and a root every node has a parent, which is
\* younger, and that cannot go on.
LEMMA InvLeavesNothing == AstInv => NothingLeft
<1> SUFFICES ASSUME AstInv, pc \in {"done", "failed", "refused"}, DOMAIN mem # {} PROVE FALSE
  BY DEF NothingLeft
<1>1. Phases /\ Forest(mem, stack, root)
  BY DEF AstInv
<1>2. stack = <<>> /\ root = None
  BY <1>1 DEF Phases
<1>3. Ordered(mem) /\ \A i \in DOMAIN mem : HasOwner(mem, stack, root, i)
  BY <1>1 DEF Forest
<1>4. DOMAIN mem \subseteq Nat /\ None \notin DOMAIN mem
  BY <1>3, WordsAssumption DEF Ordered
<1>5. \A i \in DOMAIN mem : \E p, k : IsKid(mem, p, k, i)
  BY <1>2, <1>3, <1>4 DEF HasOwner, IsKept
<1>6. \A p, k, i : IsKid(mem, p, k, i) => p \in DOMAIN mem /\ Rank(mem, i) < p /\ Rank(mem, p) = p
  <2>1. \A p, k, i : IsKid(mem, p, k, i) => p \in DOMAIN mem /\ mem[p].kids # <<>>
    BY DEF IsKid
  <2> QED BY <1>3, <2>1 DEF Ordered, Rank
<1>7. PICK n \in Nat : \A i \in DOMAIN mem : i <= n
  BY <1>3 DEF Ordered
<1> DEFINE Parents == {p \in DOMAIN mem : Rank(mem, p) = p}
           T == {n - p : p \in Parents}
<1>8. Parents # {}
  <2>1. PICK i \in DOMAIN mem : TRUE
    OBVIOUS
  <2>2. PICK p, k : IsKid(mem, p, k, i)
    BY <1>5
  <2> QED BY <1>6, <2>2
<1>9. T \in SUBSET Nat /\ T # {}
  <2>1. \A p \in Parents : n - p \in Nat
    BY <1>4, <1>7
  <2> QED BY <1>8, <2>1
<1>10. PICK d \in T : \A e \in T : d <= e
  <2> HIDE DEF T
  <2> QED BY <1>9, LeastNat
<1>11. PICK p \in Parents : d = n - p
  BY <1>10
<1>12. PICK q, k : IsKid(mem, q, k, p)
  BY <1>5
<1>13. q \in Parents /\ p < q
  BY <1>6, <1>12
<1>14. d <= n - q
  BY <1>10, <1>13
<1> QED BY <1>4, <1>7, <1>11, <1>13, <1>14

\* The stack, the root and the lists of children hold allocated nodes only,
\* whatever the statement: no builder is left with a node that was freed.
THEOREM AstTypeCorrect == Spec => []AstTypeOK
BY InvHolds, InvGivesTypes, PTL

\* Every allocated node has one owner, so that no node can be freed twice or
\* be lost, for every statement and wherever an allocation or a match fails.
THEOREM NodesOwnedOnce == Spec => []OwnedOnce
BY InvHolds, InvGivesOwners, PTL

\* A statement that was refused, that failed in its builder or whose tree was
\* used and freed leaves no node allocated.
THEOREM NoNodeLeaked == Spec => []NothingLeft
BY InvHolds, InvLeavesNothing, PTL

-----------------------------------------------------------------------------
(* Trees: induction, and what the definitions over them say.               *)

LEMMA Operand ==
  ASSUME NEW t \in Trees
  PROVE  /\ t.kids \in Seq(Trees) /\ Len(t.kids) \in Nat /\ DOMAIN t.kids = 1 .. Len(t.kids)
         /\ \A i \in DOMAIN t.kids : t.kids[i] \in Trees /\ Depth[t.kids[i]] < Depth[t]
<1>1. t.kids \in Seq(Trees) /\ \A i \in DOMAIN t.kids : Depth[t.kids[i]] < Depth[t]
  BY TreesAssumption
<1>2. Len(t.kids) \in Nat /\ DOMAIN t.kids = 1 .. Len(t.kids)
  BY <1>1, LenProperties
<1>3. \A i \in DOMAIN t.kids : t.kids[i] \in Trees
  BY <1>1, <1>2, ElementOfSeq
<1> QED BY <1>1, <1>2, <1>3

LEMMA TreeInduction ==
  ASSUME NEW G \in SUBSET Trees,
         \A t \in Trees : (\A i \in DOMAIN t.kids : t.kids[i] \in G) => t \in G
  PROVE  G = Trees
<1>1. Depth \in [Trees -> Nat]
  BY TreesAssumption
<1>2. ASSUME NEW t \in Trees, \A x \in Trees : Depth[x] < Depth[t] => x \in G PROVE t \in G
  <2>1. \A i \in DOMAIN t.kids : t.kids[i] \in G
    BY <1>2, Operand
  <2> QED BY <2>1
<1> QED BY <1>1, <1>2, RankInduction

\* A flattened sequence grows by one sequence at a time.
LEMMA Flattened ==
  ASSUME NEW W, NEW ss \in Seq(Seq(W))
  PROVE  \E f \in [0 .. Len(ss) -> Seq(W)] :
            /\ f[0] = <<>>
            /\ \A j \in 1 .. Len(ss) : f[j] = f[j - 1] \o ss[j]
            /\ f[Len(ss)] = FlattenSeq(ss)
<1> DEFINE n == Len(ss)
<1>1. n \in Nat /\ DOMAIN ss = 1 .. n /\ \A j \in 1 .. n : ss[j] \in Seq(W)
  BY LenProperties, ElementOfSeq
<1>2. CASE n = 0
  <2>1. ss = <<>> /\ FlattenSeq(ss) = <<>>
    BY <1>2, EmptySeq DEF FlattenSeq
  <2> DEFINE f == [j \in 0 .. n |-> <<>>]
  <2>2. f \in [0 .. n -> Seq(W)] /\ f[0] = <<>> /\ f[n] = <<>>
    BY <1>2, EmptySeq
  <2>3. 1 .. n = {}
    BY <1>2
  <2> HIDE DEF f
  <2> QED BY <2>1, <2>2, <2>3
<1>3. CASE n # 0
  <2> DEFINE S == 1 .. n
             V == Seq(W)
             rank == [j \in S |-> j]
             F == [f \in [S -> V] |-> [j \in S |-> IF j = 1 THEN ss[j] ELSE f[j - 1] \o ss[j]]]
             flatten == CHOOSE g : g = [j \in S |-> IF j = 1 THEN ss[j] ELSE g[j - 1] \o ss[j]]
  <2>1. FlattenSeq(ss) = flatten[n]
    BY <1>3 DEF FlattenSeq
  <2>2. \A j \in S : j # 1 => j - 1 \in S /\ rank[j - 1] < rank[j]
    BY <1>1
  <2>3. F \in [[S -> V] -> [S -> V]]
    <3> SUFFICES ASSUME NEW f \in [S -> V], NEW j \in S PROVE (IF j = 1 THEN ss[j] ELSE f[j - 1] \o ss[j]) \in V
      OBVIOUS
    <3>1. CASE j = 1
      BY <1>1, <3>1
    <3>2. CASE j # 1
      <4>1. f[j - 1] \in Seq(W) /\ ss[j] \in Seq(W)
        BY <1>1, <2>2, <3>2
      <4> QED BY <3>2, <4>1, ConcatProperties
    <3> QED BY <3>1, <3>2
  <2>4. ASSUME NEW f \in [S -> V], NEW g \in [S -> V], NEW j \in S, \A x \in S : rank[x] < rank[j] => f[x] = g[x]
        PROVE  F[f][j] = F[g][j]
    <3>1. j # 1 => f[j - 1] = g[j - 1]
      BY <2>2, <2>4
    <3> QED BY <3>1
  <2>5. rank \in [S -> Nat] /\ V # {}
    BY <1>1, EmptySeq
  <2>6. FromLower(S, rank, V, F)
    <3> HIDE DEF S, V, rank, F
    <3> QED BY <2>3, <2>4, <2>5 DEF FromLower
  <2>7. PICK g \in [S -> V] : g = F[g]
    <3> HIDE DEF S, V, rank, F
    <3> QED BY <2>6, Recursion
  <2>8. g = [j \in S |-> IF j = 1 THEN ss[j] ELSE g[j - 1] \o ss[j]]
    BY <2>7
  <2>9. flatten = [j \in S |-> IF j = 1 THEN ss[j] ELSE flatten[j - 1] \o ss[j]]
    BY <2>8
  <2> HIDE DEF flatten
  <2>10. \A j \in S : flatten[j] = IF j = 1 THEN ss[j] ELSE flatten[j - 1] \o ss[j]
    BY <2>9
  <2> DEFINE T == {j \in Nat : j \in S => flatten[j] \in V}
  <2>11. T = Nat
    <3>1. 0 \in T /\ T \in SUBSET Nat
      BY <1>1
    <3>2. ASSUME NEW j \in T PROVE j + 1 \in T
      <4> SUFFICES ASSUME j + 1 \in S PROVE flatten[j + 1] \in V
        OBVIOUS
      <4>0. j \in Nat
        OBVIOUS
      <4>1. CASE j = 0
        BY <1>1, <2>10, <4>1
      <4>2. CASE j # 0
        <5>1. j \in S /\ j + 1 # 1 /\ (j + 1) - 1 = j
          BY <1>1, <4>0, <4>2
        <5>2. flatten[j] \in Seq(W) /\ ss[j + 1] \in Seq(W)
          BY <1>1, <5>1
        <5>3. flatten[j + 1] = flatten[j] \o ss[j + 1]
          BY <2>10, <5>1
        <5> QED BY <5>2, <5>3, ConcatProperties
      <4> QED BY <4>1, <4>2
    <3> HIDE DEF T
    <3> QED BY <3>1, <3>2, NatInductionOnSets
  <2>12. \A j \in S : flatten[j] \in V
    <3> TAKE j \in S
    <3>1. j \in Nat
      BY <1>1
    <3>2. j \in T
      BY <2>11, <3>1
    <3> QED BY <3>2
  <2> DEFINE f == [j \in 0 .. n |-> IF j = 0 THEN <<>> ELSE flatten[j]]
  <2>13. f \in [0 .. n -> Seq(W)]
    BY <1>1, <2>12, EmptySeq
  <2>14. f[0] = <<>> /\ f[n] = FlattenSeq(ss)
    BY <1>1, <1>3, <2>1
  <2>15. ASSUME NEW j \in 1 .. n PROVE f[j] = f[j - 1] \o ss[j]
    <3>1. CASE j = 1
      <4>1. f[1] = ss[1] /\ f[0] = <<>> /\ ss[1] \in Seq(W)
        BY <1>1, <2>10, <3>1
      <4>2. <<>> \o ss[1] = ss[1]
        BY <4>1, ConcatEmptySeq
      <4>3. j - 1 = 0
        BY <3>1
      <4> HIDE DEF f
      <4> QED BY <3>1, <4>1, <4>2, <4>3
    <3>2. CASE j # 1
      <4>1. j \in S /\ j \in 0 .. n /\ j # 0 /\ j - 1 \in 0 .. n /\ j - 1 # 0
        BY <1>1, <3>2
      <4>2. f[j] = flatten[j] /\ f[j - 1] = flatten[j - 1]
        BY <4>1
      <4>3. flatten[j] = flatten[j - 1] \o ss[j]
        BY <2>10, <3>2, <4>1
      <4> QED BY <4>2, <4>3
    <3> QED BY <3>1, <3>2
  <2> HIDE DEF f
  <2> QED BY <2>13, <2>14, <2>15
<1> QED BY <1>2, <1>3


LEMMA Single == \A W : \A x \in W : <<x>> \in Seq(W) /\ Len(<<x>>) = 1 /\ <<x>>[1] = x
OBVIOUS

\* One sequence behind another.
LEMMA Appended ==
  ASSUME NEW W, NEW a \in Seq(W), NEW b \in Seq(W)
  PROVE  /\ a \o b \in Seq(W)
         /\ Len(a) \in Nat /\ Len(b) \in Nat
         /\ Len(a \o b) = Len(a) + Len(b)
         /\ \A i \in 1 .. Len(a) : (a \o b)[i] = a[i]
         /\ \A i \in 1 .. Len(b) : (a \o b)[Len(a) + i] = b[i]
<1>1. Len(a) \in Nat /\ Len(b) \in Nat
  BY LenProperties
<1>2. a \o b \in Seq(W) /\ Len(a \o b) = Len(a) + Len(b)
      /\ \A i \in 1 .. Len(a) + Len(b) : (a \o b)[i] = IF i <= Len(a) THEN a[i] ELSE b[i - Len(a)]
  BY ConcatProperties
<1>3. \A i \in 1 .. Len(a) : i \in 1 .. Len(a) + Len(b) /\ i <= Len(a)
  BY <1>1
<1>4. \A i \in 1 .. Len(b) : Len(a) + i \in 1 .. Len(a) + Len(b) /\ ~(Len(a) + i <= Len(a)) /\ Len(a) + i - Len(a) = i
  BY <1>1
<1> QED BY <1>1, <1>2, <1>3, <1>4

LEMMA ThreeAppended ==
  ASSUME NEW W, NEW a \in Seq(W), NEW b \in Seq(W), NEW c \in Seq(W)
  PROVE  /\ a \o b \o c \in Seq(W)
         /\ Len(a \o b \o c) = Len(a) + Len(b) + Len(c)
         /\ \A i \in 1 .. Len(a) : (a \o b \o c)[i] = a[i]
         /\ \A i \in 1 .. Len(b) : (a \o b \o c)[Len(a) + i] = b[i]
         /\ \A i \in 1 .. Len(c) : (a \o b \o c)[Len(a) + Len(b) + i] = c[i]
<1> DEFINE ab == a \o b
<1>1. /\ ab \in Seq(W) /\ Len(a) \in Nat /\ Len(b) \in Nat /\ Len(ab) = Len(a) + Len(b)
      /\ \A i \in 1 .. Len(a) : ab[i] = a[i]
      /\ \A i \in 1 .. Len(b) : ab[Len(a) + i] = b[i]
  BY Appended
<1> HIDE DEF ab
<1>2. /\ ab \o c \in Seq(W) /\ Len(ab \o c) = Len(ab) + Len(c)
      /\ \A i \in 1 .. Len(ab) : (ab \o c)[i] = ab[i]
      /\ \A i \in 1 .. Len(c) : (ab \o c)[Len(ab) + i] = c[i]
  <2>1. ab \in Seq(W) /\ c \in Seq(W)
    BY <1>1
  <2> QED BY ONLY <2>1, Appended
<1>3. /\ \A i \in 1 .. Len(a) : i \in 1 .. Len(ab)
      /\ \A i \in 1 .. Len(b) : Len(a) + i \in 1 .. Len(ab)
  BY <1>1
<1> QED BY <1>1, <1>2, <1>3 DEF ab

ColumnTrees == {t \in Trees : t.w = "COLUMNDEF"}

AllWords ==
  {EmitOwn(t) : t \in Trees}
    \cup {Word("STARTCOL", "", 0, 0), Word("WHERE", "", 0, 0), Word("ERROR", "", 0, 0)}
    \cup {Word("ATTR", a, 0, 0) : a \in UNION {ToSet(t.attrs) : t \in ColumnTrees}}
    \cup {Word("COLUMNDEF", t.v, TypeCode(t.type), 0) : t \in ColumnTrees}

\* The words of a column: its beginning, its attributes and its definition.
LEMMA ColumnWords ==
  ASSUME NEW t \in Trees, t.w = "COLUMNDEF"
  PROVE  LET n == Len(t.attrs) IN
           /\ n \in Nat /\ DOMAIN t.attrs = 1 .. n
           /\ EmitColumn(t) \in Seq(AllWords)
           /\ Len(EmitColumn(t)) = n + 2
           /\ EmitColumn(t)[1] = Word("STARTCOL", "", 0, 0)
           /\ \A j \in 1 .. n : EmitColumn(t)[1 + j] = Word("ATTR", t.attrs[j], 0, 0)
           /\ EmitColumn(t)[n + 2] = Word("COLUMNDEF", t.v, TypeCode(t.type), 0)
<1> DEFINE n == Len(t.attrs)
           first == <<Word("STARTCOL", "", 0, 0)>>
           attrs == [i \in DOMAIN t.attrs |-> Word("ATTR", t.attrs[i], 0, 0)]
           def == <<Word("COLUMNDEF", t.v, TypeCode(t.type), 0)>>
<1>1. t.attrs \in Seq(ToSet(t.attrs))
  BY TreesAssumption
<1>2. n \in Nat /\ DOMAIN t.attrs = 1 .. n /\ \A i \in 1 .. n : t.attrs[i] \in ToSet(t.attrs)
  BY <1>1, LenProperties, ElementOfSeq
<1>3. t \in ColumnTrees
  BY DEF ColumnTrees
<1>4. first \in Seq(AllWords) /\ Len(first) = 1 /\ first[1] = Word("STARTCOL", "", 0, 0)
  <2>1. Word("STARTCOL", "", 0, 0) \in AllWords
    BY DEF AllWords
  <2> QED BY <2>1, Single
<1>5. def \in Seq(AllWords) /\ Len(def) = 1 /\ def[1] = Word("COLUMNDEF", t.v, TypeCode(t.type), 0)
  <2>1. Word("COLUMNDEF", t.v, TypeCode(t.type), 0) \in AllWords
    BY <1>3 DEF AllWords
  <2> QED BY <2>1, Single
<1>6. attrs \in Seq(AllWords) /\ Len(attrs) = n /\ \A i \in 1 .. n : attrs[i] = Word("ATTR", t.attrs[i], 0, 0)
  <2>1. \A i \in 1 .. n : Word("ATTR", t.attrs[i], 0, 0) \in AllWords
    BY <1>2, <1>3 DEF AllWords
  <2>2. attrs = [i \in 1 .. n |-> Word("ATTR", t.attrs[i], 0, 0)]
    BY <1>2
  <2> HIDE DEF n
  <2>3. [i \in 1 .. n |-> Word("ATTR", t.attrs[i], 0, 0)] \in Seq(AllWords)
    BY <1>2, <2>1
  <2>4. Len(attrs) = n
    BY <1>2, <2>2
  <2> QED BY <2>2, <2>3, <2>4
<1>7. EmitColumn(t) = first \o attrs \o def
  BY DEF EmitColumn
<1>8. /\ first \o attrs \o def \in Seq(AllWords)
      /\ Len(first \o attrs \o def) = n + 2
      /\ (first \o attrs \o def)[1] = first[1]
      /\ \A j \in 1 .. n : (first \o attrs \o def)[1 + j] = attrs[j]
      /\ (first \o attrs \o def)[n + 2] = def[1]
  <2>0. n \in Nat
    BY <1>2
  <2> HIDE DEF n, first, attrs, def
  <2> DEFINE ws == first \o attrs \o def
  <2>1. /\ ws \in Seq(AllWords) /\ Len(ws) = Len(first) + Len(attrs) + Len(def)
        /\ \A i \in 1 .. Len(first) : ws[i] = first[i]
        /\ \A i \in 1 .. Len(attrs) : ws[Len(first) + i] = attrs[i]
        /\ \A i \in 1 .. Len(def) : ws[Len(first) + Len(attrs) + i] = def[i]
    <3>1. first \in Seq(AllWords) /\ attrs \in Seq(AllWords) /\ def \in Seq(AllWords)
      BY <1>4, <1>5, <1>6
    <3> QED BY ONLY <3>1, ThreeAppended
  <2>2. Len(first) = 1 /\ Len(attrs) = n /\ Len(def) = 1
    BY <1>4, <1>5, <1>6
  <2> HIDE DEF ws
  <2>3. 1 + n + 1 = n + 2 /\ 1 \in 1 .. 1
    BY <2>0
  <2>4. ws[1] = first[1] /\ \A i \in 1 .. n : ws[1 + i] = attrs[i]
    BY <2>1, <2>2, <2>3
  <2>5. ws[n + 2] = def[1] /\ Len(ws) = n + 2
    BY <2>1, <2>2, <2>3
  <2> QED BY <2>1, <2>4, <2>5 DEF ws
<1> HIDE DEF first, attrs, def
<1> QED BY <1>2, <1>4, <1>5, <1>6, <1>7, <1>8

\* The definition of the words of a tree has a solution.
LEMMA EmitDef ==
  /\ Emit \in [Trees -> Seq(AllWords)]
  /\ \A t \in Trees :
       Emit[t] = IF t.w = "COLUMNDEF"
                 THEN EmitColumn(t)
                 ELSE FlattenSeq([i \in DOMAIN t.kids |-> Emit[t.kids[i]]])
                        \o EmitWhere(t) \o EmitComplaint(t) \o <<EmitOwn(t)>>
<1> DEFINE S == Trees
           V == Seq(AllWords)
           Ops(f, t) == [i \in DOMAIN t.kids |-> f[t.kids[i]]]
           Of(f, t) == IF t.w = "COLUMNDEF"
                       THEN EmitColumn(t)
                       ELSE FlattenSeq(Ops(f, t)) \o EmitWhere(t) \o EmitComplaint(t) \o <<EmitOwn(t)>>
           F == [f \in [S -> V] |-> [t \in S |-> Of(f, t)]]
<1>1. ASSUME NEW f \in [S -> V], NEW t \in S PROVE Of(f, t) \in V
  <2>1. CASE t.w = "COLUMNDEF"
    BY <2>1, ColumnWords
  <2>2. CASE t.w # "COLUMNDEF"
    <3>1. FlattenSeq(Ops(f, t)) \in Seq(AllWords)
      <4>1. Len(t.kids) \in Nat /\ DOMAIN t.kids = 1 .. Len(t.kids) /\ \A i \in DOMAIN t.kids : f[t.kids[i]] \in V
        BY Operand
      <4>2. Ops(f, t) \in Seq(V)
        BY <4>1
      <4>3. PICK g \in [0 .. Len(Ops(f, t)) -> V] : g[Len(Ops(f, t))] = FlattenSeq(Ops(f, t))
        <5> HIDE DEF Ops
        <5> QED BY <4>2, Flattened
      <4>4. Len(Ops(f, t)) \in Nat
        <5> HIDE DEF Ops
        <5> QED BY <4>2, LenProperties
      <4>5. Len(Ops(f, t)) \in 0 .. Len(Ops(f, t))
        BY <4>4
      <4> HIDE DEF Ops, V
      <4> QED BY <4>3, <4>5 DEF V
    <3>2. EmitWhere(t) \in Seq(AllWords) /\ EmitComplaint(t) \in Seq(AllWords)
      <4>1. Word("WHERE", "", 0, 0) \in AllWords /\ Word("ERROR", "", 0, 0) \in AllWords
        BY DEF AllWords
      <4> QED BY <4>1, EmptySeq, Single DEF EmitWhere, EmitComplaint
    <3>3. <<EmitOwn(t)>> \in Seq(AllWords)
      <4>1. EmitOwn(t) \in AllWords
        BY DEF AllWords
      <4> QED BY <4>1, Single
    <3>4. Of(f, t) = FlattenSeq(Ops(f, t)) \o EmitWhere(t) \o EmitComplaint(t) \o <<EmitOwn(t)>>
      BY <2>2
    <3> HIDE DEF Ops, Of
    <3>5. FlattenSeq(Ops(f, t)) \o EmitWhere(t) \in Seq(AllWords)
      BY <3>1, <3>2, ConcatProperties
    <3>6. FlattenSeq(Ops(f, t)) \o EmitWhere(t) \o EmitComplaint(t) \in Seq(AllWords)
      BY <3>2, <3>5, ConcatProperties
    <3> QED BY <3>3, <3>4, <3>6, ConcatProperties
  <2> QED BY <2>1, <2>2
<1>2. F \in [[S -> V] -> [S -> V]]
  <2> HIDE DEF Of, V
  <2> QED BY <1>1
<1>3. ASSUME NEW f \in [S -> V], NEW g \in [S -> V], NEW t \in S, \A x \in S : Depth[x] < Depth[t] => f[x] = g[x]
      PROVE  F[f][t] = F[g][t]
  <2>1. \A i \in DOMAIN t.kids : f[t.kids[i]] = g[t.kids[i]]
    BY <1>3, Operand
  <2>2. Ops(f, t) = Ops(g, t)
    BY <2>1
  <2>3. F[f][t] = Of(f, t) /\ F[g][t] = Of(g, t)
    <3> HIDE DEF Of
    <3> QED OBVIOUS
  <2> HIDE DEF Ops, F
  <2> QED BY <2>2, <2>3
<1>4. FromLower(S, Depth, V, F)
  <2>1. Depth \in [S -> Nat] /\ V # {}
    BY TreesAssumption, EmptySeq
  <2> HIDE DEF S, V, F
  <2> QED BY <1>2, <1>3, <2>1 DEF FromLower
<1>5. PICK f \in [S -> V] : f = F[f]
  <2> HIDE DEF S, V, F
  <2> QED BY <1>4, Recursion
<1>6. F[f] = [t \in S |-> Of(f, t)]
  <2> HIDE DEF Of, V
  <2> QED OBVIOUS
<1>7. f = [t \in S |-> Of(f, t)]
  BY <1>5, <1>6
<1>8. Emit = CHOOSE g : g = [t \in S |-> Of(g, t)]
  BY DEF Emit
<1> HIDE DEF Of, F
<1>9. Emit = [t \in S |-> Of(Emit, t)]
  BY <1>7, <1>8
<1>10. \A t \in S : Emit[t] = Of(Emit, t)
  BY <1>9
<1> DEFINE G == {t \in S : Emit[t] \in V}
<1>11. ASSUME NEW t \in Trees, \A i \in DOMAIN t.kids : t.kids[i] \in G PROVE t \in G
  <2> DEFINE h == [x \in S |-> IF x \in G THEN Emit[x] ELSE <<>>]
  <2>1. h \in [S -> V]
    BY EmptySeq
  <2>2. \A i \in DOMAIN t.kids : h[t.kids[i]] = Emit[t.kids[i]]
    BY <1>11, Operand
  <2>3. Ops(h, t) = Ops(Emit, t)
    BY <2>2
  <2> HIDE DEF h, V
  <2>4. Of(h, t) = Of(Emit, t)
    <3> HIDE DEF Ops
    <3> QED BY <2>3 DEF Of
  <2>5. Of(h, t) \in V
    BY <1>1, <2>1
  <2> QED BY <1>10, <2>4, <2>5
<1>12. G = S
  <2> HIDE DEF G
  <2>1. G \in SUBSET Trees
    BY DEF G
  <2> QED BY <1>11, <2>1, TreeInduction
<1>13. Emit \in [Trees -> Seq(AllWords)]
  <2>1. \A t \in Trees : Emit[t] \in Seq(AllWords)
    BY <1>12
  <2> QED BY <1>9, <2>1
<1> QED BY <1>10, <1>13 DEF Of

-----------------------------------------------------------------------------
(* Copies of a tree in a memory.                                           *)

\* The nodes that hold t, when c gives those that hold its operands.
CopiesFrom(c, m, t) ==
  {i \in DOMAIN m :
     LET node == m[i] IN
       CASE t.w = "COLUMNDEF" ->
              /\ node.w = "COLUMNDEF"
              /\ node.v = t.v
              /\ node.type = t.type
              /\ node.flags = FlagsOf(t.attrs)
         [] t.w = "NEG" ->
              /\ node.w = "MUL"
              /\ Len(node.kids) = 2
              /\ m[node.kids[1]] = MarkerNode
              /\ node.kids[2] \in c[t.kids[1]]
         [] OTHER ->
              /\ <<node.w, node.v, node.opt>> = <<t.w, t.v, t.opt>>
              /\ Len(node.kids) = Len(t.kids)
              /\ \A j \in DOMAIN t.kids :
                   node.kids[IF t.w \in Arith THEN 3 - j ELSE j] \in c[t.kids[j]]}

LEMMA NegationOperand == \A t \in Trees : t.w = "NEG" => 1 \in DOMAIN t.kids
<1> SUFFICES ASSUME NEW t \in Trees, t.w = "NEG" PROVE 1 \in DOMAIN t.kids
  OBVIOUS
<1>1. Len(t.kids) \in Operands("NEG")
  BY TreesAssumption
<1>2. Operands("NEG") = {1}
  BY DEF Operands, Arith, Logic
<1> QED BY <1>1, <1>2, Operand

LEMMA CopiesDef ==
  ASSUME NEW m
  PROVE  \A t \in Trees : Copies(m)[t] = CopiesFrom(Copies(m), m, t)
<1> DEFINE S == Trees
           V == SUBSET DOMAIN m
           F == [f \in [S -> V] |-> [t \in S |-> CopiesFrom(f, m, t)]]
<1>1. F \in [[S -> V] -> [S -> V]]
  BY DEF CopiesFrom
<1>2. ASSUME NEW f \in [S -> V], NEW g \in [S -> V], NEW t \in S, \A x \in S : Depth[x] < Depth[t] => f[x] = g[x]
      PROVE  F[f][t] = F[g][t]
  <2>1. \A i \in DOMAIN t.kids : f[t.kids[i]] = g[t.kids[i]]
    BY <1>2, Operand
  <2>2. t.w = "NEG" => f[t.kids[1]] = g[t.kids[1]]
    BY <2>1, NegationOperand
  <2>3. CopiesFrom(f, m, t) = CopiesFrom(g, m, t)
    BY <2>1, <2>2 DEF CopiesFrom
  <2> QED BY <2>3
<1>3. FromLower(S, Depth, V, F)
  <2>1. Depth \in [S -> Nat] /\ V # {}
    BY TreesAssumption
  <2> HIDE DEF S, V, F
  <2> QED BY <1>1, <1>2, <2>1 DEF FromLower
<1>4. PICK f \in [S -> V] : f = F[f]
  <2> HIDE DEF S, V, F
  <2> QED BY <1>3, Recursion
<1>5. f = [t \in S |-> CopiesFrom(f, m, t)]
  BY <1>4
<1>6. Copies(m) = CHOOSE g : g = [t \in S |-> CopiesFrom(g, m, t)]
  BY DEF Copies, CopiesFrom
<1>7. Copies(m) = [t \in S |-> CopiesFrom(Copies(m), m, t)]
  BY <1>5, <1>6
<1> QED BY <1>7

\* What is allocated later takes no copy away.
LEMMA CopiesKept ==
  ASSUME NEW m, NEW m2,
         \A i \in DOMAIN m : i \in DOMAIN m2 /\ m2[i] = m[i],
         \A i \in DOMAIN m : m[i].kids \in Seq(DOMAIN m)
  PROVE  \A t \in Trees : Copies(m)[t] \subseteq Copies(m2)[t]
<1> DEFINE G == {t \in Trees : Copies(m)[t] \subseteq Copies(m2)[t]}
<1>1. ASSUME NEW t \in Trees, \A j \in DOMAIN t.kids : t.kids[j] \in G PROVE t \in G
  <2> SUFFICES ASSUME NEW i \in Copies(m)[t] PROVE i \in Copies(m2)[t]
    OBVIOUS
  <2>1. i \in CopiesFrom(Copies(m), m, t)
    BY CopiesDef
  <2>2. i \in DOMAIN m /\ i \in DOMAIN m2 /\ m2[i] = m[i] /\ m[i].kids \in Seq(DOMAIN m)
    BY <2>1 DEF CopiesFrom
  <2>3. \A j \in DOMAIN t.kids : \A x \in Copies(m)[t.kids[j]] : x \in Copies(m2)[t.kids[j]]
    BY <1>1
  <2>4. i \in CopiesFrom(Copies(m2), m2, t)
    <3>1. CASE t.w = "COLUMNDEF"
      BY <2>1, <2>2, <3>1 DEF CopiesFrom
    <3>2. CASE t.w = "NEG"
      <4>1. /\ m[i].w = "MUL" /\ Len(m[i].kids) = 2 /\ m[m[i].kids[1]] = MarkerNode
            /\ m[i].kids[2] \in Copies(m)[t.kids[1]]
        BY <2>1, <3>2 DEF CopiesFrom
      <4>2. m[i].kids[1] \in DOMAIN m
        <5>1. 1 \in 1 .. Len(m[i].kids)
          BY <4>1
        <5> QED BY <2>2, <5>1, ElementOfSeq
      <4>3. m[i].kids[2] \in Copies(m2)[t.kids[1]]
        BY <2>3, <3>2, <4>1, NegationOperand
      <4> QED BY <2>2, <3>2, <4>1, <4>2, <4>3 DEF CopiesFrom
    <3>3. CASE t.w \notin {"COLUMNDEF", "NEG"}
      <4>1. /\ <<m[i].w, m[i].v, m[i].opt>> = <<t.w, t.v, t.opt>>
            /\ Len(m[i].kids) = Len(t.kids)
            /\ \A j \in DOMAIN t.kids : m[i].kids[IF t.w \in Arith THEN 3 - j ELSE j] \in Copies(m)[t.kids[j]]
        BY <2>1, <3>3 DEF CopiesFrom
      <4>2. \A j \in DOMAIN t.kids : m[i].kids[IF t.w \in Arith THEN 3 - j ELSE j] \in Copies(m2)[t.kids[j]]
        BY <2>3, <4>1
      <4> QED BY <2>2, <3>3, <4>1, <4>2 DEF CopiesFrom
    <3> QED BY <3>1, <3>2, <3>3
  <2> QED BY <2>4, CopiesDef
<1>2. G = Trees
  <2>1. G \in SUBSET Trees
    OBVIOUS
  <2> HIDE DEF G
  <2> QED BY <1>1, <2>1, TreeInduction
<1> QED BY <1>2

-----------------------------------------------------------------------------
(* Reading the words back.  The builders work on nodes; the same work on   *)
(* trees is a reader, which knows what is on the stack after each word.    *)

Start == [ok |-> TRUE, trees |-> <<>>, open |-> FALSE, attrs |-> <<>>]

\* What no statement reads as.
Bad == [ok |-> FALSE, trees |-> <<>>, open |-> FALSE, attrs |-> <<>>]

\* How many operands a word takes.
Taken(word) == word.n + Uncounted(word)

Skipped(kind, word) == word.w = "STMT" \/ (kind \in {"DELETEONE", "UPDATE"} /\ word.w = "WHERE")

Rest(r, word) == Len(r.trees) - Taken(word)

Made(r, word) == Node(word.w, word.v, word.opt, SubSeq(r.trees, Rest(r, word) + 1, Len(r.trees)))

MadeColumn(r, word) == Column(word.v, DataType(word.n), r.attrs)

ReadColumn(r, word) ==
  IF r.open /\ MadeColumn(r, word) \in Trees
  THEN [ok |-> TRUE, trees |-> Append(r.trees, MadeColumn(r, word)), open |-> FALSE, attrs |-> <<>>]
  ELSE Bad

ReadOwn(r, word) ==
  IF /\ ~r.open
     /\ Rest(r, word) \in 0 .. Len(r.trees)
     /\ Made(r, word) \in Trees
     /\ word.w = "DELETEONE" => Rest(r, word) = 0
  THEN [ok |-> TRUE, trees |-> Append(SubSeq(r.trees, 1, Rest(r, word)), Made(r, word)), open |-> FALSE,
        attrs |-> <<>>]
  ELSE Bad

ReadWord(kind, r, word) ==
  IF ~r.ok
  THEN Bad
  ELSE CASE word.w = "STARTCOL" ->
              IF r.open THEN Bad ELSE [ok |-> TRUE, trees |-> r.trees, open |-> TRUE, attrs |-> <<>>]
         [] word.w = "ATTR" ->
              IF r.open
              THEN [ok |-> TRUE, trees |-> r.trees, open |-> TRUE, attrs |-> Append(r.attrs, word.v)]
              ELSE Bad
         [] word.w = "COLUMNDEF" -> ReadColumn(r, word)
         [] Skipped(kind, word) -> IF r.open THEN Bad ELSE r
         [] OTHER -> ReadOwn(r, word)

ReadStep(v, k) ==
  [s \in Statements |-> IF k = 0 THEN Start ELSE ReadWord(s.w, v[s], WordsOf[s][k])]

ReadRec == INSTANCE HeightRecursion WITH Step <- ReadStep

Read[k \in Nat] == ReadStep(Read[k - 1], k)

\* The reader after the first k words of the statement.
After(k) == Read[k][stmt]

LEMMA ReadDef == \A k \in Nat : Read[k] = ReadStep(Read[k - 1], k)
<1>1. \A a, b : ReadStep(a, 0) = ReadStep(b, 0)
  BY DEF ReadStep
<1>2. \E f : f = [h \in Nat |-> ReadStep(f[h - 1], h)]
  BY <1>1, ReadRec!Solution
<1>3. Read = [h \in Nat |-> ReadStep(Read[h - 1], h)]
  BY <1>2 DEF Read
<1> QED BY <1>3

LEMMA AfterDef ==
  ASSUME stmt \in Statements
  PROVE  /\ After(0) = Start
         /\ \A k \in Nat \ {0} : After(k) = ReadWord(stmt.w, After(k - 1), WordsOf[stmt][k])
<1>1. After(0) = Start
  <2>1. Read[0] = ReadStep(Read[0 - 1], 0)
    BY ReadDef
  <2> QED BY <2>1 DEF After, ReadStep
<1>2. ASSUME NEW k \in Nat \ {0} PROVE After(k) = ReadWord(stmt.w, After(k - 1), WordsOf[stmt][k])
  <2>1. Read[k] = ReadStep(Read[k - 1], k)
    BY ReadDef
  <2>2. Read[k][stmt] = ReadWord(stmt.w, Read[k - 1][stmt], WordsOf[stmt][k])
    BY <2>1 DEF ReadStep
  <2> QED BY <2>2 DEF After
<1> QED BY <1>1, <1>2

LEMMA AfterNext ==
  ASSUME stmt \in Statements, NEW k \in Nat
  PROVE  After(k + 1) = ReadWord(stmt.w, After(k), WordsOf[stmt][k + 1])
<1>1. k + 1 \in Nat \ {0} /\ k + 1 - 1 = k
  OBVIOUS
<1> QED BY <1>1, AfterDef

\* What the reader has read is a sequence of trees.
Reading(r) ==
  /\ r.ok \in BOOLEAN /\ r.open \in BOOLEAN
  /\ r.trees \in Seq(Trees)
  /\ ~r.open => r.attrs = <<>>

LEMMA ReadWordTyped ==
  ASSUME NEW kind, NEW r, Reading(r), NEW word PROVE Reading(ReadWord(kind, r, word))
<1>1. Reading(Bad)
  BY EmptySeq DEF Reading, Bad
<1>2. Reading(ReadColumn(r, word))
  <2>1. MadeColumn(r, word) \in Trees => Append(r.trees, MadeColumn(r, word)) \in Seq(Trees)
    BY AppendProperties DEF Reading
  <2> QED BY <1>1, <2>1 DEF ReadColumn, Reading
<1>3. Reading(ReadOwn(r, word))
  <2> SUFFICES ASSUME Rest(r, word) \in 0 .. Len(r.trees), Made(r, word) \in Trees
               PROVE  Append(SubSeq(r.trees, 1, Rest(r, word)), Made(r, word)) \in Seq(Trees)
    BY <1>1 DEF ReadOwn, Reading
  <2>1. r.trees \in Seq(Trees)
    BY DEF Reading
  <2>2. SubSeq(r.trees, 1, Rest(r, word)) \in Seq(Trees)
    <3> DEFINE n == Rest(r, word)
    <3>1. Len(r.trees) \in Nat
      BY <2>1, LenProperties
    <3>2. 1 \in Int /\ n \in Int /\ \A i \in 1 .. n : i \in 1 .. Len(r.trees)
      BY <3>1
    <3> HIDE DEF n
    <3>3. \A i \in 1 .. n : r.trees[i] \in Trees
      BY <2>1, <3>2, ElementOfSeq
    <3>4. SubSeq(r.trees, 1, n) \in Seq(Trees)
      BY <3>2, <3>3, SubSeqProperties
    <3> QED BY <3>4 DEF n
  <2> QED BY <2>2, AppendProperties
<1>4. ~r.open => Reading([ok |-> TRUE, trees |-> r.trees, open |-> TRUE, attrs |-> <<>>])
  BY DEF Reading
<1>5. Reading([ok |-> TRUE, trees |-> r.trees, open |-> TRUE, attrs |-> Append(r.attrs, word.v)])
  BY DEF Reading
<1> HIDE DEF Reading
<1> QED BY <1>1, <1>2, <1>3, <1>4, <1>5, Zenon DEF ReadWord

LEMMA AfterTyped ==
  ASSUME stmt \in Statements PROVE \A k \in Nat : Reading(After(k))
<1> DEFINE T == {k \in Nat : Reading(After(k))}
<1>1. 0 \in T
  <2>1. Reading(Start)
    BY EmptySeq DEF Reading, Start
  <2> QED BY <2>1, AfterDef
<1>2. ASSUME NEW k \in T PROVE k + 1 \in T
  <2>1. k + 1 \in Nat \ {0} /\ k + 1 - 1 = k
    OBVIOUS
  <2>2. After(k + 1) = ReadWord(stmt.w, After(k), WordsOf[stmt][k + 1])
    BY <2>1, AfterDef
  <2> QED BY <2>1, <2>2, ReadWordTyped
<1>3. T = Nat
  <2>1. T \in SUBSET Nat
    OBVIOUS
  <2> HIDE DEF T
  <2> QED BY <1>1, <1>2, <2>1, NatInductionOnSets
<1> QED BY <1>3

\* A statement that reads well reads well at every word.
LEMMA WellBefore ==
  ASSUME stmt \in Statements, NEW n \in Nat, After(n).ok
  PROVE  \A k \in 0 .. n : After(k).ok
<1> DEFINE T == {d \in Nat : d <= n => After(n - d).ok}
<1>1. 0 \in T
  OBVIOUS
<1>2. ASSUME NEW d \in T PROVE d + 1 \in T
  <2> SUFFICES ASSUME d + 1 <= n PROVE After(n - (d + 1)).ok
    OBVIOUS
  <2>1. n - d \in Nat \ {0} /\ (n - d) - 1 = n - (d + 1) /\ d <= n
    OBVIOUS
  <2>2. After(n - d).ok
    BY <2>1
  <2>3. After(n - d) = ReadWord(stmt.w, After(n - (d + 1)), WordsOf[stmt][n - d])
    BY <2>1, AfterDef
  <2> QED BY <2>2, <2>3 DEF ReadWord, Bad
<1>3. T = Nat
  <2>1. T \in SUBSET Nat
    OBVIOUS
  <2> HIDE DEF T
  <2> QED BY <1>1, <1>2, <2>1, NatInductionOnSets
<1>4. ASSUME NEW k \in 0 .. n PROVE After(k).ok
  <2>1. n - k \in Nat /\ n - k <= n /\ n - (n - k) = k
    OBVIOUS
  <2>2. n - k \in T
    BY <1>3, <2>1
  <2> HIDE DEF After
  <2> QED BY <2>1, <2>2
<1> QED BY <1>4

-----------------------------------------------------------------------------
(* Types are numbered and read back.                                       *)

LEMMA TypesDef ==
  /\ DOMAIN Types = {4, 5, 6, 8, 10, 11, 13}
  /\ Types[5] = "INTEGER" /\ Types[6] = "TINYINT" /\ Types[8] = "DOUBLE" /\ Types[10] = "DATE"
  /\ Types[11] = "DATETIME" /\ Types[13] = "VARCHAR"
BY DEF Types

LEMMA TypeReadBack ==
  ASSUME NEW t \in Trees, t.w = "COLUMNDEF", KnownType(TypeCode(t.type))
  PROVE  DataType(TypeCode(t.type)) = t.type
<1> DEFINE sql == t.type.sql
           len == t.type.len
           code == TypeCode(t.type)
<1>1. /\ t.type = [sql |-> sql, len |-> len]
      /\ sql \in {"INTEGER", "TINYINT", "DOUBLE", "DATE", "DATETIME", "VARCHAR"}
      /\ IF sql = "VARCHAR" THEN len \in Nat ELSE len = 0
  BY TreesAssumption
<1>2. /\ sql = "INTEGER" => code = 50000
      /\ sql = "TINYINT" => code = 60000
      /\ sql = "DOUBLE" => code = 80000
      /\ sql = "DATE" => code = 100000
      /\ sql = "DATETIME" => code = 110000
      /\ sql = "VARCHAR" => code = 130000 + len
  BY DEF TypeCode
<1>3. code \div 10000 \in {4, 5, 6, 8, 10, 11, 13}
  BY TypesDef DEF KnownType
<1>4. DataType(code) = [sql |-> Types[code \div 10000],
                        len |-> IF Types[code \div 10000] = "VARCHAR" THEN code % 10000 ELSE 0]
  BY DEF DataType
<1> HIDE DEF code, sql, len
<1>5. Types[code \div 10000] = sql /\ (sql = "VARCHAR" => code % 10000 = len)
  <2>1. CASE sql = "VARCHAR"
    <3>1. len \in Nat /\ code = 130000 + len
      BY <1>1, <1>2, <2>1
    <3>2. code \div 10000 = 13 /\ code % 10000 = len
      BY <1>3, <3>1
    <3> QED BY <2>1, <3>2, TypesDef
  <2>2. CASE sql = "INTEGER"
    <3>1. code \div 10000 = 5
      BY <1>2, <2>2
    <3> QED BY <2>2, <3>1, TypesDef
  <2>3. CASE sql = "TINYINT"
    <3>1. code \div 10000 = 6
      BY <1>2, <2>3
    <3> QED BY <2>3, <3>1, TypesDef
  <2>4. CASE sql = "DOUBLE"
    <3>1. code \div 10000 = 8
      BY <1>2, <2>4
    <3> QED BY <2>4, <3>1, TypesDef
  <2>5. CASE sql = "DATE"
    <3>1. code \div 10000 = 10
      BY <1>2, <2>5
    <3> QED BY <2>5, <3>1, TypesDef
  <2>6. CASE sql = "DATETIME"
    <3>1. code \div 10000 = 11
      BY <1>2, <2>6
    <3> QED BY <2>6, <3>1, TypesDef
  <2> QED BY <1>1, <2>1, <2>2, <2>3, <2>4, <2>5, <2>6
<1>6. sql # "VARCHAR" => len = 0
  BY <1>1
<1> QED BY <1>1, <1>4, <1>5, <1>6 DEF code

-----------------------------------------------------------------------------
(* Stretches of the words.                                                 *)

\* The words of the statement behind the first i begin with e.
At(i, e) ==
  /\ i \in Nat
  /\ i + Len(e) <= Len(WordsOf[stmt])
  /\ \A j \in 1 .. Len(e) : WordsOf[stmt][i + j] = e[j]

LEMMA AtBoth ==
  ASSUME NEW W, NEW a \in Seq(W), NEW b \in Seq(W), NEW i, At(i, a \o b), stmt \in Statements
  PROVE  At(i, a) /\ At(i + Len(a), b)
<1> DEFINE n == Len(a)
           m == Len(b)
           c == a \o b
           ws == WordsOf[stmt]
<1>1. /\ n \in Nat /\ m \in Nat /\ Len(c) = n + m
      /\ \A j \in 1 .. n : c[j] = a[j]
      /\ \A j \in 1 .. m : c[n + j] = b[j]
  BY Appended
<1>2. Len(ws) \in Nat
  <2>1. ws \in Seq(ToSet(ws))
    BY WordsAssumption
  <2> QED BY <2>1, LenProperties
<1>3. i \in Nat /\ i + Len(c) <= Len(ws) /\ \A j \in 1 .. Len(c) : ws[i + j] = c[j]
  BY DEF At
<1> HIDE DEF n, m, c, ws
<1>4. /\ i + n <= Len(ws) /\ i + n \in Nat /\ i + n + m <= Len(ws)
      /\ \A j \in 1 .. n : j \in 1 .. Len(c)
      /\ \A j \in 1 .. m : n + j \in 1 .. Len(c) /\ i + (n + j) = i + n + j
  BY <1>1, <1>2, <1>3
<1>5. \A j \in 1 .. n : ws[i + j] = a[j]
  BY <1>1, <1>3, <1>4
<1>6. \A j \in 1 .. m : ws[i + n + j] = b[j]
  BY <1>1, <1>3, <1>4
<1>7. At(i, a)
  BY <1>3, <1>4, <1>5 DEF At, n, ws
<1>8. At(i + n, b)
  BY <1>3, <1>4, <1>6 DEF At, n, m, ws
<1> QED BY <1>7, <1>8 DEF n

\* The words of a statement that the builders claim to read.
LEMMA WordsPlain ==
  ASSUME stmt \in Statements, Plain, NEW k \in 1 .. Len(WordsOf[stmt])
  PROVE  LET word == WordsOf[stmt][k] IN
           /\ word \in ToSet(WordsOf[stmt])
           /\ word.w \notin {"CASE", "NOW", "ERROR"}
           /\ word.w = "COLUMNDEF" => KnownType(word.n) /\ CutAt(word.v) = word.v
           /\ word.w # "COLUMNDEF" => Matched(word) = word.v
           /\ word # None /\ word.v # NoMatch
           /\ stmt.w \in Builders => word.w \in Spoken(stmt.w)
           /\ word.n \in Nat /\ word.opt \in Nat
           /\ word.w = "STMT" <=> k = Len(WordsOf[stmt])
<1>1. WordsOf[stmt] \in Seq(ToSet(WordsOf[stmt]))
  BY WordsAssumption
<1>2. WordsOf[stmt][k] \in ToSet(WordsOf[stmt]) /\ k \in DOMAIN WordsOf[stmt]
  BY <1>1, LenProperties, ElementOfSeq
<1>3. /\ WordsOf[stmt][k].w \notin {"CASE", "NOW", "ERROR"}
      /\ WordsOf[stmt][k].w = "COLUMNDEF" => KnownType(WordsOf[stmt][k].n) /\ CutAt(WordsOf[stmt][k].v) = WordsOf[stmt][k].v
      /\ WordsOf[stmt][k].w # "COLUMNDEF" => Matched(WordsOf[stmt][k]) = WordsOf[stmt][k].v
  BY <1>2 DEF Plain
<1>4. /\ WordsOf[stmt][k] # None /\ WordsOf[stmt][k].v # NoMatch
      /\ stmt.w \in Builders => WordsOf[stmt][k].w \in Spoken(stmt.w)
  BY <1>2, GrammarAssumption
<1>5. /\ WordsOf[stmt][k].n \in Nat /\ WordsOf[stmt][k].opt \in Nat
      /\ WordsOf[stmt][k].w = "STMT" <=> k = Len(WordsOf[stmt])
  BY <1>2, WordsAssumption
<1> QED BY <1>2, <1>3, <1>4, <1>5

-----------------------------------------------------------------------------
(* The words of a tree read as that tree.                                  *)

\* The reader is between two trees.
ReadsOn(r) == r.ok = TRUE /\ r.open = FALSE

LEMMA PartsOfConcat ==
  ASSUME NEW W, NEW a \in Seq(W), NEW b \in Seq(W)
  PROVE  /\ SubSeq(a \o b, 1, Len(a)) = a
         /\ SubSeq(a \o b, Len(a) + 1, Len(a \o b)) = b
<1>1. Len(a) \in Nat /\ Len(b) \in Nat /\ Len(a \o b) = Len(a) + Len(b)
  BY Appended
<1>2. SubSeq(a \o b, 1, Len(a)) = a
  <2>1. CASE Len(a) = 0
    <3>1. a = <<>> /\ Len(a) < 1
      BY <1>1, <2>1, EmptySeq
    <3>2. SubSeq(a \o b, 1, Len(a)) = <<>>
      BY <1>1, <3>1, SubSeqEmpty
    <3> QED BY <3>1, <3>2
  <2>2. CASE Len(a) # 0
    <3>1. 1 \in 1 .. Len(a) /\ Len(a) \in 1 .. Len(a)
      BY <1>1, <2>2
    <3>2. SubSeq(a \o b, 1, Len(a)) = SubSeq(a, 1, Len(a))
      BY <3>1, SubSeqOfConcat1
    <3> QED BY <3>2, SubSeqFull
  <2> QED BY <2>1, <2>2
<1>3. SubSeq(a \o b, Len(a) + 1, Len(a) + Len(b)) = b
  <2>1. CASE Len(b) = 0
    <3>1. b = <<>> /\ Len(a) + Len(b) < Len(a) + 1
      BY <1>1, <2>1, EmptySeq
    <3>2. SubSeq(a \o b, Len(a) + 1, Len(a) + Len(b)) = <<>>
      BY <1>1, <3>1, SubSeqEmpty
    <3> QED BY <3>1, <3>2
  <2>2. CASE Len(b) # 0
    <3>1. /\ Len(a) + 1 \in Len(a) + 1 .. Len(a) + Len(b) /\ Len(a) + Len(b) \in Len(a) + 1 .. Len(a) + Len(b)
          /\ Len(a) + 1 - Len(a) = 1 /\ Len(a) + Len(b) - Len(a) = Len(b)
      BY <1>1, <2>2
    <3>2. SubSeq(a \o b, Len(a) + 1, Len(a) + Len(b)) = SubSeq(b, 1, Len(b))
      BY <3>1, SubSeqOfConcat2
    <3> QED BY <3>2, SubSeqFull
  <2> QED BY <2>1, <2>2
<1> QED BY <1>1, <1>2, <1>3

LEMMA OwnTakes ==
  ASSUME NEW t \in Trees
  PROVE  /\ Taken(EmitOwn(t)) = Len(t.kids)
         /\ EmitOwn(t).w = t.w /\ EmitOwn(t).v = t.v /\ EmitOwn(t).opt = t.opt
<1>1. Len(t.kids) \in Nat /\ t.opt \in Nat
  BY Operand, TreesAssumption
<1>2. EmitOwn(t).w = t.w /\ EmitOwn(t).v = t.v /\ EmitOwn(t).opt = t.opt /\ EmitOwn(t).n = Len(t.kids) - Uncounted(t)
  BY DEF EmitOwn, Word
<1>3. Uncounted(EmitOwn(t)) = Uncounted(t)
  BY <1>2 DEF Uncounted
<1>4. Uncounted(t) \in Int
  BY <1>1 DEF Uncounted
<1> QED BY <1>1, <1>2, <1>3, <1>4 DEF Taken

\* The own word of a tree behind its operands.
LEMMA OwnRead ==
  ASSUME stmt \in Statements, NEW k \in Nat, ReadsOn(After(k)),
         NEW base \in Seq(Trees), NEW t \in Trees, t.w # "COLUMNDEF",
         After(k).trees = base \o t.kids,
         t.w = "DELETEONE" => base = <<>>,
         WordsOf[stmt][k + 1] = EmitOwn(t), ~Skipped(stmt.w, EmitOwn(t))
  PROVE  ReadsOn(After(k + 1)) /\ After(k + 1).trees = Append(base, t)
<1> DEFINE r == After(k)
           word == EmitOwn(t)
           n == Len(base)
<1>1. t.kids \in Seq(Trees) /\ Len(t.kids) \in Nat
  BY Operand
<1>2. /\ n \in Nat /\ Len(r.trees) = n + Len(t.kids)
      /\ SubSeq(r.trees, 1, n) = base
      /\ SubSeq(r.trees, n + 1, Len(r.trees)) = t.kids
  BY <1>1, Appended, PartsOfConcat
<1>3. Taken(word) = Len(t.kids) /\ word.w = t.w /\ word.v = t.v /\ word.opt = t.opt
  BY OwnTakes
<1>4. r.ok /\ ~r.open
  BY DEF ReadsOn
<1>5. After(k + 1) = ReadWord(stmt.w, r, word)
  <2>1. k + 1 \in Nat \ {0} /\ k + 1 - 1 = k
    OBVIOUS
  <2> QED BY <2>1, AfterDef
<1>6. word.w \notin {"STARTCOL", "ATTR", "COLUMNDEF"} /\ t = Node(t.w, t.v, t.opt, t.kids)
  BY <1>3, TreesAssumption
<1>7. t.w = "DELETEONE" => n = 0
  BY EmptySeq
<1> HIDE DEF r, word, n
<1>8. Rest(r, word) = n
  BY <1>1, <1>2, <1>3 DEF Rest
<1>9. Made(r, word) = t
  BY <1>2, <1>3, <1>6, <1>8 DEF Made
<1>10. ReadWord(stmt.w, r, word) = ReadOwn(r, word)
  BY <1>4, <1>6 DEF ReadWord, word
<1>11. n \in 0 .. Len(r.trees)
  BY <1>1, <1>2
<1>12. ReadOwn(r, word) = [ok |-> TRUE, trees |-> Append(base, t), open |-> FALSE, attrs |-> <<>>]
  BY <1>2, <1>3, <1>4, <1>7, <1>8, <1>9, <1>11 DEF ReadOwn
<1> QED BY <1>5, <1>10, <1>12 DEF ReadsOn

\* A word without a node.
LEMMA SkippedRead ==
  ASSUME stmt \in Statements, NEW k \in Nat, ReadsOn(After(k)),
         WordsOf[stmt][k + 1].w \in {"STMT", "WHERE"}, Skipped(stmt.w, WordsOf[stmt][k + 1])
  PROVE  After(k + 1) = After(k)
<1>1. After(k + 1) = ReadWord(stmt.w, After(k), WordsOf[stmt][k + 1])
  <2>1. k + 1 \in Nat \ {0} /\ k + 1 - 1 = k
    OBVIOUS
  <2> QED BY <2>1, AfterDef
<1>2. After(k).ok /\ ~After(k).open
  BY DEF ReadsOn
<1> QED BY <1>1, <1>2 DEF ReadWord

LEMMA ReadOpening ==
  ASSUME NEW kind, NEW r, r.ok, ~r.open, NEW word, word.w = "STARTCOL"
  PROVE  ReadWord(kind, r, word) = [ok |-> TRUE, trees |-> r.trees, open |-> TRUE, attrs |-> <<>>]
BY SMT DEF ReadWord, ReadColumn, ReadOwn, Skipped, Bad

LEMMA ReadAttribute ==
  ASSUME NEW kind, NEW r, r.ok, r.open, NEW word, word.w = "ATTR"
  PROVE  ReadWord(kind, r, word) = [ok |-> TRUE, trees |-> r.trees, open |-> TRUE, attrs |-> Append(r.attrs, word.v)]
BY SMT DEF ReadWord, ReadColumn, ReadOwn, Skipped, Bad

LEMMA ReadClosing ==
  ASSUME NEW kind, NEW r, r.ok, NEW word, word.w = "COLUMNDEF"
  PROVE  ReadWord(kind, r, word) = ReadColumn(r, word)
BY SMT DEF ReadWord, ReadColumn, ReadOwn, Skipped, Bad

LEMMA WordFields ==
  \A w, v, n, opt :
    LET word == Word(w, v, n, opt) IN word.w = w /\ word.v = v /\ word.n = n /\ word.opt = opt
BY DEF Word

LEMMA ColumnPlaces ==
  ASSUME NEW n \in Nat
  PROVE  /\ 1 \in 1 .. n + 2 /\ n + 2 \in 1 .. n + 2
         /\ \A j \in 1 .. n : 1 + j \in 1 .. n + 2
         /\ \A i \in Nat : \A j \in 1 .. n : i + 1 + j = i + (1 + j)
         /\ \A i \in Nat : i + 1 + n \in Nat /\ i + 1 + n + 1 = i + (n + 2)
         /\ \A i \in Nat : \A len \in Nat : i + (n + 2) <= len => i + 1 + n + 1 \in 1 .. len
OBVIOUS

\* The reader, as a function of the number of words read.
Reader(A, ws, kind) == \A k \in Nat : A[k + 1] = ReadWord(kind, A[k], ws[k + 1])

LEMMA AfterReads ==
  ASSUME stmt \in Statements
  PROVE  Reader([k \in Nat |-> After(k)], WordsOf[stmt], stmt.w)
<1> SUFFICES ASSUME NEW k \in Nat PROVE After(k + 1) = ReadWord(stmt.w, After(k), WordsOf[stmt][k + 1])
  BY DEF Reader
<1>1. k + 1 \in Nat \ {0} /\ k + 1 - 1 = k
  OBVIOUS
<1> QED BY <1>1, AfterDef

LEMMA GrownPrefix ==
  ASSUME NEW W, NEW n \in Nat, NEW a \in [1 .. n -> W], NEW j \in Nat, j + 1 <= n
  PROVE  Append([x \in 1 .. j |-> a[x]], a[j + 1]) = [x \in 1 .. j + 1 |-> a[x]]
<1> DEFINE p == [x \in 1 .. j |-> a[x]]
           q == [x \in 1 .. j + 1 |-> a[x]]
<1>1. p \in [1 .. j -> W] /\ q \in [1 .. j + 1 -> W] /\ a[j + 1] \in W
  OBVIOUS
<1>2. p \in Seq(W) /\ q \in Seq(W)
  BY <1>1
<1>3. Len(p) = j /\ Len(q) = j + 1
  OBVIOUS
<1>4. /\ Append(p, a[j + 1]) \in Seq(W)
      /\ Len(Append(p, a[j + 1])) = Len(p) + 1
      /\ \A x \in 1 .. Len(p) : Append(p, a[j + 1])[x] = p[x]
      /\ Append(p, a[j + 1])[Len(p) + 1] = a[j + 1]
  BY <1>1, <1>2, AppendProperties
<1>5. \A x \in 1 .. j + 1 : Append(p, a[j + 1])[x] = q[x]
  BY <1>3, <1>4
<1> HIDE DEF p, q
<1>6. Append(p, a[j + 1]) = q
  BY <1>2, <1>3, <1>4, <1>5, SeqEqual
<1> QED BY <1>6 DEF p, q

\* The words behind the first i are those of a column with n attributes, up to
\* its name and type.
Attributes(ws, i, n, attrs) ==
  /\ attrs = [x \in 1 .. n |-> attrs[x]]
  /\ ws[i + 1].w = "STARTCOL"
  /\ \A j \in 1 .. n : ws[i + 1 + j].w = "ATTR" /\ ws[i + 1 + j].v = attrs[j]

ColumnOpen(r, trees, attrs) == r = [ok |-> TRUE, trees |-> trees, open |-> TRUE, attrs |-> attrs]

LEMMA AttrsRead ==
  ASSUME NEW A, NEW ws, NEW kind, Reader(A, ws, kind), NEW i \in Nat, ReadsOn(A[i]),
         NEW n \in Nat, NEW attrs, Attributes(ws, i, n, attrs)
  PROVE  ColumnOpen(A[i + 1 + n], A[i].trees, attrs)
<1>0. /\ A[i].ok = TRUE /\ A[i].open = FALSE
      /\ attrs = [x \in 1 .. n |-> attrs[x]]
      /\ ws[i + 1].w = "STARTCOL"
      /\ \A j \in 1 .. n : ws[i + 1 + j].w = "ATTR" /\ ws[i + 1 + j].v = attrs[j]
  BY DEF ReadsOn, Attributes
<1> DEFINE W == {attrs[x] : x \in 1 .. n}
<1>w. attrs \in [1 .. n -> W]
  BY <1>0
<1> HIDE DEF W
<1> DEFINE Read_(j) == A[i + 1 + j] = [ok |-> TRUE, trees |-> A[i].trees, open |-> TRUE,
                                       attrs |-> [x \in 1 .. j |-> attrs[x]]]
           T == {j \in Nat : j <= n => Read_(j)}
<1>1. Read_(0)
  <2>1. A[i + 1] = ReadWord(kind, A[i], ws[i + 1])
    BY DEF Reader
  <2>2. A[i + 1] = [ok |-> TRUE, trees |-> A[i].trees, open |-> TRUE, attrs |-> <<>>]
    BY <1>0, <2>1, SMT DEF ReadWord, ReadColumn, ReadOwn, Skipped, Bad
  <2>3. i + 1 + 0 = i + 1 /\ [x \in 1 .. 0 |-> attrs[x]] = <<>>
    OBVIOUS
  <2> QED BY <2>2, <2>3
<1>2. ASSUME NEW j \in Nat, j + 1 <= n, Read_(j) PROVE Read_(j + 1)
  <2> DEFINE sofar == [x \in 1 .. j |-> attrs[x]]
  <2>1. A[i + 1 + j] = [ok |-> TRUE, trees |-> A[i].trees, open |-> TRUE, attrs |-> sofar]
    BY <1>2
  <2>2. Append(sofar, attrs[j + 1]) = [x \in 1 .. j + 1 |-> attrs[x]]
    BY <1>2, <1>w, GrownPrefix
  <2> HIDE DEF sofar
  <2>3. i + 1 + j \in Nat /\ i + 1 + j + 1 = i + 1 + (j + 1) /\ j + 1 \in 1 .. n
    BY <1>2
  <2>4. A[i + 1 + (j + 1)] = ReadWord(kind, A[i + 1 + j], ws[i + 1 + (j + 1)])
    <3>1. A[i + 1 + j + 1] = ReadWord(kind, A[i + 1 + j], ws[i + 1 + j + 1])
      BY <2>3 DEF Reader
    <3> QED BY ONLY <2>3, <3>1
  <2>5. ws[i + 1 + (j + 1)].w = "ATTR" /\ ws[i + 1 + (j + 1)].v = attrs[j + 1]
    BY <1>0, <2>3
  <2>6. A[i + 1 + (j + 1)] = [ok |-> TRUE, trees |-> A[i].trees, open |-> TRUE, attrs |-> Append(sofar, attrs[j + 1])]
    <3> DEFINE r == A[i + 1 + j]
               word == ws[i + 1 + (j + 1)]
    <3>1. r.ok /\ r.open /\ r.trees = A[i].trees /\ r.attrs = sofar
      BY <2>1
    <3>2. word.w = "ATTR" /\ word.v = attrs[j + 1]
      BY <2>5
    <3> HIDE DEF r, word
    <3>3. ReadWord(kind, r, word) = [ok |-> TRUE, trees |-> A[i].trees, open |-> TRUE, attrs |-> Append(sofar, attrs[j + 1])]
      BY ONLY <3>1, <3>2, SMT DEF ReadWord, ReadColumn, ReadOwn, Skipped, Bad
    <3> QED BY <2>4, <3>3 DEF r, word
  <2> QED BY <2>2, <2>6
<1> HIDE DEF Read_
<1>3. T = Nat
  <2>1. 0 \in T /\ T \in SUBSET Nat
    BY <1>1
  <2>2. ASSUME NEW j \in T PROVE j + 1 \in T
    <3>1. j \in Nat /\ (j + 1 <= n => j <= n)
      OBVIOUS
    <3> QED BY <1>2, <3>1
  <2> HIDE DEF T
  <2> QED BY <2>1, <2>2, NatInductionOnSets
<1>4. Read_(n)
  <2>1. n \in T
    BY <1>3
  <2> QED BY <2>1
<1> QED BY <1>0, <1>4 DEF Read_, ColumnOpen

\* The words of a column.
LEMMA ColumnRead ==
  ASSUME stmt \in Statements, Plain, NEW t \in Trees, t.w = "COLUMNDEF",
         NEW i, At(i, EmitColumn(t)), ReadsOn(After(i))
  PROVE  LET end == i + Len(EmitColumn(t))
         IN  ReadsOn(After(end)) /\ After(end).trees = Append(After(i).trees, t)
<1> DEFINE n == Len(t.attrs)
           A == [k \in Nat |-> After(k)]
<1>1. /\ n \in Nat /\ DOMAIN t.attrs = 1 .. n
      /\ Len(EmitColumn(t)) = n + 2
      /\ EmitColumn(t)[1] = Word("STARTCOL", "", 0, 0)
      /\ \A j \in 1 .. n : EmitColumn(t)[1 + j] = Word("ATTR", t.attrs[j], 0, 0)
      /\ EmitColumn(t)[n + 2] = Word("COLUMNDEF", t.v, TypeCode(t.type), 0)
  BY ColumnWords
<1>2. /\ i \in Nat /\ i + Len(EmitColumn(t)) <= Len(WordsOf[stmt])
      /\ \A j \in 1 .. Len(EmitColumn(t)) : WordsOf[stmt][i + j] = EmitColumn(t)[j]
  BY DEF At
<1>3. t.attrs \in [1 .. n -> ToSet(t.attrs)]
  <2>1. t.attrs \in Seq(ToSet(t.attrs))
    BY TreesAssumption
  <2> QED BY <2>1, LenProperties
<1>4. t = Column(t.v, t.type, t.attrs)
  BY TreesAssumption
<1>5. Reader(A, WordsOf[stmt], stmt.w)
  BY AfterReads
<1>6. A[i] = After(i) /\ \A k \in Nat : A[k] = After(k)
  BY <1>2
<1> HIDE DEF n, A
<1>a. n \in Nat /\ Len(EmitColumn(t)) = n + 2
  BY <1>1
<1>7. /\ i + (n + 2) <= Len(WordsOf[stmt])
      /\ WordsOf[stmt][i + 1] = Word("STARTCOL", "", 0, 0)
      /\ WordsOf[stmt][i + (n + 2)] = Word("COLUMNDEF", t.v, TypeCode(t.type), 0)
  <2>1. 1 \in 1 .. n + 2 /\ n + 2 \in 1 .. n + 2
    BY <1>a, ColumnPlaces
  <2> QED BY <1>1, <1>2, <2>1
<1>8. \A j \in 1 .. n : WordsOf[stmt][i + 1 + j] = Word("ATTR", t.attrs[j], 0, 0)
  <2> TAKE j \in 1 .. n
  <2>1. 1 + j \in 1 .. n + 2 /\ i + 1 + j = i + (1 + j)
    BY <1>a, <1>2, ColumnPlaces
  <2>2. WordsOf[stmt][i + (1 + j)] = EmitColumn(t)[1 + j]
    BY <1>a, <1>2, <2>1
  <2>3. EmitColumn(t)[1 + j] = Word("ATTR", t.attrs[j], 0, 0)
    BY <1>1
  <2> QED BY <2>1, <2>2, <2>3
<1>9. A[i + 1 + n] = [ok |-> TRUE, trees |-> A[i].trees, open |-> TRUE, attrs |-> t.attrs]
  <2>1. WordsOf[stmt][i + 1].w = "STARTCOL"
    <3>1. Word("STARTCOL", "", 0, 0).w = "STARTCOL"
      BY DEF Word
    <3> QED BY <1>7, <3>1
  <2>2. \A j \in 1 .. n : WordsOf[stmt][i + 1 + j].w = "ATTR" /\ WordsOf[stmt][i + 1 + j].v = t.attrs[j]
    BY <1>8, WordFields
  <2>3. ReadsOn(A[i])
    BY <1>6
  <2>4. Attributes(WordsOf[stmt], i, n, t.attrs)
    BY <1>3, <2>1, <2>2 DEF Attributes
  <2>5. ColumnOpen(A[i + 1 + n], A[i].trees, t.attrs)
    BY <1>a, <1>2, <1>5, <2>3, <2>4, AttrsRead
  <2> QED BY <2>5 DEF ColumnOpen
<1> DEFINE end == i + 1 + n
           word == WordsOf[stmt][end + 1]
<1>10. end \in Nat /\ end + 1 = i + (n + 2) /\ end + 1 \in 1 .. Len(WordsOf[stmt])
  <2>1. Len(WordsOf[stmt]) \in Nat
    <3>1. WordsOf[stmt] \in Seq(ToSet(WordsOf[stmt]))
      BY WordsAssumption
    <3> QED BY <3>1, LenProperties
  <2> QED BY <1>a, <1>2, <1>7, <2>1, ColumnPlaces
<1>11. word = Word("COLUMNDEF", t.v, TypeCode(t.type), 0)
  BY <1>7, <1>10
<1>12. word.w = "COLUMNDEF" /\ word.v = t.v /\ word.n = TypeCode(t.type)
  BY <1>11, WordFields
<1>13. KnownType(TypeCode(t.type))
  BY <1>10, <1>12, WordsPlain
<1>14. DataType(TypeCode(t.type)) = t.type
  BY <1>13, TypeReadBack
<1>15. A[end + 1] = ReadWord(stmt.w, A[end], word)
  BY <1>5, <1>10 DEF Reader
<1> HIDE DEF word, end
<1>16. A[end].ok /\ A[end].open /\ A[end].trees = A[i].trees /\ A[end].attrs = t.attrs
  BY <1>9 DEF end
<1>17. MadeColumn(A[end], word) = t
  BY <1>4, <1>12, <1>14, <1>16 DEF MadeColumn
<1>18. ReadWord(stmt.w, A[end], word) = ReadColumn(A[end], word)
  BY <1>12, <1>16, ReadClosing
<1>19. ReadColumn(A[end], word) = [ok |-> TRUE, trees |-> Append(A[i].trees, t), open |-> FALSE, attrs |-> <<>>]
  BY <1>16, <1>17 DEF ReadColumn
<1>20. end + 1 = i + Len(EmitColumn(t)) /\ end + 1 \in Nat
  BY <1>a, <1>10
<1>22. A[end + 1] = After(end + 1)
  BY <1>6, <1>20
<1>23. ReadsOn(After(end + 1)) /\ After(end + 1).trees = Append(After(i).trees, t)
  BY <1>6, <1>15, <1>18, <1>19, <1>22 DEF ReadsOn
<1> QED BY <1>20, <1>23

-----------------------------------------------------------------------------
(* A tree reads as itself.                                                 *)

\* From the first i words to the first j the reader gets the trees ts.
ReadsTo(i, j, ts) == ReadsOn(After(j)) /\ After(j).trees = After(i).trees \o ts

\* The reader is where the words of t may begin.
ReadyFor(i, t) ==
  /\ ReadsOn(After(i))
  /\ t.w = "DELETEONE" => After(i).trees = <<>>
  /\ t.w = "WHERE" => stmt.w = "SELECT"

ReadsAs(t) == \A i \in Nat : At(i, Emit[t]) /\ ReadyFor(i, t) => ReadsTo(i, i + Len(Emit[t]), <<t>>)

\* The words of the operands of t, one after the other.
Ops(t) == [x \in DOMAIN t.kids |-> Emit[t.kids[x]]]

LEMMA OpsTyped ==
  ASSUME NEW t \in Trees
  PROVE  Ops(t) \in Seq(Seq(AllWords)) /\ Len(Ops(t)) = Len(t.kids) /\ \A x \in DOMAIN t.kids : Ops(t)[x] = Emit[t.kids[x]]
<1>1. DOMAIN t.kids = 1 .. Len(t.kids) /\ Len(t.kids) \in Nat /\ \A x \in DOMAIN t.kids : t.kids[x] \in Trees
  BY Operand
<1>2. \A x \in DOMAIN t.kids : Emit[t.kids[x]] \in Seq(AllWords)
  BY <1>1, EmitDef
<1> DEFINE n == Len(t.kids)
           W == Seq(AllWords)
           s == [x \in 1 .. n |-> Emit[t.kids[x]]]
<1>3. n \in Nat /\ s \in [1 .. n -> W]
  BY <1>1, <1>2
<1>4. Ops(t) = s
  BY <1>1 DEF Ops
<1> HIDE DEF n, W, s
<1>5. s \in Seq(W) /\ Len(s) = n
  BY <1>3
<1>6. \A x \in DOMAIN t.kids : Ops(t)[x] = Emit[t.kids[x]]
  BY DEF Ops
<1> QED BY <1>4, <1>5, <1>6 DEF n, W

LEMMA TreesAfter ==
  ASSUME stmt \in Statements, NEW i \in Nat PROVE After(i).trees \in Seq(Trees)
BY AfterTyped DEF Reading

\* The operands of a tree read as they are.
LEMMA KidsRead ==
  ASSUME stmt \in Statements, NEW t \in Trees, NEW i \in Nat, At(i, FlattenSeq(Ops(t))), ReadsOn(After(i)),
         \A x \in DOMAIN t.kids : ReadsAs(t.kids[x]),
         \A x \in DOMAIN t.kids : t.kids[x].w # "DELETEONE" /\ (t.kids[x].w = "WHERE" => stmt.w = "SELECT")
  PROVE  ReadsTo(i, i + Len(FlattenSeq(Ops(t))), t.kids)
<1> DEFINE n == Len(t.kids)
           Part(f, j) == At(i, f[j])
           Got(f, j) == ReadsTo(i, i + Len(f[j]), SubSeq(t.kids, 1, j))
<1>1. PICK f \in [0 .. Len(Ops(t)) -> Seq(AllWords)] :
         /\ f[0] = <<>>
         /\ \A j \in 1 .. Len(Ops(t)) : f[j] = f[j - 1] \o Ops(t)[j]
         /\ f[Len(Ops(t))] = FlattenSeq(Ops(t))
  BY OpsTyped, Flattened
<1>2. /\ n \in Nat /\ f \in [0 .. n -> Seq(AllWords)] /\ f[0] = <<>>
      /\ \A j \in 1 .. n : f[j] = f[j - 1] \o Emit[t.kids[j]]
      /\ f[n] = FlattenSeq(Ops(t))
  BY <1>1, OpsTyped, Operand
<1>3. \A j \in 1 .. n : t.kids[j] \in Trees /\ Emit[t.kids[j]] \in Seq(AllWords)
  BY Operand, EmitDef
<1>4. t.kids \in Seq(Trees) /\ DOMAIN t.kids = 1 .. n
  BY Operand
<1> HIDE DEF n
<1>5. ASSUME NEW j \in Nat, j + 1 <= n
      PROVE  /\ j + 1 \in 1 .. n /\ f[j] \in Seq(AllWords) /\ Emit[t.kids[j + 1]] \in Seq(AllWords)
             /\ f[j + 1] = f[j] \o Emit[t.kids[j + 1]]
  <2>1. j + 1 \in 1 .. n /\ j \in 0 .. n /\ j + 1 - 1 = j
    BY <1>2, <1>5
  <2>2. f[j] \in Seq(AllWords)
    BY <1>2, <2>1
  <2>3. f[j + 1] = f[j] \o Emit[t.kids[j + 1]]
    <3>1. \A x \in 1 .. n : f[x] = f[x - 1] \o Emit[t.kids[x]]
      BY <1>2
    <3>2. f[j + 1] = f[j + 1 - 1] \o Emit[t.kids[j + 1]]
      <4> HIDE DEF n
      <4> QED BY ONLY <2>1, <3>1
    <3>3. j + 1 - 1 = j
      OBVIOUS
    <3> QED BY <3>2, <3>3
  <2>4. Emit[t.kids[j + 1]] \in Seq(AllWords)
    BY <1>3, <2>1
  <2> QED BY <2>1, <2>2, <2>3, <2>4
<1>6. ASSUME NEW j \in Nat, j + 1 <= n, Part(f, j + 1)
      PROVE  Part(f, j) /\ At(i + Len(f[j]), Emit[t.kids[j + 1]])
  BY <1>5, <1>6, AtBoth
<1>7. \A j \in 0 .. n : Part(f, j)
  <2> DEFINE T == {d \in Nat : d <= n => Part(f, n - d)}
  <2>1. 0 \in T
    BY <1>2
  <2>2. ASSUME NEW d \in T PROVE d + 1 \in T
    <3> SUFFICES ASSUME d + 1 <= n PROVE Part(f, n - (d + 1))
      OBVIOUS
    <3>1. n - (d + 1) \in Nat /\ n - (d + 1) + 1 = n - d /\ n - d <= n /\ d <= n
      BY <1>2
    <3> HIDE DEF Part
    <3> QED BY <1>6, <2>2, <3>1
  <2>3. T = Nat
    <3>1. T \in SUBSET Nat
      OBVIOUS
    <3> HIDE DEF T
    <3> QED BY <2>1, <2>2, <3>1, NatInductionOnSets
  <2>4. ASSUME NEW j \in 0 .. n PROVE Part(f, j)
    <3>1. n - j \in Nat /\ n - j <= n /\ n - (n - j) = j
      BY <1>2
    <3>2. n - j \in T
      BY <2>3, <3>1
    <3> HIDE DEF Part
    <3> QED BY <3>1, <3>2
  <2> QED BY <2>4
<1>8. Got(f, 0)
  <2>1. Len(f[0]) = 0 /\ i + 0 = i /\ SubSeq(t.kids, 1, 0) = <<>>
    BY <1>2, EmptySeq, SubSeqEmpty
  <2>2. After(i).trees \o <<>> = After(i).trees
    BY TreesAfter, ConcatEmptySeq
  <2> QED BY <2>1, <2>2 DEF ReadsTo
<1>9. ASSUME NEW j \in Nat, j + 1 <= n, Got(f, j) PROVE Got(f, j + 1)
  <2> DEFINE k == i + Len(f[j])
             e == Emit[t.kids[j + 1]]
             kid == t.kids[j + 1]
  <2>1. /\ j + 1 \in 1 .. n /\ kid \in Trees /\ kid \in {t.kids[x] : x \in DOMAIN t.kids}
        /\ f[j] \in Seq(AllWords) /\ e \in Seq(AllWords) /\ f[j + 1] = f[j] \o e
    BY <1>3, <1>4, <1>5, <1>9
  <2>2. k \in Nat /\ i + Len(f[j + 1]) = k + Len(e)
    <3>1. Len(f[j]) \in Nat /\ Len(e) \in Nat /\ Len(f[j] \o e) = Len(f[j]) + Len(e)
      BY <2>1, Appended
    <3>2. Len(f[j + 1]) = Len(f[j]) + Len(e)
      BY <2>1, <3>1
    <3> HIDE DEF e
    <3> QED BY ONLY i \in Nat, <3>1, <3>2
  <2>3. At(k, e)
    <3>1. j + 1 \in 0 .. n
      BY <1>9
    <3>2. Part(f, j + 1)
      BY <1>7, <3>1
    <3> QED BY <1>6, <1>9, <3>2
  <2>4. ReadsOn(After(k)) /\ After(k).trees = After(i).trees \o SubSeq(t.kids, 1, j)
    BY <1>9 DEF ReadsTo
  <2>5. ReadyFor(k, kid)
    BY <1>4, <2>1, <2>4 DEF ReadyFor
  <2>6. ReadsTo(k, k + Len(e), <<kid>>)
    <3>1. ReadsAs(kid)
      BY <1>4, <2>1
    <3> QED BY <2>2, <2>3, <2>5, <3>1 DEF ReadsAs
  <2>7. (After(i).trees \o SubSeq(t.kids, 1, j)) \o <<kid>> = After(i).trees \o SubSeq(t.kids, 1, j + 1)
    <3>1. SubSeq(t.kids, 1, j + 1) = SubSeq(t.kids, 1, j) \o <<kid>>
      <4>1. 1 \in 1 .. Len(t.kids) /\ j + 1 \in 1 .. Len(t.kids) /\ j + 1 - 1 = j
        BY <1>9 DEF n
      <4> QED BY <1>4, <4>1, SubSeqRecursiveSecond
    <3>2. SubSeq(t.kids, 1, j) \in Seq(Trees)
      <4>1. 1 \in Int /\ j \in Int /\ \A x \in 1 .. j : t.kids[x] \in Trees
        <5>1. \A x \in 1 .. j : x \in 1 .. n
          BY <1>2, <1>9
        <5>2. \A x \in 1 .. n : t.kids[x] \in Trees
          BY <1>3
        <5> QED BY <5>1, <5>2
      <4> QED BY <4>1, SubSeqProperties
    <3>3. <<kid>> \in Seq(Trees)
      BY <2>1, Single
    <3> QED BY <3>1, <3>2, <3>3, TreesAfter, ConcatAssociative
  <2> QED BY <2>2, <2>4, <2>6, <2>7 DEF ReadsTo
<1>10. Got(f, n)
  <2> DEFINE T == {j \in Nat : j <= n => Got(f, j)}
  <2> HIDE DEF Got
  <2>1. 0 \in T /\ T \in SUBSET Nat
    BY <1>8
  <2>2. ASSUME NEW j \in T PROVE j + 1 \in T
    <3>1. j \in Nat /\ (j + 1 <= n => j <= n)
      BY <1>2
    <3> QED BY <1>9, <3>1
  <2>3. T = Nat
    <3> HIDE DEF T
    <3> QED BY <2>1, <2>2, NatInductionOnSets
  <2>4. n \in T
    BY <1>2, <2>3
  <2> QED BY <1>2, <2>4
<1> QED BY <1>2, <1>4, <1>10, SubSeqFull DEF n

\* The kinds of statement have no kind of statement but their own among their words.
LEMMA SpokenKinds ==
  ASSUME NEW kind \in Builders
  PROVE  /\ \A k \in Builders : k \in Spoken(kind) => k = kind
         /\ "ERROR" \in Spoken(kind) => kind = "UPDATE"
         /\ "COLUMNDEF" \in Spoken(kind) => kind = "CREATE"
<1>1. CASE kind = "CREATE"
  BY <1>1 DEF Spoken, Builders
<1>2. CASE kind = "INSERTVALS"
  BY <1>2 DEF Spoken, Builders, ExprVals, Arith
<1>3. CASE kind = "DELETEONE"
  BY <1>3 DEF Spoken, Builders, Predicates, ExprVals, Logic
<1>4. CASE kind = "UPDATE"
  BY <1>4 DEF Spoken, Builders, Predicates, ExprVals, Logic
<1>5. CASE kind = "SELECT"
  BY <1>5 DEF Spoken, Builders, Predicates, ExprVals, Logic, Arith
<1> QED BY <1>1, <1>2, <1>3, <1>4, <1>5 DEF Builders

\* The word at the end of a stretch.
LEMMA AtOne ==
  ASSUME stmt \in Statements, NEW word \in AllWords, NEW i, At(i, <<word>>)
  PROVE  i \in Nat /\ i + 1 \in 1 .. Len(WordsOf[stmt]) /\ WordsOf[stmt][i + 1] = word
<1>1. Len(<<word>>) = 1 /\ <<word>>[1] = word
  OBVIOUS
<1>2. Len(WordsOf[stmt]) \in Nat
  <2>1. WordsOf[stmt] \in Seq(ToSet(WordsOf[stmt]))
    BY WordsAssumption
  <2> QED BY <2>1, LenProperties
<1>3. i \in Nat /\ i + 1 <= Len(WordsOf[stmt])
  BY <1>1 DEF At
<1>4. WordsOf[stmt][i + 1] = <<word>>[1]
  <2>1. 1 \in 1 .. Len(<<word>>)
    BY <1>1
  <2> QED BY <2>1 DEF At
<1> QED BY <1>1, <1>2, <1>3, <1>4

\* What a tree has behind its operands and before its own word.
LEMMA Between ==
  ASSUME stmt \in Statements, Plain, stmt.w \in Builders, NEW t \in Trees, NEW i,
         At(i, EmitWhere(t) \o EmitComplaint(t)), t.w \in Spoken(stmt.w), ReadsOn(After(i))
  PROVE  After(i + Len(EmitWhere(t) \o EmitComplaint(t))) = After(i)
<1> DEFINE where == Word("WHERE", "", 0, 0)
           error == Word("ERROR", "", 0, 0)
<1>1. /\ where \in AllWords /\ error \in AllWords
      /\ where.w = "WHERE" /\ error.w = "ERROR"
  BY DEF AllWords, Word
<1>2. EmitComplaint(t) = <<>> \/ EmitComplaint(t) = <<error>>
  BY DEF EmitComplaint
<1>3. EmitWhere(t) = <<>> \/ (EmitWhere(t) = <<where>> /\ t.w \in {"DELETEONE", "UPDATE"})
  BY DEF EmitWhere
<1> HIDE DEF where, error
<1>4. <<>> \in Seq(AllWords) /\ <<where>> \in Seq(AllWords) /\ <<error>> \in Seq(AllWords)
  BY <1>1, Single, EmptySeq
<1>5. EmitComplaint(t) \in Seq(AllWords) /\ EmitWhere(t) \in Seq(AllWords)
  BY <1>2, <1>3, <1>4
<1>6. /\ At(i, EmitWhere(t)) /\ At(i + Len(EmitWhere(t)), EmitComplaint(t))
  BY <1>5, AtBoth
<1>7. EmitComplaint(t) = <<>>
  <2> SUFFICES ASSUME EmitComplaint(t) = <<error>> PROVE FALSE
    BY <1>2
  <2> DEFINE k == i + Len(EmitWhere(t))
  <2> HIDE DEF k
  <2>1. At(k, <<error>>)
    BY <1>6 DEF k
  <2>2. k + 1 \in 1 .. Len(WordsOf[stmt]) /\ WordsOf[stmt][k + 1] = error
    BY <1>1, <2>1, AtOne
  <2>3. WordsOf[stmt][k + 1].w # "ERROR"
    BY <2>2, WordsPlain
  <2> QED BY <1>1, <2>2, <2>3
<1>8. EmitWhere(t) \o EmitComplaint(t) = EmitWhere(t)
  BY <1>5, <1>7, ConcatEmptySeq
<1>9. i \in Nat
  BY DEF At
<1>10. CASE EmitWhere(t) = <<>>
  <2>1. Len(EmitWhere(t)) = 0 /\ i + 0 = i
    BY <1>9, <1>10, EmptySeq
  <2> QED BY <1>8, <2>1
<1>11. CASE EmitWhere(t) = <<where>> /\ t.w \in {"DELETEONE", "UPDATE"}
  <2>1. stmt.w \in {"DELETEONE", "UPDATE"}
    BY <1>11, SpokenKinds DEF Builders
  <2>2. WordsOf[stmt][i + 1] = where
    BY <1>1, <1>6, <1>11, AtOne
  <2>3. WordsOf[stmt][i + 1].w \in {"STMT", "WHERE"} /\ Skipped(stmt.w, WordsOf[stmt][i + 1])
    BY <1>1, <2>1, <2>2 DEF Skipped
  <2>4. After(i + 1) = After(i)
    BY <1>9, <2>3, SkippedRead
  <2>5. Len(EmitWhere(t)) = 1
    BY <1>11
  <2> QED BY <1>8, <2>4, <2>5
<1> QED BY <1>3, <1>10, <1>11

\* A tree reads as itself, wherever its words are.
LEMMA TreeReads ==
  ASSUME stmt \in Statements, Plain, stmt.w \in Builders
  PROVE  \A t \in Trees : ReadsAs(t)
<1> DEFINE G == {t \in Trees : ReadsAs(t)}
<1>1. ASSUME NEW t \in Trees, \A x \in DOMAIN t.kids : t.kids[x] \in G PROVE t \in G
  <2> SUFFICES ASSUME NEW i \in Nat, At(i, Emit[t]), ReadyFor(i, t)
               PROVE  ReadsTo(i, i + Len(Emit[t]), <<t>>)
    BY DEF ReadsAs
  <2>1. ReadsOn(After(i)) /\ After(i).trees \in Seq(Trees)
    BY TreesAfter DEF ReadyFor
  <2>2. CASE t.w = "COLUMNDEF"
    <3>1. Emit[t] = EmitColumn(t)
      BY <2>2, EmitDef
    <3>2. ReadsOn(After(i + Len(Emit[t]))) /\ After(i + Len(Emit[t])).trees = Append(After(i).trees, t)
      BY <2>1, <2>2, <3>1, ColumnRead
    <3> QED BY <2>1, <3>2, AppendIsConcat DEF ReadsTo
  <2>3. CASE t.w # "COLUMNDEF"
    <3> DEFINE flat == FlattenSeq(Ops(t))
               mid == EmitWhere(t) \o EmitComplaint(t)
               own == <<EmitOwn(t)>>
               k1 == i + Len(flat)
               k2 == k1 + Len(mid)
    <3>1. /\ flat \in Seq(AllWords) /\ EmitWhere(t) \in Seq(AllWords) /\ EmitComplaint(t) \in Seq(AllWords)
          /\ EmitOwn(t) \in AllWords
      <4>1. flat \in Seq(AllWords)
        <5>1. PICK f \in [0 .. Len(Ops(t)) -> Seq(AllWords)] : f[Len(Ops(t))] = FlattenSeq(Ops(t))
          BY OpsTyped, Flattened
        <5>2. Len(Ops(t)) \in 0 .. Len(Ops(t))
          BY OpsTyped, Operand
        <5> QED BY <5>1, <5>2
      <4>2. EmitOwn(t) \in AllWords
        <5>1. Word("WHERE", "", 0, 0) \in AllWords /\ Word("ERROR", "", 0, 0) \in AllWords
          BY DEF AllWords
        <5> QED BY DEF AllWords, EmitOwn
      <4>3. EmitWhere(t) \in Seq(AllWords) /\ EmitComplaint(t) \in Seq(AllWords)
        BY EmptySeq, Single DEF EmitWhere, EmitComplaint, AllWords
      <4> QED BY <4>1, <4>2, <4>3
    <3>2. mid \in Seq(AllWords) /\ own \in Seq(AllWords) /\ Len(own) = 1
      BY <3>1, Appended, Single
    <3>3. Emit[t] = (flat \o mid) \o own
      <4>1. Emit[t] = ((flat \o EmitWhere(t)) \o EmitComplaint(t)) \o own
        BY <2>3, EmitDef DEF Ops
      <4>2. (flat \o EmitWhere(t)) \o EmitComplaint(t) = flat \o mid
        BY <3>1, ConcatAssociative
      <4> QED BY <4>1, <4>2
    <3> HIDE DEF flat, mid, own
    <3>4. flat \o mid \in Seq(AllWords) /\ Len(flat) \in Nat /\ Len(mid) \in Nat
          /\ Len(flat \o mid) = Len(flat) + Len(mid) /\ Len(Emit[t]) = Len(flat \o mid) + 1
      <4>1. flat \in Seq(AllWords)
        BY <3>1 DEF flat
      <4>2. flat \o mid \in Seq(AllWords) /\ Len(flat) \in Nat /\ Len(mid) \in Nat
            /\ Len(flat \o mid) = Len(flat) + Len(mid)
        BY <3>2, <4>1, Appended
      <4>3. Len((flat \o mid) \o own) = Len(flat \o mid) + Len(own)
        BY <3>2, <4>2, Appended
      <4> QED BY ONLY <3>2, <3>3, <4>2, <4>3
    <3>5. At(i, flat \o mid) /\ At(i + Len(flat \o mid), own)
      BY <3>2, <3>3, <3>4, AtBoth
    <3>6. At(i, flat) /\ At(k1, mid)
      BY <3>1, <3>2, <3>5, AtBoth DEF flat
    <3>7. k1 \in Nat /\ k2 \in Nat /\ i + Len(flat \o mid) = k2 /\ i + Len(Emit[t]) = k2 + 1
      BY <3>4
    <3>8. k2 + 1 \in 1 .. Len(WordsOf[stmt]) /\ WordsOf[stmt][k2 + 1] = EmitOwn(t)
      BY <3>1, <3>5, <3>7, AtOne DEF own
    <3> HIDE DEF k1, k2
    <3>9. EmitOwn(t).w = t.w
      BY OwnTakes
    <3>10. t.w \in Spoken(stmt.w)
      BY <3>8, <3>9, WordsPlain
    <3>11. ReadsTo(i, k1, t.kids)
      <4>1. \A x \in DOMAIN t.kids : ReadsAs(t.kids[x])
        BY <1>1
      <4>2. \A x \in DOMAIN t.kids : t.kids[x].w # "DELETEONE" /\ (t.kids[x].w = "WHERE" => stmt.w = "SELECT")
        <5> TAKE x \in DOMAIN t.kids
        <5>1. t.kids[x].w \notin Builders /\ (t.kids[x].w = "WHERE" => t.w = "SELECT")
          BY TreesAssumption
        <5>2. t.w = "SELECT" => stmt.w = "SELECT"
          BY <3>10, SpokenKinds DEF Builders
        <5> QED BY <5>1, <5>2 DEF Builders
      <4> QED BY <2>1, <3>6, <4>1, <4>2, KidsRead DEF flat, k1
    <3>12. After(k2) = After(k1)
      BY <3>6, <3>10, <3>11, Between DEF mid, k2, ReadsTo
    <3>13. ReadsOn(After(k2)) /\ After(k2).trees = After(i).trees \o t.kids
      BY <3>11, <3>12 DEF ReadsTo
    <3>14. ~Skipped(stmt.w, EmitOwn(t))
      <4>1. t.w # "STMT" /\ (t.w = "WHERE" => stmt.w = "SELECT")
        BY TreesAssumption DEF ReadyFor
      <4> QED BY <3>9, <4>1 DEF Skipped
    <3>15. t.w = "DELETEONE" => After(i).trees = <<>>
      BY DEF ReadyFor
    <3>16. ReadsOn(After(k2 + 1)) /\ After(k2 + 1).trees = Append(After(i).trees, t)
      BY <2>1, <2>3, <3>7, <3>8, <3>13, <3>14, <3>15, OwnRead DEF k1, k2
    <3> QED BY <2>1, <3>7, <3>16, AppendIsConcat DEF ReadsTo, k1, k2
  <2> QED BY <2>2, <2>3
<1>2. G = Trees
  <2>1. G \in SUBSET Trees
    OBVIOUS
  <2> HIDE DEF G
  <2> QED BY <1>1, <2>1, TreeInduction
<1> QED BY <1>2

\* The reader reads a statement as the statement.
LEMMA StatementReads ==
  ASSUME stmt \in Statements, Plain, stmt.w \in Builders
  PROVE  LET len == Len(WordsOf[stmt]) IN
           /\ len \in Nat \ {0}
           /\ ReadsOn(After(len - 1)) /\ After(len - 1).trees = <<stmt>>
           /\ \A k \in 0 .. len : After(k).ok
<1> DEFINE e == Emit[stmt]
           word == Word("STMT", "", 0, 0)
           end == <<word>>
           W == AllWords \cup {word}
           n == Len(e)
<1>1. WordsOf[stmt] = e \o end /\ stmt \in Trees
  BY GrammarAssumption DEF Statement
<1>2. e \in Seq(AllWords)
  BY <1>1, EmitDef
<1>3. e \in Seq(W) /\ end \in Seq(W) /\ Len(end) = 1
  <2>1. word \in W /\ AllWords \subseteq W
    OBVIOUS
  <2> HIDE DEF W, e, word
  <2>2. e \in Seq(W)
    BY <1>2, <2>1, SeqMonotonic
  <2> QED BY <2>1, <2>2, Single
<1> HIDE DEF e, end, W
<1>4. n \in Nat /\ Len(WordsOf[stmt]) = n + 1 /\ \A i \in 1 .. n : WordsOf[stmt][i] = e[i]
  <2>1. Len(e \o end) = Len(e) + Len(end) /\ Len(e) \in Nat /\ \A i \in 1 .. Len(e) : (e \o end)[i] = e[i]
    BY <1>3, Appended
  <2> QED BY <1>1, <1>3, <2>1
<1>5. At(0, e)
  BY <1>4 DEF At
<1>6. After(0) = Start
  BY AfterDef
<1>7. ReadyFor(0, stmt)
  <2>1. stmt.w # "WHERE"
    BY DEF Builders
  <2> QED BY <1>6, <2>1 DEF ReadyFor, ReadsOn, Start
<1>8. ReadsTo(0, 0 + n, <<stmt>>)
  BY <1>1, <1>5, <1>7, TreeReads DEF ReadsAs, e
<1>9. ReadsOn(After(n)) /\ After(n).trees = <<stmt>>
  <2>1. 0 + n = n
    BY <1>4
  <2>2. After(0).trees = <<>>
    BY <1>6 DEF Start
  <2>3. <<stmt>> \in Seq(Trees)
    BY <1>1, Single
  <2>4. <<>> \o <<stmt>> = <<stmt>>
    BY <2>3, ConcatEmptySeq
  <2> QED BY <1>8, <2>1, <2>2, <2>4 DEF ReadsTo
<1>10. After(n + 1).ok
  <2>1. n + 1 \in 1 .. Len(WordsOf[stmt]) /\ n + 1 = Len(WordsOf[stmt])
    BY <1>4
  <2>2. WordsOf[stmt][n + 1].w = "STMT"
    BY <2>1, WordsPlain
  <2>3. After(n + 1) = After(n)
    BY <1>4, <1>9, <2>2, SkippedRead DEF Skipped
  <2> QED BY <1>9, <2>3 DEF ReadsOn
<1>11. \A k \in 0 .. n + 1 : After(k).ok
  <2>1. n + 1 \in Nat
    BY <1>4
  <2> QED BY <1>10, <2>1, WellBefore
<1> HIDE DEF n
<1>12. Len(WordsOf[stmt]) \in Nat \ {0} /\ Len(WordsOf[stmt]) - 1 = n
  BY <1>4
<1> QED BY <1>4, <1>9, <1>11, <1>12

-----------------------------------------------------------------------------
(* The builders' rules take what the grammar gives.                        *)

\* A rule that pops n nodes and keeps them as they were written.
Plainly(rule, n) == rule # Unsupported /\ rule.pops = n /\ rule.order # "swapped" /\ ~rule.marker

LEMMA Shapes ==
  /\ \A n : Plainly(Parsed(n), n) /\ Plainly(Discarded(n), n)
  /\ \A word : Plainly(ExprVal(word), 0)
BY DEF Plainly, Parsed, Discarded, ExprVal, Rule, Unsupported

\* The words that have a fixed number of operands, and what the others count.
Nullary == ExprVals \cup {"NAME", "COLUMN", "COUNTALL", "FIELDNAME", "SELECTALL", "TABLE"}
Unary == {"NEG", "ISNULL", "ISNOTNULL", "COUNTFIELD", "ALIAS", "ONEXPR", "WHERE", "HAVING", "ORDERBYITEM", "ASSIGN"}
Binary == Arith \cup Logic \cup {"CMP", "LIKE", "NOTLIKE"}
Lists == {"CREATE", "PRIKEY", "KEY", "INSERTCOLS", "VALUES", "GROUPBYLIST", "ORDERBYLIST", "LIMIT", "SELECT"}

LEMMA TakenIs ==
  ASSUME NEW word, word.n \in Nat, word.opt \in Nat, Taken(word) \in Operands(word.w)
  PROVE  /\ word.w \in Nullary => Taken(word) = 0
         /\ word.w \in Unary => Taken(word) = 1
         /\ word.w \in Binary => Taken(word) = 2
         /\ word.w = "JOIN" => Taken(word) = 3
         /\ word.w = "DELETEONE" => Taken(word) \in {0, 1}
         /\ word.w \in {"ISIN", "ISNOTIN"} => Taken(word) = word.n + 1
         /\ word.w \in {"UPDATE", "INSERTVALS"} => Taken(word) = word.n + word.opt
         /\ word.w \in Lists => Taken(word) = word.n
<1>1. word.w \in Nullary => Operands(word.w) = {0}
  BY DEF Nullary, Operands, ExprVals, Arith, Logic
<1>2. word.w \in Unary => Operands(word.w) = {1}
  BY DEF Unary, Operands, Arith, Logic
<1>3. word.w \in Binary => Operands(word.w) = {2}
  BY DEF Binary, Operands, Arith, Logic
<1>4. word.w = "JOIN" => Operands(word.w) = {3}
  BY DEF Operands, Arith, Logic
<1>5. word.w = "DELETEONE" => Operands(word.w) = {0, 1}
  BY DEF Operands, Arith, Logic
<1>6. word.w \in {"ISIN", "ISNOTIN"} => Taken(word) = word.n + 1
  BY DEF Taken, Uncounted
<1>7. word.w \in {"UPDATE", "INSERTVALS"} => Taken(word) = word.n + word.opt
  BY DEF Taken, Uncounted
<1>8. word.w \in Lists => Taken(word) = word.n
  BY DEF Taken, Uncounted, Lists
<1> QED BY <1>1, <1>2, <1>3, <1>4, <1>5, <1>6, <1>7, <1>8

\* A rule that does with a word what its operands ask for.
Suits(rule, word) ==
  /\ rule # Unsupported
  /\ rule.pops = Taken(word)
  /\ rule.order = "swapped" <=> word.w \in Arith
  /\ rule.marker <=> word.w = "NEG"

LEMMA CreateSuits ==
  ASSUME NEW word, word.n \in Nat, word.opt \in Nat, Taken(word) \in Operands(word.w),
         word.w \in Spoken("CREATE") \ {"STMT", "STARTCOL", "ATTR", "COLUMNDEF"}
  PROVE  Suits(CreateRule(word), word)
<1>1. word.w \in {"COLUMN", "CREATE", "PRIKEY", "KEY"}
  BY DEF Spoken
<1>2. word.w \notin Arith /\ word.w # "NEG"
  BY <1>1 DEF Arith
<1>3. CASE word.w = "COLUMN"
  <2>1. CreateRule(word) = Parsed(0)
    BY <1>3 DEF CreateRule, CrtIndexcol
  <2>2. Taken(word) = 0
    BY <1>3, TakenIs DEF Nullary
  <2> QED BY <1>2, <2>1, <2>2, Shapes DEF Suits, Plainly
<1>4. CASE word.w \in {"CREATE", "PRIKEY", "KEY"}
  <2>1. CreateRule(word) = Parsed(word.n)
    BY <1>4 DEF CreateRule, CrtCreate, CrtPrimary, CrtIndex
  <2>2. Taken(word) = word.n
    BY <1>4, TakenIs DEF Lists
  <2> QED BY <1>2, <2>1, <2>2, Shapes DEF Suits, Plainly
<1> QED BY <1>1, <1>3, <1>4

LEMMA InsertSuits ==
  ASSUME NEW word, word.n \in Nat, word.opt \in Nat, Taken(word) \in Operands(word.w),
         word.w \in Spoken("INSERTVALS") \ {"STMT"}
  PROVE  Suits(InsertRule(word), word)
<1>1. word.w \in ExprVals \cup Arith \cup {"NEG", "COLUMN", "INSERTCOLS", "VALUES", "INSERTVALS"}
  BY DEF Spoken
<1>2. CASE word.w \in ExprVals
  <2>1. InsertRule(word) = ExprVal(word)
    BY <1>2 DEF InsertRule, InsExprVal, ExprVals, Arith
  <2>2. Taken(word) = 0 /\ word.w \notin Arith /\ word.w # "NEG"
    BY <1>2, TakenIs DEF Nullary, ExprVals, Arith
  <2> QED BY <2>1, <2>2, Shapes DEF Suits, Plainly
<1>3. CASE word.w \in Arith
  <2>1. InsertRule(word) = Rule("first", FALSE, 2, "swapped")
    BY <1>3 DEF InsertRule, InsExprOp, ExprVals, Arith
  <2>2. Taken(word) = 2 /\ word.w # "NEG"
    BY <1>3, TakenIs DEF Binary, Arith
  <2> QED BY <1>3, <2>1, <2>2 DEF Suits, Rule, Unsupported
<1>4. CASE word.w = "NEG"
  <2>1. InsertRule(word) = [Rule("first", FALSE, 1, "written") EXCEPT !.marker = TRUE]
    BY <1>4 DEF InsertRule, InsNegation, ExprVals, Arith
  <2>2. Taken(word) = 1 /\ word.w \notin Arith
    BY <1>4, TakenIs DEF Unary, Arith
  <2> QED BY <1>4, <2>1, <2>2 DEF Suits, Rule, Unsupported
<1>5. CASE word.w = "COLUMN"
  <2>1. InsertRule(word) = Parsed(0)
    BY <1>5 DEF InsertRule, InsColumn, ExprVals, Arith
  <2>2. Taken(word) = 0 /\ word.w \notin Arith /\ word.w # "NEG"
    BY <1>5, TakenIs DEF Nullary, Arith
  <2> QED BY <2>1, <2>2, Shapes DEF Suits, Plainly
<1>6. CASE word.w \in {"INSERTCOLS", "VALUES"}
  <2>1. InsertRule(word) = Parsed(word.n)
    BY <1>6 DEF InsertRule, InsInscols, InsValues, ExprVals, Arith
  <2>2. Taken(word) = word.n /\ word.w \notin Arith /\ word.w # "NEG"
    BY <1>6, TakenIs DEF Lists, Arith
  <2> QED BY <2>1, <2>2, Shapes DEF Suits, Plainly
<1>7. CASE word.w = "INSERTVALS"
  <2>1. InsertRule(word) = Parsed(word.n + word.opt)
    BY <1>7 DEF InsertRule, InsInsvals, ExprVals, Arith
  <2>2. Taken(word) = word.n + word.opt /\ word.w \notin Arith /\ word.w # "NEG"
    BY <1>7, TakenIs DEF Arith
  <2> QED BY <2>1, <2>2, Shapes DEF Suits, Plainly
<1> QED BY <1>1, <1>2, <1>3, <1>4, <1>5, <1>6, <1>7

\* What the conditions of DELETE, UPDATE and SELECT are made of.
LEMMA PredicateSuits ==
  ASSUME NEW word, word.n \in Nat, word.opt \in Nat, Taken(word) \in Operands(word.w), word.w \in Predicates, NEW depth
  PROVE  Suits(DeleteRule(word, depth), word) /\ Suits(UpdateRule(word), word) /\ Suits(SelectRule(word), word)
<1>1. word.w \in ExprVals \cup Logic \cup {"NAME", "CMP", "ISNULL", "ISNOTNULL", "ISIN", "ISNOTIN"}
  BY DEF Predicates
<1>2. word.w \notin Arith /\ word.w # "NEG"
  BY <1>1 DEF Arith, ExprVals, Logic
<1>3. CASE word.w \in ExprVals \cup {"NAME"}
  <2>1. DeleteRule(word, depth) = ExprVal(word) /\ UpdateRule(word) = ExprVal(word) /\ SelectRule(word) = ExprVal(word)
    <3>1. DeleteRule(word, depth) = ExprVal(word)
      BY <1>3 DEF DeleteRule, DelExprVal, ExprVals, Arith, Logic
    <3>2. UpdateRule(word) = ExprVal(word)
      BY <1>3 DEF UpdateRule, UpdExprVal, ExprVals, Arith, Logic
    <3>3. SelectRule(word) = ExprVal(word)
      BY <1>3 DEF SelectRule, SelExprVal, ExprVals, Arith, Logic
    <3> QED BY <3>1, <3>2, <3>3
  <2>2. Taken(word) = 0
    BY <1>3, TakenIs DEF Nullary
  <2> QED BY <1>2, <2>1, <2>2, Shapes DEF Suits, Plainly
<1>4. CASE word.w = "CMP"
  <2>1. DeleteRule(word, depth) = Parsed(2) /\ UpdateRule(word) = Parsed(2) /\ SelectRule(word) = Parsed(2)
    <3>1. DeleteRule(word, depth) = Parsed(2)
      BY <1>4 DEF DeleteRule, DelCmp, ExprVals, Arith, Logic
    <3>2. UpdateRule(word) = Parsed(2)
      BY <1>4 DEF UpdateRule, UpdCmp, ExprVals, Arith, Logic
    <3>3. SelectRule(word) = Parsed(2)
      BY <1>4 DEF SelectRule, SelCmp, ExprVals, Arith, Logic
    <3> QED BY <3>1, <3>2, <3>3
  <2>2. Taken(word) = 2
    BY <1>4, TakenIs DEF Binary
  <2> QED BY <1>2, <2>1, <2>2, Shapes DEF Suits, Plainly
<1>5. CASE word.w \in Logic
  <2>1. DeleteRule(word, depth) = Discarded(2) /\ UpdateRule(word) = Discarded(2) /\ SelectRule(word) = Discarded(2)
    <3>1. DeleteRule(word, depth) = Discarded(2)
      BY <1>5 DEF DeleteRule, DelLogop, ExprVals, Arith, Logic
    <3>2. UpdateRule(word) = Discarded(2)
      BY <1>5 DEF UpdateRule, UpdLogop, ExprVals, Arith, Logic
    <3>3. SelectRule(word) = Discarded(2)
      BY <1>5 DEF SelectRule, SelLogop, ExprVals, Arith, Logic
    <3> QED BY <3>1, <3>2, <3>3
  <2>2. Taken(word) = 2
    BY <1>5, TakenIs DEF Binary
  <2> QED BY <1>2, <2>1, <2>2, Shapes DEF Suits, Plainly
<1>6. CASE word.w \in {"ISNULL", "ISNOTNULL"}
  <2>1. DeleteRule(word, depth) = Discarded(1) /\ UpdateRule(word) = Discarded(1) /\ SelectRule(word) = Discarded(1)
    <3>1. DeleteRule(word, depth) = Discarded(1)
      BY <1>6 DEF DeleteRule, DelIsxnull, ExprVals, Arith, Logic
    <3>2. UpdateRule(word) = Discarded(1)
      BY <1>6 DEF UpdateRule, UpdIsxnull, ExprVals, Arith, Logic
    <3>3. SelectRule(word) = Discarded(1)
      BY <1>6 DEF SelectRule, SelIsxnull, ExprVals, Arith, Logic
    <3> QED BY <3>1, <3>2, <3>3
  <2>2. Taken(word) = 1
    BY <1>6, TakenIs DEF Unary
  <2> QED BY <1>2, <2>1, <2>2, Shapes DEF Suits, Plainly
<1>7. CASE word.w \in {"ISIN", "ISNOTIN"}
  <2>1. DeleteRule(word, depth) = Parsed(word.n + 1) /\ UpdateRule(word) = Parsed(word.n + 1) /\ SelectRule(word) = Parsed(word.n + 1)
    <3>1. DeleteRule(word, depth) = Parsed(word.n + 1)
      BY <1>7 DEF DeleteRule, DelIsxin, ExprVals, Arith, Logic
    <3>2. UpdateRule(word) = Parsed(word.n + 1)
      BY <1>7 DEF UpdateRule, UpdIsxin, ExprVals, Arith, Logic
    <3>3. SelectRule(word) = Parsed(word.n + 1)
      BY <1>7 DEF SelectRule, SelIsxin, ExprVals, Arith, Logic
    <3> QED BY <3>1, <3>2, <3>3
  <2>2. Taken(word) = word.n + 1
    BY <1>7, TakenIs
  <2> QED BY <1>2, <2>1, <2>2, Shapes DEF Suits, Plainly
<1> QED BY <1>1, <1>3, <1>4, <1>5, <1>6, <1>7

LEMMA DeleteSuits ==
  ASSUME NEW word, word.n \in Nat, word.opt \in Nat, Taken(word) \in Operands(word.w), NEW depth,
         word.w \in Spoken("DELETEONE") \ {"STMT", "WHERE"},
         word.w = "DELETEONE" => depth = Taken(word)
  PROVE  Suits(DeleteRule(word, depth), word)
<1>1. word.w \in Predicates \cup {"DELETEONE"}
  BY DEF Spoken
<1>2. CASE word.w = "DELETEONE"
  <2>1. DeleteRule(word, depth) = Parsed(IF depth > 0 THEN 1 ELSE 0)
    BY <1>2 DEF DeleteRule, DelDeleteone, ExprVals, Logic
  <2>2. Taken(word) \in {0, 1} /\ depth = Taken(word) /\ word.w \notin Arith /\ word.w # "NEG"
    BY <1>2, TakenIs DEF Arith
  <2>3. (IF depth > 0 THEN 1 ELSE 0) = Taken(word)
    BY <2>2
  <2> QED BY <2>1, <2>2, <2>3, Shapes DEF Suits, Plainly
<1> QED BY <1>1, <1>2, PredicateSuits

LEMMA UpdateSuits ==
  ASSUME NEW word, word.n \in Nat, word.opt \in Nat, Taken(word) \in Operands(word.w),
         word.w \in Spoken("UPDATE") \ {"STMT", "WHERE", "ERROR"}
  PROVE  Suits(UpdateRule(word), word)
<1>1. word.w \in Predicates \cup {"ASSIGN", "UPDATE"}
  BY DEF Spoken
<1>2. CASE word.w = "ASSIGN"
  <2>1. UpdateRule(word) = Parsed(1)
    BY <1>2 DEF UpdateRule, UpdAssign, ExprVals, Logic
  <2>2. Taken(word) = 1 /\ word.w \notin Arith /\ word.w # "NEG"
    BY <1>2, TakenIs DEF Arith, Unary
  <2> QED BY <2>1, <2>2, Shapes DEF Suits, Plainly
<1>3. CASE word.w = "UPDATE"
  <2>1. UpdateRule(word) = Parsed(word.opt + word.n)
    BY <1>3 DEF UpdateRule, UpdUpdate, ExprVals, Logic
  <2>2. Taken(word) = word.opt + word.n /\ word.w \notin Arith /\ word.w # "NEG"
    BY <1>3, TakenIs DEF Arith
  <2> QED BY <2>1, <2>2, Shapes DEF Suits, Plainly
<1> QED BY <1>1, <1>2, <1>3, PredicateSuits

LEMMA SelectSuits ==
  ASSUME NEW word, word.n \in Nat, word.opt \in Nat, Taken(word) \in Operands(word.w),
         word.w \in Spoken("SELECT") \ {"STMT", "CASE", "NOW"}
  PROVE  Suits(SelectRule(word), word)
<1>1. word.w \in Predicates \cup Arith
        \cup {"NEG", "FIELDNAME", "COUNTALL", "COUNTFIELD", "LIKE", "NOTLIKE", "ALIAS", "SELECTALL", "TABLE",
              "ONEXPR", "JOIN", "WHERE", "GROUPBYLIST", "HAVING", "ORDERBYITEM", "ORDERBYLIST", "LIMIT", "SELECT"}
  BY DEF Spoken
<1>2. CASE word.w \in Arith
  <2>1. SelectRule(word) = Rule("first", FALSE, 2, "swapped")
    BY <1>2 DEF SelectRule, SelExprOp, ExprVals, Arith, Logic, Rule
  <2>2. Taken(word) = 2 /\ word.w # "NEG"
    BY <1>2, TakenIs DEF Binary, Arith
  <2> QED BY <1>2, <2>1, <2>2 DEF Suits, Rule, Unsupported
<1>3. CASE word.w = "NEG"
  <2>1. SelectRule(word) = [Rule("first", FALSE, 1, "written") EXCEPT !.marker = TRUE]
    BY <1>3 DEF SelectRule, SelNegation, ExprVals, Arith, Logic, Rule
  <2>2. Taken(word) = 1 /\ word.w \notin Arith
    BY <1>3, TakenIs DEF Unary, Arith
  <2> QED BY <1>3, <2>1, <2>2 DEF Suits, Rule, Unsupported
<1>4. CASE word.w \in {"FIELDNAME", "TABLE"}
  <2>1. SelectRule(word) = Parsed(0)
    BY <1>4 DEF SelectRule, SelFieldname, SelTable, ExprVals, Arith, Logic
  <2>2. Taken(word) = 0 /\ word.w \notin Arith /\ word.w # "NEG"
    BY <1>4, TakenIs DEF Nullary, Arith
  <2> QED BY <2>1, <2>2, Shapes DEF Suits, Plainly
<1>5. CASE word.w \in {"COUNTALL", "SELECTALL"}
  <2>1. SelectRule(word) = Discarded(0)
    BY <1>5 DEF SelectRule, SelCount, SelSelectall, ExprVals, Arith, Logic
  <2>2. Taken(word) = 0 /\ word.w \notin Arith /\ word.w # "NEG"
    BY <1>5, TakenIs DEF Nullary, Arith
  <2> QED BY <2>1, <2>2, Shapes DEF Suits, Plainly
<1>6. CASE word.w \in {"COUNTFIELD", "ONEXPR", "WHERE", "HAVING"}
  <2>1. SelectRule(word) = Discarded(1)
    BY <1>6 DEF SelectRule, SelCount, SelOnexpr, SelWhere, SelHaving, ExprVals, Arith, Logic
  <2>2. Taken(word) = 1 /\ word.w \notin Arith /\ word.w # "NEG"
    BY <1>6, TakenIs DEF Unary, Arith
  <2> QED BY <2>1, <2>2, Shapes DEF Suits, Plainly
<1>7. CASE word.w \in {"LIKE", "NOTLIKE"}
  <2>1. SelectRule(word) = Discarded(2)
    BY <1>7 DEF SelectRule, SelLike, ExprVals, Arith, Logic
  <2>2. Taken(word) = 2 /\ word.w \notin Arith /\ word.w # "NEG"
    BY <1>7, TakenIs DEF Binary, Arith
  <2> QED BY <2>1, <2>2, Shapes DEF Suits, Plainly
<1>8. CASE word.w \in {"ALIAS", "ORDERBYITEM"}
  <2>1. SelectRule(word) = Parsed(1)
    BY <1>8 DEF SelectRule, SelAlias, SelOrderbyitem, ExprVals, Arith, Logic
  <2>2. Taken(word) = 1 /\ word.w \notin Arith /\ word.w # "NEG"
    BY <1>8, TakenIs DEF Unary, Arith
  <2> QED BY <2>1, <2>2, Shapes DEF Suits, Plainly
<1>9. CASE word.w = "JOIN"
  <2>1. SelectRule(word) = Parsed(3)
    BY <1>9 DEF SelectRule, SelJoin, ExprVals, Arith, Logic
  <2>2. Taken(word) = 3 /\ word.w \notin Arith /\ word.w # "NEG"
    BY <1>9, TakenIs DEF Arith
  <2> QED BY <2>1, <2>2, Shapes DEF Suits, Plainly
<1>10. CASE word.w \in {"GROUPBYLIST", "ORDERBYLIST", "LIMIT", "SELECT"}
  <2>1. SelectRule(word) = Parsed(word.n)
    BY <1>10 DEF SelectRule, SelGroupby, SelOrderbylist, SelLimit, SelSelect, ExprVals, Arith, Logic
  <2>2. Taken(word) = word.n /\ word.w \notin Arith /\ word.w # "NEG"
    BY <1>10, TakenIs DEF Lists, Arith
  <2> QED BY <2>1, <2>2, Shapes DEF Suits, Plainly
<1> QED BY <1>1, <1>2, <1>3, <1>4, <1>5, <1>6, <1>7, <1>8, <1>9, <1>10, PredicateSuits

-----------------------------------------------------------------------------
(* The stack of the builder holds copies of the trees that were read.      *)

Copied(m, st, ts) ==
  /\ st \in Seq(DOMAIN m) /\ ts \in Seq(Trees)
  /\ Len(st) = Len(ts)
  /\ \A j \in 1 .. Len(ts) : st[j] \in Copies(m)[ts[j]]

\* Memory m2 is m with more nodes.
Grows(m, m2) ==
  /\ \A i \in DOMAIN m : i \in DOMAIN m2 /\ m2[i] = m[i]
  /\ \A i \in DOMAIN m : m[i].kids \in Seq(DOMAIN m)

LEMMA CopiedKept ==
  ASSUME NEW m, NEW m2, NEW st, NEW ts, Copied(m, st, ts), Grows(m, m2)
  PROVE  Copied(m2, st, ts)
<1>1. \A t \in Trees : Copies(m)[t] \subseteq Copies(m2)[t]
  BY CopiesKept DEF Grows
<1>2. st \in Seq(DOMAIN m) /\ ts \in Seq(Trees) /\ Len(st) = Len(ts)
      /\ \A j \in 1 .. Len(ts) : st[j] \in Copies(m)[ts[j]]
  BY DEF Copied
<1>3. DOMAIN m \subseteq DOMAIN m2
  BY DEF Grows
<1>4. st \in Seq(DOMAIN m2)
  BY <1>2, <1>3, SeqMonotonic
<1>5. \A j \in 1 .. Len(ts) : ts[j] \in Trees
  BY <1>2, ElementOfSeq
<1>6. \A j \in 1 .. Len(ts) : st[j] \in Copies(m2)[ts[j]]
  BY <1>1, <1>2, <1>5
<1> QED BY <1>2, <1>4, <1>6 DEF Copied

LEMMA CopiedCut ==
  ASSUME NEW m, NEW st, NEW ts, Copied(m, st, ts), NEW n \in 0 .. Len(ts)
  PROVE  /\ Copied(m, SubSeq(st, 1, n), SubSeq(ts, 1, n))
         /\ Len(SubSeq(ts, 1, n)) = n
<1>1. st \in Seq(DOMAIN m) /\ ts \in Seq(Trees) /\ Len(st) = Len(ts)
      /\ \A j \in 1 .. Len(ts) : st[j] \in Copies(m)[ts[j]]
  BY DEF Copied
<1>2. Len(ts) \in Nat /\ n \in Nat /\ \A j \in 1 .. n : j \in 1 .. Len(ts)
  BY <1>1, LenProperties
<1>3. (\A j \in 1 .. n : st[j] \in DOMAIN m) /\ (\A j \in 1 .. n : ts[j] \in Trees)
  BY <1>1, <1>2, ElementOfSeq
<1> DEFINE u == SubSeq(st, 1, n)
           v == SubSeq(ts, 1, n)
<1>4. u \in Seq(DOMAIN m) /\ Len(u) = n /\ \A j \in 1 .. n : u[j] = st[j]
  <2>1. /\ SubSeq(st, 1, n) \in Seq(DOMAIN m)
        /\ Len(SubSeq(st, 1, n)) = IF 1 <= n THEN n - 1 + 1 ELSE 0
        /\ \A i \in 1 .. n - 1 + 1 : SubSeq(st, 1, n)[i] = st[1 + i - 1]
    BY <1>2, <1>3, SubSeqProperties
  <2> HIDE DEF u
  <2>2. u \in Seq(DOMAIN m) /\ Len(u) = (IF 1 <= n THEN n - 1 + 1 ELSE 0) /\ \A i \in 1 .. n - 1 + 1 : u[i] = st[1 + i - 1]
    BY <2>1 DEF u
  <2> QED BY ONLY <1>2, <2>2
<1>5. v \in Seq(Trees) /\ Len(v) = n /\ \A j \in 1 .. n : v[j] = ts[j]
  <2>1. /\ SubSeq(ts, 1, n) \in Seq(Trees)
        /\ Len(SubSeq(ts, 1, n)) = IF 1 <= n THEN n - 1 + 1 ELSE 0
        /\ \A i \in 1 .. n - 1 + 1 : SubSeq(ts, 1, n)[i] = ts[1 + i - 1]
    BY <1>2, <1>3, SubSeqProperties
  <2> HIDE DEF v
  <2>2. v \in Seq(Trees) /\ Len(v) = (IF 1 <= n THEN n - 1 + 1 ELSE 0) /\ \A i \in 1 .. n - 1 + 1 : v[i] = ts[1 + i - 1]
    BY <2>1 DEF v
  <2> QED BY ONLY <1>2, <2>2
<1> HIDE DEF u, v
<1>6. Copied(m, u, v)
  <2>1. \A j \in 1 .. n : u[j] \in Copies(m)[v[j]]
    BY <1>1, <1>2, <1>4, <1>5
  <2> QED BY <1>4, <1>5, <2>1 DEF Copied
<1> QED BY <1>5, <1>6 DEF u, v

LEMMA CopiedPushed ==
  ASSUME NEW m, NEW st, NEW ts, Copied(m, st, ts), NEW t \in Trees, NEW n \in Copies(m)[t]
  PROVE  Copied(m, Append(st, n), Append(ts, t))
<1>1. st \in Seq(DOMAIN m) /\ ts \in Seq(Trees) /\ Len(st) = Len(ts)
      /\ \A j \in 1 .. Len(ts) : st[j] \in Copies(m)[ts[j]]
  BY DEF Copied
<1>2. n \in DOMAIN m
  BY CopiesDef DEF CopiesFrom
<1> DEFINE u == Append(st, n)
           v == Append(ts, t)
<1>3. u \in Seq(DOMAIN m) /\ Len(u) = Len(st) + 1 /\ (\A i \in 1 .. Len(st) : u[i] = st[i]) /\ u[Len(st) + 1] = n
  BY <1>1, <1>2, AppendProperties
<1>4. v \in Seq(Trees) /\ Len(v) = Len(ts) + 1 /\ (\A i \in 1 .. Len(ts) : v[i] = ts[i]) /\ v[Len(ts) + 1] = t
  BY <1>1, AppendProperties
<1>5. Len(ts) \in Nat
  BY <1>1, LenProperties
<1> HIDE DEF u, v
<1>6. \A j \in 1 .. Len(v) : u[j] \in Copies(m)[v[j]]
  <2> TAKE j \in 1 .. Len(v)
  <2>1. CASE j = Len(ts) + 1
    BY <1>1, <1>3, <1>4, <2>1
  <2>2. CASE j # Len(ts) + 1
    <3>1. j \in 1 .. Len(ts)
      BY <1>4, <1>5, <2>2
    <3> QED BY <1>1, <1>3, <1>4, <3>1
  <2> QED BY <2>1, <2>2
<1>7. Copied(m, u, v)
  BY <1>1, <1>3, <1>4, <1>6 DEF Copied
<1> QED BY <1>7 DEF u, v

\* Where the children of a node come from on the stack.
LEMMA KidsPlaced ==
  ASSUME NEW rule, rule.pops \in 0 .. Len(stack), rule.marker \in BOOLEAN, NEW S, stack \in Seq(S), NEW marker
  PROVE  LET rest == Len(stack) - rule.pops
             ks == Kids(rule, marker)
         IN  /\ ~rule.marker =>
                  /\ Len(ks) = rule.pops
                  /\ \A j \in 1 .. rule.pops :
                       ks[j] = stack[IF rule.order = "swapped" THEN Len(stack) + 1 - j ELSE rest + j]
             /\ rule.marker /\ rule.pops = 1 => Len(ks) = 2 /\ ks[1] = marker /\ ks[2] = stack[Len(stack)]
<1> DEFINE len == Len(stack)
           n == rule.pops
           at(x) == IF rule.order = "swapped" THEN len + 1 - x ELSE len - n + x
           W == {stack[j] : j \in DOMAIN stack}
           ops == [x \in 1 .. n |-> stack[at(x)]]
<1>1. len \in Nat /\ n \in Nat /\ n <= len /\ DOMAIN stack = 1 .. len
  BY LenProperties
<1>2. Popped(n) \in Seq(W) /\ Len(Popped(n)) = n
  <2>1. \A i \in 1 .. n : len + 1 - i \in 1 .. len
    BY <1>1
  <2>2. \A i \in 1 .. n : stack[len + 1 - i] \in W
    BY <1>1, <2>1
  <2>3. Popped(n) = [i \in 1 .. n |-> stack[len + 1 - i]]
    BY DEF Popped
  <2> QED BY <1>1, <2>2, <2>3
<1>3. (IF rule.order = "swapped" THEN Popped(n) ELSE Reverse(Popped(n))) = ops
  <2>1. CASE rule.order = "swapped"
    BY <2>1 DEF Popped
  <2>2. CASE rule.order # "swapped"
    <3>1. \A i \in 1 .. n : (n - i) + 1 \in 1 .. n /\ len + 1 - ((n - i) + 1) = len - n + i
      BY <1>1
    <3>2. \A i \in 1 .. n : Popped(n)[(n - i) + 1] = stack[len - n + i]
      BY <3>1 DEF Popped
    <3>3. Reverse(Popped(n)) = [i \in 1 .. n |-> Popped(n)[(n - i) + 1]]
      BY <1>2 DEF Reverse
    <3> HIDE DEF n
    <3>4. Reverse(Popped(n)) = [i \in 1 .. n |-> stack[len - n + i]]
      BY <3>2, <3>3
    <3> QED BY <2>2, <3>4
  <2> QED BY <2>1, <2>2
<1>4. ops \in Seq(W) /\ Len(ops) = n
  <2>1. \A x \in 1 .. n : at(x) \in 1 .. len
    BY <1>1
  <2>2. \A x \in 1 .. n : stack[at(x)] \in W
    BY <1>1, <2>1
  <2> HIDE DEF at, W, n
  <2> QED BY <1>1, <2>2
<1>5. \A x \in 1 .. n : ops[x] = stack[at(x)]
  OBVIOUS
<1> HIDE DEF ops, W
<1>6. ~rule.marker => Kids(rule, marker) = ops
  BY <1>3, <1>4, ConcatEmptySeq DEF Kids
<1>7. rule.marker => Kids(rule, marker) = <<marker>> \o ops
  BY <1>3 DEF Kids
<1>8. rule.marker /\ n = 1 => Len(Kids(rule, marker)) = 2 /\ Kids(rule, marker)[1] = marker /\ Kids(rule, marker)[2] = ops[1]
  <2> DEFINE first == <<marker>>
             V == W \cup {marker}
  <2>1. first \in Seq(V) /\ Len(first) = 1 /\ first[1] = marker
    BY Single
  <2>2. ops \in Seq(V)
    <3>1. W \subseteq V
      OBVIOUS
    <3> QED BY <1>4, <3>1, SeqMonotonic
  <2> HIDE DEF first, V
  <2>3. /\ Len(first \o ops) = Len(first) + Len(ops)
        /\ \A i \in 1 .. Len(first) : (first \o ops)[i] = first[i]
        /\ \A i \in 1 .. Len(ops) : (first \o ops)[Len(first) + i] = ops[i]
    <3>1. first \in Seq(V) /\ ops \in Seq(V)
      BY <2>1, <2>2
    <3> QED BY ONLY <3>1, Appended
  <2>4. n = 1 => Len(first \o ops) = 2 /\ (first \o ops)[1] = marker /\ (first \o ops)[2] = ops[1]
    <3> HAVE n = 1
    <3>1. 1 \in 1 .. 1 /\ 1 + 1 = 2
      OBVIOUS
    <3> QED BY <1>4, <2>1, <2>3, <3>1
  <2> QED BY <1>7, <2>4 DEF first
<1>9. n = 1 => stack[at(1)] = stack[len]
  BY <1>1
<1> QED BY <1>4, <1>5, <1>6, <1>8, <1>9

-----------------------------------------------------------------------------
(* What is left of the words.                                              *)

Left(s, k) == SubSeq(s, k + 1, Len(s))

LEMMA LeftShape ==
  ASSUME NEW W, NEW s \in Seq(W), NEW k \in 0 .. Len(s)
  PROVE  /\ Left(s, k) \in Seq(W)
         /\ Len(Left(s, k)) = Len(s) - k
         /\ \A i \in 1 .. Len(s) - k : Left(s, k)[i] = s[k + i]
<1> DEFINE len == Len(s)
           p == k + 1
<1>1. len \in Nat /\ k \in Nat /\ k <= len /\ p \in Int /\ len \in Int
  BY LenProperties
<1>2. \A i \in p .. len : s[i] \in W
  <2>1. \A i \in p .. len : i \in 1 .. Len(s)
    BY <1>1
  <2> QED BY <2>1, ElementOfSeq
<1>3. p = k + 1
  OBVIOUS
<1> HIDE DEF len, p
<1>4. /\ SubSeq(s, p, len) \in Seq(W)
      /\ Len(SubSeq(s, p, len)) = IF p <= len THEN len - p + 1 ELSE 0
      /\ \A i \in 1 .. len - p + 1 : SubSeq(s, p, len)[i] = s[p + i - 1]
  BY <1>1, <1>2, SubSeqProperties
<1> DEFINE q == SubSeq(s, p, len)
<1> HIDE DEF q
<1>5. q \in Seq(W) /\ Len(q) = (IF p <= len THEN len - p + 1 ELSE 0) /\ \A i \in 1 .. len - p + 1 : q[i] = s[p + i - 1]
  BY <1>4 DEF q
<1>6. Len(q) = len - k /\ \A i \in 1 .. len - k : q[i] = s[k + i]
  <2>1. len - p + 1 = len - k /\ (~(p <= len) => len - k = 0)
    BY <1>1, <1>3
  <2>2. \A i \in 1 .. len - k : p + i - 1 = k + i
    BY <1>1, <1>3
  <2> QED BY ONLY <1>5, <2>1, <2>2
<1>7. Left(s, k) = q
  BY <1>3 DEF Left, q, len
<1> QED BY <1>5, <1>6, <1>7 DEF len

LEMMA LeftOfLeft ==
  ASSUME NEW W, NEW s \in Seq(W), NEW k \in 0 .. Len(s), NEW d \in 0 .. Len(s) - k
  PROVE  Left(Left(s, k), d) = Left(s, k + d)
<1>1. Len(s) \in Nat /\ k \in Nat /\ k <= Len(s) /\ d \in Nat /\ d <= Len(s) - k
  BY LenProperties
<1>2. k + d \in 0 .. Len(s) /\ Len(s) - (k + d) = Len(s) - k - d
  BY <1>1
<1> DEFINE q == Left(s, k)
           u == Left(q, d)
           v == Left(s, k + d)
<1>3. q \in Seq(W) /\ Len(q) = Len(s) - k /\ \A i \in 1 .. Len(s) - k : q[i] = s[k + i]
  BY LeftShape
<1> HIDE DEF q
<1>4. d \in 0 .. Len(q)
  BY <1>3
<1>5. u \in Seq(W) /\ Len(u) = Len(q) - d /\ \A i \in 1 .. Len(q) - d : u[i] = q[d + i]
  BY <1>3, <1>4, LeftShape
<1>6. v \in Seq(W) /\ Len(v) = Len(s) - (k + d) /\ \A i \in 1 .. Len(s) - (k + d) : v[i] = s[k + d + i]
  BY <1>2, LeftShape
<1> HIDE DEF u, v
<1>7. Len(u) = Len(v)
  BY <1>1, <1>2, <1>3, <1>5, <1>6
<1>8. \A i \in 1 .. Len(u) : u[i] = v[i]
  <2> TAKE i \in 1 .. Len(u)
  <2>1. i \in 1 .. Len(q) - d /\ i \in 1 .. Len(s) - (k + d) /\ d + i \in 1 .. Len(s) - k /\ k + (d + i) = k + d + i
    BY <1>1, <1>2, <1>3, <1>5, <1>6
  <2>2. u[i] = q[d + i] /\ v[i] = s[k + d + i]
    BY <1>5, <1>6, <2>1
  <2>3. q[d + i] = s[k + (d + i)]
    BY <1>3, <2>1
  <2> QED BY <2>1, <2>2, <2>3
<1> QED BY <1>5, <1>6, <1>7, <1>8, SeqEqual DEF q, u, v

LEMMA LeftTail ==
  ASSUME NEW W, NEW s \in Seq(W), s # <<>>
  PROVE  Tail(s) = Left(s, 1)
BY TailIsSubSeq DEF Left

-----------------------------------------------------------------------------
(* The builders rebuild the statement as long as no word was lost.         *)

\* How many words the builder has taken.
Done == Len(WordsOf[stmt]) - Len(queue)

Rebuilding == ReadsOn(After(Done)) /\ Copied(mem, stack, After(Done).trees)

Reproduced ==
  /\ lost # None => oom
  /\ pc = "parse" /\ lost = None => queue \o todo = WordsOf[stmt]
  /\ pc \in Builders /\ lost = None =>
       /\ pc = stmt.w
       /\ Done \in 0 .. Len(WordsOf[stmt])
       /\ queue = Left(WordsOf[stmt], Done)
       /\ Plain => Rebuilding
  /\ pc = "built" /\ lost = None /\ Plain => root \in Copies(mem)[stmt]
  /\ pc = "down" => oom \/ ~Plain

\* Where a builder is in the words of its statement.
LEMMA Place ==
  ASSUME AstInv, Reproduced, pc \in Builders, lost = None
  PROVE  LET ws == WordsOf[stmt] IN
           /\ stmt \in Statements /\ pc = stmt.w
           /\ ws \in Seq(ToSet(ws)) /\ Len(ws) \in Nat
           /\ Done \in 0 .. Len(ws)
           /\ queue = Left(ws, Done)
           /\ Len(queue) = Len(ws) - Done
           /\ \A i \in 1 .. Len(queue) : queue[i] = ws[Done + i]
<1>1. stmt \in Statements
  BY DEF AstInv, Phases
<1>2. WordsOf[stmt] \in Seq(ToSet(WordsOf[stmt])) /\ Len(WordsOf[stmt]) \in Nat
  <2>1. WordsOf[stmt] \in Seq(ToSet(WordsOf[stmt]))
    BY <1>1, WordsAssumption
  <2> QED BY <2>1, LenProperties
<1>3. pc = stmt.w /\ Done \in 0 .. Len(WordsOf[stmt]) /\ queue = Left(WordsOf[stmt], Done)
  BY DEF Reproduced
<1> DEFINE k == Done
           ws == WordsOf[stmt]
<1> HIDE DEF k, ws
<1>4. ws \in Seq(ToSet(ws)) /\ k \in 0 .. Len(ws) /\ queue = Left(ws, k)
  BY <1>2, <1>3 DEF k, ws
<1>5. Len(queue) = Len(ws) - k /\ \A i \in 1 .. Len(ws) - k : queue[i] = ws[k + i]
  BY <1>4, LeftShape
<1> QED BY <1>1, <1>2, <1>3, <1>4, <1>5 DEF k, ws

\* The word at hand.
LEMMA NextWord ==
  ASSUME AstInv, Reproduced, pc \in Builders, lost = None, queue # <<>>
  PROVE  LET ws == WordsOf[stmt] IN
           /\ Done \in Nat /\ Done + 1 \in 1 .. Len(ws)
           /\ Head(queue) = ws[Done + 1]
           /\ Tail(queue) = Left(ws, Done + 1) /\ Len(Tail(queue)) = Len(ws) - (Done + 1)
<1> DEFINE k == Done
           ws == WordsOf[stmt]
<1>1. /\ ws \in Seq(ToSet(ws)) /\ Len(ws) \in Nat /\ k \in 0 .. Len(ws)
      /\ queue = Left(ws, k) /\ Len(queue) = Len(ws) - k
      /\ \A i \in 1 .. Len(queue) : queue[i] = ws[k + i]
  BY Place
<1> HIDE DEF k, ws
<1>2. queue \in Seq(ToSet(ws))
  BY <1>1, LeftShape
<1>3. Len(queue) \in Nat \ {0} /\ Head(queue) = queue[1] /\ Len(Tail(queue)) = Len(queue) - 1
  BY <1>2, TailEnd
<1>4. k \in Nat /\ k + 1 \in 1 .. Len(ws) /\ k + 1 \in 0 .. Len(ws) /\ 1 \in 0 .. Len(ws) - k /\ 1 \in 1 .. Len(queue)
  BY <1>1, <1>3
<1>5. Tail(queue) = Left(ws, k + 1)
  <2>1. Tail(queue) = Left(queue, 1)
    BY <1>2, LeftTail
  <2> QED BY <1>1, <1>4, <2>1, LeftOfLeft
<1>6. Head(queue) = ws[k + 1]
  BY <1>1, <1>3, <1>4
<1>7. Len(Tail(queue)) = Len(ws) - (k + 1)
  BY <1>1, <1>3
<1> QED BY <1>4, <1>5, <1>6, <1>7 DEF k, ws

\* Reading the word at hand.
LEMMA NextReads ==
  ASSUME AstInv, Reproduced, pc \in Builders, lost = None, queue # <<>>, Plain
  PROVE  /\ After(Done + 1) = ReadWord(stmt.w, After(Done), Head(queue)) /\ After(Done + 1).ok
         /\ After(Done).ok /\ ~After(Done).open
         /\ Copied(mem, stack, After(Done).trees)
<1>1. /\ Done \in Nat /\ Done + 1 \in 1 .. Len(WordsOf[stmt]) /\ Head(queue) = WordsOf[stmt][Done + 1]
  BY NextWord
<1>2. stmt \in Statements /\ stmt.w \in Builders /\ Len(WordsOf[stmt]) \in Nat
  BY Place
<1>3. ReadsOn(After(Done)) /\ Copied(mem, stack, After(Done).trees)
  BY DEF Reproduced, Rebuilding
<1> DEFINE k == Done
<1> HIDE DEF k
<1>4. k + 1 \in Nat \ {0} /\ k + 1 - 1 = k /\ k + 1 \in 0 .. Len(WordsOf[stmt])
  BY <1>1, <1>2 DEF k
<1>5. After(k + 1) = ReadWord(stmt.w, After(k), WordsOf[stmt][k + 1])
  <2>1. stmt \in Statements /\ k \in Nat
    BY <1>1, <1>2 DEF k
  <2> QED BY ONLY <2>1, AfterNext
<1>6. After(k + 1).ok
  BY <1>2, <1>4, StatementReads
<1> QED BY <1>1, <1>3, <1>5, <1>6 DEF k, ReadsOn

\* The last two words of a statement.
LEMMA StatementEnds ==
  ASSUME stmt \in Statements
  PROVE  LET ws == WordsOf[stmt] IN
           /\ ws \in Seq(ToSet(ws)) /\ Len(ws) \in Nat /\ Len(ws) >= 2
           /\ ws[Len(ws) - 1].w = stmt.w
           /\ \A i \in 1 .. Len(ws) : ws[i].w = "STMT" <=> i = Len(ws)
<1> DEFINE word == Word("STMT", "", 0, 0)
           e == Emit[stmt]
           end == <<word>>
           W == AllWords \cup {word}
<1>1. WordsOf[stmt] = e \o end /\ stmt \in Trees
  BY GrammarAssumption DEF Statement
<1>2. e \in Seq(AllWords)
  BY <1>1, EmitDef
<1>3. Len(e) >= 1 /\ e[Len(e)].w = stmt.w /\ Len(e) \in Nat
  <2>1. CASE stmt.w = "COLUMNDEF"
    <3>1. e = EmitColumn(stmt)
      BY <1>1, <2>1, EmitDef
    <3> DEFINE n == Len(stmt.attrs)
               c == EmitColumn(stmt)
    <3>2. n \in Nat /\ Len(c) = n + 2 /\ c[n + 2] = Word("COLUMNDEF", stmt.v, TypeCode(stmt.type), 0)
      BY <1>1, <2>1, ColumnWords
    <3> HIDE DEF n, c, e
    <3>3. Len(c) >= 1 /\ Len(c) \in Nat /\ c[Len(c)] = Word("COLUMNDEF", stmt.v, TypeCode(stmt.type), 0)
      BY <3>2
    <3>4. e = c
      BY <3>1 DEF c
    <3> QED BY <2>1, <3>3, <3>4, WordFields
  <2>2. CASE stmt.w # "COLUMNDEF"
    <3> DEFINE own == <<EmitOwn(stmt)>>
               flat == FlattenSeq(Ops(stmt))
               first == (flat \o EmitWhere(stmt)) \o EmitComplaint(stmt)
    <3>1. flat \in Seq(AllWords)
      <4>1. PICK f \in [0 .. Len(Ops(stmt)) -> Seq(AllWords)] : f[Len(Ops(stmt))] = FlattenSeq(Ops(stmt))
        BY <1>1, OpsTyped, Flattened
      <4>2. Len(Ops(stmt)) \in 0 .. Len(Ops(stmt))
        <5>1. Len(Ops(stmt)) = Len(stmt.kids)
          BY <1>1, OpsTyped
        <5>2. Len(stmt.kids) \in Nat
          BY <1>1, Operand
        <5> QED BY <5>1, <5>2
      <4> QED BY <4>1, <4>2
    <3>2. EmitOwn(stmt) \in AllWords
      BY <1>1 DEF AllWords
    <3>3. EmitWhere(stmt) \in Seq(AllWords) /\ EmitComplaint(stmt) \in Seq(AllWords)
      BY EmptySeq, Single DEF EmitWhere, EmitComplaint, AllWords
    <3>4. e = first \o own
      BY <1>1, <2>2, EmitDef DEF Ops
    <3>5. own \in Seq(AllWords) /\ Len(own) = 1 /\ own[1] = EmitOwn(stmt)
      BY <3>2, Single
    <3> HIDE DEF flat, e, own
    <3>6. first \in Seq(AllWords)
      <4>1. flat \o EmitWhere(stmt) \in Seq(AllWords)
        BY <3>1, <3>3, Appended
      <4> QED BY <3>3, <4>1, Appended
    <3> HIDE DEF first
    <3>7. /\ Len(first \o own) = Len(first) + Len(own) /\ Len(first) \in Nat
          /\ \A i \in 1 .. Len(own) : (first \o own)[Len(first) + i] = own[i]
      <4>1. own \in Seq(AllWords)
        BY <3>5
      <4> QED BY ONLY <3>6, <4>1, Appended
    <3>8. Len(e) = Len(first) + 1 /\ e[Len(first) + 1] = EmitOwn(stmt)
      <4>1. 1 \in 1 .. Len(own)
        BY <3>5
      <4> QED BY <3>4, <3>5, <3>7, <4>1
    <3>9. EmitOwn(stmt).w = stmt.w
      BY <1>1, OwnTakes
    <3> QED BY <3>7, <3>8, <3>9
  <2> QED BY <2>1, <2>2
<1>4. e \in Seq(W) /\ end \in Seq(W) /\ Len(end) = 1
  <2>1. word \in W /\ AllWords \subseteq W
    OBVIOUS
  <2> HIDE DEF W, e, word
  <2>2. e \in Seq(W)
    BY <1>2, <2>1, SeqMonotonic
  <2> QED BY <2>1, <2>2, Single
<1> HIDE DEF e, end, W
<1>5. Len(e \o end) = Len(e) + Len(end) /\ \A i \in 1 .. Len(e) : (e \o end)[i] = e[i]
  <2>1. e \in Seq(W) /\ end \in Seq(W)
    BY <1>4
  <2> QED BY ONLY <2>1, Appended
<1>6. Len(WordsOf[stmt]) = Len(e) + 1 /\ WordsOf[stmt][Len(e)].w = stmt.w
  <2>1. Len(e) \in 1 .. Len(e)
    BY <1>3
  <2> QED BY <1>1, <1>3, <1>4, <1>5, <2>1
<1>7. WordsOf[stmt] \in Seq(ToSet(WordsOf[stmt]))
  BY WordsAssumption
<1>8. DOMAIN WordsOf[stmt] = 1 .. Len(WordsOf[stmt])
  BY <1>7, LenProperties
<1>9. \A i \in 1 .. Len(WordsOf[stmt]) : WordsOf[stmt][i].w = "STMT" <=> i = Len(WordsOf[stmt])
  BY <1>8, WordsAssumption
<1>10. Len(WordsOf[stmt]) \in Nat /\ Len(WordsOf[stmt]) >= 2 /\ Len(WordsOf[stmt]) - 1 = Len(e)
  BY <1>3, <1>6
<1> QED BY <1>6, <1>7, <1>9, <1>10

\* A step that ends the building of the tree.
LEMMA Abandons ==
  ASSUME Reproduced, stmt' = stmt, lost' = lost, oom => oom',
         pc' \in {"unwind", "failed", "refused", "done"} \/ (pc' = "down" /\ (oom' \/ ~Plain))
  PROVE  Reproduced'
<1>1. Plain' = Plain
  BY DEF Plain
<1>2. pc' \notin Builders /\ pc' # "parse" /\ pc' # "built"
  BY BuilderNames
<1>3. (lost # None => oom) /\ (pc' = "down" => oom' \/ ~Plain)
  BY DEF Reproduced
<1> QED BY <1>1, <1>2, <1>3 DEF Reproduced

LEMMA OneWordOver ==
  ASSUME NEW W, NEW a \in Seq(W), NEW b \in Seq(W), b # <<>>
  PROVE  Append(a, Head(b)) \o Tail(b) = a \o b
<1>1. Head(b) \in W /\ Tail(b) \in Seq(W) /\ Head(b) = b[1] /\ Len(b) \in Nat \ {0}
  BY TailEnd
<1>2. Append(a, Head(b)) = a \o <<Head(b)>>
  BY <1>1, AppendIsConcat
<1>3. <<Head(b)>> \in Seq(W)
  BY <1>1, Single
<1>4. <<Head(b)>> \o Tail(b) = b
  <2>1. SubSeq(b, 1, Len(b)) = <<b[1]>> \o SubSeq(b, 1 + 1, Len(b))
    <3>1. 1 \in 1 .. Len(b) /\ Len(b) \in 1 .. Len(b)
      BY <1>1
    <3> QED BY <3>1, SubSeqRecursiveFirst
  <2>2. Tail(b) = SubSeq(b, 2, Len(b)) /\ SubSeq(b, 1, Len(b)) = b
    BY TailIsSubSeq, SubSeqFull
  <2> QED BY <1>1, <2>1, <2>2
<1>5. (a \o <<Head(b)>>) \o Tail(b) = a \o (<<Head(b)>> \o Tail(b))
  BY <1>1, <1>3, ConcatAssociative
<1> QED BY <1>2, <1>4, <1>5

LEMMA ParseReproduces ==
  ASSUME AstInv, Reproduced, EmitWord \/ LoseWord \/ QueueCannotGrow \/ SyntaxError \/ SyntaxErrorUntold
  PROVE  Reproduced'
<1>0. todo \in Seq(Vocabulary) /\ queue \in Seq(Vocabulary) /\ pc \in {"parse"} /\ stmt' = stmt /\ todo # <<>>
  BY DEF AstInv, Worded, EmitWord, LoseWord, QueueCannotGrow, SyntaxError, SyntaxErrorUntold, Crash, syntaxVars
<1>1. CASE EmitWord
  <2>1. lost' = lost /\ oom' = oom /\ pc' = "parse" /\ queue' = Append(queue, Head(todo)) /\ todo' = Tail(todo)
    BY <1>0, <1>1 DEF EmitWord
  <2>2. lost = None => queue' \o todo' = WordsOf[stmt']
    BY <1>0, <2>1, OneWordOver DEF Reproduced
  <2>3. "parse" \notin Builders
    BY BuilderNames
  <2>4. lost # None => oom
    BY DEF Reproduced
  <2> QED BY <2>1, <2>2, <2>3, <2>4 DEF Reproduced
<1>2. CASE LoseWord
  <2>1. oom' = TRUE /\ lost' = Head(todo) /\ pc' = "parse"
    BY <1>0, <1>2 DEF LoseWord, Fails
  <2>2. Head(todo) \in Vocabulary
    BY <1>0, TailEnd
  <2>3. Head(todo) # None
    BY <2>2, GrammarAssumption DEF Vocabulary
  <2>4. "parse" \notin Builders
    BY BuilderNames
  <2> QED BY <2>1, <2>3, <2>4 DEF Reproduced
<1>3. CASE QueueCannotGrow
  <2>1. oom' /\ lost' = lost /\ pc' = "down"
    BY <1>3 DEF QueueCannotGrow, Fails, Crash, syntaxVars
  <2> QED BY <1>0, <2>1, Abandons
<1>4. CASE SyntaxError
  <2>1. oom' = oom /\ lost' = lost /\ pc' = "refused"
    BY <1>4 DEF SyntaxError
  <2> QED BY <1>0, <2>1, Abandons
<1>5. CASE SyntaxErrorUntold
  <2>1. oom' /\ lost' = lost /\ pc' \in {"refused", "down"}
    BY <1>5 DEF SyntaxErrorUntold, Fails, Crash, syntaxVars
  <2> QED BY <1>0, <2>1, Abandons
<1> QED BY <1>1, <1>2, <1>3, <1>4, <1>5

LEMMA DispatchReproduces ==
  ASSUME AstInv, Reproduced, Dispatch \/ DispatchFails \/ DispatchCrashes
  PROVE  Reproduced'
<1>0. /\ pc = "parse" /\ todo = <<>> /\ stmt' = stmt /\ lost' = lost /\ queue' = queue /\ mem' = mem /\ stack' = stack
      /\ queue \in Seq(Vocabulary) /\ stmt \in Statements /\ stack = <<>>
  BY DEF AstInv, Worded, Phases, Dispatch, DispatchFails, DispatchCrashes, Crash, syntaxVars
<1>1. lost = None => queue = WordsOf[stmt]
  BY <1>0, ConcatEmptySeq DEF Reproduced
<1> DEFINE ws == WordsOf[stmt]
<1>2. /\ ws \in Seq(ToSet(ws)) /\ Len(ws) \in Nat /\ Len(ws) >= 2
      /\ ws[Len(ws) - 1].w = stmt.w
      /\ \A i \in 1 .. Len(ws) : ws[i].w = "STMT" <=> i = Len(ws)
      /\ DOMAIN ws = 1 .. Len(ws)
  BY <1>0, StatementEnds, LenProperties
<1>3. lost # None => oom
  BY DEF Reproduced
<1>4. CASE DispatchFails
  <2>1. pc' = "unwind" /\ (oom => oom')
    BY <1>4 DEF DispatchFails, Fails
  <2> QED BY <1>0, <2>1, Abandons
<1>5. CASE DispatchCrashes
  <2>1. oom' = oom /\ pc' = "down" /\ EndOfStatement \cap (2 .. Len(queue)) = {}
    BY <1>5 DEF DispatchCrashes, Crash
  <2>2. lost = None => FALSE
    <3> HAVE lost = None
    <3>1. Len(ws) \in DOMAIN queue /\ queue[Len(ws)].w = "STMT" /\ Len(ws) \in 2 .. Len(queue)
      BY <1>1, <1>2
    <3>2. Len(ws) \in EndOfStatement
      BY <3>1 DEF EndOfStatement
    <3> QED BY <2>1, <3>1, <3>2
  <2> QED BY <1>0, <1>3, <2>1, <2>2, Abandons
<1>6. CASE Dispatch
  <2>1. PICK i \in EndOfStatement \cap (2 .. Len(queue)) : KindOf(queue[i - 1]) \in Builders /\ pc' = KindOf(queue[i - 1])
    BY <1>6 DEF Dispatch
  <2>2. oom' = oom /\ pc' \in Builders
    BY <1>6, <2>1 DEF Dispatch
  <2>3. pc' # "parse" /\ pc' # "built" /\ pc' # "down"
    BY <2>2, BuilderNames
  <2>4. ASSUME lost = None
        PROVE  /\ pc' = stmt.w
               /\ Done = 0
               /\ queue = Left(ws, 0)
               /\ ReadsOn(After(0)) /\ Copied(mem, stack, After(0).trees)
    <3>1. i = Len(ws)
      BY <1>1, <1>2, <2>1, <2>4 DEF EndOfStatement
    <3>2. pc' = stmt.w
      BY <1>0, <1>1, <1>2, <2>1, <2>4, <3>1, GrammarAssumption DEF KindOf
    <3>3. Done = 0
      BY <1>1, <1>2, <2>4 DEF Done
    <3>4. queue = Left(ws, 0)
      <4>1. 0 + 1 = 1
        OBVIOUS
      <4> QED BY <1>1, <1>2, <2>4, <4>1, SubSeqFull DEF Left
    <3>5. After(0) = Start
      BY <1>0, AfterDef
    <3>6. Copied(mem, <<>>, <<>>)
      BY EmptySeq DEF Copied
    <3> QED BY <1>0, <3>2, <3>3, <3>4, <3>5, <3>6 DEF ReadsOn, Start
  <2>5. Plain' = Plain /\ Done' = Done /\ Rebuilding' = (ReadsOn(After(Done)) /\ Copied(mem, stack, After(Done).trees))
    BY <1>0 DEF Plain, Done, Rebuilding, After
  <2>6. lost' = None =>
          /\ pc' = stmt'.w
          /\ Done' \in 0 .. Len(WordsOf[stmt'])
          /\ queue' = Left(WordsOf[stmt'], Done')
          /\ Plain' => Rebuilding'
    <3> HAVE lost' = None
    <3>1. Done = 0 /\ 0 \in 0 .. Len(ws)
      BY <1>0, <1>2, <2>4
    <3>2. ReadsOn(After(Done)) /\ Copied(mem, stack, After(Done).trees) /\ queue = Left(ws, Done)
      BY <1>0, <2>4, <3>1
    <3> QED BY <1>0, <2>4, <2>5, <3>1, <3>2
  <2> QED BY <1>0, <1>3, <2>2, <2>3, <2>6 DEF Reproduced
<1> QED BY <1>4, <1>5, <1>6

\* A step of a builder that takes d words.
LEMMA BuilderGoesOn ==
  ASSUME AstInv, Reproduced, pc \in Builders, UNCHANGED <<stmt, lost, oom, pc>>,
         NEW d, lost = None => d \in 0 .. Len(queue) /\ queue' = Left(queue, d),
         lost = None /\ Plain => ReadsOn(After(Done + d)) /\ Copied(mem', stack', After(Done + d).trees)
  PROVE  Reproduced'
<1>1. lost # None => oom
  BY DEF Reproduced
<1>2. pc # "parse" /\ pc # "built" /\ pc # "down"
  BY BuilderNames
<1>3. lost = None =>
        /\ pc = stmt.w
        /\ Done' \in 0 .. Len(WordsOf[stmt])
        /\ queue' = Left(WordsOf[stmt], Done')
        /\ Plain => Rebuilding'
  <2> HAVE lost = None
  <2> DEFINE ws == WordsOf[stmt]
             k == Done
  <2>1. /\ pc = stmt.w
        /\ ws \in Seq(ToSet(ws)) /\ Len(ws) \in Nat
        /\ k \in 0 .. Len(ws) /\ queue = Left(ws, k) /\ Len(queue) = Len(ws) - k
    BY Place
  <2>2. d \in 0 .. Len(ws) - k /\ queue' = Left(queue, d)
    BY <2>1
  <2>3. Done' = Len(ws) - Len(queue')
    BY DEF Done
  <2>4. Plain => ReadsOn(After(k + d)) /\ Copied(mem', stack', After(k + d).trees)
    OBVIOUS
  <2>5. Rebuilding' = (ReadsOn(After(Done')) /\ Copied(mem', stack', After(Done').trees))
    BY DEF Rebuilding, After
  <2> HIDE DEF ws, k
  <2>6. queue' = Left(ws, k + d)
    BY <2>1, <2>2, LeftOfLeft
  <2>7. k + d \in 0 .. Len(ws)
    BY <2>1, <2>2
  <2>8. Len(queue') = Len(ws) - (k + d)
    BY <2>1, <2>6, <2>7, LeftShape
  <2>9. Done' = k + d
    BY <2>1, <2>2, <2>3, <2>7, <2>8
  <2> QED BY <2>1, <2>4, <2>5, <2>6, <2>7, <2>9 DEF ws
<1>4. Plain' = Plain
  BY DEF Plain
<1> QED BY <1>1, <1>2, <1>3, <1>4 DEF Reproduced

\* The word at hand is one of its statement's.
LEMMA WordAtHand ==
  ASSUME AstInv, Reproduced, pc \in Builders, lost = None, queue # <<>>, Plain
  PROVE  LET word == Head(queue) IN
           /\ word.w \notin {"CASE", "NOW", "ERROR"}
           /\ word.w = "COLUMNDEF" => KnownType(word.n) /\ CutAt(word.v) = word.v
           /\ word.w # "COLUMNDEF" => Matched(word) = word.v
           /\ word.v # NoMatch
           /\ word.w \in Spoken(pc)
           /\ word.n \in Nat /\ word.opt \in Nat
           /\ word.w = "STMT" <=> Done + 1 = Len(WordsOf[stmt])
<1>1. Done + 1 \in 1 .. Len(WordsOf[stmt]) /\ Head(queue) = WordsOf[stmt][Done + 1] /\ stmt \in Statements /\ pc = stmt.w
  BY NextWord, Place
<1> DEFINE k == Done + 1
<1> HIDE DEF k
<1>2. k \in 1 .. Len(WordsOf[stmt]) /\ Head(queue) = WordsOf[stmt][k]
  BY <1>1 DEF k
<1> QED BY <1>1, <1>2, WordsPlain DEF k

LEMMA OwnWord ==
  ASSUME AstInv, Reproduced, AtWord, lost = None, Plain
  PROVE  LET word == Head(queue)
             r == After(Done)
         IN  /\ Rest(r, word) \in 0 .. Len(r.trees)
             /\ Made(r, word) \in Trees
             /\ ReadsOn(After(Done + 1))
             /\ After(Done + 1).trees = Append(SubSeq(r.trees, 1, Rest(r, word)), Made(r, word))
             /\ Copied(mem, stack, r.trees)
             /\ Taken(word) \in Nat
             /\ Suits(WordRule, word)
             /\ word.w # "COLUMNDEF" /\ Matched(word) = word.v /\ word.v # NoMatch
<1> DEFINE word == Head(queue)
           r == After(Done)
<1>1. pc \in Builders /\ queue # <<>> /\ ~Special(word)
  BY DEF AtWord, Building
<1>2. /\ word.w \notin {"CASE", "NOW", "ERROR"}
      /\ word.w # "COLUMNDEF" => Matched(word) = word.v
      /\ word.v # NoMatch
      /\ word.w \in Spoken(pc)
      /\ word.n \in Nat /\ word.opt \in Nat
  BY <1>1, WordAtHand
<1>3. /\ After(Done + 1) = ReadWord(stmt.w, r, word) /\ After(Done + 1).ok
      /\ r.ok /\ ~r.open
      /\ Copied(mem, stack, r.trees)
  BY <1>1, NextReads
<1>4. pc = stmt.w
  BY <1>1, Place
<1>5. word.w # "STMT" /\ (pc \in {"DELETEONE", "UPDATE"} => word.w # "WHERE") /\ (pc = "CREATE" => word.w # "STARTCOL")
  BY <1>1 DEF Special
<1>6. word.w # "STARTCOL"
  BY <1>1, <1>2, <1>5 DEF Spoken, Builders, Predicates, ExprVals, Arith, Logic
<1> HIDE DEF word, r
<1>7. ~Skipped(stmt.w, word)
  BY <1>4, <1>5 DEF Skipped
<1>8. ReadWord(stmt.w, r, word) = ReadOwn(r, word) /\ word.w \notin {"ATTR", "COLUMNDEF"}
  <2>1. ReadColumn(r, word) = Bad
    BY <1>3 DEF ReadColumn
  <2>2. word.w \notin {"ATTR", "COLUMNDEF"}
    <3>1. word.w = "ATTR" => ReadWord(stmt.w, r, word) = Bad
      BY <1>3, <2>1, SMT DEF ReadWord, ReadColumn, ReadOwn, Skipped, Bad
    <3>2. word.w = "COLUMNDEF" => ReadWord(stmt.w, r, word) = Bad
      BY <1>3, <2>1, SMT DEF ReadWord, ReadColumn, ReadOwn, Skipped, Bad
    <3>3. ~Bad.ok
      BY DEF Bad
    <3> QED BY <1>3, <3>1, <3>2, <3>3
  <2> QED BY <1>3, <1>6, <1>7, <2>2 DEF ReadWord
<1>9. /\ Rest(r, word) \in 0 .. Len(r.trees)
      /\ Made(r, word) \in Trees
      /\ word.w = "DELETEONE" => Rest(r, word) = 0
      /\ ReadOwn(r, word) = [ok |-> TRUE, trees |-> Append(SubSeq(r.trees, 1, Rest(r, word)), Made(r, word)),
                             open |-> FALSE, attrs |-> <<>>]
  <2>1. ~Bad.ok
    BY DEF Bad
  <2>2. ReadOwn(r, word) # Bad
    BY <1>3, <1>8, <2>1
  <2> QED BY <2>2 DEF ReadOwn
<1>10. ReadsOn(After(Done + 1)) /\ After(Done + 1).trees = Append(SubSeq(r.trees, 1, Rest(r, word)), Made(r, word))
  BY <1>3, <1>8, <1>9 DEF ReadsOn
<1>11. r.trees \in Seq(Trees) /\ Len(r.trees) \in Nat /\ Len(stack) = Len(r.trees)
  BY <1>3, LenProperties DEF Copied
<1>12. Taken(word) \in Nat /\ Taken(word) <= Len(r.trees)
  <2>1. Uncounted(word) \in Int
    BY <1>2 DEF Uncounted
  <2> QED BY <1>2, <1>9, <1>11, <2>1 DEF Rest, Taken
<1>13. Taken(word) \in Operands(word.w)
  <2> DEFINE kids == SubSeq(r.trees, Rest(r, word) + 1, Len(r.trees))
  <2>1. Made(r, word).w = word.w /\ Made(r, word).kids = kids
    BY DEF Made, Node
  <2>2. Len(kids) = Len(r.trees) - Rest(r, word)
    <3>1. kids = Left(r.trees, Rest(r, word))
      BY DEF Left
    <3> QED BY <1>9, <1>11, <3>1, LeftShape
  <2>3. Len(r.trees) - Rest(r, word) = Taken(word)
    BY <1>11, <1>12 DEF Rest
  <2>4. Len(Made(r, word).kids) \in Operands(Made(r, word).w)
    BY <1>9, TreesAssumption
  <2> QED BY <2>1, <2>2, <2>3, <2>4
<1>14. word.w = "DELETEONE" => Len(stack) = Taken(word)
  BY <1>9, <1>11, <1>12 DEF Rest
<1>15. Suits(WordRule, word)
  <2>1. CASE pc = "CREATE"
    <3>1. WordRule = CreateRule(word)
      BY <2>1 DEF WordRule, RuleOf, word
    <3>2. word.w \in Spoken("CREATE") \ {"STMT", "STARTCOL", "ATTR", "COLUMNDEF"}
      BY <1>2, <1>5, <1>6, <1>8, <2>1
    <3> QED BY <1>2, <1>13, <3>1, <3>2, CreateSuits
  <2>2. CASE pc = "INSERTVALS"
    <3>1. WordRule = InsertRule(word)
      BY <2>2 DEF WordRule, RuleOf, word
    <3> QED BY <1>2, <1>5, <1>13, <2>2, <3>1, InsertSuits
  <2>3. CASE pc = "DELETEONE"
    <3>1. WordRule = DeleteRule(word, Len(stack))
      BY <2>3 DEF WordRule, RuleOf, word
    <3>2. word.w \in Spoken("DELETEONE") \ {"STMT", "WHERE"}
      BY <1>2, <1>5, <2>3
    <3> QED BY <1>2, <1>13, <1>14, <3>1, <3>2, DeleteSuits
  <2>4. CASE pc = "UPDATE"
    <3>1. WordRule = UpdateRule(word)
      BY <2>4 DEF WordRule, RuleOf, word
    <3>2. word.w \in Spoken("UPDATE") \ {"STMT", "WHERE", "ERROR"}
      BY <1>2, <1>5, <2>4
    <3> QED BY <1>2, <1>13, <3>1, <3>2, UpdateSuits
  <2>5. CASE pc = "SELECT"
    <3>1. WordRule = SelectRule(word)
      BY <2>5 DEF WordRule, RuleOf, word
    <3>2. word.w \in Spoken("SELECT") \ {"STMT", "CASE", "NOW"}
      BY <1>2, <1>5, <2>5
    <3> QED BY <1>2, <1>13, <3>1, <3>2, SelectSuits
  <2> QED BY <1>1, <2>1, <2>2, <2>3, <2>4, <2>5 DEF Builders
<1> QED BY <1>2, <1>3, <1>8, <1>9, <1>10, <1>12, <1>15 DEF word, r

LEMMA WhereReproduces == ASSUME AstInv, Reproduced, DiscardWhere PROVE Reproduced'
<1>1. /\ pc \in Builders /\ queue # <<>> /\ pc \in {"DELETEONE", "UPDATE"} /\ Head(queue).w = "WHERE"
      /\ queue' = Tail(queue) /\ UNCHANGED <<stmt, lost, oom, pc, mem, stack>>
  BY DEF DiscardWhere, Building, syntaxVars
<1>2. lost = None => 1 \in 0 .. Len(queue) /\ queue' = Left(queue, 1)
  <2>1. queue \in Seq(Vocabulary)
    BY DEF AstInv, Worded
  <2> QED BY <1>1, <2>1, TailEnd, LeftTail
<1>3. lost = None /\ Plain => ReadsOn(After(Done + 1)) /\ Copied(mem', stack', After(Done + 1).trees)
  <2> HAVE lost = None /\ Plain
  <2> DEFINE k == Done
  <2>1. stmt \in Statements /\ pc = stmt.w /\ k \in Nat /\ Head(queue) = WordsOf[stmt][k + 1]
    BY <1>1, Place, NextWord
  <2>2. ReadsOn(After(k)) /\ Copied(mem, stack, After(k).trees)
    BY <1>1 DEF Reproduced, Rebuilding
  <2> HIDE DEF k
  <2>3. Skipped(stmt.w, WordsOf[stmt][k + 1]) /\ WordsOf[stmt][k + 1].w \in {"STMT", "WHERE"}
    BY <1>1, <2>1 DEF Skipped
  <2>4. After(k + 1) = After(k)
    BY <2>1, <2>2, <2>3, SkippedRead
  <2> QED BY <1>1, <2>2, <2>4 DEF k
<1> QED BY <1>1, <1>2, <1>3, BuilderGoesOn

\* A word that the builder cannot read: without a fault there is none.
LEMMA FailingReproduces ==
  ASSUME AstInv, Reproduced, NodeFails \/ MatchFails \/ BuilderCrashes \/ StackCannotGrow
  PROVE  Reproduced'
<1>1. AtWord /\ stmt' = stmt /\ lost' = lost
  BY DEF NodeFails, MatchFails, BuilderCrashes, StackCannotGrow, Crash, syntaxVars
<1>2. (lost # None => oom) /\ oom \in BOOLEAN
  BY DEF Reproduced, AstInv, Phases
<1>3. CASE NodeFails
  <2>1. pc' = "unwind" /\ oom'
    BY <1>3 DEF NodeFails, Fails
  <2> QED BY <1>1, <2>1, Abandons
<1>4. CASE StackCannotGrow
  <2>1. pc' = "down" /\ oom'
    BY <1>4 DEF StackCannotGrow, Fails, Crash
  <2> QED BY <1>1, <2>1, Abandons
<1>5. CASE MatchFails
  <2>1. pc' \in {"unwind", "down"} /\ (oom' \/ (Matched(Head(queue)) = NoMatch /\ oom' = oom))
    BY <1>5 DEF MatchFails, Fails
  <2>2. oom' \/ ~Plain
    BY <1>1, <1>2, <2>1, OwnWord
  <2>3. oom => oom'
    BY <2>1
  <2> QED BY <1>1, <2>1, <2>2, <2>3, Abandons
<1>6. CASE BuilderCrashes
  <2>1. pc' = "down" /\ oom' = oom /\ (WordRule = Unsupported \/ WordRule.pops > Len(stack))
    BY <1>6 DEF BuilderCrashes, Crash
  <2>2. lost = None => ~Plain
    <3> SUFFICES ASSUME lost = None, Plain PROVE FALSE
      OBVIOUS
    <3> DEFINE word == Head(queue)
               r == After(Done)
    <3>1. Rest(r, word) \in 0 .. Len(r.trees) /\ Copied(mem, stack, r.trees) /\ Taken(word) \in Nat /\ Suits(WordRule, word)
      BY <1>1, OwnWord
    <3> HIDE DEF word, r
    <3>2. Len(stack) = Len(r.trees) /\ Len(r.trees) \in Nat
      BY <3>1, LenProperties DEF Copied
    <3>3. Taken(word) <= Len(stack)
      BY <3>1, <3>2 DEF Rest
    <3> QED BY <2>1, <3>1, <3>2, <3>3 DEF Suits
  <2> QED BY <1>1, <1>2, <2>1, <2>2, Abandons
<1> QED BY <1>3, <1>4, <1>5, <1>6

-----------------------------------------------------------------------------
(* The node that a builder makes of a word copies the tree that a reader   *)
(* makes of it.                                                            *)

LEMMA NodeIsCopy ==
  ASSUME NEW m, NEW ts, Copied(m, stack, ts), NEW word, NEW rest \in 0 .. Len(ts),
         NEW t \in Trees, t = Node(word.w, word.v, word.opt, Left(ts, rest)), word.w # "COLUMNDEF",
         word.n \in Nat, word.opt \in Nat, Taken(word) = Len(ts) - rest, Matched(word) = word.v,
         NEW rule, Suits(rule, word), rule.marker \in BOOLEAN,
         NEW n \in DOMAIN m, m[n] = NodeOf(word, rule, n + 1), rule.marker => m[n + 1] = MarkerNode
  PROVE  n \in Copies(m)[t]
<1> DEFINE len == Len(ts)
           ks == Kids(rule, n + 1)
           pops == rule.pops
           c == Copies(m)
<1>1. /\ stack \in Seq(DOMAIN m) /\ ts \in Seq(Trees) /\ Len(stack) = len
      /\ \A j \in 1 .. len : stack[j] \in c[ts[j]]
  BY DEF Copied
<1>2. len \in Nat /\ rest \in Nat /\ rest <= len
  BY <1>1, LenProperties
<1>3. /\ t.w = word.w /\ t.v = word.v /\ t.opt = word.opt /\ t.kids = Left(ts, rest)
  BY DEF Node
<1>4. Len(t.kids) = len - rest /\ \A i \in 1 .. len - rest : t.kids[i] = ts[rest + i]
  BY <1>1, <1>3, LeftShape
<1>5. /\ m[n].w = (IF word.w = "NEG" THEN "MUL" ELSE word.w) /\ m[n].v = word.v /\ m[n].opt = word.opt
      /\ m[n].kids = ks
  <2> HIDE DEF ks
  <2>1. NodeOf(word, rule, n + 1) =
          [w |-> IF word.w = "NEG" THEN "MUL" ELSE word.w, v |-> word.v, opt |-> word.opt, kids |-> ks]
    BY DEF NodeOf, Node, ks
  <2> QED BY <2>1
<1>6. pops = len - rest /\ (rule.order = "swapped" <=> t.w \in Arith) /\ (rule.marker <=> t.w = "NEG")
  BY <1>3 DEF Suits
<1>7. (t.w = "NEG" => pops = 1) /\ (t.w \in Arith => pops = 2)
  <2>1. Taken(word) \in Operands(word.w)
    BY <1>3, <1>4, TreesAssumption
  <2> QED BY <1>3, <1>6, <2>1, TakenIs DEF Unary, Binary
<1>8. /\ ~rule.marker =>
           /\ Len(ks) = pops
           /\ \A j \in 1 .. pops : ks[j] = stack[IF rule.order = "swapped" THEN len + 1 - j ELSE len - pops + j]
      /\ rule.marker /\ pops = 1 => Len(ks) = 2 /\ ks[1] = n + 1 /\ ks[2] = stack[len]
  <2>1. pops \in 0 .. Len(stack)
    BY <1>1, <1>2, <1>6
  <2>2. /\ ~rule.marker =>
             /\ Len(Kids(rule, n + 1)) = rule.pops
             /\ \A j \in 1 .. rule.pops :
                  Kids(rule, n + 1)[j] =
                    stack[IF rule.order = "swapped" THEN Len(stack) + 1 - j ELSE Len(stack) - rule.pops + j]
        /\ rule.marker /\ rule.pops = 1 =>
             Len(Kids(rule, n + 1)) = 2 /\ Kids(rule, n + 1)[1] = n + 1 /\ Kids(rule, n + 1)[2] = stack[Len(stack)]
    BY <1>1, <2>1, KidsPlaced
  <2>3. Len(stack) = len
    BY <1>1
  <2> HIDE DEF len
  <2> QED BY <2>2, <2>3
<1>9. DOMAIN t.kids = 1 .. pops
  BY <1>4, <1>6, Operand
<1> HIDE DEF len, ks, pops, c
<1>10. n \in CopiesFrom(c, m, t)
  <2>1. CASE t.w = "NEG"
    <3>1. pops = 1 /\ rest + 1 = len /\ len \in 1 .. len /\ 1 \in 1 .. len - rest
      BY <1>2, <1>6, <1>7, <2>1
    <3>2. Len(ks) = 2 /\ ks[1] = n + 1 /\ ks[2] = stack[len] /\ m[n + 1] = MarkerNode
      BY <1>6, <1>8, <2>1, <3>1
    <3>3. t.kids[1] = ts[len] /\ stack[len] \in c[ts[len]]
      BY <1>1, <1>4, <3>1
    <3> QED BY <1>3, <1>5, <2>1, <3>2, <3>3 DEF CopiesFrom
  <2>2. CASE t.w # "NEG"
    <3>1. Len(ks) = pops
          /\ \A j \in 1 .. pops : ks[j] = stack[IF t.w \in Arith THEN len + 1 - j ELSE len - pops + j]
      BY <1>6, <1>8, <2>2
    <3>2. ASSUME NEW j \in 1 .. pops PROVE ks[IF t.w \in Arith THEN 3 - j ELSE j] \in c[t.kids[j]]
      <4>1. /\ rest + j \in 1 .. len /\ len - pops + j = rest + j /\ j \in 1 .. len - rest
        BY <1>2, <1>6
      <4>2. CASE t.w \in Arith
        <5>1. pops = 2 /\ 3 - j \in 1 .. pops /\ len + 1 - (3 - j) = rest + j
          BY <1>2, <1>6, <1>7, <4>2
        <5>2. ks[3 - j] = stack[len + 1 - (3 - j)]
          BY <3>1, <4>2, <5>1
        <5> QED BY <1>1, <1>4, <4>1, <4>2, <5>1, <5>2
      <4>3. CASE t.w \notin Arith
        <5>1. ks[j] = stack[rest + j]
          BY <3>1, <4>1, <4>3
        <5> QED BY <1>1, <1>4, <4>1, <4>3, <5>1
      <4> QED BY <4>2, <4>3
    <3>3. Len(ks) = Len(t.kids)
      BY <1>4, <1>6, <3>1
    <3> QED BY <1>3, <1>5, <1>9, <2>2, <3>2, <3>3 DEF CopiesFrom
  <2> QED BY <2>1, <2>2
<1> QED BY <1>10, CopiesDef DEF c

LEMMA BuildNodeReproduces == ASSUME AstInv, Reproduced, BuildNode PROVE Reproduced'
<1>1. /\ AtWord /\ pc \in Builders /\ queue # <<>> /\ queue' = Tail(queue) /\ UNCHANGED <<stmt, lost, oom, pc>>
      /\ stack' = Append(SubSeq(stack, 1, Len(stack) - WordRule.pops), NewId)
  BY DEF BuildNode, AtWord, Building, syntaxVars
<1>2. lost = None => 1 \in 0 .. Len(queue) /\ queue' = Left(queue, 1)
  <2>1. queue \in Seq(Vocabulary)
    BY DEF AstInv, Worded
  <2> QED BY <1>1, <2>1, TailEnd, LeftTail
<1>3. ASSUME lost = None /\ Plain
      PROVE  ReadsOn(After(Done + 1)) /\ Copied(mem', stack', After(Done + 1).trees)
  <2> DEFINE word == Head(queue)
             ts == After(Done).trees
             rule == WordRule
             n == NewId
             rest == Rest(After(Done), word)
             t == Made(After(Done), word)
             m == mem'
  <2>1. /\ rest \in 0 .. Len(ts) /\ t \in Trees
        /\ ReadsOn(After(Done + 1)) /\ After(Done + 1).trees = Append(SubSeq(ts, 1, rest), t)
        /\ Copied(mem, stack, ts)
        /\ Suits(rule, word)
        /\ word.w # "COLUMNDEF" /\ Matched(word) = word.v
    BY <1>1, <1>3, OwnWord
  <2>2. word.n \in Nat /\ word.opt \in Nat
    BY <1>1, <1>3, WordAtHand
  <2>3. /\ rule.marker \in BOOLEAN
        /\ n \in DOMAIN m
        /\ DOMAIN mem \subseteq DOMAIN m /\ \A i \in DOMAIN mem : m[i] = mem[i]
        /\ m[n] = NodeOf(word, rule, n + 1)
        /\ rule.marker => m[n + 1] = MarkerNode
    BY NodeStored
  <2>4. rest = Len(ts) - Taken(word) /\ t = Node(word.w, word.v, word.opt, Left(ts, rest))
    BY DEF Rest, Made, Left
  <2>5. Len(stack) = Len(ts) /\ Len(ts) \in Nat
    BY <2>1, LenProperties DEF Copied
  <2>6. \A i \in DOMAIN mem : mem[i].kids \in Seq(DOMAIN mem)
    BY DEF AstInv, Forest, Ordered
  <2>7. Len(stack) - rule.pops = rest
    BY <2>4, <2>5, <2>1 DEF Suits
  <2>8. stack' = Append(SubSeq(stack, 1, rest), n)
    BY <1>1, <2>7
  <2> HIDE DEF word, ts, rule, n, rest, t, m
  <2>9. Copied(m, stack, ts)
    <3>1. Grows(mem, m)
      BY <2>3, <2>6 DEF Grows
    <3> QED BY <2>1, <3>1, CopiedKept
  <2>10. Copied(m, SubSeq(stack, 1, rest), SubSeq(ts, 1, rest))
    BY <2>1, <2>9, CopiedCut
  <2>11. n \in Copies(m)[t]
    <3>1. Taken(word) \in Int
      BY <2>2 DEF Taken, Uncounted
    <3>2. Taken(word) = Len(ts) - rest
      BY <2>4, <2>5, <3>1
    <3> QED BY <2>1, <2>2, <2>3, <2>4, <2>9, <3>2, NodeIsCopy
  <2>12. Copied(m, Append(SubSeq(stack, 1, rest), n), Append(SubSeq(ts, 1, rest), t))
    BY <2>1, <2>10, <2>11, CopiedPushed
  <2> QED BY <2>1, <2>8, <2>12 DEF m
<1> QED BY <1>1, <1>2, <1>3, BuilderGoesOn

-----------------------------------------------------------------------------
(* A column definition.                                                    *)

\* The column that the builder has before it reads as one.
LEMMA ColumnHere ==
  ASSUME AstInv, Reproduced, AtColumn, lost = None, Plain
  PROVE  LET def == queue[AfterAttrs]
             t == Column(def.v, DataType(def.n), [i \in 1 .. AfterAttrs - 2 |-> queue[i + 1].v])
         IN  /\ def.w = "COLUMNDEF" /\ KnownType(def.n) /\ CutAt(def.v) = def.v
             /\ ReadsOn(After(Done + AfterAttrs))
             /\ t \in Trees
             /\ After(Done + AfterAttrs).trees = Append(After(Done).trees, t)
             /\ Copied(mem, stack, After(Done).trees)
<1> DEFINE k == Done
           ws == WordsOf[stmt]
           d == AfterAttrs
           n == d - 2
           A == [x \in Nat |-> After(x)]
           attrs == [i \in 1 .. n |-> queue[i + 1].v]
           def == queue[d]
<1>1. pc \in Builders /\ queue # <<>> /\ Head(queue).w = "STARTCOL"
  BY DEF AtColumn, Building
<1>2. /\ queue \in Seq(Vocabulary)
      /\ d \in 2 .. Len(queue) /\ def.w # "ATTR" /\ \A j \in 2 .. d - 1 : queue[j].w = "ATTR"
      /\ Len(queue) \in Nat /\ Head(queue) = queue[1]
  BY <1>1, AttrsEnd, TailEnd DEF AstInv, Worded
<1>3. /\ stmt \in Statements /\ stmt.w \in Builders
      /\ Len(ws) \in Nat /\ k \in 0 .. Len(ws)
      /\ Len(queue) = Len(ws) - k
      /\ \A i \in 1 .. Len(queue) : queue[i] = ws[k + i]
  BY <1>1, Place
<1>4. ReadsOn(After(k)) /\ Copied(mem, stack, After(k).trees)
  BY <1>1 DEF Reproduced, Rebuilding
<1>5. Reader(A, ws, stmt.w) /\ \A x \in Nat : A[x] = After(x)
  BY <1>3, AfterReads
<1>6. \A x \in Nat : After(x + 1) = ReadWord(stmt.w, After(x), ws[x + 1])
  BY <1>3, AfterNext
<1>7. \A x \in 0 .. Len(ws) : After(x).ok
  BY <1>3, StatementReads
<1>8. \A x \in 1 .. Len(ws) :
        ws[x].w = "COLUMNDEF" => KnownType(ws[x].n) /\ CutAt(ws[x].v) = ws[x].v
  BY <1>3, WordsPlain
<1> HIDE DEF k, ws, d, A
<1>9. /\ k \in Nat /\ n \in Nat /\ k + 1 + n \in Nat /\ k + 1 + n + 1 = k + d
      /\ k + d \in 0 .. Len(ws) /\ k + d \in 1 .. Len(ws) /\ d \in 1 .. Len(queue) /\ 1 \in 1 .. Len(queue)
  <2>1. Len(ws) \in Nat /\ k \in 0 .. Len(ws) /\ Len(queue) = Len(ws) - k /\ d \in 2 .. Len(queue)
    BY <1>2, <1>3
  <2>2. k \in Nat /\ d \in Nat /\ 2 <= d /\ k + d <= Len(ws) /\ d <= Len(queue) /\ Len(queue) \in Nat
    BY ONLY <2>1
  <2> QED BY ONLY <2>1, <2>2
<1>10. Attributes(ws, k, n, attrs)
  <2>1. ASSUME NEW j \in 1 .. n
        PROVE  ws[k + 1 + j].w = "ATTR" /\ ws[k + 1 + j].v = attrs[j]
    <3>1. j + 1 \in 1 .. Len(queue) /\ j + 1 \in 2 .. d - 1 /\ k + (j + 1) = k + 1 + j
      BY <1>2, <1>3
    <3>2. queue[j + 1] = ws[k + (j + 1)]
      BY <1>3, <3>1
    <3> HIDE DEF n
    <3>3. attrs[j] = queue[j + 1].v
      OBVIOUS
    <3> QED BY <1>2, <3>1, <3>2, <3>3
  <2>2. ws[k + 1].w = "STARTCOL"
    BY <1>1, <1>2, <1>3, <1>9
  <2>3. attrs = [x \in 1 .. n |-> attrs[x]]
    OBVIOUS
  <2> QED BY <2>1, <2>2, <2>3 DEF Attributes
<1> HIDE DEF n, attrs
<1>11. After(k + 1 + n) = [ok |-> TRUE, trees |-> After(k).trees, open |-> TRUE, attrs |-> attrs]
  <2>1. ReadsOn(A[k])
    BY <1>4, <1>5, <1>9
  <2>2. ColumnOpen(A[k + 1 + n], A[k].trees, attrs)
    BY <1>5, <1>9, <1>10, <2>1, AttrsRead
  <2> QED BY <1>5, <1>9, <2>2 DEF ColumnOpen
<1> DEFINE r == After(k + 1 + n)
<1>12. After(k + d) = ReadWord(stmt.w, r, def) /\ After(k + d).ok
  <2>1. def = ws[k + d]
    BY <1>3, <1>9
  <2>2. After(k + 1 + n + 1) = ReadWord(stmt.w, r, ws[k + 1 + n + 1])
    BY <1>6, <1>9
  <2>3. After(k + d).ok
    BY <1>7, <1>9
  <2> QED BY <1>9, <2>1, <2>2, <2>3
<1>13. r.ok = TRUE /\ r.open = TRUE /\ r.trees = After(k).trees /\ r.attrs = attrs
  BY <1>11
<1> HIDE DEF r, def
<1>14. def.w = "COLUMNDEF"
  <2>1. ReadOwn(r, def) = Bad
    BY <1>13 DEF ReadOwn
  <2>2. def.w # "COLUMNDEF" => ReadWord(stmt.w, r, def) = Bad
    BY <1>2, <1>13, <2>1, SMT DEF ReadWord, ReadColumn, ReadOwn, Skipped, Bad, def
  <2> QED BY <1>12, <2>2 DEF Bad
<1>15. ReadWord(stmt.w, r, def) = ReadColumn(r, def)
  BY <1>13, <1>14, ReadClosing
<1>16. /\ MadeColumn(r, def) \in Trees
       /\ ReadsOn(After(k + d)) /\ After(k + d).trees = Append(r.trees, MadeColumn(r, def))
  <2>1. ReadColumn(r, def).ok
    BY <1>12, <1>15
  <2>2. MadeColumn(r, def) \in Trees
    BY <1>13, <2>1 DEF ReadColumn, Bad
  <2>3. ReadColumn(r, def) = [ok |-> TRUE, trees |-> Append(r.trees, MadeColumn(r, def)), open |-> FALSE, attrs |-> <<>>]
    BY <1>13, <2>2 DEF ReadColumn
  <2> QED BY <1>12, <1>15, <2>2, <2>3 DEF ReadsOn
<1>17. KnownType(def.n) /\ CutAt(def.v) = def.v
  <2>1. def = ws[k + d]
    BY <1>3, <1>9 DEF def
  <2> QED BY <1>8, <1>9, <1>14, <2>1
<1>18. MadeColumn(r, def) = Column(def.v, DataType(def.n), attrs)
  BY <1>13 DEF MadeColumn
<1> QED BY <1>4, <1>13, <1>14, <1>16, <1>17, <1>18 DEF k, d, n, attrs, def

LEMMA BuildColumnReproduces == ASSUME AstInv, Reproduced, BuildColumn PROVE Reproduced'
<1> DEFINE d == AfterAttrs
           def == queue[d]
           n == NewId
           m == mem'
           node == ColumnNode(def)
           ts == After(Done).trees
           attrs == [i \in 1 .. d - 2 |-> queue[i + 1].v]
           t == Column(def.v, DataType(def.n), attrs)
<1>1. /\ AtColumn /\ pc \in Builders /\ queue # <<>> /\ UNCHANGED <<stmt, lost, oom, pc>>
      /\ queue' = SubSeq(queue, d + 1, Len(queue)) /\ stack' = Append(stack, n) /\ m = mem \o <<node>>
      /\ Head(queue).w = "STARTCOL"
  BY DEF BuildColumn, AtColumn, Building, syntaxVars
<1>2. d \in 0 .. Len(queue) /\ queue' = Left(queue, d)
  <2>1. d \in 2 .. Len(queue)
    BY <1>1, AttrsEnd DEF AstInv, Worded
  <2> HIDE DEF d
  <2> QED BY <1>1, <2>1 DEF Left
<1>3. ASSUME lost = None /\ Plain
      PROVE  ReadsOn(After(Done + d)) /\ Copied(m, stack', After(Done + d).trees)
  <2>1. /\ CutAt(def.v) = def.v
        /\ ReadsOn(After(Done + d))
        /\ t \in Trees /\ After(Done + d).trees = Append(ts, t)
        /\ Copied(mem, stack, ts)
    BY <1>1, <1>3, ColumnHere
  <2>2. mem \in Seq(ToSet(mem))
    BY <1>1 DEF AstInv, Phases
  <2>3. n = Len(mem) + 1
    BY <2>2, IdIsNew
  <2>4. /\ n \in DOMAIN m /\ m[n] = node
        /\ \A i \in DOMAIN mem : i \in DOMAIN m /\ m[i] = mem[i]
    <3> HIDE DEF n, m, node
    <3> QED BY <1>1, <2>2, <2>3, OneMore
  <2>5. \A i \in DOMAIN mem : mem[i].kids \in Seq(DOMAIN mem)
    BY DEF AstInv, Forest, Ordered
  <2>6. node.w = "COLUMNDEF" /\ node.v = def.v /\ node.type = DataType(def.n) /\ node.flags = FlagsOf(attrs)
    BY <2>1 DEF ColumnNode
  <2>7. t.w = "COLUMNDEF" /\ t.v = def.v /\ t.type = DataType(def.n) /\ t.attrs = attrs
    BY DEF Column
  <2> HIDE DEF d, def, n, m, node, ts, attrs, t
  <2>8. Copied(m, stack, ts)
    <3>1. Grows(mem, m)
      BY <2>4, <2>5 DEF Grows
    <3> QED BY <2>1, <3>1, CopiedKept
  <2>9. n \in Copies(m)[t]
    <3>1. n \in CopiesFrom(Copies(m), m, t)
      BY <2>4, <2>6, <2>7 DEF CopiesFrom
    <3> QED BY <2>1, <3>1, CopiesDef
  <2>10. Copied(m, Append(stack, n), Append(ts, t))
    BY <2>1, <2>8, <2>9, CopiedPushed
  <2> QED BY <1>1, <2>1, <2>10 DEF m, n
<1> QED BY <1>1, <1>2, <1>3, BuilderGoesOn

LEMMA ColumnFailingReproduces ==
  ASSUME AstInv, Reproduced, ColumnFails \/ ColumnMatchFails \/ ColumnCrashes
  PROVE  Reproduced'
<1>1. AtColumn /\ stmt' = stmt /\ lost' = lost
  BY DEF ColumnFails, ColumnMatchFails, ColumnCrashes, Crash, syntaxVars
<1>2. (lost # None => oom) /\ oom \in BOOLEAN
  BY DEF Reproduced, AstInv, Phases
<1>3. lost = None /\ Plain => queue[AfterAttrs].w = "COLUMNDEF" /\ KnownType(queue[AfterAttrs].n)
  BY <1>1, ColumnHere
<1>4. CASE ColumnFails
  <2>1. pc' = "unwind" /\ oom'
    BY <1>4 DEF ColumnFails, Fails
  <2> QED BY <1>1, <2>1, Abandons
<1>5. CASE ColumnMatchFails
  <2>1. pc' \in {"unwind", "down"} /\ (oom' \/ (queue[AfterAttrs].w # "COLUMNDEF" /\ oom' = oom))
    BY <1>5 DEF ColumnMatchFails, Fails
  <2>2. oom' \/ ~Plain
    BY <1>2, <1>3, <2>1
  <2>3. oom => oom'
    BY <2>1
  <2> QED BY <1>1, <2>1, <2>2, <2>3, Abandons
<1>6. CASE ColumnCrashes
  <2>1. pc' = "down" /\ (oom' \/ (~KnownType(queue[AfterAttrs].n) /\ oom' = oom))
    BY <1>6 DEF ColumnCrashes, Crash, Fails
  <2>2. oom' \/ ~Plain
    BY <1>2, <1>3, <2>1
  <2>3. oom => oom'
    BY <2>1
  <2> QED BY <1>1, <2>1, <2>2, <2>3, Abandons
<1> QED BY <1>4, <1>5, <1>6

-----------------------------------------------------------------------------
(* The end of the statement.                                               *)

\* When the builder comes to STMT the statement is all there is on the stack.
LEMMA EndReads ==
  ASSUME AstInv, Reproduced, AtEnd, lost = None, Plain
  PROVE  Len(stack) = 1 /\ stack[1] \in Copies(mem)[stmt]
<1>1. pc \in Builders /\ queue # <<>> /\ Head(queue).w = "STMT"
  BY DEF AtEnd, Building
<1>2. Done + 1 = Len(WordsOf[stmt]) /\ stmt \in Statements /\ stmt.w \in Builders /\ Done \in Nat
  BY <1>1, WordAtHand, Place, NextWord
<1>3. Copied(mem, stack, After(Done).trees)
  BY <1>1 DEF Reproduced, Rebuilding
<1> DEFINE k == Done
<1> HIDE DEF k
<1>4. k = Len(WordsOf[stmt]) - 1
  BY <1>2 DEF k
<1>5. After(k).trees = <<stmt>>
  BY <1>2, <1>4, StatementReads
<1>6. Copied(mem, stack, <<stmt>>)
  BY <1>3, <1>5 DEF k
<1>7. Len(<<stmt>>) = 1 /\ <<stmt>>[1] = stmt /\ 1 \in 1 .. 1
  OBVIOUS
<1> QED BY <1>6, <1>7 DEF Copied

LEMMA FinishReproduces == ASSUME AstInv, Reproduced, FinishTree \/ FinishCrashes PROVE Reproduced'
<1>1. AtEnd /\ stmt' = stmt /\ lost' = lost /\ oom' = oom /\ mem' = mem
  BY DEF FinishTree, FinishCrashes, Crash, syntaxVars
<1>2. (lost # None => oom) /\ oom \in BOOLEAN
  BY DEF Reproduced, AstInv, Phases
<1>3. CASE FinishTree
  <2>1. pc' = "built" /\ root' = Last(stack) /\ Len(stack) = 1
    BY <1>3 DEF FinishTree
  <2>2. lost = None /\ Plain => root' \in Copies(mem)[stmt]
    BY <1>1, <2>1, EndReads DEF Last
  <2>3. Plain' = Plain /\ Copies(mem)' = Copies(mem)
    BY <1>1 DEF Plain, Copies
  <2>4. pc' \notin Builders /\ pc' # "parse" /\ pc' # "down"
    BY <2>1, BuilderNames
  <2>5. lost' = None /\ Plain' => root' \in Copies(mem')[stmt']
    BY <1>1, <2>2, <2>3
  <2> QED BY <1>1, <1>2, <2>4, <2>5 DEF Reproduced
<1>4. CASE FinishCrashes
  <2>1. pc' = "down" /\ Len(stack) # 1
    BY <1>4 DEF FinishCrashes, Crash
  <2>2. lost = None /\ Plain => FALSE
    BY <1>1, <2>1, EndReads
  <2> QED BY <1>1, <1>2, <2>1, <2>2, Abandons
<1> QED BY <1>3, <1>4

LEMMA EndReproduces == ASSUME AstInv, Reproduced, Unwind \/ Refuse \/ Release PROVE Reproduced'
<1>1. stmt' = stmt /\ lost' = lost /\ oom' = oom /\ pc' \in {"unwind", "failed", "done"}
  BY DEF Unwind, Refuse, Release, syntaxVars
<1> QED BY <1>1, Abandons

-----------------------------------------------------------------------------

LEMMA ReproducedInit == InitAst => Reproduced
<1> SUFFICES ASSUME InitAst PROVE Reproduced
  OBVIOUS
<1>1. pc = "parse" /\ lost = None /\ queue = <<>> /\ todo = WordsOf[stmt] /\ stmt \in Statements
  BY DEF InitAst
<1>2. WordsOf[stmt] \in Seq(ToSet(WordsOf[stmt]))
  BY <1>1, WordsAssumption
<1>3. queue \o todo = WordsOf[stmt]
  BY <1>1, <1>2, ConcatEmptySeq
<1>4. pc \notin Builders /\ pc # "built" /\ pc # "down"
  BY <1>1, BuilderNames
<1> QED BY <1>1, <1>3, <1>4 DEF Reproduced

LEMMA ReproducedNext == AstInv /\ Reproduced /\ [Next]_vars => Reproduced'
<1> SUFFICES ASSUME AstInv, Reproduced, [Next]_vars PROVE Reproduced'
  OBVIOUS
<1>1. CASE EmitWord \/ LoseWord \/ QueueCannotGrow \/ SyntaxError \/ SyntaxErrorUntold
  BY <1>1, ParseReproduces
<1>2. CASE Dispatch \/ DispatchFails \/ DispatchCrashes
  BY <1>2, DispatchReproduces
<1>3. CASE DiscardWhere
  BY <1>3, WhereReproduces
<1>4. CASE BuildNode
  BY <1>4, BuildNodeReproduces
<1>5. CASE NodeFails \/ MatchFails \/ BuilderCrashes \/ StackCannotGrow
  BY <1>5, FailingReproduces
<1>6. CASE BuildColumn
  BY <1>6, BuildColumnReproduces
<1>7. CASE ColumnFails \/ ColumnMatchFails \/ ColumnCrashes
  BY <1>7, ColumnFailingReproduces
<1>8. CASE FinishTree \/ FinishCrashes
  BY <1>8, FinishReproduces
<1>9. CASE Unwind \/ Refuse \/ Release
  BY <1>9, EndReproduces
<1>10. CASE UNCHANGED vars
  <2>1. UNCHANGED <<stmt, todo, queue, stack, mem, root, oom, lost, pc>>
    BY <1>10 DEF vars
  <2>2. Plain' = Plain /\ Done' = Done
    BY <2>1 DEF Plain, Done
  <2>3. Rebuilding' = Rebuilding
    <3>1. Rebuilding' = (ReadsOn(After(Done')) /\ Copied(mem', stack', After(Done').trees))
      BY <2>1 DEF Rebuilding, After
    <3> QED BY <2>1, <2>2, <3>1 DEF Rebuilding
  <2>4. Copies(mem)' = Copies(mem)
    BY <2>1 DEF Copies
  <2>5. (root \in Copies(mem)[stmt])' = (root \in Copies(mem)[stmt])
    BY <2>1, <2>4
  <2> QED BY <2>1, <2>2, <2>3, <2>5 DEF Reproduced
<1> QED BY <1>1, <1>2, <1>3, <1>4, <1>5, <1>6, <1>7, <1>8, <1>9, <1>10 DEF Next, Ending

LEMMA ReproducedHolds == Spec => []Reproduced
<1>1. InitAst => Reproduced
  BY ReproducedInit
<1>2. AstInv /\ Reproduced /\ [Next]_vars => Reproduced'
  BY ReproducedNext
<1> QED BY <1>1, <1>2, InvHolds, PTL DEF Spec

LEMMA ReproducedMeans == Reproduced => BuiltAsWritten /\ DownOnlyOnFaults
BY DEF Reproduced, BuiltAsWritten, DownOnlyOnFaults

\* The tree that the semantic phase gets is the statement as it was written,
\* for every tree that the grammar can make of a statement.
THEOREM BuiltAsWrittenHolds == Spec => []BuiltAsWritten
BY ReproducedHolds, ReproducedMeans, PTL

\* No statement that the builders claim to read ends the process in them
\* unless an allocation fails.
THEOREM DownOnlyOnFaultsHolds == Spec => []DownOnlyOnFaults
BY ReproducedHolds, ReproducedMeans, PTL

=============================================================================
