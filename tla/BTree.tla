------------------------------- MODULE BTree -------------------------------
(***************************************************************************)
(* The B-tree of MidoriDB (src/src/datastructure/btree.c).  An operation   *)
(* runs on one thread from the root down, splitting or filling nodes before *)
(* it enters them, and is one step here.                                   *)
(*                                                                         *)
(* A node is its array of keys, how many of them count, and its children.  *)
(* The array is kept in full: what lies behind key_count is not always     *)
(* zeroed and btree_search looks at the first of those entries.  A value    *)
(* goes wherever its key goes and is left out.                             *)
(*                                                                         *)
(* What calls itself in the code is a function of the height: what a node   *)
(* needs is done by that function for the height below on its children.    *)
(*                                                                         *)
(* A removal whose merge cannot copy the children of a node returns with    *)
(* that node's keys zeroed.  What insertions and removals do with such a    *)
(* tree is not followed (their comparisons with a zeroed key follow NULL):  *)
(* here it is destroyed next.                                              *)
(***************************************************************************)
EXTENDS Integers, FiniteSets

CONSTANTS
  Keys,  \* keys, compared as cmp_fn compares them
  T,     \* min_degree
  NoKey, \* NULL: a place of the array that was zeroed
  Mem    \* bound: nodes that one insertion allocates, at most

ASSUME DegreeAssumption == T \in Nat /\ T >= 2 /\ Keys \subseteq Int \ {NoKey} /\ Mem \in Nat

VARIABLES
  root,    \* head->root
  height,  \* ghost: how far the leaves are below the root
  members, \* ghost: the keys inserted and not removed since
  torn     \* ghost: a merge has failed half-way

btvars == <<root, height, members, torn>>

Full == 2 * T - 1          \* btree_max_degree
Places == 0 .. Full        \* of the arrays: Full and a sentinel

NoNode == [count |-> 0]

Node(keys, count, kids) == [keys |-> keys, count |-> count, kids |-> kids]

\* The nodes with leaves at most h below them.
Trees[h \in Nat] ==
  [keys : [Places -> Keys \cup {NoKey}], count : 0 .. Full,
   kids : [Places -> {NoNode} \cup IF h = 0 THEN {} ELSE Trees[h - 1]]]

NoKeys == [p \in Places |-> NoKey]
NoKids == [q \in Places |-> NoNode]

IsLeaf(n) == n.kids[0] = NoNode

SetKid(n, i, kid) == Node(n.keys, n.count, [n.kids EXCEPT ![i] = kid])

\* keys[at] becomes key, the keys from there on move up by one.
Opened(n, at, key) ==
  [p \in Places |-> CASE p = at -> key
                      [] p > at /\ p <= n.count -> n.keys[p - 1]
                      [] OTHER -> n.keys[p]]

\* Mutant of Closed: the loop stops one key early.
ClosedShort(n, at) ==
  [p \in Places |-> IF p >= at /\ p + 2 < n.count THEN n.keys[p + 1] ELSE n.keys[p]]

\* The keys after at move down by one.  Only moved keys leave a zero behind:
\* when at is the last key, the key stays where it was.
Closed(n, at) ==
  [p \in Places |-> CASE p >= at /\ p + 1 < n.count -> n.keys[p + 1]
                      [] p + 1 = n.count /\ at < p -> NoKey
                      [] OTHER -> n.keys[p]]

\* T children of a node from one on.
Half(n, first) == [q \in Places |-> IF q < T THEN n.kids[q + first] ELSE NoNode]

\* Keys of n that are smaller than key, and those that are not greater.
Smaller(n, key) == Cardinality({p \in 0 .. n.count - 1 : n.keys[p] < key})
NotGreater(n, key) == Cardinality({p \in 0 .. n.count - 1 : n.keys[p] <= key})

----------------------------------------------------------------------------
(* btree_search: at the end of the scan i may be key_count *)

Search[h \in Nat] ==
  [n \in Trees[h] |-> [key \in Keys |->
     LET i == Smaller(n, key)
     IN  \/ n.keys[i] = key
         \/ ~IsLeaf(n) /\ Search[h - 1][n.kids[i]][key]]]

Lookup(key) == root # NoNode /\ Search[height][root][key]

----------------------------------------------------------------------------
(* Insertion *)

\* btree_split_child
SplitChild(x, i) ==
  LET y == x.kids[i]
      left  == Node([p \in Places |-> IF p < T - 1 \/ p = Full THEN y.keys[p] ELSE NoKey],
                    T - 1, Half(y, 0))
      right == Node([p \in Places |-> IF p < T - 1 THEN y.keys[p + T] ELSE NoKey],
                    T - 1, Half(y, T))
  IN  Node(Opened(x, i, y.keys[T - 1]), x.count + 1,
           [q \in Places |-> CASE q < i -> x.kids[q]
                               [] q = i -> left
                               [] q = i + 1 -> right
                               [] OTHER -> x.kids[q - 1]])

NeedsSplit(n) == n.count = Full

\* btree_insert_nonfull with mem nodes to allocate: the new subtree, and
\* whether the key is in it.  Splits made on the way stay when a later one fails.
InsertNonfull[h \in Nat] ==
  [x \in Trees[h] |-> [key \in Keys |-> [mem \in Nat |->
     LET i == NotGreater(x, key)
         split == NeedsSplit(x.kids[i])
         y == IF split THEN SplitChild(x, i) ELSE x
         j == IF split /\ y.keys[i] < key THEN i + 1 ELSE i
         r == InsertNonfull[h - 1][y.kids[j]][key][IF split THEN mem - 1 ELSE mem]
     IN  CASE IsLeaf(x) -> [node |-> Node(Opened(x, i, key), x.count + 1, NoKids), ok |-> TRUE]
           [] ~IsLeaf(x) /\ split /\ mem = 0 -> [node |-> x, ok |-> FALSE]
           [] OTHER -> [node |-> SetKid(y, j, r.node), ok |-> r.ok]]]]

\* A new root above the old one.
Above == Node(NoKeys, 0, [NoKids EXCEPT ![0] = root])

\* btree_insert: the node that is the root afterwards, and whether it has the
\* key.  A full root gets a node above it, then it is split.
Inserted(key, mem) ==
  CASE root = NoNode /\ mem = 0 -> [node |-> root, ok |-> FALSE]
    [] root = NoNode /\ mem > 0 -> [node |-> Node([NoKeys EXCEPT ![0] = key], 1, NoKids), ok |-> TRUE]
    [] root # NoNode /\ ~NeedsSplit(root) -> InsertNonfull[height][root][key][mem]
    [] root # NoNode /\ NeedsSplit(root) /\ mem = 0 -> [node |-> root, ok |-> FALSE]
    [] root # NoNode /\ NeedsSplit(root) /\ mem = 1 -> [node |-> Above, ok |-> FALSE]
    [] root # NoNode /\ NeedsSplit(root) /\ mem > 1 ->
         InsertNonfull[height + 1][SplitChild(Above, 0)][key][mem - 2]

----------------------------------------------------------------------------
(* Removal *)

\* btree_node_get_predecessor, btree_node_get_successor
Rightmost[h \in Nat] ==
  [n \in Trees[h] |-> IF IsLeaf(n) THEN n.keys[n.count - 1] ELSE Rightmost[h - 1][n.kids[n.count]]]

Leftmost[h \in Nat] ==
  [n \in Trees[h] |-> IF IsLeaf(n) THEN n.keys[0] ELSE Leftmost[h - 1][n.kids[0]]]

\* Node n when child i and the one after it have become one.
WithoutGap(n, i, merged) ==
  Node(Closed(n, i), n.count - 1,
       [q \in Places |-> CASE q < i -> n.kids[q]
                           [] q = i -> merged
                           [] q > i /\ q < n.count -> n.kids[q + 1]
                           [] OTHER -> NoNode])

\* Mutant of Merge: the key between the two children is not moved down.
MergeLosesKey(n, i) ==
  LET child == n.kids[i]
      sibling == n.kids[i + 1]
      keys == [p \in Places |->
                 IF p >= T - 1 /\ p < T - 1 + sibling.count THEN sibling.keys[p - T + 1] ELSE child.keys[p]]
  IN  WithoutGap(n, i, Node(keys, child.count + sibling.count, child.kids))

\* The keys of child i of n, the key after it and those of the next child.
MergedKeys(n, i) ==
  LET sibling == n.kids[i + 1]
  IN  [p \in Places |-> CASE p = T - 1 -> n.keys[i]
                          [] p >= T /\ p < T + sibling.count -> sibling.keys[p - T]
                          [] OTHER -> n.kids[i].keys[p]]

\* btree_node_merge
Merge(n, i) ==
  LET child == n.kids[i]
      sibling == n.kids[i + 1]
      kids == [q \in Places |-> IF q < T THEN child.kids[q] ELSE sibling.kids[q - T]]
  IN  WithoutGap(n, i, Node(MergedKeys(n, i), child.count + sibling.count + 1, kids))

\* The same when a child of the sibling cannot be copied: its keys are already
\* zeroed, and stand in the child behind its count.
TornMerge(n, i) ==
  LET child == n.kids[i]
      sibling == n.kids[i + 1]
      zeroed == [p \in Places |-> IF p < sibling.count THEN NoKey ELSE sibling.keys[p]]
  IN  Node(n.keys, n.count,
           [n.kids EXCEPT ![i] = Node(MergedKeys(n, i), child.count, child.kids),
                          ![i + 1] = Node(zeroed, sibling.count, sibling.kids)])

\* btree_node_borrow_from_prev_child: the sibling keeps the key it gave away
\* behind its count.
BorrowFromPrev(n, i) ==
  LET child == n.kids[i]
      sibling == n.kids[i - 1]
      gained == Node(Opened(child, 0, n.keys[i - 1]), child.count + 1,
                     IF IsLeaf(child) THEN child.kids
                     ELSE [q \in Places |-> IF q = 0 THEN sibling.kids[sibling.count] ELSE child.kids[q - 1]])
      rest   == Node(sibling.keys, sibling.count - 1,
                     [sibling.kids EXCEPT ![sibling.count] = NoNode])
  IN  Node([n.keys EXCEPT ![i - 1] = sibling.keys[sibling.count - 1]], n.count,
           [n.kids EXCEPT ![i] = gained, ![i - 1] = rest])

\* btree_node_borrow_from_next_child
BorrowFromNext(n, i) ==
  LET child == n.kids[i]
      sibling == n.kids[i + 1]
      gained == Node([child.keys EXCEPT ![child.count] = n.keys[i]], child.count + 1,
                     IF IsLeaf(child) THEN child.kids
                     ELSE [child.kids EXCEPT ![child.count + 1] = sibling.kids[0]])
      rest   == Node([p \in Places |->
                        CASE p + 1 < sibling.count -> sibling.keys[p + 1]
                          [] p + 1 = sibling.count -> NoKey
                          [] OTHER -> sibling.keys[p]],
                     sibling.count - 1,
                     [q \in Places |-> IF q < sibling.count THEN sibling.kids[q + 1] ELSE NoNode])
  IN  Node([n.keys EXCEPT ![i] = sibling.keys[0]], n.count,
           [n.kids EXCEPT ![i] = gained, ![i + 1] = rest])

\* Mutant of Spare: a child with too few keys is taken to have one to give.
SpareTooSoon(n) == n.count >= T - 1

\* A child that a key can be taken from.
Spare(n) == n.count >= T

\* btree_node_fill merges when neither neighbour has a key to give.
LendsPrev(n, i) == i # 0 /\ Spare(n.kids[i - 1])
LendsNext(n, i) == i # n.count /\ Spare(n.kids[i + 1])
MergeAt(n, i) == IF i # n.count THEN i ELSE i - 1

\* btree_node_fill
Fill(n, i) ==
  CASE LendsPrev(n, i) -> BorrowFromPrev(n, i)
    [] ~LendsPrev(n, i) /\ LendsNext(n, i) -> BorrowFromNext(n, i)
    [] OTHER -> Merge(n, MergeAt(n, i))

\* Key i of n gives way to another one.
SetKey(n, i, key) == Node([n.keys EXCEPT ![i] = key], n.count, n.kids)

\* btree_node_remove and btree_node_remove_from_inter_node when memory is short
\* at a height: a merge there that has children to copy fails.  The new subtree,
\* and whether the removal went through.
NodeRemove[h \in Nat] ==
  [n \in Trees[h] |-> [key \in Keys |-> [short \in Nat |->
     LET i == Smaller(n, key)
         here == i < n.count /\ n.keys[i] = key
         Fails(at) == h = short /\ ~IsLeaf(n.kids[at])
         Torn(at) == [node |-> TornMerge(n, at), ok |-> FALSE]
         With(m, at, k) == LET r == NodeRemove[h - 1][m.kids[at]][k][short]
                           IN  [node |-> SetKid(m, at, r.node), ok |-> r.ok]
         pred == Rightmost[h - 1][n.kids[i]]
         succ == Leftmost[h - 1][n.kids[i + 1]]
         merges == ~Spare(n.kids[i]) /\ ~LendsPrev(n, i) /\ ~LendsNext(n, i)
         m == IF Spare(n.kids[i]) THEN n ELSE Fill(n, i)
     IN  CASE IsLeaf(n) /\ here -> [node |-> Node(Closed(n, i), n.count - 1, NoKids), ok |-> TRUE]
           [] IsLeaf(n) /\ ~here -> [node |-> n, ok |-> TRUE]
           [] ~IsLeaf(n) /\ here /\ Spare(n.kids[i]) -> With(SetKey(n, i, pred), i, pred)
           [] ~IsLeaf(n) /\ here /\ ~Spare(n.kids[i]) /\ Spare(n.kids[i + 1]) -> With(SetKey(n, i, succ), i + 1, succ)
           [] ~IsLeaf(n) /\ here /\ ~Spare(n.kids[i]) /\ ~Spare(n.kids[i + 1]) ->
                IF Fails(i) THEN Torn(i) ELSE With(Merge(n, i), i, key)
           [] ~IsLeaf(n) /\ ~here ->
                IF merges /\ Fails(MergeAt(n, i)) THEN Torn(MergeAt(n, i))
                ELSE With(m, IF i > m.count THEN i - 1 ELSE i, key)]]]

\* btree_remove: an empty root gives way to its only child.
Shortened(r) ==
  CASE r.count > 0 -> r
    [] r.count = 0 /\ IsLeaf(r) -> NoNode
    [] r.count = 0 /\ ~IsLeaf(r) -> r.kids[0]

----------------------------------------------------------------------------
Init == root = NoNode /\ height = 0 /\ members = {} /\ torn = FALSE

\* A root that is full gets one above it if there is a node to be had.
Rises(mem) == root # NoNode /\ NeedsSplit(root) /\ mem > 0

\* btree_insert does not look for the key: callers insert those not there.
BtreeInsert(key, mem) ==
  /\ ~torn /\ key \notin members
  /\ LET r == Inserted(key, mem)
     IN  root' = r.node /\ members' = IF r.ok THEN members \cup {key} ELSE members
  /\ height' = IF Rises(mem) THEN height + 1 ELSE height
  /\ UNCHANGED torn

\* The root's only child takes its place.
Sinks(r) == r.count = 0 /\ ~IsLeaf(r)

BtreeRemove(key, short) ==
  /\ ~torn /\ root # NoNode
  /\ LET r == NodeRemove[height][root][key][short]
     IN  IF r.ok THEN /\ root' = Shortened(r.node)
                      /\ height' = IF Sinks(r.node) THEN height - 1 ELSE height
                      /\ members' = members \ {key}
                      /\ UNCHANGED torn
         ELSE root' = r.node /\ torn' = TRUE /\ UNCHANGED <<height, members>>

BtreeDestroy == root # NoNode /\ root' = NoNode /\ height' = 0 /\ members' = {} /\ torn' = FALSE

\* The lowest merges, those of leaves, copy nothing.
Next ==
  \/ \E key \in Keys, mem \in 0 .. Mem : BtreeInsert(key, mem)
  \/ \E key \in Keys, short \in {0} \cup 2 .. height : BtreeRemove(key, short)
  \/ BtreeDestroy

Spec == Init /\ [][Next]_btvars

----------------------------------------------------------------------------
----------------------------------------------------------------------------
(* Properties *)

OwnKeys(n) == {n.keys[p] : p \in 0 .. n.count - 1}

Children(n) == {q \in Places : n.kids[q] # NoNode}

\* The keys of a subtree.
KeysOf[h \in Nat] ==
  [n \in Trees[h] |-> OwnKeys(n) \cup UNION {KeysOf[h - 1][n.kids[q]] : q \in Children(n)}]

\* key stands between the keys q - 1 and q of n.
InGap(n, q, key) == \A p \in 0 .. n.count - 1 : IF p < q THEN n.keys[p] < key ELSE key < n.keys[p]

\* The keys of a subtree are in order: those of a child stand where the child does.
Ordered[h \in Nat] ==
  [n \in Trees[h] |->
     /\ \A p, q \in 0 .. n.count - 1 : p < q => n.keys[p] < n.keys[q]
     /\ \A q \in Children(n) :
          Ordered[h - 1][n.kids[q]] /\ \A key \in KeysOf[h - 1][n.kids[q]] : InGap(n, q, key)]

\* All leaves are h below n, the nodes between have T - 1 to Full keys and,
\* like n, one child more than keys.
Even[h \in Nat] ==
  [n \in Trees[h] |->
     /\ Children(n) = IF h = 0 THEN {} ELSE 0 .. n.count
     /\ \A q \in Children(n) : n.kids[q].count \in T - 1 .. Full /\ Even[h - 1][n.kids[q]]]

\* Splits, merges, borrowed keys and pulled predecessors neither lose a key nor
\* bring one back nor put one out of order, as long as no removal ran out of
\* memory in a merge: the tree holds the keys inserted and not removed, each
\* where a search from the root goes for it.
KeepsKeys ==
  ~torn => IF root = NoNode THEN members = {} ELSE Ordered[height][root] /\ KeysOf[height][root] = members

\* Every node but the root holds between T - 1 and 2T - 1 keys and one child
\* more than keys, and all leaves are at the same depth, also after a removal
\* that ran out of memory: what btree_node_merge relies on when it writes from
\* place T - 1 on, __btree_destroy when it follows the counts, and the cost of
\* a search.
Balanced ==
  root # NoNode => root.count \in 0 .. Full /\ Even[height][root]

\* A key of the tree is found, wherever it has been moved to, as long as no
\* removal ran out of memory in a merge.
FindsMembers == ~torn => \A key \in members : Lookup(key)

\* The scans of a search for key come upon a zeroed place, which cmp_fn follows:
\* btree_node_merge zeroes the keys of a node from the first on.
Trips[h \in Nat] ==
  [n \in Trees[h] |-> [key \in Keys |->
     IF n.count > 0 /\ n.keys[0] = NoKey THEN TRUE
     ELSE LET i == Smaller(n, key)
          IN  n.keys[i] # key /\ ~IsLeaf(n) /\ Trips[h - 1][n.kids[i]][key]]]

\* "This function returns the value for the given key, or NULL" (btree.h:59):
\* btree_lookup comes back from every tree that a client can have.
LookupReturns == root # NoNode => \A key \in Keys : ~Trips[height][root][key]

\* The same sentence: a key that is not in the tree is not found.
FindsOnlyMembers == ~torn => \A key \in Keys : Lookup(key) => key \in members
=============================================================================
