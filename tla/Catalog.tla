------------------------------ MODULE Catalog -------------------------------
(***************************************************************************)
(* The tables of a database (src/src/engine/database.c) and the sessions   *)
(* that create and look them up (executor_create.c, semantic_*.c).  The    *)
(* catalog is a hash table from names to tables.  CREATE changes it under  *)
(* database_lock; the semantic analysers and executors of every statement  *)
(* look tables up without it, CREATE's own first check included.           *)
(*                                                                         *)
(* A key of the hash table is the name of a table, its value the session   *)
(* whose CREATE built the table.                                           *)
(***************************************************************************)
EXTENDS HashTable

CONSTANTS
  Sessions,  \* threads that call query_execute on one database
  NoSession

ASSUME SessionAssumption == Vals = Sessions /\ NoSession \notin Sessions

VARIABLES
  mutex,  \* db->mutex: the session that holds it
  pc,     \* where each session is in its statement
  name,   \* the table that the statement of each session names
  reply,  \* the outcome of its last statement
  acked   \* ghost: the entries whose CREATE was reported to succeed

catvars == <<op, cap, array, count, grown, i, todo, answer,
             mutex, pc, name, reply, acked>>

Quiet == UNCHANGED htvars

Exists(n) == Found(n) # {}

\* What database_table_exists may answer to a caller without the lock.  While
\* another session resizes, the entry may be on its way to the new array.
Sighting(n) ==
  IF op = "resize" THEN {\E e \in Pairs : e.key = n, FALSE} ELSE {Exists(n)}

----------------------------------------------------------------------------
CatInit ==
  /\ HTInit
  /\ mutex = NoSession
  /\ pc = [s \in Sessions |-> "idle"]
  /\ name \in [Sessions -> Keys]
  /\ reply = [s \in Sessions |-> "none"]
  /\ acked = {}

\* database_open
DatabaseOpen == HashtableInit /\ UNCHANGED <<mutex, pc, name, reply, acked>>

Open == op \in {"idle", "resize"}

\* A thread that reads list heads that a resize has freed may die; all do.
Dies(s) ==
  /\ op = "resize"
  /\ pc' = [t \in Sessions |-> "dead"]
  /\ Quiet /\ UNCHANGED <<mutex, name, reply, acked>>

Ends(s, outcome) ==
  /\ pc' = [pc EXCEPT ![s] = "idle"]
  /\ reply' = [reply EXCEPT ![s] = outcome]

\* A statement on an existing table: its analysers look the table up.
UseTable(s, n) ==
  /\ Open /\ pc[s] = "idle"
  /\ \/ /\ name' = [name EXCEPT ![s] = n]
        /\ \E found \in Sighting(n) : Ends(s, IF found THEN "found" ELSE "missing")
        /\ Quiet /\ UNCHANGED <<mutex, acked>>
     \/ Dies(s)

\* semantic_analyse_create_stmt: only a plain CREATE checks the name.
AnalyseCreate(s, n, ifNotExists) ==
  /\ Open /\ pc[s] = "idle"
  /\ \/ /\ name' = [name EXCEPT ![s] = n]
        /\ \E found \in IF ifNotExists THEN {FALSE} ELSE Sighting(n) :
             IF found THEN Ends(s, "error")
             ELSE /\ pc' = [pc EXCEPT ![s] = IF ifNotExists THEN "lock if" ELSE "lock"]
                  /\ UNCHANGED reply
        /\ Quiet /\ UNCHANGED <<mutex, acked>>
     \/ ~ifNotExists /\ Dies(s)

\* Mutant of DatabaseLock: the mutex does not keep anyone out.
DatabaseLockNoWait(s) ==
  /\ pc[s] \in {"lock", "lock if"}
  /\ mutex' = s
  /\ pc' = [pc EXCEPT ![s] = IF pc[s] = "lock" THEN "build" ELSE "check"]
  /\ Quiet /\ UNCHANGED <<name, reply, acked>>

\* executor_run_create_stmt takes the lock ...
DatabaseLock(s) ==
  /\ pc[s] \in {"lock", "lock if"}
  /\ mutex = NoSession
  /\ mutex' = s
  /\ pc' = [pc EXCEPT ![s] = IF pc[s] = "lock" THEN "build" ELSE "check"]
  /\ Quiet /\ UNCHANGED <<name, reply, acked>>

\* database_unlock, and the outcome of the statement.
Unlocks(s, outcome) == mutex' = NoSession /\ Ends(s, outcome)

\* Mutant of CheckIfNotExists: the early return passes database_unlock by.
CheckIfNotExistsKeepsLock(s) ==
  /\ pc[s] = "check"
  /\ IF Exists(name[s])
     THEN Ends(s, "kept")
     ELSE pc' = [pc EXCEPT ![s] = "build"] /\ UNCHANGED reply
  /\ Quiet /\ UNCHANGED <<mutex, name, acked>>

\* ... leaves early when IF NOT EXISTS finds the table ...
CheckIfNotExists(s) ==
  /\ pc[s] = "check"
  /\ IF Exists(name[s])
     THEN Unlocks(s, "kept")
     ELSE pc' = [pc EXCEPT ![s] = "build"] /\ UNCHANGED <<mutex, reply>>
  /\ Quiet /\ UNCHANGED <<name, acked>>

\* ... builds the table, in which table_init or table_add_column may fail ...
BuildTable(s) ==
  /\ pc[s] = "build"
  /\ \/ pc' = [pc EXCEPT ![s] = "add"] /\ UNCHANGED <<mutex, reply>>
     \/ Unlocks(s, "error")
  /\ Quiet /\ UNCHANGED <<name, acked>>

\* Mutant of TableAdd: a table of that name is replaced.
TableAddReplaces(s) ==
  /\ pc[s] = "add"
  /\ array' = [array EXCEPT ![Index(name[s], cap)] =
                 (@ \ Found(name[s])) \cup {[key |-> name[s], val |-> s]}]
  /\ pc' = [pc EXCEPT ![s] = "unlock"]
  /\ UNCHANGED <<op, cap, count, grown, i, todo, answer, mutex, name, reply, acked>>

\* ... and adds it: database_table_add looks the name up once more.
TableAdd(s) ==
  /\ pc[s] = "add"
  /\ \/ /\ ~Exists(name[s])
        /\ PutNew(name[s], s)
        /\ pc' = [pc EXCEPT ![s] = "unlock"]
        /\ UNCHANGED <<mutex, reply>>
     \/ /\ ~Exists(name[s])
        /\ PutRefused(name[s])
        /\ Unlocks(s, "error")
     \/ /\ Exists(name[s])
        /\ Unlocks(s, "error")
        /\ Quiet
  /\ UNCHANGED <<name, acked>>

\* hashtable_put goes on resizing before it returns.
TableAddResizes(s) ==
  /\ pc[s] = "unlock"
  /\ Resizing
  /\ UNCHANGED <<mutex, pc, name, reply, acked>>

DatabaseUnlock(s) ==
  /\ pc[s] = "unlock" /\ op = "idle"
  /\ Unlocks(s, "created")
  /\ acked' = acked \cup {[key |-> name[s], val |-> s]}
  /\ Quiet /\ UNCHANGED name

\* database_close, by the last user of the database.
DatabaseClose ==
  /\ \A s \in Sessions : pc[s] = "idle"
  /\ ForeachStart
  /\ acked' = {}
  /\ UNCHANGED <<mutex, pc, name, reply>>

CloseTables == Clearing /\ UNCHANGED <<mutex, pc, name, reply, acked>>

----------------------------------------------------------------------------
\* A statement that was started goes on.
Continue(s) ==
  \/ DatabaseLock(s) \/ CheckIfNotExists(s) \/ BuildTable(s) \/ TableAdd(s)
  \/ TableAddResizes(s) \/ DatabaseUnlock(s)

CatNext ==
  \/ DatabaseOpen \/ DatabaseClose \/ CloseTables
  \/ \E s \in Sessions, n \in Keys : UseTable(s, n)
  \/ \E s \in Sessions, n \in Keys, ifNotExists \in BOOLEAN : AnalyseCreate(s, n, ifNotExists)
  \/ \E s \in Sessions : Continue(s)

CatSpec == CatInit /\ [][CatNext]_catvars

\* A session that can go on does.  That excludes nothing about who gets the
\* mutex: a session waiting for it may be overtaken for ever.
CatFairSpec == CatSpec /\ \A s \in Sessions : WF_catvars(Continue(s))

----------------------------------------------------------------------------
(* Properties *)

\* Every variable keeps its type.
CatTypeOK ==
  /\ HTTypeOK
  /\ mutex \in Sessions \cup {NoSession}
  /\ pc \in [Sessions -> {"idle", "lock", "lock if", "check", "build", "add", "unlock", "dead"}]
  /\ name \in [Sessions -> Keys]
  /\ reply \in [Sessions -> {"none", "found", "missing", "error", "kept", "created"}]
  /\ acked \subseteq Entry

\* Of the sessions that all find a name unused before they take the lock, one
\* creates the table; what it was told to have created stays in the catalog,
\* as its table and no other, through every resize.
AckedStays == acked \subseteq Pairs

\* A session between database_lock and database_unlock is alone there, and a
\* session that is elsewhere does not hold the lock.
MutexHeld ==
  \A s \in Sessions :
    /\ pc[s] \in {"check", "build", "add", "unlock"} => mutex = s
    /\ mutex = s => pc[s] \in {"check", "build", "add", "unlock", "dead"}

\* The lock of the database is always given back, whatever fails while it is
\* held: IF NOT EXISTS, table_init, a column, a duplicate, hashtable_put.
LockReleased ==
  mutex # NoSession ~> (mutex = NoSession \/ \A s \in Sessions : pc[s] = "dead")

\* A table whose CREATE has succeeded is found by the statements that follow:
\* what the callers of database_table_get and database_table_exists rely on.
\* The contract is database.h:51-52, "It is the caller's responsibility to call
\* database_lock() before calling this method".
AckedIsFound ==
  [][\A s \in Sessions :
       (reply'[s] = "missing" /\ reply'[s] # reply[s]) =>
         ~\E e \in acked : e.key = name'[s]]_catvars
=============================================================================
