-------------------------- MODULE SharedConnection --------------------------
(***************************************************************************)
(* The one sqlite3 connection of SQLiteStore (backend/stores/              *)
(* sqlite_store.py), shared by the threads of the pool and the event loop. *)
(* A call is either a method of the store, which the class decorator wraps *)
(* in the store's RLock and in a rollback, or a section: raw SQL under     *)
(* conn_lock or locked_conn (the IOC, asset, OSINT and TheHive code), which *)
(* has the lock but no rollback.  The transaction that a first write opens *)
(* belongs to the connection and not to the call.                          *)
(*                                                                         *)
(* A statement that fails has written nothing, and a rollback does not     *)
(* fail.  _lock_depth is left out: the methods that call another one do so *)
(* after their commit, to read.                                            *)
(***************************************************************************)
EXTENDS Naturals, FiniteSets

CONSTANTS Calls,      \* calls that write, each in a thread
          Methods,    \* those that are methods of SQLiteStore
          Size,       \* the number of rows that a call writes
          MaxFaults   \* bound on errors and crashes

ASSUME SharedConnectionAssumption == /\ Methods \subseteq Calls
                                     /\ Size \in [Calls -> Nat \ {0}]
                                     /\ MaxFaults \in Nat

VARIABLES
  inside,    \* the calls that hold the lock
  pc,        \* where each call is
  written,   \* rows that each call has written so far
  open,      \* rows written in the connection's open transaction
  db,        \* committed rows
  conn,      \* the connection, open or closed
  faults

vars == <<inside, pc, written, open, db, conn, faults>>

\* The rows of a call.
Rows(c) == {c} \X (1 .. Size[c])

AllRows == UNION {Rows(c) : c \in Calls}

TypeOK == /\ inside \subseteq Calls
          /\ pc \in [Calls -> {"idle", "wait", "write", "committed", "ok", "raised", "dead"}]
          /\ written \in [Calls -> Nat]
          /\ open \subseteq AllRows
          /\ db \subseteq AllRows
          /\ conn \in {"open", "closed"}
          /\ faults \in 0 .. MaxFaults

Init == /\ inside = {}
        /\ pc = [c \in Calls |-> "idle"]
        /\ written = [c \in Calls |-> 0]
        /\ open = {}
        /\ db = {}
        /\ conn = "open"
        /\ faults = 0

-----------------------------------------------------------------------------
Fault == /\ faults < MaxFaults
         /\ faults' = faults + 1

Goto(c, s) == pc' = [pc EXCEPT ![c] = s]

Call(c) == /\ pc[c] = "idle"
           /\ Goto(c, "wait")
           /\ UNCHANGED <<inside, written, open, db, conn, faults>>

\* Mutant: sections take no lock.
MayEnterUnlocked(c) == inside = {} \/ c \notin Methods

MayEnter(c) == inside = {}

\* with self._lock
Acquire(c) == /\ pc[c] = "wait" /\ MayEnter(c)
              /\ inside' = inside \cup {c}
              /\ Goto(c, "write")
              /\ UNCHANGED <<written, open, db, conn, faults>>

WrittenAll(c) == written[c] = Size[c]

\* conn.execute, or one row of executemany.
Execute(c) == /\ c \in inside /\ pc[c] = "write" /\ ~ WrittenAll(c)
              /\ conn = "open"
              /\ open' = open \cup {<<c, written[c] + 1>>}
              /\ written' = [written EXCEPT ![c] = @ + 1]
              /\ UNCHANGED <<inside, pc, db, conn, faults>>

\* conn.commit: of everything in the transaction, whoever wrote it.
Commit(c) == /\ c \in inside /\ pc[c] = "write" /\ WrittenAll(c)
             /\ conn = "open"
             /\ db' = db \cup open
             /\ open' = {}
             /\ Goto(c, "committed")
             /\ UNCHANGED <<inside, written, conn, faults>>

Return(c) == /\ c \in inside /\ pc[c] = "committed"
             /\ inside' = inside \ {c}
             /\ Goto(c, "ok")
             /\ UNCHANGED <<written, open, db, conn, faults>>

\* Mutant: nothing is rolled back.
OpenAfterErrorKept(c) == open

\* _synchronized rolls back "so its partial writes can never be committed by a
\* later, unrelated call"; conn_lock and locked_conn do not.
OpenAfterError(c) == IF c \in Methods THEN {} ELSE open

\* A statement or the commit raises: the database is locked by another
\* connection, a constraint fails, the connection is closed.  A method may
\* also raise when it reads its row back after the commit.
Raise(c) == /\ c \in inside
            /\ pc[c] = "write" \/ (pc[c] = "committed" /\ c \in Methods)
            /\ IF conn = "closed" THEN UNCHANGED faults ELSE Fault
            /\ open' = OpenAfterError(c)
            /\ inside' = inside \ {c}
            /\ Goto(c, "raised")
            /\ UNCHANGED <<written, db, conn>>

\* SQLiteStore.close at shutdown, under the lock as well; threads that are
\* still running find the connection closed.
Close == /\ inside = {} /\ conn = "open"
         /\ conn' = "closed"
         /\ open' = {}
         /\ UNCHANGED <<inside, pc, written, db, faults>>

\* The process dies; SQLite recovers what was committed.
Crash == /\ Fault
         /\ inside' = {}
         /\ pc' = [c \in Calls |-> IF pc[c] \in {"idle", "ok", "raised"} THEN pc[c] ELSE "dead"]
         /\ open' = {}
         /\ UNCHANGED <<written, db, conn>>

-----------------------------------------------------------------------------
Step(c) == Acquire(c) \/ Execute(c) \/ Commit(c) \/ Return(c) \/ Raise(c)

Next == (\E c \in Calls : Call(c) \/ Step(c)) \/ Close \/ Crash

Spec == Init /\ [][Next]_vars

-----------------------------------------------------------------------------
\* A method of the store is a transaction: at every moment all of its rows are
\* committed or none, and once it has raised it leaves nothing behind for the
\* commit of another call, whatever sections and crashes come in between.
MethodsAreAtomic ==
  \A c \in Methods : /\ Rows(c) \subseteq db \/ Rows(c) \cap db = {}
                     /\ pc[c] = "raised" => Rows(c) \cap open = {}

\* A call that returned normally, a section too, has all its rows committed:
\* no other thread's rollback has taken them away before its commit.
ReturnedIsCommitted == \A c \in Calls : pc[c] = "ok" => Rows(c) \subseteq db

\* "assert store._conn.in_transaction is False" (tests/unit/
\* test_sqlite_store_threading.py), for any number of threads: while the lock
\* is free the transaction holds nothing but what sections that raised left
\* in it, so a reader sees uncommitted rows of nobody else.
NothingElseLeftOpen ==
  inside = {} => \A c \in Calls : Rows(c) \cap open # {} =>
                                    pc[c] = "raised" /\ c \notin Methods

\* The callers' view of the connection: SharedConnection implements
\* SerialTransactions.  Whatever threads, errors, crashes and other callers'
\* commits come between its statements, a call of the store is one step.
ReplyOf(c) == IF pc[c] \in {"ok", "raised"} THEN pc[c] ELSE "none"
Transactions == INSTANCE SerialTransactions WITH reply <- [c \in Calls |-> ReplyOf(c)]
ImplementsTransactions == Transactions!Spec
=============================================================================
