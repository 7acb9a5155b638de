--------------------------- MODULE DuckWriteQueue ---------------------------
(***************************************************************************)
(* The single-writer queue of backend/stores/duckdb_store.py.  Every DDL   *)
(* or DML statement of the process goes through execute_write: the caller  *)
(* puts a _WriteOp on a bounded asyncio.Queue and awaits its Future; the   *)
(* one write_worker task takes operations in order, runs each on a pool    *)
(* thread (asyncio.to_thread) and forwards the outcome to the Future.      *)
(* close() cancels the worker and closes the connection.  An operation is  *)
(* identified with the call that issues it.                                *)
(***************************************************************************)
EXTENDS Naturals, Sequences, Functions

CONSTANTS Ops,         \* calls of execute_write
          QueueMax,    \* maxsize of the asyncio.Queue (10000 in the code)
          NoOp         \* the worker holds no operation

ASSUME QueueAssumption == /\ QueueMax \in Nat \ {0}
                          /\ NoOp \notin Ops

VARIABLES
  call,        \* the coroutine of each execute_write
  future,      \* the Future of each _WriteOp
  enqueued,    \* every operation ever put, in order; the queue is its suffix
  taken,       \* how many of them the worker has got
  worker,      \* write_worker: waiting in get(), awaiting a thread, or ended
  cur,         \* the operation whose thread the worker started last
  thread,      \* the pool thread running _execute_sync for cur
  db,          \* the writes the database has committed, in order
  conn         \* the write connection

vars == <<call, future, enqueued, taken, worker, cur, thread, db, conn>>
callerVars == <<call, future, enqueued>>
workerVars == <<taken, worker, cur>>
storeVars  == <<thread, db, conn>>

CallState   == {"idle", "putting", "waiting", "ok", "error", "cancelled"}
FutureState == {"pending", "result", "exception", "cancelled"}
ThreadState == {"none", "submitted", "returned", "raised"}

TypeOK == /\ call \in [Ops -> CallState]
          /\ future \in [Ops -> FutureState]
          /\ enqueued \in Seq(Ops)
          /\ taken \in 0 .. Len(enqueued)
          /\ worker \in {"get", "await", "stopped"}
          /\ cur \in Ops \cup {NoOp}
          /\ thread \in ThreadState
          /\ db \in Seq(Ops)
          /\ conn \in {"open", "closed"}

QueueLen == Len(enqueued) - taken

Init == /\ call = [o \in Ops |-> "idle"]
        /\ future = [o \in Ops |-> "pending"]
        /\ enqueued = <<>>
        /\ taken = 0
        /\ worker = "get"
        /\ cur = NoOp
        /\ thread = "none"
        /\ db = <<>>
        /\ conn = "open"

-----------------------------------------------------------------------------
(* The callers.  Queue.put returns at once when there is room; a caller    *)
(* that found the queue full waits in put and is overtaken by any caller   *)
(* that finds room first.                                                  *)

Enqueue(o) == /\ QueueLen < QueueMax
              /\ enqueued' = Append(enqueued, o)
              /\ call' = [call EXCEPT ![o] = "waiting"]

ExecuteWrite(o) == /\ call[o] = "idle"
                   /\ \/ Enqueue(o)
                      \/ /\ QueueLen = QueueMax
                         /\ call' = [call EXCEPT ![o] = "putting"]
                         /\ UNCHANGED enqueued
                   /\ UNCHANGED <<future, workerVars, storeVars>>

PutResumes(o) == /\ call[o] = "putting"
                 /\ Enqueue(o)
                 /\ UNCHANGED <<future, workerVars, storeVars>>

\* Mutant: an exception on the Future is not raised to the caller.
AnswerIgnoringErrors(f) == IF f = "cancelled" THEN "error" ELSE "ok"

\* "await op.future" returns, or raises what the worker put there.
Answer(f) == IF f = "result" THEN "ok" ELSE "error"

CallReturns(o) == /\ call[o] = "waiting"
                  /\ future[o] \in {"result", "exception"}
                  /\ call' = [call EXCEPT ![o] = Answer(future[o])]
                  /\ UNCHANGED <<future, enqueued, workerVars, storeVars>>

\* The task that called execute_write is cancelled (a collector at shutdown,
\* a request that is torn down).  Inside put nothing was enqueued; inside
\* "await op.future" the Future is cancelled and the operation stays queued.
CancelCall(o) ==
  /\ call[o] \in {"putting", "waiting"}
  /\ future' = [future EXCEPT ![o] = IF call[o] = "waiting" /\ @ = "pending"
                                     THEN "cancelled" ELSE @]
  /\ call' = [call EXCEPT ![o] = "cancelled"]
  /\ UNCHANGED <<enqueued, workerVars, storeVars>>

-----------------------------------------------------------------------------
(* write_worker and the thread that runs _execute_sync.                    *)

WorkerGet == /\ worker = "get"
             /\ QueueLen > 0
             /\ taken' = taken + 1
             /\ cur' = enqueued[taken + 1]
             /\ worker' = "await"
             /\ thread' = "submitted"
             /\ UNCHANGED <<callerVars, db, conn>>

\* Mutant: a statement is run again after it has committed.
ExecuteSyncRetried == /\ thread = "submitted"
                      /\ conn = "open"
                      /\ db' = Append(db, cur)
                      /\ thread' \in {"returned", "submitted"}
                      /\ UNCHANGED <<callerVars, workerVars, conn>>

\* The statement commits, or raises and leaves the database alone.  On a
\* closed connection it can only raise.
ExecuteSync == /\ thread = "submitted"
               /\ \/ /\ conn = "open"
                     /\ db' = Append(db, cur)
                     /\ thread' = "returned"
                  \/ /\ thread' = "raised"
                     /\ UNCHANGED db
               /\ UNCHANGED <<callerVars, workerVars, conn>>

\* Mutant: an exception is swallowed and the Future resolved as a success.
OutcomeSwallowed == "result"

\* What set_result or set_exception leaves in the Future.
Outcome == IF thread = "returned" THEN "result" ELSE "exception"

\* Mutant: without "if not op.future.done()" the InvalidStateError of a
\* cancelled Future leaves the loop, and nothing is got after it.
WorkerForwardUnguarded ==
  /\ worker = "await"
  /\ thread \in {"returned", "raised"}
  /\ future[cur] = "pending"
  /\ future' = [future EXCEPT ![cur] = Outcome]
  /\ worker' = "get"
  /\ thread' = "none"
  /\ UNCHANGED <<call, enqueued, taken, cur, db, conn>>

\* The outcome goes to the Future unless it is already done.
WorkerForward ==
  /\ worker = "await"
  /\ thread \in {"returned", "raised"}
  /\ future' = [future EXCEPT ![cur] = IF @ = "pending" THEN Outcome ELSE @]
  /\ worker' = "get"
  /\ thread' = "none"
  /\ UNCHANGED <<call, enqueued, taken, cur, db, conn>>

-----------------------------------------------------------------------------
(* Shutdown: the lifespan cancels the worker task, then close() closes the *)
(* connection.  CancelledError passes the worker's "except Exception": the *)
(* Future of the operation in hand is left alone.  The thread cannot be    *)
(* stopped once it runs; a job still waiting for a pool thread is dropped. *)

CancelWorker == /\ worker # "stopped"
                /\ worker' = "stopped"
                /\ thread' \in IF thread = "submitted" THEN {"none", "submitted"}
                               ELSE {thread}
                /\ UNCHANGED <<callerVars, taken, cur, db, conn>>

CloseConnection == /\ worker = "stopped"
                   /\ conn = "open"
                   /\ conn' = "closed"
                   /\ UNCHANGED <<callerVars, workerVars, thread, db>>

Close == CancelWorker \/ CloseConnection

-----------------------------------------------------------------------------
Caller(o) == ExecuteWrite(o) \/ PutResumes(o) \/ CallReturns(o) \/ CancelCall(o)

Next == \/ \E o \in Ops : Caller(o)
        \/ WorkerGet
        \/ ExecuteSync
        \/ WorkerForward
        \/ Close

Safety == Init /\ [][Next]_vars

\* The event loop resumes every runnable task and the pool runs every job;
\* nobody is obliged to call, to cancel or to shut down.
Fairness == /\ WF_vars(WorkerGet)
            /\ WF_vars(ExecuteSync)
            /\ WF_vars(WorkerForward)
            /\ \A o \in Ops : WF_vars(PutResumes(o)) /\ WF_vars(CallReturns(o))

Spec == Safety /\ Fairness

-----------------------------------------------------------------------------
\* A caller that returned normally finds its row in the database, and one
\* that got an exception has written nothing (execute_write, "Wait until the
\* worker has processed this op"): the answer and the database agree.
AnswerMatchesStore ==
  \A o \in Ops : /\ call[o] = "ok" => o \in Range(db)
                 /\ call[o] = "error" => o \notin Range(db)

\* No operation is applied twice, and what is applied was put on the queue in
\* that order, whatever overtaking, cancellation and failure happened between
\* (one worker, one FIFO queue).
AppliedInOrder ==
  /\ \A i, j \in DOMAIN db : i < j =>
       \E m, n \in DOMAIN enqueued : m < n /\ enqueued[m] = db[i] /\ enqueued[n] = db[j]
  /\ \A i, j \in DOMAIN db : db[i] = db[j] => i = j

\* While the worker is alive nobody waits for nothing: the operation of a caller that
\* awaits its Future is answered, in hand, or still on the queue; and the queue never
\* holds more than its maxsize.
WaitersAreServed ==
  /\ QueueLen <= QueueMax
  /\ worker # "stopped" => \A o \in Ops : call[o] = "waiting" =>
       \/ future[o] \in {"result", "exception"}
       \/ worker = "await" /\ cur = o
       \/ \E n \in taken + 1 .. Len(enqueued) : enqueued[n] = o

\* While the worker is alive every call of execute_write comes back: it does
\* not wait for ever in put nor on its Future.
CallsReturn ==
  \A o \in Ops : call[o] \in {"putting", "waiting"}
                   ~> (call[o] \in {"ok", "error", "cancelled"} \/ worker = "stopped")

\* The callers' view of the store: DuckWriteQueue implements SerialStore.
ReplyOf(o) == IF call[o] \in {"ok", "error", "cancelled"} THEN call[o] ELSE "none"
Store == INSTANCE SerialStore WITH log <- db, reply <- [o \in Ops |-> ReplyOf(o)]
ImplementsSerialStore == Store!Spec
=============================================================================
