---------------------------- MODULE StoresProofs ----------------------------
(***************************************************************************)
(* The way of the events into the stores, for every set of calls.  The     *)
(* write queue, for every maxsize: type correctness, the agreement of      *)
(* answers and database, at-most-once execution in queue order, and the    *)
(* refinement of SerialStore; and that nobody waits for nothing.  The      *)
(* loader, for every batch size and any events: what is counted is stored, *)
(* what is stored was enriched first, what is indexed is stored, and       *)
(* without a failure nothing stays unindexed.  The Ubuntu pipeline, for    *)
(* any lines and days: no line becomes two events, and what a count has    *)
(* passed has arrived.                                                     *)
(***************************************************************************)
EXTENDS DuckWriteQueue, Ingestion, UbuntuPipeline, Integers, FiniteSetTheorems, SequenceTheorems,
        WellFoundedInduction, TLAPS

-----------------------------------------------------------------------------
(* The write queue.                                                        *)

\* What the worker has got and what waits in the queue.
Taken(o) == \E n \in 1 .. taken : enqueued[n] = o

\* Every operation is put once, and only by its own call.
PutOnce == /\ \A i, j \in DOMAIN enqueued : enqueued[i] = enqueued[j] => i = j
           /\ \A i \in DOMAIN enqueued : call[enqueued[i]] \notin {"idle", "putting"}

\* A thread works on the operation got last, which is not in the database
\* until that thread has committed it.
InHand == /\ thread # "none" => taken > 0 /\ cur = enqueued[taken]
          /\ worker = "await" => thread # "none"
          /\ worker = "get" => thread = "none"
          /\ thread \in {"submitted", "raised"} => \A i \in DOMAIN db : db[i] # cur
          /\ thread = "returned" => \E i \in DOMAIN db : db[i] = cur

\* The database holds operations that were taken, each once, in queue order.
WrittenFromQueue ==
  /\ \A i \in DOMAIN db : Taken(db[i])
  /\ \A i, j \in DOMAIN db : i < j =>
       \E m, n \in 1 .. taken : m < n /\ enqueued[m] = db[i] /\ enqueued[n] = db[j]

\* A resolved Future tells what the thread did, and is of an operation that
\* no thread can execute any more.
FutureTellsTruth ==
  \A o \in Ops :
    /\ future[o] = "result" => \E i \in DOMAIN db : db[i] = o
    /\ future[o] = "exception" => /\ \A i \in DOMAIN db : db[i] # o
                                  /\ Taken(o)
                                  /\ ~ (thread = "submitted" /\ cur = o)
    /\ call[o] = "ok" => future[o] = "result"
    /\ call[o] = "error" => future[o] = "exception"
    /\ (future[o] = "cancelled") => call[o] = "cancelled"

IInv == TypeOK /\ PutOnce /\ InHand /\ WrittenFromQueue /\ FutureTellsTruth

-----------------------------------------------------------------------------
\* What Append does to a sequence, in the form the steps below need.
LEMMA AppendFacts ==
  ASSUME NEW S, NEW s \in Seq(S), NEW e \in S
  PROVE  /\ Append(s, e) \in Seq(S)
         /\ DOMAIN s = 1 .. Len(s)
         /\ Len(Append(s, e)) = Len(s) + 1
         /\ DOMAIN Append(s, e) = 1 .. Len(s) + 1
         /\ \A i \in 1 .. Len(s) : Append(s, e)[i] = s[i]
         /\ Append(s, e)[Len(s) + 1] = e
  OBVIOUS

\* The initial state satisfies the inductive invariant.
LEMMA InitIInv == Init => IInv
  <1> SUFFICES ASSUME Init PROVE IInv
    OBVIOUS
  <1>1. TypeOK
    BY DEF Init, TypeOK, CallState, FutureState, ThreadState
  <1>2. PutOnce /\ InHand /\ WrittenFromQueue /\ FutureTellsTruth
    BY DEF Init, PutOnce, InHand, WrittenFromQueue, FutureTellsTruth, Taken
  <1> QED
    BY <1>1, <1>2 DEF IInv

\* A step that puts o on the queue, at once or after waiting in put.
LEMMA EnqueueIInv ==
  ASSUME IInv, NEW o \in Ops, call[o] \in {"idle", "putting"}, Enqueue(o),
         UNCHANGED <<future, workerVars, storeVars>>
  PROVE  IInv'
  <1> USE DEF IInv
  <1>1. /\ enqueued' \in Seq(Ops)
        /\ DOMAIN enqueued = 1 .. Len(enqueued)
        /\ Len(enqueued') = Len(enqueued) + 1
        /\ DOMAIN enqueued' = 1 .. Len(enqueued) + 1
        /\ \A i \in 1 .. Len(enqueued) : enqueued'[i] = enqueued[i]
        /\ enqueued'[Len(enqueued) + 1] = o
    BY AppendFacts DEF Enqueue, TypeOK
  <1>2. Len(enqueued) \in Nat /\ taken \in 0 .. Len(enqueued)
    BY DEF TypeOK
  <1>3. \A n \in 1 .. taken : enqueued'[n] = enqueued[n]
    BY <1>1, <1>2
  <1>4. TypeOK'
    BY <1>1, <1>2 DEF TypeOK, Enqueue, CallState, workerVars, storeVars
  <1>5. PutOnce'
    BY <1>1, <1>2 DEF PutOnce, Enqueue, TypeOK
  <1>6. InHand'
    BY <1>3, <1>2 DEF InHand, workerVars, storeVars
  <1>7. WrittenFromQueue'
    BY <1>3, <1>2 DEF WrittenFromQueue, Taken, workerVars, storeVars
  <1>8. FutureTellsTruth'
    BY <1>3, <1>2 DEF FutureTellsTruth, Taken, Enqueue, TypeOK, workerVars, storeVars
  <1> QED
    BY <1>4, <1>5, <1>6, <1>7, <1>8

\* A step that changes only calls that are past put, and resolves no Future.
LEMMA CallIInv ==
  ASSUME IInv, NEW o \in Ops, CallReturns(o) \/ CancelCall(o)
  PROVE  IInv'
  <1> USE DEF IInv
  <1>1. UNCHANGED <<enqueued, workerVars, storeVars>>
    BY DEF CallReturns, CancelCall
  <1>2. TypeOK'
    BY <1>1 DEF TypeOK, CallReturns, CancelCall, CallState, FutureState,
                Answer, workerVars, storeVars
  <1>3. PutOnce'
    BY <1>1 DEF PutOnce, TypeOK, CallReturns, CancelCall, Answer
  <1>4. InHand' /\ WrittenFromQueue'
    BY <1>1 DEF InHand, WrittenFromQueue, Taken, workerVars, storeVars
  <1>5. FutureTellsTruth'
    BY <1>1 DEF FutureTellsTruth, Taken, TypeOK, CallReturns, CancelCall,
                Answer, workerVars, storeVars, CallState, FutureState
  <1> QED
    BY <1>2, <1>3, <1>4, <1>5

\* The worker takes the head of the queue; nothing was written of it yet.
LEMMA WorkerGetIInv == IInv /\ WorkerGet => IInv'
  <1> SUFFICES ASSUME IInv, WorkerGet PROVE IInv'
    OBVIOUS
  <1> USE DEF IInv
  <1>1. /\ enqueued' = enqueued /\ db' = db /\ call' = call /\ future' = future
        /\ taken \in Nat /\ taken' = taken + 1 /\ taken + 1 \in 1 .. Len(enqueued)
        /\ DOMAIN enqueued = 1 .. Len(enqueued)
        /\ cur' = enqueued[taken'] /\ cur' \in Ops
        /\ worker' = "await" /\ thread' = "submitted" /\ conn' = conn
    BY DEF WorkerGet, TypeOK, QueueLen, callerVars
  <1>2. \A o \in Ops : Taken(o) => Taken(o)' /\ o # cur'
    BY <1>1 DEF Taken, PutOnce
  <1>3. \A i \in DOMAIN db : db[i] \in Ops
    BY DEF TypeOK
  <1>4. TypeOK'
    BY <1>1 DEF TypeOK, ThreadState
  <1>5. PutOnce'
    BY <1>1 DEF PutOnce
  <1>6. InHand'
    BY <1>1, <1>2, <1>3 DEF InHand, WrittenFromQueue
  <1>7. WrittenFromQueue'
    BY <1>1 DEF WrittenFromQueue, Taken
  <1>8. FutureTellsTruth'
    BY <1>1, <1>2 DEF FutureTellsTruth
  <1> QED
    BY <1>4, <1>5, <1>6, <1>7, <1>8

\* The thread commits cur, which is after everything written so far, or raises.
LEMMA ExecuteSyncIInv == IInv /\ ExecuteSync => IInv'
  <1> SUFFICES ASSUME IInv, ExecuteSync PROVE IInv'
    OBVIOUS
  <1> USE DEF IInv
  <1>1. /\ thread = "submitted" /\ taken \in Nat /\ taken > 0
        /\ cur = enqueued[taken] /\ cur \in Ops /\ taken \in 1 .. taken
        /\ taken \in DOMAIN enqueued
        /\ UNCHANGED <<callerVars, workerVars, conn>>
    BY DEF ExecuteSync, InHand, TypeOK
  <1>2. CASE db' = db /\ thread' = "raised"
    <2>1. TypeOK'
      BY <1>1, <1>2 DEF TypeOK, ThreadState, callerVars, workerVars
    <2>2. PutOnce' /\ InHand' /\ WrittenFromQueue'
      BY <1>1, <1>2 DEF PutOnce, InHand, WrittenFromQueue, Taken, callerVars, workerVars
    <2>3. FutureTellsTruth'
      BY <1>1, <1>2 DEF FutureTellsTruth, Taken, callerVars, workerVars
    <2> QED
      BY <2>1, <2>2, <2>3
  <1>3. CASE db' = Append(db, cur) /\ thread' = "returned"
    <2>1. /\ db' \in Seq(Ops)
          /\ Len(db) \in Nat
          /\ DOMAIN db = 1 .. Len(db)
          /\ DOMAIN db' = 1 .. Len(db) + 1
          /\ \A i \in 1 .. Len(db) : db'[i] = db[i] /\ db[i] \in Ops
          /\ db'[Len(db) + 1] = cur
      BY <1>1, <1>3, AppendFacts DEF TypeOK
    <2>2. TypeOK'
      BY <1>1, <1>3, <2>1 DEF TypeOK, ThreadState, callerVars, workerVars
    <2>3. PutOnce'
      BY <1>1 DEF PutOnce, callerVars
    <2>4. InHand'
      BY <1>1, <1>3, <2>1 DEF InHand, callerVars, workerVars
    <2>0. enqueued' = enqueued /\ taken' = taken
      BY <1>1 DEF callerVars, workerVars
    <2>5. ASSUME NEW i \in DOMAIN db' PROVE Taken(db[i])'
      <3>1. CASE i \in 1 .. Len(db)
        BY <3>1, <2>0, <2>1 DEF WrittenFromQueue, Taken
      <3>2. CASE i = Len(db) + 1
        BY <3>2, <2>0, <2>1, <1>1 DEF Taken
      <3> QED
        BY <3>1, <3>2, <2>1
    <2>6. ASSUME NEW i \in DOMAIN db', NEW j \in DOMAIN db', i < j
          PROVE  \E m, n \in 1 .. taken : /\ m < n
                                          /\ enqueued[m] = db'[i]
                                          /\ enqueued[n] = db'[j]
      <3>1. CASE j \in 1 .. Len(db)
        BY <3>1, <2>1, <2>6 DEF WrittenFromQueue
      <3>2. CASE j = Len(db) + 1
        <4>1. i \in 1 .. Len(db)
          BY <3>2, <2>1, <2>6
        <4>2. PICK m \in 1 .. taken : enqueued[m] = db[i]
          BY <4>1, <2>1 DEF WrittenFromQueue, Taken
        <4>3. m # taken
          BY <4>1, <4>2, <1>1, <2>1 DEF InHand
        <4>4. m < taken
          BY <4>3, <1>1
        <4> QED
          BY <4>1, <4>2, <4>4, <3>2, <1>1, <2>1
      <3> QED
        BY <3>1, <3>2, <2>1
    <2>7. WrittenFromQueue'
      BY <2>0, <2>5, <2>6 DEF WrittenFromQueue
    <2>8. FutureTellsTruth'
      BY <1>1, <1>3, <2>1 DEF FutureTellsTruth, Taken, callerVars, workerVars
    <2> QED
      BY <2>2, <2>3, <2>4, <2>7, <2>8
  <1> QED
    BY <1>2, <1>3 DEF ExecuteSync

\* The Future of cur learns what its thread did.
LEMMA WorkerForwardIInv == IInv /\ WorkerForward => IInv'
  <1> SUFFICES ASSUME IInv, WorkerForward PROVE IInv'
    OBVIOUS
  <1> USE DEF IInv
  <1>1. /\ thread \in {"returned", "raised"} /\ cur \in Ops /\ Taken(cur)
        /\ UNCHANGED <<call, enqueued, taken, cur, db, conn>>
        /\ worker' = "get" /\ thread' = "none"
    BY DEF WorkerForward, InHand, TypeOK, Taken
  <1>2. future' = [future EXCEPT ![cur] = IF @ = "pending" THEN Outcome ELSE @]
    BY DEF WorkerForward
  <1>3. TypeOK'
    BY <1>1, <1>2 DEF TypeOK, FutureState, ThreadState, Outcome
  <1>4. PutOnce' /\ InHand' /\ WrittenFromQueue'
    BY <1>1 DEF PutOnce, InHand, WrittenFromQueue, Taken
  <1>5. \A o \in Ops : /\ o # cur => future'[o] = future[o]
                       /\ future[o] # "pending" => future'[o] = future[o]
                       /\ future[o] = "pending" /\ o = cur => future'[o] = Outcome
    BY <1>1, <1>2 DEF TypeOK
  <1>6. FutureTellsTruth'
    BY <1>1, <1>5 DEF FutureTellsTruth, InHand, Outcome, Taken
  <1> QED
    BY <1>3, <1>4, <1>6

\* Shutting down takes nothing back.
LEMMA CloseIInv == IInv /\ Close => IInv'
  <1> SUFFICES ASSUME IInv, Close PROVE IInv'
    OBVIOUS
  <1>1. /\ UNCHANGED <<call, future, enqueued, taken, cur, db>>
        /\ worker' = "stopped"
        /\ thread' = thread \/ (thread = "submitted" /\ thread' = "none")
        /\ conn' \in {"open", "closed"}
    BY DEF Close, CancelWorker, CloseConnection, callerVars, workerVars, IInv, TypeOK
  <1>2. TypeOK'
    BY <1>1 DEF IInv, TypeOK, ThreadState
  <1>3. PutOnce' /\ InHand' /\ WrittenFromQueue'
    BY <1>1 DEF IInv, PutOnce, InHand, WrittenFromQueue, Taken
  <1>4. FutureTellsTruth'
    BY <1>1 DEF IInv, FutureTellsTruth, Taken
  <1> QED
    BY <1>2, <1>3, <1>4 DEF IInv

\* Every step of the queue preserves the inductive invariant.
LEMMA NextIInv == IInv /\ [Next]_vars => IInv'
  <1> SUFFICES ASSUME IInv, [Next]_vars PROVE IInv'
    OBVIOUS
  <1>1. ASSUME NEW o \in Ops, ExecuteWrite(o) PROVE IInv'
    <2>1. CASE Enqueue(o)
      BY <1>1, <2>1, EnqueueIInv DEF ExecuteWrite
    <2>2. CASE call' = [call EXCEPT ![o] = "putting"] /\ UNCHANGED enqueued
      <3>1. call[o] = "idle" /\ UNCHANGED <<future, workerVars, storeVars>>
        BY <1>1 DEF ExecuteWrite
      <3>2. TypeOK'
        BY <2>2, <3>1 DEF IInv, TypeOK, CallState, workerVars, storeVars
      <3>3. PutOnce'
        BY <2>2, <3>1 DEF IInv, PutOnce, TypeOK
      <3>4. InHand' /\ WrittenFromQueue'
        BY <2>2, <3>1 DEF IInv, InHand, WrittenFromQueue, Taken, workerVars, storeVars
      <3>5. FutureTellsTruth'
        BY <2>2, <3>1 DEF IInv, FutureTellsTruth, Taken, TypeOK, workerVars, storeVars
      <3> QED
        BY <3>2, <3>3, <3>4, <3>5 DEF IInv
    <2> QED
      BY <1>1, <2>1, <2>2 DEF ExecuteWrite
  <1>2. ASSUME NEW o \in Ops, PutResumes(o) PROVE IInv'
    BY <1>2, EnqueueIInv DEF PutResumes
  <1>3. ASSUME NEW o \in Ops, CallReturns(o) \/ CancelCall(o) PROVE IInv'
    BY <1>3, CallIInv
  <1>4. CASE UNCHANGED vars
    <2>1. UNCHANGED <<call, future, enqueued, taken, worker, cur, thread, db, conn>>
      BY <1>4 DEF vars
    <2> QED
      BY <2>1 DEF IInv, TypeOK, PutOnce, InHand, WrittenFromQueue,
                  FutureTellsTruth, Taken
  <1> QED
    BY <1>1, <1>2, <1>3, <1>4, WorkerGetIInv, ExecuteSyncIInv, WorkerForwardIInv,
       CloseIInv DEF Next, Caller

LEMMA InvariantHolds == Safety => []IInv
  BY InitIInv, NextIInv, PTL DEF Safety

-----------------------------------------------------------------------------
\* Every state of the queue is well typed, for any calls and any maxsize.
THEOREM TypeCorrect == Safety => []TypeOK
  <1>1. IInv => TypeOK
    BY DEF IInv
  <1> QED
    BY <1>1, InvariantHolds, PTL

\* A caller that is told "ok" has its write in the database and one that is
\* told "error" has not, whatever was cancelled, overtaken or shut down.
THEOREM AnswersAreTrue == Safety => []AnswerMatchesStore
  <1>1. IInv => AnswerMatchesStore
    BY DEF IInv, FutureTellsTruth, AnswerMatchesStore, Range
  <1> QED
    BY <1>1, InvariantHolds, PTL

\* Writes reach the database at most once each and in the order of the queue.
THEOREM WritesAreSerial == Safety => []AppliedInOrder
  <1>1. ASSUME IInv PROVE AppliedInOrder
    <2>1. /\ DOMAIN db = 1 .. Len(db) /\ Len(db) \in Nat
          /\ DOMAIN enqueued = 1 .. Len(enqueued) /\ Len(enqueued) \in Nat
          /\ taken \in 0 .. Len(enqueued)
      BY <1>1 DEF IInv, TypeOK
    <2>2. \A n \in 1 .. taken : n \in DOMAIN enqueued
      BY <2>1
    <2>3. ASSUME NEW i \in DOMAIN db, NEW j \in DOMAIN db, i < j
          PROVE  \E m, n \in DOMAIN enqueued : /\ m < n
                                               /\ enqueued[m] = db[i]
                                               /\ enqueued[n] = db[j]
      BY <1>1, <2>2, <2>3 DEF IInv, WrittenFromQueue
    <2>4. ASSUME NEW i \in DOMAIN db, NEW j \in DOMAIN db, i < j
          PROVE  db[i] # db[j]
      <3>1. PICK m, n \in DOMAIN enqueued : /\ m < n
                                            /\ enqueued[m] = db[i]
                                            /\ enqueued[n] = db[j]
        BY <2>3, <2>4
      <3>2. m # n
        BY <3>1, <2>1
      <3> QED
        BY <3>1, <3>2, <1>1 DEF IInv, PutOnce
    <2>5. \A i, j \in DOMAIN db : db[i] = db[j] => i = j
      BY <2>1, <2>4
    <2> QED
      BY <2>3, <2>5 DEF AppliedInOrder
  <1> QED
    BY <1>1, InvariantHolds, PTL
-----------------------------------------------------------------------------
\* A step of a call only tells its caller something, or nothing.
LEMMA CallRefines ==
  ASSUME IInv, NEW o \in Ops, Caller(o)
  PROVE  [Store!Next]_(Store!vars)
  <1>1. /\ db' = db
        /\ call \in [Ops -> CallState]
        /\ \A q \in Ops : q # o => ReplyOf(q)' = ReplyOf(q)
    BY DEF Caller, ExecuteWrite, PutResumes, Enqueue, CallReturns, CancelCall,
           IInv, TypeOK, storeVars, ReplyOf
  <1>2. \/ ReplyOf(o)' = ReplyOf(o)
        \/ /\ ReplyOf(o) = "none"
           /\ ReplyOf(o)' \in {"ok", "error", "cancelled"}
    BY <1>1 DEF Caller, ExecuteWrite, PutResumes, Enqueue, CallReturns, CancelCall,
           IInv, TypeOK, ReplyOf, Answer, CallState
  <1>3. CASE ReplyOf(o)' = ReplyOf(o)
    BY <1>1, <1>3 DEF Store!vars
  <1>4. CASE /\ ReplyOf(o) = "none"
             /\ ReplyOf(o)' \in {"ok", "error", "cancelled"}
    <2>1. /\ ReplyOf(o)' = "ok" => o \in Range(db)
          /\ ReplyOf(o)' = "error" => o \notin Range(db)
      BY <1>1, <1>4 DEF Caller, ExecuteWrite, PutResumes, Enqueue, CallReturns,
         CancelCall, IInv, TypeOK, ReplyOf, Answer, CallState, FutureTellsTruth, Range
    <2>2. [q \in Ops |-> ReplyOf(q)']
            = [[q \in Ops |-> ReplyOf(q)] EXCEPT ![o] = ReplyOf(o)']
      BY <1>1
    <2>3. Store!Reply(o, ReplyOf(o)')
      BY <1>1, <1>4, <2>1, <2>2 DEF Store!Reply, Range, Store!Range
    <2> QED
      BY <2>3, <1>4 DEF Store!Next
  <1> QED
    BY <1>2, <1>3, <1>4

\* Every step of the queue is a step of the serial store or leaves it alone.
LEMMA StepRefines == IInv /\ [Next]_vars => [Store!Next]_(Store!vars)
  <1> SUFFICES ASSUME IInv, [Next]_vars PROVE [Store!Next]_(Store!vars)
    OBVIOUS
  <1>1. ASSUME NEW o \in Ops, Caller(o) PROVE [Store!Next]_(Store!vars)
    BY <1>1, CallRefines
  <1>2. CASE WorkerGet \/ WorkerForward \/ Close \/ UNCHANGED vars
    <2>1. db' = db /\ call' = call
      BY <1>2 DEF WorkerGet, WorkerForward, Close, CancelWorker, CloseConnection,
                  callerVars, vars
    <2> QED
      BY <2>1 DEF Store!vars, ReplyOf
  <1>3. CASE ExecuteSync
    <2>1. call' = call /\ cur \in Ops /\ thread = "submitted"
      BY <1>3 DEF ExecuteSync, callerVars, IInv, InHand, TypeOK
    <2>2. CASE db' = db
      BY <2>1, <2>2 DEF Store!vars, ReplyOf
    <2>3. CASE db' = Append(db, cur)
      <3>1. cur \notin Range(db)
        BY <2>1 DEF IInv, InHand, Range
      <3>2. ReplyOf(cur) \in {"none", "cancelled"}
        BY <2>1, <3>1 DEF IInv, TypeOK, CallState, FutureTellsTruth, ReplyOf, Range
      <3>3. Store!Apply(cur)
        BY <2>1, <2>3, <3>1, <3>2 DEF Store!Apply, ReplyOf, Range, Store!Range
      <3> QED
        BY <2>1, <3>3 DEF Store!Next
    <2> QED
      BY <1>3, <2>2, <2>3 DEF ExecuteSync
  <1> QED
    BY <1>1, <1>2, <1>3 DEF Next

\* The queue, its worker and its threads implement the serial store.
THEOREM QueueImplementsStore == Safety => ImplementsSerialStore
  <1>1. Init => Store!Init
    BY DEF Init, Store!Init, ReplyOf
  <1> QED
    BY <1>1, StepRefines, InvariantHolds, PTL
       DEF Safety, ImplementsSerialStore, Store!Spec

\* The queue of a call that waits, after a step that leaves queue and worker alone.
LEMMA ServedIsKept ==
  ASSUME WaitersAreServed, UNCHANGED <<enqueued, taken, cur>>,
         worker' = worker \/ worker' = "stopped",
         \A o \in Ops : call'[o] = "waiting" =>
            call[o] = "waiting" /\ (future'[o] = future[o])
  PROVE  WaitersAreServed'
  <1>1. QueueLen' = QueueLen
    BY DEF QueueLen
  <1> QED
    BY <1>1 DEF WaitersAreServed

LEMMA EnqueueServes ==
  ASSUME IInv, WaitersAreServed, NEW o \in Ops, Enqueue(o), UNCHANGED <<future, workerVars>>
  PROVE  WaitersAreServed'
  <1>1. /\ Len(enqueued) \in Nat /\ taken \in 0 .. Len(enqueued)
        /\ Len(enqueued') = Len(enqueued) + 1
        /\ \A n \in 1 .. Len(enqueued) : enqueued'[n] = enqueued[n]
        /\ enqueued'[Len(enqueued) + 1] = o
    BY AppendFacts DEF IInv, TypeOK, Enqueue
  <1>2. /\ future' = future /\ taken' = taken /\ worker' = worker /\ cur' = cur
        /\ \A p \in Ops : p # o => call'[p] = call[p]
    BY DEF IInv, TypeOK, Enqueue, workerVars
  <1>3. QueueLen' <= QueueMax
    BY <1>1, <1>2, QueueAssumption DEF Enqueue, QueueLen
  <1>4. ASSUME worker # "stopped", NEW p \in Ops, call'[p] = "waiting"
        PROVE  \/ future[p] \in {"result", "exception"}
               \/ worker = "await" /\ cur = p
               \/ \E n \in taken + 1 .. Len(enqueued') : enqueued'[n] = p
    <2>1. CASE p = o
      <3>1. Len(enqueued) + 1 \in taken + 1 .. Len(enqueued')
        BY <1>1
      <3> QED
        BY <1>1, <2>1, <3>1
    <2>2. CASE p # o
      <3>1. \/ future[p] \in {"result", "exception"}
            \/ worker = "await" /\ cur = p
            \/ \E n \in taken + 1 .. Len(enqueued) : enqueued[n] = p
        BY <1>2, <1>4, <2>2 DEF WaitersAreServed
      <3>2. \A n \in taken + 1 .. Len(enqueued) :
              n \in taken + 1 .. Len(enqueued') /\ n \in 1 .. Len(enqueued)
        BY <1>1
      <3> QED
        BY <1>1, <3>1, <3>2
    <2> QED
      BY <2>1, <2>2
  <1> QED
    BY <1>2, <1>3, <1>4 DEF WaitersAreServed

LEMMA WorkerServes ==
  ASSUME IInv, WaitersAreServed, WorkerGet \/ WorkerForward
  PROVE  WaitersAreServed'
  <1>1. CASE WorkerGet
    <2>1. /\ UNCHANGED callerVars /\ worker = "get" /\ worker' = "await" /\ QueueLen > 0
          /\ taken \in 0 .. Len(enqueued) /\ Len(enqueued) \in Nat /\ taken' = taken + 1
          /\ cur' = enqueued[taken + 1]
      BY <1>1 DEF WorkerGet, IInv, TypeOK
    <2>2. QueueLen' = QueueLen - 1 /\ QueueLen \in Nat
      BY <2>1 DEF QueueLen, callerVars
    <2>3. ASSUME NEW n \in taken + 1 .. Len(enqueued)
          PROVE  n = taken + 1 \/ n \in taken' + 1 .. Len(enqueued)
      BY <2>1
    <2>4. QueueLen' <= QueueMax
      BY <2>2, QueueAssumption DEF WaitersAreServed
    <2>5. ASSUME NEW p \in Ops, call[p] = "waiting"
          PROVE  \/ future[p] \in {"result", "exception"}
                 \/ cur' = p
                 \/ \E n \in taken' + 1 .. Len(enqueued) : enqueued[n] = p
      BY <2>1, <2>3, <2>5 DEF WaitersAreServed
    <2> QED
      BY <2>1, <2>4, <2>5 DEF WaitersAreServed, callerVars
  <1>2. CASE WorkerForward
    <2>1. /\ UNCHANGED <<call, enqueued, taken, cur>> /\ worker = "await" /\ worker' = "get"
          /\ future \in [Ops -> FutureState] /\ cur \in Ops
          /\ future' = [future EXCEPT ![cur] = IF @ = "pending" THEN Outcome ELSE @]
      BY <1>2 DEF WorkerForward, IInv, TypeOK, InHand
    <2>2. call[cur] = "waiting" => future'[cur] \in {"result", "exception"}
      BY <2>1 DEF IInv, FutureTellsTruth, Outcome, FutureState
    <2>3. \A p \in Ops : p # cur => future'[p] = future[p]
      BY <2>1
    <2>4. QueueLen' <= QueueMax
      BY <2>1 DEF QueueLen, WaitersAreServed
    <2>5. ASSUME NEW p \in Ops, call[p] = "waiting"
          PROVE  \/ future'[p] \in {"result", "exception"}
                 \/ \E n \in taken + 1 .. Len(enqueued) : enqueued[n] = p
      BY <2>1, <2>2, <2>3, <2>5 DEF WaitersAreServed
    <2> QED
      BY <2>1, <2>4, <2>5 DEF WaitersAreServed
  <1> QED
    BY <1>1, <1>2

\* While the worker lives nobody waits for nothing, for any calls and any maxsize: an
\* operation that is awaited is answered, in hand or on the queue, which keeps its
\* bound.  With it no caller can stand still for ever while the worker goes on.
THEOREM NobodyWaitsForNothing == Safety => []WaitersAreServed
  <1>1. Init => WaitersAreServed
    BY QueueAssumption DEF Init, WaitersAreServed, QueueLen
  <1>2. ASSUME IInv, WaitersAreServed, [Next]_vars PROVE WaitersAreServed'
    <2>1. ASSUME NEW o \in Ops, ExecuteWrite(o) \/ PutResumes(o) PROVE WaitersAreServed'
      <3>1. CASE Enqueue(o)
        BY <1>2, <2>1, <3>1, EnqueueServes DEF ExecuteWrite, PutResumes
      <3>2. CASE call' = [call EXCEPT ![o] = "putting"] /\ UNCHANGED enqueued /\ ExecuteWrite(o)
        <4>1. UNCHANGED <<future, taken, worker, cur>>
          BY <3>2 DEF ExecuteWrite, workerVars
        <4>2. \A p \in Ops : call'[p] = "waiting" => call[p] = "waiting"
          BY <1>2, <3>2 DEF IInv, TypeOK
        <4> QED
          BY <1>2, <3>2, <4>1, <4>2, ServedIsKept
      <3> QED
        BY <2>1, <3>1, <3>2 DEF ExecuteWrite, PutResumes
    <2>2. ASSUME NEW o \in Ops, CallReturns(o) \/ CancelCall(o) PROVE WaitersAreServed'
      <3>1. UNCHANGED <<enqueued, taken, worker, cur>>
        BY <2>2 DEF CallReturns, CancelCall, workerVars
      <3>2. \A p \in Ops : call'[p] = "waiting" => call[p] = "waiting" /\ future'[p] = future[p]
        BY <1>2, <2>2 DEF CallReturns, CancelCall, Answer, IInv, TypeOK
      <3> QED
        BY <1>2, <3>1, <3>2, ServedIsKept
    <2>3. CASE ExecuteSync \/ Close \/ UNCHANGED vars
      <3>1. UNCHANGED <<call, future, enqueued, taken, cur>> /\ (worker' = worker \/ worker' = "stopped")
        BY <2>3 DEF ExecuteSync, Close, CancelWorker, CloseConnection, callerVars, workerVars, vars
      <3> QED
        BY <1>2, <3>1, ServedIsKept
    <2>4. CASE WorkerGet \/ WorkerForward
      BY <1>2, <2>4, WorkerServes
    <2> QED
      BY <1>2, <2>1, <2>2, <2>3, <2>4 DEF Next, Caller
  <1> QED
    BY <1>1, <1>2, InvariantHolds, PTL DEF Safety

-----------------------------------------------------------------------------
(* The loader.                                                             *)

\* The rows of a call that belong to batches it has done with.
Tried(i) == IF pc[i] = "insert" THEN BatchStart(i) ELSE Len(fresh[i])

\* The rows of a call, up to one of them, that DuckDB has.
RowsStored(i, n) == {k \in 1 .. n : fresh[i][k] \in duck}

\* result.loaded counts rows of finished batches that are stored.
Counted(i) == loaded[i] <= Cardinality(RowsStored(i, Tried(i)))

\* The rows of the batch in hand are stored up to the one that is next.
InBatch(i) ==
  pc[i] = "insert" => /\ row[i] < Len(fresh[i])
                      /\ \A k \in BatchStart(i) + 1 .. row[i] : fresh[i][k] \in duck

\* Before deduplication a call has no rows, no count and no embedding.
NothingYet(i) ==
  pc[i] \in {"idle", "start", "dedup"} =>
    fresh[i] = <<>> /\ row[i] = 0 /\ loaded[i] = 0 /\ embed[i] = "none"

\* What a call may insert has been enriched.
FreshIsEnriched(i) == /\ Range(fresh[i]) \subseteq enriched
                      /\ pc[i] = "dedup" => Range(events[i]) \subseteq enriched

\* With one DuckDB batch, what is counted is a prefix of what was inserted.
ShortIsStored(i) ==
  Len(fresh[i]) <= DuckBatch => \A k \in 1 .. loaded[i] : fresh[i][k] \in duck

CallIsTrue(i) == /\ Counted(i) /\ InBatch(i) /\ NothingYet(i)
                 /\ FreshIsEnriched(i) /\ ShortIsStored(i)

LoadInv == /\ LoadTypeOK
           /\ \A i \in Ingests : CallIsTrue(i)
           /\ StoredWasEnriched /\ IndexedIsStored

\* A set of naturals has a least member.
LEMMA LeastExists ==
  ASSUME NEW S \in SUBSET Nat, S # {}
  PROVE  \E x \in S : \A y \in S : x <= y
  <1> DEFINE R == OpToRel(<, Nat)
  <1>1. IsWellFoundedOn(R, Nat)
    BY NatLessThanWellFounded
  <1>2. \A x, y \in Nat : x < y => <<x, y>> \in R
    BY DEF OpToRel
  <1> HIDE DEF R
  <1>3. PICK x \in S : \A y \in S : <<y, x>> \notin R
    BY <1>1, WFMin
  <1>4. ASSUME NEW y \in S, ~(x <= y) PROVE FALSE
    <2>1. x \in Nat /\ y \in Nat /\ y < x
      BY <1>4
    <2> QED
      BY <1>2, <1>3, <2>1
  <1> QED
    BY <1>4

\* A set of rows is finite, and no larger than their number.
LEMMA RowsAreFinite ==
  ASSUME NEW l \in Nat, NEW S \in SUBSET (1 .. l)
  PROVE  IsFiniteSet(S) /\ Cardinality(S) \in Nat /\ Cardinality(S) <= l
  <1>1. IsFiniteSet(1 .. l) /\ Cardinality(1 .. l) = l
    BY FS_Interval
  <1> QED
    BY <1>1, FS_Subset, FS_CardinalityType

\* The n-th smallest is one of them: their number below a bound grows by one at
\* a time.
LEMMA NthIs ==
  ASSUME NEW l \in Nat, NEW S \in SUBSET (1 .. l), NEW n \in 1 .. Cardinality(S)
  PROVE  Nth(S, n) \in S /\ Cardinality({j \in S : j <= Nth(S, n)}) = n
  <1> DEFINE Upto(j) == {k \in S : k <= j}
             Enough == {j \in Nat : n <= Cardinality(Upto(j))}
  <1>1. IsFiniteSet(S) /\ Cardinality(S) \in Nat
    BY RowsAreFinite
  <1>2. \A j \in Nat : IsFiniteSet(Upto(j)) /\ Cardinality(Upto(j)) \in Nat
    BY <1>1, FS_Subset, FS_CardinalityType
  <1>3. Upto(l) = S /\ Cardinality(Upto(0)) = 0
    <2>1. \A k \in S : k \in Nat /\ k <= l /\ ~(k <= 0)
      OBVIOUS
    <2>2. Upto(l) = S /\ Upto(0) = {}
      BY <2>1
    <2> QED
      BY <2>2, FS_EmptySet
  <1>4. Enough \in SUBSET Nat /\ Enough # {}
    <2>1. l \in Enough
      BY <1>1, <1>3
    <2> QED
      BY <2>1
  <1> HIDE DEF Enough
  <1>5. PICK m \in Enough : \A j \in Enough : m <= j
    BY <1>4, LeastExists
  <1>6. m \in Nat \ {0} /\ n <= Cardinality(Upto(m))
    BY <1>3, <1>5 DEF Enough
  <1>7. m - 1 \in Nat /\ ~(n <= Cardinality(Upto(m - 1)))
    <2>1. m - 1 \in Nat /\ ~(m <= m - 1)
      BY <1>6
    <2>2. m - 1 \notin Enough
      BY <1>5, <2>1
    <2> QED
      BY <2>1, <2>2 DEF Enough
  <1>8. \A k \in S : k \in Nat /\ (k <= m <=> k <= m - 1 \/ k = m) /\ ~(m <= m - 1)
    BY <1>6
  <1>9. m \in S
    <2> SUFFICES ASSUME m \notin S PROVE FALSE
      OBVIOUS
    <2>1. Upto(m) = Upto(m - 1)
      BY <1>8
    <2> QED
      BY <1>6, <1>7, <2>1
  <1>10. Upto(m) = Upto(m - 1) \cup {m} /\ m \notin Upto(m - 1)
    BY <1>9, <1>8
  <1>11. Cardinality(Upto(m)) = Cardinality(Upto(m - 1)) + 1
    BY <1>2, <1>7, <1>10, FS_AddElement
  <1>12. Cardinality(Upto(m)) = n
    <2>1. n \in Nat
      BY <1>1
    <2>2. Cardinality(Upto(m)) \in Nat /\ Cardinality(Upto(m - 1)) \in Nat
      BY <1>2, <1>6, <1>7
    <2> HIDE DEF Upto
    <2> QED
      BY <1>6, <1>7, <1>11, <2>1, <2>2
  <1> QED
    BY <1>9, <1>12 DEF Nth

\* The places keep their order, and each of them is the n-th for some n.
LEMMA NthOrders ==
  ASSUME NEW l \in Nat, NEW at \in SUBSET (1 .. l)
  PROVE  /\ \A m, n \in 1 .. Cardinality(at) : m < n => Nth(at, m) < Nth(at, n)
         /\ \A k \in at : \E n \in 1 .. Cardinality(at) : Nth(at, n) = k
  <1> DEFINE Upto(j) == {k \in at : k <= j}
  <1>2. IsFiniteSet(at) /\ Cardinality(at) \in Nat
    BY RowsAreFinite
  <1>3. \A n \in 1 .. Cardinality(at) : Nth(at, n) \in at /\ Cardinality(Upto(Nth(at, n))) = n
    BY NthIs
  <1>5. \A k \in at : k \in Nat
    OBVIOUS
  <1>6. ASSUME NEW j \in at, NEW k \in at, j < k
        PROVE  Cardinality(Upto(j)) < Cardinality(Upto(k))
    <2>1. k \notin Upto(j) /\ Upto(j) \cup {k} \subseteq Upto(k)
      <3>1. /\ ~(k <= j) /\ k <= k
            /\ \A i \in at : i <= j => i <= k
        BY <1>5, <1>6
      <3> QED
        BY <3>1
    <2>2. IsFiniteSet(Upto(j)) /\ Cardinality(Upto(j)) \in Nat
      BY <1>2, FS_Subset, FS_CardinalityType
    <2>3. IsFiniteSet(Upto(k)) /\ Cardinality(Upto(k)) \in Nat
      BY <1>2, FS_Subset, FS_CardinalityType
    <2>4. Cardinality(Upto(j) \cup {k}) = Cardinality(Upto(j)) + 1
      BY <2>1, <2>2, FS_AddElement
    <2>5. Cardinality(Upto(j) \cup {k}) <= Cardinality(Upto(k))
      BY <2>1, <2>3, FS_Subset
    <2> HIDE DEF Upto
    <2> QED
      BY <2>2, <2>3, <2>4, <2>5
  <1>7. ASSUME NEW m \in 1 .. Cardinality(at), NEW n \in 1 .. Cardinality(at), m < n
        PROVE  Nth(at, m) < Nth(at, n)
    <2> DEFINE j == Nth(at, m)
               k == Nth(at, n)
    <2> HIDE DEF Upto
    <2>0. /\ j \in at /\ k \in at
          /\ Cardinality(Upto(j)) = m /\ Cardinality(Upto(k)) = n
      BY <1>3
    <2> HIDE DEF j, k
    <2>1. /\ j \in at /\ k \in at /\ j \in Nat /\ k \in Nat
          /\ Cardinality(Upto(j)) = m /\ Cardinality(Upto(k)) = n
      BY <1>5, <2>0
    <2>2. j # k
      BY <1>7, <2>1, <1>2
    <2>3. ~(k < j)
      <3> SUFFICES ASSUME k < j PROVE FALSE
        OBVIOUS
      <3>1. Cardinality(Upto(k)) < Cardinality(Upto(j))
        BY <1>6, <2>1
      <3> QED
        BY <1>2, <1>7, <2>1, <3>1
    <2>4. j < k
      BY <2>1, <2>2, <2>3
    <2> QED
      BY <2>4 DEF j, k
  <1>8. ASSUME NEW k \in at
        PROVE  \E n \in 1 .. Cardinality(at) : Nth(at, n) = k
    <2> DEFINE n == Cardinality(Upto(k))
    <2>1. IsFiniteSet(Upto(k)) /\ n \in Nat /\ n <= Cardinality(at) /\ Upto(k) # {}
      BY <1>2, FS_Subset, FS_CardinalityType
    <2>2. n # 0
      BY <2>1, FS_EmptySet
    <2> HIDE DEF n
    <2>3. n \in 1 .. Cardinality(at)
      BY <1>2, <2>1, <2>2
    <2> HIDE DEF Upto
    <2>4. Nth(at, n) \in at /\ Cardinality(Upto(Nth(at, n))) = n /\ Cardinality(Upto(k)) = n
      BY <1>3, <2>3 DEF n
    <2>5. k \in Nat /\ Nth(at, n) \in Nat
      BY <1>5, <2>4
    <2>6. ~(Nth(at, n) < k) /\ ~(k < Nth(at, n))
      <3>1. ~(n < n)
        BY <2>1
      <3> QED
        BY <1>6, <2>4, <3>1
    <2> QED
      BY <2>3, <2>5, <2>6
  <1> QED
    BY <1>7, <1>8

\* Deduplication leaves some of the events.
LEMMA NewEventsAre ==
  ASSUME NEW s \in Seq(Events), NEW existing
  PROVE  /\ NewEvents(s, existing) \in Seq(Events)
         /\ Range(NewEvents(s, existing)) \subseteq Range(s)
  <1> DEFINE at == NewAt(s, existing)
  <1>1. at \in SUBSET (1 .. Len(s)) /\ Len(s) \in Nat
    BY DEF NewAt
  <1>2. Cardinality(at) \in Nat
    BY <1>1, RowsAreFinite
  <1>3. \A n \in 1 .. Cardinality(at) : Nth(at, n) \in at
    BY <1>1, NthIs
  <1>4. NewEvents(s, existing) = [n \in 1 .. Cardinality(at) |-> s[Nth(at, n)]]
    BY DEF NewEvents, SubsequenceAt
  <1> HIDE DEF at
  <1>5. ASSUME NEW n \in 1 .. Cardinality(at)
        PROVE  s[Nth(at, n)] \in Events /\ Nth(at, n) \in DOMAIN s
    <2>1. Nth(at, n) \in 1 .. Len(s)
      BY <1>1, <1>3
    <2> QED
      BY <2>1
  <1>6. Range(NewEvents(s, existing)) \subseteq Range(s)
    BY <1>4, <1>5 DEF Range
  <1> QED
    BY <1>2, <1>4, <1>5, <1>6

\* The DuckDB batch that a row belongs to.
LEMMA Division ==
  ASSUME NEW r \in Nat, NEW B \in Nat \ {0}
  PROVE  /\ r \div B \in Nat
         /\ (r \div B) * B <= r
         /\ r < (r \div B) * B + B
         /\ (r \div B + 1) * B = (r \div B) * B + B
  OBVIOUS

LEMMA Quotient ==
  ASSUME NEW r \in Nat, NEW B \in Nat \ {0}, NEW q \in Nat, q * B <= r, r < q * B + B
  PROVE  r \div B = q
  OBVIOUS

\* The rows of a call are numbered, its batches lie within them, and no more
\* are counted than there are.
LEMMA Rows ==
  ASSUME LoadInv, NEW i \in Ingests
  PROVE  /\ Len(fresh[i]) \in Nat /\ row[i] \in Nat /\ loaded[i] \in Nat
         /\ DOMAIN fresh[i] = 1 .. Len(fresh[i])
         /\ BatchStart(i) \in Nat /\ BatchStart(i) <= row[i]
         /\ Tried(i) \in Nat /\ Tried(i) <= Len(fresh[i])
         /\ loaded[i] <= Tried(i)
         /\ pc[i] = "insert" =>
              /\ BatchEnd(i) \in Nat /\ row[i] < BatchEnd(i) /\ BatchEnd(i) <= Len(fresh[i])
              /\ BatchEnd(i) # Len(fresh[i]) => BatchEnd(i) = BatchStart(i) + DuckBatch
              /\ BatchEnd(i) <= BatchStart(i) + DuckBatch
  <1>1. /\ Len(fresh[i]) \in Nat /\ row[i] \in Nat /\ loaded[i] \in Nat
        /\ DOMAIN fresh[i] = 1 .. Len(fresh[i])
    BY DEF LoadInv, LoadTypeOK
  <1>2. DuckBatch \in Nat \ {0}
    BY IngestionAssumption
  <1>3. /\ BatchStart(i) \in Nat /\ BatchStart(i) <= row[i]
        /\ row[i] < BatchStart(i) + DuckBatch
    <2>1. /\ row[i] \div DuckBatch \in Nat
          /\ (row[i] \div DuckBatch) * DuckBatch <= row[i]
          /\ row[i] < (row[i] \div DuckBatch) * DuckBatch + DuckBatch
      BY <1>1, <1>2, Division
    <2> QED
      BY <1>2, <2>1 DEF BatchStart
  <1>4. BatchEnd(i) = IF BatchStart(i) + DuckBatch < Len(fresh[i])
                      THEN BatchStart(i) + DuckBatch ELSE Len(fresh[i])
    <2>1. (row[i] \div DuckBatch + 1) * DuckBatch = BatchStart(i) + DuckBatch
      BY <1>1, <1>2, Division DEF BatchStart
    <2> QED
      BY <2>1 DEF BatchEnd
  <1>5. pc[i] = "insert" => row[i] < Len(fresh[i])
    BY DEF LoadInv, CallIsTrue, InBatch
  <1>6. Tried(i) \in Nat /\ Tried(i) <= Len(fresh[i])
    BY <1>1, <1>3, <1>5 DEF Tried
  <1>7. loaded[i] <= Tried(i)
    <2>1. RowsStored(i, Tried(i)) \in SUBSET (1 .. Tried(i))
      BY DEF RowsStored
    <2>2. Cardinality(RowsStored(i, Tried(i))) \in Nat /\ Cardinality(RowsStored(i, Tried(i))) <= Tried(i)
      BY <1>6, <2>1, RowsAreFinite
    <2>3. loaded[i] <= Cardinality(RowsStored(i, Tried(i)))
      BY DEF LoadInv, CallIsTrue, Counted
    <2> QED
      BY <1>1, <1>6, <2>2, <2>3
  <1> QED
    BY <1>1, <1>2, <1>3, <1>4, <1>5, <1>6, <1>7

\* Where the batch of the next row begins, once rows of this one are tried.
LEMMA BatchAfter ==
  ASSUME LoadInv, NEW i \in Ingests, pc[i] = "insert",
         NEW r \in Nat, BatchStart(i) < r, r <= BatchEnd(i), r # Len(fresh[i])
  PROVE  (r \div DuckBatch) * DuckBatch = IF r = BatchEnd(i) THEN BatchEnd(i) ELSE BatchStart(i)
  <1> DEFINE q == row[i] \div DuckBatch
             start == BatchStart(i)
             end == BatchEnd(i)
  <1>1. /\ start \in Nat /\ end \in Nat /\ row[i] \in Nat /\ end <= start + DuckBatch
        /\ end # Len(fresh[i]) => end = start + DuckBatch
        /\ DuckBatch \in Nat \ {0}
    BY Rows, IngestionAssumption
  <1>2. q \in Nat /\ start = q * DuckBatch /\ (q + 1) * DuckBatch = start + DuckBatch
    BY <1>1, Division DEF BatchStart
  <1> HIDE DEF q, start, end
  <1>3. start < r /\ r <= end /\ r # Len(fresh[i])
    BY DEF start, end
  <1>4. CASE r = end
    <2>1. end = start + DuckBatch
      BY <1>1, <1>3, <1>4
    <2>2. (q + 1) * DuckBatch = r
      BY <1>2, <1>4, <2>1
    <2>3. q + 1 \in Nat /\ r < r + DuckBatch /\ r <= r
      BY <1>1, <1>2
    <2>4. r \div DuckBatch = q + 1
      BY <1>1, <2>2, <2>3, Quotient
    <2> QED
      BY <1>4, <2>2, <2>4 DEF end
  <1>5. CASE r # end
    <2>1. q * DuckBatch <= r /\ r < q * DuckBatch + DuckBatch
      BY <1>1, <1>2, <1>3, <1>5
    <2>2. r \div DuckBatch = q
      BY <1>1, <1>2, <2>1, Quotient
    <2> QED
      BY <1>2, <1>5, <2>2 DEF start, end
  <1> QED
    BY <1>4, <1>5

\* Rows that are stored stay, and more rows have no fewer that are stored.
LEMMA StoredRowsGrow ==
  ASSUME NEW A, NEW n \in Nat, NEW B \in SUBSET (1 .. n), A \subseteq B
  PROVE  Cardinality(A) \in Nat /\ Cardinality(B) \in Nat /\ Cardinality(A) <= Cardinality(B)
  <1>1. IsFiniteSet(B) /\ Cardinality(B) \in Nat
    BY RowsAreFinite
  <1> QED
    BY <1>1, FS_Subset, FS_CardinalityType

\* A step of another call, which may store and enrich events, leaves a call as
\* it was.
LEMMA CallIsKept ==
  ASSUME LoadInv, NEW i \in Ingests, duck \subseteq duck', enriched \subseteq enriched',
         pc'[i] = pc[i], events'[i] = events[i], fresh'[i] = fresh[i], row'[i] = row[i],
         loaded'[i] = loaded[i], embed'[i] = embed[i] \/ embed[i] # "none"
  PROVE  CallIsTrue(i)'
  <1>1. CallIsTrue(i)
    BY DEF LoadInv
  <1>2. BatchStart(i)' = BatchStart(i) /\ Tried(i)' = Tried(i)
    BY DEF BatchStart, Tried
  <1>3. Counted(i)'
    <2>1. RowsStored(i, Tried(i)) \subseteq RowsStored(i, Tried(i))'
      BY <1>2 DEF RowsStored
    <2>2. RowsStored(i, Tried(i))' \in SUBSET (1 .. Tried(i))
      BY <1>2 DEF RowsStored
    <2>3. loaded[i] \in Nat /\ Tried(i) \in Nat
      BY Rows
    <2>4. /\ Cardinality(RowsStored(i, Tried(i))) \in Nat
          /\ Cardinality(RowsStored(i, Tried(i))') \in Nat
          /\ Cardinality(RowsStored(i, Tried(i))) <= Cardinality(RowsStored(i, Tried(i))')
      BY <2>1, <2>2, <2>3, StoredRowsGrow
    <2>5. loaded[i] <= Cardinality(RowsStored(i, Tried(i)))
      BY <1>1 DEF CallIsTrue, Counted
    <2> QED
      BY <2>3, <2>4, <2>5 DEF Counted
  <1>4. InBatch(i)'
    BY <1>1, <1>2 DEF CallIsTrue, InBatch
  <1>5. NothingYet(i)' /\ FreshIsEnriched(i)' /\ ShortIsStored(i)'
    BY <1>1 DEF CallIsTrue, NothingYet, FreshIsEnriched, ShortIsStored
  <1> QED
    BY <1>3, <1>4, <1>5 DEF CallIsTrue

\* So does a step of its own that inserts nothing.
LEMMA CallMoves ==
  ASSUME LoadInv, NEW i \in Ingests, duck' = duck, enriched \subseteq enriched',
         fresh'[i] = fresh[i], row'[i] = row[i], loaded'[i] = loaded[i], pc'[i] # "insert",
         pc'[i] \in {"idle", "start", "dedup"} =>
           pc[i] \in {"idle", "start", "dedup"} /\ embed'[i] = embed[i],
         pc'[i] = "dedup" => Range(events'[i]) \subseteq enriched'
  PROVE  CallIsTrue(i)'
  <1>1. CallIsTrue(i)
    BY DEF LoadInv
  <1>2. Tried(i)' = Len(fresh[i]) /\ Len(fresh[i]) \in Nat
    BY Rows DEF Tried
  <1>3. Counted(i)'
    <2>1. /\ loaded[i] \in Nat /\ Tried(i) \in Nat /\ Tried(i) <= Len(fresh[i])
      BY Rows
    <2>2. RowsStored(i, Tried(i)) \subseteq RowsStored(i, Len(fresh[i]))
      BY <1>2, <2>1 DEF RowsStored
    <2>3. RowsStored(i, Len(fresh[i])) \in SUBSET (1 .. Len(fresh[i]))
      BY DEF RowsStored
    <2>4. /\ Cardinality(RowsStored(i, Tried(i))) \in Nat
          /\ Cardinality(RowsStored(i, Len(fresh[i]))) \in Nat
          /\ Cardinality(RowsStored(i, Tried(i))) <= Cardinality(RowsStored(i, Len(fresh[i])))
      BY <1>2, <2>2, <2>3, StoredRowsGrow
    <2>5. loaded[i] <= Cardinality(RowsStored(i, Tried(i)))
      BY <1>1 DEF CallIsTrue, Counted
    <2>6. RowsStored(i, Tried(i))' = RowsStored(i, Len(fresh[i]))
      BY <1>2 DEF RowsStored
    <2> QED
      BY <2>1, <2>4, <2>5, <2>6 DEF Counted
  <1>4. InBatch(i)'
    BY DEF InBatch
  <1>5. NothingYet(i)' /\ FreshIsEnriched(i)' /\ ShortIsStored(i)'
    BY <1>1 DEF CallIsTrue, NothingYet, FreshIsEnriched, ShortIsStored
  <1> QED
    BY <1>3, <1>4, <1>5 DEF CallIsTrue

\* What is handed on are rows of the call; with one DuckDB batch, stored ones.
LEMMA HandedOn ==
  ASSUME LoadInv, NEW i \in Ingests
  PROVE  /\ Range(StoredEvents(i)) \subseteq Range(fresh[i])
         /\ Range(StoredEvents(i)) \subseteq Events
         /\ Len(fresh[i]) <= DuckBatch => Range(StoredEvents(i)) \subseteq duck
  <1>1. /\ Len(fresh[i]) \in Nat /\ loaded[i] \in Nat /\ loaded[i] <= Len(fresh[i])
        /\ fresh[i] \in Seq(Events)
    BY Rows DEF LoadInv, LoadTypeOK
  <1>2. /\ DOMAIN StoredEvents(i) = 1 .. loaded[i]
        /\ \A k \in 1 .. loaded[i] : /\ StoredEvents(i)[k] = fresh[i][k]
                                     /\ k \in DOMAIN fresh[i] /\ fresh[i][k] \in Events
    BY <1>1 DEF StoredEvents
  <1>3. Len(fresh[i]) <= DuckBatch => \A k \in 1 .. loaded[i] : fresh[i][k] \in duck
    BY DEF LoadInv, CallIsTrue, ShortIsStored
  <1> QED
    BY <1>2, <1>3 DEF Range

\* Handing on what was counted keeps the indexes within the store.
LEMMA IndexIsKept ==
  ASSUME LoadInv, NEW i \in Ingests, duck \subseteq duck', fresh' = fresh,
         graph' \cup chroma' \subseteq graph \cup chroma \cup Range(StoredEvents(i))
  PROVE  IndexedIsStored'
  <1> SUFFICES ASSUME NEW e \in (graph' \cup chroma') \ duck'
               PROVE  \E j \in Ingests : Len(fresh[j]) > DuckBatch /\ e \in Range(fresh[j])
    BY DEF IndexedIsStored
  <1>1. CASE e \in Range(StoredEvents(i))
    <2>1. e \in Range(fresh[i]) /\ ~(Len(fresh[i]) <= DuckBatch)
      BY <1>1, HandedOn
    <2>2. Len(fresh[i]) \in Nat /\ DuckBatch \in Nat
      BY Rows, IngestionAssumption
    <2> QED
      BY <2>1, <2>2
  <1>2. CASE e \in graph \cup chroma
    BY <1>2 DEF LoadInv, IndexedIsStored
  <1> QED
    BY <1>1, <1>2

\* A call has a list of events.
LEMMA EventsAre ==
  ASSUME LoadInv, NEW i \in Ingests
  PROVE  events[i] \in Seq(Events)
  <1>1. events[i] \in Batches \cup {<<>>}
    BY DEF LoadInv, LoadTypeOK
  <1>2. <<>> \in Seq(Events)
    OBVIOUS
  <1>3. Batches \subseteq Seq(Events)
    BY IngestionAssumption
  <1> QED
    BY <1>1, <1>2, <1>3

\* A call begins.
LEMMA BeginKeeps ==
  ASSUME LoadInv, NEW i \in Ingests, NEW s \in Batches, IngestEvents(i, s)
  PROVE  LoadInv'
  <1>1. /\ LoadTypeOK'
        /\ \A j \in Ingests : j # i => pc'[j] = pc[j] /\ events'[j] = events[j]
        /\ pc'[i] \in {"correlate", "start"} /\ pc[i] = "idle"
    BY DEF LoadInv, LoadTypeOK, IngestEvents, Goto, States
  <1>2. UNCHANGED <<fresh, row, loaded, embed, enriched, duck, graph, chroma>>
    BY DEF IngestEvents
  <1>3. \A j \in Ingests : CallIsTrue(j)'
    BY <1>1, <1>2, CallIsKept, CallMoves
  <1>4. StoredWasEnriched' /\ IndexedIsStored'
    BY <1>2, IndexIsKept DEF LoadInv, StoredWasEnriched
  <1> QED
    BY <1>1, <1>3, <1>4 DEF LoadInv

\* Events are enriched, all of them before the call goes on.
LEMMA EnrichKeeps ==
  ASSUME LoadInv, NEW i \in Ingests, Enrich(i)
  PROVE  LoadInv'
  <1>1. events[i] \in Seq(Events) /\ enriched \subseteq Events
    BY EventsAre DEF LoadInv, LoadTypeOK
  <1>2. /\ enriched \subseteq enriched' /\ enriched' \subseteq Events
        /\ pc'[i] = "dedup" => Range(events[i]) \subseteq enriched'
        /\ pc'[i] \in {"dedup", "failed"} /\ pc[i] = "start"
    <2>1. Range(events[i]) \subseteq Events
      BY <1>1 DEF Range
    <2>2. ASSUME NEW n \in 0 .. Len(events[i]) - 1
          PROVE  Range(SubSeq(events[i], 1, n)) \subseteq Events
      <3>1. Len(events[i]) \in Nat /\ n \in Nat /\ n <= Len(events[i])
        BY <1>1
      <3>2. /\ DOMAIN SubSeq(events[i], 1, n) = 1 .. n
            /\ \A k \in 1 .. n : SubSeq(events[i], 1, n)[k] \in Events
        BY <1>1, <3>1
      <3> QED
        BY <3>2 DEF Range
    <2>3. pc \in [Ingests -> States]
      BY DEF LoadInv, LoadTypeOK
    <2> QED
      BY <1>1, <2>1, <2>2, <2>3 DEF Enrich, EnrichedBy, Goto
  <1>3. /\ \A j \in Ingests : j # i => pc'[j] = pc[j]
        /\ UNCHANGED <<events, fresh, row, loaded, embed, duck, graph, chroma>>
    BY DEF Enrich, Goto, LoadInv, LoadTypeOK
  <1>4. LoadTypeOK'
    <2>1. faults' \in 0 .. MaxFaults
      BY IngestionAssumption DEF Enrich, Fault, LoadInv, LoadTypeOK
    <2>2. pc' \in [Ingests -> States]
      BY DEF Enrich, Goto, LoadInv, LoadTypeOK, States
    <2> QED
      BY <1>2, <1>3, <2>1, <2>2 DEF LoadInv, LoadTypeOK
  <1>5. \A j \in Ingests : CallIsTrue(j)'
    BY <1>2, <1>3, CallIsKept, CallMoves
  <1>6. StoredWasEnriched' /\ IndexedIsStored'
    BY <1>2, <1>3, IndexIsKept DEF LoadInv, StoredWasEnriched
  <1> QED
    BY <1>4, <1>5, <1>6 DEF LoadInv

\* The embedding and the graph are built, or in part.
LEMMA IndexingKeeps ==
  ASSUME LoadInv, NEW i \in Ingests, StartEmbed(i) \/ FireEmbed(i) \/ WriteGraph(i) \/ Correlate(i)
  PROVE  LoadInv'
  <1>1. UNCHANGED <<events, fresh, row, loaded, enriched, duck>>
    BY DEF StartEmbed, FireEmbed, WriteGraph, Correlate
  <1>2. graph' \cup chroma' \subseteq graph \cup chroma \cup Range(StoredEvents(i))
    BY DEF StartEmbed, FireEmbed, WriteGraph, Correlate
  <1>3. LoadTypeOK'
    <2>1. faults' \in 0 .. MaxFaults
      BY IngestionAssumption
         DEF StartEmbed, FireEmbed, WriteGraph, Correlate, Fault, LoadInv, LoadTypeOK
    <2>2. /\ pc' \in [Ingests -> States]
          /\ embed' \in [Ingests -> {"none", "pending", "done", "lost"}]
      BY DEF StartEmbed, FireEmbed, WriteGraph, Correlate, Goto, LoadInv, LoadTypeOK, States
    <2>3. graph' \subseteq Events /\ chroma' \subseteq Events
      BY <1>2, HandedOn DEF LoadInv, LoadTypeOK
    <2> QED
      BY <1>1, <2>1, <2>2, <2>3 DEF LoadInv, LoadTypeOK
  <1>4. ASSUME NEW j \in Ingests PROVE CallIsTrue(j)'
    <2>1. /\ pc \in [Ingests -> States]
          /\ embed \in [Ingests -> {"none", "pending", "done", "lost"}]
      BY DEF LoadInv, LoadTypeOK
    <2>2. \/ pc'[j] = pc[j] /\ (embed'[j] = embed[j] \/ embed[j] # "none")
          \/ pc'[j] \in {"graph", "correlate", "done"}
      BY <2>1 DEF StartEmbed, FireEmbed, WriteGraph, Correlate, Goto
    <2> QED
      BY <1>1, <2>2, CallIsKept, CallMoves
  <1>5. StoredWasEnriched' /\ IndexedIsStored'
    BY <1>1, <1>2, IndexIsKept DEF LoadInv, StoredWasEnriched
  <1> QED
    BY <1>3, <1>4, <1>5 DEF LoadInv

\* The process ends.
LEMMA CrashKeeps ==
  ASSUME LoadInv, Crash
  PROVE  LoadInv'
  <1>1. UNCHANGED <<events, fresh, row, loaded, enriched, duck, graph, chroma>>
    BY DEF Crash
  <1>2. LoadTypeOK'
    <2>1. faults' \in 0 .. MaxFaults
      BY IngestionAssumption DEF Crash, Fault, LoadInv, LoadTypeOK
    <2>2. /\ pc' \in [Ingests -> States]
          /\ embed' \in [Ingests -> {"none", "pending", "done", "lost"}]
      BY DEF Crash, LoadInv, LoadTypeOK, States
    <2> QED
      BY <1>1, <2>1, <2>2 DEF LoadInv, LoadTypeOK
  <1>3. ASSUME NEW j \in Ingests PROVE CallIsTrue(j)'
    <2>1. \/ pc'[j] = pc[j] /\ (embed'[j] = embed[j] \/ embed[j] # "none")
          \/ pc'[j] = "failed"
      BY DEF Crash
    <2> QED
      BY <1>1, <2>1, CallIsKept, CallMoves
  <1>4. StoredWasEnriched'
    BY <1>1 DEF LoadInv, StoredWasEnriched
  <1>5. IndexedIsStored'
    BY <1>1 DEF LoadInv, IndexedIsStored
  <1> QED
    BY <1>2, <1>3, <1>4, <1>5 DEF LoadInv

\* Deduplication leaves a call with rows, all of them enriched, none tried.
LEMMA DeduplicateKeeps ==
  ASSUME LoadInv, NEW i \in Ingests, Deduplicate(i)
  PROVE  LoadInv'
  <1>1. /\ events[i] \in Seq(Events) /\ Range(events[i]) \subseteq enriched
        /\ fresh[i] = <<>> /\ row[i] = 0 /\ loaded[i] = 0
    BY EventsAre DEF LoadInv, CallIsTrue, NothingYet, FreshIsEnriched, Deduplicate
  <1>2. PICK s \in {NewEvents(events[i], duck), events[i]} : fresh' = [fresh EXCEPT ![i] = s]
    BY DEF Deduplicate
  <1>3. s \in Seq(Events) /\ Range(s) \subseteq enriched
    BY <1>1, <1>2, NewEventsAre
  <1>4. /\ fresh \in [Ingests -> Seq(Events)] /\ pc \in [Ingests -> States]
        /\ row \in [Ingests -> Nat] /\ loaded \in [Ingests -> Nat]
    BY DEF LoadInv, LoadTypeOK
  <1>5. fresh'[i] = s /\ \A j \in Ingests : j # i => fresh'[j] = fresh[j]
    BY <1>2, <1>4
  <1>6. /\ pc' = [pc EXCEPT ![i] = IF s = <<>> THEN "done" ELSE "insert"]
        /\ UNCHANGED <<events, row, loaded, embed, enriched, duck, graph, chroma>>
    BY <1>5 DEF Deduplicate, Goto
  <1>7. LoadTypeOK'
    <2>1. faults' \in 0 .. MaxFaults
      BY IngestionAssumption DEF Deduplicate, Fault, LoadInv, LoadTypeOK
    <2>2. fresh' \in [Ingests -> Seq(Events)]
      BY <1>2, <1>3, <1>4
    <2>3. pc' \in [Ingests -> States]
      BY <1>4, <1>6 DEF States
    <2> QED
      BY <1>6, <2>1, <2>2, <2>3 DEF LoadInv, LoadTypeOK
  <1>8. CallIsTrue(i)'
    <2>1. pc'[i] = (IF s = <<>> THEN "done" ELSE "insert")
      BY <1>4, <1>6
    <2>2. row'[i] = 0 /\ loaded'[i] = 0 /\ BatchStart(i)' = 0
      <3>1. 0 \div DuckBatch = 0
        BY IngestionAssumption, Quotient
      <3> QED
        BY <1>1, <1>6, <3>1, IngestionAssumption DEF BatchStart
    <2>3. Counted(i)'
      <3>1. Tried(i)' \in Nat
        BY <1>3, <1>5, <2>2 DEF Tried
      <3>2. RowsStored(i, Tried(i))' \in SUBSET (1 .. Tried(i)')
        BY DEF RowsStored
      <3>3. Cardinality(RowsStored(i, Tried(i))') \in Nat
        BY <3>1, <3>2, RowsAreFinite
      <3> QED
        BY <2>2, <3>3 DEF Counted
    <2>4. InBatch(i)'
      <3>1. pc'[i] = "insert" => 0 < Len(s)
        BY <1>3, <2>1
      <3> QED
        BY <1>5, <2>2, <3>1 DEF InBatch
    <2>5. NothingYet(i)' /\ FreshIsEnriched(i)'
      BY <1>3, <1>5, <1>6, <2>1 DEF NothingYet, FreshIsEnriched
    <2>6. ShortIsStored(i)'
      BY <2>2 DEF ShortIsStored
    <2> QED
      BY <2>3, <2>4, <2>5, <2>6 DEF CallIsTrue
  <1>9. \A j \in Ingests : CallIsTrue(j)'
    <2>1. \A j \in Ingests : j # i => pc'[j] = pc[j]
      BY <1>4, <1>6
    <2> QED
      BY <1>5, <1>6, <1>8, <2>1, CallIsKept
  <1>10. IndexedIsStored'
    <2>1. Range(fresh[i]) = {}
      BY <1>1 DEF Range
    <2>2. \A j \in Ingests : Len(fresh[j]) > DuckBatch /\ Range(fresh[j]) # {} => j # i
      BY <2>1
    <2> QED
      BY <1>5, <1>6, <2>2 DEF LoadInv, IndexedIsStored
  <1>11. StoredWasEnriched'
    BY <1>6 DEF LoadInv, StoredWasEnriched
  <1> QED
    BY <1>7, <1>9, <1>10, <1>11 DEF LoadInv

\* A row that is inserted is stored; one that raises takes the rest of its
\* batch along.  Only a batch that is through is counted.
LEMMA InsertKeeps ==
  ASSUME LoadInv, NEW i \in Ingests, InsertRow(i)
  PROVE  LoadInv'
  <1> DEFINE new == fresh[i][row[i] + 1]
             start == BatchStart(i)
             end == BatchEnd(i)
             length == Len(fresh[i])
  <1>1. /\ fresh \in [Ingests -> Seq(Events)] /\ pc \in [Ingests -> States]
        /\ row \in [Ingests -> Nat] /\ loaded \in [Ingests -> Nat]
        /\ pc[i] = "insert" /\ row[i] < length /\ DuckBatch \in Nat \ {0}
    BY IngestionAssumption DEF LoadInv, LoadTypeOK, InsertRow
  <1>2. /\ length \in Nat /\ start \in Nat /\ end \in Nat /\ row[i] \in Nat /\ loaded[i] \in Nat
        /\ start <= row[i] /\ row[i] < end /\ end <= length /\ end <= start + DuckBatch
        /\ end # length => end = start + DuckBatch
        /\ DOMAIN fresh[i] = 1 .. length
    BY <1>1, Rows
  <1>3. /\ UNCHANGED <<events, fresh, embed, enriched, graph, chroma>>
        /\ pc' = [pc EXCEPT ![i] = IF row'[i] = length THEN "store" ELSE "insert"]
        /\ \/ /\ duck' = duck \cup {new} /\ row' = [row EXCEPT ![i] = row[i] + 1]
              /\ loaded' = [loaded EXCEPT ![i] = IF row[i] + 1 = end
                                                 THEN loaded[i] + (row[i] + 1 - start) ELSE loaded[i]]
           \/ /\ duck' = duck /\ row' = [row EXCEPT ![i] = end]
              /\ loaded' = [loaded EXCEPT ![i] = loaded[i]]
    BY DEF InsertRow, Goto, LoadedAfterFailure
  <1>4. new \in Events /\ new \in Range(fresh[i])
    <2>1. row[i] + 1 \in DOMAIN fresh[i]
      BY <1>1, <1>2
    <2> QED
      BY <1>1, <2>1 DEF Range
  <1>5. duck \subseteq duck' /\ duck' \subseteq Events /\ duck' \subseteq enriched
    BY <1>3, <1>4 DEF LoadInv, LoadTypeOK, CallIsTrue, FreshIsEnriched, StoredWasEnriched
  <1>6. PICK r \in Nat, c \in Nat :
          /\ row' = [row EXCEPT ![i] = r] /\ loaded' = [loaded EXCEPT ![i] = c]
          /\ \/ duck' = duck \cup {new} /\ r = row[i] + 1 /\ r = end /\ c = loaded[i] + (row[i] + 1 - start)
             \/ duck' = duck \cup {new} /\ r = row[i] + 1 /\ r # end /\ c = loaded[i]
             \/ duck' = duck /\ r = end /\ c = loaded[i]
    <2>1. row[i] + 1 \in Nat /\ loaded[i] + (row[i] + 1 - start) \in Nat /\ loaded[i] \in Nat /\ end \in Nat
      BY <1>2
    <2> HIDE DEF start, end, length, new
    <2>2. CASE duck' = duck /\ row' = [row EXCEPT ![i] = end] /\ loaded' = [loaded EXCEPT ![i] = loaded[i]]
      BY <2>1, <2>2
    <2>3. CASE /\ duck' = duck \cup {new} /\ row' = [row EXCEPT ![i] = row[i] + 1]
               /\ loaded' = [loaded EXCEPT ![i] = IF row[i] + 1 = end
                                                  THEN loaded[i] + (row[i] + 1 - start) ELSE loaded[i]]
      <3>1. CASE row[i] + 1 = end
        <4>1. loaded' = [loaded EXCEPT ![i] = loaded[i] + (row[i] + 1 - start)]
          BY <2>3, <3>1
        <4> QED
          BY <2>1, <2>3, <3>1, <4>1
      <3>2. CASE row[i] + 1 # end
        <4>1. loaded' = [loaded EXCEPT ![i] = loaded[i]]
          BY <2>3, <3>2
        <4> QED
          BY <2>1, <2>3, <3>2, <4>1
      <3> QED
        BY <3>1, <3>2
    <2> QED
      BY <1>3, <2>2, <2>3
  <1>7. LoadTypeOK'
    <2>1. faults' \in 0 .. MaxFaults
      BY IngestionAssumption DEF InsertRow, Fault, LoadInv, LoadTypeOK
    <2>2. pc' \in [Ingests -> States]
      BY <1>1, <1>3 DEF States
    <2>3. row' \in [Ingests -> Nat] /\ loaded' \in [Ingests -> Nat]
      BY <1>1, <1>6
    <2> QED
      BY <1>3, <1>5, <2>1, <2>2, <2>3 DEF LoadInv, LoadTypeOK
  <1>8. IndexedIsStored'
    BY <1>3, <1>5 DEF LoadInv, IndexedIsStored
  <1>9. \A j \in Ingests : j # i => CallIsTrue(j)'
    <2>1. \A j \in Ingests : j # i => row'[j] = row[j] /\ loaded'[j] = loaded[j] /\ pc'[j] = pc[j]
      BY <1>1, <1>3, <1>6
    <2> QED
      BY <1>3, <1>5, <2>1, CallIsKept
  <1>10. CallIsTrue(i)'
    <2>1. /\ fresh'[i] = fresh[i] /\ row'[i] = r /\ loaded'[i] = c
          /\ pc'[i] = IF r = length THEN "store" ELSE "insert"
      BY <1>1, <1>3, <1>6
    <2>2. /\ r <= end /\ r <= length /\ start < r
          /\ r # end => r = row[i] + 1 /\ r < end
      BY <1>2, <1>6
    <2>3. BatchStart(i)' = (r \div DuckBatch) * DuckBatch
      BY <2>1 DEF BatchStart
    <2>4. ASSUME r # length PROVE BatchStart(i)' = IF r = end THEN end ELSE start
      BY <1>1, <2>2, <2>3, <2>4, BatchAfter
    <2>5. Tried(i)' = IF r = end THEN end ELSE start
      BY <1>2, <2>1, <2>2, <2>4 DEF Tried
    <2>6. \A k \in start + 1 .. row[i] : fresh[i][k] \in duck
      BY <1>1 DEF LoadInv, CallIsTrue, InBatch
    <2>7. duck' = duck \cup {new} => \A k \in start + 1 .. r : k <= row[i] + 1 => fresh[i][k] \in duck'
      <3>1. \A k \in start + 1 .. r : k <= row[i] + 1 => k \in start + 1 .. row[i] \/ k = row[i] + 1
        BY <1>2
      <3> QED
        BY <2>6, <3>1
    <2>8. Counted(i)'
      <3>1. /\ RowsStored(i, start) \subseteq RowsStored(i, Tried(i))'
            /\ RowsStored(i, Tried(i))' \in SUBSET (1 .. Tried(i)') /\ Tried(i)' \in Nat
        <4>1. Tried(i)' \in Nat /\ start <= Tried(i)'
          BY <1>2, <2>2, <2>5
        <4> QED
          BY <1>2, <1>5, <2>1, <4>1 DEF RowsStored
      <3>2. /\ Cardinality(RowsStored(i, start)) \in Nat
            /\ Cardinality(RowsStored(i, Tried(i))') \in Nat
            /\ Cardinality(RowsStored(i, start)) <= Cardinality(RowsStored(i, Tried(i))')
        BY <3>1, StoredRowsGrow
      <3>3. loaded[i] <= Cardinality(RowsStored(i, start))
        BY <1>1 DEF LoadInv, CallIsTrue, Counted, Tried
      <3>4. CASE c = loaded[i]
        BY <1>2, <2>1, <3>2, <3>3, <3>4 DEF Counted
      <3>5. CASE duck' = duck \cup {new} /\ r = row[i] + 1 /\ r = end /\ c = loaded[i] + (row[i] + 1 - start)
        <4> DEFINE both == RowsStored(i, start) \cup (start + 1 .. r)
        <4>1. Tried(i)' = r
          BY <2>5, <3>5
        <4>2. (start + 1 .. r) \subseteq RowsStored(i, Tried(i))'
          <5>1. \A k \in start + 1 .. r : k \in 1 .. r /\ k <= row[i] + 1
            BY <1>2, <3>5
          <5> QED
            BY <2>1, <2>7, <3>5, <4>1, <5>1 DEF RowsStored
        <4>3. Cardinality(both) \in Nat /\ Cardinality(both) <= Cardinality(RowsStored(i, Tried(i))')
          BY <3>1, <4>2, StoredRowsGrow
        <4>4. IsFiniteSet(start + 1 .. r) /\ Cardinality(start + 1 .. r) = r - start
          <5>1. start + 1 \in Int /\ r \in Int /\ ~(start + 1 > r) /\ r - (start + 1) + 1 = r - start
            BY <1>2, <2>2
          <5> QED
            BY <5>1, FS_Interval
        <4>5. RowsStored(i, start) \cap (start + 1 .. r) = {} /\ IsFiniteSet(RowsStored(i, start))
          <5>1. RowsStored(i, start) \in SUBSET (1 .. start)
            BY DEF RowsStored
          <5>2. \A k \in 1 .. start : k \notin start + 1 .. r
            BY <1>2
          <5> QED
            BY <1>2, <5>1, <5>2, RowsAreFinite
        <4>6. Cardinality(both) = Cardinality(RowsStored(i, start)) + (r - start)
          <5>1. Cardinality(both) = Cardinality(RowsStored(i, start)) + Cardinality(start + 1 .. r)
                                    - Cardinality(RowsStored(i, start) \cap (start + 1 .. r))
            BY <4>4, <4>5, FS_Union
          <5>2. Cardinality(RowsStored(i, start) \cap (start + 1 .. r)) = 0
            BY <4>5, FS_EmptySet
          <5> QED
            BY <1>2, <3>2, <4>4, <5>1, <5>2
        <4> HIDE DEF both
        <4>7. c = loaded[i] + (r - start)
          BY <1>2, <3>5
        <4>8. c <= Cardinality(both)
          BY <1>2, <3>2, <3>3, <4>6, <4>7
        <4> QED
          BY <2>1, <3>2, <4>3, <4>8 DEF Counted
      <3> QED
        BY <1>6, <3>4, <3>5
    <2>9. InBatch(i)'
      <3>1. CASE r = length
        BY <2>1, <3>1 DEF InBatch
      <3>2. CASE r # length /\ r = end
        BY <1>2, <2>1, <2>2, <2>4, <3>2 DEF InBatch
      <3>3. CASE r # length /\ r # end
        <4>1. r < length /\ r = row[i] + 1 /\ BatchStart(i)' = start /\ duck' = duck \cup {new}
          BY <1>2, <1>6, <2>2, <2>4, <3>3
        <4>2. \A k \in start + 1 .. r : fresh[i][k] \in duck'
          BY <1>2, <2>7, <4>1
        <4> QED
          BY <2>1, <4>1, <4>2 DEF InBatch
      <3> QED
        BY <3>1, <3>2, <3>3
    <2>10. NothingYet(i)' /\ FreshIsEnriched(i)'
      BY <1>3, <2>1 DEF NothingYet, FreshIsEnriched, LoadInv, CallIsTrue
    <2>11. ShortIsStored(i)'
      <3> SUFFICES ASSUME length <= DuckBatch
                   PROVE  \A k \in 1 .. c : fresh[i][k] \in duck'
        BY <2>1 DEF ShortIsStored
      <3>1. start = 0
        <4>1. row[i] \div DuckBatch = 0
          BY <1>1, <1>2, Quotient
        <4> QED
          BY <1>1, <4>1 DEF BatchStart
      <3>2. loaded[i] = 0
        BY <1>1, <1>2, <3>1, Rows DEF Tried
      <3>3. CASE duck' = duck \cup {new} /\ r = row[i] + 1
        <4>1. c <= r
          BY <1>2, <1>6, <3>1, <3>2
        <4>2. \A k \in 1 .. c : k \in start + 1 .. r /\ k <= row[i] + 1
          BY <3>1, <3>3, <4>1
        <4> QED
          BY <2>7, <3>3, <4>2
      <3>4. CASE c = loaded[i]
        BY <3>2, <3>4
      <3> QED
        BY <1>6, <3>3, <3>4
    <2> QED
      BY <2>8, <2>9, <2>10, <2>11 DEF CallIsTrue
  <1> QED
    BY <1>3, <1>5, <1>7, <1>8, <1>9, <1>10 DEF LoadInv, StoredWasEnriched

\* No call has begun.
LEMMA InitLoadInv == LoadInit => LoadInv
  <1> SUFFICES ASSUME LoadInit PROVE LoadInv
    OBVIOUS
  <1>1. LoadTypeOK
    BY IngestionAssumption DEF LoadInit, LoadTypeOK, States
  <1>2. ASSUME NEW i \in Ingests PROVE CallIsTrue(i)
    <2>1. /\ pc[i] = "idle" /\ fresh[i] = <<>> /\ row[i] = 0 /\ loaded[i] = 0 /\ embed[i] = "none"
      BY DEF LoadInit
    <2>2. Tried(i) = 0
      BY <2>1 DEF Tried
    <2>3. RowsStored(i, Tried(i)) \in SUBSET (1 .. 0)
      BY <2>2 DEF RowsStored
    <2>4. Cardinality(RowsStored(i, Tried(i))) \in Nat
      BY <2>3, RowsAreFinite
    <2>5. Range(fresh[i]) = {}
      BY <2>1 DEF Range
    <2>6. Counted(i)
      BY <2>1, <2>4 DEF Counted
    <2>7. InBatch(i) /\ NothingYet(i) /\ FreshIsEnriched(i) /\ ShortIsStored(i)
      BY <2>1, <2>5 DEF InBatch, NothingYet, FreshIsEnriched, ShortIsStored
    <2> QED
      BY <2>6, <2>7 DEF CallIsTrue
  <1>3. StoredWasEnriched /\ IndexedIsStored
    BY DEF LoadInit, StoredWasEnriched, IndexedIsStored
  <1> QED
    BY <1>1, <1>2, <1>3 DEF LoadInv

\* Every step keeps the invariant.
LEMMA LoadInductive == LoadInv /\ [LoadNext]_loadVars => LoadInv'
  <1> SUFFICES ASSUME LoadInv, [LoadNext]_loadVars PROVE LoadInv'
    OBVIOUS
  <1>1. ASSUME NEW i \in Ingests, NEW s \in Batches, IngestEvents(i, s) PROVE LoadInv'
    BY <1>1, BeginKeeps
  <1>2. ASSUME NEW i \in Ingests, LoadStep(i) \/ FireEmbed(i) PROVE LoadInv'
    BY <1>2, EnrichKeeps, DeduplicateKeeps, InsertKeeps, IndexingKeeps DEF LoadStep
  <1>3. CASE Crash
    BY <1>3, CrashKeeps
  <1>4. CASE UNCHANGED loadVars
    <2>1. /\ UNCHANGED <<pc, events, fresh, row, loaded, embed>>
          /\ UNCHANGED <<enriched, duck, graph, chroma, faults>>
      BY <1>4 DEF loadVars, callVars
    <2>2. LoadTypeOK'
      BY <2>1 DEF LoadInv, LoadTypeOK
    <2>3. \A i \in Ingests : CallIsTrue(i)'
      BY <2>1, CallIsKept
    <2>4. StoredWasEnriched' /\ IndexedIsStored'
      BY <2>1 DEF LoadInv, StoredWasEnriched, IndexedIsStored
    <2> QED
      BY <2>2, <2>3, <2>4 DEF LoadInv
  <1> QED
    BY <1>1, <1>2, <1>3, <1>4 DEF LoadNext

LEMMA LoadSafety == LoadSpec => []LoadInv
  BY InitLoadInv, LoadInductive, PTL DEF LoadSpec

\* Every state of the loader is well typed.
THEOREM LoaderIsTyped == LoadSpec => []LoadTypeOK
  <1>1. LoadInv => LoadTypeOK
    BY DEF LoadInv
  <1> QED
    BY <1>1, LoadSafety, PTL

\* What a call has tried and not counted, each failure takes one batch of.
Unfailed(i) == pc[i] # "failed" => Tried(i) <= loaded[i] + DuckBatch * faults
Explained == \A i \in Ingests : Unfailed(i)

\* A failure more pays for a batch more.
LEMMA OneMore ==
  ASSUME NEW B \in Nat, NEW f \in Nat, NEW g \in Nat, g = f \/ g = f + 1
  PROVE  /\ B * f \in Nat /\ B * g \in Nat /\ B * f <= B * g
         /\ g = f + 1 => B * g = B * f + B
  OBVIOUS

\* Calls of which nothing is inserted keep their account.
LEMMA AccountIsKept ==
  ASSUME LoadInv, NEW i \in Ingests, Unfailed(i), faults' = faults \/ faults' = faults + 1,
         pc'[i] = "failed" \/ (pc[i] # "failed" /\ (pc'[i] = "insert" <=> pc[i] = "insert")),
         fresh'[i] = fresh[i], row'[i] = row[i], loaded'[i] = loaded[i]
  PROVE  Unfailed(i)'
  <1>1. /\ DuckBatch \in Nat /\ faults \in Nat /\ faults' \in Nat
        /\ Tried(i) \in Nat /\ loaded[i] \in Nat
    BY Rows, IngestionAssumption DEF LoadInv, LoadTypeOK
  <1>2. DuckBatch * faults \in Nat /\ DuckBatch * faults' \in Nat /\ DuckBatch * faults <= DuckBatch * faults'
    BY <1>1, OneMore
  <1>3. CASE pc'[i] = "failed"
    BY <1>3 DEF Unfailed
  <1>4. CASE pc[i] # "failed" /\ (pc'[i] = "insert" <=> pc[i] = "insert")
    <2>1. Tried(i)' = Tried(i)
      BY <1>4 DEF Tried, BatchStart
    <2>2. Tried(i) <= loaded[i] + DuckBatch * faults
      BY <1>4 DEF Unfailed
    <2>3. Tried(i) <= loaded[i] + DuckBatch * faults'
      <3> DEFINE a == DuckBatch * faults
                 b == DuckBatch * faults'
      <3>1. a \in Nat /\ b \in Nat /\ a <= b /\ Tried(i) <= loaded[i] + a
        BY <1>2, <2>2
      <3> HIDE DEF a, b
      <3>2. Tried(i) <= loaded[i] + b
        BY <1>1, <3>1
      <3> QED
        BY <3>2 DEF b
    <2> QED
      BY <2>1, <2>3 DEF Unfailed
  <1> QED
    BY <1>3, <1>4

\* A batch that is through is counted, one that failed is paid for.
LEMMA InsertIsExplained ==
  ASSUME LoadInv, NEW i \in Ingests, InsertRow(i), Unfailed(i)
  PROVE  Unfailed(i)'
  <1> DEFINE start == BatchStart(i)
             end == BatchEnd(i)
             length == Len(fresh[i])
             a == DuckBatch * faults
             b == DuckBatch * faults'
  <1>1. /\ fresh \in [Ingests -> Seq(Events)] /\ pc \in [Ingests -> States]
        /\ row \in [Ingests -> Nat] /\ loaded \in [Ingests -> Nat]
        /\ pc[i] = "insert" /\ row[i] < length /\ DuckBatch \in Nat \ {0} /\ faults \in Nat
    BY IngestionAssumption DEF LoadInv, LoadTypeOK, InsertRow
  <1>2. /\ length \in Nat /\ start \in Nat /\ end \in Nat /\ row[i] \in Nat /\ loaded[i] \in Nat
        /\ start <= row[i] /\ row[i] < end /\ end <= length /\ end <= start + DuckBatch
    BY <1>1, Rows
  <1>3. /\ fresh' = fresh /\ pc' = [pc EXCEPT ![i] = IF row'[i] = length THEN "store" ELSE "insert"]
        /\ \/ /\ row' = [row EXCEPT ![i] = row[i] + 1] /\ faults' = faults
              /\ loaded' = [loaded EXCEPT ![i] = IF row[i] + 1 = end
                                                 THEN loaded[i] + (row[i] + 1 - start) ELSE loaded[i]]
           \/ /\ row' = [row EXCEPT ![i] = end] /\ faults' = faults + 1
              /\ loaded' = [loaded EXCEPT ![i] = loaded[i]]
    BY DEF InsertRow, Goto, LoadedAfterFailure, Fault
  <1>4. /\ pc'[i] = IF row'[i] = length THEN "store" ELSE "insert"
        /\ \/ row'[i] = row[i] + 1 /\ row'[i] = end /\ faults' = faults /\ loaded'[i] = loaded[i] + (end - start)
           \/ row'[i] = row[i] + 1 /\ row'[i] # end /\ faults' = faults /\ loaded'[i] = loaded[i]
           \/ row'[i] = end /\ faults' = faults + 1 /\ loaded'[i] = loaded[i]
    <2> HIDE DEF start, end, length
    <2>1. row[i] + 1 = end => end - start = row[i] + 1 - start
      BY <1>2
    <2>2. pc'[i] = IF row'[i] = length THEN "store" ELSE "insert"
      BY <1>1, <1>3
    <2>3. CASE /\ row' = [row EXCEPT ![i] = row[i] + 1] /\ faults' = faults
               /\ loaded' = [loaded EXCEPT ![i] = IF row[i] + 1 = end
                                                  THEN loaded[i] + (row[i] + 1 - start) ELSE loaded[i]]
      <3>1. row'[i] = row[i] + 1
        BY <1>1, <2>3
      <3>2. CASE row[i] + 1 = end
        <4>1. loaded' = [loaded EXCEPT ![i] = loaded[i] + (row[i] + 1 - start)]
          BY <2>3, <3>2
        <4>2. loaded'[i] = loaded[i] + (row[i] + 1 - start)
          BY <1>1, <4>1
        <4>3. loaded'[i] = loaded[i] + (end - start)
          BY <2>1, <3>2, <4>2
        <4> QED
          BY <2>2, <2>3, <3>1, <3>2, <4>3
      <3>3. CASE row[i] + 1 # end
        <4>1. loaded' = [loaded EXCEPT ![i] = loaded[i]]
          BY <2>3, <3>3
        <4> QED
          BY <1>1, <2>2, <2>3, <3>1, <3>3, <4>1
      <3> QED
        BY <3>2, <3>3
    <2>4. CASE row' = [row EXCEPT ![i] = end] /\ faults' = faults + 1 /\ loaded' = [loaded EXCEPT ![i] = loaded[i]]
      BY <1>1, <2>2, <2>4
    <2> QED
      BY <1>3, <2>3, <2>4
  <1>5. row'[i] \in Nat /\ start < row'[i] /\ row'[i] <= end
    BY <1>2, <1>4
  <1>6. Tried(i)' = IF row'[i] = end THEN end ELSE start
    <2>1. CASE row'[i] = length
      <3>1. Tried(i)' = length /\ row'[i] = end
        BY <1>2, <1>3, <1>4, <1>5, <2>1 DEF Tried
      <3> QED
        BY <2>1, <3>1
    <2>2. CASE row'[i] # length
      <3>1. Tried(i)' = (row'[i] \div DuckBatch) * DuckBatch
        BY <1>4, <2>2 DEF Tried, BatchStart
      <3> QED
        BY <1>1, <1>5, <2>2, <3>1, BatchAfter
    <2> QED
      BY <2>1, <2>2
  <1>7. start <= loaded[i] + a
    BY <1>1 DEF Unfailed, Tried
  <1>8. a \in Nat /\ b \in Nat /\ a <= b /\ (faults' = faults + 1 => b = a + DuckBatch)
    <2>1. faults' \in Nat /\ (faults' = faults \/ faults' = faults + 1)
      BY <1>1, <1>4
    <2> QED
      BY <1>1, <2>1, OneMore
  <1> HIDE DEF a, b, start, end, length
  <1>9. Tried(i)' <= loaded'[i] + b
    <2>1. CASE row'[i] = end /\ faults' = faults /\ loaded'[i] = loaded[i] + (end - start)
      <3>1. Tried(i)' = end
        BY <1>6, <2>1
      <3>2. end <= loaded[i] + (end - start) + b
        BY <1>2, <1>7, <1>8
      <3> QED
        BY <2>1, <3>1, <3>2
    <2>2. CASE row'[i] # end /\ loaded'[i] = loaded[i]
      <3>1. Tried(i)' = start
        BY <1>6, <2>2
      <3>2. start <= loaded[i] + b
        BY <1>2, <1>7, <1>8
      <3> QED
        BY <2>2, <3>1, <3>2
    <2>3. CASE row'[i] = end /\ faults' = faults + 1 /\ loaded'[i] = loaded[i]
      <3>1. Tried(i)' = end
        BY <1>6, <2>3
      <3>2. end <= loaded[i] + b
        BY <1>1, <1>2, <1>7, <1>8, <2>3
      <3> QED
        BY <2>3, <3>1, <3>2
    <2> QED
      BY <1>4, <2>1, <2>2, <2>3
  <1> QED
    BY <1>9 DEF Unfailed, b

\* The account of failures is kept by every step.
LEMMA ExplainedStays == LoadInv /\ Explained /\ [LoadNext]_loadVars => Explained'
  <1> SUFFICES ASSUME LoadInv, Explained, [LoadNext]_loadVars, NEW j \in Ingests PROVE Unfailed(j)'
    BY DEF Explained
  <1>1. Unfailed(j) /\ pc \in [Ingests -> States] /\ row \in [Ingests -> Nat]
        /\ loaded \in [Ingests -> Nat] /\ fresh \in [Ingests -> Seq(Events)]
    BY DEF Explained, LoadInv, LoadTypeOK
  <1>2. ASSUME NEW i \in Ingests, InsertRow(i) PROVE Unfailed(j)'
    <2>1. CASE j = i
      BY <1>1, <1>2, <2>1, InsertIsExplained
    <2>2. CASE j # i
      <3>1. /\ pc'[j] = pc[j] /\ fresh'[j] = fresh[j] /\ row'[j] = row[j] /\ loaded'[j] = loaded[j]
            /\ faults' = faults \/ faults' = faults + 1
        BY <1>1, <1>2, <2>2 DEF InsertRow, Goto, Fault
      <3> QED
        BY <1>1, <3>1, AccountIsKept DEF Unfailed
    <2> QED
      BY <2>1, <2>2
  <1>3. ASSUME NEW i \in Ingests, Deduplicate(i) PROVE Unfailed(j)'
    <2>1. CASE j = i
      <3>1. /\ row'[i] = 0 /\ loaded'[i] = 0 /\ faults' \in Nat /\ DuckBatch \in Nat \ {0}
            /\ pc'[i] = IF fresh'[i] = <<>> THEN "done" ELSE "insert"
        BY <1>1, <1>3, IngestionAssumption
           DEF Deduplicate, Goto, Fault, LoadInv, LoadTypeOK, CallIsTrue, NothingYet
      <3>2. Tried(i)' = 0
        <4>1. 0 \div DuckBatch = 0
          BY <3>1, Quotient
        <4>2. Len(<<>>) = 0
          OBVIOUS
        <4> QED
          BY <3>1, <4>1, <4>2 DEF Tried, BatchStart
      <3>3. DuckBatch * faults' \in Nat
        BY <3>1, OneMore
      <3> QED
        BY <2>1, <3>1, <3>2, <3>3 DEF Unfailed
    <2>2. CASE j # i
      <3>1. /\ pc'[j] = pc[j] /\ fresh'[j] = fresh[j] /\ row'[j] = row[j] /\ loaded'[j] = loaded[j]
            /\ faults' = faults \/ faults' = faults + 1
        BY <1>1, <1>3, <2>2 DEF Deduplicate, Goto, Fault
      <3> QED
        BY <1>1, <3>1, AccountIsKept DEF Unfailed
    <2> QED
      BY <2>1, <2>2
  <1>4. ASSUME UNCHANGED <<fresh, row, loaded>>, faults' = faults \/ faults' = faults + 1,
               pc'[j] = "failed" \/ (pc[j] # "failed" /\ (pc'[j] = "insert" <=> pc[j] = "insert"))
                 \/ pc'[j] = pc[j]
        PROVE  Unfailed(j)'
    BY <1>1, <1>4, AccountIsKept DEF Unfailed
  <1>5. ASSUME NEW i \in Ingests, NEW s \in Batches, IngestEvents(i, s) PROVE Unfailed(j)'
    BY <1>1, <1>4, <1>5 DEF IngestEvents, Goto
  <1>6. ASSUME NEW i \in Ingests, Enrich(i) \/ StartEmbed(i) \/ WriteGraph(i) \/ Correlate(i) \/ FireEmbed(i)
        PROVE  Unfailed(j)'
    BY <1>1, <1>4, <1>6 DEF Enrich, StartEmbed, WriteGraph, Correlate, FireEmbed, Goto, Fault
  <1>7. CASE Crash
    BY <1>1, <1>4, <1>7 DEF Crash, Fault
  <1>8. CASE UNCHANGED loadVars
    BY <1>4, <1>8 DEF loadVars, callVars
  <1> QED
    BY <1>2, <1>3, <1>5, <1>6, <1>7, <1>8 DEF LoadNext, LoadStep

\* What a call counts as loaded is in DuckDB, and what it does not count was in
\* one of as many batches as there were failures, whichever rows failed, whoever
\* else was inserting and however large the batches are.
THEOREM CountsAreHonest == LoadSpec => []LoadedIsStored
  <1>0. LoadInit => Explained
    <2> SUFFICES ASSUME LoadInit, NEW i \in Ingests PROVE Unfailed(i)
      BY DEF Explained
    <2>1. pc[i] = "idle" /\ fresh[i] = <<>> /\ loaded[i] = 0 /\ faults = 0 /\ DuckBatch * 0 = 0
      BY IngestionAssumption DEF LoadInit
    <2>2. Tried(i) = 0
      BY <2>1 DEF Tried
    <2> QED
      BY <2>1, <2>2 DEF Unfailed
  <1>1. ASSUME LoadInv, Explained PROVE LoadedIsStored
    <2> SUFFICES ASSUME NEW i \in Ingests, Inserted(i)
                 PROVE  /\ loaded[i] <= Cardinality({k \in DOMAIN fresh[i] : fresh[i][k] \in duck})
                        /\ Len(fresh[i]) <= loaded[i] + DuckBatch * faults
      BY DEF LoadedIsStored
    <2>1. Tried(i) = Len(fresh[i])
      BY DEF Tried, Inserted
    <2>2. DOMAIN fresh[i] = 1 .. Len(fresh[i])
      BY <1>1, Rows
    <2>3. {k \in DOMAIN fresh[i] : fresh[i][k] \in duck} = RowsStored(i, Tried(i))
      BY <2>1, <2>2 DEF RowsStored
    <2>4. Len(fresh[i]) <= loaded[i] + DuckBatch * faults
      BY <1>1, <2>1 DEF Explained, Unfailed, Inserted
    <2> QED
      BY <1>1, <2>3, <2>4 DEF LoadInv, CallIsTrue, Counted
  <1>2. LoadSpec => []Explained
    BY <1>0, ExplainedStays, LoadSafety, PTL DEF LoadSpec
  <1> QED
    BY <1>1, <1>2, LoadSafety, PTL

\* Whatever DuckDB has was matched and scored before, also when calls overlap
\* or die in the middle.
THEOREM EnrichmentComesFirst == LoadSpec => []StoredWasEnriched
  <1>1. LoadInv => StoredWasEnriched
    BY DEF LoadInv
  <1> QED
    BY <1>1, LoadSafety, PTL

\* Graph and vector store speak of stored events only, but for calls of more
\* than one DuckDB batch.
THEOREM IndexFollowsStore == LoadSpec => []IndexedIsStored
  <1>1. LoadInv => IndexedIsStored
    BY DEF LoadInv
  <1> QED
    BY <1>1, LoadSafety, PTL

-----------------------------------------------------------------------------
\* Nothing falls between the stores.

\* Without a failure a call counts the rows of the batches that it has done with,
\* and in the end all of its rows.
AllCounted(i) ==
  faults = 0 =>
    /\ pc[i] = "insert" => loaded[i] = BatchStart(i)
    /\ pc[i] \in {"store", "graph"} \/ embed[i] = "pending" => loaded[i] = Len(fresh[i])

SettledInv == (\A i \in Ingests : AllCounted(i)) /\ SettledIsIndexed

\* Then all of its rows are handed on.
LEMMA AllHandedOn ==
  ASSUME LoadInv, NEW i \in Ingests, loaded[i] = Len(fresh[i])
  PROVE  Range(StoredEvents(i)) = Range(fresh[i])
  <1>1. /\ Len(fresh[i]) \in Nat /\ DOMAIN fresh[i] = 1 .. Len(fresh[i])
        /\ fresh[i] \in Seq(Events)
    BY Rows DEF LoadInv, LoadTypeOK
  <1>2. /\ DOMAIN StoredEvents(i) = 1 .. Len(fresh[i])
        /\ \A k \in 1 .. Len(fresh[i]) : StoredEvents(i)[k] = fresh[i][k]
    BY <1>1 DEF StoredEvents
  <1> QED
    BY <1>1, <1>2 DEF Range

\* Once a step has failed nothing is claimed any more.
LEMMA FaultSettles ==
  ASSUME LoadInv, Fault
  PROVE  SettledInv'
  <1>1. faults \in Nat /\ faults' = faults + 1
    BY IngestionAssumption DEF LoadInv, LoadTypeOK, Fault
  <1>2. faults' # 0
    BY <1>1
  <1> QED
    BY <1>2 DEF SettledInv, AllCounted, SettledIsIndexed

\* The count of a call that has not moved.
LEMMA CountIsKept ==
  ASSUME SettledInv, NEW i \in Ingests, faults' = faults, fresh'[i] = fresh[i], row'[i] = row[i],
         loaded'[i] = loaded[i],
         pc'[i] \in {"insert", "store", "graph"} => pc'[i] = pc[i],
         embed'[i] = "pending" => embed[i] = "pending"
  PROVE  AllCounted(i)'
  <1>1. BatchStart(i)' = BatchStart(i)
    BY DEF BatchStart
  <1> QED
    BY <1>1 DEF SettledInv, AllCounted

\* An event stays in the hands of its call, or is written.
LEMMA HandsChange ==
  ASSUME SettledIsIndexed, faults' = faults, duck' = duck, graph \subseteq graph', chroma \subseteq chroma',
         \A j \in Ingests, e \in duck : faults = 0 /\ WritesGraph(j, e) => WritesGraph(j, e)' \/ e \in graph',
         \A j \in Ingests, e \in duck : faults = 0 /\ Embeds(j, e) => Embeds(j, e)' \/ e \in chroma'
  PROVE  SettledIsIndexed'
  <1> SUFFICES ASSUME faults = 0, NEW e \in duck
               PROVE  /\ e \in graph' \/ \E i \in Ingests : WritesGraph(i, e)'
                      /\ e \in chroma' \/ \E i \in Ingests : Embeds(i, e)'
    BY DEF SettledIsIndexed
  <1>1. /\ e \in graph \/ \E i \in Ingests : WritesGraph(i, e)
        /\ e \in chroma \/ \E i \in Ingests : Embeds(i, e)
    BY DEF SettledIsIndexed
  <1> QED
    BY <1>1

\* A call that has nothing to hand on yet begins, enriches, or ends.
LEMMA OutsideSettles ==
  ASSUME LoadInv, SettledInv, NEW i \in Ingests, faults' = faults,
         pc[i] \in {"idle", "start", "correlate"}, pc'[i] \in {"start", "dedup", "correlate", "done"},
         \A j \in Ingests : j # i => pc'[j] = pc[j],
         UNCHANGED <<fresh, row, loaded, embed, duck, graph, chroma>>
  PROVE  SettledInv'
  <1>1. \A j \in Ingests : AllCounted(j)'
    BY CountIsKept
  <1>2. \A j \in Ingests, e \in duck : /\ WritesGraph(j, e) => WritesGraph(j, e)'
                                       /\ Embeds(j, e) => Embeds(j, e)'
    BY DEF WritesGraph, Embeds
  <1>3. SettledIsIndexed'
    BY <1>2, HandsChange DEF SettledInv
  <1> QED
    BY <1>1, <1>3 DEF SettledInv

LEMMA BeginSettles ==
  ASSUME LoadInv, SettledInv, NEW i \in Ingests, NEW s \in Batches, IngestEvents(i, s)
  PROVE  SettledInv'
  <1>1. /\ pc[i] = "idle" /\ pc'[i] \in {"correlate", "start"}
        /\ \A j \in Ingests : j # i => pc'[j] = pc[j]
    BY DEF IngestEvents, Goto, LoadInv, LoadTypeOK
  <1> QED
    BY <1>1, OutsideSettles DEF IngestEvents

LEMMA EnrichSettles ==
  ASSUME LoadInv, SettledInv, NEW i \in Ingests, Enrich(i)
  PROVE  SettledInv'
  <1>1. CASE Fault
    BY <1>1, FaultSettles
  <1>2. ASSUME Goto(i, "dedup"), faults' = faults PROVE SettledInv'
    <2>1. /\ pc[i] = "start" /\ pc'[i] = "dedup"
          /\ \A j \in Ingests : j # i => pc'[j] = pc[j]
      BY <1>2 DEF Enrich, Goto, LoadInv, LoadTypeOK
    <2> QED
      BY <1>2, <2>1, OutsideSettles DEF Enrich
  <1> QED
    BY <1>1, <1>2 DEF Enrich

LEMMA DeduplicateSettles ==
  ASSUME LoadInv, SettledInv, NEW i \in Ingests, Deduplicate(i)
  PROVE  SettledInv'
  <1>1. CASE Fault
    BY <1>1, FaultSettles
  <1>2. ASSUME fresh' = [fresh EXCEPT ![i] = NewEvents(events[i], duck)], faults' = faults
        PROVE  SettledInv'
    <2>1. /\ pc[i] = "dedup" /\ pc'[i] \in {"done", "insert"}
          /\ \A j \in Ingests : j # i => pc'[j] = pc[j] /\ fresh'[j] = fresh[j]
          /\ UNCHANGED <<row, loaded, embed, duck, graph, chroma>>
      BY <1>2 DEF Deduplicate, Goto, LoadInv, LoadTypeOK
    <2>2. row[i] = 0 /\ loaded[i] = 0 /\ embed[i] = "none"
      BY <2>1 DEF LoadInv, CallIsTrue, NothingYet
    <2>3. BatchStart(i)' = 0
      <3>1. 0 \div DuckBatch = 0
        BY IngestionAssumption, Quotient
      <3> QED
        BY <2>1, <2>2, <3>1, IngestionAssumption DEF BatchStart
    <2>4. AllCounted(i)'
      BY <2>1, <2>2, <2>3 DEF AllCounted
    <2>5. \A j \in Ingests : j # i => AllCounted(j)'
      BY <1>2, <2>1, CountIsKept
    <2>6. \A j \in Ingests, e \in duck : /\ WritesGraph(j, e) => WritesGraph(j, e)'
                                         /\ Embeds(j, e) => Embeds(j, e)'
      BY <2>1, <2>2 DEF WritesGraph, Embeds
    <2>7. SettledIsIndexed'
      BY <1>2, <2>1, <2>6, HandsChange DEF SettledInv
    <2> QED
      BY <2>4, <2>5, <2>7 DEF SettledInv
  <1> QED
    BY <1>1, <1>2 DEF Deduplicate

LEMMA InsertSettles ==
  ASSUME LoadInv, SettledInv, NEW i \in Ingests, InsertRow(i)
  PROVE  SettledInv'
  <1>1. CASE Fault
    BY <1>1, FaultSettles
  <1>2. ASSUME duck' = duck \cup {fresh[i][row[i] + 1]}, row' = [row EXCEPT ![i] = @ + 1],
               loaded' = [loaded EXCEPT ![i] =
                            IF row[i] + 1 = BatchEnd(i) THEN @ + (row[i] + 1 - BatchStart(i)) ELSE @],
               faults' = faults
        PROVE  SettledInv'
    <2> DEFINE r == row[i] + 1
    <2>1. /\ pc \in [Ingests -> States] /\ row \in [Ingests -> Nat] /\ loaded \in [Ingests -> Nat]
          /\ pc[i] = "insert" /\ row[i] < Len(fresh[i])
          /\ UNCHANGED <<fresh, embed, graph, chroma>>
      BY DEF InsertRow, LoadInv, LoadTypeOK
    <2>2. /\ Len(fresh[i]) \in Nat /\ row[i] \in Nat /\ loaded[i] \in Nat
          /\ DOMAIN fresh[i] = 1 .. Len(fresh[i])
          /\ BatchStart(i) \in Nat /\ BatchStart(i) <= row[i]
          /\ BatchEnd(i) \in Nat /\ row[i] < BatchEnd(i) /\ BatchEnd(i) <= Len(fresh[i])
      BY <2>1, Rows
    <2>3. /\ row'[i] = r /\ r \in Nat /\ BatchStart(i) < r /\ r <= BatchEnd(i)
          /\ pc'[i] = IF r = Len(fresh[i]) THEN "store" ELSE "insert"
          /\ loaded'[i] = IF r = BatchEnd(i) THEN loaded[i] + (r - BatchStart(i)) ELSE loaded[i]
          /\ \A j \in Ingests : j # i => /\ pc'[j] = pc[j] /\ row'[j] = row[j]
                                         /\ loaded'[j] = loaded[j]
      BY <1>2, <2>1, <2>2 DEF InsertRow, Goto
    <2> HIDE DEF r
    <2>4. BatchStart(i)' = (r \div DuckBatch) * DuckBatch
      BY <2>3 DEF BatchStart
    <2>5. r # Len(fresh[i]) => BatchStart(i)' = IF r = BatchEnd(i) THEN BatchEnd(i) ELSE BatchStart(i)
      BY <2>1, <2>3, <2>4, BatchAfter
    <2>6. ASSUME faults = 0
          PROVE  loaded'[i] = IF r = BatchEnd(i) THEN r ELSE BatchStart(i)
      <3>1. loaded[i] = BatchStart(i)
        BY <2>1, <2>6 DEF SettledInv, AllCounted
      <3> QED
        BY <2>2, <2>3, <3>1
    <2>7. AllCounted(i)'
      <3> SUFFICES ASSUME faults = 0
                   PROVE  /\ pc'[i] = "insert" => loaded'[i] = BatchStart(i)'
                          /\ pc'[i] \in {"store", "graph"} \/ embed'[i] = "pending"
                               => loaded'[i] = Len(fresh'[i])
        BY <1>2 DEF AllCounted
      <3>1. pc'[i] = "insert" => loaded'[i] = BatchStart(i)'
        BY <2>3, <2>5, <2>6
      <3>2. pc'[i] \in {"store", "graph"} => loaded'[i] = Len(fresh[i])
        <4> SUFFICES ASSUME r = Len(fresh[i]) PROVE loaded'[i] = Len(fresh[i])
          BY <2>3
        <4>1. r = BatchEnd(i)
          BY <2>2, <2>3
        <4> QED
          BY <2>6, <4>1
      <3>3. embed[i] # "pending"
        \* The task is started after the last row; loaded is then the length.
        <4> SUFFICES ASSUME embed[i] = "pending" PROVE FALSE
          OBVIOUS
        <4>1. loaded[i] = Len(fresh[i]) /\ loaded[i] = BatchStart(i)
          BY <2>1 DEF SettledInv, AllCounted
        <4> QED
          BY <2>1, <2>2, <4>1
      <3> QED
        BY <2>1, <3>1, <3>2, <3>3
    <2>8. \A j \in Ingests : j # i => AllCounted(j)'
      BY <1>2, <2>1, <2>3, CountIsKept
    <2>9. \A j \in Ingests, e \in duck : /\ WritesGraph(j, e) => WritesGraph(j, e)'
                                         /\ Embeds(j, e) => Embeds(j, e)'
      BY <2>1, <2>3 DEF WritesGraph, Embeds
    <2>10. fresh[i][row[i] + 1] \in Range(fresh[i])
      <3>1. row[i] + 1 \in DOMAIN fresh[i]
        BY <2>1, <2>2
      <3> QED
        BY <3>1 DEF Range
    <2>11. \A e \in Range(fresh[i]) : WritesGraph(i, e)' /\ Embeds(i, e)'
      <3>1. pc'[i] \in {"insert", "store"}
        BY <2>3
      <3> QED
        BY <2>1, <3>1 DEF WritesGraph, Embeds
    <2>12. SettledIsIndexed'
      <3> SUFFICES ASSUME faults = 0, NEW e \in duck'
                   PROVE  /\ e \in graph' \/ \E j \in Ingests : WritesGraph(j, e)'
                          /\ e \in chroma' \/ \E j \in Ingests : Embeds(j, e)'
        BY <1>2 DEF SettledIsIndexed
      <3>1. CASE e \in Range(fresh[i])
        BY <2>11, <3>1
      <3>2. CASE e \in duck
        <4>1. /\ e \in graph \/ \E j \in Ingests : WritesGraph(j, e)
              /\ e \in chroma \/ \E j \in Ingests : Embeds(j, e)
          BY <3>2 DEF SettledInv, SettledIsIndexed
        <4> QED
          BY <2>1, <2>9, <3>2, <4>1
      <3> QED
        BY <1>2, <2>10, <3>1, <3>2
    <2> QED
      BY <2>7, <2>8, <2>12 DEF SettledInv
  <1> QED
    BY <1>1, <1>2 DEF InsertRow

LEMMA StartEmbedSettles ==
  ASSUME LoadInv, SettledInv, NEW i \in Ingests, StartEmbed(i)
  PROVE  SettledInv'
  <1>1. /\ pc[i] = "store" /\ pc'[i] = "graph" /\ embed'[i] = "pending" /\ faults' = faults
        /\ \A j \in Ingests : j # i => pc'[j] = pc[j] /\ embed'[j] = embed[j]
        /\ UNCHANGED <<fresh, row, loaded, duck, graph, chroma>>
    BY DEF StartEmbed, Goto, LoadInv, LoadTypeOK
  <1>2. AllCounted(i)'
    BY <1>1 DEF SettledInv, AllCounted
  <1>3. \A j \in Ingests : j # i => AllCounted(j)'
    BY <1>1, CountIsKept
  <1>4. \A j \in Ingests, e \in duck : /\ WritesGraph(j, e) => WritesGraph(j, e)'
                                       /\ Embeds(j, e) => Embeds(j, e)'
    BY <1>1 DEF WritesGraph, Embeds
  <1>5. SettledIsIndexed'
    BY <1>1, <1>4, HandsChange DEF SettledInv
  <1> QED
    BY <1>2, <1>3, <1>5 DEF SettledInv

LEMMA FireEmbedSettles ==
  ASSUME LoadInv, SettledInv, NEW i \in Ingests, FireEmbed(i)
  PROVE  SettledInv'
  <1>1. CASE Fault
    BY <1>1, FaultSettles
  <1>2. ASSUME chroma' = chroma \cup Range(StoredEvents(i)), faults' = faults
        PROVE  SettledInv'
    <2>1. /\ embed[i] = "pending" /\ embed'[i] = "done"
          /\ \A j \in Ingests : j # i => embed'[j] = embed[j]
          /\ UNCHANGED <<pc, fresh, row, loaded, duck, graph>>
      BY DEF FireEmbed, LoadInv, LoadTypeOK
    <2>2. \A j \in Ingests : AllCounted(j)'
      BY <1>2, <2>1, CountIsKept
    <2>3. faults = 0 => Range(StoredEvents(i)) = Range(fresh[i])
      BY <2>1, AllHandedOn DEF SettledInv, AllCounted
    <2>4. \A j \in Ingests, e \in duck : WritesGraph(j, e) => WritesGraph(j, e)'
      BY <2>1 DEF WritesGraph
    <2>5. \A j \in Ingests, e \in duck : faults = 0 /\ Embeds(j, e) => Embeds(j, e)' \/ e \in chroma'
      BY <1>2, <2>1, <2>3 DEF Embeds
    <2>6. SettledIsIndexed'
      BY <1>2, <2>1, <2>4, <2>5, HandsChange DEF SettledInv
    <2> QED
      BY <2>2, <2>6 DEF SettledInv
  <1> QED
    BY <1>1, <1>2 DEF FireEmbed

LEMMA WriteGraphSettles ==
  ASSUME LoadInv, SettledInv, NEW i \in Ingests, WriteGraph(i)
  PROVE  SettledInv'
  <1>1. CASE Fault
    BY <1>1, FaultSettles
  <1>2. ASSUME graph' = graph \cup Range(StoredEvents(i)), faults' = faults
        PROVE  SettledInv'
    <2>1. /\ pc[i] = "graph" /\ pc'[i] = "correlate"
          /\ \A j \in Ingests : j # i => pc'[j] = pc[j]
          /\ UNCHANGED <<fresh, row, loaded, embed, duck, chroma>>
      BY DEF WriteGraph, Goto, LoadInv, LoadTypeOK
    <2>2. \A j \in Ingests : AllCounted(j)'
      BY <1>2, <2>1, CountIsKept
    <2>3. faults = 0 => Range(StoredEvents(i)) = Range(fresh[i])
      BY <2>1, AllHandedOn DEF SettledInv, AllCounted
    <2>4. \A j \in Ingests, e \in duck : Embeds(j, e) => Embeds(j, e)'
      BY <2>1 DEF Embeds
    <2>5. \A j \in Ingests, e \in duck :
            faults = 0 /\ WritesGraph(j, e) => WritesGraph(j, e)' \/ e \in graph'
      BY <1>2, <2>1, <2>3 DEF WritesGraph
    <2>6. SettledIsIndexed'
      BY <1>2, <2>1, <2>4, <2>5, HandsChange DEF SettledInv
    <2> QED
      BY <2>2, <2>6 DEF SettledInv
  <1> QED
    BY <1>1, <1>2 DEF WriteGraph

LEMMA CorrelateSettles ==
  ASSUME LoadInv, SettledInv, NEW i \in Ingests, Correlate(i)
  PROVE  SettledInv'
  <1>1. /\ pc[i] = "correlate" /\ pc'[i] = "done"
        /\ \A j \in Ingests : j # i => pc'[j] = pc[j]
    BY DEF Correlate, Goto, LoadInv, LoadTypeOK
  <1> QED
    BY <1>1, OutsideSettles DEF Correlate

LEMMA LoadNextSettles == LoadInv /\ SettledInv /\ [LoadNext]_loadVars => SettledInv'
  <1> SUFFICES ASSUME LoadInv, SettledInv, [LoadNext]_loadVars PROVE SettledInv'
    OBVIOUS
  <1>1. ASSUME NEW i \in Ingests, NEW s \in Batches, IngestEvents(i, s) PROVE SettledInv'
    BY <1>1, BeginSettles
  <1>2. ASSUME NEW i \in Ingests, LoadStep(i) \/ FireEmbed(i) PROVE SettledInv'
    BY <1>2, EnrichSettles, DeduplicateSettles, InsertSettles, StartEmbedSettles,
       FireEmbedSettles, WriteGraphSettles, CorrelateSettles DEF LoadStep
  <1>3. CASE Crash
    BY <1>3, FaultSettles DEF Crash
  <1>4. CASE UNCHANGED loadVars
    <2>1. UNCHANGED <<pc, fresh, row, loaded, embed, duck, graph, chroma, faults>>
      BY <1>4 DEF loadVars, callVars
    <2>2. \A j \in Ingests : AllCounted(j)'
      BY <2>1, CountIsKept
    <2>3. SettledIsIndexed'
      BY <2>1 DEF SettledInv, SettledIsIndexed, WritesGraph, Embeds
    <2> QED
      BY <2>2, <2>3 DEF SettledInv
  <1> QED
    BY <1>1, <1>2, <1>3, <1>4 DEF LoadNext

\* Without a failure nothing falls between the stores, whatever the sizes of the
\* batches and however the calls overlap: an event of DuckDB that the graph or the
\* vector store has not is in the hands of a call.  This is what StoredIsIndexed
\* says of a standstill.
THEOREM NothingFallsBetween == LoadSpec => []SettledIsIndexed
  <1>1. LoadInit => SettledInv
    <2> SUFFICES ASSUME LoadInit PROVE SettledInv
      OBVIOUS
    <2>1. duck = {} /\ \A i \in Ingests : pc[i] = "idle" /\ embed[i] = "none"
      BY DEF LoadInit
    <2> QED
      BY <2>1 DEF SettledInv, AllCounted, SettledIsIndexed
  <1>2. SettledInv => SettledIsIndexed
    BY DEF SettledInv
  <1> QED
    BY <1>1, <1>2, LoadNextSettles, LoadSafety, PTL DEF LoadSpec

\* Deduplication gives each event up whose id is stored and no other, and
\* leaves the rest in order, for lists of every length.
THEOREM DeduplicationIsExact ==
  ASSUME NEW s \in Seq(Events), NEW existing
  PROVE  LET at == NewAt(s, existing)
         IN  /\ Range(NewEvents(s, existing)) = Range(s) \ existing
             /\ \A m, n \in 1 .. Len(NewEvents(s, existing)) :
                  m < n => /\ NewEvents(s, existing)[m] = s[Nth(at, m)]
                           /\ Nth(at, m) < Nth(at, n)
  <1> DEFINE at == NewAt(s, existing)
  <1>1. at \in SUBSET (1 .. Len(s)) /\ Len(s) \in Nat /\ DOMAIN s = 1 .. Len(s)
    BY DEF NewAt
  <1>2. IsFiniteSet(at) /\ Cardinality(at) \in Nat
    BY <1>1, RowsAreFinite
  <1>3. \A n \in 1 .. Cardinality(at) : Nth(at, n) \in at
    BY <1>1, NthIs
  <1>4. /\ NewEvents(s, existing) = [n \in 1 .. Cardinality(at) |-> s[Nth(at, n)]]
        /\ \A k \in DOMAIN s : k \in at <=> s[k] \notin existing
    BY DEF NewEvents, NewAt, SubsequenceAt
  <1> HIDE DEF at
  <1>5. Len(NewEvents(s, existing)) = Cardinality(at) /\ \A k \in at : k \in Nat
    BY <1>1, <1>2, <1>4
  <1>6. /\ \A m, n \in 1 .. Cardinality(at) : m < n => Nth(at, m) < Nth(at, n)
        /\ \A k \in at : \E n \in 1 .. Cardinality(at) : Nth(at, n) = k
    BY <1>1, NthOrders
  <1>9. Range(NewEvents(s, existing)) = Range(s) \ existing
    <2>1. ASSUME NEW k \in DOMAIN s, s[k] \notin existing
          PROVE  s[k] \in Range(NewEvents(s, existing))
      <3>1. PICK n \in 1 .. Cardinality(at) : Nth(at, n) = k
        BY <1>4, <1>6, <2>1
      <3> QED
        BY <1>4, <3>1 DEF Range
    <2>2. ASSUME NEW n \in 1 .. Cardinality(at)
          PROVE  s[Nth(at, n)] \in Range(s) \ existing
      <3>1. Nth(at, n) \in at /\ Nth(at, n) \in DOMAIN s
        BY <1>1, <1>3
      <3> QED
        BY <1>4, <3>1 DEF Range
    <2> QED
      BY <1>4, <2>1, <2>2 DEF Range
  <1> QED
    BY <1>4, <1>5, <1>6, <1>9 DEF at
-----------------------------------------------------------------------------
(* The Ubuntu pipeline.                                                    *)

UbuntuTypes ==
  /\ today \in Days /\ scanDay \in Days /\ scanDay <= today
  /\ raw \in [Days -> Seq(Nat)] /\ normal \in [Days -> Seq(Nat)]
  /\ offset \in Nat /\ lineCount \in Nat
  /\ eventsMade \in [1 .. MaxLines -> 0 .. 2]
  /\ ubuntuFaults \in 0 .. MaxUbuntuFaults

\* The lines are numbered as they come, and each is in one archive once.
ReceivedInOrder ==
  /\ \E n \in 0 .. MaxLines : Received = 1 .. n
  /\ \A d, e \in Days : \A i \in DOMAIN raw[d], j \in DOMAIN raw[e] :
       raw[d][i] = raw[e][j] => d = e /\ i = j

\* The writer is within the archive of its day, and has not written the files of
\* later ones.
WriterFollows ==
  /\ scanDay = today => offset <= Len(raw[today])
  /\ \A d \in Days : d > scanDay => normal[d] = <<>>

\* A line of a file is one of the archive of that day, below the writer's
\* offset, and is there once.
WrittenOnce ==
  /\ \A d \in Days : \A j \in DOMAIN normal[d] :
       \E i \in DOMAIN raw[d] : normal[d][j] = raw[d][i] /\ (d = scanDay => i <= offset)
  /\ \A d \in Days : \A i, j \in DOMAIN normal[d] : normal[d][i] = normal[d][j] => i = j

\* Events were made of lines that the collector has passed.
Passed(l) == \E d \in Days : /\ d <= today
                             /\ \E j \in DOMAIN normal[d] : normal[d][j] = l /\ (d = today => j <= lineCount)
MadeOfPassed == \A l \in 1 .. MaxLines : eventsMade[l] > 0 => eventsMade[l] = 1 /\ Passed(l)

\* The two parts of LinesAreTaken.
ScannedIsWritten ==
  \A i \in DOMAIN raw[1] :
    i <= offset /\ raw[1][i] \notin Unreadable => \E j \in DOMAIN normal[1] : normal[1][j] = raw[1][i]
PassedIsMade ==
  /\ lineCount <= Len(normal[1])
  /\ \A j \in DOMAIN normal[1] : j <= lineCount => Arrived(normal[1][j])

Faultless == WrittenOnce /\ MadeOfPassed /\ (today = 1 => ScannedIsWritten /\ PassedIsMade)

UbuntuInv == UbuntuTypes /\ ReceivedInOrder /\ WriterFollows /\ (ubuntuFaults = 0 => Faultless)

LEMMA UbuntuInitInv == UbuntuInit => UbuntuInv
  <1> SUFFICES ASSUME UbuntuInit PROVE UbuntuInv
    OBVIOUS
  <1>1. 1 \in Days /\ \A d \in Days : raw[d] = <<>> /\ normal[d] = <<>>
    BY UbuntuPipelineAssumption DEF UbuntuInit, Days
  <1>2. UbuntuTypes
    BY <1>1, UbuntuPipelineAssumption DEF UbuntuInit, UbuntuTypes
  <1>3. Received = {}
    BY <1>1 DEF Received
  <1>4. ReceivedInOrder
    <2>1. Received = 1 .. 0 /\ 0 \in 0 .. MaxLines
      BY <1>3, UbuntuPipelineAssumption
    <2> QED
      BY <1>1, <2>1 DEF ReceivedInOrder
  <1>5. WriterFollows /\ WrittenOnce /\ ScannedIsWritten /\ PassedIsMade
    BY <1>1 DEF UbuntuInit, WriterFollows, WrittenOnce, ScannedIsWritten, PassedIsMade
  <1>6. MadeOfPassed
    BY DEF UbuntuInit, MadeOfPassed
  <1> QED
    BY <1>2, <1>4, <1>5, <1>6 DEF UbuntuInv, Faultless

\* Received, for the archives as they are and as they will be.
LEMMA ReceivedIs ==
  /\ \A x : x \in Received <=> \E d \in Days : \E i \in DOMAIN raw[d] : x = raw[d][i]
  /\ \A x : x \in Received' <=> \E d \in Days : \E i \in DOMAIN raw'[d] : x = raw'[d][i]
  <1>1. \A x : x \in Received <=> \E d \in Days : \E i \in DOMAIN raw[d] : x = raw[d][i]
    BY DEF Received
  <1>2. \A x : x \in Received' <=> \E d \in Days : \E i \in DOMAIN raw'[d] : x = raw'[d][i]
    BY DEF Received
  <1> QED
    BY <1>1, <1>2

LEMMA LongerByOne ==
  ASSUME NEW s \in Seq(Nat), NEW x \in Nat
  PROVE  /\ Append(s, x) \in Seq(Nat) /\ Len(s) \in Nat /\ Len(Append(s, x)) = Len(s) + 1
         /\ DOMAIN s = 1 .. Len(s) /\ DOMAIN Append(s, x) = 1 .. (Len(s) + 1)
         /\ \A i \in DOMAIN s : i \in DOMAIN Append(s, x) /\ Append(s, x)[i] = s[i]
         /\ Append(s, x)[Len(s) + 1] = x
         /\ \A i \in DOMAIN Append(s, x) : i = Len(s) + 1 \/ i \in DOMAIN s
  OBVIOUS

LEMMA TailIs ==
  ASSUME NEW s \in Seq(Nat), NEW m \in Nat, m <= Len(s)
  PROVE  /\ SubSeq(s, m + 1, Len(s)) \in Seq(Nat)
         /\ Len(SubSeq(s, m + 1, Len(s))) = Len(s) - m
         /\ \A k \in 1 .. (Len(s) - m) : m + k \in DOMAIN s /\ SubSeq(s, m + 1, Len(s))[k] = s[m + k]
  <1>1. Len(s) \in Nat /\ DOMAIN s = 1 .. Len(s) /\ \A i \in (m + 1) .. Len(s) : s[i] \in Nat
    OBVIOUS
  <1>2. /\ SubSeq(s, m + 1, Len(s)) \in Seq(Nat)
        /\ Len(SubSeq(s, m + 1, Len(s))) = IF m + 1 <= Len(s) THEN Len(s) - (m + 1) + 1 ELSE 0
        /\ \A k \in 1 .. (Len(s) - (m + 1) + 1) : SubSeq(s, m + 1, Len(s))[k] = s[m + 1 + k - 1]
    BY <1>1, SubSeqProperties
  <1>3. Len(SubSeq(s, m + 1, Len(s))) = Len(s) - m
    <2> DEFINE l == Len(s)
               q == Len(SubSeq(s, m + 1, Len(s)))
    <2>1. l \in Nat /\ m <= l /\ q = IF m + 1 <= l THEN l - (m + 1) + 1 ELSE 0
      BY <1>1, <1>2
    <2> HIDE DEF l, q
    <2>2. q = l - m
      BY <2>1
    <2> QED
      BY <2>2 DEF l, q
  <1>4. ASSUME NEW k \in 1 .. (Len(s) - m)
        PROVE  m + k \in DOMAIN s /\ SubSeq(s, m + 1, Len(s))[k] = s[m + k]
    <2>1. k \in 1 .. (Len(s) - (m + 1) + 1) /\ m + 1 + k - 1 = m + k /\ m + k \in 1 .. Len(s)
      BY <1>1
    <2> QED
      BY <1>1, <1>2, <2>1
  <1> QED
    BY <1>2, <1>3, <1>4

\* A fault is counted, after which nothing is said of the lines.
LEMMA UbuntuFaultCounts ==
  ASSUME UbuntuTypes, UbuntuFault
  PROVE  ubuntuFaults' \in 0 .. MaxUbuntuFaults /\ ubuntuFaults' # 0
  BY UbuntuPipelineAssumption DEF UbuntuFault, UbuntuTypes

-----------------------------------------------------------------------------
\* The clock and the archive.

LEMMA MidnightInv ==
  ASSUME UbuntuInv, Midnight
  PROVE  UbuntuInv'
  <1>1. /\ today' = today + 1 /\ today < MaxDays
        /\ UNCHANGED <<raw, scanDay, offset, normal, lineCount, eventsMade, ubuntuFaults>>
    BY DEF Midnight, archive, writer, collector
  <1>2. /\ today \in Nat /\ today' \in Days /\ today' # 1 /\ scanDay < today'
        /\ \A d \in Days : d <= today => d <= today' /\ d # today'
    BY <1>1, UbuntuPipelineAssumption DEF UbuntuInv, UbuntuTypes, Days
  <1>3. UbuntuTypes'
    <2>1. Days' = Days /\ scanDay' <= today'
      BY <1>1, <1>2, UbuntuPipelineAssumption DEF UbuntuInv, UbuntuTypes, Days
    <2> QED
      BY <1>1, <1>2, <2>1 DEF UbuntuInv, UbuntuTypes
  <1>4. ReceivedInOrder'
    BY <1>1 DEF UbuntuInv, ReceivedInOrder, Received
  <1>5. scanDay' # today'
    BY <1>1, <1>2, UbuntuPipelineAssumption DEF UbuntuInv, UbuntuTypes, Days
  <1>6. WriterFollows'
    BY <1>1, <1>5 DEF UbuntuInv, WriterFollows
  <1>7. ASSUME Faultless PROVE Faultless'
    <2>1. WrittenOnce'
      BY <1>1, <1>7 DEF Faultless, WrittenOnce
    <2>2. \A l : Passed(l) => Passed(l)'
      BY <1>1, <1>2 DEF Passed
    <2>3. MadeOfPassed'
      BY <1>1, <1>7, <2>2 DEF Faultless, MadeOfPassed
    <2> QED
      BY <1>2, <2>1, <2>3 DEF Faultless
  <1> QED
    BY <1>1, <1>3, <1>4, <1>6, <1>7 DEF UbuntuInv

\* The archive only grows at its end, by a line that no archive has.
LEMMA ReceiveInv ==
  ASSUME UbuntuInv, Receive
  PROVE  UbuntuInv'
  <1>1. PICK n \in 0 .. MaxLines : Received = 1 .. n
    BY DEF UbuntuInv, ReceivedInOrder
  <1>2. n \in Nat /\ Cardinality(Received) = n
    BY <1>1, FS_Interval, UbuntuPipelineAssumption
  <1>3. /\ raw' = [raw EXCEPT ![today] = Append(raw[today], n + 1)] /\ n < MaxLines
        /\ UNCHANGED <<today, scanDay, offset, normal, lineCount, eventsMade, ubuntuFaults>>
    BY <1>2 DEF Receive, writer, collector
  <1>4. today \in Days /\ raw \in [Days -> Seq(Nat)]
    BY DEF UbuntuInv, UbuntuTypes
  <1> DEFINE last == Len(raw[today]) + 1
  <1>a. raw[today] \in Seq(Nat) /\ n + 1 \in Nat
    BY <1>2, <1>4
  <1>b. raw'[today] = Append(raw[today], n + 1) /\ \A d \in Days \ {today} : raw'[d] = raw[d]
    BY <1>3, <1>4
  <1>5. /\ Len(raw[today]) \in Nat /\ Len(raw'[today]) = last
        /\ DOMAIN raw[today] = 1 .. Len(raw[today]) /\ DOMAIN raw'[today] = 1 .. last
        /\ \A i \in DOMAIN raw[today] : i \in DOMAIN raw'[today] /\ raw'[today][i] = raw[today][i]
        /\ raw'[today][last] = n + 1
        /\ \A i \in DOMAIN raw'[today] : i = last \/ i \in DOMAIN raw[today]
    BY <1>a, <1>b, LongerByOne
  <1>c. raw' \in [Days -> Seq(Nat)]
    BY <1>2, <1>3, <1>4
  <1>d. last \in Nat /\ last > 0
    BY <1>5
  <1> HIDE DEF last
  <1>6. \A d \in Days : \A i \in DOMAIN raw'[d] :
          (d = today /\ i = last) \/ (i \in DOMAIN raw[d] /\ raw'[d][i] = raw[d][i])
    BY <1>b, <1>5
  <1>7. \A d \in Days : \A i \in DOMAIN raw[d] : i \in DOMAIN raw'[d] /\ raw'[d][i] = raw[d][i]
    BY <1>b, <1>5
  <1>8. last \in DOMAIN raw'[today]
    BY <1>5, <1>d
  <1>9. \A d \in Days : \A i \in DOMAIN raw[d] : raw[d][i] \in Received
    BY ReceivedIs
  <1>10. \A d \in Days : \A i \in DOMAIN raw[d] : raw[d][i] # n + 1
    <2>1. n + 1 \notin Received
      BY <1>1, <1>2
    <2> QED
      BY <1>9, <2>1
  <1>11. Received' = Received \cup {n + 1}
    <2>1. Received' \subseteq Received \cup {n + 1}
      BY <1>5, <1>6, <1>9, ReceivedIs
    <2>2. Received \subseteq Received'
      BY <1>7, ReceivedIs
    <2>3. n + 1 \in Received'
      BY <1>4, <1>5, <1>8, ReceivedIs
    <2> QED
      BY <2>1, <2>2, <2>3
  <1>12. n + 1 \in 0 .. MaxLines /\ Received' = 1 .. (n + 1)
    BY <1>1, <1>2, <1>3, <1>11, UbuntuPipelineAssumption
  <1>13. \A d, e \in Days : \A i \in DOMAIN raw'[d], j \in DOMAIN raw'[e] :
           raw'[d][i] = raw'[e][j] => d = e /\ i = j
    <2> SUFFICES ASSUME NEW d \in Days, NEW e \in Days, NEW i \in DOMAIN raw'[d], NEW j \in DOMAIN raw'[e],
                        raw'[d][i] = raw'[e][j]
                 PROVE  d = e /\ i = j
      OBVIOUS
    <2>1. \/ d = today /\ i = last
          \/ i \in DOMAIN raw[d] /\ raw'[d][i] = raw[d][i] /\ raw[d][i] # n + 1
      BY <1>6, <1>10
    <2>2. \/ e = today /\ j = last
          \/ j \in DOMAIN raw[e] /\ raw'[e][j] = raw[e][j] /\ raw[e][j] # n + 1
      BY <1>6, <1>10
    <2> QED
      BY <1>5, <2>1, <2>2 DEF UbuntuInv, ReceivedInOrder
  <1>14. ReceivedInOrder'
    BY <1>12, <1>13 DEF ReceivedInOrder
  <1>15. UbuntuTypes'
    BY <1>3, <1>c DEF UbuntuInv, UbuntuTypes
  <1>16. WriterFollows'
    <2>1. Len(raw'[today]) = last /\ (offset <= Len(raw[today]) => offset <= last)
      <3>1. offset \in Nat
        BY DEF UbuntuInv, UbuntuTypes
      <3> QED
        BY <1>5, <3>1 DEF last
    <2> QED
      BY <1>3, <2>1 DEF UbuntuInv, WriterFollows
  <1>17. ASSUME Faultless PROVE Faultless'
    <2>1. WrittenOnce'
      BY <1>3, <1>7, <1>17 DEF Faultless, WrittenOnce
    <2>2. \A l : Passed(l) => Passed(l)'
      BY <1>3 DEF Passed
    <2>3. MadeOfPassed'
      BY <1>3, <1>17, <2>2 DEF Faultless, MadeOfPassed
    <2>4. today = 1 => ScannedIsWritten' /\ PassedIsMade'
      <3> SUFFICES ASSUME today = 1 PROVE ScannedIsWritten' /\ PassedIsMade'
        OBVIOUS
      <3>1. offset <= Len(raw[today])
        <4>1. scanDay = today
          BY DEF UbuntuInv, UbuntuTypes, Days
        <4> QED
          BY <4>1 DEF UbuntuInv, WriterFollows
      <3>2. \A i \in DOMAIN raw'[1] : i <= offset => i \in DOMAIN raw[1] /\ raw'[1][i] = raw[1][i]
        <4>1. ~(last <= offset) /\ 1 \in Days
          <5>1. offset \in Nat
            BY DEF UbuntuInv, UbuntuTypes
          <5> QED
            BY <1>4, <1>5, <3>1, <5>1 DEF last
        <4> QED
          BY <1>6, <4>1
      <3>3. ScannedIsWritten'
        BY <1>3, <1>17, <3>2 DEF Faultless, ScannedIsWritten
      <3>4. PassedIsMade'
        BY <1>3, <1>17 DEF Faultless, PassedIsMade, Arrived
      <3> QED
        BY <3>3, <3>4
    <2> QED
      BY <1>3, <2>1, <2>3, <2>4 DEF Faultless
  <1> QED
    BY <1>3, <1>14, <1>15, <1>16, <1>17 DEF UbuntuInv
-----------------------------------------------------------------------------
\* The writer.

LEMMA ReadableIs ==
  ASSUME NEW lines \in Seq(Nat)
  PROVE  /\ Readable(lines) \in Seq(Nat)
         /\ \A n \in DOMAIN Readable(lines) : \E k \in 1 .. Len(lines) : Readable(lines)[n] = lines[k]
         /\ \A m, n \in DOMAIN Readable(lines) :
              m # n => \E j, k \in 1 .. Len(lines) :
                         j # k /\ Readable(lines)[m] = lines[j] /\ Readable(lines)[n] = lines[k]
         /\ \A k \in 1 .. Len(lines) :
              lines[k] \notin Unreadable => \E n \in DOMAIN Readable(lines) : Readable(lines)[n] = lines[k]
  <1> DEFINE at == ReadableAt(lines)
             c == Cardinality(at)
  <1>1. at \in SUBSET (1 .. Len(lines)) /\ Len(lines) \in Nat
    BY DEF ReadableAt
  <1>2. c \in Nat
    BY <1>1, RowsAreFinite
  <1>3. \A n \in 1 .. c : Nth(at, n) \in at
    BY <1>1, NthIs
  <1>4. /\ \A m, n \in 1 .. c : m < n => Nth(at, m) < Nth(at, n)
        /\ \A k \in at : \E n \in 1 .. c : Nth(at, n) = k
    BY <1>1, NthOrders
  <1>5. /\ Readable(lines) = [n \in 1 .. c |-> lines[Nth(at, n)]]
        /\ \A k \in 1 .. Len(lines) : lines[k] \notin Unreadable => k \in at
    BY DEF Readable, ReadableAt, SubsequenceAt
  <1> HIDE DEF at, c
  <1>a. \A k \in 1 .. Len(lines) : lines[k] \in Nat
    OBVIOUS
  <1>6. \A n \in 1 .. c : Nth(at, n) \in 1 .. Len(lines) /\ lines[Nth(at, n)] \in Nat
    BY <1>1, <1>3, <1>a
  <1>7. \A m, n \in 1 .. c : m # n => Nth(at, m) # Nth(at, n)
    <2> SUFFICES ASSUME NEW m \in 1 .. c, NEW n \in 1 .. c, m # n PROVE Nth(at, m) # Nth(at, n)
      OBVIOUS
    <2>1. m < n \/ n < m
      BY <1>2
    <2>2. Nth(at, m) \in Nat /\ Nth(at, n) \in Nat
      BY <1>1, <1>6
    <2> QED
      BY <1>4, <2>1, <2>2
  <1>8. Readable(lines) \in Seq(Nat) /\ DOMAIN Readable(lines) = 1 .. c
    BY <1>2, <1>5, <1>6
  <1>9. \A n \in 1 .. c : Readable(lines)[n] = lines[Nth(at, n)]
    BY <1>5
  <1>10. \A n \in DOMAIN Readable(lines) : \E k \in 1 .. Len(lines) : Readable(lines)[n] = lines[k]
    BY <1>6, <1>8, <1>9
  <1>11. \A m, n \in DOMAIN Readable(lines) :
           m # n => \E j, k \in 1 .. Len(lines) :
                      j # k /\ Readable(lines)[m] = lines[j] /\ Readable(lines)[n] = lines[k]
    <2> SUFFICES ASSUME NEW m \in DOMAIN Readable(lines), NEW n \in DOMAIN Readable(lines), m # n
                 PROVE  \E j, k \in 1 .. Len(lines) :
                          j # k /\ Readable(lines)[m] = lines[j] /\ Readable(lines)[n] = lines[k]
      OBVIOUS
    <2>1. m \in 1 .. c /\ n \in 1 .. c
      BY <1>8
    <2>2. /\ Nth(at, m) \in 1 .. Len(lines) /\ Nth(at, n) \in 1 .. Len(lines) /\ Nth(at, m) # Nth(at, n)
          /\ Readable(lines)[m] = lines[Nth(at, m)] /\ Readable(lines)[n] = lines[Nth(at, n)]
      BY <2>1, <1>6, <1>7, <1>9
    <2> QED
      BY <2>2
  <1>12. \A k \in 1 .. Len(lines) :
           lines[k] \notin Unreadable => \E n \in DOMAIN Readable(lines) : Readable(lines)[n] = lines[k]
    BY <1>4, <1>5, <1>8, <1>9
  <1> QED
    BY <1>8, <1>10, <1>11, <1>12

\* The lines after the offset, and the first of them.
LEMMA NewLinesAre ==
  ASSUME UbuntuInv
  PROVE  /\ Start \in Nat /\ Len(raw[today]) \in Nat /\ Start <= Len(raw[today])
         /\ NewLines \in Seq(Nat) /\ Len(NewLines) = Len(raw[today]) - Start
         /\ \A k \in 1 .. Len(NewLines) :
              Start + k \in DOMAIN raw[today] /\ NewLines[k] = raw[today][Start + k]
  <1>1. raw[today] \in Seq(Nat) /\ Len(raw[today]) \in Nat
    BY DEF UbuntuInv, UbuntuTypes
  <1>2. Start \in Nat /\ Start <= Len(raw[today])
    BY <1>1 DEF Start, UbuntuInv, UbuntuTypes, WriterFollows
  <1> HIDE DEF Start
  <1>3. NewLines = SubSeq(raw[today], Start + 1, Len(raw[today]))
    BY DEF NewLines
  <1>4. /\ NewLines \in Seq(Nat) /\ Len(NewLines) = Len(raw[today]) - Start
        /\ \A k \in 1 .. (Len(raw[today]) - Start) :
             Start + k \in DOMAIN raw[today] /\ NewLines[k] = raw[today][Start + k]
    BY <1>1, <1>2, <1>3, TailIs
  <1> QED
    BY <1>1, <1>2, <1>4

LEMMA FirstLinesAre ==
  ASSUME NEW s \in Seq(Nat), NEW n \in 0 .. Len(s)
  PROVE  SubSeq(s, 1, n) \in Seq(Nat) /\ Len(SubSeq(s, 1, n)) = n /\ \A k \in 1 .. n : SubSeq(s, 1, n)[k] = s[k]
  OBVIOUS

\* What any scan of the archive does, however far it got: the archive and the
\* other files stay, and the file of the day gets lines after those it has.
LEMMA ScanKeeps ==
  ASSUME UbuntuInv, NEW n \in 0 .. Len(NewLines), scanDay' = today, UNCHANGED <<today, archive, collector>>,
         normal' = [normal EXCEPT ![today] = normal[today] \o Readable(SubSeq(NewLines, 1, n))],
         offset' \in Nat, offset' <= Len(raw[today]), ubuntuFaults' \in 0 .. MaxUbuntuFaults
  PROVE  UbuntuTypes' /\ ReceivedInOrder' /\ WriterFollows'
  <1>1. UNCHANGED <<today, raw, lineCount, eventsMade>>
    BY DEF archive, collector
  <1>2. SubSeq(NewLines, 1, n) \in Seq(Nat)
    BY NewLinesAre, FirstLinesAre
  <1>3. Readable(SubSeq(NewLines, 1, n)) \in Seq(Nat)
    BY <1>2, ReadableIs
  <1>4. normal' \in [Days -> Seq(Nat)]
    BY <1>3 DEF UbuntuInv, UbuntuTypes
  <1>5. today \in Days /\ today <= today
    BY UbuntuPipelineAssumption DEF UbuntuInv, UbuntuTypes, Days
  <1>6. UbuntuTypes'
    BY <1>1, <1>4, <1>5 DEF UbuntuInv, UbuntuTypes
  <1>7. ReceivedInOrder'
    BY <1>1 DEF UbuntuInv, ReceivedInOrder, Received
  <1>8. \A d \in Days : d > today => d > scanDay /\ d # today
    BY UbuntuPipelineAssumption DEF UbuntuInv, UbuntuTypes, Days
  <1>9. WriterFollows'
    BY <1>1, <1>8 DEF UbuntuInv, UbuntuTypes, WriterFollows
  <1> QED
    BY <1>6, <1>7, <1>9

\* Where the elements of two sequences are in their concatenation.
LEMMA ConcatFacts ==
  ASSUME NEW S, NEW s \in Seq(S), NEW t \in Seq(S)
  PROVE  /\ \A j \in DOMAIN s : j \in DOMAIN (s \o t) /\ (s \o t)[j] = s[j]
         /\ \A n \in DOMAIN t : Len(s) + n \in DOMAIN (s \o t) /\ (s \o t)[Len(s) + n] = t[n]
  OBVIOUS

\* A scan that reads all of the new lines writes each once.
LEMMA WholeScan ==
  ASSUME UbuntuInv, Faultless, scanDay' = today, UNCHANGED <<today, archive, collector>>,
         normal' = [normal EXCEPT ![today] = normal[today] \o Readable(SubSeq(NewLines, 1, Len(NewLines)))],
         offset' = Len(raw[today])
  PROVE  Faultless'
  <1> DEFINE lines == SubSeq(NewLines, 1, Len(NewLines))
             new == Readable(lines)
             old == normal[today]
             from == Start
  <1>1. UNCHANGED <<today, raw, lineCount, eventsMade>> /\ today \in Days
    BY DEF archive, collector, UbuntuInv, UbuntuTypes
  <1>2. /\ from \in Nat /\ Len(raw[today]) \in Nat /\ from <= Len(raw[today])
        /\ Len(NewLines) \in Nat /\ NewLines \in Seq(Nat) /\ Len(NewLines) = Len(raw[today]) - from
        /\ \A k \in 1 .. Len(NewLines) :
             from + k \in DOMAIN raw[today] /\ NewLines[k] = raw[today][from + k]
        /\ DOMAIN raw[today] = 1 .. Len(raw[today])
    BY NewLinesAre DEF UbuntuInv, UbuntuTypes
  <1>3. /\ lines \in Seq(Nat) /\ Len(lines) = Len(NewLines)
        /\ \A k \in 1 .. Len(lines) : from + k \in DOMAIN raw[today] /\ lines[k] = raw[today][from + k]
    BY <1>2, FirstLinesAre
  <1> HIDE DEF lines, from
  <1>4. /\ new \in Seq(Nat)
        /\ \A n \in DOMAIN new : \E k \in 1 .. Len(lines) : new[n] = lines[k]
        /\ \A m, n \in DOMAIN new :
             m # n => \E j, k \in 1 .. Len(lines) : j # k /\ new[m] = lines[j] /\ new[n] = lines[k]
        /\ \A k \in 1 .. Len(lines) : lines[k] \notin Unreadable => \E n \in DOMAIN new : new[n] = lines[k]
    BY <1>3, ReadableIs
  <1>5. normal' = [normal EXCEPT ![today] = old \o new] /\ old \in Seq(Nat)
    BY DEF lines, UbuntuInv, UbuntuTypes
  <1>6. normal'[today] = old \o new /\ \A d \in Days \ {today} : normal'[d] = normal[d]
    BY <1>5 DEF UbuntuInv, UbuntuTypes
  <1> HIDE DEF new
  <1>7. /\ DOMAIN (old \o new) = 1 .. (Len(old) + Len(new)) /\ Len(old) \in Nat /\ Len(new) \in Nat
        /\ DOMAIN old = 1 .. Len(old) /\ DOMAIN new = 1 .. Len(new)
        /\ \A j \in 1 .. Len(old) : (old \o new)[j] = old[j]
        /\ \A j \in 1 .. Len(new) : (old \o new)[Len(old) + j] = new[j]
    BY <1>4, <1>5
  \* Every line of the file is an old one or a new one.
  <1>8. \A j \in DOMAIN (old \o new) :
          \/ j \in DOMAIN old /\ (old \o new)[j] = old[j]
          \/ \E n \in DOMAIN new : j = Len(old) + n /\ (old \o new)[j] = new[n]
    <2> SUFFICES ASSUME NEW j \in DOMAIN (old \o new), ~(j \in DOMAIN old)
                 PROVE  \E n \in DOMAIN new : j = Len(old) + n /\ (old \o new)[j] = new[n]
      BY <1>7
    <2>1. j - Len(old) \in 1 .. Len(new) /\ j = Len(old) + (j - Len(old))
      BY <1>7
    <2> QED
      BY <1>7, <2>1
  \* The old ones lie before the offset, the new ones behind it.
  <1>9. \A j \in DOMAIN old : \E i \in DOMAIN raw[today] : old[j] = raw[today][i] /\ i <= from
    <2>1. CASE scanDay = today
      <3>1. from = offset
        BY <2>1 DEF from, Start
      <3> QED
        BY <1>1, <2>1, <3>1 DEF Faultless, WrittenOnce
    <2>2. CASE scanDay # today
      <3>1. today > scanDay
        BY <2>2, UbuntuPipelineAssumption DEF UbuntuInv, UbuntuTypes, Days
      <3>2. old = <<>>
        BY <1>1, <3>1 DEF UbuntuInv, WriterFollows
      <3> QED
        BY <3>2
    <2> QED
      BY <2>1, <2>2
  <1>10. \A n \in DOMAIN new : \E i \in DOMAIN raw[today] : new[n] = raw[today][i] /\ i > from
    <2> SUFFICES ASSUME NEW n \in DOMAIN new
                 PROVE  \E i \in DOMAIN raw[today] : new[n] = raw[today][i] /\ i > from
      OBVIOUS
    <2>1. PICK k \in 1 .. Len(lines) : new[n] = lines[k]
      BY <1>4
    <2>2. from + k \in DOMAIN raw[today] /\ new[n] = raw[today][from + k]
      BY <1>3, <2>1
    <2>3. from + k > from
      BY <1>2, <1>3, <2>1
    <2> QED
      BY <2>2, <2>3
  <1>11. \A i, j \in DOMAIN raw[today] : raw[today][i] = raw[today][j] => i = j
    BY <1>1 DEF UbuntuInv, ReceivedInOrder
  <1>12. \A m, n \in DOMAIN new : new[m] = new[n] => m = n
    <2> SUFFICES ASSUME NEW m \in DOMAIN new, NEW n \in DOMAIN new, m # n PROVE new[m] # new[n]
      OBVIOUS
    <2>1. PICK j, k \in 1 .. Len(lines) : j # k /\ new[m] = lines[j] /\ new[n] = lines[k]
      BY <1>4
    <2>2. from + j # from + k
      BY <1>2, <1>3, <2>1
    <2> QED
      BY <1>3, <1>11, <2>1, <2>2
  <1>13. \A j \in DOMAIN old, n \in DOMAIN new : old[j] # new[n]
    <2> SUFFICES ASSUME NEW j \in DOMAIN old, NEW n \in DOMAIN new PROVE old[j] # new[n]
      OBVIOUS
    <2>1. PICK a \in DOMAIN raw[today] : old[j] = raw[today][a] /\ a <= from
      BY <1>9
    <2>2. PICK b \in DOMAIN raw[today] : new[n] = raw[today][b] /\ b > from
      BY <1>10
    <2>3. a # b
      BY <1>2, <2>1, <2>2
    <2> QED
      BY <1>11, <2>1, <2>2, <2>3
  <1>14. \A i, j \in DOMAIN (old \o new) : (old \o new)[i] = (old \o new)[j] => i = j
    <2>1. \A i, j \in DOMAIN old : old[i] = old[j] => i = j
      BY <1>1 DEF Faultless, WrittenOnce
    <2> QED
      BY <1>8, <1>12, <1>13, <2>1
  <1>15. \A j \in DOMAIN (old \o new) : \E i \in DOMAIN raw[today] : (old \o new)[j] = raw[today][i]
    BY <1>8, <1>9, <1>10
  <1>16. \A i \in DOMAIN raw[today] : i <= offset'
    BY <1>2
  <1>17. WrittenOnce'
    <2>0. UNCHANGED raw /\ scanDay' = today
      BY <1>1
    <2>1. ASSUME NEW d \in Days, NEW j \in DOMAIN normal'[d]
          PROVE  \E i \in DOMAIN raw'[d] : normal'[d][j] = raw'[d][i] /\ (d = scanDay' => i <= offset')
      <3>1. ASSUME d = today PROVE \E i \in DOMAIN raw[today] : normal'[today][j] = raw[today][i] /\ i <= offset'
        BY <1>6, <1>15, <1>16, <2>1, <3>1
      <3>2. ASSUME d # today PROVE \E i \in DOMAIN raw[d] : normal'[d][j] = raw[d][i]
        BY <1>6, <2>1, <3>2 DEF Faultless, WrittenOnce
      <3> QED
        BY <2>0, <3>1, <3>2
    <2>2. ASSUME NEW d \in Days, NEW i \in DOMAIN normal'[d], NEW j \in DOMAIN normal'[d],
                 normal'[d][i] = normal'[d][j]
          PROVE  i = j
      <3>1. CASE d = today
        <4>1. normal'[d] = old \o new
          BY <1>6, <3>1
        <4> HIDE DEF old
        <4> QED
          BY <1>14, <2>2, <4>1
      <3>2. CASE d # today
        BY <1>6, <2>2, <3>2 DEF Faultless, WrittenOnce
      <3> QED
        BY <3>1, <3>2
    <2> QED
      BY <2>1, <2>2 DEF WrittenOnce
  <1>18. /\ \A j \in DOMAIN old : j \in DOMAIN (old \o new) /\ (old \o new)[j] = old[j]
         /\ \A n \in DOMAIN new :
              Len(old) + n \in DOMAIN (old \o new) /\ (old \o new)[Len(old) + n] = new[n]
    <2>1. new \in Seq(Nat)
      BY <1>4
    <2>2. old \in Seq(Nat)
      BY <1>5
    <2> HIDE DEF old
    <2> QED
      BY <2>1, <2>2, ConcatFacts
  <1>19. \A l : Passed(l) => Passed(l)'
    <2> SUFFICES ASSUME NEW l, Passed(l) PROVE Passed(l)'
      OBVIOUS
    <2>0. PICK d \in Days : /\ d <= today
                            /\ \E j \in DOMAIN normal[d] : normal[d][j] = l /\ (d = today => j <= lineCount)
      BY DEF Passed
    <2>1. PICK j \in DOMAIN normal[d] : normal[d][j] = l /\ (d = today => j <= lineCount)
      BY <2>0
    <2>2. j \in DOMAIN normal'[d] /\ normal'[d][j] = l
      BY <1>6, <1>18, <2>1
    <2>3. d <= today' /\ (d = today' => j <= lineCount')
      BY <1>1, <2>0, <2>1
    <2> QED
      BY <2>2, <2>3 DEF Passed
  <1>20. MadeOfPassed'
    BY <1>1, <1>19 DEF Faultless, MadeOfPassed
  <1>21. ASSUME today = 1 PROVE ScannedIsWritten'
    <2> SUFFICES ASSUME NEW i \in DOMAIN raw[today], raw[today][i] \notin Unreadable
                 PROVE  \E j \in DOMAIN (old \o new) : (old \o new)[j] = raw[today][i]
      BY <1>1, <1>6, <1>21 DEF ScannedIsWritten
    <2>1. CASE i <= from
      <3>1. from = offset
        <4>1. scanDay = today
          BY <1>21 DEF UbuntuInv, UbuntuTypes, Days
        <4> QED
          BY <4>1 DEF from, Start
      <3>2. PICK j \in DOMAIN old : old[j] = raw[today][i]
        BY <1>21, <2>1, <3>1 DEF Faultless, ScannedIsWritten
      <3> QED
        BY <1>18, <3>2
    <2>2. CASE ~(i <= from)
      <3> DEFINE top == Len(raw[today])
                 some == Len(lines)
      <3>a. i \in Nat /\ i <= top /\ some = top - from /\ from \in Nat /\ top \in Nat /\ ~(i <= from)
        BY <1>1, <1>2, <1>3, <1>21, <2>2
      <3> HIDE DEF top, some
      <3>b. i - from \in 1 .. some /\ from + (i - from) = i
        BY <3>a
      <3>1. i - from \in 1 .. Len(lines) /\ from + (i - from) = i
        BY <3>b DEF some
      <3>2. lines[i - from] = raw[today][i]
        BY <1>3, <3>1
      <3>3. PICK n \in DOMAIN new : new[n] = raw[today][i]
        BY <1>4, <3>1, <3>2
      <3>4. Len(old) + n \in DOMAIN (old \o new) /\ (old \o new)[Len(old) + n] = new[n]
        BY <1>18, <3>3, Zenon
      <3> QED
        BY <3>3, <3>4
    <2> QED
      BY <2>1, <2>2
  <1>22. ASSUME today = 1 PROVE PassedIsMade'
    <2>1. lineCount <= Len(old) /\ \A j \in DOMAIN old : j <= lineCount => Arrived(old[j])
      BY <1>22 DEF Faultless, PassedIsMade
    <2>2. \A j \in DOMAIN (old \o new) : j <= lineCount => j \in DOMAIN old
      BY <1>7, <2>1 DEF UbuntuInv, UbuntuTypes
    <2>3. \A j \in DOMAIN (old \o new) : j <= lineCount => Arrived((old \o new)[j])
      BY <1>18, <2>1, <2>2
    <2>4. lineCount <= Len(old \o new)
      BY <1>4, <1>5, <1>7, <2>1 DEF UbuntuInv, UbuntuTypes
    <2> QED
      BY <1>1, <1>6, <1>22, <2>3, <2>4, Zenon DEF PassedIsMade, Arrived
  <1> QED
    BY <1>1, <1>17, <1>20, <1>21, <1>22 DEF Faultless

LEMMA ProcessOnceInv ==
  ASSUME UbuntuInv, ProcessOnce
  PROVE  UbuntuInv'
  <1>1. PICK n \in 0 .. Len(NewLines) :
          /\ normal' = [normal EXCEPT ![today] = normal[today] \o Readable(SubSeq(NewLines, 1, n))]
          /\ offset' = Start + Len(SubSeq(NewLines, 1, n))
          /\ IF n = Len(NewLines) THEN UNCHANGED ubuntuFaults ELSE UbuntuFault
    BY DEF ProcessOnce, ScannedAfter
  <1>2. scanDay' = today /\ UNCHANGED <<today, archive, collector>>
    BY DEF ProcessOnce
  <1>3. Len(SubSeq(NewLines, 1, n)) = n
    BY NewLinesAre, FirstLinesAre
  <1>4. /\ offset' \in Nat /\ offset' <= Len(raw[today])
        /\ n = Len(NewLines) => offset' = Len(raw[today])
    <2>1. offset' = Start + n
      BY <1>1, <1>3
    <2>2. /\ Start \in Nat /\ Len(raw[today]) \in Nat /\ Start <= Len(raw[today])
          /\ Len(NewLines) = Len(raw[today]) - Start
      BY NewLinesAre
    <2> HIDE DEF Start, NewLines
    <2>3. n \in Nat /\ n <= Len(raw[today]) - Start
      BY <2>2
    <2> QED
      BY <2>1, <2>2, <2>3
  <1>5. ubuntuFaults' \in 0 .. MaxUbuntuFaults
    BY <1>1, UbuntuFaultCounts DEF UbuntuInv, UbuntuTypes
  <1>6. UbuntuTypes' /\ ReceivedInOrder' /\ WriterFollows'
    BY <1>1, <1>2, <1>4, <1>5, ScanKeeps
  <1>7. ASSUME n = Len(NewLines), ubuntuFaults = 0 PROVE Faultless'
    <2>1. Faultless
      BY <1>7 DEF UbuntuInv
    <2> QED
      BY <1>1, <1>2, <1>4, <1>7, <2>1, WholeScan
  <1>8. ubuntuFaults' = 0 => n = Len(NewLines) /\ ubuntuFaults = 0
    BY <1>1, UbuntuFaultCounts DEF UbuntuInv
  <1> QED
    BY <1>6, <1>7, <1>8 DEF UbuntuInv

LEMMA RestartWriterInv ==
  ASSUME UbuntuInv, RestartWriter
  PROVE  UbuntuInv'
  <1>1. PICK n \in 0 .. Len(NewLines) :
          normal' = [normal EXCEPT ![today] = normal[today] \o Readable(SubSeq(NewLines, 1, n))]
    BY DEF RestartWriter
  <1>2. scanDay' = today /\ UNCHANGED <<today, archive, collector>> /\ offset' = 0 /\ UbuntuFault
    BY DEF RestartWriter
  <1>3. offset' \in Nat /\ offset' <= Len(raw[today])
    BY <1>2, NewLinesAre
  <1>4. ubuntuFaults' \in 0 .. MaxUbuntuFaults /\ ubuntuFaults' # 0
    BY <1>2, UbuntuFaultCounts DEF UbuntuInv
  <1>5. UbuntuTypes' /\ ReceivedInOrder' /\ WriterFollows'
    BY <1>1, <1>2, <1>3, <1>4, ScanKeeps
  <1> QED
    BY <1>4, <1>5 DEF UbuntuInv

-----------------------------------------------------------------------------
\* The collector.

\* How often a line is among those fetched now.
Times(l) == Cardinality({i \in DOMAIN Fresh : Fresh[i] = l})

LEMMA FreshIs ==
  ASSUME UbuntuTypes, Fresh # <<>>
  PROVE  /\ Len(normal[today]) \in Nat /\ lineCount < Len(normal[today])
         /\ DOMAIN normal[today] = 1 .. Len(normal[today])
         /\ Len(Fresh) = Len(normal[today]) - lineCount /\ DOMAIN Fresh = 1 .. Len(Fresh)
         /\ \A k \in DOMAIN Fresh :
              lineCount + k \in DOMAIN normal[today] /\ Fresh[k] = normal[today][lineCount + k]
  <1> DEFINE s == normal[today]
  <1>1. s \in Seq(Nat) /\ Len(s) \in Nat /\ lineCount \in Nat /\ DOMAIN s = 1 .. Len(s)
    BY DEF UbuntuTypes
  <1>2. Fresh = SubSeq(s, lineCount + 1, Len(s))
    BY DEF Fresh
  <1> HIDE DEF s
  <1>3. lineCount < Len(s)
    <2> SUFFICES ASSUME ~(lineCount < Len(s)) PROVE FALSE
      OBVIOUS
    <2>1. Len(s) < lineCount + 1
      BY <1>1
    <2>2. SubSeq(s, lineCount + 1, Len(s)) = <<>>
      BY <1>1, <2>1
    <2> QED
      BY <1>2, <2>2
  <1>4. /\ Fresh \in Seq(Nat) /\ Len(Fresh) = Len(s) - lineCount
        /\ \A k \in 1 .. (Len(s) - lineCount) : lineCount + k \in DOMAIN s /\ Fresh[k] = s[lineCount + k]
    <2>1. lineCount <= Len(s)
      BY <1>1, <1>3
    <2> QED
      BY <1>1, <1>2, <2>1, TailIs
  <1>5. DOMAIN Fresh = 1 .. Len(Fresh)
    BY <1>4
  <1> QED
    BY <1>1, <1>3, <1>4, <1>5 DEF s

\* Without failures, a fetched line is fetched once, and for the first time.
LEMMA FetchedOnce ==
  ASSUME UbuntuInv, Faultless, Fresh # <<>>, NEW l \in 1 .. MaxLines
  PROVE  /\ (\E k \in DOMAIN Fresh : Fresh[k] = l) => Times(l) = 1 /\ eventsMade[l] = 0
         /\ ~(\E k \in DOMAIN Fresh : Fresh[k] = l) => Times(l) = 0
  <1>1. today \in Days /\ lineCount \in Nat /\ eventsMade[l] \in 0 .. 2
    BY DEF UbuntuInv, UbuntuTypes
  <1>2. \A k \in DOMAIN Fresh :
          lineCount + k \in DOMAIN normal[today] /\ Fresh[k] = normal[today][lineCount + k] /\ k \in Nat /\ k > 0
    BY FreshIs DEF UbuntuInv
  <1>3. \A d \in Days : \A j \in DOMAIN normal[d] : \E i \in DOMAIN raw[d] : normal[d][j] = raw[d][i]
    BY DEF Faultless, WrittenOnce
  <1>4. \A d, e \in Days : \A i \in DOMAIN raw[d], j \in DOMAIN raw[e] : raw[d][i] = raw[e][j] => d = e
    BY DEF UbuntuInv, ReceivedInOrder
  <1>5. \A i, j \in DOMAIN normal[today] : normal[today][i] = normal[today][j] => i = j
    BY <1>1 DEF Faultless, WrittenOnce
  <1>6. ASSUME NEW k \in DOMAIN Fresh, Fresh[k] = l PROVE Times(l) = 1 /\ eventsMade[l] = 0
    <2>1. \A m \in DOMAIN Fresh : Fresh[m] = l => m = k
      <3> SUFFICES ASSUME NEW m \in DOMAIN Fresh, Fresh[m] = l PROVE m = k
        OBVIOUS
      <3>1. lineCount + m = lineCount + k
        BY <1>2, <1>5, <1>6
      <3> QED
        BY <1>1, <1>2, <3>1
    <2>2. {i \in DOMAIN Fresh : Fresh[i] = l} = {k}
      BY <1>6, <2>1
    <2>3. Times(l) = 1
      BY <2>2, FS_Singleton DEF Times
    <2>4. ~Passed(l)
      <3> SUFFICES ASSUME Passed(l) PROVE FALSE
        OBVIOUS
      <3>0. PICK d \in Days : \E j \in DOMAIN normal[d] : normal[d][j] = l /\ (d = today => j <= lineCount)
        BY DEF Passed
      <3>1. PICK j \in DOMAIN normal[d] : normal[d][j] = l /\ (d = today => j <= lineCount)
        BY <3>0
      <3>2. PICK a \in DOMAIN raw[d] : l = raw[d][a]
        BY <1>3, <3>1
      <3>3. PICK b \in DOMAIN raw[today] : l = raw[today][b]
        BY <1>1, <1>2, <1>3, <1>6
      <3>4. d = today
        BY <1>1, <1>4, <3>2, <3>3
      <3>5. j = lineCount + k
        BY <1>2, <1>5, <1>6, <3>1, <3>4
      <3> QED
        BY <1>1, <1>2, <3>1, <3>4, <3>5
    <2> QED
      BY <1>1, <2>3, <2>4 DEF Faultless, MadeOfPassed
  <1>7. ASSUME ~(\E k \in DOMAIN Fresh : Fresh[k] = l) PROVE Times(l) = 0
    <2>1. {i \in DOMAIN Fresh : Fresh[i] = l} = {}
      BY <1>7
    <2> QED
      BY <2>1, FS_EmptySet DEF Times
  <1> QED
    BY <1>6, <1>7

LEMMA PollUbuntuInv ==
  ASSUME UbuntuInv, PollUbuntu
  PROVE  UbuntuInv'
  <1> DEFINE Made(l) == IF l \in Garbled THEN 0 ELSE Times(l)
  <1>1. /\ Fresh # <<>> /\ lineCount' = lineCount + Len(Fresh)
        /\ UNCHANGED <<today, raw, scanDay, offset, normal>>
        /\ \A k \in DOMAIN Fresh : Fresh[k] \notin Raising
        /\ \/ /\ eventsMade' = [l \in DOMAIN eventsMade |->
                                  IF eventsMade[l] + Made(l) > 2 THEN 2 ELSE eventsMade[l] + Made(l)]
              /\ UNCHANGED ubuntuFaults
           \/ UbuntuFault /\ UNCHANGED eventsMade
    BY DEF PollUbuntu, MayAdvance, Times, archive, writer
  <1>2. lineCount' = Len(normal[today]) /\ lineCount' \in Nat /\ lineCount < lineCount'
    BY <1>1, FreshIs DEF UbuntuInv, UbuntuTypes
  <1>3. \A l : Times(l) \in Nat
    <2>1. IsFiniteSet(DOMAIN Fresh)
      BY <1>1, <1>2, FreshIs, FS_Interval DEF UbuntuInv, UbuntuTypes
    <2> QED
      BY <2>1, FS_Subset, FS_CardinalityType DEF Times
  <1>4. eventsMade' \in [1 .. MaxLines -> 0 .. 2]
    <2>1. eventsMade \in [1 .. MaxLines -> 0 .. 2]
      BY DEF UbuntuInv, UbuntuTypes
    <2>2. \A l \in 1 .. MaxLines :
            (IF eventsMade[l] + Made(l) > 2 THEN 2 ELSE eventsMade[l] + Made(l)) \in 0 .. 2
      BY <1>3, <2>1
    <2> HIDE DEF Times, Made
    <2> QED
      BY <1>1, <2>1, <2>2
  <1>5. ubuntuFaults' \in 0 .. MaxUbuntuFaults
    BY <1>1, UbuntuFaultCounts DEF UbuntuInv, UbuntuTypes
  <1>6. UbuntuTypes'
    BY <1>1, <1>2, <1>4, <1>5 DEF UbuntuInv, UbuntuTypes, Days
  <1>7. ReceivedInOrder' /\ WriterFollows'
    BY <1>1 DEF UbuntuInv, ReceivedInOrder, Received, WriterFollows
  <1>8. ASSUME ubuntuFaults' = 0 PROVE Faultless'
    <2>1. Faultless /\ ubuntuFaults = 0
      BY <1>1, <1>8, UbuntuFaultCounts DEF UbuntuInv
    <2>2. \A l \in 1 .. MaxLines :
            eventsMade'[l] = IF eventsMade[l] + Made(l) > 2 THEN 2 ELSE eventsMade[l] + Made(l)
      BY <1>1, <1>8, UbuntuFaultCounts DEF UbuntuInv, UbuntuTypes
    <2>3. \A l \in 1 .. MaxLines :
            /\ (\E k \in DOMAIN Fresh : Fresh[k] = l) => eventsMade'[l] = 1 \/ (l \in Garbled /\ eventsMade'[l] = eventsMade[l])
            /\ ~(\E k \in DOMAIN Fresh : Fresh[k] = l) => eventsMade'[l] = eventsMade[l]
      <3> SUFFICES ASSUME NEW l \in 1 .. MaxLines
                   PROVE  /\ (\E k \in DOMAIN Fresh : Fresh[k] = l) => eventsMade'[l] = 1 \/ (l \in Garbled /\ eventsMade'[l] = eventsMade[l])
                          /\ ~(\E k \in DOMAIN Fresh : Fresh[k] = l) => eventsMade'[l] = eventsMade[l]
        OBVIOUS
      <3>1. eventsMade[l] \in 0 .. 2
        BY DEF UbuntuInv, UbuntuTypes
      <3> QED
        BY <1>1, <2>1, <2>2, <3>1, FetchedOnce
    <2>4. WrittenOnce'
      BY <1>1, <2>1 DEF Faultless, WrittenOnce
    <2>5. /\ today \in Days /\ today <= today
          /\ \A j \in DOMAIN normal[today] : j \in Nat /\ j <= lineCount'
          /\ \A k \in DOMAIN Fresh : lineCount + k \in DOMAIN normal[today] /\ Fresh[k] = normal[today][lineCount + k]
      BY <1>1, <1>2, FreshIs, UbuntuPipelineAssumption DEF UbuntuInv, UbuntuTypes, Days
    <2>6. \A l : Passed(l) => Passed(l)'
      <3> SUFFICES ASSUME NEW l, Passed(l) PROVE Passed(l)'
        OBVIOUS
      <3>0. PICK d \in Days : d <= today /\ \E j \in DOMAIN normal[d] : normal[d][j] = l
        BY DEF Passed
      <3>1. PICK j \in DOMAIN normal[d] : d <= today /\ normal[d][j] = l
        BY <3>0
      <3>2. d = today => j <= lineCount'
        BY <2>5, <3>1
      <3> QED
        BY <1>1, <3>1, <3>2 DEF Passed
    <2>7. \A l : (\E k \in DOMAIN Fresh : Fresh[k] = l) => Passed(l)'
      <3> SUFFICES ASSUME NEW l, NEW k \in DOMAIN Fresh, Fresh[k] = l PROVE Passed(l)'
        OBVIOUS
      <3>1. lineCount + k \in DOMAIN normal[today] /\ normal[today][lineCount + k] = l /\ lineCount + k <= lineCount'
        BY <2>5
      <3> QED
        BY <1>1, <2>5, <3>1 DEF Passed
    <2>8. MadeOfPassed'
      <3> SUFFICES ASSUME NEW l \in 1 .. MaxLines, eventsMade'[l] > 0
                   PROVE  eventsMade'[l] = 1 /\ Passed(l)'
        BY DEF MadeOfPassed
      <3>1. CASE eventsMade'[l] = 1 /\ \E k \in DOMAIN Fresh : Fresh[k] = l
        BY <2>7, <3>1
      <3>2. CASE eventsMade'[l] = eventsMade[l]
        <4>1. eventsMade[l] = 1 /\ Passed(l)
          BY <2>1, <3>2 DEF Faultless, MadeOfPassed
        <4> QED
          BY <2>6, <3>2, <4>1
      <3> QED
        BY <2>3, <3>1, <3>2
    <2>9. ASSUME today = 1 PROVE ScannedIsWritten' /\ PassedIsMade'
      <3>1. ScannedIsWritten'
        BY <1>1, <2>1, <2>9 DEF Faultless, ScannedIsWritten
      <3>2. ASSUME NEW j \in DOMAIN normal[1]
            PROVE  Arrived(normal[1][j])'
        <4> DEFINE l == normal[1][j]
        <4>1. l \in 1 .. MaxLines
          <5>1. PICK i \in DOMAIN raw[1] : l = raw[1][i]
            BY <2>1, <2>5, <2>9 DEF Faultless, WrittenOnce
          <5>2. l \in Received
            BY <2>5, <2>9, <5>1 DEF Received
          <5>3. PICK n \in 0 .. MaxLines : Received = 1 .. n
            BY DEF UbuntuInv, ReceivedInOrder
          <5> QED
            BY <5>2, <5>3, UbuntuPipelineAssumption
        <4> HIDE DEF l
        <4>2. CASE \E k \in DOMAIN Fresh : Fresh[k] = l
          BY <1>1, <2>3, <4>1, <4>2 DEF l, Arrived
        <4>3. CASE ~ \E k \in DOMAIN Fresh : Fresh[k] = l
          <5>1. j <= lineCount
            <6> SUFFICES ASSUME ~(j <= lineCount) PROVE FALSE
              OBVIOUS
            <6>0. ~(j <= lineCount)
              OBVIOUS
            <6>1. j - lineCount \in DOMAIN Fresh /\ lineCount + (j - lineCount) = j
              <7>1. /\ Len(normal[1]) \in Nat /\ DOMAIN Fresh = 1 .. (Len(normal[1]) - lineCount)
                    /\ j \in 1 .. Len(normal[1])
                BY <1>1, <2>9, FreshIs DEF UbuntuInv
              <7>2. lineCount \in Nat
                BY DEF UbuntuInv, UbuntuTypes
              <7> QED
                BY <6>0, <7>1, <7>2
            <6>2. Fresh[j - lineCount] = l
              BY <2>5, <2>9, <6>1 DEF l
            <6> QED
              BY <4>3, <6>1, <6>2
          <5>2. Arrived(l)
            BY <2>1, <2>9, <5>1 DEF l, Faultless, PassedIsMade
          <5> QED
            BY <1>1, <2>3, <4>1, <4>3, <5>2 DEF l, Arrived
        <4> QED
          BY <4>2, <4>3
      <3>3. lineCount' <= Len(normal[1])
        BY <1>2, <2>9
      <3> QED
        BY <1>1, <3>1, <3>2, <3>3 DEF PassedIsMade
    <2> QED
      BY <1>1, <2>4, <2>8, <2>9 DEF Faultless
  <1> QED
    BY <1>6, <1>7, <1>8 DEF UbuntuInv

LEMMA UbuntuNextInv == UbuntuInv /\ [UbuntuNext]_ubuntuVars => UbuntuInv'
  <1>1. ASSUME UbuntuInv, UNCHANGED <<today, raw, scanDay, offset, normal, lineCount, eventsMade>>,
               UNCHANGED ubuntuFaults \/ UbuntuFault
        PROVE  UbuntuInv'
    <2>1. ubuntuFaults' \in 0 .. MaxUbuntuFaults /\ (ubuntuFaults' = 0 => ubuntuFaults = 0)
      BY <1>1, UbuntuFaultCounts DEF UbuntuInv, UbuntuTypes
    <2>a. UbuntuTypes'
      BY <1>1, <2>1 DEF UbuntuInv, UbuntuTypes
    <2>b. ReceivedInOrder'
      BY <1>1 DEF UbuntuInv, ReceivedInOrder, Received
    <2>c. WriterFollows'
      BY <1>1 DEF UbuntuInv, WriterFollows
    <2>2. UbuntuTypes' /\ ReceivedInOrder' /\ WriterFollows'
      BY <2>a, <2>b, <2>c
    <2>3. Faultless => Faultless'
      BY <1>1 DEF Faultless, WrittenOnce, MadeOfPassed, Passed, ScannedIsWritten, PassedIsMade, Arrived
    <2> QED
      BY <1>1, <2>1, <2>2, <2>3 DEF UbuntuInv
  <1>2. ASSUME UbuntuInv, RestartArchiver \/ UNCHANGED ubuntuVars PROVE UbuntuInv'
    <2>1. /\ UNCHANGED <<today, raw, scanDay, offset, normal, lineCount, eventsMade>>
          /\ UNCHANGED ubuntuFaults \/ UbuntuFault
      BY <1>2 DEF RestartArchiver, ubuntuVars, writer, collector
    <2> QED
      BY <1>1, <1>2, <2>1
  <1> QED
    BY <1>2, MidnightInv, ReceiveInv, ProcessOnceInv, RestartWriterInv, PollUbuntuInv DEF UbuntuNext

\* Without failures no line that came in over the Ubuntu box becomes two events,
\* for any number of lines and days, whatever the order of archiver, writer and
\* collector and also where the count of the collector runs over midnight.
THEOREM LinesBecomeOneEvent == UbuntuSpec => []LinesAreOnce
  <1>1. UbuntuInv => LinesAreOnce
    <2> SUFFICES ASSUME UbuntuInv, ubuntuFaults = 0, NEW l \in 1 .. MaxLines
                 PROVE  eventsMade[l] <= 1
      BY DEF LinesAreOnce, IsOnce
    <2>1. eventsMade[l] \in 0 .. 2 /\ (eventsMade[l] > 0 => eventsMade[l] = 1)
      BY DEF UbuntuInv, UbuntuTypes, Faultless, MadeOfPassed
    <2> QED
      BY <2>1
  <1> QED
    BY UbuntuInitInv, UbuntuNextInv, <1>1, PTL DEF UbuntuSpec

\* Within the first day and without failures the writer leaves out no line that
\* parses and the collector none of the writer's: what the offset and the count
\* have passed has arrived.
THEOREM PassedLinesArrive == UbuntuSpec => []LinesAreTaken
  <1>1. UbuntuInv => LinesAreTaken
    BY DEF UbuntuInv, Faultless, ScannedIsWritten, PassedIsMade, LinesAreTaken
  <1> QED
    BY UbuntuInitInv, UbuntuNextInv, <1>1, PTL DEF UbuntuSpec
=============================================================================
