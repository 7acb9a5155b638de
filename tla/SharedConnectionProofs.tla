----------------------- MODULE SharedConnectionProofs -----------------------
(***************************************************************************)
(* What holds of SharedConnection for any calls, methods and row counts:   *)
(* type correctness, the atomicity of the store's methods, that nothing    *)
(* committed is lost, that nothing else is left in the transaction, and    *)
(* the refinement of SerialTransactions.                                   *)
(***************************************************************************)
EXTENDS SharedConnection, TLAPS

\* The lock is held by one call, which is between its first statement and its
\* return.
LockHeld == /\ \A c, d \in inside : c = d
            /\ \A c \in Calls : c \in inside <=> pc[c] \in {"write", "committed"}

\* The rows of the call that is writing are in the transaction, up to the
\* last one written, and nowhere else.
WritingIsOpen ==
  \A c \in Calls :
    /\ written[c] \in 0 .. Size[c]
    /\ pc[c] \in {"idle", "wait"} => written[c] = 0
    /\ \A k \in 1 .. Size[c] :
         /\ pc[c] = "write" => (<<c, k>> \in open) = (k <= written[c])
         /\ pc[c] \in {"idle", "wait", "write"} => <<c, k>> \notin db

\* The rows of a call that has committed are in the database.
CommittedIsKept ==
  \A c \in Calls : \A k \in 1 .. Size[c] : pc[c] \in {"committed", "ok"} => <<c, k>> \in db

\* The transaction has rows of the call that is writing and of sections that
\* raised.
OpenRows ==
  \A c \in Calls : \A k \in 1 .. Size[c] :
    <<c, k>> \in open => pc[c] = "write" \/ (pc[c] = "raised" /\ c \notin Methods)

\* The rows of a method are committed together.
AllOrNothing ==
  \A c \in Methods : \A j, k \in 1 .. Size[c] : <<c, j>> \in db => <<c, k>> \in db

IInv == TypeOK /\ LockHeld /\ WritingIsOpen /\ CommittedIsKept /\ OpenRows /\ AllOrNothing

-----------------------------------------------------------------------------
\* The rows of a call, one by one.
LEMMA RowsOneByOne ==
  ASSUME NEW c \in Calls, NEW S
  PROVE  /\ (Rows(c) \subseteq S) <=> (\A k \in 1 .. Size[c] : <<c, k>> \in S)
         /\ (Rows(c) \cap S = {}) <=> (\A k \in 1 .. Size[c] : <<c, k>> \notin S)
         /\ \A k \in 1 .. Size[c] : <<c, k>> \in AllRows
  <1>1. \A k \in 1 .. Size[c] : <<c, k>> \in Rows(c)
    BY DEF Rows
  <1>2. \A r \in Rows(c) : \E k \in 1 .. Size[c] : r = <<c, k>>
    BY DEF Rows
  <1>3. Rows(c) \subseteq AllRows
    BY DEF AllRows
  <1> QED
    BY <1>1, <1>2, <1>3

\* Rows of different calls are different.
LEMMA RowsDiffer ==
  ASSUME NEW c, NEW d, NEW j, NEW k, <<c, j>> = <<d, k>>
  PROVE  c = d /\ j = k
  OBVIOUS

\* The initial state satisfies the inductive invariant.
LEMMA InitIInv == Init => IInv
  BY SharedConnectionAssumption
  DEF Init, IInv, TypeOK, LockHeld, WritingIsOpen, CommittedIsKept, OpenRows, AllOrNothing

\* Entering and leaving the lock without touching a row.
LEMMA EnterLeaveIInv ==
  ASSUME IInv, NEW c \in Calls, Call(c) \/ Acquire(c) \/ Return(c)
  PROVE  IInv'
  <1> USE DEF IInv
  <1>1. open' = open /\ db' = db /\ written' = written
    BY DEF Call, Acquire, Return
  <1>2. TypeOK'
    BY DEF TypeOK, Call, Acquire, Return, Goto
  <1>3. LockHeld'
    BY DEF TypeOK, LockHeld, Call, Acquire, Return, Goto, MayEnter
  <1>4. WritingIsOpen'
    BY <1>1 DEF TypeOK, WritingIsOpen, OpenRows, Call, Acquire, Return, Goto
  <1>5. CommittedIsKept'
    BY <1>1 DEF TypeOK, CommittedIsKept, Call, Acquire, Return, Goto
  <1>6. OpenRows'
    BY <1>1 DEF TypeOK, OpenRows, Call, Acquire, Return, Goto
  <1>7. AllOrNothing'
    BY <1>1 DEF AllOrNothing
  <1> QED
    BY <1>2, <1>3, <1>4, <1>5, <1>6, <1>7

\* The call in the lock writes its next row into the transaction.
LEMMA ExecuteIInv ==
  ASSUME IInv, NEW c \in Calls, Execute(c)
  PROVE  IInv'
  <1> USE DEF IInv
  <1>1. /\ pc[c] = "write" /\ c \in inside /\ inside' = inside /\ pc' = pc /\ db' = db
        /\ written[c] \in Nat /\ Size[c] \in Nat /\ written[c] + 1 \in 1 .. Size[c]
        /\ written' = [written EXCEPT ![c] = written[c] + 1]
        /\ open' = open \cup {<<c, written[c] + 1>>}
        /\ conn' = conn /\ faults' = faults
    <2>1. written[c] \in 0 .. Size[c] /\ Size[c] \in Nat
      BY SharedConnectionAssumption DEF WritingIsOpen
    <2>2. written[c] # Size[c]
      BY DEF Execute, WrittenAll
    <2>3. written[c] \in Nat /\ written[c] + 1 \in 1 .. Size[c]
      BY <2>1, <2>2
    <2> QED
      BY <2>1, <2>3 DEF Execute
  <1>2. \A d \in Calls : \A k \in 1 .. Size[d] :
          (<<d, k>> \in open') <=> (<<d, k>> \in open \/ (d = c /\ k = written[c] + 1))
    BY <1>1, RowsDiffer
  <1>3. TypeOK'
    <2>1. <<c, written[c] + 1>> \in AllRows
      BY <1>1, RowsOneByOne
    <2>2. written' \in [Calls -> Nat]
      BY <1>1 DEF TypeOK
    <2> QED
      BY <1>1, <2>1, <2>2 DEF TypeOK
  <1>4. LockHeld'
    BY <1>1 DEF LockHeld
  <1>5. WritingIsOpen'
    <2> SUFFICES ASSUME NEW d \in Calls
                 PROVE  /\ (written')[d] \in 0 .. Size[d]
                        /\ (pc')[d] \in {"idle", "wait"} => (written')[d] = 0
                        /\ \A k \in 1 .. Size[d] :
                             /\ (pc')[d] = "write" => (<<d, k>> \in open') = (k <= (written')[d])
                             /\ (pc')[d] \in {"idle", "wait", "write"} => <<d, k>> \notin db'
      BY DEF WritingIsOpen
    <2>1. CASE d = c
      BY <1>1, <1>2, <2>1 DEF WritingIsOpen, TypeOK
    <2>2. CASE d # c
      BY <1>1, <1>2, <2>2 DEF WritingIsOpen, TypeOK
    <2> QED
      BY <2>1, <2>2
  <1>6. CommittedIsKept'
    BY <1>1 DEF CommittedIsKept
  <1>7. OpenRows'
    BY <1>1, <1>2 DEF OpenRows
  <1>8. AllOrNothing'
    BY <1>1 DEF AllOrNothing
  <1> QED
    BY <1>3, <1>4, <1>5, <1>6, <1>7, <1>8

\* The commit takes all rows of the call, no row of another method, and what
\* sections that raised had left.
LEMMA CommitIInv ==
  ASSUME IInv, NEW c \in Calls, Commit(c)
  PROVE  IInv'
  <1> USE DEF IInv
  <1>1. /\ pc[c] = "write" /\ c \in inside /\ written[c] = Size[c]
        /\ pc' = [pc EXCEPT ![c] = "committed"]
        /\ db' = db \cup open /\ open' = {}
        /\ UNCHANGED <<inside, written, conn, faults>>
    BY DEF Commit, WrittenAll, Goto
  <1>2. \A k \in 1 .. Size[c] : <<c, k>> \in open
    BY <1>1, SharedConnectionAssumption DEF WritingIsOpen
  <1>3. \A d \in Calls : d # c => pc[d] \notin {"write", "committed"}
    BY <1>1 DEF LockHeld
  <1>4. TypeOK'
    BY <1>1 DEF TypeOK
  <1>5. LockHeld'
    BY <1>1 DEF LockHeld, TypeOK
  <1>6. WritingIsOpen'
    BY <1>1, <1>3 DEF WritingIsOpen, OpenRows, TypeOK
  <1>7. CommittedIsKept'
    BY <1>1, <1>2 DEF CommittedIsKept, TypeOK
  <1>8. OpenRows'
    BY <1>1 DEF OpenRows
  <1>9. AllOrNothing'
    <2> SUFFICES ASSUME NEW d \in Methods, NEW j \in 1 .. Size[d], NEW k \in 1 .. Size[d],
                        <<d, j>> \in db'
                 PROVE  <<d, k>> \in db'
      BY DEF AllOrNothing
    <2>0. d \in Calls
      BY SharedConnectionAssumption
    <2>1. CASE d = c
      BY <1>1, <1>2, <2>1
    <2>2. CASE d # c
      BY <1>1, <1>3, <2>0, <2>2 DEF OpenRows, AllOrNothing
    <2> QED
      BY <2>1, <2>2
  <1> QED
    BY <1>4, <1>5, <1>6, <1>7, <1>8, <1>9

\* After an error a method has no row in the transaction any more.
LEMMA RaiseIInv ==
  ASSUME IInv, NEW c \in Calls, Raise(c)
  PROVE  IInv'
  <1> USE DEF IInv
  <1>1. /\ pc[c] \in {"write", "committed"} /\ c \in inside
        /\ pc' = [pc EXCEPT ![c] = "raised"]
        /\ inside' = inside \ {c}
        /\ db' = db /\ written' = written /\ conn' = conn
        /\ open' \subseteq open
        /\ c \in Methods => open' = {}
        /\ faults' \in 0 .. MaxFaults
    BY SharedConnectionAssumption
    DEF Raise, Goto, OpenAfterError, Fault, TypeOK
  <1>2. \A d \in Calls : d # c => pc[d] \notin {"write", "committed"}
    BY <1>1 DEF LockHeld
  <1>3. pc[c] = "committed" => \A k \in 1 .. Size[c] : <<c, k>> \notin open
    BY <1>1 DEF OpenRows
  <1>4. TypeOK'
    BY <1>1 DEF TypeOK
  <1>5. LockHeld'
    BY <1>1 DEF LockHeld, TypeOK
  <1>6. WritingIsOpen'
    BY <1>1, <1>2 DEF WritingIsOpen, TypeOK
  <1>7. CommittedIsKept'
    BY <1>1 DEF CommittedIsKept, TypeOK
  <1>8. OpenRows'
    BY <1>1 DEF OpenRows, TypeOK
  <1>9. AllOrNothing'
    BY <1>1 DEF AllOrNothing
  <1> QED
    BY <1>4, <1>5, <1>6, <1>7, <1>8, <1>9

\* Closing the connection and the death of the process drop the transaction.
LEMMA StopIInv ==
  ASSUME IInv, Close \/ Crash
  PROVE  IInv'
  <1> USE DEF IInv
  <1>1. CASE Close
    <2>1. /\ inside = {} /\ open' = {} /\ conn' = "closed"
          /\ UNCHANGED <<inside, pc, written, db, faults>>
      BY <1>1 DEF Close
    <2>2. \A c \in Calls : pc[c] \notin {"write", "committed"}
      BY <2>1 DEF LockHeld
    <2> QED
      BY <2>1, <2>2 DEF TypeOK, LockHeld, WritingIsOpen, CommittedIsKept, OpenRows, AllOrNothing
  <1>2. CASE Crash
    <2>1. /\ inside' = {} /\ open' = {} /\ UNCHANGED <<written, db, conn>>
          /\ \A c \in Calls : (pc')[c] = IF pc[c] \in {"idle", "ok", "raised"} THEN pc[c] ELSE "dead"
          /\ faults' \in 0 .. MaxFaults
      BY <1>2, SharedConnectionAssumption DEF Crash, Fault, TypeOK
    <2>2. TypeOK'
      BY <1>2, <2>1 DEF TypeOK, Crash
    <2> QED
      BY <2>1, <2>2 DEF TypeOK, LockHeld, WritingIsOpen, CommittedIsKept, OpenRows, AllOrNothing
  <1> QED
    BY <1>1, <1>2

\* Every step preserves the inductive invariant.
LEMMA NextIInv == IInv /\ [Next]_vars => IInv'
  <1> SUFFICES ASSUME IInv, [Next]_vars PROVE IInv'
    OBVIOUS
  <1>1. CASE UNCHANGED vars
    BY <1>1 DEF vars, IInv, TypeOK, LockHeld, WritingIsOpen, CommittedIsKept, OpenRows, AllOrNothing
  <1>2. ASSUME NEW c \in Calls, Call(c) \/ Step(c) PROVE IInv'
    BY <1>2, EnterLeaveIInv, ExecuteIInv, CommitIInv, RaiseIInv DEF Step
  <1>3. CASE Close \/ Crash
    BY <1>3, StopIInv
  <1> QED
    BY <1>1, <1>2, <1>3 DEF Next

\* The inductive invariant holds in every reachable state.
THEOREM Invariant == Spec => []IInv
  <1>1. IInv /\ [Next]_vars => IInv'
    BY NextIInv
  <1> QED
    BY <1>1, InitIInv, PTL DEF Spec

\* The variables keep their types.
THEOREM TypeCorrect == Spec => []TypeOK
  <1>1. IInv => TypeOK
    BY DEF IInv
  <1> QED
    BY <1>1, Invariant, PTL

\* A method of SQLiteStore is a transaction: all of its rows or none, and
\* nothing left behind when it raises (_synchronized).
THEOREM Atomicity == Spec => []MethodsAreAtomic
  <1>1. IInv => MethodsAreAtomic
    <2> SUFFICES ASSUME IInv, NEW c \in Methods
                 PROVE  /\ Rows(c) \subseteq db \/ Rows(c) \cap db = {}
                        /\ pc[c] = "raised" => Rows(c) \cap open = {}
      BY DEF MethodsAreAtomic
    <2>0. c \in Calls
      BY SharedConnectionAssumption
    <2>1. Rows(c) \subseteq db \/ Rows(c) \cap db = {}
      BY <2>0, RowsOneByOne DEF IInv, AllOrNothing
    <2>2. pc[c] = "raised" => Rows(c) \cap open = {}
      BY <2>0, RowsOneByOne DEF IInv, OpenRows
    <2> QED
      BY <2>1, <2>2
  <1> QED
    BY <1>1, Invariant, PTL

\* No call that returned has lost a row to another thread's rollback.
THEOREM NothingIsLost == Spec => []ReturnedIsCommitted
  <1>1. IInv => ReturnedIsCommitted
    BY RowsOneByOne DEF IInv, CommittedIsKept, ReturnedIsCommitted
  <1> QED
    BY <1>1, Invariant, PTL

\* While the lock is free only sections that raised have rows in the open
\* transaction.
THEOREM CleanWhenFree == Spec => []NothingElseLeftOpen
  <1>1. IInv => NothingElseLeftOpen
    <2> SUFFICES ASSUME IInv, inside = {}, NEW c \in Calls, Rows(c) \cap open # {}
                 PROVE  pc[c] = "raised" /\ c \notin Methods
      BY DEF NothingElseLeftOpen
    <2>1. pc[c] # "write"
      BY DEF IInv, LockHeld
    <2> QED
      BY <2>1, RowsOneByOne DEF IInv, OpenRows
  <1> QED
    BY <1>1, Invariant, PTL
-----------------------------------------------------------------------------
\* A commit takes the rows of its call into the database, and what sections
\* have left.
LEMMA CommitRefines ==
  ASSUME IInv, NEW c \in Calls, Commit(c)
  PROVE  Transactions!Apply(c)
  <1> DEFINE left == open \ Rows(c)
  <1>1. /\ pc[c] = "write" /\ c \in inside /\ written[c] = Size[c]
        /\ db' = db \cup open
        /\ pc \in [Calls -> {"idle", "wait", "write", "committed", "ok", "raised", "dead"}]
        /\ pc' = [pc EXCEPT ![c] = "committed"]
    BY DEF Commit, WrittenAll, Goto, IInv, TypeOK
  <1>2. Size[c] \in Nat
    BY SharedConnectionAssumption
  <1>3. \A k \in 1 .. Size[c] : <<c, k>> \in open /\ <<c, k>> \notin db
    BY <1>1, <1>2 DEF IInv, WritingIsOpen
  <1>4. Rows(c) \subseteq open /\ Rows(c) \cap db = {}
    BY <1>3, RowsOneByOne
  <1>5. ASSUME NEW r \in left
        PROVE  \E d \in Calls \ Methods : pc[d] = "raised" /\ r \in Rows(d)
    <2>1. PICK d \in Calls : r \in Rows(d)
      BY DEF IInv, TypeOK, AllRows
    <2>2. PICK k \in 1 .. Size[d] : r = <<d, k>>
      BY <2>1 DEF Rows
    <2>3. d # c
      BY <2>1
    <2>4. pc[d] # "write"
      BY <1>1, <2>3 DEF IInv, LockHeld
    <2>5. pc[d] = "raised" /\ d \notin Methods
      BY <2>2, <2>4 DEF IInv, OpenRows
    <2> QED
      BY <2>1, <2>5
  <1>6. \A d \in Calls : ReplyOf(d)' = ReplyOf(d) /\ (pc[d] = "raised" => ReplyOf(d) = "raised")
    BY <1>1 DEF ReplyOf
  <1>7. left \in SUBSET Transactions!Leftover
    BY <1>5, <1>6 DEF Transactions!Leftover, Transactions!Rows, Rows
  <1>8. db' = db \cup Rows(c) \cup left
    BY <1>1, <1>4
  <1>9. ReplyOf(c) = "none"
    BY <1>1 DEF ReplyOf
  <1> HIDE DEF left
  <1> QED
    BY <1>4, <1>6, <1>7, <1>8, <1>9 DEF Transactions!Apply, Transactions!Rows, Rows

\* Returning and raising tell the call so.
LEMMA AnswerRefines ==
  ASSUME IInv, NEW c \in Calls, Return(c) \/ Raise(c)
  PROVE  Transactions!Reply(c, "ok") \/ Transactions!Reply(c, "raised")
  <1>1. /\ pc \in [Calls -> {"idle", "wait", "write", "committed", "ok", "raised", "dead"}]
        /\ pc[c] \in {"write", "committed"} /\ db' = db
    BY DEF Return, Raise, IInv, TypeOK
  <1>2. ReplyOf(c) = "none"
    BY <1>1 DEF ReplyOf
  <1>3. CASE Return(c)
    <2>1. pc' = [pc EXCEPT ![c] = "ok"] /\ pc[c] = "committed"
      BY <1>3 DEF Return, Goto
    <2>2. [d \in Calls |-> ReplyOf(d)]' = [[d \in Calls |-> ReplyOf(d)] EXCEPT ![c] = "ok"]
      BY <1>1, <2>1 DEF ReplyOf
    <2>3. Rows(c) \subseteq db
      BY <2>1, RowsOneByOne DEF IInv, CommittedIsKept
    <2> QED
      BY <1>1, <1>2, <2>2, <2>3 DEF Transactions!Reply, Transactions!Rows, Rows
  <1>4. CASE Raise(c)
    <2>1. pc' = [pc EXCEPT ![c] = "raised"]
      BY <1>4 DEF Raise, Goto
    <2>2. [d \in Calls |-> ReplyOf(d)]' = [[d \in Calls |-> ReplyOf(d)] EXCEPT ![c] = "raised"]
      BY <1>1, <2>1 DEF ReplyOf
    <2> QED
      BY <1>1, <1>2, <2>2 DEF Transactions!Reply
  <1> QED
    BY <1>3, <1>4

\* Every other step is invisible to the callers.
LEMMA OthersStutter ==
  ASSUME IInv,
         \/ \E c \in Calls : Call(c) \/ Acquire(c) \/ Execute(c)
         \/ Close \/ Crash \/ UNCHANGED vars
  PROVE  UNCHANGED Transactions!vars
  <1>1. db' = db
    BY DEF Call, Acquire, Execute, Close, Crash, vars
  <1>2. \A d \in Calls : ReplyOf(d)' = ReplyOf(d)
    BY DEF Call, Acquire, Execute, Close, Crash, vars, Goto, ReplyOf, IInv, TypeOK
  <1> QED
    BY <1>1, <1>2 DEF Transactions!vars

\* The connection implements the serial transactions: each step of a thread is
\* one of theirs or none.
THEOREM ConnectionImplementsTransactions == Spec => ImplementsTransactions
  <1>1. Init => Transactions!Init
    BY DEF Init, Transactions!Init, ReplyOf
  <1>2. IInv /\ [Next]_vars => [Transactions!Next]_(Transactions!vars)
    BY CommitRefines, AnswerRefines, OthersStutter DEF Next, Step, Transactions!Next
  <1> QED
    BY <1>1, <1>2, Invariant, PTL DEF Spec, ImplementsTransactions, Transactions!Spec
=============================================================================
