--------------------------- MODULE ResponseProofs ---------------------------
(***************************************************************************)
(* Proofs about what follows a detection, for any receipts, detections,    *)
(* events, failures and crashes: the audit trail comes first and a receipt *)
(* has one effect, so that receipt handling implements AuditTrail, and     *)
(* nothing of it is left undone without a failure; one failure loses no    *)
(* case of TheHive; every edge of the threat graph has its ends, a         *)
(* backfill repairs what it has read, and the loader draws every event     *)
(* that is of no case.                                                     *)
(***************************************************************************)
EXTENDS Receipts, TheHive, ThreatGraph, FiniteSetTheorems, SequenceTheorems, TLAPS

-----------------------------------------------------------------------------
\* Receipts.

\* A receipt that is being acted on is stored and not yet notified.
CarriedIsStored ==
  \A h \in Handlers, r \in Receipts :
    Carries(h, r) => r \in receipts /\ notifications[r] = 0

ReceiptInv == /\ TypeOK
        /\ CarriedIsStored
        /\ AuditFirst
        /\ HandledOnce

\* NewStatus is one of the statuses a case can have.
LEMMA NewStatusType ==
  ASSUME NEW r \in Receipts
  PROVE  NewStatus(r) \in CaseStatus /\ NewStatus(r) # "open"
  <1>1. TaxonomyOf[r] \in Taxonomy
    BY ReceiptsAssumption
  <1> QED
    BY <1>1 DEF NewStatus, CASE_STATE_MAP, CaseStatus, Taxonomy

\* An idle handler carries nothing.
LEMMA CarriesNothing ==
  ASSUME NEW h \in Handlers, NEW r \in Receipts, handler[h] = Idle
  PROVE  ~ Carries(h, r)
  BY DEF Carries, At, Idle

-----------------------------------------------------------------------------
LEMMA InitReceiptInv == Init => ReceiptInv
  <1> SUFFICES ASSUME Init PROVE ReceiptInv
    OBVIOUS
  <1>1. TypeOK
    BY ReceiptsAssumption DEF Init, TypeOK, CaseStatus
  <1>2. \A h \in Handlers, r \in Receipts : ~ Carries(h, r)
    BY CarriesNothing DEF Init
  <1>3. CarriedIsStored
    BY <1>2 DEF CarriedIsStored
  <1>4. AuditFirst
    BY DEF Init, AuditFirst
  <1>5. \A r \in Receipts : notifications[r] = 0
    BY DEF Init
  <1>6. HandledOnce
    <2> SUFFICES ASSUME NEW r \in Receipts
                 PROVE  /\ notifications[r] <= 1
                        /\ \A g, h \in Handlers : Carries(g, r) /\ Carries(h, r) => g = h
      BY DEF HandledOnce
    <2> QED
      BY <1>2, <1>5
  <1> QED
    BY <1>1, <1>3, <1>4, <1>6 DEF ReceiptInv

\* A step that changes handlers only, and creates no new carrier, keeps all
\* that is said of carriers.
LEMMA FewerCarriers ==
  ASSUME ReceiptInv, TypeOK',
         receipts' = receipts, notifications' = notifications,
         case_status' = case_status,
         \A h \in Handlers, r \in Receipts : Carries(h, r)' => Carries(h, r)
  PROVE  ReceiptInv'
  <1>1. CarriedIsStored'
    BY DEF ReceiptInv, CarriedIsStored
  <1>2. AuditFirst'
    BY DEF ReceiptInv, AuditFirst
  <1>3. HandledOnce'
    BY DEF ReceiptInv, HandledOnce
  <1> QED
    BY <1>1, <1>2, <1>3 DEF ReceiptInv

LEMMA DeliverReceiptInv ==
  ASSUME ReceiptInv, NEW h \in Handlers, NEW r \in Receipts, Deliver(h, r)
  PROVE  ReceiptInv'
  <1>1. /\ handler' = [handler EXCEPT ![h] = [pc |-> "store", rec |-> r]]
        /\ receipts' = receipts
        /\ case_status' = case_status
        /\ notifications' = notifications
        /\ faults' = faults
    BY DEF Deliver, Goto
  <1>2. TypeOK'
    BY <1>1 DEF ReceiptInv, TypeOK
  <1>3. \A g \in Handlers, s \in Receipts : Carries(g, s)' => Carries(g, s)
    BY <1>1 DEF Carries, At, ReceiptInv, TypeOK
  <1> QED
    BY <1>1, <1>2, <1>3, FewerCarriers

LEMMA StoreReceiptReceiptInv ==
  ASSUME ReceiptInv, NEW h \in Handlers, NEW r \in Receipts, StoreReceipt(h, r)
  PROVE  ReceiptInv'
  <1>1. CASE AlreadyStored(r)
    <2>1. /\ handler' = [handler EXCEPT ![h] = Idle]
          /\ receipts' = receipts
          /\ case_status' = case_status
          /\ notifications' = notifications
          /\ faults' = faults
      BY <1>1 DEF StoreReceipt, Finish
    <2>2. TypeOK'
      BY <2>1 DEF ReceiptInv, TypeOK
    <2>3. \A g \in Handlers, s \in Receipts : Carries(g, s)' => Carries(g, s)
      BY <2>1 DEF Carries, At, ReceiptInv, TypeOK, Idle
    <2> QED
      BY <2>1, <2>2, <2>3, FewerCarriers
  <1>2. CASE ~ AlreadyStored(r)
    <2>1. /\ handler' = [handler EXCEPT ![h] = [pc |-> "case", rec |-> r]]
          /\ receipts' = receipts \cup {r}
          /\ case_status' = case_status
          /\ notifications' = notifications
          /\ faults' = faults
          /\ r \notin receipts
      BY <1>2 DEF StoreReceipt, Goto, AlreadyStored
    <2>2. TypeOK'
      BY <2>1 DEF ReceiptInv, TypeOK
    <2>3. \A g \in Handlers : ~ Carries(g, r)
      BY <2>1 DEF ReceiptInv, CarriedIsStored
    <2>4. notifications[r] = 0
      BY <2>1 DEF ReceiptInv, AuditFirst, TypeOK
    <2>5. \A g \in Handlers, s \in Receipts :
            Carries(g, s)' => Carries(g, s) \/ (g = h /\ s = r)
      BY <2>1 DEF Carries, At, ReceiptInv, TypeOK
    <2>6. CarriedIsStored'
      BY <2>1, <2>4, <2>5 DEF ReceiptInv, CarriedIsStored
    <2>7. AuditFirst'
      BY <2>1 DEF ReceiptInv, AuditFirst
    <2>8. HandledOnce'
      BY <2>1, <2>3, <2>5 DEF ReceiptInv, HandledOnce
    <2> QED
      BY <2>2, <2>6, <2>7, <2>8 DEF ReceiptInv
  <1> QED
    BY <1>1, <1>2

LEMMA StoreFailsReceiptInv ==
  ASSUME ReceiptInv, NEW h \in Handlers, NEW r \in Receipts, StoreFails(h, r)
  PROVE  ReceiptInv'
  <1>1. /\ handler' = [handler EXCEPT ![h] = Idle]
        /\ receipts' = receipts
        /\ case_status' = case_status
        /\ notifications' = notifications
        /\ faults < MaxFaults /\ faults' = faults + 1
    BY DEF StoreFails, AfterStoreError, Finish, Fault
  <1>2. TypeOK'
    BY <1>1, ReceiptsAssumption DEF ReceiptInv, TypeOK
  <1>3. \A g \in Handlers, s \in Receipts : Carries(g, s)' => Carries(g, s)
    BY <1>1 DEF Carries, At, ReceiptInv, TypeOK, Idle
  <1> QED
    BY <1>1, <1>2, <1>3, FewerCarriers

LEMMA PropagateReceiptInv ==
  ASSUME ReceiptInv, NEW h \in Handlers, NEW r \in Receipts, PropagateCaseState(h, r)
  PROVE  ReceiptInv'
  <1>1. /\ At(h, "case", r)
        /\ handler' = [handler EXCEPT ![h] = [pc |-> "notify", rec |-> r]]
        /\ receipts' = receipts
        /\ notifications' = notifications
    BY DEF PropagateCaseState, Goto
  <1>2. \/ case_status' = [case_status EXCEPT ![CaseOf[r]] = NewStatus(r)] /\ faults' = faults
        \/ case_status' = case_status /\ faults < MaxFaults /\ faults' = faults + 1
    BY DEF PropagateCaseState, Fault
  <1>3. CaseOf[r] \in Cases /\ NewStatus(r) \in CaseStatus
    BY NewStatusType, ReceiptsAssumption
  <1>4. TypeOK'
    <2>1. case_status' \in [Cases -> CaseStatus]
      BY <1>2, <1>3 DEF ReceiptInv, TypeOK
    <2>2. faults' \in 0 .. MaxFaults
      BY <1>2, ReceiptsAssumption DEF ReceiptInv, TypeOK
    <2> QED
      BY <1>1, <2>1, <2>2 DEF ReceiptInv, TypeOK
  <1>5. \A g \in Handlers, s \in Receipts : Carries(g, s)' => Carries(g, s)
    BY <1>1 DEF Carries, At, ReceiptInv, TypeOK
  <1>6. Carries(h, r) /\ r \in receipts
    BY <1>1 DEF Carries, ReceiptInv, CarriedIsStored
  <1>7. CarriedIsStored'
    BY <1>1, <1>5 DEF ReceiptInv, CarriedIsStored
  <1>8. HandledOnce'
    BY <1>1, <1>5 DEF ReceiptInv, HandledOnce
  <1>9. AuditFirst'
    <2>1. \A s \in Receipts : notifications'[s] > 0 => s \in receipts'
      BY <1>1 DEF ReceiptInv, AuditFirst
    <2>2. ASSUME NEW k \in Cases, case_status'[k] # "open"
          PROVE  \E s \in receipts' : CaseOf[s] = k /\ NewStatus(s) = case_status'[k]
      <3>1. CASE case_status'[k] = case_status[k]
        BY <2>2, <3>1, <1>1 DEF ReceiptInv, AuditFirst
      <3>2. CASE case_status'[k] # case_status[k]
        <4>1. k = CaseOf[r] /\ case_status'[k] = NewStatus(r)
          BY <3>2, <1>2, <1>3 DEF ReceiptInv, TypeOK
        <4> QED
          BY <4>1, <1>1, <1>6
      <3> QED
        BY <3>1, <3>2
    <2> QED
      BY <2>1, <2>2 DEF AuditFirst, NewStatus
  <1> QED
    BY <1>4, <1>7, <1>8, <1>9 DEF ReceiptInv

LEMMA EmitReceiptInv ==
  ASSUME ReceiptInv, NEW h \in Handlers, NEW r \in Receipts, EmitNotification(h, r)
  PROVE  ReceiptInv'
  <1>1. /\ At(h, "notify", r)
        /\ handler' = [handler EXCEPT ![h] = Idle]
        /\ receipts' = receipts
        /\ case_status' = case_status
    BY DEF EmitNotification, Finish
  <1>2. \/ /\ notifications' = [notifications EXCEPT ![r] = @ + (IF Triggers(r) THEN 1 ELSE 0)]
           /\ faults' = faults
        \/ /\ notifications' = notifications
           /\ faults < MaxFaults /\ faults' = faults + 1
    BY DEF EmitNotification, Fault
  <1>3. Carries(h, r) /\ r \in receipts /\ notifications[r] = 0
    BY <1>1 DEF Carries, ReceiptInv, CarriedIsStored
  <1>4. /\ notifications' \in [Receipts -> Nat]
        /\ \A s \in Receipts : s # r => notifications'[s] = notifications[s]
        /\ notifications'[r] \in {0, 1}
    BY <1>2, <1>3 DEF ReceiptInv, TypeOK
  <1>5. TypeOK'
    <2>1. faults' \in 0 .. MaxFaults
      BY <1>2, ReceiptsAssumption DEF ReceiptInv, TypeOK
    <2> QED
      BY <1>1, <1>4, <2>1 DEF ReceiptInv, TypeOK
  <1>6. \A g \in Handlers, s \in Receipts : Carries(g, s)' => Carries(g, s) /\ g # h
    BY <1>1 DEF Carries, At, ReceiptInv, TypeOK, Idle
  <1>7. \A g \in Handlers : g # h => ~ Carries(g, r)
    BY <1>3 DEF ReceiptInv, HandledOnce
  <1>8. CarriedIsStored'
    BY <1>1, <1>4, <1>6, <1>7 DEF ReceiptInv, CarriedIsStored
  <1>9. AuditFirst'
    BY <1>1, <1>3, <1>4 DEF ReceiptInv, AuditFirst
  <1>10. HandledOnce'
    BY <1>1, <1>4, <1>6 DEF ReceiptInv, HandledOnce
  <1> QED
    BY <1>5, <1>8, <1>9, <1>10 DEF ReceiptInv

LEMMA CrashReceiptInv ==
  ASSUME ReceiptInv, Crash
  PROVE  ReceiptInv'
  <1>1. /\ handler' = [h \in Handlers |-> Idle]
        /\ receipts' = receipts
        /\ case_status' = case_status
        /\ notifications' = notifications
        /\ faults < MaxFaults /\ faults' = faults + 1
    BY DEF Crash, Fault
  <1>2. TypeOK'
    BY <1>1, ReceiptsAssumption DEF ReceiptInv, TypeOK
  <1>3. \A g \in Handlers, s \in Receipts : ~ Carries(g, s)'
    BY <1>1 DEF Carries, At, Idle
  <1> QED
    BY <1>1, <1>2, <1>3, FewerCarriers

LEMMA NextReceiptInv == ReceiptInv /\ [Next]_vars => ReceiptInv'
  <1> SUFFICES ASSUME ReceiptInv, [Next]_vars PROVE ReceiptInv'
    OBVIOUS
  <1>1. CASE \E h \in Handlers, r \in Receipts : Deliver(h, r) \/ Handle(h, r)
    BY <1>1, DeliverReceiptInv, StoreReceiptReceiptInv, StoreFailsReceiptInv, PropagateReceiptInv, EmitReceiptInv DEF Handle
  <1>2. CASE Crash
    BY <1>2, CrashReceiptInv
  <1>3. CASE UNCHANGED vars
    <2>1. /\ handler' = handler
          /\ receipts' = receipts
          /\ case_status' = case_status
          /\ notifications' = notifications
          /\ faults' = faults
      BY <1>3 DEF vars
    <2>2. TypeOK'
      BY <2>1 DEF ReceiptInv, TypeOK
    <2>3. \A g \in Handlers, s \in Receipts : Carries(g, s)' => Carries(g, s)
      BY <2>1 DEF Carries, At
    <2> QED
      BY <2>1, <2>2, <2>3, FewerCarriers
  <1> QED
    BY <1>1, <1>2, <1>3 DEF Next

LEMMA InvariantHolds == Spec => []ReceiptInv
  BY InitReceiptInv, NextReceiptInv, PTL DEF Spec

-----------------------------------------------------------------------------
\* Every state is well typed, for any receipts, cases and handlers.
THEOREM TypeCorrect == Spec => []TypeOK
  <1>1. ReceiptInv => TypeOK
    BY DEF ReceiptInv
  <1> QED
    BY <1>1, InvariantHolds, PTL

\* No case moves and nobody is notified without a receipt in the audit trail.
THEOREM AuditComesFirst == Spec => []AuditFirst
  <1>1. ReceiptInv => AuditFirst
    BY DEF ReceiptInv
  <1> QED
    BY <1>1, InvariantHolds, PTL

\* A receipt delivered any number of times, by any number of handlers, with
\* any failures and crashes, has at most one effect.
THEOREM OneEffect == Spec => []HandledOnce
  <1>1. ReceiptInv => HandledOnce
    BY DEF ReceiptInv
  <1> QED
    BY <1>1, InvariantHolds, PTL

-----------------------------------------------------------------------------
\* Receipts implements AuditTrail.

\* A receipt whose carriers stay as they are keeps its phase.
LEMMA SamePhase ==
  ASSUME NEW s \in Receipts,
         s \in receipts' <=> s \in receipts,
         \A g \in Handlers : At(g, "case", s)' <=> At(g, "case", s),
         \A g \in Handlers : At(g, "notify", s)' <=> At(g, "notify", s)
  PROVE  PhaseOf(s)' = PhaseOf(s)
  BY DEF PhaseOf

\* A receipt that nobody carries is new or done.
LEMMA UncarriedPhase ==
  ASSUME NEW r \in Receipts, \A g \in Handlers : ~ Carries(g, r)
  PROVE  PhaseOf(r) = IF r \in receipts THEN "done" ELSE "new"
  BY DEF PhaseOf, Carries

\* A step that moves one receipt on is a step of AuditTrail's phase.
LEMMA OneAdvances ==
  ASSUME NEW r \in Receipts, NEW from, NEW to, PhaseOf(r) = from, PhaseOf(r)' = to,
         \A s \in Receipts \ {r} : PhaseOf(s)' = PhaseOf(s)
  PROVE  Trail!Advance(r, from, to)
  <1>1. [s \in Receipts |-> PhaseOf(s)]' = [[s \in Receipts |-> PhaseOf(s)] EXCEPT ![r] = to]
    OBVIOUS
  <1> QED
    BY <1>1 DEF Trail!Advance

\* A handler that moves between receipts that are not carried changes no phase.
LEMMA NobodyAdvances ==
  ASSUME receipts' = receipts, case_status' = case_status, notifications' = notifications,
         \A g \in Handlers, s \in Receipts : At(g, "case", s)' <=> At(g, "case", s),
         \A g \in Handlers, s \in Receipts : At(g, "notify", s)' <=> At(g, "notify", s)
  PROVE  UNCHANGED Trail!vars
  <1>1. \A s \in Receipts : PhaseOf(s)' = PhaseOf(s)
    BY SamePhase
  <1>2. [s \in Receipts |-> PhaseOf(s)]' = [s \in Receipts |-> PhaseOf(s)]
    BY <1>1
  <1> QED
    BY <1>2 DEF Trail!vars

\* The handlers after one of them has moved.
LEMMA OneHandlerMoves ==
  ASSUME TypeOK, NEW h \in Handlers, NEW x, handler' = [handler EXCEPT ![h] = x]
  PROVE  /\ handler'[h] = x
         /\ \A g \in Handlers : g # h => handler'[g] = handler[g]
  BY DEF TypeOK

LEMMA DeliverStutters ==
  ASSUME ReceiptInv, NEW h \in Handlers, NEW r \in Receipts, Deliver(h, r)
  PROVE  UNCHANGED Trail!vars
  <1>1. /\ handler[h] = Idle
        /\ handler' = [handler EXCEPT ![h] = [pc |-> "store", rec |-> r]]
        /\ receipts' = receipts
        /\ case_status' = case_status
        /\ notifications' = notifications
    BY DEF Deliver, Goto
  <1>2. /\ handler'[h] = [pc |-> "store", rec |-> r]
        /\ \A g \in Handlers : g # h => handler'[g] = handler[g]
    BY <1>1, OneHandlerMoves DEF ReceiptInv
  <1>3. \A g \in Handlers, s \in Receipts : At(g, "case", s)' <=> At(g, "case", s)
    BY <1>1, <1>2 DEF At, Idle
  <1>4. \A g \in Handlers, s \in Receipts : At(g, "notify", s)' <=> At(g, "notify", s)
    BY <1>1, <1>2 DEF At, Idle
  <1> QED
    BY <1>1, <1>3, <1>4, NobodyAdvances

\* A request that ends before it has stored anything changes no phase.
LEMMA RefusedStutters ==
  ASSUME ReceiptInv, NEW h \in Handlers, NEW r \in Receipts, At(h, "store", r), Finish(h),
         UNCHANGED <<receipts, case_status, notifications>>
  PROVE  UNCHANGED Trail!vars
  <1>1. /\ handler'[h] = Idle
        /\ \A g \in Handlers : g # h => handler'[g] = handler[g]
    BY OneHandlerMoves DEF ReceiptInv, Finish
  <1>2. \A g \in Handlers, s \in Receipts : At(g, "case", s)' <=> At(g, "case", s)
    BY <1>1 DEF At, Idle
  <1>3. \A g \in Handlers, s \in Receipts : At(g, "notify", s)' <=> At(g, "notify", s)
    BY <1>1 DEF At, Idle
  <1> QED
    BY <1>2, <1>3, NobodyAdvances

LEMMA StoreReceiptRefines ==
  ASSUME ReceiptInv, NEW h \in Handlers, NEW r \in Receipts, StoreReceipt(h, r)
  PROVE  Trail!Record(r) \/ UNCHANGED Trail!vars
  <1>1. CASE AlreadyStored(r)
    BY <1>1, RefusedStutters DEF StoreReceipt
  <1>2. CASE ~ AlreadyStored(r)
    <2>1. /\ At(h, "store", r)
          /\ handler' = [handler EXCEPT ![h] = [pc |-> "case", rec |-> r]]
          /\ receipts' = receipts \cup {r}
          /\ UNCHANGED <<case_status, notifications>>
          /\ r \notin receipts
      BY <1>2 DEF StoreReceipt, Goto, AlreadyStored
    <2>2. /\ handler'[h] = [pc |-> "case", rec |-> r]
          /\ \A g \in Handlers : g # h => handler'[g] = handler[g]
      BY <2>1, OneHandlerMoves DEF ReceiptInv
    <2>3. PhaseOf(r) = "new"
      BY <2>1 DEF PhaseOf
    <2>4. PhaseOf(r)' = "case"
      BY <2>1, <2>2 DEF PhaseOf, At
    <2>5. ASSUME NEW s \in Receipts \ {r}
          PROVE  PhaseOf(s)' = PhaseOf(s)
      <3>1. \A g \in Handlers : At(g, "case", s)' <=> At(g, "case", s)
        BY <2>1, <2>2 DEF At
      <3>2. \A g \in Handlers : At(g, "notify", s)' <=> At(g, "notify", s)
        BY <2>1, <2>2 DEF At
      <3> QED
        BY <2>1, <3>1, <3>2, SamePhase
    <2>6. Trail!Advance(r, "new", "case")
      BY <2>3, <2>4, <2>5, OneAdvances
    <2> QED
      BY <2>1, <2>6 DEF Trail!Record
  <1> QED
    BY <1>1, <1>2

\* The one handler that carries a receipt decides its phase.
LEMMA CarriedPhase ==
  ASSUME ReceiptInv, NEW h \in Handlers, NEW r \in Receipts, NEW p \in {"case", "notify"},
         At(h, p, r)
  PROVE  /\ PhaseOf(r) = p
         /\ r \in receipts
         /\ \A g \in Handlers : g # h => ~ Carries(g, r)
  <1>1. Carries(h, r)
    BY DEF Carries
  <1>2. r \in receipts
    BY <1>1 DEF ReceiptInv, CarriedIsStored
  <1>3. \A g \in Handlers : g # h => ~ Carries(g, r)
    BY <1>1 DEF ReceiptInv, HandledOnce
  <1>4. ASSUME p = "case" PROVE PhaseOf(r) = p
    <2>1. At(h, "case", r)
      BY <1>4
    <2> QED
      BY <1>2, <1>4, <2>1 DEF PhaseOf
  <1>5. ASSUME p = "notify" PROVE PhaseOf(r) = p
    <2>1. At(h, "notify", r)
      BY <1>5
    <2>2. \A g \in Handlers : ~ At(g, "case", r)
      BY <1>3, <2>1 DEF Carries, At
    <2> QED
      BY <1>2, <1>5, <2>1, <2>2 DEF PhaseOf
  <1> QED
    BY <1>2, <1>3, <1>4, <1>5

LEMMA PropagateRefines ==
  ASSUME ReceiptInv, NEW h \in Handlers, NEW r \in Receipts, PropagateCaseState(h, r)
  PROVE  Trail!Follow(r)
  <1>1. /\ At(h, "case", r)
        /\ handler' = [handler EXCEPT ![h] = [pc |-> "notify", rec |-> r]]
        /\ receipts' = receipts
        /\ notifications' = notifications
    BY DEF PropagateCaseState, Goto
  <1>2. \/ case_status' = [case_status EXCEPT ![CaseOf[r]] = NewStatus(r)]
        \/ case_status' = case_status
    BY DEF PropagateCaseState
  <1>3. /\ PhaseOf(r) = "case"
        /\ r \in receipts
        /\ \A g \in Handlers : g # h => ~ Carries(g, r)
    BY <1>1, CarriedPhase
  <1>4. /\ handler'[h] = [pc |-> "notify", rec |-> r]
        /\ \A g \in Handlers : g # h => handler'[g] = handler[g]
    BY <1>1, OneHandlerMoves DEF ReceiptInv
  <1>5. PhaseOf(r)' = "notify"
    <2>1. \A g \in Handlers : ~ At(g, "case", r)'
      BY <1>3, <1>4 DEF Carries, At
    <2>2. At(h, "notify", r)'
      BY <1>4 DEF At
    <2> QED
      BY <1>1, <1>3, <2>1, <2>2 DEF PhaseOf
  <1>6. ASSUME NEW s \in Receipts \ {r}
        PROVE  PhaseOf(s)' = PhaseOf(s)
    <2>1. \A g \in Handlers : At(g, "case", s)' <=> At(g, "case", s)
      BY <1>1, <1>4 DEF At
    <2>2. \A g \in Handlers : At(g, "notify", s)' <=> At(g, "notify", s)
      BY <1>1, <1>4 DEF At
    <2> QED
      BY <1>1, <2>1, <2>2, SamePhase
  <1>7. Trail!Advance(r, "case", "notify")
    BY <1>3, <1>5, <1>6, OneAdvances
  <1>8. [s \in Receipts |-> NewStatus(s)][r] = NewStatus(r)
    OBVIOUS
  <1> QED
    BY <1>1, <1>2, <1>7, <1>8 DEF Trail!Follow

LEMMA EmitRefines ==
  ASSUME ReceiptInv, NEW h \in Handlers, NEW r \in Receipts, EmitNotification(h, r)
  PROVE  Trail!Tell(r)
  <1>1. /\ At(h, "notify", r)
        /\ handler' = [handler EXCEPT ![h] = Idle]
        /\ receipts' = receipts
        /\ case_status' = case_status
    BY DEF EmitNotification, Finish
  <1>2. \/ r \in {s \in Receipts : Triggers(s)} /\ notifications' = [notifications EXCEPT ![r] = @ + 1]
        \/ notifications' = notifications
    <2>1. notifications \in [Receipts -> Nat]
      BY DEF ReceiptInv, TypeOK
    <2>2. CASE Triggers(r)
      BY <2>2 DEF EmitNotification
    <2>3. CASE ~ Triggers(r)
      <3>1. notifications' = [notifications EXCEPT ![r] = @ + 0]
        BY <2>3 DEF EmitNotification
      <3> QED
        BY <2>1, <3>1
    <2> QED
      BY <2>2, <2>3
  <1>3. /\ PhaseOf(r) = "notify"
        /\ r \in receipts
        /\ \A g \in Handlers : g # h => ~ Carries(g, r)
    BY <1>1, CarriedPhase
  <1>4. /\ handler'[h] = Idle
        /\ \A g \in Handlers : g # h => handler'[g] = handler[g]
    BY <1>1, OneHandlerMoves DEF ReceiptInv
  <1>5. PhaseOf(r)' = "done"
    <2>1. \A g \in Handlers : ~ At(g, "case", r)' /\ ~ At(g, "notify", r)'
      BY <1>3, <1>4 DEF Carries, At, Idle
    <2> QED
      BY <1>1, <1>3, <2>1 DEF PhaseOf
  <1>6. ASSUME NEW s \in Receipts \ {r}
        PROVE  PhaseOf(s)' = PhaseOf(s)
    <2>1. \A g \in Handlers : At(g, "case", s)' <=> At(g, "case", s)
      BY <1>1, <1>4 DEF At, Idle
    <2>2. \A g \in Handlers : At(g, "notify", s)' <=> At(g, "notify", s)
      BY <1>1, <1>4 DEF At, Idle
    <2> QED
      BY <1>1, <2>1, <2>2, SamePhase
  <1>7. Trail!Advance(r, "notify", "done")
    BY <1>3, <1>5, <1>6, OneAdvances
  <1> QED
    BY <1>1, <1>2, <1>7 DEF Trail!Tell

LEMMA CrashRefines ==
  ASSUME ReceiptInv, Crash
  PROVE  Trail!GiveUp
  <1>1. /\ handler' = [h \in Handlers |-> Idle]
        /\ receipts' = receipts
        /\ UNCHANGED <<case_status, notifications>>
    BY DEF Crash
  <1>2. ASSUME NEW s \in Receipts
        PROVE  PhaseOf(s)' = IF PhaseOf(s) \in {"case", "notify"} THEN "done" ELSE PhaseOf(s)
    <2>1. \A g \in Handlers : ~ At(g, "case", s)' /\ ~ At(g, "notify", s)'
      BY <1>1 DEF At, Idle
    <2>2. PhaseOf(s)' = IF s \in receipts THEN "done" ELSE "new"
      BY <1>1, <2>1 DEF PhaseOf
    <2> QED
      BY <2>2 DEF PhaseOf
  <1>3. [s \in Receipts |-> PhaseOf(s)]'
          = [s \in Receipts |-> IF [q \in Receipts |-> PhaseOf(q)][s] \in {"case", "notify"}
                                THEN "done" ELSE [q \in Receipts |-> PhaseOf(q)][s]]
    BY <1>2
  <1> QED
    BY <1>1, <1>3 DEF Trail!GiveUp

LEMMA NextRefines == ReceiptInv /\ [Next]_vars => [Trail!Next]_(Trail!vars)
  <1> SUFFICES ASSUME ReceiptInv, [Next]_vars PROVE [Trail!Next]_(Trail!vars)
    OBVIOUS
  <1>1. ASSUME NEW h \in Handlers, NEW r \in Receipts, Deliver(h, r) \/ Handle(h, r)
        PROVE  [Trail!Next]_(Trail!vars)
    <2>1. CASE Deliver(h, r)
      BY <2>1, DeliverStutters
    <2>2. CASE StoreReceipt(h, r)
      BY <2>2, StoreReceiptRefines DEF Trail!Next
    <2>3. CASE StoreFails(h, r)
      BY <2>3, RefusedStutters DEF StoreFails, AfterStoreError
    <2>4. CASE PropagateCaseState(h, r)
      BY <2>4, PropagateRefines DEF Trail!Next
    <2>5. CASE EmitNotification(h, r)
      BY <2>5, EmitRefines DEF Trail!Next
    <2> QED
      BY <1>1, <2>1, <2>2, <2>3, <2>4, <2>5 DEF Handle
  <1>2. CASE Crash
    BY <1>2, CrashRefines DEF Trail!Next
  <1>3. CASE UNCHANGED vars
    <2>1. /\ UNCHANGED <<receipts, case_status, notifications>>
          /\ handler' = handler
      BY <1>3 DEF vars
    <2> QED
      BY <2>1, NobodyAdvances DEF At
  <1> QED
    BY <1>1, <1>2, <1>3 DEF Next

\* Receipt handling implements AuditTrail: each receipt is recorded once, then moves
\* its case once or not at all, then is announced once or not at all, for any
\* receipts, handlers, repeated deliveries, failures and crashes.
THEOREM ReceiptsImplementTrail == Spec => ImplementsAuditTrail
  <1>1. Init => Trail!Init
    <2> SUFFICES ASSUME Init PROVE Trail!Init
      OBVIOUS
    <2>1. receipts = {}
      BY DEF Init
    <2>2. \A r \in Receipts : PhaseOf(r) = "new"
      BY <2>1 DEF PhaseOf
    <2> QED
      BY <2>2 DEF Init, Trail!Init
  <1>2. ReceiptInv /\ [Next]_vars => [Trail!Next]_(Trail!vars)
    BY NextRefines
  <1> QED
    BY <1>1, <1>2, InvariantHolds, PTL DEF Spec, ImplementsAuditTrail, Trail!Spec

-----------------------------------------------------------------------------
\* What the phases of AuditTrail say of the receipts after a step.
LEMMA PhasesAfter ==
  ASSUME NEW r \in Receipts, NEW from, NEW to, Trail!Advance(r, from, to)
  PROVE  \A s \in Receipts : PhaseOf(s)' = IF s = r THEN to ELSE PhaseOf(s)
  BY DEF Trail!Advance

LEMMA PhasesKept ==
  ASSUME UNCHANGED Trail!vars
  PROVE  /\ \A s \in Receipts : PhaseOf(s)' = PhaseOf(s)
         /\ UNCHANGED <<case_status, notifications>>
  BY DEF Trail!vars

\* Once a step has failed nothing is claimed any more.
LEMMA FaultSettles ==
  ASSUME ReceiptInv, Fault
  PROVE  SettledIsDone'
  <1>1. faults \in Nat /\ faults' = faults + 1
    BY ReceiptsAssumption DEF ReceiptInv, TypeOK, Fault
  <1>2. faults' # 0
    BY <1>1
  <1> QED
    BY <1>2 DEF SettledIsDone

LEMMA StutterSettles ==
  ASSUME SettledIsDone, UNCHANGED Trail!vars, faults' = faults
  PROVE  SettledIsDone'
  <1>1. /\ \A s \in Receipts : PhaseOf(s)' = PhaseOf(s)
        /\ case_status' = case_status /\ notifications' = notifications
    BY PhasesKept
  <1>2. \A s \in Receipts : Triggers(s)' = Triggers(s)
    BY DEF Triggers
  <1> QED
    BY <1>1, <1>2 DEF SettledIsDone

LEMMA StoreReceiptSettles ==
  ASSUME ReceiptInv, SettledIsDone,
         NEW h \in Handlers, NEW r \in Receipts, StoreReceipt(h, r)
  PROVE  SettledIsDone'
  <1>1. faults' = faults
    BY DEF StoreReceipt
  <1>2. CASE Trail!Record(r)
    <2>1. case_status' = case_status /\ notifications' = notifications
      BY <1>2 DEF Trail!Record
    <2>2. \A s \in Receipts : PhaseOf(s)' = IF s = r THEN "case" ELSE PhaseOf(s)
      BY <1>2, PhasesAfter DEF Trail!Record
    <2> QED
      BY <1>1, <2>1, <2>2 DEF SettledIsDone, Triggers
  <1>3. CASE UNCHANGED Trail!vars
    BY <1>1, <1>3, StutterSettles
  <1> QED
    BY <1>2, <1>3, StoreReceiptRefines

LEMMA PropagateSettles ==
  ASSUME ReceiptInv, SettledIsDone,
         NEW h \in Handlers, NEW r \in Receipts, PropagateCaseState(h, r)
  PROVE  SettledIsDone'
  <1>1. CASE Fault
    BY <1>1, FaultSettles
  <1>2. ASSUME case_status' = [case_status EXCEPT ![CaseOf[r]] = NewStatus(r)], faults' = faults
        PROVE  SettledIsDone'
    <2>1. \A s \in Receipts : PhaseOf(s)' = IF s = r THEN "notify" ELSE PhaseOf(s)
      BY PropagateRefines, PhasesAfter DEF Trail!Follow
    <2>2. PhaseOf(r)' # "done" /\ notifications' = notifications
      BY <2>1 DEF PropagateCaseState
    <2>3. \A k \in Cases : case_status'[k] = IF k = CaseOf[r] THEN NewStatus(r) ELSE case_status[k]
      BY <1>2 DEF ReceiptInv, TypeOK
    <2>4. \A s \in Receipts : CaseOf[s] \in Cases
      BY ReceiptsAssumption
    <2>5. NewStatus(r) # "open"
      BY NewStatusType
    <2>6. ASSUME faults = 0, NEW s \in Receipts, PhaseOf(s)' \in {"notify", "done"}
          PROVE  case_status'[CaseOf[s]] # "open"
      BY <2>1, <2>3, <2>4, <2>5, <2>6 DEF SettledIsDone
    <2>7. ASSUME faults = 0, NEW s \in Receipts, PhaseOf(s)' = "done", Triggers(s)
          PROVE  notifications'[s] = 1
      BY <2>1, <2>2, <2>7 DEF SettledIsDone
    <2> QED
      BY <1>2, <2>6, <2>7 DEF SettledIsDone, Triggers
  <1> QED
    BY <1>1, <1>2 DEF PropagateCaseState

LEMMA EmitSettles ==
  ASSUME ReceiptInv, SettledIsDone,
         NEW h \in Handlers, NEW r \in Receipts, EmitNotification(h, r)
  PROVE  SettledIsDone'
  <1>1. CASE Fault
    BY <1>1, FaultSettles
  <1>2. ASSUME notifications' = [notifications EXCEPT ![r] = @ + (IF Triggers(r) THEN 1 ELSE 0)],
               faults' = faults
        PROVE  SettledIsDone'
    <2>1. \A s \in Receipts : PhaseOf(s)' = IF s = r THEN "done" ELSE PhaseOf(s)
      BY EmitRefines, PhasesAfter DEF Trail!Tell
    <2>2. At(h, "notify", r) /\ case_status' = case_status
      BY DEF EmitNotification
    <2>3. PhaseOf(r) = "notify"
      BY <2>2, CarriedPhase
    <2>4. notifications[r] = 0 /\ notifications \in [Receipts -> Nat]
      BY <2>2 DEF Carries, ReceiptInv, CarriedIsStored, TypeOK
    <2>5. ASSUME faults = 0, NEW s \in Receipts, PhaseOf(s)' \in {"notify", "done"}
          PROVE  case_status'[CaseOf[s]] # "open"
      BY <2>1, <2>2, <2>3, <2>5 DEF SettledIsDone
    <2>6. Triggers(r) => notifications'[r] = 1
      BY <1>2, <2>4
    <2>7. \A s \in Receipts : s # r => notifications'[s] = notifications[s]
      BY <1>2, <2>4
    <2>8. ASSUME faults = 0, NEW s \in Receipts, PhaseOf(s)' = "done", Triggers(s)
          PROVE  notifications'[s] = 1
      BY <2>1, <2>6, <2>7, <2>8 DEF SettledIsDone
    <2> QED
      BY <1>2, <2>5, <2>8 DEF SettledIsDone, Triggers
  <1> QED
    BY <1>1, <1>2 DEF EmitNotification

LEMMA NextSettles == ReceiptInv /\ SettledIsDone /\ [Next]_vars => SettledIsDone'
  <1> SUFFICES ASSUME ReceiptInv, SettledIsDone, [Next]_vars PROVE SettledIsDone'
    OBVIOUS
  <1>1. ASSUME NEW h \in Handlers, NEW r \in Receipts, Deliver(h, r) \/ Handle(h, r)
        PROVE  SettledIsDone'
    <2>1. CASE Deliver(h, r)
      BY <2>1, DeliverStutters, StutterSettles DEF Deliver
    <2>2. CASE StoreFails(h, r)
      BY <2>2, FaultSettles DEF StoreFails
    <2> QED
      BY <1>1, <2>1, <2>2, StoreReceiptSettles, PropagateSettles, EmitSettles DEF Handle
  <1>2. CASE Crash
    BY <1>2, FaultSettles DEF Crash
  <1>3. CASE UNCHANGED vars
    <2>1. /\ UNCHANGED <<receipts, case_status, notifications>>
          /\ handler' = handler /\ faults' = faults
      BY <1>3 DEF vars
    <2>2. UNCHANGED Trail!vars
      BY <2>1, NobodyAdvances DEF At
    <2> QED
      BY <2>1, <2>2, StutterSettles
  <1> QED
    BY <1>1, <1>2, <1>3 DEF Next

\* Without a failure nothing is left undone: whatever is delivered again and whoever
\* handles it, a receipt that nobody acts on any more has moved its case and has been
\* notified if it calls for that.  This is what StoredIsNotified says of a standstill.
THEOREM SettledReceiptsAreDone == Spec => []SettledIsDone
  <1>1. Init => SettledIsDone
    <2> SUFFICES ASSUME Init PROVE SettledIsDone
      OBVIOUS
    <2>1. receipts = {}
      BY DEF Init
    <2>2. \A r \in Receipts : PhaseOf(r) \notin {"notify", "done"} /\ PhaseOf(r) # "done"
      BY <2>1 DEF PhaseOf
    <2>3. ASSUME NEW r \in Receipts
          PROVE  /\ PhaseOf(r) \in {"notify", "done"} => case_status[CaseOf[r]] # "open"
                 /\ PhaseOf(r) = "done" /\ Triggers(r) => notifications[r] = 1
      BY <2>2
    <2> QED
      BY <2>3, Zenon DEF SettledIsDone
  <1> QED
    BY <1>1, NextSettles, InvariantHolds, PTL DEF Spec

-----------------------------------------------------------------------------
\* The cases of TheHive.

\* The drain works on rows of the queue that it has read; a row whose case it has
\* just created has an attempt left.
DrainsQueue ==
  /\ todo \subseteq pending
  /\ draining # NoDrain => draining.row \in todo /\ attempts[draining.row] < MaxAttempts

\* The cases of a detection.  One that is not the first needs a fault, and the
\* next one may be made only where one more is allowed.
CasesAreCounted ==
  \A d \in Detections :
    /\ remote[d] <= 1 + hiveFaults
    /\ task[d] \in {"none", "create"} => remote[d] = 0
    /\ task[d] = "enqueue" => remote[d] <= hiveFaults
    /\ task[d] # "end" => d \notin pending
    /\ d \in pending /\ draining.row # d => remote[d] <= hiveFaults

\* A row gets into the queue by a fault; a second one is needed to lose its case.
CaseIsKept ==
  /\ pending # {} => hiveFaults > 0
  /\ draining # NoDrain => remote[draining.row] > 0
  /\ hiveFaults <= 1 /\ draining.pc = "delete" => linked[draining.row] > 0
  /\ \A d \in Detections : /\ task[d] = "save" => remote[d] > 0
                           /\ task[d] = "enqueue" => hiveFaults > 0

\* OneFailureLosesNothing while nothing has crashed.
NothingIsLost ==
  \A d \in Eligible : task[d] = "end" /\ hiveFaults <= 1 => linked[d] > 0 \/ d \in pending

\* HiveTypeOK: the variables that are not Boolean, and those that are.
CaseTypes ==
  /\ task \in [Detections -> {"none", "create", "save", "enqueue", "end"}]
  /\ remote \in [Detections -> Nat]
  /\ linked \in [Detections -> Nat]
  /\ status \in [Detections -> {"NULL", "New", "Resolved"}]
  /\ pending \subseteq Detections
  /\ attempts \in [Detections -> 0 .. MaxAttempts]
  /\ todo \subseteq Detections
  /\ draining \in {NoDrain} \cup [row : Detections, pc : {"update", "delete"}]
  /\ resolved \subseteq RemoteCases
  /\ syncing \subseteq RemoteCases
  /\ hiveFaults \in 0 .. MaxHiveFaults
Flags == answers \in Clients /\ crashed \in BOOLEAN

CaseInv == CaseTypes /\ DrainsQueue /\ CasesAreCounted /\ CaseIsKept
HiveInv == CaseInv /\ Flags /\ (~ crashed => NothingIsLost)

LEMMA HiveConstants == Eligible \subseteq Detections /\ MaxHiveFaults \in Nat /\ NoRow \notin Detections
  BY TheHiveAssumption, Zenon

LEMMA HiveInitInv == HiveInit => HiveInv
  <1> SUFFICES ASSUME HiveInit PROVE HiveInv
    OBVIOUS
  <1>1. Flags
    BY Zenon DEF HiveInit, Flags
  <1>2. CaseTypes
    BY HiveConstants DEF HiveInit, CaseTypes, NoDrain, MaxAttempts
  <1>3. DrainsQueue /\ CasesAreCounted /\ CaseIsKept /\ NothingIsLost
    BY HiveConstants DEF HiveInit, DrainsQueue, CasesAreCounted, CaseIsKept, NothingIsLost, NoDrain
  <1> QED
    BY <1>1, <1>2, <1>3 DEF HiveInv, CaseInv

\* The bound of the faults, and the two Boolean variables.
LEMMA FaultTypes ==
  ASSUME CaseTypes, HiveFault \/ NoHiveFault
  PROVE  /\ UNCHANGED <<answers, crashed>>
         /\ hiveFaults \in Nat /\ hiveFaults' \in 0 .. MaxHiveFaults
         /\ hiveFaults' \in {hiveFaults, hiveFaults + 1}
  <1>1. UNCHANGED <<answers, crashed>>
    BY DEF HiveFault, NoHiveFault
  <1>2. hiveFaults \in Nat /\ hiveFaults' \in 0 .. MaxHiveFaults /\ hiveFaults' \in {hiveFaults, hiveFaults + 1}
    BY HiveConstants DEF HiveFault, NoHiveFault, CaseTypes
  <1> QED
    BY <1>1, <1>2

\* What every step but a crash must show.
LEMMA HiveStep ==
  ASSUME HiveInv, UNCHANGED <<answers, crashed>>, CaseInv', NothingIsLost => NothingIsLost'
  PROVE  HiveInv'
  BY Zenon DEF HiveInv, Flags

LEMMA ThreadInv ==
  ASSUME CaseInv, NEW d \in Detections, Detect(d) \/ Create(d)
  PROVE  CaseInv' /\ (NothingIsLost => NothingIsLost')
  <1>1. HiveFault \/ NoHiveFault
    BY DEF Detect, Create, CreateCase, SaveCaseId, EnqueuePendingCase
  <1>2. /\ hiveFaults \in Nat /\ hiveFaults' \in 0 .. MaxHiveFaults
        /\ hiveFaults' \in {hiveFaults, hiveFaults + 1}
    BY <1>1, FaultTypes DEF CaseInv
  <1>3. UNCHANGED <<attempts, todo, draining, resolved, syncing>>
    BY DEF Detect, Create, CreateCase, SaveCaseId, EnqueuePendingCase, queueVars, drainVars, syncVars
  <1>4. CaseTypes'
    <2>1. /\ task' \in [Detections -> {"none", "create", "save", "enqueue", "end"}]
          /\ remote' \in [Detections -> Nat] /\ linked' \in [Detections -> Nat]
          /\ status' \in [Detections -> {"NULL", "New", "Resolved"}] /\ pending' \subseteq Detections
      BY DEF Detect, Create, CreateCase, SaveCaseId, EnqueuePendingCase, AfterSaveError, GotoTask, NewCase,
             Link, caseVars, queueVars, CaseInv, CaseTypes
    <2> QED
      BY <1>2, <1>3, <2>1, HiveConstants DEF CaseInv, CaseTypes
  <1>5. DrainsQueue'
    <2>1. pending \subseteq pending'
      BY DEF Detect, Create, CreateCase, SaveCaseId, EnqueuePendingCase, queueVars
    <2> QED
      BY <1>3, <2>1 DEF CaseInv, DrainsQueue, NoDrain
  <1>6. CASE Detect(d)
    <2>1. UNCHANGED <<remote, linked, pending, hiveFaults>>
      BY <1>6 DEF Detect, NoHiveFault, caseVars, queueVars
    <2>2. task' = [task EXCEPT ![d] = IF d \in Eligible THEN "create" ELSE "end"] /\ task[d] = "none"
      BY <1>6 DEF Detect, GotoTask
    <2>3. CasesAreCounted'
      BY <1>2, <1>3, <2>1, <2>2 DEF CaseInv, CaseTypes, CasesAreCounted
    <2>4. CaseIsKept' /\ (NothingIsLost => NothingIsLost')
      BY <1>2, <1>3, <2>1, <2>2, HiveConstants DEF CaseInv, CaseTypes, CaseIsKept, NothingIsLost, NoDrain
    <2> QED
      BY <1>4, <1>5, <2>3, <2>4 DEF CaseInv
  <1>7. CASE CreateCase(d)
    <2>1. UNCHANGED <<linked, pending>> /\ task[d] = "create"
      BY <1>7 DEF CreateCase, caseVars, queueVars
    <2>2. \E made \in {0, 1}, failed \in {0, 1} :
             /\ remote' = [remote EXCEPT ![d] = @ + made] /\ hiveFaults' = hiveFaults + failed
             /\ made = 0 => failed = 1
             /\ task' = [task EXCEPT ![d] = IF failed = 0 THEN "save" ELSE "enqueue"]
      <3>1. CASE NewCase(d) /\ GotoTask(d, "save") /\ NoHiveFault
        BY <3>1 DEF NewCase, GotoTask, NoHiveFault, CaseInv, CaseTypes
      <3>2. CASE UNCHANGED remote /\ GotoTask(d, "enqueue") /\ HiveFault
        BY <3>2 DEF NewCase, GotoTask, HiveFault, CaseInv, CaseTypes
      <3>3. CASE NewCase(d) /\ GotoTask(d, "enqueue") /\ HiveFault
        BY <3>3 DEF NewCase, GotoTask, HiveFault, CaseInv, CaseTypes
      <3> QED
        BY <1>7, <3>1, <3>2, <3>3 DEF CreateCase
    <2>3. CasesAreCounted'
      BY <1>2, <1>3, <2>1, <2>2 DEF CaseInv, CaseTypes, CasesAreCounted
    <2>4. CaseIsKept' /\ (NothingIsLost => NothingIsLost')
      BY <1>2, <1>3, <2>1, <2>2, HiveConstants DEF CaseInv, CaseTypes, CasesAreCounted, CaseIsKept, NothingIsLost, NoDrain
    <2> QED
      BY <1>4, <1>5, <2>3, <2>4 DEF CaseInv
  <1>8. CASE SaveCaseId(d)
    <2>1. UNCHANGED <<remote, pending>> /\ task[d] = "save"
      BY <1>8 DEF SaveCaseId, queueVars
    <2>2. \/ /\ linked' = [linked EXCEPT ![d] = remote[d]] /\ task' = [task EXCEPT ![d] = "end"]
             /\ hiveFaults' = hiveFaults
          \/ /\ linked' = linked /\ task' = [task EXCEPT ![d] = "enqueue"]
             /\ hiveFaults' = hiveFaults + 1
      BY <1>8 DEF SaveCaseId, Link, caseVars, GotoTask, AfterSaveError, HiveFault, NoHiveFault
    <2>3. CasesAreCounted'
      BY <1>2, <1>3, <2>1, <2>2 DEF CaseInv, CaseTypes, CasesAreCounted
    <2>4. CaseIsKept' /\ (NothingIsLost => NothingIsLost')
      BY <1>2, <1>3, <2>1, <2>2, HiveConstants DEF CaseInv, CaseTypes, CaseIsKept, NothingIsLost, NoDrain
    <2> QED
      BY <1>4, <1>5, <2>3, <2>4 DEF CaseInv
  <1>9. CASE EnqueuePendingCase(d)
    <2>1. /\ UNCHANGED <<remote, linked>> /\ task[d] = "enqueue"
          /\ task' = [task EXCEPT ![d] = "end"]
      BY <1>9 DEF EnqueuePendingCase, caseVars, GotoTask
    <2>2. \/ pending' = pending \cup {d} /\ hiveFaults' = hiveFaults
          \/ pending' = pending /\ hiveFaults' = hiveFaults + 1
      BY <1>9 DEF EnqueuePendingCase, HiveFault, NoHiveFault
    <2>3. CasesAreCounted'
      BY <1>2, <1>3, <2>1, <2>2 DEF CaseInv, CaseTypes, CasesAreCounted
    <2>4. CaseIsKept' /\ (NothingIsLost => NothingIsLost')
      BY <1>2, <1>3, <2>1, <2>2, HiveConstants DEF CaseInv, CaseTypes, CaseIsKept, NothingIsLost, NoDrain
    <2> QED
      BY <1>4, <1>5, <2>3, <2>4 DEF CaseInv
  <1> QED
    BY <1>6, <1>7, <1>8, <1>9 DEF Create

LEMMA DrainInv ==
  ASSUME CaseInv, Drain
  PROVE  CaseInv' /\ (NothingIsLost => NothingIsLost')
  <1>1. HiveFault \/ NoHiveFault
    BY DEF Drain, DrainStart, DrainSkip, DrainCreate, DrainUpdate, DrainDelete
  <1>2. /\ hiveFaults \in Nat /\ hiveFaults' \in 0 .. MaxHiveFaults
        /\ hiveFaults' \in {hiveFaults, hiveFaults + 1}
    BY <1>1, FaultTypes DEF CaseInv
  <1>3. UNCHANGED <<task, resolved, syncing>>
    BY DEF Drain, DrainStart, DrainSkip, DrainCreate, DrainUpdate, DrainDelete, syncVars
  <1>4. CASE DrainStart
    <2>1. /\ UNCHANGED <<remote, linked, status, pending, attempts, draining, hiveFaults>>
          /\ todo = {} /\ todo' = pending
      BY <1>4 DEF DrainStart, NoHiveFault, caseVars
    <2> QED
      BY <1>2, <1>3, <2>1, HiveConstants
      DEF CaseInv, CaseTypes, DrainsQueue, CasesAreCounted, CaseIsKept, NothingIsLost, NoDrain
  <1>5. ASSUME NEW d \in Detections, DrainSkip(d)
        PROVE  CaseInv' /\ (NothingIsLost => NothingIsLost')
    <2>1. /\ UNCHANGED <<remote, linked, status, pending, attempts, draining, hiveFaults>>
          /\ todo' = todo \ {d} /\ draining = NoDrain
      BY <1>5 DEF DrainSkip, NoHiveFault, caseVars
    <2> QED
      BY <1>2, <1>3, <2>1, HiveConstants
      DEF CaseInv, CaseTypes, DrainsQueue, CasesAreCounted, CaseIsKept, NothingIsLost, NoDrain
  <1>6. ASSUME NEW d \in Detections, DrainCreate(d)
        PROVE  CaseInv' /\ (NothingIsLost => NothingIsLost')
    <2>1. /\ UNCHANGED <<linked, status, pending>>
          /\ d \in todo /\ draining = NoDrain /\ attempts[d] < MaxAttempts
      BY <1>6 DEF DrainCreate, caseVars, Abandoned, CaseInv, CaseTypes, MaxAttempts
    <2>2. d \in pending /\ remote[d] <= hiveFaults
      BY <2>1, HiveConstants DEF CaseInv, DrainsQueue, CasesAreCounted, NoDrain
    <2>3. \/ /\ remote' = [remote EXCEPT ![d] = @ + 1] /\ draining' = [row |-> d, pc |-> "update"]
             /\ UNCHANGED <<attempts, todo, hiveFaults>>
          \/ /\ NextAttempt(d)
             /\ \/ remote' = remote
                \/ remote' = [remote EXCEPT ![d] = @ + 1] /\ hiveFaults' = hiveFaults + 1
      BY <1>6 DEF DrainCreate, NewCase, HiveFault, NoHiveFault
    <2>4. CASE /\ remote' = [remote EXCEPT ![d] = @ + 1] /\ draining' = [row |-> d, pc |-> "update"]
               /\ UNCHANGED <<attempts, todo, hiveFaults>>
      <3>1. CaseTypes' /\ DrainsQueue'
        BY <1>2, <1>3, <2>1, <2>4 DEF CaseInv, CaseTypes, DrainsQueue, NoDrain
      <3>2. CasesAreCounted'
        BY <1>2, <1>3, <2>1, <2>2, <2>4, HiveConstants DEF CaseInv, CaseTypes, CasesAreCounted, NoDrain
      <3>3. CaseIsKept' /\ (NothingIsLost => NothingIsLost')
        BY <1>2, <1>3, <2>1, <2>2, <2>4, HiveConstants DEF CaseInv, CaseTypes, CaseIsKept, NothingIsLost
      <3> QED
        BY <3>1, <3>2, <3>3 DEF CaseInv
    <2>5. CASE /\ NextAttempt(d)
               /\ \/ remote' = remote
                  \/ remote' = [remote EXCEPT ![d] = @ + 1] /\ hiveFaults' = hiveFaults + 1
      <3>1. CaseTypes' /\ DrainsQueue'
        BY <1>2, <1>3, <2>1, <2>5 DEF NextAttempt, CaseInv, CaseTypes, DrainsQueue, NoDrain, MaxAttempts
      <3>2. CasesAreCounted'
        BY <1>2, <1>3, <2>1, <2>2, <2>5, HiveConstants DEF NextAttempt, CaseInv, CaseTypes, CasesAreCounted, NoDrain
      <3>3. CaseIsKept' /\ (NothingIsLost => NothingIsLost')
        BY <1>2, <1>3, <2>1, <2>2, <2>5, HiveConstants
        DEF NextAttempt, CaseInv, CaseTypes, CaseIsKept, NothingIsLost, NoDrain
      <3> QED
        BY <3>1, <3>2, <3>3 DEF CaseInv
    <2> QED
      BY <2>3, <2>4, <2>5
  <1>7. ASSUME NEW d \in Detections, DrainUpdate(d)
        PROVE  CaseInv' /\ (NothingIsLost => NothingIsLost')
    <2>1. /\ UNCHANGED <<remote, pending, attempts, todo>>
          /\ draining = [row |-> d, pc |-> "update"] /\ draining' = [row |-> d, pc |-> "delete"]
      BY <1>7 DEF DrainUpdate
    <2>2. \/ /\ linked' = [linked EXCEPT ![d] = remote[d]] /\ status' = [status EXCEPT ![d] = "New"]
             /\ hiveFaults' = hiveFaults
          \/ UNCHANGED <<linked, status>> /\ hiveFaults' = hiveFaults + 1
      BY <1>7 DEF DrainUpdate, Link, caseVars, HiveFault, NoHiveFault
    <2>3. d \in todo /\ d \in pending /\ remote[d] > 0 /\ hiveFaults > 0
      BY <2>1, HiveConstants DEF CaseInv, DrainsQueue, CaseIsKept, NoDrain
    <2>4. CaseTypes' /\ DrainsQueue'
      BY <1>2, <1>3, <2>1, <2>2, HiveConstants DEF CaseInv, CaseTypes, DrainsQueue, NoDrain
    <2>5. CasesAreCounted'
      BY <1>2, <1>3, <2>1, <2>2 DEF CaseInv, CaseTypes, CasesAreCounted
    <2>6. CaseIsKept' /\ (NothingIsLost => NothingIsLost')
      BY <1>2, <1>3, <2>1, <2>2, <2>3, HiveConstants DEF CaseInv, CaseTypes, CaseIsKept, NothingIsLost
    <2> QED
      BY <2>4, <2>5, <2>6 DEF CaseInv
  <1>8. ASSUME NEW d \in Detections, DrainDelete(d)
        PROVE  CaseInv' /\ (NothingIsLost => NothingIsLost')
    <2>1. /\ UNCHANGED <<remote, linked, status>> /\ draining = [row |-> d, pc |-> "delete"]
          /\ todo' = todo \ {d} /\ draining' = NoDrain
      BY <1>8 DEF DrainDelete, NextAttempt, caseVars
    <2>2. \/ pending' = pending \ {d} /\ UNCHANGED <<attempts, hiveFaults>>
          \/ pending' = pending /\ attempts' = [attempts EXCEPT ![d] = @ + 1] /\ hiveFaults' = hiveFaults + 1
      BY <1>8 DEF DrainDelete, RowsLeft, NextAttempt, HiveFault, NoHiveFault
    <2>3. attempts[d] < MaxAttempts /\ (hiveFaults <= 1 => linked[d] > 0)
      BY <2>1, HiveConstants DEF CaseInv, DrainsQueue, CaseIsKept, NoDrain
    <2>4. CaseTypes' /\ DrainsQueue'
      BY <1>2, <1>3, <2>1, <2>2, <2>3 DEF CaseInv, CaseTypes, DrainsQueue, NoDrain, MaxAttempts
    <2>5. CasesAreCounted'
      BY <1>2, <1>3, <2>1, <2>2, HiveConstants DEF CaseInv, CaseTypes, CasesAreCounted, NoDrain
    <2>6. CaseIsKept' /\ (NothingIsLost => NothingIsLost')
      BY <1>2, <1>3, <2>1, <2>2, <2>3, HiveConstants DEF CaseInv, CaseTypes, CaseIsKept, NothingIsLost, NoDrain
    <2> QED
      BY <2>4, <2>5, <2>6 DEF CaseInv
  <1> QED
    BY <1>4, <1>5, <1>6, <1>7, <1>8 DEF Drain

LEMMA ClosureInv ==
  ASSUME CaseInv, (\E d \in Detections, n \in 1 .. MaxHiveFaults + 1 : Resolve(d, n)) \/ Sync
  PROVE  CaseInv' /\ (NothingIsLost => NothingIsLost') /\ UNCHANGED <<answers, crashed>>
  <1>1. HiveFault \/ NoHiveFault
    BY DEF Sync, SyncStart, SyncCase, Resolve
  <1>2. /\ UNCHANGED <<answers, crashed>>
        /\ hiveFaults \in Nat /\ hiveFaults' \in 0 .. MaxHiveFaults
        /\ hiveFaults' \in {hiveFaults, hiveFaults + 1}
    BY <1>1, FaultTypes DEF CaseInv
  <1>3. UNCHANGED <<task, remote, linked, pending, attempts, todo, draining>>
    BY DEF Sync, SyncStart, SyncCase, Resolve, caseVars, queueVars, drainVars
  <1>4. /\ status' \in [Detections -> {"NULL", "New", "Resolved"}]
        /\ resolved' \subseteq RemoteCases /\ syncing' \subseteq RemoteCases
    <2>1. ASSUME NEW d \in Detections, NEW n \in 1 .. MaxHiveFaults + 1, Resolve(d, n)
          PROVE  resolved' \subseteq RemoteCases /\ UNCHANGED <<status, syncing>>
      <3>1. <<d, n>> \in RemoteCases
        BY DEF RemoteCases
      <3> QED
        BY <2>1, <3>1 DEF Resolve, caseVars, CaseInv, CaseTypes
    <2>2. CASE SyncStart
      BY <2>2 DEF SyncStart, caseVars, CaseInv, CaseTypes
    <2>3. ASSUME NEW d \in Detections, NEW n \in 1 .. MaxHiveFaults + 1, SyncCase(d, n)
          PROVE  /\ status' \in [Detections -> {"NULL", "New", "Resolved"}]
                 /\ syncing' \subseteq syncing /\ resolved' = resolved
      BY <2>3 DEF SyncCase, CaseInv, CaseTypes
    <2> QED
      BY <2>1, <2>2, <2>3 DEF Sync, CaseInv, CaseTypes
  <1> QED
    BY <1>2, <1>3, <1>4, HiveConstants
    DEF CaseInv, CaseTypes, DrainsQueue, CasesAreCounted, CaseIsKept, NothingIsLost, NoDrain

LEMMA CrashInv ==
  ASSUME CaseInv, HiveCrash
  PROVE  CaseInv' /\ crashed' = TRUE /\ answers' = answers
  <1>1. crashed' = TRUE /\ answers' = answers
    BY Zenon DEF HiveCrash
  <1>2. /\ hiveFaults < MaxHiveFaults /\ hiveFaults' = hiveFaults + 1
        /\ task' = [d \in Detections |-> IF task[d] = "none" THEN "none" ELSE "end"]
        /\ todo' = {} /\ draining' = NoDrain /\ syncing' = {}
        /\ UNCHANGED <<remote, linked, status, pending, attempts, resolved>>
    BY Zenon DEF HiveCrash, caseVars
  <1>3. CaseTypes' /\ DrainsQueue' /\ CasesAreCounted' /\ CaseIsKept'
    BY <1>2, HiveConstants DEF CaseInv, CaseTypes, DrainsQueue, CasesAreCounted, CaseIsKept, NoDrain
  <1> QED
    BY <1>1, <1>3 DEF CaseInv

LEMMA HiveNextInv == HiveInv /\ [HiveNext]_hiveVars => HiveInv'
  <1> SUFFICES ASSUME HiveInv, [HiveNext]_hiveVars PROVE HiveInv'
    OBVIOUS
  <1>1. ASSUME NEW d \in Detections, Detect(d) \/ Create(d) PROVE HiveInv'
    <2>1. HiveFault \/ NoHiveFault
      BY <1>1 DEF Detect, Create, CreateCase, SaveCaseId, EnqueuePendingCase
    <2> QED
      BY <1>1, <2>1, ThreadInv, FaultTypes, HiveStep DEF HiveInv, CaseInv
  <1>2. ASSUME Drain PROVE HiveInv'
    <2>1. HiveFault \/ NoHiveFault
      BY <1>2 DEF Drain, DrainStart, DrainSkip, DrainCreate, DrainUpdate, DrainDelete
    <2> QED
      BY <1>2, <2>1, DrainInv, FaultTypes, HiveStep DEF HiveInv, CaseInv
  <1>3. ASSUME (\E d \in Detections, n \in 1 .. MaxHiveFaults + 1 : Resolve(d, n)) \/ Sync PROVE HiveInv'
    BY <1>3, ClosureInv, HiveStep, Zenon DEF HiveInv
  <1>4. ASSUME HiveCrash PROVE HiveInv'
    BY <1>4, CrashInv, Zenon DEF HiveInv, Flags
  <1>5. ASSUME UNCHANGED hiveVars PROVE HiveInv'
    <2>1. CaseInv' /\ (NothingIsLost => NothingIsLost')
      BY <1>5 DEF hiveVars, HiveInv, CaseInv, CaseTypes, DrainsQueue, CasesAreCounted, CaseIsKept, NothingIsLost
    <2>2. UNCHANGED <<answers, crashed>>
      BY <1>5 DEF hiveVars
    <2> QED
      BY <2>1, <2>2, HiveStep
  <1> QED
    BY <1>1, <1>2, <1>3, <1>4, <1>5 DEF HiveNext

\* One failing call of TheHive or of SQLite loses no case, and every case beyond
\* a detection's first is owed to a failure or a crash of its own, for any
\* detections and any number of failures, with the client that answers and the one
\* that is deployed.
THEOREM CasesAreKept == HiveSpec => [](HiveTypeOK /\ ExtraCasesAreFaults /\ OneFailureLosesNothing)
  <1>1. HiveInv => HiveTypeOK
    BY Zenon DEF HiveInv, CaseInv, CaseTypes, Flags, HiveTypeOK
  <1>2. HiveInv => ExtraCasesAreFaults
    BY Zenon DEF HiveInv, CaseInv, CasesAreCounted, ExtraCasesAreFaults
  <1>3. HiveInv => OneFailureLosesNothing
    BY Zenon DEF HiveInv, NothingIsLost, OneFailureLosesNothing
  <1> QED
    BY HiveInitInv, HiveNextInv, <1>1, <1>2, <1>3, PTL DEF HiveSpec

\* What the closure sync has still to write was closed; the row of the drain keeps
\* its account of attempts.
SyncInv == HiveInv /\ AttemptsAreFailures /\ ResolvedIsClosed /\ syncing \subseteq resolved

LEMMA AttemptsStep ==
  ASSUME HiveInv, AttemptsAreFailures, HiveNext
  PROVE  AttemptsAreFailures'
  <1>1. answers' = answers
    BY DEF HiveNext, Detect, Create, CreateCase, SaveCaseId, EnqueuePendingCase, Resolve, Drain, DrainStart,
       DrainSkip, DrainCreate, DrainUpdate, DrainDelete, Sync, SyncStart, SyncCase, HiveCrash, HiveFault, NoHiveFault
  <1> SUFFICES ASSUME answers PROVE \A e \in Detections : attempts'[e] <= hiveFaults'
    BY <1>1, Zenon DEF AttemptsAreFailures
  <1>2. /\ \A e \in Detections : attempts[e] <= hiveFaults
        /\ attempts \in [Detections -> Nat] /\ hiveFaults \in Nat
    <2>1. attempts \in [Detections -> 0 .. MaxAttempts] /\ hiveFaults \in 0 .. MaxHiveFaults
      BY DEF HiveInv, CaseInv, CaseTypes
    <2>2. \A e \in Detections : attempts[e] <= hiveFaults
      BY Zenon DEF AttemptsAreFailures
    <2> QED
      BY <2>1, <2>2, HiveConstants DEF MaxAttempts
  <1>3. \/ UNCHANGED attempts /\ hiveFaults' \in {hiveFaults, hiveFaults + 1}
        \/ hiveFaults' = hiveFaults + 1 /\ \E d \in Detections : attempts' = [attempts EXCEPT ![d] = @ + 1]
    <2>1. CASE \E d \in Detections : Detect(d) \/ Create(d)
      BY <2>1 DEF Detect, Create, CreateCase, SaveCaseId, EnqueuePendingCase, queueVars, HiveFault, NoHiveFault
    <2>2. CASE (\E d \in Detections, n \in 1 .. MaxHiveFaults + 1 : Resolve(d, n)) \/ Sync
      BY <2>2 DEF Resolve, Sync, SyncStart, SyncCase, queueVars, HiveFault, NoHiveFault
    <2>3. CASE Drain
      BY <2>3 DEF Drain, DrainStart, DrainSkip, DrainCreate, DrainUpdate, DrainDelete, NextAttempt, HiveFault, NoHiveFault
    <2>4. CASE HiveCrash
      BY <2>4 DEF HiveCrash
    <2> QED
      BY <2>1, <2>2, <2>3, <2>4 DEF HiveNext
  <1> QED
    BY <1>2, <1>3

LEMMA ClosedStep ==
  ASSUME HiveInv, ResolvedIsClosed, syncing \subseteq resolved, HiveNext
  PROVE  ResolvedIsClosed' /\ syncing' \subseteq resolved'
  <1> DEFINE Closed(l, s, r) == \A e \in Detections : s[e] = "Resolved" => <<e, l[e]>> \in r
  <1>1. linked \in [Detections -> Nat] /\ status \in [Detections -> {"NULL", "New", "Resolved"}]
    BY DEF HiveInv, CaseInv, CaseTypes
  <1>2. Closed(linked, status, resolved)
    BY DEF ResolvedIsClosed
  <1>3. ASSUME UNCHANGED <<linked, status, syncing>>, resolved \subseteq resolved'
        PROVE  ResolvedIsClosed' /\ syncing' \subseteq resolved'
    BY <1>2, <1>3 DEF ResolvedIsClosed
  <1>4. ASSUME NEW d \in Detections, linked' = [linked EXCEPT ![d] = remote[d]], status' = [status EXCEPT ![d] = "New"],
               UNCHANGED <<resolved, syncing>>
        PROVE  ResolvedIsClosed' /\ syncing' \subseteq resolved'
    BY <1>1, <1>2, <1>4 DEF ResolvedIsClosed
  <1>5. ASSUME NEW d \in Detections, Detect(d) \/ Create(d) \/ DrainUpdate(d)
        PROVE  ResolvedIsClosed' /\ syncing' \subseteq resolved'
    <2>1. /\ UNCHANGED <<resolved, syncing>>
          /\ \/ UNCHANGED <<linked, status>>
             \/ linked' = [linked EXCEPT ![d] = remote[d]] /\ status' = [status EXCEPT ![d] = "New"]
      BY <1>5 DEF Detect, Create, CreateCase, SaveCaseId, EnqueuePendingCase, DrainUpdate, Link, caseVars, syncVars
    <2> QED
      BY <1>3, <1>4, <2>1
  <1>6. CASE DrainStart \/ \E d \in Detections : DrainSkip(d) \/ DrainCreate(d) \/ DrainDelete(d)
    <2>1. UNCHANGED <<linked, status, resolved, syncing>>
      BY <1>6 DEF DrainStart, DrainSkip, DrainCreate, DrainDelete, caseVars, syncVars
    <2> QED
      BY <1>3, <2>1
  <1>7. CASE \E d \in Detections, n \in 1 .. MaxHiveFaults + 1 : Resolve(d, n)
    <2>1. UNCHANGED <<linked, status, syncing>> /\ resolved \subseteq resolved'
      BY <1>7 DEF Resolve, caseVars
    <2> QED
      BY <1>3, <2>1
  <1>8. CASE SyncStart
    <2>1. UNCHANGED <<linked, status, resolved>> /\ syncing' = resolved
      BY <1>8 DEF SyncStart, caseVars
    <2> QED
      BY <1>2, <2>1 DEF ResolvedIsClosed
  <1>9. ASSUME NEW d \in Detections, NEW n \in 1 .. MaxHiveFaults + 1, SyncCase(d, n)
        PROVE  ResolvedIsClosed' /\ syncing' \subseteq resolved'
    <2>1. /\ UNCHANGED <<linked, resolved>> /\ <<d, n>> \in syncing /\ syncing' \subseteq syncing
          /\ \/ UNCHANGED status
             \/ status' = [status EXCEPT ![d] = IF linked[d] = n THEN "Resolved" ELSE @]
      BY <1>9 DEF SyncCase, IsLinkedTo
    <2>2. \A e \in Detections : status'[e] = "Resolved" => status[e] = "Resolved" \/ (e = d /\ linked[d] = n)
      BY <1>1, <2>1
    <2> QED
      BY <1>2, <2>1, <2>2 DEF ResolvedIsClosed
  <1>10. CASE HiveCrash
    <2>1. UNCHANGED <<linked, status, resolved>> /\ syncing' = {}
      BY <1>10 DEF HiveCrash, caseVars
    <2> QED
      BY <1>2, <2>1 DEF ResolvedIsClosed
  <1> QED
    BY <1>5, <1>6, <1>7, <1>8, <1>9, <1>10 DEF HiveNext, Drain, Sync

\* With the client that answers a row of the queue loses an attempt only to a
\* failure; and a detection is called resolved only when the case that it is linked
\* to now was closed, whatever retries replace cases while the sync runs.
THEOREM SyncsAreTrue == HiveSpec => [](AttemptsAreFailures /\ ResolvedIsClosed)
  <1>1. HiveInit => SyncInv
    <2> SUFFICES ASSUME HiveInit PROVE SyncInv
      OBVIOUS
    <2>1. AttemptsAreFailures
      <3>1. \A d \in Detections : attempts[d] <= hiveFaults
        BY DEF HiveInit
      <3> QED
        BY <3>1, Zenon DEF AttemptsAreFailures
    <2>2. ResolvedIsClosed /\ syncing \subseteq resolved
      BY DEF HiveInit, ResolvedIsClosed
    <2> QED
      BY <2>1, <2>2, HiveInitInv DEF SyncInv
  <1>2. SyncInv /\ [HiveNext]_hiveVars => SyncInv'
    <2> SUFFICES ASSUME SyncInv, [HiveNext]_hiveVars PROVE SyncInv'
      OBVIOUS
    <2>1. HiveInv'
      BY HiveNextInv DEF SyncInv
    <2>2. CASE HiveNext
      BY <2>1, <2>2, AttemptsStep, ClosedStep DEF SyncInv
    <2>3. CASE UNCHANGED hiveVars
      <3>1. UNCHANGED <<answers, attempts, hiveFaults, linked, status, resolved, syncing>>
        BY <2>3 DEF hiveVars
      <3>2. AttemptsAreFailures'
        BY <3>1, Zenon DEF SyncInv, AttemptsAreFailures
      <3>3. ResolvedIsClosed' /\ syncing' \subseteq resolved'
        BY <3>1 DEF SyncInv, ResolvedIsClosed
      <3> QED
        BY <2>1, <3>2, <3>3 DEF SyncInv
    <2> QED
      BY <2>2, <2>3
  <1>3. SyncInv => AttemptsAreFailures /\ ResolvedIsClosed
    BY Zenon DEF SyncInv
  <1> QED
    BY <1>1, <1>2, <1>3, PTL DEF HiveSpec

-----------------------------------------------------------------------------
\* The threat graph.

\* Sequences, and what is extracted from an event.

LEMMA ToSetOfConcat ==
  ASSUME NEW S, NEW s \in Seq(S), NEW t \in Seq(S)
  PROVE  s \o t \in Seq(S) /\ ToSet(s \o t) = ToSet(s) \cup ToSet(t)
  <1>1. /\ s \o t \in Seq(S) /\ Len(s \o t) = Len(s) + Len(t)
        /\ Len(s) \in Nat /\ Len(t) \in Nat
        /\ DOMAIN s = 1 .. Len(s) /\ DOMAIN t = 1 .. Len(t) /\ DOMAIN (s \o t) = 1 .. Len(s) + Len(t)
        /\ \A i \in 1 .. Len(s) + Len(t) : (s \o t)[i] = IF i <= Len(s) THEN s[i] ELSE t[i - Len(s)]
    BY ConcatProperties, LenProperties
  <1> DEFINE r == s \o t
  <1> HIDE DEF r
  <1>2. ToSet(r) \subseteq ToSet(s) \cup ToSet(t)
    BY <1>1 DEF ToSet, r
  <1>3. ASSUME NEW i \in 1 .. Len(s) PROVE s[i] \in ToSet(r)
    BY <1>1 DEF ToSet, r
  <1>4. ASSUME NEW i \in 1 .. Len(t) PROVE t[i] \in ToSet(r)
    <2>1. i + Len(s) \in 1 .. Len(s) + Len(t) /\ r[i + Len(s)] = t[i]
      BY <1>1 DEF r
    <2> QED
      BY <1>1, <2>1 DEF ToSet, r
  <1> QED
    BY <1>1, <1>2, <1>3, <1>4 DEF ToSet, r

LEMMA OneOrNone ==
  ASSUME NEW c, NEW S, NEW x \in S
  PROVE  /\ OneIf(c, x) \in Seq(S)
         /\ c => x \in ToSet(OneIf(c, x))
         /\ \A y \in ToSet(OneIf(c, x)) : c /\ y = x
  <1>1. CASE c
    BY <1>1 DEF OneIf, ToSet
  <1>2. CASE ~ c
    BY <1>2 DEF OneIf, ToSet
  <1> QED
    BY <1>1, <1>2

\* The entities and the edges that an event can have.
IdsAround(e) == {Host(e), User(e), Proc(e), File(e), Ip(e), Domain(e), Zone(e)}
LinksAround(e) == IdsAround(e) \X {"executed_by", "ran_on", "accessed", "connected_to", "resolved_to", "logged_into",
                                   "blocks", "traverses", "permits"} \X IdsAround(e)

LEMMA EntitiesOfEvent ==
  ASSUME NEW e
  PROVE  /\ EntitiesOf(e) \in Seq(IdsAround(e))
         /\ Has(e, "host") => Host(e) \in ToSet(EntitiesOf(e))
         /\ Has(e, "user") => User(e) \in ToSet(EntitiesOf(e))
         /\ Has(e, "proc") => Proc(e) \in ToSet(EntitiesOf(e))
         /\ Has(e, "file") => File(e) \in ToSet(EntitiesOf(e))
         /\ Has(e, "ip") => Ip(e) \in ToSet(EntitiesOf(e))
         /\ Has(e, "domain") => Domain(e) \in ToSet(EntitiesOf(e))
  <1> DEFINE S == IdsAround(e)
             a == OneIf(Has(e, "host"), Host(e))
             b == OneIf(Has(e, "user"), User(e))
             c == OneIf(Has(e, "proc"), Proc(e))
             d == OneIf(Has(e, "file"), File(e))
             f == OneIf(Has(e, "ip"), Ip(e))
             g == OneIf(Has(e, "domain"), Domain(e))
  <1>1. /\ Host(e) \in S /\ User(e) \in S /\ Proc(e) \in S /\ File(e) \in S /\ Ip(e) \in S /\ Domain(e) \in S
    BY DEF IdsAround
  <1>2. EntitiesOf(e) = a \o b \o c \o d \o f \o g
    BY DEF EntitiesOf
  <1>3. a \in Seq(S) /\ (Has(e, "host") => Host(e) \in ToSet(a))
    BY <1>1, OneOrNone
  <1>4. b \in Seq(S) /\ (Has(e, "user") => User(e) \in ToSet(b))
    BY <1>1, OneOrNone
  <1>5. c \in Seq(S) /\ (Has(e, "proc") => Proc(e) \in ToSet(c))
    BY <1>1, OneOrNone
  <1>6. d \in Seq(S) /\ (Has(e, "file") => File(e) \in ToSet(d))
    BY <1>1, OneOrNone
  <1>7. f \in Seq(S) /\ (Has(e, "ip") => Ip(e) \in ToSet(f))
    BY <1>1, OneOrNone
  <1>8. g \in Seq(S) /\ (Has(e, "domain") => Domain(e) \in ToSet(g))
    BY <1>1, OneOrNone
  <1> DEFINE p == a \o b
             q == p \o c
             r == q \o d
             t == r \o f
             u == t \o g
  <1> HIDE DEF S, a, b, c, d, f, g
  <1>9. p \in Seq(S) /\ ToSet(p) = ToSet(a) \cup ToSet(b)
    BY <1>3, <1>4, ToSetOfConcat
  <1> HIDE DEF p
  <1>10. q \in Seq(S) /\ ToSet(q) = ToSet(p) \cup ToSet(c)
    BY <1>5, <1>9, ToSetOfConcat
  <1> HIDE DEF q
  <1>11. r \in Seq(S) /\ ToSet(r) = ToSet(q) \cup ToSet(d)
    BY <1>6, <1>10, ToSetOfConcat
  <1> HIDE DEF r
  <1>12. t \in Seq(S) /\ ToSet(t) = ToSet(r) \cup ToSet(f)
    BY <1>7, <1>11, ToSetOfConcat
  <1> HIDE DEF t
  <1>13. u \in Seq(S) /\ ToSet(u) = ToSet(t) \cup ToSet(g)
    BY <1>8, <1>12, ToSetOfConcat
  <1> HIDE DEF u
  <1>14. u = EntitiesOf(e)
    BY <1>2 DEF p, q, r, t, u
  <1>15. EntitiesOf(e) \in Seq(IdsAround(e))
    BY <1>13, <1>14 DEF S
  <1> QED
    BY <1>3, <1>4, <1>5, <1>6, <1>7, <1>8, <1>9, <1>10, <1>11, <1>12, <1>13, <1>14, <1>15

\* Both ends of an edge that is extracted are extracted as well.
LEMMA EdgesOfEvent ==
  ASSUME NEW e
  PROVE  /\ EdgesOf(e) \in Seq(LinksAround(e))
         /\ \A l \in ToSet(EdgesOf(e)) : l[1] \in ToSet(EntitiesOf(e)) /\ l[3] \in ToSet(EntitiesOf(e))
  <1> DEFINE S == LinksAround(e)
             Both(s) == s \in Seq(S) /\ \A l \in ToSet(s) : l[1] \in ToSet(EntitiesOf(e)) /\ l[3] \in ToSet(EntitiesOf(e))
             c == Has(e, "user") /\ Has(e, "host") /\ ~Has(e, "proc") /\ Event[e].logon
             s1 == OneIf(Has(e, "proc") /\ Has(e, "user"), <<Proc(e), "executed_by", User(e)>>)
             s2 == OneIf(Has(e, "proc") /\ Has(e, "host"), <<Proc(e), "ran_on", Host(e)>>)
             s3 == OneIf(Has(e, "proc") /\ Has(e, "file"), <<Proc(e), "accessed", File(e)>>)
             s4 == OneIf(Has(e, "proc") /\ Has(e, "ip"), <<Proc(e), "connected_to", Ip(e)>>)
             s5 == OneIf(Has(e, "domain") /\ Has(e, "ip"), <<Domain(e), "resolved_to", Ip(e)>>)
             s6 == OneIf(Has(e, "host") /\ Has(e, "ip") /\ ~Has(e, "proc"), <<Host(e), "connected_to", Ip(e)>>)
             s7 == OneIf(c, <<User(e), "logged_into", Host(e)>>)
  <1>1. \A x, y \in IdsAround(e) :
           \A k \in {"executed_by", "ran_on", "accessed", "connected_to", "resolved_to", "logged_into"} :
             <<x, k, y>> \in S
    BY DEF LinksAround
  <1>2. /\ Host(e) \in IdsAround(e) /\ User(e) \in IdsAround(e) /\ Proc(e) \in IdsAround(e)
        /\ File(e) \in IdsAround(e) /\ Ip(e) \in IdsAround(e) /\ Domain(e) \in IdsAround(e)
    BY DEF IdsAround
  <1>3. EdgesOf(e) = s1 \o s2 \o s3 \o s4 \o s5 \o s6 \o s7
    BY Zenon DEF EdgesOf
  <1>4. c => Has(e, "user") /\ Has(e, "host")
    BY Zenon
  <1> HIDE DEF S, c
  <1>5. ASSUME NEW q, NEW x \in IdsAround(e), NEW y \in IdsAround(e),
               NEW k \in {"executed_by", "ran_on", "accessed", "connected_to", "resolved_to", "logged_into"},
               q => x \in ToSet(EntitiesOf(e)) /\ y \in ToSet(EntitiesOf(e))
        PROVE  Both(OneIf(q, <<x, k, y>>))
    <2>1. <<x, k, y>> \in S
      BY <1>1
    <2>2. /\ OneIf(q, <<x, k, y>>) \in Seq(S)
          /\ \A l \in ToSet(OneIf(q, <<x, k, y>>)) : q /\ l = <<x, k, y>>
      BY <2>1, OneOrNone
    <2> QED
      BY <1>5, <2>2
  <1>6. Both(s1) /\ Both(s2) /\ Both(s3)
    BY <1>2, <1>5, EntitiesOfEvent
  <1>7. Both(s4) /\ Both(s5) /\ Both(s6)
    BY <1>2, <1>5, EntitiesOfEvent
  <1>8. Both(s7)
    BY <1>2, <1>4, <1>5, EntitiesOfEvent
  <1>9. ASSUME NEW s, NEW t, Both(s), Both(t) PROVE Both(s \o t)
    BY <1>9, ToSetOfConcat
  <1> HIDE DEF Both, s1, s2, s3, s4, s5, s6, s7
  <1>10. Both(s1 \o s2 \o s3 \o s4)
    BY <1>6, <1>7, <1>9
  <1>11. Both(s1 \o s2 \o s3 \o s4 \o s5 \o s6 \o s7)
    BY <1>7, <1>8, <1>9, <1>10
  <1> QED
    BY <1>3, <1>11 DEF Both, S

LEMMA PerimeterOfEvent ==
  ASSUME NEW e
  PROVE  /\ PerimeterEntities(e) \in Seq(IdsAround(e)) /\ PerimeterEdges(e) \in Seq(LinksAround(e))
         /\ \A l \in ToSet(PerimeterEdges(e)) :
              l[1] \in ToSet(PerimeterEntities(e)) /\ l[3] \in ToSet(PerimeterEntities(e))
  <1> DEFINE S == IdsAround(e)
             c == Perimeter(e)
             z == Perimeter(e) /\ Has(e, "zone")
             k == IF Event[e].blocked THEN "blocks" ELSE IF Event[e].source THEN "traverses" ELSE "permits"
             i == OneIf(c, Ip(e))
             j == OneIf(z, Zone(e))
             l == <<Zone(e), k, Ip(e)>>
  <1>1. k \in {"blocks", "traverses", "permits"} /\ (z => c)
    BY Zenon
  <1>2. PerimeterEntities(e) = i \o j /\ PerimeterEdges(e) = OneIf(z, l)
    BY Zenon DEF PerimeterEntities, PerimeterEdges
  <1> HIDE DEF c, z, k
  <1>3. Ip(e) \in S /\ Zone(e) \in S /\ l \in LinksAround(e)
    BY <1>1 DEF IdsAround, LinksAround
  <1>4. i \in Seq(S) /\ (c => Ip(e) \in ToSet(i)) /\ j \in Seq(S) /\ (z => Zone(e) \in ToSet(j))
    BY <1>3, OneOrNone
  <1>5. OneIf(z, l) \in Seq(LinksAround(e)) /\ \A x \in ToSet(OneIf(z, l)) : z /\ x[1] = Zone(e) /\ x[3] = Ip(e)
    <2>1. OneIf(z, l) \in Seq(LinksAround(e)) /\ \A x \in ToSet(OneIf(z, l)) : z /\ x = l
      BY <1>3, OneOrNone
    <2> QED
      BY <2>1
  <1> HIDE DEF i, j, l
  <1>6. i \o j \in Seq(S) /\ ToSet(i \o j) = ToSet(i) \cup ToSet(j)
    BY <1>4, ToSetOfConcat
  <1> QED
    BY <1>1, <1>2, <1>4, <1>5, <1>6

-----------------------------------------------------------------------------
\* The rows that a writer has still to write.

EntityRows == UNION {[op : {"entity"}, id : IdsAround(e), case : {Event[e].case}] : e \in Events}
EdgeRows == UNION {[op : {"edge"}, edge : LinksAround(e)] : e \in Events}
Rows == EntityRows \cup EdgeRows

\* Before an edge come the entities at its ends, or they are known.
Grounded(rows, known) ==
  \A j \in DOMAIN rows : rows[j].op = "edge" =>
    \A x \in {rows[j].edge[1], rows[j].edge[3]} :
      x \in known \/ \E i \in DOMAIN rows : i < j /\ rows[i].op = "entity" /\ rows[i].id = x

IdsIn(rows) == {r.id : r \in {x \in ToSet(rows) : x.op = "entity"}}
LinksIn(rows) == {r.edge : r \in {x \in ToSet(rows) : x.op = "edge"}}

LEMMA UpsertRows ==
  ASSUME NEW e \in Events, NEW ids \in Seq(IdsAround(e))
  PROVE  /\ Upserts(e, ids) \in Seq(Rows)
         /\ \A i \in DOMAIN Upserts(e, ids) : Upserts(e, ids)[i].op = "entity"
         /\ IdsIn(Upserts(e, ids)) = ToSet(ids) /\ LinksIn(Upserts(e, ids)) = {}
  <1>1. Len(ids) \in Nat /\ DOMAIN ids = 1 .. Len(ids) /\ \A i \in 1 .. Len(ids) : ids[i] \in IdsAround(e)
    BY LenProperties, ElementOfSeq
  <1> DEFINE u == Upserts(e, ids)
  <1>2. u = [i \in 1 .. Len(ids) |-> [op |-> "entity", id |-> ids[i], case |-> Event[e].case]]
    BY <1>1 DEF Upserts
  <1>3. \A i \in 1 .. Len(ids) : [op |-> "entity", id |-> ids[i], case |-> Event[e].case] \in EntityRows
    BY <1>1 DEF EntityRows
  <1>4. u \in [1 .. Len(ids) -> Rows]
    BY <1>2, <1>3 DEF Rows
  <1>5. u \in Seq(Rows)
    BY <1>1, <1>4, SeqDef
  <1>6. \A i \in 1 .. Len(ids) : u[i].op = "entity" /\ u[i].id = ids[i]
    BY <1>2
  <1>7. DOMAIN u = 1 .. Len(ids)
    BY <1>2
  <1> HIDE DEF u
  <1>8. IdsIn(u) = ToSet(ids)
    BY <1>1, <1>6, <1>7 DEF IdsIn, ToSet
  <1>9. LinksIn(u) = {}
    BY <1>6, <1>7 DEF LinksIn, ToSet
  <1> QED
    BY <1>5, <1>6, <1>7, <1>8, <1>9 DEF u

LEMMA InsertRows ==
  ASSUME NEW e \in Events, NEW es \in Seq(LinksAround(e))
  PROVE  /\ Inserts(es) \in Seq(Rows)
         /\ \A i \in DOMAIN Inserts(es) : Inserts(es)[i].op = "edge" /\ Inserts(es)[i].edge \in ToSet(es)
         /\ IdsIn(Inserts(es)) = {} /\ LinksIn(Inserts(es)) = ToSet(es)
  <1>1. Len(es) \in Nat /\ DOMAIN es = 1 .. Len(es) /\ \A i \in 1 .. Len(es) : es[i] \in LinksAround(e)
    BY LenProperties, ElementOfSeq
  <1> DEFINE u == Inserts(es)
  <1>2. u = [i \in 1 .. Len(es) |-> [op |-> "edge", edge |-> es[i]]]
    BY <1>1 DEF Inserts
  <1>3. \A i \in 1 .. Len(es) : [op |-> "edge", edge |-> es[i]] \in EdgeRows
    BY <1>1 DEF EdgeRows
  <1>4. u \in [1 .. Len(es) -> Rows]
    BY <1>2, <1>3 DEF Rows
  <1>5. u \in Seq(Rows)
    BY <1>1, <1>4, SeqDef
  <1>6. \A i \in 1 .. Len(es) : u[i].op = "edge" /\ u[i].edge = es[i]
    BY <1>2
  <1>7. DOMAIN u = 1 .. Len(es)
    BY <1>2
  <1> HIDE DEF u
  <1>8. LinksIn(u) = ToSet(es)
    BY <1>1, <1>6, <1>7 DEF LinksIn, ToSet
  <1>9. IdsIn(u) = {}
    BY <1>6, <1>7 DEF IdsIn, ToSet
  <1>10. \A i \in DOMAIN u : u[i].op = "edge" /\ u[i].edge \in ToSet(es)
    BY <1>1, <1>6, <1>7 DEF ToSet
  <1> QED
    BY <1>5, <1>8, <1>9, <1>10 DEF u

\* Edges may follow when the entities at their ends are known or come before.
LEMMA RowsAfterRows ==
  ASSUME NEW known, NEW s \in Seq(Rows), NEW t \in Seq(Rows), Grounded(s, known),
         \A i \in DOMAIN t : t[i].op = "edge" => {t[i].edge[1], t[i].edge[3]} \subseteq known \cup IdsIn(s)
  PROVE  /\ s \o t \in Seq(Rows) /\ Grounded(s \o t, known)
         /\ IdsIn(s \o t) = IdsIn(s) \cup IdsIn(t) /\ LinksIn(s \o t) = LinksIn(s) \cup LinksIn(t)
  <1> DEFINE r == s \o t
  <1>1. /\ r \in Seq(Rows) /\ Len(s) \in Nat /\ Len(t) \in Nat
        /\ DOMAIN s = 1 .. Len(s) /\ DOMAIN t = 1 .. Len(t) /\ DOMAIN r = 1 .. Len(s) + Len(t)
        /\ \A i \in 1 .. Len(s) + Len(t) : r[i] = IF i <= Len(s) THEN s[i] ELSE t[i - Len(s)]
    BY ConcatProperties, LenProperties
  <1>2. ToSet(r) = ToSet(s) \cup ToSet(t)
    BY ToSetOfConcat
  <1> HIDE DEF r
  <1>3. IdsIn(r) = IdsIn(s) \cup IdsIn(t)
    BY <1>2 DEF IdsIn
  <1>4. LinksIn(r) = LinksIn(s) \cup LinksIn(t)
    BY <1>2 DEF LinksIn
  <1>5. \A i \in 1 .. Len(s) : i \in DOMAIN r /\ r[i] = s[i]
    BY <1>1
  <1>6. Grounded(r, known)
    <2> SUFFICES ASSUME NEW j \in DOMAIN r, r[j].op = "edge", NEW x \in {r[j].edge[1], r[j].edge[3]}, x \notin known
                 PROVE  \E i \in DOMAIN r : i < j /\ r[i].op = "entity" /\ r[i].id = x
      BY DEF Grounded
    <2>1. CASE j <= Len(s)
      <3>1. j \in DOMAIN s /\ r[j] = s[j]
        BY <1>1, <2>1
      <3>2. PICK i \in DOMAIN s : i < j /\ s[i].op = "entity" /\ s[i].id = x
        BY <3>1 DEF Grounded
      <3> QED
        BY <1>1, <1>5, <3>2
    <2>2. CASE ~(j <= Len(s))
      <3>1. j - Len(s) \in DOMAIN t /\ r[j] = t[j - Len(s)]
        BY <1>1, <2>2
      <3>2. x \in IdsIn(s)
        BY <3>1
      <3>3. PICK i \in DOMAIN s : s[i].op = "entity" /\ s[i].id = x
        BY <3>2 DEF IdsIn, ToSet
      <3>4. i < j
        BY <1>1, <2>2, <3>3
      <3> QED
        BY <1>1, <1>5, <3>3, <3>4
    <2> QED
      BY <2>1, <2>2
  <1> QED
    BY <1>1, <1>3, <1>4, <1>6 DEF r

LEMMA RowsOfEvent ==
  ASSUME NEW e \in Events
  PROVE  RowsOf(e) \in Seq(Rows) /\ \A known : Grounded(RowsOf(e), known)
  <1> SUFFICES ASSUME NEW known PROVE RowsOf(e) \in Seq(Rows) /\ Grounded(RowsOf(e), known)
    OBVIOUS
  <1> DEFINE a == Upserts(e, EntitiesOf(e))
             b == Inserts(EdgesOf(e))
             c == Upserts(e, PerimeterEntities(e))
             d == Inserts(PerimeterEdges(e))
             p == a \o b
             q == p \o c
             r == q \o d
  <1>1. /\ a \in Seq(Rows) /\ IdsIn(a) = ToSet(EntitiesOf(e)) /\ Grounded(a, known)
    BY UpsertRows, EntitiesOfEvent DEF Grounded
  <1>2. /\ b \in Seq(Rows)
        /\ \A i \in DOMAIN b : b[i].op = "edge" => {b[i].edge[1], b[i].edge[3]} \subseteq ToSet(EntitiesOf(e))
    BY InsertRows, EdgesOfEvent
  <1>3. /\ c \in Seq(Rows) /\ IdsIn(c) = ToSet(PerimeterEntities(e))
        /\ \A i \in DOMAIN c : c[i].op # "edge"
    BY UpsertRows, PerimeterOfEvent
  <1>4. /\ d \in Seq(Rows)
        /\ \A i \in DOMAIN d : d[i].op = "edge" => {d[i].edge[1], d[i].edge[3]} \subseteq ToSet(PerimeterEntities(e))
    BY InsertRows, PerimeterOfEvent
  <1>5. RowsOf(e) = r
    BY DEF RowsOf
  <1> HIDE DEF a, b, c, d
  <1>6. p \in Seq(Rows) /\ Grounded(p, known)
    BY <1>1, <1>2, RowsAfterRows
  <1> HIDE DEF p
  <1>7. q \in Seq(Rows) /\ Grounded(q, known) /\ IdsIn(q) = IdsIn(p) \cup IdsIn(c)
    BY <1>3, <1>6, RowsAfterRows
  <1> HIDE DEF q
  <1>8. r \in Seq(Rows) /\ Grounded(r, known)
    BY <1>3, <1>4, <1>7, RowsAfterRows
  <1> QED
    BY <1>5, <1>8

LEMMA FillRowsOfEvent ==
  ASSUME NEW e \in Events
  PROVE  /\ FillRowsOf(e) \in Seq(Rows) /\ \A known : Grounded(FillRowsOf(e), known)
         /\ IdsIn(FillRowsOf(e)) = IdsOf(e) /\ LinksIn(FillRowsOf(e)) = LinksOf(e)
  <1> SUFFICES ASSUME NEW known
               PROVE  /\ FillRowsOf(e) \in Seq(Rows) /\ Grounded(FillRowsOf(e), known)
                      /\ IdsIn(FillRowsOf(e)) = IdsOf(e) /\ LinksIn(FillRowsOf(e)) = LinksOf(e)
    OBVIOUS
  <1> DEFINE ids == EntitiesOf(e) \o PerimeterEntities(e)
             es == EdgesOf(e) \o PerimeterEdges(e)
             a == Upserts(e, ids)
             b == Inserts(es)
  <1>1. ids \in Seq(IdsAround(e)) /\ ToSet(ids) = IdsOf(e)
    BY EntitiesOfEvent, PerimeterOfEvent, ToSetOfConcat DEF IdsOf
  <1>2. es \in Seq(LinksAround(e)) /\ ToSet(es) = LinksOf(e)
    BY EdgesOfEvent, PerimeterOfEvent, ToSetOfConcat DEF LinksOf
  <1>3. \A l \in LinksOf(e) : {l[1], l[3]} \subseteq IdsOf(e)
    BY EdgesOfEvent, PerimeterOfEvent DEF LinksOf, IdsOf
  <1>4. FillRowsOf(e) = a \o b
    BY DEF FillRowsOf
  <1> HIDE DEF ids, es
  <1>5. a \in Seq(Rows) /\ Grounded(a, known) /\ IdsIn(a) = IdsOf(e) /\ LinksIn(a) = {}
    BY <1>1, UpsertRows DEF Grounded
  <1>6. /\ b \in Seq(Rows) /\ IdsIn(b) = {} /\ LinksIn(b) = LinksOf(e)
        /\ \A i \in DOMAIN b : {b[i].edge[1], b[i].edge[3]} \subseteq IdsOf(e)
    BY <1>2, <1>3, InsertRows
  <1> HIDE DEF a, b
  <1>7. \A i \in DOMAIN b : b[i].op = "edge" => {b[i].edge[1], b[i].edge[3]} \subseteq known \cup IdsIn(a)
    BY <1>5, <1>6
  <1> DEFINE p == a \o b
  <1>8. /\ p \in Seq(Rows) /\ Grounded(p, known)
        /\ IdsIn(p) = IdsIn(a) \cup IdsIn(b) /\ LinksIn(p) = LinksIn(a) \cup LinksIn(b)
    <2>1. a \in Seq(Rows) /\ b \in Seq(Rows) /\ Grounded(a, known)
      BY <1>5, <1>6
    <2> QED
      BY ONLY <1>7, <2>1, RowsAfterRows
  <1>9. FillRowsOf(e) = p
    BY <1>4
  <1> HIDE DEF p
  <1> QED
    BY <1>5, <1>6, <1>8, <1>9

LEMMA KnownGrows ==
  ASSUME NEW rows, NEW known, NEW more, Grounded(rows, known), known \subseteq more
  PROVE  Grounded(rows, more)
  BY DEF Grounded

\* The first row is written.
LEMMA FirstRow ==
  ASSUME NEW rows \in Seq(Rows), rows # <<>>, NEW known, Grounded(rows, known)
  PROVE  /\ rows[1] \in Rows /\ Tail(rows) \in Seq(Rows)
         /\ rows[1].op = "edge" => rows[1].edge[1] \in known /\ rows[1].edge[3] \in known /\ Grounded(Tail(rows), known)
         /\ rows[1].op = "entity" => Grounded(Tail(rows), known \cup {rows[1].id})
         /\ ToSet(rows) = {rows[1]} \cup ToSet(Tail(rows))
  <1> DEFINE t == Tail(rows)
  <1>1. /\ Len(rows) \in Nat \ {0} /\ DOMAIN rows = 1 .. Len(rows)
        /\ t \in Seq(Rows) /\ Len(t) = Len(rows) - 1 /\ DOMAIN t = 1 .. Len(t)
        /\ \A i \in 1 .. Len(t) : t[i] = rows[i + 1]
    BY LenProperties, EmptySeq, HeadTailProperties
  <1>2. 1 \in DOMAIN rows /\ rows[1] \in Rows
    BY <1>1, ElementOfSeq
  <1> HIDE DEF t
  <1>3. ToSet(rows) = {rows[1]} \cup ToSet(t)
    <2>1. \A i \in 1 .. Len(rows) : i = 1 \/ (i - 1 \in 1 .. Len(t) /\ rows[i] = t[i - 1])
      BY <1>1
    <2>2. \A i \in 1 .. Len(t) : i + 1 \in 1 .. Len(rows) /\ t[i] = rows[i + 1]
      BY <1>1
    <2>3. ToSet(rows) \subseteq {rows[1]} \cup ToSet(t)
      <3> SUFFICES ASSUME NEW i \in 1 .. Len(rows) PROVE rows[i] \in {rows[1]} \cup ToSet(t)
        BY <1>1 DEF ToSet
      <3> QED
        BY <1>1, <2>1 DEF ToSet
    <2>4. rows[1] \in ToSet(rows)
      BY <1>2 DEF ToSet
    <2>5. ToSet(t) \subseteq ToSet(rows)
      BY <1>1, <2>2 DEF ToSet
    <2> QED
      BY <2>3, <2>4, <2>5
  <1>4. ASSUME rows[1].op = "edge" PROVE rows[1].edge[1] \in known /\ rows[1].edge[3] \in known
    <2>1. \A i \in DOMAIN rows : ~(i < 1)
      BY <1>1
    <2> QED
      BY <1>2, <1>4, <2>1 DEF Grounded
  <1>5. ASSUME NEW more, known \subseteq more, rows[1].op = "entity" => rows[1].id \in more
        PROVE  Grounded(t, more)
    <2> SUFFICES ASSUME NEW j \in DOMAIN t, t[j].op = "edge", NEW x \in {t[j].edge[1], t[j].edge[3]}, x \notin more
                 PROVE  \E i \in DOMAIN t : i < j /\ t[i].op = "entity" /\ t[i].id = x
      BY DEF Grounded
    <2>1. j + 1 \in DOMAIN rows /\ rows[j + 1] = t[j]
      BY <1>1
    <2>2. PICK i \in DOMAIN rows : i < j + 1 /\ rows[i].op = "entity" /\ rows[i].id = x
      BY <1>5, <2>1 DEF Grounded
    <2>3. i # 1
      BY <1>5, <2>2
    <2>4. i - 1 \in DOMAIN t /\ t[i - 1] = rows[i] /\ i - 1 < j
      BY <1>1, <2>2, <2>3
    <2> QED
      BY <2>2, <2>4
  <1>6. rows[1].op = "edge" => Grounded(t, known)
    BY <1>5
  <1>7. rows[1].op = "entity" => Grounded(t, known \cup {rows[1].id})
    BY <1>5
  <1> QED
    BY <1>1, <1>2, <1>3, <1>4, <1>6, <1>7 DEF t

\* There is no row: nothing is written and nothing is missing.
LEMMA EmptyRows ==
  ASSUME NEW known
  PROVE  <<>> \in Seq(Rows) /\ Grounded(<<>>, known) /\ IdsIn(<<>>) = {} /\ LinksIn(<<>>) = {}
  BY DEF Grounded, IdsIn, LinksIn, ToSet

-----------------------------------------------------------------------------
\* The inductive invariant.

DrawnIds == {edge[1] : edge \in Drawn}
AllIds == (UNION {IdsAround(e) : e \in Events}) \cup DrawnIds

Known == DOMAIN entities \cup raced

GraphTypes ==
  /\ stored \subseteq Events /\ IsFiniteSet(stored)
  /\ DOMAIN entities \subseteq AllIds
  /\ batch \in [todo : Seq(Events), rows : Seq(Rows)]
  /\ fill \in [state : {"idle", "running", "done", "aborted"}, todo : Seq(Events), rows : Seq(Rows),
               read : SUBSET Events, spoiled : SUBSET AllIds]

\* What is read has been written, is being written or is still to come,
\* except where an entity was deleted meanwhile.
FillProgress ==
  fill.state = "running" =>
    \A e \in fill.read : IdsOf(e) \cap fill.spoiled = {} =>
      \/ \E i \in 2 .. Len(fill.todo) : fill.todo[i] = e
      \/ IdsOf(e) \subseteq DOMAIN entities \cup IdsIn(fill.rows) /\ LinksOf(e) \subseteq edges \cup LinksIn(fill.rows)

RowsAreGrounded == Grounded(batch.rows, Known) /\ Grounded(fill.rows, Known)

GraphInv == GraphTypes /\ RowsAreGrounded /\ EdgesHaveEnds /\ FillProgress /\ BackfillIsWhole

-----------------------------------------------------------------------------
\* What the steps have in common.

LEMMA NewestAreRead ==
  ASSUME NEW S, S \subseteq Events, IsFiniteSet(S), NEW s \in Newest(S)
  PROVE  s \in Seq(Events) /\ ToSet(s) \subseteq S
  <1> DEFINE n == IF Limit < Cardinality(S) THEN Limit ELSE Cardinality(S)
  <1>1. n \in Nat
    BY FS_CardinalityType, ThreatGraphAssumption
  <1>2. s \in [1 .. n -> S]
    BY DEF Newest
  <1> HIDE DEF n
  <1>3. s \in Seq(S)
    BY <1>1, <1>2, SeqDef
  <1>4. ToSet(s) \subseteq S
    BY <1>2 DEF ToSet
  <1>5. s \in [1 .. n -> Events]
    BY <1>2
  <1>6. s \in Seq(Events)
    BY <1>1, <1>5, SeqDef
  <1> QED
    BY <1>4, <1>6

LEMMA RowKinds ==
  ASSUME NEW r \in Rows
  PROVE  \/ r.op = "entity" /\ r.id \in AllIds
         \/ r.op = "edge"
  BY DEF Rows, EntityRows, EdgeRows, AllIds

\* One row is written: the graph grows, and what remains is still grounded.
LEMMA RowIsWritten ==
  ASSUME GraphTypes, EdgesHaveEnds, NEW rows \in Seq(Rows), rows # <<>>, Grounded(rows, Known),
         Write(rows[1]), raced' = raced
  PROVE  /\ DOMAIN entities \subseteq DOMAIN entities' /\ edges \subseteq edges'
         /\ DOMAIN entities' \subseteq AllIds
         /\ Tail(rows) \in Seq(Rows) /\ Grounded(Tail(rows), Known') /\ EdgesHaveEnds'
         /\ IdsIn(rows) \subseteq DOMAIN entities' \cup IdsIn(Tail(rows))
         /\ LinksIn(rows) \subseteq edges' \cup LinksIn(Tail(rows))
  <1> DEFINE r == rows[1]
             t == Tail(rows)
  <1>1. /\ r \in Rows /\ t \in Seq(Rows)
        /\ r.op = "edge" => r.edge[1] \in Known /\ r.edge[3] \in Known /\ Grounded(t, Known)
        /\ r.op = "entity" => Grounded(t, Known \cup {r.id})
        /\ ToSet(rows) = {r} \cup ToSet(t)
    BY FirstRow
  <1>2. \/ r.op = "entity" /\ r.id \in AllIds
        \/ r.op = "edge"
    BY <1>1, RowKinds
  <1>3. Write(r)
    OBVIOUS
  <1> HIDE DEF r, t
  <1>4. CASE r.op = "entity"
    <2>1. DOMAIN entities' = DOMAIN entities \cup {r.id} /\ edges' = edges
      BY <1>3, <1>4 DEF Write
    <2>2. Known' = Known \cup {r.id}
      BY <2>1 DEF Known
    <2>3. IdsIn(rows) \subseteq IdsIn(t) \cup {r.id} /\ LinksIn(rows) = LinksIn(t)
      BY <1>1, <1>4 DEF IdsIn, LinksIn
    <2>4. EdgesHaveEnds'
      BY <2>1 DEF EdgesHaveEnds
    <2>5. DOMAIN entities' \subseteq AllIds
      BY <1>2, <1>4, <2>1 DEF GraphTypes
    <2> QED
      BY <1>1, <1>4, <2>1, <2>2, <2>3, <2>4, <2>5 DEF t
  <1>5. CASE r.op = "edge"
    <2>1. entities' = entities /\ edges' = edges \cup {r.edge}
      BY <1>3, <1>5 DEF Write
    <2>2. Known' = Known
      BY <2>1 DEF Known
    <2>3. LinksIn(rows) \subseteq LinksIn(t) \cup {r.edge} /\ IdsIn(rows) = IdsIn(t)
      BY <1>1, <1>5 DEF IdsIn, LinksIn
    <2>4. EdgesHaveEnds'
      BY <1>1, <1>5, <2>1 DEF EdgesHaveEnds, Known
    <2> QED
      BY <1>1, <1>5, <2>1, <2>2, <2>3, <2>4 DEF t, GraphTypes
  <1> QED
    BY <1>2, <1>4, <1>5

\* Whatever makes the graph grow keeps what was written complete.
LEMMA GraphGrows ==
  ASSUME DOMAIN entities \subseteq DOMAIN entities', edges \subseteq edges'
  PROVE  /\ BackfillIsWhole /\ restored' = restored => BackfillIsWhole'
         /\ FillProgress /\ fill' = fill => FillProgress'
         /\ raced \subseteq raced' => Known \subseteq Known'
  <1>1. BackfillIsWhole /\ restored' = restored => BackfillIsWhole'
    BY DEF BackfillIsWhole
  <1>2. ASSUME FillProgress, fill' = fill PROVE FillProgress'
    BY <1>2 DEF FillProgress
  <1>3. raced \subseteq raced' => Known \subseteq Known'
    BY DEF Known
  <1> QED
    BY <1>1, <1>2, <1>3

\* The batch goes on to its next event.
LEMMA BatchGoesOn ==
  ASSUME GraphTypes, NEW known
  PROVE  /\ NextOf(batch) \in [todo : Seq(Events), rows : Seq(Rows)]
         /\ Grounded(NextOf(batch).rows, known)
  <1>1. CASE Len(batch.todo) <= 1
    BY <1>1, EmptyRows DEF NextOf, NoBatch
  <1>2. CASE ~(Len(batch.todo) <= 1)
    <2>1. batch.todo \in Seq(Events) /\ Len(batch.todo) \in Nat
      BY LenProperties DEF GraphTypes
    <2>2. batch.todo[2] \in Events
      BY <1>2, <2>1, ElementOfSeq
    <2>3. batch.todo # <<>>
      BY <1>2
    <2>4. Tail(batch.todo) \in Seq(Events)
      BY <2>1, <2>3, HeadTailProperties
    <2>5. RowsOf(batch.todo[2]) \in Seq(Rows) /\ Grounded(RowsOf(batch.todo[2]), known)
      BY <2>2, RowsOfEvent
    <2> QED
      BY <1>2, <2>4, <2>5 DEF NextOf
  <1> QED
    BY <1>1, <1>2

LEMMA EndsOfLinks ==
  ASSUME NEW e, NEW l \in LinksOf(e)
  PROVE  l[1] \in IdsOf(e) /\ l[3] \in IdsOf(e)
  BY EdgesOfEvent, PerimeterOfEvent DEF LinksOf, IdsOf

-----------------------------------------------------------------------------
\* One lemma for each action that can disturb the invariant.

FillType == [state : {"idle", "running", "done", "aborted"}, todo : Seq(Events), rows : Seq(Rows),
             read : SUBSET Events, spoiled : SUBSET AllIds]

\* Nothing is written and nothing is deleted: only batch or fill changes.
LEMMA GraphIsKept ==
  ASSUME GraphInv, UNCHANGED <<entities, edges, restored, raced>>,
         stored' \subseteq Events, IsFiniteSet(stored'),
         batch' = batch \/ (batch' \in [todo : Seq(Events), rows : Seq(Rows)] /\ Grounded(batch'.rows, Known)),
         fill' = fill \/ (fill' \in FillType /\ Grounded(fill'.rows, Known) /\ FillProgress')
  PROVE  GraphInv'
  <1>1. Known' = Known
    BY DEF Known
  <1>2. GraphTypes'
    BY DEF GraphInv, GraphTypes, FillType
  <1>3. RowsAreGrounded'
    BY <1>1 DEF GraphInv, RowsAreGrounded
  <1>4. EdgesHaveEnds' /\ BackfillIsWhole'
    BY DEF GraphInv, EdgesHaveEnds, BackfillIsWhole
  <1>5. FillProgress'
    BY GraphGrows DEF GraphInv
  <1> QED
    BY <1>2, <1>3, <1>4, <1>5 DEF GraphInv

LEMMA StoreKeeps ==
  ASSUME GraphInv, NEW es \in Batches, Store(es)
  PROVE  GraphInv'
  <1>1. es \in Seq(Events) /\ Len(es) > 0
    BY ThreatGraphAssumption DEF Store
  <1>2. /\ es \in [1 .. Len(es) -> Events] /\ Len(es) \in Nat /\ DOMAIN es = 1 .. Len(es)
        /\ es[1] \in Events
    BY <1>1, LenProperties, ElementOfSeq
  <1>3. ToSet(es) \subseteq Events
    BY <1>2 DEF ToSet
  <1>4. IsFiniteSet(ToSet(es))
    <2>1. IsFiniteSet(1 .. Len(es))
      <3>1. 1 \in Int /\ Len(es) \in Int
        BY <1>2
      <3> QED
        BY <3>1, FS_Interval
    <2>2. es \in Surjection(1 .. Len(es), ToSet(es))
      BY <1>2 DEF ToSet, Surjection
    <2> QED
      BY <2>1, <2>2, FS_Surjection
  <1>5. stored' \subseteq Events /\ IsFiniteSet(stored')
    BY <1>3, <1>4, FS_Union DEF Store, GraphInv, GraphTypes
  <1>6. RowsOf(es[1]) \in Seq(Rows) /\ Grounded(RowsOf(es[1]), Known)
    BY <1>2, RowsOfEvent
  <1>7. batch' \in [todo : Seq(Events), rows : Seq(Rows)] /\ Grounded(batch'.rows, Known)
    BY <1>1, <1>6 DEF Store
  <1>8. UNCHANGED <<entities, edges, restored, raced, fill>>
    BY DEF Store
  <1> QED
    BY <1>5, <1>7, <1>8, GraphIsKept

LEMMA NextOfKeeps ==
  ASSUME GraphInv, GiveUp \/ NextEvent
  PROVE  GraphInv'
  <1>1. batch' = NextOf(batch) /\ UNCHANGED <<stored, entities, edges, fill, restored, raced>>
    BY DEF GiveUp, NextEvent
  <1>2. NextOf(batch) \in [todo : Seq(Events), rows : Seq(Rows)] /\ Grounded(NextOf(batch).rows, Known)
    BY BatchGoesOn DEF GraphInv
  <1>3. stored' \subseteq Events /\ IsFiniteSet(stored')
    BY <1>1 DEF GraphInv, GraphTypes
  <1> QED
    BY <1>1, <1>2, <1>3, GraphIsKept

LEMMA WriteRowKeeps ==
  ASSUME GraphInv, WriteRow
  PROVE  GraphInv'
  <1> DEFINE rows == batch.rows
  <1>1. rows # <<>> /\ Write(rows[1]) /\ batch' = [batch EXCEPT !.rows = Tail(@)]
    BY DEF WriteRow
  <1>2. UNCHANGED <<stored, fill, restored, raced>>
    BY DEF WriteRow
  <1>3. GraphTypes /\ EdgesHaveEnds /\ rows \in Seq(Rows) /\ Grounded(rows, Known)
    BY DEF GraphInv, GraphTypes, RowsAreGrounded
  <1>4. /\ DOMAIN entities \subseteq DOMAIN entities' /\ edges \subseteq edges'
        /\ DOMAIN entities' \subseteq AllIds
        /\ Tail(rows) \in Seq(Rows) /\ Grounded(Tail(rows), Known') /\ EdgesHaveEnds'
    BY <1>1, <1>2, <1>3, RowIsWritten
  <1>5. batch' \in [todo : Seq(Events), rows : Seq(Rows)] /\ batch'.rows = Tail(rows)
    BY <1>1, <1>3, <1>4 DEF GraphTypes
  <1>6. BackfillIsWhole' /\ FillProgress' /\ Known \subseteq Known'
    BY <1>2, <1>4, GraphGrows DEF GraphInv
  <1>7. Grounded(fill'.rows, Known')
    BY <1>2, <1>6, KnownGrows DEF GraphInv, RowsAreGrounded
  <1>8. GraphTypes'
    BY <1>2, <1>3, <1>4, <1>5 DEF GraphTypes
  <1>9. RowsAreGrounded'
    BY <1>4, <1>5, <1>7 DEF RowsAreGrounded
  <1> QED
    BY <1>4, <1>6, <1>8, <1>9 DEF GraphInv

LEMMA FillRowKeeps ==
  ASSUME GraphInv, FillRow
  PROVE  GraphInv'
  <1> DEFINE rows == fill.rows
  <1>1. rows # <<>> /\ Write(rows[1]) /\ fill' = [fill EXCEPT !.rows = Tail(@)]
    BY DEF FillRow
  <1>2. UNCHANGED <<stored, batch, restored, raced>>
    BY DEF FillRow
  <1>3. GraphTypes /\ EdgesHaveEnds /\ rows \in Seq(Rows) /\ Grounded(rows, Known)
    BY DEF GraphInv, GraphTypes, RowsAreGrounded
  <1>4. /\ DOMAIN entities \subseteq DOMAIN entities' /\ edges \subseteq edges'
        /\ DOMAIN entities' \subseteq AllIds
        /\ Tail(rows) \in Seq(Rows) /\ Grounded(Tail(rows), Known') /\ EdgesHaveEnds'
        /\ IdsIn(rows) \subseteq DOMAIN entities' \cup IdsIn(Tail(rows))
        /\ LinksIn(rows) \subseteq edges' \cup LinksIn(Tail(rows))
    BY <1>1, <1>2, <1>3, RowIsWritten
  <1>5. fill \in FillType
    BY <1>3 DEF GraphTypes, FillType
  <1>6. /\ fill' \in FillType /\ fill'.rows = Tail(rows) /\ fill'.todo = fill.todo
        /\ fill'.state = fill.state /\ fill'.read = fill.read /\ fill'.spoiled = fill.spoiled
    BY <1>1, <1>4, <1>5 DEF FillType
  <1>7. BackfillIsWhole' /\ Known \subseteq Known'
    BY <1>2, <1>4, GraphGrows DEF GraphInv
  <1>8. FillProgress'
    <2> SUFFICES ASSUME fill.state = "running", NEW e \in fill.read, IdsOf(e) \cap fill.spoiled = {},
                        ~ \E i \in 2 .. Len(fill.todo) : fill.todo[i] = e
                 PROVE  /\ IdsOf(e) \subseteq DOMAIN entities' \cup IdsIn(Tail(rows))
                        /\ LinksOf(e) \subseteq edges' \cup LinksIn(Tail(rows))
      BY <1>6 DEF FillProgress
    <2>1. IdsOf(e) \subseteq DOMAIN entities \cup IdsIn(rows) /\ LinksOf(e) \subseteq edges \cup LinksIn(rows)
      BY DEF GraphInv, FillProgress
    <2> QED
      BY <1>4, <2>1
  <1>9. Grounded(batch'.rows, Known')
    BY <1>2, <1>7, KnownGrows DEF GraphInv, RowsAreGrounded
  <1>10. GraphTypes'
    BY <1>2, <1>3, <1>4, <1>6 DEF GraphTypes, FillType
  <1>11. RowsAreGrounded'
    BY <1>4, <1>6, <1>9 DEF RowsAreGrounded
  <1> QED
    BY <1>4, <1>7, <1>8, <1>10, <1>11 DEF GraphInv

LEMMA BackfillKeeps ==
  ASSUME GraphInv, NEW only \in BOOLEAN, Backfill(only)
  PROVE  GraphInv'
  <1> DEFINE S == {e \in stored : only => Event[e].firewall}
  <1>1. S \subseteq stored
    OBVIOUS
  <1>2. S \subseteq Events /\ IsFiniteSet(S) /\ stored \subseteq Events /\ IsFiniteSet(stored)
    BY <1>1, FS_Subset DEF GraphInv, GraphTypes
  <1>3. PICK s \in Newest(S) :
          /\ s # <<>>
          /\ fill' = [state |-> "running", todo |-> s, rows |-> FillRowsOf(s[1]), read |-> ToSet(s), spoiled |-> {}]
          /\ UNCHANGED <<stored, entities, edges, batch, restored, raced>>
    BY DEF Backfill
  <1> HIDE DEF S
  <1>4. s \in Seq(Events) /\ ToSet(s) \subseteq Events
    BY <1>2, <1>3, NewestAreRead
  <1>5. Len(s) \in Nat \ {0} /\ DOMAIN s = 1 .. Len(s)
    BY <1>3, <1>4, LenProperties, EmptySeq
  <1>6. s[1] \in Events
    BY <1>4, <1>5, ElementOfSeq
  <1>7. /\ FillRowsOf(s[1]) \in Seq(Rows) /\ Grounded(FillRowsOf(s[1]), Known)
        /\ IdsIn(FillRowsOf(s[1])) = IdsOf(s[1]) /\ LinksIn(FillRowsOf(s[1])) = LinksOf(s[1])
    BY <1>6, FillRowsOfEvent
  <1>8. fill' \in FillType /\ Grounded(fill'.rows, Known)
    BY <1>3, <1>4, <1>7 DEF FillType
  <1>9. FillProgress'
    <2> SUFFICES ASSUME NEW e \in ToSet(s), ~ \E i \in 2 .. Len(s) : s[i] = e
                 PROVE  /\ IdsOf(e) \subseteq IdsIn(FillRowsOf(s[1])) /\ LinksOf(e) \subseteq LinksIn(FillRowsOf(s[1]))
      BY <1>3 DEF FillProgress
    <2>1. PICK i \in 1 .. Len(s) : s[i] = e
      BY <1>5 DEF ToSet
    <2>2. i = 1
      BY <1>5, <2>1
    <2> QED
      BY <1>7, <2>1, <2>2
  <1> QED
    BY <1>2, <1>3, <1>8, <1>9, GraphIsKept

LEMMA FillEndsKeep ==
  ASSUME GraphInv, FillFails
  PROVE  GraphInv'
  <1>1. /\ fill' = [NoFill EXCEPT !.state = "aborted"]
        /\ UNCHANGED <<stored, entities, edges, batch, restored, raced>>
    BY DEF FillFails, AfterError
  <1>2. fill' = [state |-> "aborted", todo |-> <<>>, rows |-> <<>>, read |-> {}, spoiled |-> {}]
    BY <1>1 DEF NoFill
  <1>3. fill' \in FillType /\ Grounded(fill'.rows, Known) /\ FillProgress'
    BY <1>2, EmptyRows DEF FillType, FillProgress
  <1>4. stored' \subseteq Events /\ IsFiniteSet(stored')
    BY <1>1 DEF GraphInv, GraphTypes
  <1> QED
    BY <1>1, <1>3, <1>4, GraphIsKept

LEMMA GraphCrashKeeps ==
  ASSUME GraphInv, GraphCrash
  PROVE  GraphInv'
  <1>1. fill' = NoFill /\ batch' = NoBatch /\ UNCHANGED <<stored, entities, edges, restored, raced>>
    BY DEF GraphCrash
  <1>2. fill' \in FillType /\ Grounded(fill'.rows, Known) /\ FillProgress'
    BY <1>1, EmptyRows DEF NoFill, FillType, FillProgress
  <1>3. batch' \in [todo : Seq(Events), rows : Seq(Rows)] /\ Grounded(batch'.rows, Known)
    BY <1>1, EmptyRows DEF NoBatch
  <1>4. stored' \subseteq Events /\ IsFiniteSet(stored')
    BY <1>1 DEF GraphInv, GraphTypes
  <1> QED
    BY <1>1, <1>2, <1>3, <1>4, GraphIsKept

LEMMA FillNextKeeps ==
  ASSUME GraphInv, FillNext
  PROVE  GraphInv'
  <1> DEFINE left == fill.todo
             rows == FillRowsOf(left[2])
  <1>1. /\ fill.state = "running" /\ fill.rows = <<>> /\ Len(left) > 1
        /\ fill' = [fill EXCEPT !.todo = Tail(@), !.rows = rows]
        /\ UNCHANGED <<stored, entities, edges, batch, restored, raced>>
    BY DEF FillNext
  <1>2. fill \in FillType
    BY DEF GraphInv, GraphTypes, FillType
  <1>3. left \in Seq(Events) /\ Len(left) \in Nat /\ left # <<>>
    BY <1>1, <1>2, LenProperties DEF FillType
  <1>4. left[2] \in Events
    BY <1>1, <1>3, ElementOfSeq
  <1>5. /\ Tail(left) \in Seq(Events) /\ Len(Tail(left)) = Len(left) - 1
        /\ \A i \in 1 .. Len(Tail(left)) : Tail(left)[i] = left[i + 1]
    BY <1>3, HeadTailProperties
  <1>6. rows \in Seq(Rows) /\ Grounded(rows, Known) /\ IdsIn(rows) = IdsOf(left[2]) /\ LinksIn(rows) = LinksOf(left[2])
    BY <1>4, FillRowsOfEvent
  <1> HIDE DEF rows
  <1>7. /\ fill' \in FillType /\ fill'.todo = Tail(left) /\ fill'.rows = rows
        /\ fill'.state = "running" /\ fill'.read = fill.read /\ fill'.spoiled = fill.spoiled
    BY <1>1, <1>2, <1>5, <1>6 DEF FillType
  <1>8. FillProgress'
    <2> SUFFICES ASSUME NEW e \in fill.read, IdsOf(e) \cap fill.spoiled = {},
                        ~ \E i \in 2 .. Len(Tail(left)) : Tail(left)[i] = e
                 PROVE  IdsOf(e) \subseteq DOMAIN entities \cup IdsIn(rows) /\ LinksOf(e) \subseteq edges \cup LinksIn(rows)
      BY <1>1, <1>7 DEF FillProgress
    <2>1. CASE \E i \in 2 .. Len(left) : left[i] = e
      <3>1. PICK i \in 2 .. Len(left) : left[i] = e
        BY <2>1
      <3>2. CASE i = 2
        BY <1>6, <3>1, <3>2
      <3>3. CASE i # 2
        <4>1. i - 1 \in 2 .. Len(Tail(left)) /\ Tail(left)[i - 1] = left[i]
          BY <1>3, <1>5, <3>3
        <4> QED
          BY <3>1, <4>1
      <3> QED
        BY <3>2, <3>3
    <2>2. CASE ~ \E i \in 2 .. Len(left) : left[i] = e
      <3>1. IdsOf(e) \subseteq DOMAIN entities \cup IdsIn(<<>>) /\ LinksOf(e) \subseteq edges \cup LinksIn(<<>>)
        BY <1>1, <2>2 DEF GraphInv, FillProgress
      <3> QED
        BY <3>1, EmptyRows
    <2> QED
      BY <2>1, <2>2
  <1>9. stored' \subseteq Events /\ IsFiniteSet(stored') /\ Grounded(fill'.rows, Known)
    BY <1>1, <1>6, <1>7 DEF GraphInv, GraphTypes
  <1> QED
    BY <1>1, <1>7, <1>8, <1>9, GraphIsKept

LEMMA FillDoneKeeps ==
  ASSUME GraphInv, FillDone
  PROVE  GraphInv'
  <1>1. /\ fill.state = "running" /\ fill.rows = <<>> /\ Len(fill.todo) <= 1
        /\ restored' = restored \cup {e \in fill.read : IdsOf(e) \cap fill.spoiled = {}}
        /\ fill' = [NoFill EXCEPT !.state = "done"]
        /\ UNCHANGED <<stored, entities, edges, batch, raced>>
    BY DEF FillDone
  <1>2. fill' = [state |-> "done", todo |-> <<>>, rows |-> <<>>, read |-> {}, spoiled |-> {}]
    BY <1>1 DEF NoFill
  <1>3. fill.todo \in Seq(Events) /\ Len(fill.todo) \in Nat
    BY LenProperties DEF GraphInv, GraphTypes
  <1>4. ~ \E i \in 2 .. Len(fill.todo) : fill.todo[i] \in Events
    BY <1>1, <1>3
  <1>5. BackfillIsWhole'
    <2> SUFFICES ASSUME NEW e \in restored' PROVE IdsOf(e) \subseteq DOMAIN entities /\ LinksOf(e) \subseteq edges
      BY <1>1 DEF BackfillIsWhole
    <2>1. CASE e \in restored
      BY <2>1 DEF GraphInv, BackfillIsWhole
    <2>2. CASE e \in fill.read /\ IdsOf(e) \cap fill.spoiled = {}
      <3>1. IdsOf(e) \subseteq DOMAIN entities \cup IdsIn(<<>>) /\ LinksOf(e) \subseteq edges \cup LinksIn(<<>>)
        <4>1. 2 .. Len(fill.todo) = {}
          BY <1>1, <1>3
        <4> QED
          BY <1>1, <2>2, <4>1 DEF GraphInv, FillProgress
      <3> QED
        BY <3>1, EmptyRows
    <2> QED
      BY <1>1, <2>1, <2>2
  <1>6. EdgesHaveEnds'
    BY <1>1 DEF GraphInv, EdgesHaveEnds
  <1>7. FillProgress'
    BY <1>2 DEF FillProgress
  <1>8. fill' \in FillType
    BY <1>2, EmptyRows DEF FillType
  <1>9. GraphTypes'
    BY <1>1, <1>8 DEF GraphInv, GraphTypes, FillType
  <1>10. Grounded(fill'.rows, Known')
    BY <1>2, EmptyRows
  <1>11. Known' = Known /\ batch' = batch
    BY <1>1 DEF Known
  <1>12. RowsAreGrounded'
    BY <1>10, <1>11 DEF GraphInv, RowsAreGrounded
  <1> QED
    BY <1>5, <1>6, <1>7, <1>9, <1>12 DEF GraphInv

\* A request draws an edge or adds an entity.
LEMMA CreatesKeep ==
  ASSUME GraphInv, NEW edge \in Drawn, CreateEdge(edge) \/ CreateEntity(edge[1])
  PROVE  GraphInv'
  <1>1. UNCHANGED <<stored, batch, fill, restored, raced>>
    BY DEF CreateEdge, CreateEntity
  <1>2. /\ DOMAIN entities \subseteq DOMAIN entities' /\ edges \subseteq edges' /\ edges' \subseteq edges \cup {edge}
        /\ DOMAIN entities' \subseteq DOMAIN entities \cup {edge[1]}
    <2>1. CASE CreateEdge(edge)
      BY <2>1 DEF CreateEdge, Write
    <2>2. CASE CreateEntity(edge[1])
      BY <2>2 DEF CreateEntity, Write
    <2> QED
      BY <2>1, <2>2
  <1>3. BackfillIsWhole' /\ FillProgress' /\ Known \subseteq Known'
    BY <1>1, <1>2, GraphGrows DEF GraphInv
  <1>4. EdgesHaveEnds'
    BY <1>1, <1>2 DEF GraphInv, EdgesHaveEnds
  <1>5. edge[1] \in AllIds
    <2>1. edge[1] \in DrawnIds
      BY DEF DrawnIds
    <2> QED
      BY <2>1 DEF AllIds
  <1>6. GraphTypes'
    BY <1>1, <1>2, <1>5 DEF GraphInv, GraphTypes
  <1>7. RowsAreGrounded'
    BY <1>1, <1>3, KnownGrows DEF GraphInv, RowsAreGrounded
  <1> QED
    BY <1>3, <1>4, <1>6, <1>7 DEF GraphInv

\* What is grounded stays so, or the entity counts as deleted too early.
LEMMA GroundedWithout ==
  ASSUME NEW x, NEW rows, Grounded(rows, Known), DOMAIN entities' = DOMAIN entities \ {x}, raced \subseteq raced',
         x \in raced' \/ \A edge \in ToCome(rows) : ~Touches(edge, x)
  PROVE  Grounded(rows, Known')
  <1>1. CASE x \in raced'
    <2>1. Known \subseteq Known'
      BY <1>1 DEF Known
    <2> QED
      BY <2>1, KnownGrows
  <1>2. CASE \A edge \in ToCome(rows) : ~Touches(edge, x)
    <2>1. Known \ {x} \subseteq Known'
      BY DEF Known
    <2>2. \A j \in DOMAIN rows : rows[j].op = "edge" => x \notin {rows[j].edge[1], rows[j].edge[3]}
      BY <1>2 DEF ToCome, Touches
    <2> QED
      BY <2>1, <2>2 DEF Grounded
  <1> QED
    BY <1>1, <1>2

LEMMA DeleteKeeps ==
  ASSUME GraphInv, NEW x \in DOMAIN entities, DeleteEntity(x)
  PROVE  GraphInv'
  <1>1. /\ edges' = edges \ Cut(x)
        /\ entities' = [y \in DOMAIN entities \ {x} |-> entities[y]]
        /\ raced' = IF \E edge \in ToCome(batch.rows) \cup ToCome(fill.rows) : Touches(edge, x)
                    THEN raced \cup {x} ELSE raced
        /\ restored' = {e \in restored : x \notin IdsOf(e)}
        /\ fill' = [fill EXCEPT !.spoiled = IF fill.state = "running" THEN @ \cup {x} ELSE @]
        /\ UNCHANGED <<stored, batch>>
    BY DEF DeleteEntity
  <1>2. DOMAIN entities' = DOMAIN entities \ {x}
    BY <1>1
  <1>3. /\ raced \subseteq raced'
        /\ x \in raced' \/ \A edge \in ToCome(batch.rows) \cup ToCome(fill.rows) : ~Touches(edge, x)
    BY <1>1
  <1>4. fill \in FillType /\ x \in AllIds
    BY DEF GraphInv, GraphTypes, FillType
  <1>5. /\ fill' \in FillType /\ fill'.todo = fill.todo /\ fill'.rows = fill.rows /\ fill'.state = fill.state
        /\ fill'.read = fill.read
        /\ fill.state = "running" => fill'.spoiled = fill.spoiled \cup {x}
    BY <1>1, <1>4 DEF FillType
  <1>6. Grounded(batch.rows, Known') /\ Grounded(fill.rows, Known')
    <2>1. Grounded(batch.rows, Known) /\ Grounded(fill.rows, Known)
      BY DEF GraphInv, RowsAreGrounded
    <2>2. x \in raced' \/ \A edge \in ToCome(batch.rows) : ~Touches(edge, x)
      BY <1>3
    <2>3. x \in raced' \/ \A edge \in ToCome(fill.rows) : ~Touches(edge, x)
      BY <1>3
    <2>4. Grounded(batch.rows, Known')
      BY <1>2, <1>3, <2>1, <2>2, GroundedWithout
    <2>5. Grounded(fill.rows, Known')
      BY <1>2, <1>3, <2>1, <2>3, GroundedWithout
    <2> QED
      BY <2>4, <2>5
  <1>7. RowsAreGrounded'
    BY <1>1, <1>5, <1>6 DEF RowsAreGrounded
  <1>8. EdgesHaveEnds'
    <2> SUFFICES ASSUME NEW edge \in edges' \ Drawn
                 PROVE  edge[1] \in DOMAIN entities' \cup raced' /\ edge[3] \in DOMAIN entities' \cup raced'
      BY DEF EdgesHaveEnds
    <2>1. edge \in edges \ Drawn /\ edge[1] # x /\ edge[3] # x
      BY <1>1 DEF Cut, Touches
    <2> QED
      BY <1>2, <1>3, <2>1 DEF GraphInv, EdgesHaveEnds
  <1>9. ASSUME NEW e, x \notin IdsOf(e), NEW l \in LinksOf(e), l \in edges PROVE l \in edges'
    <2>1. l[1] # x /\ l[3] # x
      BY <1>9, EndsOfLinks
    <2> QED
      BY <1>1, <1>9, <2>1 DEF Cut, Touches
  <1>10. BackfillIsWhole'
    <2> SUFFICES ASSUME NEW e \in restored' PROVE IdsOf(e) \subseteq DOMAIN entities' /\ LinksOf(e) \subseteq edges'
      BY DEF BackfillIsWhole
    <2>1. e \in restored /\ x \notin IdsOf(e)
      BY <1>1
    <2>2. IdsOf(e) \subseteq DOMAIN entities /\ LinksOf(e) \subseteq edges
      BY <2>1 DEF GraphInv, BackfillIsWhole
    <2> QED
      BY <1>2, <1>9, <2>1, <2>2
  <1>11. FillProgress'
    <2> SUFFICES ASSUME fill.state = "running", NEW e \in fill.read, IdsOf(e) \cap (fill.spoiled \cup {x}) = {},
                        ~ \E i \in 2 .. Len(fill.todo) : fill.todo[i] = e
                 PROVE  /\ IdsOf(e) \subseteq DOMAIN entities' \cup IdsIn(fill.rows)
                        /\ LinksOf(e) \subseteq edges' \cup LinksIn(fill.rows)
      BY <1>5 DEF FillProgress
    <2>1. IdsOf(e) \cap fill.spoiled = {} /\ x \notin IdsOf(e)
      OBVIOUS
    <2>2. IdsOf(e) \subseteq DOMAIN entities \cup IdsIn(fill.rows) /\ LinksOf(e) \subseteq edges \cup LinksIn(fill.rows)
      BY <2>1 DEF GraphInv, FillProgress
    <2> QED
      BY <1>2, <1>9, <2>1, <2>2
  <1>12. GraphTypes'
    BY <1>1, <1>2, <1>5 DEF GraphInv, GraphTypes, FillType
  <1> QED
    BY <1>7, <1>8, <1>10, <1>11, <1>12 DEF GraphInv

-----------------------------------------------------------------------------
LEMMA GraphInvHolds == GraphSpec => []GraphInv
  <1>1. GraphInit => GraphInv
    <2> SUFFICES ASSUME GraphInit PROVE GraphInv
      OBVIOUS
    <2>1. DOMAIN entities = {} /\ edges = {} /\ stored = {} /\ restored = {}
      BY DEF GraphInit
    <2>2. batch \in [todo : Seq(Events), rows : Seq(Rows)] /\ batch.rows = <<>>
      BY EmptyRows DEF GraphInit, NoBatch
    <2>3. fill \in FillType /\ fill.rows = <<>> /\ fill.state # "running"
      BY EmptyRows DEF GraphInit, NoFill, FillType
    <2>4. GraphTypes
      BY <2>1, <2>2, <2>3, FS_EmptySet DEF GraphTypes, FillType
    <2>5. RowsAreGrounded
      BY <2>2, <2>3, EmptyRows DEF RowsAreGrounded
    <2> QED
      BY <2>1, <2>3, <2>4, <2>5 DEF GraphInv, EdgesHaveEnds, FillProgress, BackfillIsWhole
  <1>2. GraphInv /\ [GraphNext]_graphVars => GraphInv'
    <2> SUFFICES ASSUME GraphInv, [GraphNext]_graphVars PROVE GraphInv'
      OBVIOUS
    <2>1. CASE \E es \in Batches : Store(es)
      BY <2>1, StoreKeeps
    <2>2. CASE WriteRow
      BY <2>2, WriteRowKeeps
    <2>3. CASE GiveUp \/ NextEvent
      BY <2>3, NextOfKeeps
    <2>4. CASE \E only \in BOOLEAN : Backfill(only)
      BY <2>4, BackfillKeeps
    <2>5. CASE FillRow
      BY <2>5, FillRowKeeps
    <2>6. CASE FillFails
      BY <2>6, FillEndsKeep
    <2>7. CASE FillNext
      BY <2>7, FillNextKeeps
    <2>8. CASE FillDone
      BY <2>8, FillDoneKeeps
    <2>9. CASE \E c \in GraphCases : OpenCase(c)
      <3>1. UNCHANGED <<stored, entities, edges, batch, fill, restored, raced>>
        BY <2>9 DEF OpenCase
      <3>2. stored' \subseteq Events /\ IsFiniteSet(stored')
        BY <3>1 DEF GraphInv, GraphTypes
      <3> QED
        BY <3>1, <3>2, GraphIsKept
    <2>10. CASE \E edge \in Drawn : CreateEdge(edge) \/ CreateEntity(edge[1])
      BY <2>10, CreatesKeep
    <2>11. CASE \E x \in DOMAIN entities : DeleteEntity(x)
      BY <2>11, DeleteKeeps
    <2>12. CASE GraphCrash
      BY <2>12, GraphCrashKeeps
    <2>13. CASE UNCHANGED graphVars
      <3>1. UNCHANGED <<stored, entities, edges, batch, fill, restored, raced>>
        BY <2>13 DEF graphVars
      <3>2. stored' \subseteq Events /\ IsFiniteSet(stored')
        BY <3>1 DEF GraphInv, GraphTypes
      <3> QED
        BY <3>1, <3>2, GraphIsKept
    <2> QED
      BY <2>1, <2>2, <2>3, <2>4, <2>5, <2>6, <2>7, <2>8, <2>9, <2>10, <2>11, <2>12, <2>13 DEF GraphNext
  <1> QED
    BY <1>1, <1>2, PTL DEF GraphSpec

\* An edge that was extracted from an event has both its ends in the graph, for
\* any events and batches, and whatever the order in which the loader, a backfill
\* and the requests write, fail, crash and delete.
THEOREM EdgesStandOnEntities == GraphSpec => []EdgesHaveEnds
  <1>1. GraphInv => EdgesHaveEnds
    BY DEF GraphInv
  <1> QED
    BY <1>1, GraphInvHolds, PTL

\* A backfill that answered has repaired all that it has read, for any events
\* and any limit, and whatever the loader did meanwhile.
THEOREM BackfillRepairs == GraphSpec => []BackfillIsWhole
  <1>1. GraphInv => BackfillIsWhole
    BY DEF GraphInv
  <1> QED
    BY <1>1, GraphInvHolds, PTL

-----------------------------------------------------------------------------
\* What the loader draws.

\* The rows of an event are all its entities, with its case, and all its edges.
LEMMA LoaderRows ==
  ASSUME NEW e \in Events
  PROVE  /\ IdsIn(RowsOf(e)) = IdsOf(e) /\ LinksIn(RowsOf(e)) = LinksOf(e)
         /\ \A r \in ToSet(RowsOf(e)) : r.op = "entity" => r.case = Event[e].case
  <1> DEFINE a == Upserts(e, EntitiesOf(e))
             b == Inserts(EdgesOf(e))
             c == Upserts(e, PerimeterEntities(e))
             d == Inserts(PerimeterEdges(e))
             p == a \o b
             q == p \o c
  <1>1. /\ a \in Seq(Rows) /\ IdsIn(a) = ToSet(EntitiesOf(e)) /\ LinksIn(a) = {}
        /\ c \in Seq(Rows) /\ IdsIn(c) = ToSet(PerimeterEntities(e)) /\ LinksIn(c) = {}
    BY UpsertRows, EntitiesOfEvent, PerimeterOfEvent
  <1>2. /\ b \in Seq(Rows) /\ IdsIn(b) = {} /\ LinksIn(b) = ToSet(EdgesOf(e))
        /\ d \in Seq(Rows) /\ IdsIn(d) = {} /\ LinksIn(d) = ToSet(PerimeterEdges(e))
    BY InsertRows, EdgesOfEvent, PerimeterOfEvent
  <1>3. \A ids \in Seq(IdsAround(e)) : \A r \in ToSet(Upserts(e, ids)) : r.case = Event[e].case
    BY DEF Upserts, ToSet
  <1>4. \A r \in ToSet(a) \cup ToSet(c) : r.case = Event[e].case
    BY <1>3, EntitiesOfEvent, PerimeterOfEvent
  <1>5. \A r \in ToSet(b) \cup ToSet(d) : r.op = "edge"
    BY InsertRows, EdgesOfEvent, PerimeterOfEvent DEF ToSet
  <1>6. RowsOf(e) = q \o d
    BY DEF RowsOf
  <1> HIDE DEF a, b, c, d
  <1>7. p \in Seq(Rows) /\ ToSet(p) = ToSet(a) \cup ToSet(b)
    BY <1>1, <1>2, ToSetOfConcat
  <1> HIDE DEF p
  <1>8. q \in Seq(Rows) /\ ToSet(q) = ToSet(p) \cup ToSet(c)
    BY <1>1, <1>7, ToSetOfConcat
  <1> HIDE DEF q
  <1>9. ToSet(RowsOf(e)) = ToSet(a) \cup ToSet(b) \cup ToSet(c) \cup ToSet(d)
    BY <1>2, <1>6, <1>7, <1>8, ToSetOfConcat
  <1>10. IdsIn(RowsOf(e)) = IdsIn(a) \cup IdsIn(b) \cup IdsIn(c) \cup IdsIn(d)
    BY <1>9 DEF IdsIn
  <1>11. LinksIn(RowsOf(e)) = LinksIn(a) \cup LinksIn(b) \cup LinksIn(c) \cup LinksIn(d)
    BY <1>9 DEF LinksIn
  <1>12. \A r \in ToSet(RowsOf(e)) : r.op = "entity" => r.case = Event[e].case
    BY <1>4, <1>5, <1>9
  <1> QED
    BY <1>1, <1>2, <1>10, <1>11, <1>12 DEF IdsOf, LinksOf

\* No case is in the table that case_id refers to, so a row of an entity that
\* names one is refused.
CasesAreNone == cases = {} /\ NoEntityHasCase

\* Cases are opened once each, so that as many requests as cases are openings.
OpeningsAreCounted ==
  /\ IsFiniteSet(investigations) /\ requests \in Nat /\ graphFaults \in Nat
  /\ Cardinality(investigations) <= requests

\* The rows at hand are of the event at the head of the batch.
RowsAreOfOne == \A r \in ToSet(batch.rows) : r.op = "entity" => r.case = Event[batch.todo[1]].case

\* An event without a case is still to come, in hand with its rows, or drawn.
ToBeDrawn(e) == \E i \in 2 .. Len(batch.todo) : batch.todo[i] = e
InHandOf(e) ==
  /\ Len(batch.todo) > 0 /\ batch.todo[1] = e
  /\ IdsOf(e) \subseteq DOMAIN entities \cup IdsIn(batch.rows)
  /\ LinksOf(e) \subseteq edges \cup LinksIn(batch.rows)
IsDrawn(e) == IdsOf(e) \subseteq DOMAIN entities /\ LinksOf(e) \subseteq edges
Uncased == {e \in stored : Event[e].case = Missing}
BatchProgress == Undisturbed => \A e \in Uncased : ToBeDrawn(e) \/ InHandOf(e) \/ IsDrawn(e)

DrawInv == CasesAreNone /\ OpeningsAreCounted /\ RowsAreOfOne /\ BatchProgress

\* Rows that are written name no case.
LEMMA WritesNoCase ==
  ASSUME CasesAreNone, NEW row, ~Refused(row), Write(row), cases' = cases
  PROVE  CasesAreNone'
  <1>1. CASE row.op = "entity"
    <2>1. row.case = Missing
      BY <1>1 DEF Refused, CasesAreNone
    <2>2. entities' = [x \in DOMAIN entities \cup {row.id} |-> IF x = row.id THEN row.case ELSE entities[x]]
      BY <1>1 DEF Write
    <2> QED
      BY <2>1, <2>2 DEF CasesAreNone, NoEntityHasCase
  <1>2. CASE row.op # "entity"
    BY <1>2 DEF Write, CasesAreNone, NoEntityHasCase
  <1> QED
    BY <1>1, <1>2


\* Openings keep the account of the requests, and whatever else is asked, and every
\* error, ends it.
LEMMA RequestsAreCounted ==
  ASSUME OpeningsAreCounted, [GraphNext]_graphVars
  PROVE  /\ OpeningsAreCounted'
         /\ Undisturbed' => Undisturbed
         /\ Undisturbed' => UNCHANGED <<graphFaults, requests, investigations>> \/ \E c \in GraphCases : OpenCase(c)
  <1>1. Cardinality(investigations) \in Nat
    BY FS_CardinalityType DEF OpeningsAreCounted
  <1>2. CASE \E c \in GraphCases : OpenCase(c)
    <2>1. PICK c : /\ c \notin investigations /\ investigations' = investigations \cup {c}
                   /\ requests' = requests + 1 /\ graphFaults' = graphFaults
      BY <1>2 DEF OpenCase, Asks
    <2>2. IsFiniteSet(investigations') /\ Cardinality(investigations') = Cardinality(investigations) + 1
      BY <2>1, FS_AddElement DEF OpeningsAreCounted
    <2> QED
      BY <1>1, <1>2, <2>1, <2>2 DEF OpeningsAreCounted, Undisturbed
  <1>3. CASE UNCHANGED <<graphFaults, requests, investigations>>
    BY <1>3 DEF OpeningsAreCounted, Undisturbed
  <1>4. CASE GraphFault /\ UNCHANGED <<requests, investigations>>
    <2>1. graphFaults' \in Nat /\ graphFaults' # 0
      BY <1>4 DEF GraphFault, OpeningsAreCounted
    <2> QED
      BY <1>4, <2>1 DEF OpeningsAreCounted, Undisturbed
  <1>5. CASE Asks /\ UNCHANGED <<graphFaults, investigations>>
    <2>1. requests' \in Nat /\ requests' > Cardinality(investigations')
      BY <1>1, <1>5 DEF Asks, OpeningsAreCounted
    <2>2. requests' # Cardinality(investigations')
      BY <1>1, <1>5, <2>1
    <2> QED
      BY <1>1, <1>5, <2>1, <2>2 DEF OpeningsAreCounted, Undisturbed
  <1>6. \/ \E c \in GraphCases : OpenCase(c)
        \/ UNCHANGED <<graphFaults, requests, investigations>>
        \/ GraphFault /\ UNCHANGED <<requests, investigations>>
        \/ Asks /\ UNCHANGED <<graphFaults, investigations>>
    <2>1. CASE \/ \E es \in Batches : Store(es)
               \/ WriteRow \/ NextEvent
               \/ \E only \in BOOLEAN : Backfill(only)
               \/ FillRow \/ FillNext \/ FillDone \/ UNCHANGED graphVars
      BY <2>1 DEF Store, WriteRow, NextEvent, Backfill, FillRow, FillNext, FillDone, graphVars
    <2>2. CASE GiveUp \/ FillFails \/ GraphCrash
      BY <2>2 DEF GiveUp, FillFails, GraphCrash
    <2>3. CASE \E edge \in Drawn : CreateEdge(edge) \/ CreateEntity(edge[1])
      BY <2>3 DEF CreateEdge, CreateEntity
    <2>4. CASE \E x \in DOMAIN entities : DeleteEntity(x)
      BY <2>4 DEF DeleteEntity
    <2> QED
      BY <2>1, <2>2, <2>3, <2>4 DEF GraphNext
  <1> QED
    BY <1>2, <1>3, <1>4, <1>5, <1>6

\* The batch stays, and the graph grows, unless something disturbs it.
LEMMA BatchStays ==
  ASSUME DrawInv, UNCHANGED <<batch, stored>>, Undisturbed' => Undisturbed,
         Undisturbed' => DOMAIN entities \subseteq DOMAIN entities' /\ edges \subseteq edges'
  PROVE  RowsAreOfOne' /\ BatchProgress'
  <1>1. RowsAreOfOne'
    BY DEF DrawInv, RowsAreOfOne
  <1>2. ASSUME Undisturbed', NEW e \in Uncased'
        PROVE  ToBeDrawn(e)' \/ InHandOf(e)' \/ IsDrawn(e)'
    <2>1. e \in Uncased /\ (ToBeDrawn(e) \/ InHandOf(e) \/ IsDrawn(e))
      BY <1>2 DEF DrawInv, BatchProgress, Uncased
    <2>2. DOMAIN entities \subseteq DOMAIN entities' /\ edges \subseteq edges'
      BY <1>2
    <2> QED
      BY <2>1, <2>2 DEF ToBeDrawn, InHandOf, IsDrawn
  <1> QED
    BY <1>1, <1>2 DEF BatchProgress

\* The batch goes on when no event without a case has rows left in it.
LEMMA NextIsDrawn ==
  ASSUME GraphTypes, batch' = NextOf(batch), UNCHANGED <<entities, edges, stored>>,
         \A e \in Uncased : ToBeDrawn(e) \/ IsDrawn(e)
  PROVE  \A e \in Uncased' : ToBeDrawn(e)' \/ InHandOf(e)' \/ IsDrawn(e)'
  <1> DEFINE left == batch.todo
  <1>0. left \in Seq(Events) /\ Len(left) \in Nat
    BY LenProperties DEF GraphTypes
  <1> SUFFICES ASSUME NEW e \in Uncased, ~IsDrawn(e) PROVE ToBeDrawn(e)' \/ InHandOf(e)'
    BY DEF Uncased, IsDrawn
  <1>1. PICK i \in 2 .. Len(left) : left[i] = e
    BY DEF ToBeDrawn
  <1>2. Len(left) > 1 /\ left # <<>>
    BY <1>0, <1>1
  <1>3. batch'.todo = Tail(left) /\ batch'.rows = RowsOf(left[2])
    BY <1>0, <1>2 DEF NextOf
  <1>4. /\ Tail(left) \in Seq(Events) /\ Len(Tail(left)) = Len(left) - 1
        /\ \A j \in 1 .. Len(Tail(left)) : Tail(left)[j] = left[j + 1]
    BY <1>0, <1>2, HeadTailProperties
  <1>5. CASE i = 2
    <2>1. left[2] = e /\ e \in Events
      BY <1>0, <1>1, <1>5, ElementOfSeq
    <2>2. IdsIn(RowsOf(e)) = IdsOf(e) /\ LinksIn(RowsOf(e)) = LinksOf(e)
      BY <2>1, LoaderRows
    <2>3. Len(Tail(left)) > 0 /\ Tail(left)[1] = e
      BY <1>0, <1>2, <1>4, <2>1
    <2> QED
      BY <1>3, <2>1, <2>2, <2>3 DEF InHandOf
  <1>6. CASE i # 2
    <2>1. i - 1 \in 2 .. Len(Tail(left)) /\ Tail(left)[i - 1] = left[i]
      BY <1>0, <1>1, <1>4, <1>6
    <2> QED
      BY <1>1, <1>3, <2>1 DEF ToBeDrawn
  <1> QED
    BY <1>5, <1>6

\* The rows of the next event are of that event.
LEMMA NextRowsAreOfOne ==
  ASSUME GraphTypes, batch' = NextOf(batch)
  PROVE  RowsAreOfOne'
  <1>1. CASE Len(batch.todo) <= 1
    <2>1. batch'.rows = <<>>
      BY <1>1 DEF NextOf, NoBatch
    <2> QED
      BY <2>1 DEF RowsAreOfOne, ToSet
  <1>2. CASE ~(Len(batch.todo) <= 1)
    <2>1. batch.todo \in Seq(Events) /\ Len(batch.todo) \in Nat /\ batch.todo # <<>>
      BY <1>2, LenProperties DEF GraphTypes
    <2>2. batch.todo[2] \in Events
      BY <1>2, <2>1, ElementOfSeq
    <2>3. Len(Tail(batch.todo)) = Len(batch.todo) - 1 /\ \A j \in 1 .. Len(Tail(batch.todo)) : Tail(batch.todo)[j] = batch.todo[j + 1]
      BY <2>1, HeadTailProperties
    <2>4. Tail(batch.todo)[1] = batch.todo[2]
      BY <1>2, <2>1, <2>3
    <2>5. batch'.todo = Tail(batch.todo) /\ batch'.rows = RowsOf(batch.todo[2])
      BY <1>2 DEF NextOf
    <2> QED
      BY <2>2, <2>4, <2>5, LoaderRows DEF RowsAreOfOne
  <1> QED
    BY <1>1, <1>2

\* A batch is stored: its first event is in hand, the others are to come.
LEMMA StoreDraws ==
  ASSUME GraphInv, DrawInv, Undisturbed' => Undisturbed, NEW es \in Batches, Store(es)
  PROVE  RowsAreOfOne' /\ BatchProgress'
  <1>1. es \in Seq(Events) /\ Len(es) \in Nat /\ Len(es) > 0 /\ DOMAIN es = 1 .. Len(es)
    BY ThreatGraphAssumption, LenProperties DEF Store
  <1>2. es[1] \in Events
    BY <1>1, ElementOfSeq
  <1>3. /\ IdsIn(RowsOf(es[1])) = IdsOf(es[1]) /\ LinksIn(RowsOf(es[1])) = LinksOf(es[1])
        /\ \A r \in ToSet(RowsOf(es[1])) : r.op = "entity" => r.case = Event[es[1]].case
    BY <1>2, LoaderRows
  <1>4. batch = NoBatch /\ stored' = stored \cup ToSet(es) /\ UNCHANGED <<entities, edges>>
    BY DEF Store
  <1>5. batch'.todo = es /\ batch'.rows = RowsOf(es[1])
    BY DEF Store
  <1>6. RowsAreOfOne'
    BY <1>3, <1>5 DEF RowsAreOfOne
  <1>7. ASSUME Undisturbed', NEW e \in Uncased'
        PROVE  ToBeDrawn(e)' \/ InHandOf(e)' \/ IsDrawn(e)'
    <2>1. CASE e \in stored
      <3>1. ToBeDrawn(e) \/ InHandOf(e) \/ IsDrawn(e)
        BY <1>7, <2>1 DEF DrawInv, BatchProgress, Uncased
      <3>2. ~ToBeDrawn(e) /\ ~InHandOf(e)
        <4>1. batch.todo = <<>>
          BY <1>4 DEF NoBatch
        <4>2. Len(batch.todo) = 0
          BY <4>1
        <4> QED
          BY <4>2 DEF ToBeDrawn, InHandOf
      <3> QED
        BY <1>4, <3>1, <3>2 DEF IsDrawn
    <2>2. CASE e \in ToSet(es)
      <3>1. PICK i \in 1 .. Len(es) : es[i] = e
        BY <1>1, <2>2 DEF ToSet
      <3>2. CASE i = 1
        BY <1>1, <1>3, <1>5, <3>1, <3>2 DEF InHandOf
      <3>3. CASE i # 1
        <4>1. i \in 2 .. Len(es)
          BY <1>1, <3>1, <3>3
        <4> QED
          BY <1>5, <3>1, <4>1 DEF ToBeDrawn
      <3> QED
        BY <3>2, <3>3
    <2> QED
      BY <1>4, <2>1, <2>2 DEF Uncased
  <1> QED
    BY <1>6, <1>7 DEF BatchProgress

\* A row is written: it is in the graph, the others are still in hand.
LEMMA WriteRowDraws ==
  ASSUME GraphInv, DrawInv, Undisturbed' => Undisturbed, WriteRow
  PROVE  RowsAreOfOne' /\ BatchProgress'
  <1> DEFINE rows == batch.rows
  <1>1. rows # <<>> /\ Write(rows[1]) /\ batch' = [batch EXCEPT !.rows = Tail(@)] /\ UNCHANGED <<stored, raced>>
    BY DEF WriteRow
  <1>2. GraphTypes /\ EdgesHaveEnds /\ rows \in Seq(Rows) /\ Grounded(rows, Known)
    BY DEF GraphInv, GraphTypes, RowsAreGrounded
  <1>3. /\ DOMAIN entities \subseteq DOMAIN entities' /\ edges \subseteq edges'
        /\ IdsIn(rows) \subseteq DOMAIN entities' \cup IdsIn(Tail(rows))
        /\ LinksIn(rows) \subseteq edges' \cup LinksIn(Tail(rows))
    BY <1>1, <1>2, RowIsWritten
  <1>4. batch'.rows = Tail(rows) /\ batch'.todo = batch.todo
    BY <1>1, <1>2 DEF GraphTypes
  <1>5. ToSet(Tail(rows)) \subseteq ToSet(rows)
    BY <1>1, <1>2, FirstRow
  <1>6. RowsAreOfOne'
    BY <1>4, <1>5 DEF DrawInv, RowsAreOfOne
  <1>7. ASSUME Undisturbed', NEW e \in Uncased'
        PROVE  ToBeDrawn(e)' \/ InHandOf(e)' \/ IsDrawn(e)'
    <2>1. ToBeDrawn(e) \/ InHandOf(e) \/ IsDrawn(e)
      BY <1>1, <1>7 DEF DrawInv, BatchProgress, Uncased
    <2>2. ToBeDrawn(e) => ToBeDrawn(e)'
      BY <1>4 DEF ToBeDrawn
    <2>3. InHandOf(e) => InHandOf(e)'
      BY <1>3, <1>4 DEF InHandOf
    <2>4. IsDrawn(e) => IsDrawn(e)'
      BY <1>3 DEF IsDrawn
    <2> QED
      BY <2>1, <2>2, <2>3, <2>4
  <1> QED
    BY <1>6, <1>7 DEF BatchProgress

\* The rows are through, or they are given up for a case that is refused, which
\* concerns no event without one.
LEMMA NextOfDraws ==
  ASSUME GraphInv, DrawInv, OpeningsAreCounted', Undisturbed' => Undisturbed, GiveUp \/ NextEvent
  PROVE  RowsAreOfOne' /\ BatchProgress'
  <1>1. batch' = NextOf(batch) /\ UNCHANGED <<stored, entities, edges>> /\ GraphTypes
    BY DEF GiveUp, NextEvent, GraphInv
  <1>2. RowsAreOfOne'
    BY <1>1, NextRowsAreOfOne
  <1>3. ASSUME Undisturbed' PROVE \A e \in Uncased : ToBeDrawn(e) \/ IsDrawn(e)
    <2> SUFFICES ASSUME NEW e \in Uncased, InHandOf(e) PROVE IsDrawn(e)
      BY <1>3 DEF DrawInv, BatchProgress
    <2>1. CASE batch.rows = <<>>
      <3>1. IdsIn(batch.rows) = {} /\ LinksIn(batch.rows) = {}
        BY <2>1, EmptyRows
      <3> QED
        BY <3>1 DEF InHandOf, IsDrawn
    <2>2. CASE batch.rows # <<>> /\ Refused(batch.rows[1])
      <3>1. batch.rows[1].op = "entity" /\ batch.rows[1].case # Missing
        BY <2>2 DEF Refused
      <3>2. batch.rows \in Seq(Rows)
        BY <1>1 DEF GraphTypes
      <3>3. batch.rows[1] \in ToSet(batch.rows)
        BY <2>2, <3>2, FirstRow DEF GraphInv, RowsAreGrounded
      <3>4. batch.rows[1].case = Event[e].case
        BY <3>1, <3>3 DEF DrawInv, RowsAreOfOne, InHandOf
      <3> QED
        BY <3>1, <3>4 DEF Uncased
    <2>3. ~GraphFault
      <3> SUFFICES ASSUME GraphFault PROVE FALSE
        OBVIOUS
      <3>1. graphFaults' # 0
        BY DEF GraphFault, DrawInv, OpeningsAreCounted
      <3> QED
        BY <1>3, <3>1 DEF Undisturbed
    <2> QED
      BY <2>1, <2>2, <2>3 DEF GiveUp, NextEvent
  <1>4. Undisturbed' => \A e \in Uncased' : ToBeDrawn(e)' \/ InHandOf(e)' \/ IsDrawn(e)'
    BY <1>1, <1>3, NextIsDrawn
  <1> QED
    BY <1>2, <1>4 DEF BatchProgress

\* Rows without a case, in every step.
LEMMA NoCaseComes ==
  ASSUME CasesAreNone, [GraphNext]_graphVars
  PROVE  CasesAreNone'
  <1>1. CASE WriteRow
    BY <1>1, WritesNoCase DEF WriteRow
  <1>2. CASE FillRow
    BY <1>2, WritesNoCase DEF FillRow
  <1>3. ASSUME NEW edge \in Drawn, CreateEdge(edge) PROVE CasesAreNone'
    BY <1>3 DEF CreateEdge, Write, CasesAreNone, NoEntityHasCase
  <1>4. ASSUME NEW x, CreateEntity(x) PROVE CasesAreNone'
    <2>1. entities' = [y \in DOMAIN entities \cup {x} |-> IF y = x THEN Missing ELSE entities[y]] /\ cases' = cases
      BY <1>4 DEF CreateEntity, Write
    <2> QED
      BY <2>1 DEF CasesAreNone, NoEntityHasCase
  <1>5. ASSUME NEW x \in DOMAIN entities, DeleteEntity(x) PROVE CasesAreNone'
    BY <1>5 DEF DeleteEntity, CasesAreNone, NoEntityHasCase
  <1>6. ASSUME UNCHANGED <<cases, entities>> PROVE CasesAreNone'
    BY <1>6 DEF CasesAreNone, NoEntityHasCase
  <1>7. CASE \/ \E es \in Batches : Store(es)
             \/ GiveUp \/ NextEvent
             \/ \E only \in BOOLEAN : Backfill(only)
             \/ FillFails \/ FillNext \/ FillDone
             \/ \E c \in GraphCases : OpenCase(c)
             \/ GraphCrash \/ UNCHANGED graphVars
    <2>1. UNCHANGED <<cases, entities>>
      BY <1>7 DEF Store, GiveUp, NextEvent, Backfill, FillFails, FillNext, FillDone, OpenCase, GraphCrash, graphVars
    <2> QED
      BY <1>6, <2>1
  <1> QED
    BY <1>1, <1>2, <1>3, <1>4, <1>5, <1>7 DEF GraphNext

\* What leaves the batch alone leaves its progress, or ends what is promised.
LEMMA RestDraws ==
  ASSUME GraphInv, DrawInv, Undisturbed' => Undisturbed,
         Undisturbed' => UNCHANGED <<graphFaults, requests, investigations>> \/ \E c \in GraphCases : OpenCase(c),
         \/ \E only \in BOOLEAN : Backfill(only)
         \/ FillRow \/ FillFails \/ FillNext \/ FillDone
         \/ \E c \in GraphCases : OpenCase(c)
         \/ \E edge \in Drawn : CreateEdge(edge) \/ CreateEntity(edge[1])
         \/ \E x \in DOMAIN entities : DeleteEntity(x)
         \/ UNCHANGED graphVars
  PROVE  RowsAreOfOne' /\ BatchProgress'
  <1>1. UNCHANGED <<batch, stored>>
    BY DEF Backfill, FillRow, FillFails, FillNext, FillDone, OpenCase, CreateEdge, CreateEntity, DeleteEntity, graphVars
  <1>2. ASSUME Undisturbed' PROVE DOMAIN entities \subseteq DOMAIN entities' /\ edges \subseteq edges'
    <2>1. CASE FillRow
      <3>1. fill.rows \in Seq(Rows) /\ fill.rows # <<>> /\ Grounded(fill.rows, Known) /\ Write(fill.rows[1])
        BY <2>1 DEF FillRow, GraphInv, GraphTypes, RowsAreGrounded
      <3>2. GraphTypes /\ EdgesHaveEnds /\ raced' = raced
        BY <2>1 DEF FillRow, GraphInv
      <3> QED
        BY <3>1, <3>2, RowIsWritten
    <2>2. CASE \/ \E only \in BOOLEAN : Backfill(only)
               \/ FillFails \/ FillNext \/ FillDone
               \/ \E c \in GraphCases : OpenCase(c)
               \/ UNCHANGED graphVars
      BY <2>2 DEF Backfill, FillFails, FillNext, FillDone, OpenCase, graphVars
    <2>3. requests' = requests => ~(\E c \in GraphCases : OpenCase(c)) /\ ~Asks
      BY DEF OpenCase, Asks, DrawInv, OpeningsAreCounted
    <2>4. CASE \/ \E edge \in Drawn : CreateEdge(edge) \/ CreateEntity(edge[1])
               \/ \E x \in DOMAIN entities : DeleteEntity(x)
      <3>1. Asks /\ investigations' = investigations
        BY <2>4 DEF CreateEdge, CreateEntity, DeleteEntity
      <3>2. ~ \E c \in GraphCases : OpenCase(c)
        BY <3>1 DEF OpenCase
      <3> QED
        BY <1>2, <2>3, <3>1, <3>2
    <2> QED
      BY <2>1, <2>2, <2>4
  <1> QED
    BY <1>1, <1>2, BatchStays

LEMMA DrawInductive == GraphInv /\ DrawInv /\ [GraphNext]_graphVars => DrawInv'
  <1> SUFFICES ASSUME GraphInv, DrawInv, [GraphNext]_graphVars PROVE DrawInv'
    OBVIOUS
  <1>1. CasesAreNone'
    BY NoCaseComes DEF DrawInv
  <1>2. /\ OpeningsAreCounted'
        /\ Undisturbed' => Undisturbed
        /\ Undisturbed' => UNCHANGED <<graphFaults, requests, investigations>> \/ \E c \in GraphCases : OpenCase(c)
    BY RequestsAreCounted DEF DrawInv
  <1>3. RowsAreOfOne' /\ BatchProgress'
    <2>1. CASE \E es \in Batches : Store(es)
      BY <1>2, <2>1, StoreDraws
    <2>2. CASE WriteRow
      BY <1>2, <2>2, WriteRowDraws
    <2>3. CASE GiveUp \/ NextEvent
      BY <1>2, <2>3, NextOfDraws
    <2>4. CASE GraphCrash
      <3>1. batch'.rows = <<>>
        BY <2>4 DEF GraphCrash, NoBatch
      <3>2. graphFaults' # 0
        BY <2>4 DEF GraphCrash, GraphFault, DrawInv, OpeningsAreCounted
      <3> QED
        BY <3>1, <3>2 DEF RowsAreOfOne, BatchProgress, Undisturbed, ToSet
    <2>5. CASE \/ \E only \in BOOLEAN : Backfill(only)
               \/ FillRow \/ FillFails \/ FillNext \/ FillDone
               \/ \E c \in GraphCases : OpenCase(c)
               \/ \E edge \in Drawn : CreateEdge(edge) \/ CreateEntity(edge[1])
               \/ \E x \in DOMAIN entities : DeleteEntity(x)
               \/ UNCHANGED graphVars
      BY <1>2, <2>5, RestDraws
    <2> QED
      BY <2>1, <2>2, <2>3, <2>4, <2>5 DEF GraphNext
  <1> QED
    BY <1>1, <1>2, <1>3 DEF DrawInv

LEMMA DrawInvHolds == GraphSpec => [](GraphInv /\ DrawInv)
  <1>1. GraphInit => DrawInv
    <2> SUFFICES ASSUME GraphInit PROVE DrawInv
      OBVIOUS
    <2>1. stored = {} /\ DOMAIN entities = {} /\ cases = {} /\ investigations = {} /\ requests = 0 /\ graphFaults = 0
      BY DEF GraphInit
    <2>2. batch.rows = <<>>
      BY DEF GraphInit, NoBatch
    <2>3. OpeningsAreCounted
      BY <2>1, FS_EmptySet DEF OpeningsAreCounted
    <2>4. CasesAreNone
      BY <2>1 DEF CasesAreNone, NoEntityHasCase
    <2>5. RowsAreOfOne
      BY <2>2 DEF RowsAreOfOne, ToSet
    <2>6. BatchProgress
      BY <2>1 DEF BatchProgress, Uncased
    <2> QED
      BY <2>3, <2>4, <2>5, <2>6 DEF DrawInv
  <1> QED
    BY <1>1, DrawInductive, GraphInvHolds, PTL DEF GraphSpec

\* An event without a case is in the graph with all its entities and edges once the
\* loader is through with it, whatever events it is loaded with, and however a
\* backfill writes in between; and no entity of the graph ever has a case.
THEOREM OnlyUncasedIsDrawn == GraphSpec => [](UncasedIsDrawn /\ NoEntityHasCase)
  <1>1. GraphInv /\ DrawInv => UncasedIsDrawn
    <2> SUFFICES ASSUME GraphInv, DrawInv, Undisturbed, NEW e \in stored, Event[e].case = Missing
                 PROVE  (\E i \in DOMAIN batch.todo : batch.todo[i] = e) \/ IsDrawn(e)
      BY DEF UncasedIsDrawn, IsDrawn
    <2>1. batch.todo \in Seq(Events)
      BY DEF GraphInv, GraphTypes
    <2>2. Len(batch.todo) \in Nat /\ DOMAIN batch.todo = 1 .. Len(batch.todo)
      BY <2>1, LenProperties
    <2>3. ToBeDrawn(e) \/ InHandOf(e) \/ IsDrawn(e)
      BY DEF DrawInv, BatchProgress, Uncased
    <2>4. ToBeDrawn(e) => \E i \in DOMAIN batch.todo : batch.todo[i] = e
      BY <2>2 DEF ToBeDrawn
    <2>5. InHandOf(e) => \E i \in DOMAIN batch.todo : batch.todo[i] = e
      <3>1. Len(batch.todo) > 0 => 1 \in DOMAIN batch.todo
        BY <2>2
      <3> QED
        BY <3>1 DEF InHandOf
    <2> QED
      BY <2>3, <2>4, <2>5
  <1>2. DrawInv => NoEntityHasCase
    BY DEF DrawInv, CasesAreNone
  <1> QED
    BY <1>1, <1>2, DrawInvHolds, PTL

=============================================================================
