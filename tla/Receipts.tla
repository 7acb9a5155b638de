------------------------------ MODULE Receipts ------------------------------
(***************************************************************************)
(* POST /api/receipts (backend/api/receipts.py, backend/models/receipt.py, *)
(* ADR-030 section 6, ADR-032): the firewall executor reports what became  *)
(* of a dispatched recommendation.  The handler stores the receipt, then   *)
(* moves the case, then notifies the analyst: three writes to two stores,  *)
(* the last two best-effort.  The executor is external: a receipt may      *)
(* arrive again, also while its first delivery is handled.                 *)
(***************************************************************************)
EXTENDS Naturals

CONSTANTS Receipts,    \* receipt ids
          Cases,       \* case ids
          CaseOf,      \* the case_id of each receipt
          TaxonomyOf,  \* the failure_taxonomy of each receipt
          Handlers,    \* concurrent requests
          MaxFaults    \* bound on failing writes and crashes

Taxonomy == {"applied", "noop_already_present", "validation_failed",
             "expired_rejected", "rolled_back"}

ASSUME ReceiptsAssumption == /\ CaseOf \in [Receipts -> Cases]
                             /\ TaxonomyOf \in [Receipts -> Taxonomy]
                             /\ MaxFaults \in Nat

VARIABLES
  receipts,       \* execution_receipts, keyed by receipt_id
  case_status,    \* investigation_cases.case_status
  notifications,  \* rows of notifications for each receipt, all "pending"
  handler,        \* the requests in progress
  faults

vars == <<receipts, case_status, notifications, handler, faults>>

CASE_STATE_MAP ==
  [t \in Taxonomy |->
     IF t \in {"applied", "noop_already_present"} THEN "containment_confirmed"
     ELSE IF t = "rolled_back" THEN "containment_rolled_back"
     ELSE "containment_failed"]

NOTIFICATION_TRIGGERS == {"validation_failed", "rolled_back", "expired_rejected"}

NewStatus(r) == CASE_STATE_MAP[TaxonomyOf[r]]

Idle == [pc |-> "idle"]

At(h, pc, r) == handler[h] = [pc |-> pc, rec |-> r]

Goto(h, pc, r) == handler' = [handler EXCEPT ![h] = [pc |-> pc, rec |-> r]]

Finish(h) == handler' = [handler EXCEPT ![h] = Idle]

Fault == /\ faults < MaxFaults
         /\ faults' = faults + 1

CaseStatus == {"open", "containment_confirmed", "containment_failed",
               "containment_rolled_back"}

TypeOK == /\ receipts \subseteq Receipts
          /\ case_status \in [Cases -> CaseStatus]
          /\ notifications \in [Receipts -> Nat]
          /\ handler \in [Handlers -> {Idle} \cup
               [pc : {"store", "case", "notify"}, rec : Receipts]]
          /\ faults \in 0 .. MaxFaults

Init == /\ receipts = {}
        /\ case_status = [k \in Cases |-> "open"]
        /\ notifications = [r \in Receipts |-> 0]
        /\ handler = [h \in Handlers |-> Idle]
        /\ faults = 0

-----------------------------------------------------------------------------
\* The executor sends the receipt, for the first time or again; an answer may
\* have been lost on its way.
Deliver(h, r) == /\ handler[h] = Idle
                 /\ Goto(h, "store", r)
                 /\ UNCHANGED <<receipts, case_status, notifications, faults>>

\* Mutant: an upsert, as if the receipt were new each time.
AlreadyStoredIgnored(r) == FALSE

\* The PRIMARY KEY conflict on receipt_id.
AlreadyStored(r) == r \in receipts

\* Mutant: the notification is due for failures of validation only.
TriggersOnValidationOnly(r) == TaxonomyOf[r] = "validation_failed"

\* Does the receipt call for a notification?
Triggers(r) == TaxonomyOf[r] \in NOTIFICATION_TRIGGERS

\* Step 1: INSERT the receipt.  409 when it is there already.
StoreReceipt(h, r) ==
  /\ At(h, "store", r)
  /\ IF AlreadyStored(r)
     THEN /\ Finish(h)
          /\ UNCHANGED receipts
     ELSE /\ receipts' = receipts \cup {r}
          /\ Goto(h, "case", r)
  /\ UNCHANGED <<case_status, notifications, faults>>

\* Mutant: the failed INSERT is logged and the handler goes on.
AfterStoreErrorGoesOn(h, r) == Goto(h, "case", r)

\* The error is raised: a 500, to be sent again.
AfterStoreError(h, r) == Finish(h)

\* Any other error of the INSERT: nothing is stored.
StoreFails(h, r) == /\ At(h, "store", r)
                    /\ AfterStoreError(h, r)
                    /\ Fault
                    /\ UNCHANGED <<receipts, case_status, notifications>>

\* Step 2: the case follows the receipt; an error is only logged.
PropagateCaseState(h, r) ==
  /\ At(h, "case", r)
  /\ \/ /\ case_status' = [case_status EXCEPT ![CaseOf[r]] = NewStatus(r)]
        /\ UNCHANGED faults
     \/ /\ Fault
        /\ UNCHANGED case_status
  /\ Goto(h, "notify", r)
  /\ UNCHANGED <<receipts, notifications>>

\* Step 3: the notification, where one is due, and the 202; again an error is
\* only logged.
EmitNotification(h, r) ==
  /\ At(h, "notify", r)
  /\ \/ /\ notifications' = [notifications EXCEPT ![r] = @ + (IF Triggers(r) THEN 1 ELSE 0)]
        /\ UNCHANGED faults
     \/ /\ Triggers(r)
        /\ Fault
        /\ UNCHANGED notifications
  /\ Finish(h)
  /\ UNCHANGED <<receipts, case_status>>

\* The process dies: no request in progress is answered.
Crash == /\ \E h \in Handlers : handler[h] # Idle
         /\ Fault
         /\ handler' = [h \in Handlers |-> Idle]
         /\ UNCHANGED <<receipts, case_status, notifications>>

-----------------------------------------------------------------------------
Handle(h, r) == \/ StoreReceipt(h, r) \/ StoreFails(h, r)
                \/ PropagateCaseState(h, r) \/ EmitNotification(h, r)

Next == \/ \E h \in Handlers, r \in Receipts : Deliver(h, r) \/ Handle(h, r)
        \/ Crash

\* A request that is being handled goes on; nobody is obliged to send one.
Fairness == \A h \in Handlers, r \in Receipts : WF_vars(Handle(h, r))

Spec == Init /\ [][Next]_vars /\ Fairness

-----------------------------------------------------------------------------
\* Request h has stored r and has still to act on it.
Carries(h, r) == At(h, "case", r) \/ At(h, "notify", r)

\* "Audit-first": the case moves and the analyst is notified only on account
\* of a receipt that is in the audit trail.
AuditFirst ==
  /\ \A r \in Receipts : notifications[r] > 0 => r \in receipts
  /\ \A k \in Cases : case_status[k] # "open" =>
       \E r \in receipts : CaseOf[r] = k /\ NewStatus(r) = case_status[k]

\* A receipt that arrives twice, even at the same time, has one effect: one
\* handler carries it past the insert, and the analyst is notified once.
HandledOnce ==
  \A r \in Receipts :
    /\ notifications[r] <= 1
    /\ \A g, h \in Handlers : Carries(g, r) /\ Carries(h, r) => g = h

\* How far a receipt has come, as the executor, the case and the analyst see it.
PhaseOf(r) == IF r \notin receipts THEN "new"
              ELSE IF \E h \in Handlers : At(h, "case", r) THEN "case"
              ELSE IF \E h \in Handlers : At(h, "notify", r) THEN "notify"
              ELSE "done"

\* Receipts implements AuditTrail: whatever is delivered again, fails or crashes,
\* each receipt goes through its effects in order and at most once.
Trail == INSTANCE AuditTrail WITH phase <- [r \in Receipts |-> PhaseOf(r)],
                                  StatusOf <- [r \in Receipts |-> NewStatus(r)],
                                  Announced <- {r \in Receipts : Triggers(r)}
ImplementsAuditTrail == Trail!Spec

\* Without a failure nothing is left undone: a receipt that is past its second step
\* has moved its case, and one that nobody acts on any more has been notified if it
\* calls for that.
SettledIsDone ==
  faults = 0 => \A r \in Receipts :
    /\ PhaseOf(r) \in {"notify", "done"} => case_status[CaseOf[r]] # "open"
    /\ PhaseOf(r) = "done" /\ Triggers(r) => notifications[r] = 1

\* Without a failure every stored receipt that calls for it is notified.
StoredIsNotified ==
  \A r \in Receipts :
    r \in receipts /\ TaxonomyOf[r] \in NOTIFICATION_TRIGGERS ~> (notifications[r] = 1 \/ faults > 0)
=============================================================================
