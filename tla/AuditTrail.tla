----------------------------- MODULE AuditTrail -----------------------------
(***************************************************************************)
(* What the receipt endpoint promises of each receipt, however often it is *)
(* sent: it comes into the audit trail once; then, once or not at all, its *)
(* case takes the status that it calls for; then, once or not at all, the  *)
(* analyst hears of it.  What is given up is not taken up again.  There is *)
(* no request, no retry and no crash here: Receipts implements this        *)
(* module.                                                                 *)
(***************************************************************************)
EXTENDS Naturals

CONSTANTS Receipts,    \* receipt ids
          Cases,       \* case ids
          CaseOf,      \* the case of each receipt
          StatusOf,    \* the status that each receipt calls for
          Announced    \* the receipts that the analyst must hear of

VARIABLES phase,          \* how far each receipt has come
          case_status,    \* the status of each case
          notifications   \* what the analyst has been told, for each receipt

vars == <<phase, case_status, notifications>>

Init == /\ phase = [r \in Receipts |-> "new"]
        /\ case_status = [k \in Cases |-> "open"]
        /\ notifications = [r \in Receipts |-> 0]

Advance(r, from, to) == /\ phase[r] = from
                        /\ phase' = [phase EXCEPT ![r] = to]

Record(r) == /\ Advance(r, "new", "case")
             /\ UNCHANGED <<case_status, notifications>>

Follow(r) == /\ Advance(r, "case", "notify")
             /\ \/ case_status' = [case_status EXCEPT ![CaseOf[r]] = StatusOf[r]]
                \/ UNCHANGED case_status
             /\ UNCHANGED notifications

Tell(r) == /\ Advance(r, "notify", "done")
           /\ \/ /\ r \in Announced
                 /\ notifications' = [notifications EXCEPT ![r] = @ + 1]
              \/ UNCHANGED notifications
           /\ UNCHANGED case_status

\* All that is under way is given up.
GiveUp == /\ phase' = [r \in Receipts |-> IF phase[r] \in {"case", "notify"} THEN "done"
                                          ELSE phase[r]]
          /\ UNCHANGED <<case_status, notifications>>

Next == \/ \E r \in Receipts : Record(r) \/ Follow(r) \/ Tell(r)
        \/ GiveUp

Spec == Init /\ [][Next]_vars
=============================================================================
