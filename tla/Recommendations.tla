--------------------------- MODULE Recommendations ---------------------------
(***************************************************************************)
(* The human-in-the-loop gate of backend/api/recommendations.py (ADR-030): *)
(* a recommendation is created as a draft, approved by an analyst through  *)
(* a gate, and dispatched.  approve reads the row, decides, and writes it  *)
(* with a second statement: other requests and the clock run in between.   *)
(***************************************************************************)
EXTENDS Naturals

CONSTANTS Recs,        \* recommendation ids
          Operators,   \* values of approved_by that are not blank
          Blank,       \* an approved_by of white space only
          Requests,    \* concurrent PATCH .../approve requests
          MaxTime,     \* bound on the clock
          NoRow        \* no such recommendation

ASSUME RecommendationsAssumption == /\ MaxTime \in Nat
                                    /\ Blank \notin Operators

VARIABLES
  table,       \* recommendations: one row per id, or NoRow
  request,     \* the approve requests in progress
  dispatched,  \* recommendations that were answered dispatched: TRUE, as read
  now          \* datetime.now(timezone.utc)

vars == <<table, request, dispatched, now>>

Names == Operators \cup {Blank}

\* The columns that the gate, the dispatch and ADR-030 speak of.  weak:
\* inference_confidence is low or none; inspected: prompt_inspection.passed;
\* valid: the other columns satisfy contracts/recommendation.schema.json.
Row == [analyst_approved : BOOLEAN, approved_by : Names \cup {"empty"},
        override_log : BOOLEAN, expires_at : Nat, status : {"draft", "approved"},
        weak : BOOLEAN, inspected : BOOLEAN, valid : BOOLEAN]

ASSUME NoRowAssumption == NoRow \notin Row

Idle == [pc |-> "idle"]

Request == {Idle} \cup [pc : {"write"}, rec : Recs, by : Names, override : BOOLEAN]

TypeOK == /\ table \in [Recs -> Row \cup {NoRow}]
          /\ request \in [Requests -> Request]
          /\ dispatched \subseteq [rec : Recs, row : Row, at : Nat]
          /\ now \in Nat

Init == /\ table = [r \in Recs |-> NoRow]
        /\ request = [q \in Requests |-> Idle]
        /\ dispatched = {}
        /\ now = 0

-----------------------------------------------------------------------------
NeedsOverride(row) == row.weak \/ ~ row.inspected

\* Mutant: only the confidence asks for an override log.
ApprovalGateWithoutInspection(row, by, override) ==
  /\ by # Blank
  /\ now < row.expires_at
  /\ row.weak => override

\* _run_approval_gate returned no error.
ApprovalGate(row, by, override) ==
  /\ by # Blank
  /\ now < row.expires_at
  /\ NeedsOverride(row) => override

\* The inserted row: never approved, whatever the body says.
Draft(expires, weak, inspected, valid) ==
  [analyst_approved |-> FALSE, approved_by |-> "empty", override_log |-> FALSE,
   expires_at |-> expires, status |-> "draft", weak |-> weak,
   inspected |-> inspected, valid |-> valid]

\* POST /api/recommendations, under a new id; expires_at is not checked.
Create(r, expires, weak, inspected, valid) ==
  /\ table[r] = NoRow
  /\ table' = [table EXCEPT ![r] = Draft(expires, weak, inspected, valid)]
  /\ UNCHANGED <<request, dispatched, now>>

\* Mutant: the 409 guard on an approved artifact is missing.
Approvable(row) == row # NoRow

\* 404 for an unknown id and 409 "artifact is immutable after approval".
MayApprove(row) == row # NoRow /\ ~ row.analyst_approved

\* approve, up to the await of the UPDATE: SELECT, the 404 and 409 guards and
\* the gate.  A refused request leaves no trace.
ApproveRead(q, r, by, override) ==
  /\ request[q] = Idle
  /\ MayApprove(table[r])
  /\ ApprovalGate(table[r], by, override)
  /\ request' = [request EXCEPT ![q] =
                   [pc |-> "write", rec |-> r, by |-> by, override |-> override]]
  /\ UNCHANGED <<table, dispatched, now>>

\* approve, the UPDATE ... WHERE recommendation_id = ? and the 200.
ApproveWrite(q) ==
  /\ request[q].pc = "write"
  /\ table' = [table EXCEPT ![request[q].rec] =
                 [@ EXCEPT !.analyst_approved = TRUE,
                           !.approved_by = request[q].by,
                           !.override_log = request[q].override,
                           !.status = "approved"]]
  /\ request' = [request EXCEPT ![q] = Idle]
  /\ UNCHANGED <<dispatched, now>>

\* execute_write raised: nothing was written, and the answer is a 500.
ApproveAborts(q) ==
  /\ request[q].pc = "write"
  /\ request' = [request EXCEPT ![q] = Idle]
  /\ UNCHANGED <<table, dispatched, now>>

\* Mutant: a draft may be dispatched.
MayDispatchAnything(row) == row # NoRow

\* dispatch answers 404 without a row and 409 unless status is approved.
MayDispatch(row) == row # NoRow /\ row.status = "approved"

\* RecommendationArtifact(**rec): the schema, with its two conditional rules.
SchemaValid(row) == /\ row.valid
                    /\ row.analyst_approved => row.approved_by # "empty"
                    /\ NeedsOverride(row) => row.override_log

\* POST .../dispatch: one SELECT, then the answer.
Dispatch(r) ==
  /\ MayDispatch(table[r])
  /\ SchemaValid(table[r])
  /\ dispatched' = dispatched \cup {[rec |-> r, row |-> table[r], at |-> now]}
  /\ UNCHANGED <<table, request, now>>

Tick == /\ now < MaxTime
        /\ now' = now + 1
        /\ UNCHANGED <<table, request, dispatched>>

-----------------------------------------------------------------------------
Next ==
  \/ \E r \in Recs, expires \in 0 .. MaxTime, weak, inspected, valid \in BOOLEAN :
        Create(r, expires, weak, inspected, valid)
  \/ \E q \in Requests, r \in Recs, by \in Names, override \in BOOLEAN :
        ApproveRead(q, r, by, override)
  \/ \E q \in Requests : ApproveWrite(q) \/ ApproveAborts(q)
  \/ \E r \in Recs : Dispatch(r)
  \/ Tick

Spec == Init /\ [][Next]_vars

-----------------------------------------------------------------------------
Approved(row) == row # NoRow /\ row.analyst_approved

\* An approved row went through the whole gate, whatever requests raced for
\* it: it names an operator and carries an override log when the confidence
\* or the inspection asks for one (ADR-030 sections 2 and 4).
ApprovedPassedGate ==
  \A r \in Recs : Approved(table[r]) =>
     /\ table[r].status = "approved"
     /\ table[r].approved_by \in Operators
     /\ NeedsOverride(table[r]) => table[r].override_log

\* What was dispatched was, when it was read, approved by a named operator
\* and valid against the schema (ADR-030 section 2, conditions 1, 2 and 4).
DispatchedWasApproved ==
  \A d \in dispatched : /\ d.row.analyst_approved
                        /\ d.row.approved_by \in Operators
                        /\ SchemaValid(d.row)

\* ADR-030 section 1: "The artifact is immutable once analyst_approved is set
\* to true."  No later step changes the row.
ImmutableAfterApproval ==
  [][\A r \in Recs : Approved(table[r]) => table'[r] = table[r]]_vars
=============================================================================
