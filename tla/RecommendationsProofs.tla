------------------------ MODULE RecommendationsProofs ------------------------
(***************************************************************************)
(* Proofs about the approval gate: no row is approved around it and        *)
(* nothing is dispatched unapproved, for any number of artifacts,          *)
(* operators and concurrent requests; and an approved row never changes as *)
(* long as there is one approval at a time.                                *)
(***************************************************************************)
EXTENDS Recommendations, TLAPS

\* What a request that is past the gate knows: it names an operator, the row
\* exists and the override log the row asks for is there.  Create never
\* replaces a row and ApproveWrite leaves the columns the gate looked at.
RequestPassedGate ==
  \A q \in Requests : request[q] # Idle =>
     /\ request[q].by \in Operators
     /\ table[request[q].rec] # NoRow
     /\ NeedsOverride(table[request[q].rec]) => request[q].override

\* The two columns that say approved agree.
StatusAgrees ==
  \A r \in Recs : table[r] # NoRow =>
     (table[r].status = "approved" <=> table[r].analyst_approved)

IInv == /\ TypeOK
        /\ RequestPassedGate
        /\ StatusAgrees
        /\ ApprovedPassedGate
        /\ DispatchedWasApproved

\* A request that is not idle is about to write.
LEMMA WritingRequest ==
  ASSUME TypeOK, NEW q \in Requests, request[q] # Idle
  PROVE  /\ request[q].rec \in Recs
         /\ request[q].by \in Names
         /\ request[q].override \in BOOLEAN
BY DEF TypeOK, Request

\* The row that approval makes of a row.
ApprovedRow(row, by, override) ==
  [row EXCEPT !.analyst_approved = TRUE, !.approved_by = by,
              !.override_log = override, !.status = "approved"]

\* Approval keeps a row a row and does not touch what the gate looked at.
LEMMA ApprovedRowFacts ==
  ASSUME NEW row \in Row, NEW by \in Names, NEW override \in BOOLEAN
  PROVE  /\ ApprovedRow(row, by, override) \in Row
         /\ ApprovedRow(row, by, override).analyst_approved
         /\ ApprovedRow(row, by, override).approved_by = by
         /\ ApprovedRow(row, by, override).override_log = override
         /\ ApprovedRow(row, by, override).status = "approved"
         /\ NeedsOverride(ApprovedRow(row, by, override)) <=> NeedsOverride(row)
BY DEF ApprovedRow, Row, NeedsOverride

\* Draft makes an unapproved row.
LEMMA DraftFacts ==
  ASSUME NEW expires \in Nat, NEW weak \in BOOLEAN, NEW inspected \in BOOLEAN,
         NEW valid \in BOOLEAN
  PROVE  /\ Draft(expires, weak, inspected, valid) \in Row
         /\ ~ Draft(expires, weak, inspected, valid).analyst_approved
         /\ Draft(expires, weak, inspected, valid).status = "draft"
BY DEF Draft, Row

-----------------------------------------------------------------------------
LEMMA InitIInv == Init => IInv
BY DEF Init, IInv, TypeOK, Request, RequestPassedGate, StatusAgrees,
       ApprovedPassedGate, Approved, DispatchedWasApproved

LEMMA CreateIInv ==
  ASSUME IInv, NEW r \in Recs, NEW expires \in 0 .. MaxTime, NEW weak \in BOOLEAN,
         NEW inspected \in BOOLEAN, NEW valid \in BOOLEAN,
         Create(r, expires, weak, inspected, valid)
  PROVE  IInv'
<1> DEFINE d == Draft(expires, weak, inspected, valid)
<1>1. expires \in Nat
  BY RecommendationsAssumption
<1>2. d \in Row /\ ~ d.analyst_approved /\ d.status = "draft"
  BY <1>1, DraftFacts
<1>3. /\ table[r] = NoRow
      /\ table' = [table EXCEPT ![r] = d]
      /\ request' = request
      /\ dispatched' = dispatched
      /\ now' = now
  BY DEF Create
<1> HIDE DEF d
<1>4. TypeOK'
  BY <1>2, <1>3 DEF IInv, TypeOK
<1>5. RequestPassedGate'
  BY <1>3, WritingRequest DEF IInv, RequestPassedGate, TypeOK, NeedsOverride
<1>6. StatusAgrees'
  BY <1>2, <1>3 DEF IInv, StatusAgrees, TypeOK
<1>7. ApprovedPassedGate'
  BY <1>2, <1>3 DEF IInv, ApprovedPassedGate, Approved, TypeOK, NeedsOverride
<1>8. DispatchedWasApproved'
  BY <1>3 DEF IInv, DispatchedWasApproved, SchemaValid, NeedsOverride
<1> QED
  BY <1>4, <1>5, <1>6, <1>7, <1>8 DEF IInv

LEMMA ApproveReadIInv ==
  ASSUME IInv, NEW q \in Requests, NEW r \in Recs, NEW by \in Names,
         NEW override \in BOOLEAN, ApproveRead(q, r, by, override)
  PROVE  IInv'
<1> DEFINE w == [pc |-> "write", rec |-> r, by |-> by, override |-> override]
<1>1. /\ request' = [request EXCEPT ![q] = w]
      /\ table' = table
      /\ dispatched' = dispatched
      /\ now' = now
  BY DEF ApproveRead
<1>2. table[r] # NoRow /\ by \in Operators /\ (NeedsOverride(table[r]) => override)
  BY DEF ApproveRead, MayApprove, ApprovalGate, Names
<1>3. TypeOK'
  BY <1>1 DEF IInv, TypeOK, Request
<1>4. RequestPassedGate'
  <2> SUFFICES ASSUME NEW p \in Requests, request'[p] # Idle
               PROVE  /\ request'[p].by \in Operators
                      /\ table[request'[p].rec] # NoRow
                      /\ NeedsOverride(table[request'[p].rec]) => request'[p].override
    BY <1>1 DEF RequestPassedGate, NeedsOverride
  <2>1. CASE p = q
    BY <2>1, <1>1, <1>2 DEF IInv, TypeOK
  <2>2. CASE p # q
    BY <2>2, <1>1 DEF IInv, TypeOK, RequestPassedGate
  <2> QED
    BY <2>1, <2>2
<1>5. StatusAgrees' /\ ApprovedPassedGate' /\ DispatchedWasApproved'
  BY <1>1 DEF IInv, StatusAgrees, ApprovedPassedGate, Approved, NeedsOverride,
              DispatchedWasApproved, SchemaValid
<1> QED
  BY <1>3, <1>4, <1>5 DEF IInv

LEMMA ApproveWriteIInv ==
  ASSUME IInv, NEW q \in Requests, ApproveWrite(q)
  PROVE  IInv'
<1> DEFINE r == request[q].rec
           a == ApprovedRow(table[r], request[q].by, request[q].override)
<1>1. /\ request[q] # Idle
      /\ request' = [request EXCEPT ![q] = Idle]
      /\ table' = [table EXCEPT ![r] = a]
      /\ dispatched' = dispatched
      /\ now' = now
  BY DEF ApproveWrite, ApprovedRow, Idle
<1>2. /\ r \in Recs
      /\ request[q].by \in Operators
      /\ request[q].by \in Names
      /\ request[q].override \in BOOLEAN
      /\ NeedsOverride(table[r]) => request[q].override
  BY <1>1, WritingRequest DEF IInv, RequestPassedGate
<1>3. table[r] \in Row
  BY <1>1, <1>2 DEF IInv, TypeOK, RequestPassedGate
<1>4. /\ a \in Row
      /\ a.analyst_approved
      /\ a.approved_by = request[q].by
      /\ a.override_log = request[q].override
      /\ a.status = "approved"
      /\ NeedsOverride(a) <=> NeedsOverride(table[r])
  BY <1>2, <1>3, ApprovedRowFacts
<1> HIDE DEF a
<1>5. TypeOK'
  BY <1>1, <1>2, <1>4 DEF IInv, TypeOK, Request
<1>6. a # NoRow
  BY <1>4, NoRowAssumption
<1>7. RequestPassedGate'
  <2> SUFFICES ASSUME NEW p \in Requests, request'[p] # Idle
               PROVE  /\ request'[p].by \in Operators
                      /\ table'[request'[p].rec] # NoRow
                      /\ NeedsOverride(table'[request'[p].rec]) => request'[p].override
    BY DEF RequestPassedGate, NeedsOverride
  <2>1. p # q /\ request'[p] = request[p] /\ request[p].rec \in Recs
    BY <1>1, WritingRequest DEF IInv, TypeOK
  <2>2. /\ request[p].by \in Operators
        /\ table[request[p].rec] # NoRow
        /\ NeedsOverride(table[request[p].rec]) => request[p].override
    BY <2>1 DEF IInv, RequestPassedGate
  <2>3. CASE request[p].rec = r
    BY <2>1, <2>2, <2>3, <1>1, <1>2, <1>4, <1>6 DEF IInv, TypeOK
  <2>4. CASE request[p].rec # r
    BY <2>1, <2>2, <2>4, <1>1, <1>2 DEF IInv, TypeOK
  <2> QED
    BY <2>3, <2>4
<1>8. StatusAgrees'
  BY <1>1, <1>2, <1>4 DEF IInv, StatusAgrees, TypeOK
<1>9. ApprovedPassedGate'
  <2> SUFFICES ASSUME NEW s \in Recs, Approved(table'[s])
               PROVE  /\ table'[s].status = "approved"
                      /\ table'[s].approved_by \in Operators
                      /\ NeedsOverride(table'[s]) => table'[s].override_log
    BY DEF ApprovedPassedGate, Approved, NeedsOverride
  <2>1. CASE s = r
    BY <2>1, <1>1, <1>2, <1>4 DEF IInv, TypeOK
  <2>2. CASE s # r
    BY <2>2, <1>1, <1>2 DEF IInv, TypeOK, ApprovedPassedGate
  <2> QED
    BY <2>1, <2>2
<1>10. DispatchedWasApproved'
  BY <1>1 DEF IInv, DispatchedWasApproved, SchemaValid, NeedsOverride
<1> QED
  BY <1>5, <1>7, <1>8, <1>9, <1>10 DEF IInv

LEMMA ApproveAbortsIInv ==
  ASSUME IInv, NEW q \in Requests, ApproveAborts(q)
  PROVE  IInv'
<1>1. /\ request' = [request EXCEPT ![q] = Idle]
      /\ table' = table
      /\ dispatched' = dispatched
      /\ now' = now
  BY DEF ApproveAborts
<1>2. TypeOK'
  BY <1>1 DEF IInv, TypeOK, Request
<1>3. RequestPassedGate'
  BY <1>1 DEF IInv, TypeOK, RequestPassedGate, NeedsOverride
<1>4. StatusAgrees' /\ ApprovedPassedGate' /\ DispatchedWasApproved'
  BY <1>1 DEF IInv, StatusAgrees, ApprovedPassedGate, Approved, NeedsOverride,
              DispatchedWasApproved, SchemaValid
<1> QED
  BY <1>2, <1>3, <1>4 DEF IInv

LEMMA DispatchIInv ==
  ASSUME IInv, NEW r \in Recs, Dispatch(r)
  PROVE  IInv'
<1> DEFINE d == [rec |-> r, row |-> table[r], at |-> now]
<1>1. /\ dispatched' = dispatched \cup {d}
      /\ table' = table
      /\ request' = request
      /\ now' = now
  BY DEF Dispatch
<1>2. table[r] \in Row /\ table[r].status = "approved" /\ SchemaValid(table[r])
  BY DEF Dispatch, MayDispatch, IInv, TypeOK
<1>3. table[r].analyst_approved /\ table[r].approved_by \in Operators
  BY <1>2, NoRowAssumption DEF IInv, StatusAgrees, ApprovedPassedGate, Approved
<1>4. TypeOK'
  BY <1>1, <1>2 DEF IInv, TypeOK
<1>5. DispatchedWasApproved'
  <2> SUFFICES ASSUME NEW x \in dispatched'
               PROVE  /\ x.row.analyst_approved
                      /\ x.row.approved_by \in Operators
                      /\ SchemaValid(x.row)
    BY DEF DispatchedWasApproved, SchemaValid, NeedsOverride
  <2>1. CASE x = d
    BY <2>1, <1>2, <1>3
  <2>2. CASE x \in dispatched
    BY <2>2 DEF IInv, DispatchedWasApproved
  <2> QED
    BY <1>1, <2>1, <2>2
<1>6. RequestPassedGate' /\ StatusAgrees' /\ ApprovedPassedGate'
  BY <1>1 DEF IInv, RequestPassedGate, StatusAgrees, ApprovedPassedGate, Approved, NeedsOverride
<1> QED
  BY <1>4, <1>5, <1>6 DEF IInv

\* Time, and steps that change nothing.
LEMMA QuietIInv ==
  ASSUME IInv, now' \in Nat, table' = table, request' = request, dispatched' = dispatched
  PROVE  IInv'
BY DEF IInv, TypeOK, RequestPassedGate, StatusAgrees, ApprovedPassedGate, Approved,
       NeedsOverride, DispatchedWasApproved, SchemaValid

LEMMA NextIInv == IInv /\ [Next]_vars => IInv'
<1> SUFFICES ASSUME IInv, [Next]_vars PROVE IInv'
  OBVIOUS
<1>1. CASE \E r \in Recs, expires \in 0 .. MaxTime, weak, inspected, valid \in BOOLEAN :
             Create(r, expires, weak, inspected, valid)
  BY <1>1, CreateIInv
<1>2. CASE \E q \in Requests, r \in Recs, by \in Names, override \in BOOLEAN :
             ApproveRead(q, r, by, override)
  BY <1>2, ApproveReadIInv
<1>3. CASE \E q \in Requests : ApproveWrite(q) \/ ApproveAborts(q)
  BY <1>3, ApproveWriteIInv, ApproveAbortsIInv
<1>4. CASE \E r \in Recs : Dispatch(r)
  BY <1>4, DispatchIInv
<1>5. CASE Tick
  BY <1>5, QuietIInv DEF Tick, IInv, TypeOK
<1>6. CASE UNCHANGED vars
  BY <1>6, QuietIInv DEF vars, IInv, TypeOK
<1> QED
  BY <1>1, <1>2, <1>3, <1>4, <1>5, <1>6 DEF Next

LEMMA InvariantHolds == Spec => []IInv
BY InitIInv, NextIInv, PTL DEF Spec

-----------------------------------------------------------------------------
\* Every state is well typed, for any sets of artifacts, operators and
\* requests and any bound on the clock.
THEOREM TypeCorrect == Spec => []TypeOK
<1>1. IInv => TypeOK
  BY DEF IInv
<1> QED
  BY <1>1, InvariantHolds, PTL

\* Whatever requests race, no row is approved around the gate.
THEOREM GateHolds == Spec => []ApprovedPassedGate
<1>1. IInv => ApprovedPassedGate
  BY DEF IInv
<1> QED
  BY <1>1, InvariantHolds, PTL

\* Nothing is dispatched that was not approved by a named operator.
THEOREM DispatchIsApproved == Spec => []DispatchedWasApproved
<1>1. IInv => DispatchedWasApproved
  BY DEF IInv
<1> QED
  BY <1>1, InvariantHolds, PTL

-----------------------------------------------------------------------------
\* With one request at a time, the row it is about to approve is a draft.
WritesDraft ==
  \A q \in Requests : request[q] # Idle => ~ Approved(table[request[q].rec])

\* What the guard of approve would have to keep to itself: between its read
\* and its write nobody else approves.
LEMMA OneRequestKeepsDrafts ==
  ASSUME \A p, q \in Requests : p = q,
         IInv, WritesDraft, [Next]_vars
  PROVE  WritesDraft'
<1>1. CASE \E r \in Recs, expires \in 0 .. MaxTime, weak, inspected, valid \in BOOLEAN :
             Create(r, expires, weak, inspected, valid)
  BY <1>1, WritingRequest DEF Create, WritesDraft, IInv, RequestPassedGate, TypeOK, Approved
<1>2. CASE \E q \in Requests, r \in Recs, by \in Names, override \in BOOLEAN :
             ApproveRead(q, r, by, override)
  BY <1>2 DEF ApproveRead, MayApprove, WritesDraft, IInv, TypeOK, Approved
<1>3. CASE \E q \in Requests : ApproveWrite(q) \/ ApproveAborts(q)
  <2>1. PICK q \in Requests : request' = [request EXCEPT ![q] = Idle]
    BY <1>3 DEF ApproveWrite, ApproveAborts
  <2>2. \A p \in Requests : request'[p] = Idle
    BY <2>1 DEF IInv, TypeOK
  <2> QED
    BY <2>2 DEF WritesDraft
<1>4. CASE \E r \in Recs : Dispatch(r)
  BY <1>4 DEF Dispatch, WritesDraft, Approved
<1>5. CASE Tick
  BY <1>5 DEF Tick, WritesDraft, Approved
<1>6. CASE UNCHANGED vars
  BY <1>6 DEF vars, WritesDraft, Approved
<1> QED
  BY <1>1, <1>2, <1>3, <1>4, <1>5, <1>6 DEF Next

\* A step changes no approved row when every pending write is to a draft.
LEMMA DraftsOnlyChange ==
  ASSUME IInv, WritesDraft, [Next]_vars, NEW r \in Recs, Approved(table[r])
  PROVE  table'[r] = table[r]
<1>1. CASE \E s \in Recs, expires \in 0 .. MaxTime, weak, inspected, valid \in BOOLEAN :
             Create(s, expires, weak, inspected, valid)
  BY <1>1 DEF Create, IInv, TypeOK, Approved
<1>2. CASE \E q \in Requests, s \in Recs, by \in Names, override \in BOOLEAN :
             ApproveRead(q, s, by, override)
  BY <1>2 DEF ApproveRead
<1>3. CASE \E q \in Requests : ApproveWrite(q) \/ ApproveAborts(q)
  <2>1. PICK q \in Requests : ApproveWrite(q) \/ ApproveAborts(q)
    BY <1>3
  <2>2. CASE ApproveWrite(q)
    <3>1. request[q] # Idle
      BY <2>2 DEF ApproveWrite, Idle
    <3>2. request[q].rec # r
      BY <3>1 DEF WritesDraft
    <3> QED
      BY <2>2, <3>2 DEF ApproveWrite, IInv, TypeOK
  <2>3. CASE ApproveAborts(q)
    BY <2>3 DEF ApproveAborts
  <2> QED
    BY <2>1, <2>2, <2>3
<1>4. CASE \E s \in Recs : Dispatch(s)
  BY <1>4 DEF Dispatch
<1>5. CASE Tick
  BY <1>5 DEF Tick
<1>6. CASE UNCHANGED vars
  BY <1>6 DEF vars
<1> QED
  BY <1>1, <1>2, <1>3, <1>4, <1>5, <1>6 DEF Next

\* ADR-030 section 1 holds if approvals never overlap; with two requests the
\* runs show that it does not.
THEOREM ImmutableIfSerial ==
  ASSUME \A p, q \in Requests : p = q
  PROVE  Spec => ImmutableAfterApproval
<1>1. Init => WritesDraft
  BY DEF Init, WritesDraft
<1>2. IInv /\ WritesDraft /\ [Next]_vars => WritesDraft'
  BY OneRequestKeepsDrafts
<1>3. IInv /\ WritesDraft /\ [Next]_vars
        => [\A r \in Recs : Approved(table[r]) => table'[r] = table[r]]_vars
  BY DraftsOnlyChange
<1> QED
  BY <1>1, <1>2, <1>3, InvariantHolds, PTL DEF Spec, ImmutableAfterApproval
=============================================================================
