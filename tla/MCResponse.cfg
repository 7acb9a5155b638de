SPECIFICATION MCSpec
CONSTANTS
  r1 = r1
  r2 = r2
  r3 = r3
  k1 = k1
  k2 = k2
  h1 = h1
  h2 = h2
  NoRow = NoRow
  Receipts <- MCReceiptIds
  Cases <- MCCases
  CaseOf <- MCCaseOf
  TaxonomyOf <- MCTaxonomyOf
  Handlers = {h1, h2}
  MaxFaults = 2
  Detections = {"d1", "d2", "d3"}
  Eligible = {"d1", "d2"}
  Clients = {TRUE, FALSE}
  MaxHiveFaults = 2
  Events <- MCEvents
  Event <- MCEvent
  GraphCases = {"k"}
  Drawn <- MCDrawn
  Batches <- MCBatches
  Limit = 2
  MaxRequests = 1
  MaxGraphFaults = 1
INVARIANTS
  AuditFirst
  OneFailureLosesNothing
  EdgesHaveEnds
  BackfillIsWhole
PROPERTIES
  ImplementsAuditTrail
  StoredIsNotified
  PendingIsRetriedIfAnswered
  ClosureIsSynced
CHECK_DEADLOCK FALSE
