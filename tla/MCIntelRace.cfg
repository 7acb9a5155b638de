SPECIFICATION MCSpec
CONSTANTS
  Recs = {r1}
  Operators = {alice, bob}
  Blank = Blank
  Requests = {q1, q2}
  MaxTime = 2
  NoRow = NoRow
  Findings = {"f1", "f2"}
  Polls = 2
  MaxOsintFaults = 1
  Kinds = {"tail", "malcolm", "winevent"}
  MaxRecords = 3
  MaxSourceTime = 4
  PageSize = 2
  MaxSourceFaults = 2
  Watches <- MCWatches
  MaxDocs = 2
  PollSize = 2
  MaxMalcolmFaults = 1
  MaxLines = 5
  MaxDays = 2
  Unreadable = {1}
  Garbled = {3}
  Raising = {4}
  MaxUbuntuFaults = 1
PROPERTY
  ImmutableAfterApproval
CHECK_DEADLOCK FALSE
