SPECIFICATION MCSpec
CONSTANTS
  r1 = r1
  r2 = r2
  host = host
  own = own
  block = block
  cancel = cancel
  again = again
  shield = shield
  lift = lift
  Runs = {r1, r2}
  Steps = 2
  Requests <- MCRequests
  Request <- MCRequest
  Addresses = {host, own}
  Safelist = {own}
  RateLimit = 3
  Overlap = TRUE
  Legacy <- MCLegacy
  Added <- MCAdded
  WithRuns <- MCWithRuns
  Versions = {0, 20, 34, 41, 47, 53}
  MaxSchFaults = 1
  Uploads = {"u1", "u2"}
  Files <- MCFiles
  Content <- MCContent
  Findings <- MCFindings
  MaxFaults = 2
  Investigations = {"q1", "q2"}
  ToolResults <- MCResults
  Masquerades = {"svchosts"}
  MAX_STEPS = 1
  MaxCalls = 2
PROPERTY
  OverIsOver
CHECK_DEADLOCK FALSE
