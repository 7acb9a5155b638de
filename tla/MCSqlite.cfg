SPECIFICATION MCSpec
CONSTANTS
  m1 = m1
  m2 = m2
  s1 = s1
  s2 = s2
  Calls = {m1, m2, s1, s2}
  Methods = {m1, m2}
  Size <- MCSize
  MaxFaults = 2
  Iocs = {"i1"}
  Events = {"e1", "e2"}
  AddressOf <- MCAddressOf
  Src <- MCSrc
  Dst <- MCDst
  Syncs = {"feodo", "misp"}
  Guarded = {"feodo"}
  MaxConf = 1
  ScanLimit = 2
  MaxIocFaults = 1
INVARIANTS
  MethodsAreAtomic
  FlaggedIsHit
PROPERTIES
  ImplementsTransactions
  NewIocIsScanned
CHECK_DEADLOCK FALSE
