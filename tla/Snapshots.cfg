SPECIFICATION Spec
CONSTANTS
  j1 = j1
  j2 = j2
  j3 = j3
  j4 = j4
  s1 = s1
  s2 = s2
  a1 = a1
  a2 = a2
  h1 = h1
  h2 = h2
  Sample = {s1}
  Host = {h1, h2}
  Job <- Pair
  SampleOf <- PairSample
  HostOf <- PairHost
  Audit = {a1}
  AuditOf <- OneSample
  BrowserMax = 2
  PackageMax = 1
  HostMax = 1
  MaxDeletes = 1
  MaxFaults = 1
  MaxRestarts = 1
INVARIANTS TypeOK SlotsInUse UnfinishedHasWorker ReadyHasArchive
CHECK_DEADLOCK FALSE
