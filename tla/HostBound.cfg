SPECIFICATION Spec
CONSTANTS
  j1 = j1
  j2 = j2
  j3 = j3
  j4 = j4
  s1 = s1
  s2 = s2
  a1 = a1
  a2 = a2
  h1 = h1
  h2 = h2
  Sample = {s1, s2}
  Host = {h1, h2}
  Job <- Crowd
  SampleOf <- CrowdSample
  HostOf <- CrowdHost
  Audit = {a1, a2}
  AuditOf <- TwoAudits
  BrowserMax = 2
  PackageMax = 1
  HostMax = 1
  MaxDeletes = 0
  MaxFaults = 0
  MaxRestarts = 0
INVARIANT HostBound
CHECK_DEADLOCK FALSE
