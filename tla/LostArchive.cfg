SPECIFICATION Spec
CONSTANTS
  j1 = j1
  j2 = j2
  j3 = j3
  j4 = j4
  s1 = s1
  s2 = s2
  a1 = a1
  a2 = a2
  h1 = h1
  h2 = h2
  Sample = {s1, s2}
  Host = {h1, h2}
  Job <- Retake
  SampleOf <- RetakeSample
  HostOf <- RetakeHost
  Audit = {a1}
  AuditOf <- OneAudit
  BrowserMax = 2
  PackageMax = 1
  HostMax = 1
  MaxDeletes = 1
  MaxFaults = 1
  MaxRestarts = 0
INVARIANT ReadyIsDownloadable
CHECK_DEADLOCK FALSE
