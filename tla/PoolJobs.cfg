SPECIFICATION FairSpec

CONSTANTS
  j1 = j1
  j2 = j2
  j3 = j3
  j4 = j4
  Jobs = {j1, j2, j3, j4}
  Compile <- MCCompile
  Tests <- MCTests
  Workers = {w1, w2}
  Containers = {c1, c2}
  Outages = {{}, {c2}}
  MaxJobCount = 1
  MaxRetries = 2
  MaxFaults = 1
  w1 = w1
  w2 = w2
  c1 = c1
  c2 = c2
  c3 = c3
  None = None

INVARIANTS
  TypeOK
  ContainersExclusive
  ContainerAvailable
  VerdictOfOwnCode
  NoCallLost

PROPERTIES
  ServiceSpec

CHECK_DEADLOCK FALSE
