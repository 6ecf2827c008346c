SPECIFICATION SubmitSpec

CONSTANTS
  j1 = j1
  j2 = j2
  j3 = j3
  Jobs = {j1, j2, j3}
  Compile <- MCCompile
  Tests <- MCTests
  Workers = {w1, w2}
  Containers = {c1, c2}
  Outages = {{c2}}
  MaxJobCount = 1
  MaxRetries = 2
  MaxFaults = 1
  w1 = w1
  w2 = w2
  c1 = c1
  c2 = c2
  None = None
  Posts <- MCPosts
  Languages = {"Golang", "Python"}
  Compiled = {"Golang"}
  Packages = {"fmt", "strings"}
  MaxLapses = 1

INVARIANTS
  VerdictOfOwnCode
  OneResultPerJob
  StoredStatusIsVerdict
  PendingExplained

CONSTRAINT
  OneFailure

CHECK_DEADLOCK FALSE
