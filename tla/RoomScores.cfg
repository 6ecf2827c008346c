SPECIFICATION FairSpec

CONSTANTS
  p1 = p1
  p2 = p2
  c1 = c1
  c2 = c2
  c3 = c3
  s1 = s1
  s2 = s2
  s3 = s3
  l1 = l1
  l2 = l2
  None = None
  Players = {p1, p2}
  Conns = {c3}
  Owner <- MCOwner
  Subs = {s1, s2}
  Author <- MCAuthor
  Loops = {l1, l2}
  Capacity = 3
  GuildCapacity = 1
  Seeded = {p1, p2}
  RoomPlayerState <- SchemaStates
  Outcomes = {"passed", "compile", "language", "build"}
  MaxFaults = 0
  MaxCrashes = 0

INVARIANTS
  TypeOK
  LeaderboardSettled
  AcceptedMeansPassed
  OnlyResultsJam

PROPERTIES
  SubmissionsSettled

CHECK_DEADLOCK FALSE
