SPECIFICATION Spec

CONSTANTS
  p1 = p1
  p2 = p2
  c1 = c1
  c2 = c2
  c3 = c3
  s1 = s1
  s2 = s2
  s3 = s3
  l1 = l1
  l2 = l2
  None = None
  Players = {p1, p2}
  Conns = {c1, c2}
  Owner <- MCOwner
  Subs = {s1, s2}
  Author <- MCAuthor
  Loops = {l1, l2}
  Capacity = 2
  GuildCapacity = 1
  Seeded = {p2}
  RoomPlayerState <- LenientStates
  Outcomes = {"passed", "failed"}
  MaxFaults = 1
  MaxCrashes = 1

SYMMETRY RosterSymmetry

CONSTRAINT SmallRoom

INVARIANTS
  LeaderboardInv
  PointsMatchVerdicts
  GuildRefreshNotLost
  PlacesFollowScores
  OnlyResultsJam
  BoardSettled
  DepartedAreRemoved

PROPERTIES
  JudgedOnce

CHECK_DEADLOCK FALSE
