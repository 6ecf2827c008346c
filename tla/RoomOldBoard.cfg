SPECIFICATION Spec

CONSTANTS
  p1 = p1
  p2 = p2
  c1 = c1
  c2 = c2
  c3 = c3
  s1 = s1
  s2 = s2
  s3 = s3
  l1 = l1
  l2 = l2
  None = None
  Players = {p1, p2}
  Conns = {}
  Owner <- MCOwner
  Subs = {s1, s2}
  Author <- MCAuthor
  Loops = {l1, l2}
  Capacity = 2
  GuildCapacity = 1
  Seeded = {p1, p2}
  RoomPlayerState <- SchemaStates
  Outcomes = {"passed", "failed"}
  MaxFaults = 0
  MaxCrashes = 0

SYMMETRY LoopSymmetry

INVARIANTS
  BoardCurrent

CHECK_DEADLOCK FALSE
