SPECIFICATION FeedsSpec

CONSTANTS
  p1 = p1
  p2 = p2
  c1 = c1
  c2 = c2
  s1 = s1
  s2 = s2
  g1 = g1
  None = None
  Players = {p1, p2}
  Conns = {c1, c2}
  Owner <- MCOwner
  Subs = {s1}
  Author <- MCAuthor
  Capacity = 1
  MaxFlight <- NoFlight
  Spectators = {g1}
  GuildCapacity = 1
  BufferSize = 5
  MaxVersions = 2
  Crowds <- PanicCrowds

INVARIANTS
  ServerSurvives

CHECK_DEADLOCK FALSE
