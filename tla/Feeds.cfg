SPECIFICATION FairSpec

CONSTANTS
  p1 = p1
  p2 = p2
  c1 = c1
  c2 = c2
  s1 = s1
  g1 = g1
  s2 = s2
  None = None
  Players = {p1, p2}
  Conns = {c1, c2}
  Owner <- MCOwner
  Subs = {s1, s2}
  Author <- MCAuthor
  Capacity = 1
  MaxFlight <- MCFlight
  Spectators = {g1}
  GuildCapacity = 1
  BufferSize = 1
  MaxVersions = 2
  Crowds <- MCCrowds

INVARIANTS
  FeedsTypeOK
  RegisteredIsOpen
  BoardsAccounted
  LeftIsLastWord
  SpectatorCaughtUp

PROPERTIES
  OnlyRivalsSilence
  HandlersReturn

CHECK_DEADLOCK FALSE
