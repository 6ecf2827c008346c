SPECIFICATION FairSpec

CONSTANTS
  r1 = r1
  r2 = r2
  r3 = r3
  g1 = g1
  g2 = g2
  a1 = a1
  a2 = a2
  d1 = d1
  d2 = d2
  d3 = d3
  None = None
  Requests = {r1, r2, r3}
  Form <- MCForm
  Rooms <- MCRooms
  Guild <- MCGuild
  Admins = {a1, a2}
  PageSize = 1
  MaxFaults = 1
  Containers = {d1, d2, d3}
  MaxWorkers = 2
  Scenarios <- MCScenarios

INVARIANTS
  ServerTypeOK
  EventsComplete
  OneOutcome
  GuildSeesItsEvent
  AnswersHold
  PoolBalanced

PROPERTIES
  DecidedAtOnce
  NeverOverfull
  EveryRequestDecided
  StopEnds
