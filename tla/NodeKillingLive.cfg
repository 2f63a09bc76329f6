SPECIFICATION FairSpec
CONSTANTS
  n1 = n1
  n2 = n2
  rs = rs
  zombie = zombie
  twin = twin
  ds = ds
  bare = bare
  k1 = k1
  k2 = k2
  h1 = h1
  h2 = h2
  s1 = s1
  s2 = s2
  NotFound = NotFound
  NoExpiry = NoExpiry
  NoNode = NoNode
  Owners <- MCOwners
  ExpiryTimes <- MCExpiryTimes
  Mirror = {}
  NodeName = {n1, n2}
  Pod = {rs, zombie}
  Worker = {k1}
  Killer = {k1}
  Handler = {}
  SpotterThread = {s1}
  Tolerant = {}
  Stuck = {zombie}
  NameReuse = TRUE
  MaxTime = 1
  MaxRevision = 2
  MCMinute = 2
INVARIANTS
  MarkedForItself
PROPERTIES
  ExpiredNodeGoes
