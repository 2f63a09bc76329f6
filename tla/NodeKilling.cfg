SPECIFICATION Spec
CONSTANTS
  n1 = n1
  n2 = n2
  rs = rs
  zombie = zombie
  twin = twin
  ds = ds
  bare = bare
  k1 = k1
  k2 = k2
  h1 = h1
  h2 = h2
  s1 = s1
  s2 = s2
  NotFound = NotFound
  NoExpiry = NoExpiry
  NoNode = NoNode
  Owners <- MCOwners
  ExpiryTimes <- MCExpiryTimes
  Mirror = {}
  NodeName = {n1, n2}
  Pod = {rs, ds}
  Worker = {k1, h1}
  Killer = {k1}
  Handler = {h1}
  SpotterThread = {s1}
  Tolerant = {ds}
  Stuck = {}
  NameReuse = FALSE
  MaxTime = 1
  MaxRevision = 2
  MCMinute = 2
SYMMETRY Names
INVARIANTS
  TypeOK
  InstanceAfterNode
  SuccessMeansDrained
PROPERTIES
  NoLostUpdate
  DeletesOnlyExpired
  DeletesOnlyDrained
