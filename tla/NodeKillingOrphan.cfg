SPECIFICATION FairSpec
CONSTANTS
  n1 = n1
  n2 = n2
  rs = rs
  zombie = zombie
  twin = twin
  ds = ds
  bare = bare
  k1 = k1
  k2 = k2
  h1 = h1
  h2 = h2
  s1 = s1
  s2 = s2
  NotFound = NotFound
  NoExpiry = NoExpiry
  NoNode = NoNode
  Owners <- MCOwners
  ExpiryTimes <- MCExpiryTimes
  Mirror = {}
  NodeName = {n1}
  Pod = {rs}
  Worker = {k1}
  Killer = {k1}
  Handler = {}
  SpotterThread = {s1}
  Tolerant = {}
  Stuck = {}
  NameReuse = FALSE
  MaxTime = 1
  MaxRevision = 1
  MCMinute = 1
PROPERTIES
  InstanceGoesToo
