SPECIFICATION Spec
CONSTANTS
  n1 = n1
  rs = rs
  ds = ds
  k1 = k1
  h1 = h1
  h2 = h2
  spotter = spotter
  NotFound = NotFound
  NoExpiry = NoExpiry
  NoNode = NoNode
  NoHandler = NoHandler
  Notifier = Notifier
  HTTPServer = HTTPServer
  Owners <- MCOwners
  Mirror = {}
  NodeName = {n1}
  Pod = {rs}
  Worker = {k1, h1}
  Killer = {k1}
  Handler = {h1}
  Loop = {k1}
  Tolerant = {}
  Stuck = {}
  NameReuse = FALSE
  MaxTime = 0
  MaxRevision = 1
  Retries = 2
INVARIANTS
  RetriesCanBeSent
