SPECIFICATION Spec
CONSTANTS
  m1 = m1
  m2 = m2
  m3 = m3
  m4 = m4
  o1 = o1
  o2 = o2
  p1 = p1
  za = za
  zb = zb
  rs = rs
  s1 = s1
  NotFound = NotFound
  NoExpiry = NoExpiry
  NoNode = NoNode
  Unlabelled = Unlabelled
  NodeName = {m1, m2, m3}
  Pod = {rs}
  Owners <- MCOwners
  Mirror = {}
  Tolerant = {}
  Stuck = {}
  NameReuse = FALSE
  MaxTime = 1
  MaxRevision = 1
  Worker = {s1}
  Shifter = {s1}
  OnDemand = {o1, o2}
  Preemptible = {p1}
  Zone = {za}
  NumberOfZones = 2
  InitialSize = 0
  MaxSize = 1
  PoolOf <- MCPoolOf
  ZoneOf <- MCZoneOf
  Labels <- MCLabels
  MachineType <- MCMachineType
  MinNodeCount <- MCMinNodeCount
  ShiftInterval <- MCInterval
  Day = 2
  MCMinimum = 0
SYMMETRY Names
INVARIANTS
  TypeOK
  SourceStaysShut
PROPERTIES
  SourceIsDrained
  MovesInOrder
