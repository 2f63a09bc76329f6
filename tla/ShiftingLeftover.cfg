SPECIFICATION FairSpec
CONSTANTS
  m1 = m1
  m2 = m2
  m3 = m3
  m4 = m4
  o1 = o1
  o2 = o2
  p1 = p1
  za = za
  zb = zb
  rs = rs
  s1 = s1
  NotFound = NotFound
  NoExpiry = NoExpiry
  NoNode = NoNode
  Unlabelled = Unlabelled
  NodeName = {m1, m2}
  Pod = {rs}
  Owners <- MCOwners
  Mirror = {}
  Tolerant = {}
  Stuck = {}
  NameReuse = FALSE
  MaxTime = 0
  MaxRevision = 1
  Worker = {s1}
  Shifter = {s1}
  OnDemand = {o1, o2}
  Preemptible = {p1}
  Zone = {za}
  NumberOfZones = 1
  InitialSize = 0
  MaxSize = 1
  PoolOf <- MCPoolOf
  ZoneOf <- MCZoneOf
  Labels <- MCLabels
  MachineType <- MCMachineType
  MinNodeCount <- MCMinNodeCount
  ShiftInterval <- MCInterval
  Day = 2
  MCMinimum = 1
PROPERTIES
  CordonedSourceGoes
