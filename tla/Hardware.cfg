CONSTANTS
  Requests = {r1, r2, r3}
  Releases = {1, 3, 4}
  FirstCAPI = 3
  Operator <- MCOperator
  NoOperator = 0
  NoRelease = NoRelease
  VMTypes = {"plain", "fast", "short", "remote"}
  Locations = {"home", "away"}
  Home = "home"
  Sku <- MCSku
  NotOffered = NotOffered
  Zones = {1, 2}
  Organizations = {"acme", "other"}
  Owner = "acme"
  Spots = {"none", "cheap"}
  Absent = Absent
  Unset = Unset
  NoNumber = NoNumber
  Counts <- MCCounts
  PoolProposals <- HardwarePools
  MachineProposals <- NoMachines
  MaxLabels = 1
SYMMETRY Symmetry
SPECIFICATION Spec
INVARIANTS
  TypeOK
  HardwareFits
PROPERTY FixedForLife
CHECK_DEADLOCK FALSE
