CONSTANTS
  Requests = {r1, r2, r3}
  Releases = {1, 2, 3}
  FirstCAPI = 3
  Operator <- MCOperator
  NoOperator = 0
  NoRelease = NoRelease
  VMTypes = {"plain", "fast", "short", "remote"}
  Locations = {"home", "away"}
  Home = "home"
  Sku <- MCSku
  NotOffered = NotOffered
  Zones = {1, 2}
  Organizations = {"acme", "other"}
  Owner = "acme"
  Spots = {"none", "cheap"}
  Absent = Absent
  Unset = Unset
  NoNumber = NoNumber
  Counts <- MCCounts
  PoolProposals <- PairPools
  MachineProposals <- PoolMachines
  MaxLabels = 2
SYMMETRY Symmetry
SPECIFICATION Spec
INVARIANTS
  OperatorNotOlderThanRelease
  ZonesWereSupported
  ScalingRangeValid
PROPERTY ScalingKeepsRange
CHECK_DEADLOCK FALSE
