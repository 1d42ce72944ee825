CONSTANTS
  Requests = {r1, r2}
  Versions <- MCVersions
  Published <- MCPublished
  Legacy <- MCVersions
  AlphaPres <- MCAlphaPres
  MaxMoves = 2
  NotAVersion = NotAVersion
  CIDRs = {net1, net2}
  net1 = net1
  net2 = net2
  zone1 = zone1
  zone2 = zone2
  NoCIDR = NoCIDR
  Zones = {zone1, zone2}
  MaxRepeat = 1
  Proposals <- MCProposals
SYMMETRY Symmetry
SPECIFICATION Spec
INVARIANTS
  TypeOK
  ValidateMeetsPolicy
  NoDeadEnd
  OneNetworkPerRelease
PROPERTIES
  ReleaseFollowsLines
CHECK_DEADLOCK FALSE
