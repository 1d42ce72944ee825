CONSTANTS
  Versions <- MCVersions
  Published <- MCVersions
  AlphaPres <- MCAlphaPres
  MaxMoves = 1
  Lower = {"a", "b"}
  Capitals = {"B"}
  ToLower <- MCToLower
  Others = {"."}
  maxDNSLabelLength = 4
  Requests = {r1, r2}
  Operator <- MCOperator
  NoOperator = NoOperator
  NoRelease = NoRelease
  NoLabel = NoLabel
  Organizations <- MCOrganizations
  VMTypes = {"zonal", "flat", "remote"}
  Home = "home"
  Elsewhere = "elsewhere"
  SupportedAZs <- MCSupportedAZs
  Nil = Nil
  Fields = {"osDisk"}
  Absent = Absent
  NewMachines <- MCNewMachines
  Edits <- MCEdits
SYMMETRY Symmetry
SPECIFICATION Spec
INVARIANTS
  TypeOK
  NamesAreLabels
  PlacedForLife
PROPERTY ReleaseLabelForLife
CHECK_DEADLOCK FALSE
