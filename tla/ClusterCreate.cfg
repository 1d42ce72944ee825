CONSTANTS
  Versions <- MCVersions
  Published <- MCPublished
  AlphaPres <- MCAlphaPres
  MaxMoves = 2
  Requests = {r1, r2, r3}
  Labels <- MCLabels
  NoLabel = NoLabel
  op0 = op0
  op1 = op1
  NoRelease = NoRelease
  Operator <- MCOperator
  Organizations = {"acme"}
  OrgLabels = {"acme", "Acme"}
  AsDNSLabelName <- MCAsDNSLabelName
  Absent = Absent
  Proposals <- MCProposals
SYMMETRY Symmetry
SPECIFICATION Spec
INVARIANTS
  TypeOK
  CopiedOperatorFitsRelease
CHECK_DEADLOCK FALSE
