CONSTANTS
  Versions <- MCVersions
  Published <- MCPublished
  AlphaPres <- MCAlphaPres
  Labels <- MCLabels
  Component <- MCComponent
  Proposals <- MCProposals
  Reports = {"True", "False"}
  NoLabel = NoLabel
  op0 = op0
  op1 = op1
  op2 = op2
  NoRelease = NoRelease
  Fixed = {"f1"}
  Requests = {r1, r2}
  MaxMoves = 1
SYMMETRY Symmetry
SPECIFICATION Spec
PROPERTY OperatorsMatchRelease
CHECK_DEADLOCK FALSE
