CONSTANTS
  Requests = {r1}
  Calls = {c1,c2}
  Nobody = Nobody
  Asked = {"machinepool","spark","azureconfig"}
  MaxFailures = 2
SPECIFICATION Spec
INVARIANTS
  TypeOK
  StoredWasDecided
PROPERTY KeepsServing
