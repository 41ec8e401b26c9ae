SPECIFICATION Spec
CONSTANTS
  Runs = {u1, u2, u3}
  MaxFaults = 1
INVARIANTS
  TypeOK
  VersionTellsSchema
  FailureNeedsRival
  NoCircularWait
