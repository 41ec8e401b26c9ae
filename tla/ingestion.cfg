SPECIFICATION FairSpec
CONSTANTS
  Requests = {r1, r2, r3, r4}
  r1 = r1
  r2 = r2
  r3 = r3
  r4 = r4
  t1 = t1
  t2 = t2
  a1 = a1
  a2 = a2
  m1 = m1
  None = None
  Ids = {t1, t2, a1, a2, m1}
  Payload <- Conflicting
  LongRequestIds = {r3}
  JsonEncodable <- EventJson
  PoolSize = 3
  MaxFaults = 2
INVARIANTS
  TypeOK
  UniqueRows
  NoOrphans
  AuditTrail
  CreatedIsPublished
  FailureNeedsCause
PROPERTIES
  RegistrySpec
  EveryRequestEnds
