SPECIFICATION Spec
CONSTANTS
  Requests = {r1}
  r1 = r1
  r2 = r2
  r3 = r3
  r4 = r4
  t1 = t1
  t2 = t2
  a1 = a1
  a2 = a2
  m1 = m1
  None = None
  Ids = {t1, t2, a1, a2, m1}
  Payload <- Conflicting
  LongRequestIds = {}
  JsonEncodable <- PlainJson
  PoolSize = 3
  MaxFaults = 0
INVARIANTS
  ValidRequestSucceeds
