SPECIFICATION Spec
CONSTANTS
  Requests = {r1}
  r1 = r1
  r2 = r2
  t1 = t1
  a1 = a1
  None = None
  Ids = {t1, a1}
  Payload <- Resubmitted
  LongRequestIds = {}
  JsonEncodable <- EventJson
  PoolSize = 2
  Workers = {w1}
  Undecodable = Undecodable
  NoEvent = NoEvent
  MaxRequestFaults = 0
  MaxWorkerFaults = 0
INVARIANTS
  MissingMeansMissing
