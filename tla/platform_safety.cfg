SPECIFICATION FairSpec
CONSTANTS
  Requests = {r1, r2}
  r1 = r1
  r2 = r2
  t1 = t1
  a1 = a1
  None = None
  Ids = {t1, a1}
  Payload <- Resubmitted
  LongRequestIds = {}
  JsonEncodable <- EventJson
  PoolSize = 2
  Workers = {w1, w2}
  Undecodable = Undecodable
  NoEvent = NoEvent
  MaxRequestFaults = 2
  MaxWorkerFaults = 2
INVARIANTS
  ReassessmentNeedsFailedSubmission
  StoredIsTraceable
PROPERTIES
  WorkerSpec
  ReadersSpec
  PublishedIsSettled
