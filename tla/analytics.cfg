SPECIFICATION Spec
CONSTANTS
  Requests = {r1, r2}
  Transactions = {t1, t2, t3}
  Events = {e1, e2}
  r1 = r1
  r2 = r2
  t1 = t1
  t2 = t2
  t3 = t3
  e1 = e1
  e2 = e2
  None = None
  RoleNames = {"admin", "analyst", "service", "readonly", "unheard-of", "Admin"}
  TransactionOf <- MCTransactionOf
  RiskLevelOf <- MCRiskLevelOf
  OccurredAt <- MCOccurredAt
  DayOf <- MCDayOf
  CategoryOf <- MCCategoryOf
  Sessions <- MCSessions
CHECK_DEADLOCK FALSE
INVARIANTS
  TypeOK
  SummaryAddsUp
  EndpointsAgree
  VolumeCountsReassessments
  PageInPlace
  FullPages
  LaterAnswersGrow
  OnlyReadersAreAnswered
