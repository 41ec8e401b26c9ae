SPECIFICATION FairSpec
CONSTANTS
  Workers = {w1, w2}
  Events = {e1, e2}
  e1 = e1
  e2 = e2
  t1 = t1
  t2 = t2
  Undecodable = Undecodable
  NoEvent = NoEvent
  Transactions = {t1}
  TransactionOf <- SharedTransaction
  MaxPublish = 3
  MaxFaults = 2
  FaultsForever = FALSE
PROPERTIES
  LedgerSpec
  QueueDrains
  QueuedIsAssessed
