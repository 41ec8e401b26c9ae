SPECIFICATION Spec
CONSTANTS
  Workers = {w1}
  Events = {e1, e2}
  e1 = e1
  e2 = e2
  t1 = t1
  t2 = t2
  Undecodable = Undecodable
  NoEvent = NoEvent
  Transactions = {t1}
  TransactionOf <- SharedTransaction
  MaxPublish = 1
  MaxFaults = 1
  FaultsForever = FALSE
PROPERTIES
  EventsLeaveWithResult
