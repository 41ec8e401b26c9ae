SPECIFICATION Spec
CONSTANTS
  Amounts <- MCAmounts
  Countries <- MCCountries
  Upper <- MCUpper
  Categories <- MCCategories
  Hours <- MCHours
  NoAssessment = NoAssessment
CHECK_DEADLOCK FALSE
INVARIANTS
  TypeOK
  DecisionExplained
  MoreHitsNeverLenient
  AmountHitReadable
