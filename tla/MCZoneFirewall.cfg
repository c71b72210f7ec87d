SPECIFICATION MCSpec
CONSTANTS
  Tasks = {t1, t2}
  Keys <- MCKeys
  ClockMod = 8
  MaxTime = 2
  ReadySets <- MCReady
  PolicyShapes <- MCShapes
  RateRuleTable <- MCRate
  DefaultParams <- MCDefault
  AutoQuarantine = TRUE
  QuarantineTtl = 1
  MaxEntries = 1
  MaxFlows = 1
  MaxBuckets = 1
  MaxRules = 1
  MaxRuleIds = 1
  MaxEvaluations = 3
  MaxListed = 1
SYMMETRY Symmetry
INVARIANTS CondemnedIsDropped DropHasCause  CountersAddUp RecordsReported
CHECK_DEADLOCK FALSE
