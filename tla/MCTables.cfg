SPECIFICATION TablesSpec
CONSTANTS
  m1 = m1
  m2 = m2
  m3 = m3
  m4 = m4
  Digests = {m1, m2, m3, m4}
  Zero = m1
  RxSlots = 2
  SeenSize = 4
  Shapes <- MCShapes
  PillLen = 5
  Arriving <- MCArriving
  HashMayFail = TRUE
  MaxHanded = 6
  Resent = {}
  CacheSize = 2
  MaxAdmissions = 6
INVARIANTS TablesAccounted SlotDiscipline EveryHandedAdmitted HeldUntilDeadline HighestPriorityPrevails
PROPERTIES WindowSpec EntryLifecycle LimitsHold
