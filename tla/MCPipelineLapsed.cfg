SPECIFICATION Spec
CONSTANTS
  d1 = d1
  d2 = d2
  d3 = d3
  d4 = d4
  Digests = {d1, d2, d3, d4}
  Zero = d1
  CacheSize = 2
  MaxAdmissions = 3
  Pills <- LivePills
  Membranes <- MCMembranes
  ClockWrap = 3
  Faults = {}
  MaxBoots = 1
  MaxPublished = 3
PROPERTY LapsedIsRefused
