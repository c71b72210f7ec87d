SPECIFICATION Spec
CONSTANTS
  d1 = d1
  d2 = d2
  d3 = d3
  d4 = d4
  Digests = {d1, d2, d3, d4}
  Zero = d1
  CacheSize = 2
  MaxAdmissions = 4
  Pills <- MCPills
  Membranes <- MCMembranes
  ClockWrap = 3
  Faults = {"hash", "psa", "publish", "broker"}
  MaxBoots = 1
  MaxPublished = 3
INVARIANTS PublishedGenuine PublishedApart
