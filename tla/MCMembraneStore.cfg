SPECIFICATION Spec
CONSTANTS
  c1 = c1
  c2 = c2
  c3 = c3
  s0 = s0
  s1 = s1
  a1 = a1
  a2 = a2
  alien = alien
  NotFound = NotFound
  Clients = {c1, c2, c3}
  Secrets = {s0, s1}
  ZeroSecret = s0
  AminoIds = {a1, a2, alien}
  Aminos = {a1, a2}
  MaxEntries = 2
  MaxTemplates = 2
  MaxAminos = 2
  IdWrap = 4
  EpochMax = 1
  Defaults <- MCDefaults
  RawIds = {0, 1, 6}
  Epochs = {0, 1}
  TemplateForms <- MCTemplateForms
INVARIANTS FlashLoads FlashWhole
PROPERTY NothingLost
