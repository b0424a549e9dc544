SPECIFICATION Spec
CONSTANTS
  None = None
  Tabs = {t1, t2}
  Peers = {p}
  Limit = 2
  Window = 2
  TTL = 2
  MaxTime = 2
  MaxLogins = 2
  MaxRestarts = 1
  Models = {m1, m2}
  MaxVersion = 3
SYMMETRY ReviewSymmetry
INVARIANTS
  GuessesLimited
  VersionNamesContent
  AuditTellsHistory
PROPERTIES
  ChangesInSession
  ImplementsRegister
