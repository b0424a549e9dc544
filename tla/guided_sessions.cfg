SPECIFICATION Spec
CONSTANTS
  None = None
  Sessions = {s1, s2}
  MaxSessions = 1
  MaxEvents = 2
  MaxRequests = 3
  MaxFaults = 1
INVARIANTS
  ReportedLogin
  LabelsFollowLogin
  ContextsBounded
PROPERTIES
  OneLoginPost
  StaleSessionsLeave
