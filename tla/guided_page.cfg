SPECIFICATION Spec
CONSTANTS
  None = None
  Elements <- MCElements
  Pages <- MCPages
  MaxEvents = 2
  MaxActs = 2
  MaxKeys = 2
  MaxScript = 2
  MaxSent = 1
CHECK_DEADLOCK FALSE
INVARIANTS
  ReachedAsChecked
  LinkedInItsAct
PROPERTIES
  FormsStay
