SPECIFICATION Spec
CONSTANTS
  d1 = d1
  p1 = p1
  g1 = g1
  None = None
  Plans <- TwoPlans
  Signatures = {g1}
  Approves = {a1}
  Preflights = {v1}
  Applies = {w1, w2}
  Rollbacks = {r1}
  WriteModes = {TRUE, FALSE}
  MaxOutside = 1
  MaxFaults = 1
SYMMETRY Symmetry
CHECK_DEADLOCK FALSE
INVARIANTS
  OnlyReviewed
  CleanFailure
  AppliedStands
  NoHalfProtection
PROPERTIES
  RejectionSparesOthers
