SPECIFICATION Spec
CONSTANTS
  s1 = s1
  s2 = s2
  n1 = n1
  n2 = n2
  r1 = r1
  r2 = r2
  c1 = c1
  c2 = c2
  None = None
  Sets = {s1, s2}
  Names = {n1, n2}
  Rules = {r1, r2}
  Catalogs = {c1, c2}
  RulesIn <- MCRulesIn
  Proposals <- SerialProposals
  Approvals = {a1, a2}
  Previews = {v1}
  Requests = {q1}
  IndexStates = {c1, c2}
  WriteModes = {TRUE}
  MaxExpired = 1
  MaxLost = 0
SYMMETRY Symmetry
INVARIANTS
  ApprovalBindsContent
  RollbackOnlyOwnObject
PROPERTIES
  ImplementsReviewedDeployment
