SPECIFICATION Spec
CONSTANTS
  s1 = s1
  s2 = s2
  n1 = n1
  n2 = n2
  r1 = r1
  r2 = r2
  c1 = c1
  c2 = c2
  None = None
  Sets = {s1}
  Names = {n1}
  Rules = {r1, r2}
  Catalogs = {c1}
  RulesIn <- MCRulesIn
  Proposals <- RaceProposals
  Approvals = {a1, a2}
  Previews = {v1}
  Requests = {q1, q2}
  IndexStates = {c1, None}
  WriteModes = {TRUE, FALSE}
  MaxExpired = 0
  MaxLost = 1
SYMMETRY Symmetry
INVARIANTS
  TypeOK
  GatedExport
  WritesAudited
  HistoryAudited
