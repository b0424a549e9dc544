SPECIFICATION Spec
CONSTANTS
  None = None
  Rows <- JobRows
  Aliases <- TagAliases
  Releases <- Published
  Requests <- OperatorRequests
  Asked <- AskedIds
  CveLimit = 1
INVARIANTS
  EvidenceNeeded
  CveListIsEvidenced
  DraftIsWhatWasAsked
PROPERTY MoreEvidenceOnlyAdds
