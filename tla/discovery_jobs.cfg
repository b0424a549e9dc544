SPECIFICATION FairSpec
CONSTANTS
  crawl = crawl
  stray = stray
  None = None
  Jobs <- TwoRuns
  Mismatched = {stray}
  Cancels = {c1}
  MaxRequests = 2
  MaxErrors = 2
  MaxRestarts = 1
CHECK_DEADLOCK FALSE
INVARIANTS
  CompletedIsComplete
PROPERTIES
  OutcomeStands
  RunsEnd
