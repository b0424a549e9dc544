SPECIFICATION FairSpec
CONSTANTS
  v1 = v1
  v2 = v2
  v3 = v3
  v4 = v4
  f1 = f1
  f2 = f2
  Corrupt = Corrupt
  None = None
  Releases = {v1, v2, v3, v4}
  Files = {f1, f2}
  FileOf <- MCFileOf
  Integrity <- MCIntegrity
  Enumerable = {v1, v2, v4}
  Later <- Forward
  First = v1
  VerifySha1 = TRUE
  VerifySignature = TRUE
  MaxFaults = 2
INVARIANTS
  IndexIsVerified
  ReportMatchesIndex
PROPERTIES
  IndexFollowsSource
