SPECIFICATION LearningSpec
CONSTANTS
  Unset = Unset
  Requests <- SiteRequests
  Answers <- SiteAnswers
  Cookies <- SiteCookies
  Kind <- SegmentKind
  Fold <- FoldOf
  Safe <- SafeNames
  KeepRequests = 2
  KeepInteractions = 1
  KeepCookies = 2
  MaxSegments = 2
  MaxTypes = 1
  MaxFields = 5
  MaxRows = 2
  MaxEvents = 4
INVARIANTS
  OwnTrafficPasses
  NothingUnseen
  RefusedForCause
PROPERTIES
  MoreNeverLess
  RestrictionsOnlyAdd
