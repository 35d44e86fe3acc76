SPECIFICATION FairSpec
CONSTANTS
  Collections = {c1, c2}
  max_retries = 2
  Outcomes <- AnyOutcome
  Starters <- Container
  MaxErrors = 1
  None = None
INVARIANTS TypeOK ActiveTracksWork
PROPERTY DueIsAttempted
CHECK_DEADLOCK FALSE
