SPECIFICATION FairSpec
CONSTANTS
  MaxChanges = 1
  MaxResets = 0
PROPERTY StationCarries
CHECK_DEADLOCK FALSE
