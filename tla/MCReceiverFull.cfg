SPECIFICATION LiveSpec
CONSTANTS
  Profiles <- MCProfiles
  NoProfile = "none"
  Diagnostics = "diagnostics_only"
  Survey = "base_survey"
  Length <- FullLength
  Expects = {2, 3, 4, 5, 6, 7, 8, 9, 10}
  MaskAt = 11
  Masks = {FALSE}
  QueueLength = 12
  RetryCount = 1
  Device = "unicore"
  ConfiguredType = "unicore"
  MaxCalls = 0
  Faults = FALSE
PROPERTIES
  ProfileApplied
