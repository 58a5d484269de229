SPECIFICATION MCSpec
CONSTANTS
  Profiles <- MCProfiles
  NoProfile = "none"
  Diagnostics = "diagnostics_only"
  Survey = "base_survey"
  Length <- ShortLength
  Expects = {1}
  MaskAt = 2
  Masks = {TRUE, FALSE}
  QueueLength = 2
  RetryCount = 1
  Device = "unicore"
  ConfiguredType = "unknown"
  MaxCalls = 2
  Faults = TRUE
  Items <- MCItems
  Posts <- MCPosts
  ByteValues = 4
  MaxPosts = 2
  MaxResets = 1
  MaxFaults = 2
INVARIANTS
  AppliedWasSent StoreIsMeant AnswersSound SoonHeard
PROPERTIES
  InOrder QueueDrains AppliedUnlessGivenUp PostTakesEffect
