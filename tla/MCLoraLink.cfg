SPECIFICATION MCSpec
CONSTANTS
  QueueDepth = 2
  SeqMod = 2
  MaxFragments = 3
  MaxFrames = 4
  MaxReboots = 2
  Window = 3
  Budget = 4
  Airtimes = {1, 2, 3}
  MaxSeconds = 8
  Preamble = 4
  Payloads <- MCPayloads
  StreamRoom = 5
  MinInterval <- MCIntervals
  ParserFrames = 5
  ParserTime = 2
INVARIANTS DeliversWhole BudgetKept FewSwallowed
PROPERTIES ImplementsLossyStream FailureDoesNotSilence
\* The behaviours end when frames and reboots are used up.
CHECK_DEADLOCK FALSE
