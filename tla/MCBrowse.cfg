SPECIFICATION Spec
CONSTANTS
  Packets <- MCPackets
  Services = {"rtk"}
  QueueLen = 3
  MaxCalls = 4
INVARIANT SyncFreedOnce
CHECK_DEADLOCK FALSE
