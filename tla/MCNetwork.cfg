SPECIFICATION MCSpec
CONSTANTS
  Ifs <- MCIfs
  Addr <- MCAddr
  QueueLen = 3
  MaxEvents = 1
  BootChanges = 2
  BootResets = 1
  RingRoom = 2
  RxFrames = 3
  TxFrames = 2
  MacFaults = 2
  MacLinks = 1
  ClientConns = 2
  ClientAttempts = 22
  FanoutSlots = {s1}
  BufferRoom = 3
  FedMessages = 4
  FanoutCalls = 4
INVARIANTS BootSound FramesFaithful CasterSound RespondersProbe NamesUnique
PROPERTIES NetworkComesUp NamesSettle
CHECK_DEADLOCK FALSE
