SPECIFICATION Spec
CONSTANTS
  web = web
  NumSlots = 2
  MaxSlots = 2
  Fds <- MCFds
  Clients <- WebOnly
  Ops = {"restart", "enable", "mock"}
  MockModes = {"none"}
  MaxEvents = 2
INVARIANTS OneTaskPerSlot SocketIsOwn NoSocketLeak NoGhostState
PROPERTY ImplementsSlotWorkers
