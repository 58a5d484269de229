SPECIFICATION Spec
CONSTANTS
  web = web
  NumSlots = 2
  MaxSlots = 1
  Fds <- MCFds
  Clients <- WebOnly
  Ops = {"store"}
  MockModes = {"none"}
  MaxEvents = 2
INVARIANT ActiveWithinLimit
