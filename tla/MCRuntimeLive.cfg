SPECIFICATION FairSpec
CONSTANTS
  web = web
  NumSlots = 2
  MaxSlots = 1
  Fds <- OneFd
  Clients <- WebOnly
  Ops = {"enable", "link", "heap", "store"}
  MockModes = {"none"}
  MaxEvents = 2
INVARIANT GrantsWithinLimit
PROPERTY ConvergesToConfig
