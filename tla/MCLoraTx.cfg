SPECIFICATION MCSpec
CONSTANTS
  web = web
  selftest = selftest
  RoverRequests <- MCRequests
  RoverPackets = 3
  RoverFaults = 1
  QueueDepth = 2
  MaxPackets = 4
  MaxFaults = 2
INVARIANTS NoOverAccounting Accounted RoverSound RoverWakes
PROPERTIES ImplementsLossyStream NeverStops MockedRuns
CHECK_DEADLOCK FALSE
