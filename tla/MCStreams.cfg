SPECIFICATION MCSpec
CONSTANTS
  Tcp = {t1}
  Udp = {u1}
  DriverRoom = 1
  QueueRoom = 1
  MaxChunks = 2
  MaxConns = 2
  MaxData = 2
INVARIANTS ServerSound QueriesSound
PROPERTIES NothingHangs
CHECK_DEADLOCK FALSE
