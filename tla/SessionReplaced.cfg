SPECIFICATION TickingSpec
CONSTANTS
  m1 = m1
  m2 = m2
  m3 = m3
  None = None
  Device = {1, 2}
  Message = {m1, m3}
  author <- OneEach
  Starts <- Upgrading
  Rescans = {1}
  MAX_COMMIT_QUEUE_ROWS = 6
  MaxSession = 2
INVARIANTS
  FramedRecordedOnce
PROPERTIES
  DeliveredIfFlightsArrive
CHECK_DEADLOCK FALSE
