CONSTANTS
  Events = {e1, e2, e3}
  Muted = {e3}
  NoEvent = NoEvent
  Workers = {w1, w2}
  Resumers = {r1, r2}
  Handlers = {h1}
  MaxSentRecords = 1
  MaxBatch = 2
  MaxCommands = 2
  Failures = TRUE
  Crashes = TRUE
VIEW DeliveryView
SYMMETRY DeliverySymmetry
SPECIFICATION Spec
INVARIANTS TypeOK AtMostOnce NothingLost ButtonsWork OnlyStaleStranded
PROPERTIES IsFlow
CHECK_DEADLOCK FALSE
