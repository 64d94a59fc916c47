CONSTANTS
  Events = {e1, e2}
  Muted = {}
  NoEvent = NoEvent
  Workers = {w1}
  Resumers = {r1, r2}
  Handlers = {h1}
  MaxSentRecords = 1
  MaxBatch = 2
  MaxCommands = 2
  Failures = FALSE
  Crashes = FALSE
SPECIFICATION FairSpec
PROPERTIES QueuedIsDelivered HandlersEnd
CHECK_DEADLOCK FALSE
