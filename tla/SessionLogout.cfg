CONSTANTS
  Handlers = {h1, h2, h3}
  Boot = Boot
  Msgs = {m1, m2}
  NoMsg = NoMsg
  None = None
  NoState = NoState
  Bare = Bare
  Torn = Torn
  MaxErrors = 0
SPECIFICATION Spec
INVARIANTS RemovedStaysRemoved
CHECK_DEADLOCK FALSE
