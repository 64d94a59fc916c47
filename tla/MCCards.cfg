CONSTANTS
  Events <- MCEvents
  Other <- MCOther
  Posts <- MCPosts
  Post = "p"
  Legacy <- MCLegacy
  Presses = {b1, b2}
  MaxSentRecords = 1
  MaxMessages = 2
  MaxPosts = 3
  MaxOutside = 1
  NotFound = NotFound
SYMMETRY PressSymmetry
VIEW CardsView
SPECIFICATION CardsSpec
INVARIANTS CardTypeOK NoneUnknown VerdictIsTrue LabelsFit CrashNeedsGap LastAreKept OthersStayTracked
CHECK_DEADLOCK FALSE
