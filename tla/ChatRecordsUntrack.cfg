CONSTANTS
  Events = {x, y}
  Posts = {p, q, r}
  MaxSentRecords = 2
  MaxMessages = 4
  MaxPosts = 3
  NotFound = NotFound
SPECIFICATION Spec
INVARIANTS UntrackedIsGone
