CONSTANTS
  Handlers = {h1, h2, h3}
  Boot = Boot
  Msgs = {m1, m2}
  NoMsg = NoMsg
  None = None
  NoState = NoState
  Bare = Bare
  Torn = Torn
  MaxErrors = 1
VIEW SessionView
SYMMETRY SessionSymmetry
SPECIFICATION Spec
INVARIANTS TypeOK RegisteredIsOpen NoneSurvives DeafIsRevived CommentFits 
CONSTRAINT OneAtATime
PROPERTIES LoginSurvives
CHECK_DEADLOCK FALSE
