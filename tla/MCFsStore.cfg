CONSTANTS
  Procs = {p1, p2, p3}
  Keys = {k1}
  Items = {a}
  Locks = {l1, l2}
  None = None
  NoFile = NoFile
  Torn = Torn
  MaxQueue = 2
  IOErrors = TRUE
  Crashes = TRUE
SYMMETRY StoreSymmetry
SPECIFICATION Spec
INVARIANTS TypeOK Exclusive LockIsMapped NeverStuck
PROPERTIES IsAtomic
