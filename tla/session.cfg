SPECIFICATION FairSpec
CONSTANTS
  RcvWnd = 1
  PostCap = 1
  MaxOut = 1
INVARIANTS
  NoLostWakeup
  NothingStranded
PROPERTIES
  CallsReturn
  GoroutinesEnd
