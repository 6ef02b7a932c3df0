\* Three tasks; one of them initialises the zeroed lock before the others use it.
CONSTANTS
  cam = cam
  cam2 = cam2
  hello = hello
  Tasks = {cam, cam2, hello}
  Initialisers = {cam}
  Pid <- PidOf
  MBLOCK = 16
  Initialised = FALSE
  InitFirst = TRUE
SPECIFICATION FairSpec
INVARIANTS TypeOK MutualExclusion NoLostWakeup
PROPERTIES ImplementsLock EveryLockReturns
