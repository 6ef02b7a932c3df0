\* hello may reach rb_read before the camera's rb_init.
CONSTANTS
  cam = cam
  cam2 = cam2
  hello = hello
  Tasks = {cam, hello}
  Initialisers = {cam}
  Pid <- PidOf
  MBLOCK = 16
  Initialised = FALSE
  InitFirst = FALSE
SPECIFICATION FairSpec
PROPERTY EveryLockReturns
