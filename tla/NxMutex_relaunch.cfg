\* The apps are started a second time: cam2 calls rb_init on the live lock.
CONSTANTS
  cam = cam
  cam2 = cam2
  hello = hello
  Tasks = {cam2, hello, cam}
  Initialisers = {cam2}
  Pid <- PidOf
  MBLOCK = 16
  Initialised = TRUE
  InitFirst = FALSE
SPECIFICATION Spec
INVARIANT MutualExclusion
