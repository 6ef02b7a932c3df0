\* A second launch at any time.
CONSTANTS
  Launches = {1, 2}
  Cam <- CamOf
  Hello <- HelloOf
  Last = 2
  AnyTime = TRUE
  InitWhileHeld = TRUE
  Tasks <- AllTasks
  Chunks <- AllChunks
  Zero = Zero
  NoTask = NoTask
  RB_DEPTH = 2
  PtrMod = 4
SPECIFICATION LaunchSpec
CHECK_DEADLOCK FALSE
INVARIANT PrintsCompleteImage
