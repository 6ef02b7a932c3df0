\* Three launches, each after the newline of the one before; four chunks
\* through two slots.
CONSTANTS
  Launches = {1, 2, 3}
  Cam <- CamOf
  Hello <- HelloOf
  Last = 3
  AnyTime = FALSE
  InitWhileHeld = FALSE
  Tasks <- AllTasks
  Chunks <- AllChunks
  Zero = Zero
  NoTask = NoTask
  RB_DEPTH = 2
  PtrMod = 4
SPECIFICATION LaunchFairSpec
CHECK_DEADLOCK FALSE
INVARIANTS LaunchTypeOK InitFindsRingQuiet PrintsCompleteImage
PROPERTIES HelloEnds EveryCallReturns
