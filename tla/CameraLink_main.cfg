\* Three handshake attempts; two bytes or commands lost, or the app started a
\* second time while OpenMV answers the first.
CONSTANTS
  HANDSHAKE_TRIES = 3
  HANDSHAKE_POLLS = 2
  ACK_POLLS = 2
  SIZE_POLLS = 2
  IMG_BUF_SIZE = 40000
  META_BUF_SIZE = 128
  Frames <- Images
  Bounds <- LossOrRestart
SPECIFICATION FairSpec
CHECK_DEADLOCK FALSE
INVARIANTS TypeOK HeaderIntegrity
PROPERTY AppReturns
