\* Two handshake attempts, nothing lost.
CONSTANTS
  HANDSHAKE_TRIES = 2
  HANDSHAKE_POLLS = 1
  ACK_POLLS = 1
  SIZE_POLLS = 1
  IMG_BUF_SIZE = 40000
  META_BUF_SIZE = 128
  Frames <- TwoImages
  Bounds <- NoFault
SPECIFICATION Spec
CHECK_DEADLOCK FALSE
INVARIANT AckAnswersCapture
