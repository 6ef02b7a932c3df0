\* The board's 10 ms tick and the real delays; three polls for 50.
CONSTANTS
  Tick = 10
  SIZE_POLLS = 3
  SIZE_POLL = 10
  SPI_CS_DELAY = 25
  OmvDelay = 30
  OmvTimeout = 40
  MaxLag = 2
  Bytes = 2
  MaxGap = 60
SPECIFICATION Spec
CHECK_DEADLOCK FALSE
INVARIANTS TypeOK CsInWindow SlowByteAccepted
