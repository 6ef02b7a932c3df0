\* Every image of 1 to 13 bytes in chunks of 3, a ring of 2 slots.
CONSTANTS
  CHUNK_SIZE = 3
  RB_DEPTH = 2
  IMG_BUF_SIZE = 13
  META_BUF_SIZE = 3
  SPI_SYNC_BYTES = 4
  WordMod = 32
  Zero = Zero
  MetaByte = MetaByte
SPECIFICATION FairSpec
CHECK_DEADLOCK FALSE
INVARIANTS TypeOK PrintedIsPrefix StopsAtTheEnd
PROPERTY ImageDelivered
