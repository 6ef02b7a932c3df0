\* Every size the camera accepts, 1 included.
CONSTANTS
  CHUNK_SIZE = 3
  RB_DEPTH = 2
  IMG_BUF_SIZE = 13
  META_BUF_SIZE = 3
  SPI_SYNC_BYTES = 4
  WordMod = 32
  Zero = Zero
  MetaByte = MetaByte
SPECIFICATION Spec
CHECK_DEADLOCK FALSE
INVARIANT MarkersInBounds
