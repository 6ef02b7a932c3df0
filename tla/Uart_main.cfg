\* A TX buffer that holds two characters, an RX buffer that holds two bytes.
CONSTANTS
  cam = cam
  hello = hello
  nsh = nsh
  nsh2 = nsh2
  a = a
  b = b
  NL = NL
  CR = CR
  Chars = {a, b, NL}
  Writers = {cam, hello}
  Readers = {nsh, nsh2}
  XmitSize = 3
  RecvSize = 3
  Loads <- Workloads
  MaxSignals = 1
SPECIFICATION FairSpec
CHECK_DEADLOCK FALSE
INVARIANTS TypeOK NoByteLost WritesWhole NoStalledWriter ShortWriteExact RxInOrder NoStalledReader
PROPERTIES OutputDrains ReaderServed
