\* Two tasks, two slots, pointers modulo 4: the pointers wrap after two laps.
CONSTANTS
  cam = cam
  hello = hello
  c1 = c1
  c2 = c2
  Tasks = {cam, hello}
  Chunks = {c1, c2}
  Zero = Zero
  NoTask = NoTask
  RB_DEPTH = 2
  PtrMod = 4
SPECIFICATION Spec
INVARIANTS TypeOK PtrsInStep HeldChunksWhole NoTornRead
PROPERTY ImplementsFifo
