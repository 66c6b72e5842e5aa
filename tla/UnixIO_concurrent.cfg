SPECIFICATION Spec
CONSTANTS
  NBlocks = 2
  Values = {0, 1}
  Zero = 0
  CACHE_SIZE = 1
  WRITE_DIRECT_SIZE = 2
  MaxCount = 2
  MaxRef = 2
  Threads = {t1, t2}
  NoThread = none
  ReadFaults = TRUE
  WriteFaults = FALSE
  Crashes = TRUE
  Liberties = {}
INVARIANTS SomebodyCanMove
PROPERTIES ImplementsBlockDevice
SYMMETRY ThreadSymmetry
