SPECIFICATION Spec
CONSTANTS
  NBlocks = 3
  Values = {0, 1}
  Zero = 0
  CACHE_SIZE = 2
  WRITE_DIRECT_SIZE = 2
  MaxCount = 3
  MaxRef = 1
  Threads = {t1}
  NoThread = none
  ReadFaults = FALSE
  WriteFaults = FALSE
  Crashes = FALSE
  Liberties = {}
INVARIANTS TypeOK CleanMatchesDisk
PROPERTIES ImplementsBlockDevice
