SPECIFICATION Spec
CONSTANTS
  NBlocks = 2
  Values = {0, 1}
  Zero = 0
  CACHE_SIZE = 2
  WRITE_DIRECT_SIZE = 2
  MaxCount = 2
  MaxRef = 1
  Threads = {t1, t2}
  NoThread = none
  ReadFaults = TRUE
  WriteFaults = TRUE
  Crashes = FALSE
  Liberties = {}
INVARIANTS OneSlotPerBlock
PROPERTIES NoSilentLoss
SYMMETRY ThreadSymmetry
