SPECIFICATION FairSpec
CONSTANTS
  FsBlocks = {1, 2}
  MagicBlocks = {1}
  First = 1
  Last = 7
  TidMod = 16
  CommitsPerSecond = 2
  Faults = {"read", "described", "write"}
  MaxDamage = 0
  MaxCrashes = 1
  Formats <- SummedFormat
  Shapes <- SizedShapes
  MaxWrites = 2
  RunsAt = {1, 2}
  ClosesJournal = FALSE
PROPERTIES RecoveryEnds
