SPECIFICATION Spec
CONSTANTS
  FsBlocks = {1, 2}
  MagicBlocks = {1}
  First = 1
  Last = 11
  TidMod = 16
  CommitsPerSecond = 2
  Faults = {"log"}
  MaxDamage = 0
  MaxCrashes = 0
  Formats <- PlainFormat
  Shapes <- BlocksOrRevokes
  MaxWrites = 3
  RunsAt = {3}
  ClosesJournal = TRUE
INVARIANTS ReplaysAllTransactions LogAsksForRecovery
