SPECIFICATION Spec
CONSTANTS
  FsBlocks = {1, 2}
  MagicBlocks = {1}
  First = 1
  Last = 6
  TidMod = 16
  CommitsPerSecond = 2
  Faults = {"read", "sync"}
  MaxDamage = 1
  MaxCrashes = 0
  Formats <- SummedFormats
  Shapes <- MixedShapes
  MaxWrites <- ThreeWritesUnderV1
  LazyInit = {"v3"}
  Mounts = 1
INVARIANTS CleanMeansRecovered
