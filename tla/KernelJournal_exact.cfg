SPECIFICATION Spec
CONSTANTS
  FsBlocks = {1, 2}
  MagicBlocks = {1}
  First = 1
  Last = 8
  TidMod = 16
  CommitsPerSecond = 2
  Faults = {}
  MaxDamage = 0
  MaxCrashes = 1
  Formats <- ExactFormats
  Shapes <- MixedShapes
  MaxWrites <- ThreeWritesUnderV1
  LazyInit = {}
  Mounts = 2
INVARIANTS TypeOK EmptyLogMeansDurable FlagOutlivesLog OldCommitsInvalid NeverFails
