SPECIFICATION Spec
CONSTANTS
    Inodes = {2, 11, 12, 13, 14, 15}
    Blocks = {1, 2, 3, 4, 5, 6, 7, 8}
    Images <- MC_Images
    MaxDamage = 2
    MaxCancels = 0
INVARIANT FilesKept
CHECK_DEADLOCK FALSE
