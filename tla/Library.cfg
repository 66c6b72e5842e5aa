SPECIFICATION LibSpec
CONSTANTS
    CountedInodes = {1, 2, 3}
    Cutoff = 2
    MostLinks = 3
    ListRoom = 1

    GroupCount = 2
    BlocksPerGroup = 3
    InodesPerGroup = 2
    FirstInode = 2
    GroupMeta <- MetaFirst
    MaxUnflushed = 2

    LastBit = 4

    EaBlocks = {1, 2, 3}
    EaInodes = 4
    Modulus = 8
    RefcountRooms = {2}
    HeaderCounts = {0, 2}

    RegionMin = 1
    RegionMax = 7

    LastLblk = 4
    Mappings <- TwoPlaces
    RootMax = 2
    NodeMax = 3
    MaxLen = 5
    TreeBlocks = 3
    EndBlk = 5
    Distant = FALSE

    FileBlocks = 2
    Cells = 2
    DiskBlocks = 2
    SeekTo = {0, 3}
    CellValues = {1}
    TruncatesUsed = FALSE

    NameKinds <- TwoKinds
    BlockLen = 6
    RootLimit = 2
    NodeLimit = 3
    HtreeLevels = 2
    MostBlocks = 6
    MostNames = 5
INVARIANTS IcountCorrect AllocatorCorrect RbBitmapCorrect RefcountsCorrect RegionCorrect ExtentTreeCorrect FileIOCorrect DirectoryCorrect
CHECK_DEADLOCK FALSE
