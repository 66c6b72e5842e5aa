SPECIFICATION SharedSpec
CONSTANTS
    Nodes = {n1, n2}
    Seqs = {0, 1, 2, 3, 4}
    CLEAN = clean
    FSCK = fsck
    Nobody = nobody
    UpdateInterval = 1
    SlowInterval = 3
    MIN_CHECK_INTERVAL = 1
    MaxExtra = 60
    MinUpdate = 3
    MaxDelay = 1
    Staggered = TRUE

    Callers = {c1, c2}
    Uuidd = pd
    NoProcess = p0
    ProcessOf <- OwnProcess
    PerTick = 2
    BulkSize = 3
    ClockSeqs = 8
    LastTick = 3
    MaxCalls = 2
    MaxSetBacks = 1

    MostGroups = 6
    MostThreads = 3
    FlexSizes = {1, 2}

    FcNames = {"a", "b"}
    FcInodes = {1, 2}
    Symlinks = {}
    TagsPerBlock = 3
    AreaBlocks = 4
    KeepsOneFree = TRUE
    MostOps = 3
    MostTids = 3

    RangeInodes = {1, 2}
    LastLogical = 2
    LastPhysical = 3
    AfterEmptied = FALSE

    FuseInodes = 3
    UserNames = {"a", "b"}
    HiddenName = "h"
    EntriesPerBlock = 1
    FreeAtFirst = {5}
    OtherBlocks = 6
    Reserve = 0
    MostHandles = 2
    LibraryFails = TRUE

    Files = {"f1", "f2"}
    OldSize = 12
    NewSizes = {5, 6, 11}
    GroupSize = 6
    GroupInodes = 3
    FirstIno = 2
    TableLoc <- TablesTogether
    OtherMeta = {0, 6, 8}
    RootPlaces = {3, 9}
    CopyMost = 2

    TableInodes = {1, 2, 3}
    InodesPerTableBlock = 2
    IcacheSize = 2
    MaxInodeFaults = 1
    UnsoundEvicts = FALSE
    ErrorsClobber = FALSE

    ScanGroups = 3
    TableBlocks = 3
    ScanPerBlock = 2
    BufferBlocks = 2
    TableAt <- TablesInOrder
    ScanImages <- ScannedImages

    Radix = 3
    TreeDepth = 2
    EntriesInBlock = 2
    MostQuotaBlocks = 6
    QuotaIds = {0, 1, 3, 8}
    Usages = {1}
INVARIANTS OneUser NeverTwice ThreadsCorrect FastCommitCorrect RangesCorrect FuseCorrect ResizeSafe InodesAreLatest ScanCorrect QuotaCorrect
PROPERTIES IntruderNoticed
CHECK_DEADLOCK FALSE
