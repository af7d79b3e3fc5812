SPECIFICATION StorageSpec
CONSTANTS
    Proc = {p1, p2}
    Init0 = p1
    NULL = NULL
    MAX_FD_PER_PROC = 2
    MAX_OPEN_FILES = 2
    NUM_INODES = 3
    Specials = 1
    MAX_ENTRIES = 2
    Names = {a}
    Root = Root
    CONSOLE = CONSOLE
    V = V
    FREE = FREE
    UNLINKED = UNLINKED
    MaxLeak = 1
    Liberties = {}

    Images <- MCImages
    FileLists <- MCFileLists
    Paths <- MCPaths
    BufferSizes = {32, 36, 64}
    Counts = {1, 20}
    MaxCalls = 6

    MAX_MOUNTS = 4
    DOS33_MAX_VTOCS = 2
    Devices <- MCDevices
    FileSystem <- MCFileSystem
    Directories <- MCDirectories
    Sources <- MCSources
    Targets <- MCTargets
    Asked <- MCAsked
    MaxPath = 6

    Objects = {1, 2}
    BLOCK = 3
    ENTRIES = 2
    Binary = {"hello"}
    Plain = {}
    ADDR_LEN = 1
    Amounts = {1, 4}
    Goals = {0, 3}
    MaxWrites = 2

    CatalogSectors = 2
    PerSector = 2
    NameSize = 3
    GivenNames <- MCGiven
    FirstCatalogs <- MCFirst
    FileSizes = {0, 300}
    DirentSizes = {16, 32, 48, 112}
    MaxCatalogCalls = 4
INVARIANTS NoDangling FdDenotes RomfsRight MountsRight ReadsRight CatalogRight
CHECK_DEADLOCK FALSE
