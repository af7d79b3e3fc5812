SPECIFICATION PlatformSpec
CONSTANTS
    Proc = {p1, p2}
    NULL = NULL
    CHUNK_SIZE = 2
    WORD = 64
    RESERVED = 5
    KernelChunks = 2
    CoreStacks = 1
    max_chunk = 12
    ENOMEM = 3
    Sizes = {2, 3}
    Liberties = {"malloc"}

    DMESG_SIZE = 6
    MaxWritten = 48

    Sleepers = {p1, p2}
    TICK_VALUES = 8
    Asked = {0, 1, 3}
    MaxDelay = 1
    SleepAtZero = FALSE

    NUM_CORES = 4

    SECTIONS = 16
    Boards = {"armv7", "arm1176"}
    MemoryEnds = {2, 3, 4}
    KERNEL_SECTIONS = 2

    Caches <- MCCaches
    LineSizes = {0, 1}
    Addresses = 20
    TextLines = {1, 2, 3}

    Elfs <- MCElfs
    LINK = 8
    PAGE = 2
    HEADER = 3
    WORDS = 64
    Bases = {16, 21}
    StaleBound = 40
    STACK_SIZE = 64
    STRLEN_NULL = 6
    ArgLengths = {1, 3}

    Trees <- MCTrees
    AtagLists <- MCAtagLists
    SMALLEST = 1024
    DEFAULT = 2048

    Processors = {"armv7", "arm1176"}
    BOX = 2
    Answers = {"answer", "error"}
    MaxMessages = 3
    MaxStrays = 1
    Screens <- MCScreens
    FB_WIDTH = 2
    Colors = {0, 66051}
    MaxDraws = 2
INVARIANTS RegionsApart HeldIsMarked NoLeak ReadsTheEnd BootRight ImageRight
PROPERTIES SleepersKept
CHECK_DEADLOCK FALSE
