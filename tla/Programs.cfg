SPECIFICATION ProgramsSpec
CONSTANTS
    Callers = {"p1", "p2"}
    MaxCalls = 2

    W = 6
    Lengths <- MCLengths
    Spans <- MCSpans
    Elapsed <- MCElapsed
    Ticks <- MCTicks

    Letters = {97, 98}
    MaxLength = 3
    Key <- MCKey
    CommandLines <- MCCommandLines

    Optional <- MCOptional
    Operands <- MCOperands
    MaxOptions = 3

    Contained = {0, 1, 2}
    MaxSize = 2
    MaxBlocks = 3
    MaxHeld = 2

    Contents <- MCContents
    MAXFILES = 2
    BUFSIZ = 3
    Descriptors = {3, 4, 5}
    MaxOpens = 4

    Characters = {"open"}
    Files <- MCFiles
    Queries <- MCQueries
    NANO_TAB_STOP = 2
    NANO_QUIT_TIMES = 1
    screenrows = 2
    screencols = 2
    MaxText = 4
    MaxSaves = 1

    RowChars <- MCRowChars
    Keywords1 <- MCKeywords1
    Keywords2 <- MCKeywords2
    MaxRow = 5

    Timeouts = {TRUE, FALSE}
    KeyBytes <- MCKeyBytes
    Reports <- MCReports
    Ahead <- MCAhead
    FirstSize = 3
    ReportSize = 14
    MaxKeys = 3
    Widths = {0, 1, 5, 12, 80}

    LineCharacters = {" ", ">", "2", "<", "&", "a"}
    MaxLine = 5
    Commands <- MCCommands
    Garbage_behind <- MCGarbage
    ShellDescriptors = {0, 1, 2, 3, 4, 5, 6}
    MaxRuns = 3
    MaxJobs = 2

    Names_in = {2, 12, 20, 29}
    Places = {1, 2, 3}
    ModeOf <- MCModeOf
    DeviceOf <- MCDeviceOf
    SizesOf = {7, 140}
    Arguments_ls <- MCArguments_ls
    Seconds <- MCSeconds
    PerBuffer = 2
    MaxChanges = 1

    Messages <- MCMessages
    Digest_of <- MCDigest_of
    Pieces = {9, 55, 128}
    LO_LIMIT = 128

    RING = 8
    AHEAD = 3
    THRESHOLD = 2
    Pictures <- MCPictures
    LineLengths = {0, 1, 40, 78, 79, 90}
    Utility_jobs <- MCUtility_jobs
    First_files <- MCFirst_files
    First_mode <- MCFirst_mode
    COPY_SIZE = 3
    ROW_SIZE = 2
    KILO = 3
    COUNTER = 400
    Statistics <- MCStatistics
    Unwritten <- MCUnwritten

INVARIANTS LibraryRight EditorRight ToolsRight
CHECK_DEADLOCK FALSE
