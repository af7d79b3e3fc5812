SPECIFICATION TerminalSpec
CONSTANTS
    Readers = {r1, r2}
    INPUT_BUFFER_SIZE = 4
    CANON_BUFFER_SIZE = 4
    MaxTyped = 7
    MaxCount = 2
    SwitchMidLine = FALSE

    Keys = {"a", "shift", "right_ctrl", "up", "pause"}
    BITS = 3
    MaxEvents = 4
    MaxLost = 1

    CONSOLE_X = 3
    CONSOLE_Y = 2
    TAB = 2
    MaxTokens = 3

    SIZE = 6
    DIGITS = 2
    VALUES = 64
    Numbers = {0, 9, 10, 16, 32, 63}
    Bases = {10, 16}
    Pads = {0, 3}
    MaxItems = 3

    FifoDepth = 3
    RxLevel = 2
    TransferLengths = {0, 1, 3, 5}
    MaxTransfers = 3
    MaxText = 3
    MaxArrivals = 5
    MAX_GPIO = 4
    PER_FSEL = 2
    PER_WORD = 4
    MaxPinCalls = 4

    Channels <- MCChannels
    LinesOf <- MCLines
    SampleData <- MCSamples
    OrnamentData <- MCOrnaments
    WhichTable = 1
    Version = 6
    Speed = 3
    PatternLines = 2
    MusicLen = 2
    MaxFrames = 9

    RegisterSets <- MCRegs
    OutCounts = 10
    TactsPerCount = 5
    MaxWrites = 4
INVARIANTS InputRight KeysRight ScreenRight FormatRight PortsRight MusicRight
PROPERTY LineStored
CHECK_DEADLOCK FALSE
