SPECIFICATION Spec
CONSTANTS
    TRACKS = 7
    SECTORS = 1
    VTOC_TRACK = 3
    NEXT_CATALOG = 3
    BLOCK_SIZE = 2
    HEADER = 1
    MAX_TS_ENTRIES = 2
    Entries = {0, 1}
    Values = {1}
    MaxSize = 3
    MaxCount = 2
    NULL = NULL
    Liberties = {"long_files"}
INVARIANT StaysOnList
CHECK_DEADLOCK FALSE
