SPECIFICATION Spec
CONSTANTS
    Proc = {p1, p2}
    Init0 = p1
    NULL = NULL
    MAX_FD_PER_PROC = 2
    MAX_OPEN_FILES = 2
    NUM_INODES = 3
    Specials = 1
    MAX_ENTRIES = 2
    Names = {a}
    Root = Root
    CONSOLE = CONSOLE
    V = V
    FREE = FREE
    UNLINKED = UNLINKED
    MaxLeak = 2
    Liberties = {}
INVARIANTS OpenKept
CHECK_DEADLOCK FALSE
