SPECIFICATION Spec
CONSTANTS
    MAX_PROCS = 4
    NULL = NULL
    MaxPid = 4
    InputSize = 2
    Liberties = {"exec_fails"}
INVARIANTS StackExclusive
CHECK_DEADLOCK FALSE
