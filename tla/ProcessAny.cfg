SPECIFICATION Spec
CONSTANTS
    MAX_PROCS = 3
    NULL = NULL
    MaxPid = 5
    InputSize = 2
    Liberties = {"exec_fails", "exec_again", "exit_before_exec", "wait_stranger", "ctrl_z"}
INVARIANTS ListIsValid CurrentRunnable
CHECK_DEADLOCK FALSE
