SPECIFICATION Spec
CONSTANTS
    Proc = {p1, p2}
    NULL = NULL
    CHUNK_SIZE = 2
    WORD = 64
    RESERVED = 5
    KernelChunks = 2
    CoreStacks = 1
    max_chunk = 12
    ENOMEM = 3
    Sizes = {2, 3}
    Liberties = {"exhaust"}
INVARIANTS PointersInRam
CHECK_DEADLOCK FALSE
