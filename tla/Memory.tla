-------------------------------- MODULE Memory --------------------------------
(***************************************************************************)
(* The physical memory allocator, kernel/memory/memory.c, and the kernel's *)
(* uses of it: execve() allocates a stack and a text, process_destroy()    *)
(* frees them, the malloc system call allocates for a program, and         *)
(* framebuffer_init() takes an off-screen buffer from the kernel's area.   *)
(*                                                                         *)
(* memory_map[] is the set of the chunks whose bit is set.  A pointer is   *)
(* the number of the chunk it points to.  The contents of memory are left  *)
(* out.  The caller runs alone from the search to the marking: the lock    *)
(* memory_mutex around them is module Mutex, and no interrupt handler      *)
(* allocates or frees.                                                     *)
(***************************************************************************)
EXTENDS Integers

CONSTANTS
    Proc,          \* PCBs that run programs
    NULL,
    CHUNK_SIZE,    \* bytes in a chunk
    WORD,          \* 2^32: unsigned arithmetic wraps here
    RESERVED,      \* RESERVED_KERNEL / CHUNK_SIZE: chunks of the kernel's area
    KernelChunks,  \* chunks of the kernel image, at the bottom
    CoreStacks,    \* chunks of the other cores' stacks, at the top of the area
    max_chunk,     \* chunks of RAM
    ENOMEM,
    Sizes,         \* sizes of stacks, programs and requests, in bytes
    Liberties      \* "malloc", "exec_again" (a program replaces itself),
                   \* "empty_file" (a program of 0 bytes), "exhaust" (memory
                   \* may run out)

AllLiberties == {"malloc", "exec_again", "empty_file", "exhaust"}

ASSUME MemoryAssumption ==
    /\ CHUNK_SIZE \in Nat \ {0}
    /\ WORD \in Nat
    /\ {KernelChunks, CoreStacks, RESERVED, max_chunk} \subseteq Nat
    /\ KernelChunks + CoreStacks <= RESERVED
    /\ RESERVED < max_chunk
    /\ ENOMEM \in Nat \ {0}
    /\ Sizes \subseteq 1..(WORD - 1)
    /\ NULL \notin Int
    /\ Liberties \subseteq AllLiberties

VARIABLES
    used,       \* the bits of memory_map[]
    stack, text,            \* PCB fields: the chunk pointed to, or NULL
    stacksize, textsize,    \* PCB fields, in bytes
    heap,       \* what programs of the process got from malloc: pairs of chunk
                \* and size (the kernel does not record them)
    offscreen   \* the framebuffer's off-screen buffer: such pairs, at most one

vars == <<used, stack, text, stacksize, textsize, heap, offscreen>>

-----------------------------------------------------------------------------
(* memory.c                                                                *)

\* The chunks that memory_init() and memory_hierarchy_init() mark.
Boot == 0..(KernelChunks - 1) \cup (RESERVED - CoreStacks)..(RESERVED - 1)

\* memory_allocate() counts a request of 0 bytes as 1; memory_free() does
\* not, and size-1 wraps.
ChunksAllocated(size) ==
    ((IF size = 0 THEN 1 ELSE size) - 1) \div CHUNK_SIZE + 1

\* Fault: the last, partly used chunk is not counted.
ChunksFreed_short(size) == ((size - 1) % WORD) \div CHUNK_SIZE

\* Fault: one chunk too many.
ChunksFreed_long(size) == ((size - 1) % WORD) \div CHUNK_SIZE + 2

ChunksFreed(size) == ((size - 1) % WORD) \div CHUNK_SIZE + 1

\* memory_mark_used() and memory_mark_free() of n chunks from first on.  A
\* negative chunk number has no bit: the shift by a negative amount yields 0.
Marked(first, n) == (first..(first + n - 1)) \cap Nat

\* Where in start..end n free chunks lie.  The test i+j<end leaves the last
\* chunk of the area out.
Fits(map, n, start, end) ==
    {i \in start..(end - 1) : /\ Marked(i, n) \cap map = {}
                              /\ i + n < end}

\* Fault: only the first chunk is tested.
find_free_first_only(map, n, start, end) ==
    LET fits == {i \in start..(end - 1) : i \notin map /\ i + n < end}
    IN IF fits = {} THEN -ENOMEM
                    ELSE CHOOSE i \in fits : \A j \in fits : i <= j

\* find_free(): the first such place.
find_free(map, n, start, end) ==
    LET fits == Fits(map, n, start, end)
    IN IF fits = {} THEN -ENOMEM
                    ELSE CHOOSE i \in fits : \A j \in fits : i <= j

\* memory_allocate(): the search result is unsigned, so the test for a
\* negative one never succeeds: -ENOMEM is marked and returned like any
\* other chunk.
memory_allocate_user(map, size) ==
    find_free(map, ChunksAllocated(size), RESERVED, max_chunk)

memory_allocate_kernel(map, size) ==
    find_free(map, ChunksAllocated(size), 0, RESERVED)

Allocated(map, first, size) == map \cup Marked(first, ChunksAllocated(size))

memory_free(map, first, size) == map \ Marked(first, ChunksFreed(size))

-----------------------------------------------------------------------------
(* The callers                                                             *)

Granted(first) == first < 0 => "exhaust" \in Liberties

\* execve(): a stack, then a text.  The tests for NULL behind them never
\* succeed (see memory_allocate), and what the PCB pointed to is forgotten.
execve(p, stack_size, total_program_size) ==
    /\ text[p] # NULL => "exec_again" \in Liberties
    /\ total_program_size = 0 => "empty_file" \in Liberties
    /\ LET stack_page   == memory_allocate_user(used, stack_size)
           used1        == Allocated(used, stack_page, stack_size)
           binary_start == memory_allocate_user(used1, total_program_size)
       IN /\ Granted(stack_page) /\ Granted(binary_start)
          /\ used' = Allocated(used1, binary_start, total_program_size)
          /\ stack' = [stack EXCEPT ![p] = stack_page]
          /\ text' = [text EXCEPT ![p] = binary_start]
    /\ stacksize' = [stacksize EXCEPT ![p] = stack_size]
    /\ textsize' = [textsize EXCEPT ![p] = total_program_size]
    /\ UNCHANGED <<heap, offscreen>>

\* The memory part of process_destroy().
Freed(p) ==
    memory_free(memory_free(used, stack[p], stacksize[p]), text[p], textsize[p])

\* process_destroy() of a process that has run a program.  What it got from
\* malloc is not recorded in the PCB and stays allocated for ever.
process_destroy(p) ==
    /\ text[p] # NULL
    /\ used' = Freed(p)
    /\ stack' = [stack EXCEPT ![p] = NULL]
    /\ text' = [text EXCEPT ![p] = NULL]
    /\ UNCHANGED <<stacksize, textsize, heap, offscreen>>

\* The malloc system call of a running program.
malloc(p, size) ==
    /\ text[p] # NULL
    /\ "malloc" \in Liberties
    /\ LET first == memory_allocate_user(used, size)
       IN /\ Granted(first)
          /\ used' = Allocated(used, first, size)
          /\ heap' = [heap EXCEPT ![p] = @ \cup {<<first, size>>}]
    /\ UNCHANGED <<stack, text, stacksize, textsize, offscreen>>

\* The off-screen buffer is allocated once and kept.
framebuffer_init(size) ==
    /\ offscreen = {}
    /\ LET first == memory_allocate_kernel(used, size)
       IN /\ Granted(first)
          /\ used' = Allocated(used, first, size)
          /\ offscreen' = {<<first, size>>}
    /\ UNCHANGED <<stack, text, stacksize, textsize, heap>>

-----------------------------------------------------------------------------
Init ==
    /\ used = Boot
    /\ stack = [p \in Proc |-> NULL]
    /\ text = [p \in Proc |-> NULL]
    /\ stacksize = [p \in Proc |-> 0]
    /\ textsize = [p \in Proc |-> 0]
    /\ heap = [p \in Proc |-> {}]
    /\ offscreen = {}

Next ==
    \/ \E p \in Proc, s \in Sizes, t \in Sizes \cup {0} : execve(p, s, t)
    \/ \E p \in Proc : process_destroy(p)
    \/ \E p \in Proc, s \in Sizes : malloc(p, s)
    \/ \E s \in Sizes : framebuffer_init(s)

Spec == Init /\ [][Next]_vars

-----------------------------------------------------------------------------
(* Properties                                                              *)

\* The chunks behind each pointer the kernel or a program holds.
StackOf(p) == IF stack[p] = NULL THEN {}
              ELSE Marked(stack[p], ChunksAllocated(stacksize[p]))
TextOf(p)  == IF text[p] = NULL THEN {}
              ELSE Marked(text[p], ChunksAllocated(textsize[p]))
Region(r)  == Marked(r[1], ChunksAllocated(r[2]))

TypeOK ==
    /\ used \subseteq 0..(max_chunk - 1)
    /\ stack \in [Proc -> Int \cup {NULL}]
    /\ text \in [Proc -> Int \cup {NULL}]
    /\ stacksize \in [Proc -> Nat]
    /\ textsize \in [Proc -> Nat]
    /\ heap \in [Proc -> SUBSET (Int \X Nat)]
    /\ offscreen \in SUBSET (Int \X Nat)

UserArea   == RESERVED..(max_chunk - 1)
KernelArea == 0..(RESERVED - 1)

\* What a process holds, and what its predecessors in the PCB got from malloc.
Held(p) == StackOf(p) \cup TextOf(p) \cup UNION {Region(r) : r \in heap[p]}

\* What one process holds, no other process and not the kernel holds, and a
\* process' stack, text and heap do not overlap.
RegionsApart ==
    /\ \A p, q \in Proc : p # q => Held(p) \cap Held(q) = {}
    /\ \A p \in Proc : /\ StackOf(p) \cap TextOf(p) = {}
                       /\ \A r \in heap[p] :
                            Region(r) \cap (StackOf(p) \cup TextOf(p)) = {}
                       /\ \A r, s \in heap[p] :
                            r # s => Region(r) \cap Region(s) = {}
    /\ \A p \in Proc : Held(p) \subseteq UserArea

\* Nothing in use is marked free: the kernel image, the stacks of the other
\* cores, the off-screen buffer and what the processes hold.
HeldIsMarked ==
    /\ Boot \subseteq used
    /\ \A r \in offscreen : Region(r) \subseteq used
    /\ \A p \in Proc : Held(p) \subseteq used

\* Nothing that is marked used is lost but what malloc handed out: exit and
\* waitpid make a process' stack and text available again.
NoLeak ==
    \A c \in used : \/ c \in Boot
                    \/ \E r \in offscreen : c \in Region(r)
                    \/ \E p \in Proc : c \in Held(p)

-----------------------------------------------------------------------------
(* What comments in the code claim and the code does not do                *)

\* memory_allocate() returns NULL if it could not allocate, and execve()
\* checks for it: every pointer handed out points into RAM.
PointersInRam ==
    \A p \in Proc : /\ stack[p] # NULL => stack[p] \in UserArea
                    /\ text[p] # NULL => text[p] \in UserArea

=============================================================================
