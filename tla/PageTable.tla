------------------------------ MODULE PageTable ------------------------------
(***************************************************************************)
(* Turning the MMU and the caches on (memory_hierarchy_init() in           *)
(* memory/memory.c): setup_pagetable() writes one entry per 1 MB section,  *)
(* in loops that overwrite each other, and enable_mmu() switches over      *)
(* (memory/armv7-mmu.c on multi-core boards, memory/arm1176-mmu.c on the   *)
(* others).  An entry is the section it leads to, who may use it and       *)
(* whether it is cached.  Memory hands out chunks by kind; this is where   *)
(* the kinds become access rights.                                         *)
(***************************************************************************)
EXTENDS Integers, Sequences

CONSTANTS
    SECTIONS,          \* NUM_PAGE_TABLE_ENTRIES, four times what 1 GB has
    Boards,            \* {"armv7", "arm1176"} or one of them
    MemoryEnds,        \* sizes of memory, in sections
    KERNEL_SECTIONS    \* RESERVED_KERNEL

ASSUME PageTableAssumption ==
    /\ SECTIONS \in Nat /\ SECTIONS % 4 = 0
    /\ KERNEL_SECTIONS \in Nat
    /\ \A end \in MemoryEnds : end \in KERNEL_SECTIONS..(SECTIONS \div 4)

VARIABLES
    board, mem_end,
    page_table,
    prepared,          \* registers that were set, caches that were emptied
    control,           \* bits that are on in the control register
    at                 \* the next of the board's Steps

pt_vars == <<board, mem_end, page_table, prepared, control, at>>

Entries == 0..(SECTIONS - 1)
GB == SECTIONS \div 4

-----------------------------------------------------------------------------
(* setup_pagetable()                                                       *)

Section(user, cache) == [user |-> user, cached |-> cache]

\* The loops, by name, and what they write: "default" is the baseline of all
\* entries, which on armv7 anybody may use, also the peripherals between the
\* memory and 1 GB.
Loops ==
    [default |-> Section(board = "armv7", FALSE),
     kernel  |-> Section(FALSE, TRUE),
     user    |-> Section(TRUE, TRUE),
     from1GB |-> Section(FALSE, FALSE),
     from2GB |-> Section(FALSE, FALSE)]

LoopRange ==
    [default |-> Entries,
     kernel  |-> 0..(KERNEL_SECTIONS - 1),
     user    |-> KERNEL_SECTIONS..(mem_end - 1),
     from1GB |-> GB..(2 * GB - 1),
     from2GB |-> (2 * GB)..(SECTIONS - 1)]

setup_pagetable(loop) ==
    /\ page_table' = [i \in Entries |->
          IF i \in LoopRange[loop] THEN [base |-> i, kind |-> Loops[loop]]
          ELSE page_table[i]]
    /\ UNCHANGED <<prepared, control>>

-----------------------------------------------------------------------------
(* Switching over                                                          *)

\* tlb_invalidate_all(), icache_invalidate_all(), and the registers with the
\* page table and the domains' rights.
Preparations == {"tlb", "icache_empty", "table", "domains"}

prepare(what) ==
    /\ prepared' = prepared \union {what}
    /\ UNCHANGED <<page_table, control>>

\* One write of the control register.
Switches == [mmu |-> {"mmu"}, dcache |-> {"dcache"}, icache |-> {"icache"},
             branch |-> {"branch"}, all |-> {"mmu", "dcache", "icache"}]

switch_on(bits) ==
    /\ control' = control \union Switches[bits]
    /\ UNCHANGED <<page_table, prepared>>

\* disable_l1_dcache(), which enable_mmu() calls to empty the data cache.
disable_l1_dcache ==
    /\ control' = control \ {"dcache"}
    /\ UNCHANGED <<page_table, prepared>>

\* memory_hierarchy_init() from its call of setup_pagetable() or
\* enable_l1_icache() on, with enable_mmu().
Steps ==
    IF board = "armv7"
    THEN <<"default", "kernel", "user", "from1GB", "from2GB", "tlb",
           "icache_empty", "dcache_off", "domains", "table", "all">>
    ELSE <<"icache", "branch", "default", "kernel", "user", "table", "domains",
           "mmu", "dcache">>

memory_hierarchy_step ==
    /\ at \in 1..Len(Steps)
    /\ at' = at + 1
    /\ LET step == Steps[at] IN
       \/ step \in DOMAIN Loops /\ setup_pagetable(step)
       \/ step \in Preparations /\ prepare(step)
       \/ step \in DOMAIN Switches /\ switch_on(step)
       \/ step = "dcache_off" /\ disable_l1_dcache
    /\ UNCHANGED <<board, mem_end>>

\* The board it finds; armv7 has had its data cache off and its branch
\* predictor on since the start.
memory_hierarchy_init ==
    /\ at = 0
    /\ board' \in Boards
    /\ mem_end' \in MemoryEnds
    /\ at' = 1
    /\ UNCHANGED <<page_table, prepared, control>>

PtInit ==
    /\ board = "none" /\ mem_end = 0
    /\ page_table = [i \in Entries |-> [base |-> 0, kind |-> Section(FALSE, FALSE)]]
    /\ prepared = {} /\ control = {}
    /\ at = 0

PtNext == memory_hierarchy_init \/ memory_hierarchy_step

PtSpec == PtInit /\ [][PtNext]_pt_vars

-----------------------------------------------------------------------------
(* Properties                                                              *)

\* From the moment the MMU is on every address leads to itself; what memory.c
\* gives to processes they may use, the kernel's memory they may not; memory
\* is cached and device registers are not.  Until then the data cache is off,
\* for it would hold device registers too (arm1176-mmu.c).
MapRight ==
    /\ "dcache" \in control => "mmu" \in control
    /\ "mmu" \in control =>
        /\ {"table", "domains"} \subseteq prepared
        /\ \A i \in Entries :
            /\ page_table[i].base = i
            /\ i < KERNEL_SECTIONS => page_table[i].kind = Section(FALSE, TRUE)
            /\ i \in KERNEL_SECTIONS..(mem_end - 1) => page_table[i].kind = Section(TRUE, TRUE)
            /\ i >= mem_end => ~page_table[i].kind.cached
            /\ i >= GB => ~page_table[i].kind.user

-----------------------------------------------------------------------------
(***************************************************************************)
(* Emptying the caches.  flush_dcache() takes a range to memory, where the *)
(* firmware finds it: on armv7 line by line, after a walk over all places  *)
(* of this core's caches; on arm1176 in one operation.  A register is the  *)
(* set of its bits that are 1, for TLC's numbers have 31.                  *)
(***************************************************************************)

CONSTANTS
    Caches,            \* [loc, levels]: CLIDR's level of coherency, and of each
                       \* level its type and its CCSIDR's fields
    LineSizes,         \* log2 of the words of a line, in CTR
    Addresses          \* bound: of memory, 0..Addresses

VARIABLES
    cache,             \* the machine's: one of Caches, line, board
    own,               \* places of this core's caches that are dirty
    elsewhere,         \* lines that are dirty in another core's cache; on
                       \* arm1176, in the only core's
    range,             \* start_addr, end_addr
    r10, flush_at      \* twice the level; "idle", "walk" or "range"

cache_vars == <<cache, own, elsewhere, range, r10, flush_at>>

Bits(n) == {k \in 0..14 : (n \div 2 ^ k) % 2 = 1}
Number(bits) == CHOOSE n \in 0..31 : Bits(n) = bits
Up(bits, k) == {b + k : b \in bits} \intersect 0..31
Clz(n) == IF n = 0 THEN 32 ELSE CHOOSE k \in 0..31 : 31 - k \in Bits(n) /\ \A b \in Bits(n) : b <= 31 - k

TypeOf(level) == IF level < Len(cache.levels) THEN cache.levels[level + 1].type ELSE 0
Level(level) == cache.levels[level + 1]

\* The words that loop2 and loop3 write at a level, ways and index counted
\* down to 0.
Words_of(level) ==
    LET c == Level(level)
    IN {Bits(2 * level) \union Up(Bits(r9), Clz(c.associativity)) \union Up(Bits(r7), c.linelen + 4) :
            r9 \in 0..c.associativity, r7 \in 0..c.numsets}

\* The place that the processor takes such a word for: the bits of the level,
\* the index above those of the line, and the way in the topmost (external).
WayBits(c) == CHOOSE a \in 0..10 : 2 ^ a > c.associativity /\ (a > 0 => 2 ^ (a - 1) <= c.associativity)
Place(word) ==
    LET level == Number({b - 1 : b \in word \intersect 1..3})
        c == Level(level)
        top == 32 - WayBits(c)
    IN <<level, Number({b - top : b \in word \intersect top..31}),
         Number({b - c.linelen - 4 : b \in word \intersect (c.linelen + 4)..(top - 1)})>>

\* Where data is kept: in data and unified caches, types 2 to 4.
PlacesAt(level) ==
    IF TypeOf(level) < 2 THEN {}
    ELSE {<<level, way, set>> : way \in 0..Level(level).associativity, set \in 0..Level(level).numsets}

Places_to(loc) == UNION {PlacesAt(level) : level \in 0..(loc - 1)}

Linesize == 4 * 2 ^ cache.line
Masked(addr) == addr - (addr % Linesize)
LinesIn(first, last) == {mva \in 0..Addresses : mva % Linesize = 0 /\ Masked(first) <= mva /\ mva <= Masked(last)}

\* Everything may be dirty.
flush_dcache ==
    /\ flush_at = "idle" /\ cache.board = "none"
    /\ \E c \in Caches, line \in LineSizes, b \in Boards, first \in 0..Addresses, last \in 0..Addresses :
          /\ first <= last
          /\ cache' = [loc |-> c.loc, levels |-> c.levels, line |-> line, board |-> b]
          /\ range' = <<first, last>>
          /\ own' = IF b = "armv7" THEN Places_to(Len(c.levels))' ELSE {}
          /\ elsewhere' = LinesIn(0, Addresses)'
          /\ flush_at' = IF b = "armv7" /\ c.loc > 0 THEN "walk" ELSE "range"
    /\ r10' = 0

\* One turn of loop1.
invalidate_l1_dcache ==
    /\ flush_at = "walk"
    /\ LET level == r10 \div 2
       IN own' = IF TypeOf(level) < 2 THEN own ELSE own \ {Place(word) : word \in Words_of(level)}
    /\ r10' = r10 + 2
    /\ flush_at' = IF 2 * cache.loc > r10 + 2 THEN "walk" ELSE "range"
    /\ UNCHANGED <<cache, elsewhere, range>>

\* The line of the last address too.
clean_range ==
    /\ flush_at = "range"
    /\ elsewhere' = elsewhere \ LinesIn(range[1], range[2])
    /\ flush_at' = "done"
    /\ UNCHANGED <<cache, own, range, r10>>

CacheInit ==
    /\ cache = [loc |-> 0, levels |-> <<>>, line |-> 0, board |-> "none"]
    /\ own = {} /\ elsewhere = {} /\ range = <<0, 0>> /\ r10 = 0 /\ flush_at = "idle"

CacheNext == flush_dcache \/ invalidate_l1_dcache \/ clean_range

CacheSpec == CacheInit /\ [][CacheNext]_cache_vars

\* When flush_dcache() is done, nothing of the range is only in a cache: this
\* core's are empty up to where the others see it, and no other core has a line
\* of it; and what was asked of the cache stayed in the range's lines
\* (armv7-mmu.c:96-143, 562-605, arm1176-mmu.c:290-317).
FlushRight ==
    flush_at = "done" =>
        /\ own \intersect Places_to(cache.loc) = {}
        /\ \A addr \in range[1]..range[2] : Masked(addr) \notin elsewhere
        /\ \A addr \in 0..Addresses :
              addr < Masked(range[1]) \/ addr >= Masked(range[2]) + Linesize => Masked(addr) \in elsewhere

-----------------------------------------------------------------------------
(***************************************************************************)
(* A program is loaded where another one was (execve()): its text goes     *)
(* through the data cache to memory, and the instruction cache gets lines  *)
(* from memory whenever it likes.  flush_icache() empties it when all is   *)
(* written (exec.c:229); that the text has left the data cache by then     *)
(* nobody sees to, although the comment at armv7-mmu.c:540 lists it.       *)
(***************************************************************************)

CONSTANT TextLines     \* lines of the text

VARIABLES
    text_memory,       \* by line: "old" or "new"
    text_dirty,        \* lines that are in the data cache only
    text_icache,       \* by line: "none" or what it was filled with
    text_at,           \* "loading" or "runs"
    text_late          \* history: lines that were dirty when it was emptied

text_vars == <<text_memory, text_dirty, text_icache, text_at, text_late>>

load ==
    /\ text_at = "loading"
    /\ \E line \in TextLines :
          /\ text_memory[line] = "old" /\ line \notin text_dirty
          /\ text_dirty' = text_dirty \union {line}
    /\ UNCHANGED <<text_memory, text_icache, text_at, text_late>>

\* The data cache needs the place.
evict ==
    /\ \E line \in text_dirty :
          /\ text_dirty' = text_dirty \ {line}
          /\ text_memory' = [text_memory EXCEPT ![line] = "new"]
    /\ UNCHANGED <<text_icache, text_at, text_late>>

fetch ==
    /\ \E line \in TextLines :
          /\ text_icache[line] = "none"
          /\ text_icache' = [text_icache EXCEPT ![line] = text_memory[line]]
    /\ UNCHANGED <<text_memory, text_dirty, text_at, text_late>>

\* The end of execve(), when every line was written.
flush_icache ==
    /\ text_at = "loading" /\ \A line \in TextLines : text_memory[line] = "new" \/ line \in text_dirty
    /\ text_icache' = [line \in TextLines |-> "none"]
    /\ text_at' = "runs" /\ text_late' = text_dirty
    /\ UNCHANGED <<text_memory, text_dirty>>

TextInit ==
    /\ text_memory = [line \in TextLines |-> "old"] /\ text_dirty = {}
    /\ text_icache = [line \in TextLines |-> "none"]
    /\ text_at = "loading" /\ text_late = {}

TextNext == load \/ evict \/ fetch \/ flush_icache

TextSpec == TextInit /\ [][TextNext]_text_vars

\* What the instruction cache may hold of the program that was there before:
\* only lines that were still in the data cache when execve() emptied it.
\* Those may be fetched old, and then stay so (exec.c:226-230 does not write
\* them back, although armv7-mmu.c:540 says that one has to); of what was
\* loaded nothing is lost, and what is late reaches memory or is still dirty
\* (armv7-mmu.c:533-560, arm1176-mmu.c:241-288).
FetchRight ==
    text_at = "runs" =>
        /\ text_dirty \subseteq text_late
        /\ \A line \in TextLines :
              /\ text_icache[line] = "old" => line \in text_late
              /\ text_memory[line] = "old" <=> line \in text_dirty

=============================================================================
