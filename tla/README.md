# Specifications of VMWos

VMWos is a small operating system for the Raspberry Pi, written in C and ARM
assembly (`src/kernel`), with a C library and programs of its own
(`src/userspace`) and the tools that build its images (`src/elf2bflt`,
`src/fstools`).  This directory holds TLA+ specifications of it, the TLC runs that
check them on small instances, and proofs, checked by TLAPS, for instances of
any size.  `PROJECT.json` lists the components, the runs, the hazards of the code
and the source lines each definition stands for.

Contents: 1. the system, 2. the modules, 3. the runs, 4. fairness, 5. the
proofs, 6. what the code does wrong, 7. what is not modelled, 8. the plan.

## 1. The system

The kernel is entered by system calls (`syscalls/`), by interrupts
(`interrupts/`) and once at boot.  Two facts shape every specification:

* **Interrupts are masked in the kernel.**  `swi_handler.s` and
  `irq_handler.s` run with interrupts off and never turn them on; the idle task
  waits with interrupts on, in system mode.  Only core 0 runs processes; the
  other cores sleep after their start.  So a piece of kernel code between two
  calls of `schedule()` is one atomic step, and the interleavings that matter
  are those of *suspended system calls*, of interrupts with user code, of
  drivers with their hardware, and of the cores inside `mutex_lock()`.
* **Everything is a table of fixed size**: PCBs, file objects, inodes, chunks of
  memory, ring buffers.  What goes wrong goes wrong in the bookkeeping between
  tables: a count, a link or a bit in one that does not fit the other.

| Component | State it keeps | Operations | What makes it correct |
|---|---|---|---|
| Processes, scheduler, wait queues (`processes/`) | PCB table, doubly linked list, `avail_pid`, one queue per console/timer/process, linked through the PCBs | `vfork`, `execve`, `exit`, `waitpid`, `nanosleep`, blocking read, timer interrupt, `schedule` | the list is the set of valid PCBs; only READY processes run; queues hold the sleepers and nobody else; no stack has two users; sleepers wake |
| Program loading (`exec.c`, `bflt_loader.c`, `elf2bflt`) | image, relocations, argument block | convert, load, relocate, start | the running program is the one that was linked |
| Locks (`lib/locks.armv7.s`) | a word, the exclusive monitor, event registers | `mutex_lock`, `mutex_unlock` | exclusion under weak memory order; no lost wake-up |
| Memory (`memory/memory.c`) | bitmap of chunks | allocate (user, kernel), free | regions disjoint; bitmap agrees with the owners; what is given out comes back |
| Console input (`console_io.c`) | line buffer, ring, flags, readers | insert a character, read, TCSETS | order kept, nothing overwritten, nobody sleeps on data |
| Kernel log (`lib/dmesg.c`) | ring with head and tail | append, read all | the log is a gapless end of what was written |
| Open files, inodes (`fs/files.c`, `fs/inodes.c`) | descriptor tables, `file_objects[]`, `inodes[]` with use counts, offsets | open, creat, close, dup2, unlink, inherit, release, read, write, lseek, fcntl | counts cover all users; a descriptor denotes its file; a file lives while used; reads deliver the file |
| DOS 3.3 disk (`fs/dos33fs/`) | VTOC bitmap, catalog, T/S lists, data sectors | create, write, grow, shrink, unlink, destroy, lookup, getdents, chmod | no sector has two uses; the bitmap knows all of them; files are independent byte sequences; names are told apart |
| romfs, mounts (`fs/romfs/`, `fs/superblock.c`) | images; superblocks; current directories | lookup, read, getdents; mount, chdir | a path leads where its names say |
| Timer, `nanosleep` | `tick_counter`, `timer_next_wakeup` | tick, sleep | a sleeper is woken at its time, also over the wrap-around |
| Keyboard | frame, prefixes, modifiers | an interrupt per bit | keys come out as typed; resynchronisation |
| Text console | screen array, escape-sequence state | write | the screen is what the tokens describe |
| Serial ports, I2C, SPI, pins | FIFOs, registers with several pins each | transfers, interrupt, pin calls | no byte lost, doubled or left behind; a pin keeps what was set for it |
| Start: device tree, ATAGs, MMU, caches, cores, firmware | page tables, core states, the mailbox, the frame buffer | search, map, flush, start, ask, draw | the memory is what the machine has; the map is the identity with the right rights; answers belong to questions |
| C library (`vlibc/`) | list of blocks, streams, `optind` | system call stubs, malloc, getdelim, getopt, division, strings, printf | each as its definition says |
| Programs | shell: descriptors, children; editor: rows, cursor, window; ls, md5sum, ll; cp, cat and the other file utilities; the music player and its chip | | see section 2 |

**Interactions.**  Interrupt handlers call into the console
(`console_insert_char`), which wakes readers on `console_wait_queue`; the timer
interrupt wakes `nanosleep` and calls `schedule()`.  `vfork` copies PCB and
descriptors; `exit` wakes the waiting parent; `waitpid` calls
`process_destroy`, which closes descriptors (Open files) and frees memory
(Memory).  `execve` opens the program (Open files), allocates (Memory), loads it
(Loader) and, in the system call's wrapper, wakes the parent (Processes).  Open
files call `dos33fs` or `romfs`, by the superblock of the path, for lookup,
creation and the destruction of unlinked inodes.  Console, `dmesg` and memory use
the mutex.  Programs reach all of this through the C library's stubs and
`syscalls.c`.

**The hard behaviours.**  A system call suspended in the middle goes on with
what it knew before it slept (`waitpid`'s pointer to a PCB, `console_read`'s
belief that there is input).  `wait_queue_next` is one field for all queues, so
entering a second one corrupts both.  A vfork child runs on its parent's stack.
File objects and inodes are shared by descriptors of several processes and
counted, and the count is what keeps a slot from being given away.  The disk
records the owner of a sector in three places.  The mutex runs on a machine
that reorders loads and stores; the firmware reads messages behind the data
cache; a program's text goes through one cache and is fetched through another.
Drivers wait for hardware that may lose an edge, not answer or answer late.
Listings are taken in several calls while entries come and go.  There is no
persistence (the disk is a ramdisk and is lost at reset) and no network, so
crash recovery and message protocols do not occur.

## 2. The modules

Names are those of the source where TLA+ allows it.  Definitions called
`X_something` directly above `X` are faulty variants of `X` that the mutants of
`PROJECT.json` put in its place; they are in no specification.  `Liberties`, in
several modules, is the set of things programs do although the shell and the
demos do not, or cases the runs separate: with the empty set the module
describes well-behaved programs, with more elements more of the reachable code.

Four modules gather others that share no variable: **Platform**, **Terminal**,
**Storage** and **Programs**.  Each begins with the choice of a part and then takes
that part's steps only, so one run explores the parts side by side and the state
spaces are added, not multiplied.  Where parts do interact, one module has both
sides: Process has the console's and timer's queues, Vfs the release of
descriptors by processes, Memory its callers, Loader the file format and its reader,
Mutex the console's critical section, Firmware the caches between both sides,
Ports the interrupt and the writer.

### Processes and locks

* **Process** – `processes/*.c`, the blocking parts of
  `syscalls.c`, `nanosleep.c` and `console_io.c`, and the interrupt entry.
  `status`, `pid`, `parent`, `valid` are fields of the PCB; `list` is the linked
  list in order; `wqNext` the link field of the queues and each queue's head is
  a variable; `kont[s]` is where a suspended call goes on (`schedule()` saved
  the kernel context there).  `image` says whether a process has a stack and
  text of its own.  Each system call is one action up to the `schedule()` in
  it, and one more (`…_resume`) from there; `timer_interrupt`,
  `console_insert_char`, `console_eof` are the interrupts, enabled only in user
  mode and in the idle task.  `Schedule` is the round-robin scan of
  `scheduler.c`, as one operator on list and status that every action that calls
  `schedule()` uses.
* **Mutex** – `locks.armv7.s`, one action per instruction that touches memory or
  the event register, on a machine with a store buffer per core, early loads, the
  exclusive monitor and `wfe`/`sev`, around the critical section of
  `console_actual_insert_char()`.  The machine (`drain`, `load_early`) is not
  code of the repository: it is the part of ARMv7 the barriers are there for.
  **Lock** is the abstract lock: `L == INSTANCE Lock WITH head <- settled`,
  where a critical section's store counts when it has left the buffer.

### Platform

* **Memory** – the bitmap as a set of marked chunks, `find_free` with its two
  areas, sizes to chunks in words of `WORD` values (the code's `unsigned int`
  wraps), and the callers: `execve`, `process_destroy`, the malloc system call,
  `framebuffer_init`.
* **Loader** – `elf2bflt.c` (sections, which words are relocated), `bflt_load`,
  `bflt_reloc`, and the argument block of `execve()`; words are addresses or not,
  so that one that is moved wrongly, or not, can be told.
* **Timer** – `tick_counter` modulo `TICK_VALUES`, the one wake-up that is kept for
  all sleepers, `nanosleep()` with its second half.
* **Dmesg** – `dmesg_append` with its two cases (around the end, straight) and
  the move of the tail, and READ_ALL.
* **Hardware** – the walk over the flattened device tree token by token, the list
  of ATAGs, and what `hardware_detect()` makes of them – board, memory, addresses –
  with indexes that are `-ENOENT` as `uint32_t`.  A number of two words goes through
  `big_to_little64()` byte by byte, for what comes out is not the number, and the
  memory's size ends in a `uint32_t`; ranges of two, three and six words each have their
  own reading.
* **PageTable** – `setup_pagetable()` of both processors as a table of sections,
  the order in which MMU and caches go on; `flush_dcache()` by set and way over
  caches of several levels, the ranges of lines; and what the instruction cache
  holds when a program that was loaded runs: lines the loader's stores have not left yet are
  fetched as they were before.
* **Smp** – core 0's `smp_boot()` with its bounded wait, beside the other cores'
  assembly up to their loop: stacks, MMU, caches, who may print.
* **Firmware** – messages to the firmware on the caller's stack, behind a cache that
  may fetch and evict their line at any time; stray answers; `thermal_read()`;
  `framebuffer_init()` and everything that draws.

### Terminal

* **Keyboard** – the PS/2 interrupt bit by bit, with edges that get lost, prefixes,
  modifiers, up to the character or sequence the console gets.
* **Console** – canonical and raw mode, erase, ^D, the ring with its
  one-place-free rule, blocking and non-blocking reads, TCSETS.  A character is
  its serial number, so that order and loss can be seen.
* **Format** – both `vsnprintf`s, item by item into a buffer of `SIZE`; `printk`'s two
  outputs; `sprintf`, which has no size.  The buffer is a sequence that may become longer than
  `SIZE`, as it does where a `break` leaves only the inner loop; from then on
  (`Damaged`) the routine may return or be lost, since what lies behind the buffer is the
  caller's frame.
* **Screen** – the escape-sequence machine, wrapping, scrolling, and the redraw of
  what changed, against an interpretation of the same tokens one by one.  A sequence that the
  console does not know ends it (`Hangs`): the report is printed from within the write,
  under its lock.
* **Ports** – I2C and SPI transfers with hardware that empties and fills the FIFO
  meanwhile; the PL011 with its interrupt handler register by register; the
  pins, of which a register holds several.
* **Music** – the song player's decoding of lines (bytes as `LineBytes` writes
  them), effects, samples, ornaments, volume tables, frames; and the emulated
  sound chip: envelopes, noise, tone, mixing.

### Storage

* **Vfs** – descriptor tables, `file_objects[]`, `inodes[]`, the catalog as
  names and numbers; `open`, `creat` and its failures, `close`, `dup2`,
  `unlink`, `execve`'s use of a file, inheritance by `vfork`, release in
  `process_destroy`.
* **Files** – offsets and access modes of shared file objects, the loop over sectors
  of `dos33fs_read_file()`, `fcntl`; a byte is the number of the write that wrote
  it.  Beside it the catalog: names and how `find_filename` compares them, `getdents`
  over several calls, making, unlinking and destroying, types and sizes as catalog
  entry and header keep them.
* **Romfs** – images as `mkromfs` links their headers; lookup, reads, listings.
* **Mounts** – paths as strings, superblocks, `mount` with its failures, `chdir`.
* **Dos33** (runs of its own) – `dos33fs.c` below the names: the scan of
  `dos33_allocate_sector()` as `Found`, T/S lists as `sector_of[<<e, k>>]`
  with `HOLE` for the null pointer, `make_inode`, `grow_file`, `shrink_file`,
  `write_file` with one action per sector, `unlink_inode`, `destroy_inode`.
  `stuck` marks the two ways the code loses control: the endless scan of a full
  disk, and a walk that leaves the T/S list.  **FileStore** is the abstract
  specification: a function from entries to byte sequences; `S == INSTANCE
  FileStore` reads each file through `Unit`, which is `dos33fs_read_file()`.
  Vfs's entry is Dos33's entry, and Vfs's destruction of an inode is
  `destroy_inode`.

### Programs

* **Calls** – a system call from the C function through registers, `swi_handler`
  and `syscalls.c` and back, with other processes' calls and interrupts in between.
* **Routines** – division, the two `memset`s, `memcpy`, the two `memmove`s (unaligned
  copies by shifting words), `memcmp`, strings, character classes, against their
  definitions; the library's and the kernel's versions where they differ; times
  (`usleep`, `time_pretty`), numbers on the kernel's command line, the loops of
  `memory_test` that set an area.
* **Library** – `getopt`, `malloc`/`realloc`, and streams with `getdelim`.
* **Editor** – `nano.c`: text, cursor, window, search and save, colours;
  keys and prompts byte by byte, the size of the screen, the two bars.
* **Shell** – a line to words, redirections and builtins; descriptors; children.
* **Tools** – `ls` with its two passes, columns and dates; `md5sum`; `ll`, which
  unpacks a picture through a ring and centres its lines.
* **Utilities** – `cp`, `cat`, `hexdump`, `truncate`, `chmod`, `rm` and `df`, on files whose
  calls may fail or move fewer bytes than asked; `printa` and `printb`; and pictures,
  drawing and text of the `demosplash2019` demo (`pcx_load.c`, `svmwgraph.c`, `print_string.c`).

Proof modules: `ProcessProofs`, `MutexProofs`, `PlatformProofs`, `StorageProofs` and
`Dos33Proofs` extend the modules they are named after; `TerminalProofs` extends
Console, Keyboard and Ports; `ScreenProofs` extends Screen and Format, and
`TerminalProofs` for its lemmas on sequences.  `Recursion` holds what StorageProofs and
ScreenProofs need about recursive functions.
The modules whose names begin with MC give the constants of a run the
values a cfg cannot write.

## 3. The runs

Every cfg gives small values to the constants; the bounds are named in the
modules.  Deadlock is checked for Mutex and for `process_shell`, where interrupts
always come; the other systems may stop: when a counter has reached its bound,
when a table is full and nobody may give anything back, or when the code spins.

| Run | Bounds | Shows |
|---|---|---|
| `process_shell` | 4 PCBs, pids to 5, input ring of 2, no liberties, fair | for programs like the shell: no shared stack is run by two (`StackExclusive`), queues are exactly the sleepers (`QueueExact`), `waitpid` waits for the process it picked (`WaitTargetLive`), a process goes through its life once (`LifeCycle`); every READY process runs (`NoStarvation`), a zombie that is waited for is reaped (`ReapedInTheEnd`), vfork returns in the parent (`VforkReturns`), a reader gets its input (`InputDelivered`) |
| `process_any` | 3 PCBs, all liberties | whatever programs do, the list is the set of valid PCBs and the CPU is given to a READY process of it (`ListIsValid`, `CurrentRunnable`), even in states where the wait queues are already corrupt |
| `process_exec_fails` | 4 PCBs, `exec_fails` | *violated*: see 6.1 |
| `mutex` | 2 cores, ring of 3, fair | `MutualExclusion`; a sleeping core has a wake-up coming (`NoLostWakeup`); the lock is handed on (`SomebodyGetsIt`); refinement of Lock (`ImplementsLock`) |
| `platform` | 12 chunks of which 5 reserved; log of 6 bytes, 48 written; ticks modulo 8, 2 sleepers; 4 cores; 16 sections; caches of 3 levels; trees, ATAG lists, ELF files and screens of `MCPlatform` | memory regions disjoint, marked while held, none leaked (`RegionsApart`, `HeldIsMarked`, `NoLeak`); READ_ALL is an unbroken end of the log (`ReadsTheEnd`); sleepers are not forgotten (`SleepersKept`); the program that runs is the one that was linked (`ImageRight`); and what the kernel relies on after its start (`BootRight`): stacks apart, the memory's size found where it is one word (and what comes of it where it is not, see 6), map and caches right, answers of the firmware to what was asked, pictures shown as drawn |
| `memory_exhausted` | same chunks, with exhaustion | *violated*: see 6.2 |
| `terminal` | rings of 4, 7 characters, 2 readers; 4 key events, 1 lost edge; screen of 3 by 2, 3 tokens; buffers of 6; FIFOs of 3; 2 function registers, few pin calls; songs of 2 lines, 9 frames; 4 register writes | `InputRight` (order kept, nobody asleep beside input) and `LineStored` (of a complete line all that there is room for), `KeysRight`, `ScreenRight`, `FormatRight`, `PortsRight`, `MusicRight` |
| `storage` | 2 processes, 2 descriptors, 2 file objects, 3 inodes, 2 entries, 1 name, `MaxLeak` 1; 4 catalog entries, 4 calls; images and paths of `MCStorage`; sectors of 3 bytes, 2 per file | `NoDangling`, `FdDenotes` with every table full at times; `RomfsRight`, `MountsRight`, `ReadsRight`, `CatalogRight` |
| `vfs_unlinked` | same tables | *violated*: see 6.3 |
| `dos33` | 7 tracks of 1 sector, 2-byte sectors, 1 byte of header, T/S lists of 3, 2 files of up to 3 bytes | `SectorsApart`, `UsedIsMarked`, refinement of FileStore (`ImplementsStore`); the disk fills up |
| `dos33_long` | T/S lists of 2, files that need two | *violated*: see 6.4 |
| `programs` | words of 6 bits; strings to 3 characters, command lines of 3 options; 3 blocks, 2 files; 4 characters of text, 3 keys at a prompt; shell lines to 5 characters and some longer; inputs of ls, md5sum, ll and the file utilities of `MCPrograms` | `LibraryRight`, `EditorRight`, `ToolsRight`: conjunctions with one part for each module |

**Why the bounds are enough.**  Three PCBs besides idle let a child have a
child and two processes meet in one queue; the fourth in the shell's run makes a
sibling possible.  Pids are only compared for equality; the bound is above the
number of PCBs so that slots are reused.  Two file objects and three inodes (one
taken by the console) are fewer than four descriptors need; `MaxLeak` 1 lets each
count be too high once, which fills a table.  The log is written
eight times its size, so that head and tail meet in all relative positions.  The
ring of the console is filled, emptied and wraps.  The disk of five usable
sectors is exhausted by two files; a header shorter than a sector and files of
one and a half sectors give every position of the end of file in a sector, and
holes in front of data.  Eight values of the tick counter let two sleepers lie on
both sides of the wrap-around.  A console ring of four places, of
which three are used, and lines of up to four characters let
a line meet a ring with room for all, some and none of it; a format of a few items ends
before, at and behind the end of a buffer of six.  A screen of two rows scrolls with its third line
end; three tokens put a sequence between characters and cut it into calls.
Division is done for all pairs of 6-bit words: the routines' cases are by the
position of leading bits, equal words, powers of two and the largest negative
number, which are all there; copies have all alignments and every length
around 4, 32 and 64 bytes, where the loops change.  FIFOs are of 3 bytes and
transfers shorter, as long and longer.  MD5 is run on messages that end before, at
and behind the place where the length goes, with digests from RFC 1321 or from
another implementation.  The properties that do not depend on fairness
are proved without bounds where section 5 says so.

## 4. Fairness

* **Process** (`FairSpec`): weak fairness of `Resume` – when a process is
  switched in inside a system call the CPU executes it, there is nothing it could
  do instead; strong fairness of `Tick` – the timer interrupt is level-triggered
  and stays pending while the kernel masks interrupts, so it is taken when
  user mode or the idle task is reached often enough.  No fairness is assumed
  of programs or of typists.
* **Mutex** (`FairSpec`): weak fairness of each core's instructions and of each
  store buffer draining.  Nothing is assumed about when a core asks for the lock;
  nor that a particular core wins, so only that *somebody* gets the lock is claimed.

The other modules have safety properties only.  Where code waits for hardware
without a bound (I2C, the firmware, the cores) nothing forces the hardware to
answer, and the properties say what holds if it does.

## 5. The proofs

All theorems are of the form `Spec => []P`, `Spec => [][A]_v` or a refinement, for
every value of the constants that satisfies the module's ASSUME, and rest on an
inductive invariant; each has one lemma or step per action.  A hypothesis in front
(`Orderly => …`, `Sane => …`) is about the constants that say which liberties
programs take: it is there because the property is false without it, as a
run or a known behaviour of section 6 shows, and the runs satisfy it.

* **ProcessProofs**, for any number of PCBs.
  With *all* liberties: `TypeCorrect`, `ListCorrect`, `RunningIsRunnable`.  Invariant
  `Inv`: types, the list is valid, the idle task is READY and outside the kernel, the
  current process is runnable.  `IdleSafe` is what the others need: the scan of
  `scheduler.c` ends only because idle is on the list and READY.
  If a program calls `execve()` once, right after `vfork()`, and what it names is there,
  as the shell and the demos do (`Orderly`; the user may stop processes and wait for
  strangers as he likes): `QueuesExact`, `StacksApart`, `QueuesEnd`,
  `LivesInOrder`.  Invariant `OrderlyInv`: beside `QueueExact` it says which
  stack a vfork child has borrowed from whom and where that lender sleeps
  (`Borrowed`), that who is on no queue has no successor left over (`LooseEnds`),
  and that chains end (`ChainEnds`, `NobodySpins`).  Queues are linked through one field
  of the PCB, so "who is on the queue" is what a chain of pointers reaches:
  `Reached` is defined by closure, and the lemmas about it say what appending
  one process or waking all does to every chain, also those of the other queues.
  `TargetsLive`: whatever else programs do, if they wait only for their own
  children then the PCB `waitpid()` keeps a pointer to is not freed under it.
* **MutexProofs**: `MutexExcludes`, `MutexWakes`, `MutexImplementsLock`, for any
  number of cores.  Besides exclusion the invariant says what the lock word is in
  terms of who owns it (`LockWord`, an unlocking store in a buffer still owns),
  that a monitor's mark means the word is still free (`MarkFresh`), that
  buffers hold only the owner's stores (`Buffers`), that nobody past the barrier holds a
  value loaded before it (`HeadFresh`), and `NoLostWakeup`.
* **PlatformProofs**, by parts of Platform.
  `MemoryApart`, `MemoryMarked`, `MemoryNoLeak` (Memory), for any amount
  of memory and any number of processes, under `Sane` (memory does not run out,
  no program is empty; see 6.2).  `Recorded` ties the sizes kept in the PCB to
  what was allocated: freeing is by size.
  `DmesgInBounds`, `DmesgReadsTheEnd` (Dmesg), for any buffer size: `Placed` says which
  byte of the history each place of the ring holds.
  `ClockKeepsSleepers` (Timer), for any number of sleepers and any modulus, unless a
  wake-up is computed to be at tick 0 (`SleepAtZero`): besides `WakeupKept` the invariant
  says that no sleeper is overdue (`Prompt`) and that the ticks left agree with the
  counter (`AllCounted`), for the action property compares them.
  `CoresStartApart` (Smp), for up to four cores (a fifth's stack would be the boot
  core's interrupt stack): what a core has been told, and which flag it has set.
  `MapIsRight` (PageTable), for every size of memory and of sections: which entries
  the step that has been reached has filled (`Mapped`), and that the MMU goes on behind
  all of them (`Switched`).  `OldTextIsLate`: the program that was there before is fetched
  only from lines that were still in the data cache when `execve()` emptied the instruction
  cache, and nothing loaded is lost.  It does not say that there are no such lines: the
  code does not write them back, and whether they are there is up to the cache.
  `AnswersAreRight` (Firmware): what memory, cache line and firmware each hold of the
  message at each stage of a call (`CopiesRight`), that mail is neither doubled nor
  overtaken (`OnceEach`, `Lockstep`).  `FrameIsRight`: the offscreen copy is what
  was drawn (`Faithful`), for all widths and heights, where the pitch is three times the
  width; places of bytes are products, so
  these are proved from lemmas on `ByteAt`.
  `ImageIsRight` (Loader), for any programs that keep their pointers in their data, any
  sizes of sections and pages and any order of the relocations: the words already relocated lead
  from where the program lies, the others from 0, so each is moved once.
  `PlatformMemory`, `PlatformLosesNothing`, `PlatformLog`, `PlatformClock`, `PlatformImage` and
  `BootsRight` say the same of the composition, from `PartsBehave`: a behaviour of `PlatformSpec`
  is one of each part.
* **TerminalProofs**.  Console, for any size of ring and line buffer and any number
  of readers: `ConsoleTypes`, `NobodyOversleeps`, `RingKeepsAll`, `LinesStored` (a complete
  line goes in as far as there is room and loses its end, the newline first, where there is none), and, if the
  line mode is not switched inside a line (`SwitchMidLine`), `InputInOrder`.  The ring is a
  function with two indexes; the lemmas say what a store and a take do to the
  sequence it stands for, over the end of the array too.  Order needs that what is in
  the line buffer is younger than what is in the ring and that outside line mode the
  line buffer is empty (`OrderInv`).
  Keyboard: `KeysAreRight`, for any set of keys without two of one modifier and any number of
  lost interrupts.  While no edge is lost the handler and the keyboard are at the same
  place of the same key; after a loss only what counts frames is kept, and that is
  enough to fall back into step at the next pause, unless that began before the first tick
  of the clock (6).
  Ports: `PortsAreRight`, for FIFOs, transfers and texts of any length and any number of
  pins.  The bytes on the wire, in the FIFO and in the buffer are consecutive
  numbers (`BytesFlow`); for each kind of transfer the place the loop has reached and the
  status register say which of them are where (`Writing`, `Reading`, `Exchanging`); the
  text that is left is the end of what was to be written; a register stands for a set
  of pins (`StandsFor`, `Selects`).
* **ScreenProofs**: `ScreenIsRight`, for every screen of up to 99 rows and columns (a
  number in a sequence has two digits), every TAB and any tokens cut into calls
  anywhere, up to a sequence the console does not know, which ends the run.  `Pending`: until
  its last byte is written a token leaves the page as it was, and
  the machine has read a beginning of it and no more (`AtStage`, `Inputs`), with the
  numbers it has, whatever numbers earlier sequences have left behind; the last byte does what
  the page describes, over the bounds check, which wraps first and then scrolls by one line
  (`BoundsForward`, `BoundsDown`).  `Clean`: a place shows what is in the text or nothing,
  or everything will be drawn again; blanks show nothing.
  `PrintsTheFormat` (Format), for any format, arguments and size of the buffer (`DIGITS`, the
  places of the longest number, is large enough: `DigitsAssumption`), those that write on
  behind the buffer included: what is returned is the beginning of what the format promises, and
  all of it when there is room; and the loop goes behind the buffer for no format that fits it, to
  the last place.  No format is excluded: the invariant says of a buffer that is overfull that
  its beginning is right, and that the format is too long.  The loops that take a number apart
  and the numeral the
  promise names are two recursive functions; that they agree needs that a number has only
  one numeral.
* **StorageProofs**: `VfsNoDangling`, `VfsFdDenotes`, `VfsNamesUnique`, for tables of
  any size, if dup2 is called with an open descriptor and another one than it.
  Invariant: the three and what inodes and links are known (`LinksKnown`).  The
  counts are bounded below by the number of users only: calls that fail leak
  counts, and the proof shows that this direction is harmless.
  `StorageReadsRight` (Files), for files, sectors, T/S lists and headers of any size: a read
  gives the bytes from the offset on.  Invariant `FilesHold`: files fit their lists and offsets are
  numbers.  The loop over sectors is solved: from a sector and a place in it, it gives a
  `Piece` of the disk as long as `Amount_read` says.
  `StorageMountsRight` (Mounts), for any devices, mountpoints, paths and directories, if
  `mount()` is given mountpoints without a double or trailing slash (`PlainTargets`;
  `/m/` is compared with paths as it is given and never found).  Invariant `MountsInv`:
  the table holds what was mounted where (`TableHolds`), the current directory what
  `chdir()` has named (`DirectoryHolds`).  The code compares strings and the property
  speaks of names: a path without double slashes is written from its names, so one
  list of names begins another exactly if the strings do, up to a slash.
  `StorageCatalogRight` (the catalog in Files), for any number of sectors and entries, names and
  buffers of any length, if no file is called `.` or `..` (also with blanks behind),
  no empty name is asked for and the disk begins with different names (`CatalogGiven`: `.`, `..`
  and the empty name stand for the directory, whatever is in it).  Invariant `CatalogHolds`:
  entry, first data sector and in-core inode agree with what was asked for, only
  files that are there or were unlinked while open are in core, and names
  differ unless one was cut or ends with a blank.  What `getdents()` gives is a property
  of the state: after n turns of its loop the entries it has passed are shown, in their
  order, and the room they take is the sum of their records (`TurnGoes`); the loop ends
  because the turns are as many as places.
  `StorageRomfsRight` (Romfs), for any well-formed images and whatever `mkromfs` is given
  (`RomfsGiven`: headers lead to headers, a directory has entries, neither directories nor hard
  links go round in circles, a buffer has room for any one entry; that `mkromfs` makes such images
  is a lemma).  Invariant `RomfsHolds`: what was found is what its path leads to, a listing is a
  `Walk` along the headers up to the place kept in the offset, unless that place has become 0
  (`again`), and the offset is within the file.  A set that has a header and is not left has all that
  is reached from it: this is how the loops, which go as long as there is a next header, are
  compared with `Reached`.
* **Recursion** has no theorems of its own.  The induction theorems of the library take an
  operator, which the provers here cannot instantiate; the lemmas of this module say the
  same of sets (`Induction`, `CourseOfValues`, `AppendInduction`), from the
  well-foundedness of the numbers, and that a function defined along a sequence exists and
  is the only one (`RunExists`, `RunUnique`), and that one defined along a chain whose ranks fall
  exists (`ChainExists`).  With them a recursive function can be
  replaced by what it computes.
* **Dos33Proofs**: `Dos33TypeOK`, `Dos33SectorsApart`, `Dos33UsedIsMarked`, for a
  disk of any geometry and also when files outgrow their T/S list; and
  `Dos33ImplementsStore`, while they do not.  `UsesChange` is the heart of the
  first: a step in which each use keeps its sector, loses it or takes one that
  was free preserves both properties.  The refinement needs that behind the end
  of a file its sectors are zero (`TailZero`): this is what makes growing a
  file, which touches no data, add zeros.  It also shows where the arithmetic
  matters: the place of a byte is unique (`PlaceUnique`) and the chunk that is
  written is exactly the bytes whose places it covers (`InChunk`).

The runs `platform`, `terminal` and `storage` check the properties for the same definitions
the theorems are about.

**Only model-checked**: all liveness (it needs fairness and ENABLED, which TLAPS
here does not reason about); of `BootRight` the device tree and `flush_dcache()`,
whose loops walk trees and count by powers of two; `MusicRight` and `ToolsRight`,
whose modules have RECURSIVE operators or use Bitwise, out of these provers' reach
(the loops in them could be written as recursive functions and solved one by one, as was
done for Format, Files, Mounts and Romfs); `LibraryRight` and `EditorRight`, which rest on
folds over sequences and are not proved yet; exhausted memory and the other violations.

## 6. What the code does wrong

Recorded as findings, each with a run that shows it:

1. **A failed execve wakes the vfork parent** (`syscalls.c:133`).  Parent and
   child are then both READY on one stack.
2. **Exhausted memory is not noticed** (`memory.c:200`): the test of an unsigned
   variable for `< 0`; execve goes on with an address made of an error number.
3. **A file can have two in-core inodes** (`inodes.c:201`), and `unlink`
   through the second destroys the file while it is open.
4. **The second T/S list is read from the wrong place** (`dos33fs.c:1481` and
   three more): a file of more than 122 sectors uses a catalog sector as its
   list.

Known behaviour that no document of the repository contradicts, or that the
modules contain without a run of their own.  The properties are stated around it:
they name the case in which they say nothing.

*Processes and console.*  A reader that is woken does not test the ring again, so
with two readers, or after ^D, `read` returns 0, which the shell takes for end of
file (`console_io.c:318`).  A complete line that the ring has no room for loses its end, the
newline first (`console_io.c:82, 176`), and the next line continues it: `LineStored` says that
this and nothing else is lost.  An escape sequence that the screen does not know, or one of more
than `ANSI_MAX_NUMBERS` numbers, is reported with `printk` from within the write
(`framebuffer_console.c:235, 318, 356`), which waits for the lock the write holds
(`console_io.c:287`): nothing is printed any more (`Hangs`; sequences of too many numbers are
not among Screen's tokens).  Where a string, or in the kernel a number or its padding, fills the
buffer of a `vsnprintf` to its last place, `break` leaves only the inner loop and the outer one
asks for exactly one place left (`printk.c:81, 89, 117, 145, 153, 181, 192`; `printf.c:355`): what
follows is written behind the buffer, as happens to a long command line (`hardware_detect.c:181`).
The library's decimal numbers write `int_buffer[32]` of `char int_buffer[32]` (`printf.c:72, 186`).
`FormatRight` says what comes out if the routine returns, and that it damages memory in no other
case.  The keyboard takes a pause that begins before the first tick for none
(`ps2-keyboard.c:210`).  The block for a program's arguments has room for what `argv[argc]`,
which is NULL, points to in place of the last string (`exec.c:172`): a long last argument is
written behind the stack; what an argument contains is no part of `ImageRight`.
A process that a failed execve has made READY while it is linked in a queue can enter a second
queue and join the two.  A vfork child that exits before execve leaves its
parent asleep for ever.  Memory from the malloc system call is never freed.  TCSETS
in the middle of a line lets raw characters overtake it (`SwitchMidLine`).  A
wake-up that is computed to be at tick 0 is taken for none (`SleepAtZero`).  A log
that has been filled exactly has head = tail and reads as empty (`dmesg.c:39`).

*Start.*  Mail on a wrong channel is dropped with the call, and every later call
reads the answer before (`mailbox.c:146`); a store beside the message overwrites
the answer when its cache line is written back; `thermal_read()` takes the
firmware's error code for success (`thermal.c:71`).  A `framebuffer_init()` that
gets no pointer keeps the sizes, and drawing goes to address 0; a pitch wider than
the rows writes behind the offscreen copy; `gradient` leaves the last row.  After
loading a program only the instruction cache is invalidated; text still in the
data cache is not what is fetched.  A search of the device tree that fails gives
an index of 2^32 - 2, which is used.  `big_to_little64()` shifts four of eight bytes wrongly
(`device_tree.c:84-99`): the lower half of a size of two words comes out 256 times as large,
without its highest bytes.  A range of three words has a size of one, but is converted as two
(line 625), and the memory is 0; a tree with two-word sizes and no `/memory` reads its size where
the failed search leads.  `MemoryFound` states the first two results as they are and the right
size everywhere else.  A core that core 0 has given up may print beside it before there are locks
(`smp_boot.c:95`).

*Files.*  On a full disk `dos33_allocate_sector()` never returns, unless `debug` is
set (`dos33fs.c:262`; `stuck = "full"`).  `dos33fs_destroy_inode()` leaves the sector
of the header allocated (`dos33fs.c:1964`).  `find_filename` compares as many
characters as the name that is looked for has (`dos33fs.c:361`), so a name finds
files that begin with it; a file can stand for a directory.  `getdents` resumed in
the middle of a sector tells names of its first entry again (`dos33fs.c:1018`);
changing the mode of a file to BASIC and back changes its size by 2; a link that
fails leaves its entry.  `vtoc_list` has its dimensions swapped (`dos33fs.c:2211`).
Reading at the end of a file that fills its T/S list may be `-ENOENT`.  A failed
mount leaves a valid superblock that matches every path (`superblock.c:98`);
mount points are compared as prefixes; `chdir` to a relative path uses the length
of the unexpanded one (`files.c:524`).  `O_APPEND` sets the offset at open only;
`F_SETFL` replaces the access mode too; `SEEK_END` is `-ENOSYS`.  `romfs_getdents`
with a buffer exactly full at the end starts again.

*Ports and sound.*  A write over I2C, longer than the FIFO, to a device that is not
there never returns, a shorter one reports success; the PL011's handler clears
only the receive timeout.  Two effects in a line of a song lose the place in the
line (`pt3_lib.c:505`); a slide whose delay is 0 or from 128 on never moves; an interrupted
portamento stays at the old note; a sample offset behind the sample reads on;
`memset(frame,0,16)` clears two bytes more than chiptune's frame has
(`pt3_lib.c:981`); a pattern that ends early plays a frame that
`pt3_calc_frames()` does not count.

*Programs.*  `nano` sets VMIN and VTIME (`nano.c:187`), which the console driver
ignores: a lone escape key takes the two next bytes with it; sequences it does not
know leave their last bytes as text; the loop that reads the cursor's position has
a test that is always true (`nano.c:1017`); with the cursor behind the last row
two keys read behind the array of rows; joining and splitting rows leaves the
comment state of those below; a save that fails may leave an unmodified mark.
`shell`: the buffer of the first line is not initialised, a second file that
cannot be opened leaks the first, builtins match by prefix, a leading space
becomes part of the program's path, one background child is reaped per prompt,
and a failed execve leaves two shells.  `ls` underflows a column when a longer
name appears between its two passes, puts the numbers of a device where sizes are, without
padding (`ls.c:215`), and uses what an earlier `stat` left when
one fails.  `md5sum` takes a failed read for the end of the file.  `ll` centres
lines that do not fit, for it tests flags an instruction has changed since.  The `cp` does not go on
after a short write.  `df` prints what lay on the stack when `statfs` fails (`df.c:47`).  The
demo's `put_char` draws glyphs one column to the right without
their lowest bit, and its `erase_sprite_cropped` does not crop.  The C library's `printf`
takes a precision for a width, `getopt` never sets `optopt`,
`malloc` returns NULL where its callers test for -1.

**Hazards without a property.**  Where the code always goes wrong in the same way a property can
only say so or be stated around it.  These entries of `PROJECT.json` have none that would catch them,
each with a note: the vfork child that ends before execve; room for arguments; text still in the
data cache; stray mail; a pitch wider than the rows; the I2C write to a device that is not there;
listings resumed at the end of a buffer or in the middle of a sector; mount points as prefixes
and failed mounts; the
endless scan of a full disk; escapes and reports among nano's keys; names that appear between the
two passes of ls; the console's report of an unknown sequence.  Of use counts that are too
high, of a late core's
printing, of a woken reader that finds nothing, of a second queue and of the shell's leak
behind a failed open the
properties named there cover the other half of the hazard only.

## 7. What is not modelled, and why

* PWM audio, LEDs, performance counters, the random number generator, the
  mini UART, the setting up of clocks: single register accesses without
  state that other parts change.
* Printing: `device_tree_debug.c`, `panic`, `early_debug.c`, dumpers, abort handlers
  (which print and exit); informational system calls.
* The order of initialisation in `kernel_main()`: a straight line.  What each of its
  steps leaves behind is the initial state of the module.
* Data: fonts, pictures, songs in header files (about a third of the
  lines of the implementation); of the demos everything but the drawing named in section 2:
  they call the system as other programs do and carry second copies of the music
  player; demos written for other systems.
* In Vfs: contents, offsets and flags (Files), names longer than one part
  (Mounts, Files).  In Dos33: types other than B; what happens to a disk after
  the walk has left the T/S list.  `statfs`, `ioctl` on files, `getcwd`.
* In Process: signals (the kernel has none that programs can catch), times of processes.
* Of `elf2bflt` the reading of ELF headers; of the music player six-channel songs
  and loading; of `ls` error messages; of `nano` the escape sequences of a
  redrawn screen.
* `fgets`, `strerror` and random numbers of the C library.

Components with the status `partly` in `PROJECT.json` say what is missing.

## 8. The plan

Done: every component that keeps a state of its own is modelled, wholly or in the
parts named above; Process, Mutex/Lock, Memory, Dmesg, Timer, Smp, PageTable, Loader,
Firmware, Console, Keyboard, Ports, Screen, Format, Vfs, Files, Mounts, Romfs and
Dos33/FileStore have proofs.  Next, in this order:

1. **Abstract specifications** for the console (a queue of lines) and for
   descriptors (a function from descriptors to files with offsets), each with
   a refinement.
2. **The programs**: invariants of `getopt`, `malloc` and `getdelim` of Library and of the
   rows of Editor.  Both modules are free of RECURSIVE operators, so they can be
   reasoned about by themselves, without Programs, which gathers them with modules
   that are not.
3. **Larger instances**: three levels of directories in Mounts, two vtocs in one run
   of Dos33, three readers.
