-------------------------------- MODULE Loader --------------------------------
(***************************************************************************)
(* From the linker's ELF file to a running program: elf2bflt               *)
(* (elf2bflt/elf2bflt.c) turns it into a bFLT file, bflt_load() and        *)
(* bflt_reloc() (kernel/processes/bflt_loader.c) and execve()              *)
(* (kernel/processes/exec.c) bring that into memory at another address and *)
(* lay out the arguments on the new stack.                                 *)
(*                                                                         *)
(* Addresses, offsets and sizes are in words.  A word is 0, an address, or *)
(* a negative number for what is no address; so a word that is moved       *)
(* wrongly differs.  What the linker does (userspace/user.ld) is external: *)
(* it puts .text at LINK, which is also its offset in the ELF file, every  *)
(* section on a page, and always makes a .bss; all data sections count as  *)
(* one.                                                                    *)
(***************************************************************************)
EXTENDS Integers, Sequences, FiniteSets, FiniteSetsExt, Functions

CONSTANTS
    Elfs,          \* what the linker may produce, see Elf
    LINK,          \* 0x8000
    PAGE,          \* alignment of the sections
    HEADER,        \* size of the bFLT header, 0x40
    WORDS,         \* values of a uint32_t
    Bases,         \* where memory_allocate() may put the program
    StaleBound,    \* bound: addresses below it may have been programs before
    STACK_SIZE,    \* characters of the user stack
    STRLEN_NULL,   \* what strlen(NULL) finds at the exception vectors
    ArgLengths     \* lengths of program arguments

\* The sections' sizes, and the words of the data that are addresses: where
\* they lead, from the start of .text.
Elf(text, rodata, data, bss, refs) ==
    [text |-> text, rodata |-> rodata, data |-> data, bss |-> bss, refs |-> refs]

VARIABLES
    stage,         \* how far the program has come
    elf,
    bflt,          \* header and contents of the bFLT file
    base,          \* binary_start
    image,         \* the program's memory, from binary_start
    relocated,     \* turns of the loop of bflt_reloc()
    icache,        \* addresses of which the instruction cache has old code
    argv           \* argument block: lengths given, where it begins and ends

loader_vars == <<stage, elf, bflt, base, image, relocated, icache, argv>>

-----------------------------------------------------------------------------
(* The ELF file, external.  Addresses count from LINK.                     *)

Aligned(n) == ((n + PAGE - 1) \div PAGE) * PAGE

RodataAt(e) == Aligned(e.text)
DataAt(e)   == Aligned(RodataAt(e) + e.rodata)
BssAt(e)    == Aligned(DataAt(e) + e.data)
End(e)      == BssAt(e) + e.bss

Text(e) == 0..(e.text - 1)
Ro(e)   == RodataAt(e)..(RodataAt(e) + e.rodata - 1)
Data(e) == DataAt(e)..(DataAt(e) + e.data - 1)

\* A program has text, and what is relocated lies in its data.
ASSUME LoaderAssumption ==
    /\ {LINK, PAGE, HEADER, WORDS, StaleBound, STACK_SIZE, STRLEN_NULL} \subseteq Nat \ {0}
    /\ Bases \subseteq Nat /\ ArgLengths \subseteq Nat
    /\ \A e \in Elfs :
          /\ e.text \in Nat \ {0} /\ {e.rodata, e.data, e.bss} \subseteq Nat
          /\ DOMAIN e.refs \subseteq Data(e) /\ e.refs \in [DOMAIN e.refs -> Nat]

ElfWord(e, a) == IF a \in DOMAIN e.refs THEN LINK + e.refs[a] ELSE -1 - a

-----------------------------------------------------------------------------
(* elf2bflt                                                                *)

\* Sections that are missing have offset 0, and the difference to
\* text_offset wraps around: the text then seems to end just below 2^32.
TextSegmentEnd(e) ==
    LET rodata_end == IF e.rodata = 0 THEN (0 - LINK) % WORDS
                      ELSE RodataAt(e) + e.rodata
        startup_end == (0 - LINK) % WORDS
    IN Max({HEADER + e.text, rodata_end, startup_end})

data_start(e) ==
    IF e.data = 0 THEN (HEADER + TextSegmentEnd(e)) % WORDS ELSE HEADER + DataAt(e)

bss_start(e) == HEADER + BssAt(e)

\* Fault: the addresses are left as the linker made them.
Written_linked(e, a) == ElfWord(e, a)

\* What it writes for address a: addresses in the data lose the offset.
Written(e, a) ==
    IF a \in DOMAIN e.refs THEN ElfWord(e, a) - LINK ELSE ElfWord(e, a)

\* In the order of the linker, whatever it is.
RelocSeq(e) == CHOOSE s \in Bijection(1..Cardinality(DOMAIN e.refs), DOMAIN e.refs) : TRUE

\* The whole file; what is skipped by lseek() reads as 0.  The relocations
\* begin where the bss does.
Contents(e) ==
    LET last == Max({HEADER + a + 1 : a \in Text(e) \union Ro(e) \union Data(e)})
        size == IF DOMAIN e.refs = {} THEN last
                ELSE bss_start(e) + Cardinality(DOMAIN e.refs)
    IN [i \in 0..(size - 1) |->
            CASE i - HEADER \in Text(e) \union Ro(e) \union Data(e) -> Written(e, i - HEADER)
              [] DOMAIN e.refs # {} /\ i >= bss_start(e) -> RelocSeq(e)[i - bss_start(e) + 1]
              [] OTHER -> 0]

elf2bflt ==
    /\ stage = "none"
    /\ \E e \in Elfs :
         /\ elf' = e
         /\ bflt' = [entry |-> HEADER, data_start |-> data_start(e),
                     bss_start |-> bss_start(e), bss_end |-> bss_start(e) + e.bss,
                     reloc_start |-> IF DOMAIN e.refs = {} THEN 0 ELSE bss_start(e),
                     reloc_count |-> Cardinality(DOMAIN e.refs),
                     file |-> Contents(e)]
    /\ stage' = "bflt"
    /\ UNCHANGED <<base, image, relocated, icache, argv>>

-----------------------------------------------------------------------------
(* execve()                                                                *)

ondisk_size  == bflt.bss_start - bflt.entry
program_size == bflt.bss_end - bflt.entry

Loaded == ondisk_size

\* bflt_load() and the allocation, which is zeroed; then one read.  Earlier
\* programs ran in this memory.
bflt_load ==
    /\ stage = "bflt"
    /\ base' \in Bases
    /\ icache' \in {{}, 0..(StaleBound - 1)}
    /\ image' = [a \in 0..(program_size - 1) |->
                   IF a < Loaded /\ bflt.entry + a \in DOMAIN bflt.file
                   THEN bflt.file[bflt.entry + a] ELSE 0]
    /\ stage' = "loaded"
    /\ UNCHANGED <<elf, bflt, relocated, argv>>

\* One turn of the loop of bflt_reloc().
bflt_reloc ==
    /\ stage = "loaded" /\ relocated < bflt.reloc_count
    /\ LET reloc_addr == bflt.file[bflt.reloc_start + relocated]
       IN image' = [image EXCEPT ![reloc_addr] = @ + base]
    /\ relocated' = relocated + 1
    /\ UNCHANGED <<stage, elf, bflt, base, icache, argv>>

\* The characters of the strings with their 0.
StringsSize(lengths) == FoldFunction(+, Len(lengths), lengths)

\* argv_length, in characters: the last of the strings is taken to be as long
\* as what argv[argc], which is NULL, points to.
argv_length(lengths) ==
    LET argc == Len(lengths)
        room == 4 * (argc + 1) + StringsSize(SubSeq(lengths, 1, argc - 1))
                  + STRLEN_NULL + 1
    IN ((room \div 8) + 1) * 8

\* The arguments of the shell, which lie one behind the other; copied behind
\* argc+2 pointers.
setup_argv(lengths) ==
    LET argc == Len(lengths)
        start == STACK_SIZE - argv_length(lengths)
    IN argv' = [lengths |-> lengths, start |-> start,
                end |-> start + 4 * (argc + 2) + StringsSize(lengths)]

\* flush_icache(), which is PageTable's.
text_flushed == icache' = {}

execve_start ==
    /\ stage = "loaded" /\ relocated = bflt.reloc_count
    /\ \E lengths \in UNION {[1..n -> ArgLengths] : n \in 1..2} : setup_argv(lengths)
    /\ text_flushed
    /\ stage' = "running"
    /\ UNCHANGED <<elf, bflt, base, image, relocated>>

LoaderInit ==
    /\ stage = "none"
    /\ elf = Elf(0, 0, 0, 0, <<>>)
    /\ bflt = [entry |-> 0]
    /\ base = 0
    /\ image = <<>>
    /\ relocated = 0
    /\ icache = {}
    /\ argv = [lengths |-> <<>>, start |-> 0, end |-> 0]

LoaderNext == elf2bflt \/ bflt_load \/ bflt_reloc \/ execve_start

LoaderSpec == LoaderInit /\ [][LoaderNext]_loader_vars

-----------------------------------------------------------------------------
(* Properties                                                              *)

\* A running program is what was linked, as if it had been linked for the
\* place where it is: addresses lead to the same words, nothing else changed,
\* the bss is 0 though the relocations lie in its place in the file; and the
\* processor does not execute what was there before.
ImageRight ==
    stage = "running" =>
        /\ DOMAIN image = 0..(End(elf) - 1)
        /\ \A a \in DOMAIN image :
             image[a] = CASE a \in DOMAIN elf.refs -> base + elf.refs[a]
                          [] a \in (Text(elf) \union Ro(elf) \union Data(elf)) \ DOMAIN elf.refs
                               -> ElfWord(elf, a)
                          [] OTHER -> 0
        /\ icache \cap {base + a : a \in DOMAIN image} = {}

=============================================================================
