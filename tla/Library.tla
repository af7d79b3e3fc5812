-------------------------------- MODULE Library --------------------------------
(***************************************************************************)
(* The rest of the C library that keeps a state: getopt(), the heap, and   *)
(* the streams of stdio.                                                   *)
(***************************************************************************)
EXTENDS Integers, Sequences, SequencesExt

-----------------------------------------------------------------------------
(***************************************************************************)
(* getopt() of the C library (userspace/vlibc/getopt.c): one call gives    *)
(* the next option of a command line and keeps its place in optind and     *)
(* optptr.                                                                 *)
(*                                                                         *)
(* A word is the sequence of its characters.  The command lines are those  *)
(* that say something: they are spelled from a list of options, in the     *)
(* ways an option and its argument can be put into words, and property     *)
(* OptionsRight is that the calls get the list back.                       *)
(***************************************************************************)

CONSTANTS
    Optional,      \* what may follow an option in its word, or be the next one
    Operands,      \* words that end the options
    MaxOptions     \* options of a command line

ASSUME OptionsAssumption == MaxOptions \in Nat /\ <<>> \notin Optional

VARIABLES
    argv,          \* the words, from index 0 of the C array on
    optstring,     \* how the options are declared
    meant,         \* what the command line says, and where its operands begin
    optind, optptr,\* the next word; the next character of it, or NoPtr
    results,       \* history: what the calls returned
    ended          \* a call returned -1

options_vars == <<argv, optstring, meant, optind, optptr, results, ended>>

NoPtr == <<0, 0>>
Null  == <<>>      \* optarg is NULL, for no argument is empty

-----------------------------------------------------------------------------
(* getopt().  argv[i] is word i + 1.                                       *)

argc == Len(argv)

\* Index of a character in the option string, and the characters after it.
Declared(ch)  == \E i \in DOMAIN optstring : optstring[i] = ch
Following(ch, k) ==
    LET i == CHOOSE j \in DOMAIN optstring : optstring[j] = ch
    IN IF i + k \in DOMAIN optstring THEN optstring[i + k] ELSE "end"

Here(ptr) == IF ptr[2] > Len(argv[ptr[1] + 1]) THEN "end" ELSE argv[ptr[1] + 1][ptr[2]]

Missing == IF optstring[1] = ":" THEN ":" ELSE "?"

\* What is returned and where optind and optptr are then, of an option that
\* takes an argument.
WithArgument(ch, ptr) ==
    LET after == <<ptr[1], ptr[2] + 1>>
        word == argv[ptr[1] + 1]
    IN IF Here(after) # "end"
       THEN [opt |-> ch, arg |-> SubSeq(word, after[2], Len(word)), next |-> optind]
       ELSE IF Following(ch, 2) = ":" THEN [opt |-> ch, arg |-> Null, next |-> optind]
       ELSE IF optind + 1 < argc
       THEN [opt |-> ch, arg |-> argv[optind + 2], next |-> optind + 1]
       ELSE [opt |-> Missing, arg |-> Null, next |-> optind + 1]

\* Past an option without an argument.
Advance(ptr) ==
    LET after == <<ptr[1], ptr[2] + 1>>
    IN optptr' = after /\ optind' = IF Here(after) = "end" THEN optind + 1 ELSE optind

getopt_option ==
    LET ptr == IF optptr = NoPtr \/ Here(optptr) = "end" THEN <<optind, 2>> ELSE optptr
        ch == Here(ptr)
    IN IF Declared(ch) /\ Following(ch, 1) = ":"
       THEN LET found == WithArgument(ch, ptr)
            IN /\ results' = Append(results, <<found.opt, found.arg>>)
               /\ optptr' = NoPtr /\ optind' = found.next + 1
       ELSE /\ results' = Append(results, <<IF Declared(ch) THEN ch ELSE "?", Null>>)
            /\ Advance(ptr)

\* The word is the first operand, or there is none.
Operand ==
    optind < argc => LET word == argv[optind + 1] IN word \in {<<>>, <<"-">>} \/ word[1] # "-"

Dashes == ~Operand /\ argv[optind + 1] = <<"-", "-">>

getopt ==
    /\ ~ended
    /\ \/ /\ (Operand \/ Dashes) = TRUE
          /\ optptr' = NoPtr /\ ended' = TRUE
          /\ optind' = IF Operand THEN optind ELSE optind + 1
          /\ UNCHANGED results
       \/ /\ (Operand \/ Dashes) = FALSE
          /\ getopt_option
          /\ UNCHANGED ended
    /\ UNCHANGED <<argv, optstring, meant>>

-----------------------------------------------------------------------------
(* Command lines.  Options a, b with an argument, c with one that may be   *)
(* left out, and z, which is not declared.                                 *)

Strings_ == {<<"a", "b", ":", "c", ":", ":">>, <<":", "b", ":", "c", ":", ":", "a">>}

\* An option, and how it is spelled: behind another one or in a word of its
\* own, its argument in the same word or in the next.
Spellings ==
    [opt : {"a", "z"}, arg : {Null}, grouped : BOOLEAN, apart : {FALSE}]
    \union [opt : {"b"}, arg : Optional, grouped : BOOLEAN, apart : BOOLEAN]
    \union [opt : {"c"}, arg : Optional \union {Null}, grouped : BOOLEAN, apart : {FALSE}]
    \union [opt : {"b"}, arg : {Null}, grouped : BOOLEAN, apart : {FALSE}]

Lists ==
    {list \in UNION {[1..n -> Spellings] : n \in 0..MaxOptions} :
        \A i \in DOMAIN list :
            /\ list[i].grouped => i > 1 /\ list[i - 1].opt \in {"a", "z"}
            /\ list[i].opt = "b" /\ list[i].arg = Null => i = Len(list)}

Spelled(words, item) ==
    LET own == IF item.apart THEN <<item.opt>> ELSE <<item.opt>> \o item.arg
        with == IF item.grouped
                THEN Append(Front(words), Last(words) \o own)
                ELSE Append(words, <<"-">> \o own)
    IN IF item.apart THEN Append(with, item.arg) ELSE with

Line(list) == FoldLeft(Spelled, <<<<"program">>>>, list)

\* What the calls have to return.
Says(list, declared) ==
    [i \in DOMAIN list |->
        <<CASE list[i].opt = "z" -> "?"
            [] list[i].opt = "b" /\ list[i].arg = Null ->
                  IF declared[1] = ":" THEN ":" ELSE "?"
            [] OTHER -> list[i].opt,
          list[i].arg>>]

Incomplete(list) == list # <<>> /\ Last(list).opt = "b" /\ Last(list).arg = Null

command_line ==
    /\ argv = <<>>
    /\ \E list \in Lists, declared \in Strings_, rest \in {<<>>} \union {<<word>> : word \in Operands} :
          LET words == Line(list)
              dashes == IF rest # <<>> /\ rest[1] = <<"-", "-">> THEN 1 ELSE 0
          IN /\ Incomplete(list) => rest = <<>>
             /\ argv' = words \o rest
             /\ optstring' = declared
             /\ meant' = [options |-> Says(list, declared),
                          operands |-> Len(words) + dashes + (IF Incomplete(list) THEN 1 ELSE 0)]
             /\ ended' = FALSE
    /\ UNCHANGED <<optind, optptr, results>>

OptionsInit ==
    /\ argv = <<>> /\ optstring = <<>> /\ meant = <<>>
    /\ optind = 1 /\ optptr = NoPtr /\ results = <<>> /\ ended = TRUE

OptionsNext == command_line \/ getopt

OptionsSpec == OptionsInit /\ [][OptionsNext]_options_vars

-----------------------------------------------------------------------------
(* Properties                                                              *)

\* getopt.c: the calls return the options that were meant, in their order
\* and with their arguments, however they were grouped and spelled, and
\* optind is then where the operands begin.
OptionsRight ==
    argv # <<>> =>
        /\ IsPrefix(results, meant.options)
        /\ ended => results = meant.options /\ optind = meant.operands

-----------------------------------------------------------------------------
(***************************************************************************)
(* malloc(), free(), calloc(), realloc() and strdup() of the C library     *)
(* (userspace/vlibc/malloc.c): a list of blocks that only grows; a block   *)
(* that was freed is given out again, whole.                               *)
(*                                                                         *)
(* A block is known by its place in the list, which is its place in        *)
(* memory: vmwos_malloc() (external) gives memory that nobody has.  Its    *)
(* failure is left out, bound MaxBlocks: the code takes it for a block at  *)
(* address 0.                                                              *)
(***************************************************************************)

CONSTANTS
    Contained,     \* what a program writes
    MaxSize,       \* bound: bytes of a request
    MaxBlocks,     \* bound: blocks that are asked of the kernel
    MaxHeld        \* bound: pointers a program holds

ASSUME HeapAssumption == MaxSize \in Nat /\ MaxBlocks \in Nat /\ MaxHeld \in Nat /\ 0 \in Contained

VARIABLES
    blocks,        \* the list from global_base: size, free and the bytes
    pointers       \* history: what the program has, and what must be there

heap_vars == <<blocks, pointers>>

NoBlock == 0

-----------------------------------------------------------------------------
(* The list of blocks                                                      *)

Fits(block, size) == block.free /\ block.size >= size

\* The first that fits.
find_free_block(list, size) ==
    SelectInSeq(list, LAMBDA block : Fits(block, size))

\* What new memory holds.
Garbage(size) == [i \in 1..size |-> CHOOSE byte \in Contained : byte # 0]

request_space(list, size) ==
    Append(list, [size |-> size, free |-> FALSE, data |-> Garbage(size)])

Taken(list, i) == [list EXCEPT ![i].free = FALSE]

\* The list and the block that malloc() returns.
malloc_(list, size) ==
    LET found == find_free_block(list, size)
    IN IF size = 0 THEN [list |-> list, block |-> NoBlock]
       ELSE IF found # 0 THEN [list |-> Taken(list, found), block |-> found]
       ELSE [list |-> request_space(list, size), block |-> Len(list) + 1]

Freed_(list, i) == [list EXCEPT ![i].free = TRUE]

\* The first bytes of a block are written.
Put(list, i, bytes) ==
    [list EXCEPT ![i].data = [k \in DOMAIN @ |-> IF k <= Len(bytes) THEN bytes[k] ELSE @[k]]]

-----------------------------------------------------------------------------
(* Calls                                                                   *)

Room(size) ==
    size = 0 \/ find_free_block(blocks, size) # 0 \/ Len(blocks) < MaxBlocks

Given(block, bytes) == IF block = NoBlock THEN pointers ELSE Append(pointers, [block |-> block, bytes |-> bytes])

\* The program fills what it gets.
malloc ==
    \E size \in 0..MaxSize, byte \in Contained :
       /\ Len(pointers) < MaxHeld /\ Room(size)
       /\ LET got == malloc_(blocks, size)
              bytes == [i \in 1..size |-> byte]
          IN /\ blocks' = IF got.block = NoBlock THEN got.list ELSE Put(got.list, got.block, bytes)
             /\ pointers' = Given(got.block, bytes)

calloc ==
    \E nmemb \in 0..MaxSize, size \in 1..MaxSize :
       /\ nmemb * size <= MaxSize
       /\ Len(pointers) < MaxHeld /\ Room(nmemb * size)
       /\ LET got == malloc_(blocks, nmemb * size)
              bytes == [i \in 1..(nmemb * size) |-> 0]
          IN /\ blocks' = IF got.block = NoBlock THEN got.list ELSE Put(got.list, got.block, bytes)
             /\ pointers' = Given(got.block, bytes)

\* Of a string the program holds, at the last byte of which is the 0.
strdup ==
    \E h \in DOMAIN pointers :
       LET length == SelectInSeq(pointers[h].bytes, LAMBDA byte : byte = 0) - 1
           string == SubSeq(pointers[h].bytes, 1, length)
       IN /\ length >= 0
          /\ Len(pointers) < MaxHeld /\ Room(length + 1)
          /\ LET got == malloc_(blocks, length + 1)
             IN /\ blocks' = Put(got.list, got.block, Append(string, 0))
                /\ pointers' = Given(got.block, Append(string, 0))

\* All bytes of the old block are copied, those the program did not ask for
\* too.
realloc ==
    \E h \in DOMAIN pointers, size \in 1..MaxSize :
       LET old == pointers[h].block
           kept == SubSeq(pointers[h].bytes, 1, IF size < Len(pointers[h].bytes) THEN size ELSE Len(pointers[h].bytes))
       IN IF blocks[old].size >= size
          THEN pointers' = [pointers EXCEPT ![h].bytes = kept] /\ UNCHANGED blocks
          ELSE /\ Room(size)
               /\ LET got == malloc_(blocks, size)
                  IN /\ blocks' = Freed_(Put(got.list, got.block, blocks[old].data), old)
                     /\ pointers' = [pointers EXCEPT ![h] = [block |-> got.block, bytes |-> kept]]

free ==
    \E h \in DOMAIN pointers :
       /\ blocks' = Freed_(blocks, pointers[h].block)
       /\ pointers' = RemoveAt(pointers, h)

HeapInit == blocks = <<>> /\ pointers = <<>>

HeapNext == malloc \/ calloc \/ strdup \/ realloc \/ free

HeapSpec == HeapInit /\ [][HeapNext]_heap_vars

-----------------------------------------------------------------------------
(* Properties                                                              *)

\* malloc.c: what a program holds is in blocks of its own that are large
\* enough and not free, and the bytes it wrote there are kept until it frees
\* them, through every realloc() too.
HeapRight ==
    /\ IsInjective([h \in DOMAIN pointers |-> pointers[h].block])
    /\ \A h \in DOMAIN pointers :
          /\ ~blocks[pointers[h].block].free
          /\ blocks[pointers[h].block].size >= Len(pointers[h].bytes)
          /\ IsPrefix(pointers[h].bytes, blocks[pointers[h].block].data)

-----------------------------------------------------------------------------
(***************************************************************************)
(* Streams of the C library (userspace/vlibc/stdio.c): a table of open     *)
(* files, characters and lines.                                            *)
(*                                                                         *)
(* A file is a sequence of characters.  open(), read() and close() are     *)
(* the kernel's and modelled as the code here uses them: the lowest free   *)
(* descriptor, one character at a time, and 0 at the end.  getdelim()      *)
(* is one step: between its reads nobody else touches its buffer; its      *)
(* memory is the heap's, so that growing keeps what was there.             *)
(***************************************************************************)

CONSTANTS
    Contents,      \* what files can hold: sequences of "x" and "nl"
    MAXFILES,      \* of the table, 16
    BUFSIZ,        \* of a new line buffer, 4096
    Descriptors,   \* that open() gives
    MaxOpens       \* bound: calls of fopen()

ASSUME LinesAssumption ==
    MAXFILES \in Nat /\ BUFSIZ \in Nat /\ BUFSIZ >= 2 /\ MaxOpens \in Nat /\ Descriptors \subseteq Nat

VARIABLES
    open_files,    \* slots: valid, fd and eof
    files,         \* descriptors that are open: what is left to read
    got,           \* history: per stream what the program read of it
    buffer,        \* per stream the size of its line buffer, 0 for NULL
    answer,        \* what the last call gave
    opened

lines_vars == <<open_files, files, got, buffer, answer, opened>>

Slots == 1..MAXFILES

NoAnswer == [text |-> <<>>, size |-> 0, writes |-> {}]

-----------------------------------------------------------------------------
(* Streams                                                                 *)

FreeSlots == {i \in Slots : ~open_files[i].valid}

LowestOf(S) == CHOOSE x \in S : \A y \in S : x <= y

\* open() fails when the file is not there, or no descriptor is left; the
\* slot is not taken then.
fopen ==
    /\ opened < MaxOpens
    /\ opened' = opened + 1
    /\ LET fds == Descriptors \ DOMAIN files
       IN IF FreeSlots = {} \/ fds = {}
          THEN UNCHANGED <<open_files, files, got, buffer>>
          ELSE \E content \in Contents :
                  LET i == LowestOf(FreeSlots)
                      fd == LowestOf(fds)
                  IN /\ open_files' = [open_files EXCEPT ![i] = [valid |-> TRUE, fd |-> fd, eof |-> FALSE]]
                     /\ files' = [d \in DOMAIN files \union {fd} |-> IF d = fd THEN content ELSE files[d]]
                     /\ got' = [got EXCEPT ![i] = [all |-> content, lines |-> <<>>]]
                     /\ buffer' = [buffer EXCEPT ![i] = 0]
    /\ answer' = NoAnswer

fclose ==
    \E i \in Slots :
       /\ open_files[i].valid
       /\ open_files' = [open_files EXCEPT ![i].valid = FALSE]
       /\ files' = [d \in DOMAIN files \ {open_files[i].fd} |-> files[d]]
       /\ got' = [got EXCEPT ![i] = [all |-> <<>>, lines |-> <<>>]]
       /\ answer' = NoAnswer
       /\ UNCHANGED <<buffer, opened>>

\* What is left of a stream, and after n characters of it.
LeftOf(i) == files[open_files[i].fd]
Taken_of(i, n) == [files EXCEPT ![open_files[i].fd] = IF n < Len(@) THEN SubSeq(@, n + 1, Len(@)) ELSE <<>>]

\* read() gives nothing at the end: eof, for feof().
AtEnd(i, n) == IF n >= Len(LeftOf(i)) THEN [open_files EXCEPT ![i].eof = TRUE] ELSE open_files

Read(i, text) == [got EXCEPT ![i].lines = IF text = <<>> THEN @ ELSE Append(@, text)]

fgetc ==
    \E i \in Slots :
       /\ open_files[i].valid
       /\ LET text == IF LeftOf(i) = <<>> THEN <<>> ELSE <<LeftOf(i)[1]>>
          IN /\ open_files' = AtEnd(i, 0)
             /\ files' = Taken_of(i, 1)
             /\ got' = Read(i, text)
             /\ answer' = [NoAnswer EXCEPT !.text = text]
       /\ UNCHANGED <<buffer, opened>>

-----------------------------------------------------------------------------
(* Lines                                                                   *)

LineEnd(s) == SelectInSeq(s, LAMBDA ch : ch = "nl")

\* Sizes of the buffer: it doubles when the next two characters may not fit.
\* ptr characters were put into it.
Grown(size, ptr) == IF ptr + 2 >= size THEN size * 2 ELSE size

\* The size of the buffer when n characters were put, the last of them a
\* delimiter or not.
SizeAfter(size, n, stopped) ==
    LET from[ptr \in 1..(n + 1), sz \in 1..(size * 2 ^ (n + 1))] ==
            IF ptr > n \/ (ptr = n /\ stopped) THEN sz ELSE from[ptr + 1, Grown(sz, ptr)]
    IN from[1, size]

\* getdelim(), with delimiter newline: the text and the 0 behind it.  At the
\* end of the file what was read is given without one; if that is nothing,
\* -1.  The writes are the indexes into a buffer of the size it had then.
getline ==
    \E i \in Slots :
       /\ open_files[i].valid
       /\ LET left == LeftOf(i)
              end == LineEnd(left)
              n == IF end # 0 THEN end ELSE Len(left)
              first == IF buffer[i] = 0 THEN BUFSIZ ELSE buffer[i]
              text == SubSeq(left, 1, n)
          IN /\ open_files' = IF end # 0 THEN open_files ELSE AtEnd(i, n)
             /\ files' = Taken_of(i, n)
             /\ got' = Read(i, text)
             /\ buffer' = [buffer EXCEPT ![i] = SizeAfter(first, n, end # 0)]
             /\ answer' =
                   [text |-> text, size |-> SizeAfter(first, n, end # 0),
                    writes |-> {<<k - 1, SizeAfter(first, k - 1, FALSE)>> : k \in 1..n}
                               \union (IF n = 0 THEN {} ELSE {<<n, SizeAfter(first, n, end # 0)>>})]
       /\ UNCHANGED opened

LinesInit ==
    /\ open_files = [i \in Slots |-> [valid |-> FALSE, fd |-> 0, eof |-> FALSE]]
    /\ files = [d \in {} |-> <<>>]
    /\ got = [i \in Slots |-> [all |-> <<>>, lines |-> <<>>]]
    /\ buffer = [i \in Slots |-> 0]
    /\ answer = NoAnswer /\ opened = 0

LinesNext == fopen \/ fclose \/ fgetc \/ getline

LinesSpec == LinesInit /\ [][LinesNext]_lines_vars

-----------------------------------------------------------------------------
(* Properties                                                              *)

\* stdio.c:137-199: what is read of a stream, taken together, is the file
\* up to where it was read, whoever reads other streams, and no two streams
\* share a descriptor.
StreamsApart ==
    \A i \in Slots : open_files[i].valid =>
        /\ FlattenSeq(got[i].lines) \o LeftOf(i) = got[i].all
        /\ \A j \in Slots \ {i} : open_files[j].valid => open_files[j].fd # open_files[i].fd
        /\ open_files[i].eof => LeftOf(i) = <<>>

\* stdio.c:137-199: a line has one newline, at its end, the last line of a
\* file may have none, and every write of getdelim(), the 0 too, is inside
\* the buffer as large as it was then.
LinesRight ==
    /\ StreamsApart
    /\ \A w \in answer.writes : w[1] < w[2]
    /\ answer.size # 0 => LineEnd(answer.text) \in {0, Len(answer.text)}

=============================================================================
