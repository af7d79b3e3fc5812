-------------------------------- MODULE Files ---------------------------------
(***************************************************************************)
(* Files of the DOS 3.3 disk, above the sectors of module Dos33: reading   *)
(* and writing through file objects, and the catalog that names the files. *)
(***************************************************************************)
EXTENDS Integers, Sequences, SequencesExt, FiniteSetsExt, TLC

-----------------------------------------------------------------------------
(***************************************************************************)
(* Reading and writing through file objects: read(), write(), lseek() and  *)
(* ftruncate() of kernel/fs/files.c on regular files of the DOS 3.3 disk,  *)
(* with the loop over sectors of dos33fs_read_file().                      *)
(*                                                                         *)
(* A file object is shared by the descriptors that vfork() and dup2() made *)
(* of one open(), so any process may use it; several objects may be open   *)
(* on one file.  What writing does to the bytes of a file is what module   *)
(* FileStore says, which Dos33 implements; here a file is its bytes, each  *)
(* of them the number of the write that wrote it, or 0.  Files of more     *)
(* than one T/S list are left to Dos33.                                    *)
(***************************************************************************)

CONSTANTS
    Objects,         \* indices in file_objects[]
    BLOCK, ENTRIES,  \* DOS33_BLOCK_SIZE, DOS33_MAX_TS_ENTRIES
    Binary, Plain,   \* sets of files: with the ADDR/LEN header, and without
    ADDR_LEN,        \* the length of that header
    Amounts,         \* bytes that a call asks for
    Goals,           \* offsets that lseek() is told
    MaxWrites        \* bound on the writes of a run

ASSUME FileIOAssumption ==
    /\ {BLOCK, ENTRIES} \subseteq Nat \ {0}
    /\ Amounts \subseteq Nat \ {0}
    /\ {ADDR_LEN, MaxWrites} \subseteq Nat /\ ADDR_LEN < BLOCK
    /\ Goals \subseteq Nat
    /\ Binary \cap Plain = {}

VARIABLES
    text,      \* the bytes of each file
    object,    \* [file, mode, offset], or closed
    delivered, \* the read just done: [file, offset, count, result, bytes]
    writes     \* writes so far

io_vars == <<text, object, delivered, writes>>

Modes == {"O_RDONLY", "O_WRONLY", "O_RDWR"}
closed == [mode |-> "closed"]
Open == {o \in Objects : object[o] # closed}
Nothing == [result |-> "none"]

Skip(f) == IF f \in Binary THEN ADDR_LEN ELSE 0
Capacity(f) == BLOCK * ENTRIES - Skip(f)

\* The byte at a place of the sectors; behind the end they hold zeros.
OnDisk(f, place) ==
    LET at == place - Skip(f) + 1 IN IF at \in DOMAIN text[f] THEN text[f][at] ELSE 0

-----------------------------------------------------------------------------
(* dos33fs_read_file()                                                     *)

\* What can be copied from one sector, from a byte in it on.
Room(from, left) == IF BLOCK - from > left THEN left ELSE BLOCK - from

\* The copy meets the end of the file, which ends the whole read.
Ends(f, sector, from, left) ==
    LET size == Len(text[f]) + Skip(f)
    IN sector = size \div BLOCK /\ from + Room(from, left) > size % BLOCK

\* The loop: from byte from of a sector on, left bytes.
Sectors_read(f) ==
    LET read[sector \in 0..ENTRIES] ==
            [from \in 0..(BLOCK - 1) |-> [left \in Nat |->
                LET n == IF Ends(f, sector, from, left)
                         THEN ((Len(text[f]) + Skip(f)) % BLOCK) - from ELSE Room(from, left)
                    here == [k \in 1..n |-> OnDisk(f, sector * BLOCK + from + k - 1)]
                IN IF sector >= ENTRIES \/ n = left \/ Ends(f, sector, from, left) THEN here
                   ELSE here \o read[sector + 1][0][left - n]]]
    IN read

\* Fault: the header is forgotten.
From_bare(f, offset) == offset

From(f, offset) == offset + Skip(f)

Bytes(f, offset, count) ==
    IF offset > Len(text[f]) THEN <<>>
    ELSE Sectors_read(f)[From(f, offset) \div BLOCK][From(f, offset) % BLOCK][count]

\* At the end of a file that fills its T/S list the walk goes on in the sector
\* behind the catalog's; if there is none the whole read is -ENOENT.
LeavesList(f, offset, count) ==
    /\ Len(text[f]) = Capacity(f)
    /\ offset <= Len(text[f])
    /\ offset + count > Len(text[f])

MayRead(o) == object[o].mode # "O_WRONLY"
MayWrite(o) == object[o].mode # "O_RDONLY"

read_syscall(o, count) ==
    LET f  == object[o].file
        at == object[o].offset
        Told(result, bytes) ==
            delivered' = [file |-> f, offset |-> at, count |-> count,
                          result |-> result, bytes |-> bytes]
    IN /\ \/ ~MayRead(o) /\ Told("EBADF", <<>>) /\ UNCHANGED object
          \/ /\ MayRead(o)
             /\ Told("ok", Bytes(f, at, count))
             /\ object' = [object EXCEPT ![o].offset = @ + Len(Bytes(f, at, count))]
          \/ /\ MayRead(o) /\ LeavesList(f, at, count)
             /\ Told("ENOENT", <<>>) /\ UNCHANGED object
       /\ UNCHANGED <<text, writes>>

-----------------------------------------------------------------------------

Zeros_to(bytes, n) == bytes \o [k \in 1..(n - Len(bytes)) |-> 0]

\* The file grows first, with holes, if the write ends behind its end.
Overwritten(bytes, at, count, with) ==
    LET grown == IF at + count > Len(bytes) THEN Zeros_to(bytes, at + count) ELSE bytes
    IN [k \in 1..Len(grown) |-> IF k > at /\ k <= at + count THEN with ELSE grown[k]]

write_syscall(o, count) ==
    LET f  == object[o].file
        at == object[o].offset
    IN /\ MayWrite(o) /\ writes < MaxWrites
       /\ at + count <= Capacity(f)
       /\ writes' = writes + 1
       /\ text' = [text EXCEPT ![f] = Overwritten(@, at, count, writes + 1)]
       /\ object' = [object EXCEPT ![o].offset = @ + count]
       /\ delivered' = Nothing

\* llseek_generic(): the offset is not compared with anything; SEEK_END is
\* -ENOSYS.  Offsets below 0, which are huge ones, are left out.
llseek_syscall(o, to, whence) ==
    LET offset == IF whence = "SEEK_SET" THEN to ELSE object[o].offset + to
    IN /\ offset \in 0..(BLOCK * ENTRIES + 1)
       /\ object' = [object EXCEPT ![o].offset = offset]
       /\ delivered' = Nothing
       /\ UNCHANGED <<text, writes>>

\* truncate_inode() makes it shorter, or longer with zeros.
ftruncate64_syscall(o, size) ==
    LET f == object[o].file
    IN /\ MayWrite(o) /\ size <= Capacity(f)
       /\ text' = [text EXCEPT ![f] = IF size < Len(@) THEN SubSeq(@, 1, size)
                                     ELSE Zeros_to(@, size)]
       /\ delivered' = Nothing
       /\ UNCHANGED <<object, writes>>

open_syscall(o, f, mode, truncates, appends) ==
    LET bytes == IF truncates THEN <<>> ELSE text[f]
    IN /\ object[o] = closed
       /\ text' = [text EXCEPT ![f] = bytes]
       /\ object' = [object EXCEPT ![o] = [file |-> f, mode |-> mode,
                                           offset |-> IF appends THEN Len(bytes) ELSE 0]]
       /\ delivered' = Nothing
       /\ UNCHANGED writes

\* F_SETFL replaces all the flags, the access mode with them: a file that was
\* opened for reading may be written afterwards, for every descriptor of it.
fcntl_syscall(o, flags) ==
    /\ object' = [object EXCEPT ![o].mode = flags]
    /\ delivered' = Nothing
    /\ UNCHANGED <<text, writes>>

\* close() of the last descriptor that shares the object.
close_last(o) ==
    /\ object' = [object EXCEPT ![o] = closed]
    /\ delivered' = Nothing
    /\ UNCHANGED <<text, writes>>

FileIOInit ==
    /\ text = [f \in Binary \cup Plain |-> <<>>]
    /\ object = [o \in Objects |-> closed]
    /\ delivered = Nothing
    /\ writes = 0

FileIONext ==
    \/ \E o \in Open, n \in Amounts : read_syscall(o, n) \/ write_syscall(o, n)
    \/ \E o \in Open, g \in Goals : \/ llseek_syscall(o, g, "SEEK_SET")
                                   \/ llseek_syscall(o, g, "SEEK_CUR")
                                   \/ llseek_syscall(o, -g, "SEEK_CUR")
    \/ \E o \in Open, g \in Goals : ftruncate64_syscall(o, g)
    \/ \E o \in Objects, f \in Binary \cup Plain, m \in Modes, t, a \in BOOLEAN :
         /\ (t \/ a) => m # "O_RDONLY"
         /\ open_syscall(o, f, m, t, a)
    \/ \E o \in Open, flags \in Modes : fcntl_syscall(o, flags)
    \/ \E o \in Open : close_last(o)

FileIOSpec == FileIOInit /\ [][FileIONext]_io_vars

-----------------------------------------------------------------------------

\* A read delivers what the file holds from the object's offset on, as much as
\* was asked for and there is: the loop of dos33fs_read_file() over sectors,
\* with the header of binary files, the last partial sector and offsets behind
\* the end.  Only the file that fills its T/S list may end in -ENOENT.
ReadsSound ==
    delivered.result \in {"ok", "ENOENT"} =>
        LET whole == text[delivered.file]
            to == IF delivered.offset + delivered.count < Len(whole)
                  THEN delivered.offset + delivered.count ELSE Len(whole)
        IN IF delivered.result = "ok"
           THEN delivered.bytes = SubSeq(whole, delivered.offset + 1, to)
           ELSE Len(whole) = Capacity(delivered.file) /\ to = Len(whole)

-----------------------------------------------------------------------------
(***************************************************************************)
(* The catalog of a DOS 3.3 disk (kernel/fs/dos33fs/dos33fs.c): what names *)
(* its entries have and how they are looked up, listed by getdents(), made *)
(* and unlinked, and the mode and the size that an entry and the first     *)
(* data sector of its file hold.  Sectors and their contents are Dos33's.  *)
(*                                                                         *)
(* Entries are numbered through the chain of catalog sectors, PerSector in *)
(* each; the disk's one directory is its first sector.  A name on the disk *)
(* is NameSize characters, padded with BLANK (0xa0); of an entry that was  *)
(* unlinked the last one is overwritten with the track ("t").  Names that  *)
(* users give are short sequences; a path is a sequence of names.  An      *)
(* operation is a system call from path to disk (kernel/fs/inodes.c,       *)
(* kernel/fs/files.c); an in-core inode is kept while the file is open.    *)
(***************************************************************************)

CONSTANTS
    CatalogSectors,   \* in the chain
    PerSector,        \* DOS33_CAT_MAX_ENTRIES
    NameSize,         \* DOS33_MAX_FILENAME_SIZE
    GivenNames,       \* that files are given and looked up by
    FirstCatalogs,    \* a disk has at the start: sequences of [name, kind, locked, size]
    FileSizes,        \* of truncate()
    DirentSizes,      \* of getdents()'s buffer
    MaxCatalogCalls   \* bound: calls

ASSUME CatalogAssumption ==
    /\ CatalogSectors \in Nat \ {0} /\ PerSector \in Nat \ {0} /\ NameSize \in Nat \ {0}
    /\ MaxCatalogCalls \in Nat /\ FileSizes \subseteq Nat /\ DirentSizes \subseteq Nat

Slots == 1..(CatalogSectors * PerSector)

VARIABLES
    catalog,          \* by entry: [track, name, kind, locked, length]
    stored_size,      \* by entry: the size in its first data sector
    in_core,          \* inodes of open files, by entry
    answer,           \* what the last stat() said
    listing,          \* current_progress of an open directory, what the last call gave
    wanted,           \* history: the size and the mode that an entry was given
    odd,              \* history: a name was too long, or ended with a blank
    catalog_calls

catalog_vars == <<catalog, stored_size, in_core, answer, listing, wanted, odd, catalog_calls>>

Called_catalog == catalog_calls < MaxCatalogCalls /\ catalog_calls' = catalog_calls + 1

No_slot == -1
End_of_catalog == -2      \* 0xffffffff
BlockSize_disk == 256

-----------------------------------------------------------------------------
(* Names                                                                   *)

SectorOf(e) == (e - 1) \div PerSector
FirstOf(s) == s * PerSector + 1

BLANK == "blank"

\* dos33fs_link_inode(): padded and with the high bits set.
Padded(name) == [k \in 1..NameSize |-> IF k <= Len(name) THEN name[k] ELSE BLANK]

\* Without the blanks at the end, and the high bits cleared.
Stripped_name(name) ==
    LET n == CHOOSE n \in 0..Len(name) :
                 /\ n > 0 => name[n] # BLANK
                 /\ \A k \in (n + 1)..Len(name) : name[k] = BLANK
    IN SubSeq(name, 1, n)

\* Fault: entries that were unlinked are still found.
Skipped_deleted(track) == track \in {"zero", "deleted"}

Skipped(track) == track \in {"zero", "deleted", "unlinked"}

\* dos33fs_find_filename(), in the directory that begins with sector s.  The
\* name that is looked for is compared as far as it goes.
Found_name(s, name) ==
    LET fits == {e \in Slots : /\ e >= FirstOf(s) /\ ~Skipped(catalog[e].track)
                               /\ IsPrefix(name, Stripped_name(catalog[e].name))}
    IN IF fits = {} THEN No_slot ELSE Min(fits)

\* dos33fs_lookup_inode(): 0 is the root.  "." and ".." are where they are
\* looked for, and so is a name that begins one of them: the empty one.  A
\* file is a directory of the files from its own sector on.
Looked_up(path) ==
    LET at[k \in 0..Len(path)] ==
            IF k = 0 THEN 0
            ELSE IF at[k - 1] = No_slot THEN No_slot
            ELSE IF IsPrefix(path[k], <<".", ".">>) THEN at[k - 1]
            ELSE Found_name(IF at[k - 1] = 0 THEN 0 ELSE SectorOf(at[k - 1]), path[k])
    IN at[Len(path)]

-----------------------------------------------------------------------------
(* Inodes                                                                  *)

\* dos33_get_filesize(): by the kind of the file.
SizeOnDisk(e) ==
    CASE catalog[e].kind \in {"I", "A"} -> stored_size[e] + 2
      [] catalog[e].kind = "B" -> stored_size[e]
      [] OTHER -> 0

\* dos33_read_inode()
Read_inode(e) ==
    [size |-> SizeOnDisk(e), writable |-> ~catalog[e].locked, links |-> 1,
     executable |-> catalog[e].kind = "B", blocks |-> catalog[e].length]

\* inode_lookup_and_alloc(): the one in core, if there is one.
Inode_of(e) == IF e \in DOMAIN in_core THEN in_core[e].inode ELSE Read_inode(e)

\* Of the size the remainder is taken.
LengthOf(size) ==
    LET n == (size % BlockSize_disk) + 1
    IN 1 + (IF n > 12 THEN n + 1 ELSE n)

\* dos33fs_write_inode() with dos33_set_filesize(): what the entry and the
\* data sector have afterwards.
Written_entry(e, inode) ==
    [catalog[e] EXCEPT !.locked = ~inode.writable, !.length = LengthOf(inode.size)]
Written_size(e, inode) == IF catalog[e].kind = "T" THEN stored_size[e] ELSE inode.size

\* The inodes in core afterwards.
Opened_inode(e, inode) ==
    [f \in DOMAIN in_core \union {e} |-> IF f = e THEN [inode |-> inode] ELSE in_core[f]]
Kept_in_core(e, inode) ==
    IF e \in DOMAIN in_core THEN [in_core EXCEPT ![e].inode = inode] ELSE in_core

\* dos33fs_destroy_inode() of an entry c: truncated, and marked as deleted.
Destroyed(c, inode) ==
    [c EXCEPT !.track = "deleted", !.length = IF inode.size # 0 THEN LengthOf(0) ELSE @,
              !.locked = IF inode.size # 0 THEN ~inode.writable ELSE @]

Unlinked_entry(c) == [c EXCEPT !.track = "unlinked", !.name = [@ EXCEPT ![NameSize] = "t"]]

-----------------------------------------------------------------------------
(* System calls                                                            *)

\* open() with O_CREAT of a name that is not found: dos33fs_make_inode() and
\* dos33fs_link_inode(), by a process that keeps it open or not.  A name that
\* is too long leaves the entry, with the name that it had.
creat ==
    /\ Called_catalog
    /\ \E name \in GivenNames, keep \in BOOLEAN :
          LET free == {e \in Slots : catalog[e].track \in {"zero", "deleted"}}
              e == Min(free)
              long == Len(name) > NameSize
              made == [catalog[e] EXCEPT !.track = "track", !.kind = "B", !.locked = FALSE,
                                         !.name = IF long THEN @ ELSE Padded(name)]
          IN /\ Looked_up(<<name>>) = No_slot /\ free # {}
             /\ catalog' = [catalog EXCEPT ![e] = made]
             /\ stored_size' = [stored_size EXCEPT ![e] = 0]
             /\ in_core' = IF keep /\ ~long
                           THEN Opened_inode(e, [size |-> 0, writable |-> TRUE, links |-> 2,
                                                 executable |-> TRUE, blocks |-> made.length])
                           ELSE in_core
             /\ wanted' = [wanted EXCEPT ![e] = [size |-> 0, writable |-> TRUE]]
             /\ odd' = (odd \/ long \/ Last(name) = BLANK)
    /\ UNCHANGED <<answer, listing>>

\* open() of a file that is there, and is not open.
open_found ==
    /\ Called_catalog
    /\ \E name \in GivenNames :
          LET e == Looked_up(<<name>>)
          IN /\ e # No_slot /\ e \notin DOMAIN in_core
             /\ in_core' = Opened_inode(e, Read_inode(e))
    /\ UNCHANGED <<catalog, stored_size, answer, listing, wanted, odd>>

\* unlink(): the file is destroyed with its last inode.
unlink ==
    /\ Called_catalog
    /\ \E name \in GivenNames :
          LET e == Looked_up(<<name>>)
              inode == [Inode_of(e) EXCEPT !.links = @ - 1]
              open == e \in DOMAIN in_core
          IN /\ e # No_slot
             /\ catalog' = [catalog EXCEPT ![e] =
                               IF open THEN Unlinked_entry(@)
                               ELSE Destroyed(Unlinked_entry(@), inode)]
             /\ stored_size' = IF ~open /\ inode.size # 0 /\ catalog[e].kind # "T"
                               THEN [stored_size EXCEPT ![e] = 0] ELSE stored_size
             /\ in_core' = Kept_in_core(e, inode)
    /\ UNCHANGED <<answer, listing, wanted, odd>>

close_file ==
    /\ Called_catalog
    /\ \E e \in DOMAIN in_core :
          LET inode == in_core[e].inode
              gone == inode.links = 0
          IN /\ in_core' = [f \in DOMAIN in_core \ {e} |-> in_core[f]]
             /\ catalog' = IF gone THEN [catalog EXCEPT ![e] = Destroyed(@, inode)] ELSE catalog
             /\ stored_size' = IF gone /\ inode.size # 0 /\ catalog[e].kind # "T"
                               THEN [stored_size EXCEPT ![e] = 0] ELSE stored_size
    /\ UNCHANGED <<answer, listing, wanted, odd>>

chmod ==
    /\ Called_catalog
    /\ \E name \in GivenNames, writable \in BOOLEAN :
          LET e == Looked_up(<<name>>)
              inode == [Inode_of(e) EXCEPT !.writable = writable]
          IN /\ e # No_slot
             /\ catalog' = [catalog EXCEPT ![e] = Written_entry(e, inode)]
             /\ stored_size' = [stored_size EXCEPT ![e] = Written_size(e, inode)]
             /\ in_core' = Kept_in_core(e, inode)
             /\ wanted' = [wanted EXCEPT ![e].writable = writable]
    /\ UNCHANGED <<answer, listing, odd>>

\* truncate(): shrinks, grows or neither, and writes the inode in any case.
truncate64 ==
    /\ Called_catalog
    /\ \E name \in GivenNames, size \in FileSizes :
          LET e == Looked_up(<<name>>)
              inode == [Inode_of(e) EXCEPT !.size = size]
          IN /\ e # No_slot
             /\ catalog' = [catalog EXCEPT ![e] = Written_entry(e, inode)]
             /\ stored_size' = [stored_size EXCEPT ![e] = Written_size(e, inode)]
             /\ in_core' = Kept_in_core(e, inode)
             /\ wanted' = [wanted EXCEPT ![e].size = size]
    /\ UNCHANGED <<answer, listing, odd>>

stat ==
    /\ Called_catalog
    /\ \E name \in GivenNames :
          LET e == Looked_up(<<name>>)
          IN answer' = IF e = No_slot THEN [entry |-> e]
                       ELSE [entry |-> e, inode |-> Inode_of(e)]
    /\ UNCHANGED <<catalog, stored_size, in_core, listing, wanted, odd>>

-----------------------------------------------------------------------------
(* getdents()                                                              *)

\* Three words and the name with its 0, in whole words.
DirentSize(length) == 4 * ((12 + length + 1 + 3) \div 4)

\* One turn of the loop over the entries of sector s, with entry number i, the
\* entries being read from the sector's first: acc is what there is so far, the
\* length of the entry that was looked at last and the inode number.
Next_entry(size, at) ==
    LET e == FirstOf(at.s) + at.i
        read == catalog[e - at.first]
        name == Stripped_name(read.name)
        length == DirentSize(Len(name))
        here == [at.acc EXCEPT !.at = e]
    IN IF at.done THEN at
       ELSE IF at.i = PerSector
       THEN IF at.acc.length + at.acc.total > size THEN [at EXCEPT !.done = TRUE]
            ELSE IF at.s + 1 = CatalogSectors
            THEN [at EXCEPT !.done = TRUE, !.acc.at = End_of_catalog]
            ELSE [at EXCEPT !.s = @ + 1, !.first = 0, !.i = 0]
       ELSE IF Skipped(read.track) THEN [at EXCEPT !.i = @ + 1, !.acc = here]
       ELSE IF length + at.acc.total > size
       THEN [at EXCEPT !.done = TRUE, !.acc = [here EXCEPT !.length = length]]
       ELSE [at EXCEPT !.i = @ + 1,
                       !.acc = [here EXCEPT !.length = length, !.total = @ + length,
                                            !.entries = Append(@, [name |-> name, number |-> e])]]

\* The loop, for as long as it can go on.
Listed_from(sector, begin, size, acc) ==
    LET turn[n \in Nat] ==
            IF n = 0 THEN [s |-> sector, first |-> begin, i |-> begin, acc |-> acc, done |-> FALSE]
            ELSE Next_entry(size, turn[n - 1])
    IN turn[CatalogSectors * (PerSector + 1)].acc

\* dos33fs_getdents(); the two entries that are made up come first.
Getdents(progress_, size) ==
    LET made_up == DirentSize(1) + DirentSize(2)
        start == [total |-> 0, length |-> 0, at |-> 0, entries |-> <<>>]
    IN CASE progress_ = End_of_catalog -> [start EXCEPT !.at = End_of_catalog]
         [] progress_ = 0 /\ made_up > size -> start    \* -E2BIG
         [] progress_ = 0 /\ made_up <= size ->
                Listed_from(0, 0, size, [start EXCEPT !.total = made_up, !.length = DirentSize(2)])
         [] OTHER ->
                LET s == SectorOf(progress_) i == (progress_ - 1) % PerSector
                IN Listed_from(s, i, size, start)

getdents_catalog ==
    /\ Called_catalog
    /\ \E size \in DirentSizes :
          LET given == Getdents(listing.progress, size)
          IN listing' = [progress |-> given.at, entries |-> given.entries, size |-> size]
    /\ UNCHANGED <<catalog, stored_size, in_core, answer, wanted, odd>>

\* The directory is opened, again.
open_directory ==
    /\ Called_catalog /\ listing.progress # 0
    /\ listing' = [progress |-> 0, entries |-> <<>>, size |-> 0]
    /\ UNCHANGED <<catalog, stored_size, in_core, answer, wanted, odd>>

Blank_entry == [track |-> "zero", name |-> Padded(<<>>), kind |-> "T", locked |-> FALSE, length |-> 0]

CatalogInit ==
    /\ \E files \in FirstCatalogs :
          /\ catalog = [e \in Slots |->
                IF e \notin DOMAIN files THEN Blank_entry
                ELSE [track |-> "track", name |-> Padded(files[e].name), kind |-> files[e].kind,
                      locked |-> files[e].locked, length |-> 2]]
          /\ stored_size = [e \in Slots |-> IF e \in DOMAIN files THEN files[e].size ELSE 0]
          /\ wanted = [e \in Slots |->
                IF e \in DOMAIN files
                THEN [size |-> files[e].size, writable |-> ~files[e].locked]
                ELSE [size |-> 0, writable |-> TRUE]]
    /\ in_core = [e \in {} |-> <<>>]
    /\ answer = [entry |-> No_slot]
    /\ listing = [progress |-> 0, entries |-> <<>>, size |-> 0]
    /\ odd = FALSE /\ catalog_calls = 0

CatalogNext ==
    \/ creat \/ open_found \/ unlink \/ close_file \/ chmod \/ truncate64 \/ stat
    \/ getdents_catalog \/ open_directory

CatalogSpec == CatalogInit /\ [][CatalogNext]_catalog_vars

-----------------------------------------------------------------------------
(* Properties                                                              *)

Linked == {e \in Slots : catalog[e].track = "track"}
NameOf(e) == Stripped_name(catalog[e].name)

\* The file that a name is found to be has it, or one that begins with it; a
\* file's own name finds it unless a file in front of it is found by it.
NamesRight ==
    /\ \A name \in GivenNames :
          Looked_up(<<name>>) # No_slot =>
             Looked_up(<<name>>) \in Linked /\ IsPrefix(name, NameOf(Looked_up(<<name>>)))
    /\ \A e \in Linked :
          NameOf(e) # <<>> /\ (\A f \in Linked : f < e => ~IsPrefix(NameOf(e), NameOf(f))) =>
             Looked_up(<<NameOf(e)>>) = e
    /\ \A name \in GivenNames, dots \in {<<>>, <<".">>, <<".", ".">>} :
          Looked_up(<<dots, name>>) = Looked_up(<<name>>)
    /\ ~odd => \A e, f \in Linked : NameOf(e) = NameOf(f) => e = f

\* A buffer with room for all entries and one more of the largest size gets
\* all of them, each with its name and its number, in their order, and the end.
\* RoomTo[e] is what the entries up to e take.
RoomTo[e \in 0..(CatalogSectors * PerSector)] ==
    IF e = 0 THEN DirentSize(1) + DirentSize(2)
    ELSE RoomTo[e - 1] + (IF e \in Linked THEN DirentSize(Len(NameOf(e))) ELSE 0)

ListingRight ==
    \A size \in DirentSizes :
       size >= RoomTo[CatalogSectors * PerSector] + DirentSize(NameSize) =>
          LET given == Getdents(0, size)
          IN /\ Range(given.entries) = {[name |-> NameOf(e), number |-> e] : e \in Linked}
             /\ \A j, k \in DOMAIN given.entries :
                  j < k => given.entries[j].number < given.entries[k].number
             /\ given.at = End_of_catalog

\* A binary file has the size that it was given last, through every chmod()
\* and whoever has it open; every file has the mode it was given.
InodesRight ==
    \A e \in Linked :
       /\ Inode_of(e).writable = wanted[e].writable
       /\ Read_inode(e).writable = wanted[e].writable
       /\ catalog[e].kind = "B" => Inode_of(e).size = wanted[e].size /\ Read_inode(e).size = wanted[e].size

=============================================================================
