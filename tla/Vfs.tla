--------------------------------- MODULE Vfs ---------------------------------
(***************************************************************************)
(* Open files: the descriptor tables of the processes, file_objects[] of   *)
(* kernel/fs/files.c, inodes[] of kernel/fs/inodes.c, and the catalog of   *)
(* the mounted DOS 3.3 disk as far as names and inode numbers go.          *)
(*                                                                         *)
(* A file has one catalog entry, which is both its inode number and its    *)
(* name.  File contents, offsets, flags and modes are left out; so is the  *)
(* read-only romfs, on which creating fails like on a full catalog.        *)
(* Paths are single names, none a prefix of another.  System calls that    *)
(* look up a path and free the inode again (stat, chmod, chdir, statfs,    *)
(* truncate64) leave this state as it was, and so do lookups that fail:    *)
(* for a single name, what a slot that is not in use holds is never read.  *)
(***************************************************************************)
EXTENDS Integers, FiniteSets

CONSTANTS
    Proc, Init0,       \* the PCBs, and the one of the first process
    NULL,
    MAX_FD_PER_PROC, MAX_OPEN_FILES, NUM_INODES,
    Specials,          \* descriptors that file_special() sets up: 3
    MAX_ENTRIES,       \* entries of the catalog
    Names,             \* names of files
    Root,              \* the root directory, as a name and as a number
    CONSOLE,           \* the number of a file_special() inode
    V,                 \* what memset(inode,'V') leaves behind
    FREE, UNLINKED,    \* catalog entries 0 or 0xff, and 0xfe
    MaxLeak,           \* bound: an inode with this many users is not leaked
    Liberties          \* "dup2_misuse": dup2() of a closed descriptor or
                       \* onto itself

ASSUME VfsAssumption ==
    /\ IsFiniteSet(Proc) /\ Init0 \in Proc
    /\ {MAX_FD_PER_PROC, MAX_OPEN_FILES, NUM_INODES, MAX_ENTRIES, Specials,
        MaxLeak} \subseteq Nat
    /\ Specials <= MAX_FD_PER_PROC
    /\ Specials <= MAX_OPEN_FILES
    /\ Specials <= NUM_INODES
    /\ NULL \notin Int /\ V \notin Int /\ Root \notin Int /\ CONSOLE \notin Int
    /\ V \notin {Root, CONSOLE}
    /\ Names \cap {FREE, UNLINKED, Root} = {} /\ FREE # UNLINKED
    /\ Liberties \subseteq {"dup2_misuse"}

VARIABLES
    live,           \* PCBs in use
    files,          \* files[<<p, fd>>]: index of a file object, or NULL
    file_count, file_inode,                   \* file_objects[]
    inode_count, inode_number, hard_links,    \* inodes[]
    entry,          \* the catalog: a name, FREE or UNLINKED
    denotes         \* the number of the file each descriptor was opened on

inodeVars == <<inode_count, inode_number, hard_links>>
vars == <<live, files, file_count, file_inode, inode_count, inode_number,
          hard_links, entry, denotes>>

FDs     == 0..(MAX_FD_PER_PROC - 1)
Refs    == Proc \X FDs
Files   == 0..(MAX_OPEN_FILES - 1)
Inodes  == 0..(NUM_INODES - 1)
Entries == 0..(MAX_ENTRIES - 1)
Numbers == Entries \cup {Root, CONSOLE}

Lowest(S) == CHOOSE x \in S : \A y \in S : x <= y
Minus(a, b) == IF a > b THEN a - b ELSE 0

\* map_fd_to_file()
Mapped(p, fd) == files[<<p, fd>>] # NULL /\ file_count[files[<<p, fd>>]] > 0

-----------------------------------------------------------------------------
(* inodes.c                                                                *)

FreeInodes == {i \in Inodes : inode_count[i] = 0}

\* inode_lookup_and_alloc() of a file that exists: the lowest slot with its
\* number, where the temporary inode has it too.
InCore(n) == Lowest({i \in Inodes : inode_number[i] = n} \cup {Lowest(FreeInodes)})

\* The number that the path leads to.
Lookup(name, n) ==
    \/ name = Root /\ n = Root
    \/ n \in Entries /\ entry[n] = name

Exists(name) == name = Root \/ \E n \in Entries : entry[n] = name

\* The inode i with number n gets a user; a new one is read from disk.
Acquire(i, n, links) ==
    /\ inode_count' = [inode_count EXCEPT ![i] = @ + 1]
    /\ inode_number' = [inode_number EXCEPT ![i] = n]
    /\ hard_links' = [hard_links EXCEPT ![i] = IF inode_count[i] = 0 THEN links ELSE @]

\* inode_free() of the inodes whose count goes to 0: unlinked files are
\* destroyed, the slot is overwritten.
Cleared(gone) ==
    /\ inode_number' = [i \in Inodes |-> IF i \in gone THEN V ELSE inode_number[i]]
    /\ hard_links' = [i \in Inodes |-> IF i \in gone THEN V ELSE hard_links[i]]
    /\ entry' = [n \in Entries |->
                    IF \E i \in gone : hard_links[i] = 0 /\ inode_number[i] = n
                    THEN FREE ELSE entry[n]]

-----------------------------------------------------------------------------
(* files.c                                                                 *)

FreeFiles == {o \in Files : file_count[o] = 0}

RefsTo(refs, o) == {r \in refs : files[r] = o}
RefsIn(refs, i) == {r \in refs : files[r] # NULL /\ file_inode[files[r]] = i}

\* file_object_free() for each of the descriptors refs: the counts.
FilesFreed(refs)  == [o \in Files |-> Minus(file_count[o], Cardinality(RefsTo(refs, o)))]
InodesFreed(refs) == [i \in Inodes |-> Minus(inode_count[i], Cardinality(RefsIn(refs, i)))]
InodesGone(refs)  == {i \in Inodes : inode_count[i] > 0 /\ InodesFreed(refs)[i] = 0}

close_syscall(p, fd) ==
    LET refs == {<<p, fd>>}
    IN /\ Mapped(p, fd)
       /\ file_count' = FilesFreed(refs)
       /\ inode_count' = InodesFreed(refs)
       /\ Cleared(InodesGone(refs))
       /\ files' = [files EXCEPT ![<<p, fd>>] = NULL]
       /\ denotes' = [denotes EXCEPT ![<<p, fd>>] = CONSOLE]
       /\ UNCHANGED <<live, file_inode>>

\* file_object_allocate(), and the descriptor that open_syscall() sets up for
\* it; without a free file object the inode is not given back.
OpenFile(p, fd, i, n) ==
    \/ LET o == Lowest(FreeFiles)
       IN /\ FreeFiles # {}
          /\ file_count' = [file_count EXCEPT ![o] = 1]
          /\ file_inode' = [file_inode EXCEPT ![o] = i]
          /\ files' = [files EXCEPT ![<<p, fd>>] = o]
          /\ denotes' = [denotes EXCEPT ![<<p, fd>>] = n]
    \/ /\ FreeFiles = {} /\ inode_count[i] < MaxLeak
       /\ UNCHANGED <<file_count, file_inode, files, denotes>>

\* open() takes the lowest descriptor that is not in use.
FreeFDs(p) == {fd \in FDs : files[<<p, fd>>] = NULL}

open_existing(p, name) ==
    /\ FreeFDs(p) # {} /\ FreeInodes # {}
    /\ \E n \in Numbers :
         /\ Lookup(name, n)
         /\ Acquire(InCore(n), n, 1)
         /\ OpenFile(p, Lowest(FreeFDs(p)), InCore(n), n)
    /\ UNCHANGED <<live, entry>>

\* create_file_object(): the directory's inode dir and a new one.  The new
\* one has two hard links: dos33_read_inode() sets 1, dos33fs_link_inode()
\* adds one.
DirInode == InCore(Root)
NewInode == Lowest(FreeInodes \ {DirInode})
FreeEntries == {n \in Entries : entry[n] = FREE}

open_creat(p, name) ==
    /\ FreeFDs(p) # {} /\ ~Exists(name) /\ FreeInodes # {}
    /\ FreeInodes \ {DirInode} # {} /\ FreeEntries # {}
    /\ LET n == Lowest(FreeEntries)
       IN /\ entry' = [entry EXCEPT ![n] = name]
          /\ IF inode_count[DirInode] = 0
             THEN \* the directory's slot is free again
                  /\ inode_count' = [inode_count EXCEPT ![NewInode] = 1]
                  /\ inode_number' = [inode_number EXCEPT ![NewInode] = n, ![DirInode] = V]
                  /\ hard_links' = [hard_links EXCEPT ![NewInode] = 2, ![DirInode] = V]
             ELSE Acquire(NewInode, n, 2)
          /\ OpenFile(p, Lowest(FreeFDs(p)), NewInode, n)
    /\ UNCHANGED live

\* create_file_object() that fails: neither the directory's inode nor the new
\* one, whose number is not set, is given back.
open_creat_fails(p, name) ==
    /\ FreeFDs(p) # {} /\ ~Exists(name) /\ FreeInodes # {}
    /\ FreeInodes \ {DirInode} = {} \/ FreeEntries = {}
    /\ inode_count[DirInode] < MaxLeak
    /\ LET taken == {DirInode} \cup
                    (IF FreeInodes \ {DirInode} = {} THEN {} ELSE {NewInode})
       IN inode_count' = [i \in Inodes |->
                            IF i \in taken THEN inode_count[i] + 1 ELSE inode_count[i]]
    /\ inode_number' = [inode_number EXCEPT ![DirInode] = Root]
    /\ hard_links' = [hard_links EXCEPT ![DirInode] = IF inode_count[DirInode] = 0 THEN 1 ELSE @]
    /\ UNCHANGED <<live, files, file_count, file_inode, entry, denotes>>

\* execve() opens the program and closes it when it is loaded; without a free
\* file object the inode is not given back.
execve(name) ==
    /\ FreeInodes # {}
    /\ \E n \in Numbers :
         /\ Lookup(name, n)
         /\ LET i == InCore(n)
            IN \/ /\ FreeFiles # {}
                  /\ file_inode' = [file_inode EXCEPT ![Lowest(FreeFiles)] = i]
                  /\ IF inode_count[i] = 0
                     THEN /\ inode_number' = [inode_number EXCEPT ![i] = V]
                          /\ hard_links' = [hard_links EXCEPT ![i] = V]
                     ELSE UNCHANGED <<inode_number, hard_links>>
                  /\ UNCHANGED inode_count
               \/ /\ FreeFiles = {} /\ inode_count[i] < MaxLeak
                  /\ Acquire(i, n, 1)
                  /\ UNCHANGED file_inode
    /\ UNCHANGED <<live, files, file_count, entry, denotes>>

\* unlink(): the entry is UNLINKED until the last user is gone, which may be
\* at once.
unlink_syscall(name) ==
    /\ FreeInodes # {}
    /\ \E n \in Entries :
         /\ entry[n] = name
         /\ LET i == InCore(n)
            IN IF inode_count[i] = 0
               THEN /\ entry' = [entry EXCEPT ![n] = FREE]
                    /\ inode_number' = [inode_number EXCEPT ![i] = V]
                    /\ hard_links' = [hard_links EXCEPT ![i] = V]
               ELSE /\ entry' = [entry EXCEPT ![n] = UNLINKED]
                    /\ hard_links' = [hard_links EXCEPT ![i] = @ - 1]
                    /\ UNCHANGED inode_number
    /\ UNCHANGED <<live, files, file_count, file_inode, inode_count, denotes>>

\* Fault: dup2() does not count the new user.
DupUser_none(o) == 0

\* files_increment_count() of the one new user.
DupUser(o) == 1

\* Has the program the right to call dup2(old, new)?
MayDup2(p, old, new) == "dup2_misuse" \in Liberties \/ (old # new /\ Mapped(p, old))

\* dup2(): what new was is closed first; then old is looked at.
dup2_syscall(p, old, new) ==
    LET refs == IF files[<<p, new>>] = NULL THEN {} ELSE {<<p, new>>}
        o    == files[<<p, old>>]
        ok   == o # NULL /\ FilesFreed(refs)[o] > 0
    IN /\ MayDup2(p, old, new)
       /\ files[<<p, new>>] # NULL => Mapped(p, new)
       /\ Cleared(InodesGone(refs))
       /\ \/ /\ ok
             /\ file_count' = [FilesFreed(refs) EXCEPT ![o] = @ + DupUser(o)]
             /\ inode_count' = [InodesFreed(refs) EXCEPT ![file_inode[o]] = @ + DupUser(o)]
             /\ files' = [files EXCEPT ![<<p, new>>] = o]
             /\ denotes' = [denotes EXCEPT ![<<p, new>>] = denotes[<<p, old>>]]
          \/ /\ ~ok
             /\ file_count' = FilesFreed(refs)
             /\ inode_count' = InodesFreed(refs)
             /\ UNCHANGED <<files, denotes>>
       /\ UNCHANGED <<live, file_inode>>

-----------------------------------------------------------------------------
(* Processes                                                               *)

Own(p) == {r \in Refs : r[1] = p}

\* The child's descriptors that lead to file object o, and to inode i.
CopiedTo(p, q, o) == {r \in Own(q) : files[<<p, r[2]>>] = o}
CopiedIn(p, q, i) ==
    {r \in Own(q) : files[<<p, r[2]>>] # NULL /\ file_inode[files[<<p, r[2]>>]] = i}

\* Fault: a file that is open twice is counted once.
CopiedUsers_once(p, q, o) == IF CopiedTo(p, q, o) = {} THEN 0 ELSE 1

\* files_increment_count() once for each descriptor.
CopiedUsers(p, q, o) == Cardinality(CopiedTo(p, q, o))

vfork(p, q) ==
    /\ q \notin live
    /\ live' = live \cup {q}
    /\ files' = [r \in Refs |-> IF r[1] = q THEN files[<<p, r[2]>>] ELSE files[r]]
    /\ denotes' = [r \in Refs |-> IF r[1] = q THEN denotes[<<p, r[2]>>] ELSE denotes[r]]
    /\ file_count' = [o \in Files |-> file_count[o] + CopiedUsers(p, q, o)]
    /\ inode_count' = [i \in Inodes |-> inode_count[i] + Cardinality(CopiedIn(p, q, i))]
    /\ UNCHANGED <<file_inode, inode_number, hard_links, entry>>

\* process_destroy(); the next process_create() clears the descriptors.
process_destroy(p) ==
    /\ p # Init0
    /\ live' = live \ {p}
    /\ file_count' = FilesFreed(Own(p))
    /\ inode_count' = InodesFreed(Own(p))
    /\ Cleared(InodesGone(Own(p)))
    /\ files' = [r \in Refs |-> IF r[1] = p THEN NULL ELSE files[r]]
    /\ denotes' = [r \in Refs |-> IF r[1] = p THEN CONSOLE ELSE denotes[r]]
    /\ UNCHANGED file_inode

-----------------------------------------------------------------------------
\* start_userspace(): file_special() of the first descriptors; any files may
\* be on the disk, no two of the same name.  A slot that was never used
\* leads to no file, like a cleared one.
Init ==
    /\ live = {Init0}
    /\ files = [r \in Refs |-> IF r[1] = Init0 /\ r[2] < Specials THEN r[2] ELSE NULL]
    /\ file_count = [o \in Files |-> IF o < Specials THEN 1 ELSE 0]
    /\ file_inode = [o \in Files |-> IF o < Specials THEN o ELSE NULL]
    /\ inode_count = [i \in Inodes |-> IF i < Specials THEN 1 ELSE 0]
    /\ inode_number = [i \in Inodes |-> IF i < Specials THEN CONSOLE ELSE V]
    /\ hard_links = [i \in Inodes |-> IF i < Specials THEN 1 ELSE V]
    /\ entry \in [Entries -> Names \cup {FREE}]
    /\ \A m, n \in Entries : entry[m] = entry[n] /\ m # n => entry[m] = FREE
    /\ denotes = [r \in Refs |-> CONSOLE]

Next ==
    \/ \E p \in live, name \in Names \cup {Root} : open_existing(p, name)
    \/ \E p \in live, name \in Names : open_creat(p, name) \/ open_creat_fails(p, name)
    \/ \E p \in live, fd \in FDs : close_syscall(p, fd)
    \/ \E p \in live, old, new \in FDs : dup2_syscall(p, old, new)
    \/ \E name \in Names : unlink_syscall(name) \/ execve(name)
    \/ \E p \in live, q \in Proc : vfork(p, q)
    \/ \E p \in live : process_destroy(p)

Spec == Init /\ [][Next]_vars

-----------------------------------------------------------------------------
(* Properties                                                              *)

TypeOK ==
    /\ live \subseteq Proc
    /\ files \in [Refs -> Files \cup {NULL}]
    /\ file_count \in [Files -> Nat]
    /\ file_inode \in [Files -> Inodes \cup {NULL}]
    /\ inode_count \in [Inodes -> Nat]
    /\ inode_number \in [Inodes -> Numbers \cup {V}]
    /\ hard_links \in [Inodes -> Int \cup {V}]
    /\ entry \in [Entries -> Names \cup {FREE, UNLINKED}]
    /\ denotes \in [Refs -> Numbers]

\* No descriptor refers to a file object or, through it, to an inode that may
\* be given to somebody else: the counts cover all users.
NoDangling ==
    /\ \A o \in Files : Cardinality(RefsTo(Refs, o)) <= file_count[o]
    /\ \A i \in Inodes : Cardinality(RefsIn(Refs, i)) <= inode_count[i]

\* A descriptor denotes the file it was opened on, whatever is opened,
\* closed, duplicated, inherited and reused in between.
FdDenotes ==
    \A r \in Refs : files[r] # NULL =>
        /\ file_inode[files[r]] # NULL
        /\ inode_number[file_inode[files[r]]] = denotes[r]

\* The catalog has no name twice.
NamesUnique ==
    \A m, n \in Entries : entry[m] = entry[n] /\ entry[m] \in Names => m = n

-----------------------------------------------------------------------------
(* What the code claims and does not do                                    *)

\* kernel/include/fs/inodes.h: count is the "total users of this" inode.  A
\* file is not destroyed while a descriptor denotes it.
OpenKept ==
    \A r \in Refs : files[r] # NULL /\ denotes[r] \in Entries
                    => entry[denotes[r]] # FREE

=============================================================================
