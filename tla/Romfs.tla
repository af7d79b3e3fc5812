--------------------------------- MODULE Romfs ---------------------------------
(***************************************************************************)
(* The read-only file system (kernel/fs/romfs/romfs.c), and the tool that  *)
(* makes its images (fstools/mkromfs.c).                                   *)
(*                                                                         *)
(* An image is its headers by their addresses: the next header of the      *)
(* directory, a type, a word of which a directory and a hard link have an  *)
(* address, the size and the name.  A name is <<who, length>>: it takes    *)
(* chunks of 16 bytes, the last of which ends with a 0.  Bytes of files    *)
(* are known by their addresses.  Checksums are not read by the kernel and *)
(* left out, and so is the byte order.                                     *)
(***************************************************************************)
EXTENDS Integers, Sequences, SequencesExt

CONSTANTS
    Images,           \* of genromfs: directories, links and all
    FileLists,        \* what mkromfs is given
    Paths,            \* that are looked up: sequences of names
    BufferSizes,      \* of getdents(), enough for any one entry
    Counts,           \* of read()
    MaxCalls          \* bound: calls

ASSUME RomfsAssumption == MaxCalls \in Nat /\ BufferSizes \subseteq Nat /\ Counts \subseteq Nat

VARIABLES
    image,            \* headers by address; at 0 the volume's name
    root_dir,
    found,            \* the last lookup: path and inode
    dir, progress,    \* the directory that is listed; current_progress
    listed, complete, \* history: what getdents() gave; it gave nothing
    again,            \* history: a listing that was complete began again
    file, offset, got,\* the file that is read, and what the last read gave
    rom_calls

romfs_vars == <<image, root_dir, found, dir, progress, listed, complete, again,
                file, offset, got, rom_calls>>

Header(next, type, spec, size, name) ==
    [next |-> next, type |-> type, spec |-> spec, size |-> size, name |-> name]

NoName  == <<"none", 0>>
Missing_inode == -1
Ended_list == -2      \* 0xffffffff

-----------------------------------------------------------------------------
(* mkromfs                                                                 *)

\* In chunks of 16, never less than one.
Chunks(length) == 16 * ((length \div 16) + 1)

\* Headers of "." and ".." and of the files.  The next header of a file is
\* left 0, whatever follows.
mkromfs(files) ==
    LET at[i \in 1..Len(files)] ==
            IF i = 1 THEN 96
            ELSE at[i - 1] + 16 + Chunks(files[i - 1].name[2]) + Chunks(files[i - 1].size)
        Made == {at[i] : i \in DOMAIN files}
    IN [a \in {0, 32, 64} \union Made |->
          CASE a = 0  -> Header(0, "volume", 0, 0, <<"VMWos", 5>>)
            [] a = 32 -> Header(64, "dir", 32, 0, <<".", 1>>)
            [] a = 64 -> Header(96, "link", 32, 0, <<"..", 2>>)
            [] OTHER  -> LET f == files[CHOOSE i \in DOMAIN files : at[i] = a]
                         IN Header(0, "file", 0, f.size, f.name)]

-----------------------------------------------------------------------------
(* Inodes: the addresses of headers                                        *)

\* Fault: links are taken for what they are.
Followed_not(i) == i

\* romfs_inode_follow_links()
Followed(i) ==
    LET from[a \in DOMAIN image] == IF image[a].type = "link" THEN from[image[a].spec] ELSE a
    IN from[i]

romfs_lookup_inode_dir(inode, name) ==
    LET from[a \in DOMAIN image] ==
            IF image[a].name = name THEN Followed(a)
            ELSE IF image[a].next = 0 THEN Missing_inode
            ELSE from[image[a].next]
    IN IF image[inode].type # "dir" THEN Missing_inode ELSE from[image[inode].spec]

romfs_lookup_inode(path) ==
    LET at[k \in 0..Len(path)] ==
            IF k = 0 THEN root_dir
            ELSE IF at[k - 1] = Missing_inode THEN Missing_inode
            ELSE romfs_lookup_inode_dir(at[k - 1], path[k])
    IN at[Len(path)]

romfs_read_inode(i) == [number |-> Followed(i), type |-> image[Followed(i)].type,
                        size |-> image[Followed(i)].size]

\* Where the bytes of a file are.
DataOf(i) == i + 16 + Chunks(image[i].name[2])

-----------------------------------------------------------------------------
(* Calls                                                                   *)

mount ==
    /\ root_dir = Missing_inode
    /\ image' \in Images \union {mkromfs(list) : list \in FileLists}
    /\ root_dir' = 16 + Chunks(image'[0].name[2])
    /\ UNCHANGED <<found, dir, progress, listed, complete, again, file, offset, got, rom_calls>>

Call_made == root_dir # Missing_inode /\ rom_calls < MaxCalls /\ rom_calls' = rom_calls + 1

\* A name is looked up; a directory is opened for getdents(), a file to be
\* read.
lookup ==
    /\ Call_made
    /\ \E path \in Paths :
          LET i == romfs_lookup_inode(path)
              inode == romfs_read_inode(i)
          IN IF i = Missing_inode
             THEN /\ found' = [path |-> path, inode |-> Missing_inode]
                  /\ UNCHANGED <<dir, progress, listed, complete, again, file, offset, got>>
             ELSE /\ found' = [path |-> path, inode |-> inode.number]
                  /\ IF inode.type = "dir"
                     THEN /\ dir' = inode.number /\ progress' = 0
                          /\ listed' = <<>> /\ complete' = FALSE /\ again' = FALSE
                          /\ UNCHANGED <<file, offset, got>>
                     ELSE /\ file' = inode.number /\ offset' = 0 /\ got' = {}
                          /\ UNCHANGED <<dir, progress, listed, complete, again>>
    /\ UNCHANGED <<image, root_dir>>

\* Three words, the name and its 0, in whole words.
EntrySize(length) == LET n == 12 + length + 1 IN 4 * ((n + 3) \div 4)

\* What fits; then where to go on.  Behind the last entry the header at
\* address 0 is looked at, and the end is only noted when its name, the
\* volume's, would fit too.
Listing(first, size) ==
    LET from[a \in DOMAIN image] == [room \in Int |->
            LET length == EntrySize(image[a].name[2])
                rest == from[image[a].next][room - length]
            IN IF length > room THEN [entries |-> <<>>, at |-> a]
               ELSE IF a = 0 THEN [entries |-> <<>>, at |-> Ended_list]
               ELSE [entries |-> <<a>> \o rest.entries, at |-> rest.at]]
    IN from[first][size]

romfs_getdents ==
    /\ dir # Missing_inode /\ ~complete /\ Call_made
    /\ \E size \in BufferSizes :
          LET result == Listing(IF progress = 0 THEN image[dir].spec ELSE progress, size)
          IN IF progress = Ended_list
             THEN complete' = TRUE /\ UNCHANGED <<progress, listed, again>>
             ELSE /\ progress' = result.at
                  /\ listed' = listed \o result.entries
                  /\ complete' = (result.entries = <<>>)
                  /\ again' = (again \/ result.at = 0)
    /\ UNCHANGED <<image, root_dir, found, dir, file, offset, got>>

\* The end of the file is kept to when the offset is not behind it.
romfs_read_file ==
    /\ file # Missing_inode /\ Call_made
    /\ \E count \in Counts :
          LET left == image[file].size - offset
              n == IF left >= 0 /\ count > left THEN left ELSE count
          IN /\ got' = (DataOf(file) + offset)..(DataOf(file) + offset + n - 1)
             /\ offset' = offset + n
    /\ UNCHANGED <<image, root_dir, found, dir, progress, listed, complete, again, file>>

llseek ==
    /\ file # Missing_inode /\ Call_made
    /\ offset' \in 0..image[file].size /\ got' = {}
    /\ UNCHANGED <<image, root_dir, found, dir, progress, listed, complete, again, file>>

RomfsInit ==
    /\ image = [a \in {0} |-> Header(0, "volume", 0, 0, NoName)] /\ root_dir = Missing_inode
    /\ found = [path |-> <<>>, inode |-> Missing_inode]
    /\ dir = Missing_inode /\ progress = 0 /\ listed = <<>> /\ complete = FALSE /\ again = FALSE
    /\ file = Missing_inode /\ offset = 0 /\ got = {} /\ rom_calls = 0

RomfsNext == mount \/ lookup \/ romfs_getdents \/ romfs_read_file \/ llseek

RomfsSpec == RomfsInit /\ [][RomfsNext]_romfs_vars

-----------------------------------------------------------------------------
(* Properties                                                              *)

\* Headers that can be reached from one: they are in every set that has it and
\* is not left.
Reached(a, step) ==
    {h \in DOMAIN step :
       \A S \in SUBSET DOMAIN step : a \in S /\ (\A g \in S : step[g] \in S) => h \in S}

Nexts == [a \in DOMAIN image |-> image[a].next]
Links == [a \in DOMAIN image |-> IF image[a].type = "link" THEN image[a].spec ELSE a]

InDirectory(d) == Reached(image[d].spec, Nexts) \ {0}

\* What a header stands for.
Target(a) == CHOOSE h \in Reached(a, Links) : image[h].type # "link"

\* romfs.c:275-380, 433-581: a path leads, directory by directory, to a
\* header of that name, through hard links to what they stand for; a listing
\* that has come to its end has each entry of the directory, once; what is
\* read is of the file.
RomfsSound ==
    /\ found.inode # Missing_inode =>
         /\ image[found.inode].type # "link"
         /\ found.path # <<>> =>
              LET parent == romfs_lookup_inode(Front(found.path))
              IN /\ image[parent].type = "dir"
                 /\ \E a \in InDirectory(parent) :
                       image[a].name = Last(found.path) /\ Target(a) = found.inode
    /\ found.inode = Missing_inode /\ found.path # <<>> =>
         LET parent == romfs_lookup_inode(Front(found.path))
         IN parent # Missing_inode /\ image[parent].type = "dir" =>
              \A a \in InDirectory(parent) : image[a].name # Last(found.path)
    /\ dir # Missing_inode /\ ~again =>
         /\ IsInjective(listed) /\ Range(listed) \subseteq InDirectory(dir)
         /\ complete => Range(listed) = InDirectory(dir)
    /\ file # Missing_inode =>
         got \subseteq DataOf(file)..(DataOf(file) + image[file].size - 1)

=============================================================================
