-------------------------------- MODULE Mounts --------------------------------
(***************************************************************************)
(* Block devices by name (kernel/drivers/block.c, ramdisk.c), the table of *)
(* mounted file systems (kernel/fs/superblock.c), and how a path finds its *)
(* file system and a process its current directory (inodes.c, files.c).    *)
(*                                                                         *)
(* A path is a sequence of characters, because the code compares prefixes  *)
(* of strings; a file system is a set of directories, each a sequence of   *)
(* names, and lies on one device.  A run starts as kernel_main() leaves    *)
(* the tables.  Nothing is ever unmounted.                                 *)
(***************************************************************************)
EXTENDS Integers, Sequences

CONSTANTS
    MAX_MOUNTS, DOS33_MAX_VTOCS,
    Devices,       \* the names of the block devices, in the order of the table
    FileSystem,    \* FileSystem[device]: "romfs" or "dos33fs"
    Directories,   \* Directories[device]: its directories
    Sources,       \* device names that mount() is given
    Targets,       \* mountpoints that mount() is given
    Asked,         \* paths that programs use
    MaxPath        \* bound on the length of the current directory

Slash == "/"
IsPrefixOf(a, b) == Len(a) <= Len(b) /\ SubSeq(b, 1, Len(a)) = a

\* The names in a path, empty ones too.
NamesIn[path \in Seq(STRING)] ==
    LET slashes == {k \in DOMAIN path : path[k] = Slash}
        first == CHOOSE k \in slashes : \A j \in slashes : k <= j
    IN IF slashes = {} THEN <<path>>
       ELSE <<SubSeq(path, 1, first - 1)>> \o NamesIn[SubSeq(path, first + 1, Len(path))]

\* What a path means to its reader: names, whatever the number of slashes.  A
\* character behind a slash begins a name, the others go on with the last one.
Longer(names, ch) == [names EXCEPT ![Len(names)] = Append(@, ch)]

Reading(path) ==
    LET read[k \in 0..Len(path)] ==
            IF k = 0 THEN [names |-> <<>>, begins |-> TRUE]
            ELSE IF path[k] = Slash THEN [names |-> read[k - 1].names, begins |-> TRUE]
            ELSE [names |-> IF read[k - 1].begins THEN Append(read[k - 1].names, <<path[k]>>)
                            ELSE Longer(read[k - 1].names, path[k]),
                  begins |-> FALSE]
    IN read[Len(path)]

Meaning(path) == Reading(path).names

ASSUME MountsAssumption ==
    /\ MAX_MOUNTS \in Nat /\ MAX_MOUNTS >= 2 /\ DOS33_MAX_VTOCS \in Nat \ {0}
    /\ Len(Devices) >= 2 /\ FileSystem[1] = "romfs" /\ FileSystem[2] = "dos33fs"
    /\ Targets \cup Asked \subseteq Seq(STRING) \ {<<>>}
    /\ \A target \in Targets : target[1] = Slash

VARIABLES
    mounted,      \* superblock_table[]: sequence of [device, mountpoint]
    vtocs,        \* next_vtoc
    current_dir,
    entered       \* the directory that the calls of chdir() have named

mount_vars == <<mounted, vtocs, current_dir, entered>>

UNUSABLE == 0    \* the device of a superblock whose mount() has failed

-----------------------------------------------------------------------------

\* block_dev_find(): the argument may be the beginning of a device's name.
block_dev_find(source) == {d \in DOMAIN Devices : IsPrefixOf(source, Devices[d])}

Holds(table, device, target) == Append(table, [device |-> device, mountpoint |-> target])

\* romfs has a magic number to look at, DOS 3.3 has not: a romfs image that is
\* mounted as dos33fs, which works until it is read, is left out.
mount_works(source, target, type) ==
    \E d \in block_dev_find(source) :
       /\ \A e \in block_dev_find(source) : d <= e
       /\ type = FileSystem[d]
       /\ type = "dos33fs" => vtocs < DOS33_MAX_VTOCS
       /\ Len(mounted) < MAX_MOUNTS
       /\ mounted' = Holds(mounted, d, target)
       /\ vtocs' = IF type = "dos33fs" THEN vtocs + 1 ELSE vtocs
       /\ UNCHANGED <<current_dir, entered>>

\* The superblock stays valid when no device has that name or the file system
\* is not found on it; its mountpoint is still the empty string.  A type that
\* the kernel does not know is -ENODEV, but gets the mountpoint.
mount_fails(source, target, type) ==
    LET found == {d \in block_dev_find(source) : \A e \in block_dev_find(source) : d <= e}
    IN /\ Len(mounted) < MAX_MOUNTS
       /\ \/ /\ \/ found = {}
                \/ type = "romfs" /\ \E d \in found : FileSystem[d] # type
                \/ type = "dos33fs" /\ found # {} /\ vtocs >= DOS33_MAX_VTOCS
             /\ mounted' = Holds(mounted, UNUSABLE, <<>>)
          \/ /\ type = "unknown" /\ found # {}
             /\ mounted' = Holds(mounted, UNUSABLE, target)
       /\ UNCHANGED <<vtocs, current_dir, entered>>

\* superblock_lookup(): the slots whose mountpoint is the root, and the others
\* whose mountpoint the path begins with.
Least(S) == CHOOSE k \in S : \A j \in S : k <= j
Roots == {k \in DOMAIN mounted : IsPrefixOf(mounted[k].mountpoint, <<Slash>>)}

Others == DOMAIN mounted \ {Least(Roots)}
Begun(path) == {k \in Others : IsPrefixOf(mounted[k].mountpoint, path)}

superblock_lookup(path) == IF Begun(path) # {} THEN Least(Begun(path)) ELSE Least(Roots)

\* Fault: relative paths begin at the root.
Full_root(path) == IF path[1] = Slash THEN path ELSE <<Slash>> \o path

Full(path) == IF path[1] = Slash THEN path ELSE current_dir \o <<Slash>> \o path

\* The rest of the path, without the slashes it begins with.
Bare[path \in Seq(STRING)] == IF path # <<>> /\ path[1] = Slash THEN Bare[Tail(path)] ELSE path
Rest(path) ==
    LET mountpoint == mounted[superblock_lookup(path)].mountpoint
    IN Bare[SubSeq(path, Len(mountpoint) + 1, Len(path))]

\* lookup_inode() of the file system: an empty name is in no directory.
IsDirectory(path) ==
    LET device == mounted[superblock_lookup(path)].device
    IN /\ device # UNUSABLE
       /\ Rest(path) = <<>> \/ NamesIn[Rest(path)] \in Directories[device]

\* The last slash goes, where the length is that of what the caller passed.
Stripped(path) ==
    LET full == Full(path)
    IN IF Len(path) > 1 /\ full[Len(path)] = Slash THEN SubSeq(full, 1, Len(path) - 1) ELSE full

\* A relative path may lose more than a slash at its end: the slash that is
\* found is then one in front of it, and the program is in another directory.
CutShort(path) == Len(Stripped(path)) < Len(Full(path)) - 1

chdir_syscall(path) ==
    /\ IsDirectory(Stripped(path))
    /\ Len(Stripped(path)) <= MaxPath
    /\ current_dir' = Stripped(path)
    /\ entered' = CASE CutShort(path) -> Meaning(Stripped(path))
                    [] path[1] = Slash -> Meaning(path)
                    [] OTHER -> entered \o Meaning(path)
    /\ UNCHANGED <<mounted, vtocs>>

MountsInit ==
    /\ mounted = <<[device |-> 1, mountpoint |-> <<Slash>>],
                   [device |-> 2, mountpoint |-> <<Slash, "m">>]>>
    /\ vtocs = 1
    /\ current_dir = <<Slash>> /\ entered = <<>>

MountsNext ==
    \/ \E s \in Sources, t \in Targets, y \in {"romfs", "dos33fs", "unknown"} :
         mount_works(s, t, y) \/ mount_fails(s, t, y)
    \/ \E p \in Asked : chdir_syscall(p)

MountsSpec == MountsInit /\ [][MountsNext]_mount_vars

-----------------------------------------------------------------------------
(* After a mount() that failed, every path that does not lie in an earlier *)
(* slot ends in a superblock without operations.  And mountpoints are      *)
(* compared as strings: what is said of lookups holds where no name of the *)
(* path goes on behind a mountpoint, and no two slashes follow each other. *)

Sound == \A k \in DOMAIN mounted : mounted[k].device # UNUSABLE

Clean(path) ==
    /\ \A k \in DOMAIN path : k > 1 => ~(path[k] = Slash /\ path[k - 1] = Slash)
    /\ \A k \in DOMAIN mounted :
         IsPrefixOf(mounted[k].mountpoint, path) =>
            IsPrefixOf(Meaning(mounted[k].mountpoint), Meaning(path))

\* The file systems that hold a path, by its names; none is mounted in another
\* one but the root's.
Holders(path) == {k \in DOMAIN mounted : IsPrefixOf(Meaning(mounted[k].mountpoint), Meaning(path))}
Flat == \A j, k \in DOMAIN mounted :
            j # k => \/ j = Least(Roots) /\ mounted[k].mountpoint # <<Slash>>
                     \/ ~IsPrefixOf(Meaning(mounted[j].mountpoint), Meaning(mounted[k].mountpoint))

\* A path is looked up in the file system mounted deepest along it; the
\* current directory is the one that the calls of chdir(), each relative to
\* the one before, have named.
MountsSound ==
    /\ Sound /\ Flat =>
         \A path \in {Full(p) : p \in Asked} :
            Clean(path) =>
                LET slot == superblock_lookup(path)
                IN /\ slot \in Holders(path)
                   /\ \A k \in Holders(path) :
                        Len(Meaning(mounted[k].mountpoint)) <= Len(Meaning(mounted[slot].mountpoint))
    /\ Meaning(current_dir) = entered

=============================================================================
