-------------------------------- MODULE Storage --------------------------------
(***************************************************************************)
(* The way from a path to bytes: the mounted file system that holds the    *)
(* path (Mounts), the read-only one of them (Romfs), in-core inodes and    *)
(* descriptors (Vfs), reading and writing through them, and the catalog of *)
(* a DOS 3.3 disk (Files); its sectors have modules of their own.  As in   *)
(* Platform the parts share no variable and a run is a run of one of them. *)
(***************************************************************************)
EXTENDS Vfs, Romfs, Mounts, Files

VARIABLE part

storage_vars == <<part, vars, romfs_vars, mount_vars, io_vars, catalog_vars>>

StorageInit ==
    /\ part \in {"vfs", "romfs", "mounts", "io", "catalog"}
    /\ Init /\ RomfsInit /\ MountsInit /\ FileIOInit /\ CatalogInit
    /\ part # "vfs" => entry = [n \in Entries |-> FREE]

Vfs_step     == part = "vfs" /\ Next
                /\ UNCHANGED <<romfs_vars, mount_vars, io_vars, catalog_vars>>
Romfs_step   == part = "romfs" /\ RomfsNext
                /\ UNCHANGED <<vars, mount_vars, io_vars, catalog_vars>>
Mounts_step  == part = "mounts" /\ MountsNext
                /\ UNCHANGED <<vars, romfs_vars, io_vars, catalog_vars>>
FileIO_step  == part = "io" /\ FileIONext
                /\ UNCHANGED <<vars, romfs_vars, mount_vars, catalog_vars>>
Catalog_step == part = "catalog" /\ CatalogNext
                /\ UNCHANGED <<vars, romfs_vars, mount_vars, io_vars>>

StorageNext ==
    /\ Vfs_step \/ Romfs_step \/ Mounts_step \/ FileIO_step \/ Catalog_step
    /\ UNCHANGED part

StorageSpec == StorageInit /\ [][StorageNext]_storage_vars

-----------------------------------------------------------------------------

\* Each says of its part's states what its module says.

\* romfs.c:275-380, 433-581: paths lead to the headers they name, listings are
\* complete, reads are of the file.
RomfsRight == part = "romfs" => RomfsSound

\* superblock.c:45-143, files.c:502-562: a path is looked up in the file system
\* mounted deepest along it, also a relative one.
MountsRight == part = "mounts" => MountsSound

\* dos33fs.c:775-939: a read delivers what the file holds from its offset on.
ReadsRight == part = "io" => ReadsSound

\* dos33fs.c:291-389, 557-712, 939-1224: names are told apart, a listing is
\* of the files there are, and what is kept on the disk about a file is what
\* its users said.  Files of other kinds, names that begin other names, and
\* listings in parts are not included: there the code does otherwise.
CatalogRight == part = "catalog" => NamesRight /\ ListingRight /\ InodesRight

=============================================================================
