--------------------------------- MODULE Dos33 ---------------------------------
(***************************************************************************)
(* The DOS 3.3 file system, kernel/fs/dos33fs/dos33fs.c, below the names:  *)
(* the bitmap of free sectors, the track/sector list of each file, and the *)
(* operations that create, write, resize, unlink and destroy files.        *)
(*                                                                         *)
(* A sector is its number, as ts() computes it; 0 is the null pointer of   *)
(* T/S lists and means a hole in the file.  Files have type B, which is    *)
(* what dos33fs_make_inode() gives them: an ADDR/LEN header of HEADER      *)
(* bytes comes first.  The length in the header and inode->size are one    *)
(* variable: who changes one calls dos33fs_write_inode() for the other.    *)
(* The VTOC in memory is the VTOC; the disk is a ramdisk and is lost with  *)
(* it.  Reading is the operator Unit, which the refinement reads files by. *)
(***************************************************************************)
EXTENDS Integers, FiniteSets

CONSTANTS
    TRACKS, SECTORS,    \* tracks of the disk, sectors of a track
    VTOC_TRACK,         \* the track of the VTOC and the catalog
    NEXT_CATALOG,       \* the catalog sector behind the one with the entries
    BLOCK_SIZE, HEADER,
    MAX_TS_ENTRIES,     \* data sectors in a T/S list
    Entries,            \* catalog entries, in the order they are looked at
    Values,             \* bytes that programs write, without 0
    MaxSize,            \* bound: size of a file
    MaxCount,           \* bound: bytes in a write
    NULL,
    Liberties           \* "long_files": files that need two T/S lists

ASSUME Dos33Assumption ==
    /\ {TRACKS, SECTORS, BLOCK_SIZE, HEADER, MAX_TS_ENTRIES} \subseteq Nat \ {0}
    /\ VTOC_TRACK \in 0..(TRACKS - 1)
    /\ NEXT_CATALOG \in {0} \cup (VTOC_TRACK * SECTORS)..((VTOC_TRACK + 1) * SECTORS - 1)
    /\ HEADER < BLOCK_SIZE
    /\ Entries \subseteq Nat
    /\ Values \subseteq Nat
    /\ {MaxSize, MaxCount} \subseteq Nat
    /\ MaxSize + HEADER < 2 * MAX_TS_ENTRIES * BLOCK_SIZE
    /\ NULL \notin Nat
    /\ Liberties \subseteq {"long_files"}

ASSUME NullAssumption ==
    \A n \in 0..MaxSize : NULL \notin [0..(n - 1) -> Values \cup {0}]

VARIABLES
    state,      \* of each catalog entry: free, linked (named) or unlinked
    list,       \* the sector of the entry's first T/S list
    second,     \* the sector that list continues in
    sector_of,  \* sector_of[<<e, k>>]: the data sectors in entry e's list
    data,       \* contents of the data sectors
    size,       \* inode->size
    free,       \* the bitmap of the VTOC
    last_track, direction,   \* where the allocator goes on
    job,        \* what dos33fs_write_file() has still to write
    stuck       \* "full", "astray": the two ways the code loses control

vars == <<state, list, second, sector_of, data, size, free, last_track,
          direction, job, stuck>>

HOLE    == 0
Sectors == 0..(TRACKS * SECTORS - 1)
get_t(s) == s \div SECTORS
Available == {s \in Sectors : get_t(s) \notin {0, VTOC_TRACK}}

Positions == 0..(MAX_TS_ENTRIES - 1)
Places    == Entries \X Positions
Offsets   == 0..(BLOCK_SIZE - 1)
Zeros     == [o \in Offsets |-> 0]

\* The sector of a file that has the byte after its first n, and its place
\* in that sector.
Which(n)  == (n + HEADER) \div BLOCK_SIZE
Offset(n) == (n + HEADER) % BLOCK_SIZE

-----------------------------------------------------------------------------
(* The free sectors                                                        *)

Steps(a, b) == IF a < b THEN b - a ELSE a - b

\* dos33_allocate_sector() looks for a free sector from the last track in the
\* last direction, then from the VTOC's track to the other end, then back.
Leg(t, lt, dir) ==
    IF (IF dir = 1 THEN t >= lt ELSE t <= lt) THEN 0
    ELSE IF (IF dir = 1 THEN t <= VTOC_TRACK ELSE t >= VTOC_TRACK) THEN 1 ELSE 2

Rank(s, lt, dir) ==
    LET t == get_t(s)
        l == Leg(t, lt, dir)
    IN (l * TRACKS + Steps(IF l = 0 THEN lt ELSE VTOC_TRACK, t)) * SECTORS + (s % SECTORS)

Turned(s, lt, dir) == IF Leg(get_t(s), lt, dir) = 1 THEN -dir ELSE dir

\* The sector that is found in the bitmap f.
Found(f, lt, dir, s) ==
    /\ s \in f
    /\ \A u \in f : Rank(s, lt, dir) <= Rank(u, lt, dir)

\* Fault: the sector found is not marked as used.
Allocated_unmarked(s) ==
    /\ Found(free, last_track, direction, s)
    /\ last_track' = get_t(s)
    /\ direction' = Turned(s, last_track, direction)
    /\ UNCHANGED free

Allocated(s) ==
    /\ Found(free, last_track, direction, s)
    /\ free' = free \ {s}
    /\ last_track' = get_t(s)
    /\ direction' = Turned(s, last_track, direction)

vtocVars == <<free, last_track, direction>>

\* With no free sector the scan never ends: -ENOSPC is only returned if debug
\* is set.  What the call has done to the file by then is left out.
Fills ==
    /\ stuck' = "full"
    /\ UNCHANGED <<state, list, second, sector_of, data, size, vtocVars, job>>

\* The walk along a file's T/S lists takes the pointer to the next one from
\* the sector it has read before; at the first step that is the catalog's.
SecondRead(e) == NEXT_CATALOG

\* What the code does to the disk, when it goes on with a sector that is not
\* the file's second list, is not modelled.
GoesAstray(e) ==
    /\ SecondRead(e) # second[e]
    /\ stuck' = "astray"
    /\ UNCHANGED <<state, list, second, sector_of, data, size, vtocVars, job>>

-----------------------------------------------------------------------------
(* Files                                                                   *)

Exists(e) == state[e] # "free"
Ready == stuck = NULL /\ job = NULL

\* May a file have n bytes?
MayHave(n) == n <= MaxSize /\ (Which(n) < MAX_TS_ENTRIES \/ "long_files" \in Liberties)

\* dos33fs_make_inode(): the first free entry, a sector for the T/S list, a
\* data sector for the header.
make_inode(e) ==
    /\ Ready /\ ~Exists(e) /\ \A f \in Entries : f < e => Exists(f)
    /\ \/ \E s, d \in free :
            /\ Found(free, last_track, direction, s)
            /\ Found(free \ {s}, get_t(s), Turned(s, last_track, direction), d)
            /\ free' = free \ {s, d}
            /\ last_track' = get_t(d)
            /\ direction' = Turned(d, get_t(s), Turned(s, last_track, direction))
            /\ list' = [list EXCEPT ![e] = s]
            /\ second' = [second EXCEPT ![e] = HOLE]
            /\ sector_of' = [p \in Places |-> IF p[1] # e THEN sector_of[p]
                                              ELSE IF p[2] = 0 THEN d ELSE HOLE]
            /\ data' = [data EXCEPT ![d] = Zeros]
            /\ size' = [size EXCEPT ![e] = 0]
            /\ state' = [state EXCEPT ![e] = "linked"]
            /\ UNCHANGED <<job, stuck>>
       \/ Cardinality(free) < 2 /\ Fills

\* Does a file that grows to n bytes come to the end of its T/S list?
NextList(e, n) == Which(size[e]) < MAX_TS_ENTRIES /\ Which(n) >= MAX_TS_ENTRIES

\* dos33fs_grow_file(e, n): a new T/S list if the old one ends before n.
Grown(e, n) ==
    /\ \/ /\ ~NextList(e, n)
          /\ UNCHANGED <<second, vtocVars>>
       \/ /\ NextList(e, n)
          /\ \E s \in free : Allocated(s) /\ second' = [second EXCEPT ![e] = s]
    /\ size' = [size EXCEPT ![e] = n]
    /\ UNCHANGED <<state, list, sector_of, data, stuck>>

GrowsAstray(e, n) == Which(size[e]) >= MAX_TS_ENTRIES /\ Which(n) # Which(size[e])
GrowFills(e, n) == NextList(e, n) /\ free = {}

\* Fault: the sector the file ends in keeps the bytes behind the end.
Cut_dropped_only(e, n) ==
    [s \in Available |-> [o \in Offsets |->
        IF \E k \in Positions : sector_of[<<e, k>>] = s /\ k > Which(n)
        THEN 0 ELSE data[s][o]]]

\* dos33fs_shrink_file(): what is behind the new end is zeroed.
Cut(e, n) ==
    [s \in Available |-> [o \in Offsets |->
        IF \E k \in Positions : /\ sector_of[<<e, k>>] = s
                               /\ k * BLOCK_SIZE + o >= n + HEADER
        THEN 0 ELSE data[s][o]]]

\* The positions whose sectors are freed: those with no byte of the file.
Dropped(n) == {k \in Positions : k * BLOCK_SIZE >= n + HEADER}

Freed(e, n) == {sector_of[<<e, k>>] : k \in Dropped(n)} \ {HOLE}

\* Fault: the sector stays in the T/S list.
Shrunk_keeps_pointer(e, n) ==
    /\ data' = Cut(e, n)
    /\ free' = free \cup Freed(e, n)
    /\ UNCHANGED <<sector_of, list, second, last_track, direction>>

Shrunk(e, n) ==
    /\ data' = Cut(e, n)
    /\ free' = free \cup Freed(e, n)
    /\ sector_of' = [p \in Places |-> IF p[1] = e /\ p[2] \in Dropped(n)
                                      THEN HOLE ELSE sector_of[p]]
    /\ UNCHANGED <<list, second, last_track, direction>>

\* dos33fs_truncate_inode()
truncate_inode(e, n) ==
    /\ Ready /\ Exists(e) /\ MayHave(n)
    /\ \/ n > size[e] /\ GrowsAstray(e, n) /\ GoesAstray(e)
       \/ n > size[e] /\ GrowFills(e, n) /\ Fills
       \/ n > size[e] /\ ~GrowsAstray(e, n) /\ Grown(e, n) /\ UNCHANGED job
       \/ n < size[e] /\ Which(size[e]) >= MAX_TS_ENTRIES /\ GoesAstray(e)
       \/ /\ n < size[e] /\ Which(size[e]) < MAX_TS_ENTRIES
          /\ Shrunk(e, n)
          /\ size' = [size EXCEPT ![e] = n]
          /\ UNCHANGED <<state, job, stuck>>

\* dos33fs_write_file() grows the file first ...
write_file(e, at, count, v) ==
    /\ Ready /\ Exists(e) /\ MayHave(at + count)
    /\ \/ at + count > size[e] /\ GrowsAstray(e, at + count) /\ GoesAstray(e)
       \/ at + count > size[e] /\ GrowFills(e, at + count) /\ Fills
       \/ /\ at + count > size[e] /\ ~GrowsAstray(e, at + count)
          /\ Grown(e, at + count)
          /\ job' = [entry |-> e, at |-> at, left |-> count, byte |-> v]
       \/ /\ at + count <= size[e]
          /\ job' = [entry |-> e, at |-> at, left |-> count, byte |-> v]
          /\ UNCHANGED <<state, list, second, sector_of, data, size, vtocVars, stuck>>

\* The bytes that go to the next sector.
Room  == BLOCK_SIZE - Offset(job.at)
Chunk == IF Room > job.left THEN job.left ELSE Room

Written(old) ==
    [o \in Offsets |-> IF o \in Offset(job.at)..(Offset(job.at) + Chunk - 1)
                       THEN job.byte ELSE old[o]]

Remaining ==
    IF job.left = Chunk THEN NULL
    ELSE [job EXCEPT !.at = @ + Chunk, !.left = @ - Chunk]

\* ... and then writes sector after sector; a hole gets a sector.
write_sector ==
    /\ stuck = NULL /\ job # NULL
    /\ LET k == Which(job.at)
           p == <<job.entry, k>>
       IN \/ k >= MAX_TS_ENTRIES /\ GoesAstray(job.entry)
          \/ /\ k < MAX_TS_ENTRIES /\ sector_of[p] # HOLE
             /\ data' = [data EXCEPT ![sector_of[p]] = Written(@)]
             /\ job' = Remaining
             /\ UNCHANGED <<sector_of, vtocVars, stuck>>
          \/ /\ k < MAX_TS_ENTRIES /\ sector_of[p] = HOLE /\ free # {}
             /\ \E s \in free :
                  /\ Allocated(s)
                  /\ sector_of' = [sector_of EXCEPT ![p] = s]
                  /\ data' = [data EXCEPT ![s] = Written(Zeros)]
             /\ job' = Remaining
             /\ UNCHANGED stuck
          \/ k < MAX_TS_ENTRIES /\ sector_of[p] = HOLE /\ free = {} /\ Fills
    /\ UNCHANGED <<state, list, second, size>>

\* dos33fs_unlink_inode(): the entry's track becomes 0xfe and is kept in the
\* last byte of the name.
unlink_inode(e) ==
    /\ Ready /\ state[e] = "linked"
    /\ state' = [state EXCEPT ![e] = "unlinked"]
    /\ UNCHANGED <<list, second, sector_of, data, size, vtocVars, job, stuck>>

\* dos33fs_destroy_inode(), when the last user of an unlinked file is gone:
\* the file is shrunk to no bytes, which leaves it the sector of its header,
\* and the sector of its T/S list is freed.
destroy_inode(e) ==
    /\ Ready /\ state[e] = "unlinked"
    /\ \/ Which(size[e]) >= MAX_TS_ENTRIES /\ GoesAstray(e)
       \/ /\ Which(size[e]) < MAX_TS_ENTRIES
          /\ LET gone == IF size[e] = 0 THEN {} ELSE Freed(e, 0)
             IN /\ free' = free \cup gone \cup {list[e]}
                /\ data' = IF size[e] = 0 THEN data ELSE Cut(e, 0)
          /\ sector_of' = [p \in Places |-> IF p[1] = e THEN HOLE ELSE sector_of[p]]
          /\ list' = [list EXCEPT ![e] = HOLE]
          /\ second' = [second EXCEPT ![e] = HOLE]
          /\ size' = [size EXCEPT ![e] = 0]
          /\ state' = [state EXCEPT ![e] = "free"]
          /\ UNCHANGED <<last_track, direction, job, stuck>>

-----------------------------------------------------------------------------
\* dos33fs_mount() of an empty disk.
Init ==
    /\ state = [e \in Entries |-> "free"]
    /\ list = [e \in Entries |-> HOLE]
    /\ second = [e \in Entries |-> HOLE]
    /\ sector_of = [p \in Places |-> HOLE]
    /\ data = [s \in Available |-> Zeros]
    /\ size = [e \in Entries |-> 0]
    /\ free = Available
    /\ last_track = VTOC_TRACK /\ direction \in {1, -1}
    /\ job = NULL
    /\ stuck = NULL

Next ==
    \/ \E e \in Entries : make_inode(e) \/ unlink_inode(e) \/ destroy_inode(e)
    \/ \E e \in Entries, n \in 0..MaxSize : truncate_inode(e, n)
    \/ \E e \in Entries, at \in 0..MaxSize, count \in 0..MaxCount, v \in Values :
          write_file(e, at, count, v)
    \/ write_sector

Spec == Init /\ [][Next]_vars

-----------------------------------------------------------------------------
(* Properties                                                              *)

TypeOK ==
    /\ state \in [Entries -> {"free", "linked", "unlinked"}]
    /\ list \in [Entries -> Available \cup {HOLE}]
    /\ second \in [Entries -> Available \cup {HOLE}]
    /\ sector_of \in [Places -> Available \cup {HOLE}]
    /\ data \in [Available -> [Offsets -> Values \cup {0}]]
    /\ size \in [Entries -> 0..MaxSize]
    /\ free \subseteq Available
    /\ last_track \in 0..(TRACKS - 1) /\ direction \in {1, -1}
    /\ job \in {NULL} \cup [entry : Entries, at : 0..MaxSize,
                            left : 0..MaxCount, byte : Values]
    /\ stuck \in {NULL, "full", "astray"}

\* The uses a sector can have: as the first or second T/S list of a file, or
\* as the data of one of its positions.
LIST == -1
SECOND == -2
Uses == Entries \X (SECOND..(MAX_TS_ENTRIES - 1))

SectorOf(u) == IF u[2] = LIST THEN list[u[1]]
               ELSE IF u[2] = SECOND THEN second[u[1]]
               ELSE sector_of[u]

\* No sector is used for two things, of one file or of two.
SectorsApart ==
    \A u, w \in Uses : u # w /\ SectorOf(u) # HOLE => SectorOf(u) # SectorOf(w)

\* The bitmap is right about every sector that is used: the allocator will
\* not give it to anybody else.
UsedIsMarked == \A u \in Uses : SectorOf(u) \notin free

\* The byte at offset i of a file, as dos33fs_read_file() finds it.
Unit(e, i) ==
    IF sector_of[<<e, Which(i)>>] = HOLE THEN 0
    ELSE data[sector_of[<<e, Which(i)>>]][Offset(i)]

content ==
    [e \in Entries |-> IF Exists(e) THEN [i \in 0..(size[e] - 1) |-> Unit(e, i)]
                                    ELSE NULL]

S == INSTANCE FileStore WITH NoFile <- NULL

\* Each file is a sequence of bytes of its own, and what it gains by growing
\* is zero, also where it had other bytes before.
ImplementsStore == S!Spec

-----------------------------------------------------------------------------
(* What the code claims and does not do                                    *)

\* dos33fs.c says of the pointer to the next T/S list "set up next for next
\* time on the list": the walk stays on the list.
StaysOnList == stuck # "astray"

=============================================================================
