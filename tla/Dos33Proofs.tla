------------------------------ MODULE Dos33Proofs ------------------------------
(***************************************************************************)
(* Proofs about the DOS 3.3 file system, for a disk of any size with any   *)
(* number of catalog entries: no sector ever has two uses, the bitmap      *)
(* knows of every use, and files that fit one T/S list are sequences of    *)
(* bytes of their own.                                                     *)
(***************************************************************************)
EXTENDS Dos33, TLAPS

-----------------------------------------------------------------------------
(* Arithmetic of sectors and offsets                                       *)

\* The byte after the first n of a file has one place.
LEMMA Place ==
    \A n \in Nat : /\ Which(n) \in Nat
                   /\ Offset(n) \in Offsets
                   /\ Which(n) * BLOCK_SIZE + Offset(n) = n + HEADER
  <1>1. BLOCK_SIZE \in Nat \ {0} /\ HEADER \in Nat
    BY Dos33Assumption
  <1> QED
    BY <1>1 DEF Which, Offset, Offsets

\* Sector 0, the null pointer, is not available: track 0 is kept for booting.
LEMMA HoleNotAvailable == HOLE \notin Available
  <1>1. SECTORS \in Nat \ {0}
    BY Dos33Assumption
  <1>2. get_t(0) = 0
    BY <1>1 DEF get_t
  <1> QED
    BY <1>2 DEF Available, HOLE

LEMMA TrackOfSector == \A s \in Available : get_t(s) \in 0..(TRACKS - 1)
  <1> SUFFICES ASSUME NEW s \in Available
               PROVE  get_t(s) \in 0..(TRACKS - 1)
    OBVIOUS
  <1>1. SECTORS \in Nat \ {0} /\ TRACKS \in Nat \ {0} /\ s \in Nat /\ s < TRACKS * SECTORS
    BY Dos33Assumption DEF Available, Sectors
  <1> DEFINE t == s \div SECTORS
  <1>2. t \in Nat /\ t * SECTORS <= s
    BY <1>1
  <1>3. t < TRACKS
    <2>1. SUFFICES ASSUME TRACKS <= t PROVE FALSE
      BY <1>1, <1>2
    <2>2. TRACKS * SECTORS <= t * SECTORS
      BY <1>1, <1>2, <2>1
    <2> QED
      BY <1>1, <1>2, <2>2
  <1> QED
    BY <1>1, <1>2, <1>3 DEF get_t

LEMMA DirectionTurned ==
    \A s, lt : \A dir \in {1, -1} : Turned(s, lt, dir) \in {1, -1}
  BY DEF Turned

-----------------------------------------------------------------------------
(* What every operation does to the uses of sectors                        *)

\* A map of uses to sectors is sound with a set f of free sectors.
Sound(A, f) ==
    /\ \A u, w \in Uses : u # w /\ A[u] # HOLE => A[u] # A[w]
    /\ \A u \in Uses : A[u] \notin f

\* From A and f to B and g: a use keeps its sector, loses it, or takes one
\* that was free and is not any more; two do not take the same one.  What is
\* free now was free before or has been lost.
LEMMA UsesChange ==
    ASSUME NEW A, NEW B, NEW f, NEW g,
           Sound(A, f), HOLE \notin g,
           \A u \in Uses : B[u] = A[u] \/ B[u] = HOLE \/ B[u] \in f \ g,
           \A u, w \in Uses : u # w /\ B[u] \in f => B[u] # B[w],
           \A x \in g : x \in f \/ \E u \in Uses : A[u] = x /\ B[u] = HOLE
    PROVE  Sound(B, g)
  <1>1. ASSUME NEW u \in Uses, NEW w \in Uses, u # w, B[u] # HOLE
        PROVE  B[u] # B[w]
    <2>1. CASE B[u] \in f
      BY <1>1, <2>1
    <2>2. CASE B[w] \in f
      BY <1>1, <2>2
    <2>3. CASE B[u] \notin f /\ B[w] \notin f
      BY <1>1, <2>3 DEF Sound
    <2> QED
      BY <2>1, <2>2, <2>3
  <1>2. ASSUME NEW u \in Uses, B[u] \in g
        PROVE  FALSE
    <2>1. B[u] = A[u]
      BY <1>2
    <2>2. A[u] \notin f
      BY DEF Sound
    <2>3. PICK w \in Uses : A[w] = A[u] /\ B[w] = HOLE
      BY <1>2, <2>1, <2>2
    <2>4. u # w /\ A[u] # HOLE
      BY <1>2, <2>1, <2>3
    <2> QED
      BY <2>3, <2>4 DEF Sound
  <1> QED
    BY <1>1, <1>2 DEF Sound

UseMap == [u \in Uses |-> SectorOf(u)]

\* The two properties of the disk are soundness of the map it is in.
LEMMA SoundIs == (SectorsApart /\ UsedIsMarked) <=> Sound(UseMap, free)
  BY DEF SectorsApart, UsedIsMarked, Sound, UseMap

-----------------------------------------------------------------------------
(* The invariant                                                           *)

\* A file has its first T/S list.
ListThere == \A e \in Entries : Exists(e) => list[e] # HOLE

\* What is being written ends within the bound on files.
JobInFile == job # NULL => job.at + job.left <= MaxSize

IInv ==
    /\ TypeOK
    /\ ListThere
    /\ JobInFile
    /\ SectorsApart
    /\ UsedIsMarked

-----------------------------------------------------------------------------
(* The types                                                               *)

LEMMA InitIInv == Init => IInv
  <1> SUFFICES ASSUME Init
               PROVE  IInv
    OBVIOUS
  <1>1. VTOC_TRACK \in 0..(TRACKS - 1) /\ 0 \in 0..MaxSize
    BY Dos33Assumption
  <1>2. Zeros \in [Offsets -> Values \cup {0}]
    BY DEF Zeros
  <1>3. TypeOK
    BY <1>1, <1>2 DEF Init, TypeOK
  <1>4. ListThere /\ JobInFile
    BY DEF Init, ListThere, Exists, JobInFile
  <1>5. \A u \in Uses : SectorOf(u) = HOLE
    <2> SUFFICES ASSUME NEW u \in Uses
                 PROVE  SectorOf(u) = HOLE
      OBVIOUS
    <2>1. u[1] \in Entries /\ u[2] \in SECOND..(MAX_TS_ENTRIES - 1) /\ u = <<u[1], u[2]>>
      BY DEF Uses
    <2>2. u[2] # LIST /\ u[2] # SECOND => u \in Places
      BY <2>1, Dos33Assumption DEF Places, Positions, LIST, SECOND
    <2> QED
      BY <2>1, <2>2 DEF Init, SectorOf
  <1>6. SectorsApart /\ UsedIsMarked
    BY <1>5, HoleNotAvailable DEF SectorsApart, UsedIsMarked, Init
  <1> QED
    BY <1>3, <1>4, <1>6 DEF IInv

\* A use is a list, a second list or a place of data.
LEMMA UseCases ==
    \A u \in Uses : /\ u[1] \in Entries
                    /\ u = <<u[1], u[2]>>
                    /\ u[2] = LIST \/ u[2] = SECOND
                       \/ (u[2] \notin {LIST, SECOND} /\ u[2] \in Positions /\ u \in Places)
  <1> SUFFICES ASSUME NEW u \in Uses
               PROVE  /\ u[1] \in Entries
                      /\ u = <<u[1], u[2]>>
                      /\ u[2] = LIST \/ u[2] = SECOND
                         \/ (u[2] \notin {LIST, SECOND} /\ u[2] \in Positions /\ u \in Places)
    OBVIOUS
  <1>1. u[1] \in Entries /\ u[2] \in SECOND..(MAX_TS_ENTRIES - 1) /\ u = <<u[1], u[2]>>
    BY DEF Uses
  <1>2. u[2] # LIST /\ u[2] # SECOND => u[2] \in Positions
    BY <1>1, Dos33Assumption DEF Positions, LIST, SECOND
  <1> QED
    BY <1>1, <1>2 DEF Places

LEMMA PlaceIsUse ==
    \A e \in Entries, k \in Positions :
        /\ <<e, k>> \in Places
        /\ <<e, k>> \in Uses /\ <<e, LIST>> \in Uses /\ <<e, SECOND>> \in Uses
        /\ k # LIST /\ k # SECOND
  <1>1. MAX_TS_ENTRIES \in Nat \ {0}
    BY Dos33Assumption
  <1> QED
    BY <1>1 DEF Uses, Places, Positions, LIST, SECOND

LEMMA AllocatedType ==
    ASSUME TypeOK, NEW s \in free, Allocated(s)
    PROVE  /\ free' \subseteq Available
           /\ last_track' \in 0..(TRACKS - 1)
           /\ direction' \in {1, -1}
  BY TrackOfSector, DirectionTurned DEF TypeOK, Allocated

LEMMA GrownType ==
    ASSUME TypeOK, NEW e \in Entries, NEW n \in 0..MaxSize, Grown(e, n)
    PROVE  /\ second' \in [Entries -> Available \cup {HOLE}]
           /\ size' \in [Entries -> 0..MaxSize]
           /\ free' \subseteq Available
           /\ last_track' \in 0..(TRACKS - 1)
           /\ direction' \in {1, -1}
  <1>1. CASE ~NextList(e, n)
    BY <1>1 DEF TypeOK, Grown, vtocVars
  <1>2. CASE NextList(e, n)
    <2>1. PICK s \in free : Allocated(s) /\ second' = [second EXCEPT ![e] = s]
      BY <1>2 DEF Grown
    <2>2. s \in Available
      BY DEF TypeOK
    <2> QED
      BY <2>1, <2>2, AllocatedType DEF TypeOK, Grown
  <1> QED
    BY <1>1, <1>2

LEMMA CutType ==
    ASSUME TypeOK
    PROVE  \A e, n : Cut(e, n) \in [Available -> [Offsets -> Values \cup {0}]]
  BY DEF TypeOK, Cut

-----------------------------------------------------------------------------
(* Every operation preserves the invariant                                 *)

\* A call that spins or goes astray changes nothing else.
LEMMA StuckKeeps ==
    ASSUME IInv, stuck' \in {"full", "astray"},
           UNCHANGED <<state, list, second, sector_of, data, size, vtocVars, job>>
    PROVE  IInv'
  <1>1. TypeOK'
    BY DEF IInv, TypeOK, vtocVars
  <1>2. ListThere' /\ JobInFile'
    BY DEF IInv, ListThere, Exists, JobInFile
  <1>3. SectorsApart' /\ UsedIsMarked'
    BY DEF IInv, SectorsApart, UsedIsMarked, SectorOf, vtocVars
  <1> QED
    BY <1>1, <1>2, <1>3 DEF IInv

\* The steps that change no record of a sector's use leave them sound.
LEMMA UsesKept ==
    ASSUME IInv, UNCHANGED <<list, second, sector_of, vtocVars>>
    PROVE  SectorsApart' /\ UsedIsMarked'
  BY DEF IInv, SectorsApart, UsedIsMarked, SectorOf, vtocVars

LEMMA MakeKeeps ==
    ASSUME IInv, NEW e \in Entries, make_inode(e)
    PROVE  IInv'
  <1>1. CASE Fills
    BY <1>1, StuckKeeps DEF Fills
  <1>2. CASE ~Fills
    <2>1. PICK s \in free, d \in free :
            /\ Found(free, last_track, direction, s)
            /\ Found(free \ {s}, get_t(s), Turned(s, last_track, direction), d)
            /\ free' = free \ {s, d}
            /\ last_track' = get_t(d)
            /\ direction' = Turned(d, get_t(s), Turned(s, last_track, direction))
            /\ list' = [list EXCEPT ![e] = s]
            /\ second' = [second EXCEPT ![e] = HOLE]
            /\ sector_of' = [p \in Places |-> IF p[1] # e THEN sector_of[p]
                                              ELSE IF p[2] = 0 THEN d ELSE HOLE]
            /\ data' = [data EXCEPT ![d] = Zeros]
            /\ size' = [size EXCEPT ![e] = 0]
            /\ state' = [state EXCEPT ![e] = "linked"]
            /\ UNCHANGED <<job, stuck>>
      BY <1>2 DEF make_inode
    <2>2. /\ s \in Available /\ d \in Available /\ d # s
          /\ s # HOLE /\ d # HOLE
      BY <2>1, HoleNotAvailable DEF IInv, TypeOK, Found
    <2>3. TypeOK'
      <3>1. Zeros \in [Offsets -> Values \cup {0}]
        BY DEF Zeros
      <3>2. direction' \in {1, -1}
        BY <2>1, DirectionTurned DEF IInv, TypeOK
      <3>3. last_track' \in 0..(TRACKS - 1)
        BY <2>1, <2>2, TrackOfSector
      <3>4. sector_of' \in [Places -> Available \cup {HOLE}]
        BY <2>1, <2>2 DEF IInv, TypeOK
      <3>5. /\ list' \in [Entries -> Available \cup {HOLE}]
            /\ second' \in [Entries -> Available \cup {HOLE}]
            /\ state' \in [Entries -> {"free", "linked", "unlinked"}]
        BY <2>1, <2>2 DEF IInv, TypeOK
      <3>6. size' \in [Entries -> 0..MaxSize]
        BY <2>1, Dos33Assumption DEF IInv, TypeOK
      <3>7. data' \in [Available -> [Offsets -> Values \cup {0}]]
        BY <2>1, <2>2, <3>1 DEF IInv, TypeOK
      <3>8. free' \subseteq Available
        BY <2>1 DEF IInv, TypeOK
      <3> QED
        BY <2>1, <3>2, <3>3, <3>4, <3>5, <3>6, <3>7, <3>8 DEF IInv, TypeOK
    <2>4. ListThere' /\ JobInFile'
      BY <2>1, <2>2 DEF IInv, TypeOK, ListThere, Exists, JobInFile
    <2>5. Sound(UseMap, free)
      BY SoundIs DEF IInv
    <2>6. \A u \in Uses :
             UseMap'[u] = IF u = <<e, LIST>> THEN s
                          ELSE IF u = <<e, 0>> THEN d
                          ELSE IF u[1] = e THEN HOLE ELSE UseMap[u]
      BY <2>1, UseCases, PlaceIsUse DEF UseMap, SectorOf, LIST, SECOND, IInv, TypeOK
    <2>7. Sound(UseMap', free')
      <3> DEFINE A == UseMap  B == UseMap'  g == free'
      <3>1. HOLE \notin g
        BY <2>1, HoleNotAvailable DEF IInv, TypeOK
      <3>2. \A u \in Uses : B[u] = A[u] \/ B[u] = HOLE \/ B[u] \in free \ g
        BY <2>1, <2>6
      <3>3. \A u, w \in Uses : u # w /\ B[u] \in free => B[u] # B[w]
        BY <2>2, <2>5, <2>6, HoleNotAvailable DEF Sound, IInv, TypeOK
      <3>4. \A x \in g : x \in free
        BY <2>1
      <3> HIDE DEF A, B, g
      <3>5. Sound(A, free)
        BY <2>5 DEF A
      <3>6. Sound(B, g)
        BY <3>1, <3>2, <3>3, <3>4, <3>5, UsesChange
      <3> QED
        BY <3>6 DEF B, g
    <2> QED
      BY <2>3, <2>4, <2>7, SoundIs DEF IInv, Sound, SectorsApart, UsedIsMarked, UseMap
  <1> QED
    BY <1>1, <1>2

\* A file that grows may take a sector for a second list, no other use
\* changes.
LEMMA GrownSound ==
    ASSUME IInv, NEW e \in Entries, NEW n \in 0..MaxSize, Grown(e, n)
    PROVE  SectorsApart' /\ UsedIsMarked'
  <1>1. CASE ~NextList(e, n)
    BY <1>1, UsesKept DEF Grown
  <1>2. CASE NextList(e, n)
    <2>1. PICK s \in free : Allocated(s) /\ second' = [second EXCEPT ![e] = s]
      BY <1>2 DEF Grown
    <2> DEFINE A == UseMap  B == UseMap'  g == free'
    <2>2. g = free \ {s} /\ HOLE \notin free
      BY <2>1, HoleNotAvailable DEF Allocated, IInv, TypeOK
    <2>3. Sound(A, free)
      BY SoundIs DEF IInv
    <2>4. \A u \in Uses : B[u] = IF u = <<e, SECOND>> THEN s ELSE A[u]
      BY <2>1, UseCases DEF UseMap, SectorOf, LIST, SECOND, IInv, TypeOK, Grown
    <2> HIDE DEF A, B, g
    <2>5. Sound(B, g)
      <3>1. \A u \in Uses : B[u] = A[u] \/ B[u] = HOLE \/ B[u] \in free \ g
        BY <2>1, <2>2, <2>4
      <3>2. \A u, w \in Uses : u # w /\ B[u] \in free => B[u] # B[w]
        BY <2>3, <2>4 DEF Sound
      <3>3. \A x \in g : x \in free
        BY <2>2
      <3>4. HOLE \notin g
        BY <2>2
      <3> QED
        BY <2>3, <3>1, <3>2, <3>3, <3>4, UsesChange
    <2> QED
      BY <2>5 DEF B, g, UseMap, Sound, SectorsApart, UsedIsMarked
  <1> QED
    BY <1>1, <1>2

\* A place that is dropped becomes a hole, and its sector is free.
LEMMA ShrunkSound ==
    ASSUME IInv, NEW e \in Entries, NEW n, Shrunk(e, n)
    PROVE  SectorsApart' /\ UsedIsMarked' /\ free' \subseteq Available
  <1> DEFINE A == UseMap  B == UseMap'  g == free'
  <1>1. g = free \cup Freed(e, n)
    BY DEF Shrunk
  <1>2. Freed(e, n) \subseteq Available
    <2> SUFFICES ASSUME NEW k \in Dropped(n)
                 PROVE  sector_of[<<e, k>>] \in Available \cup {HOLE}
      BY DEF Freed
    <2>1. <<e, k>> \in Places
      BY PlaceIsUse DEF Dropped
    <2> QED
      BY <2>1 DEF IInv, TypeOK
  <1>3. free \subseteq Available /\ HOLE \notin Available
    BY HoleNotAvailable DEF IInv, TypeOK
  <1>4. Sound(A, free)
    BY SoundIs DEF IInv
  <1>5. \A u \in Uses :
           B[u] = IF u[1] = e /\ u[2] \in Dropped(n) THEN HOLE ELSE A[u]
    <2>1. LIST \notin Dropped(n) /\ SECOND \notin Dropped(n)
      BY Dos33Assumption DEF Dropped, Positions, LIST, SECOND
    <2> QED
      BY <2>1, UseCases DEF UseMap, SectorOf, Shrunk
  <1>6. \A k \in Dropped(n) : /\ <<e, k>> \in Uses
                              /\ A[<<e, k>>] = sector_of[<<e, k>>]
    BY PlaceIsUse DEF Dropped, UseMap, SectorOf
  <1>7. ASSUME NEW x \in g, x \notin free
        PROVE  \E u \in Uses : A[u] = x /\ B[u] = HOLE
    <2>1. PICK k \in Dropped(n) : x = sector_of[<<e, k>>]
      BY <1>1, <1>7 DEF Freed
    <2> DEFINE u == <<e, k>>
    <2>2. u \in Uses /\ A[u] = x /\ u[1] = e /\ u[2] = k
      BY <1>6, <2>1
    <2> HIDE DEF u, A, B
    <2>3. B[u] = HOLE
      BY <1>5, <2>2
    <2> QED
      BY <2>2, <2>3
  <1>8. Sound(B, g)
    <2> HIDE DEF A, B, g
    <2>1. \A u \in Uses : B[u] = A[u] \/ B[u] = HOLE \/ B[u] \in free \ g
      BY <1>5
    <2>2. \A u, w \in Uses : u # w /\ B[u] \in free => B[u] # B[w]
      BY <1>3, <1>4, <1>5 DEF Sound
    <2>3. HOLE \notin g
      BY <1>1, <1>2, <1>3
    <2>4. \A x \in g : x \in free \/ \E u \in Uses : A[u] = x /\ B[u] = HOLE
      BY <1>7
    <2> QED
      BY <1>4, <2>1, <2>2, <2>3, <2>4, UsesChange
  <1> QED
    BY <1>1, <1>2, <1>3, <1>8 DEF UseMap, Sound, SectorsApart, UsedIsMarked

LEMMA TruncateKeeps ==
    ASSUME IInv, NEW e \in Entries, NEW n \in 0..MaxSize, truncate_inode(e, n)
    PROVE  IInv'
  <1>1. CASE Fills \/ GoesAstray(e)
    BY <1>1, StuckKeeps DEF Fills, GoesAstray
  <1>2. CASE Grown(e, n) /\ UNCHANGED job
    <2>1. TypeOK'
      BY <1>2, GrownType DEF IInv, TypeOK, Grown
    <2>2. ListThere' /\ JobInFile'
      BY <1>2 DEF IInv, ListThere, Exists, JobInFile, Grown
    <2> QED
      BY <1>2, <2>1, <2>2, GrownSound DEF IInv
  <1>3. CASE /\ Shrunk(e, n)
             /\ size' = [size EXCEPT ![e] = n]
             /\ UNCHANGED <<state, job, stuck>>
    <2>1. TypeOK'
      <3>1. sector_of' \in [Places -> Available \cup {HOLE}]
        BY <1>3 DEF Shrunk, IInv, TypeOK
      <3>2. size' \in [Entries -> 0..MaxSize]
        BY <1>3 DEF IInv, TypeOK
      <3>3. data' \in [Available -> [Offsets -> Values \cup {0}]]
        BY <1>3, CutType DEF Shrunk, IInv
      <3> QED
        BY <1>3, <3>1, <3>2, <3>3, ShrunkSound DEF Shrunk, IInv, TypeOK
    <2>2. ListThere' /\ JobInFile'
      BY <1>3 DEF IInv, ListThere, Exists, JobInFile, Shrunk
    <2> QED
      BY <1>3, <2>1, <2>2, ShrunkSound DEF IInv
  <1> QED
    BY <1>1, <1>2, <1>3 DEF truncate_inode

LEMMA WriteFileKeeps ==
    ASSUME IInv, NEW e \in Entries, NEW at \in 0..MaxSize, NEW count \in 0..MaxCount,
           NEW v \in Values, write_file(e, at, count, v)
    PROVE  IInv'
  <1> DEFINE new == [entry |-> e, at |-> at, left |-> count, byte |-> v]
  <1>1. /\ at + count \in 0..MaxSize
        /\ new \in [entry : Entries, at : 0..MaxSize, left : 0..MaxCount, byte : Values]
        /\ new.at + new.left <= MaxSize
    BY Dos33Assumption DEF write_file, MayHave
  <1>2. CASE Fills \/ GoesAstray(e)
    BY <1>2, StuckKeeps DEF Fills, GoesAstray
  <1>3. CASE Grown(e, at + count) /\ job' = new
    <2> HIDE DEF new
    <2>1. TypeOK'
      BY <1>1, <1>3, GrownType DEF IInv, TypeOK, Grown
    <2>2. ListThere' /\ JobInFile'
      BY <1>1, <1>3 DEF IInv, ListThere, Exists, JobInFile, Grown
    <2> QED
      BY <1>1, <1>3, <2>1, <2>2, GrownSound DEF IInv
  <1>4. CASE /\ job' = new
             /\ UNCHANGED <<state, list, second, sector_of, data, size, vtocVars, stuck>>
    <2> HIDE DEF new
    <2>1. TypeOK'
      BY <1>1, <1>4 DEF IInv, TypeOK, vtocVars
    <2>2. ListThere' /\ JobInFile'
      BY <1>1, <1>4 DEF IInv, ListThere, Exists, JobInFile
    <2> QED
      BY <1>4, <2>1, <2>2, UsesKept DEF IInv
  <1> QED
    BY <1>2, <1>3, <1>4 DEF write_file

\* The step of dos33fs_write_file() that fills a hole.
LEMMA HoleFilled ==
    ASSUME IInv, NEW p \in Places, NEW s \in free, Allocated(s), sector_of[p] = HOLE,
           sector_of' = [sector_of EXCEPT ![p] = s],
           UNCHANGED <<list, second>>
    PROVE  SectorsApart' /\ UsedIsMarked'
  <1> DEFINE A == UseMap  B == UseMap'  g == free'
  <1>1. g = free \ {s} /\ HOLE \notin free
    BY HoleNotAvailable DEF Allocated, IInv, TypeOK
  <1>2. Sound(A, free)
    BY SoundIs DEF IInv
  <1>3. \A u \in Uses : B[u] = IF u = p THEN s ELSE A[u]
    <2>1. p[2] # LIST /\ p[2] # SECOND
      BY Dos33Assumption DEF Places, Positions, LIST, SECOND
    <2> QED
      BY <2>1, UseCases DEF UseMap, SectorOf, IInv, TypeOK
  <1> HIDE DEF A, B, g
  <1>4. Sound(B, g)
    <2>1. \A u \in Uses : B[u] = A[u] \/ B[u] = HOLE \/ B[u] \in free \ g
      BY <1>1, <1>3
    <2>2. \A u, w \in Uses : u # w /\ B[u] \in free => B[u] # B[w]
      BY <1>2, <1>3 DEF Sound
    <2>3. \A x \in g : x \in free
      BY <1>1
    <2> QED
      BY <1>1, <1>2, <2>1, <2>2, <2>3, UsesChange
  <1> QED
    BY <1>4 DEF B, g, UseMap, Sound, SectorsApart, UsedIsMarked

\* What is written next lies in one sector, and the rest of the write in the
\* file.
LEMMA ChunkInSector ==
    ASSUME IInv, job # NULL
    PROVE  /\ job \in [entry : Entries, at : 0..MaxSize, left : 0..MaxCount, byte : Values]
           /\ Chunk \in 0..MaxCount /\ Chunk <= job.left
           /\ Offset(job.at) + Chunk <= BLOCK_SIZE
           /\ Which(job.at) \in Nat
           /\ Remaining # NULL =>
                 /\ Remaining \in [entry : Entries, at : 0..MaxSize, left : 0..MaxCount,
                                   byte : Values]
                 /\ Remaining.at + Remaining.left <= MaxSize
  <1>1. /\ job \in [entry : Entries, at : 0..MaxSize, left : 0..MaxCount, byte : Values]
        /\ job.at + job.left <= MaxSize
    BY DEF IInv, TypeOK, JobInFile
  <1>2. MaxSize \in Nat /\ MaxCount \in Nat /\ BLOCK_SIZE \in Nat \ {0}
    BY Dos33Assumption
  <1>3. job.at \in Nat /\ job.left \in 0..MaxCount
    BY <1>1, <1>2
  <1>4. Which(job.at) \in Nat /\ Offset(job.at) \in 0..(BLOCK_SIZE - 1)
    BY <1>3, Place DEF Offsets
  <1>5. Room \in Nat \ {0} /\ Offset(job.at) + Room = BLOCK_SIZE
    BY <1>2, <1>4 DEF Room
  <1>6. /\ Chunk \in 0..MaxCount /\ Chunk <= job.left
        /\ Offset(job.at) + Chunk <= BLOCK_SIZE
    BY <1>2, <1>3, <1>4, <1>5 DEF Chunk
  <1>7. ASSUME Remaining # NULL
        PROVE  /\ Remaining \in [entry : Entries, at : 0..MaxSize, left : 0..MaxCount,
                                 byte : Values]
               /\ Remaining.at + Remaining.left <= MaxSize
    <2>1. Remaining = [job EXCEPT !.at = job.at + Chunk, !.left = job.left - Chunk]
      BY <1>7 DEF Remaining
    <2>2. job.at + Chunk \in 0..MaxSize /\ job.left - Chunk \in 0..MaxCount
      BY <1>1, <1>2, <1>3, <1>6
    <2>3. (job.at + Chunk) + (job.left - Chunk) <= MaxSize
      BY <1>1, <1>2, <1>3, <1>6
    <2> QED
      BY <1>1, <2>1, <2>2, <2>3
  <1> QED
    BY <1>1, <1>4, <1>6, <1>7

LEMMA WriteSectorKeeps ==
    ASSUME IInv, write_sector
    PROVE  IInv'
  <1> DEFINE k == Which(job.at)
             p == <<job.entry, k>>
  <1>1. job # NULL
    BY DEF write_sector
  <1>2. job.entry \in Entries /\ job.byte \in Values /\ k \in Nat
    BY <1>1, ChunkInSector
  <1>3. \A old \in [Offsets -> Values \cup {0}] : Written(old) \in [Offsets -> Values \cup {0}]
    BY <1>2 DEF Written
  <1>4. Zeros \in [Offsets -> Values \cup {0}]
    BY DEF Zeros
  <1>5. job' = Remaining => job' \in {NULL} \cup [entry : Entries, at : 0..MaxSize,
                                                left : 0..MaxCount, byte : Values]
                            /\ JobInFile'
    BY <1>1, ChunkInSector DEF JobInFile
  <1>6. k < MAX_TS_ENTRIES => p \in Places
    BY <1>2, Dos33Assumption DEF Places, Positions
  <1> HIDE DEF k
  <1>7. CASE /\ Fills \/ GoesAstray(job.entry)
    BY <1>7, StuckKeeps DEF Fills, GoesAstray
  <1>8. CASE /\ k < MAX_TS_ENTRIES /\ sector_of[p] # HOLE
             /\ data' = [data EXCEPT ![sector_of[p]] = Written(@)]
             /\ job' = Remaining
             /\ UNCHANGED <<sector_of, vtocVars, stuck>>
             /\ UNCHANGED <<state, list, second, size>>
    <2>1. sector_of[p] \in Available
      BY <1>6, <1>8 DEF IInv, TypeOK
    <2>2. data' \in [Available -> [Offsets -> Values \cup {0}]]
      BY <1>3, <1>8, <2>1 DEF IInv, TypeOK
    <2>3. TypeOK'
      BY <1>5, <1>8, <2>2 DEF IInv, TypeOK, vtocVars
    <2>4. ListThere'
      BY <1>8 DEF IInv, ListThere, Exists
    <2> QED
      BY <1>5, <1>8, <2>3, <2>4, UsesKept DEF IInv
  <1>9. ASSUME k < MAX_TS_ENTRIES, sector_of[p] = HOLE,
               NEW s \in free, Allocated(s),
               sector_of' = [sector_of EXCEPT ![p] = s],
               data' = [data EXCEPT ![s] = Written(Zeros)],
               job' = Remaining,
               UNCHANGED <<state, list, second, size, stuck>>
        PROVE  IInv'
    <2>1. s \in Available /\ p \in Places
      BY <1>6, <1>9 DEF IInv, TypeOK
    <2> HIDE DEF p
    <2>2. data' \in [Available -> [Offsets -> Values \cup {0}]]
      BY <1>3, <1>4, <1>9, <2>1 DEF IInv, TypeOK
    <2>3. sector_of' \in [Places -> Available \cup {HOLE}]
      BY <1>9, <2>1 DEF IInv, TypeOK
    <2>4. TypeOK'
      BY <1>5, <1>9, <2>2, <2>3, AllocatedType DEF IInv, TypeOK
    <2>5. ListThere'
      BY <1>9 DEF IInv, ListThere, Exists
    <2> QED
      BY <1>5, <1>9, <2>1, <2>4, <2>5, HoleFilled DEF IInv
  <1> QED
    BY <1>7, <1>8, <1>9 DEF write_sector, k

LEMMA UnlinkKeeps ==
    ASSUME IInv, NEW e \in Entries, unlink_inode(e)
    PROVE  IInv'
  <1>1. TypeOK'
    BY DEF unlink_inode, IInv, TypeOK, vtocVars
  <1>2. ListThere' /\ JobInFile'
    BY DEF unlink_inode, IInv, TypeOK, ListThere, Exists, JobInFile
  <1>3. SectorsApart' /\ UsedIsMarked'
    BY UsesKept DEF unlink_inode
  <1> QED
    BY <1>1, <1>2, <1>3 DEF IInv

\* A file that is destroyed loses every use; some of the sectors are free
\* afterwards, the others are lost.
LEMMA DestroySound ==
    ASSUME IInv, NEW e \in Entries, NEW gone,
           gone = {} \/ gone = Freed(e, 0),
           list[e] # HOLE,
           free' = free \cup gone \cup {list[e]},
           sector_of' = [p \in Places |-> IF p[1] = e THEN HOLE ELSE sector_of[p]],
           list' = [list EXCEPT ![e] = HOLE],
           second' = [second EXCEPT ![e] = HOLE]
    PROVE  SectorsApart' /\ UsedIsMarked' /\ free' \subseteq Available
  <1> DEFINE A == UseMap  B == UseMap'  g == free'
  <1>1. free \subseteq Available /\ HOLE \notin Available /\ list[e] \in Available
    BY HoleNotAvailable DEF IInv, TypeOK
  <1>2. Sound(A, free)
    BY SoundIs DEF IInv
  <1>3. \A u \in Uses : B[u] = IF u[1] = e THEN HOLE ELSE A[u]
    BY UseCases DEF UseMap, SectorOf, LIST, SECOND, IInv, TypeOK
  <1>4. \A x \in gone : /\ x \in Available
                        /\ \E u \in Uses : u[1] = e /\ A[u] = x
    <2> SUFFICES ASSUME NEW x \in gone
                 PROVE  x \in Available /\ \E u \in Uses : u[1] = e /\ A[u] = x
      OBVIOUS
    <2>1. PICK k \in Dropped(0) : x = sector_of[<<e, k>>] /\ x # HOLE
      BY DEF Freed
    <2> DEFINE u == <<e, k>>
    <2>2. u \in Uses /\ u \in Places /\ u[1] = e /\ k # LIST /\ k # SECOND
      BY PlaceIsUse DEF Dropped
    <2>3. A[u] = x
      BY <2>1, <2>2 DEF UseMap, SectorOf
    <2>4. x \in Available
      BY <2>1, <2>2 DEF IInv, TypeOK
    <2> HIDE DEF u, A
    <2> QED
      BY <2>2, <2>3, <2>4
  <1>5. \E u \in Uses : u[1] = e /\ A[u] = list[e]
    <2> DEFINE u == <<e, LIST>>
    <2>1. u \in Uses /\ u[1] = e
      BY Dos33Assumption DEF Uses, LIST, SECOND
    <2>2. A[u] = list[e]
      BY <2>1 DEF UseMap, SectorOf
    <2> HIDE DEF u, A
    <2> QED
      BY <2>1, <2>2
  <1>6. g = free \cup gone \cup {list[e]}
    OBVIOUS
  <1> HIDE DEF A, B, g
  <1>7. \A x \in g : x \in free \/ \E u \in Uses : A[u] = x /\ B[u] = HOLE
    BY <1>3, <1>4, <1>5, <1>6
  <1>8. HOLE \notin g /\ g \subseteq Available
    BY <1>1, <1>4, <1>6
  <1>9. Sound(B, g)
    <2>1. \A u \in Uses : B[u] = A[u] \/ B[u] = HOLE \/ B[u] \in free \ g
      BY <1>3
    <2>2. \A u, w \in Uses : u # w /\ B[u] \in free => B[u] # B[w]
      BY <1>1, <1>2, <1>3 DEF Sound
    <2> QED
      BY <1>2, <1>7, <1>8, <2>1, <2>2, UsesChange
  <1> QED
    BY <1>8, <1>9 DEF B, g, UseMap, Sound, SectorsApart, UsedIsMarked

LEMMA DestroyKeeps ==
    ASSUME IInv, NEW e \in Entries, destroy_inode(e)
    PROVE  IInv'
  <1>1. CASE GoesAstray(e)
    BY <1>1, StuckKeeps DEF GoesAstray
  <1>2. CASE ~GoesAstray(e)
    <2> DEFINE gone == IF size[e] = 0 THEN {} ELSE Freed(e, 0)
    <2>1. /\ free' = free \cup gone \cup {list[e]}
          /\ data' = IF size[e] = 0 THEN data ELSE Cut(e, 0)
          /\ sector_of' = [p \in Places |-> IF p[1] = e THEN HOLE ELSE sector_of[p]]
          /\ list' = [list EXCEPT ![e] = HOLE]
          /\ second' = [second EXCEPT ![e] = HOLE]
          /\ size' = [size EXCEPT ![e] = 0]
          /\ state' = [state EXCEPT ![e] = "free"]
          /\ UNCHANGED <<last_track, direction, job, stuck>>
      BY <1>2 DEF destroy_inode
    <2>2. list[e] # HOLE
      BY DEF destroy_inode, IInv, ListThere, Exists
    <2>3. SectorsApart' /\ UsedIsMarked' /\ free' \subseteq Available
      BY <2>1, <2>2, DestroySound
    <2>4. TypeOK'
      <3>1. data' \in [Available -> [Offsets -> Values \cup {0}]]
        BY <2>1, CutType DEF IInv, TypeOK
      <3>2. size' \in [Entries -> 0..MaxSize]
        BY <2>1, Dos33Assumption DEF IInv, TypeOK
      <3>3. sector_of' \in [Places -> Available \cup {HOLE}]
        BY <2>1 DEF IInv, TypeOK
      <3>4. /\ list' \in [Entries -> Available \cup {HOLE}]
            /\ second' \in [Entries -> Available \cup {HOLE}]
            /\ state' \in [Entries -> {"free", "linked", "unlinked"}]
        BY <2>1 DEF IInv, TypeOK
      <3>5. UNCHANGED <<last_track, direction, job, stuck>>
        BY <2>1
      <3> QED
        BY <2>3, <3>1, <3>2, <3>3, <3>4, <3>5 DEF IInv, TypeOK
    <2>5. ListThere' /\ JobInFile'
      BY <2>1 DEF IInv, TypeOK, ListThere, Exists, JobInFile
    <2> QED
      BY <2>3, <2>4, <2>5 DEF IInv
  <1> QED
    BY <1>1, <1>2

LEMMA NextKeeps == IInv /\ [Next]_vars => IInv'
  <1> SUFFICES ASSUME IInv, [Next]_vars
               PROVE  IInv'
    OBVIOUS
  <1>1. ASSUME NEW e \in Entries, make_inode(e) \/ unlink_inode(e) \/ destroy_inode(e)
        PROVE  IInv'
    BY <1>1, MakeKeeps, UnlinkKeeps, DestroyKeeps
  <1>2. ASSUME NEW e \in Entries, NEW n \in 0..MaxSize, truncate_inode(e, n)
        PROVE  IInv'
    BY <1>2, TruncateKeeps
  <1>3. ASSUME NEW e \in Entries, NEW at \in 0..MaxSize, NEW count \in 0..MaxCount,
               NEW v \in Values, write_file(e, at, count, v)
        PROVE  IInv'
    BY <1>3, WriteFileKeeps
  <1>4. CASE write_sector
    BY <1>4, WriteSectorKeeps
  <1>5. CASE UNCHANGED vars
    <2>1. TypeOK' /\ ListThere' /\ JobInFile'
      BY <1>5 DEF vars, IInv, TypeOK, ListThere, Exists, JobInFile
    <2>2. SectorsApart' /\ UsedIsMarked'
      BY <1>5, UsesKept DEF vars, vtocVars
    <2> QED
      BY <2>1, <2>2 DEF IInv
  <1> QED
    BY <1>1, <1>2, <1>3, <1>4, <1>5 DEF Next

LEMMA Invariance == Spec => []IInv
  BY InitIInv, NextKeeps, PTL DEF Spec

-----------------------------------------------------------------------------
(* The theorems                                                            *)

\* The variables have their types: no list or bitmap ever names a sector of
\* the boot track or of the catalog's, no offset or size leaves its range.
THEOREM Dos33TypeOK == Spec => []TypeOK
  <1>1. IInv => TypeOK
    BY DEF IInv
  <1> QED
    BY <1>1, Invariance, PTL

\* dos33_allocate_sector(), the T/S lists and dos33fs_destroy_inode() never
\* give one sector two uses.
THEOREM Dos33SectorsApart == Spec => []SectorsApart
  <1>1. IInv => SectorsApart
    BY DEF IInv
  <1> QED
    BY <1>1, Invariance, PTL

\* Every sector in use is marked in the bitmap of the VTOC, whatever order
\* files are created, written, cut and destroyed in.
THEOREM Dos33UsedIsMarked == Spec => []UsedIsMarked
  <1>1. IInv => UsedIsMarked
    BY DEF IInv
  <1> QED
    BY <1>1, Invariance, PTL

-----------------------------------------------------------------------------
(* The file system implements the store of files                           *)

\* Files fit their first T/S list, as they do but for the liberty.
Sane == "long_files" \notin Liberties

ShortFiles == \A e \in Entries : Which(size[e]) < MAX_TS_ENTRIES

\* Behind the end of a file its sectors are zero, so that it can grow.
TailZero ==
    \A e \in Entries, k \in Positions, o \in Offsets :
        /\ Exists(e) /\ sector_of[<<e, k>>] # HOLE
        /\ k * BLOCK_SIZE + o >= size[e] + HEADER
        => data[sector_of[<<e, k>>]][o] = 0

\* dos33fs_write_file() makes the file as long as it needs before it writes.
JobInside ==
    job # NULL => Exists(job.entry) /\ job.at + job.left <= size[job.entry]

RInv == IInv /\ ShortFiles /\ TailZero /\ JobInside

\* A byte's place determines the byte.
LEMMA PlaceUnique ==
    \A a, c \in Nat, b, d \in Offsets :
        a * BLOCK_SIZE + b = c * BLOCK_SIZE + d => a = c /\ b = d
  <1>1. BLOCK_SIZE \in Nat \ {0}
    BY Dos33Assumption
  <1> SUFFICES ASSUME NEW a \in Nat, NEW c \in Nat, NEW b \in Offsets, NEW d \in Offsets,
                      a * BLOCK_SIZE + b = c * BLOCK_SIZE + d
               PROVE  a = c /\ b = d
    OBVIOUS
  <1>2. b \in 0..(BLOCK_SIZE - 1) /\ d \in 0..(BLOCK_SIZE - 1)
    BY DEF Offsets
  <1>3. ~(a < c)
    <2> SUFFICES ASSUME a < c PROVE FALSE
      OBVIOUS
    <2>1. (a + 1) * BLOCK_SIZE <= c * BLOCK_SIZE
      BY <1>1
    <2>2. (a + 1) * BLOCK_SIZE = a * BLOCK_SIZE + BLOCK_SIZE
      BY <1>1
    <2> QED
      BY <1>1, <1>2, <2>1, <2>2
  <1>4. ~(c < a)
    <2> SUFFICES ASSUME c < a PROVE FALSE
      OBVIOUS
    <2>1. (c + 1) * BLOCK_SIZE <= a * BLOCK_SIZE
      BY <1>1
    <2>2. (c + 1) * BLOCK_SIZE = c * BLOCK_SIZE + BLOCK_SIZE
      BY <1>1
    <2> QED
      BY <1>1, <1>2, <2>1, <2>2
  <1>5. a = c
    BY <1>3, <1>4
  <1> QED
    BY <1>1, <1>2, <1>5

\* Bytes further on are not in earlier sectors.
LEMMA WhichMonotone ==
    \A m, n \in Nat : m <= n => Which(m) <= Which(n)
  <1> SUFFICES ASSUME NEW m \in Nat, NEW n \in Nat, m <= n, Which(n) < Which(m)
               PROVE  FALSE
    BY Place
  <1>1. BLOCK_SIZE \in Nat \ {0} /\ HEADER \in Nat
    BY Dos33Assumption
  <1> DEFINE a == Which(m)  c == Which(n)  b == Offset(m)  d == Offset(n)
  <1>2. /\ a \in Nat /\ c \in Nat /\ b \in 0..(BLOCK_SIZE - 1) /\ d \in 0..(BLOCK_SIZE - 1)
        /\ a * BLOCK_SIZE + b = m + HEADER
        /\ c * BLOCK_SIZE + d = n + HEADER
    BY Place DEF Offsets
  <1>3. c < a
    OBVIOUS
  <1> HIDE DEF a, b, c, d
  <1>4. (c + 1) * BLOCK_SIZE <= a * BLOCK_SIZE
    BY <1>1, <1>2, <1>3
  <1>5. (c + 1) * BLOCK_SIZE = c * BLOCK_SIZE + BLOCK_SIZE
    BY <1>1, <1>2
  <1> QED
    BY <1>1, <1>2, <1>4, <1>5

\* A sector with data is the data of one place of one file, and not free.
LEMMA DataApart ==
    ASSUME IInv
    PROVE  \A p, q \in Places :
              /\ sector_of[p] # HOLE /\ p # q => sector_of[p] # sector_of[q]
              /\ sector_of[p] \notin free
  <1> SUFFICES ASSUME NEW p \in Places, NEW q \in Places
               PROVE  /\ sector_of[p] # HOLE /\ p # q => sector_of[p] # sector_of[q]
                      /\ sector_of[p] \notin free
    OBVIOUS
  <1>1. /\ p \in Uses /\ p[2] # LIST /\ p[2] # SECOND
        /\ q \in Uses /\ q[2] # LIST /\ q[2] # SECOND
    BY Dos33Assumption DEF Places, Positions, Uses, LIST, SECOND
  <1>2. SectorOf(p) = sector_of[p] /\ SectorOf(q) = sector_of[q]
    BY <1>1 DEF SectorOf
  <1> QED
    BY <1>1, <1>2 DEF IInv, SectorsApart, UsedIsMarked

\* The byte at offset i of a file is at a place its T/S list has.
LEMMA ByteHasPlace ==
    ASSUME RInv, NEW e \in Entries, NEW i \in 0..(size[e] - 1)
    PROVE  /\ i \in Nat
           /\ Which(i) \in Positions /\ <<e, Which(i)>> \in Places
           /\ Offset(i) \in Offsets
           /\ Which(i) * BLOCK_SIZE + Offset(i) = i + HEADER
           /\ Unit(e, i) \in Values \cup {0}
  <1>1. size[e] \in Nat /\ i \in Nat /\ i <= size[e]
    BY Dos33Assumption DEF RInv, IInv, TypeOK
  <1>2. Which(i) <= Which(size[e]) /\ Which(size[e]) < MAX_TS_ENTRIES
    BY <1>1, WhichMonotone DEF RInv, ShortFiles
  <1>3. Which(i) \in Positions /\ <<e, Which(i)>> \in Places
    <2>1. Which(i) \in Nat /\ Which(size[e]) \in Nat /\ MAX_TS_ENTRIES \in Nat
      BY <1>1, Place, Dos33Assumption
    <2>2. Which(i) \in Positions
      BY <1>2, <2>1 DEF Positions
    <2> QED
      BY <2>2 DEF Places
  <1>4. Offset(i) \in Offsets /\ Which(i) * BLOCK_SIZE + Offset(i) = i + HEADER
    BY <1>1, Place
  <1>5. Unit(e, i) \in Values \cup {0}
    <2> DEFINE p == <<e, Which(i)>>
    <2>1. sector_of[p] \in Available \cup {HOLE}
      BY <1>3 DEF RInv, IInv, TypeOK
    <2> HIDE DEF p
    <2>2. sector_of[p] # HOLE => data[sector_of[p]][Offset(i)] \in Values \cup {0}
      BY <1>4, <2>1 DEF RInv, IInv, TypeOK
    <2> QED
      BY <2>2 DEF Unit, p
  <1> QED
    BY <1>1, <1>3, <1>4, <1>5

\* A file that exists has contents.
LEMMA ContentIs ==
    ASSUME RInv, NEW e \in Entries
    PROVE  /\ Exists(e) => /\ content[e] = [i \in 0..(size[e] - 1) |-> Unit(e, i)]
                           /\ content[e] # NULL
           /\ ~Exists(e) => content[e] = NULL
  <1>1. size[e] \in 0..MaxSize
    BY DEF RInv, IInv, TypeOK
  <1>2. [i \in 0..(size[e] - 1) |-> Unit(e, i)] \in [0..(size[e] - 1) -> Values \cup {0}]
    BY ByteHasPlace
  <1>3. [i \in 0..(size[e] - 1) |-> Unit(e, i)] # NULL
    BY <1>1, <1>2, NullAssumption
  <1> QED
    BY <1>3 DEF content

\* A step that changes nothing a file is read by leaves its contents.
LEMMA ContentKept ==
    ASSUME RInv, NEW e \in Entries,
           state'[e] = state[e] \/ (state[e] = "linked" /\ state'[e] = "unlinked"),
           size'[e] = size[e],
           \A k \in Positions : /\ sector_of'[<<e, k>>] = sector_of[<<e, k>>]
                                /\ sector_of[<<e, k>>] # HOLE =>
                                      data'[sector_of[<<e, k>>]] = data[sector_of[<<e, k>>]]
    PROVE  content'[e] = content[e]
  <1>1. ASSUME NEW i \in 0..(size[e] - 1)
        PROVE  Unit(e, i)' = Unit(e, i)
    BY ByteHasPlace DEF Unit
  <1>2. Exists(e)' = Exists(e)
    BY DEF Exists
  <1>3. [i \in 0..(size[e] - 1) |-> Unit(e, i)]' = [i \in 0..(size[e] - 1) |-> Unit(e, i)]
    BY <1>1
  <1> QED
    BY <1>2, <1>3 DEF content

LEMMA ContentChanges ==
    ASSUME NEW e \in Entries, NEW g, content'[e] = g,
           \A f \in Entries \ {e} : content'[f] = content[f]
    PROVE  content' = [content EXCEPT ![e] = g]
  BY DEF content

\* The first byte of a new file is behind the header, in the first sector.
LEMMA FirstPlace == Which(0) = 0 /\ 0 \in Positions
  <1>1. HEADER \in Offsets /\ BLOCK_SIZE \in Nat
    BY Dos33Assumption DEF Offsets
  <1>2. Which(0) \in Nat /\ Offset(0) \in Offsets /\ Which(0) * BLOCK_SIZE + Offset(0) = 0 + HEADER
    BY Place
  <1>3. 0 * BLOCK_SIZE + HEADER = 0 + HEADER
    BY <1>1, Dos33Assumption
  <1>4. Which(0) = 0
    BY <1>1, <1>2, <1>3, PlaceUnique
  <1> QED
    BY <1>4, Dos33Assumption DEF Positions

\* make_inode: the header's sector is zero and nobody else's.
LEMMA MakeImplements ==
    ASSUME RInv, NEW e \in Entries, make_inode(e), ~Fills
    PROVE  S!Create(e) /\ RInv'
  <1>1. IInv'
    BY MakeKeeps DEF RInv
  <1>2. PICK s \in free, d \in free :
            /\ sector_of' = [p \in Places |-> IF p[1] # e THEN sector_of[p]
                                              ELSE IF p[2] = 0 THEN d ELSE HOLE]
            /\ data' = [data EXCEPT ![d] = Zeros]
            /\ size' = [size EXCEPT ![e] = 0]
            /\ state' = [state EXCEPT ![e] = "linked"]
            /\ UNCHANGED <<job, stuck>>
    BY DEF make_inode
  <1>3. d \in Available /\ state[e] = "free" /\ job = NULL
    BY DEF RInv, IInv, TypeOK, make_inode, Exists, Ready
  <1>4. \A f \in Entries, k \in Positions : <<f, k>> \in Places
    BY PlaceIsUse
  <1>5. ASSUME NEW f \in Entries, f # e, NEW k \in Positions
        PROVE  /\ sector_of'[<<f, k>>] = sector_of[<<f, k>>]
               /\ sector_of[<<f, k>>] # HOLE =>
                     data'[sector_of[<<f, k>>]] = data[sector_of[<<f, k>>]]
    <2> DEFINE x == sector_of[<<f, k>>]
    <2>1. x \notin free /\ x \in Available \cup {HOLE}
      BY <1>4, DataApart DEF RInv, IInv, TypeOK
    <2>2. sector_of'[<<f, k>>] = x
      BY <1>2, <1>4, <1>5
    <2> HIDE DEF x
    <2>3. x # HOLE => data'[x] = data[x]
      BY <1>2, <2>1 DEF RInv, IInv, TypeOK
    <2> QED
      BY <2>2, <2>3 DEF x
  <1>6. /\ state'[e] = "linked" /\ size'[e] = 0
        /\ \A f \in Entries \ {e} : state'[f] = state[f] /\ size'[f] = size[f]
    BY <1>2 DEF RInv, IInv, TypeOK
  <1>7. ShortFiles'
    <2> SUFFICES ASSUME NEW f \in Entries
                 PROVE  Which(size'[f]) < MAX_TS_ENTRIES
      BY DEF ShortFiles, Which
    <2>1. Which(0) < MAX_TS_ENTRIES
      BY FirstPlace, Dos33Assumption
    <2> QED
      BY <1>6, <2>1 DEF RInv, ShortFiles
  <1>8. TailZero'
    <2> SUFFICES ASSUME NEW f \in Entries, NEW k \in Positions, NEW o \in Offsets,
                        Exists(f)', sector_of'[<<f, k>>] # HOLE,
                        k * BLOCK_SIZE + o >= size'[f] + HEADER
                 PROVE  data'[sector_of'[<<f, k>>]][o] = 0
      BY DEF TailZero
    <2>1. CASE f = e
      <3>1. sector_of'[<<e, k>>] = d
        BY <1>2, <1>4, <2>1
      <3>2. data'[d] = Zeros
        BY <1>2, <1>3 DEF RInv, IInv, TypeOK
      <3> QED
        BY <2>1, <3>1, <3>2 DEF Zeros
    <2>2. CASE f # e
      BY <1>5, <1>6, <2>2 DEF RInv, TailZero, Exists
    <2> QED
      BY <2>1, <2>2
  <1>9. JobInside'
    BY <1>2, <1>3 DEF JobInside
  <1>10. content[e] = NULL
    BY <1>3 DEF content, Exists
  <1>11. content'[e] = [i \in 0..-1 |-> 0]
    <2>1. content'[e] = [i \in 0..(0 - 1) |-> Unit(e, i)']
      BY <1>6 DEF content, Exists
    <2>2. 0..(0 - 1) = {} /\ 0..-1 = {}
      OBVIOUS
    <2> QED
      BY <2>1, <2>2
  <1>12. \A f \in Entries \ {e} : content'[f] = content[f]
    BY <1>5, <1>6, ContentKept
  <1>13. S!Create(e)
    BY <1>10, <1>11, <1>12, ContentChanges DEF S!Create
  <1> QED
    BY <1>1, <1>7, <1>8, <1>9, <1>13 DEF RInv

\* dos33fs_grow_file(): the new bytes are zero because the tail is.
LEMMA GrownImplements ==
    ASSUME Sane, RInv, NEW e \in Entries, NEW n \in 0..MaxSize, Grown(e, n), Exists(e),
           n > size[e], MayHave(n)
    PROVE  S!Resize(e, n) /\ ShortFiles' /\ TailZero'
  <1>1. /\ UNCHANGED <<state, sector_of, data>>
        /\ size'[e] = n /\ size[e] \in 0..MaxSize
        /\ \A f \in Entries \ {e} : size'[f] = size[f]
    BY DEF Grown, RInv, IInv, TypeOK
  <1>2. Which(n) < MAX_TS_ENTRIES
    BY DEF MayHave, Sane
  <1>3. ShortFiles'
    <2> SUFFICES ASSUME NEW f \in Entries
                 PROVE  Which(size'[f]) < MAX_TS_ENTRIES
      BY DEF ShortFiles, Which
    <2> QED
      BY <1>1, <1>2 DEF RInv, ShortFiles
  <1>4. TailZero'
    <2> SUFFICES ASSUME NEW f \in Entries, NEW k \in Positions, NEW o \in Offsets,
                        Exists(f)', sector_of'[<<f, k>>] # HOLE,
                        k * BLOCK_SIZE + o >= size'[f] + HEADER
                 PROVE  data'[sector_of'[<<f, k>>]][o] = 0
      BY DEF TailZero
    <2>1. k * BLOCK_SIZE + o \in Int /\ HEADER \in Nat /\ MaxSize \in Nat
      BY Dos33Assumption DEF Positions, Offsets
    <2>2. size[f] \in 0..MaxSize /\ size'[f] >= size[f] /\ size'[f] \in Nat
      BY <1>1, Dos33Assumption DEF RInv, IInv, TypeOK
    <2>3. k * BLOCK_SIZE + o >= size[f] + HEADER
      BY <2>1, <2>2
    <2> QED
      BY <1>1, <2>3 DEF RInv, TailZero, Exists
  <1>5. /\ content[e] = [i \in 0..(size[e] - 1) |-> Unit(e, i)]
        /\ content[e] # NULL
    BY ContentIs
  <1>6. \A f \in Entries \ {e} : content'[f] = content[f]
    BY <1>1, ContentKept
  <1>7. ASSUME NEW i \in 0..(n - 1), i \notin 0..(size[e] - 1)
        PROVE  Unit(e, i) = 0
    <2>1. i \in Nat /\ i >= size[e] /\ i <= n /\ n \in Nat
      BY <1>1, <1>7, Dos33Assumption
    <2>2. /\ Which(i) \in Nat /\ Which(i) <= Which(n) /\ Which(n) \in Nat
          /\ Offset(i) \in Offsets
          /\ Which(i) * BLOCK_SIZE + Offset(i) = i + HEADER
      BY <2>1, Place, WhichMonotone
    <2>3. Which(i) \in Positions
      BY <1>2, <2>2, Dos33Assumption DEF Positions
    <2>4. i + HEADER >= size[e] + HEADER
      BY <1>1, <2>1, Dos33Assumption
    <2> QED
      BY <2>2, <2>3, <2>4 DEF RInv, TailZero, Unit
  <1>8. content'[e] = [i \in 0..(n - 1) |-> IF i \in DOMAIN content[e] THEN content[e][i] ELSE 0]
    <2>1. content'[e] = [i \in 0..(n - 1) |-> Unit(e, i)]
      BY <1>1 DEF content, Exists, Unit
    <2> QED
      BY <1>5, <1>7, <2>1
  <1> QED
    BY <1>3, <1>4, <1>5, <1>6, <1>8, ContentChanges DEF S!Resize

\* What Cut() zeroes belongs to one file, and lies behind its end.
LEMMA CutKeeps ==
    ASSUME RInv, NEW e \in Entries, NEW n \in Nat, data' = Cut(e, n)
    PROVE  /\ \A f \in Entries \ {e}, k \in Positions :
                 sector_of[<<f, k>>] # HOLE =>
                    data'[sector_of[<<f, k>>]] = data[sector_of[<<f, k>>]]
           /\ \A k \in Positions, o \in Offsets :
                 sector_of[<<e, k>>] # HOLE =>
                    data'[sector_of[<<e, k>>]][o] =
                       IF k * BLOCK_SIZE + o >= n + HEADER
                       THEN 0 ELSE data[sector_of[<<e, k>>]][o]
  <1>1. \A f \in Entries, k \in Positions :
           /\ <<f, k>> \in Places
           /\ sector_of[<<f, k>>] \in Available \cup {HOLE}
    BY PlaceIsUse DEF RInv, IInv, TypeOK
  <1>2. ASSUME NEW f \in Entries, f # e, NEW k \in Positions, sector_of[<<f, k>>] # HOLE
        PROVE  data'[sector_of[<<f, k>>]] = data[sector_of[<<f, k>>]]
    <2> DEFINE x == sector_of[<<f, k>>]
    <2>1. \A l \in Positions : sector_of[<<e, l>>] # x
      BY <1>1, <1>2, DataApart DEF RInv
    <2>2. x \in Available
      BY <1>1, <1>2
    <2> HIDE DEF x
    <2>3. data'[x] = [o \in Offsets |-> data[x][o]]
      BY <2>1, <2>2 DEF Cut
    <2> QED
      BY <2>2, <2>3 DEF RInv, IInv, TypeOK, x
  <1>3. ASSUME NEW k \in Positions, NEW o \in Offsets, sector_of[<<e, k>>] # HOLE
        PROVE  data'[sector_of[<<e, k>>]][o] = IF k * BLOCK_SIZE + o >= n + HEADER
                                               THEN 0 ELSE data[sector_of[<<e, k>>]][o]
    <2> DEFINE x == sector_of[<<e, k>>]
    <2>1. \A l \in Positions : sector_of[<<e, l>>] = x => l = k
      BY <1>1, <1>3, DataApart DEF RInv
    <2>2. x \in Available
      BY <1>1, <1>3
    <2>3. sector_of[<<e, k>>] = x
      OBVIOUS
    <2> HIDE DEF x
    <2>4. data'[x][o] = IF \E l \in Positions : /\ sector_of[<<e, l>>] = x
                                                /\ l * BLOCK_SIZE + o >= n + HEADER
                        THEN 0 ELSE data[x][o]
      BY <2>2 DEF Cut
    <2>5. data'[x][o] = IF k * BLOCK_SIZE + o >= n + HEADER THEN 0 ELSE data[x][o]
      BY <2>1, <2>3, <2>4
    <2> QED
      BY <2>5 DEF x
  <1> QED
    BY <1>2, <1>3

LEMMA ShrunkImplements ==
    ASSUME RInv, NEW e \in Entries, NEW n \in 0..MaxSize, Shrunk(e, n), Exists(e),
           n < size[e], size' = [size EXCEPT ![e] = n],
           UNCHANGED <<state, job, stuck>>
    PROVE  S!Resize(e, n) /\ ShortFiles' /\ TailZero'
  <1>1. /\ n \in Nat /\ size[e] \in 0..MaxSize /\ size'[e] = n /\ MaxSize \in Nat
        /\ \A f \in Entries \ {e} : size'[f] = size[f]
    BY Dos33Assumption DEF RInv, IInv, TypeOK
  <1>2. /\ data' = Cut(e, n)
        /\ sector_of' = [p \in Places |-> IF p[1] = e /\ p[2] \in Dropped(n)
                                          THEN HOLE ELSE sector_of[p]]
    BY DEF Shrunk
  <1>3. \A f \in Entries, k \in Positions :
           /\ <<f, k>> \in Places
           /\ sector_of'[<<f, k>>] = IF f = e /\ k \in Dropped(n) THEN HOLE
                                     ELSE sector_of[<<f, k>>]
    BY <1>2, PlaceIsUse
  <1>4. ShortFiles'
    <2> SUFFICES ASSUME NEW f \in Entries
                 PROVE  Which(size'[f]) < MAX_TS_ENTRIES
      BY DEF ShortFiles, Which
    <2>1. Which(n) \in Nat /\ Which(size[e]) \in Nat /\ Which(n) <= Which(size[e])
      BY <1>1, Place, WhichMonotone
    <2> QED
      BY <1>1, <2>1, Dos33Assumption DEF RInv, ShortFiles
  <1>5. TailZero'
    <2> SUFFICES ASSUME NEW f \in Entries, NEW k \in Positions, NEW o \in Offsets,
                        Exists(f)', sector_of'[<<f, k>>] # HOLE,
                        k * BLOCK_SIZE + o >= size'[f] + HEADER
                 PROVE  data'[sector_of'[<<f, k>>]][o] = 0
      BY DEF TailZero
    <2>1. sector_of'[<<f, k>>] = sector_of[<<f, k>>] /\ sector_of[<<f, k>>] # HOLE
      BY <1>3
    <2>2. CASE f = e
      BY <1>1, <1>2, <2>1, <2>2, CutKeeps
    <2>3. CASE f # e
      BY <1>1, <1>2, <2>1, <2>3, CutKeeps DEF RInv, TailZero, Exists
    <2> QED
      BY <2>2, <2>3
  <1>6. /\ content[e] = [i \in 0..(size[e] - 1) |-> Unit(e, i)]
        /\ content[e] # NULL
    BY ContentIs
  <1>7. \A f \in Entries \ {e} : content'[f] = content[f]
    BY <1>1, <1>2, <1>3, CutKeeps, ContentKept
  <1>8. ASSUME NEW i \in 0..(n - 1)
        PROVE  i \in 0..(size[e] - 1) /\ Unit(e, i)' = Unit(e, i)
    <2>1. i \in 0..(size[e] - 1)
      BY <1>1
    <2> DEFINE k == Which(i)  o == Offset(i)
    <2>2. /\ k \in Positions /\ o \in Offsets /\ i \in Nat
          /\ k * BLOCK_SIZE + o = i + HEADER
      BY <2>1, ByteHasPlace
    <2>3. ~(k * BLOCK_SIZE + o >= n + HEADER)
      BY <1>1, <2>2, Dos33Assumption
    <2>4. k \notin Dropped(n)
      <3>1. k * BLOCK_SIZE \in Int /\ o \in Nat /\ n + HEADER \in Nat
        BY <1>1, <2>2, Dos33Assumption DEF Positions, Offsets
      <3>2. ~(k * BLOCK_SIZE >= n + HEADER)
        BY <2>3, <3>1
      <3> QED
        BY <3>2 DEF Dropped
    <2>5. sector_of'[<<e, k>>] = sector_of[<<e, k>>]
      BY <1>3, <2>2, <2>4
    <2>6. sector_of[<<e, k>>] # HOLE =>
             data'[sector_of[<<e, k>>]][o] = data[sector_of[<<e, k>>]][o]
      BY <1>1, <1>2, <2>2, <2>3, CutKeeps
    <2> QED
      BY <2>1, <2>5, <2>6 DEF Unit
  <1>9. content'[e] = [i \in 0..(n - 1) |-> IF i \in DOMAIN content[e] THEN content[e][i] ELSE 0]
    <2>1. content'[e] = [i \in 0..(n - 1) |-> Unit(e, i)']
      BY <1>1 DEF content, Exists
    <2> QED
      BY <1>6, <1>8, <2>1
  <1> QED
    BY <1>4, <1>5, <1>6, <1>7, <1>9, ContentChanges DEF S!Resize

\* What the files are read by is unchanged, and so are they.
LEMMA ContentSame ==
    UNCHANGED <<state, size, sector_of, data>> => UNCHANGED content
  BY DEF content, Exists, Unit

\* The bytes that one step of dos33fs_write_file() writes are those of the
\* chunk.
LEMMA InChunk ==
    ASSUME RInv, job # NULL, NEW i \in Nat
    PROVE  i \in job.at..(job.at + Chunk - 1) <=>
              /\ Which(i) = Which(job.at)
              /\ Offset(i) \in Offset(job.at)..(Offset(job.at) + Chunk - 1)
  <1> DEFINE at == job.at  c == Chunk  k == Which(at)  o == Offset(at)
  <1>1. /\ at \in Nat /\ c \in Nat /\ o + c <= BLOCK_SIZE
        /\ HEADER \in Nat /\ BLOCK_SIZE \in Nat
    BY ChunkInSector, Dos33Assumption DEF RInv
  <1>2. k \in Nat /\ o \in 0..(BLOCK_SIZE - 1) /\ k * BLOCK_SIZE + o = at + HEADER
    BY <1>1, Place DEF Offsets
  <1>3. /\ Which(i) \in Nat /\ Offset(i) \in Offsets /\ Offset(i) \in Nat
        /\ Which(i) * BLOCK_SIZE + Offset(i) = i + HEADER
    BY Place, <1>1 DEF Offsets
  <1> HIDE DEF at, c, k, o
  <1>4. ASSUME i \in at..(at + c - 1)
        PROVE  Which(i) = k /\ Offset(i) \in o..(o + c - 1)
    <2>1. o + (i - at) \in o..(o + c - 1) /\ o + (i - at) \in 0..(BLOCK_SIZE - 1)
      BY <1>1, <1>2, <1>4
    <2>2. k * BLOCK_SIZE \in Int
      BY <1>1, <1>2
    <2>3. k * BLOCK_SIZE + (o + (i - at)) = i + HEADER
      BY <1>1, <1>2, <2>2
    <2>4. o + (i - at) \in Offsets
      BY <2>1 DEF Offsets
    <2>5. Which(i) = k /\ Offset(i) = o + (i - at)
      BY <1>2, <1>3, <2>3, <2>4, PlaceUnique
    <2> QED
      BY <2>1, <2>5
  <1>5. ASSUME Which(i) = k, Offset(i) \in o..(o + c - 1)
        PROVE  i \in at..(at + c - 1)
    <2> DEFINE kb == k * BLOCK_SIZE
    <2>1. kb + Offset(i) = i + HEADER /\ kb + o = at + HEADER /\ kb \in Int
      BY <1>1, <1>2, <1>3, <1>5
    <2>2. at \in Nat /\ o \in Int /\ Offset(i) \in Nat /\ HEADER \in Nat
      BY <1>1, <1>2, <1>3
    <2> HIDE DEF kb
    <2>3. i - at = Offset(i) - o
      BY <2>1, <2>2
    <2> QED
      BY <1>1, <1>5, <2>2, <2>3
  <1> QED
    BY <1>4, <1>5 DEF at, c, k, o

\* A sector that is written, an old or a new one, gets the chunk's bytes, and
\* only places of the file in front of its end.
LEMMA WriteImplements ==
    ASSUME RInv, NEW x \in Available, NEW old \in [Offsets -> Values \cup {0}],
           job # NULL, Which(job.at) < MAX_TS_ENTRIES,
           sector_of' = [sector_of EXCEPT ![<<job.entry, Which(job.at)>>] = x],
           data' = [data EXCEPT ![x] = Written(old)],
           \A q \in Places : q # <<job.entry, Which(job.at)>> => sector_of[q] # x,
           \/ sector_of[<<job.entry, Which(job.at)>>] = x /\ old = data[x]
           \/ sector_of[<<job.entry, Which(job.at)>>] = HOLE /\ old = Zeros,
           UNCHANGED <<state, size>>
    PROVE  S!Next /\ TailZero'
  <1> SUFFICES ASSUME NEW e, e = job.entry, NEW at, at = job.at, NEW v, v = job.byte,
                      NEW c, c = Chunk, NEW k, k = Which(at), k < MAX_TS_ENTRIES,
                      NEW p, p = <<e, k>>,
                      sector_of' = [sector_of EXCEPT ![p] = x],
                      \A q \in Places : q # p => sector_of[q] # x,
                      \/ sector_of[p] = x /\ old = data[x]
                      \/ sector_of[p] = HOLE /\ old = Zeros
               PROVE  S!Next /\ TailZero'
    OBVIOUS
  <1>1. /\ e \in Entries /\ at \in Nat /\ k \in Positions /\ p \in Places
        /\ v \in Values
    BY ChunkInSector, Dos33Assumption DEF RInv, Positions, Places
  <1>2. /\ Exists(e) /\ at + c <= size[e] /\ c \in Nat
        /\ size[e] \in 0..MaxSize /\ MaxSize \in Nat
    <2>1. c <= job.left /\ c \in Nat /\ job.left \in Nat
      BY ChunkInSector, Dos33Assumption DEF RInv
    <2>2. Exists(e) /\ at + job.left <= size[e]
      BY DEF RInv, JobInside
    <2>3. size[e] \in 0..MaxSize /\ MaxSize \in Nat
      BY <1>1, Dos33Assumption DEF RInv, IInv, TypeOK
    <2> QED
      BY <1>1, <2>1, <2>2, <2>3
  <1>3. \A q \in Places : sector_of'[q] = IF q = p THEN x ELSE sector_of[q]
    BY <1>1 DEF RInv, IInv, TypeOK
  <1>4. /\ data'[x] = Written(old)
        /\ \A y \in Available : y # x => data'[y] = data[y]
    BY DEF RInv, IInv, TypeOK
  <1>5. \A f \in Entries, l \in Positions :
           /\ <<f, l>> \in Places
           /\ sector_of[<<f, l>>] \in Available \cup {HOLE}
           /\ <<f, l>> = p <=> f = e /\ l = k
    BY PlaceIsUse DEF RInv, IInv, TypeOK
  <1>6. x # HOLE
    BY HoleNotAvailable
  \* The new bytes of the sector, by the old ones at its place.
  <1>7. \A o \in Offsets :
           data'[x][o] = IF o \in Offset(at)..(Offset(at) + c - 1) THEN v ELSE old[o]
    BY <1>4 DEF Written
  <1>8. ASSUME NEW f \in Entries, NEW l \in Positions, <<f, l>> # p
        PROVE  /\ sector_of'[<<f, l>>] = sector_of[<<f, l>>]
               /\ sector_of[<<f, l>>] # HOLE =>
                     data'[sector_of[<<f, l>>]] = data[sector_of[<<f, l>>]]
    <2>1. sector_of[<<f, l>>] # x
      BY <1>5, <1>8
    <2> QED
      BY <1>3, <1>4, <1>5, <1>8, <2>1
  <1>9. ASSUME NEW i \in 0..(size[e] - 1)
        PROVE  Unit(e, i)' = IF i \in at..((at + c) - 1) THEN v ELSE Unit(e, i)
    <2>1. i \in Nat /\ Which(i) \in Positions /\ Offset(i) \in Offsets
      BY <1>1, ByteHasPlace
    <2>2. CASE Which(i) = k
      <3>1. sector_of'[<<e, Which(i)>>] = x
        BY <1>1, <1>3, <2>2
      <3>2. Unit(e, i)' = IF Offset(i) \in Offset(at)..(Offset(at) + c - 1)
                          THEN v ELSE old[Offset(i)]
        BY <1>6, <1>7, <2>1, <3>1 DEF Unit
      <3>3. old[Offset(i)] = Unit(e, i)
        BY <1>6, <2>1, <2>2 DEF Unit, Zeros
      <3>4. i \in at..((at + c) - 1) <=> Offset(i) \in Offset(at)..(Offset(at) + c - 1)
        BY <1>1, <1>2, <2>1, <2>2, InChunk
      <3> QED
        BY <3>2, <3>3, <3>4
    <2>3. CASE Which(i) # k
      <3>1. <<e, Which(i)>> # p
        BY <2>3
      <3>2. Unit(e, i)' = Unit(e, i)
        BY <1>1, <1>8, <2>1, <3>1 DEF Unit
      <3>3. i \notin at..((at + c) - 1)
        BY <1>1, <1>2, <2>1, <2>3, InChunk
      <3> QED
        BY <3>2, <3>3
    <2> QED
      BY <2>2, <2>3
  <1>10. \A f \in Entries \ {e} : content'[f] = content[f]
    <2> SUFFICES ASSUME NEW f \in Entries, f # e
                 PROVE  content'[f] = content[f]
      OBVIOUS
    <2>1. \A l \in Positions : <<f, l>> # p
      OBVIOUS
    <2> QED
      BY <1>8, <2>1, ContentKept
  <1>11. /\ content[e] = [i \in 0..(size[e] - 1) |-> Unit(e, i)]
         /\ content[e] # NULL
    BY <1>1, <1>2, ContentIs
  <1>12. content'[e] = [i \in DOMAIN content[e] |->
                          IF i \in at..((at + c) - 1) THEN v ELSE content[e][i]]
    <2>1. content'[e] = [i \in 0..(size[e] - 1) |-> Unit(e, i)']
      BY <1>1, <1>2 DEF content, Exists
    <2> QED
      BY <1>9, <1>11, <2>1
  <1>13. at..((at + c) - 1) \subseteq DOMAIN content[e]
    <2>1. at..((at + c) - 1) \subseteq 0..(size[e] - 1)
      BY <1>1, <1>2
    <2> QED
      BY <1>11, <2>1
  <1>14. S!Overwrite(e, at, at + c, v)
    <2> DEFINE g == [i \in DOMAIN content[e] |->
                       IF i \in at..((at + c) - 1) THEN v ELSE content[e][i]]
    <2>1. content'[e] = g
      BY <1>12
    <2> HIDE DEF g
    <2>2. content' = [content EXCEPT ![e] = g]
      BY <1>1, <1>10, <2>1, ContentChanges
    <2>3. content[e] # NULL
      BY <1>11
    <2> QED
      BY <1>13, <2>2, <2>3 DEF g, S!Overwrite
  <1>15. TailZero'
    <2> SUFFICES ASSUME NEW f \in Entries, NEW l \in Positions, NEW o \in Offsets,
                        Exists(f)', sector_of'[<<f, l>>] # HOLE,
                        l * BLOCK_SIZE + o >= size'[f] + HEADER
                 PROVE  data'[sector_of'[<<f, l>>]][o] = 0
      BY DEF TailZero
    <2>0. Exists(f) /\ size'[f] = size[f]
      BY DEF Exists
    <2>1. CASE <<f, l>> = p
      <3>1. f = e /\ l = k /\ sector_of'[<<f, l>>] = x
        BY <1>3, <1>5, <2>1
      <3>2. /\ k * BLOCK_SIZE + Offset(at) = at + HEADER
            /\ Offset(at) \in 0..(BLOCK_SIZE - 1) /\ k \in Nat
            /\ BLOCK_SIZE \in Nat /\ HEADER \in Nat /\ o \in 0..(BLOCK_SIZE - 1)
        BY <1>1, Place, Dos33Assumption DEF Offsets
      <3>3. k * BLOCK_SIZE + o >= size[e] + HEADER /\ k * BLOCK_SIZE \in Int
        BY <2>0, <3>1, <3>2
      <3>4. o \notin Offset(at)..(Offset(at) + c - 1)
        BY <1>1, <1>2, <3>2, <3>3
      <3>5. old[o] = 0
        BY <1>2, <3>1, <3>3, <1>6 DEF RInv, TailZero, Zeros
      <3> QED
        BY <1>7, <3>1, <3>4, <3>5
    <2>2. CASE <<f, l>> # p
      BY <1>8, <2>0, <2>2 DEF RInv, TailZero
    <2> QED
      BY <2>1, <2>2
  <1>16. at \in 0..MaxSize /\ at + c \in 0..MaxSize
    BY <1>1, <1>2
  <1> QED
    BY <1>1, <1>14, <1>15, <1>16 DEF S!Next

\* A call that spins or goes astray leaves the files as they are.
LEMMA StuckImplements ==
    ASSUME RInv, IInv',
           UNCHANGED <<state, list, second, sector_of, data, size, vtocVars, job>>
    PROVE  RInv' /\ UNCHANGED content
  <1>1. ShortFiles'
    BY DEF RInv, ShortFiles, Which
  <1>2. TailZero' /\ JobInside'
    BY DEF RInv, TailZero, JobInside, Exists
  <1> QED
    BY <1>1, <1>2, ContentSame DEF RInv

LEMMA TruncateImplements ==
    ASSUME Sane, RInv, NEW e \in Entries, NEW n \in 0..MaxSize, truncate_inode(e, n)
    PROVE  RInv' /\ (S!Resize(e, n) \/ UNCHANGED content)
  <1>1. IInv'
    BY TruncateKeeps DEF RInv
  <1>2. Exists(e) /\ MayHave(n) /\ job = NULL
    BY DEF truncate_inode, Ready
  <1>3. CASE Fills \/ GoesAstray(e)
    BY <1>1, <1>3, StuckImplements DEF Fills, GoesAstray
  <1>4. CASE n > size[e] /\ Grown(e, n) /\ UNCHANGED job
    <2>1. JobInside'
      BY <1>2, <1>4 DEF JobInside
    <2> QED
      BY <1>1, <1>2, <1>4, <2>1, GrownImplements DEF RInv
  <1>5. CASE /\ n < size[e] /\ Shrunk(e, n)
             /\ size' = [size EXCEPT ![e] = n]
             /\ UNCHANGED <<state, job, stuck>>
    <2>1. JobInside'
      BY <1>2, <1>5 DEF JobInside
    <2> QED
      BY <1>1, <1>2, <1>5, <2>1, ShrunkImplements DEF RInv
  <1> QED
    BY <1>3, <1>4, <1>5 DEF truncate_inode

LEMMA WriteFileImplements ==
    ASSUME Sane, RInv, NEW e \in Entries, NEW at \in 0..MaxSize,
           NEW count \in 0..MaxCount, NEW v \in Values, write_file(e, at, count, v)
    PROVE  /\ RInv'
           /\ at + count \in 0..MaxSize
           /\ S!Resize(e, at + count) \/ UNCHANGED content
  <1> DEFINE n == at + count
             new == [entry |-> e, at |-> at, left |-> count, byte |-> v]
  <1>1. IInv'
    BY WriteFileKeeps DEF RInv
  <1>2. Exists(e) /\ MayHave(n) /\ n \in 0..MaxSize
    BY Dos33Assumption DEF write_file, MayHave
  <1>3. new.entry = e /\ new.at + new.left = n
    OBVIOUS
  <1> HIDE DEF n, new
  <1>4. CASE Fills \/ GoesAstray(e)
    BY <1>1, <1>2, <1>4, StuckImplements DEF Fills, GoesAstray, n
  <1>5. CASE n > size[e] /\ Grown(e, n) /\ job' = new
    <2>1. size'[e] = n /\ UNCHANGED state
      BY <1>5 DEF Grown, RInv, IInv, TypeOK
    <2>2. JobInside'
      BY <1>2, <1>3, <1>5, <2>1 DEF JobInside, Exists
    <2> QED
      BY <1>1, <1>2, <1>5, <2>2, GrownImplements DEF RInv, n
  <1>6. CASE /\ n <= size[e] /\ job' = new
             /\ UNCHANGED <<state, list, second, sector_of, data, size, vtocVars, stuck>>
    <2>1. JobInside'
      BY <1>2, <1>3, <1>6 DEF JobInside, Exists
    <2>2. ShortFiles'
      BY <1>6 DEF RInv, ShortFiles, Which
    <2>3. TailZero'
      BY <1>6 DEF RInv, TailZero, Exists
    <2> QED
      BY <1>1, <1>2, <1>6, <2>1, <2>2, <2>3, ContentSame DEF RInv, n
  <1> QED
    BY <1>4, <1>5, <1>6 DEF write_file, n, new

LEMMA WriteSectorImplements ==
    ASSUME RInv, write_sector
    PROVE  RInv' /\ (S!Next \/ UNCHANGED content)
  <1>1. IInv'
    BY WriteSectorKeeps DEF RInv
  <1> DEFINE e == job.entry  c == Chunk  k == Which(job.at)  p == <<e, k>>
  <1>2. job # NULL /\ k \in Nat /\ e \in Entries
    BY ChunkInSector DEF write_sector, RInv
  <1>3. k < MAX_TS_ENTRIES => p \in Places /\ sector_of[p] \in Available \cup {HOLE}
    BY <1>2, Dos33Assumption DEF Places, Positions, RInv, IInv, TypeOK
  <1>4. CASE Fills \/ GoesAstray(e)
    BY <1>1, <1>4, StuckImplements DEF Fills, GoesAstray
  \* What is common to writing into a sector and filling a hole.
  <1>5. ASSUME NEW x \in Available, NEW old \in [Offsets -> Values \cup {0}],
               k < MAX_TS_ENTRIES,
               sector_of' = [sector_of EXCEPT ![p] = x],
               data' = [data EXCEPT ![x] = Written(old)],
               \A q \in Places : q # p => sector_of[q] # x,
               \/ sector_of[p] = x /\ old = data[x]
               \/ sector_of[p] = HOLE /\ old = Zeros,
               job' = Remaining,
               UNCHANGED <<state, size>>
        PROVE  RInv' /\ S!Next
    <2>1. S!Next /\ TailZero'
      BY <1>2, <1>5, WriteImplements
    <2>2. ShortFiles'
      BY <1>5 DEF RInv, ShortFiles, Which
    <2>3. JobInside'
      <3> SUFFICES ASSUME Remaining # NULL
                   PROVE  /\ Exists(Remaining.entry)
                          /\ Remaining.at + Remaining.left <= size[Remaining.entry]
        BY <1>5 DEF JobInside, Exists
      <3>1. /\ job \in [entry : Entries, at : 0..MaxSize, left : 0..MaxCount, byte : Values]
            /\ c \in 0..MaxCount /\ MaxSize \in Nat /\ MaxCount \in Nat
        BY <1>2, ChunkInSector, Dos33Assumption DEF RInv
      <3>2. Remaining = [job EXCEPT !.at = job.at + c, !.left = job.left - c]
        BY DEF Remaining
      <3>3. /\ Remaining.entry = job.entry
            /\ Remaining.at = job.at + c /\ Remaining.left = job.left - c
        BY <3>1, <3>2
      <3>4. Remaining.at + Remaining.left = job.at + job.left
        BY <3>1, <3>3
      <3> QED
        BY <1>2, <3>3, <3>4 DEF RInv, JobInside
    <2> QED
      BY <1>1, <2>1, <2>2, <2>3 DEF RInv
  <1>6. CASE /\ k < MAX_TS_ENTRIES /\ sector_of[p] # HOLE
             /\ data' = [data EXCEPT ![sector_of[p]] = Written(@)]
             /\ job' = Remaining
             /\ UNCHANGED <<sector_of, state, size>>
    <2>1. PICK x \in Available : x = sector_of[p]
      BY <1>3, <1>6
    <2>2. PICK old \in [Offsets -> Values \cup {0}] : old = data[x]
      BY <2>1 DEF RInv, IInv, TypeOK
    <2>3. sector_of' = [sector_of EXCEPT ![p] = x]
      BY <1>3, <1>6, <2>1 DEF RInv, IInv, TypeOK
    <2>4. data' = [data EXCEPT ![x] = Written(old)]
      BY <1>6, <2>1, <2>2
    <2>5. \A q \in Places : q # p => sector_of[q] # x
      BY <1>3, <1>6, <2>1, DataApart DEF RInv
    <2> QED
      BY <1>5, <1>6, <2>1, <2>2, <2>3, <2>4, <2>5
  <1>7. ASSUME k < MAX_TS_ENTRIES, sector_of[p] = HOLE,
               NEW s \in free, sector_of' = [sector_of EXCEPT ![p] = s],
               data' = [data EXCEPT ![s] = Written(Zeros)],
               job' = Remaining,
               UNCHANGED <<state, size>>
        PROVE  RInv' /\ S!Next
    <2>1. s \in Available /\ Zeros \in [Offsets -> Values \cup {0}]
      BY DEF RInv, IInv, TypeOK, Zeros
    <2>2. \A q \in Places : q # p => sector_of[q] # s
      BY DataApart DEF RInv
    <2> QED
      BY <1>5, <1>7, <2>1, <2>2
  <1> QED
    BY <1>4, <1>6, <1>7 DEF write_sector

LEMMA UnlinkImplements ==
    ASSUME RInv, NEW e \in Entries, unlink_inode(e)
    PROVE  RInv' /\ UNCHANGED content
  <1>1. IInv'
    BY UnlinkKeeps DEF RInv
  <1>2. /\ UNCHANGED <<sector_of, data, size, job>>
        /\ state[e] = "linked" /\ state' = [state EXCEPT ![e] = "unlinked"]
    BY DEF unlink_inode
  <1>3. \A f \in Entries :
           /\ state'[f] = state[f] \/ (state[f] = "linked" /\ state'[f] = "unlinked")
           /\ Exists(f)' = Exists(f)
    BY <1>2 DEF RInv, IInv, TypeOK, Exists
  <1>4. \A f \in Entries : content'[f] = content[f]
    BY <1>2, <1>3, ContentKept
  <1>5. UNCHANGED content
    BY <1>4 DEF content
  <1>6. ShortFiles'
    BY <1>2 DEF RInv, ShortFiles, Which
  <1>7. TailZero'
    BY <1>2, <1>3 DEF RInv, TailZero
  <1>8. JobInside'
    BY <1>2, <1>3 DEF RInv, JobInside, IInv, TypeOK, unlink_inode, Ready
  <1> QED
    BY <1>1, <1>5, <1>6, <1>7, <1>8 DEF RInv

\* dos33fs_destroy_inode() ends one file and leaves the others.
LEMMA DestroyImplements ==
    ASSUME RInv, NEW e \in Entries, destroy_inode(e), ~GoesAstray(e)
    PROVE  S!Remove(e) /\ RInv'
  <1>1. IInv'
    BY DestroyKeeps DEF RInv
  <1>2. /\ data' = IF size[e] = 0 THEN data ELSE Cut(e, 0)
        /\ sector_of' = [p \in Places |-> IF p[1] = e THEN HOLE ELSE sector_of[p]]
        /\ size' = [size EXCEPT ![e] = 0]
        /\ state' = [state EXCEPT ![e] = "free"]
        /\ job' = job /\ job = NULL /\ Exists(e)
    BY DEF destroy_inode, Ready, Exists
  <1>3. /\ size'[e] = 0 /\ state'[e] = "free"
        /\ \A f \in Entries \ {e} : size'[f] = size[f] /\ state'[f] = state[f]
    BY <1>2 DEF RInv, IInv, TypeOK
  <1>4. \A f \in Entries, k \in Positions :
           /\ <<f, k>> \in Places
           /\ sector_of'[<<f, k>>] = IF f = e THEN HOLE ELSE sector_of[<<f, k>>]
    BY <1>2, PlaceIsUse
  <1>5. \A f \in Entries \ {e}, k \in Positions :
           sector_of[<<f, k>>] # HOLE => data'[sector_of[<<f, k>>]] = data[sector_of[<<f, k>>]]
    BY <1>2, CutKeeps
  <1>6. ShortFiles'
    <2> SUFFICES ASSUME NEW f \in Entries
                 PROVE  Which(size'[f]) < MAX_TS_ENTRIES
      BY DEF ShortFiles, Which
    <2>1. Which(0) < MAX_TS_ENTRIES
      BY FirstPlace, Dos33Assumption
    <2> QED
      BY <1>3, <2>1 DEF RInv, ShortFiles
  <1>7. TailZero'
    <2> SUFFICES ASSUME NEW f \in Entries, NEW k \in Positions, NEW o \in Offsets,
                        Exists(f)', sector_of'[<<f, k>>] # HOLE,
                        k * BLOCK_SIZE + o >= size'[f] + HEADER
                 PROVE  data'[sector_of'[<<f, k>>]][o] = 0
      BY DEF TailZero
    <2>1. f # e
      BY <1>3 DEF Exists
    <2> QED
      BY <1>3, <1>4, <1>5, <2>1 DEF RInv, TailZero, Exists
  <1>8. JobInside'
    BY <1>2 DEF JobInside
  <1>9. content[e] # NULL
    BY <1>2, ContentIs
  <1>10. content'[e] = NULL
    BY <1>3 DEF content, Exists
  <1>11. \A f \in Entries \ {e} : content'[f] = content[f]
    BY <1>3, <1>4, <1>5, ContentKept
  <1>12. S!Remove(e)
    BY <1>9, <1>10, <1>11, ContentChanges DEF S!Remove
  <1> QED
    BY <1>1, <1>6, <1>7, <1>8, <1>12 DEF RInv

LEMMA InitRInv == Init => RInv /\ S!Init
  <1> SUFFICES ASSUME Init
               PROVE  RInv /\ S!Init
    OBVIOUS
  <1>1. IInv
    BY InitIInv
  <1>2. /\ \A e \in Entries : size[e] = 0 /\ ~Exists(e)
        /\ job = NULL
    BY DEF Init, Exists
  <1>3. ShortFiles
    <2>1. Which(0) < MAX_TS_ENTRIES
      BY FirstPlace, Dos33Assumption
    <2> QED
      BY <1>2, <2>1 DEF ShortFiles
  <1>4. TailZero /\ JobInside
    BY <1>2 DEF TailZero, JobInside
  <1>5. content = [e \in Entries |-> NULL]
    BY <1>2 DEF content
  <1> QED
    BY <1>1, <1>3, <1>4, <1>5 DEF RInv, S!Init

LEMMA NextImplements ==
    ASSUME Sane, RInv, [Next]_vars
    PROVE  RInv' /\ [S!Next]_content
  <1>1. ASSUME NEW e \in Entries, make_inode(e)
        PROVE  RInv' /\ [S!Next]_content
    <2>1. CASE Fills
      BY <1>1, <2>1, MakeKeeps, StuckImplements DEF Fills, RInv
    <2>2. CASE ~Fills
      BY <1>1, <2>2, MakeImplements DEF S!Next
    <2> QED
      BY <2>1, <2>2
  <1>2. ASSUME NEW e \in Entries, unlink_inode(e)
        PROVE  RInv' /\ [S!Next]_content
    BY <1>2, UnlinkImplements
  <1>3. ASSUME NEW e \in Entries, destroy_inode(e)
        PROVE  RInv' /\ [S!Next]_content
    <2>1. CASE GoesAstray(e)
      BY <1>3, <2>1, DestroyKeeps, StuckImplements DEF GoesAstray, RInv
    <2>2. CASE ~GoesAstray(e)
      BY <1>3, <2>2, DestroyImplements DEF S!Next
    <2> QED
      BY <2>1, <2>2
  <1>4. ASSUME NEW e \in Entries, NEW n \in 0..MaxSize, truncate_inode(e, n)
        PROVE  RInv' /\ [S!Next]_content
    BY <1>4, TruncateImplements DEF S!Next
  <1>5. ASSUME NEW e \in Entries, NEW at \in 0..MaxSize, NEW count \in 0..MaxCount,
               NEW v \in Values, write_file(e, at, count, v)
        PROVE  RInv' /\ [S!Next]_content
    <2>1. /\ RInv' /\ at + count \in 0..MaxSize
          /\ S!Resize(e, at + count) \/ UNCHANGED content
      BY <1>5, WriteFileImplements
    <2> QED
      BY <2>1 DEF S!Next
  <1>6. CASE write_sector
    BY <1>6, WriteSectorImplements
  <1>7. CASE UNCHANGED vars
    BY <1>7, NextKeeps, StuckImplements DEF vars, vtocVars, RInv
  <1> QED
    BY <1>1, <1>2, <1>3, <1>4, <1>5, <1>6, <1>7 DEF Next

\* As long as every file fits one T/S list, each step of dos33fs on sectors
\* is a step on files that are sequences of bytes of their own, or none.
THEOREM Dos33ImplementsStore == Sane => (Spec => ImplementsStore)
  <1> SUFFICES ASSUME Sane
               PROVE  Spec => ImplementsStore
    OBVIOUS
  <1>1. Init => RInv /\ S!Init
    BY InitRInv
  <1>2. RInv /\ [Next]_vars => RInv' /\ [S!Next]_content
    BY NextImplements
  <1> QED
    BY <1>1, <1>2, PTL DEF Spec, ImplementsStore, S!Spec

=============================================================================
