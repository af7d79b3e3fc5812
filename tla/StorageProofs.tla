------------------------------ MODULE StorageProofs ------------------------------
(***************************************************************************)
(* Proofs about open files, reading them, and the paths that lead there.   *)
(* For any number of processes, descriptors, file objects, inodes, catalog *)
(* entries and names: as long as dup2() is called with two different       *)
(* descriptors of which the old one is open, the use counts cover all      *)
(* users, also when tables are full and inodes leak, and every descriptor  *)
(* denotes the file it was opened on.  For any files and sizes of sectors, *)
(* T/S lists and headers: a read gives the bytes that the file holds from  *)
(* the offset of the object on.  For any devices, mountpoints and paths: a *)
(* path is looked up in the file system mounted deepest along it.  For     *)
(* any catalog, names and buffers: a name finds the first file that begins *)
(* with it, a listing is of the files there are, and what is kept about a  *)
(* file is what was asked for.  For any romfs image without circles, paths *)
(* lead where their names say and listings have every entry once.          *)
(***************************************************************************)
EXTENDS Storage, Recursion, FiniteSetTheorems

Sane == "dup2_misuse" \notin Liberties

\* An inode that has a number was read from disk.
LinksKnown == \A i \in Inodes : inode_number[i] # V => hard_links[i] \in Int

\* What the temporal theorems rest on.  FdDenotes is not inductive without
\* NoDangling: a slot is given away when its count is 0.
Inv == TypeOK /\ LinksKnown /\ NoDangling /\ FdDenotes /\ NamesUnique

-----------------------------------------------------------------------------
(* Sets                                                                    *)

LEMMA LowestIn ==
    ASSUME NEW S, S \subseteq Nat, S # {}
    PROVE  Lowest(S) \in S
  <1>1. \E x \in S : \A y \in S : ~(<<y, x>> \in OpToRel(<, Nat))
    BY WFMin, NatLessThanWellFounded
  <1>2. \A x, y \in Nat : ~(<<y, x>> \in OpToRel(<, Nat)) => x <= y
    BY DEF OpToRel
  <1>3. \E x \in S : \A y \in S : x <= y
    BY <1>1, <1>2
  <1> QED
    BY <1>3 DEF Lowest

LEMMA RefsFinite == IsFiniteSet(Refs)
  <1>1. IsFiniteSet(FDs)
    BY FS_Interval, VfsAssumption DEF FDs
  <1> QED
    BY <1>1, FS_Product, VfsAssumption DEF Refs

\* A set of users shrinks by those that leave ...
LEMMA Lose ==
    ASSUME NEW S, IsFiniteSet(S), NEW T, T \subseteq S, NEW U, U \subseteq S \ T,
           NEW c \in Nat, Cardinality(S) <= c
    PROVE  /\ IsFiniteSet(U) /\ Cardinality(U) \in Nat
           /\ Minus(c, Cardinality(T)) \in Nat
           /\ Cardinality(U) <= Minus(c, Cardinality(T))
  <1>1. S \cap T = T
    OBVIOUS
  <1>2. IsFiniteSet(S \ T) /\ Cardinality(S \ T) = Cardinality(S) - Cardinality(T)
    BY <1>1, FS_Difference
  <1>3. IsFiniteSet(T)
    BY FS_Subset
  <1>4. Cardinality(S) \in Nat /\ Cardinality(T) \in Nat /\ Cardinality(S \ T) \in Nat
    BY <1>2, <1>3, FS_CardinalityType
  <1>5. IsFiniteSet(U) /\ Cardinality(U) <= Cardinality(S \ T)
    BY <1>2, FS_Subset
  <1>6. Cardinality(U) \in Nat
    BY <1>5, FS_CardinalityType
  <1> QED
    BY <1>2, <1>4, <1>5, <1>6 DEF Minus

\* ... and grows by those that come.
LEMMA Gain ==
    ASSUME NEW S, IsFiniteSet(S), NEW T, IsFiniteSet(T), NEW U, U \subseteq S \cup T,
           NEW c \in Nat, Cardinality(S) <= c
    PROVE  Cardinality(T) \in Nat /\ Cardinality(U) <= c + Cardinality(T)
  <1>1. /\ IsFiniteSet(S \cup T) /\ IsFiniteSet(S \cap T)
        /\ Cardinality(S \cup T) = Cardinality(S) + Cardinality(T) - Cardinality(S \cap T)
    BY FS_Union, FS_Intersection
  <1>2. /\ Cardinality(S) \in Nat /\ Cardinality(T) \in Nat
        /\ Cardinality(S \cap T) \in Nat /\ Cardinality(S \cup T) \in Nat
    BY <1>1, FS_CardinalityType
  <1>3. IsFiniteSet(U) /\ Cardinality(U) <= Cardinality(S \cup T)
    BY <1>1, FS_Subset
  <1>4. Cardinality(U) \in Nat
    BY <1>3, FS_CardinalityType
  <1> QED
    BY <1>1, <1>2, <1>3, <1>4

LEMMA OneUser ==
    ASSUME NEW S, IsFiniteSet(S), NEW x \in S
    PROVE  Cardinality(S) \in Nat /\ Cardinality(S) >= 1
  <1>1. Cardinality(S) # 0
    BY FS_EmptySet
  <1> QED
    BY <1>1, FS_CardinalityType

-----------------------------------------------------------------------------
(* Users                                                                   *)

LEMMA UsersFinite ==
    ASSUME NEW refs, refs \subseteq Refs, NEW o, NEW i
    PROVE  IsFiniteSet(RefsTo(refs, o)) /\ IsFiniteSet(RefsIn(refs, i))
  <1>1. RefsTo(refs, o) \subseteq Refs /\ RefsIn(refs, i) \subseteq Refs
    BY DEF RefsTo, RefsIn
  <1> QED
    BY <1>1, RefsFinite, FS_Subset

\* What a descriptor refers to is in use.
LEMMA Referenced ==
    ASSUME Inv, NEW r \in Refs, files[r] # NULL
    PROVE  /\ files[r] \in Files /\ file_count[files[r]] >= 1
           /\ file_inode[files[r]] \in Inodes
           /\ inode_count[file_inode[files[r]]] >= 1
  <1>1. files[r] \in Files /\ file_inode[files[r]] \in Inodes
    BY DEF Inv, TypeOK, FdDenotes
  <1>2. r \in RefsTo(Refs, files[r]) /\ r \in RefsIn(Refs, file_inode[files[r]])
    BY DEF RefsTo, RefsIn
  <1>3. /\ Cardinality(RefsTo(Refs, files[r])) \in Nat
        /\ Cardinality(RefsTo(Refs, files[r])) >= 1
    BY <1>2, UsersFinite, OneUser
  <1>4. /\ Cardinality(RefsIn(Refs, file_inode[files[r]])) \in Nat
        /\ Cardinality(RefsIn(Refs, file_inode[files[r]])) >= 1
    BY <1>2, UsersFinite, OneUser
  <1>5. /\ Cardinality(RefsTo(Refs, files[r])) <= file_count[files[r]]
        /\ Cardinality(RefsIn(Refs, file_inode[files[r]]))
             <= inode_count[file_inode[files[r]]]
        /\ file_count[files[r]] \in Nat
        /\ inode_count[file_inode[files[r]]] \in Nat
    BY <1>1 DEF Inv, NoDangling, TypeOK
  <1> QED
    BY <1>1, <1>3, <1>4, <1>5

\* Freeing the descriptors refs leaves enough count for all others.
LEMMA FreedCovers ==
    ASSUME Inv, NEW refs, refs \subseteq Refs
    PROVE  /\ \A o \in Files : /\ FilesFreed(refs)[o] \in Nat
                               /\ IsFiniteSet(RefsTo(Refs, o) \ refs)
                               /\ Cardinality(RefsTo(Refs, o) \ refs) <= FilesFreed(refs)[o]
           /\ \A i \in Inodes : /\ InodesFreed(refs)[i] \in Nat
                                /\ IsFiniteSet(RefsIn(Refs, i) \ refs)
                                /\ Cardinality(RefsIn(Refs, i) \ refs) <= InodesFreed(refs)[i]
  <1>1. ASSUME NEW o \in Files
        PROVE  /\ FilesFreed(refs)[o] \in Nat
               /\ IsFiniteSet(RefsTo(Refs, o) \ refs)
               /\ Cardinality(RefsTo(Refs, o) \ refs) <= FilesFreed(refs)[o]
    <2>1. /\ RefsTo(refs, o) \subseteq RefsTo(Refs, o)
          /\ RefsTo(Refs, o) \ refs \subseteq RefsTo(Refs, o) \ RefsTo(refs, o)
      BY DEF RefsTo
    <2>2. IsFiniteSet(RefsTo(Refs, o))
      BY UsersFinite
    <2>3. file_count[o] \in Nat /\ Cardinality(RefsTo(Refs, o)) <= file_count[o]
      BY DEF Inv, TypeOK, NoDangling
    <2>4. FilesFreed(refs)[o] = Minus(file_count[o], Cardinality(RefsTo(refs, o)))
      BY DEF FilesFreed
    <2> QED
      BY <2>1, <2>2, <2>3, <2>4, Lose
  <1>2. ASSUME NEW i \in Inodes
        PROVE  /\ InodesFreed(refs)[i] \in Nat
               /\ IsFiniteSet(RefsIn(Refs, i) \ refs)
               /\ Cardinality(RefsIn(Refs, i) \ refs) <= InodesFreed(refs)[i]
    <2>1. /\ RefsIn(refs, i) \subseteq RefsIn(Refs, i)
          /\ RefsIn(Refs, i) \ refs \subseteq RefsIn(Refs, i) \ RefsIn(refs, i)
      BY DEF RefsIn
    <2>2. IsFiniteSet(RefsIn(Refs, i))
      BY UsersFinite
    <2>3. inode_count[i] \in Nat /\ Cardinality(RefsIn(Refs, i)) <= inode_count[i]
      BY DEF Inv, TypeOK, NoDangling
    <2>4. InodesFreed(refs)[i] = Minus(inode_count[i], Cardinality(RefsIn(refs, i)))
      BY DEF InodesFreed
    <2> QED
      BY <2>1, <2>2, <2>3, <2>4, Lose
  <1> QED
    BY <1>1, <1>2

\* In particular what another descriptor refers to stays in use.
LEMMA FreedKeeps ==
    ASSUME Inv, NEW refs, refs \subseteq Refs,
           NEW r \in Refs, r \notin refs, files[r] # NULL
    PROVE  /\ FilesFreed(refs)[files[r]] >= 1
           /\ InodesFreed(refs)[file_inode[files[r]]] >= 1
           /\ file_inode[files[r]] \notin InodesGone(refs)
  <1>1. files[r] \in Files /\ file_inode[files[r]] \in Inodes
    BY Referenced
  <1>2. r \in RefsTo(Refs, files[r]) \ refs /\ r \in RefsIn(Refs, file_inode[files[r]]) \ refs
    BY DEF RefsTo, RefsIn
  <1>3. /\ IsFiniteSet(RefsTo(Refs, files[r]) \ refs)
        /\ Cardinality(RefsTo(Refs, files[r]) \ refs) <= FilesFreed(refs)[files[r]]
        /\ FilesFreed(refs)[files[r]] \in Nat
    BY <1>1, FreedCovers
  <1>4. /\ IsFiniteSet(RefsIn(Refs, file_inode[files[r]]) \ refs)
        /\ Cardinality(RefsIn(Refs, file_inode[files[r]]) \ refs)
             <= InodesFreed(refs)[file_inode[files[r]]]
        /\ InodesFreed(refs)[file_inode[files[r]]] \in Nat
    BY <1>1, FreedCovers
  <1>5. FilesFreed(refs)[files[r]] >= 1
    BY <1>2, <1>3, OneUser
  <1>6. InodesFreed(refs)[file_inode[files[r]]] >= 1
    BY <1>2, <1>4, OneUser
  <1> QED
    BY <1>5, <1>6 DEF InodesGone

-----------------------------------------------------------------------------
(* Kinds of steps                                                          *)

\* No descriptor changes, and no count gets smaller.
LEMMA NoneOpened ==
    ASSUME Inv, TypeOK', files' = files, denotes' = denotes,
           \A o \in Files : file_count[o] <= file_count'[o],
           \A i \in Inodes : inode_count[i] <= inode_count'[i],
           \A o \in Files : file_count[o] >= 1 => file_inode'[o] = file_inode[o],
           \A i \in Inodes : inode_count[i] >= 1 => inode_number'[i] = inode_number[i]
    PROVE  NoDangling' /\ FdDenotes'
  <1>1. ASSUME NEW r \in Refs, files[r] # NULL
        PROVE  /\ file_inode'[files[r]] = file_inode[files[r]]
               /\ inode_number'[file_inode[files[r]]] = inode_number[file_inode[files[r]]]
    BY <1>1, Referenced
  <1>2. FdDenotes'
    BY <1>1 DEF Inv, FdDenotes
  <1>3. ASSUME NEW o \in Files
        PROVE  Cardinality(RefsTo(Refs, o))' <= file_count'[o]
    <2>1. RefsTo(Refs, o)' = RefsTo(Refs, o)
      BY DEF RefsTo
    <2>2. Cardinality(RefsTo(Refs, o)) \in Nat
      BY UsersFinite, FS_CardinalityType
    <2> QED
      BY <2>1, <2>2 DEF Inv, NoDangling, TypeOK
  <1>4. ASSUME NEW i \in Inodes
        PROVE  Cardinality(RefsIn(Refs, i))' <= inode_count'[i]
    <2>1. RefsIn(Refs, i)' = RefsIn(Refs, i)
      BY <1>1 DEF RefsIn
    <2>2. Cardinality(RefsIn(Refs, i)) \in Nat
      BY UsersFinite, FS_CardinalityType
    <2> QED
      BY <2>1, <2>2 DEF Inv, NoDangling, TypeOK
  <1> QED
    BY <1>2, <1>3, <1>4 DEF NoDangling

\* A descriptor that was not in use gets a free file object for inode i.
LEMMA OneOpened ==
    ASSUME Inv, TypeOK', NEW r0 \in Refs, files[r0] = NULL,
           NEW o0 \in Files, file_count[o0] = 0, NEW i0 \in Inodes, NEW n,
           files' = [files EXCEPT ![r0] = o0],
           denotes' = [denotes EXCEPT ![r0] = n],
           file_count' = [file_count EXCEPT ![o0] = 1],
           file_inode' = [file_inode EXCEPT ![o0] = i0],
           \A i \in Inodes : inode_count[i] <= inode_count'[i],
           inode_count[i0] + 1 <= inode_count'[i0],
           inode_number'[i0] = n,
           \A i \in Inodes : inode_count[i] >= 1 => inode_number'[i] = inode_number[i]
    PROVE  NoDangling' /\ FdDenotes'
  <1>1. ASSUME NEW r \in Refs, files[r] # NULL
        PROVE  /\ r # r0 /\ files[r] # o0
               /\ file_inode'[files[r]] = file_inode[files[r]]
               /\ inode_number'[file_inode[files[r]]] = inode_number[file_inode[files[r]]]
    <2>1. files[r] \in Files /\ file_count[files[r]] >= 1
      BY <1>1, Referenced
    <2>2. files[r] # o0
      BY <2>1
    <2> QED
      BY <1>1, <2>1, <2>2, Referenced DEF Inv, TypeOK
  <1>2. files \in [Refs -> Files \cup {NULL}] /\ denotes \in [Refs -> Numbers]
        /\ file_inode \in [Files -> Inodes \cup {NULL}]
        /\ NULL \notin Inodes /\ NULL \notin Files
    BY VfsAssumption DEF Inv, TypeOK, Inodes, Files
  <1>3. \A r \in Refs : files'[r] = IF r = r0 THEN o0 ELSE files[r]
    BY <1>2
  <1>4. FdDenotes'
    <2> SUFFICES ASSUME NEW r \in Refs, files'[r] # NULL
                 PROVE  /\ file_inode'[files'[r]] # NULL
                        /\ inode_number'[file_inode'[files'[r]]] = denotes'[r]
      BY DEF FdDenotes
    <2>1. CASE r = r0
      BY <1>2, <1>3, <2>1
    <2>2. CASE r # r0
      BY <1>1, <1>2, <1>3, <2>2 DEF Inv, FdDenotes
    <2> QED
      BY <2>1, <2>2
  <1>5. ASSUME NEW o \in Files
        PROVE  Cardinality(RefsTo(Refs, o))' <= file_count'[o]
    <2>1. IsFiniteSet(RefsTo(Refs, o)) /\ Cardinality(RefsTo(Refs, o)) <= file_count[o]
      BY UsersFinite DEF Inv, NoDangling
    <2>2. CASE o # o0
      <3>1. RefsTo(Refs, o)' = RefsTo(Refs, o)
        BY <1>2, <1>3, <2>2, VfsAssumption DEF RefsTo
      <3> QED
        BY <2>1, <2>2, <3>1 DEF Inv, TypeOK
    <2>3. CASE o = o0
      <3>1. RefsTo(Refs, o)' = {r0}
        BY <1>1, <1>2, <1>3, <2>3 DEF RefsTo
      <3>2. Cardinality({r0}) = 1
        BY FS_Singleton
      <3>3. file_count'[o] = 1
        BY <2>3 DEF Inv, TypeOK
      <3> QED
        BY <3>1, <3>2, <3>3
    <2> QED
      BY <2>2, <2>3
  <1>6. ASSUME NEW i \in Inodes
        PROVE  Cardinality(RefsIn(Refs, i))' <= inode_count'[i]
    <2>1. /\ IsFiniteSet(RefsIn(Refs, i)) /\ Cardinality(RefsIn(Refs, i)) <= inode_count[i]
          /\ inode_count[i] \in Nat /\ inode_count'[i] \in Nat
      BY UsersFinite DEF Inv, NoDangling, TypeOK
    <2>2. CASE i # i0
      <3>1. RefsIn(Refs, i)' = RefsIn(Refs, i)
        BY <1>1, <1>2, <1>3, <2>2 DEF RefsIn
      <3>2. Cardinality(RefsIn(Refs, i)) \in Nat
        BY <2>1, FS_CardinalityType
      <3> QED
        BY <2>1, <3>1, <3>2
    <2>3. CASE i = i0
      <3>1. RefsIn(Refs, i)' \subseteq RefsIn(Refs, i) \cup {r0}
        BY <1>1, <1>2, <1>3 DEF RefsIn
      <3>2. IsFiniteSet({r0}) /\ Cardinality({r0}) = 1
        BY FS_Singleton
      <3>3. Cardinality(RefsIn(Refs, i)') <= inode_count[i] + 1
        BY <2>1, <3>1, <3>2, Gain
      <3>4. IsFiniteSet(RefsIn(Refs, i)')
        BY <2>1, <3>1, FS_Subset, FS_AddElement
      <3> QED
        BY <2>1, <2>3, <3>3, <3>4, FS_CardinalityType
    <2> QED
      BY <2>2, <2>3
  <1> QED
    BY <1>4, <1>5, <1>6 DEF NoDangling

\* Descriptors are closed.
LEMMA SomeClosed ==
    ASSUME Inv, TypeOK', NEW refs, refs \subseteq Refs,
           \A r \in Refs : files'[r] = IF r \in refs THEN NULL ELSE files[r],
           \A r \in Refs \ refs : denotes'[r] = denotes[r],
           file_inode' = file_inode,
           file_count' = FilesFreed(refs),
           inode_count' = InodesFreed(refs),
           Cleared(InodesGone(refs))
    PROVE  NoDangling' /\ FdDenotes'
  <1>1. ASSUME NEW r \in Refs, files'[r] # NULL
        PROVE  /\ r \notin refs /\ files'[r] = files[r] /\ denotes'[r] = denotes[r]
               /\ file_inode[files[r]] \in Inodes
               /\ inode_number'[file_inode[files[r]]] = inode_number[file_inode[files[r]]]
    <2>1. r \notin refs /\ files'[r] = files[r]
      BY <1>1
    <2>2. file_inode[files[r]] \in Inodes /\ file_inode[files[r]] \notin InodesGone(refs)
      BY <1>1, <2>1, Referenced, FreedKeeps
    <2> QED
      BY <2>1, <2>2 DEF Cleared
  <1>2. FdDenotes'
    <2> SUFFICES ASSUME NEW r \in Refs, files'[r] # NULL
                 PROVE  /\ file_inode'[files'[r]] # NULL
                        /\ inode_number'[file_inode'[files'[r]]] = denotes'[r]
      BY DEF FdDenotes
    <2>1. files'[r] = files[r] /\ file_inode[files[r]] # NULL
          /\ inode_number[file_inode[files[r]]] = denotes[r]
      BY <1>1 DEF Inv, FdDenotes
    <2> QED
      BY <1>1, <2>1
  <1>3. ASSUME NEW o \in Files
        PROVE  Cardinality(RefsTo(Refs, o))' <= file_count'[o]
    <2>1. RefsTo(Refs, o)' = RefsTo(Refs, o) \ refs
      BY VfsAssumption DEF RefsTo, Files
    <2> QED
      BY <2>1, FreedCovers
  <1>4. ASSUME NEW i \in Inodes
        PROVE  Cardinality(RefsIn(Refs, i))' <= inode_count'[i]
    <2>1. RefsIn(Refs, i)' = RefsIn(Refs, i) \ refs
      BY DEF RefsIn
    <2> QED
      BY <2>1, FreedCovers
  <1> QED
    BY <1>2, <1>3, <1>4 DEF NoDangling

-----------------------------------------------------------------------------
(* Parts of steps                                                          *)

LEMMA InCoreIn ==
    ASSUME Inv, FreeInodes # {}, NEW n
    PROVE  /\ InCore(n) \in Inodes
           /\ inode_count[InCore(n)] = 0 \/ inode_number[InCore(n)] = n
  <1> DEFINE S == {i \in Inodes : inode_number[i] = n}
  <1>1. Inodes \subseteq Nat /\ FreeInodes \subseteq Nat /\ FreeInodes \subseteq Inodes
    BY VfsAssumption DEF Inodes, FreeInodes
  <1>2. Lowest(FreeInodes) \in FreeInodes
    BY <1>1, LowestIn
  <1>3. S \cup {Lowest(FreeInodes)} \subseteq Nat
    BY <1>1, <1>2
  <1>4. Lowest(S \cup {Lowest(FreeInodes)}) \in S \cup {Lowest(FreeInodes)}
    BY <1>3, LowestIn
  <1>5. InCore(n) \in S \cup {Lowest(FreeInodes)}
    BY <1>4 DEF InCore
  <1> QED
    BY <1>1, <1>2, <1>5 DEF FreeInodes

LEMMA LowestFree ==
    ASSUME Inv
    PROVE  /\ FreeFiles # {} => Lowest(FreeFiles) \in Files /\ file_count[Lowest(FreeFiles)] = 0
           /\ FreeEntries # {} => Lowest(FreeEntries) \in Entries
           /\ FreeInodes \ {DirInode} # {} =>
                NewInode \in Inodes /\ inode_count[NewInode] = 0 /\ NewInode # DirInode
           /\ \A p \in Proc : FreeFDs(p) # {} =>
                /\ <<p, Lowest(FreeFDs(p))>> \in Refs
                /\ files[<<p, Lowest(FreeFDs(p))>>] = NULL
  <1>1. /\ Files \subseteq Nat /\ Entries \subseteq Nat /\ Inodes \subseteq Nat
        /\ FDs \subseteq Nat
    BY VfsAssumption DEF Files, Entries, Inodes, FDs
  <1>2. FreeFiles \subseteq Nat /\ FreeEntries \subseteq Nat
    BY <1>1 DEF FreeFiles, FreeEntries
  <1>3. FreeFiles # {} => Lowest(FreeFiles) \in FreeFiles
    BY <1>2, LowestIn
  <1>4. FreeEntries # {} => Lowest(FreeEntries) \in FreeEntries
    BY <1>2, LowestIn
  <1>5. FreeInodes \ {DirInode} \subseteq Nat
    BY <1>1 DEF FreeInodes
  <1>6. FreeInodes \ {DirInode} # {} => NewInode \in FreeInodes \ {DirInode}
    BY <1>5, LowestIn DEF NewInode
  <1>7. ASSUME NEW p \in Proc, FreeFDs(p) # {}
        PROVE  Lowest(FreeFDs(p)) \in FreeFDs(p)
    <2>1. FreeFDs(p) \subseteq Nat
      BY <1>1 DEF FreeFDs
    <2> QED
      BY <1>7, <2>1, LowestIn
  <1>8. \A p \in Proc : FreeFDs(p) # {} =>
          /\ <<p, Lowest(FreeFDs(p))>> \in Refs
          /\ files[<<p, Lowest(FreeFDs(p))>>] = NULL
    BY <1>7 DEF FreeFDs, Refs
  <1> QED
    BY <1>3, <1>4, <1>6, <1>8 DEF FreeFiles, FreeEntries, FreeInodes

LEMMA AcquireKeeps ==
    ASSUME Inv, NEW i \in Inodes, NEW n \in Numbers, NEW links \in Int,
           inode_count[i] = 0 \/ inode_number[i] = n, Acquire(i, n, links)
    PROVE  /\ inode_count' \in [Inodes -> Nat]
           /\ inode_number' \in [Inodes -> Numbers \cup {V}]
           /\ hard_links' \in [Inodes -> Int \cup {V}]
           /\ LinksKnown'
           /\ inode_number'[i] = n /\ inode_count'[i] = inode_count[i] + 1
           /\ \A j \in Inodes : inode_count[j] <= inode_count'[j]
           /\ \A j \in Inodes : inode_count[j] >= 1 => inode_number'[j] = inode_number[j]
  <1>1. /\ inode_count \in [Inodes -> Nat]
        /\ inode_number \in [Inodes -> Numbers \cup {V}]
        /\ hard_links \in [Inodes -> Int \cup {V}]
        /\ \A j \in Inodes : inode_number[j] # V => hard_links[j] \in Int
    BY DEF Inv, TypeOK, LinksKnown
  <1>2. n # V
    BY VfsAssumption DEF Numbers, Entries
  <1>3. /\ inode_count' = [inode_count EXCEPT ![i] = inode_count[i] + 1]
        /\ inode_number' = [inode_number EXCEPT ![i] = n]
        /\ hard_links' = [hard_links EXCEPT ![i] =
                            IF inode_count[i] = 0 THEN links ELSE hard_links[i]]
    BY DEF Acquire
  <1>4. LinksKnown'
    BY <1>1, <1>2, <1>3 DEF LinksKnown
  <1>5. /\ inode_count' \in [Inodes -> Nat]
        /\ inode_number' \in [Inodes -> Numbers \cup {V}]
        /\ hard_links' \in [Inodes -> Int \cup {V}]
    BY <1>1, <1>3
  <1>6. /\ inode_number'[i] = n /\ inode_count'[i] = inode_count[i] + 1
        /\ \A j \in Inodes : inode_count[j] <= inode_count'[j]
    BY <1>1, <1>3
  <1>7. \A j \in Inodes : inode_count[j] >= 1 => inode_number'[j] = inode_number[j]
    BY <1>1, <1>3
  <1> QED
    BY <1>4, <1>5, <1>6, <1>7

LEMMA ClearedKeeps ==
    ASSUME Inv, NEW gone, Cleared(gone)
    PROVE  /\ inode_number' \in [Inodes -> Numbers \cup {V}]
           /\ hard_links' \in [Inodes -> Int \cup {V}]
           /\ entry' \in [Entries -> Names \cup {FREE, UNLINKED}]
           /\ LinksKnown' /\ NamesUnique'
  <1>1. /\ inode_number' \in [Inodes -> Numbers \cup {V}]
        /\ hard_links' \in [Inodes -> Int \cup {V}]
    BY DEF Inv, TypeOK, Cleared
  <1>2. \A n \in Entries : entry'[n] \in {FREE, entry[n]}
    BY DEF Cleared
  <1>3. entry' \in [Entries -> Names \cup {FREE, UNLINKED}]
    BY <1>2 DEF Inv, TypeOK, Cleared
  <1>4. LinksKnown'
    BY DEF Inv, TypeOK, LinksKnown, Cleared
  <1>5. FREE \notin Names
    BY VfsAssumption
  <1>6. NamesUnique'
    BY <1>2, <1>5 DEF Inv, NamesUnique
  <1> QED
    BY <1>1, <1>3, <1>4, <1>6

\* file_object_allocate() for an inode that has just got a user.
LEMMA OpenFileKeeps ==
    ASSUME Inv, NEW p \in Proc, FreeFDs(p) # {},
           NEW i \in Inodes, NEW n \in Numbers, OpenFile(p, Lowest(FreeFDs(p)), i, n),
           live' \subseteq Proc,
           inode_count' \in [Inodes -> Nat],
           inode_number' \in [Inodes -> Numbers \cup {V}],
           hard_links' \in [Inodes -> Int \cup {V}],
           entry' \in [Entries -> Names \cup {FREE, UNLINKED}],
           inode_number'[i] = n, inode_count'[i] = inode_count[i] + 1,
           \A j \in Inodes : inode_count[j] <= inode_count'[j],
           \A j \in Inodes : inode_count[j] >= 1 => inode_number'[j] = inode_number[j]
    PROVE  TypeOK' /\ NoDangling' /\ FdDenotes'
  <1> DEFINE r0 == <<p, Lowest(FreeFDs(p))>>
             o0 == Lowest(FreeFiles)
  <1>1. r0 \in Refs /\ files[r0] = NULL
    BY LowestFree
  <1>2. CASE FreeFiles = {}
    <2>1. UNCHANGED <<file_count, file_inode, files, denotes>>
      BY <1>2 DEF OpenFile
    <2>2. TypeOK'
      BY <2>1 DEF Inv, TypeOK
    <2>3. \A o \in Files : file_count[o] <= file_count'[o]
      BY <2>1 DEF Inv, TypeOK
    <2> QED
      BY <2>1, <2>2, <2>3, NoneOpened
  <1>3. CASE FreeFiles # {}
    <2>1. o0 \in Files /\ file_count[o0] = 0
      BY <1>3, LowestFree
    <2>2. /\ file_count' = [file_count EXCEPT ![o0] = 1]
          /\ file_inode' = [file_inode EXCEPT ![o0] = i]
          /\ files' = [files EXCEPT ![r0] = o0]
          /\ denotes' = [denotes EXCEPT ![r0] = n]
      BY <1>3 DEF OpenFile
    <2> HIDE DEF r0, o0
    <2>3. TypeOK'
      BY <1>1, <2>1, <2>2 DEF Inv, TypeOK
    <2>4. inode_count[i] + 1 <= inode_count'[i]
      BY DEF Inv, TypeOK
    <2> QED
      BY <1>1, <2>1, <2>2, <2>3, <2>4, OneOpened
  <1> QED
    BY <1>2, <1>3

-----------------------------------------------------------------------------
(* The actions                                                             *)

LEMMA OpenExistingKeeps ==
    ASSUME Inv, NEW p \in live, NEW name, open_existing(p, name)
    PROVE  Inv'
  <1>1. PICK n \in Numbers : /\ Acquire(InCore(n), n, 1)
                             /\ OpenFile(p, Lowest(FreeFDs(p)), InCore(n), n)
    BY DEF open_existing
  <1>2. FreeFDs(p) # {} /\ FreeInodes # {} /\ UNCHANGED <<live, entry>>
    BY DEF open_existing
  <1>3. p \in Proc /\ live' \subseteq Proc
        /\ entry' \in [Entries -> Names \cup {FREE, UNLINKED}] /\ NamesUnique'
    BY <1>2 DEF Inv, TypeOK, NamesUnique
  <1>4. /\ InCore(n) \in Inodes
        /\ inode_count[InCore(n)] = 0 \/ inode_number[InCore(n)] = n
    BY <1>2, InCoreIn
  <1>5. /\ inode_count' \in [Inodes -> Nat]
        /\ inode_number' \in [Inodes -> Numbers \cup {V}]
        /\ hard_links' \in [Inodes -> Int \cup {V}]
        /\ LinksKnown'
        /\ inode_number'[InCore(n)] = n
        /\ inode_count'[InCore(n)] = inode_count[InCore(n)] + 1
        /\ \A j \in Inodes : inode_count[j] <= inode_count'[j]
        /\ \A j \in Inodes : inode_count[j] >= 1 => inode_number'[j] = inode_number[j]
    BY <1>1, <1>4, AcquireKeeps
  <1>6. TypeOK' /\ NoDangling' /\ FdDenotes'
    BY <1>1, <1>2, <1>3, <1>4, <1>5, OpenFileKeeps
  <1> QED
    BY <1>3, <1>5, <1>6 DEF Inv

LEMMA OpenCreatKeeps ==
    ASSUME Inv, NEW p \in live, NEW name \in Names, open_creat(p, name)
    PROVE  Inv'
  <1> DEFINE n == Lowest(FreeEntries)
             d == DirInode
             new == NewInode
  <1>1. /\ FreeFDs(p) # {} /\ ~Exists(name) /\ FreeInodes # {}
        /\ FreeInodes \ {DirInode} # {} /\ FreeEntries # {}
        /\ entry' = [entry EXCEPT ![n] = name]
        /\ IF inode_count[d] = 0
           THEN /\ inode_count' = [inode_count EXCEPT ![new] = 1]
                /\ inode_number' = [inode_number EXCEPT ![new] = n, ![d] = V]
                /\ hard_links' = [hard_links EXCEPT ![new] = 2, ![d] = V]
           ELSE Acquire(new, n, 2)
        /\ OpenFile(p, Lowest(FreeFDs(p)), new, n)
        /\ live' = live
    BY DEF open_creat
  <1>2. p \in Proc /\ live' \subseteq Proc
    BY <1>1 DEF Inv, TypeOK
  <1>3. n \in Entries /\ new \in Inodes /\ inode_count[new] = 0 /\ new # d
    BY <1>1, LowestFree
  <1>4. d \in Inodes
    BY <1>1, InCoreIn DEF DirInode
  <1> HIDE DEF n, d, new
  <1>5. n \in Numbers /\ n # V
    BY <1>3, VfsAssumption DEF Numbers, Entries
  <1>6. entry' \in [Entries -> Names \cup {FREE, UNLINKED}]
    BY <1>1, <1>3 DEF Inv, TypeOK
  <1>7. NamesUnique'
    <2>1. \A m \in Entries : entry[m] # name
      BY <1>1 DEF Exists
    <2>2. \A m \in Entries : entry'[m] = IF m = n THEN name ELSE entry[m]
      BY <1>1 DEF Inv, TypeOK
    <2> QED
      BY <2>1, <2>2 DEF Inv, NamesUnique
  <1>8. /\ inode_count' \in [Inodes -> Nat]
        /\ inode_number' \in [Inodes -> Numbers \cup {V}]
        /\ hard_links' \in [Inodes -> Int \cup {V}]
        /\ LinksKnown'
        /\ inode_number'[new] = n /\ inode_count'[new] = inode_count[new] + 1
        /\ \A j \in Inodes : inode_count[j] <= inode_count'[j]
        /\ \A j \in Inodes : inode_count[j] >= 1 => inode_number'[j] = inode_number[j]
    <2>1. CASE inode_count[d] = 0
      <3>1. /\ inode_count' = [inode_count EXCEPT ![new] = 1]
            /\ inode_number' = [inode_number EXCEPT ![new] = n, ![d] = V]
            /\ hard_links' = [hard_links EXCEPT ![new] = 2, ![d] = V]
        BY <1>1, <2>1
      <3>2. /\ inode_count \in [Inodes -> Nat]
            /\ inode_number \in [Inodes -> Numbers \cup {V}]
            /\ hard_links \in [Inodes -> Int \cup {V}]
            /\ \A j \in Inodes : inode_number[j] # V => hard_links[j] \in Int
        BY DEF Inv, TypeOK, LinksKnown
      <3>3. \A j \in Inodes :
              /\ inode_number'[j] = IF j = d THEN V ELSE IF j = new THEN n ELSE inode_number[j]
              /\ hard_links'[j] = IF j = d THEN V ELSE IF j = new THEN 2 ELSE hard_links[j]
              /\ inode_count'[j] = IF j = new THEN 1 ELSE inode_count[j]
        BY <1>3, <1>4, <3>1, <3>2
      <3>4. LinksKnown'
        BY <3>2, <3>3 DEF LinksKnown
      <3>5. /\ inode_count' \in [Inodes -> Nat]
            /\ inode_number' \in [Inodes -> Numbers \cup {V}]
            /\ hard_links' \in [Inodes -> Int \cup {V}]
        <4>1. inode_count' \in [Inodes -> Nat]
          BY <3>1, <3>2
        <4>2. inode_number' \in [Inodes -> Numbers \cup {V}]
          BY <1>5, <3>1, <3>2
        <4>3. hard_links' \in [Inodes -> Int \cup {V}]
          <5> DEFINE L == Int \cup {V}
                     two == 2
          <5>1. two \in L /\ V \in L /\ hard_links \in [Inodes -> L]
            BY <3>2
          <5>2. hard_links' = [hard_links EXCEPT ![new] = two, ![d] = V]
            BY <3>1
          <5> HIDE DEF L, two
          <5>3. hard_links' \in [Inodes -> L]
            BY <5>1, <5>2
          <5> QED
            BY <5>3 DEF L
        <4> QED
          BY <4>1, <4>2, <4>3
      <3>6. /\ inode_number'[new] = n /\ inode_count'[new] = inode_count[new] + 1
            /\ \A j \in Inodes : inode_count[j] <= inode_count'[j]
        BY <1>3, <3>2, <3>3
      <3>7. \A j \in Inodes : inode_count[j] >= 1 => inode_number'[j] = inode_number[j]
        BY <1>3, <2>1, <3>2, <3>3
      <3> QED
        BY <3>4, <3>5, <3>6, <3>7
    <2>2. CASE inode_count[d] # 0
      <3>1. Acquire(new, n, 2)
        BY <1>1, <2>2
      <3> QED
        BY <1>3, <1>5, <3>1, AcquireKeeps
    <2> QED
      BY <2>1, <2>2
  <1>9. TypeOK' /\ NoDangling' /\ FdDenotes'
    BY <1>1, <1>2, <1>3, <1>5, <1>6, <1>8, OpenFileKeeps
  <1> QED
    BY <1>7, <1>8, <1>9 DEF Inv

LEMMA OpenCreatFailsKeeps ==
    ASSUME Inv, NEW p \in live, NEW name \in Names, open_creat_fails(p, name)
    PROVE  Inv'
  <1> DEFINE taken == {DirInode} \cup
                      (IF FreeInodes \ {DirInode} = {} THEN {} ELSE {NewInode})
  <1>1. /\ FreeInodes # {}
        /\ inode_count' = [i \in Inodes |->
                             IF i \in taken THEN inode_count[i] + 1 ELSE inode_count[i]]
        /\ inode_number' = [inode_number EXCEPT ![DirInode] = Root]
        /\ hard_links' = [hard_links EXCEPT ![DirInode] =
                            IF inode_count[DirInode] = 0 THEN 1 ELSE hard_links[DirInode]]
        /\ UNCHANGED <<live, files, file_count, file_inode, entry, denotes>>
    BY DEF open_creat_fails
  <1>2. /\ DirInode \in Inodes
        /\ inode_count[DirInode] = 0 \/ inode_number[DirInode] = Root
    BY <1>1, InCoreIn DEF DirInode
  <1> HIDE DEF taken
  <1>3. /\ inode_count \in [Inodes -> Nat]
        /\ inode_number \in [Inodes -> Numbers \cup {V}]
        /\ hard_links \in [Inodes -> Int \cup {V}]
        /\ \A j \in Inodes : inode_number[j] # V => hard_links[j] \in Int
        /\ Root \in Numbers /\ Root # V
    BY VfsAssumption DEF Inv, TypeOK, LinksKnown, Numbers
  <1>4. /\ inode_count' \in [Inodes -> Nat]
        /\ \A i \in Inodes : inode_count[i] <= inode_count'[i]
    BY <1>1, <1>3
  <1>5. /\ inode_number' \in [Inodes -> Numbers \cup {V}]
        /\ \A i \in Inodes : inode_count[i] >= 1 => inode_number'[i] = inode_number[i]
    BY <1>1, <1>2, <1>3
  <1>6. hard_links' \in [Inodes -> Int \cup {V}] /\ LinksKnown'
    BY <1>1, <1>2, <1>3 DEF LinksKnown
  <1>7. TypeOK' /\ NamesUnique'
    BY <1>1, <1>4, <1>5, <1>6 DEF Inv, TypeOK, NamesUnique
  <1>8. \A o \in Files : file_count[o] <= file_count'[o]
    BY <1>1 DEF Inv, TypeOK
  <1>9. NoDangling' /\ FdDenotes'
    BY <1>1, <1>4, <1>5, <1>7, <1>8, NoneOpened
  <1> QED
    BY <1>6, <1>7, <1>9 DEF Inv

LEMMA ExecveKeeps ==
    ASSUME Inv, NEW name, execve(name)
    PROVE  Inv'
  <1> DEFINE o0 == Lowest(FreeFiles)
  <1>1. PICK n \in Numbers :
          \/ /\ FreeFiles # {}
             /\ file_inode' = [file_inode EXCEPT ![o0] = InCore(n)]
             /\ IF inode_count[InCore(n)] = 0
                THEN /\ inode_number' = [inode_number EXCEPT ![InCore(n)] = V]
                     /\ hard_links' = [hard_links EXCEPT ![InCore(n)] = V]
                ELSE UNCHANGED <<inode_number, hard_links>>
             /\ inode_count' = inode_count
          \/ /\ Acquire(InCore(n), n, 1)
             /\ file_inode' = file_inode
    BY DEF execve
  <1>2. FreeInodes # {} /\ UNCHANGED <<live, files, file_count, entry, denotes>>
    BY DEF execve
  <1>3. /\ InCore(n) \in Inodes
        /\ inode_count[InCore(n)] = 0 \/ inode_number[InCore(n)] = n
    BY <1>2, InCoreIn
  <1>4. FreeFiles # {} => o0 \in Files /\ file_count[o0] = 0
    BY LowestFree
  <1> HIDE DEF o0
  <1>5. /\ inode_count \in [Inodes -> Nat]
        /\ inode_number \in [Inodes -> Numbers \cup {V}]
        /\ hard_links \in [Inodes -> Int \cup {V}]
        /\ \A j \in Inodes : inode_number[j] # V => hard_links[j] \in Int
        /\ file_count \in [Files -> Nat]
        /\ file_inode \in [Files -> Inodes \cup {NULL}]
    BY DEF Inv, TypeOK, LinksKnown
  <1>6. /\ inode_count' \in [Inodes -> Nat]
        /\ inode_number' \in [Inodes -> Numbers \cup {V}]
        /\ hard_links' \in [Inodes -> Int \cup {V}]
        /\ LinksKnown'
        /\ \A j \in Inodes : inode_count[j] <= inode_count'[j]
        /\ \A j \in Inodes : inode_count[j] >= 1 => inode_number'[j] = inode_number[j]
    <2>1. CASE Acquire(InCore(n), n, 1)
      BY <1>3, <2>1, AcquireKeeps
    <2>2. CASE ~Acquire(InCore(n), n, 1)
      <3>1. inode_count' = inode_count
        BY <1>1, <2>2
      <3>2. CASE inode_count[InCore(n)] = 0
        <4>1. /\ inode_number' = [inode_number EXCEPT ![InCore(n)] = V]
              /\ hard_links' = [hard_links EXCEPT ![InCore(n)] = V]
          BY <1>1, <2>2, <3>2
        <4>2. LinksKnown'
          BY <1>5, <4>1 DEF LinksKnown
        <4>3. inode_number' \in [Inodes -> Numbers \cup {V}]
          BY <1>5, <4>1
        <4>4. hard_links' \in [Inodes -> Int \cup {V}]
          BY <1>5, <4>1
        <4>5. \A j \in Inodes : inode_count[j] >= 1 => inode_number'[j] = inode_number[j]
          BY <1>5, <3>2, <4>1
        <4> QED
          BY <1>5, <3>1, <4>2, <4>3, <4>4, <4>5
      <3>3. CASE inode_count[InCore(n)] # 0
        <4>1. UNCHANGED <<inode_number, hard_links>>
          BY <1>1, <2>2, <3>3
        <4>2. LinksKnown'
          BY <1>5, <4>1 DEF LinksKnown
        <4> QED
          BY <1>5, <3>1, <4>1, <4>2
      <3> QED
        BY <3>2, <3>3
    <2> QED
      BY <2>1, <2>2
  <1>7. /\ file_inode' \in [Files -> Inodes \cup {NULL}]
        /\ \A o \in Files : file_count[o] <= file_count'[o]
        /\ \A o \in Files : file_count[o] >= 1 => file_inode'[o] = file_inode[o]
    BY <1>1, <1>2, <1>3, <1>4, <1>5
  <1>8. TypeOK' /\ NamesUnique'
    BY <1>2, <1>6, <1>7 DEF Inv, TypeOK, NamesUnique
  <1>9. NoDangling' /\ FdDenotes'
    BY <1>2, <1>6, <1>7, <1>8, NoneOpened
  <1> QED
    BY <1>6, <1>8, <1>9 DEF Inv

LEMMA UnlinkKeeps ==
    ASSUME Inv, NEW name, unlink_syscall(name)
    PROVE  Inv'
  <1>1. PICK n \in Entries :
          IF inode_count[InCore(n)] = 0
          THEN /\ entry' = [entry EXCEPT ![n] = FREE]
               /\ inode_number' = [inode_number EXCEPT ![InCore(n)] = V]
               /\ hard_links' = [hard_links EXCEPT ![InCore(n)] = V]
          ELSE /\ entry' = [entry EXCEPT ![n] = UNLINKED]
               /\ hard_links' = [hard_links EXCEPT ![InCore(n)] = hard_links[InCore(n)] - 1]
               /\ inode_number' = inode_number
    BY DEF unlink_syscall
  <1>2. /\ FreeInodes # {}
        /\ UNCHANGED <<live, files, file_count, file_inode, inode_count, denotes>>
    BY DEF unlink_syscall
  <1>3. /\ InCore(n) \in Inodes
        /\ inode_count[InCore(n)] = 0 \/ inode_number[InCore(n)] = n
    BY <1>2, InCoreIn
  <1>4. /\ inode_count \in [Inodes -> Nat]
        /\ inode_number \in [Inodes -> Numbers \cup {V}]
        /\ hard_links \in [Inodes -> Int \cup {V}]
        /\ \A j \in Inodes : inode_number[j] # V => hard_links[j] \in Int
        /\ entry \in [Entries -> Names \cup {FREE, UNLINKED}]
        /\ \A m, k \in Entries : entry[m] = entry[k] /\ entry[m] \in Names => m = k
    BY DEF Inv, TypeOK, LinksKnown, NamesUnique
  <1>5. /\ entry' \in [Entries -> Names \cup {FREE, UNLINKED}]
        /\ \A m \in Entries : entry'[m] \in Names => entry'[m] = entry[m]
    BY <1>1, <1>4, VfsAssumption
  <1>6. n # V
    BY VfsAssumption DEF Entries
  <1>7. /\ inode_number' \in [Inodes -> Numbers \cup {V}]
        /\ \A j \in Inodes : inode_count[j] >= 1 => inode_number'[j] = inode_number[j]
    BY <1>1, <1>3, <1>4
  <1>8. hard_links' \in [Inodes -> Int \cup {V}] /\ LinksKnown'
    BY <1>1, <1>3, <1>4, <1>6 DEF LinksKnown
  <1>9. TypeOK' /\ NamesUnique'
    BY <1>2, <1>4, <1>5, <1>7, <1>8 DEF Inv, TypeOK, NamesUnique
  <1>10. /\ \A o \in Files : file_count[o] <= file_count'[o]
         /\ \A j \in Inodes : inode_count[j] <= inode_count'[j]
    BY <1>2 DEF Inv, TypeOK
  <1>11. NoDangling' /\ FdDenotes'
    BY <1>2, <1>7, <1>9, <1>10, NoneOpened
  <1> QED
    BY <1>8, <1>9, <1>11 DEF Inv

\* What closing the descriptors refs does to the types.
LEMMA FreedTypes ==
    ASSUME Inv, NEW refs, refs \subseteq Refs
    PROVE  FilesFreed(refs) \in [Files -> Nat] /\ InodesFreed(refs) \in [Inodes -> Nat]
  <1>1. /\ \A o \in Files : FilesFreed(refs)[o] \in Nat
        /\ \A i \in Inodes : InodesFreed(refs)[i] \in Nat
    BY FreedCovers
  <1> QED
    BY <1>1 DEF FilesFreed, InodesFreed

LEMMA CloseKeeps ==
    ASSUME Inv, NEW p \in live, NEW fd \in FDs, close_syscall(p, fd)
    PROVE  Inv'
  <1> DEFINE refs == {<<p, fd>>}
  <1>1. /\ file_count' = FilesFreed(refs)
        /\ inode_count' = InodesFreed(refs)
        /\ Cleared(InodesGone(refs))
        /\ files' = [files EXCEPT ![<<p, fd>>] = NULL]
        /\ denotes' = [denotes EXCEPT ![<<p, fd>>] = CONSOLE]
        /\ UNCHANGED <<live, file_inode>>
    BY DEF close_syscall
  <1>2. refs \subseteq Refs
    BY DEF Inv, TypeOK, Refs
  <1>3. /\ \A r \in Refs : files'[r] = IF r \in refs THEN NULL ELSE files[r]
        /\ \A r \in Refs \ refs : denotes'[r] = denotes[r]
    BY <1>1 DEF Inv, TypeOK
  <1> HIDE DEF refs
  <1>4. FilesFreed(refs) \in [Files -> Nat] /\ InodesFreed(refs) \in [Inodes -> Nat]
    BY <1>2, FreedTypes
  <1>5. /\ inode_number' \in [Inodes -> Numbers \cup {V}]
        /\ hard_links' \in [Inodes -> Int \cup {V}]
        /\ entry' \in [Entries -> Names \cup {FREE, UNLINKED}]
        /\ LinksKnown' /\ NamesUnique'
    BY <1>1, ClearedKeeps
  <1>6. /\ files' \in [Refs -> Files \cup {NULL}] /\ denotes' \in [Refs -> Numbers]
        /\ live' \subseteq Proc /\ file_inode' \in [Files -> Inodes \cup {NULL}]
    BY <1>1 DEF Inv, TypeOK, Numbers
  <1>7. TypeOK'
    BY <1>1, <1>4, <1>5, <1>6 DEF TypeOK
  <1>8. NoDangling' /\ FdDenotes'
    BY <1>1, <1>2, <1>3, <1>7, SomeClosed
  <1> QED
    BY <1>5, <1>7, <1>8 DEF Inv

LEMMA DestroyKeeps ==
    ASSUME Inv, NEW p \in live, process_destroy(p)
    PROVE  Inv'
  <1> DEFINE refs == Own(p)
  <1>1. /\ file_count' = FilesFreed(refs)
        /\ inode_count' = InodesFreed(refs)
        /\ Cleared(InodesGone(refs))
        /\ files' = [r \in Refs |-> IF r[1] = p THEN NULL ELSE files[r]]
        /\ denotes' = [r \in Refs |-> IF r[1] = p THEN CONSOLE ELSE denotes[r]]
        /\ live' = live \ {p} /\ file_inode' = file_inode
    BY DEF process_destroy
  <1>2. refs \subseteq Refs /\ \A r \in Refs : r \in refs <=> r[1] = p
    BY DEF Own
  <1> HIDE DEF refs
  <1>3. /\ \A r \in Refs : files'[r] = IF r \in refs THEN NULL ELSE files[r]
        /\ \A r \in Refs \ refs : denotes'[r] = denotes[r]
    BY <1>1, <1>2
  <1>4. FilesFreed(refs) \in [Files -> Nat] /\ InodesFreed(refs) \in [Inodes -> Nat]
    BY <1>2, FreedTypes
  <1>5. /\ inode_number' \in [Inodes -> Numbers \cup {V}]
        /\ hard_links' \in [Inodes -> Int \cup {V}]
        /\ entry' \in [Entries -> Names \cup {FREE, UNLINKED}]
        /\ LinksKnown' /\ NamesUnique'
    BY <1>1, ClearedKeeps
  <1>6. /\ files' \in [Refs -> Files \cup {NULL}] /\ denotes' \in [Refs -> Numbers]
        /\ live' \subseteq Proc /\ file_inode' \in [Files -> Inodes \cup {NULL}]
    BY <1>1 DEF Inv, TypeOK, Numbers
  <1>7. TypeOK'
    BY <1>1, <1>4, <1>5, <1>6 DEF TypeOK
  <1>8. NoDangling' /\ FdDenotes'
    BY <1>1, <1>2, <1>3, <1>7, SomeClosed
  <1> QED
    BY <1>5, <1>7, <1>8 DEF Inv

\* Sane: the descriptor that is duplicated is open and another one, so that
\* it survives the closing of the new one.
LEMMA Dup2Keeps ==
    ASSUME Inv, Sane, NEW p \in live, NEW old \in FDs, NEW new \in FDs,
           dup2_syscall(p, old, new)
    PROVE  Inv'
  <1> DEFINE r0   == <<p, new>>
             r1   == <<p, old>>
             o    == files[r1]
             i0   == file_inode[o]
             refs == IF files[r0] = NULL THEN {} ELSE {r0}
             ok   == o # NULL /\ FilesFreed(refs)[o] > 0
  <1>1. /\ old # new /\ files[r1] # NULL
        /\ Cleared(InodesGone(refs))
        /\ \/ /\ ok
              /\ file_count' = [FilesFreed(refs) EXCEPT ![o] = @ + DupUser(o)]
              /\ inode_count' = [InodesFreed(refs) EXCEPT ![i0] = @ + DupUser(o)]
              /\ files' = [files EXCEPT ![r0] = o]
              /\ denotes' = [denotes EXCEPT ![r0] = denotes[r1]]
           \/ ~ok
        /\ UNCHANGED <<live, file_inode>>
    BY DEF dup2_syscall, MayDup2, Sane, Mapped
  <1>2. r0 \in Refs /\ r1 \in Refs /\ r0 # r1
    BY <1>1 DEF Inv, TypeOK, Refs
  <1>3. /\ refs \subseteq Refs /\ r1 \notin refs
        /\ files[r0] = NULL \/ r0 \in refs
        /\ \A r \in refs : r = r0
    BY <1>2
  <1> HIDE DEF refs
  <1>4. /\ FilesFreed(refs)[o] >= 1 /\ InodesFreed(refs)[i0] >= 1
        /\ i0 \notin InodesGone(refs) /\ o \in Files /\ i0 \in Inodes
    BY <1>1, <1>2, <1>3, FreedKeeps, Referenced
  <1>5. FilesFreed(refs) \in [Files -> Nat] /\ InodesFreed(refs) \in [Inodes -> Nat]
    BY <1>3, FreedTypes
  <1>6. /\ file_count' = [FilesFreed(refs) EXCEPT ![o] = FilesFreed(refs)[o] + 1]
        /\ inode_count' = [InodesFreed(refs) EXCEPT ![i0] = InodesFreed(refs)[i0] + 1]
        /\ files' = [files EXCEPT ![r0] = o]
        /\ denotes' = [denotes EXCEPT ![r0] = denotes[r1]]
    <2>1. ok
      BY <1>1, <1>4, <1>5
    <2> QED
      BY <1>1, <2>1 DEF DupUser
  <1> HIDE DEF r0, r1, o, i0, ok
  <1>7. /\ inode_number' \in [Inodes -> Numbers \cup {V}]
        /\ hard_links' \in [Inodes -> Int \cup {V}]
        /\ entry' \in [Entries -> Names \cup {FREE, UNLINKED}]
        /\ LinksKnown' /\ NamesUnique'
    BY <1>1, ClearedKeeps
  <1>8. /\ files \in [Refs -> Files \cup {NULL}] /\ denotes \in [Refs -> Numbers]
        /\ file_inode \in [Files -> Inodes \cup {NULL}]
        /\ NULL \notin Files /\ NULL \notin Inodes
    BY VfsAssumption DEF Inv, TypeOK, Files, Inodes
  <1>9. /\ files' \in [Refs -> Files \cup {NULL}] /\ denotes' \in [Refs -> Numbers]
        /\ \A r \in Refs : /\ files'[r] = IF r = r0 THEN o ELSE files[r]
                           /\ denotes'[r] = IF r = r0 THEN denotes[r1] ELSE denotes[r]
    BY <1>2, <1>4, <1>6, <1>8
  <1>10. file_count' \in [Files -> Nat] /\ inode_count' \in [Inodes -> Nat]
    BY <1>4, <1>5, <1>6
  <1>11. TypeOK'
    BY <1>1, <1>7, <1>9, <1>10 DEF Inv, TypeOK
  <1>12. FdDenotes'
    <2> SUFFICES ASSUME NEW r \in Refs, files'[r] # NULL
                 PROVE  /\ file_inode'[files'[r]] # NULL
                        /\ inode_number'[file_inode'[files'[r]]] = denotes'[r]
      BY DEF FdDenotes
    <2>1. CASE r = r0
      <3>1. /\ files'[r] = o /\ file_inode'[o] = i0 /\ denotes'[r] = denotes[r1]
            /\ inode_number'[i0] = inode_number[i0]
        BY <1>1, <1>4, <1>9, <2>1 DEF i0, Cleared
      <3>2. inode_number[i0] = denotes[r1]
        BY <1>1, <1>2 DEF i0, o, r1, Inv, FdDenotes
      <3> QED
        BY <1>4, <1>8, <3>1, <3>2
    <2>2. CASE r # r0
      <3>1. /\ files'[r] = files[r] /\ denotes'[r] = denotes[r] /\ r \notin refs
            /\ files[r] # NULL
        BY <1>3, <1>9, <2>2
      <3>2. /\ file_inode[files[r]] \in Inodes
            /\ file_inode[files[r]] \notin InodesGone(refs)
        BY <1>3, <3>1, FreedKeeps, Referenced
      <3>3. /\ file_inode'[files[r]] = file_inode[files[r]]
            /\ inode_number'[file_inode[files[r]]] = inode_number[file_inode[files[r]]]
        BY <1>1, <3>2 DEF Cleared
      <3> QED
        BY <3>1, <3>2, <3>3, <1>8 DEF Inv, FdDenotes
    <2> QED
      BY <2>1, <2>2
  <1>13. IsFiniteSet({r0}) /\ Cardinality({r0}) = 1
    BY FS_Singleton
  <1>14. ASSUME NEW f \in Files
         PROVE  Cardinality(RefsTo(Refs, f))' <= file_count'[f]
    <2>1. /\ FilesFreed(refs)[f] \in Nat
          /\ IsFiniteSet(RefsTo(Refs, f) \ refs)
          /\ Cardinality(RefsTo(Refs, f) \ refs) <= FilesFreed(refs)[f]
      BY <1>3, FreedCovers
    <2>2. CASE f = o
      <3>1. RefsTo(Refs, f)' \subseteq (RefsTo(Refs, f) \ refs) \cup {r0}
        BY <1>3, <1>9 DEF RefsTo
      <3>2. Cardinality(RefsTo(Refs, f)') <= FilesFreed(refs)[f] + 1
        BY <1>13, <2>1, <3>1, Gain
      <3> QED
        BY <1>5, <1>6, <2>2, <3>2
    <2>3. CASE f # o
      <3>1. RefsTo(Refs, f)' = RefsTo(Refs, f) \ refs
        BY <1>3, <1>8, <1>9, <2>3 DEF RefsTo
      <3>2. file_count'[f] = FilesFreed(refs)[f]
        BY <1>5, <1>6, <2>3
      <3> QED
        BY <2>1, <3>1, <3>2
    <2> QED
      BY <2>2, <2>3
  <1>15. ASSUME NEW j \in Inodes
         PROVE  Cardinality(RefsIn(Refs, j))' <= inode_count'[j]
    <2>1. /\ InodesFreed(refs)[j] \in Nat
          /\ IsFiniteSet(RefsIn(Refs, j) \ refs)
          /\ Cardinality(RefsIn(Refs, j) \ refs) <= InodesFreed(refs)[j]
      BY <1>3, FreedCovers
    <2>2. CASE j = i0
      <3>1. RefsIn(Refs, j)' \subseteq (RefsIn(Refs, j) \ refs) \cup {r0}
        BY <1>1, <1>3, <1>9 DEF RefsIn
      <3>2. Cardinality(RefsIn(Refs, j)') <= InodesFreed(refs)[j] + 1
        BY <1>13, <2>1, <3>1, Gain
      <3> QED
        BY <1>5, <1>6, <2>2, <3>2
    <2>3. CASE j # i0
      <3>1. RefsIn(Refs, j)' = RefsIn(Refs, j) \ refs
        BY <1>1, <1>3, <1>8, <1>9, <2>3 DEF RefsIn, i0
      <3>2. inode_count'[j] = InodesFreed(refs)[j]
        BY <1>5, <1>6, <2>3
      <3> QED
        BY <2>1, <3>1, <3>2
    <2> QED
      BY <2>2, <2>3
  <1> QED
    BY <1>7, <1>11, <1>12, <1>14, <1>15 DEF Inv, NoDangling

\* files_increment_count() once per descriptor covers what the child has.
LEMMA VforkKeeps ==
    ASSUME Inv, NEW p \in live, NEW q \in Proc, vfork(p, q)
    PROVE  Inv'
  <1>1. /\ live' = live \cup {q}
        /\ files' = [r \in Refs |-> IF r[1] = q THEN files[<<p, r[2]>>] ELSE files[r]]
        /\ denotes' = [r \in Refs |-> IF r[1] = q THEN denotes[<<p, r[2]>>] ELSE denotes[r]]
        /\ file_count' = [f \in Files |-> file_count[f] + Cardinality(CopiedTo(p, q, f))]
        /\ inode_count' = [j \in Inodes |-> inode_count[j] + Cardinality(CopiedIn(p, q, j))]
        /\ UNCHANGED <<file_inode, inode_number, hard_links, entry>>
    BY DEF vfork, CopiedUsers
  <1>2. \A r \in Refs : <<p, r[2]>> \in Refs
    BY DEF Inv, TypeOK, Refs
  <1>3. /\ files \in [Refs -> Files \cup {NULL}] /\ denotes \in [Refs -> Numbers]
        /\ live' \subseteq Proc
    BY <1>1 DEF Inv, TypeOK
  <1>4. files' \in [Refs -> Files \cup {NULL}] /\ denotes' \in [Refs -> Numbers]
    BY <1>1, <1>2, <1>3
  <1>5. ASSUME NEW f
        PROVE  /\ IsFiniteSet(CopiedTo(p, q, f)) /\ Cardinality(CopiedTo(p, q, f)) \in Nat
               /\ RefsTo(Refs, f)' \subseteq RefsTo(Refs, f) \cup CopiedTo(p, q, f)
    <2>1. CopiedTo(p, q, f) \subseteq Refs
      BY DEF CopiedTo, Own
    <2>2. RefsTo(Refs, f)' \subseteq RefsTo(Refs, f) \cup CopiedTo(p, q, f)
      BY <1>1 DEF RefsTo, CopiedTo, Own
    <2> QED
      BY <2>1, <2>2, RefsFinite, FS_Subset, FS_CardinalityType
  <1>6. ASSUME NEW j
        PROVE  /\ IsFiniteSet(CopiedIn(p, q, j)) /\ Cardinality(CopiedIn(p, q, j)) \in Nat
               /\ RefsIn(Refs, j)' \subseteq RefsIn(Refs, j) \cup CopiedIn(p, q, j)
    <2>1. CopiedIn(p, q, j) \subseteq Refs
      BY DEF CopiedIn, Own
    <2>2. RefsIn(Refs, j)' \subseteq RefsIn(Refs, j) \cup CopiedIn(p, q, j)
      BY <1>1 DEF RefsIn, CopiedIn, Own
    <2> QED
      BY <2>1, <2>2, RefsFinite, FS_Subset, FS_CardinalityType
  <1>7. /\ \A f \in Files : file_count[f] + Cardinality(CopiedTo(p, q, f)) \in Nat
        /\ \A j \in Inodes : inode_count[j] + Cardinality(CopiedIn(p, q, j)) \in Nat
    BY <1>5, <1>6 DEF Inv, TypeOK
  <1>8. file_count' \in [Files -> Nat] /\ inode_count' \in [Inodes -> Nat]
    BY <1>1, <1>7
  <1>9. TypeOK' /\ LinksKnown' /\ NamesUnique'
    BY <1>1, <1>3, <1>4, <1>8 DEF Inv, TypeOK, LinksKnown, NamesUnique
  <1>10. FdDenotes'
    BY <1>1, <1>2 DEF Inv, FdDenotes
  <1>11. ASSUME NEW f \in Files
         PROVE  Cardinality(RefsTo(Refs, f))' <= file_count'[f]
    <2>1. /\ IsFiniteSet(RefsTo(Refs, f)) /\ file_count[f] \in Nat
          /\ Cardinality(RefsTo(Refs, f)) <= file_count[f]
      BY UsersFinite DEF Inv, NoDangling, TypeOK
    <2>2. Cardinality(RefsTo(Refs, f)') <= file_count[f] + Cardinality(CopiedTo(p, q, f))
      BY <1>5, <2>1, Gain
    <2> QED
      BY <1>1, <2>2
  <1>12. ASSUME NEW j \in Inodes
         PROVE  Cardinality(RefsIn(Refs, j))' <= inode_count'[j]
    <2>1. /\ IsFiniteSet(RefsIn(Refs, j)) /\ inode_count[j] \in Nat
          /\ Cardinality(RefsIn(Refs, j)) <= inode_count[j]
      BY UsersFinite DEF Inv, NoDangling, TypeOK
    <2>2. Cardinality(RefsIn(Refs, j)') <= inode_count[j] + Cardinality(CopiedIn(p, q, j))
      BY <1>6, <2>1, Gain
    <2> QED
      BY <1>1, <2>2
  <1> QED
    BY <1>9, <1>10, <1>11, <1>12 DEF Inv, NoDangling

-----------------------------------------------------------------------------
(* The invariant                                                           *)

LEMMA InvInit == Init => Inv
  <1> SUFFICES ASSUME Init
               PROVE  Inv
    OBVIOUS
  <1>1. /\ \A x \in 0..(Specials - 1) : x \in FDs /\ x \in Files /\ x \in Inodes
        /\ 1 \in Int /\ 1 \in Nat /\ 0 \in Nat
    BY VfsAssumption DEF FDs, Files, Inodes
  <1>2. FDs \subseteq Nat /\ Files \subseteq Nat /\ Inodes \subseteq Nat
    BY VfsAssumption DEF FDs, Files, Inodes
  <1>3. /\ \A x \in Nat : x < Specials => x \in Files /\ x \in Inodes
        /\ NULL \notin Files /\ NULL \notin Inodes /\ Init0 \in Proc
    BY VfsAssumption DEF Files, Inodes
  <1>4. \A r \in Refs : r[2] \in FDs /\ r = <<r[1], r[2]>>
    BY DEF Refs
  <1>5. \A r \in Refs : files[r] = IF r[1] = Init0 /\ r[2] < Specials THEN r[2] ELSE NULL
    BY DEF Init
  <1>6. \A r \in Refs : files[r] # NULL =>
          /\ files[r] \in Files /\ files[r] \in Inodes /\ files[r] < Specials
          /\ r = <<Init0, files[r]>>
    BY <1>2, <1>3, <1>4, <1>5
  <1>7. TypeOK
    <2>1. files \in [Refs -> Files \cup {NULL}]
      BY <1>2, <1>3, <1>4 DEF Init
    <2>2. file_inode \in [Files -> Inodes \cup {NULL}]
      BY <1>2, <1>3 DEF Init
    <2>3. file_count \in [Files -> Nat] /\ inode_count \in [Inodes -> Nat]
      BY DEF Init
    <2>4. /\ inode_number \in [Inodes -> Numbers \cup {V}]
          /\ denotes \in [Refs -> Numbers]
          /\ live \subseteq Proc
          /\ entry \in [Entries -> Names \cup {FREE, UNLINKED}]
      BY <1>3 DEF Init, Numbers
    <2>5. hard_links \in [Inodes -> Int \cup {V}]
      BY DEF Init
    <2> QED
      BY <2>1, <2>2, <2>3, <2>4, <2>5 DEF TypeOK
  <1>8. LinksKnown /\ NamesUnique
    <2>1. FREE \notin Names
      BY VfsAssumption
    <2> QED
      BY <2>1 DEF Init, LinksKnown, NamesUnique
  <1>9. FdDenotes
    <2> SUFFICES ASSUME NEW r \in Refs, files[r] # NULL
                 PROVE  /\ file_inode[files[r]] # NULL
                        /\ inode_number[file_inode[files[r]]] = denotes[r]
      BY DEF FdDenotes
    <2>1. /\ files[r] \in Files /\ files[r] \in Inodes /\ files[r] < Specials
      BY <1>6
    <2>2. file_inode[files[r]] = files[r] /\ inode_number[files[r]] = CONSOLE
          /\ denotes[r] = CONSOLE
      BY <2>1 DEF Init
    <2> QED
      BY <1>3, <2>1, <2>2
  <1>10. ASSUME NEW x, NEW U, U \subseteq {<<Init0, x>>}, NEW c \in Nat,
                U = {} \/ c = 1
         PROVE  Cardinality(U) <= c
    <2>1. U = {} \/ U = {<<Init0, x>>}
      BY <1>10
    <2>2. CASE U = {}
      <3>1. Cardinality(U) = 0
        BY <2>2, FS_EmptySet
      <3> QED
        BY <3>1
    <2>3. CASE U = {<<Init0, x>>} /\ c = 1
      <3>1. Cardinality(U) = 1
        BY <2>3, FS_Singleton
      <3> QED
        BY <2>3, <3>1
    <2> QED
      BY <1>10, <2>1, <2>2, <2>3
  <1>11. ASSUME NEW o \in Files
         PROVE  Cardinality(RefsTo(Refs, o)) <= file_count[o]
    <2>1. /\ RefsTo(Refs, o) \subseteq {<<Init0, o>>}
          /\ RefsTo(Refs, o) = {} \/ o < Specials
      BY <1>3, <1>6 DEF RefsTo
    <2>2. file_count[o] = IF o < Specials THEN 1 ELSE 0
      BY DEF Init
    <2> QED
      BY <1>10, <2>1, <2>2
  <1>12. ASSUME NEW i \in Inodes
         PROVE  Cardinality(RefsIn(Refs, i)) <= inode_count[i]
    <2>1. \A r \in Refs : files[r] # NULL => file_inode[files[r]] = files[r]
      BY <1>6 DEF Init
    <2>2. /\ RefsIn(Refs, i) \subseteq {<<Init0, i>>}
          /\ RefsIn(Refs, i) = {} \/ i < Specials
      BY <1>3, <1>6, <2>1 DEF RefsIn
    <2>3. inode_count[i] = IF i < Specials THEN 1 ELSE 0
      BY DEF Init
    <2> QED
      BY <1>10, <2>2, <2>3
  <1> QED
    BY <1>7, <1>8, <1>9, <1>11, <1>12 DEF Inv, NoDangling

LEMMA InvStep ==
    ASSUME Inv, Sane, [Next]_vars
    PROVE  Inv'
  <1>1. CASE UNCHANGED vars
    <2>1. TypeOK' /\ LinksKnown' /\ FdDenotes' /\ NamesUnique'
      BY <1>1 DEF Inv, TypeOK, LinksKnown, FdDenotes, NamesUnique, vars
    <2>2. UNCHANGED <<files, denotes, file_count, file_inode, inode_count, inode_number>>
      BY <1>1 DEF vars
    <2>3. /\ \A o \in Files : file_count[o] <= file_count'[o]
          /\ \A i \in Inodes : inode_count[i] <= inode_count'[i]
      BY <2>2 DEF Inv, TypeOK
    <2>4. NoDangling'
      BY <2>1, <2>2, <2>3, NoneOpened
    <2> QED
      BY <2>1, <2>4 DEF Inv
  <1>2. CASE Next
    <2>1. ASSUME NEW p \in live, NEW name \in Names \cup {Root}, open_existing(p, name)
          PROVE  Inv'
      BY <2>1, OpenExistingKeeps
    <2>2. ASSUME NEW p \in live, NEW name \in Names,
                 open_creat(p, name) \/ open_creat_fails(p, name)
          PROVE  Inv'
      BY <2>2, OpenCreatKeeps, OpenCreatFailsKeeps
    <2>3. ASSUME NEW p \in live, NEW fd \in FDs, close_syscall(p, fd)
          PROVE  Inv'
      BY <2>3, CloseKeeps
    <2>4. ASSUME NEW p \in live, NEW old \in FDs, NEW new \in FDs, dup2_syscall(p, old, new)
          PROVE  Inv'
      BY <2>4, Dup2Keeps
    <2>5. ASSUME NEW name \in Names, unlink_syscall(name) \/ execve(name)
          PROVE  Inv'
      BY <2>5, UnlinkKeeps, ExecveKeeps
    <2>6. ASSUME NEW p \in live, NEW q \in Proc, vfork(p, q)
          PROVE  Inv'
      BY <2>6, VforkKeeps
    <2>7. ASSUME NEW p \in live, process_destroy(p)
          PROVE  Inv'
      BY <2>7, DestroyKeeps
    <2> QED
      BY <1>2, <2>1, <2>2, <2>3, <2>4, <2>5, <2>6, <2>7 DEF Next
  <1> QED
    BY <1>1, <1>2

LEMMA Invariance == ASSUME Sane PROVE Spec => []Inv
  <1>1. Inv /\ [Next]_vars => Inv'
    BY InvStep
  <1> QED
    BY <1>1, InvInit, PTL DEF Spec

-----------------------------------------------------------------------------
(* What follows from it                                                   *)

\* Type correctness, which includes that the tables are never indexed past
\* their ends by file_object_allocate() and inode_lookup_and_alloc().
THEOREM VfsTypeOK == ASSUME Sane PROVE Spec => []TypeOK
  <1>1. Inv => TypeOK
    BY DEF Inv
  <1> QED
    BY <1>1, Invariance, PTL

\* The counts of files_increment_count(), file_object_free() and inode_free()
\* cover all users: a slot is not given away while a descriptor leads to it.
THEOREM VfsNoDangling == ASSUME Sane PROVE Spec => []NoDangling
  <1>1. Inv => NoDangling
    BY DEF Inv
  <1> QED
    BY <1>1, Invariance, PTL

\* A descriptor denotes the file it was opened on, whatever open(), close(),
\* dup2(), vfork(), unlink() and process_destroy() do in between.
THEOREM VfsFdDenotes == ASSUME Sane PROVE Spec => []FdDenotes
  <1>1. Inv => FdDenotes
    BY DEF Inv
  <1> QED
    BY <1>1, Invariance, PTL

\* open() with O_CREAT never makes a second entry of the same name.
THEOREM VfsNamesUnique == ASSUME Sane PROVE Spec => []NamesUnique
  <1>1. Inv => NamesUnique
    BY DEF Inv
  <1> QED
    BY <1>1, Invariance, PTL

-----------------------------------------------------------------------------
(* Reading                                                                *)

\* Places of sectors.
LEMMA Sector_parts ==
    ASSUME NEW S \in Nat, NEW b \in Nat \ {0}
    PROVE  /\ S \div b \in Nat /\ S % b \in 0..(b - 1)
           /\ S = (S \div b) * b + (S % b)
OBVIOUS

LEMMA Sector_mono ==
    ASSUME NEW s \in Nat, NEW q \in Nat, NEW b \in Nat \ {0}
    PROVE  /\ s * b \in Nat /\ (s + 1) * b = s * b + b
           /\ s < q => s * b + b <= q * b
           /\ s = q => s * b = q * b
           /\ s * b < q * b + b => s <= q
OBVIOUS

LEMMA Sector_last ==
    ASSUME NEW S \in Nat, NEW q \in Nat, NEW b \in Nat \ {0}, S <= q * b
    PROVE  S \div b <= q
OBVIOUS

AllFiles == Binary \cup Plain
Stretch(f) == Len(text[f]) + Skip(f)
Upto(l, n) == IF l <= n THEN l ELSE n

\* What the loop gives from byte a of sector s on, when l are left.
Amount_read(f, s, a, l) ==
    IF s <= Stretch(f) \div BLOCK THEN Upto(l, Stretch(f) - (s * BLOCK + a))
    ELSE Upto(l, (ENTRIES * BLOCK + BLOCK) - (s * BLOCK + a))
Piece(f, p, n) == [k \in 1..n |-> OnDisk(f, p + k - 1)]

Fits(f) == text[f] \in Seq(Nat) /\ Len(text[f]) <= Capacity(f)

LEMMA IOConstants ==
    /\ BLOCK \in Nat \ {0} /\ ENTRIES \in Nat \ {0} /\ ADDR_LEN \in Nat /\ ADDR_LEN < BLOCK
    /\ MaxWrites \in Nat
    /\ \A f : Skip(f) \in 0..(BLOCK - 1) /\ Capacity(f) \in Nat
<1>1. /\ BLOCK \in Nat \ {0} /\ ENTRIES \in Nat \ {0} /\ ADDR_LEN \in Nat /\ ADDR_LEN < BLOCK
      /\ MaxWrites \in Nat
  BY FileIOAssumption
<1>2. ASSUME NEW f
      PROVE  Skip(f) \in 0..(BLOCK - 1) /\ Capacity(f) \in Nat
  <2>1. Skip(f) \in 0..(BLOCK - 1)
    BY <1>1 DEF Skip
  <2>2. BLOCK * ENTRIES \in Nat /\ BLOCK * ENTRIES >= BLOCK
    BY <1>1
  <2> QED
    BY <1>1, <2>1, <2>2 DEF Capacity
<1> QED
  BY <1>1, <1>2

LEMMA PieceJoin ==
    ASSUME NEW f, NEW p \in Nat, NEW n \in Nat, NEW m \in Nat
    PROVE  Piece(f, p, n) \o Piece(f, p + n, m) = Piece(f, p, n + m)
<1> DEFINE D(x) == OnDisk(f, x)
<1>1. /\ Piece(f, p, n) = [k \in 1..n |-> D(p + k - 1)]
      /\ Piece(f, p + n, m) = [k \in 1..m |-> D((p + n) + k - 1)]
      /\ Piece(f, p, n + m) = [k \in 1..(n + m) |-> D(p + k - 1)]
  BY DEF Piece
<1> HIDE DEF D
<1>2. Len(Piece(f, p, n)) = n /\ Len(Piece(f, p + n, m)) = m
  BY <1>1
<1>3. \A k \in 1..(n + m) : (Piece(f, p, n) \o Piece(f, p + n, m))[k] = D(p + k - 1)
  <2> TAKE k \in 1..(n + m)
  <2>1. CASE k <= n
    BY <1>1, <1>2, <2>1
  <2>2. CASE k > n
    <3>1. k - n \in 1..m /\ (p + n) + (k - n) - 1 = p + k - 1
      BY <2>2
    <3>2. Piece(f, p + n, m)[k - n] = D(p + k - 1)
      BY <1>1, <3>1
    <3> QED
      BY <1>2, <2>2, <3>2
  <2>3. k <= n \/ k > n
    OBVIOUS
  <2> QED
    BY <2>1, <2>2, <2>3
<1> QED
  BY <1>1, <1>2, <1>3

LEMMA SizeParts ==
    ASSUME NEW f, Fits(f)
    PROVE  /\ Stretch(f) \in Nat /\ Stretch(f) <= ENTRIES * BLOCK
           /\ Stretch(f) \div BLOCK \in 0..ENTRIES /\ Stretch(f) % BLOCK \in 0..(BLOCK - 1)
           /\ Stretch(f) = (Stretch(f) \div BLOCK) * BLOCK + (Stretch(f) % BLOCK)
<1>1. Stretch(f) \in Nat /\ Stretch(f) <= ENTRIES * BLOCK
  BY IOConstants DEF Fits, Stretch, Capacity
<1>2. BLOCK \in Nat \ {0} /\ ENTRIES \in Nat
  BY IOConstants
<1>3. /\ Stretch(f) \div BLOCK \in Nat /\ Stretch(f) % BLOCK \in 0..(BLOCK - 1)
      /\ Stretch(f) = (Stretch(f) \div BLOCK) * BLOCK + (Stretch(f) % BLOCK)
  BY <1>1, <1>2, Sector_parts
<1>4. Stretch(f) \div BLOCK <= ENTRIES
  BY <1>1, <1>2, Sector_last
<1> QED
  BY <1>1, <1>2, <1>3, <1>4

\* Three ways in which a turn is the last one: the end of the file, all that
\* was asked for, and the last sector.
StopsAt(B, a, l, r, p, n, R, A) ==
    /\ B \in Nat /\ a \in Nat /\ l \in Nat /\ r \in Nat /\ p \in Nat /\ n \in Int /\ R \in Int
    /\ r < B /\ (R = l \/ R = B - a) /\ R <= l
    /\ n = (IF a + R > r THEN r - a ELSE R)
    /\ A = Upto(l, (p + r) - (p + a))
    /\ n = l \/ a + R > r

FillsAt(B, a, l, p, e, n, A) ==
    /\ B \in Nat /\ a \in Nat /\ l \in Nat /\ p \in Nat /\ e \in Nat /\ n \in Int
    /\ n = (IF B - a > l THEN l ELSE B - a)
    /\ n = l
    /\ A = Upto(l, e - (p + a))
    /\ p + B <= e

OutAt(B, a, l, p, n, A) ==
    /\ B \in Nat /\ a \in Nat /\ l \in Nat /\ p \in Nat /\ n \in Int
    /\ n = (IF B - a > l THEN l ELSE B - a)
    /\ A = Upto(l, (p + B) - (p + a))

LEMMA TurnStops ==
    ASSUME NEW B, NEW a, NEW l, NEW r, NEW p, NEW n, NEW R, NEW A,
           StopsAt(B, a, l, r, p, n, R, A)
    PROVE  n = A \/ (n <= 0 /\ A <= 0)
<1>1. A = IF l <= r - a THEN l ELSE r - a
  <2>1. (p + r) - (p + a) = r - a
    BY DEF StopsAt
  <2> QED
    BY <2>1 DEF StopsAt, Upto
<1>2. CASE a + R > r
  BY <1>1, <1>2 DEF StopsAt
<1>3. CASE ~(a + R > r)
  BY <1>1, <1>3 DEF StopsAt
<1> QED
  BY <1>2, <1>3

LEMMA TurnFills ==
    ASSUME NEW B, NEW a, NEW l, NEW p, NEW e, NEW n, NEW A, FillsAt(B, a, l, p, e, n, A)
    PROVE  n = A
<1>1. l <= B - a
  BY DEF FillsAt
<1>2. e - (p + a) \in Int /\ l <= e - (p + a)
  BY <1>1 DEF FillsAt
<1> QED
  BY <1>2 DEF FillsAt, Upto

LEMMA TurnOut ==
    ASSUME NEW B, NEW a, NEW l, NEW p, NEW n, NEW A, OutAt(B, a, l, p, n, A)
    PROVE  n = A
<1>1. (p + B) - (p + a) = B - a
  BY DEF OutAt
<1>2. A = IF l <= B - a THEN l ELSE B - a
  BY <1>1 DEF OutAt, Upto
<1> QED
  BY <1>2 DEF OutAt

LEMMA ReadTurn ==
    ASSUME NEW f, Fits(f), NEW s \in 0..ENTRIES, NEW a \in 0..(BLOCK - 1), NEW l \in Nat,
           NEW n, n = IF Ends(f, s, a, l) THEN (Stretch(f) % BLOCK) - a ELSE Room(a, l)
    PROVE  /\ n \in Int /\ s * BLOCK + a \in Nat
           /\ s >= ENTRIES \/ n = l \/ Ends(f, s, a, l) =>
                n = Amount_read(f, s, a, l) \/ (n <= 0 /\ Amount_read(f, s, a, l) <= 0)
           /\ ~(s >= ENTRIES \/ n = l \/ Ends(f, s, a, l)) =>
                /\ n \in Nat /\ l - n \in Nat /\ s + 1 \in 0..ENTRIES
                /\ (s + 1) * BLOCK + 0 = (s * BLOCK + a) + n
                /\ Amount_read(f, s + 1, 0, l - n) \in Nat
                /\ n + Amount_read(f, s + 1, 0, l - n) = Amount_read(f, s, a, l)
<1> DEFINE B == BLOCK
           S == Stretch(f)
           q == S \div B
           r == S % B
           sB == s * B
           qB == q * B
           EB == ENTRIES * B
<1>1. /\ B \in Nat \ {0} /\ ENTRIES \in Nat \ {0}
      /\ S \in Nat /\ q \in 0..ENTRIES /\ r \in 0..(B - 1) /\ S = qB + r
  BY IOConstants, SizeParts
<1>2. /\ sB \in Nat /\ qB \in Nat /\ EB \in Nat
      /\ s < q => sB + B <= qB
      /\ s = q => sB = qB
      /\ s > q => qB + B <= sB
      /\ s < ENTRIES => sB + B <= EB
      /\ s = ENTRIES => sB = EB
      /\ (s + 1) * B = sB + B
  <2>1. s \in Nat /\ q \in Nat /\ ENTRIES \in Nat
    BY <1>1
  <2> QED
    BY <1>1, <2>1, Sector_mono
<1>3. Ends(f, s, a, l) <=> s = q /\ a + Room(a, l) > r
  BY DEF Ends, Stretch
<1>4. Room(a, l) = IF B - a > l THEN l ELSE B - a
  BY DEF Room
<1>5. Amount_read(f, s, a, l) = IF s <= q THEN Upto(l, S - (sB + a)) ELSE Upto(l, (EB + B) - (sB + a))
  BY DEF Amount_read
<1>6. Amount_read(f, s + 1, 0, l - n)
        = IF s + 1 <= q THEN Upto(l - n, S - ((s + 1) * B + 0)) ELSE Upto(l - n, (EB + B) - ((s + 1) * B + 0))
  BY DEF Amount_read
<1>7. a \in Nat /\ a < B
  BY <1>1
<1>8. n = IF s = q /\ a + Room(a, l) > r THEN r - a ELSE Room(a, l)
  BY <1>3
<1> DEFINE A == Amount_read(f, s, a, l)
           E == Ends(f, s, a, l)
           R == Room(a, l)
<1>9. /\ A = IF s <= q THEN Upto(l, S - (sB + a)) ELSE Upto(l, (EB + B) - (sB + a))
      /\ E <=> s = q /\ a + R > r
      /\ R = IF B - a > l THEN l ELSE B - a
      /\ n = IF s = q /\ a + R > r THEN r - a ELSE R
  BY <1>3, <1>4, <1>5, <1>8
<1>10. s \in Nat /\ q \in Nat /\ ENTRIES \in Nat /\ s <= ENTRIES /\ r \in Nat /\ r < B
  BY <1>1
<1>11. n \in Int /\ s * BLOCK + a \in Nat
  <2>1. s * BLOCK + a \in Nat
    BY <1>2, <1>7 DEF B, sB
  <2> HIDE DEF B, S, q, r, sB, qB, EB, A, E, R
  <2> QED
    BY <1>1, <1>7, <1>9, <1>10, <2>1
<1>12. CASE s >= ENTRIES \/ n = l \/ Ends(f, s, a, l)
  <2>1. s >= ENTRIES \/ n = l \/ E
    BY <1>12
  <2>2. n = A \/ (n <= 0 /\ A <= 0)
    <3> HIDE DEF B, S, q, r, sB, qB, EB, A, E, R
    <3>0. /\ B \in Nat /\ sB \in Nat /\ R \in Int /\ R <= l /\ n \in Int
          /\ R = l \/ R = B - a
          /\ R # l => a + R > r
      BY <1>1, <1>2, <1>7, <1>9, <1>10, <1>11
    <3>1. CASE s = q
      <4>1. n = (IF a + R > r THEN r - a ELSE R) /\ A = Upto(l, (sB + r) - (sB + a))
        BY <1>1, <1>2, <1>9, <1>10, <3>1
      <4>2. n = l \/ a + R > r
        <5>1. CASE a + R > r
          BY <5>1
        <5>2. CASE ~(a + R > r)
          BY <3>0, <4>1, <5>2
        <5> QED
          BY <5>1, <5>2
      <4> HIDE DEF B, S, q, r, sB, qB, EB, A, E, R
      <4> QED
        <5>1. /\ B \in Nat /\ a \in Nat /\ l \in Nat /\ r \in Nat /\ sB \in Nat
              /\ n \in Int /\ R \in Int
          BY <1>7, <1>10, <3>0
        <5>2. r < B /\ (R = l \/ R = B - a) /\ R <= l
          BY <1>10, <3>0
        <5> QED
          <6>1. StopsAt(B, a, l, r, sB, n, R, A)
            BY <4>1, <4>2, <5>1, <5>2 DEF StopsAt
          <6> QED
            BY <6>1, TurnStops
    <3>2. CASE s < q
      <4>1. s <= q /\ s # q /\ ~(s >= ENTRIES)
        BY <1>1, <1>10, <3>2
      <4>2. n = R /\ A = Upto(l, S - (sB + a)) /\ n = l
        BY <1>9, <2>1, <4>1
      <4>3. sB + B <= S /\ S \in Nat
        BY <1>1, <1>2, <1>10, <3>2
      <4>4. n = IF B - a > l THEN l ELSE B - a
        BY <1>9, <4>2
      <4> QED
        <5>1. /\ B \in Nat /\ a \in Nat /\ l \in Nat /\ sB \in Nat /\ S \in Nat
              /\ n \in Int /\ a < B
          BY <1>7, <3>0, <4>3
        <5> QED
          <6>1. FillsAt(B, a, l, sB, S, n, A)
            BY <4>2, <4>3, <4>4, <5>1 DEF FillsAt
          <6> QED
            BY <6>1, TurnFills
    <3>3. CASE s > q
      <4>1. ~(s <= q) /\ s # q
        BY <1>10, <3>3
      <4>2. n = R /\ A = Upto(l, (EB + B) - (sB + a))
        BY <1>9, <4>1
      <4>3. n = IF B - a > l THEN l ELSE B - a
        BY <1>9, <4>2
      <4>4. CASE s = ENTRIES
        <5>1. A = Upto(l, (sB + B) - (sB + a))
          BY <1>2, <4>2, <4>4
        <5> QED
          <6>1. B \in Nat /\ a \in Nat /\ l \in Nat /\ sB \in Nat /\ n \in Int
            BY <1>7, <3>0
          <6> QED
            <7>1. OutAt(B, a, l, sB, n, A)
              BY <4>3, <5>1, <6>1 DEF OutAt
            <7> QED
              BY <7>1, TurnOut
      <4>5. CASE s # ENTRIES
        <5>1. n = l
          BY <1>9, <1>10, <2>1, <4>1, <4>5
        <5>2. sB + B <= EB + B /\ EB + B \in Nat
          BY <1>1, <1>2, <1>10, <4>5
        <5> QED
          <6>1. /\ B \in Nat /\ a \in Nat /\ l \in Nat /\ sB \in Nat
                /\ n \in Int /\ a < B
            BY <1>7, <3>0
          <6> QED
            <7>1. FillsAt(B, a, l, sB, EB + B, n, A)
              BY <4>2, <4>3, <5>1, <5>2, <6>1 DEF FillsAt
            <7> QED
              BY <7>1, TurnFills
      <4> QED
        BY <4>4, <4>5
    <3> QED
      BY <1>10, <3>1, <3>2, <3>3
  <2> QED
    BY <1>11, <1>12, <2>2
<1> HIDE DEF B, S, q, r, sB, qB, EB, A, E, R
<1>13. CASE ~(s >= ENTRIES \/ n = l \/ Ends(f, s, a, l))
  <2>1. n = B - a /\ n < l
    BY <1>1, <1>3, <1>4, <1>7, <1>8, <1>13
  <2>2. s # q
    BY <1>1, <1>3, <1>4, <1>7, <1>8, <1>13, <2>1
  <2>3. (s + 1) * B + 0 = sB + B
    BY <1>2, <1>1
  <2>4. s < ENTRIES
    BY <1>1, <1>13
  <2>5. s < q => s + 1 <= q
    BY <1>1
  <2>6. s > q => ~(s + 1 <= q) /\ ~(s <= q)
    BY <1>1
  <2>7. /\ Amount_read(f, s + 1, 0, l - n) \in Nat
        /\ n + Amount_read(f, s + 1, 0, l - n) = Amount_read(f, s, a, l)
    <3>1. CASE s < q
      BY <1>1, <1>2, <1>5, <1>6, <1>7, <2>1, <2>3, <2>5, <3>1 DEF Upto
    <3>2. CASE s > q
      BY <1>1, <1>2, <1>5, <1>6, <1>7, <2>1, <2>3, <2>4, <2>6, <3>2 DEF Upto
    <3> QED
      BY <1>1, <2>2, <3>1, <3>2
  <2>8. (s + 1) * BLOCK + 0 = (s * BLOCK + a) + n
    BY <1>1, <1>2, <1>7, <2>1, <2>3 DEF B, sB
  <2>9. n \in Nat /\ l - n \in Nat /\ s + 1 \in 0..ENTRIES /\ n \in Int /\ s * BLOCK + a \in Nat
    BY <1>1, <1>2, <1>7, <2>1, <2>4 DEF B, sB
  <2> QED
    BY <1>13, <2>7, <2>8, <2>9
<1> QED
  BY <1>12, <1>13

\* The loop as an equation, and what solves it.
Turn_of(f, g, s, a, l) ==
    LET n == IF Ends(f, s, a, l)
             THEN ((Len(text[f]) + Skip(f)) % BLOCK) - a ELSE Room(a, l)
        here == [k \in 1..n |-> OnDisk(f, s * BLOCK + a + k - 1)]
    IN IF s >= ENTRIES \/ n = l \/ Ends(f, s, a, l) THEN here
       ELSE here \o g[s + 1][0][l - n]
Loop_of(f, g) == [s \in 0..ENTRIES |-> [a \in 0..(BLOCK - 1) |-> [l \in Nat |-> Turn_of(f, g, s, a, l)]]]
Given_at(f, s, a, l) == Piece(f, s * BLOCK + a, Amount_read(f, s, a, l))

LEMMA LoopEquation ==
    ASSUME NEW f
    PROVE  Sectors_read(f) = CHOOSE g : g = Loop_of(f, g)
BY DEF Sectors_read, Loop_of, Turn_of

\* One turn solves the equation if the next sector's do.
LEMMA TurnGives ==
    ASSUME NEW f, Fits(f), NEW g, NEW s \in 0..ENTRIES, NEW a \in 0..(BLOCK - 1), NEW l \in Nat,
           s < ENTRIES => \A m \in Nat : g[s + 1][0][m] = Given_at(f, s + 1, 0, m)
    PROVE  Turn_of(f, g, s, a, l) = Given_at(f, s, a, l)
<1> DEFINE n == IF Ends(f, s, a, l) THEN (Stretch(f) % BLOCK) - a ELSE Room(a, l)
           p == s * BLOCK + a
           A == Amount_read(f, s, a, l)
           stops == s >= ENTRIES \/ n = l \/ Ends(f, s, a, l)
<1>1. Turn_of(f, g, s, a, l) = IF stops THEN Piece(f, p, n) ELSE Piece(f, p, n) \o g[s + 1][0][l - n]
  BY DEF Turn_of, Piece, Stretch
<1>2. /\ n \in Int /\ p \in Nat
      /\ stops => n = A \/ (n <= 0 /\ A <= 0)
      /\ ~stops => /\ n \in Nat /\ l - n \in Nat /\ s + 1 \in 0..ENTRIES
                   /\ (s + 1) * BLOCK + 0 = p + n
                   /\ Amount_read(f, s + 1, 0, l - n) \in Nat
                   /\ n + Amount_read(f, s + 1, 0, l - n) = A
  BY ReadTurn
<1>3. Given_at(f, s, a, l) = Piece(f, p, A)
  BY DEF Given_at
<1> HIDE DEF n, p, A, stops
<1>4. CASE stops
  <2>1. CASE n = A
    BY <1>1, <1>3, <1>4, <2>1
  <2>2. CASE n <= 0 /\ A <= 0
    <3>1. A \in Int
      <4>1. Upto(l, Stretch(f) - p) \in Int
        BY <1>2, SizeParts DEF Upto
      <4>2. Upto(l, (ENTRIES * BLOCK + BLOCK) - p) \in Int
        <5>1. (ENTRIES * BLOCK + BLOCK) - p \in Int
          BY <1>2, IOConstants
        <5> QED
          BY <5>1 DEF Upto
      <4> QED
        BY <4>1, <4>2 DEF A, p, Amount_read
    <3>2. 1..n = {} /\ 1..A = {}
      BY <1>2, <2>2, <3>1
    <3>3. Piece(f, p, n) = Piece(f, p, A)
      BY <3>2 DEF Piece
    <3> QED
      BY <1>1, <1>3, <1>4, <3>3
  <2> QED
    BY <1>2, <1>4, <2>1, <2>2
<1>5. CASE ~stops
  <2>1. s < ENTRIES
    BY <1>5, IOConstants DEF stops
  <2>2. g[s + 1][0][l - n] = Piece(f, p + n, Amount_read(f, s + 1, 0, l - n))
    <3>1. g[s + 1][0][l - n] = Given_at(f, s + 1, 0, l - n)
      BY <1>2, <1>5, <2>1
    <3> QED
      BY <1>2, <1>5, <3>1 DEF Given_at
  <2>3. Piece(f, p, n) \o Piece(f, p + n, Amount_read(f, s + 1, 0, l - n)) = Piece(f, p, A)
    <3>1. /\ p \in Nat /\ n \in Nat /\ Amount_read(f, s + 1, 0, l - n) \in Nat
          /\ n + Amount_read(f, s + 1, 0, l - n) = A
      BY <1>2, <1>5
    <3> QED
      BY <3>1, PieceJoin
  <2> QED
    BY <1>1, <1>3, <1>5, <2>2, <2>3
<1> QED
  BY <1>4, <1>5

LEMMA LoopSolved ==
    ASSUME NEW f, Fits(f)
    PROVE  Sectors_read(f) = Loop_of(f, Sectors_read(f))
<1> DEFINE W == [s \in 0..ENTRIES |-> [a \in 0..(BLOCK - 1) |-> [l \in Nat |-> Given_at(f, s, a, l)]]]
<1>1. \A s \in 0..ENTRIES, a \in 0..(BLOCK - 1), l \in Nat : W[s][a][l] = Given_at(f, s, a, l)
  OBVIOUS
<1>2. W = Loop_of(f, W)
  <2>1. ASSUME NEW s \in 0..ENTRIES, NEW a \in 0..(BLOCK - 1), NEW l \in Nat
        PROVE  Turn_of(f, W, s, a, l) = Given_at(f, s, a, l)
    <3>1. 0 \in 0..(BLOCK - 1) /\ (s < ENTRIES => s + 1 \in 0..ENTRIES)
      BY IOConstants
    <3>2. s < ENTRIES => \A m \in Nat : W[s + 1][0][m] = Given_at(f, s + 1, 0, m)
      BY <1>1, <3>1
    <3> HIDE DEF W
    <3> QED
      BY <3>2, TurnGives
  <2> DEFINE T(s, a, l) == Turn_of(f, W, s, a, l)
             G(s, a, l) == Given_at(f, s, a, l)
  <2>2. \A s \in 0..ENTRIES, a \in 0..(BLOCK - 1), l \in Nat : T(s, a, l) = G(s, a, l)
    BY <2>1
  <2>3. W = [s \in 0..ENTRIES |-> [a \in 0..(BLOCK - 1) |-> [l \in Nat |-> G(s, a, l)]]]
    OBVIOUS
  <2>4. Loop_of(f, W) = [s \in 0..ENTRIES |-> [a \in 0..(BLOCK - 1) |-> [l \in Nat |-> T(s, a, l)]]]
    BY DEF Loop_of
  <2> HIDE DEF T, G, W
  <2>5. \A s \in 0..ENTRIES, a \in 0..(BLOCK - 1) : [l \in Nat |-> G(s, a, l)] = [l \in Nat |-> T(s, a, l)]
    BY <2>2
  <2>6. \A s \in 0..ENTRIES : [a \in 0..(BLOCK - 1) |-> [l \in Nat |-> G(s, a, l)]]
                             = [a \in 0..(BLOCK - 1) |-> [l \in Nat |-> T(s, a, l)]]
    BY <2>5
  <2> QED
    BY <2>3, <2>4, <2>6
<1> HIDE DEF W
<1>3. \E g : g = Loop_of(f, g)
  BY <1>2
<1> QED
  BY <1>3, LoopEquation

\* The loop over sectors gives the bytes from the first on, up to the end.
LEMMA LoopGives ==
    ASSUME NEW f, Fits(f), NEW s \in 0..ENTRIES, NEW a \in 0..(BLOCK - 1), NEW l \in Nat
    PROVE  Sectors_read(f)[s][a][l] = Given_at(f, s, a, l)
<1> DEFINE g == Sectors_read(f)
           Right(k) == \A b \in 0..(BLOCK - 1), m \in Nat : g[ENTRIES - k][b][m] = Given_at(f, ENTRIES - k, b, m)
           R == {k \in Nat : k <= ENTRIES => Right(k)}
<1>1. \A t \in 0..ENTRIES, b \in 0..(BLOCK - 1), m \in Nat : g[t][b][m] = Turn_of(f, g, t, b, m)
  <2>1. g = Loop_of(f, g)
    BY LoopSolved
  <2> DEFINE T(s_, a_, l_) == Turn_of(f, g, s_, a_, l_)
  <2>2. g = [t \in 0..ENTRIES |-> [b \in 0..(BLOCK - 1) |-> [m \in Nat |-> T(t, b, m)]]]
    BY <2>1 DEF Loop_of
  <2> HIDE DEF g, T
  <2>3. \A t \in 0..ENTRIES : g[t] = [b \in 0..(BLOCK - 1) |-> [m \in Nat |-> T(t, b, m)]]
    BY <2>2
  <2>4. \A t \in 0..ENTRIES, b \in 0..(BLOCK - 1) : g[t][b] = [m \in Nat |-> T(t, b, m)]
    BY <2>3
  <2>5. \A t \in 0..ENTRIES, b \in 0..(BLOCK - 1), m \in Nat : g[t][b][m] = T(t, b, m)
    <3> TAKE t \in 0..ENTRIES, b \in 0..(BLOCK - 1), m \in Nat
    <3> DEFINE h == g[t][b]
    <3>1. h = [m_ \in Nat |-> T(t, b, m_)]
      BY <2>4
    <3> HIDE DEF h
    <3>2. h[m] = T(t, b, m)
      BY <3>1
    <3> QED
      BY <3>2 DEF h
  <2> QED
    BY <2>5 DEF T
<1>2. ENTRIES \in Nat /\ 0 \in 0..(BLOCK - 1)
  BY IOConstants
<1> HIDE DEF g
<1>3. 0 \in R
  <2>1. ENTRIES - 0 = ENTRIES /\ ENTRIES \in 0..ENTRIES /\ ~(ENTRIES < ENTRIES)
    BY <1>2
  <2>2. \A b \in 0..(BLOCK - 1), m \in Nat : Turn_of(f, g, ENTRIES, b, m) = Given_at(f, ENTRIES, b, m)
    BY <2>1, TurnGives
  <2> QED
    BY <1>1, <2>1, <2>2
<1>4. \A k \in Nat : k \in R => k + 1 \in R
  <2> SUFFICES ASSUME NEW k \in Nat, k \in R, k + 1 <= ENTRIES
               PROVE  Right(k + 1)
    OBVIOUS
  <2>1. ENTRIES - (k + 1) \in 0..ENTRIES /\ (ENTRIES - (k + 1)) + 1 = ENTRIES - k /\ k <= ENTRIES
    BY <1>2
  <2>2. Right(k)
    BY <2>1
  <2>3. \A m \in Nat : g[(ENTRIES - (k + 1)) + 1][0][m] = Given_at(f, (ENTRIES - (k + 1)) + 1, 0, m)
    BY <1>2, <2>1, <2>2
  <2>4. \A b \in 0..(BLOCK - 1), m \in Nat :
           Turn_of(f, g, ENTRIES - (k + 1), b, m) = Given_at(f, ENTRIES - (k + 1), b, m)
    BY <2>1, <2>3, TurnGives
  <2> QED
    BY <1>1, <2>1, <2>4
<1>5. Nat \subseteq R
  <2> HIDE DEF R
  <2> QED
    BY <1>3, <1>4, Induction
<1>6. ENTRIES - s \in Nat /\ ENTRIES - s <= ENTRIES /\ ENTRIES - (ENTRIES - s) = s
  BY <1>2
<1>7. Right(ENTRIES - s)
  BY <1>5, <1>6
<1> QED
  BY <1>6, <1>7 DEF g

-----------------------------------------------------------------------------
(* The whole of a read                                                    *)

\* Where a read ends.
Until(f, at, count) == IF at + count < Len(text[f]) THEN at + count ELSE Len(text[f])

\* A read gives the bytes of the file from the offset on.
LEMMA BytesAreRead ==
    ASSUME NEW f, Fits(f), NEW at \in Nat, NEW count \in Nat
    PROVE  /\ Bytes(f, at, count) = SubSeq(text[f], at + 1, Until(f, at, count))
           /\ Len(Bytes(f, at, count)) \in Nat
<1> DEFINE w == text[f]
           to == Until(f, at, count)
<1>1. w \in Seq(Nat) /\ Len(w) \in Nat /\ Skip(f) \in Nat /\ BLOCK \in Nat \ {0} /\ ENTRIES \in Nat
  BY IOConstants DEF Fits
<1>2. to \in Nat /\ to <= Len(w) /\ to <= at + count
  BY <1>1 DEF Until
<1>3. CASE at > Len(w)
  <2>1. Bytes(f, at, count) = <<>>
    BY <1>3 DEF Bytes
  <2>2. SubSeq(w, at + 1, to) = <<>>
    <3>1. to < at + 1
      BY <1>1, <1>2, <1>3
    <3> QED
      BY <1>2, <3>1, SubSeqEmpty
  <2> QED
    BY <2>1, <2>2
<1>4. CASE at <= Len(w)
  <2> DEFINE p == From(f, at)
             s == p \div BLOCK
             a == p % BLOCK
             n == to - at
  <2>1. p \in Nat /\ p = at + Skip(f) /\ p <= Stretch(f) /\ Stretch(f) \in Nat /\ Stretch(f) = Len(w) + Skip(f)
    BY <1>1, <1>4 DEF From, Stretch
  <2>2. s \in Nat /\ a \in 0..(BLOCK - 1) /\ p = s * BLOCK + a
    BY <1>1, <2>1, Sector_parts
  <2>3. s <= ENTRIES /\ s <= Stretch(f) \div BLOCK
    <3>1. p <= ENTRIES * BLOCK
      <4> DEFINE EB == ENTRIES * BLOCK
      <4>1. EB \in Nat
        BY <1>1
      <4>2. Stretch(f) <= EB
        BY SizeParts
      <4> HIDE DEF EB, p
      <4> QED
        BY <2>1, <4>1, <4>2 DEF EB
    <3>2. s <= ENTRIES
      BY <1>1, <2>1, <3>1, Sector_last
    <3> DEFINE q == Stretch(f) \div BLOCK
               r == Stretch(f) % BLOCK
    <3>3. q \in Nat /\ r \in 0..(BLOCK - 1) /\ Stretch(f) = q * BLOCK + r
      BY <1>1, <2>1, Sector_parts
    <3> HIDE DEF q, r, s, a
    <3>4. s * BLOCK \in Nat /\ q * BLOCK \in Nat /\ s * BLOCK < q * BLOCK + BLOCK
      <4>1. s * BLOCK \in Nat /\ q * BLOCK \in Nat
        BY <1>1, <2>2, <3>3, Sector_mono
      <4> DEFINE sB == s * BLOCK
                 qB == q * BLOCK
      <4>2. /\ sB \in Nat /\ qB \in Nat /\ p = sB + a /\ Stretch(f) = qB + r
            /\ BLOCK \in Nat /\ a \in Nat /\ r \in Nat /\ r < BLOCK
        BY <1>1, <2>2, <3>3, <4>1
      <4> HIDE DEF p, sB, qB
      <4>3. sB < qB + BLOCK
        BY <2>1, <4>2
      <4> QED
        BY <4>1, <4>3 DEF sB, qB
    <3>5. s <= q
      BY <1>1, <2>2, <3>3, <3>4, Sector_mono
    <3> QED
      BY <3>2, <3>5 DEF q
  <2>4. s \in 0..ENTRIES
    BY <1>1, <2>2, <2>3
  <2>5. n \in Nat /\ n = Upto(count, Len(w) - at)
    BY <1>1, <1>4 DEF Until, Upto
  <2>6. Bytes(f, at, count) = Piece(f, p, n)
    <3>1. Bytes(f, at, count) = Sectors_read(f)[s][a][count]
      BY <1>1, <1>4 DEF Bytes
    <3> HIDE DEF s, a
    <3>2. Bytes(f, at, count) = Given_at(f, s, a, count)
      BY <2>2, <2>4, <3>1, LoopGives
    <3>3. Amount_read(f, s, a, count) = Upto(count, Stretch(f) - p)
      BY <2>2, <2>3 DEF Amount_read
    <3>4. Stretch(f) - p = Len(w) - at
      BY <1>1, <2>1
    <3> QED
      BY <2>2, <2>5, <3>2, <3>3, <3>4 DEF Given_at
  <2> HIDE DEF w, to, p, s, a, n
  <2>7. Piece(f, p, n) = [k \in 1..n |-> w[at + k]]
    <3>1. ASSUME NEW k \in 1..n
          PROVE  OnDisk(f, p + k - 1) = w[at + k]
      <4>1. (p + k - 1) - Skip(f) + 1 = at + k
        <5> DEFINE z == Skip(f)
        <5>1. z \in Int /\ p \in Int /\ p = at + z /\ k \in Int /\ at \in Int
          BY <1>1, <2>1, <2>5
        <5> HIDE DEF z
        <5>2. (p + k - 1) - z + 1 = at + k
          BY <5>1
        <5> QED
          BY <5>2 DEF z
      <4>2. at + k \in 1..Len(w)
        BY <1>1, <1>2, <2>5 DEF n
      <4>3. at + k \in DOMAIN w
        BY <1>1, <4>2
      <4> QED
        BY <4>1, <4>3 DEF OnDisk, w
    <3> QED
      BY <3>1 DEF Piece
  <2>8. SubSeq(w, at + 1, to) = [k \in 1..n |-> w[at + k]]
    <3>1. to - (at + 1) + 1 = n
      BY <1>2 DEF n
    <3>2. SubSeq(w, at + 1, to) = [k \in 1..(to - (at + 1) + 1) |-> w[(at + 1) + k - 1]]
      BY <1>2
    <3>3. \A k \in 1..n : (at + 1) + k - 1 = at + k
      BY <2>5
    <3> QED
      BY <3>1, <3>2, <3>3
  <2>9. Len(Piece(f, p, n)) = n
    BY <2>5, <2>7
  <2> QED
    BY <2>5, <2>6, <2>7, <2>8, <2>9 DEF to, w
<1> QED
  BY <1>1, <1>3, <1>4 DEF w, to

-----------------------------------------------------------------------------
(* The files under the programs                                           *)

Handles == [file : AllFiles, mode : Modes, offset : Nat]

\* The files fit their T/S lists, and every object is open on one of them.
FilesHold ==
    /\ text \in [AllFiles -> Seq(Nat)]
    /\ \A f \in AllFiles : Len(text[f]) <= Capacity(f)
    /\ object \in [Objects -> Handles \cup {closed}]
    /\ writes \in Nat

ReadsInv == FilesHold /\ ReadsSound

LEMMA FilesFit ==
    ASSUME FilesHold, NEW f \in AllFiles
    PROVE  Fits(f) /\ Len(text[f]) \in Nat
BY DEF FilesHold, Fits

LEMMA ClosedIsNoHandle == closed \notin Handles
BY DEF closed, Handles

LEMMA OpenIsHandle ==
    ASSUME FilesHold, NEW o \in Open
    PROVE  /\ o \in Objects /\ object[o] \in Handles
           /\ object[o].file \in AllFiles /\ object[o].mode \in Modes /\ object[o].offset \in Nat
BY DEF FilesHold, Open, Handles

\* Only the offset of an object is changed by most calls, or its mode.
LEMMA MovedHandle ==
    ASSUME FilesHold, NEW o \in Open, NEW v
    PROVE  /\ v \in Nat => [object EXCEPT ![o].offset = v] \in [Objects -> Handles \cup {closed}]
           /\ v \in Modes => [object EXCEPT ![o].mode = v] \in [Objects -> Handles \cup {closed}]
<1>1. object[o] \in Handles /\ object \in [Objects -> Handles \cup {closed}]
  BY OpenIsHandle DEF FilesHold
<1>2. v \in Nat => [object[o] EXCEPT !.offset = v] \in Handles
  BY <1>1 DEF Handles
<1>3. v \in Modes => [object[o] EXCEPT !.mode = v] \in Handles
  BY <1>1 DEF Handles
<1> QED
  BY <1>1, <1>2, <1>3

\* Files that stay within their T/S lists.
LEMMA ChangedText ==
    ASSUME FilesHold, NEW f \in AllFiles, NEW w \in Seq(Nat), Len(w) <= Capacity(f)
    PROVE  /\ [text EXCEPT ![f] = w] \in [AllFiles -> Seq(Nat)]
           /\ \A g \in AllFiles : Len([text EXCEPT ![f] = w][g]) <= Capacity(g)
BY DEF FilesHold

LEMMA ZerosTo ==
    ASSUME NEW w \in Seq(Nat), NEW n \in Nat, n >= Len(w)
    PROVE  Zeros_to(w, n) \in Seq(Nat) /\ Len(Zeros_to(w, n)) = n
<1> DEFINE z == [k \in 1..(n - Len(w)) |-> 0]
<1>1. Len(w) \in Nat /\ n - Len(w) \in Nat
  OBVIOUS
<1>2. z \in Seq(Nat) /\ Len(z) = n - Len(w)
  BY <1>1
<1> HIDE DEF z
<1>3. w \o z \in Seq(Nat) /\ Len(w \o z) = Len(w) + Len(z)
  BY <1>2
<1> QED
  BY <1>1, <1>2, <1>3 DEF Zeros_to, z

LEMMA OverwrittenFits ==
    ASSUME NEW w \in Seq(Nat), NEW at \in Nat, NEW count \in Nat, NEW by \in Nat, NEW c \in Nat,
           Len(w) <= c, at + count <= c
    PROVE  Overwritten(w, at, count, by) \in Seq(Nat) /\ Len(Overwritten(w, at, count, by)) <= c
<1> DEFINE grown == IF at + count > Len(w) THEN Zeros_to(w, at + count) ELSE w
<1>1. grown \in Seq(Nat) /\ Len(grown) <= c /\ Len(grown) \in Nat
  <2>1. CASE at + count > Len(w)
    BY <2>1, ZerosTo
  <2>2. CASE ~(at + count > Len(w))
    BY <2>2
  <2> QED
    BY <2>1, <2>2
<1>2. Overwritten(w, at, count, by)
        = [k \in 1..Len(grown) |-> IF k > at /\ k <= at + count THEN by ELSE grown[k]]
  BY DEF Overwritten
<1> HIDE DEF grown
<1>3. \A k \in 1..Len(grown) : grown[k] \in Nat
  BY <1>1
<1> DEFINE over == [k \in 1..Len(grown) |-> IF k > at /\ k <= at + count THEN by ELSE grown[k]]
<1>4. over \in Seq(Nat) /\ Len(over) = Len(grown)
  <2>1. \A k \in 1..Len(grown) : over[k] \in Nat
    BY <1>3
  <2>2. over \in [1..Len(grown) -> Nat]
    BY <2>1
  <2> QED
    BY <1>1, <2>2
<1> QED
  BY <1>1, <1>2, <1>4

\* Each call keeps the files and objects, and only a read has an answer.
LEMMA ReadKeeps ==
    ASSUME FilesHold, NEW o \in Open, NEW n \in Nat, read_syscall(o, n)
    PROVE  FilesHold' /\ ReadsSound'
<1> DEFINE f  == object[o].file
           at == object[o].offset
           Told(result, bytes) == delivered' = [file |-> f, offset |-> at, count |-> n,
                                                result |-> result, bytes |-> bytes]
<1>1. f \in AllFiles /\ at \in Nat /\ Fits(f)
  BY OpenIsHandle, FilesFit
<1>2. text' = text /\ writes' = writes
  BY DEF read_syscall
<1>3. \/ Told("EBADF", <<>>) /\ object' = object
      \/ Told("ok", Bytes(f, at, n)) /\ object' = [object EXCEPT ![o].offset = @ + Len(Bytes(f, at, n))]
      \/ LeavesList(f, at, n) /\ Told("ENOENT", <<>>) /\ object' = object
  BY DEF read_syscall
<1>4. FilesHold'
  <2>1. at + Len(Bytes(f, at, n)) \in Nat
    BY <1>1, BytesAreRead
  <2>2. object' \in [Objects -> Handles \cup {closed}]
    <3>1. CASE object' = object
      BY <3>1 DEF FilesHold
    <3>2. CASE object' = [object EXCEPT ![o].offset = @ + Len(Bytes(f, at, n))]
      <4> DEFINE v == at + Len(Bytes(f, at, n))
      <4>1. object' = [object EXCEPT ![o].offset = v]
        BY <3>2
      <4> HIDE DEF v
      <4>2. [object EXCEPT ![o].offset = v] \in [Objects -> Handles \cup {closed}]
        BY <2>1, MovedHandle DEF v
      <4> QED
        BY <4>1, <4>2
    <3> QED
      BY <1>3, <3>1, <3>2
  <2> QED
    BY <1>2, <2>2 DEF FilesHold, Capacity, Skip
<1>5. ReadsSound'
  <2>1. CASE Told("EBADF", <<>>)
    BY <2>1 DEF ReadsSound
  <2>2. CASE Told("ok", Bytes(f, at, n))
    <3>1. Bytes(f, at, n) = SubSeq(text[f], at + 1, Until(f, at, n))
      BY <1>1, BytesAreRead
    <3> HIDE DEF f, at
    <3> QED
      BY <1>2, <2>2, <3>1 DEF ReadsSound, Until
  <2>3. CASE LeavesList(f, at, n) /\ Told("ENOENT", <<>>)
    <3>1. Len(text[f]) = Capacity(f) /\ at + n > Len(text[f]) /\ Len(text[f]) \in Nat
      BY <1>1, <2>3, FilesFit DEF LeavesList
    <3>2. ~(at + n < Len(text[f]))
      BY <1>1, <3>1
    <3> HIDE DEF f, at
    <3> QED
      BY <1>2, <2>3, <3>1, <3>2 DEF ReadsSound, Capacity, Skip
  <2> QED
    BY <1>3, <2>1, <2>2, <2>3
<1> QED
  BY <1>4, <1>5

LEMMA NothingIsSound ==
    ASSUME delivered' = Nothing
    PROVE  ReadsSound'
BY DEF ReadsSound, Nothing

LEMMA WriteKeeps ==
    ASSUME FilesHold, NEW o \in Open, NEW n \in Nat, write_syscall(o, n)
    PROVE  FilesHold'
<1> DEFINE f  == object[o].file
           at == object[o].offset
           w  == Overwritten(text[f], at, n, writes + 1)
<1>1. f \in AllFiles /\ at \in Nat /\ Fits(f) /\ Len(text[f]) \in Nat
  BY OpenIsHandle, FilesFit
<1>2. /\ at + n <= Capacity(f) /\ writes' = writes + 1
      /\ text' = [text EXCEPT ![f] = w]
      /\ object' = [object EXCEPT ![o].offset = at + n]
  BY DEF write_syscall
<1>3. w \in Seq(Nat) /\ Len(w) <= Capacity(f)
  <2>1. text[f] \in Seq(Nat) /\ Len(text[f]) <= Capacity(f) /\ Capacity(f) \in Nat /\ writes + 1 \in Nat
    BY <1>1, IOConstants DEF Fits, FilesHold
  <2> HIDE DEF f, at
  <2> QED
    BY <1>1, <1>2, <2>1, OverwrittenFits
<1>4. at + n \in Nat /\ writes + 1 \in Nat
  BY <1>1 DEF FilesHold
<1> HIDE DEF f, at, w
<1>5. /\ text' \in [AllFiles -> Seq(Nat)]
      /\ \A g \in AllFiles : Len(text'[g]) <= Capacity(g)
  BY <1>1, <1>2, <1>3, ChangedText
<1>6. object' \in [Objects -> Handles \cup {closed}]
  BY <1>2, <1>4, MovedHandle
<1> QED
  BY <1>2, <1>4, <1>5, <1>6 DEF FilesHold, Capacity, Skip

LEMMA TruncateKeeps ==
    ASSUME FilesHold, NEW o \in Open, NEW size \in Nat, ftruncate64_syscall(o, size)
    PROVE  FilesHold'
<1> DEFINE f == object[o].file
           w == IF size < Len(text[f]) THEN SubSeq(text[f], 1, size) ELSE Zeros_to(text[f], size)
<1>1. f \in AllFiles /\ Fits(f) /\ Len(text[f]) \in Nat /\ text[f] \in Seq(Nat)
  BY OpenIsHandle, FilesFit DEF Fits
<1>2. size <= Capacity(f) /\ text' = [text EXCEPT ![f] = w] /\ object' = object /\ writes' = writes
  BY DEF ftruncate64_syscall
<1> HIDE DEF f
<1>3. w \in Seq(Nat) /\ Len(w) = size
  <2>1. CASE size < Len(text[f])
    <3>1. \A i \in 1..size : text[f][i] \in Nat
      BY <1>1, <2>1
    <3>2. SubSeq(text[f], 1, size) \in Seq(Nat) /\ Len(SubSeq(text[f], 1, size)) = size
      BY <3>1, SubSeqProperties
    <3> QED
      BY <2>1, <3>2
  <2>2. CASE ~(size < Len(text[f]))
    <3>1. size >= Len(text[f])
      BY <1>1, <2>2
    <3> QED
      BY <1>1, <2>2, <3>1, ZerosTo
  <2> QED
    BY <2>1, <2>2
<1> HIDE DEF w
<1>4. /\ text' \in [AllFiles -> Seq(Nat)]
      /\ \A g \in AllFiles : Len(text'[g]) <= Capacity(g)
  BY <1>1, <1>2, <1>3, ChangedText
<1> QED
  BY <1>2, <1>4 DEF FilesHold, Capacity, Skip

LEMMA OpenKeeps ==
    ASSUME FilesHold, NEW o \in Objects, NEW f \in AllFiles, NEW mode \in Modes,
           NEW truncates \in BOOLEAN, NEW appends \in BOOLEAN, open_syscall(o, f, mode, truncates, appends)
    PROVE  FilesHold'
<1> DEFINE w == IF truncates THEN <<>> ELSE text[f]
           h == [file |-> f, mode |-> mode, offset |-> IF appends THEN Len(w) ELSE 0]
<1>1. w \in Seq(Nat) /\ Len(w) \in Nat /\ Len(w) <= Capacity(f)
  <2>1. text[f] \in Seq(Nat) /\ Len(text[f]) \in Nat /\ Len(text[f]) <= Capacity(f) /\ Capacity(f) \in Nat
    BY FilesFit, IOConstants DEF Fits
  <2>2. <<>> \in Seq(Nat) /\ Len(<<>>) = 0
    OBVIOUS
  <2> QED
    BY <2>1, <2>2
<1>2. text' = [text EXCEPT ![f] = w] /\ object' = [object EXCEPT ![o] = h] /\ writes' = writes
  BY DEF open_syscall
<1> HIDE DEF w
<1>3. h \in Handles
  BY <1>1 DEF Handles
<1> HIDE DEF h
<1>4. /\ text' \in [AllFiles -> Seq(Nat)]
      /\ \A g \in AllFiles : Len(text'[g]) <= Capacity(g)
  BY <1>1, <1>2, ChangedText
<1>5. object' \in [Objects -> Handles \cup {closed}]
  BY <1>2, <1>3 DEF FilesHold
<1> QED
  BY <1>2, <1>4, <1>5 DEF FilesHold, Capacity, Skip

LEMMA SeekKeeps ==
    ASSUME FilesHold, NEW o \in Open, NEW to \in Int, NEW whence, llseek_syscall(o, to, whence)
    PROVE  FilesHold'
<1> DEFINE v == IF whence = "SEEK_SET" THEN to ELSE object[o].offset + to
<1>1. /\ v \in 0..(BLOCK * ENTRIES + 1)
      /\ object' = [object EXCEPT ![o].offset = v]
      /\ text' = text /\ writes' = writes
  BY DEF llseek_syscall
<1> HIDE DEF v
<1>2. v \in Nat
  BY <1>1
<1>3. object' \in [Objects -> Handles \cup {closed}]
  BY <1>1, <1>2, MovedHandle
<1> QED
  BY <1>1, <1>3 DEF FilesHold, Capacity, Skip

\* ReadsInv is inductive.
LEMMA ReadsKept ==
    ASSUME ReadsInv, FileIONext
    PROVE  ReadsInv'
<1>1. FilesHold /\ ReadsSound
  BY DEF ReadsInv
<1>2. /\ \A n \in Amounts : n \in Nat
      /\ \A g \in Goals : g \in Nat /\ g \in Int /\ -g \in Int
  BY FileIOAssumption
<1>3. ASSUME NEW o \in Open, NEW n \in Amounts, read_syscall(o, n)
      PROVE  ReadsInv'
  BY <1>1, <1>2, <1>3, ReadKeeps DEF ReadsInv
<1>4. ASSUME NEW o \in Open, NEW n \in Amounts, write_syscall(o, n)
      PROVE  ReadsInv'
  <2>1. delivered' = Nothing
    BY <1>4 DEF write_syscall
  <2> QED
    BY <1>1, <1>2, <1>4, <2>1, WriteKeeps, NothingIsSound DEF ReadsInv
<1>5. ASSUME NEW o \in Open, NEW to \in Int, NEW whence, llseek_syscall(o, to, whence)
      PROVE  ReadsInv'
  <2>1. delivered' = Nothing
    BY <1>5 DEF llseek_syscall
  <2> QED
    BY <1>1, <1>5, <2>1, SeekKeeps, NothingIsSound DEF ReadsInv
<1>6. ASSUME NEW o \in Open, NEW g \in Goals, ftruncate64_syscall(o, g)
      PROVE  ReadsInv'
  <2>1. delivered' = Nothing
    BY <1>6 DEF ftruncate64_syscall
  <2> QED
    BY <1>1, <1>2, <1>6, <2>1, TruncateKeeps, NothingIsSound DEF ReadsInv
<1>7. ASSUME NEW o \in Objects, NEW f \in AllFiles, NEW m \in Modes, NEW t \in BOOLEAN, NEW a \in BOOLEAN,
             open_syscall(o, f, m, t, a)
      PROVE  ReadsInv'
  <2>1. delivered' = Nothing
    BY <1>7 DEF open_syscall
  <2> QED
    BY <1>1, <1>7, <2>1, OpenKeeps, NothingIsSound DEF ReadsInv
<1>8. ASSUME NEW o \in Open, NEW flags \in Modes, fcntl_syscall(o, flags)
      PROVE  ReadsInv'
  <2>1. /\ delivered' = Nothing /\ text' = text /\ writes' = writes
        /\ object' = [object EXCEPT ![o].mode = flags]
    BY <1>8 DEF fcntl_syscall
  <2>2. object' \in [Objects -> Handles \cup {closed}]
    BY <1>1, <2>1, MovedHandle
  <2> QED
    BY <1>1, <2>1, <2>2, NothingIsSound DEF ReadsInv, FilesHold, Capacity, Skip
<1>9. ASSUME NEW o \in Open, close_last(o)
      PROVE  ReadsInv'
  <2>1. /\ delivered' = Nothing /\ text' = text /\ writes' = writes
        /\ object' = [object EXCEPT ![o] = closed]
    BY <1>9 DEF close_last
  <2>2. object' \in [Objects -> Handles \cup {closed}]
    BY <1>1, <2>1 DEF FilesHold
  <2> QED
    BY <1>1, <2>1, <2>2, NothingIsSound DEF ReadsInv, FilesHold, Capacity, Skip
<1> QED
  BY <1>2, <1>3, <1>4, <1>5, <1>6, <1>7, <1>8, <1>9 DEF FileIONext, AllFiles

LEMMA ReadsStutter ==
    ASSUME ReadsInv, UNCHANGED io_vars
    PROVE  ReadsInv'
BY DEF ReadsInv, FilesHold, ReadsSound, io_vars, Capacity, Skip

LEMMA ReadsBegin ==
    ASSUME FileIOInit
    PROVE  ReadsInv
<1>1. \A f \in AllFiles : text[f] = <<>> /\ Len(text[f]) = 0
  BY DEF FileIOInit, AllFiles
<1>2. text \in [AllFiles -> Seq(Nat)]
  BY DEF FileIOInit, AllFiles
<1>3. FilesHold
  BY <1>1, <1>2, IOConstants DEF FilesHold, FileIOInit
<1>4. ReadsSound
  BY DEF FileIOInit, ReadsSound, Nothing
<1> QED
  BY <1>3, <1>4 DEF ReadsInv

\* dos33fs.c:775-939: whatever was written, truncated and sought before by
\* whichever descriptors of an object, a read gives the bytes of the file from
\* the object's offset on, up to its end: for every block size, T/S list and
\* header length.
THEOREM StorageReadsRight == StorageSpec => []ReadsRight
<1>1. StorageInit => ReadsInv
  BY ReadsBegin DEF StorageInit
<1>2. ReadsInv /\ [StorageNext]_storage_vars => ReadsInv'
  <2> SUFFICES ASSUME ReadsInv, [StorageNext]_storage_vars
               PROVE  ReadsInv'
    OBVIOUS
  <2>1. FileIONext \/ UNCHANGED io_vars
    BY DEF StorageNext, storage_vars, Vfs_step, Romfs_step, Mounts_step, FileIO_step, Catalog_step
  <2> QED
    BY <2>1, ReadsKept, ReadsStutter
<1>3. ReadsInv => ReadsRight
  BY DEF ReadsInv, ReadsRight
<1> QED
  BY <1>1, <1>2, <1>3, PTL DEF StorageSpec

-----------------------------------------------------------------------------
(* Reading a path                                                          *)

\* The characters: that a literal is a STRING is unknown to the provers.
Letters == STRING \cup {Slash, "m"}
NameLists == Seq(Seq(Letters))
Readings == [names : NameLists, begins : BOOLEAN]

LEMMA LettersAre == Slash \in Letters
BY DEF Letters

ReadOn(x, c) ==
    IF c = Slash THEN [names |-> x.names, begins |-> TRUE]
    ELSE [names |-> IF x.begins THEN Append(x.names, << c >>) ELSE Longer(x.names, c), begins |-> FALSE]
ReadStep == [x \in Readings |-> [c \in Letters |-> ReadOn(x, c)]]
Unread == [names |-> <<>>, begins |-> TRUE]

LEMMA LongerType ==
    ASSUME NEW ns \in NameLists, NEW c \in Letters
    PROVE  /\ Longer(ns, c) \in NameLists /\ Len(Longer(ns, c)) = Len(ns)
           /\ \A m \in NameLists, n \in Seq(Letters) :
                ns = Append(m, n) => Longer(ns, c) = Append(m, Append(n, c))
<1> DEFINE Q == Seq(Letters)
           k == Len(ns)
           v == Longer(ns, c)
           e == Append(ns[k], c)
<1>1. ns \in Seq(Q) /\ k \in Nat /\ ns \in [1..k -> Q] /\ DOMAIN ns = 1..k
  BY DEF NameLists
<1>2. v = [i \in 1..k |-> IF i = k THEN e ELSE ns[i]]
  <2>1. v = [i \in DOMAIN ns |-> IF i = k THEN e ELSE ns[i]]
    BY DEF Longer
  <2> HIDE DEF v, e, k
  <2> QED
    BY <1>1, <2>1
<1>3. k > 0 => e \in Q
  <2>1. k > 0 => ns[k] \in Q
    BY <1>1
  <2> QED
    BY <2>1
<1> HIDE DEF v, e, Q
<1>4. v \in [1..k -> Q]
  <2> HIDE DEF k
  <2> QED
    BY <1>1, <1>2, <1>3
<1>5. v \in Seq(Q) /\ Len(v) = k
  <2> HIDE DEF k
  <2> QED
    BY <1>1, <1>4, SequenceOf
<1>6. ASSUME NEW m \in Seq(Q), NEW n \in Q, ns = Append(m, n)
      PROVE  v = Append(m, Append(n, c))
  <2> DEFINE a == Append(n, c)
             u == Append(m, a)
  <2>1. a \in Q
    BY DEF Q
  <2>2. Len(m) \in Nat /\ k = Len(m) + 1 /\ ns[k] = n /\ \A i \in 1..Len(m) : ns[i] = m[i]
    <3> HIDE DEF k
    <3>1. Len(m) \in Nat /\ Len(ns) = Len(m) + 1 /\ ns[Len(m) + 1] = n /\ \A i \in 1..Len(m) : ns[i] = m[i]
      BY <1>6, AppendFacts
    <3> QED
      BY <3>1 DEF k
  <2>3. e = a
    BY <2>2 DEF e
  <2> HIDE DEF a, k
  <2>4. u \in Seq(Q) /\ Len(u) = Len(m) + 1 /\ u[Len(m) + 1] = a /\ \A i \in 1..Len(m) : u[i] = m[i]
    BY <2>1, AppendFacts
  <2> HIDE DEF u
  <2>5. \A i \in 1..Len(u) : u[i] = v[i]
    <3> TAKE i \in 1..Len(u)
    <3>1. CASE i = k
      BY <1>1, <1>2, <2>2, <2>3, <2>4, <3>1
    <3>2. CASE i # k
      <4>1. i \in 1..Len(m) /\ i \in 1..k
        BY <2>2, <2>4, <3>2
      <4>2. v[i] = ns[i]
        BY <1>2, <3>2, <4>1
      <4> QED
        BY <2>2, <2>4, <4>1, <4>2
    <3> QED
      BY <3>1, <3>2
  <2>6. u = v
    BY <1>5, <2>2, <2>4, <2>5, SeqEqual
  <2> QED
    BY <2>6 DEF u, a
<1> QED
  BY <1>5, <1>6 DEF v, k, Q, NameLists

LEMMA ReadSteps ==
    /\ Folder(Letters, Readings, ReadStep, Unread)
    /\ \A x \in Readings, c \in Letters : ReadStep[x][c] = ReadOn(x, c)
<1>1. Unread \in Readings
  BY DEF Unread, Readings, NameLists
<1>2. ASSUME NEW x \in Readings, NEW c \in Letters
      PROVE  ReadOn(x, c) \in Readings
  <2>1. x.names \in NameLists /\ x.begins \in BOOLEAN
    BY DEF Readings
  <2>2. Append(x.names, << c >>) \in NameLists
    BY <2>1 DEF NameLists
  <2>3. Longer(x.names, c) \in NameLists
    BY <2>1, LongerType
  <2> QED
    BY <2>1, <2>2, <2>3 DEF ReadOn, Readings
<1> QED
  BY <1>1, <1>2 DEF Folder, ReadStep

Read(path) ==
    CHOOSE read : read = [k \in 0..Len(path) |->
            IF k = 0 THEN [names |-> <<>>, begins |-> TRUE]
            ELSE IF path[k] = Slash THEN [names |-> read[k - 1].names, begins |-> TRUE]
            ELSE [names |-> IF read[k - 1].begins THEN Append(read[k - 1].names, <<path[k]>>)
                            ELSE Longer(read[k - 1].names, path[k]),
                  begins |-> FALSE]]

LEMMA ReadIs ==
    ASSUME NEW s \in Seq(Letters)
    PROVE  Reading(s) = Folded(Readings, ReadStep, Unread, s)
<1> DEFINE Q == Readings
           F == ReadStep
           x0 == Unread
           Body(v, k) == ReadOn(v[k - 1], s[k])
<1>1. Folder(Letters, Q, F, x0) /\ \A x \in Q, c \in Letters : F[x][c] = ReadOn(x, c)
  BY ReadSteps
<1>2. Len(s) \in Nat /\ \A k \in 1..Len(s) : s[k] \in Letters
  OBVIOUS
<1> HIDE DEF F, Q, x0
<1>3. PICK g : IsRun(Q, F, x0, s, g)
  BY <1>1, RunExists
<1>4. g = [k \in 0..Len(s) |-> IF k = 0 THEN x0 ELSE Body(g, k)]
  <2>1. /\ g \in [0..Len(s) -> Q] /\ g[0] = x0
        /\ \A k \in 1..Len(s) : g[k] = F[g[k - 1]][s[k]]
    BY <1>3 DEF IsRun
  <2>2. ASSUME NEW k \in 1..Len(s)
        PROVE  g[k] = Body(g, k)
    <3>1. k - 1 \in 0..Len(s)
      BY <1>2
    <3>2. g[k - 1] \in Q /\ s[k] \in Letters
      BY <1>2, <2>1, <3>1
    <3> QED
      BY <1>1, <2>1, <3>2
  <2> HIDE DEF Body
  <2>3. \A k \in 0..Len(s) : g[k] = IF k = 0 THEN x0 ELSE Body(g, k)
    <3> TAKE k \in 0..Len(s)
    <3>1. k = 0 \/ k \in 1..Len(s)
      BY <1>2
    <3> QED
      BY <2>1, <2>2, <3>1
  <2> QED
    BY <2>1, <2>3
<1> DEFINE v == Read(s)
<1>5. v = [k \in 0..Len(s) |-> IF k = 0 THEN x0 ELSE Body(v, k)]
  BY <1>4 DEF Read, ReadOn, x0, Unread
<1> HIDE DEF v, Body
<1>6. v[0] = x0 /\ \A k \in 1..Len(s) : v[k] = Body(v, k)
  <2>1. \A k \in 0..Len(s) : v[k] = IF k = 0 THEN x0 ELSE Body(v, k)
    BY <1>5
  <2>2. 0 \in 0..Len(s) /\ \A k \in 1..Len(s) : k \in 0..Len(s) /\ k # 0
    BY <1>2
  <2> QED
    BY <2>1, <2>2
<1>7. Goes(Q, F, x0, s, v)
  BY <1>1, <1>2, <1>6 DEF Goes, Body
<1>8. v[Len(s)] = Folded(Q, F, x0, s)
  BY <1>1, <1>7, FoldedIs
<1> QED
  BY <1>8 DEF v, F, Q, x0, Reading, Read

LEMMA ReadAppend ==
    /\ Reading(<<>>) = Unread
    /\ \A s \in Seq(Letters), c \in Letters :
         /\ Reading(s) \in Readings
         /\ Reading(Append(s, c)) = ReadOn(Reading(s), c)
<1> DEFINE Q == Readings
           F == ReadStep
           x0 == Unread
           A == Letters
<1>1. Folder(A, Q, F, x0) /\ \A x \in Q, c \in A : F[x][c] = ReadOn(x, c)
  BY ReadSteps
<1>2. \A s \in Seq(A) : Reading(s) = Folded(Q, F, x0, s)
  BY ReadIs
<1>3. <<>> \in Seq(A)
  OBVIOUS
<1> HIDE DEF F, Q, A, x0
<1>4. Reading(<<>>) = x0
  <2>1. Folded(Q, F, x0, <<>>) = x0
    BY <1>1, FoldedBegins
  <2> QED
    BY <1>2, <1>3, <2>1
<1>5. ASSUME NEW s \in Seq(A), NEW d \in A
      PROVE  /\ Reading(s) \in Q
             /\ Reading(Append(s, d)) = ReadOn(Reading(s), d)
  <2> DEFINE t == Append(s, d)
  <2>1. t \in Seq(A)
    OBVIOUS
  <2>2. Folded(Q, F, x0, t) = F[Folded(Q, F, x0, s)][d]
    BY <1>1, FoldedAppend
  <2>3. Folded(Q, F, x0, s) \in Q
    BY <1>1, FoldedType
  <2> HIDE DEF t
  <2>4. Reading(t) = ReadOn(Reading(s), d)
    BY <1>1, <1>2, <2>1, <2>2, <2>3
  <2> QED
    BY <1>2, <2>3, <2>4 DEF t
<1> QED
  BY <1>4, <1>5 DEF A, Q, x0

-----------------------------------------------------------------------------
(* What a path means                                                       *)

AtSlash(s) == s = <<>> \/ s[Len(s)] = Slash

\* A character at a time.
LEMMA MeaningStep ==
    /\ Meaning(<<>>) = <<>>
    /\ \A s \in Seq(Letters) : Meaning(s) \in NameLists /\ (Reading(s).begins = TRUE <=> AtSlash(s))
    /\ \A s \in Seq(Letters), c \in Letters :
         Meaning(Append(s, c)) = IF c = Slash THEN Meaning(s)
                                 ELSE IF AtSlash(s) THEN Append(Meaning(s), << c >>)
                                 ELSE Longer(Meaning(s), c)
<1>1. Reading(<<>>) = Unread
  BY ReadAppend
<1>2. ASSUME NEW s \in Seq(Letters)
      PROVE  Meaning(s) \in NameLists /\ (Reading(s).begins = TRUE <=> AtSlash(s))
  <2>1. Reading(s) \in Readings
    BY LettersAre, ReadAppend
  <2>4. Reading(s).names \in NameLists
    BY <2>1 DEF Readings
  <2>2. CASE s = <<>>
    <3>1. Reading(s).begins = TRUE
      BY <1>1, <2>2 DEF Unread
    <3> QED
      BY <2>2, <2>4, <3>1 DEF AtSlash, Meaning
  <2>3. CASE s # <<>>
    <3>1. PICK r \in Seq(Letters), a \in Letters : s = Append(r, a)
      BY <2>3, LastFacts
    <3>2. Reading(s) = ReadOn(Reading(r), a)
      BY <3>1, ReadAppend
    <3>3. Reading(s).begins = TRUE <=> a = Slash
      BY <3>2 DEF ReadOn
    <3>4. s[Len(s)] = a
      BY <3>1, AppendFacts
    <3> QED
      BY <2>3, <2>4, <3>3, <3>4 DEF AtSlash, Meaning
  <2> QED
    BY <2>2, <2>3
<1>3. ASSUME NEW s \in Seq(Letters), NEW c \in Letters
      PROVE  Meaning(Append(s, c)) = IF c = Slash THEN Meaning(s)
                                     ELSE IF AtSlash(s) THEN Append(Meaning(s), << c >>)
                                     ELSE Longer(Meaning(s), c)
  <2>1. Reading(Append(s, c)) = ReadOn(Reading(s), c) /\ Reading(s) \in Readings
    BY ReadAppend
  <2>2. Reading(s).begins \in BOOLEAN /\ (Reading(s).begins = TRUE <=> AtSlash(s))
    BY <1>2, <2>1 DEF Readings
  <2> QED
    BY <2>1, <2>2 DEF ReadOn, Meaning
<1>4. Meaning(<<>>) = <<>>
  BY <1>1 DEF Meaning, Unread
<1> QED
  BY <1>2, <1>3, <1>4

LEMMA NamesAppend ==
    ASSUME NEW m \in NameLists, NEW n \in NameLists, NEW e \in Seq(Letters)
    PROVE  /\ Append(n, e) # <<>> /\ Append(n, e) \in NameLists /\ m \o n \in NameLists
           /\ m \o Append(n, e) = Append(m \o n, e)
<1> DEFINE Q == Seq(Letters)
<1>1. m \in Seq(Q) /\ n \in Seq(Q) /\ e \in Q
  BY DEF NameLists
<1> HIDE DEF Q
<1>2. /\ Append(n, e) # <<>> /\ Append(n, e) \in Seq(Q) /\ m \o n \in Seq(Q)
      /\ m \o Append(n, e) = Append(m \o n, e)
  BY <1>1, AppendJoins
<1> QED
  BY <1>2 DEF Q, NameLists

LEMMA NamesJoined ==
    ASSUME NEW m \in NameLists, NEW n \in NameLists, NEW e \in Seq(Letters)
    PROVE  m \o Append(n, e) = Append(m \o n, e)
BY NamesAppend

LEMMA LettersAppend ==
    ASSUME NEW c \in Letters
    PROVE  << c >> \in Seq(Letters) /\ \A n \in Seq(Letters) : Append(n, c) \in Seq(Letters)
OBVIOUS

\* Where it does not end with a slash, there is a last name.
LEMMA LastName ==
    ASSUME NEW s \in Seq(Letters), ~AtSlash(s)
    PROVE  \E m \in NameLists, n \in Seq(Letters) : Meaning(s) = Append(m, n)
<1> DEFINE S == {r \in Seq(Letters) : ~AtSlash(r) => Meaning(r) # <<>>}
<1>1. <<>> \in S
  BY DEF AtSlash
<1>2. ASSUME NEW r \in Seq(Letters), NEW c \in Letters, r \in S
      PROVE  Append(r, c) \in S
  <2> DEFINE t == Append(r, c)
  <2>1. t \in Seq(Letters) /\ t # <<>> /\ t[Len(t)] = c
    BY AppendFacts
  <2>2. Meaning(t) = IF c = Slash THEN Meaning(r)
                     ELSE IF AtSlash(r) THEN Append(Meaning(r), << c >>)
                     ELSE Longer(Meaning(r), c)
    BY MeaningStep
  <2>3. Meaning(r) \in NameLists
    BY MeaningStep
  <2>4. CASE c = Slash
    BY <2>1, <2>4 DEF AtSlash
  <2>5. CASE c # Slash /\ AtSlash(r)
    <3>1. Append(Meaning(r), << c >>) # <<>>
      BY <2>3, LettersAppend, NamesAppend
    <3> QED
      BY <2>1, <2>2, <2>5, <3>1
  <2>6. CASE c # Slash /\ ~AtSlash(r)
    <3>1. Meaning(r) # <<>>
      BY <1>2, <2>6
    <3>2. Len(Longer(Meaning(r), c)) = Len(Meaning(r)) /\ Longer(Meaning(r), c) \in NameLists
      BY <2>3, LongerType
    <3>3. Len(Meaning(r)) # 0
      BY <2>3, <3>1 DEF NameLists
    <3>4. Longer(Meaning(r), c) # <<>>
      BY <3>2, <3>3
    <3> QED
      BY <2>1, <2>2, <2>6, <3>4
  <2> QED
    BY <2>4, <2>5, <2>6
<1>3. Seq(Letters) \subseteq S
  <2> HIDE DEF S
  <2> QED
    BY <1>1, <1>2, AppendInduction
<1>4. Meaning(s) # <<>> /\ Meaning(s) \in Seq(Seq(Letters))
  BY <1>3, MeaningStep DEF NameLists
<1> QED
  BY <1>4, LastFacts DEF NameLists

\* Two paths with a slash between them mean the names of the one, and then
\* those of the other.
LEMMA MeaningJoined ==
    ASSUME NEW a \in Seq(Letters)
    PROVE  \A b \in Seq(Letters) : Meaning(a \o <<Slash>> \o b) = Meaning(a) \o Meaning(b)
<1> DEFINE x == Append(a, Slash)
           S == {b \in Seq(Letters) : Meaning(x \o b) = Meaning(a) \o Meaning(b)}
<1>1. x \in Seq(Letters) /\ a \o <<Slash>> = x /\ x # <<>> /\ x[Len(x)] = Slash
  BY LettersAre, AppendFacts
<1>2. Meaning(x) = Meaning(a) /\ Meaning(a) \in NameLists
  BY LettersAre, MeaningStep
<1> HIDE DEF x
<1>3. <<>> \in S
  <2>1. x \o <<>> = x /\ <<>> \in Seq(Letters)
    BY <1>1, ConcatEmptySeq
  <2>2. Meaning(a) \o <<>> = Meaning(a)
    BY <1>2, ConcatEmptySeq DEF NameLists
  <2> QED
    BY <1>2, <2>1, <2>2, MeaningStep
<1>4. ASSUME NEW b \in Seq(Letters), NEW c \in Letters, b \in S
      PROVE  Append(b, c) \in S
  <2> DEFINE y == x \o b
             t == Append(b, c)
             ma == Meaning(a)
             mb == Meaning(b)
  <2>1. y \in Seq(Letters) /\ x \o t = Append(y, c) /\ t \in Seq(Letters)
    BY <1>1
  <2>2. AtSlash(y) <=> AtSlash(b)
    <3>1. /\ y \in Seq(Letters) /\ Len(x) \in Nat /\ Len(b) \in Nat /\ Len(y) = Len(x) + Len(b)
          /\ \A i \in 1..(Len(x) + Len(b)) : y[i] = IF i <= Len(x) THEN x[i] ELSE b[i - Len(x)]
      <4>1. Len(x) \in Nat /\ Len(b) \in Nat
        BY <1>1
      <4> QED
        BY <1>1, <4>1, ConcatProperties
    <3>2. Len(x) # 0 /\ (b = <<>> <=> Len(b) = 0)
      BY <1>1
    <3> HIDE DEF y
    <3>3. y # <<>> /\ Len(y) \in 1..(Len(x) + Len(b))
      BY <3>1, <3>2
    <3>4. CASE b = <<>>
      <4>1. Len(y) = Len(x)
        BY <3>1, <3>2, <3>4
      <4>2. y[Len(y)] = x[Len(x)]
        BY <3>1, <3>3, <4>1
      <4> QED
        BY <1>1, <3>4, <4>2 DEF AtSlash
    <3>5. CASE b # <<>>
      <4>1. ~(Len(y) <= Len(x)) /\ Len(y) - Len(x) = Len(b)
        BY <3>1, <3>2, <3>5
      <4>2. y[Len(y)] = b[Len(b)]
        BY <3>1, <3>3, <4>1
      <4> QED
        BY <3>3, <3>5, <4>2 DEF AtSlash
    <3> QED
      BY <3>4, <3>5
  <2>3. Meaning(y) = ma \o mb /\ ma \in NameLists /\ mb \in NameLists
    BY <1>2, <1>4, MeaningStep
  <2> HIDE DEF y
  <2>4. /\ Meaning(Append(y, c)) = IF c = Slash THEN Meaning(y)
                                   ELSE IF AtSlash(y) THEN Append(Meaning(y), << c >>)
                                   ELSE Longer(Meaning(y), c)
        /\ Meaning(t) = IF c = Slash THEN mb
                        ELSE IF AtSlash(b) THEN Append(mb, << c >>)
                        ELSE Longer(mb, c)
    BY <2>1, MeaningStep
  <2> HIDE DEF ma, t
  <2>5. Append(ma \o mb, << c >>) = ma \o Append(mb, << c >>)
    <3> HIDE DEF mb
    <3>1. << c >> \in Seq(Letters)
      BY LettersAppend
    <3> QED
      BY <2>3, <3>1, NamesAppend
  <2>6. ~AtSlash(b) => Longer(ma \o mb, c) = ma \o Longer(mb, c)
    <3> SUFFICES ASSUME ~AtSlash(b)
                 PROVE  Longer(ma \o mb, c) = ma \o Longer(mb, c)
      OBVIOUS
    <3>1. PICK m \in NameLists, n \in Seq(Letters) : mb = Append(m, n)
      BY LastName
    <3> HIDE DEF mb
    <3> DEFINE e == Append(n, c)
    <3>2. e \in Seq(Letters)
      BY LettersAppend
    <3>3. Longer(mb, c) = Append(m, e)
      <4>1. \A k \in NameLists, l \in Seq(Letters) : mb = Append(k, l) => Longer(mb, c) = Append(k, Append(l, c))
        BY <2>3, LongerType
      <4> QED
        BY <3>1, <4>1
    <3>4. ma \o mb = Append(ma \o m, n) /\ ma \o m \in NameLists /\ ma \o mb \in NameLists
      BY <2>3, <3>1, NamesAppend
    <3>5. Longer(ma \o mb, c) = Append(ma \o m, e)
      <4> DEFINE ns == ma \o mb
                 k == ma \o m
      <4>1. ns \in NameLists /\ k \in NameLists /\ ns = Append(k, n)
        BY <3>4
      <4> HIDE DEF ns, k
      <4>2. \A j \in NameLists, l \in Seq(Letters) : ns = Append(j, l) => Longer(ns, c) = Append(j, Append(l, c))
        BY <4>1, LongerType
      <4>3. Longer(ns, c) = Append(k, Append(n, c))
        BY <3>1, <4>1, <4>2
      <4> QED
        BY <4>3 DEF ns, k
    <3> HIDE DEF e
    <3>6. Append(ma \o m, e) = ma \o Append(m, e)
      BY <2>3, <3>1, <3>2, NamesJoined
    <3> QED
      BY <3>3, <3>5, <3>6
  <2> HIDE DEF mb
  <2>7. Meaning(Append(y, c)) = ma \o Meaning(t)
    BY <2>2, <2>3, <2>4, <2>5, <2>6
  <2> QED
    BY <2>1, <2>7 DEF ma, t
<1>5. Seq(Letters) \subseteq S
  <2> HIDE DEF S
  <2> QED
    BY <1>3, <1>4, AppendInduction
<1> QED
  BY <1>1, <1>5

-----------------------------------------------------------------------------
(* A path in which no slash follows another is written from its names      *)

Begins(x, y) == \E z \in Seq(Letters) : y = x \o z

LEMMA BeginsIs ==
    ASSUME NEW A, NEW x \in Seq(A), NEW z \in Seq(A)
    PROVE  IsPrefixOf(x, x \o z)
<1> DEFINE y == x \o z
           k == Len(x)
           s == SubSeq(y, 1, k)
<1>1. /\ y \in Seq(A) /\ k \in Nat /\ Len(z) \in Nat /\ Len(y) = k + Len(z)
      /\ \A i \in 1..(k + Len(z)) : y[i] = IF i <= k THEN x[i] ELSE z[i - k]
  <2>1. k \in Nat /\ Len(z) \in Nat
    OBVIOUS
  <2> QED
    BY <2>1, ConcatProperties
<1> HIDE DEF y, k
<1>2. \A i \in 1..k : i \in 1..(k + Len(z)) /\ i <= k
  BY <1>1
<1>3. \A i \in 1..k : y[i] = x[i]
  BY <1>1, <1>2
<1>4. \A i \in 1..k : y[i] \in A
  BY <1>3 DEF k
<1>5. s \in Seq(A) /\ Len(s) = k /\ \A i \in 1..k : s[i] = y[i]
  BY <1>1, <1>4, SubSeqProperties
<1> HIDE DEF s
<1>6. \A i \in 1..Len(s) : s[i] = x[i]
  BY <1>3, <1>5
<1>7. s = x
  BY <1>5, <1>6, SeqEqual DEF k
<1>8. k <= Len(y)
  BY <1>1
<1> QED
  BY <1>7, <1>8 DEF IsPrefixOf, s, k, y

LEMMA PrefixParts ==
    ASSUME NEW A, NEW x \in Seq(A), NEW y \in Seq(A), IsPrefixOf(x, y)
    PROVE  \E z \in Seq(A) : y = x \o z
<1> DEFINE k == Len(x)
           n == Len(y)
           z == SubSeq(y, k + 1, n)
           w == x \o z
           s == SubSeq(y, 1, k)
<1>1. k \in Nat /\ n \in Nat /\ k <= n /\ \A i \in 1..n : y[i] \in A
  BY DEF IsPrefixOf
<1>2. s = x
  BY DEF IsPrefixOf
<1>3. \A i \in 1..k : x[i] = y[i]
  <2>1. \A i \in 1..k : y[i] \in A
    BY <1>1
  <2> HIDE DEF k
  <2>2. \A i \in 1..k : s[i] = y[i]
    BY <1>1, <2>1, SubSeqProperties
  <2> QED
    BY <1>2, <2>2
<1>4. z \in Seq(A) /\ Len(z) = n - k /\ \A i \in 1..(n - k) : z[i] = y[k + i]
  <2> HIDE DEF k, n
  <2>1. \A i \in (k + 1)..n : y[i] \in A
    BY <1>1
  <2>2. z \in Seq(A) /\ Len(z) = (IF k + 1 <= n THEN n - (k + 1) + 1 ELSE 0)
        /\ \A i \in 1..(n - (k + 1) + 1) : z[i] = y[(k + 1) + i - 1]
    BY <1>1, <2>1, SubSeqProperties
  <2> HIDE DEF z
  <2>3. Len(z) = n - k /\ n - (k + 1) + 1 = n - k /\ \A i \in 1..(n - k) : (k + 1) + i - 1 = k + i
    BY <1>1, <2>2
  <2>4. \A i \in 1..(n - k) : z[i] = y[k + i]
    BY <2>2, <2>3
  <2> QED
    BY <2>2, <2>3, <2>4
<1> HIDE DEF z
<1>5. /\ w \in Seq(A) /\ Len(w) = Len(x) + Len(z)
      /\ \A i \in 1..(Len(x) + Len(z)) : w[i] = IF i <= Len(x) THEN x[i] ELSE z[i - Len(x)]
  BY <1>4, ConcatProperties
<1> HIDE DEF w, k, n, s
<1>6. Len(w) = n /\ \A i \in 1..n : w[i] = IF i <= k THEN x[i] ELSE z[i - k]
  BY <1>1, <1>4, <1>5 DEF k
<1>7. \A i \in 1..n : w[i] = y[i]
  <2> TAKE i \in 1..n
  <2>1. CASE i <= k
    BY <1>1, <1>3, <1>6, <2>1
  <2>2. CASE ~(i <= k)
    <3>1. i - k \in 1..(n - k) /\ k + (i - k) = i
      BY <1>1, <2>2
    <3>2. z[i - k] = y[k + (i - k)]
      BY <1>4, <3>1
    <3> QED
      BY <1>6, <2>2, <3>1, <3>2
  <2> QED
    BY <2>1, <2>2
<1>8. w = y
  BY <1>5, <1>6, <1>7, SeqEqual DEF n
<1> QED
  BY <1>4, <1>8 DEF w

SpellStep == [x \in Seq(Letters) |-> [n \in Seq(Letters) |-> (x \o <<Slash>>) \o n]]
Spelled(names) == Folded(Seq(Letters), SpellStep, <<>>, names)

LEMMA SpelledAppend ==
    /\ Spelled(<<>>) = <<>>
    /\ \A ns \in NameLists, n \in Seq(Letters) :
         /\ Spelled(ns) \in Seq(Letters)
         /\ Spelled(Append(ns, n)) = (Spelled(ns) \o <<Slash>>) \o n
<1> DEFINE Q == Seq(Letters)
           F == SpellStep
<1>1. Folder(Q, Q, F, <<>>) /\ \A x \in Q, n \in Q : F[x][n] = (x \o <<Slash>>) \o n
  <2>1. <<>> \in Seq(Letters) /\ <<Slash>> \in Seq(Letters)
    BY LettersAre
  <2>2. \A x \in Seq(Letters), n \in Seq(Letters) : (x \o <<Slash>>) \o n \in Seq(Letters)
    BY <2>1
  <2> QED
    BY <2>1, <2>2 DEF Folder, SpellStep
<1> HIDE DEF F, Q
<1>2. Folded(Q, F, <<>>, <<>>) = <<>>
  BY <1>1, FoldedBegins
<1>3. ASSUME NEW ns \in Seq(Q), NEW n \in Q
      PROVE  /\ Folded(Q, F, <<>>, ns) \in Q
             /\ Folded(Q, F, <<>>, Append(ns, n)) = (Folded(Q, F, <<>>, ns) \o <<Slash>>) \o n
  <2>1. Folded(Q, F, <<>>, ns) \in Q
    BY <1>1, FoldedType
  <2>2. Folded(Q, F, <<>>, Append(ns, n)) = F[Folded(Q, F, <<>>, ns)][n]
    BY <1>1, FoldedAppend
  <2> QED
    BY <1>1, <2>1, <2>2
<1> QED
  BY <1>2, <1>3 DEF Spelled, F, Q, NameLists

LEMMA Grouped == \A x, y, z \in Seq(Letters) : (x \o y) \o z = x \o (y \o z)
BY ConcatAssociative

LEMMA SpelledBegins ==
    ASSUME NEW a \in NameLists
    PROVE  \A r \in NameLists : Begins(Spelled(a), Spelled(a \o r))
<1> DEFINE Q == Seq(Letters)
           S == {r \in Seq(Q) : Begins(Spelled(a), Spelled(a \o r))}
<1>1. a \in Seq(Q) /\ \A r \in Seq(Q) : a \o r \in Seq(Q)
  BY DEF NameLists
<1>2. \A ns \in Seq(Q), n \in Q : Spelled(ns) \in Q /\ Spelled(Append(ns, n)) = (Spelled(ns) \o <<Slash>>) \o n
  BY SpelledAppend DEF NameLists
<1>3. \A x, y, z \in Q : x \o y \in Q /\ (x \o y) \o z = x \o (y \o z)
  BY ConcatAssociative
<1>4. <<Slash>> \in Q /\ <<>> \in Q
  BY LettersAre
<1>5. \A x \in Q : x \o <<>> = x
  BY ConcatEmptySeq
<1>6. \A x, y : Begins(x, y) <=> \E z \in Q : y = x \o z
  BY DEF Begins
<1> HIDE DEF Q
<1>7. <<>> \in S
  <2>1. a \o <<>> = a /\ <<>> \in Seq(Q)
    BY <1>1, ConcatEmptySeq
  <2>2. Spelled(a) \in Q
    BY <1>1, <1>2, <1>4
  <2>3. Spelled(a \o <<>>) = Spelled(a) \o <<>>
    BY <1>5, <2>1, <2>2
  <2> QED
    BY <1>4, <1>6, <2>1, <2>3
<1>8. ASSUME NEW r \in Seq(Q), NEW n \in Q, r \in S
      PROVE  Append(r, n) \in S
  <2>1. a \o Append(r, n) = Append(a \o r, n) /\ Append(r, n) \in Seq(Q)
    BY <1>1, AppendJoins
  <2>2. PICK z \in Q : Spelled(a \o r) = Spelled(a) \o z
    BY <1>6, <1>8
  <2> DEFINE ar == a \o r
             sa == Spelled(a)
             u == <<Slash>> \o n
  <2>3. ar \in Seq(Q) /\ sa \in Q
    BY <1>1, <1>2
  <2> HIDE DEF ar
  <2>4. Spelled(Append(ar, n)) = (Spelled(ar) \o <<Slash>>) \o n
    BY <1>2, <2>3
  <2>5. Spelled(ar) = sa \o z
    BY <2>2 DEF ar
  <2> HIDE DEF sa
  <2>9. u \in Q /\ z \in Q
    BY <1>3, <1>4, <2>2
  <2>6. ((sa \o z) \o <<Slash>>) \o n = (sa \o z) \o u
    <3>1. sa \o z \in Q
      BY <1>3, <2>3, <2>9
    <3> QED
      BY <1>3, <1>4, <3>1
  <2> HIDE DEF u
  <2>7. (sa \o z) \o u = sa \o (z \o u) /\ z \o u \in Q
    <3>1. z \o u \in Q
      BY <1>3, <2>9
    <3>2. sa \in Seq(Letters) /\ z \in Seq(Letters) /\ u \in Seq(Letters)
      BY <2>3, <2>9 DEF Q
    <3>3. (sa \o z) \o u = sa \o (z \o u)
      BY <3>2, Grouped
    <3> QED
      BY <3>1, <3>3
  <2>8. Spelled(Append(ar, n)) = sa \o (z \o u)
    <3>1. Spelled(Append(ar, n)) = ((sa \o z) \o <<Slash>>) \o n
      BY <2>4, <2>5, Zenon
    <3> QED
      BY <2>6, <2>7, <3>1, Zenon
  <2> QED
    BY <1>6, <2>1, <2>7, <2>8 DEF ar, sa
<1>9. Seq(Q) \subseteq S
  <2> HIDE DEF S
  <2> QED
    BY <1>7, <1>8, AppendInduction
<1> QED
  BY <1>9 DEF NameLists, Q

SingleSlashes(s) == \A k \in DOMAIN s : k > 1 => ~(s[k] = Slash /\ s[k - 1] = Slash)
Rooted(s) == s \in Seq(Letters) /\ s # <<>> /\ s[1] = Slash /\ SingleSlashes(s)

LEMMA WrittenBack ==
    \A s \in Seq(Letters) : Rooted(s) =>
       s = IF AtSlash(s) THEN Append(Spelled(Meaning(s)), Slash) ELSE Spelled(Meaning(s))
<1> DEFINE Good(s) == s = IF AtSlash(s) THEN Append(Spelled(Meaning(s)), Slash) ELSE Spelled(Meaning(s))
           S == {s \in Seq(Letters) : Rooted(s) => Good(s)}
<1>1. <<>> \in S
  BY DEF Rooted
<1>2. ASSUME NEW s \in Seq(Letters), NEW c \in Letters, s \in S
      PROVE  Append(s, c) \in S
  <2> DEFINE t == Append(s, c)
  <2>1. t \in Seq(Letters) /\ Len(t) = Len(s) + 1 /\ t[Len(s) + 1] = c /\ \A k \in 1..Len(s) : t[k] = s[k]
    BY AppendFacts
  <2>2. Len(s) \in Nat /\ (s = <<>> <=> Len(s) = 0)
    OBVIOUS
  <2>3. Meaning(t) = IF c = Slash THEN Meaning(s)
                     ELSE IF AtSlash(s) THEN Append(Meaning(s), << c >>)
                     ELSE Longer(Meaning(s), c)
    BY MeaningStep
  <2> SUFFICES ASSUME Rooted(t)
               PROVE  Good(t)
    BY <2>1
  <2>4. Meaning(s) \in NameLists
    BY MeaningStep
  <2> HIDE DEF t
  <2>5. AtSlash(t) <=> c = Slash
    <3>1. t # <<>>
      BY <2>1, <2>2
    <3> QED
      BY <2>1, <3>1 DEF AtSlash
  <2>6. CASE s = <<>>
    <3>1. c = Slash
      BY <2>1, <2>2, <2>6 DEF Rooted
    <3>2. Meaning(t) = <<>>
      BY <2>3, <2>6, <3>1, MeaningStep
    <3>3. Spelled(Meaning(t)) = <<>>
      BY <3>2, SpelledAppend
    <3> QED
      BY <2>5, <2>6, <3>1, <3>3 DEF t
  <2>7. CASE s # <<>>
    <3>1. Rooted(s) /\ (c = Slash => ~AtSlash(s))
      <4>1. s[1] = Slash
        BY <2>1, <2>2, <2>7 DEF Rooted
      <4>2. ASSUME NEW k \in DOMAIN s, k > 1
            PROVE  ~(s[k] = Slash /\ s[k - 1] = Slash)
        <5>1. k \in 1..Len(s) /\ k - 1 \in 1..Len(s) /\ k \in DOMAIN t
          BY <2>1, <2>2, <4>2
        <5>2. t[k] = s[k] /\ t[k - 1] = s[k - 1]
          BY <2>1, <5>1
        <5> QED
          BY <4>2, <5>1, <5>2 DEF Rooted, SingleSlashes
      <4>3. ~(t[Len(s) + 1] = Slash /\ t[(Len(s) + 1) - 1] = Slash)
        <5>1. Len(s) + 1 \in DOMAIN t /\ Len(s) + 1 > 1
          BY <2>1, <2>2, <2>7
        <5> QED
          BY <5>1 DEF Rooted, SingleSlashes
      <4>4. (Len(s) + 1) - 1 = Len(s) /\ Len(s) \in 1..Len(s)
        BY <2>2, <2>7
      <4>5. ~(c = Slash /\ s[Len(s)] = Slash)
        BY <2>1, <4>3, <4>4
      <4> QED
        BY <2>7, <4>1, <4>2, <4>5 DEF Rooted, SingleSlashes, AtSlash
    <3>2. Good(s)
      BY <1>2, <3>1
    <3> DEFINE w == Spelled(Meaning(s))
    <3>3. w \in Seq(Letters)
      BY <2>4, LettersAppend, SpelledAppend
    <3>4. CASE c = Slash
      <4>1. s = w
        BY <3>1, <3>2, <3>4
      <4>2. Spelled(Meaning(t)) = w
        BY <2>3, <3>4
      <4> QED
        BY <2>5, <3>4, <4>1, <4>2 DEF t
    <3>5. CASE c # Slash /\ AtSlash(s)
      <4>1. s = Append(w, Slash)
        BY <3>2, <3>5
      <4>2. Spelled(Meaning(t)) = (w \o <<Slash>>) \o << c >>
        BY <2>3, <2>4, <3>5, LettersAppend, SpelledAppend
      <4> HIDE DEF w
      <4>3. (w \o <<Slash>>) \o << c >> = Append(Append(w, Slash), c)
        BY <3>3, LettersAre
      <4> QED
        BY <2>5, <3>5, <4>1, <4>2, <4>3 DEF t
    <3>6. CASE c # Slash /\ ~AtSlash(s)
      <4>1. PICK m \in NameLists, n \in Seq(Letters) : Meaning(s) = Append(m, n)
        BY <3>6, LastName
      <4> DEFINE e == Append(n, c)
                 v == Spelled(m) \o <<Slash>>
      <4>2. e \in Seq(Letters) /\ v \in Seq(Letters)
        <5>1. Spelled(m) \in Seq(Letters)
          BY <4>1, SpelledAppend
        <5> QED
          BY <5>1, LettersAppend, LettersAre
      <4>3. Meaning(t) = Append(m, e)
        <5>1. \A k \in NameLists, l \in Seq(Letters) :
                 Meaning(s) = Append(k, l) => Longer(Meaning(s), c) = Append(k, Append(l, c))
          BY <2>4, LongerType
        <5>2. Longer(Meaning(s), c) = Append(m, Append(n, c))
          BY <4>1, <5>1
        <5> QED
          BY <2>3, <3>6, <5>2
      <4> HIDE DEF e
      <4>4. Spelled(Meaning(t)) = v \o e
        BY <4>2, <4>3, SpelledAppend
      <4>5. w = v \o n
        BY <4>1, SpelledAppend
      <4>6. s = w
        BY <3>2, <3>6
      <4> HIDE DEF v, w
      <4>7. v \o e = Append(v \o n, c)
        BY <4>2, AppendJoins DEF e
      <4> QED
        BY <2>5, <3>6, <4>4, <4>5, <4>6, <4>7 DEF t
    <3> QED
      BY <3>4, <3>5, <3>6
  <2> QED
    BY <2>6, <2>7
<1>3. Seq(Letters) \subseteq S
  <2> HIDE DEF S
  <2> QED
    BY <1>1, <1>2, AppendInduction
<1> QED
  BY <1>3

\* So a path that lies behind the names of another one begins with it.
LEMMA PrefixWritten ==
    ASSUME NEW mp, NEW path, Rooted(mp), ~AtSlash(mp), Rooted(path),
           IsPrefixOf(Meaning(mp), Meaning(path))
    PROVE  IsPrefixOf(mp, path)
<1> DEFINE a == Meaning(mp)
           b == Meaning(path)
           Q == Seq(Letters)
<1>1. mp \in Seq(Letters) /\ path \in Seq(Letters)
  BY DEF Rooted
<1>2. a \in NameLists /\ b \in NameLists
  BY <1>1, MeaningStep
<1>3. mp = Spelled(a)
  BY <1>1, WrittenBack
<1>4. path = IF AtSlash(path) THEN Append(Spelled(b), Slash) ELSE Spelled(b)
  BY <1>1, WrittenBack
<1>5. IsPrefixOf(a, b)
  OBVIOUS
<1> HIDE DEF a, b
<1>6. PICK r \in NameLists : b = a \o r
  <2>1. a \in Seq(Q) /\ b \in Seq(Q)
    BY <1>2 DEF NameLists
  <2> HIDE DEF Q
  <2>2. \E r \in Seq(Q) : b = a \o r
    BY <1>5, <2>1, PrefixParts
  <2> QED
    BY <2>2 DEF Q, NameLists
<1>7. PICK z \in Seq(Letters) : Spelled(b) = mp \o z
  BY <1>2, <1>3, <1>6, SpelledBegins DEF Begins
<1>8. \E y \in Seq(Letters) : path = mp \o y
  <2>1. CASE ~AtSlash(path)
    BY <1>4, <1>7, <2>1
  <2>2. CASE AtSlash(path)
    <3>1. path = Append(mp \o z, Slash)
      BY <1>4, <1>7, <2>2
    <3>2. mp \o Append(z, Slash) = Append(mp \o z, Slash) /\ Append(z, Slash) \in Seq(Letters)
      BY <1>1, LettersAre, AppendJoins
    <3> QED
      BY <3>1, <3>2
  <2> QED
    BY <2>1, <2>2
<1>9. PICK y \in Seq(Letters) : path = mp \o y
  BY <1>8
<1> QED
  BY <1>1, <1>9, BeginsIs

-----------------------------------------------------------------------------
(* Mounted file systems and the current directory                          *)

\* What mount() is given: the root, or a path with one slash before each name.
\* Mountpoints are compared as they were given, so "/m/" never holds "/m".
PlainTarget(t) == t = <<Slash>> \/ (Rooted(t) /\ ~AtSlash(t))
PlainTargets == \A t \in Targets : PlainTarget(t)

MountSlots == [device : Nat \cup DOMAIN Devices, mountpoint : Seq(Letters)]

\* The first slot is the root's, a usable one has a mountpoint that was given,
\* and the current directory is a path from the root.
TableHolds ==
    /\ mounted \in Seq(MountSlots) /\ mounted # <<>>
    /\ mounted[1].mountpoint = <<Slash>>
    /\ \A k \in DOMAIN mounted : mounted[k].device # UNUSABLE => PlainTarget(mounted[k].mountpoint)
DirectoryHolds ==
    /\ current_dir \in Seq(Letters) /\ current_dir # <<>> /\ current_dir[1] = Slash
    /\ Meaning(current_dir) = entered
MountsInv == TableHolds /\ DirectoryHolds

LEMMA SeqOfMore ==
    ASSUME NEW A, NEW B, A \subseteq B, NEW p \in Seq(A)
    PROVE  p \in Seq(B)
<1>1. p \in [1..Len(p) -> A] /\ Len(p) \in Nat
  OBVIOUS
<1>2. p \in [1..Len(p) -> B]
  BY <1>1
<1> QED
  BY <1>1, <1>2, SequenceOf

LEMMA Shortened ==
    ASSUME NEW A, NEW s \in Seq(A), NEW n \in Nat, n > 0, n <= Len(s)
    PROVE  /\ SubSeq(s, 1, n) \in Seq(A) /\ Len(SubSeq(s, 1, n)) = n
           /\ SubSeq(s, 1, n) # <<>> /\ SubSeq(s, 1, n)[1] = s[1]
<1> DEFINE w == SubSeq(s, 1, n)
<1>1. w \in Seq(A) /\ Len(w) = n /\ w[1] = s[1]
  OBVIOUS
<1> HIDE DEF w
<1>2. w # <<>>
  BY <1>1
<1> QED
  BY <1>1, <1>2 DEF w

LEMMA AskedAre ==
    \A p \in Asked \cup Targets : p \in Seq(Letters) /\ p # <<>> /\ Len(p) \in Nat /\ Len(p) > 0
<1>1. STRING \subseteq Letters
  BY DEF Letters
<1>2. \A p \in Seq(STRING) : p \in Seq(Letters)
  BY <1>1, SeqOfMore
<1>3. \A p \in Seq(Letters) : p # <<>> => Len(p) \in Nat /\ Len(p) > 0
  OBVIOUS
<1> QED
  BY <1>2, <1>3, MountsAssumption

LEMMA NothingBegins ==
    ASSUME NEW A, NEW x \in Seq(A)
    PROVE  IsPrefixOf(<<>>, x) /\ Len(x) \in Nat
BY DEF IsPrefixOf

LEMMA PrefixesCompare ==
    ASSUME NEW A, NEW a \in Seq(A), NEW b \in Seq(A), NEW c \in Seq(A),
           IsPrefixOf(a, c), IsPrefixOf(b, c)
    PROVE  IsPrefixOf(a, b) \/ IsPrefixOf(b, a)
<1>1. ASSUME NEW x \in Seq(A), NEW y \in Seq(A), IsPrefixOf(x, c), IsPrefixOf(y, c), Len(x) <= Len(y)
      PROVE  IsPrefixOf(x, y)
  <2>1. /\ Len(x) \in Nat /\ Len(y) \in Nat /\ Len(c) \in Nat /\ Len(y) <= Len(c)
        /\ x = SubSeq(c, 1, Len(x)) /\ y = SubSeq(c, 1, Len(y))
    BY <1>1 DEF IsPrefixOf
  <2> DEFINE i == Len(x)
             j == Len(y)
  <2> HIDE DEF i, j
  <2>2. SubSeq(SubSeq(c, 1, j), 1, i) = SubSeq(c, 1, i)
    <3>1. i \in Nat /\ j \in Nat /\ i <= j /\ j <= Len(c) /\ Len(c) \in Nat
      BY <1>1, <2>1 DEF i, j
    <3>2. /\ SubSeq(c, 1, j) \in Seq(A) /\ Len(SubSeq(c, 1, j)) = j
          /\ \A k \in 1..j : SubSeq(c, 1, j)[k] = c[k]
      BY <3>1
    <3> QED
      BY <3>1, <3>2
  <2> QED
    BY <1>1, <2>1, <2>2 DEF IsPrefixOf, i, j
<1>2. Len(a) \in Nat /\ Len(b) \in Nat
  OBVIOUS
<1> QED
  BY <1>1, <1>2

LEMMA RootMeans == <<Slash>> \in Seq(Letters) /\ Meaning(<<Slash>>) = <<>>
<1>1. <<>> \in Seq(Letters) /\ Append(<<>>, Slash) = <<Slash>> /\ <<Slash>> \in Seq(Letters)
  BY LettersAre
<1>2. Meaning(Append(<<>>, Slash)) = <<>>
  BY <1>1, LettersAre, MeaningStep
<1> QED
  BY <1>1, <1>2

LEMMA RootIsFirst ==
    ASSUME TableHolds
    PROVE  /\ DOMAIN mounted \subseteq Nat /\ 1 \in DOMAIN mounted /\ Least(Roots) = 1
           /\ \A k \in DOMAIN mounted : mounted[k].mountpoint \in Seq(Letters)
<1>1. /\ DOMAIN mounted = 1..Len(mounted) /\ Len(mounted) \in Nat /\ Len(mounted) >= 1
      /\ \A k \in DOMAIN mounted : mounted[k] \in MountSlots
  BY DEF TableHolds
<1>2. IsPrefixOf(<<Slash>>, <<Slash>>)
  <2> DEFINE x == <<Slash>>
  <2>1. x \in Seq(Letters) /\ <<>> \in Seq(Letters)
    BY RootMeans
  <2> HIDE DEF x
  <2>2. x \o <<>> = x
    BY <2>1, ConcatEmptySeq
  <2>3. IsPrefixOf(x, x \o <<>>)
    BY <2>1, BeginsIs
  <2> QED
    BY <2>2, <2>3 DEF x
<1>3. 1 \in Roots /\ Roots \subseteq 1..Len(mounted)
  BY <1>1, <1>2 DEF Roots, TableHolds
<1>4. \A j \in Roots : 1 <= j
  BY <1>1, <1>3
<1>5. \A k \in Roots : k <= 1 => k = 1
  BY <1>1, <1>3
<1>6. Least(Roots) = 1
  BY <1>3, <1>4, <1>5 DEF Least
<1> QED
  BY <1>1, <1>6 DEF MountSlots

\* The lookup finds the deepest file system.
LEMMA LookupFinds ==
    ASSUME TableHolds, Sound, Flat, NEW path \in Seq(Letters), path # <<>>, path[1] = Slash, Clean(path)
    PROVE  /\ superblock_lookup(path) \in Holders(path)
           /\ \A k \in Holders(path) :
                Len(Meaning(mounted[k].mountpoint)) <= Len(Meaning(mounted[superblock_lookup(path)].mountpoint))
<1> DEFINE m(k) == Meaning(mounted[k].mountpoint)
           w == Meaning(path)
           Q == Seq(Letters)
           slot == superblock_lookup(path)
<1>1. /\ DOMAIN mounted \subseteq Nat /\ 1 \in DOMAIN mounted /\ Least(Roots) = 1
      /\ \A k \in DOMAIN mounted : mounted[k].mountpoint \in Seq(Letters)
  BY RootIsFirst
<1>2. \A k \in DOMAIN mounted : m(k) \in Seq(Q) /\ Len(m(k)) \in Nat
  BY <1>1, MeaningStep DEF NameLists
<1>3. m(1) = <<>> /\ Len(m(1)) = 0 /\ w \in Seq(Q)
  BY RootMeans, MeaningStep DEF TableHolds, NameLists
<1>4. Rooted(path)
  BY DEF Clean, Rooted, SingleSlashes
<1>5. \A k \in DOMAIN mounted : PlainTarget(mounted[k].mountpoint)
  BY DEF TableHolds, Sound
<1>6. \A k : k \in Holders(path) <=> k \in DOMAIN mounted /\ IsPrefixOf(m(k), w)
  BY DEF Holders
<1>7. \A k : k \in Begun(path) <=> k \in DOMAIN mounted /\ k # 1 /\ IsPrefixOf(mounted[k].mountpoint, path)
  BY <1>1 DEF Begun, Others
<1>8. Begun(path) \subseteq Holders(path)
  BY <1>6, <1>7 DEF Clean
<1>9. 1 \in Holders(path)
  BY <1>1, <1>3, <1>6, NothingBegins
<1>10. ASSUME NEW j \in DOMAIN mounted, NEW k \in DOMAIN mounted, j # k
       PROVE  \/ j = 1 /\ mounted[k].mountpoint # <<Slash>>
              \/ ~IsPrefixOf(m(j), m(k))
  BY <1>1, <1>10 DEF Flat
<1>11. ASSUME NEW k \in Holders(path), k # 1
       PROVE  k \in Begun(path)
  <2>1. k \in DOMAIN mounted /\ IsPrefixOf(m(k), w)
    BY <1>6, <1>11
  <2>2. IsPrefixOf(m(1), m(k))
    BY <1>2, <1>3, <2>1, NothingBegins
  <2>3. mounted[k].mountpoint # <<Slash>>
    BY <1>1, <1>10, <1>11, <2>1, <2>2
  <2>4. Rooted(mounted[k].mountpoint) /\ ~AtSlash(mounted[k].mountpoint)
    BY <1>5, <2>1, <2>3 DEF PlainTarget
  <2>5. IsPrefixOf(mounted[k].mountpoint, path)
    BY <1>4, <2>1, <2>4, PrefixWritten
  <2> QED
    BY <1>7, <1>11, <2>1, <2>5
<1>12. ASSUME NEW j \in Begun(path), NEW k \in Begun(path)
       PROVE  j = k
  <2> SUFFICES ASSUME j # k
               PROVE  FALSE
    OBVIOUS
  <2>1. /\ j \in DOMAIN mounted /\ k \in DOMAIN mounted /\ j # 1 /\ k # 1
        /\ IsPrefixOf(m(j), w) /\ IsPrefixOf(m(k), w)
    BY <1>6, <1>7, <1>8
  <2>2. ~IsPrefixOf(m(j), m(k)) /\ ~IsPrefixOf(m(k), m(j))
    BY <1>10, <2>1
  <2>3. m(j) \in Seq(Q) /\ m(k) \in Seq(Q)
    BY <1>2, <2>1
  <2> HIDE DEF m, w, Q
  <2> QED
    BY <1>3, <2>1, <2>2, <2>3, PrefixesCompare
<1>13. CASE Begun(path) = {}
  <2>1. slot = 1
    BY <1>1, <1>13 DEF superblock_lookup
  <2>2. \A k \in Holders(path) : k = 1
    BY <1>11, <1>13
  <2> HIDE DEF slot
  <2>3. \A k \in Holders(path) : Len(m(k)) <= Len(m(slot))
    BY <1>3, <2>1, <2>2
  <2> QED
    BY <1>9, <2>1, <2>3 DEF slot
<1>14. CASE Begun(path) # {}
  <2>1. PICK b : b \in Begun(path)
    BY <1>14
  <2>2. Begun(path) = {b} /\ b \in DOMAIN mounted /\ b \in Nat
    BY <1>1, <1>7, <1>12, <2>1
  <2>3. Least({b}) = b
    BY <2>2 DEF Least
  <2>4. slot = b
    BY <2>2, <2>3 DEF superblock_lookup
  <2>5. \A k \in Holders(path) : k = 1 \/ k = b
    BY <1>11, <2>2
  <2> HIDE DEF slot
  <2>6. \A k \in Holders(path) : Len(m(k)) <= Len(m(slot))
    <3>1. Len(m(b)) \in Nat
      BY <1>2, <2>2
    <3>2. Len(m(1)) <= Len(m(b)) /\ Len(m(b)) <= Len(m(b))
      BY <1>3, <3>1
    <3> HIDE DEF m
    <3> QED
      BY <2>4, <2>5, <3>2
  <2> QED
    BY <1>8, <2>2, <2>4, <2>6 DEF slot
<1> QED
  BY <1>13, <1>14

LEMMA TableIsSound ==
    ASSUME MountsInv
    PROVE  MountsSound
<1>1. Meaning(current_dir) = entered
  BY DEF MountsInv, DirectoryHolds
<1>2. ASSUME Sound, Flat, NEW p \in Asked, Clean(Full(p))
      PROVE  LET slot == superblock_lookup(Full(p))
             IN /\ slot \in Holders(Full(p))
                /\ \A k \in Holders(Full(p)) :
                     Len(Meaning(mounted[k].mountpoint)) <= Len(Meaning(mounted[slot].mountpoint))
  <2> DEFINE path == Full(p)
  <2>1. p \in Seq(Letters) /\ p # <<>>
    BY AskedAre
  <2>2. current_dir \in Seq(Letters) /\ current_dir # <<>> /\ current_dir[1] = Slash
    BY DEF MountsInv, DirectoryHolds
  <2>3. path \in Seq(Letters) /\ path # <<>> /\ path[1] = Slash
    <3>1. CASE p[1] = Slash
      BY <2>1, <3>1 DEF Full
    <3>2. CASE p[1] # Slash
      <4>1. path = current_dir \o <<Slash>> \o p
        BY <3>2 DEF Full
      <4>2. current_dir \o <<Slash>> \in Seq(Letters)
        BY <2>2, LettersAre
      <4> QED
        BY <2>1, <2>2, <4>1, <4>2, LettersAre
    <3> QED
      BY <3>1, <3>2
  <2> HIDE DEF path
  <2>4. TableHolds /\ Clean(path)
    BY <1>2 DEF MountsInv, path
  <2> QED
    BY <1>2, <2>3, <2>4, LookupFinds DEF path
<1> QED
  BY <1>1, <1>2 DEF MountsSound

LEMMA MountWorks ==
    ASSUME PlainTargets, MountsInv, NEW s, NEW t \in Targets, NEW y,
           mount_works(s, t, y) \/ mount_fails(s, t, y)
    PROVE  MountsInv'
<1>1. t \in Seq(Letters) /\ PlainTarget(t) /\ <<>> \in Seq(Letters)
  BY AskedAre DEF PlainTargets
<1>2. PICK e \in MountSlots : mounted' = Append(mounted, e) /\ (e.device # UNUSABLE => PlainTarget(e.mountpoint))
  <2>1. CASE mount_works(s, t, y)
    <3>1. PICK d \in DOMAIN Devices : mounted' = Append(mounted, [device |-> d, mountpoint |-> t])
      BY <2>1 DEF mount_works, block_dev_find, Holds
    <3> QED
      BY <1>1, <3>1 DEF MountSlots
  <2>2. CASE mount_fails(s, t, y)
    <3>1. PICK mp \in {<<>>, t} : mounted' = Append(mounted, [device |-> UNUSABLE, mountpoint |-> mp])
      BY <2>2 DEF mount_fails, Holds
    <3> DEFINE e == [device |-> UNUSABLE, mountpoint |-> mp]
    <3>2. UNUSABLE \in Nat /\ mp \in Seq(Letters)
      BY <1>1 DEF UNUSABLE
    <3>3. e \in MountSlots /\ e.device = UNUSABLE
      BY <3>2 DEF MountSlots
    <3> QED
      BY <3>1, <3>3
  <2> QED
    BY <2>1, <2>2
<1>3. TableHolds'
  <2> DEFINE next == Append(mounted, e)
  <2>1. /\ next \in Seq(MountSlots) /\ Len(mounted) \in Nat /\ Len(next) = Len(mounted) + 1
        /\ next[Len(mounted) + 1] = e /\ \A k \in 1..Len(mounted) : next[k] = mounted[k]
    BY <1>2, AppendFacts DEF MountsInv, TableHolds
  <2>2. DOMAIN next = 1..(Len(mounted) + 1) /\ Len(mounted) >= 1 /\ DOMAIN mounted = 1..Len(mounted) /\ next # <<>>
    BY <2>1 DEF MountsInv, TableHolds
  <2> HIDE DEF next
  <2>3. \A k \in DOMAIN next : next[k].device # UNUSABLE => PlainTarget(next[k].mountpoint)
    <3> SUFFICES ASSUME NEW k \in DOMAIN next
                 PROVE  next[k].device # UNUSABLE => PlainTarget(next[k].mountpoint)
      OBVIOUS
    <3>1. k \in 1..Len(mounted) \/ k = Len(mounted) + 1
      BY <2>1, <2>2
    <3> QED
      BY <1>2, <2>1, <2>2, <3>1 DEF MountsInv, TableHolds
  <2>4. next[1].mountpoint = <<Slash>>
    BY <2>1, <2>2 DEF MountsInv, TableHolds
  <2>5. mounted' = next
    BY <1>2 DEF next
  <2> QED
    BY <2>1, <2>2, <2>3, <2>4, <2>5 DEF TableHolds
<1>4. current_dir' = current_dir /\ entered' = entered
  BY DEF mount_works, mount_fails
<1> QED
  BY <1>3, <1>4 DEF MountsInv, DirectoryHolds

\* A slash at the end is no name.
LEMMA SlashTaken ==
    ASSUME NEW s \in Seq(Letters), Len(s) > 1, s[Len(s)] = Slash
    PROVE  /\ SubSeq(s, 1, Len(s) - 1) \in Seq(Letters)
           /\ Meaning(SubSeq(s, 1, Len(s) - 1)) = Meaning(s)
<1> DEFINE r == SubSeq(s, 1, Len(s) - 1)
<1>1. /\ r \in Seq(Letters) /\ Len(r) = Len(s) - 1 /\ Len(s) \in Nat
      /\ \A k \in 1..(Len(s) - 1) : r[k] = s[k]
  OBVIOUS
<1> HIDE DEF r
<1> DEFINE t == Append(r, Slash)
<1>2. t \in Seq(Letters) /\ Len(t) = Len(r) + 1 /\ t[Len(r) + 1] = Slash /\ \A k \in 1..Len(r) : t[k] = r[k]
  BY <1>1, LettersAre, AppendFacts
<1> HIDE DEF t
<1>3. s = t
  <2>1. Len(s) = Len(t)
    BY <1>1, <1>2
  <2>2. ASSUME NEW k \in 1..Len(s)
        PROVE  s[k] = t[k]
    BY <1>1, <1>2
  <2> QED
    BY <1>1, <1>2, <2>1, <2>2
<1>4. Meaning(t) = Meaning(r)
  BY <1>1, LettersAre, MeaningStep DEF t
<1> QED
  BY <1>1, <1>3, <1>4 DEF r

LEMMA DirectoryIsNamed ==
    ASSUME MountsInv, NEW p \in Asked, chdir_syscall(p)
    PROVE  MountsInv'
<1> DEFINE full == Full(p)
           st == Stripped(p)
<1>1. /\ current_dir \in Seq(Letters) /\ current_dir # <<>> /\ current_dir[1] = Slash
      /\ Meaning(current_dir) = entered
  BY DEF MountsInv, DirectoryHolds
<1>2. p \in Seq(Letters) /\ p # <<>> /\ Len(p) \in Nat /\ Len(p) > 0
  BY AskedAre
<1>3. /\ current_dir' = st
      /\ entered' = CASE CutShort(p) -> Meaning(st)
                      [] p[1] = Slash -> Meaning(p)
                      [] OTHER -> entered \o Meaning(p)
      /\ mounted' = mounted
  BY DEF chdir_syscall
<1>4. st = IF Len(p) > 1 /\ full[Len(p)] = Slash THEN SubSeq(full, 1, Len(p) - 1) ELSE full
  BY DEF Stripped
<1>5. CutShort(p) <=> Len(st) < Len(full) - 1
  BY DEF CutShort
<1> SUFFICES /\ st \in Seq(Letters) /\ st # <<>> /\ st[1] = Slash
             /\ Meaning(st) = entered'
  BY <1>3 DEF MountsInv, DirectoryHolds, TableHolds
<1>6. full = IF p[1] = Slash THEN p ELSE current_dir \o <<Slash>> \o p
  BY DEF Full
<1> HIDE DEF full, st
<1>7. CASE p[1] = Slash
  <2>1. full = p
    BY <1>6, <1>7
  <2>2. CASE Len(p) > 1 /\ p[Len(p)] = Slash
    <3>1. st = SubSeq(p, 1, Len(p) - 1)
      BY <1>4, <2>1, <2>2
    <3>2. st \in Seq(Letters) /\ Meaning(st) = Meaning(p)
      BY <1>2, <2>2, <3>1, SlashTaken
    <3>3. Len(st) = Len(p) - 1 /\ st # <<>> /\ st[1] = Slash
      <4>1. Len(p) - 1 \in Nat /\ Len(p) - 1 > 0 /\ Len(p) - 1 <= Len(p)
        BY <1>2, <2>2
      <4> QED
        BY <1>2, <1>7, <3>1, <4>1, Shortened
    <3>4. ~CutShort(p)
      BY <1>2, <1>5, <2>1, <3>3
    <3> QED
      BY <1>3, <1>7, <3>2, <3>3, <3>4
  <2>3. CASE ~(Len(p) > 1 /\ p[Len(p)] = Slash)
    <3>1. st = p
      BY <1>4, <2>1, <2>3
    <3>2. ~CutShort(p)
      BY <1>2, <1>5, <2>1, <3>1
    <3> QED
      BY <1>2, <1>3, <1>7, <3>1, <3>2
  <2> QED
    BY <2>2, <2>3
<1>8. CASE p[1] # Slash
  <2>1. full = current_dir \o <<Slash>> \o p
    BY <1>6, <1>8
  <2>2. current_dir \o <<Slash>> \in Seq(Letters) /\ Len(current_dir \o <<Slash>>) = Len(current_dir) + 1
    BY <1>1, LettersAre
  <2>3. /\ full \in Seq(Letters) /\ Len(full) = Len(current_dir) + 1 + Len(p)
        /\ Len(current_dir) \in Nat /\ Len(current_dir) > 0 /\ full # <<>> /\ full[1] = Slash
    BY <1>1, <1>2, <2>1, <2>2
  <2>4. CASE Len(p) > 1 /\ full[Len(p)] = Slash
    <3>1. st = SubSeq(full, 1, Len(p) - 1)
      BY <1>4, <2>4
    <3>2. st \in Seq(Letters) /\ Len(st) = Len(p) - 1 /\ st # <<>> /\ st[1] = Slash
      <4>1. Len(p) - 1 \in Nat /\ Len(p) - 1 > 0 /\ Len(p) - 1 <= Len(full)
        BY <1>2, <2>3, <2>4
      <4> QED
        BY <2>3, <3>1, <4>1, Shortened
    <3>3. CutShort(p)
      BY <1>2, <1>5, <2>3, <3>2
    <3> QED
      BY <1>3, <1>8, <3>2, <3>3
  <2>5. CASE ~(Len(p) > 1 /\ full[Len(p)] = Slash)
    <3>1. st = full
      BY <1>4, <2>5
    <3>2. ~CutShort(p)
      BY <1>2, <1>5, <2>3, <3>1
    <3>3. entered' = entered \o Meaning(p)
      BY <1>3, <1>8, <3>2
    <3>4. Meaning(full) = Meaning(current_dir) \o Meaning(p)
      BY <1>1, <1>2, <2>1, MeaningJoined
    <3> QED
      BY <1>1, <2>3, <3>1, <3>3, <3>4
  <2> QED
    BY <2>4, <2>5
<1> QED
  BY <1>7, <1>8

LEMMA MountsBegin == MountsInit => MountsInv
<1> SUFFICES ASSUME MountsInit
             PROVE  MountsInv
  OBVIOUS
<1> DEFINE root == [device |-> 1, mountpoint |-> <<Slash>>]
           disk == [device |-> 2, mountpoint |-> <<Slash, "m">>]
<1>1. mounted = <<root, disk>> /\ current_dir = <<Slash>> /\ entered = <<>>
  BY DEF MountsInit
<1>2. <<Slash, "m">> \in Seq(Letters)
  <2> DEFINE mm == "m"
  <2>1. Slash \in Letters /\ mm \in Letters
    BY DEF Letters
  <2> HIDE DEF mm
  <2>2. <<Slash, mm>> \in Seq(Letters)
    BY <2>1
  <2> QED
    BY <2>2 DEF mm
<1>3. PlainTarget(<<Slash, "m">>)
  <2>1. "m" # Slash
    BY DEF Slash
  <2>2. Rooted(<<Slash, "m">>)
    BY <1>2, <2>1 DEF Rooted, SingleSlashes
  <2>3. ~AtSlash(<<Slash, "m">>)
    BY <2>1 DEF AtSlash
  <2> QED
    BY <2>2, <2>3 DEF PlainTarget
<1>4. PlainTarget(<<Slash>>)
  BY DEF PlainTarget
<1>5. root \in MountSlots /\ disk \in MountSlots
  BY <1>2, RootMeans DEF MountSlots
<1>6. TableHolds
  <2>1. root.mountpoint = <<Slash>> /\ disk.mountpoint = <<Slash, "m">>
    OBVIOUS
  <2> HIDE DEF root, disk
  <2> QED
    BY <1>1, <1>3, <1>4, <1>5, <2>1 DEF TableHolds
<1>7. DirectoryHolds
  BY <1>1, RootMeans DEF DirectoryHolds
<1> QED
  BY <1>6, <1>7 DEF MountsInv

LEMMA MountsKept ==
    ASSUME PlainTargets, MountsInv, MountsNext
    PROVE  MountsInv'
BY MountWorks, DirectoryIsNamed DEF MountsNext

LEMMA MountsStutter == MountsInv /\ UNCHANGED mount_vars => MountsInv'
BY DEF MountsInv, TableHolds, DirectoryHolds, mount_vars

\* A path is looked up in the file system mounted deepest along it, also one
\* that begins at the current directory, and chdir() goes where its paths say
\* (superblock.c:45-143, inodes.c, files.c:502-562).
THEOREM StorageMountsRight == ASSUME PlainTargets PROVE StorageSpec => []MountsRight
<1>1. StorageInit => MountsInv
  BY MountsBegin DEF StorageInit
<1>2. PlainTargets /\ MountsInv /\ [StorageNext]_storage_vars => MountsInv'
  <2> SUFFICES ASSUME PlainTargets, MountsInv, [StorageNext]_storage_vars
               PROVE  MountsInv'
    OBVIOUS
  <2>1. MountsNext \/ UNCHANGED mount_vars
    BY DEF StorageNext, storage_vars, Vfs_step, Romfs_step, Mounts_step, FileIO_step, Catalog_step
  <2> QED
    BY <2>1, MountsKept, MountsStutter
<1>3. MountsInv => MountsRight
  BY TableIsSound DEF MountsRight
<1> QED
  BY <1>1, <1>2, <1>3, PTL DEF StorageSpec

-----------------------------------------------------------------------------
(* Names of the catalog                                                    *)

Glyphs == STRING \cup {BLANK, "t", "."}
Dotted(name) == IsPrefix(name, << ".", "." >>)
NameOnDisk == [1..NameSize -> Glyphs]

\* Where a name ends and its blanks begin.
BlankBehind(name, n) == \A k \in (n + 1)..Len(name) : name[k] = BLANK
EndsAt(name, n) == (n > 0 => name[n] # BLANK) /\ BlankBehind(name, n)

LEMMA StrippedIs ==
    ASSUME NEW A, NEW name \in Seq(A)
    PROVE  \E n \in 0..Len(name) : EndsAt(name, n) /\ Stripped_name(name) = SubSeq(name, 1, n)
<1> DEFINE l == Len(name)
           S == {n \in 0..l : BlankBehind(name, n)}
<1>0. l \in Nat
  OBVIOUS
<1> HIDE DEF l
<1>1. S \subseteq Nat
  BY <1>0
<1>2. l \in S
  <2>1. BlankBehind(name, l)
    <3>1. (l + 1)..l = {}
      BY <1>0
    <3> QED
      BY <3>1 DEF BlankBehind, l
  <2> QED
    BY <1>0, <2>1
<1>3. PICK n \in S : \A k \in S : n <= k
  BY <1>1, <1>2, LeastNat
<1>4. n \in 0..l /\ EndsAt(name, n)
  <2>1. n \in 0..l /\ BlankBehind(name, n)
    BY <1>3
  <2>2. n > 0 => name[n] # BLANK
    <3> SUFFICES ASSUME n > 0, name[n] = BLANK
                 PROVE  FALSE
      OBVIOUS
    <3>1. n - 1 \in 0..l /\ ~(n <= n - 1) /\ (n - 1) + 1 = n
      BY <1>0, <2>1
    <3>2. \A k \in n..l : k = n \/ k \in (n + 1)..l
      BY <1>0, <2>1
    <3>3. BlankBehind(name, n - 1)
      BY <2>1, <3>1, <3>2 DEF BlankBehind, l
    <3> QED
      BY <1>3, <3>1, <3>3
  <2> QED
    BY <2>1, <2>2 DEF EndsAt
<1>5. Stripped_name(name) = SubSeq(name, 1, CHOOSE m \in 0..l : EndsAt(name, m))
  BY DEF Stripped_name, EndsAt, BlankBehind, l
<1> QED
  BY <1>4, <1>5 DEF l

LEMMA OneEnd ==
    ASSUME NEW A, NEW name \in Seq(A), NEW n \in 0..Len(name), EndsAt(name, n)
    PROVE  Stripped_name(name) = SubSeq(name, 1, n)
<1>1. PICK m \in 0..Len(name) : EndsAt(name, m) /\ Stripped_name(name) = SubSeq(name, 1, m)
  BY StrippedIs
<1>2. ASSUME NEW i \in 0..Len(name), NEW j \in 0..Len(name), EndsAt(name, i), EndsAt(name, j), i < j
      PROVE  FALSE
  <2>1. j \in (i + 1)..Len(name) /\ j > 0
    BY <1>2
  <2> QED
    BY <1>2, <2>1 DEF EndsAt, BlankBehind
<1>3. m = n
  BY <1>1, <1>2
<1> QED
  BY <1>1, <1>3

LEMMA SubSeqFacts ==
    ASSUME NEW A, NEW s \in Seq(A), NEW n \in 0..Len(s)
    PROVE  /\ SubSeq(s, 1, n) \in Seq(A) /\ Len(SubSeq(s, 1, n)) = n
           /\ \A k \in 1..n : SubSeq(s, 1, n)[k] = s[k]
OBVIOUS

\* What is padded and stripped again is what was stripped at once.
LEMMA PaddedStripped ==
    ASSUME NEW name \in Seq(Glyphs), Len(name) <= NameSize
    PROVE  /\ Padded(name) \in NameOnDisk
           /\ Stripped_name(Padded(name)) = Stripped_name(name)
<1> DEFINE p == Padded(name)
           Q == Glyphs
<1>1. Len(name) \in Nat /\ NameSize \in Nat /\ \A k \in 1..Len(name) : name[k] \in Q
  BY CatalogAssumption
<1>2. BLANK \in Q
  BY DEF Glyphs, Q
<1>3. p = [k \in 1..NameSize |-> IF k <= Len(name) THEN name[k] ELSE BLANK]
  BY DEF Padded
<1> HIDE DEF p, Q
<1>4. p \in [1..NameSize -> Q]
  <2>1. \A k \in 1..NameSize : k <= Len(name) => k \in 1..Len(name)
    BY <1>1
  <2>2. \A k \in 1..NameSize : (IF k <= Len(name) THEN name[k] ELSE BLANK) \in Q
    BY <1>1, <1>2, <2>1
  <2> QED
    BY <1>3, <2>2
<1>5. p \in Seq(Q) /\ Len(p) = NameSize
  BY <1>1, <1>4, SequenceOf
<1>6. name \in Seq(Q)
  BY DEF Q
<1>7. PICK n \in 0..Len(name) : EndsAt(name, n) /\ Stripped_name(name) = SubSeq(name, 1, n)
  BY <1>6, StrippedIs
<1>8. n \in 0..Len(p) /\ EndsAt(p, n)
  <2>1. n > 0 => n \in 1..NameSize /\ n <= Len(name)
    BY <1>1
  <2>2. n > 0 => p[n] # BLANK
    BY <1>3, <1>7, <2>1 DEF EndsAt
  <2>3. \A k \in (n + 1)..NameSize : p[k] = BLANK
    <3> SUFFICES ASSUME NEW k \in (n + 1)..NameSize
                 PROVE  p[k] = BLANK
      OBVIOUS
    <3>1. k \in 1..NameSize /\ (k <= Len(name) => k \in (n + 1)..Len(name))
      BY <1>1
    <3> QED
      BY <1>3, <1>7, <3>1 DEF EndsAt, BlankBehind
  <2>4. BlankBehind(p, n)
    BY <1>5, <2>3 DEF BlankBehind
  <2>5. n \in 0..Len(p)
    BY <1>1, <1>5
  <2> QED
    BY <2>2, <2>4, <2>5 DEF EndsAt
<1>9. Stripped_name(p) = SubSeq(p, 1, n)
  BY <1>5, <1>8, OneEnd
<1>10. SubSeq(p, 1, n) = SubSeq(name, 1, n)
  <2>1. \A k \in 1..n : p[k] = name[k]
    <3>1. \A k \in 1..n : k \in 1..NameSize /\ k <= Len(name)
      BY <1>1
    <3> QED
      BY <1>3, <3>1
  <2>2. SubSeq(p, 1, n) \in Seq(Q) /\ Len(SubSeq(p, 1, n)) = n /\ \A k \in 1..n : SubSeq(p, 1, n)[k] = p[k]
    BY <1>5, <1>8, SubSeqFacts
  <2>3. SubSeq(name, 1, n) \in Seq(Q) /\ Len(SubSeq(name, 1, n)) = n /\ \A k \in 1..n : SubSeq(name, 1, n)[k] = name[k]
    BY <1>6, SubSeqFacts
  <2> DEFINE a == SubSeq(p, 1, n)
             b == SubSeq(name, 1, n)
  <2> HIDE DEF a, b
  <2>4. a \in Seq(Q) /\ b \in Seq(Q) /\ Len(a) = Len(b) /\ \A k \in 1..Len(a) : a[k] = b[k]
    BY <2>1, <2>2, <2>3 DEF a, b
  <2>5. a = b
    BY <2>4
  <2> QED
    BY <2>5 DEF a, b
<1> QED
  BY <1>4, <1>7, <1>9, <1>10 DEF p, Q, NameOnDisk

LEMMA NoBlanks ==
    ASSUME NEW A, NEW name \in Seq(A), name # <<>>, name[Len(name)] # BLANK
    PROVE  Stripped_name(name) = name
<1> DEFINE l == Len(name)
<1>1. l \in Nat /\ name \in [1..l -> A]
  OBVIOUS
<1>2. l \in 0..l /\ (l + 1)..l = {}
  BY <1>1
<1>3. l > 0 => name[l] # BLANK
  OBVIOUS
<1> HIDE DEF l
<1>4. EndsAt(name, l)
  BY <1>2, <1>3 DEF EndsAt, BlankBehind, l
<1>5. Stripped_name(name) = SubSeq(name, 1, l)
  BY <1>2, <1>4, OneEnd DEF l
<1>6. SubSeq(name, 1, l) = name
  <2>1. /\ SubSeq(name, 1, l) \in Seq(A) /\ Len(SubSeq(name, 1, l)) = l
        /\ \A k \in 1..l : SubSeq(name, 1, l)[k] = name[k]
    BY <1>2, SubSeqFacts DEF l
  <2> DEFINE a == SubSeq(name, 1, l)
  <2> HIDE DEF a
  <2>2. a \in Seq(A) /\ Len(a) = Len(name) /\ \A k \in 1..Len(a) : a[k] = name[k]
    BY <2>1 DEF a, l
  <2>3. a = name
    BY <2>2
  <2> QED
    BY <2>3 DEF a
<1> QED
  BY <1>5, <1>6

LEMMA NameIs ==
    ASSUME NEW n \in NameOnDisk
    PROVE  /\ n \in Seq(Glyphs) /\ Len(n) = NameSize
           /\ Stripped_name(n) \in Seq(Glyphs) /\ Len(Stripped_name(n)) <= NameSize
<1> DEFINE Q == Glyphs
<1>1. NameSize \in Nat /\ n \in [1..NameSize -> Q]
  BY CatalogAssumption DEF NameOnDisk
<1> HIDE DEF Q
<1>2. n \in Seq(Q) /\ Len(n) = NameSize
  BY <1>1, SequenceOf
<1>3. PICK m \in 0..Len(n) : Stripped_name(n) = SubSeq(n, 1, m)
  BY <1>2, StrippedIs
<1>4. SubSeq(n, 1, m) \in Seq(Q) /\ Len(SubSeq(n, 1, m)) = m
  BY <1>2, SubSeqFacts
<1> QED
  BY <1>1, <1>2, <1>3, <1>4 DEF Q

\* The name of an unlinked entry ends with a "t".
LEMMA UnlinkedIs ==
    ASSUME NEW n \in NameOnDisk
    PROVE  LET u == [n EXCEPT ![NameSize] = "t"]
           IN u \in NameOnDisk /\ ~Dotted(Stripped_name(u))
<1> DEFINE u == [n EXCEPT ![NameSize] = "t"]
<1>1. NameSize \in Nat /\ NameSize > 0 /\ NameSize \in 1..NameSize /\ "t" \in Glyphs
  BY CatalogAssumption DEF Glyphs
<1>2. u \in NameOnDisk /\ u[NameSize] = "t"
  BY <1>1 DEF NameOnDisk
<1> HIDE DEF u
<1>3. u \in Seq(Glyphs) /\ Len(u) = NameSize
  BY <1>2, NameIs
<1>4. Stripped_name(u) = u
  <2>1. u # <<>> /\ u[Len(u)] # BLANK
    BY <1>1, <1>2, <1>3 DEF BLANK
  <2> QED
    BY <1>3, <2>1, NoBlanks
<1>5. ~Dotted(u)
  <2> SUFFICES ASSUME Dotted(u)
               PROVE  FALSE
    OBVIOUS
  <2> DEFINE d == << ".", "." >>
  <2>1. d \in Seq(Glyphs) /\ Len(d) = 2 /\ \A k \in 1..2 : d[k] = "."
    <3> DEFINE c == "."
               Q == Glyphs
    <3>1. c \in Q
      BY DEF Glyphs
    <3> HIDE DEF c, Q
    <3>2. << c, c >> \in Seq(Q) /\ Len(<< c, c >>) = 2 /\ \A k \in 1..2 : << c, c >>[k] = c
      BY <3>1
    <3> QED
      BY <3>2 DEF c, Q
  <2> HIDE DEF d
  <2>2. NameSize <= 2 /\ SubSeq(u, 1, NameSize) = SubSeq(d, 1, NameSize)
    BY <1>3, <2>1 DEF Dotted, IsPrefix, d
  <2>3. SubSeq(u, 1, NameSize)[NameSize] = u[NameSize] /\ SubSeq(d, 1, NameSize)[NameSize] = d[NameSize]
    BY <1>1, <1>3, <2>1, <2>2, SubSeqFacts
  <2>4. u[NameSize] = "."
    BY <1>1, <2>1, <2>2, <2>3
  <2> QED
    BY <1>2, <2>4
<1> QED
  BY <1>2, <1>4, <1>5 DEF u

-----------------------------------------------------------------------------
(* What the catalog holds                                                  *)

KindSet == STRING \cup {"B", "T"}
Tracks == {"zero", "deleted", "unlinked", "track"}
EntrySet == [track : Tracks, name : NameOnDisk, kind : KindSet, locked : BOOLEAN, length : Int]
InodeSet == [size : Nat, writable : BOOLEAN, links : Int, executable : BOOLEAN, blocks : Int]
WantedSet == [size : Nat, writable : BOOLEAN]

\* What the disk and the callers are like: no file has the name "." or "..",
\* nor would have it without the blanks, and no name is there twice.
NoDots(name) == ~Dotted(name) /\ (Stripped_name(name) = <<>> \/ ~Dotted(Stripped_name(name)))
GivenWell == \A name \in GivenNames : name \in Seq(STRING) /\ NoDots(name)
DiskWell(disk) ==
    /\ \A e \in Slots : e \in DOMAIN disk =>
         /\ disk[e] \in [name : Seq(STRING), kind : STRING, locked : BOOLEAN, size : Nat]
         /\ Len(disk[e].name) <= NameSize /\ NoDots(disk[e].name)
    /\ \A e, f \in Slots : e \in DOMAIN disk /\ f \in DOMAIN disk /\ e # f =>
         Stripped_name(disk[e].name) # Stripped_name(disk[f].name)
CatalogGiven == GivenWell /\ \A disk \in FirstCatalogs : DiskWell(disk)

CatalogTypes ==
    /\ catalog \in [Slots -> EntrySet]
    /\ stored_size \in [Slots -> Nat]
    /\ wanted \in [Slots -> WantedSet]
    /\ DOMAIN in_core \subseteq Slots
    /\ in_core \in [DOMAIN in_core -> [inode : InodeSet]]

\* Only files that are there, or were until somebody unlinked them, are in
\* core; disk and memory agree with what was asked for.
EntryRight(e) ==
    /\ NameOf(e) = <<>> \/ ~Dotted(NameOf(e))
    /\ e \in DOMAIN in_core => catalog[e].track \in {"track", "unlinked"}
    /\ catalog[e].track = "track" =>
         /\ catalog[e].locked = ~wanted[e].writable
         /\ e \in DOMAIN in_core => in_core[e].inode.writable = wanted[e].writable
         /\ catalog[e].kind = "B" =>
              /\ stored_size[e] = wanted[e].size
              /\ e \in DOMAIN in_core => in_core[e].inode.size = wanted[e].size

NoTwins == \A e, f \in Linked : NameOf(e) = NameOf(f) => e = f

CatalogHolds ==
    /\ CatalogTypes
    /\ \A e \in Slots : EntryRight(e)
    /\ ~odd => NoTwins

LEMMA SlotsAre == Slots \subseteq Nat /\ \A e \in Slots : e >= 1 /\ e # No_slot /\ e # 0
BY CatalogAssumption DEF Slots, No_slot

-----------------------------------------------------------------------------
(* Looking a name up                                                       *)

LEMMA FoundIs ==
    ASSUME CatalogTypes, NEW name
    PROVE  LET C == {e \in Linked : IsPrefix(name, NameOf(e))}
           IN /\ C = {} => Found_name(0, name) = No_slot
              /\ C # {} => Found_name(0, name) \in C /\ \A e \in C : Found_name(0, name) <= e
<1> DEFINE C == {e \in Linked : IsPrefix(name, NameOf(e))}
           D == {e \in Slots : /\ e >= FirstOf(0) /\ ~Skipped(catalog[e].track)
                               /\ IsPrefix(name, Stripped_name(catalog[e].name))}
<1>1. C = D
  <2>1. FirstOf(0) = 1
    BY CatalogAssumption DEF FirstOf
  <2>2. \A e \in Slots : catalog[e].track \in Tracks
    BY DEF CatalogTypes, EntrySet
  <2>3. \A e \in Slots : ~Skipped(catalog[e].track) <=> catalog[e].track = "track"
    BY <2>2 DEF Tracks, Skipped
  <2> QED
    BY <2>1, <2>3, SlotsAre DEF Linked, NameOf
<1>2. Found_name(0, name) = IF D = {} THEN No_slot ELSE Min(D)
  BY DEF Found_name
<1>3. D \subseteq Nat
  BY SlotsAre
<1> HIDE DEF C, D
<1>4. D # {} => Min(D) \in D /\ \A e \in D : Min(D) <= e
  <2> SUFFICES ASSUME D # {}
               PROVE  Min(D) \in D /\ \A e \in D : Min(D) <= e
    OBVIOUS
  <2>1. \E m \in D : \A e \in D : m <= e
    BY <1>3, LeastNat
  <2> QED
    BY <2>1 DEF Min
<1> QED
  BY <1>1, <1>2, <1>4 DEF C

LEMMA LookedOne ==
    ASSUME NEW name
    PROVE  Looked_up(<< name >>) = IF Dotted(name) THEN 0 ELSE Found_name(0, name)
<1> DEFINE p == << name >>
           Body(v, k) == IF v[k - 1] = No_slot THEN No_slot
                         ELSE IF Dotted(p[k]) THEN v[k - 1]
                         ELSE Found_name(IF v[k - 1] = 0 THEN 0 ELSE SectorOf(v[k - 1]), p[k])
           found1 == IF Dotted(name) THEN 0 ELSE Found_name(0, name)
           g == [k \in 0..1 |-> IF k = 0 THEN 0 ELSE found1]
           w == CHOOSE at : at = [k \in 0..1 |-> IF k = 0 THEN 0 ELSE Body(at, k)]
<1>1. Len(p) = 1 /\ p[1] = name /\ 0 # No_slot
  BY DEF No_slot
<1>2. Looked_up(p) = w[1]
  BY <1>1 DEF Looked_up, Dotted
<1> HIDE DEF p, Body, w
<1>3. \A k \in 0..1 : k = 0 \/ k = 1
  OBVIOUS
<1>4. ASSUME NEW v, v[0] = 0
      PROVE  Body(v, 1) = found1
  BY <1>1, <1>4 DEF Body
<1>5. g = [k \in 0..1 |-> IF k = 0 THEN 0 ELSE Body(g, k)]
  <2>1. g[0] = 0
    OBVIOUS
  <2>2. Body(g, 1) = found1
    BY <1>4, <2>1
  <2> HIDE DEF found1
  <2> QED
    BY <1>3, <2>2
<1>6. w = [k \in 0..1 |-> IF k = 0 THEN 0 ELSE Body(w, k)]
  BY <1>5 DEF w
<1> HIDE DEF g, found1
<1>7. w[0] = 0 /\ w[1] = Body(w, 1)
  BY <1>6
<1> QED
  BY <1>2, <1>4, <1>7 DEF found1, p

LEMMA LookedTwo ==
    ASSUME NEW dots, Dotted(dots), NEW name
    PROVE  Looked_up(<< dots, name >>) = Looked_up(<< name >>)
<1> DEFINE p == << dots, name >>
           Body(v, k) == IF v[k - 1] = No_slot THEN No_slot
                         ELSE IF Dotted(p[k]) THEN v[k - 1]
                         ELSE Found_name(IF v[k - 1] = 0 THEN 0 ELSE SectorOf(v[k - 1]), p[k])
           found2 == IF Dotted(name) THEN 0 ELSE Found_name(0, name)
           g == [k \in 0..2 |-> IF k = 2 THEN found2 ELSE 0]
           w == CHOOSE at : at = [k \in 0..2 |-> IF k = 0 THEN 0 ELSE Body(at, k)]
<1>1. Len(p) = 2 /\ p[1] = dots /\ p[2] = name /\ 0 # No_slot
  BY DEF No_slot
<1>2. Looked_up(p) = w[2]
  BY <1>1 DEF Looked_up, Dotted
<1> HIDE DEF p, Body, w
<1>3. \A k \in 0..2 : k = 0 \/ k = 1 \/ k = 2
  OBVIOUS
<1>4. ASSUME NEW v, v[0] = 0
      PROVE  Body(v, 1) = 0
  BY <1>1, <1>4 DEF Body
<1>5. ASSUME NEW v, v[1] = 0
      PROVE  Body(v, 2) = found2
  BY <1>1, <1>5 DEF Body
<1>6. g = [k \in 0..2 |-> IF k = 0 THEN 0 ELSE Body(g, k)]
  <2>1. g[0] = 0 /\ g[1] = 0
    OBVIOUS
  <2>2. Body(g, 1) = 0 /\ Body(g, 2) = found2
    BY <1>4, <1>5, <2>1
  <2> HIDE DEF found2
  <2> QED
    BY <1>3, <2>2
<1>7. w = [k \in 0..2 |-> IF k = 0 THEN 0 ELSE Body(w, k)]
  BY <1>6 DEF w
<1> HIDE DEF g, found2
<1>8. w[0] = 0 /\ w[1] = Body(w, 1) /\ w[2] = Body(w, 2)
  BY <1>7
<1>9. w[2] = found2
  BY <1>4, <1>5, <1>8
<1> QED
  BY <1>2, <1>9, LookedOne DEF found2, p

LEMMA GivenAre ==
    ASSUME CatalogGiven, NEW name \in GivenNames
    PROVE  /\ name \in Seq(Glyphs) /\ NoDots(name) /\ name # <<>>
           /\ Looked_up(<< name >>) = Found_name(0, name)
<1>1. name \in Seq(STRING) /\ NoDots(name)
  BY DEF CatalogGiven, GivenWell
<1>2. name \in [1..Len(name) -> Glyphs] /\ Len(name) \in Nat
  BY <1>1 DEF Glyphs
<1>3. name \in Seq(Glyphs)
  BY <1>2, SequenceOf
<1>4. ~Dotted(name)
  BY <1>1 DEF NoDots
<1>5. name # <<>>
  <2>1. Dotted(<<>>)
    <3> DEFINE d == << ".", "." >>
    <3>1. Len(d) = 2
      OBVIOUS
    <3> HIDE DEF d
    <3>2. SubSeq(d, 1, 0) = <<>> /\ SubSeq(<<>>, 1, 0) = <<>> /\ Len(<<>>) = 0
      OBVIOUS
    <3> QED
      BY <3>1, <3>2 DEF Dotted, IsPrefix, d
  <2> QED
    BY <1>4, <2>1
<1> QED
  BY <1>1, <1>3, <1>4, <1>5, LookedOne

\* Who is found is there.
LEMMA FoundIsLinked ==
    ASSUME CatalogGiven, CatalogTypes, NEW name \in GivenNames, Looked_up(<< name >>) # No_slot
    PROVE  LET e == Looked_up(<< name >>)
           IN e \in Slots /\ catalog[e].track = "track" /\ IsPrefix(name, NameOf(e))
<1>1. Looked_up(<< name >>) = Found_name(0, name)
  BY GivenAre
<1> QED
  BY <1>1, FoundIs DEF Linked

-----------------------------------------------------------------------------
(* Steps                                                                   *)

LEMMA LengthIs == ASSUME NEW size \in Nat PROVE LengthOf(size) \in Int
<1> DEFINE r == size % BlockSize_disk
<1>1. r \in Int
  BY DEF BlockSize_disk
<1> HIDE DEF r
<1> QED
  BY <1>1 DEF LengthOf, r

LEMMA InodesAre ==
    ASSUME CatalogTypes, NEW e \in Slots
    PROVE  /\ catalog[e] \in EntrySet /\ stored_size[e] \in Nat /\ wanted[e] \in WantedSet
           /\ e \in DOMAIN in_core => in_core[e] \in [inode : InodeSet] /\ in_core[e].inode \in InodeSet
           /\ Read_inode(e) \in InodeSet /\ Inode_of(e) \in InodeSet
<1>1. /\ catalog[e] \in EntrySet /\ stored_size[e] \in Nat /\ wanted[e] \in WantedSet
      /\ e \in DOMAIN in_core => in_core[e] \in [inode : InodeSet]
  BY DEF CatalogTypes
<1>2. SizeOnDisk(e) \in Nat
  BY <1>1 DEF SizeOnDisk
<1>3. Read_inode(e) \in InodeSet
  BY <1>1, <1>2 DEF Read_inode, InodeSet, EntrySet
<1> QED
  BY <1>1, <1>3 DEF Inode_of

\* The inode of a file that is there says what was asked for.
LEMMA InodeSays ==
    ASSUME CatalogTypes, NEW e \in Slots, EntryRight(e), catalog[e].track = "track"
    PROVE  /\ Read_inode(e).writable = wanted[e].writable /\ Inode_of(e).writable = wanted[e].writable
           /\ catalog[e].kind = "B" =>
                Read_inode(e).size = wanted[e].size /\ Inode_of(e).size = wanted[e].size
<1>1. catalog[e].locked \in BOOLEAN /\ wanted[e].writable \in BOOLEAN
  BY InodesAre DEF EntrySet, WantedSet
<1>2. catalog[e].kind = "B" => SizeOnDisk(e) = stored_size[e]
  BY DEF SizeOnDisk
<1>3. Read_inode(e).writable = ~catalog[e].locked /\ Read_inode(e).size = SizeOnDisk(e)
  BY DEF Read_inode
<1> QED
  BY <1>1, <1>2, <1>3 DEF EntryRight, Inode_of

Keeps(g, h, e) == \A f \in Slots : f # e => h[f] = g[f]

\* A step that changes one entry.
LEMMA OneChanges ==
    ASSUME CatalogTypes, \A f \in Slots : EntryRight(f), NEW e \in Slots,
           catalog' \in [Slots -> EntrySet], Keeps(catalog, catalog', e),
           stored_size' \in [Slots -> Nat], Keeps(stored_size, stored_size', e),
           wanted' \in [Slots -> WantedSet], Keeps(wanted, wanted', e),
           DOMAIN in_core' \subseteq Slots, in_core' \in [DOMAIN in_core' -> [inode : InodeSet]],
           \A f \in Slots : f # e => (f \in DOMAIN in_core' <=> f \in DOMAIN in_core),
           \A f \in DOMAIN in_core' : f # e => in_core'[f] = in_core[f],
           EntryRight(e)'
    PROVE  CatalogTypes' /\ \A f \in Slots : EntryRight(f)'
<1>1. CatalogTypes'
  BY DEF CatalogTypes
<1>2. ASSUME NEW f \in Slots, f # e
      PROVE  EntryRight(f)'
  <2>1. /\ catalog'[f] = catalog[f] /\ stored_size'[f] = stored_size[f] /\ wanted'[f] = wanted[f]
        /\ f \in DOMAIN in_core' <=> f \in DOMAIN in_core
        /\ f \in DOMAIN in_core' => in_core'[f] = in_core[f]
    BY <1>2 DEF Keeps
  <2>2. EntryRight(f)
    BY <1>2
  <2> QED
    BY <2>1, <2>2 DEF EntryRight, NameOf
<1> QED
  BY <1>1, <1>2

\* Names stay apart when none is given.
LEMMA NoNewName ==
    ASSUME ~odd => NoTwins, odd' = odd, Linked' \subseteq Linked,
           \A e \in Linked' : NameOf(e)' = NameOf(e)
    PROVE  (~odd => NoTwins)'
<1> SUFFICES ASSUME ~odd', NEW e \in Linked', NEW f \in Linked', NameOf(e)' = NameOf(f)'
             PROVE  e = f
  BY DEF NoTwins
<1> QED
  BY DEF NoTwins

\* The inodes in core.
LEMMA CoreKept ==
    ASSUME CatalogTypes, NEW e \in Slots, NEW inode \in InodeSet,
           NEW core, core = Kept_in_core(e, inode)
    PROVE  /\ DOMAIN core = DOMAIN in_core /\ core \in [DOMAIN core -> [inode : InodeSet]]
           /\ \A f \in DOMAIN core : f # e => core[f] = in_core[f]
           /\ e \in DOMAIN core => core[e].inode = inode
<1>1. in_core \in [DOMAIN in_core -> [inode : InodeSet]]
  BY DEF CatalogTypes
<1>2. CASE e \in DOMAIN in_core
  <2>1. core = [in_core EXCEPT ![e].inode = inode]
    BY <1>2 DEF Kept_in_core
  <2> QED
    BY <1>1, <1>2, <2>1
<1>3. CASE e \notin DOMAIN in_core
  BY <1>1, <1>3 DEF Kept_in_core
<1> QED
  BY <1>2, <1>3

\* With the inode of e in core.
CoreHas(core, e, inode) ==
    /\ DOMAIN core = DOMAIN in_core \cup {e} /\ core \in [DOMAIN core -> [inode : InodeSet]]
    /\ \A f \in DOMAIN core : f # e => core[f] = in_core[f]
    /\ core[e].inode = inode

LEMMA CoreOpened ==
    ASSUME CatalogTypes, NEW e \in Slots, NEW inode \in InodeSet
    PROVE  CoreHas(Opened_inode(e, inode), e, inode)
<1> DEFINE core == Opened_inode(e, inode)
<1>1. in_core \in [DOMAIN in_core -> [inode : InodeSet]]
  BY DEF CatalogTypes
<1>2. core = [f \in DOMAIN in_core \cup {e} |-> IF f = e THEN [inode |-> inode] ELSE in_core[f]]
  BY DEF Opened_inode
<1> HIDE DEF core
<1>3. CoreHas(core, e, inode)
  BY <1>1, <1>2 DEF CoreHas
<1> QED
  BY <1>3 DEF core

LEMMA WrittenIs ==
    ASSUME CatalogTypes, NEW e \in Slots, NEW inode \in InodeSet
    PROVE  /\ Written_entry(e, inode) \in EntrySet /\ Written_size(e, inode) \in Nat
           /\ Written_entry(e, inode).track = catalog[e].track
           /\ Written_entry(e, inode).name = catalog[e].name
           /\ Written_entry(e, inode).kind = catalog[e].kind
           /\ Written_entry(e, inode).locked = ~inode.writable
           /\ catalog[e].kind = "B" => Written_size(e, inode) = inode.size
<1>1. catalog[e] \in EntrySet /\ stored_size[e] \in Nat /\ LengthOf(inode.size) \in Int
  BY InodesAre, LengthIs DEF InodeSet
<1> QED
  BY <1>1 DEF Written_entry, Written_size, EntrySet, InodeSet

LEMMA DestroyedIs ==
    ASSUME NEW c \in EntrySet, NEW inode \in InodeSet
    PROVE  /\ Destroyed(c, inode) \in EntrySet /\ Destroyed(c, inode).track = "deleted"
           /\ Destroyed(c, inode).name = c.name
<1>1. LengthOf(inode.size) \in Int /\ LengthOf(0) \in Int
  BY LengthIs DEF InodeSet
<1> QED
  BY <1>1 DEF Destroyed, EntrySet, InodeSet, Tracks

LEMMA UnlinkedEntryIs ==
    ASSUME NEW c \in EntrySet
    PROVE  /\ Unlinked_entry(c) \in EntrySet /\ Unlinked_entry(c).track = "unlinked"
           /\ ~Dotted(Stripped_name(Unlinked_entry(c).name))
<1> DEFINE u == [c.name EXCEPT ![NameSize] = "t"]
<1>1. u \in NameOnDisk /\ ~Dotted(Stripped_name(u))
  BY UnlinkedIs DEF EntrySet
<1>2. Unlinked_entry(c) = [c EXCEPT !.track = "unlinked", !.name = u]
  BY DEF Unlinked_entry
<1> HIDE DEF u
<1> QED
  BY <1>1, <1>2 DEF EntrySet, Tracks

\* A step that writes an inode of a file that is there back to the disk, as
\* chmod() and truncate() do.
LEMMA EntryWritten ==
    ASSUME CatalogHolds, NEW e \in Slots, catalog[e].track = "track",
           NEW inode \in InodeSet, NEW w \in WantedSet,
           inode.writable = w.writable, catalog[e].kind = "B" => inode.size = w.size,
           catalog' = [catalog EXCEPT ![e] = Written_entry(e, inode)],
           stored_size' = [stored_size EXCEPT ![e] = Written_size(e, inode)],
           in_core' = Kept_in_core(e, inode),
           wanted' = [wanted EXCEPT ![e] = w], odd' = odd
    PROVE  CatalogHolds'
<1> DEFINE c == Written_entry(e, inode)
           z == Written_size(e, inode)
<1>1. CatalogTypes /\ (\A f \in Slots : EntryRight(f)) /\ (~odd => NoTwins)
  BY DEF CatalogHolds
<1>2. /\ c \in EntrySet /\ z \in Nat /\ c.track = catalog[e].track /\ c.name = catalog[e].name
      /\ c.kind = catalog[e].kind /\ c.locked = ~inode.writable
      /\ catalog[e].kind = "B" => z = inode.size
  BY <1>1, WrittenIs
<1>3. catalog' = [catalog EXCEPT ![e] = c] /\ stored_size' = [stored_size EXCEPT ![e] = z]
  OBVIOUS
<1> HIDE DEF c, z
<1>4. /\ catalog \in [Slots -> EntrySet] /\ stored_size \in [Slots -> Nat] /\ wanted \in [Slots -> WantedSet]
  BY <1>1 DEF CatalogTypes
<1>5. /\ catalog' \in [Slots -> EntrySet] /\ Keeps(catalog, catalog', e) /\ catalog'[e] = c
      /\ stored_size' \in [Slots -> Nat] /\ Keeps(stored_size, stored_size', e) /\ stored_size'[e] = z
      /\ wanted' \in [Slots -> WantedSet] /\ Keeps(wanted, wanted', e) /\ wanted'[e] = w
  BY <1>2, <1>3, <1>4 DEF Keeps
<1>6. /\ DOMAIN in_core' = DOMAIN in_core /\ in_core' \in [DOMAIN in_core' -> [inode : InodeSet]]
      /\ \A f \in DOMAIN in_core' : f # e => in_core'[f] = in_core[f]
      /\ e \in DOMAIN in_core' => in_core'[e].inode = inode
  BY <1>1, CoreKept
<1>7. EntryRight(e)'
  <2>1. EntryRight(e)
    BY <1>1
  <2>2. NameOf(e)' = NameOf(e)
    BY <1>2, <1>5 DEF NameOf
  <2> QED
    BY <1>2, <1>5, <1>6, <2>1, <2>2 DEF EntryRight
<1>8. CatalogTypes' /\ \A f \in Slots : EntryRight(f)'
  <2>1. DOMAIN in_core' \subseteq Slots
    BY <1>1, <1>6 DEF CatalogTypes
  <2> QED
    BY <1>1, <1>5, <1>6, <1>7, <2>1, OneChanges
<1>9. (~odd => NoTwins)'
  <2>1. \A f \in Slots : catalog'[f].track = catalog[f].track /\ catalog'[f].name = catalog[f].name
    BY <1>2, <1>5 DEF Keeps
  <2>2. Linked' \subseteq Linked /\ \A f \in Linked' : NameOf(f)' = NameOf(f)
    BY <2>1 DEF Linked, NameOf
  <2> QED
    BY <1>1, <2>2, NoNewName
<1> QED
  BY <1>8, <1>9 DEF CatalogHolds

LEMMA ChmodKeeps == ASSUME CatalogGiven, CatalogHolds, chmod PROVE CatalogHolds'
<1>1. PICK name \in GivenNames, writable \in BOOLEAN :
         LET e == Looked_up(<< name >>)
             inode == [Inode_of(e) EXCEPT !.writable = writable]
         IN /\ e # No_slot
            /\ catalog' = [catalog EXCEPT ![e] = Written_entry(e, inode)]
            /\ stored_size' = [stored_size EXCEPT ![e] = Written_size(e, inode)]
            /\ in_core' = Kept_in_core(e, inode)
            /\ wanted' = [wanted EXCEPT ![e].writable = writable]
  BY DEF chmod
<1> DEFINE e == Looked_up(<< name >>)
           inode == [Inode_of(e) EXCEPT !.writable = writable]
           w == [wanted[e] EXCEPT !.writable = writable]
<1>2. CatalogTypes /\ e \in Slots /\ catalog[e].track = "track"
  BY <1>1, FoundIsLinked DEF CatalogHolds
<1>3. EntryRight(e) /\ odd' = odd
  BY <1>2 DEF CatalogHolds, chmod
<1> HIDE DEF e
<1>4. Inode_of(e) \in InodeSet /\ wanted[e] \in WantedSet
  BY <1>2, InodesAre
<1>5. catalog[e].kind = "B" => Inode_of(e).size = wanted[e].size
  BY <1>2, <1>3, InodeSays
<1>6. /\ inode \in InodeSet /\ w \in WantedSet /\ inode.writable = w.writable
      /\ inode.size = Inode_of(e).size /\ w.size = wanted[e].size
  BY <1>4 DEF InodeSet, WantedSet
<1>7. wanted' = [wanted EXCEPT ![e] = w]
  BY <1>1 DEF e
<1>8. /\ catalog' = [catalog EXCEPT ![e] = Written_entry(e, inode)]
      /\ stored_size' = [stored_size EXCEPT ![e] = Written_size(e, inode)]
      /\ in_core' = Kept_in_core(e, inode)
  BY <1>1 DEF e
<1> HIDE DEF inode, w
<1> QED
  BY <1>2, <1>3, <1>5, <1>6, <1>7, <1>8, EntryWritten

LEMMA TruncateIsKept == ASSUME CatalogGiven, CatalogHolds, truncate64 PROVE CatalogHolds'
<1>1. PICK name \in GivenNames, size \in FileSizes :
         LET e == Looked_up(<< name >>)
             inode == [Inode_of(e) EXCEPT !.size = size]
         IN /\ e # No_slot
            /\ catalog' = [catalog EXCEPT ![e] = Written_entry(e, inode)]
            /\ stored_size' = [stored_size EXCEPT ![e] = Written_size(e, inode)]
            /\ in_core' = Kept_in_core(e, inode)
            /\ wanted' = [wanted EXCEPT ![e].size = size]
  BY DEF truncate64
<1> DEFINE e == Looked_up(<< name >>)
           inode == [Inode_of(e) EXCEPT !.size = size]
           w == [wanted[e] EXCEPT !.size = size]
<1>2. CatalogTypes /\ e \in Slots /\ catalog[e].track = "track"
  BY <1>1, FoundIsLinked DEF CatalogHolds
<1>3. EntryRight(e) /\ odd' = odd /\ size \in Nat
  BY <1>2, CatalogAssumption DEF CatalogHolds, truncate64
<1> HIDE DEF e
<1>4. Inode_of(e) \in InodeSet /\ wanted[e] \in WantedSet
  BY <1>2, InodesAre
<1>5. Inode_of(e).writable = wanted[e].writable
  BY <1>2, <1>3, InodeSays
<1>6. /\ inode \in InodeSet /\ w \in WantedSet /\ inode.size = w.size
      /\ inode.writable = Inode_of(e).writable /\ w.writable = wanted[e].writable
  BY <1>3, <1>4 DEF InodeSet, WantedSet
<1>7. wanted' = [wanted EXCEPT ![e] = w]
  BY <1>1 DEF e
<1>8. /\ catalog' = [catalog EXCEPT ![e] = Written_entry(e, inode)]
      /\ stored_size' = [stored_size EXCEPT ![e] = Written_size(e, inode)]
      /\ in_core' = Kept_in_core(e, inode)
  BY <1>1 DEF e
<1> HIDE DEF inode, w
<1> QED
  BY <1>2, <1>3, <1>5, <1>6, <1>7, <1>8, EntryWritten

\* An entry that nobody finds any more.
LEMMA EntryGone ==
    ASSUME CatalogHolds, NEW e \in Slots, NEW c \in EntrySet, c.track \in {"deleted", "unlinked"},
           Stripped_name(c.name) = <<>> \/ ~Dotted(Stripped_name(c.name)),
           catalog' = [catalog EXCEPT ![e] = c],
           stored_size' = stored_size \/ stored_size' = [stored_size EXCEPT ![e] = 0],
           DOMAIN in_core' \subseteq Slots, in_core' \in [DOMAIN in_core' -> [inode : InodeSet]],
           \A f \in Slots : f # e => (f \in DOMAIN in_core' <=> f \in DOMAIN in_core),
           \A f \in DOMAIN in_core' : f # e => in_core'[f] = in_core[f],
           e \in DOMAIN in_core' => c.track = "unlinked",
           wanted' = wanted, odd' = odd
    PROVE  CatalogHolds'
<1>1. CatalogTypes /\ (\A f \in Slots : EntryRight(f)) /\ (~odd => NoTwins)
  BY DEF CatalogHolds
<1>2. /\ catalog \in [Slots -> EntrySet] /\ stored_size \in [Slots -> Nat] /\ wanted \in [Slots -> WantedSet]
  BY <1>1 DEF CatalogTypes
<1>3. /\ catalog' \in [Slots -> EntrySet] /\ Keeps(catalog, catalog', e) /\ catalog'[e] = c
      /\ wanted' \in [Slots -> WantedSet] /\ Keeps(wanted, wanted', e)
  BY <1>2 DEF Keeps
<1>4. stored_size' \in [Slots -> Nat] /\ Keeps(stored_size, stored_size', e)
  BY <1>2 DEF Keeps
<1>5. EntryRight(e)'
  BY <1>3 DEF EntryRight, NameOf
<1>6. CatalogTypes' /\ \A f \in Slots : EntryRight(f)'
  BY <1>1, <1>3, <1>4, <1>5, OneChanges
<1>7. (~odd => NoTwins)'
  <2>1. \A f \in Slots : f # e => catalog'[f] = catalog[f]
    BY <1>3 DEF Keeps
  <2>2. Linked' \subseteq Linked /\ \A f \in Linked' : NameOf(f)' = NameOf(f)
    BY <1>3, <2>1 DEF Linked, NameOf
  <2> QED
    BY <1>1, <2>2, NoNewName
<1> QED
  BY <1>6, <1>7 DEF CatalogHolds

LEMMA UnlinkKeepsCatalog == ASSUME CatalogGiven, CatalogHolds, unlink PROVE CatalogHolds'
<1>1. PICK name \in GivenNames :
         LET e == Looked_up(<< name >>)
             inode == [Inode_of(e) EXCEPT !.links = @ - 1]
             open == e \in DOMAIN in_core
         IN /\ e # No_slot
            /\ catalog' = [catalog EXCEPT ![e] =
                              IF open THEN Unlinked_entry(@)
                              ELSE Destroyed(Unlinked_entry(@), inode)]
            /\ stored_size' = IF ~open /\ inode.size # 0 /\ catalog[e].kind # "T"
                              THEN [stored_size EXCEPT ![e] = 0] ELSE stored_size
            /\ in_core' = Kept_in_core(e, inode)
  BY DEF unlink
<1> DEFINE e == Looked_up(<< name >>)
           inode == [Inode_of(e) EXCEPT !.links = @ - 1]
           c == IF e \in DOMAIN in_core THEN Unlinked_entry(catalog[e])
                ELSE Destroyed(Unlinked_entry(catalog[e]), inode)
<1>2. CatalogTypes /\ e \in Slots
  BY <1>1, FoundIsLinked DEF CatalogHolds
<1>3. wanted' = wanted /\ odd' = odd
  BY DEF unlink
<1>4. catalog' = [catalog EXCEPT ![e] = c] /\ in_core' = Kept_in_core(e, inode)
  BY <1>1
<1>5. stored_size' = stored_size \/ stored_size' = [stored_size EXCEPT ![e] = 0]
  BY <1>1
<1> HIDE DEF e
<1>6. Inode_of(e) \in InodeSet /\ catalog[e] \in EntrySet
  BY <1>2, InodesAre
<1>7. inode \in InodeSet
  BY <1>6 DEF InodeSet
<1> HIDE DEF inode
<1>8. /\ c \in EntrySet /\ c.track \in {"deleted", "unlinked"} /\ ~Dotted(Stripped_name(c.name))
      /\ e \in DOMAIN in_core => c.track = "unlinked"
  BY <1>6, <1>7, UnlinkedEntryIs, DestroyedIs
<1> HIDE DEF c
<1>9. /\ DOMAIN in_core' = DOMAIN in_core /\ in_core' \in [DOMAIN in_core' -> [inode : InodeSet]]
      /\ \A f \in DOMAIN in_core' : f # e => in_core'[f] = in_core[f]
  BY <1>2, <1>4, <1>7, CoreKept
<1>10. DOMAIN in_core' \subseteq Slots
  BY <1>2, <1>9 DEF CatalogTypes
<1> QED
  BY <1>2, <1>3, <1>4, <1>5, <1>8, <1>9, <1>10, EntryGone

LEMMA CloseIsKept == ASSUME CatalogGiven, CatalogHolds, close_file PROVE CatalogHolds'
<1>1. PICK e \in DOMAIN in_core :
         LET inode == in_core[e].inode
             gone == inode.links = 0
         IN /\ in_core' = [f \in DOMAIN in_core \ {e} |-> in_core[f]]
            /\ catalog' = IF gone THEN [catalog EXCEPT ![e] = Destroyed(@, inode)] ELSE catalog
            /\ stored_size' = IF gone /\ inode.size # 0 /\ catalog[e].kind # "T"
                              THEN [stored_size EXCEPT ![e] = 0] ELSE stored_size
  BY DEF close_file
<1> DEFINE inode == in_core[e].inode
           c == Destroyed(catalog[e], inode)
<1>2. /\ CatalogTypes /\ (\A f \in Slots : EntryRight(f)) /\ (~odd => NoTwins)
      /\ e \in Slots /\ wanted' = wanted /\ odd' = odd
  BY DEF CatalogHolds, CatalogTypes, close_file
<1>3. /\ in_core \in [DOMAIN in_core -> [inode : InodeSet]] /\ DOMAIN in_core \subseteq Slots
  BY <1>2 DEF CatalogTypes
<1>4. /\ DOMAIN in_core' = DOMAIN in_core \ {e} /\ in_core' \in [DOMAIN in_core' -> [inode : InodeSet]]
      /\ \A f \in DOMAIN in_core' : in_core'[f] = in_core[f]
      /\ DOMAIN in_core' \subseteq Slots
      /\ \A f \in Slots : f # e => (f \in DOMAIN in_core' <=> f \in DOMAIN in_core)
  BY <1>1, <1>3
<1>5. inode \in InodeSet /\ catalog[e] \in EntrySet
  BY <1>2, InodesAre
<1>6. CASE inode.links = 0
  <2>1. c \in EntrySet /\ c.track = "deleted" /\ c.name = catalog[e].name
    BY <1>5, DestroyedIs
  <2>2. catalog' = [catalog EXCEPT ![e] = c]
    BY <1>1, <1>6
  <2>3. stored_size' = stored_size \/ stored_size' = [stored_size EXCEPT ![e] = 0]
    BY <1>1
  <2>4. EntryRight(e)
    BY <1>2
  <2> HIDE DEF c, inode
  <2>5. Stripped_name(c.name) = <<>> \/ ~Dotted(Stripped_name(c.name))
    BY <2>1, <2>4 DEF EntryRight, NameOf
  <2>6. c.track \in {"deleted", "unlinked"} /\ e \notin DOMAIN in_core'
    BY <1>4, <2>1
  <2> QED
    BY <1>2, <1>4, <2>1, <2>2, <2>3, <2>5, <2>6, EntryGone
<1>7. CASE inode.links # 0
  <2>1. catalog' = catalog /\ stored_size' = stored_size
    BY <1>1, <1>7
  <2>2. CatalogTypes'
    BY <1>2, <1>4, <2>1 DEF CatalogTypes
  <2>3. ASSUME NEW f \in Slots
        PROVE  EntryRight(f)'
    <3>1. EntryRight(f)
      BY <1>2
    <3>2. f \in DOMAIN in_core' => f \in DOMAIN in_core /\ in_core'[f] = in_core[f]
      BY <1>4
    <3> QED
      BY <1>2, <2>1, <3>1, <3>2 DEF EntryRight, NameOf
  <2>4. (~odd => NoTwins)'
    BY <1>2, <2>1 DEF NoTwins, Linked, NameOf
  <2> QED
    BY <2>2, <2>3, <2>4 DEF CatalogHolds
<1> QED
  BY <1>6, <1>7

LEMMA OpenFoundKeeps == ASSUME CatalogGiven, CatalogHolds, open_found PROVE CatalogHolds'
<1>1. PICK name \in GivenNames :
         LET e == Looked_up(<< name >>)
         IN /\ e # No_slot /\ e \notin DOMAIN in_core
            /\ in_core' = Opened_inode(e, Read_inode(e))
  BY DEF open_found
<1> DEFINE e == Looked_up(<< name >>)
<1>2. /\ CatalogTypes /\ (\A f \in Slots : EntryRight(f)) /\ (~odd => NoTwins)
      /\ e \in Slots /\ catalog[e].track = "track"
  BY <1>1, FoundIsLinked DEF CatalogHolds
<1>3. catalog' = catalog /\ stored_size' = stored_size /\ wanted' = wanted /\ odd' = odd
  BY DEF open_found
<1>4. in_core' = Opened_inode(e, Read_inode(e))
  BY <1>1
<1> HIDE DEF e
<1>5. Read_inode(e) \in InodeSet
  BY <1>2, InodesAre
<1>6. /\ DOMAIN in_core' = DOMAIN in_core \cup {e} /\ in_core' \in [DOMAIN in_core' -> [inode : InodeSet]]
      /\ \A f \in DOMAIN in_core' : f # e => in_core'[f] = in_core[f]
      /\ in_core'[e].inode = Read_inode(e)
  <2> DEFINE inode == Read_inode(e)
  <2>1. inode \in InodeSet /\ in_core' = Opened_inode(e, inode)
    BY <1>4, <1>5
  <2> HIDE DEF inode
  <2>2. /\ DOMAIN in_core' = DOMAIN in_core \cup {e} /\ in_core' \in [DOMAIN in_core' -> [inode : InodeSet]]
        /\ \A f \in DOMAIN in_core' : f # e => in_core'[f] = in_core[f]
        /\ in_core'[e].inode = inode
    <3>1. CoreHas(Opened_inode(e, inode), e, inode)
      BY <1>2, <2>1, CoreOpened
    <3>2. CoreHas(in_core', e, inode)
      BY <2>1, <3>1
    <3> QED
      BY <3>2 DEF CoreHas
  <2> QED
    BY <2>2 DEF inode
<1>7. CatalogTypes'
  BY <1>2, <1>3, <1>6 DEF CatalogTypes
<1>8. ASSUME NEW f \in Slots
      PROVE  EntryRight(f)'
  <2>1. EntryRight(f)
    BY <1>2
  <2>2. CASE f # e
    <3>1. f \in DOMAIN in_core' => f \in DOMAIN in_core /\ in_core'[f] = in_core[f]
      BY <1>6, <2>2
    <3> QED
      BY <1>3, <2>1, <3>1 DEF EntryRight, NameOf
  <2>3. CASE f = e
    <3>1. /\ Read_inode(e).writable = wanted[e].writable
          /\ catalog[e].kind = "B" => Read_inode(e).size = wanted[e].size
      BY <1>2, InodeSays
    <3> QED
      BY <1>2, <1>3, <1>6, <2>1, <2>3, <3>1 DEF EntryRight, NameOf
  <2> QED
    BY <2>2, <2>3
<1>9. (~odd => NoTwins)'
  BY <1>2, <1>3 DEF NoTwins, Linked, NameOf
<1> QED
  BY <1>7, <1>8, <1>9 DEF CatalogHolds

LEMMA BlankIs == Padded(<<>>) \in NameOnDisk
<1>1. \A k \in 1..NameSize : (IF k <= Len(<<>>) THEN (<<>>)[k] ELSE BLANK) = BLANK
  BY CatalogAssumption
<1>2. Padded(<<>>) = [k \in 1..NameSize |-> BLANK]
  BY <1>1 DEF Padded
<1>3. BLANK \in Glyphs
  BY DEF Glyphs
<1> QED
  BY <1>2, <1>3 DEF NameOnDisk

LEMMA CreatKeeps == ASSUME CatalogGiven, CatalogHolds, creat PROVE CatalogHolds'
<1>1. PICK name \in GivenNames, keep \in BOOLEAN :
         LET free == {e \in Slots : catalog[e].track \in {"zero", "deleted"}}
             e == Min(free)
             long == Len(name) > NameSize
             made == [catalog[e] EXCEPT !.track = "track", !.kind = "B", !.locked = FALSE,
                                        !.name = IF long THEN @ ELSE Padded(name)]
         IN /\ Looked_up(<< name >>) = No_slot /\ free # {}
            /\ catalog' = [catalog EXCEPT ![e] = made]
            /\ stored_size' = [stored_size EXCEPT ![e] = 0]
            /\ in_core' = IF keep /\ ~long
                          THEN Opened_inode(e, [size |-> 0, writable |-> TRUE, links |-> 2,
                                                executable |-> TRUE, blocks |-> made.length])
                          ELSE in_core
            /\ wanted' = [wanted EXCEPT ![e] = [size |-> 0, writable |-> TRUE]]
            /\ odd' = (odd \/ long \/ Last(name) = BLANK)
  BY DEF creat
<1> DEFINE free == {e \in Slots : catalog[e].track \in {"zero", "deleted"}}
<1>2. PICK e \in Slots : e = Min(free) /\ catalog[e].track \in {"zero", "deleted"}
  <2>1. free \subseteq Nat
    BY SlotsAre
  <2>2. Min(free) \in free
    <3>1. free # {}
      BY <1>1
    <3> HIDE DEF free
    <3>2. \E m \in free : \A f \in free : m <= f
      BY <2>1, <3>1, LeastNat
    <3> QED
      BY <3>2 DEF Min
  <2> QED
    BY <2>2
<1> DEFINE long == Len(name) > NameSize
           made == [catalog[e] EXCEPT !.track = "track", !.kind = "B", !.locked = FALSE,
                                      !.name = IF long THEN @ ELSE Padded(name)]
           new == [size |-> 0, writable |-> TRUE, links |-> 2, executable |-> TRUE,
                   blocks |-> made.length]
           w == [size |-> 0, writable |-> TRUE]
<1>3. /\ Looked_up(<< name >>) = No_slot
      /\ catalog' = [catalog EXCEPT ![e] = made]
      /\ stored_size' = [stored_size EXCEPT ![e] = 0]
      /\ in_core' = IF keep /\ ~long THEN Opened_inode(e, new) ELSE in_core
      /\ wanted' = [wanted EXCEPT ![e] = w]
      /\ odd' = (odd \/ long \/ Last(name) = BLANK)
  BY <1>1, <1>2
<1> HIDE DEF free
<1>4. CatalogTypes /\ (\A f \in Slots : EntryRight(f)) /\ (~odd => NoTwins)
  BY DEF CatalogHolds
<1>5. catalog[e] \in EntrySet /\ EntryRight(e) /\ e \notin DOMAIN in_core
  <2>1. catalog[e] \in EntrySet /\ EntryRight(e)
    BY <1>4, <1>2, InodesAre
  <2> QED
    BY <1>2, <2>1 DEF EntryRight
<1>6. /\ name \in Seq(Glyphs) /\ NoDots(name) /\ name # <<>> /\ Len(name) \in Nat
      /\ Found_name(0, name) = No_slot
  <2>1. name \in Seq(Glyphs) /\ NoDots(name) /\ name # <<>> /\ Found_name(0, name) = No_slot
    BY <1>3, GivenAre
  <2> QED
    BY <2>1
<1>7. ~long => Padded(name) \in NameOnDisk /\ Stripped_name(Padded(name)) = Stripped_name(name)
  BY <1>6, PaddedStripped, CatalogAssumption
<1>8. /\ made \in EntrySet /\ made.track = "track" /\ made.kind = "B" /\ made.locked = FALSE
      /\ made.name = IF long THEN catalog[e].name ELSE Padded(name)
      /\ made.length \in Int
  <2> HIDE DEF long
  <2>1. long => catalog[e].name \in NameOnDisk
    BY <1>5 DEF EntrySet
  <2> QED
    BY <1>5, <1>7, <2>1 DEF EntrySet, Tracks, KindSet
<1>9. /\ new \in InodeSet /\ new.writable = TRUE /\ new.size = 0
      /\ w \in WantedSet /\ w.writable = TRUE /\ w.size = 0
  <2> HIDE DEF made
  <2> QED
    BY <1>8 DEF InodeSet, WantedSet
<1> HIDE DEF made, new, w
<1>10. /\ catalog \in [Slots -> EntrySet] /\ stored_size \in [Slots -> Nat] /\ wanted \in [Slots -> WantedSet]
       /\ in_core \in [DOMAIN in_core -> [inode : InodeSet]] /\ DOMAIN in_core \subseteq Slots
  BY <1>4 DEF CatalogTypes
<1>11. /\ catalog' \in [Slots -> EntrySet] /\ Keeps(catalog, catalog', e) /\ catalog'[e] = made
       /\ stored_size' \in [Slots -> Nat] /\ Keeps(stored_size, stored_size', e) /\ stored_size'[e] = 0
       /\ wanted' \in [Slots -> WantedSet] /\ Keeps(wanted, wanted', e) /\ wanted'[e] = w
  <2>1. 0 \in Nat
    OBVIOUS
  <2> QED
    BY <1>3, <1>2, <1>8, <1>9, <1>10, <2>1 DEF Keeps
<1>12. /\ DOMAIN in_core' \subseteq Slots /\ in_core' \in [DOMAIN in_core' -> [inode : InodeSet]]
       /\ \A f \in Slots : f # e => (f \in DOMAIN in_core' <=> f \in DOMAIN in_core)
       /\ \A f \in DOMAIN in_core' : f # e => in_core'[f] = in_core[f]
       /\ e \in DOMAIN in_core' => in_core'[e].inode = new
  <2>1. CASE keep /\ ~long
    <3>1. in_core' = Opened_inode(e, new)
      BY <1>3, <2>1
    <3>2. /\ DOMAIN in_core' = DOMAIN in_core \cup {e} /\ in_core' \in [DOMAIN in_core' -> [inode : InodeSet]]
          /\ \A f \in DOMAIN in_core' : f # e => in_core'[f] = in_core[f]
          /\ in_core'[e].inode = new
      <4>1. CoreHas(Opened_inode(e, new), e, new)
        BY <1>4, <1>2, <1>9, CoreOpened
      <4>2. CoreHas(in_core', e, new)
        BY <3>1, <4>1
      <4> QED
        BY <4>2 DEF CoreHas
    <3> QED
      BY <1>2, <1>10, <3>2
  <2>2. CASE ~(keep /\ ~long)
    BY <1>3, <1>5, <1>10, <2>2
  <2> QED
    BY <2>1, <2>2
<1>13. NameOf(e)' = IF long THEN NameOf(e) ELSE Stripped_name(name)
  <2>1. NameOf(e)' = Stripped_name(made.name)
    BY <1>11 DEF NameOf
  <2>2. CASE long
    <3>1. made.name = catalog[e].name
      BY <1>8, <2>2
    <3> QED
      BY <2>1, <2>2, <3>1 DEF NameOf
  <2>3. CASE ~long
    <3>1. made.name = Padded(name) /\ Stripped_name(Padded(name)) = Stripped_name(name)
      BY <1>7, <1>8, <2>3
    <3> QED
      BY <2>1, <2>3, <3>1
  <2> QED
    BY <2>2, <2>3
<1>14. EntryRight(e)'
  <2>1. NameOf(e)' = <<>> \/ ~Dotted(NameOf(e)')
    BY <1>5, <1>6, <1>13 DEF EntryRight, NoDots
  <2>2. /\ catalog'[e].track = "track" /\ ~catalog'[e].locked /\ stored_size'[e] = 0
        /\ wanted'[e].writable = TRUE /\ wanted'[e].size = 0
    BY <1>8, <1>9, <1>11
  <2>3. e \in DOMAIN in_core' => in_core'[e].inode.writable = TRUE /\ in_core'[e].inode.size = 0
    BY <1>9, <1>12
  <2>4. catalog'[e].locked = FALSE
    BY <1>8, <1>11
  <2> QED
    BY <2>1, <2>2, <2>3, <2>4 DEF EntryRight
<1>15. CatalogTypes' /\ \A f \in Slots : EntryRight(f)'
  <2>1. /\ catalog' \in [Slots -> EntrySet] /\ Keeps(catalog, catalog', e)
        /\ stored_size' \in [Slots -> Nat] /\ Keeps(stored_size, stored_size', e)
        /\ wanted' \in [Slots -> WantedSet] /\ Keeps(wanted, wanted', e)
    BY <1>11
  <2>2. /\ DOMAIN in_core' \subseteq Slots /\ in_core' \in [DOMAIN in_core' -> [inode : InodeSet]]
        /\ \A f \in Slots : f # e => (f \in DOMAIN in_core' <=> f \in DOMAIN in_core)
        /\ \A f \in DOMAIN in_core' : f # e => in_core'[f] = in_core[f]
    BY <1>12
  <2>3. CatalogTypes /\ (\A f \in Slots : EntryRight(f)) /\ e \in Slots
    BY <1>4, <1>2
  <2> QED
    BY <1>14, <2>1, <2>2, <2>3, OneChanges
<1>16. (~odd => NoTwins)'
  <2> SUFFICES ASSUME ~odd'
               PROVE  NoTwins'
    OBVIOUS
  <2>1. ~odd /\ ~long /\ Last(name) # BLANK
    BY <1>3
  <2>2. NameOf(e)' = name
    <3>1. name[Len(name)] # BLANK
      BY <2>1 DEF Last
    <3>2. Stripped_name(name) = name
      BY <1>6, <3>1, NoBlanks
    <3> QED
      BY <1>13, <2>1, <3>2
  <2>3. \A f \in Linked : NameOf(f) # name
    <3> SUFFICES ASSUME NEW f \in Linked, NameOf(f) = name
                 PROVE  FALSE
      OBVIOUS
    <3>1. IsPrefix(name, name)
      BY <1>6 DEF IsPrefix
    <3>2. f \in {g \in Linked : IsPrefix(name, NameOf(g))}
      BY <3>1
    <3>3. Found_name(0, name) \in Slots
      BY <1>4, <3>2, FoundIs DEF Linked
    <3> QED
      BY <1>6, <3>3, SlotsAre
  <2>4. \A f \in Linked' : f # e => f \in Linked /\ NameOf(f)' = NameOf(f)
    <3>1. \A f \in Slots : f # e => catalog'[f] = catalog[f]
      BY <1>11 DEF Keeps
    <3> QED
      BY <3>1 DEF Linked, NameOf
  <2> SUFFICES ASSUME NEW f \in Linked', NEW g \in Linked', NameOf(f)' = NameOf(g)'
               PROVE  f = g
    BY DEF NoTwins
  <2>5. NoTwins
    BY <1>4, <2>1
  <2>6. ASSUME NEW h \in Linked', h # e
        PROVE  h \in Linked /\ NameOf(h)' = NameOf(h) /\ NameOf(h)' # name
    BY <2>3, <2>4, <2>6
  <2>7. CASE f = e /\ g # e
    BY <2>2, <2>6, <2>7
  <2>8. CASE g = e /\ f # e
    BY <2>2, <2>6, <2>8
  <2>9. CASE f # e /\ g # e
    BY <2>5, <2>6, <2>9 DEF NoTwins
  <2> QED
    BY <2>7, <2>8, <2>9
<1> QED
  BY <1>15, <1>16 DEF CatalogHolds

LEMMA OthersKeepCatalog ==
    ASSUME CatalogHolds, UNCHANGED << catalog, stored_size, in_core, wanted, odd >>
    PROVE  CatalogHolds'
<1>1. CatalogTypes' /\ \A e \in Slots : EntryRight(e)'
  <2>1. CatalogTypes'
    BY DEF CatalogHolds, CatalogTypes
  <2>2. ASSUME NEW e \in Slots
        PROVE  EntryRight(e)'
    <3>1. EntryRight(e)
      BY DEF CatalogHolds
    <3> QED
      BY <3>1 DEF EntryRight, NameOf
  <2> QED
    BY <2>1, <2>2
<1>2. (~odd => NoTwins)'
  <2>1. ~odd => NoTwins
    BY DEF CatalogHolds
  <2> QED
    BY <2>1 DEF NoTwins, Linked, NameOf
<1> QED
  BY <1>1, <1>2 DEF CatalogHolds

LEMMA CatalogBegins == ASSUME CatalogGiven, CatalogInit PROVE CatalogHolds
<1>1. PICK begun_with \in FirstCatalogs :
         /\ catalog = [e \in Slots |->
               IF e \notin DOMAIN begun_with THEN Blank_entry
               ELSE [track |-> "track", name |-> Padded(begun_with[e].name), kind |-> begun_with[e].kind,
                     locked |-> begun_with[e].locked, length |-> 2]]
         /\ stored_size = [e \in Slots |-> IF e \in DOMAIN begun_with THEN begun_with[e].size ELSE 0]
         /\ wanted = [e \in Slots |->
               IF e \in DOMAIN begun_with
               THEN [size |-> begun_with[e].size, writable |-> ~begun_with[e].locked]
               ELSE [size |-> 0, writable |-> TRUE]]
  BY DEF CatalogInit
<1>2. in_core = [e \in {} |-> <<>>] /\ odd = FALSE
  BY DEF CatalogInit
<1>3. DOMAIN in_core = {} /\ in_core \in [DOMAIN in_core -> [inode : InodeSet]]
  BY <1>2
<1>4. DiskWell(begun_with)
  BY DEF CatalogGiven
<1>5. ASSUME NEW e \in Slots, e \in DOMAIN begun_with
      PROVE  /\ catalog[e] \in EntrySet /\ catalog[e].track = "track"
             /\ NameOf(e) = Stripped_name(begun_with[e].name)
             /\ stored_size[e] \in Nat /\ wanted[e] \in WantedSet
             /\ EntryRight(e)
  <2>1. /\ begun_with[e] \in [name : Seq(STRING), kind : STRING, locked : BOOLEAN, size : Nat]
        /\ Len(begun_with[e].name) <= NameSize /\ NoDots(begun_with[e].name)
    BY <1>4, <1>5 DEF DiskWell
  <2> DEFINE n == begun_with[e].name
             c == [track |-> "track", name |-> Padded(n), kind |-> begun_with[e].kind,
                   locked |-> begun_with[e].locked, length |-> 2]
             w == [size |-> begun_with[e].size, writable |-> ~begun_with[e].locked]
  <2>2. catalog[e] = c /\ stored_size[e] = begun_with[e].size /\ wanted[e] = w
    BY <1>1, <1>5
  <2>3. n \in Seq(STRING) /\ begun_with[e].kind \in STRING /\ begun_with[e].locked \in BOOLEAN /\ begun_with[e].size \in Nat
    BY <2>1
  <2> HIDE DEF n
  <2>4. n \in Seq(Glyphs) /\ Len(n) <= NameSize /\ NoDots(n)
    <3>1. n \in [1..Len(n) -> Glyphs] /\ Len(n) \in Nat
      BY <2>3 DEF Glyphs
    <3>2. n \in Seq(Glyphs)
      BY <3>1, SequenceOf
    <3> QED
      BY <2>1, <3>2 DEF n
  <2>5. Padded(n) \in NameOnDisk /\ Stripped_name(Padded(n)) = Stripped_name(n)
    BY <2>4, PaddedStripped
  <2>6. c \in EntrySet /\ c.track = "track" /\ c.name = Padded(n) /\ c.locked = begun_with[e].locked
    BY <2>3, <2>5 DEF EntrySet, Tracks, KindSet
  <2>7. w \in WantedSet /\ w.size = begun_with[e].size /\ w.writable = ~begun_with[e].locked
    BY <2>3 DEF WantedSet
  <2> HIDE DEF c, w
  <2>8. NameOf(e) = Stripped_name(n)
    BY <2>2, <2>5, <2>6 DEF NameOf
  <2>9. EntryRight(e)
    <3>1. NameOf(e) = <<>> \/ ~Dotted(NameOf(e))
      BY <2>4, <2>8 DEF NoDots
    <3>2. catalog[e].locked = ~wanted[e].writable /\ stored_size[e] = wanted[e].size
      BY <2>2, <2>3, <2>6, <2>7
    <3> QED
      BY <1>3, <3>1, <3>2 DEF EntryRight
  <2> QED
    BY <2>2, <2>3, <2>6, <2>7, <2>8, <2>9 DEF n
<1>6. ASSUME NEW e \in Slots, e \notin DOMAIN begun_with
      PROVE  /\ catalog[e] \in EntrySet /\ catalog[e].track = "zero"
             /\ stored_size[e] \in Nat /\ wanted[e] \in WantedSet
             /\ EntryRight(e)
  <2>1. catalog[e] = Blank_entry /\ stored_size[e] = 0 /\ wanted[e] = [size |-> 0, writable |-> TRUE]
    BY <1>1, <1>6
  <2> DEFINE n == Padded(<<>>)
  <2>2. n \in NameOnDisk
    BY BlankIs
  <2>3. Blank_entry = [track |-> "zero", name |-> n, kind |-> "T", locked |-> FALSE, length |-> 0]
    BY DEF Blank_entry
  <2> HIDE DEF n
  <2>4. Blank_entry \in EntrySet /\ Blank_entry.track = "zero" /\ Blank_entry.name = n
    BY <2>2, <2>3 DEF EntrySet, Tracks, KindSet
  <2>5. Stripped_name(n) = <<>>
    <3>1. \A k \in 1..NameSize : (IF k <= Len(<<>>) THEN (<<>>)[k] ELSE BLANK) = BLANK
      BY CatalogAssumption
    <3>2. n = [k \in 1..NameSize |-> BLANK] /\ n \in Seq(Glyphs) /\ Len(n) = NameSize
      BY <2>2, <3>1, NameIs DEF Padded, n
    <3>3. EndsAt(n, 0) /\ 0 \in 0..Len(n)
      BY <3>2, CatalogAssumption DEF EndsAt, BlankBehind
    <3>4. Stripped_name(n) = SubSeq(n, 1, 0)
      BY <3>2, <3>3, OneEnd
    <3> QED
      BY <3>2, <3>4
  <2>6. NameOf(e) = <<>>
    BY <2>1, <2>4, <2>5 DEF NameOf
  <2>7. EntryRight(e)
    BY <1>3, <2>1, <2>4, <2>6 DEF EntryRight
  <2>8. wanted[e] \in WantedSet
    BY <2>1 DEF WantedSet
  <2> QED
    BY <2>1, <2>4, <2>7, <2>8
<1>7. \A e \in Slots : catalog[e] \in EntrySet /\ stored_size[e] \in Nat /\ wanted[e] \in WantedSet /\ EntryRight(e)
  BY <1>5, <1>6
<1>8. CatalogTypes
  <2>1. DOMAIN catalog = Slots /\ DOMAIN stored_size = Slots /\ DOMAIN wanted = Slots
    BY <1>1
  <2>2. /\ catalog = [e \in Slots |-> catalog[e]] /\ stored_size = [e \in Slots |-> stored_size[e]]
        /\ wanted = [e \in Slots |-> wanted[e]]
    BY <1>1
  <2>3. catalog \in [Slots -> EntrySet] /\ stored_size \in [Slots -> Nat] /\ wanted \in [Slots -> WantedSet]
    BY <1>7, <2>2
  <2> QED
    BY <1>3, <2>3 DEF CatalogTypes
<1>9. NoTwins
  <2> SUFFICES ASSUME NEW e \in Linked, NEW f \in Linked, NameOf(e) = NameOf(f), e # f
               PROVE  FALSE
    BY DEF NoTwins
  <2>1. e \in Slots /\ f \in Slots /\ e \in DOMAIN begun_with /\ f \in DOMAIN begun_with
    BY <1>6 DEF Linked
  <2>2. NameOf(e) = Stripped_name(begun_with[e].name) /\ NameOf(f) = Stripped_name(begun_with[f].name)
    BY <1>5, <2>1
  <2> QED
    BY <1>4, <2>1, <2>2 DEF DiskWell
<1> QED
  BY <1>7, <1>8, <1>9 DEF CatalogHolds

LEMMA NamesAreRight == ASSUME CatalogGiven, CatalogHolds PROVE NamesRight
<1>1. CatalogTypes /\ (\A e \in Slots : EntryRight(e)) /\ (~odd => NoTwins)
  BY DEF CatalogHolds
<1>2. \A name \in GivenNames :
         Looked_up(<< name >>) # No_slot =>
            Looked_up(<< name >>) \in Linked /\ IsPrefix(name, NameOf(Looked_up(<< name >>)))
  BY <1>1, FoundIsLinked DEF Linked
<1>3. ASSUME NEW e \in Linked, NameOf(e) # <<>>,
             \A f \in Linked : f < e => ~IsPrefix(NameOf(e), NameOf(f))
      PROVE  Looked_up(<< NameOf(e) >>) = e
  <2>1. e \in Slots /\ ~Dotted(NameOf(e)) /\ catalog[e].name \in NameOnDisk
    BY <1>1, <1>3, InodesAre DEF Linked, EntryRight, EntrySet
  <2>2. NameOf(e) \in Seq(Glyphs)
    BY <2>1, NameIs DEF NameOf
  <2> DEFINE C == {f \in Linked : IsPrefix(NameOf(e), NameOf(f))}
  <2>3. e \in C
    BY <2>2 DEF IsPrefix
  <2>4. Looked_up(<< NameOf(e) >>) = Found_name(0, NameOf(e))
    BY <2>1, LookedOne
  <2> DEFINE x == Found_name(0, NameOf(e))
  <2>5. x \in C /\ x <= e
    BY <1>1, <2>3, FoundIs
  <2> HIDE DEF x
  <2>6. x \in Linked /\ IsPrefix(NameOf(e), NameOf(x)) /\ x \in Nat /\ e \in Nat
    BY <2>1, <2>5, SlotsAre DEF Linked
  <2> QED
    BY <1>3, <2>4, <2>5, <2>6 DEF x
<1>4. \A name \in GivenNames, dots \in {<<>>, << "." >>, << ".", "." >>} :
         Looked_up(<< dots, name >>) = Looked_up(<< name >>)
  <2>1. \A dots \in {<<>>, << "." >>, << ".", "." >>} : Dotted(dots)
    <3> DEFINE c == "."
    <3> HIDE DEF c
    <3>1. IsPrefix(<<>>, << c, c >>) /\ IsPrefix(<< c >>, << c, c >>) /\ IsPrefix(<< c, c >>, << c, c >>)
      <4>1. Len(<<>>) = 0 /\ Len(<< c >>) = 1 /\ Len(<< c, c >>) = 2
        OBVIOUS
      <4>2. SubSeq(<<>>, 1, 0) = <<>> /\ SubSeq(<< c, c >>, 1, 0) = <<>>
        OBVIOUS
      <4>3. SubSeq(<< c >>, 1, 1) = SubSeq(<< c, c >>, 1, 1)
        <5> DEFINE u == << c >>
                   v == << c, c >>
                   Q == {c}
        <5>1. u \in Seq(Q) /\ v \in Seq(Q) /\ Len(u) = 1 /\ Len(v) = 2 /\ u[1] = c /\ v[1] = c
          OBVIOUS
        <5> HIDE DEF u, v, Q
        <5>2. /\ SubSeq(u, 1, 1) \in Seq(Q) /\ Len(SubSeq(u, 1, 1)) = 1 /\ SubSeq(u, 1, 1)[1] = c
              /\ SubSeq(v, 1, 1) \in Seq(Q) /\ Len(SubSeq(v, 1, 1)) = 1 /\ SubSeq(v, 1, 1)[1] = c
          BY <5>1, SubSeqFacts
        <5> DEFINE a == SubSeq(u, 1, 1)
                   b == SubSeq(v, 1, 1)
        <5> HIDE DEF a, b
        <5>3. a \in Seq(Q) /\ b \in Seq(Q) /\ Len(a) = Len(b) /\ \A k \in 1..Len(a) : a[k] = b[k]
          BY <5>2 DEF a, b
        <5>4. a = b
          BY <5>3
        <5> QED
          BY <5>4 DEF a, b, u, v
      <4> QED
        BY <4>1, <4>2, <4>3 DEF IsPrefix
    <3> QED
      BY <3>1 DEF Dotted, c
  <2> QED
    BY <2>1, LookedTwo
<1> QED
  BY <1>1, <1>2, <1>3, <1>4 DEF NamesRight, NoTwins

LEMMA InodesAreRight == ASSUME CatalogHolds PROVE InodesRight
BY InodeSays DEF InodesRight, CatalogHolds, Linked

-----------------------------------------------------------------------------
(* The listing                                                             *)

LEMMA DirentIs ==
    ASSUME NEW l \in Nat
    PROVE  /\ DirentSize(l) \in Nat /\ DirentSize(2) <= DirentSize(l)
           /\ \A m \in Nat : l <= m => DirentSize(l) <= DirentSize(m)
<1>1. ASSUME NEW m \in Nat, NEW k \in Nat, k <= m
      PROVE  (12 + k + 1 + 3) \div 4 <= (12 + m + 1 + 3) \div 4
  BY <1>1
<1>2. (12 + l + 1 + 3) \div 4 \in Nat /\ (12 + l + 1 + 3) \div 4 >= 4 /\ (12 + 2 + 1 + 3) \div 4 = 4
  OBVIOUS
<1>3. \A m \in Nat : (12 + m + 1 + 3) \div 4 \in Nat
  OBVIOUS
<1>4. DirentSize(l) \in Nat /\ DirentSize(2) <= DirentSize(l)
  BY <1>2 DEF DirentSize
<1>5. ASSUME NEW m \in Nat, l <= m
      PROVE  DirentSize(l) <= DirentSize(m)
  <2> DEFINE a == (12 + l + 1 + 3) \div 4
             b == (12 + m + 1 + 3) \div 4
  <2>1. a \in Nat /\ b \in Nat /\ a <= b
    BY <1>1, <1>3, <1>5
  <2>2. DirentSize(l) = 4 * a /\ DirentSize(m) = 4 * b
    BY DEF DirentSize
  <2> HIDE DEF a, b
  <2> QED
    BY <2>1, <2>2
<1> QED
  BY <1>4, <1>5

\* Numbers below n, in a sequence.
Counting(n) == [k \in 1..n |-> k]

LEMMA CountingIs == ASSUME NEW n \in Nat PROVE Counting(n) \in Seq(Nat) /\ Len(Counting(n)) = n
<1>1. Counting(n) \in [1..n -> Nat]
  BY DEF Counting
<1> QED
  BY <1>1, SequenceOf

Last_slot == CatalogSectors * PerSector
Taken(e) == IF e \in Linked THEN DirentSize(Len(NameOf(e))) ELSE 0

LEMMA SlotParts ==
    /\ Last_slot \in Nat /\ Slots = 1..Last_slot
    /\ CatalogSectors \in Nat \ {0} /\ PerSector \in Nat \ {0} /\ NameSize \in Nat
BY CatalogAssumption DEF Last_slot, Slots

LEMMA TakenIs ==
    ASSUME CatalogTypes, NEW e
    PROVE  Taken(e) \in Nat /\ Taken(e) <= DirentSize(NameSize)
<1>1. DirentSize(NameSize) \in Nat
  BY SlotParts, DirentIs
<1>2. CASE e \in Linked
  <2>1. catalog[e].name \in NameOnDisk
    BY <1>2, InodesAre DEF Linked, EntrySet
  <2>2. NameOf(e) \in Seq(Glyphs) /\ Len(NameOf(e)) <= NameSize
    BY <2>1, NameIs DEF NameOf
  <2>3. Len(NameOf(e)) \in Nat
    BY <2>2
  <2> HIDE DEF NameOf
  <2>4. Taken(e) = DirentSize(Len(NameOf(e)))
    BY <1>2 DEF Taken
  <2> QED
    BY <2>2, <2>3, <2>4, SlotParts, DirentIs
<1>3. CASE e \notin Linked
  BY <1>1, <1>3 DEF Taken
<1> QED
  BY <1>2, <1>3

LEMMA RoomIs ==
    ASSUME CatalogTypes
    PROVE  /\ RoomTo[0] = DirentSize(1) + DirentSize(2)
           /\ \A e \in 1..Last_slot : RoomTo[e] = RoomTo[e - 1] + Taken(e)
           /\ \A e \in 0..Last_slot : RoomTo[e] \in Nat
<1> DEFINE made_up == DirentSize(1) + DirentSize(2)
           B(v, e) == IF e = 0 THEN made_up ELSE v[e - 1] + Taken(e)
           F == [x \in Nat |-> [e \in Nat |-> x + Taken(e)]]
           c == Counting(Last_slot)
<1>1. made_up \in Nat
  BY DirentIs
<1>2. c \in Seq(Nat) /\ Len(c) = Last_slot /\ \A k \in 1..Last_slot : c[k] = k /\ k \in Nat
  <2>1. c \in Seq(Nat) /\ Len(c) = Last_slot
    BY SlotParts, CountingIs
  <2>2. \A k \in 1..Last_slot : c[k] = k /\ k \in Nat
    BY DEF Counting
  <2> QED
    BY <2>1, <2>2
<1>3. \A x \in Nat, e \in Nat : x + Taken(e) \in Nat
  BY TakenIs
<1>4. Folder(Nat, Nat, F, made_up)
  BY <1>1, <1>3 DEF Folder
<1> HIDE DEF c, made_up
<1>5. PICK g : IsRun(Nat, F, made_up, c, g)
  BY <1>2, <1>4, RunExists
<1>6. g \in [0..Last_slot -> Nat] /\ g[0] = made_up
  BY <1>2, <1>5 DEF IsRun
<1>7. \A e \in 1..Last_slot : g[e] = g[e - 1] + Taken(e)
  <2> TAKE e \in 1..Last_slot
  <2>1. g[e] = F[g[e - 1]][e]
    BY <1>2, <1>5 DEF IsRun
  <2>2. g[e - 1] \in Nat /\ e \in Nat
    BY <1>6, SlotParts
  <2> QED
    BY <2>1, <2>2
<1> HIDE DEF F
<1>8. g = [e \in 0..Last_slot |-> B(g, e)]
  <2>1. \A e \in 0..Last_slot : g[e] = B(g, e)
    <3>1. \A e \in 0..Last_slot : e = 0 \/ e \in 1..Last_slot
      BY SlotParts
    <3>2. \A e \in 1..Last_slot : e # 0
      BY SlotParts
    <3> QED
      BY <1>6, <1>7, <3>1, <3>2
  <2> HIDE DEF B
  <2> QED
    BY <1>6, <2>1
<1>9. RoomTo = CHOOSE h : h = [e \in 0..Last_slot |-> B(h, e)]
  BY DEF RoomTo, Taken, Last_slot, made_up
<1>10. RoomTo = [e \in 0..Last_slot |-> B(RoomTo, e)]
  <2> HIDE DEF B
  <2> QED
    BY <1>8, <1>9
<1>11. \A e \in 0..Last_slot : RoomTo[e] = B(RoomTo, e)
  <2> HIDE DEF B
  <2> QED
    BY <1>10
<1>12. RoomTo[0] = made_up /\ \A e \in 1..Last_slot : RoomTo[e] = RoomTo[e - 1] + Taken(e)
  <2>1. 0 \in 0..Last_slot /\ \A e \in 1..Last_slot : e \in 0..Last_slot /\ e # 0
    BY SlotParts
  <2> QED
    BY <1>11, <2>1
<1>13. \A e \in 0..Last_slot : RoomTo[e] \in Nat
  <2> DEFINE S == {k \in Nat : k <= Last_slot => RoomTo[k] \in Nat}
  <2>1. 0 \in S
    BY <1>1, <1>12
  <2>2. ASSUME NEW k \in Nat, k \in S
        PROVE  k + 1 \in S
    <3> SUFFICES ASSUME k + 1 <= Last_slot
                 PROVE  RoomTo[k + 1] \in Nat
      OBVIOUS
    <3>1. k + 1 \in 1..Last_slot /\ (k + 1) - 1 = k /\ k <= Last_slot
      BY SlotParts
    <3>2. RoomTo[k + 1] = RoomTo[k] + Taken(k + 1)
      BY <1>12, <3>1
    <3> QED
      BY <2>2, <3>1, <3>2, TakenIs
  <2> HIDE DEF S
  <2>3. Nat \subseteq S
    BY <2>1, <2>2, Induction
  <2> QED
    BY <2>3, SlotParts DEF S
<1> QED
  BY <1>12, <1>13 DEF made_up

LEMMA RoomGrows ==
    ASSUME CatalogTypes, NEW e \in 0..Last_slot
    PROVE  RoomTo[e] <= RoomTo[Last_slot]
<1> DEFINE S == {k \in Nat : e + k <= Last_slot => RoomTo[e] <= RoomTo[e + k]}
<1>0. Last_slot \in Nat /\ e \in Nat /\ e + 0 = e /\ RoomTo[e] \in Nat
  BY SlotParts, RoomIs
<1>1. 0 \in S
  BY <1>0
<1>2. ASSUME NEW k \in Nat, k \in S
      PROVE  k + 1 \in S
  <2> SUFFICES ASSUME e + (k + 1) <= Last_slot
               PROVE  RoomTo[e] <= RoomTo[e + (k + 1)]
    OBVIOUS
  <2>1. /\ e + (k + 1) \in 1..Last_slot /\ (e + (k + 1)) - 1 = e + k
        /\ e + k \in 0..Last_slot /\ e + k <= Last_slot
    BY <1>0
  <2>2. RoomTo[e + (k + 1)] = RoomTo[e + k] + Taken(e + (k + 1))
    BY <2>1, RoomIs
  <2>3. RoomTo[e + k] \in Nat /\ RoomTo[e] <= RoomTo[e + k]
    BY <1>2, <2>1, RoomIs
  <2>4. Taken(e + (k + 1)) \in Nat
    BY TakenIs
  <2> QED
    BY <1>0, <2>2, <2>3, <2>4
<1> HIDE DEF S
<1>3. Nat \subseteq S
  BY <1>1, <1>2, Induction
<1>4. Last_slot - e \in Nat /\ e + (Last_slot - e) = Last_slot
  BY <1>0
<1>5. Last_slot - e \in S
  BY <1>3, <1>4
<1> QED
  BY <1>4, <1>5 DEF S

\* Repeating a step for ever.
LEMMA StepsExist ==
    ASSUME NEW X, NEW F \in [X -> X], NEW x0 \in X
    PROVE  \E g : g[0] = x0 /\ g = [n \in Nat |-> IF n = 0 THEN x0 ELSE F[g[n - 1]]]
<1> DEFINE G == [x \in X |-> [k \in Nat |-> F[x]]]
           h(n) == Folded(X, G, x0, Counting(n))
           g == [n \in Nat |-> h(n)]
<1>1. Folder(Nat, X, G, x0)
  BY DEF Folder
<1>2. \A n \in Nat : h(n) \in X
  <2> HIDE DEF G
  <2> QED
    BY <1>1, CountingIs, FoldedType
<1>3. h(0) = x0
  <2>1. Counting(0) = <<>>
    <3>1. Counting(0) \in Seq(Nat) /\ Len(Counting(0)) = 0
      BY CountingIs
    <3> QED
      BY <3>1
  <2> HIDE DEF G
  <2> QED
    BY <1>1, <2>1, FoldedBegins
<1>4. ASSUME NEW n \in Nat
      PROVE  h(n + 1) = F[h(n)]
  <2> DEFINE c == Counting(n)
             d == Counting(n + 1)
  <2>1. c \in Seq(Nat) /\ Len(c) = n /\ d \in Seq(Nat) /\ Len(d) = n + 1
    BY CountingIs
  <2>2. (\A k \in 1..n : c[k] = k) /\ \A k \in 1..(n + 1) : d[k] = k
    BY DEF Counting
  <2>3. d = Append(c, n + 1)
    <3> HIDE DEF c, d
    <3> DEFINE a == Append(c, n + 1)
    <3>1. /\ a \in Seq(Nat) /\ Len(a) = n + 1 /\ a[n + 1] = n + 1
          /\ \A k \in 1..n : a[k] = c[k]
      BY <2>1, AppendFacts
    <3> HIDE DEF a
    <3>2. \A k \in 1..(n + 1) : k \in 1..n \/ k = n + 1
      OBVIOUS
    <3>3. \A k \in 1..(n + 1) : a[k] = d[k]
      BY <2>2, <3>1, <3>2
    <3>4. a = d
      BY <2>1, <3>1, <3>3
    <3> QED
      BY <3>4 DEF a
  <2>4. Folded(X, G, x0, Append(c, n + 1)) = G[Folded(X, G, x0, c)][n + 1]
    <3> HIDE DEF c, G
    <3> QED
      BY <1>1, <2>1, FoldedAppend
  <2>5. G[h(n)][n + 1] = F[h(n)]
    <3>1. h(n) \in X /\ n + 1 \in Nat
      BY <1>2
    <3> HIDE DEF h
    <3> QED
      BY <3>1
  <2> QED
    BY <2>3, <2>4, <2>5
<1> HIDE DEF h
<1>5. g[0] = x0 /\ \A n \in Nat : g[n] = IF n = 0 THEN x0 ELSE F[g[n - 1]]
  <2>1. g[0] = x0
    BY <1>3
  <2>2. ASSUME NEW n \in Nat, n # 0
        PROVE  g[n] = F[g[n - 1]]
    <3>1. n - 1 \in Nat /\ (n - 1) + 1 = n
      BY <2>2
    <3> QED
      BY <1>4, <3>1
  <2> QED
    BY <2>1, <2>2
<1>6. g = [n \in Nat |-> g[n]]
  OBVIOUS
<1> HIDE DEF g
<1>7. g = [n \in Nat |-> IF n = 0 THEN x0 ELSE F[g[n - 1]]]
  BY <1>5, <1>6
<1> QED
  BY <1>5, <1>7

-----------------------------------------------------------------------------
(* A turn of the loop of getdents()                                        *)

ShownSet == [name : Seq(Glyphs), number : Nat]
AccSet == [total : Nat, length : Nat, at : Int, entries : Seq(ShownSet)]
TurnSet == [s : 0..(CatalogSectors - 1), first : {0}, i : 0..PerSector, acc : AccSet, done : BOOLEAN]

\* The entries up to number l are shown, and no others.
Shows(entries, l) ==
    /\ \A k \in 1..Len(entries) :
          /\ entries[k].number \in Linked /\ entries[k].number <= l
          /\ entries[k].name = NameOf(entries[k].number)
    /\ \A e \in Linked : e <= l => \E k \in 1..Len(entries) : entries[k].number = e
    /\ \A j, k \in 1..Len(entries) : j < k => entries[j].number < entries[k].number

\* What a turn does with the entry it looks at, number e.
Looks(size, x, e, y) ==
    LET length == DirentSize(Len(NameOf(e)))
    IN \/ /\ x.done /\ y = x
       \/ /\ ~x.done /\ x.i = PerSector /\ x.acc.length + x.acc.total > size /\ y = [x EXCEPT !.done = TRUE]
       \/ /\ ~x.done /\ x.i = PerSector /\ x.acc.length + x.acc.total <= size
          /\ x.s + 1 = CatalogSectors
          /\ y = [x EXCEPT !.done = TRUE, !.acc = [x.acc EXCEPT !.at = End_of_catalog]]
       \/ /\ ~x.done /\ x.i = PerSector /\ x.acc.length + x.acc.total <= size
          /\ x.s + 1 # CatalogSectors /\ y = [x EXCEPT !.s = x.s + 1, !.first = 0, !.i = 0]
       \/ /\ ~x.done /\ x.i # PerSector /\ e \notin Linked
          /\ y = [x EXCEPT !.i = x.i + 1, !.acc = [x.acc EXCEPT !.at = e]]
       \/ /\ ~x.done /\ x.i # PerSector /\ e \in Linked /\ length + x.acc.total > size
          /\ y = [x EXCEPT !.done = TRUE, !.acc = [x.acc EXCEPT !.at = e, !.length = length]]
       \/ /\ ~x.done /\ x.i # PerSector /\ e \in Linked /\ length + x.acc.total <= size
          /\ y = [x EXCEPT !.i = x.i + 1,
                !.acc = [x.acc EXCEPT !.at = e, !.length = length, !.total = x.acc.total + length,
                            !.entries = Append(x.acc.entries, [name |-> NameOf(e), number |-> e])]]

LEMMA PlaceIs ==
    ASSUME NEW s \in 0..(CatalogSectors - 1), NEW i \in 0..PerSector
    PROVE  /\ s * PerSector \in Nat /\ s * PerSector + i \in 0..Last_slot
           /\ FirstOf(s) + i = s * PerSector + i + 1
           /\ (s + 1) * PerSector + 0 = s * PerSector + PerSector
           /\ i # PerSector => s * PerSector + i + 1 \in Slots
           /\ s + 1 = CatalogSectors => s * PerSector + PerSector = Last_slot
<1> DEFINE p == s * PerSector
           l == CatalogSectors * PerSector
<1>1. s \in Nat /\ CatalogSectors \in Nat /\ PerSector \in Nat \ {0} /\ s < CatalogSectors
  BY SlotParts
<1>2. p \in Nat /\ (s + 1) * PerSector = p + PerSector /\ p + PerSector <= l /\ l \in Nat
  BY <1>1, Sector_mono
<1>3. s + 1 = CatalogSectors => p + PerSector = l
  BY <1>2
<1>4. l = Last_slot /\ Slots = 1..l /\ FirstOf(s) = p + 1
  BY SlotParts DEF Last_slot, FirstOf
<1> HIDE DEF p, l
<1>5. p + i \in 0..l /\ (p + 1) + i = p + i + 1 /\ (p + PerSector) + 0 = p + PerSector
  BY <1>1, <1>2
<1>6. i # PerSector => p + i + 1 \in 1..l
  BY <1>1, <1>2
<1> QED
  BY <1>2, <1>3, <1>4, <1>5, <1>6 DEF p

LEMMA TurnLooks ==
    ASSUME CatalogTypes, NEW size \in Nat, NEW x \in TurnSet
    PROVE  LET e == FirstOf(x.s) + x.i
           IN /\ x.i # PerSector => e \in Slots
              /\ Looks(size, x, e, Next_entry(size, x))
<1> DEFINE e == FirstOf(x.s) + x.i
           length == DirentSize(Len(NameOf(e)))
           y == Next_entry(size, x)
<1>1. /\ x.s \in 0..(CatalogSectors - 1) /\ x.first = 0 /\ x.i \in 0..PerSector /\ x.done \in BOOLEAN
      /\ x.acc \in AccSet
  BY DEF TurnSet
<1>2. e = x.s * PerSector + x.i + 1 /\ e \in Nat /\ (x.i # PerSector => e \in Slots)
  BY <1>1, PlaceIs
<1>3. e - x.first = e
  BY <1>1, <1>2
<1>4. e \in Slots => (~Skipped(catalog[e].track) <=> e \in Linked)
  <2>1. e \in Slots => catalog[e].track \in Tracks
    BY InodesAre DEF EntrySet
  <2> HIDE DEF e
  <2> QED
    BY <2>1 DEF Tracks, Skipped, Linked
<1>5. x.i # PerSector => length \in Nat
  <2> SUFFICES ASSUME x.i # PerSector
               PROVE  length \in Nat
    OBVIOUS
  <2>1. catalog[e].name \in NameOnDisk
    BY <1>2, InodesAre DEF EntrySet
  <2>2. NameOf(e) \in Seq(Glyphs)
    BY <2>1, NameIs DEF NameOf
  <2> QED
    BY <2>2, DirentIs
<1>6. Stripped_name(catalog[e - x.first].name) = NameOf(e) /\ Skipped(catalog[e - x.first].track) = Skipped(catalog[e].track)
  BY <1>3 DEF NameOf
<1>7. x.acc.length \in Nat /\ x.acc.total \in Nat
  BY <1>1 DEF AccSet
<1>8. y = IF x.done THEN x
          ELSE IF x.i = PerSector
          THEN IF x.acc.length + x.acc.total > size THEN [x EXCEPT !.done = TRUE]
               ELSE IF x.s + 1 = CatalogSectors
               THEN [x EXCEPT !.done = TRUE, !.acc = [x.acc EXCEPT !.at = End_of_catalog]]
               ELSE [x EXCEPT !.s = x.s + 1, !.first = 0, !.i = 0]
          ELSE IF Skipped(catalog[e].track) THEN [x EXCEPT !.i = x.i + 1, !.acc = [x.acc EXCEPT !.at = e]]
          ELSE IF length + x.acc.total > size
          THEN [x EXCEPT !.done = TRUE, !.acc = [x.acc EXCEPT !.at = e, !.length = length]]
          ELSE [x EXCEPT !.i = x.i + 1,
                !.acc = [x.acc EXCEPT !.at = e, !.length = length, !.total = x.acc.total + length,
                            !.entries = Append(x.acc.entries, [name |-> NameOf(e), number |-> e])]]
  BY <1>1, <1>6 DEF Next_entry, TurnSet, AccSet
<1> HIDE DEF e, length, y
<1>9. (x.acc.length + x.acc.total > size \/ x.acc.length + x.acc.total <= size)
  BY <1>7
<1>10. x.i # PerSector => (length + x.acc.total > size <=> ~(length + x.acc.total <= size))
  BY <1>5, <1>7
<1>11. x.acc.length + x.acc.total > size <=> ~(x.acc.length + x.acc.total <= size)
  BY <1>7
<1>12. Looks(size, x, e, y)
  <2>1. CASE x.done
    BY <1>8, <2>1 DEF Looks
  <2>2. CASE ~x.done /\ x.i = PerSector
    BY <1>8, <1>11, <2>2 DEF Looks
  <2>3. CASE ~x.done /\ x.i # PerSector
    <3>1. Skipped(catalog[e].track) <=> e \notin Linked
      BY <1>2, <1>4, <2>3 DEF e
    <3> QED
      BY <1>8, <1>10, <2>3, <3>1 DEF Looks, length
  <2> QED
    BY <2>1, <2>2, <2>3
<1> QED
  BY <1>2, <1>12 DEF e, y

\* An entry that is there, as it is shown.
LEMMA ShownIs ==
    ASSUME CatalogTypes, NEW e \in Linked
    PROVE  /\ NameOf(e) \in Seq(Glyphs) /\ e \in Nat /\ e \in Slots
           /\ [name |-> NameOf(e), number |-> e] \in ShownSet
           /\ DirentSize(Len(NameOf(e))) \in Nat /\ DirentSize(Len(NameOf(e))) <= DirentSize(NameSize)
           /\ Taken(e) = DirentSize(Len(NameOf(e)))
<1>1. e \in Slots /\ e \in Nat
  BY SlotsAre DEF Linked
<1>2. catalog[e].name \in NameOnDisk
  BY <1>1, InodesAre DEF EntrySet
<1>3. NameOf(e) \in Seq(Glyphs)
  BY <1>2, NameIs DEF NameOf
<1>4. Taken(e) = DirentSize(Len(NameOf(e)))
  BY DEF Taken
<1>5. Taken(e) \in Nat /\ Taken(e) <= DirentSize(NameSize)
  BY TakenIs
<1> HIDE DEF NameOf
<1>6. [name |-> NameOf(e), number |-> e] \in ShownSet
  BY <1>1, <1>3 DEF ShownSet
<1> QED
  BY <1>1, <1>3, <1>4, <1>5, <1>6

LEMMA TurnStays ==
    ASSUME CatalogTypes, NEW size \in Nat, NEW x \in TurnSet
    PROVE  Next_entry(size, x) \in TurnSet
<1> DEFINE e == FirstOf(x.s) + x.i
           y == Next_entry(size, x)
           length == DirentSize(Len(NameOf(e)))
<1>1. (x.i # PerSector => e \in Slots) /\ Looks(size, x, e, y)
  BY TurnLooks
<1>2. /\ x.s \in 0..(CatalogSectors - 1) /\ x.first = 0 /\ x.i \in 0..PerSector /\ x.done \in BOOLEAN
      /\ x.acc \in AccSet
  BY DEF TurnSet
<1>3. e \in Linked => length \in Nat /\ [name |-> NameOf(e), number |-> e] \in ShownSet
  BY ShownIs
<1> HIDE DEF e, y
<1>4. x.i # PerSector => e \in Int
  <2> SUFFICES ASSUME x.i # PerSector
               PROVE  e \in Int
    OBVIOUS
  <2>1. e \in Slots
    BY <1>1 DEF e
  <2>2. e \in Nat
    BY <2>1, SlotsAre
  <2> QED
    BY <2>2
<1>5. CASE x.done /\ y = x
  BY <1>5 DEF y
<1>6. CASE x.i = PerSector /\ y = [x EXCEPT !.done = TRUE]
  BY <1>6 DEF TurnSet, y
<1>7. CASE y = [x EXCEPT !.done = TRUE, !.acc = [x.acc EXCEPT !.at = End_of_catalog]]
  <2>1. [x.acc EXCEPT !.at = End_of_catalog] \in AccSet
    BY <1>2 DEF AccSet, End_of_catalog
  <2> QED
    BY <1>7, <2>1 DEF TurnSet, y
<1>8. CASE /\ x.s + 1 # CatalogSectors /\ y = [x EXCEPT !.s = x.s + 1, !.first = 0, !.i = 0]
  <2>1. x.s + 1 \in 0..(CatalogSectors - 1) /\ 0 \in 0..PerSector
    BY <1>2, <1>8, SlotParts
  <2> QED
    BY <1>2, <1>8, <2>1 DEF TurnSet, y
<1>9. CASE /\ x.i # PerSector /\ y = [x EXCEPT !.i = x.i + 1, !.acc = [x.acc EXCEPT !.at = e]]
  <2> DEFINE acc == [x.acc EXCEPT !.at = e]
  <2>1. x.i + 1 \in 0..PerSector
    BY <1>2, <1>9, SlotParts
  <2>2. acc \in AccSet
    BY <1>2, <1>4, <1>9 DEF AccSet
  <2>3. y = [x EXCEPT !.i = x.i + 1, !.acc = acc]
    BY <1>9
  <2> HIDE DEF acc
  <2> QED
    BY <1>2, <2>1, <2>2, <2>3 DEF TurnSet, y
<1>10. CASE /\ x.i # PerSector /\ e \in Linked
           /\ y = [x EXCEPT !.done = TRUE, !.acc = [x.acc EXCEPT !.at = e, !.length = length]]
  <2>1. length \in Nat
    BY <1>3, <1>10 DEF e
  <2> HIDE DEF length
  <2>2. [x.acc EXCEPT !.at = e, !.length = length] \in AccSet
    BY <1>2, <1>4, <1>10, <2>1 DEF AccSet
  <2> QED
    BY <1>2, <1>10, <2>2 DEF TurnSet, y
<1>11. CASE /\ x.i # PerSector /\ e \in Linked
           /\ y = [x EXCEPT !.i = x.i + 1,
                !.acc = [x.acc EXCEPT !.at = e, !.length = length, !.total = x.acc.total + length,
                            !.entries = Append(x.acc.entries, [name |-> NameOf(e), number |-> e])]]
  <2> DEFINE shown == [name |-> NameOf(e), number |-> e]
             acc == [x.acc EXCEPT !.at = e, !.length = length, !.total = x.acc.total + length,
                                  !.entries = Append(x.acc.entries, shown)]
  <2>1. length \in Nat /\ shown \in ShownSet
    BY <1>3, <1>11 DEF e
  <2>2. y = [x EXCEPT !.i = x.i + 1, !.acc = acc]
    BY <1>11
  <2> HIDE DEF length, shown
  <2>3. x.acc.entries \in Seq(ShownSet) /\ x.acc.total \in Nat
    BY <1>2 DEF AccSet
  <2>4. Append(x.acc.entries, shown) \in Seq(ShownSet) /\ x.acc.total + length \in Nat
    BY <2>1, <2>3, AppendFacts
  <2>5. acc \in AccSet
    BY <1>2, <1>4, <1>11, <2>1, <2>4 DEF AccSet
  <2>6. x.i + 1 \in 0..PerSector
    BY <1>2, <1>11, SlotParts
  <2> HIDE DEF acc
  <2> QED
    BY <1>2, <2>2, <2>5, <2>6 DEF TurnSet, y
<1> QED
  BY <1>1, <1>5, <1>6, <1>7, <1>8, <1>9, <1>10, <1>11 DEF Looks

\* Showing one more.
LEMMA ShowsMore ==
    ASSUME CatalogTypes, NEW entries \in Seq(ShownSet), NEW l \in Nat, Shows(entries, l)
    PROVE  /\ l + 1 \notin Linked => Shows(entries, l + 1)
           /\ l + 1 \in Linked => Shows(Append(entries, [name |-> NameOf(l + 1), number |-> l + 1]), l + 1)
<1>0. Linked \subseteq Nat /\ \A e \in Linked : e <= l + 1 => e <= l \/ e = l + 1
  <2>1. Linked \subseteq Nat
    BY SlotsAre DEF Linked
  <2> HIDE DEF Linked
  <2> QED
    BY <2>1
<1> HIDE DEF Linked, NameOf
<1>1. ASSUME l + 1 \notin Linked
      PROVE  Shows(entries, l + 1)
  <2>1. ASSUME NEW k \in 1..Len(entries)
        PROVE  /\ entries[k].number \in Linked /\ entries[k].number <= l + 1
               /\ entries[k].name = NameOf(entries[k].number)
    <3>1. /\ entries[k].number \in Linked /\ entries[k].number <= l
          /\ entries[k].name = NameOf(entries[k].number)
      BY DEF Shows
    <3> DEFINE e == entries[k].number
    <3>2. e \in Nat /\ e <= l
      BY <1>0, <3>1
    <3> HIDE DEF e
    <3>3. e <= l + 1
      BY <3>2
    <3> QED
      BY <3>1, <3>3 DEF e
  <2>2. \A e \in Linked : e <= l + 1 => \E k \in 1..Len(entries) : entries[k].number = e
    BY <1>0, <1>1 DEF Shows
  <2> QED
    BY <2>1, <2>2 DEF Shows
<1>2. ASSUME l + 1 \in Linked
      PROVE  Shows(Append(entries, [name |-> NameOf(l + 1), number |-> l + 1]), l + 1)
  <2> DEFINE shown == [name |-> NameOf(l + 1), number |-> l + 1]
             more == Append(entries, shown)
             n == Len(entries)
  <2>1. shown \in ShownSet /\ shown.name = NameOf(l + 1) /\ shown.number = l + 1
    BY <1>2, ShownIs
  <2> HIDE DEF shown
  <2>2. /\ n \in Nat /\ Len(more) = n + 1 /\ more[n + 1] = shown
        /\ \A k \in 1..n : more[k] = entries[k]
    BY <2>1, AppendFacts
  <2>3. \A k \in 1..n : /\ entries[k].number \in Linked /\ entries[k].number <= l
                         /\ entries[k].name = NameOf(entries[k].number)
    BY DEF Shows
  <2>4. (\A e \in Linked : e <= l => \E k \in 1..n : entries[k].number = e) /\ \A j, k \in 1..n : j < k => entries[j].number < entries[k].number
    BY DEF Shows
  <2> HIDE DEF more, n
  <2>5. \A k \in 1..(n + 1) : k \in 1..n \/ k = n + 1
    BY <2>2
  <2>6. \A k \in 1..n : entries[k].number \in Nat /\ entries[k].number <= l + 1 /\ entries[k].number < l + 1
    <3> TAKE k \in 1..n
    <3> DEFINE e == entries[k].number
    <3>1. e \in Nat /\ e <= l
      BY <1>0, <2>3
    <3> HIDE DEF e
    <3>2. e <= l + 1 /\ e < l + 1
      BY <3>1
    <3> QED
      BY <3>1, <3>2 DEF e
  <2>7. ASSUME NEW k \in 1..Len(more)
        PROVE  /\ more[k].number \in Linked /\ more[k].number <= l + 1
               /\ more[k].name = NameOf(more[k].number)
    <3>1. CASE k \in 1..n
      BY <2>2, <2>3, <2>6, <3>1
    <3>2. CASE k = n + 1
      <4>1. more[k] = shown /\ l + 1 <= l + 1
        BY <2>2, <3>2
      <4> QED
        BY <1>2, <2>1, <4>1
    <3> QED
      BY <2>2, <2>5, <3>1, <3>2
  <2>8. ASSUME NEW e \in Linked, e <= l + 1
        PROVE  \E k \in 1..Len(more) : more[k].number = e
    <3>1. CASE e <= l
      <4>1. PICK k \in 1..n : entries[k].number = e
        BY <2>4, <3>1
      <4>2. k \in 1..Len(more) /\ more[k].number = e
        BY <2>2, <4>1
      <4> QED
        BY <4>2
    <3>2. CASE e = l + 1
      <4>1. n + 1 \in 1..Len(more) /\ more[n + 1].number = e
        BY <2>1, <2>2, <3>2
      <4> QED
        BY <4>1
    <3> QED
      BY <1>0, <2>8, <3>1, <3>2
  <2>9. ASSUME NEW j \in 1..Len(more), NEW k \in 1..Len(more), j < k
        PROVE  more[j].number < more[k].number
    <3>1. j \in 1..n
      BY <2>2, <2>9
    <3>2. CASE k \in 1..n
      BY <2>2, <2>4, <2>9, <3>1, <3>2
    <3>3. CASE k = n + 1
      BY <2>1, <2>2, <2>6, <3>1, <3>3
    <3> QED
      BY <2>2, <2>5, <3>2, <3>3
  <2> QED
    BY <2>7, <2>8, <2>9 DEF Shows, more, shown
<1> QED
  BY <1>1, <1>2

\* After n turns: the entries looked at are shown, or all of them.
AllShown(acc) == acc.at = End_of_catalog /\ Shows(acc.entries, Last_slot)
OnTheWay(x, n) ==
    /\ n = x.s * (PerSector + 1) + x.i
    /\ x.acc.length <= DirentSize(NameSize)
    /\ x.acc.total = RoomTo[x.s * PerSector + x.i]
    /\ Shows(x.acc.entries, x.s * PerSector + x.i)
TurnRight(x, n) == x \in TurnSet /\ (x.done => AllShown(x.acc)) /\ (~x.done => OnTheWay(x, n))

LEMMA TurnGoes ==
    ASSUME CatalogTypes, NEW size \in Nat, size >= RoomTo[Last_slot] + DirentSize(NameSize),
           NEW n \in Nat, NEW x, TurnRight(x, n)
    PROVE  TurnRight(Next_entry(size, x), n + 1)
<1> DEFINE e == FirstOf(x.s) + x.i
           l == x.s * PerSector + x.i
           y == Next_entry(size, x)
           length == DirentSize(Len(NameOf(e)))
           D == DirentSize(NameSize)
<1>1. x \in TurnSet
  BY DEF TurnRight
<1>2. (x.i # PerSector => e \in Slots) /\ Looks(size, x, e, y) /\ y \in TurnSet
  BY <1>1, TurnLooks, TurnStays
<1>3. /\ x.s \in 0..(CatalogSectors - 1) /\ x.first = 0 /\ x.i \in 0..PerSector /\ x.done \in BOOLEAN
      /\ x.acc \in AccSet
  BY <1>1 DEF TurnSet
<1>4. /\ l \in 0..Last_slot /\ e = l + 1 /\ l \in Nat
      /\ x.s + 1 = CatalogSectors => x.s * PerSector + PerSector = Last_slot
      /\ (x.s + 1) * PerSector + 0 = x.s * PerSector + PerSector
      /\ x.s * PerSector \in Nat
  <2>1. Last_slot \in Nat
    BY SlotParts
  <2> QED
    BY <1>3, <2>1, PlaceIs
<1>5. x.acc.length \in Nat /\ x.acc.total \in Nat /\ x.acc.entries \in Seq(ShownSet)
  BY <1>3 DEF AccSet
<1>6. RoomTo[l] \in Nat /\ RoomTo[l] <= RoomTo[Last_slot] /\ RoomTo[Last_slot] \in Nat /\ D \in Nat
  <2>1. Last_slot \in 0..Last_slot
    BY SlotParts
  <2> QED
    BY <1>4, <2>1, RoomIs, RoomGrows, SlotParts, DirentIs
<1>7. CASE x.done
  <2>1. y = x
    BY <1>2, <1>7 DEF Looks
  <2> QED
    BY <1>1, <1>7, <2>1 DEF TurnRight
<1>8. CASE ~x.done
  <2>1. /\ n = x.s * (PerSector + 1) + x.i /\ x.acc.length <= D /\ x.acc.total = RoomTo[l]
        /\ Shows(x.acc.entries, l)
    BY <1>8 DEF TurnRight, OnTheWay
  <2> HIDE DEF e, y, D, l, length
  <2>2. CASE x.i = PerSector
    <3>1. x.acc.length + x.acc.total <= size /\ ~(x.acc.length + x.acc.total > size)
      <4> DEFINE a == x.acc.length
                 b == x.acc.total
                 c == RoomTo[Last_slot]
      <4>1. a \in Nat /\ b \in Nat /\ a <= D /\ b <= c /\ c \in Nat /\ D \in Nat /\ c + D <= size
        <5>1. b = RoomTo[l] /\ a <= D
          BY <2>1
        <5>2. c + D <= size
          BY DEF D
        <5> QED
          BY <1>5, <1>6, <5>1, <5>2
      <4> HIDE DEF a, b, c
      <4>2. a + b <= size /\ ~(a + b > size)
        BY <4>1
      <4> QED
        BY <4>2 DEF a, b
    <3>2. CASE x.s + 1 = CatalogSectors
      <4> DEFINE acc == [x.acc EXCEPT !.at = End_of_catalog]
      <4>1. y = [x EXCEPT !.done = TRUE, !.acc = acc]
        BY <1>2, <1>8, <2>2, <3>1, <3>2 DEF Looks
      <4>2. acc.at = End_of_catalog /\ acc.entries = x.acc.entries
        BY <1>3 DEF AccSet
      <4> HIDE DEF acc
      <4>3. y.done /\ y.acc = acc
        BY <1>1, <4>1 DEF TurnSet
      <4>4. l = Last_slot
        BY <1>4, <2>2, <3>2 DEF l
      <4> QED
        BY <1>2, <2>1, <4>2, <4>3, <4>4 DEF TurnRight, AllShown, y
    <3>3. CASE x.s + 1 # CatalogSectors
      <4>1. y = [x EXCEPT !.s = x.s + 1, !.first = 0, !.i = 0]
        BY <1>2, <1>8, <2>2, <3>1, <3>3 DEF Looks
      <4>2. ~y.done /\ y.s = x.s + 1 /\ y.i = 0 /\ y.acc = x.acc
        BY <1>1, <1>8, <4>1 DEF TurnSet
      <4>3. y.s * PerSector + y.i = l
        BY <1>4, <2>2, <4>2 DEF l
      <4>4. n + 1 = y.s * (PerSector + 1) + y.i
        <5>1. /\ x.s * (PerSector + 1) \in Nat /\ PerSector + 1 \in Nat \ {0}
              /\ (x.s + 1) * (PerSector + 1) = x.s * (PerSector + 1) + (PerSector + 1)
          BY <1>3, SlotParts, Sector_mono
        <5>2. n = x.s * (PerSector + 1) + PerSector
          BY <2>1, <2>2
        <5> DEFINE b == x.s * (PerSector + 1)
                   c == (x.s + 1) * (PerSector + 1)
        <5> HIDE DEF b, c
        <5>3. c = b + (PerSector + 1) /\ n = b + PerSector /\ b \in Nat /\ PerSector \in Nat
          BY <5>1, <5>2, SlotParts DEF b, c
        <5>4. n + 1 = c + 0
          BY <5>3
        <5> QED
          BY <4>2, <5>4 DEF c
      <4>5. OnTheWay(y, n + 1)
        BY <2>1, <4>2, <4>3, <4>4 DEF OnTheWay, D
      <4> QED
        BY <1>2, <4>2, <4>5 DEF TurnRight, y
    <3> QED
      BY <3>2, <3>3
  <2>3. CASE x.i # PerSector
    <3>1. e \in 1..Last_slot /\ e - 1 = l
      <4>1. e \in Slots
        BY <1>2, <2>3
      <4> QED
        BY <1>4, <4>1, SlotParts
    <3>2. RoomTo[e] = RoomTo[l] + Taken(e) /\ RoomTo[e] \in Nat /\ RoomTo[e] <= RoomTo[Last_slot]
      <4>1. e \in 0..Last_slot
        BY <3>1, SlotParts
      <4> QED
        BY <3>1, <4>1, RoomIs, RoomGrows
    <3>3. x.s * PerSector + (x.i + 1) = e /\ n + 1 = x.s * (PerSector + 1) + (x.i + 1)
      <4> DEFINE p == x.s * PerSector
                 q == x.s * (PerSector + 1)
      <4>1. q \in Nat
        BY <1>3, SlotParts, Sector_mono
      <4>2. p \in Nat /\ l = p + x.i /\ n = q + x.i /\ e = l + 1 /\ x.i \in Nat
        BY <1>3, <1>4, <2>1, SlotParts DEF l
      <4> HIDE DEF p, q
      <4>3. p + (x.i + 1) = e /\ n + 1 = q + (x.i + 1)
        BY <4>1, <4>2
      <4> QED
        BY <4>3 DEF p, q
    <3>4. CASE e \notin Linked
      <4> DEFINE acc == [x.acc EXCEPT !.at = e]
      <4>1. y = [x EXCEPT !.i = x.i + 1, !.acc = acc]
        BY <1>2, <1>8, <2>3, <3>4 DEF Looks
      <4>2. acc.entries = x.acc.entries /\ acc.length = x.acc.length /\ acc.total = x.acc.total
        BY <1>3 DEF AccSet
      <4> HIDE DEF acc
      <4>3. ~y.done /\ y.s = x.s /\ y.i = x.i + 1 /\ y.acc = acc
        BY <1>1, <1>8, <4>1 DEF TurnSet
      <4>4. Taken(e) = 0
        BY <3>4 DEF Taken
      <4>5. RoomTo[e] = RoomTo[l]
        BY <1>6, <3>2, <4>4
      <4>6. Shows(x.acc.entries, e)
        BY <1>4, <1>5, <2>1, <3>4, ShowsMore
      <4>7. OnTheWay(y, n + 1)
        BY <2>1, <3>3, <4>2, <4>3, <4>5, <4>6 DEF OnTheWay, D
      <4> QED
        BY <1>2, <4>3, <4>7 DEF TurnRight, y
    <3>5. CASE e \in Linked
      <4>1. length \in Nat /\ length <= D /\ Taken(e) = length
        BY <3>5, ShownIs DEF length, D
      <4>2. length + x.acc.total <= size /\ ~(length + x.acc.total > size)
        <5>1. RoomTo[e] = length + x.acc.total /\ RoomTo[e] <= size
          <6> DEFINE c == RoomTo[Last_slot]
                     b == RoomTo[e]
          <6>1. c + D <= size
            BY DEF D
          <6>2. c \in Nat /\ D \in Nat /\ b \in Nat /\ b <= c
            BY <1>6, <3>2
          <6>3. b = RoomTo[l] + length /\ x.acc.total = RoomTo[l]
            BY <2>1, <3>2, <4>1
          <6> HIDE DEF c, b
          <6>4. b <= size
            BY <6>1, <6>2
          <6> QED
            BY <1>5, <4>1, <6>3, <6>4 DEF b
        <5>2. RoomTo[e] \in Nat
          BY <3>2
        <5> DEFINE b == length + x.acc.total
        <5>3. b \in Nat /\ b <= size
          BY <5>1, <5>2
        <5> HIDE DEF b
        <5>4. b <= size /\ ~(b > size)
          BY <5>3
        <5> QED
          BY <5>4 DEF b
      <4> DEFINE shown == [name |-> NameOf(e), number |-> e]
                 acc == [x.acc EXCEPT !.at = e, !.length = length, !.total = x.acc.total + length,
                                      !.entries = Append(x.acc.entries, shown)]
      <4>3. y = [x EXCEPT !.i = x.i + 1, !.acc = acc]
        BY <1>2, <1>8, <2>3, <3>5, <4>2 DEF Looks, length
      <4>4. /\ acc.entries = Append(x.acc.entries, shown) /\ acc.length = length
            /\ acc.total = x.acc.total + length
        <5> HIDE DEF shown
        <5> QED
          BY <1>3 DEF AccSet
      <4>5. Shows(Append(x.acc.entries, shown), e)
        BY <1>4, <1>5, <2>1, <3>5, ShowsMore
      <4> HIDE DEF acc, shown
      <4>6. ~y.done /\ y.s = x.s /\ y.i = x.i + 1 /\ y.acc = acc
        BY <1>1, <1>8, <4>3 DEF TurnSet
      <4>7. acc.total = RoomTo[e]
        BY <1>5, <1>6, <2>1, <3>2, <4>1, <4>4
      <4>8. OnTheWay(y, n + 1)
        BY <3>3, <4>1, <4>4, <4>5, <4>6, <4>7 DEF OnTheWay, D
      <4> QED
        BY <1>2, <4>6, <4>8 DEF TurnRight, y
    <3> QED
      BY <3>4, <3>5
  <2> QED
    BY <2>2, <2>3
<1> QED
  BY <1>7, <1>8

LEMMA AllAreListed ==
    ASSUME CatalogTypes, NEW size \in Nat, size >= RoomTo[Last_slot] + DirentSize(NameSize),
           NEW acc \in AccSet, acc.total = RoomTo[0], acc.length <= DirentSize(NameSize),
           acc.entries = <<>>
    PROVE  AllShown(Listed_from(0, 0, size, acc)) /\ Listed_from(0, 0, size, acc) \in AccSet
<1> DEFINE x0 == [s |-> 0, first |-> 0, i |-> 0, acc |-> acc, done |-> FALSE]
           F == [x \in TurnSet |-> Next_entry(size, x)]
           B(v, n) == IF n = 0 THEN x0 ELSE Next_entry(size, v[n - 1])
           w == CHOOSE v : v = [n \in Nat |-> B(v, n)]
           last == CatalogSectors * (PerSector + 1)
<1>1. Listed_from(0, 0, size, acc) = w[last].acc
  BY DEF Listed_from
<1>2. x0 \in TurnSet
  BY SlotParts DEF TurnSet
<1>3. F \in [TurnSet -> TurnSet]
  BY TurnStays
<1>4. TurnRight(x0, 0)
  <2>1. 0 * (PerSector + 1) + 0 = 0 /\ 0 * PerSector + 0 = 0
    BY SlotParts
  <2>2. Shows(<<>>, 0)
    <3>1. \A e \in Linked : ~(e <= 0)
      <4>1. \A e \in Slots : e \in Nat /\ e >= 1
        BY SlotsAre
      <4> QED
        BY <4>1 DEF Linked
    <3>2. 1..Len(<<>>) = {}
      OBVIOUS
    <3> QED
      BY <3>1, <3>2 DEF Shows
  <2>3. OnTheWay(x0, 0)
    BY <2>1, <2>2 DEF OnTheWay
  <2> QED
    BY <1>2, <2>3 DEF TurnRight
<1> HIDE DEF x0
<1>5. \E v : v = [n \in Nat |-> B(v, n)]
  <2>1. PICK g : g[0] = x0 /\ g = [n \in Nat |-> IF n = 0 THEN x0 ELSE F[g[n - 1]]]
    <3> HIDE DEF F
    <3> QED
      BY <1>2, <1>3, StepsExist
  <2>2. \A n \in Nat : g[n] = IF n = 0 THEN x0 ELSE F[g[n - 1]]
    <3> DEFINE G(n) == IF n = 0 THEN x0 ELSE F[g[n - 1]]
    <3>1. g = [n \in Nat |-> G(n)]
      BY <2>1
    <3> HIDE DEF G
    <3>2. \A n \in Nat : g[n] = G(n)
      BY <3>1
    <3> QED
      BY <3>2 DEF G
  <2> DEFINE S == {n \in Nat : g[n] \in TurnSet}
  <2>3. 0 \in S
    BY <1>2, <2>1
  <2>4. ASSUME NEW n \in Nat, n \in S
        PROVE  n + 1 \in S
    <3>1. n + 1 # 0 /\ (n + 1) - 1 = n /\ n + 1 \in Nat
      OBVIOUS
    <3>2. g[n + 1] = F[g[n]]
      BY <2>2, <3>1
    <3> HIDE DEF F
    <3> QED
      BY <1>3, <2>4, <3>1, <3>2
  <2>5. Nat \subseteq S
    <3> HIDE DEF S
    <3> QED
      BY <2>3, <2>4, Induction
  <2>6. \A n \in Nat : g[n] = B(g, n)
    <3> TAKE n \in Nat
    <3>1. CASE n = 0
      BY <2>1, <3>1
    <3>2. CASE n # 0
      <4>1. n - 1 \in Nat
        BY <3>2
      <4>2. g[n - 1] \in TurnSet
        BY <2>5, <4>1
      <4> QED
        BY <2>2, <3>2, <4>2
    <3> QED
      BY <3>1, <3>2
  <2>7. g = [n \in Nat |-> g[n]]
    <3> DEFINE G(n) == IF n = 0 THEN x0 ELSE F[g[n - 1]]
    <3>1. g = [n \in Nat |-> G(n)]
      BY <2>1
    <3> HIDE DEF G
    <3> QED
      BY <3>1
  <2> HIDE DEF B
  <2>8. g = [n \in Nat |-> B(g, n)]
    BY <2>6, <2>7
  <2> QED
    BY <2>8
<1>6. w = [n \in Nat |-> B(w, n)]
  <2> HIDE DEF B
  <2> QED
    BY <1>5
<1> HIDE DEF w
<1>7. \A n \in Nat : w[n] = B(w, n)
  <2> HIDE DEF B
  <2> QED
    BY <1>6
<1>8. \A n \in Nat : TurnRight(w[n], n)
  <2> DEFINE S == {n \in Nat : TurnRight(w[n], n)}
  <2>1. 0 \in S
    <3>1. w[0] = x0
      BY <1>7
    <3> QED
      BY <1>4, <3>1
  <2>2. ASSUME NEW n \in Nat, n \in S
        PROVE  n + 1 \in S
    <3>1. n + 1 # 0 /\ (n + 1) - 1 = n /\ n + 1 \in Nat
      OBVIOUS
    <3>2. w[n + 1] = Next_entry(size, w[n])
      BY <1>7, <3>1
    <3>3. TurnRight(Next_entry(size, w[n]), n + 1)
      BY <2>2, TurnGoes
    <3> QED
      BY <3>1, <3>2, <3>3
  <2>3. Nat \subseteq S
    <3> HIDE DEF S
    <3> QED
      BY <2>1, <2>2, Induction
  <2> QED
    BY <2>3
<1>9. last \in Nat
  BY SlotParts, Sector_mono
<1> DEFINE x == w[last]
<1>10. TurnRight(x, last) /\ x \in TurnSet
  BY <1>8, <1>9 DEF TurnRight
<1> HIDE DEF x
<1>11. x.done
  <2> SUFFICES ASSUME ~x.done
               PROVE  FALSE
    OBVIOUS
  <2>1. last = x.s * (PerSector + 1) + x.i
    BY <1>10 DEF TurnRight, OnTheWay
  <2>2. x.s \in 0..(CatalogSectors - 1) /\ x.i \in 0..PerSector
    BY <1>10 DEF TurnSet
  <2>3. /\ x.s * (PerSector + 1) \in Nat
        /\ x.s * (PerSector + 1) + (PerSector + 1) <= CatalogSectors * (PerSector + 1)
    <3>1. /\ x.s \in Nat /\ CatalogSectors \in Nat /\ PerSector + 1 \in Nat \ {0}
          /\ x.s < CatalogSectors
      BY <2>2, SlotParts
    <3> QED
      BY <3>1, Sector_mono
  <2> DEFINE b == x.s * (PerSector + 1)
  <2> HIDE DEF b
  <2>4. b \in Nat /\ b + (PerSector + 1) <= last /\ last = b + x.i /\ x.i \in Nat /\ x.i <= PerSector
    BY <2>1, <2>2, <2>3, SlotParts DEF b
  <2> HIDE DEF last
  <2> QED
    BY <2>4, SlotParts, <1>9
<1>12. AllShown(x.acc) /\ x.acc \in AccSet
  BY <1>10, <1>11 DEF TurnRight, TurnSet
<1> QED
  BY <1>1, <1>12 DEF x

LEMMA ListingIsRight == ASSUME CatalogHolds PROVE ListingRight
<1>1. CatalogTypes
  BY DEF CatalogHolds
<1> SUFFICES ASSUME NEW size \in DirentSizes,
                    size >= RoomTo[Last_slot] + DirentSize(NameSize)
             PROVE  LET given == Getdents(0, size)
                    IN /\ Range(given.entries) = {[name |-> NameOf(e), number |-> e] : e \in Linked}
                       /\ \A j, k \in DOMAIN given.entries :
                            j < k => given.entries[j].number < given.entries[k].number
                       /\ given.at = End_of_catalog
  BY DEF ListingRight, Last_slot
<1> DEFINE made_up == DirentSize(1) + DirentSize(2)
           acc == [total |-> made_up, length |-> DirentSize(2), at |-> 0, entries |-> <<>>]
           given == Listed_from(0, 0, size, acc)
<1>2. size \in Nat
  BY CatalogAssumption
<1>3. /\ made_up \in Nat /\ RoomTo[0] = made_up /\ DirentSize(2) \in Nat
      /\ DirentSize(2) <= DirentSize(NameSize) /\ DirentSize(NameSize) \in Nat
  <2>1. NameSize \in Nat
    BY SlotParts
  <2>2. DirentSize(NameSize) \in Nat /\ DirentSize(2) <= DirentSize(NameSize)
    BY <2>1, DirentIs
  <2>3. DirentSize(1) \in Nat /\ DirentSize(2) \in Nat
    BY DirentIs
  <2>4. RoomTo[0] = made_up
    BY <1>1, RoomIs
  <2> QED
    BY <2>2, <2>3, <2>4
<1>4. ~(made_up > size) /\ made_up <= size
  <2>1. 0 \in 0..Last_slot /\ Last_slot \in 0..Last_slot
    BY SlotParts
  <2>2. RoomTo[0] <= RoomTo[Last_slot] /\ RoomTo[Last_slot] \in Nat
    BY <1>1, <2>1, RoomGrows, RoomIs
  <2> DEFINE a == RoomTo[Last_slot]
             d == DirentSize(NameSize)
             m == made_up
  <2> HIDE DEF a, d, m
  <2>3. m <= a /\ a \in Nat /\ d \in Nat /\ m \in Nat /\ a + d <= size
    BY <1>3, <2>2 DEF a, d, m
  <2>4. m <= size /\ ~(m > size)
    BY <1>2, <2>3
  <2> QED
    BY <2>4 DEF m
<1>5. Getdents(0, size) = given
  <2>1. 0 # End_of_catalog
    BY DEF End_of_catalog
  <2> DEFINE start == [total |-> 0, length |-> 0, at |-> 0, entries |-> <<>>]
  <2>2. [start EXCEPT !.total = made_up, !.length = DirentSize(2)] = acc
    <3> DEFINE t == made_up
               l == DirentSize(2)
               none == <<>>
    <3> HIDE DEF made_up, none, t, l
    <3>1. [[total |-> 0, length |-> 0, at |-> 0, entries |-> none] EXCEPT !.total = t, !.length = l]
          = [total |-> t, length |-> l, at |-> 0, entries |-> none]
      <4> DEFINE r == [total |-> 0, length |-> 0, at |-> 0, entries |-> none]
                 u == [r EXCEPT !.total = t, !.length = l]
                 S == [total : {0, t}, length : {0, l}, at : {0}, entries : {none}]
      <4>1. r \in S
        OBVIOUS
      <4> HIDE DEF r
      <4>2. u \in S /\ u.total = t /\ u.length = l
        BY <4>1
      <4> HIDE DEF u
      <4>3. u = [total |-> t, length |-> l, at |-> 0, entries |-> none]
        BY <4>2
      <4> QED
        BY <4>3 DEF u, r
    <3> QED
      BY <3>1 DEF none, t, l
  <2> DEFINE m == made_up
             long == DirentSize(2)
             begun == [start EXCEPT !.total = m, !.length = long]
             others == LET s == SectorOf(0) i == (0 - 1) % PerSector
                       IN Listed_from(s, i, size, start)
  <2>3. Getdents(0, size) =
           CASE 0 = End_of_catalog -> [start EXCEPT !.at = End_of_catalog]
             [] 0 = 0 /\ m > size -> start
             [] 0 = 0 /\ m <= size -> Listed_from(0, 0, size, begun)
             [] OTHER -> others
    BY DEF Getdents
  <2> HIDE DEF m, begun, others, start
  <2>4. Getdents(0, size) = Listed_from(0, 0, size, begun)
    BY <1>4, <2>1, <2>3 DEF m
  <2> QED
    BY <2>2, <2>4 DEF begun, m
<1>6. acc \in AccSet /\ acc.total = RoomTo[0] /\ acc.length <= DirentSize(NameSize) /\ acc.entries = <<>>
  <2>1. <<>> \in Seq(ShownSet)
    OBVIOUS
  <2> HIDE DEF made_up
  <2>2. acc \in AccSet
    BY <1>3, <2>1 DEF AccSet
  <2> QED
    BY <1>3, <2>2
<1> HIDE DEF acc
<1>7. AllShown(given) /\ given \in AccSet
  BY <1>1, <1>2, <1>6, AllAreListed
<1> HIDE DEF given
<1> DEFINE q == given.entries
<1>8. q \in Seq(ShownSet) /\ given.at = End_of_catalog /\ Shows(q, Last_slot)
  BY <1>7 DEF AccSet, AllShown
<1> HIDE DEF q
<1>9. DOMAIN q = 1..Len(q) /\ \A k \in 1..Len(q) : q[k] \in ShownSet
  BY <1>8
<1>10. Range(q) = {[name |-> NameOf(e), number |-> e] : e \in Linked}
  <2> DEFINE R == {[name |-> NameOf(e), number |-> e] : e \in Linked}
  <2>1. ASSUME NEW k \in 1..Len(q)
        PROVE  q[k] \in R
    <3>1. q[k].number \in Linked /\ q[k].name = NameOf(q[k].number)
      BY <1>8 DEF Shows
    <3>2. q[k] = [name |-> q[k].name, number |-> q[k].number]
      BY <1>9 DEF ShownSet
    <3> QED
      BY <3>1, <3>2
  <2>2. ASSUME NEW e \in Linked
        PROVE  \E k \in 1..Len(q) : q[k] = [name |-> NameOf(e), number |-> e]
    <3>1. e <= Last_slot
      <4>1. e \in 1..Last_slot
        BY SlotParts DEF Linked
      <4> QED
        BY <4>1, SlotParts
    <3>2. PICK k \in 1..Len(q) : q[k].number = e
      BY <1>8, <3>1 DEF Shows
    <3>3. q[k].name = NameOf(e)
      BY <1>8, <3>2 DEF Shows
    <3>4. q[k] = [name |-> q[k].name, number |-> q[k].number]
      BY <1>9 DEF ShownSet
    <3> QED
      BY <3>2, <3>3, <3>4
  <2>3. Range(q) = {q[k] : k \in 1..Len(q)}
    BY <1>9 DEF Range
  <2> HIDE DEF NameOf
  <2> QED
    BY <2>1, <2>2, <2>3
<1>11. \A j, k \in DOMAIN q : j < k => q[j].number < q[k].number
  BY <1>8, <1>9 DEF Shows
<1> QED
  BY <1>5, <1>8, <1>10, <1>11 DEF q

\* What the steps of the disk keep, and the other parts leave alone.
LEMMA CatalogKept == ASSUME CatalogGiven, CatalogHolds, CatalogNext PROVE CatalogHolds'
<1>1. CASE creat
  BY <1>1, CreatKeeps
<1>2. CASE open_found
  BY <1>2, OpenFoundKeeps
<1>3. CASE unlink
  BY <1>3, UnlinkKeepsCatalog
<1>4. CASE close_file
  BY <1>4, CloseIsKept
<1>5. CASE chmod
  BY <1>5, ChmodKeeps
<1>6. CASE truncate64
  BY <1>6, TruncateIsKept
<1>7. CASE stat \/ getdents_catalog \/ open_directory
  BY <1>7, OthersKeepCatalog DEF stat, getdents_catalog, open_directory
<1> QED
  BY <1>1, <1>2, <1>3, <1>4, <1>5, <1>6, <1>7 DEF CatalogNext

\* A name finds the first file that has it or begins with it, a listing with
\* room for all is of the files there are, and what is kept on the disk and in
\* core about a file is what its users said (dos33fs.c:291-389, 557-712,
\* 939-1224), for any length of the catalog, any names and any buffers.
THEOREM StorageCatalogRight == ASSUME CatalogGiven PROVE StorageSpec => []CatalogRight
<1>1. CatalogGiven /\ StorageInit => CatalogHolds
  BY CatalogBegins DEF StorageInit
<1>2. CatalogGiven /\ CatalogHolds /\ [StorageNext]_storage_vars => CatalogHolds'
  <2> SUFFICES ASSUME CatalogGiven, CatalogHolds, [StorageNext]_storage_vars
               PROVE  CatalogHolds'
    OBVIOUS
  <2>1. CatalogNext \/ UNCHANGED catalog_vars
    BY DEF StorageNext, storage_vars, Vfs_step, Romfs_step, Mounts_step, FileIO_step, Catalog_step
  <2>2. UNCHANGED catalog_vars => CatalogHolds'
    BY OthersKeepCatalog DEF catalog_vars
  <2> QED
    BY <2>1, <2>2, CatalogKept
<1>3. CatalogGiven /\ CatalogHolds => CatalogRight
  BY NamesAreRight, ListingIsRight, InodesAreRight DEF CatalogRight
<1> QED
  BY <1>1, <1>2, <1>3, PTL DEF StorageSpec

-----------------------------------------------------------------------------
(* The read-only file system: well-formed images, and what leads along them *)

Room_for(length) == \A size \in BufferSizes : EntrySize(length) <= size

Root_of(im)  == 16 + Chunks(im[0].name[2])
Nexts_of(im) == [a \in DOMAIN im |-> im[a].next]
Links_of(im) == [a \in DOMAIN im |-> IF im[a].type = "link" THEN im[a].spec ELSE a]
Proper(im)   == {a \in DOMAIN im : im[a].type # "link"}

HeaderWell(im, a) ==
    /\ im[a].next \in DOMAIN im /\ im[a].size \in Nat /\ im[a].name[2] \in Nat
    /\ im[a].type \in {"dir", "link"} => im[a].spec \in DOMAIN im \ {0}
    /\ a # 0 => Room_for(im[a].name[2])

\* Headers lead to headers, a directory has entries, and neither directories
\* nor links go round in circles.
ImageWell(im) ==
    /\ DOMAIN im \subseteq Nat /\ 0 \in DOMAIN im /\ im[0].next = 0
    /\ Root_of(im) \in DOMAIN im /\ im[Root_of(im)].type = "dir"
    /\ \A a \in DOMAIN im : HeaderWell(im, a)
    /\ \E rank : Ranked(DOMAIN im, {0}, Nexts_of(im), rank)
    /\ \E rank : Ranked(DOMAIN im, Proper(im), Links_of(im), rank)

ListWell(list) ==
    /\ list # <<>> /\ list \in Seq(Range(list))
    /\ \A k \in 1..Len(list) : /\ list[k].size \in Nat /\ list[k].name[2] \in Nat
                                /\ Room_for(list[k].name[2])

\* What genromfs makes is well-formed, mkromfs has a file to put in, and the
\* buffers have room for "." and "..".
RomfsGiven ==
    /\ \A im \in Images : ImageWell(im)
    /\ \A list \in FileLists : ListWell(list)
    /\ \A size \in BufferSizes : size >= 16
    /\ \A path \in Paths : path \in Seq(Range(path))

LEMMA ReachedFrom ==
    ASSUME NEW D, NEW step \in [D -> D], NEW a \in D
    PROVE  /\ a \in Reached(a, step) /\ Reached(a, step) \subseteq D
           /\ \A g \in Reached(a, step) : step[g] \in Reached(a, step)
           /\ Reached(step[a], step) \subseteq Reached(a, step)
<1> DEFINE Closed(S) == \A g \in S : step[g] \in S
<1>0. DOMAIN step = D
  OBVIOUS
<1>1. \A b \in D : Reached(b, step) = {h \in D : \A S \in SUBSET D : b \in S /\ Closed(S) => h \in S}
  BY <1>0 DEF Reached
<1>2. \A g \in D : step[g] \in D
  OBVIOUS
<1>3. \A S \in SUBSET D : a \in S /\ Closed(S) => step[a] \in S
  OBVIOUS
<1>4. \A g \in Reached(a, step) : step[g] \in Reached(a, step)
  <2> TAKE g \in Reached(a, step)
  <2>1. g \in D /\ \A S \in SUBSET D : a \in S /\ Closed(S) => g \in S
    BY <1>1
  <2>2. \A S \in SUBSET D : a \in S /\ Closed(S) => step[g] \in S
    BY <2>1
  <2> HIDE DEF Closed
  <2> QED
    BY <1>1, <1>2, <2>1, <2>2
<1> HIDE DEF Closed
<1> QED
  BY <1>1, <1>2, <1>3, <1>4

LEMMA ReachedWithin ==
    ASSUME NEW D, NEW step \in [D -> D], NEW a, NEW S \in SUBSET D,
           a \in S, \A g \in S : step[g] \in S
    PROVE  Reached(a, step) \subseteq S
<1>1. DOMAIN step = D
  OBVIOUS
<1> QED
  BY <1>1 DEF Reached

LEMMA ImageParts ==
    ASSUME ImageWell(image)
    PROVE  /\ DOMAIN image \subseteq Nat /\ 0 \in DOMAIN image /\ image[0].next = 0
           /\ Nexts \in [DOMAIN image -> DOMAIN image] /\ Links \in [DOMAIN image -> DOMAIN image]
           /\ \A a \in DOMAIN image :
                 /\ Nexts[a] = image[a].next /\ image[a].next \in DOMAIN image
                 /\ Links[a] = IF image[a].type = "link" THEN image[a].spec ELSE a
                 /\ image[a].size \in Nat /\ image[a].name[2] \in Nat
                 /\ image[a].type \in {"dir", "link"} =>
                       image[a].spec \in DOMAIN image /\ image[a].spec # 0
           /\ Nexts_of(image) = Nexts /\ Links_of(image) = Links
<1>1. /\ DOMAIN image \subseteq Nat /\ 0 \in DOMAIN image /\ image[0].next = 0
      /\ \A a \in DOMAIN image : HeaderWell(image, a)
  BY DEF ImageWell
<1>2. \A a \in DOMAIN image :
         /\ image[a].next \in DOMAIN image /\ image[a].size \in Nat /\ image[a].name[2] \in Nat
         /\ image[a].type \in {"dir", "link"} => image[a].spec \in DOMAIN image \ {0}
  BY <1>1 DEF HeaderWell
<1>3. Nexts_of(image) = Nexts /\ Links_of(image) = Links
  BY DEF Nexts_of, Links_of, Nexts, Links
<1>4. \A a \in DOMAIN image :
         /\ Nexts[a] = image[a].next
         /\ Links[a] = IF image[a].type = "link" THEN image[a].spec ELSE a
  BY DEF Nexts, Links
<1>5. Nexts \in [DOMAIN image -> DOMAIN image] /\ Links \in [DOMAIN image -> DOMAIN image]
  BY <1>2 DEF Nexts, Links
<1> QED
  BY <1>1, <1>2, <1>3, <1>4, <1>5

\* Missing_inode is the address of nothing.
LEMMA NoAddress == ASSUME ImageWell(image) PROVE Missing_inode \notin DOMAIN image /\ Ended_list \notin DOMAIN image
<1>1. DOMAIN image \subseteq Nat
  BY DEF ImageWell
<1>2. Missing_inode \notin Nat /\ Ended_list \notin Nat
  BY DEF Missing_inode, Ended_list
<1> QED
  BY <1>1, <1>2

\* Links lead to what they stand for.
LEMMA LinksEnd ==
    ASSUME ImageWell(image)
    PROVE  \A a \in DOMAIN image :
              /\ Followed(a) \in DOMAIN image /\ image[Followed(a)].type # "link"
              /\ image[a].type # "link" => Followed(a) = a
              /\ Target(a) = Followed(a)
<1> DEFINE D == DOMAIN image
           B(f, a) == IF image[a].type = "link" THEN f[image[a].spec] ELSE a
           w == CHOOSE f : f = [a \in D |-> B(f, a)]
           stop == Proper(image)
           last == [a \in D |-> a]
           more == [a \in D |-> [v \in D |-> v]]
<1>1. PICK rank : Ranked(D, stop, Links, rank)
  BY ImageParts DEF ImageWell
<1>2. /\ Links \in [D -> D]
      /\ \A a \in D : /\ Links[a] = IF image[a].type = "link" THEN image[a].spec ELSE a
                      /\ image[a].type = "link" => image[a].spec \in D
                      /\ a \in stop <=> image[a].type # "link"
  BY ImageParts DEF Proper
<1>3. w = [a \in D |-> B(w, a)]
  <2>1. last \in [D -> D] /\ more \in [D -> [D -> D]]
    OBVIOUS
  <2> HIDE DEF last, more, stop, D
  <2>2. PICK f : IsChain(D, D, stop, Links, last, more, f)
    BY <1>1, <2>1, ChainExists
  <2>3. f \in [D -> D] /\ \A a \in D : f[a] = ChainStep(stop, Links, last, more, f, a)
    BY <2>2 DEF IsChain
  <2>4. ASSUME NEW a \in D
        PROVE  f[a] = B(f, a)
    <3>0. f[a] = ChainStep(stop, Links, last, more, f, a)
      BY <2>3
    <3>1. CASE image[a].type = "link"
      <4>1. a \notin stop /\ Links[a] = image[a].spec /\ f[Links[a]] \in D
        BY <1>2, <2>3, <3>1
      <4>2. more[a][f[Links[a]]] = f[Links[a]]
        BY <4>1 DEF more
      <4> QED
        BY <3>0, <3>1, <4>1, <4>2 DEF ChainStep
    <3>2. CASE image[a].type # "link"
      <4>1. a \in stop /\ last[a] = a
        BY <1>2, <3>2 DEF last
      <4> QED
        BY <3>0, <3>2, <4>1 DEF ChainStep
    <3> QED
      BY <3>1, <3>2
  <2> HIDE DEF B
  <2>5. f = [a \in D |-> B(f, a)]
    BY <2>3, <2>4
  <2> QED
    BY <2>5
<1>4. \A a \in D : Followed(a) = w[a]
  BY DEF Followed
<1> HIDE DEF w
<1>5. \A a \in D : w[a] = B(w, a)
  <2> HIDE DEF B
  <2> QED
    BY <1>3
<1> DEFINE S == {a \in D : w[a] \in D /\ image[w[a]].type # "link" /\ w[a] \in Reached(a, Links)}
<1>6. \A a \in D : (\A b \in D : rank[b] < rank[a] => b \in S) => a \in S
  <2> SUFFICES ASSUME NEW a \in D, \A b \in D : rank[b] < rank[a] => b \in S
               PROVE  a \in S
    OBVIOUS
  <2>1. CASE image[a].type = "link"
    <3> DEFINE b == Links[a]
    <3>1. b \in D /\ b = image[a].spec /\ a \notin stop
      BY <1>2, <2>1
    <3>2. rank[b] < rank[a]
      BY <1>1, <3>1 DEF Ranked
    <3>3. b \in S /\ w[a] = w[b]
      BY <1>5, <2>1, <3>1, <3>2
    <3>4. Reached(b, Links) \subseteq Reached(a, Links)
      BY <1>2, ReachedFrom
    <3> QED
      BY <3>3, <3>4
  <2>2. CASE image[a].type # "link"
    <3>1. w[a] = a
      BY <1>5, <2>2
    <3>2. a \in Reached(a, Links)
      BY <1>2, ReachedFrom
    <3> QED
      BY <2>2, <3>1, <3>2
  <2> QED
    BY <2>1, <2>2
<1>7. D \subseteq S
  <2>1. rank \in [D -> Nat]
    BY <1>1 DEF Ranked
  <2> HIDE DEF S, D
  <2> QED
    BY <1>6, <2>1, RankInduction
<1>8. ASSUME NEW a \in D, NEW h \in Reached(a, Links), image[h].type # "link"
      PROVE  h = w[a]
  <2> DEFINE T == {g \in D : w[g] = w[a]}
  <2>1. \A g \in T : Links[g] \in T
    <3> TAKE g \in T
    <3>1. CASE image[g].type = "link"
      <4>1. Links[g] = image[g].spec /\ Links[g] \in D /\ w[g] = w[image[g].spec]
        BY <1>2, <1>5, <3>1
      <4> QED
        BY <4>1
    <3>2. CASE image[g].type # "link"
      BY <1>2, <3>2
    <3> QED
      BY <3>1, <3>2
  <2>2. Reached(a, Links) \subseteq T
    <3>1. T \in SUBSET D /\ a \in T
      OBVIOUS
    <3> HIDE DEF T, D
    <3> QED
      BY <1>2, <2>1, <3>1, ReachedWithin
  <2>3. h \in D /\ w[h] = w[a]
    BY <2>2
  <2>4. w[h] = h
    BY <1>5, <1>8, <2>3
  <2> QED
    BY <2>3, <2>4
<1> HIDE DEF B
<1> TAKE a \in D
<1>9. a \in S
  BY <1>7
<1>10. Target(a) = w[a]
  <2> DEFINE t == CHOOSE h \in Reached(a, Links) : image[h].type # "link"
  <2>1. t \in Reached(a, Links) /\ image[t].type # "link"
    BY <1>9
  <2> HIDE DEF t
  <2>2. t = w[a]
    BY <1>8, <2>1
  <2> QED
    BY <2>2 DEF t, Target
<1>11. image[a].type # "link" => w[a] = a
  BY <1>5 DEF B
<1> QED
  BY <1>4, <1>9, <1>10, <1>11

Address_or_none == DOMAIN image \union {Missing_inode}

\* What looking for a name in a directory comes to.
FoundIn(i, name, r) ==
    /\ r \in Address_or_none
    /\ r # Missing_inode =>
         /\ image[i].type = "dir" /\ image[r].type # "link"
         /\ \E a \in InDirectory(i) : image[a].name = name /\ Followed(a) = r
    /\ r = Missing_inode /\ image[i].type = "dir" =>
         \A a \in InDirectory(i) : image[a].name # name

\* The loop goes from header to header until the name is met or none is next.
LEMMA DirectorySearched ==
    ASSUME ImageWell(image), NEW i \in DOMAIN image, NEW name
    PROVE  FoundIn(i, name, romfs_lookup_inode_dir(i, name))
<1> DEFINE D == DOMAIN image
           Z == Address_or_none
           B(f, a) == IF image[a].name = name THEN Followed(a)
                      ELSE IF image[a].next = 0 THEN Missing_inode
                      ELSE f[image[a].next]
           w == CHOOSE f : f = [a \in D |-> B(f, a)]
           stop == {a \in D : image[a].name = name \/ image[a].next = 0}
           last == [a \in D |-> IF image[a].name = name THEN Followed(a) ELSE Missing_inode]
           more == [a \in D |-> [v \in Z |-> v]]
<1>1. PICK rank : Ranked(D, {0}, Nexts, rank)
  BY ImageParts DEF ImageWell
<1>2. /\ Nexts \in [D -> D] /\ \A a \in D : Nexts[a] = image[a].next /\ image[a].next \in D
      /\ 0 \in D /\ image[0].next = 0
      /\ \A a \in D : Followed(a) \in D /\ image[Followed(a)].type # "link"
      /\ Missing_inode \notin D
      /\ \A a \in D : a \in stop <=> image[a].name = name \/ image[a].next = 0
  BY ImageParts, LinksEnd, NoAddress
<1>3. w = [a \in D |-> B(w, a)]
  <2>1. last \in [D -> Z] /\ more \in [D -> [Z -> Z]]
    <3>1. \A a \in D : Followed(a) \in Z /\ Missing_inode \in Z
      BY <1>2 DEF Address_or_none
    <3> HIDE DEF Z
    <3> QED
      BY <3>1
  <2>2. Ranked(D, stop, Nexts, rank)
    <3>1. 0 \in stop
      BY <1>2
    <3> HIDE DEF stop
    <3> QED
      BY <1>1, <3>1 DEF Ranked
  <2> HIDE DEF last, more, stop, D, Z
  <2>3. PICK f : IsChain(D, Z, stop, Nexts, last, more, f)
    BY <2>1, <2>2, ChainExists
  <2>4. f \in [D -> Z] /\ \A a \in D : f[a] = ChainStep(stop, Nexts, last, more, f, a)
    BY <2>3 DEF IsChain
  <2>5. ASSUME NEW a \in D
        PROVE  f[a] = B(f, a)
    <3>1. f[a] = IF a \in stop THEN last[a] ELSE more[a][f[Nexts[a]]]
      BY <2>4 DEF ChainStep
    <3>2. last[a] = IF image[a].name = name THEN Followed(a) ELSE Missing_inode
      BY DEF last
    <3>3. f[Nexts[a]] \in Z /\ Nexts[a] = image[a].next
      BY <1>2, <2>4
    <3>4. more[a][f[Nexts[a]]] = f[image[a].next]
      BY <3>3 DEF more
    <3>5. a \in stop <=> image[a].name = name \/ image[a].next = 0
      BY <1>2
    <3> QED
      BY <3>1, <3>2, <3>4, <3>5
  <2>6. f = [a \in D |-> B(f, a)]
    <3> HIDE DEF B
    <3> QED
      BY <2>4, <2>5
  <2> QED
    BY <2>6
<1>4. romfs_lookup_inode_dir(i, name)
        = IF image[i].type # "dir" THEN Missing_inode ELSE w[image[i].spec]
  BY DEF romfs_lookup_inode_dir
<1> HIDE DEF w, stop
<1>5. \A a \in D : w[a] = B(w, a)
  <2> HIDE DEF B
  <2> QED
    BY <1>3
<1> DEFINE Met(a) == \E b \in Reached(a, Nexts) \ {0} : image[b].name = name /\ Followed(b) = w[a]
           S == {a \in D : a # 0 => w[a] \in Z
                                    /\ (w[a] # Missing_inode => image[w[a]].type # "link" /\ Met(a))}
<1>6. \A a \in D : (\A b \in D : rank[b] < rank[a] => b \in S) => a \in S
  <2> SUFFICES ASSUME NEW a \in D, a # 0, \A b \in D : rank[b] < rank[a] => b \in S
               PROVE  w[a] \in Z /\ (w[a] # Missing_inode => image[w[a]].type # "link" /\ Met(a))
    BY DEF S
  <2>1. CASE image[a].name = name
    <3>1. w[a] = Followed(a)
      BY <1>5, <2>1
    <3>2. a \in Reached(a, Nexts)
      BY <1>2, ReachedFrom
    <3> QED
      BY <1>2, <2>1, <3>1, <3>2 DEF Address_or_none
  <2>2. CASE image[a].name # name /\ image[a].next = 0
    <3>1. w[a] = Missing_inode
      BY <1>5, <2>2
    <3> QED
      BY <3>1 DEF Address_or_none
  <2>3. CASE image[a].name # name /\ image[a].next # 0
    <3> DEFINE b == Nexts[a]
    <3>1. b \in D /\ b = image[a].next /\ b # 0 /\ w[a] = w[b]
      BY <1>2, <1>5, <2>3
    <3>2. rank[b] < rank[a]
      BY <1>1, <3>1 DEF Ranked
    <3>3. Reached(b, Nexts) \subseteq Reached(a, Nexts)
      BY <1>2, ReachedFrom
    <3>4. w[b] \in Z /\ (w[b] # Missing_inode => image[w[b]].type # "link" /\ Met(b))
      BY <3>1, <3>2
    <3>5. Met(b) => Met(a)
      BY <3>1, <3>3
    <3> HIDE DEF Met, b, Z
    <3> QED
      BY <3>1, <3>4, <3>5
  <2> QED
    BY <2>1, <2>2, <2>3
<1>7. D \subseteq S
  <2>1. rank \in [D -> Nat]
    BY <1>1 DEF Ranked
  <2> HIDE DEF S, D
  <2> QED
    BY <1>6, <2>1, RankInduction
<1>8. ASSUME NEW a \in D, w[a] = Missing_inode, NEW h \in Reached(a, Nexts) \ {0}
      PROVE  image[h].name # name
  <2> DEFINE T == {g \in D : g = 0 \/ w[g] = Missing_inode}
  <2>1. \A g \in T : Nexts[g] \in T
    <3> TAKE g \in T
    <3>1. CASE g = 0 \/ image[g].next = 0
      BY <1>2, <3>1
    <3>2. CASE g # 0 /\ image[g].next # 0
      <4>1. w[g] = Missing_inode /\ w[g] = B(w, g)
        BY <1>5, <3>2
      <4>2. image[g].name # name
        BY <1>2, <4>1
      <4> QED
        BY <1>2, <3>2, <4>1, <4>2
    <3> QED
      BY <3>1, <3>2
  <2>2. Reached(a, Nexts) \subseteq T
    <3>1. T \in SUBSET D /\ a \in T
      BY <1>8
    <3> HIDE DEF T, D
    <3> QED
      BY <1>2, <2>1, <3>1, ReachedWithin
  <2>3. h \in D /\ w[h] = Missing_inode
    BY <2>2
  <2>4. w[h] = B(w, h)
    BY <1>5, <2>3
  <2> QED
    BY <1>2, <2>3, <2>4
<1> DEFINE r == romfs_lookup_inode_dir(i, name)
           s == image[i].spec
<1>9. ASSUME image[i].type # "dir"
      PROVE  FoundIn(i, name, r)
  <2>1. r = Missing_inode
    BY <1>4, <1>9
  <2> HIDE DEF r
  <2> QED
    BY <1>9, <2>1 DEF FoundIn, Address_or_none
<1>10. ASSUME image[i].type = "dir"
       PROVE  FoundIn(i, name, r)
  <2>1. s \in D /\ s # 0
    BY <1>10, ImageParts
  <2>2. r = w[s]
    BY <1>4, <1>10
  <2>3. w[s] \in Z /\ (w[s] # Missing_inode => image[w[s]].type # "link" /\ Met(s))
    BY <1>7, <2>1
  <2>4. InDirectory(i) = Reached(s, Nexts) \ {0}
    BY DEF InDirectory
  <2>5. w[s] = Missing_inode => \A h \in InDirectory(i) : image[h].name # name
    <3> HIDE DEF s
    <3> QED
      BY <1>8, <2>1, <2>4
  <2> HIDE DEF r, s
  <2> QED
    BY <1>10, <2>2, <2>3, <2>4, <2>5 DEF FoundIn
<1> QED
  BY <1>9, <1>10

-----------------------------------------------------------------------------
(* Paths                                                                   *)

PathStep(A) == [i \in Address_or_none |-> [name \in A |->
    IF i = Missing_inode THEN Missing_inode ELSE romfs_lookup_inode_dir(i, name)]]

LEMMA PathFolder ==
    ASSUME ImageWell(image), root_dir \in DOMAIN image, NEW A
    PROVE  Folder(A, Address_or_none, PathStep(A), root_dir)
<1>1. \A i \in DOMAIN image, name \in A : romfs_lookup_inode_dir(i, name) \in Address_or_none
  BY DirectorySearched DEF FoundIn
<1>2. root_dir \in Address_or_none /\ Missing_inode \in Address_or_none
  BY DEF Address_or_none
<1>3. \A i \in Address_or_none : i \in DOMAIN image \/ i = Missing_inode
  BY DEF Address_or_none
<1>4. PathStep(A) \in [Address_or_none -> [A -> Address_or_none]]
  <2> DEFINE X == Address_or_none
             P(i, name) == IF i = Missing_inode THEN Missing_inode ELSE romfs_lookup_inode_dir(i, name)
  <2>1. \A i \in X, name \in A : P(i, name) \in X
    BY <1>1, <1>2, <1>3
  <2>2. PathStep(A) = [i \in X |-> [name \in A |-> P(i, name)]]
    BY DEF PathStep
  <2> HIDE DEF X, P
  <2> QED
    BY <2>1, <2>2 DEF X
<1> QED
  BY <1>2, <1>4 DEF Folder

LEMMA PathIsFolded ==
    ASSUME ImageWell(image), root_dir \in DOMAIN image, NEW A, NEW path \in Seq(A)
    PROVE  romfs_lookup_inode(path) = Folded(Address_or_none, PathStep(A), root_dir, path)
<1> DEFINE X == Address_or_none
           F == PathStep(A)
           B(h, k) == IF k = 0 THEN root_dir
                      ELSE IF h[k - 1] = Missing_inode THEN Missing_inode
                      ELSE romfs_lookup_inode_dir(h[k - 1], path[k])
           w == CHOOSE h : h = [k \in 0..Len(path) |-> B(h, k)]
<1>1. Folder(A, X, F, root_dir)
  BY PathFolder
<1>2. Len(path) \in Nat /\ \A k \in 1..Len(path) : path[k] \in A
  OBVIOUS
<1>3. \A i \in X, name \in A :
         F[i][name] = IF i = Missing_inode THEN Missing_inode ELSE romfs_lookup_inode_dir(i, name)
  BY DEF PathStep
<1> HIDE DEF X, F
<1>4. w = [k \in 0..Len(path) |-> B(w, k)]
  <2>1. PICK g : IsRun(X, F, root_dir, path, g)
    BY <1>1, RunExists
  <2>2. /\ g \in [0..Len(path) -> X] /\ g[0] = root_dir
        /\ \A k \in 1..Len(path) : g[k] = F[g[k - 1]][path[k]]
    BY <2>1 DEF IsRun
  <2>3. ASSUME NEW k \in 0..Len(path)
        PROVE  g[k] = B(g, k)
    <3>1. CASE k = 0
      BY <2>2, <3>1
    <3>2. CASE k # 0
      <4>1. k \in 1..Len(path) /\ k - 1 \in 0..Len(path)
        BY <1>2, <3>2
      <4>2. g[k] = F[g[k - 1]][path[k]] /\ g[k - 1] \in X /\ path[k] \in A
        BY <1>2, <2>2, <4>1
      <4> QED
        BY <1>3, <3>2, <4>2
    <3> QED
      BY <3>1, <3>2
  <2> HIDE DEF B
  <2>4. g = [k \in 0..Len(path) |-> B(g, k)]
    <3> HIDE DEF X
    <3>1. g = [k \in 0..Len(path) |-> g[k]]
      BY <2>2
    <3> QED
      BY <3>1, <2>3, Zenon
  <2> QED
    BY <2>4
<1>5. romfs_lookup_inode(path) = w[Len(path)]
  BY DEF romfs_lookup_inode
<1> HIDE DEF w
<1>6. \A k \in 0..Len(path) : w[k] = B(w, k)
  <2> HIDE DEF B
  <2> QED
    BY <1>4
<1>7. Goes(X, F, root_dir, path, w)
  <2>1. w[0] = root_dir
    BY <1>2, <1>6
  <2>2. ASSUME NEW k \in 1..Len(path), w[k - 1] \in X
        PROVE  w[k] = F[w[k - 1]][path[k]]
    <3>1. k \in 0..Len(path) /\ k # 0 /\ path[k] \in A
      BY <1>2
    <3>2. w[k] = B(w, k)
      BY <1>6, <3>1
    <3> QED
      BY <1>3, <2>2, <3>1, <3>2
  <2> QED
    BY <2>1, <2>2 DEF Goes
<1>8. w[Len(path)] = Folded(X, F, root_dir, path)
  BY <1>1, <1>7, FoldedIs
<1> QED
  BY <1>5, <1>8 DEF X, F

\* A path is followed as far as before its last name, and from there.
LEMMA PathGoesOn ==
    ASSUME ImageWell(image), root_dir \in DOMAIN image, NEW A, NEW path \in Seq(A)
    PROVE  /\ romfs_lookup_inode(path) \in Address_or_none
           /\ path = <<>> => romfs_lookup_inode(path) = root_dir
           /\ path # <<>> =>
                LET parent == romfs_lookup_inode(Front(path))
                IN /\ parent \in Address_or_none
                   /\ romfs_lookup_inode(path) =
                        IF parent = Missing_inode THEN Missing_inode
                        ELSE romfs_lookup_inode_dir(parent, Last(path))
<1> DEFINE X == Address_or_none
           F == PathStep(A)
<1>1. Folder(A, X, F, root_dir)
  BY PathFolder
<1>2. romfs_lookup_inode(path) = Folded(X, F, root_dir, path)
  BY PathIsFolded
<1>3. Folded(X, F, root_dir, path) \in X
  <2> HIDE DEF X, F
  <2> QED
    BY <1>1, FoldedType
<1>4. path = <<>> => romfs_lookup_inode(path) = root_dir
  <2> HIDE DEF X, F
  <2> QED
    BY <1>1, <1>2, FoldedBegins
<1>5. ASSUME path # <<>>
      PROVE  /\ romfs_lookup_inode(Front(path)) \in X
             /\ romfs_lookup_inode(path) =
                  IF romfs_lookup_inode(Front(path)) = Missing_inode THEN Missing_inode
                  ELSE romfs_lookup_inode_dir(romfs_lookup_inode(Front(path)), Last(path))
  <2>1. PICK s \in Seq(A), a \in A : path = Append(s, a)
    BY <1>5, LastFacts
  <2>2. Front(path) = s /\ Last(path) = a
    <3>1. Len(path) = Len(s) + 1 /\ Len(s) \in Nat
      BY <2>1
    <3>2. SubSeq(path, 1, Len(s)) = s /\ path[Len(path)] = a
      BY <2>1, <3>1
    <3>3. Len(path) - 1 = Len(s)
      BY <3>1
    <3> QED
      BY <3>2, <3>3 DEF Front, Last
  <2>3. romfs_lookup_inode(s) = Folded(X, F, root_dir, s)
    BY PathIsFolded
  <2> DEFINE p == Folded(X, F, root_dir, s)
  <2>4. Folded(X, F, root_dir, path) = F[p][a] /\ p \in X
    <3> HIDE DEF X, F
    <3> QED
      BY <1>1, <2>1, FoldedAppend, FoldedType
  <2> HIDE DEF p
  <2>5. F[p][a] = IF p = Missing_inode THEN Missing_inode ELSE romfs_lookup_inode_dir(p, a)
    BY <2>4 DEF PathStep
  <2> QED
    BY <1>2, <2>2, <2>3, <2>4, <2>5 DEF p
<1> QED
  BY <1>2, <1>3, <1>4, <1>5

-----------------------------------------------------------------------------
(* Listings: walks along the headers of a directory                        *)

Place_in(s, b, k) == IF k <= Len(s) THEN s[k] ELSE b

\* From a, header by header, to b, which is not in it.
Walk(D, step, s, a, b) ==
    /\ s \in Seq(D) /\ Place_in(s, b, 1) = a
    /\ \A k \in 1..Len(s) : s[k] # 0 /\ step[s[k]] = Place_in(s, b, k + 1)

LEMMA WalkJoins ==
    ASSUME NEW D, NEW step, NEW s, NEW t, NEW a, NEW b, NEW c,
           Walk(D, step, s, a, b), Walk(D, step, t, b, c)
    PROVE  Walk(D, step, s \o t, a, c)
<1> DEFINE u == s \o t
<1>1. /\ s \in Seq(D) /\ Len(s) \in Nat /\ Place_in(s, b, 1) = a
      /\ \A k \in 1..Len(s) : s[k] # 0 /\ step[s[k]] = Place_in(s, b, k + 1)
  BY DEF Walk
<1>2. /\ t \in Seq(D) /\ Len(t) \in Nat /\ Place_in(t, c, 1) = b
      /\ \A k \in 1..Len(t) : t[k] # 0 /\ step[t[k]] = Place_in(t, c, k + 1)
  BY DEF Walk
<1>3. /\ u \in Seq(D) /\ Len(u) = Len(s) + Len(t)
      /\ \A k \in 1..Len(s) : u[k] = s[k]
      /\ \A k \in 1..Len(t) : u[Len(s) + k] = t[k]
  BY <1>1, <1>2
<1> HIDE DEF u
<1>4. \A k \in 1..(Len(s) + 1) : Place_in(u, c, k) = Place_in(s, b, k)
  <2> TAKE k \in 1..(Len(s) + 1)
  <2>1. CASE k <= Len(s)
    BY <1>1, <1>2, <1>3, <2>1 DEF Place_in
  <2>2. CASE k = Len(s) + 1 /\ Len(t) > 0
    <3>1. 1 \in 1..Len(t) /\ k <= Len(u) /\ ~(k <= Len(s))
      BY <1>1, <1>2, <1>3, <2>2
    <3>2. u[Len(s) + 1] = t[1]
      BY <1>3, <3>1
    <3> QED
      BY <1>2, <2>2, <3>1, <3>2 DEF Place_in
  <2>3. CASE k = Len(s) + 1 /\ Len(t) = 0
    <3>1. ~(k <= Len(u)) /\ ~(k <= Len(s)) /\ ~(1 <= Len(t))
      BY <1>1, <1>2, <1>3, <2>3
    <3> QED
      BY <1>2, <3>1 DEF Place_in
  <2> QED
    BY <1>1, <1>2, <2>1, <2>2, <2>3
<1>5. \A k \in 1..(Len(t) + 1) : Place_in(u, c, Len(s) + k) = Place_in(t, c, k)
  <2> TAKE k \in 1..(Len(t) + 1)
  <2>1. CASE k <= Len(t)
    <3>1. k \in 1..Len(t) /\ Len(s) + k <= Len(u)
      BY <1>1, <1>2, <1>3, <2>1
    <3> QED
      BY <1>3, <2>1, <3>1 DEF Place_in
  <2>2. CASE ~(k <= Len(t))
    <3>1. ~(Len(s) + k <= Len(u))
      BY <1>1, <1>2, <1>3, <2>2
    <3> QED
      BY <2>2, <3>1 DEF Place_in
  <2> QED
    BY <2>1, <2>2
<1>6. Place_in(u, c, 1) = a
  BY <1>1, <1>4
<1>7. ASSUME NEW k \in 1..Len(u)
      PROVE  u[k] # 0 /\ step[u[k]] = Place_in(u, c, k + 1)
  <2>1. CASE k <= Len(s)
    <3>1. k \in 1..Len(s) /\ k + 1 \in 1..(Len(s) + 1)
      BY <1>1, <2>1
    <3> QED
      BY <1>1, <1>3, <1>4, <3>1
  <2>2. CASE ~(k <= Len(s))
    <3> DEFINE j == k - Len(s)
    <3>1. j \in 1..Len(t) /\ j + 1 \in 1..(Len(t) + 1) /\ k = Len(s) + j /\ k + 1 = Len(s) + (j + 1)
      BY <1>1, <1>2, <1>3, <2>2
    <3> HIDE DEF j
    <3>2. u[k] = t[j] /\ Place_in(u, c, k + 1) = Place_in(t, c, j + 1)
      BY <1>3, <1>5, <3>1
    <3> QED
      BY <1>2, <3>1, <3>2
  <2> QED
    BY <2>1, <2>2
<1> QED
  BY <1>3, <1>6, <1>7 DEF Walk, u

LEMMA WalkOne ==
    ASSUME NEW D, NEW step, NEW a \in D, a # 0
    PROVE  Walk(D, step, << a >>, a, step[a])
<1> DEFINE s == << a >>
<1>1. s \in Seq(D) /\ Len(s) = 1 /\ s[1] = a
  OBVIOUS
<1> HIDE DEF s
<1>2. \A k \in 1..Len(s) : k = 1
  BY <1>1
<1>3. Place_in(s, step[a], 1) = a /\ Place_in(s, step[a], 1 + 1) = step[a]
  BY <1>1 DEF Place_in
<1>4. Walk(D, step, s, a, step[a])
  BY <1>1, <1>2, <1>3 DEF Walk
<1> QED
  BY <1>4 DEF s

LEMMA WalkNone ==
    ASSUME NEW D, NEW step, NEW a
    PROVE  Walk(D, step, <<>>, a, a)
<1>1. <<>> \in Seq(D) /\ Len(<<>>) = 0 /\ ~(1 <= 0) /\ \A k \in 1..0 : FALSE
  OBVIOUS
<1>2. Place_in(<<>>, a, 1) = a
  BY <1>1 DEF Place_in
<1> QED
  BY <1>1, <1>2 DEF Walk

\* A walk meets no header twice: ranks fall along it.
LEMMA WalkFalls ==
    ASSUME NEW D, NEW step, NEW rank, Ranked(D, {0}, step, rank),
           NEW s, NEW a, NEW b, Walk(D, step, s, a, b)
    PROVE  \A j, k \in 1..Len(s) : j < k => rank[s[k]] < rank[s[j]]
<1>1. /\ s \in Seq(D) /\ Len(s) \in Nat
      /\ \A k \in 1..Len(s) : s[k] \in D /\ s[k] # 0 /\ step[s[k]] = Place_in(s, b, k + 1)
  BY DEF Walk
<1>2. \A h \in D : rank[h] \in Nat /\ (h # 0 => rank[step[h]] < rank[h])
  BY DEF Ranked
<1> DEFINE Falls(k) == k \in 1..Len(s) => \A j \in 1..Len(s) : j < k => rank[s[k]] < rank[s[j]]
           N == {k \in Nat : Falls(k)}
<1>3. Falls(0)
  BY <1>1
<1>4. ASSUME NEW k \in Nat, Falls(k)
      PROVE  Falls(k + 1)
  <2> SUFFICES ASSUME k + 1 \in 1..Len(s), NEW j \in 1..Len(s), j < k + 1
               PROVE  rank[s[k + 1]] < rank[s[j]]
    OBVIOUS
  <2>1. k \in 1..Len(s) /\ k + 1 <= Len(s)
    BY <1>1
  <2>2. s[k + 1] = step[s[k]]
    BY <1>1, <2>1 DEF Place_in
  <2>3. /\ rank[s[k + 1]] < rank[s[k]]
        /\ rank[s[k + 1]] \in Nat /\ rank[s[k]] \in Nat /\ rank[s[j]] \in Nat
    BY <1>1, <1>2, <2>1, <2>2
  <2>4. CASE j = k
    BY <2>3, <2>4
  <2>5. CASE j < k
    <3>1. rank[s[k]] < rank[s[j]]
      BY <1>4, <2>1, <2>5
    <3> QED
      BY <2>3, <3>1
  <2> QED
    BY <2>4, <2>5
<1>5. Nat \subseteq N
  <2> HIDE DEF Falls
  <2>1. 0 \in N /\ \A k \in Nat : k \in N => k + 1 \in N
    BY <1>3, <1>4
  <2> HIDE DEF N
  <2> QED
    BY <2>1, Induction
<1> QED
  BY <1>1, <1>5

LEMMA WalkStays ==
    ASSUME NEW D, NEW step \in [D -> D], NEW s, NEW a \in D, NEW b, Walk(D, step, s, a, b)
    PROVE  /\ \A k \in 1..Len(s) : s[k] \in Reached(a, step)
           /\ b = 0 /\ 0 \in D /\ step[0] = 0 =>
                 Reached(a, step) \ {0} \subseteq {s[k] : k \in 1..Len(s)}
<1>1. /\ s \in Seq(D) /\ Len(s) \in Nat /\ Place_in(s, b, 1) = a
      /\ \A k \in 1..Len(s) : s[k] \in D /\ s[k] # 0 /\ step[s[k]] = Place_in(s, b, k + 1)
  BY DEF Walk
<1>2. a \in Reached(a, step) /\ \A g \in Reached(a, step) : step[g] \in Reached(a, step)
  BY ReachedFrom
<1> DEFINE R == Reached(a, step)
           In(k) == k \in 1..Len(s) => s[k] \in R
           N == {k \in Nat : In(k)}
<1> HIDE DEF R
<1>3. In(0)
  BY <1>1
<1>4. ASSUME NEW k \in Nat, In(k)
      PROVE  In(k + 1)
  <2> SUFFICES ASSUME k + 1 \in 1..Len(s)
               PROVE  s[k + 1] \in R
    OBVIOUS
  <2>1. CASE k = 0
    BY <1>1, <1>2, <2>1 DEF Place_in, R
  <2>2. CASE k # 0
    <3>1. k \in 1..Len(s) /\ k + 1 <= Len(s)
      BY <1>1, <2>2
    <3>2. s[k + 1] = step[s[k]] /\ s[k] \in R
      BY <1>1, <1>4, <3>1 DEF Place_in
    <3> QED
      BY <1>2, <3>2 DEF R
  <2> QED
    BY <2>1, <2>2
<1>5. Nat \subseteq N
  <2> HIDE DEF In
  <2>1. 0 \in N /\ \A k \in Nat : k \in N => k + 1 \in N
    BY <1>3, <1>4
  <2> HIDE DEF N
  <2> QED
    BY <2>1, Induction
<1>6. \A k \in 1..Len(s) : s[k] \in R
  BY <1>1, <1>5
<1>7. ASSUME b = 0, 0 \in D, step[0] = 0
      PROVE  R \ {0} \subseteq {s[k] : k \in 1..Len(s)}
  <2> DEFINE T == {s[k] : k \in 1..Len(s)} \union {0}
  <2>1. \A k \in 1..(Len(s) + 1) : Place_in(s, b, k) \in T
    BY <1>1, <1>7 DEF Place_in
  <2>2. a \in T
    BY <1>1, <2>1
  <2>3. \A g \in T : step[g] \in T
    <3> TAKE g \in T
    <3>1. CASE g = 0
      BY <1>7, <3>1
    <3>2. CASE g # 0
      <4>1. PICK k \in 1..Len(s) : g = s[k]
        BY <3>2
      <4>2. k + 1 \in 1..(Len(s) + 1) /\ step[g] = Place_in(s, b, k + 1)
        BY <1>1, <4>1
      <4> QED
        BY <2>1, <4>2
    <3> QED
      BY <3>1, <3>2
  <2>4. T \in SUBSET D
    BY <1>1, <1>7
  <2>5. R \subseteq T
    <3> HIDE DEF T
    <3> QED
      BY <2>2, <2>3, <2>4, ReachedWithin DEF R
  <2> QED
    BY <2>5
<1> QED
  BY <1>6, <1>7 DEF R

Listings == [entries : Seq(DOMAIN image), at : DOMAIN image \union {Ended_list}]

\* Where a listing goes on; the end stands for the header at 0.
On_from(a) == IF a = Ended_list THEN 0 ELSE a

LEMMA EntrySizes ==
    ASSUME ImageWell(image), NEW a \in DOMAIN image
    PROVE  /\ EntrySize(image[a].name[2]) \in Nat
           /\ a # 0 => \A size \in BufferSizes : EntrySize(image[a].name[2]) <= size
<1>1. image[a].name[2] \in Nat /\ HeaderWell(image, a)
  BY ImageParts DEF ImageWell
<1>2. ASSUME NEW l \in Nat
      PROVE  EntrySize(l) \in Nat
  <2> DEFINE n == 12 + l + 1
  <2>1. n + 3 \in Nat
    OBVIOUS
  <2>2. (n + 3) \div 4 \in Nat
    BY <2>1
  <2>3. 4 * ((n + 3) \div 4) \in Nat
    BY <2>2
  <2> QED
    BY <2>3 DEF EntrySize
<1> QED
  BY <1>1, <1>2 DEF HeaderWell, Room_for

\* The loop of romfs_getdents() goes along the headers.
LEMMA ListingGoes ==
    ASSUME ImageWell(image), NEW a0 \in DOMAIN image, NEW size \in Int
    PROVE  LET result == Listing(a0, size)
           IN /\ result \in Listings
              /\ Walk(DOMAIN image, Nexts, result.entries, a0, On_from(result.at))
              /\ a0 # 0 /\ size \in BufferSizes => result.entries # <<>>
<1> DEFINE D == DOMAIN image
           K == Listings
           Z == [Int -> K]
           len(a) == EntrySize(image[a].name[2])
           full(a) == [entries |-> <<>>, at |-> a]
           ended == [entries |-> <<>>, at |-> Ended_list]
           with(a, rest) == [entries |-> <<a>> \o rest.entries, at |-> rest.at]
           P(v, a, room) == IF len(a) > room THEN full(a)
                            ELSE IF a = 0 THEN ended
                            ELSE with(a, v[room - len(a)])
           B(f, a) == [room \in Int |-> P(f[image[a].next], a, room)]
           w == CHOOSE f : f = [a \in D |-> B(f, a)]
           none == [k \in Int |-> ended]
           last == [a \in D |-> [room \in Int |-> P(none, a, room)]]
           more == [a \in D |-> [v \in Z |-> [room \in Int |-> P(v, a, room)]]]
<1>1. PICK rank : Ranked(D, {0}, Nexts, rank)
  BY ImageParts DEF ImageWell
<1>2. /\ Nexts \in [D -> D] /\ \A a \in D : Nexts[a] = image[a].next /\ image[a].next \in D
      /\ 0 \in D /\ image[0].next = 0 /\ \A a \in D : len(a) \in Int
      /\ Ended_list \notin D
  BY ImageParts, NoAddress, EntrySizes
<1>3. \A a \in D : full(a) \in K /\ full(a).entries = <<>> /\ full(a).at = a
  BY DEF Listings
<1>4. ended \in K /\ ended.entries = <<>> /\ ended.at = Ended_list
  BY DEF Listings
<1>5. ASSUME NEW a \in D, NEW rest \in K
      PROVE  /\ with(a, rest) \in K /\ with(a, rest).entries = <<a>> \o rest.entries
             /\ with(a, rest).at = rest.at
  <2>1. rest.entries \in Seq(D) /\ rest.at \in D \union {Ended_list}
    BY DEF Listings
  <2>2. << a >> \o rest.entries \in Seq(D)
    <3>1. << a >> \in Seq(D)
      OBVIOUS
    <3> HIDE DEF D
    <3> QED
      BY <2>1, <3>1
  <2> QED
    BY <2>1, <2>2 DEF Listings
<1> HIDE DEF full, ended, with, len
<1>6. \A v \in Z, a \in D, room \in Int : P(v, a, room) \in K
  <2> SUFFICES ASSUME NEW v \in Z, NEW a \in D, NEW room \in Int
               PROVE  P(v, a, room) \in K
    OBVIOUS
  <2>1. room - len(a) \in Int
    BY <1>2
  <2>2. v[room - len(a)] \in K
    BY <2>1
  <2> QED
    BY <1>3, <1>4, <1>5, <2>2
<1> HIDE DEF P, K
<1>7. w = [a \in D |-> B(w, a)]
  <2>1. none \in Z
    BY <1>4
  <2>2. last \in [D -> Z] /\ more \in [D -> [Z -> Z]]
    <3>1. \A a \in D : [room \in Int |-> P(none, a, room)] \in Z
      <4> HIDE DEF none
      <4> QED
        BY <1>6, <2>1
    <3>2. \A a \in D, v \in Z : [room \in Int |-> P(v, a, room)] \in Z
      BY <1>6
    <3> HIDE DEF Z, D, none
    <3> QED
      BY <3>1, <3>2
  <2>3. \A a \in D, v \in Z : more[a][v] = [room \in Int |-> P(v, a, room)]
    <3> HIDE DEF Z
    <3> QED
      OBVIOUS
  <2>4. \A room \in Int : \A v \in Z : P(v, 0, room) = P(none, 0, room)
    BY DEF P
  <2> HIDE DEF last, more, none, Z
  <2>5. PICK f : IsChain(D, Z, {0}, Nexts, last, more, f)
    <3> HIDE DEF D
    <3> QED
      BY <1>1, <2>2, ChainExists
  <2>6. f \in [D -> Z] /\ \A a \in D : f[a] = ChainStep({0}, Nexts, last, more, f, a)
    BY <2>5 DEF IsChain
  <2>7. ASSUME NEW a \in D
        PROVE  f[a] = B(f, a)
    <3>1. Nexts[a] = image[a].next /\ f[Nexts[a]] \in Z
      BY <1>2, <2>6
    <3>2. CASE a = 0
      <4>1. f[a] = last[0]
        BY <2>6, <3>2 DEF ChainStep
      <4>2. last[0] = [room \in Int |-> P(none, 0, room)]
        BY <1>2 DEF last
      <4> DEFINE v == f[image[a].next]
      <4>3. v \in Z
        BY <3>1
      <4> HIDE DEF v
      <4>4. [room \in Int |-> P(none, 0, room)] = [room \in Int |-> P(v, 0, room)]
        BY <2>4, <4>3
      <4> QED
        BY <3>2, <4>1, <4>2, <4>4 DEF v
    <3>3. CASE a # 0
      <4>1. f[a] = more[a][f[Nexts[a]]]
        BY <2>6, <3>3 DEF ChainStep
      <4> DEFINE v == f[image[a].next]
      <4>2. f[a] = more[a][v] /\ v \in Z
        BY <3>1, <4>1
      <4> HIDE DEF v
      <4>3. f[a] = [room \in Int |-> P(v, a, room)]
        BY <2>3, <4>2
      <4> QED
        BY <4>3 DEF v
    <3> QED
      BY <3>2, <3>3
  <2>8. f = [a \in D |-> B(f, a)]
    <3> HIDE DEF B
    <3> QED
      BY <2>6, <2>7
  <2> QED
    BY <2>8
<1>8. Listing(a0, size) = w[a0][size]
  BY DEF Listing, P, len, full, ended, with
<1> HIDE DEF w
<1>9. \A a \in D, room \in Int : w[a][room] = P(w[image[a].next], a, room)
  <2>1. \A a \in D : w[a] = B(w, a)
    <3> HIDE DEF B
    <3> QED
      BY <1>7
  <2> QED
    BY <2>1
<1> DEFINE Good(a, r) == r \in K /\ Walk(D, Nexts, r.entries, a, On_from(r.at))
           S == {a \in D : \A room \in Int : Good(a, w[a][room])}
<1>10. \A a \in D : (\A b \in D : rank[b] < rank[a] => b \in S) => a \in S
  <2> SUFFICES ASSUME NEW a \in D, \A b \in D : rank[b] < rank[a] => b \in S,
                      NEW room \in Int
               PROVE  Good(a, w[a][room])
    BY DEF S
  <2>1. CASE len(a) > room
    <3>1. w[a][room] = full(a)
      BY <1>9, <2>1 DEF P
    <3>2. On_from(a) = a
      BY <1>2 DEF On_from
    <3>3. Walk(D, Nexts, <<>>, a, a)
      BY WalkNone
    <3> QED
      BY <1>3, <3>1, <3>2, <3>3
  <2>2. CASE ~(len(a) > room) /\ a = 0
    <3>1. w[a][room] = ended
      BY <1>9, <2>2 DEF P
    <3>2. On_from(Ended_list) = 0
      BY DEF On_from
    <3>3. Walk(D, Nexts, <<>>, 0, 0)
      BY WalkNone
    <3> QED
      BY <1>4, <2>2, <3>1, <3>2, <3>3
  <2>3. CASE ~(len(a) > room) /\ a # 0
    <3> DEFINE b == Nexts[a]
               rest == w[b][room - len(a)]
    <3>1. b \in D /\ b = image[a].next /\ room - len(a) \in Int
      BY <1>2
    <3>2. rank[b] < rank[a]
      BY <1>1, <2>3 DEF Ranked
    <3>3. Good(b, rest)
      <4>1. b \in S
        BY <3>1, <3>2
      <4> HIDE DEF b
      <4> QED
        BY <3>1, <4>1
    <3>4. w[a][room] = with(a, rest)
      BY <1>9, <2>3, <3>1 DEF P
    <3> HIDE DEF rest
    <3>5. /\ with(a, rest) \in K /\ with(a, rest).entries = <<a>> \o rest.entries
          /\ with(a, rest).at = rest.at
      BY <1>5, <3>3
    <3>6. Walk(D, Nexts, << a >>, a, b)
      BY <2>3, WalkOne
    <3>7. Walk(D, Nexts, << a >> \o rest.entries, a, On_from(rest.at))
      BY <3>3, <3>6, WalkJoins
    <3> QED
      BY <3>4, <3>5, <3>7
  <2> QED
    BY <2>1, <2>2, <2>3
<1>11. D \subseteq S
  <2>1. rank \in [D -> Nat]
    BY <1>1 DEF Ranked
  <2> HIDE DEF S, D
  <2> QED
    BY <1>10, <2>1, RankInduction
<1>12. Good(a0, w[a0][size])
  BY <1>11
<1>13. ASSUME a0 # 0, size \in BufferSizes
       PROVE  w[a0][size].entries # <<>>
  <2>1. ~(len(a0) > size)
    <3>1. len(a0) <= size /\ len(a0) \in Int
      BY <1>2, <1>13, EntrySizes DEF len
    <3> QED
      BY <3>1
  <2> DEFINE rest == w[image[a0].next][size - len(a0)]
  <2>2. w[a0][size] = with(a0, rest)
    BY <1>9, <1>13, <2>1 DEF P
  <2>3. rest \in K
    <3> DEFINE b == image[a0].next
               m == size - len(a0)
    <3>1. b \in D /\ m \in Int
      BY <1>2
    <3>2. b \in S
      BY <1>11, <3>1
    <3> HIDE DEF b, m
    <3>3. Good(b, w[b][m])
      BY <3>1, <3>2
    <3> QED
      BY <3>3 DEF b, m
  <2> HIDE DEF rest
  <2>4. w[a0][size].entries = << a0 >> \o rest.entries /\ rest.entries \in Seq(D)
    <3>1. w[a0][size].entries = << a0 >> \o rest.entries
      BY <1>5, <2>2, <2>3
    <3>2. rest.entries \in Seq(D)
      BY <2>3 DEF K, Listings
    <3> QED
      BY <3>1, <3>2
  <2> HIDE DEF D
  <2>5. Len(<< a0 >> \o rest.entries) # 0
    BY <2>4
  <2>6. Len(<<>>) = 0
    OBVIOUS
  <2> QED
    BY <2>4, <2>5, <2>6
<1> QED
  BY <1>8, <1>12, <1>13 DEF K

-----------------------------------------------------------------------------
(* The images of mkromfs                                                   *)

LEMMA ChunksAre ==
    ASSUME NEW l \in Nat
    PROVE  Chunks(l) \in Nat
<1>1. l \div 16 \in Nat
  OBVIOUS
<1> DEFINE q == l \div 16
<1> HIDE DEF q
<1>2. 16 * (q + 1) \in Nat
  BY <1>1 DEF q
<1> QED
  BY <1>2 DEF Chunks, q

LEMMA HeaderFields ==
    ASSUME NEW next, NEW type, NEW spec, NEW size, NEW name
    PROVE  LET h == Header(next, type, spec, size, name)
           IN h.next = next /\ h.type = type /\ h.spec = spec /\ h.size = size /\ h.name = name
BY DEF Header

\* Headers of files from address 96 on, behind those of "." and "..".
MadeOf(list, made, im) ==
    /\ DOMAIN im = {0, 32, 64} \union made /\ made \subseteq Nat
    /\ 96 \in made /\ \A a \in made : a >= 96
    /\ im[0] = Header(0, "volume", 0, 0, <<"VMWos", 5>>)
    /\ im[32] = Header(64, "dir", 32, 0, <<".", 1>>)
    /\ im[64] = Header(96, "link", 32, 0, <<"..", 2>>)
    /\ \A a \in made : \E k \in 1..Len(list) :
          im[a] = Header(0, "file", 0, list[k].size, list[k].name)

LEMMA ImagesMade ==
    ASSUME NEW list, ListWell(list)
    PROVE  \E made : MadeOf(list, made, mkromfs(list))
<1> DEFINE D == 1..Len(list)
           grow(i) == 16 + Chunks(list[i].name[2]) + Chunks(list[i].size)
           B(f, i) == IF i = 1 THEN 96
                      ELSE f[i - 1] + 16 + Chunks(list[i - 1].name[2]) + Chunks(list[i - 1].size)
           w == CHOOSE f : f = [i \in 1..Len(list) |-> B(f, i)]
           M == {w[i] : i \in DOMAIN list}
           H(a) == CASE a = 0  -> Header(0, "volume", 0, 0, <<"VMWos", 5>>)
                     [] a = 32 -> Header(64, "dir", 32, 0, <<".", 1>>)
                     [] a = 64 -> Header(96, "link", 32, 0, <<"..", 2>>)
                     [] OTHER  -> LET f == list[CHOOSE i \in DOMAIN list : w[i] = a]
                                  IN Header(0, "file", 0, f.size, f.name)
           im == [a \in {0, 32, 64} \union M |-> H(a)]
<1>1. mkromfs(list) = im
  BY DEF mkromfs
<1>2. Len(list) \in Nat /\ DOMAIN list = D /\ 1 \in D
  BY DEF ListWell
<1>3. \A i \in D : Chunks(list[i].name[2]) \in Nat /\ Chunks(list[i].size) \in Nat
  BY ChunksAre DEF ListWell
<1>4. w = [i \in D |-> B(w, i)]
  <2> DEFINE before == [i \in D |-> IF i = 1 THEN 1 ELSE i - 1]
             rank == [i \in D |-> i]
             last == [i \in D |-> 96]
             more == [i \in D |-> [v \in Nat |->
                        IF i = 1 THEN 96
                        ELSE v + 16 + Chunks(list[i - 1].name[2]) + Chunks(list[i - 1].size)]]
  <2>1. \A i \in D : i # 1 => i - 1 \in D
    BY <1>2
  <2>2. Ranked(D, {1}, before, rank)
    BY <1>2, <2>1 DEF Ranked
  <2>3. \A i \in D, v \in Nat : i # 1 =>
           v + 16 + Chunks(list[i - 1].name[2]) + Chunks(list[i - 1].size) \in Nat
    <3> TAKE i \in D, v \in Nat
    <3> DEFINE j == i - 1
               c == Chunks(list[j].name[2])
               e == Chunks(list[j].size)
    <3>1. i # 1 => c \in Nat /\ e \in Nat
      BY <1>3, <2>1
    <3> HIDE DEF c, e
    <3>2. i # 1 => v + 16 + c + e \in Nat
      BY <3>1
    <3> QED
      BY <3>2 DEF c, e
  <2>4. last \in [D -> Nat] /\ more \in [D -> [Nat -> Nat]]
    <3> DEFINE P(i, v) == IF i = 1 THEN 96
                          ELSE v + 16 + Chunks(list[i - 1].name[2]) + Chunks(list[i - 1].size)
    <3>1. \A i \in D, v \in Nat : P(i, v) \in Nat
      BY <2>3
    <3>2. more = [i \in D |-> [v \in Nat |-> P(i, v)]]
      OBVIOUS
    <3> HIDE DEF P, D, more
    <3>3. more \in [D -> [Nat -> Nat]]
      BY <3>1, <3>2
    <3> QED
      BY <3>3
  <2>5. /\ \A i \in D : i # 1 => before[i] = i - 1
        /\ \A i \in D, v \in Nat : i # 1 =>
              more[i][v] = v + 16 + Chunks(list[i - 1].name[2]) + Chunks(list[i - 1].size)
        /\ \A i \in D : last[i] = 96
    OBVIOUS
  <2> HIDE DEF before, rank, last, more, D
  <2>6. PICK f : IsChain(D, Nat, {1}, before, last, more, f)
    BY <2>2, <2>4, ChainExists
  <2>7. f \in [D -> Nat] /\ \A i \in D : f[i] = ChainStep({1}, before, last, more, f, i)
    BY <2>6 DEF IsChain
  <2>8. ASSUME NEW i \in D
        PROVE  f[i] = B(f, i)
    <3>1. CASE i = 1
      BY <2>5, <2>7, <3>1 DEF ChainStep
    <3>2. CASE i # 1
      <4>1. f[i] = more[i][f[i - 1]] /\ f[i - 1] \in Nat
        BY <2>1, <2>5, <2>7, <3>2 DEF ChainStep
      <4> QED
        BY <2>5, <3>2, <4>1
    <3> QED
      BY <3>1, <3>2
  <2>9. f = [i \in D |-> B(f, i)]
    <3> HIDE DEF B
    <3> QED
      BY <2>7, <2>8
  <2> QED
    BY <2>9 DEF D
<1> HIDE DEF w
<1>5. \A i \in D : w[i] = B(w, i)
  <2> HIDE DEF B, D
  <2> QED
    BY <1>4
<1>6. \A i \in D : w[i] \in Nat /\ w[i] >= 96
  <2> DEFINE In(i) == i \in D => w[i] \in Nat /\ w[i] >= 96
             N == {i \in Nat : In(i)}
  <2>1. In(0)
    OBVIOUS
  <2>2. ASSUME NEW i \in Nat, In(i)
        PROVE  In(i + 1)
    <3> SUFFICES ASSUME i + 1 \in D
                 PROVE  w[i + 1] \in Nat /\ w[i + 1] >= 96
      OBVIOUS
    <3>1. w[i + 1] = B(w, i + 1)
      BY <1>5
    <3>2. CASE i = 0
      BY <3>1, <3>2
    <3>3. CASE i # 0
      <4>1. i \in D /\ (i + 1) - 1 = i /\ i + 1 # 1
        BY <1>2, <3>3
      <4>2. w[i + 1] = w[i] + 16 + Chunks(list[i].name[2]) + Chunks(list[i].size)
        BY <3>1, <4>1
      <4>3. w[i] \in Nat /\ w[i] >= 96 /\ Chunks(list[i].name[2]) \in Nat /\ Chunks(list[i].size) \in Nat
        BY <1>3, <2>2, <4>1
      <4> QED
        BY <4>2, <4>3
    <3> QED
      BY <3>2, <3>3
  <2>3. Nat \subseteq N
    <3> HIDE DEF In
    <3>1. 0 \in N /\ \A i \in Nat : i \in N => i + 1 \in N
      BY <2>1, <2>2
    <3> HIDE DEF N
    <3> QED
      BY <3>1, Induction
  <2> QED
    BY <1>2, <2>3
<1>7. M \subseteq Nat /\ 96 \in M /\ \A a \in M : a >= 96
  <2>1. w[1] = 96
    BY <1>2, <1>5
  <2> QED
    BY <1>2, <1>6, <2>1
<1>8. \A a \in M : \E k \in D : H(a) = Header(0, "file", 0, list[k].size, list[k].name)
  <2> TAKE a \in M
  <2> DEFINE k == CHOOSE i \in DOMAIN list : w[i] = a
  <2>1. k \in D
    BY <1>2
  <2>2. a # 0 /\ a # 32 /\ a # 64
    BY <1>7
  <2>3. H(a) = Header(0, "file", 0, list[k].size, list[k].name)
    BY <2>2
  <2> QED
    BY <2>1, <2>3
<1>9. /\ H(0) = Header(0, "volume", 0, 0, <<"VMWos", 5>>)
      /\ H(32) = Header(64, "dir", 32, 0, <<".", 1>>)
      /\ H(64) = Header(96, "link", 32, 0, <<"..", 2>>)
  OBVIOUS
<1> HIDE DEF H, M
<1>10. MadeOf(list, M, im)
  BY <1>7, <1>8, <1>9 DEF MadeOf
<1> QED
  BY <1>1, <1>10

LEMMA MadeAreWell ==
    ASSUME RomfsGiven, NEW list \in FileLists
    PROVE  ImageWell(mkromfs(list))
<1> DEFINE im == mkromfs(list)
<1>1. ListWell(list)
  BY DEF RomfsGiven
<1>2. PICK made : MadeOf(list, made, im)
  BY <1>1, ImagesMade
<1> HIDE DEF im
<1> DEFINE D == DOMAIN im
<1>3. /\ D = {0, 32, 64} \union made /\ made \subseteq Nat /\ 96 \in made
      /\ \A a \in made : a >= 96
  BY <1>2 DEF MadeOf
<1>4. /\ im[0].next = 0 /\ im[0].type = "volume" /\ im[0].size = 0 /\ im[0].name = <<"VMWos", 5>>
      /\ im[32].next = 64 /\ im[32].type = "dir" /\ im[32].spec = 32 /\ im[32].size = 0
      /\ im[32].name = <<".", 1>>
      /\ im[64].next = 96 /\ im[64].type = "link" /\ im[64].spec = 32 /\ im[64].size = 0
      /\ im[64].name = <<"..", 2>>
  BY <1>2, HeaderFields DEF MadeOf
<1>5. ASSUME NEW a \in made
      PROVE  /\ im[a].next = 0 /\ im[a].type = "file"
             /\ \E k \in 1..Len(list) : im[a].size = list[k].size /\ im[a].name = list[k].name
  <2>1. PICK k \in 1..Len(list) : im[a] = Header(0, "file", 0, list[k].size, list[k].name)
    BY <1>2 DEF MadeOf
  <2> QED
    BY <2>1, HeaderFields
<1>6. im[0].name[2] = 5 /\ im[32].name[2] = 1 /\ im[64].name[2] = 2
  BY <1>4
<1>7. Root_of(im) = 32
  <2>1. Chunks(5) = 16
    BY DEF Chunks
  <2> QED
    BY <1>6, <2>1 DEF Root_of
<1>8. Room_for(1) /\ Room_for(2)
  <2>1. EntrySize(1) = 16 /\ EntrySize(2) = 16
    BY DEF EntrySize
  <2>2. \A size \in BufferSizes : size >= 16 /\ size \in Nat
    BY RomfsAssumption DEF RomfsGiven
  <2> QED
    BY <2>1, <2>2 DEF Room_for
<1>9. ASSUME NEW a \in D
      PROVE  HeaderWell(im, a)
  <2>1. CASE a = 0
    BY <1>3, <1>4, <1>6, <2>1 DEF HeaderWell
  <2>2. CASE a = 32
    BY <1>3, <1>4, <1>6, <1>8, <2>2 DEF HeaderWell
  <2>3. CASE a = 64
    BY <1>3, <1>4, <1>6, <1>8, <2>3 DEF HeaderWell
  <2>4. CASE a \in made
    <3>1. PICK k \in 1..Len(list) : im[a].size = list[k].size /\ im[a].name = list[k].name
      BY <1>5, <2>4
    <3>2. list[k].size \in Nat /\ list[k].name[2] \in Nat /\ Room_for(list[k].name[2])
      BY <1>1 DEF ListWell
    <3> QED
      BY <1>3, <1>5, <2>4, <3>1, <3>2 DEF HeaderWell
  <2> QED
    BY <1>3, <2>1, <2>2, <2>3, <2>4
<1>10. \E rank : Ranked(D, {0}, Nexts_of(im), rank)
  <2> DEFINE rank == [a \in D |-> IF a = 0 THEN 0 ELSE IF a = 32 THEN 3 ELSE IF a = 64 THEN 2 ELSE 1]
  <2>1. Nexts_of(im) \in [D -> D] /\ \A a \in D : Nexts_of(im)[a] = im[a].next
    BY <1>9 DEF HeaderWell, Nexts_of
  <2>2. rank \in [D -> Nat]
    OBVIOUS
  <2>3. 96 # 0 /\ 96 # 32 /\ 96 # 64 /\ 96 \in D /\ 64 \in D /\ 0 \in D
    BY <1>3
  <2>4. ASSUME NEW a \in D \ {0}
        PROVE  rank[Nexts_of(im)[a]] < rank[a]
    <3>1. CASE a = 32
      <4>1. Nexts_of(im)[a] = 64
        BY <1>4, <2>1, <3>1
      <4>2. rank[64] = 2 /\ rank[a] = 3
        BY <2>3, <3>1
      <4> QED
        BY <4>1, <4>2
    <3>2. CASE a = 64
      <4>1. Nexts_of(im)[a] = 96
        BY <1>4, <2>1, <3>2
      <4>2. rank[a] = 2
        BY <2>3, <3>2
      <4>3. rank[96] = 1
        <5> DEFINE b == 96
        <5>1. b \in D /\ b # 0 /\ b # 32 /\ b # 64
          BY <2>3
        <5> HIDE DEF b
        <5>2. rank[b] = 1
          BY <5>1
        <5> QED
          BY <5>2 DEF b
      <4> QED
        BY <4>1, <4>2, <4>3
    <3>3. CASE a \in made
      <4>0. im[a].next = 0 /\ Nexts_of(im)[a] = im[a].next
        BY <1>5, <2>1, <3>3
      <4>1. Nexts_of(im)[a] = 0 /\ a # 32 /\ a # 64 /\ a # 0
        <5>1. a >= 96
          BY <1>3, <3>3
        <5> HIDE DEF D, rank
        <5> QED
          BY <4>0, <5>1
      <4>2. rank[0] = 0
        BY <2>3
      <4>3. rank[a] = 1
        BY <4>1
      <4> QED
        BY <4>1, <4>2, <4>3
    <3> QED
      BY <1>3, <3>1, <3>2, <3>3
  <2> HIDE DEF rank
  <2>5. Ranked(D, {0}, Nexts_of(im), rank)
    BY <2>1, <2>2, <2>4 DEF Ranked
  <2> QED
    BY <2>5
<1>11. \E rank : Ranked(D, Proper(im), Links_of(im), rank)
  <2> DEFINE rank == [a \in D |-> IF a = 64 THEN 1 ELSE 0]
  <2>1. /\ Links_of(im) \in [D -> D]
        /\ \A a \in D : Links_of(im)[a] = IF im[a].type = "link" THEN im[a].spec ELSE a
    BY <1>9 DEF HeaderWell, Links_of
  <2>2. rank \in [D -> Nat] /\ 64 \in D /\ 32 \in D
    BY <1>3
  <2>3. ASSUME NEW a \in D \ Proper(im)
        PROVE  rank[Links_of(im)[a]] < rank[a]
    <3>1. im[a].type = "link"
      BY DEF Proper
    <3>2. a = 64
      BY <1>3, <1>4, <1>5, <3>1
    <3>3. Links_of(im)[a] = 32
      BY <1>4, <2>1, <2>2, <3>2
    <3>4. rank[32] = 0 /\ rank[64] = 1
      BY <2>2
    <3> QED
      BY <3>2, <3>3, <3>4
  <2> HIDE DEF rank
  <2>4. Ranked(D, Proper(im), Links_of(im), rank)
    BY <2>1, <2>2, <2>3 DEF Ranked
  <2> QED
    BY <2>4
<1>12. D \subseteq Nat /\ 0 \in D /\ 32 \in D
  BY <1>3
<1> HIDE DEF D
<1>13. ImageWell(im)
  BY <1>4, <1>7, <1>9, <1>10, <1>11, <1>12 DEF ImageWell, D
<1> QED
  BY <1>13 DEF im

-----------------------------------------------------------------------------
(* The invariant                                                           *)

Goes_on == IF progress = 0 THEN image[dir].spec ELSE On_from(progress)

PathHolds ==
    found.path # <<>> \/ found.inode # Missing_inode =>
      /\ root_dir # Missing_inode
      /\ found.path \in Seq(Range(found.path)) /\ found.inode = romfs_lookup_inode(found.path)

ListedHolds ==
    /\ progress \in DOMAIN image \union {Ended_list}
    /\ Walk(DOMAIN image, Nexts, listed, image[dir].spec, Goes_on)
    /\ complete => progress = Ended_list

DirHolds ==
    dir # Missing_inode =>
      /\ root_dir # Missing_inode /\ dir \in DOMAIN image /\ image[dir].type = "dir"
      /\ ~again => ListedHolds

FileHolds ==
    file # Missing_inode =>
      /\ root_dir # Missing_inode /\ file \in DOMAIN image
      /\ offset \in Nat /\ offset <= image[file].size
      /\ got \subseteq DataOf(file)..(DataOf(file) + image[file].size - 1)

RomfsHolds ==
    /\ root_dir # Missing_inode => ImageWell(image) /\ root_dir = Root_of(image)
    /\ PathHolds /\ DirHolds /\ FileHolds

LEMMA RootIs ==
    ASSUME ImageWell(image), root_dir = Root_of(image)
    PROVE  root_dir \in DOMAIN image /\ image[root_dir].type = "dir"
BY DEF ImageWell

\* What is found is what it stands for.
LEMMA FoundIsProper ==
    ASSUME ImageWell(image), root_dir = Root_of(image), NEW path, path \in Seq(Range(path)),
           romfs_lookup_inode(path) # Missing_inode
    PROVE  LET i == romfs_lookup_inode(path)
           IN i \in DOMAIN image /\ image[i].type # "link" /\ Followed(i) = i
<1>1. root_dir \in DOMAIN image /\ image[root_dir].type = "dir"
  BY RootIs
<1> DEFINE i == romfs_lookup_inode(path)
           parent == romfs_lookup_inode(Front(path))
<1>2. /\ i \in Address_or_none
      /\ path = <<>> => i = root_dir
      /\ path # <<>> => /\ parent \in Address_or_none
                        /\ i = IF parent = Missing_inode THEN Missing_inode
                               ELSE romfs_lookup_inode_dir(parent, Last(path))
  BY <1>1, PathGoesOn
<1>3. i # Missing_inode
  OBVIOUS
<1> HIDE DEF i, parent
<1>4. i \in DOMAIN image
  BY <1>2, <1>3 DEF Address_or_none
<1>5. CASE path = <<>>
  BY <1>1, <1>2, <1>4, <1>5, LinksEnd DEF i
<1>6. CASE path # <<>>
  <2>1. parent \in DOMAIN image /\ i = romfs_lookup_inode_dir(parent, Last(path))
    BY <1>2, <1>3, <1>6 DEF Address_or_none
  <2>2. FoundIn(parent, Last(path), i)
    BY <2>1, DirectorySearched
  <2>3. image[i].type # "link"
    BY <1>3, <2>2 DEF FoundIn
  <2> QED
    BY <1>4, <2>3, LinksEnd DEF i
<1> QED
  BY <1>5, <1>6

LEMMA SameImage ==
    ASSUME image' = image, root_dir' = root_dir
    PROVE  /\ romfs_lookup_inode(found.path)' = romfs_lookup_inode(found'.path)
           /\ Nexts' = Nexts
           /\ RomfsHolds => (root_dir # Missing_inode => ImageWell(image) /\ root_dir = Root_of(image))'
<1>1. romfs_lookup_inode(found.path)' = romfs_lookup_inode(found'.path)
  BY DEF romfs_lookup_inode, romfs_lookup_inode_dir, Followed
<1>2. Nexts' = Nexts
  BY DEF Nexts
<1>3. RomfsHolds => (root_dir # Missing_inode => ImageWell(image) /\ root_dir = Root_of(image))'
  BY DEF RomfsHolds
<1> QED
  BY <1>1, <1>2, <1>3

LEMMA PathUndisturbed == ASSUME PathHolds, UNCHANGED <<image, root_dir, found>> PROVE PathHolds'
<1>1. romfs_lookup_inode(found.path)' = romfs_lookup_inode(found.path)
  BY SameImage
<1> QED
  BY <1>1 DEF PathHolds

LEMMA DirUndisturbed ==
    ASSUME DirHolds, UNCHANGED <<image, root_dir, dir, progress, listed, complete, again>>
    PROVE  DirHolds'
BY DEF DirHolds, ListedHolds, Goes_on, On_from, Nexts

LEMMA FileUndisturbed ==
    ASSUME FileHolds, UNCHANGED <<image, root_dir, file, offset, got>>
    PROVE  FileHolds'
BY DEF FileHolds, DataOf

LEMMA RomMountKeeps == ASSUME RomfsGiven, RomfsHolds, mount PROVE RomfsHolds'
<1>1. /\ root_dir = Missing_inode /\ image' \in Images \union {mkromfs(list) : list \in FileLists}
      /\ root_dir' = 16 + Chunks(image'[0].name[2])
      /\ UNCHANGED <<found, dir, file>>
  BY DEF mount
<1>2. ImageWell(image')
  BY <1>1, MadeAreWell DEF RomfsGiven
<1>3. ImageWell(image)' /\ (root_dir = Root_of(image))'
  BY <1>1, <1>2 DEF Root_of
<1>4. found.path = <<>> /\ found.inode = Missing_inode /\ dir = Missing_inode /\ file = Missing_inode
  BY <1>1 DEF RomfsHolds, PathHolds, DirHolds, FileHolds
<1>5. PathHolds' /\ DirHolds' /\ FileHolds'
  BY <1>1, <1>4 DEF PathHolds, DirHolds, FileHolds
<1> QED
  BY <1>3, <1>5 DEF RomfsHolds

LEMMA LookupKeeps == ASSUME RomfsGiven, RomfsHolds, lookup PROVE RomfsHolds'
<1>1. root_dir # Missing_inode /\ ImageWell(image) /\ root_dir = Root_of(image)
  BY DEF lookup, Call_made, RomfsHolds
<1>2. UNCHANGED <<image, root_dir>>
  BY DEF lookup
<1>3. PICK path \in Paths :
        LET i == romfs_lookup_inode(path)
            inode == romfs_read_inode(i)
        IN IF i = Missing_inode
           THEN /\ found' = [path |-> path, inode |-> Missing_inode]
                /\ UNCHANGED <<dir, progress, listed, complete, again, file, offset, got>>
           ELSE /\ found' = [path |-> path, inode |-> inode.number]
                /\ IF inode.type = "dir"
                   THEN /\ dir' = inode.number /\ progress' = 0
                        /\ listed' = <<>> /\ complete' = FALSE /\ again' = FALSE
                        /\ UNCHANGED <<file, offset, got>>
                   ELSE /\ file' = inode.number /\ offset' = 0 /\ got' = {}
                        /\ UNCHANGED <<dir, progress, listed, complete, again>>
  BY DEF lookup
<1>4. path \in Seq(Range(path))
  BY DEF RomfsGiven
<1> DEFINE i == romfs_lookup_inode(path)
           inode == romfs_read_inode(i)
<1>5. i # Missing_inode =>
        /\ i \in DOMAIN image /\ inode.number = i /\ inode.type = image[i].type
  <2>1. i # Missing_inode => i \in DOMAIN image /\ Followed(i) = i
    BY <1>1, <1>4, FoundIsProper
  <2>2. inode.number = Followed(i) /\ inode.type = image[Followed(i)].type
    BY DEF romfs_read_inode
  <2> HIDE DEF i, inode
  <2> QED
    BY <2>1, <2>2
<1>6. found'.path = path /\ found'.inode = i
  <2>1. CASE i = Missing_inode
    BY <1>3, <2>1
  <2>2. CASE i # Missing_inode
    <3>1. found' = [path |-> path, inode |-> inode.number]
      BY <1>3, <2>2
    <3> HIDE DEF i, inode
    <3> QED
      BY <1>5, <2>2, <3>1
  <2> QED
    BY <2>1, <2>2
<1>7. PathHolds'
  <2>1. romfs_lookup_inode(found.path)' = i
    BY <1>2, <1>6, SameImage
  <2> HIDE DEF i
  <2> QED
    BY <1>1, <1>2, <1>4, <1>6, <2>1 DEF PathHolds
<1>8. DirHolds'
  <2>1. CASE i # Missing_inode /\ inode.type = "dir"
    <3>1. dir' = i /\ progress' = 0 /\ listed' = <<>> /\ complete' = FALSE
      <4>1. dir' = inode.number /\ progress' = 0 /\ listed' = <<>> /\ complete' = FALSE
        BY <1>3, <2>1
      <4> HIDE DEF i, inode
      <4> QED
        BY <1>5, <2>1, <4>1
    <3>2. i \in DOMAIN image /\ image[i].type = "dir"
      <4> HIDE DEF i, inode
      <4> QED
        BY <1>5, <2>1
    <3> HIDE DEF i, inode
    <3>3. dir' \in DOMAIN image' /\ image'[dir'].type = "dir"
      BY <1>2, <3>1, <3>2
    <3>4. ListedHolds'
      <4>1. 0 \in DOMAIN image'
        BY <1>1, <1>2, ImageParts
      <4>2. Goes_on' = image'[dir'].spec
        BY <3>1 DEF Goes_on
      <4>3. Walk(DOMAIN image', Nexts', <<>>, image'[dir'].spec, image'[dir'].spec)
        BY WalkNone
      <4> QED
        BY <3>1, <4>1, <4>2, <4>3 DEF ListedHolds
    <3> QED
      BY <1>1, <1>2, <3>3, <3>4 DEF DirHolds
  <2>2. CASE ~(i # Missing_inode /\ inode.type = "dir")
    <3>1. UNCHANGED <<dir, progress, listed, complete, again>>
      BY <1>3, <2>2
    <3> QED
      BY <1>2, <3>1, DirUndisturbed DEF RomfsHolds
  <2> QED
    BY <2>1, <2>2
<1>9. FileHolds'
  <2>1. CASE i # Missing_inode /\ inode.type # "dir"
    <3>1. file' = i /\ offset' = 0 /\ got' = {}
      <4>1. file' = inode.number /\ offset' = 0 /\ got' = {}
        BY <1>3, <2>1
      <4> HIDE DEF i, inode
      <4> QED
        BY <1>5, <2>1, <4>1
    <3> HIDE DEF inode
    <3>2. i \in DOMAIN image /\ image[i].size \in Nat
      BY <1>1, <1>5, <2>1, ImageParts
    <3> HIDE DEF i
    <3> QED
      BY <1>1, <1>2, <3>1, <3>2 DEF FileHolds
  <2>2. CASE ~(i # Missing_inode /\ inode.type # "dir")
    <3>1. UNCHANGED <<file, offset, got>>
      BY <1>3, <2>2
    <3> QED
      BY <1>2, <3>1, FileUndisturbed DEF RomfsHolds
  <2> QED
    BY <2>1, <2>2
<1> QED
  BY <1>2, <1>7, <1>8, <1>9, SameImage DEF RomfsHolds

LEMMA ListingKeeps == ASSUME RomfsHolds, romfs_getdents PROVE RomfsHolds'
<1>1. root_dir # Missing_inode /\ ImageWell(image) /\ dir # Missing_inode
  BY DEF romfs_getdents, Call_made, RomfsHolds
<1>2. UNCHANGED <<image, root_dir, found, dir, file, offset, got>>
  BY DEF romfs_getdents
<1>3. dir \in DOMAIN image /\ image[dir].type = "dir" /\ (~again => ListedHolds)
  BY <1>1 DEF RomfsHolds, DirHolds
<1>4. PathHolds' /\ FileHolds'
  BY <1>2, PathUndisturbed, FileUndisturbed DEF RomfsHolds
<1>5. ASSUME ~again'
      PROVE  ListedHolds'
  <2> DEFINE start == IF progress = 0 THEN image[dir].spec ELSE progress
  <2>1. PICK size \in BufferSizes :
          IF progress = Ended_list
          THEN complete' = TRUE /\ UNCHANGED <<progress, listed, again>>
          ELSE /\ progress' = Listing(start, size).at
               /\ listed' = listed \o Listing(start, size).entries
               /\ complete' = (Listing(start, size).entries = <<>>)
               /\ again' = (again \/ Listing(start, size).at = 0)
    BY DEF romfs_getdents
  <2>2. Nexts' = Nexts /\ image' = image /\ dir' = dir
    BY <1>2, SameImage
  <2>3. CASE progress = Ended_list
    <3>1. complete' = TRUE /\ UNCHANGED <<progress, listed, again>>
      BY <2>1, <2>3
    <3>2. ListedHolds
      BY <1>3, <1>5, <3>1
    <3>3. Goes_on' = Goes_on
      BY <2>2, <3>1 DEF Goes_on, On_from
    <3> QED
      BY <2>2, <2>3, <3>1, <3>2, <3>3 DEF ListedHolds
  <2>4. CASE progress # Ended_list
    <3> DEFINE result == Listing(start, size)
    <3>1. /\ progress' = result.at /\ listed' = listed \o result.entries
          /\ complete' = (result.entries = <<>>) /\ again' = (again \/ result.at = 0)
      BY <2>1, <2>4
    <3>2. ~again /\ result.at # 0
      BY <1>5, <3>1
    <3>3. ListedHolds
      BY <1>3, <3>2
    <3>4. start \in DOMAIN image /\ start # 0 /\ Goes_on = start
      <4>1. progress \in DOMAIN image
        BY <2>4, <3>3 DEF ListedHolds
      <4>2. image[dir].spec \in DOMAIN image /\ image[dir].spec # 0
        BY <1>1, <1>3, ImageParts
      <4> QED
        BY <2>4, <4>1, <4>2 DEF Goes_on, On_from
    <3>5. size \in Int
      BY RomfsAssumption
    <3> HIDE DEF start
    <3>6. /\ result \in Listings /\ result.entries # <<>>
          /\ Walk(DOMAIN image, Nexts, result.entries, start, On_from(result.at))
      BY <1>1, <3>4, <3>5, ListingGoes
    <3> HIDE DEF result
    <3>7. Walk(DOMAIN image, Nexts, listed, image[dir].spec, start)
      BY <3>3, <3>4 DEF ListedHolds
    <3>8. Walk(DOMAIN image, Nexts, listed \o result.entries, image[dir].spec, On_from(result.at))
      BY <3>6, <3>7, WalkJoins
    <3>9. Goes_on' = On_from(result.at) /\ complete' = FALSE
      BY <3>1, <3>2, <3>6 DEF Goes_on, On_from
    <3>10. progress' \in DOMAIN image \union {Ended_list}
      BY <3>1, <3>6 DEF Listings
    <3> QED
      BY <2>2, <3>1, <3>8, <3>9, <3>10 DEF ListedHolds
  <2> QED
    BY <2>3, <2>4
<1>6. DirHolds'
  BY <1>1, <1>2, <1>3, <1>5 DEF DirHolds
<1> QED
  BY <1>2, <1>4, <1>6, SameImage DEF RomfsHolds

LEMMA RomReadKeeps == ASSUME RomfsHolds, romfs_read_file \/ llseek PROVE RomfsHolds'
<1>1. /\ root_dir # Missing_inode /\ ImageWell(image) /\ file # Missing_inode
      /\ UNCHANGED <<image, root_dir, found, dir, progress, listed, complete, again, file>>
  BY DEF romfs_read_file, llseek, Call_made, RomfsHolds
<1>2. /\ file \in DOMAIN image /\ offset \in Nat /\ offset <= image[file].size
      /\ got \subseteq DataOf(file)..(DataOf(file) + image[file].size - 1)
  BY <1>1 DEF RomfsHolds, FileHolds
<1>3. image[file].size \in Nat /\ DataOf(file) \in Nat
  <2>1. image[file].size \in Nat /\ image[file].name[2] \in Nat /\ file \in Nat
    BY <1>1, <1>2, ImageParts
  <2>2. Chunks(image[file].name[2]) \in Nat
    BY <2>1, ChunksAre
  <2> QED
    BY <2>1, <2>2 DEF DataOf
<1>4. PathHolds' /\ DirHolds'
  BY <1>1, PathUndisturbed, DirUndisturbed DEF RomfsHolds
<1>5. DataOf(file)' = DataOf(file)
  BY <1>1 DEF DataOf
<1> DEFINE d == DataOf(file)
           z == image[file].size
<1>6. offset' \in Nat /\ offset' <= z /\ got' \subseteq d..(d + z - 1)
  <2>1. CASE romfs_read_file
    <3> DEFINE left == z - offset
               n(count) == IF left >= 0 /\ count > left THEN left ELSE count
    <3>1. PICK count \in Counts :
            /\ got' = (d + offset)..(d + offset + n(count) - 1)
            /\ offset' = offset + n(count)
      BY <2>1 DEF romfs_read_file
    <3>2. count \in Nat
      BY RomfsAssumption
    <3> HIDE DEF d, z
    <3>3. d \in Nat /\ z \in Nat
      BY <1>3 DEF d, z
    <3>4. n(count) \in Nat /\ offset + n(count) <= z
      BY <1>2, <3>2, <3>3 DEF z
    <3> DEFINE m == n(count)
    <3>5. m \in Nat /\ offset + m <= z /\ got' = (d + offset)..(d + offset + m - 1) /\ offset' = offset + m
      BY <3>1, <3>4
    <3> HIDE DEF m
    <3> QED
      BY <1>2, <3>3, <3>5
  <2>2. CASE llseek
    <3>1. offset' \in 0..z /\ got' = {}
      BY <2>2 DEF llseek
    <3> QED
      BY <1>3, <3>1
  <2> QED
    BY <2>1, <2>2
<1>7. FileHolds'
  BY <1>1, <1>2, <1>5, <1>6 DEF FileHolds
<1> QED
  BY <1>1, <1>4, <1>7, SameImage DEF RomfsHolds

LEMMA RomfsKept == ASSUME RomfsGiven, RomfsHolds, [RomfsNext]_romfs_vars PROVE RomfsHolds'
<1>1. CASE mount
  BY <1>1, RomMountKeeps
<1>2. CASE lookup
  BY <1>2, LookupKeeps
<1>3. CASE romfs_getdents
  BY <1>3, ListingKeeps
<1>4. CASE romfs_read_file \/ llseek
  BY <1>4, RomReadKeeps
<1>5. CASE UNCHANGED romfs_vars
  BY <1>5, SameImage, PathUndisturbed, DirUndisturbed, FileUndisturbed DEF romfs_vars, RomfsHolds
<1> QED
  BY <1>1, <1>2, <1>3, <1>4, <1>5 DEF RomfsNext

LEMMA RomfsBegins == ASSUME RomfsInit PROVE RomfsHolds
<1>1. /\ root_dir = Missing_inode /\ dir = Missing_inode /\ file = Missing_inode
      /\ found = [path |-> <<>>, inode |-> Missing_inode]
  BY DEF RomfsInit
<1>2. found.path = <<>> /\ found.inode = Missing_inode
  BY <1>1
<1> QED
  BY <1>1, <1>2 DEF RomfsHolds, PathHolds, DirHolds, FileHolds

-----------------------------------------------------------------------------

LEMMA PathsAreSound ==
    ASSUME RomfsHolds
    PROVE  /\ found.inode # Missing_inode =>
                /\ image[found.inode].type # "link"
                /\ found.path # <<>> =>
                     LET parent == romfs_lookup_inode(Front(found.path))
                     IN /\ image[parent].type = "dir"
                        /\ \E a \in InDirectory(parent) :
                              image[a].name = Last(found.path) /\ Target(a) = found.inode
           /\ found.inode = Missing_inode /\ found.path # <<>> =>
                LET parent == romfs_lookup_inode(Front(found.path))
                IN parent # Missing_inode /\ image[parent].type = "dir" =>
                     \A a \in InDirectory(parent) : image[a].name # Last(found.path)
<1> DEFINE path == found.path
           r == found.inode
           parent == romfs_lookup_inode(Front(path))
<1> SUFFICES ASSUME path # <<>> \/ r # Missing_inode
             PROVE  /\ r # Missing_inode =>
                         /\ image[r].type # "link"
                         /\ path # <<>> =>
                              /\ image[parent].type = "dir"
                              /\ \E a \in InDirectory(parent) :
                                    image[a].name = Last(path) /\ Target(a) = r
                    /\ (/\ r = Missing_inode /\ path # <<>>
                        /\ parent # Missing_inode /\ image[parent].type = "dir") =>
                         \A a \in InDirectory(parent) : image[a].name # Last(path)
  OBVIOUS
<1>1. /\ root_dir # Missing_inode /\ path \in Seq(Range(path)) /\ r = romfs_lookup_inode(path)
      /\ ImageWell(image) /\ root_dir = Root_of(image)
  BY DEF RomfsHolds, PathHolds
<1> HIDE DEF path, r
<1>2. r # Missing_inode => image[r].type # "link"
  BY <1>1, FoundIsProper
<1>3. path # <<>> => /\ parent \in Address_or_none
                     /\ r = IF parent = Missing_inode THEN Missing_inode
                            ELSE romfs_lookup_inode_dir(parent, Last(path))
  BY <1>1, RootIs, PathGoesOn
<1>4. ASSUME path # <<>>, parent # Missing_inode
      PROVE  FoundIn(parent, Last(path), r)
  <2>1. parent \in DOMAIN image /\ r = romfs_lookup_inode_dir(parent, Last(path))
    BY <1>3, <1>4 DEF Address_or_none
  <2> HIDE DEF parent
  <2> QED
    BY <1>1, <2>1, DirectorySearched
<1>5. ASSUME path # <<>>, r # Missing_inode
      PROVE  /\ image[parent].type = "dir"
             /\ \E a \in InDirectory(parent) : image[a].name = Last(path) /\ Target(a) = r
  <2>1. parent # Missing_inode
    BY <1>3, <1>5
  <2>2. parent \in DOMAIN image
    BY <1>3, <1>5, <2>1 DEF Address_or_none
  <2> HIDE DEF parent
  <2>3. /\ image[parent].type = "dir"
        /\ \E a \in InDirectory(parent) : image[a].name = Last(path) /\ Followed(a) = r
    BY <1>4, <1>5, <2>1 DEF FoundIn
  <2>4. image[parent].spec \in DOMAIN image
    BY <1>1, <2>2, <2>3, ImageParts
  <2>5. InDirectory(parent) \subseteq DOMAIN image
    BY ZenonT(60), <1>1, <2>4, ImageParts, ReachedFrom DEF InDirectory
  <2> QED
    BY <1>1, <2>3, <2>5, LinksEnd
<1>6. ASSUME path # <<>>, r = Missing_inode, parent # Missing_inode, image[parent].type = "dir"
      PROVE  \A a \in InDirectory(parent) : image[a].name # Last(path)
  <2> HIDE DEF parent
  <2> QED
    BY <1>4, <1>6 DEF FoundIn
<1> HIDE DEF parent
<1> QED
  BY <1>2, <1>5, <1>6

LEMMA ListingsAreSound ==
    ASSUME RomfsHolds, dir # Missing_inode, ~again
    PROVE  /\ IsInjective(listed) /\ Range(listed) \subseteq InDirectory(dir)
           /\ complete => Range(listed) = InDirectory(dir)
<1>1. ImageWell(image) /\ dir \in DOMAIN image /\ image[dir].type = "dir" /\ ListedHolds
  BY DEF RomfsHolds, DirHolds
<1> DEFINE D == DOMAIN image
           s == image[dir].spec
<1>2. /\ Walk(D, Nexts, listed, s, Goes_on) /\ listed \in Seq(D) /\ Len(listed) \in Nat
      /\ \A k \in 1..Len(listed) : listed[k] \in D /\ listed[k] # 0
      /\ complete => Goes_on = 0
  <2>1. Walk(D, Nexts, listed, s, Goes_on)
    BY <1>1 DEF ListedHolds
  <2>2. complete => Goes_on = 0
    BY <1>1 DEF ListedHolds, Goes_on, On_from, Ended_list
  <2> HIDE DEF D
  <2> QED
    BY <2>1, <2>2 DEF Walk
<1>3. /\ s \in D /\ Nexts \in [D -> D] /\ 0 \in D /\ Nexts[0] = 0
      /\ \E rank : Ranked(D, {0}, Nexts, rank)
  <2>1. /\ s \in D /\ Nexts \in [D -> D] /\ 0 \in D /\ Nexts[0] = 0
        /\ Nexts_of(image) = Nexts
    BY <1>1, ImageParts
  <2>2. \E rank : Ranked(D, {0}, Nexts_of(image), rank)
    BY <1>1 DEF ImageWell
  <2> QED
    BY <2>1, <2>2
<1> HIDE DEF D, s
<1>4. DOMAIN listed = 1..Len(listed) /\ Range(listed) = {listed[k] : k \in 1..Len(listed)}
  <2>1. DOMAIN listed = 1..Len(listed)
    BY <1>2
  <2> QED
    BY <2>1 DEF Range
<1>5. InDirectory(dir) = Reached(s, Nexts) \ {0}
  BY DEF InDirectory, s
<1>6. IsInjective(listed)
  <2>1. PICK rank : Ranked(D, {0}, Nexts, rank)
    BY <1>3
  <2>2. \A j, k \in 1..Len(listed) : j < k => rank[listed[k]] < rank[listed[j]]
    BY <1>2, <2>1, WalkFalls
  <2>3. \A k \in 1..Len(listed) : rank[listed[k]] \in Nat
    BY <1>2, <2>1 DEF Ranked
  <2>4. \A j, k \in 1..Len(listed) : listed[j] = listed[k] => j = k
    BY <1>2, <2>2, <2>3
  <2> QED
    BY <1>4, <2>4 DEF IsInjective
<1>7. Range(listed) \subseteq InDirectory(dir)
  <2>1. \A k \in 1..Len(listed) : listed[k] \in Reached(s, Nexts)
    BY <1>2, <1>3, WalkStays
  <2> QED
    BY <1>2, <1>4, <1>5, <2>1
<1>8. complete => InDirectory(dir) \subseteq Range(listed)
  <2>1. complete => Reached(s, Nexts) \ {0} \subseteq {listed[k] : k \in 1..Len(listed)}
    BY <1>2, <1>3, WalkStays
  <2> QED
    BY <1>4, <1>5, <2>1
<1> QED
  BY <1>6, <1>7, <1>8

\* A path leads, through hard links, to what its names say, a listing that is
\* complete has every entry once, and what is read is of the file
\* (romfs.c:143-167, 275-380, 433-581), for any well-formed images and whatever
\* mkromfs is given, any paths, buffers and numbers of bytes.
THEOREM StorageRomfsRight == ASSUME RomfsGiven PROVE StorageSpec => []RomfsRight
<1>1. StorageInit => RomfsHolds
  BY RomfsBegins DEF StorageInit
<1>2. RomfsGiven /\ RomfsHolds /\ [StorageNext]_storage_vars => RomfsHolds'
  <2> SUFFICES ASSUME RomfsGiven, RomfsHolds, [StorageNext]_storage_vars
               PROVE  RomfsHolds'
    OBVIOUS
  <2>1. [RomfsNext]_romfs_vars
    BY DEF StorageNext, storage_vars, Vfs_step, Romfs_step, Mounts_step, FileIO_step, Catalog_step
  <2> QED
    BY <2>1, RomfsKept
<1>3. RomfsHolds => RomfsRight
  <2> SUFFICES ASSUME RomfsHolds
               PROVE  RomfsSound
    BY DEF RomfsRight
  <2>1. file # Missing_inode =>
          got \subseteq DataOf(file)..(DataOf(file) + image[file].size - 1)
    BY DEF RomfsHolds, FileHolds
  <2>2. dir # Missing_inode /\ ~again =>
          /\ IsInjective(listed) /\ Range(listed) \subseteq InDirectory(dir)
          /\ complete => Range(listed) = InDirectory(dir)
    BY ListingsAreSound
  <2> QED
    BY <2>1, <2>2, PathsAreSound DEF RomfsSound
<1> QED
  BY <1>1, <1>2, <1>3, PTL DEF StorageSpec

=============================================================================
