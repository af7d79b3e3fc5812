--------------------------- MODULE PlatformProofs ---------------------------
(***************************************************************************)
(* Proofs about what lies under the processes, and about the runs of the   *)
(* platform as a whole: the memory allocator, the kernel log, the clock    *)
(* and its sleepers, the start of the other cores, the page table, the     *)
(* firmware's answers, a program's image, and the properties of the whole. *)
(***************************************************************************)
EXTENDS Platform, FiniteSetTheorems, WellFoundedInduction, TLAPS

-----------------------------------------------------------------------------
(* Memory, for any amount of it, any chunk size and any number of          *)
(* processes: as long as it does not run out and no program is empty, what *)
(* is handed out is disjoint and stays marked; without repeated execve     *)
(* only what malloc handed out is lost.                                    *)

\* The cases that break the allocator are excluded (the run
\* memory_exhausted shows what the first does; an empty program makes
\* process_destroy() free 2^20 chunks).
Sane == Liberties \cap {"exhaust", "empty_file"} = {}

\* A nonempty set of naturals has a least element.
LEMMA LeastExists ==
    ASSUME NEW T, T \subseteq Nat, T # {}
    PROVE  \E x \in T : \A y \in T : x <= y
  <1>1. \E x \in T : \A y \in T : ~(<<y, x>> \in OpToRel(<, Nat))
    BY WFMin, NatLessThanWellFounded
  <1>2. \A x, y \in Nat : ~(<<y, x>> \in OpToRel(<, Nat)) => x <= y
    BY DEF OpToRel
  <1> QED
    BY <1>1, <1>2

\* The number of chunks allocated for a request is positive, and the number
\* freed for the same size is the same.
LEMMA Chunks ==
    \A size \in Sizes : /\ ChunksAllocated(size) \in Nat \ {0}
                        /\ ChunksFreed(size) = ChunksAllocated(size)
  <1> SUFFICES ASSUME NEW size \in Sizes
               PROVE  /\ ChunksAllocated(size) \in Nat \ {0}
                      /\ ChunksFreed(size) = ChunksAllocated(size)
    OBVIOUS
  <1>1. size \in Nat /\ size >= 1 /\ size < WORD /\ WORD \in Nat
    BY MemoryAssumption
  <1>2. (size - 1) % WORD = size - 1
    BY <1>1
  <1>3. (size - 1) \div CHUNK_SIZE \in Nat
    BY <1>1, MemoryAssumption
  <1> QED
    BY <1>1, <1>2, <1>3 DEF ChunksAllocated, ChunksFreed

\* find_free() fails or returns a place inside the area whose chunks are all
\* free.
LEMMA FindFree ==
    ASSUME NEW map, NEW n \in Nat \ {0}, NEW start \in Nat, NEW end \in Nat,
           NEW f, f = find_free(map, n, start, end), ~(f < 0)
    PROVE  /\ f \in start..(end - 1)
           /\ Marked(f, n) \cap map = {}
           /\ Marked(f, n) \subseteq start..(end - 1)
  <1> DEFINE fits == Fits(map, n, start, end)
  <1>1. fits # {}
    BY MemoryAssumption DEF find_free
  <1>2. fits \subseteq Nat
    BY DEF Fits
  <1>3. \E k \in fits : \A j \in fits : k <= j
    BY <1>1, <1>2, LeastExists
  <1>4. f = CHOOSE k \in fits : \A j \in fits : k <= j
    BY <1>1 DEF find_free
  <1>5. f \in fits
    BY <1>3, <1>4
  <1> QED
    BY <1>5 DEF Fits, Marked
-----------------------------------------------------------------------------
(* The inductive invariant                                                 *)

\* Stack and text come and go together, sizes are those of real requests,
\* and the off-screen buffer is in the kernel's area.
Recorded ==
    /\ \A p \in Proc : /\ stack[p] = NULL <=> text[p] = NULL
                       /\ stack[p] # NULL => stacksize[p] \in Sizes
                       /\ text[p] # NULL => textsize[p] \in Sizes
    /\ \A r \in offscreen : Region(r) \subseteq KernelArea

MemoryInv == TypeOK /\ Recorded /\ RegionsApart /\ HeldIsMarked

LEMMA MemoryInvInit == Init => MemoryInv
  <1> SUFFICES ASSUME Init PROVE MemoryInv
    OBVIOUS
  <1>1. TypeOK
    BY MemoryAssumption DEF Init, TypeOK, Boot
  <1>2. Recorded
    BY DEF Init, Recorded
  <1>3. \A p \in Proc : StackOf(p) = {} /\ TextOf(p) = {} /\ Held(p) = {}
    BY DEF Init, StackOf, TextOf, Held
  <1>4. RegionsApart
    BY <1>3 DEF Init, RegionsApart
  <1>5. HeldIsMarked
    BY <1>3 DEF Init, HeldIsMarked
  <1> QED
    BY <1>1, <1>2, <1>4, <1>5 DEF MemoryInv

\* What a successful user allocation returns.
LEMMA UserAllocation ==
    ASSUME Sane, NEW map, NEW size \in Sizes, NEW f,
           f = memory_allocate_user(map, size), Granted(f)
    PROVE  /\ f \in Nat
           /\ Marked(f, ChunksAllocated(size)) \cap map = {}
           /\ Marked(f, ChunksAllocated(size)) \subseteq UserArea
  <1>1. ~(f < 0)
    BY DEF Sane, Granted
  <1>2. ChunksAllocated(size) \in Nat \ {0}
    BY Chunks
  <1>3. RESERVED \in Nat /\ max_chunk \in Nat
    BY MemoryAssumption
  <1>4. f = find_free(map, ChunksAllocated(size), RESERVED, max_chunk)
    BY DEF memory_allocate_user
  <1> QED
    BY <1>1, <1>2, <1>3, <1>4, FindFree DEF UserArea

LEMMA KernelAllocation ==
    ASSUME Sane, NEW map, NEW size \in Sizes, NEW f,
           f = memory_allocate_kernel(map, size), Granted(f)
    PROVE  /\ f \in Nat
           /\ Marked(f, ChunksAllocated(size)) \cap map = {}
           /\ Marked(f, ChunksAllocated(size)) \subseteq KernelArea
  <1>1. ~(f < 0)
    BY DEF Sane, Granted
  <1>2. ChunksAllocated(size) \in Nat \ {0}
    BY Chunks
  <1>3. RESERVED \in Nat
    BY MemoryAssumption
  <1>4. f = find_free(map, ChunksAllocated(size), 0, RESERVED)
    BY DEF memory_allocate_kernel
  <1> QED
    BY <1>1, <1>2, <1>3, <1>4, FindFree DEF KernelArea

\* One more region.
LEMMA OneMore ==
    ASSUME NEW H, NEW r
    PROVE  UNION {Region(x) : x \in H \cup {r}}
             = (UNION {Region(x) : x \in H}) \cup Region(r)
  <1> DEFINE A == UNION {Region(x) : x \in H \cup {r}}
             B == (UNION {Region(x) : x \in H}) \cup Region(r)
  <1>1. \A c : c \in A => c \in B
    OBVIOUS
  <1>2. \A c : c \in B => c \in A
    OBVIOUS
  <1> QED
    BY <1>1, <1>2

LEMMA MemoryInvStep == Sane /\ MemoryInv /\ [Next]_vars => MemoryInv'
  <1> SUFFICES ASSUME Sane, MemoryInv, [Next]_vars PROVE MemoryInv'
    OBVIOUS
  <1>0. /\ TypeOK /\ Recorded /\ RegionsApart /\ HeldIsMarked
        /\ Sizes \subseteq Nat /\ NULL \notin Int
        /\ UserArea \subseteq 0..(max_chunk - 1)
        /\ KernelArea \subseteq 0..(max_chunk - 1)
        /\ UserArea \cap KernelArea = {} /\ Boot \cap UserArea = {}
    BY MemoryAssumption DEF MemoryInv, UserArea, KernelArea, Boot
  <1>1. CASE UNCHANGED vars
    <2>1. /\ UNCHANGED <<used, stack, text, stacksize, textsize, heap, offscreen>>
          /\ \A q \in Proc : /\ StackOf(q)' = StackOf(q) /\ TextOf(q)' = TextOf(q)
                             /\ Held(q)' = Held(q)
      BY <1>1 DEF vars, Held, StackOf, TextOf, Region
    <2>2. TypeOK' /\ Recorded'
      BY <1>0, <2>1 DEF TypeOK, Recorded, Region, KernelArea
    <2>3. RegionsApart' /\ HeldIsMarked'
      BY <1>0, <2>1 DEF RegionsApart, HeldIsMarked, Region, UserArea, Boot
    <2> QED
      BY <2>2, <2>3 DEF MemoryInv
  <1>2. ASSUME NEW p \in Proc, NEW s \in Sizes, NEW t \in Sizes \cup {0},
               execve(p, s, t)
        PROVE  MemoryInv'
    <2>1. t \in Sizes
      BY <1>2 DEF execve, Sane
    <2> DEFINE f == memory_allocate_user(used, s)
               used1 == Allocated(used, f, s)
               g == memory_allocate_user(used1, t)
               S == Marked(f, ChunksAllocated(s))
               T == Marked(g, ChunksAllocated(t))
    <2>2. /\ Granted(f) /\ Granted(g)
          /\ used' = Allocated(used1, g, t)
          /\ stack' = [stack EXCEPT ![p] = f] /\ text' = [text EXCEPT ![p] = g]
          /\ stacksize' = [stacksize EXCEPT ![p] = s]
          /\ textsize' = [textsize EXCEPT ![p] = t]
          /\ heap' = heap /\ offscreen' = offscreen
      BY <1>2 DEF execve
    <2>3. f \in Nat /\ S \cap used = {} /\ S \subseteq UserArea
      BY <2>2, UserAllocation
    <2>4. g \in Nat /\ T \cap used1 = {} /\ T \subseteq UserArea
      BY <2>1, <2>2, UserAllocation
    <2>5. used1 = used \cup S /\ used' = used \cup S \cup T
      BY <2>2 DEF Allocated
    <2> HIDE DEF f, g, used1
    <2>6. TypeOK'
      <3>1. used' \subseteq 0..(max_chunk - 1)
        BY <1>0, <2>3, <2>4, <2>5 DEF TypeOK
      <3>2. s \in Nat /\ t \in Nat /\ f \in Int /\ g \in Int
        BY <1>0, <2>1, <2>3, <2>4
      <3> QED
        BY <1>0, <2>2, <3>1, <3>2 DEF TypeOK
    <2>7. /\ StackOf(p)' = S /\ TextOf(p)' = T
          /\ \A q \in Proc \ {p} : StackOf(q)' = StackOf(q) /\ TextOf(q)' = TextOf(q)
      BY <1>0, <2>2, <2>3, <2>4 DEF TypeOK, StackOf, TextOf
    <2> HIDE DEF S, T
    <2>8. Recorded'
      BY <1>0, <2>1, <2>2, <2>3, <2>4 DEF TypeOK, Recorded, Region
    <2>9. /\ Held(p)' \subseteq Held(p) \cup S \cup T
          /\ \A q \in Proc \ {p} : Held(q)' = Held(q)
      BY <2>2, <2>7 DEF Held, Region
    <2>10. \A q \in Proc : Held(q) \subseteq used
      BY <1>0 DEF HeldIsMarked
    <2>11. \A r \in heap[p] : Region(r) \subseteq Held(p)
      BY DEF Held
    <2>12. RegionsApart'
      <3>1. \A q, r \in Proc : q # r => Held(q)' \cap Held(r)' = {}
        BY <1>0, <2>3, <2>4, <2>5, <2>9, <2>10 DEF RegionsApart
      <3>2. \A q \in Proc : Held(q)' \subseteq UserArea
        BY <1>0, <2>3, <2>4, <2>9 DEF RegionsApart
      <3>3. ASSUME NEW q \in Proc
            PROVE  /\ StackOf(q)' \cap TextOf(q)' = {}
                   /\ \A r \in heap[q] : /\ Region(r) \cap StackOf(q)' = {}
                                         /\ Region(r) \cap TextOf(q)' = {}
        <4>1. CASE q = p
          BY <4>1, <2>3, <2>4, <2>5, <2>7, <2>10, <2>11
        <4>2. CASE q # p
          BY <4>2, <1>0, <2>7 DEF RegionsApart
        <4> QED
          BY <4>1, <4>2
      <3> QED
        BY <1>0, <2>2, <3>1, <3>2, <3>3 DEF RegionsApart, Region, UserArea
    <2>13. HeldIsMarked'
      BY <1>0, <2>2, <2>5, <2>9 DEF HeldIsMarked, Region, Boot
    <2> QED
      BY <2>6, <2>8, <2>12, <2>13 DEF MemoryInv
  <1>3. ASSUME NEW p \in Proc, process_destroy(p)
        PROVE  MemoryInv'
    <2>1. /\ stack[p] # NULL /\ text[p] # NULL
          /\ stacksize[p] \in Sizes /\ textsize[p] \in Sizes
      BY <1>0, <1>3 DEF process_destroy, Recorded
    <2>2. used' = (used \ StackOf(p)) \ TextOf(p)
      BY <2>1, <1>3, Chunks DEF process_destroy, Freed, memory_free, StackOf, TextOf
    <2>3. /\ stack' = [stack EXCEPT ![p] = NULL] /\ text' = [text EXCEPT ![p] = NULL]
          /\ UNCHANGED <<stacksize, textsize, heap, offscreen>>
      BY <1>3 DEF process_destroy
    <2>4. TypeOK'
      BY <1>0, <2>2, <2>3 DEF TypeOK
    <2>5. Recorded'
      BY <1>0, <2>3 DEF TypeOK, Recorded, Region
    <2>6. /\ StackOf(p)' = {} /\ TextOf(p)' = {}
          /\ \A q \in Proc \ {p} : StackOf(q)' = StackOf(q) /\ TextOf(q)' = TextOf(q)
      BY <1>0, <2>3 DEF TypeOK, StackOf, TextOf
    <2>8. /\ Held(p)' = UNION {Region(r) : r \in heap[p]}
          /\ \A q \in Proc \ {p} : Held(q)' = Held(q)
      BY <2>3, <2>6 DEF Held, Region
    <2>9. RegionsApart'
      <3>1. \A q \in Proc : Held(q)' \subseteq Held(q)
        BY <2>8 DEF Held
      <3> QED
        BY <1>0, <2>3, <2>6, <3>1 DEF RegionsApart, Region, UserArea
    <2>10. StackOf(p) \subseteq Held(p) /\ TextOf(p) \subseteq Held(p)
      BY DEF Held
    <2>11. \A r \in offscreen : Region(r) \cap Held(p) = {}
      BY <1>0 DEF Recorded, RegionsApart
    <2>12. Boot \cap Held(p) = {}
      BY <1>0 DEF RegionsApart
    <2>13. \A q \in Proc \ {p} : Held(q) \cap Held(p) = {}
      BY <1>0 DEF RegionsApart
    <2>14. HeldIsMarked'
      <3>1. Boot \subseteq used'
        BY <1>0, <2>2, <2>10, <2>12 DEF HeldIsMarked
      <3>2. \A r \in offscreen : Region(r) \subseteq used'
        BY <1>0, <2>2, <2>10, <2>11 DEF HeldIsMarked
      <3>3. \A q \in Proc \ {p} : Held(q)' \subseteq used'
        BY <1>0, <2>2, <2>8, <2>10, <2>13 DEF HeldIsMarked
      <3>4. \A r \in heap[p] : Region(r) \subseteq used'
        BY <1>0, <2>2 DEF HeldIsMarked, Held, RegionsApart
      <3>5. Held(p)' \subseteq used'
        BY <2>8, <3>4
      <3> QED
        BY <2>3, <3>1, <3>2, <3>3, <3>5 DEF HeldIsMarked, Region, Boot
    <2> QED
      BY <2>4, <2>5, <2>9, <2>14 DEF MemoryInv
  <1>4. ASSUME NEW p \in Proc, NEW s \in Sizes, malloc(p, s)
        PROVE  MemoryInv'
    <2> DEFINE f == memory_allocate_user(used, s)
               S == Region(<<f, s>>)
    <2>1. /\ text[p] # NULL /\ Granted(f) /\ used' = Allocated(used, f, s)
          /\ heap' = [heap EXCEPT ![p] = @ \cup {<<f, s>>}]
          /\ UNCHANGED <<stack, text, stacksize, textsize, offscreen>>
      BY <1>4 DEF malloc
    <2>2. f \in Nat /\ S \cap used = {} /\ S \subseteq UserArea
      BY <2>1, UserAllocation DEF Region
    <2>3. used' = used \cup S
      BY <2>1 DEF Allocated, Region
    <2> HIDE DEF f
    <2>4. TypeOK'
      <3>1. used' \subseteq 0..(max_chunk - 1)
        BY <1>0, <2>2, <2>3 DEF TypeOK
      <3>2. <<f, s>> \in Int \X Nat
        BY <1>0, <2>2
      <3>3. heap' \in [Proc -> SUBSET (Int \X Nat)]
        BY <1>0, <2>1, <3>2 DEF TypeOK
      <3> QED
        BY <1>0, <2>1, <3>1, <3>3 DEF TypeOK
    <2>5. Recorded'
      BY <1>0, <2>1 DEF TypeOK, Recorded, Region
    <2>6. \A q \in Proc : StackOf(q)' = StackOf(q) /\ TextOf(q)' = TextOf(q)
      BY <2>1 DEF StackOf, TextOf
    <2>7. /\ heap'[p] = heap[p] \cup {<<f, s>>}
          /\ \A q \in Proc \ {p} : heap'[q] = heap[q]
      BY <1>0, <2>1 DEF TypeOK
    <2>8. Held(p)' = Held(p) \cup S /\ \A q \in Proc \ {p} : Held(q)' = Held(q)
      <3>1. \A q \in Proc :
              Held(q)' = StackOf(q) \cup TextOf(q) \cup UNION {Region(r) : r \in heap'[q]}
        BY <2>6 DEF Held, Region
      <3>2. UNION {Region(r) : r \in heap'[p]} = (UNION {Region(r) : r \in heap[p]}) \cup S
        BY <2>7, OneMore
      <3>3. Held(p)' = Held(p) \cup S
        BY <3>1, <3>2 DEF Held
      <3>4. \A q \in Proc \ {p} : Held(q)' = Held(q)
        BY <2>7, <3>1 DEF Held
      <3> QED
        BY <3>3, <3>4
    <2>9. \A q \in Proc : Held(q) \subseteq used
      BY <1>0 DEF HeldIsMarked
    <2>10. /\ StackOf(p) \subseteq Held(p) /\ TextOf(p) \subseteq Held(p)
           /\ \A r \in heap[p] : Region(r) \subseteq Held(p)
      BY DEF Held
    <2> HIDE DEF S
    <2>11. RegionsApart'
      <3>1. \A q, r \in Proc : q # r => Held(q)' \cap Held(r)' = {}
        BY <1>0, <2>2, <2>8, <2>9 DEF RegionsApart
      <3>2. \A q \in Proc : Held(q)' \subseteq UserArea
        BY <1>0, <2>2, <2>8 DEF RegionsApart
      <3>3. ASSUME NEW q \in Proc
            PROVE  /\ \A r \in heap'[q] : /\ Region(r) \cap StackOf(q) = {}
                                          /\ Region(r) \cap TextOf(q) = {}
                   /\ \A r, t \in heap'[q] : r # t => Region(r) \cap Region(t) = {}
        <4>1. CASE q # p
          BY <4>1, <1>0, <2>7 DEF RegionsApart
        <4>2. CASE q = p
          <5>1. Region(<<f, s>>) \cap Held(p) = {}
            BY <2>2, <2>9 DEF S
          <5> QED
            BY <4>2, <1>0, <2>7, <2>10, <5>1 DEF RegionsApart
        <4> QED
          BY <4>1, <4>2
      <3> QED
        BY <1>0, <2>6, <3>1, <3>2, <3>3 DEF RegionsApart, Region, UserArea
    <2>12. HeldIsMarked'
      BY <1>0, <2>1, <2>3, <2>8 DEF HeldIsMarked, Region, Boot
    <2> QED
      BY <2>4, <2>5, <2>11, <2>12 DEF MemoryInv
  <1>5. ASSUME NEW s \in Sizes, framebuffer_init(s)
        PROVE  MemoryInv'
    <2> DEFINE f == memory_allocate_kernel(used, s)
               S == Region(<<f, s>>)
    <2>1. /\ Granted(f) /\ used' = Allocated(used, f, s)
          /\ offscreen' = {<<f, s>>}
          /\ UNCHANGED <<stack, text, stacksize, textsize, heap>>
      BY <1>5 DEF framebuffer_init
    <2>2. f \in Nat /\ S \cap used = {} /\ S \subseteq KernelArea
      BY <2>1, KernelAllocation DEF Region
    <2>3. used' = used \cup S
      BY <2>1 DEF Allocated, Region
    <2> HIDE DEF f
    <2>4. TypeOK'
      <3>1. used' \subseteq 0..(max_chunk - 1)
        BY <1>0, <2>2, <2>3 DEF TypeOK
      <3>2. <<f, s>> \in Int \X Nat
        BY <1>0, <2>2
      <3> QED
        BY <1>0, <2>1, <3>1, <3>2 DEF TypeOK
    <2>5. Recorded'
      BY <1>0, <2>1, <2>2 DEF TypeOK, Recorded, Region, KernelArea
    <2>6. \A q \in Proc : StackOf(q)' = StackOf(q) /\ TextOf(q)' = TextOf(q)
      BY <2>1 DEF StackOf, TextOf
    <2>7. \A q \in Proc : Held(q)' = Held(q)
      BY <2>1, <2>6 DEF Held, Region
    <2>8. RegionsApart'
      BY <1>0, <2>1, <2>6, <2>7 DEF RegionsApart, Region, UserArea
    <2>9. HeldIsMarked'
      BY <1>0, <1>5, <2>1, <2>3, <2>7 DEF framebuffer_init, HeldIsMarked,
         Region, Boot
    <2> QED
      BY <2>4, <2>5, <2>8, <2>9 DEF MemoryInv
  <1> QED
    BY <1>1, <1>2, <1>3, <1>4, <1>5 DEF Next

LEMMA MemoryInvariant ==
    ASSUME Sane PROVE Spec => []MemoryInv
  <1>1. MemoryInv /\ [Next]_vars => MemoryInv'
    BY MemoryInvStep
  <1> QED
    BY <1>1, MemoryInvInit, PTL DEF Spec

\* However often programs replace themselves and whatever they get from
\* malloc, no two processes ever hold the same chunk, none holds one of the
\* kernel's, and a process' own stack, text and heap do not overlap.
THEOREM MemoryApart == ASSUME Sane PROVE Spec => []RegionsApart
  <1>1. MemoryInv => RegionsApart
    BY DEF MemoryInv
  <1> QED
    BY <1>1, MemoryInvariant, PTL

\* A chunk in use is never marked free, so memory_free() never takes away
\* what its caller did not get.
THEOREM MemoryMarked == ASSUME Sane PROVE Spec => []HeldIsMarked
  <1>1. MemoryInv => HeldIsMarked
    BY DEF MemoryInv
  <1> QED
    BY <1>1, MemoryInvariant, PTL

-----------------------------------------------------------------------------
(* Nothing is lost                                                         *)

\* If programs do not replace themselves, every chunk that is marked used is
\* in use or was handed out by malloc: exit and waitpid give back the rest.
THEOREM MemoryNoLeak == ASSUME Liberties \subseteq {"malloc"} PROVE Spec => []NoLeak
  <1>1. Init => NoLeak
    BY DEF Init, NoLeak
  <1>2. MemoryInv /\ NoLeak /\ [Next]_vars => NoLeak'
    <2> SUFFICES ASSUME MemoryInv, NoLeak, [Next]_vars
                 PROVE  NoLeak'
      OBVIOUS
    <2>0. TypeOK /\ Recorded /\ NULL \notin Int /\ Sane
      BY MemoryAssumption DEF MemoryInv, Sane
    <2>1. CASE UNCHANGED vars
      BY <2>1 DEF vars, NoLeak, Held, StackOf, TextOf, Region, Boot
    <2>2. ASSUME NEW p \in Proc, NEW s \in Sizes, NEW t \in Sizes \cup {0},
                 execve(p, s, t)
          PROVE  NoLeak'
      <3>1. t \in Sizes /\ text[p] = NULL /\ stack[p] = NULL
        BY <2>0, <2>2 DEF execve, Recorded
      <3> DEFINE f == memory_allocate_user(used, s)
                 used1 == Allocated(used, f, s)
                 g == memory_allocate_user(used1, t)
      <3>2. /\ Granted(f) /\ Granted(g)
            /\ used' = Allocated(used1, g, t)
            /\ stack' = [stack EXCEPT ![p] = f] /\ text' = [text EXCEPT ![p] = g]
            /\ stacksize' = [stacksize EXCEPT ![p] = s]
            /\ textsize' = [textsize EXCEPT ![p] = t]
            /\ heap' = heap /\ offscreen' = offscreen
        BY <2>2 DEF execve
      <3>3. f \in Nat /\ g \in Nat
        BY <2>0, <3>1, <3>2, UserAllocation
      <3>4. used' = used \cup Marked(f, ChunksAllocated(s))
                         \cup Marked(g, ChunksAllocated(t))
        BY <3>2 DEF Allocated
      <3> HIDE DEF f, g, used1
      <3>5. /\ StackOf(p)' = Marked(f, ChunksAllocated(s))
            /\ TextOf(p)' = Marked(g, ChunksAllocated(t))
        BY <2>0, <3>2, <3>3 DEF TypeOK, StackOf, TextOf
      <3>6. Held(p)' = StackOf(p)' \cup TextOf(p)' \cup Held(p)
        BY <3>1, <3>2 DEF Held, StackOf, TextOf, Region
      <3>7. \A q \in Proc \ {p} : Held(q)' = Held(q)
        BY <2>0, <3>2 DEF TypeOK, Held, StackOf, TextOf, Region
      <3> QED
        BY <3>2, <3>4, <3>5, <3>6, <3>7 DEF NoLeak, Region, Boot
    <2>3. ASSUME NEW p \in Proc, process_destroy(p)
          PROVE  NoLeak'
      <3>1. /\ stack[p] # NULL /\ text[p] # NULL
            /\ stacksize[p] \in Sizes /\ textsize[p] \in Sizes
        BY <2>0, <2>3 DEF process_destroy, Recorded
      <3>2. used' = (used \ StackOf(p)) \ TextOf(p)
        BY <2>3, <3>1, Chunks
           DEF process_destroy, Freed, memory_free, StackOf, TextOf
      <3>3. Held(p) \subseteq StackOf(p) \cup TextOf(p) \cup Held(p)'
        BY <2>3 DEF process_destroy, Held, Region
      <3>4. \A q \in Proc \ {p} : Held(q)' = Held(q)
        BY <2>0, <2>3 DEF process_destroy, TypeOK, Held, StackOf, TextOf, Region
      <3>5. offscreen' = offscreen
        BY <2>3 DEF process_destroy
      <3> QED
        BY <3>2, <3>3, <3>4, <3>5 DEF NoLeak, Region, Boot
    <2>4. ASSUME NEW p \in Proc, NEW s \in Sizes, malloc(p, s)
          PROVE  NoLeak'
      <3> DEFINE f == memory_allocate_user(used, s)
      <3>1. /\ used' = used \cup Region(<<f, s>>)
            /\ heap' = [heap EXCEPT ![p] = @ \cup {<<f, s>>}]
            /\ UNCHANGED <<stack, text, stacksize, textsize, offscreen>>
        BY <2>4 DEF malloc, Allocated, Region
      <3> HIDE DEF f
      <3>2. /\ heap'[p] = heap[p] \cup {<<f, s>>}
            /\ \A q \in Proc \ {p} : heap'[q] = heap[q]
        BY <2>0, <3>1 DEF TypeOK
      <3>3. \A q \in Proc : StackOf(q)' = StackOf(q) /\ TextOf(q)' = TextOf(q)
        BY <3>1 DEF StackOf, TextOf
      <3>4. \A q \in Proc :
              Held(q)' = StackOf(q) \cup TextOf(q) \cup UNION {Region(r) : r \in heap'[q]}
        BY <3>3 DEF Held, Region
      <3>5. UNION {Region(r) : r \in heap'[p]}
              = (UNION {Region(r) : r \in heap[p]}) \cup Region(<<f, s>>)
        BY <3>2, OneMore
      <3>6. Held(p)' = Held(p) \cup Region(<<f, s>>)
        BY <3>4, <3>5 DEF Held
      <3>7. \A q \in Proc \ {p} : Held(q)' = Held(q)
        BY <3>2, <3>4 DEF Held
      <3> QED
        BY <3>1, <3>6, <3>7 DEF NoLeak, Region, Boot
    <2>5. ASSUME NEW s \in Sizes, framebuffer_init(s)
          PROVE  NoLeak'
      <3> DEFINE f == memory_allocate_kernel(used, s)
      <3>1. /\ used' = used \cup Region(<<f, s>>)
            /\ offscreen = {} /\ offscreen' = {<<f, s>>}
            /\ UNCHANGED <<stack, text, stacksize, textsize, heap>>
        BY <2>5 DEF framebuffer_init, Allocated, Region
      <3> HIDE DEF f
      <3>2. \A q \in Proc : Held(q)' = Held(q)
        BY <3>1 DEF Held, StackOf, TextOf, Region
      <3> QED
        BY <3>1, <3>2 DEF NoLeak, Region, Boot
    <2> QED
      BY <2>1, <2>2, <2>3, <2>4, <2>5 DEF Next
  <1>3. Spec => []MemoryInv
    BY MemoryInvariant DEF Sane
  <1> QED
    BY <1>1, <1>2, <1>3, PTL DEF Spec

-----------------------------------------------------------------------------
(* The kernel log: for any size of the buffer the indexes stay in bounds,  *)
(* and READ_ALL returns the end of the log and nothing else.               *)

Bounds ==
    /\ dmesg_head \in 0..DMESG_SIZE
    /\ dmesg_tail \in 0..DMESG_SIZE
    /\ written \in Nat
    /\ dmesg_buffer \in [DmesgPlaces -> Int]

\* Every place that READ_ALL reads holds the byte that belongs there: in
\* front of the tail those of this round, behind the head those of the last.
Placed ==
    /\ \A spot \in DmesgPlaces :
         spot < dmesg_tail /\ (dmesg_head <= spot \/ dmesg_tail < dmesg_head)
         => dmesg_buffer[spot] = written - dmesg_tail + spot + 1
    /\ \A spot \in DmesgPlaces :
         dmesg_tail < dmesg_head /\ dmesg_head <= spot
         => dmesg_buffer[spot] = written - dmesg_tail - DMESG_SIZE + spot + 1

DmesgInv == Bounds /\ Placed

LEMMA DmesgInvInit == DmesgInit => DmesgInv
  BY DmesgAssumption DEF DmesgInit, DmesgInv, Bounds, Placed, DmesgPlaces

LEMMA DmesgInvStep == DmesgInv /\ [DmesgNext]_dmesg_vars => DmesgInv'
  <1> SUFFICES ASSUME DmesgInv, [DmesgNext]_dmesg_vars PROVE DmesgInv'
    OBVIOUS
  <1> USE DmesgAssumption DEF DmesgInv, Bounds, Placed, DmesgPlaces
  <1>1. CASE UNCHANGED dmesg_vars
    BY <1>1 DEF dmesg_vars
  <1>2. ASSUME NEW length \in 1..(2 * DMESG_SIZE), dmesg_append(length)
        PROVE  DmesgInv'
    <2>1. length \in Nat /\ length >= 1 /\ length < DMESG_SIZE
          /\ written' = written + length
      BY <1>2 DEF dmesg_append, Accepts
    <2>2. CASE append_straight(length)
      <3> DEFINE tail == dmesg_tail + length
      <3>1. /\ tail <= DMESG_SIZE /\ dmesg_tail' = tail
            /\ dmesg_buffer' = Copied(dmesg_buffer, dmesg_tail, tail, written + 1)
            /\ dmesg_head' = IF dmesg_tail < dmesg_head /\ dmesg_head < tail
                             THEN NewHead(tail) ELSE dmesg_head
        BY <2>2 DEF append_straight
      <3>2. Bounds'
        BY <2>1, <3>1 DEF Copied, NewHead
      <3>3. \A spot \in DmesgPlaces : dmesg_buffer'[spot] =
              IF dmesg_tail <= spot /\ spot < tail
              THEN written + 1 + (spot - dmesg_tail) ELSE dmesg_buffer[spot]
        BY <3>1 DEF Copied
      <3>4. Placed'
        BY SMTT(30), <2>1, <3>1, <3>2, <3>3 DEF NewHead
      <3> QED
        BY <3>2, <3>4
    <2>3. CASE append_around(length)
      <3> DEFINE tail == dmesg_tail + length - DMESG_SIZE
                 upper == DMESG_SIZE - dmesg_tail
      <3>1. /\ tail > 0 /\ dmesg_tail' = tail
            /\ dmesg_buffer' =
                 Copied(Copied(dmesg_buffer, dmesg_tail, DMESG_SIZE, written + 1),
                        0, tail, SecondPart(upper))
            /\ dmesg_head' = IF Overrun(tail) THEN NewHead(tail) ELSE dmesg_head
        BY <2>3 DEF append_around
      <3>2. tail < dmesg_tail /\ tail < DMESG_SIZE
        BY <2>1
      <3>3. Bounds'
        BY <2>1, <3>1, <3>2 DEF Copied, NewHead, SecondPart
      <3>4. \A spot \in DmesgPlaces : dmesg_buffer'[spot] =
              IF spot < tail THEN written + 1 + upper + spot
              ELSE IF dmesg_tail <= spot THEN written + 1 + (spot - dmesg_tail)
              ELSE dmesg_buffer[spot]
        BY <3>1, <3>2 DEF Copied, SecondPart
      <3>5. written' - dmesg_tail' = written + upper
        BY <2>1, <3>1
      <3>6. dmesg_head' \in Int /\ tail <= dmesg_head'
        BY <2>1, <3>1, <3>2 DEF NewHead, Overrun
      <3>7. ASSUME NEW spot \in DmesgPlaces, spot < tail
            PROVE  dmesg_buffer'[spot] = written' - dmesg_tail' + spot + 1
        BY <2>1, <3>2, <3>4, <3>5, <3>7
      <3>8. ASSUME NEW spot \in DmesgPlaces, tail <= spot, dmesg_head' <= spot,
                   dmesg_tail' < dmesg_head'
            PROVE  dmesg_buffer'[spot] = written' - dmesg_tail' - DMESG_SIZE + spot + 1
        <4>1. CASE dmesg_tail <= spot
          BY <2>1, <3>2, <3>4, <3>5, <3>8, <4>1
        <4>2. CASE spot < dmesg_tail
          <5>1. dmesg_head <= spot \/ dmesg_tail < dmesg_head
            BY <2>1, <3>1, <3>2, <3>8, <4>2 DEF NewHead, Overrun
          <5>2. dmesg_buffer'[spot] = dmesg_buffer[spot]
            BY <3>4, <3>8, <3>2, <4>2
          <5> QED
            BY <2>1, <3>2, <3>5, <4>2, <5>1, <5>2
        <4> QED
          BY <4>1, <4>2
      <3>9. Placed'
        <4>1. dmesg_tail' = tail /\ tail \in Int /\ dmesg_head' \in Int
          BY <2>1, <3>1, <3>6
        <4> HIDE DEF tail, upper, DmesgInv, Bounds
        <4>2. ASSUME NEW spot \in DmesgPlaces,
                     spot < dmesg_tail', dmesg_head' <= spot \/ dmesg_tail' < dmesg_head'
              PROVE  dmesg_buffer'[spot] = written' - dmesg_tail' + spot + 1
          BY <3>7, <4>1, <4>2
        <4>3. ASSUME NEW spot \in DmesgPlaces, dmesg_tail' < dmesg_head', dmesg_head' <= spot
              PROVE  dmesg_buffer'[spot] = written' - dmesg_tail' - DMESG_SIZE + spot + 1
          BY <3>6, <3>8, <4>1, <4>3
        <4> QED
          BY <4>2, <4>3
      <3> QED
        BY <3>3, <3>9
    <2> QED
      BY <1>2, <2>2, <2>3 DEF dmesg_append
  <1> QED
    BY <1>1, <1>2 DEF DmesgNext

LEMMA DmesgInvariant == DmesgSpec => []DmesgInv
  BY DmesgInvInit, DmesgInvStep, PTL DEF DmesgSpec

\* Two sequences laid end to end.
LEMMA Joined ==
    ASSUME NEW s \in Seq(Int), NEW t \in Seq(Int)
    PROVE  /\ s \o t \in Seq(Int)
           /\ Len(s \o t) = Len(s) + Len(t)
           /\ \A spot \in 1..(Len(s) + Len(t)) :
                (s \o t)[spot] = IF spot <= Len(s) THEN s[spot] ELSE t[spot - Len(s)]
  OBVIOUS

LEMMA SegmentIs ==
    ASSUME DmesgInv, NEW from \in 0..DMESG_SIZE, NEW to \in 0..DMESG_SIZE, from <= to
    PROVE  /\ Segment(from, to) \in Seq(Int)
           /\ Len(Segment(from, to)) = to - from
           /\ \A spot \in 1..(to - from) : Segment(from, to)[spot] = dmesg_buffer[from + spot - 1]
  BY DmesgAssumption DEF Segment, DmesgInv, Bounds, DmesgPlaces

LEMMA Correct == DmesgInv => InBounds /\ ReadsTheEnd
  <1> SUFFICES ASSUME DmesgInv PROVE InBounds /\ ReadsTheEnd
    OBVIOUS
  <1> USE DmesgAssumption
  <1>1. CASE dmesg_head > dmesg_tail
    <2> DEFINE s == Segment(dmesg_head, DMESG_SIZE)
               t == Segment(0, dmesg_tail)
    <2>1. /\ s \in Seq(Int) /\ Len(s) = DMESG_SIZE - dmesg_head
          /\ \A spot \in 1..Len(s) : s[spot] = dmesg_buffer[dmesg_head + spot - 1]
      BY SegmentIs DEF DmesgInv, Bounds
    <2>2. /\ t \in Seq(Int) /\ Len(t) = dmesg_tail
          /\ \A spot \in 1..Len(t) : t[spot] = dmesg_buffer[spot - 1]
      BY SegmentIs DEF DmesgInv, Bounds
    <2>3. ReadAll = s \o t
      BY <1>1 DEF ReadAll
    <2> HIDE DEF s, t
    <2>4. /\ ReadAll \in Seq(Int)
          /\ Len(ReadAll) = DMESG_SIZE - dmesg_head + dmesg_tail
          /\ \A spot \in 1..Len(ReadAll) :
               ReadAll[spot] = IF spot <= Len(s) THEN s[spot] ELSE t[spot - Len(s)]
      <3>1. /\ s \o t \in Seq(Int)
            /\ Len(s \o t) = Len(s) + Len(t)
            /\ \A spot \in 1..(Len(s) + Len(t)) :
                 (s \o t)[spot] = IF spot <= Len(s) THEN s[spot] ELSE t[spot - Len(s)]
        BY <2>1, <2>2, Joined
      <3> QED
        BY <2>1, <2>2, <2>3, <3>1
    <2>5. ASSUME NEW spot \in 1..Len(ReadAll)
          PROVE  ReadAll[spot] = written - Len(ReadAll) + spot
      <3>1. spot \in Int /\ 1 <= spot /\ spot <= DMESG_SIZE - dmesg_head + dmesg_tail
            /\ dmesg_head \in Int /\ dmesg_tail \in Int /\ written \in Int
            /\ dmesg_head <= DMESG_SIZE /\ dmesg_head >= 0
        BY <2>4 DEF DmesgInv, Bounds
      <3>2. CASE spot <= DMESG_SIZE - dmesg_head
        <4>1. ReadAll[spot] = dmesg_buffer[dmesg_head + spot - 1]
          BY <2>1, <2>4, <3>1, <3>2
        <4>2. dmesg_buffer[dmesg_head + spot - 1]
                = written - dmesg_tail - DMESG_SIZE + (dmesg_head + spot - 1) + 1
          BY <1>1, <3>1, <3>2 DEF DmesgInv, Placed, DmesgPlaces
        <4> QED
          BY <2>4, <3>1, <4>1, <4>2
      <3>3. CASE spot > DMESG_SIZE - dmesg_head
        <4> DEFINE k == spot - (DMESG_SIZE - dmesg_head)
        <4>1. k \in 1..dmesg_tail
          BY <3>1, <3>3
        <4>2. ReadAll[spot] = dmesg_buffer[k - 1]
          BY <2>1, <2>2, <2>4, <3>1, <3>3, <4>1
        <4>3. dmesg_buffer[k - 1] = written - dmesg_tail + (k - 1) + 1
          BY <1>1, <3>1, <4>1 DEF DmesgInv, Placed, DmesgPlaces
        <4> QED
          BY <2>4, <3>1, <4>2, <4>3
      <3> QED
        BY <3>1, <3>2, <3>3
    <2>6. ReadsTheEnd
      BY <2>4, <2>5 DEF ReadsTheEnd
    <2> QED
      BY <1>1, <2>4, <2>6 DEF InBounds, DmesgInv, Bounds
  <1>2. CASE dmesg_head <= dmesg_tail
    <2>1. ReadAll = Segment(dmesg_head, dmesg_tail)
      BY <1>2 DEF ReadAll, DmesgInv, Bounds
    <2>2. /\ ReadAll \in Seq(Int) /\ Len(ReadAll) = dmesg_tail - dmesg_head
          /\ \A spot \in 1..Len(ReadAll) : ReadAll[spot] = dmesg_buffer[dmesg_head + spot - 1]
      BY <1>2, <2>1, SegmentIs DEF DmesgInv, Bounds
    <2>3. \A spot \in 1..Len(ReadAll) : ReadAll[spot] = written - Len(ReadAll) + spot
      BY <1>2, <2>2 DEF DmesgInv, Bounds, Placed, DmesgPlaces
    <2>4. ReadsTheEnd
      BY <2>2, <2>3 DEF ReadsTheEnd
    <2> QED
      BY <1>2, <2>2, <2>4 DEF InBounds, DmesgInv, Bounds
  <1> QED
    BY <1>1, <1>2 DEF DmesgInv, Bounds

\* Whatever is logged, the indexes stay inside dmesg_buffer and READ_ALL
\* returns no more bytes than the buffer has.
THEOREM DmesgInBounds == DmesgSpec => []InBounds
  BY DmesgInvariant, Correct, PTL

\* Whatever is logged, READ_ALL returns the latest bytes of the log, in order
\* and without gaps.
THEOREM DmesgReadsTheEnd == DmesgSpec => []ReadsTheEnd
  BY DmesgInvariant, Correct, PTL

-----------------------------------------------------------------------------
(* The clock                                                               *)

TimerTypes ==
    /\ tick_counter \in Ticks /\ timer_next_wakeup \in Ticks
    /\ asleep \subseteq Sleepers /\ woken \subseteq Sleepers
    /\ asleep \cap woken = {}
    /\ end_time \in [Sleepers -> Ticks]
    /\ left \in [Sleepers -> Nat] /\ late \in [Sleepers -> Nat]
    /\ edge \in [Sleepers -> BOOLEAN]

\* Nobody waits for tick 0, which would be taken for "no wake-up".
NoneAtZero == \A p \in asleep \union woken : end_time[p] # 0

\* The interval of p ends long enough before the wrap-around, and what is
\* left of it is the way from now to its end.
Counted(p) ==
    /\ end_time[p] + 1 + MaxDelay < TICK_VALUES
    /\ left[p] = IF tick_counter <= end_time[p] THEN end_time[p] + 1 - tick_counter ELSE 0

AllCounted == \A p \in asleep \union woken : ~edge[p] => Counted(p)

\* A process that was woken runs before the clock can have wrapped around.
Prompt == \A p \in woken :
    /\ late[p] <= MaxDelay
    /\ ~edge[p] => tick_counter <= end_time[p] + 1 + late[p]

TimerInv == TimerTypes /\ NoneAtZero /\ AllCounted /\ Prompt /\ WakeupKept

\* Adding within one turn of the clock.
LEMMA WithinTwo ==
    ASSUME NEW n \in Nat \ {0}, NEW a \in Nat, a < 2 * n
    PROVE  a % n = IF a < n THEN a ELSE a - n
  <1>1. CASE a < n
    BY <1>1
  <1>2. CASE n <= a
    BY <1>2
  <1> QED
    BY <1>1, <1>2

LEMMA Wraps ==
    ASSUME NEW a \in Ticks, NEW b \in Nat, b <= TICK_VALUES
    PROVE  (a + b) % TICK_VALUES = IF a + b < TICK_VALUES THEN a + b ELSE a + b - TICK_VALUES
  <1> DEFINE n == TICK_VALUES
             s == a + b
  <1>1. n \in Nat \ {0} /\ s \in Nat /\ s < 2 * n
    BY TimerAssumption DEF Ticks
  <1> HIDE DEF n, s
  <1>2. ASSUME NEW m \in Nat \ {0}, NEW c \in Nat, c < 2 * m
        PROVE  c % m = IF c < m THEN c ELSE c - m
    BY <1>2, WithinTwo
  <1>3. s % n = IF s < n THEN s ELSE s - n
    BY <1>1, <1>2
  <1>4. a \in Nat /\ b \in Nat /\ TICK_VALUES \in Nat \ {0}
    BY TimerAssumption DEF Ticks
  <1> QED
    BY <1>3, <1>4 DEF n, s

LEMMA TimerInvInit == TimerInit => TimerInv
  BY TimerAssumption DEF TimerInit, TimerInv, TimerTypes, NoneAtZero, AllCounted, Prompt,
                         WakeupKept, Ticks

LEMMA TimerInvStep == ~SleepAtZero /\ TimerInv /\ [TimerNext]_timer_vars => TimerInv'
  <1> SUFFICES ASSUME ~SleepAtZero, TimerInv, [TimerNext]_timer_vars
               PROVE  TimerInv'
    OBVIOUS
  <1> USE TimerAssumption DEF TimerInv, Ticks
  <1>1. CASE UNCHANGED timer_vars
    BY <1>1 DEF timer_vars, TimerTypes, NoneAtZero, AllCounted, Counted, Prompt, WakeupKept
  <1>2. CASE timer_interrupt_handler
    <2> DEFINE tick == (tick_counter + 1) % TICK_VALUES
    <2>1. tick = IF tick_counter + 1 < TICK_VALUES THEN tick_counter + 1 ELSE 0
      <3>1. tick_counter \in Ticks
        BY DEF TimerTypes
      <3>2. tick = IF tick_counter + 1 < TICK_VALUES THEN tick_counter + 1
                   ELSE tick_counter + 1 - TICK_VALUES
        BY <3>1, Wraps
      <3> QED
        BY <3>1, <3>2
    <2>2. /\ \A p \in woken : late[p] < MaxDelay
          /\ tick_counter' = tick
          /\ IF Due(tick)
             THEN /\ timer_next_wakeup' = 0
                  /\ woken' = woken \union asleep
                  /\ asleep' = {}
             ELSE UNCHANGED <<timer_next_wakeup, woken, asleep>>
          /\ left' = [p \in Sleepers |-> IF left[p] > 0 THEN left[p] - 1 ELSE 0]
          /\ late' = [p \in Sleepers |-> IF p \in woken THEN late[p] + 1 ELSE 0]
          /\ end_time' = end_time /\ edge' = edge
      BY <1>2 DEF timer_interrupt_handler
    <2> HIDE DEF tick
    <2>3. TimerTypes'
      BY <2>1, <2>2 DEF TimerTypes
    <2>4. asleep' \union woken' = asleep \union woken
      BY <2>2
    <2>5. NoneAtZero'
      BY <2>2, <2>4 DEF NoneAtZero
    \* Within the interval and the delay behind it the clock does not wrap around.
    <2>6. ASSUME NEW p \in asleep \union woken, ~edge[p]
          PROVE  tick = tick_counter + 1 /\ tick <= end_time[p] + 2 + late[p]
                   /\ (p \in asleep => tick <= end_time[p] + 1)
      BY <2>1, <2>2, <2>6 DEF TimerTypes, AllCounted, Counted, Prompt, WakeupKept
    <2>7. AllCounted'
      BY <2>2, <2>4, <2>6 DEF TimerTypes, AllCounted, Counted
    <2>8. Prompt'
      <3> SUFFICES ASSUME NEW p \in woken'
                   PROVE  /\ late'[p] <= MaxDelay
                          /\ ~edge[p] => tick <= end_time[p] + 1 + late'[p]
        BY <2>2 DEF Prompt
      <3>1. CASE p \in woken
        BY <2>2, <2>6, <3>1 DEF TimerTypes
      <3>2. CASE p \notin woken
        <4>1. p \in asleep /\ late'[p] = 0
          BY <2>2, <3>2 DEF TimerTypes
        <4> QED
          BY <2>6, <4>1 DEF TimerTypes
      <3> QED
        BY <3>1, <3>2
    <2>9. WakeupKept'
      BY <2>2, <2>6 DEF TimerTypes, WakeupKept, Due
    <2> QED
      BY <2>3, <2>5, <2>7, <2>8, <2>9
  <1>3. ASSUME NEW p \in Sleepers, nanosleep(p)
        PROVE  TimerInv'
    <2>1. PICK n \in Asked :
            /\ tick_counter + n # 0
            /\ end_time' = [end_time EXCEPT ![p] = (tick_counter + n) % TICK_VALUES]
            /\ left' = [left EXCEPT ![p] = n + 1]
            /\ edge' = [edge EXCEPT ![p] = tick_counter + n + 1 + MaxDelay >= TICK_VALUES]
            /\ IF Sleeping((tick_counter + n) % TICK_VALUES)
               THEN timer_sleep_until(p, (tick_counter + n) % TICK_VALUES)
               ELSE UNCHANGED <<timer_next_wakeup, asleep>>
      BY <1>3 DEF nanosleep
    <2>2. p \notin asleep \union woken /\ UNCHANGED <<tick_counter, woken, late>>
      BY <1>3 DEF nanosleep
    <2> DEFINE time == (tick_counter + n) % TICK_VALUES
    <2>3. n \in Ticks /\ n + 1 \in Nat
      BY DEF TimerTypes
    <2>4. time = IF tick_counter + n < TICK_VALUES THEN tick_counter + n
                 ELSE tick_counter + n - TICK_VALUES
      BY <2>3, Wraps DEF TimerTypes
    <2>5. /\ end_time' = [end_time EXCEPT ![p] = time]
          /\ IF Sleeping(time) THEN timer_sleep_until(p, time)
             ELSE UNCHANGED <<timer_next_wakeup, asleep>>
      BY <2>1
    <2> HIDE DEF time
    <2>6. time \in Ticks
      BY <2>3, <2>4 DEF TimerTypes
    <2>7. CASE ~Sleeping(time)
      <3>1. UNCHANGED <<timer_next_wakeup, asleep>>
        BY <2>5, <2>7
      <3>2. \A q \in asleep \union woken :
              end_time'[q] = end_time[q] /\ left'[q] = left[q] /\ edge'[q] = edge[q]
        BY <2>1, <2>2, <2>5 DEF TimerTypes
      <3>3. TimerTypes'
        BY <2>1, <2>2, <2>3, <2>5, <2>6, <3>1 DEF TimerTypes
      <3> QED
        BY <2>2, <3>1, <3>2, <3>3 DEF TimerTypes, NoneAtZero, AllCounted, Counted, Prompt, WakeupKept
    \* The sum has not wrapped around, and is not 0.
    <2>8. CASE Sleeping(time)
      <3>1. time = tick_counter + n /\ time # 0
        BY <2>1, <2>3, <2>4, <2>8 DEF Sleeping, TimerTypes
      <3>2. timer_next_wakeup' = Earliest(time) /\ asleep' = asleep \union {p}
        BY <2>5, <2>8 DEF timer_sleep_until
      <3>3. \A q \in asleep \union woken : q # p /\ q \in Sleepers /\
              end_time'[q] = end_time[q] /\ left'[q] = left[q] /\ edge'[q] = edge[q]
        BY <2>1, <2>2, <2>5 DEF TimerTypes
      <3>4. /\ end_time'[p] = time /\ left'[p] = n + 1
            /\ edge'[p] = (time + 1 + MaxDelay >= TICK_VALUES)
        BY <2>1, <2>5, <3>1 DEF TimerTypes
      <3>10. ~edge'[p] => time + 1 + MaxDelay < TICK_VALUES
        <4>1. time \in Nat /\ MaxDelay \in Nat /\ TICK_VALUES \in Nat
          BY <2>6
        <4>2. ~edge'[p] => ~(time + 1 + MaxDelay >= TICK_VALUES)
          BY ONLY <3>4, Zenon
        <4> QED
          BY <4>1, <4>2
      <3>5. TimerTypes'
        <4>1. left' \in [Sleepers -> Nat] /\ edge' \in [Sleepers -> BOOLEAN]
          BY <2>1, <2>3 DEF TimerTypes
        <4> QED
          BY <2>2, <2>5, <2>6, <3>2, <4>1 DEF TimerTypes, Earliest
      <3>6. NoneAtZero'
        BY <2>2, <3>1, <3>2, <3>3, <3>4 DEF NoneAtZero
      <3>7. AllCounted'
        <4>1. \A q \in asleep \union woken : ~edge'[q] => Counted(q)'
          BY <2>2, <3>3 DEF AllCounted, Counted
        <4>2. ~edge'[p] => Counted(p)'
          BY <2>2, <2>3, <2>6, <2>8, <3>1, <3>4, <3>10 DEF Counted, TimerTypes, Sleeping
        <4> QED
          BY <2>2, <3>2, <4>1, <4>2 DEF AllCounted
      <3>8. Prompt'
        BY <2>2, <3>3 DEF Prompt
      <3>9. WakeupKept'
        BY <2>2, <2>6, <2>8, <3>1, <3>2, <3>3, <3>4 DEF WakeupKept, Earliest, Sleeping, TimerTypes
      <3> QED
        BY <3>5, <3>6, <3>7, <3>8, <3>9
    <2> QED
      BY <2>7, <2>8
  <1>4. ASSUME NEW p \in Sleepers, nanosleep_resume(p)
        PROVE  TimerInv'
    <2>1. /\ p \in woken /\ woken' = woken \ {p}
          /\ late' = [late EXCEPT ![p] = 0]
          /\ UNCHANGED <<tick_counter, end_time, left, edge>>
      BY <1>4 DEF nanosleep_resume
    <2>2. \/ asleep' = asleep \union {p} /\ timer_next_wakeup' = Earliest(end_time[p])
             /\ tick_counter <= end_time[p]
          \/ asleep' = asleep /\ timer_next_wakeup' = timer_next_wakeup
      BY <1>4 DEF nanosleep_resume, Sleeping, timer_sleep_until
    <2>3. end_time[p] \in Ticks \ {0}
      BY <2>1 DEF TimerTypes, NoneAtZero
    <2>4. asleep' \union woken' \subseteq asleep \union woken /\ asleep' \cap woken' = {}
            /\ asleep' \subseteq Sleepers /\ \A q \in woken' : late'[q] = late[q]
      BY <2>1, <2>2 DEF TimerTypes
    <2>5. TimerTypes'
      BY <2>1, <2>2, <2>3, <2>4 DEF TimerTypes, Earliest
    <2>6. NoneAtZero' /\ AllCounted' /\ Prompt'
      BY <2>1, <2>4 DEF NoneAtZero, AllCounted, Counted, Prompt
    <2>7. WakeupKept'
      BY <2>1, <2>2, <2>3 DEF WakeupKept, Earliest, TimerTypes
    <2> QED
      BY <2>5, <2>6, <2>7
  <1> QED
    BY <1>1, <1>2, <1>3, <1>4 DEF TimerNext

\* Who leaves nanosleep() has slept long enough.
LEMMA SleptEnough ==
    TimerInv /\ [TimerNext]_timer_vars =>
        \A p \in Sleepers :
            p \in woken /\ p \notin woken' \union asleep' /\ ~edge[p] => left[p] = 0
  <1> SUFFICES ASSUME TimerInv, [TimerNext]_timer_vars, NEW p \in Sleepers,
                      p \in woken, p \notin woken' \union asleep', ~edge[p]
               PROVE  left[p] = 0
    OBVIOUS
  <1>1. nanosleep_resume(p)
    BY DEF TimerNext, timer_vars, timer_interrupt_handler, nanosleep, nanosleep_resume, Due
  <1>2. ~(tick_counter <= end_time[p])
    BY <1>1 DEF nanosleep_resume, Sleeping, timer_sleep_until
  <1> QED
    BY <1>2 DEF TimerInv, AllCounted, Counted

\* Whatever the intervals and whenever the sleepers come, as long as none asks
\* for less than a tick at tick 0: a wake-up is set that is in time for each
\* of them, and nanosleep() does not return early (sp804_timer.c, nanosleep.c).
THEOREM ClockKeepsSleepers == ~SleepAtZero => (TimerSpec => SleepersKept)
  <1> SUFFICES ASSUME ~SleepAtZero PROVE TimerSpec => SleepersKept
    OBVIOUS
  <1> DEFINE Kept == /\ WakeupKept /\ WakeupKept'
                     /\ \A p \in Sleepers :
                          p \in woken /\ p \notin woken' \union asleep' /\ ~edge[p] => left[p] = 0
  <1>1. TimerInv /\ [TimerNext]_timer_vars => TimerInv'
    BY TimerInvStep
  <1>2. TimerInv /\ TimerInv' /\ [TimerNext]_timer_vars => Kept
    BY SleptEnough DEF TimerInv
  <1>3. SleepersKept <=> [][Kept]_timer_vars
    BY DEF SleepersKept
  <1> HIDE DEF Kept
  <1> QED
    BY <1>1, <1>2, <1>3, TimerInvInit, PTL DEF TimerSpec

-----------------------------------------------------------------------------
(* Runs of the platform                                                    *)

\* The platform's parts are side by side: a step of one leaves the others
\* alone, so that each of them behaves as its own module says.
LEMMA StepsOfParts ==
    [PlatformNext]_platform_vars =>
        /\ [Next]_vars /\ [DmesgNext]_dmesg_vars /\ [TimerNext]_timer_vars /\ [LoaderNext]_loader_vars
        /\ [SmpNext]_smp_vars /\ [PtNext]_pt_vars /\ [TextNext]_text_vars
        /\ [FirmwareNext]_<<mailbox_vars, frame_vars>>
        /\ part' = part
  BY DEF PlatformNext, platform_vars, boot_vars, Memory_step, Dmesg_step, Timer_step, Loader_step,
         Boot_step, Smp_step, PageTable_step, Cache_step, Text_step, Hardware_step, Firmware_step

LEMMA PartsBehave ==
    PlatformSpec =>
        /\ Spec /\ DmesgSpec /\ TimerSpec /\ LoaderSpec
        /\ SmpSpec /\ PtSpec /\ TextSpec /\ FirmwareSpec
  <1>1. PlatformInit => /\ Init /\ DmesgInit /\ TimerInit /\ LoaderInit
                        /\ SmpInit /\ PtInit /\ TextInit /\ FirmwareInit
    BY DEF PlatformInit
  <1> QED
    BY <1>1, StepsOfParts, PTL DEF PlatformSpec, Spec, DmesgSpec, TimerSpec, LoaderSpec,
         SmpSpec, PtSpec, TextSpec, FirmwareSpec

\* As long as memory does not run out, no program is empty and no program
\* sleeps for less than a tick at tick 0: whatever the parts of the platform
\* do, the memory of processes, kernel and frame buffer stays apart and
\* marked, the log gives its latest bytes, and sleepers are woken in time.
THEOREM PlatformMemory == Sane => (PlatformSpec => [](RegionsApart /\ HeldIsMarked))
  <1> SUFFICES ASSUME Sane PROVE PlatformSpec => [](RegionsApart /\ HeldIsMarked)
    OBVIOUS
  <1>1. Spec => []RegionsApart
    BY MemoryApart
  <1>2. Spec => []HeldIsMarked
    BY MemoryMarked
  <1> QED
    BY <1>1, <1>2, PartsBehave, PTL

THEOREM PlatformLosesNothing == Liberties \subseteq {"malloc"} => (PlatformSpec => []NoLeak)
  <1> SUFFICES ASSUME Liberties \subseteq {"malloc"} PROVE PlatformSpec => []NoLeak
    OBVIOUS
  <1>1. Spec => []NoLeak
    BY MemoryNoLeak
  <1> QED
    BY <1>1, PartsBehave, PTL

THEOREM PlatformLog == PlatformSpec => []ReadsTheEnd
  BY PartsBehave, DmesgReadsTheEnd, PTL

THEOREM PlatformClock == ~SleepAtZero => (PlatformSpec => SleepersKept)
  BY PartsBehave, ClockKeepsSleepers, PTL

-----------------------------------------------------------------------------
(* The start of the other cores                                            *)

\* Up to four cores, as many as any board has: the fifth's stack would be the
\* boot core's interrupt stack.
LEMMA StacksDisjoint ==
    NUM_CORES <= 4 =>
        \A c, d \in Cores : \A m, n \in Modes :
            Stack(c)[m] = Stack(d)[n] => c = d /\ (m = n \/ {m, n} = {"abt", "und"})
  <1> SUFFICES ASSUME NUM_CORES <= 4, NEW c \in Cores, NEW d \in Cores,
                      NEW m \in Modes, NEW n \in Modes, Stack(c)[m] = Stack(d)[n]
               PROVE  c = d /\ (m = n \/ {m, n} = {"abt", "und"})
    OBVIOUS
  <1>1. c \in 0..3 /\ d \in 0..3
    BY SmpAssumption DEF Cores
  <1> QED
    BY <1>1 DEF Stack, BootStack, StartStack, Modes

Stages == {"parked", "started", "print_mmu", "mark", "wfi"}

SmpTypes ==
    /\ boot_at \in {"next", "print", "print_waiting", "wait", "print_timeout", "print_done", "running"}
    /\ starting \in 1..NUM_CORES
    /\ core_at \in [Others -> Stages]
    /\ core_booted \in [Cores -> 0..1]
    /\ cached = core_booted
    /\ locking \in BOOLEAN /\ (boot_at = "running" => locking)
    /\ boot_at \in {"print", "print_waiting", "wait", "print_timeout"} => starting < NUM_CORES
    /\ boot_at \in {"print_done", "running"} => starting = NUM_CORES

\* A core runs once it was told to, and core 0 has not told those it has not
\* come to.
Told ==
    /\ mailbox \subseteq 1..starting /\ sent \subseteq mailbox
    /\ boot_at \in {"next", "print"} => starting \notin mailbox
    /\ boot_at = "print_waiting" => starting \notin sent
    /\ \A c \in Others : core_at[c] # "parked" => c \in sent

\* The flag is the last thing a core does; unless core 0 has lost its patience
\* the cores behind it have set it.
Flagged ==
    /\ \A c \in Others : core_booted[c] = 1 <=> core_at[c] = "wfi"
    /\ gave_up = {} => \A c \in Others : c < starting => core_booted[c] = 1
    /\ boot_at = "print_timeout" => gave_up # {}

SmpInv == SmpTypes /\ Told /\ Flagged

LEMMA SmpInvInit == SmpInit => SmpInv
  <1> SUFFICES ASSUME SmpInit PROVE SmpInv
    OBVIOUS
  <1> USE SmpAssumption DEF SmpInit
  <1>1. SmpTypes
    <2>1. core_at \in [Others -> Stages] /\ core_booted \in [Cores -> 0..1]
      BY DEF Stages
    <2>2. cached = core_booted
      OBVIOUS
    <2>3. starting \in 1..NUM_CORES
      OBVIOUS
    <2> QED
      BY <2>1, <2>2, <2>3 DEF SmpTypes
  <1>2. Told
    BY DEF Told
  <1>3. Flagged
    BY DEF Flagged, Others, Cores
  <1> QED
    BY <1>1, <1>2, <1>3 DEF SmpInv

LEMMA SmpInvStep == SmpInv /\ [SmpNext]_smp_vars => SmpInv'
  <1> SUFFICES ASSUME SmpInv, [SmpNext]_smp_vars PROVE SmpInv'
    OBVIOUS
  <1> USE SmpAssumption DEF SmpInv, Others, Cores
  <1>1. CASE UNCHANGED smp_vars
    BY <1>1 DEF smp_vars, SmpTypes, Told, Flagged
  <1>2. CASE smp_boot_announce
    BY <1>2 DEF smp_boot_announce, SmpTypes, Told, Flagged
  <1>3. CASE smp_boot_mailbox
    BY <1>3 DEF smp_boot_mailbox, SmpTypes, Told, Flagged
  <1>4. CASE smp_boot_sev
    BY <1>4 DEF smp_boot_sev, SmpTypes, Told, Flagged
  <1>5. CASE smp_boot_started
    BY <1>5 DEF smp_boot_started, SmpTypes, Told, Flagged
  <1>6. CASE smp_boot_timed_out
    BY <1>6 DEF smp_boot_timed_out, SmpTypes, Told, Flagged
  <1>7. CASE smp_boot_give_up
    BY <1>7 DEF smp_boot_give_up, SmpTypes, Told, Flagged
  <1>8. CASE smp_boot_report \/ smp_boot_end
    BY <1>8 DEF smp_boot_report, smp_boot_end, SmpTypes, Told, Flagged
  <1>9. ASSUME NEW c \in Others, start_core(c) \/ enable_mmu(c) \/ printed(c)
        PROVE  SmpInv'
    <2>1. SmpTypes'
      BY <1>9 DEF start_core, enable_mmu, printed, SmpTypes, Stages
    <2>2. Told'
      BY <1>9 DEF start_core, enable_mmu, printed, SmpTypes, Told
    <2>3. Flagged'
      BY <1>9 DEF start_core, enable_mmu, printed, SmpTypes, Flagged
    <2> QED
      BY <2>1, <2>2, <2>3
  <1>10. ASSUME NEW c \in Others, mark_booted(c)
         PROVE  SmpInv'
    <2>1. /\ core_at[c] = "mark" /\ CacheOn(c)
          /\ core_booted' = [core_booted EXCEPT ![c] = 1] /\ cached' = core_booted'
          /\ core_at' = [core_at EXCEPT ![c] = "wfi"]
          /\ UNCHANGED <<boot_at, starting, mailbox, sent, locking, gave_up>>
      BY <1>10 DEF mark_booted, Marks, CacheOn
    <2>2. SmpTypes'
      BY <2>1 DEF SmpTypes, Stages
    <2>3. Told' /\ Flagged'
      BY <2>1 DEF SmpTypes, Told, Flagged
    <2> QED
      BY <2>2, <2>3
  <1> QED
    BY <1>1, <1>2, <1>3, <1>4, <1>5, <1>6, <1>7, <1>8, <1>9, <1>10
       DEF SmpNext, smp_boot, secondary_boot

\* On boards with up to four cores: no two cores are in printk() before there
\* are locks, unless core 0 has given one up; core 0 sees every flag; and no
\* two cores ever share a stack (smp_boot.c, start_smp-armv7.s).
THEOREM CoresStartApart == NUM_CORES <= 4 => (SmpSpec => []CoresApart)
  <1> SUFFICES ASSUME NUM_CORES <= 4 PROVE SmpSpec => []CoresApart
    OBVIOUS
  <1>1. SmpInv => CoresApart
    <2> SUFFICES ASSUME SmpInv PROVE CoresApart
      OBVIOUS
    <2>1. ASSUME ~locking, gave_up = {}, NEW c \in Cores, NEW d \in Cores, Prints(c), Prints(d)
          PROVE  c = d
      \* Who prints is the core that core 0 waits for.
      <3>1. \A e \in Others : core_at[e] = "print_mmu" => e = starting /\ boot_at = "wait"
        BY <2>1, SmpAssumption DEF SmpInv, SmpTypes, Told, Flagged, Others
      <3> QED
        BY <2>1, <3>1, SmpAssumption DEF Prints, Cores, Others
    <2> QED
      BY SMTT(30), <2>1, StacksDisjoint DEF CoresApart, SmpInv, SmpTypes
  <1> QED
    BY <1>1, SmpInvInit, SmpInvStep, PTL DEF SmpSpec

-----------------------------------------------------------------------------
(* The page table and the caches                                           *)

\* The place of "default", the first loop, among the Steps, and of the write
\* that turns the MMU on.
First == IF board = "armv7" THEN 1 ELSE 3
MmuOn == IF board = "armv7" THEN 11 ELSE 8

PtTypes ==
    /\ at \in 0..(Len(Steps) + 1)
    /\ at > 0 => mem_end \in MemoryEnds
    /\ page_table \in [Entries -> [base : Nat, kind : [user : BOOLEAN, cached : BOOLEAN]]]

\* What the loops that are done have left: a loop may overwrite what an
\* earlier one wrote, never what must stay.
MappedEntry(j, entry, next) ==
    /\ next > First =>
          /\ entry.base = j
          /\ j >= mem_end => entry.kind.cached = FALSE
          /\ j >= GB /\ (board # "armv7" \/ next > 5 \/ (j < 2 * GB /\ next > 4)) =>
                entry.kind.user = FALSE
    /\ next > First + 1 /\ j < KERNEL_SECTIONS => entry.kind = Section(FALSE, TRUE)
    /\ next > First + 2 /\ KERNEL_SECTIONS <= j /\ j < mem_end => entry.kind = Section(TRUE, TRUE)

Mapped == \A j \in Entries : MappedEntry(j, page_table[j], at)

Switched ==
    /\ "mmu" \in control <=> at > MmuOn
    /\ "dcache" \in control => at > MmuOn
    /\ at > (IF board = "armv7" THEN 9 ELSE 7) => "domains" \in prepared
    /\ at > (IF board = "armv7" THEN 10 ELSE 6) => "table" \in prepared

PtInv == PtTypes /\ Mapped /\ Switched

LEMMA StepsAre ==
    /\ board = "armv7" =>
        /\ Len(Steps) = 11
        /\ Steps[1] = "default" /\ Steps[2] = "kernel" /\ Steps[3] = "user"
        /\ Steps[4] = "from1GB" /\ Steps[5] = "from2GB"
        /\ Steps[6] = "tlb" /\ Steps[7] = "icache_empty" /\ Steps[8] = "dcache_off"
        /\ Steps[9] = "domains" /\ Steps[10] = "table" /\ Steps[11] = "all"
    /\ board # "armv7" =>
        /\ Len(Steps) = 9
        /\ Steps[1] = "icache" /\ Steps[2] = "branch"
        /\ Steps[3] = "default" /\ Steps[4] = "kernel" /\ Steps[5] = "user"
        /\ Steps[6] = "table" /\ Steps[7] = "domains" /\ Steps[8] = "mmu" /\ Steps[9] = "dcache"
  BY DEF Steps

LEMMA LoopsWrite ==
    ASSUME NEW loop, setup_pagetable(loop), PtTypes
    PROVE  /\ UNCHANGED <<prepared, control>>
           /\ \A j \in Entries \ LoopRange[loop] : page_table'[j] = page_table[j]
           /\ \A j \in Entries : j \in LoopRange[loop] =>
                page_table'[j] = [base |-> j, kind |-> Loops[loop]]
  BY DEF setup_pagetable

\* Which kind a step of memory_hierarchy_init() is.
LEMMA StepKinds ==
    ASSUME memory_hierarchy_step
    PROVE  /\ at \in 1..Len(Steps) /\ at' = at + 1 /\ UNCHANGED <<board, mem_end>>
           /\ Steps[at] \in {"default", "kernel", "user", "from1GB", "from2GB"} =>
                setup_pagetable(Steps[at])
           /\ Steps[at] \in Preparations => prepare(Steps[at])
           /\ Steps[at] \in {"mmu", "dcache", "icache", "branch", "all"} => switch_on(Steps[at])
           /\ Steps[at] = "dcache_off" => disable_l1_dcache
  <1> DEFINE step == Steps[at]
  <1>1. \/ step \in DOMAIN Loops /\ setup_pagetable(step)
        \/ step \in Preparations /\ prepare(step)
        \/ step \in DOMAIN Switches /\ switch_on(step)
        \/ step = "dcache_off" /\ disable_l1_dcache
    BY DEF memory_hierarchy_step
  <1>2. /\ DOMAIN Loops = {"default", "kernel", "user", "from1GB", "from2GB"}
        /\ DOMAIN Switches = {"mmu", "dcache", "icache", "branch", "all"}
    BY DEF Loops, Switches
  <1>3. at \in 1..Len(Steps) /\ at' = at + 1 /\ UNCHANGED <<board, mem_end>>
    BY DEF memory_hierarchy_step
  <1> HIDE DEF step
  <1>4. /\ step \in {"default", "kernel", "user", "from1GB", "from2GB"} => setup_pagetable(step)
        /\ step \in Preparations => prepare(step)
        /\ step \in {"mmu", "dcache", "icache", "branch", "all"} => switch_on(step)
        /\ step = "dcache_off" => disable_l1_dcache
    BY <1>1, <1>2 DEF Preparations
  <1> QED
    BY <1>3, <1>4 DEF step

LEMMA PtInvInit == PtInit => PtInv
  <1> SUFFICES ASSUME PtInit PROVE PtInv
    OBVIOUS
  <1>1. Len(Steps) = 9 /\ board # "armv7"
    BY StepsAre DEF PtInit
  <1>2. PtTypes
    BY <1>1 DEF PtInit, PtTypes, Section
  <1>3. Mapped
    BY <1>1 DEF PtInit, Mapped, MappedEntry, First, Section
  <1>4. Switched
    BY <1>1 DEF PtInit, Switched, MmuOn
  <1> QED
    BY <1>2, <1>3, <1>4 DEF PtInv

LEMMA WhereLoopsAre ==
    ASSUME at \in 1..Len(Steps)
    PROVE  /\ Steps[at] = "default" <=> at = First
           /\ Steps[at] = "kernel" <=> at = First + 1
           /\ Steps[at] = "user" <=> at = First + 2
           /\ Steps[at] = "from1GB" <=> board = "armv7" /\ at = 4
           /\ Steps[at] = "from2GB" <=> board = "armv7" /\ at = 5
  <1>1. CASE board = "armv7"
    <2>1. Len(Steps) = 11
      BY <1>1, StepsAre
    <2>2. at \in 1..11
      BY <2>1
    <2>3. at \in {1, 2, 3, 4, 5, 6, 7, 8, 9, 10, 11}
      BY <2>2
    <2> QED
      BY <1>1, <2>3, StepsAre DEF First
  <1>2. CASE board # "armv7"
    <2>1. Len(Steps) = 9
      BY <1>2, StepsAre
    <2>2. at \in 1..9
      BY <2>1
    <2>3. at \in {1, 2, 3, 4, 5, 6, 7, 8, 9}
      BY <2>2
    <2> QED
      BY <1>2, <2>3, StepsAre DEF First
  <1> QED
    BY <1>1, <1>2

LEMMA WhereSwitchesAre ==
    ASSUME at \in 1..Len(Steps)
    PROVE  /\ Steps[at] \in {"mmu", "all"} <=> at = MmuOn
           /\ Steps[at] = "dcache" => at > MmuOn
           /\ Steps[at] = "domains" <=> at = IF board = "armv7" THEN 9 ELSE 7
           /\ Steps[at] = "table" <=> at = IF board = "armv7" THEN 10 ELSE 6
  <1>1. CASE board = "armv7"
    <2>1. Len(Steps) = 11
      BY <1>1, StepsAre
    <2>2. at \in 1..11
      BY <2>1
    <2>3. at \in {1, 2, 3, 4, 5, 6, 7, 8, 9, 10, 11}
      BY <2>2
    <2> QED
      BY <1>1, <2>3, StepsAre DEF MmuOn
  <1>2. CASE board # "armv7"
    <2>1. Len(Steps) = 9
      BY <1>2, StepsAre
    <2>2. at \in 1..9
      BY <2>1
    <2>3. at \in {1, 2, 3, 4, 5, 6, 7, 8, 9}
      BY <2>2
    <2> QED
      BY <1>2, <2>3, StepsAre DEF MmuOn
  <1> QED
    BY <1>1, <1>2

\* Every step is of one of four kinds.
LEMMA StepIsOne ==
    ASSUME at \in 1..Len(Steps)
    PROVE  Steps[at] \in {"default", "kernel", "user", "from1GB", "from2GB"} \union Preparations
                           \union {"mmu", "dcache", "icache", "branch", "all"} \union {"dcache_off"}
  <1>1. CASE board = "armv7"
    <2>1. Len(Steps) = 11
      BY <1>1, StepsAre
    <2>2. at \in 1..11
      BY <2>1
    <2>3. at \in {1, 2, 3, 4, 5, 6, 7, 8, 9, 10, 11}
      BY <2>2
    <2> QED
      BY <1>1, <2>3, StepsAre DEF Preparations
  <1>2. CASE board # "armv7"
    <2>1. Len(Steps) = 9
      BY <1>2, StepsAre
    <2>2. at \in 1..9
      BY <2>1
    <2>3. at \in {1, 2, 3, 4, 5, 6, 7, 8, 9}
      BY <2>2
    <2> QED
      BY <1>2, <2>3, StepsAre DEF Preparations
  <1> QED
    BY <1>1, <1>2

\* 1 GB lies above memory, 2 GB above that.
LEMMA GBIs ==
    /\ SECTIONS \in Nat /\ KERNEL_SECTIONS \in Nat /\ GB \in Nat
    /\ \A end \in MemoryEnds : end \in Nat /\ KERNEL_SECTIONS <= end /\ end <= GB
  BY PageTableAssumption DEF GB

LEMMA LoopsAre ==
    /\ LoopRange["default"] = Entries /\ Loops["default"].cached = FALSE
    /\ board # "armv7" => Loops["default"].user = FALSE
    /\ LoopRange["kernel"] = 0..(KERNEL_SECTIONS - 1) /\ Loops["kernel"] = Section(FALSE, TRUE)
    /\ LoopRange["user"] = KERNEL_SECTIONS..(mem_end - 1) /\ Loops["user"] = Section(TRUE, TRUE)
    /\ LoopRange["from1GB"] = GB..(2 * GB - 1) /\ Loops["from1GB"] = Section(FALSE, FALSE)
    /\ LoopRange["from2GB"] = (2 * GB)..(SECTIONS - 1) /\ Loops["from2GB"] = Section(FALSE, FALSE)
  BY DEF LoopRange, Loops, Section

\* The loops one by one: what each overwrites, and what it leaves.
LEMMA MappedStep == ASSUME PtInv, memory_hierarchy_step PROVE Mapped'
  <1> USE GBIs DEF PtInv
  <1>1. /\ at \in 1..Len(Steps) /\ at' = at + 1 /\ board' = board /\ mem_end' = mem_end
        /\ mem_end \in MemoryEnds /\ First \in Nat /\ First' = First /\ at \in Nat
    <2>1. at \in 1..Len(Steps) /\ at' = at + 1 /\ board' = board /\ mem_end' = mem_end
      BY StepKinds
    <2>2. Len(Steps) \in Nat
      BY StepsAre
    <2> QED
      BY <2>1, <2>2 DEF PtTypes, First
  <1> DEFINE loop == Steps[at]
  <1>2. /\ loop = "default" <=> at = First
        /\ loop = "kernel" <=> at = First + 1
        /\ loop = "user" <=> at = First + 2
        /\ loop = "from1GB" <=> board = "armv7" /\ at = 4
        /\ loop = "from2GB" <=> board = "armv7" /\ at = 5
    BY <1>1, WhereLoopsAre
  <1>3. loop \in {"default", "kernel", "user", "from1GB", "from2GB"} =>
          /\ \A j \in Entries \ LoopRange[loop] : page_table'[j] = page_table[j]
          /\ \A j \in Entries : j \in LoopRange[loop] =>
                page_table'[j] = [base |-> j, kind |-> Loops[loop]]
    BY StepKinds, LoopsWrite
  <1>4. loop \notin {"default", "kernel", "user", "from1GB", "from2GB"} => page_table' = page_table
    BY <1>1, StepKinds, StepIsOne DEF prepare, switch_on, disable_l1_dcache
  <1> HIDE DEF loop
  <1> SUFFICES ASSUME NEW j \in Entries
               PROVE  MappedEntry(j, page_table'[j], at + 1)
    BY <1>1 DEF Mapped, MappedEntry
  <1>5. j \in Nat /\ j < SECTIONS /\ mem_end \in Nat /\ KERNEL_SECTIONS <= mem_end /\ mem_end <= GB
    BY <1>1 DEF Entries
  <1>6. MappedEntry(j, page_table[j], at)
    BY DEF Mapped
  <1>7. CASE loop \notin {"default", "kernel", "user", "from1GB", "from2GB"}
    <2>1. /\ at # First /\ at # First + 1 /\ at # First + 2
          /\ board = "armv7" => at # 4 /\ at # 5
      BY <1>2, <1>7
    <2> QED
      BY <1>1, <1>4, <1>5, <1>6, <1>7, <2>1 DEF MappedEntry, Section
  <1>8. CASE loop = "default"
    <2>0. at = First /\ page_table'[j] = [base |-> j, kind |-> Loops["default"]]
      BY <1>2, <1>3, <1>8, LoopsAre DEF Section
    <2>1. at = First /\ page_table'[j].base = j /\ page_table'[j].kind = Loops["default"]
      BY ONLY <2>0
    <2> QED
      BY <1>1, <1>5, <2>1, LoopsAre DEF MappedEntry, First, Section
  <1>9. CASE loop = "kernel"
    <2>1. at = First + 1
      BY <1>2, <1>9
    <2>2. IF j < KERNEL_SECTIONS THEN page_table'[j] = [base |-> j, kind |-> Section(FALSE, TRUE)]
          ELSE page_table'[j] = page_table[j]
      BY <1>3, <1>5, <1>9, LoopsAre DEF Section
    <2>3. CASE j < KERNEL_SECTIONS
      <3>0. page_table'[j] = [base |-> j, kind |-> Section(FALSE, TRUE)]
        BY <2>2, <2>3 DEF Section
      <3>1. page_table'[j].base = j /\ page_table'[j].kind = Section(FALSE, TRUE)
        BY ONLY <3>0 DEF Section
      <3> QED
        BY <1>1, <1>5, <2>1, <2>3, <3>1 DEF MappedEntry, First, Section
    <2>4. CASE KERNEL_SECTIONS <= j
      BY <1>1, <1>5, <1>6, <2>1, <2>2, <2>4 DEF MappedEntry, First, Section
    <2> QED
      BY <1>5, <2>3, <2>4
  <1>10. CASE loop = "user"
    <2>1. at = First + 2
      BY <1>2, <1>10
    <2>2. IF KERNEL_SECTIONS <= j /\ j < mem_end
          THEN page_table'[j] = [base |-> j, kind |-> Section(TRUE, TRUE)]
          ELSE page_table'[j] = page_table[j]
      BY <1>3, <1>5, <1>10, LoopsAre DEF Section
    <2>3. CASE KERNEL_SECTIONS <= j /\ j < mem_end
      <3>0. page_table'[j] = [base |-> j, kind |-> Section(TRUE, TRUE)]
        BY <2>2, <2>3 DEF Section
      <3>1. page_table'[j].base = j /\ page_table'[j].kind = Section(TRUE, TRUE)
        BY ONLY <3>0 DEF Section
      <3> QED
        BY <1>1, <1>5, <2>1, <2>3, <3>1 DEF MappedEntry, First, Section
    <2>4. CASE j < KERNEL_SECTIONS \/ mem_end <= j
      BY <1>1, <1>5, <1>6, <2>1, <2>2, <2>4 DEF MappedEntry, First, Section
    <2> QED
      BY <1>5, <2>3, <2>4
  <1>11. CASE loop = "from1GB"
    <2>1. board = "armv7" /\ at = 4
      BY <1>2, <1>11
    <2>2. IF GB <= j /\ j < 2 * GB
          THEN page_table'[j] = [base |-> j, kind |-> Section(FALSE, FALSE)]
          ELSE page_table'[j] = page_table[j]
      BY <1>3, <1>5, <1>11, LoopsAre DEF Section
    <2> QED
      BY <1>1, <1>5, <1>6, <2>1, <2>2 DEF MappedEntry, First, Section
  <1>12. CASE loop = "from2GB"
    <2>1. board = "armv7" /\ at = 5
      BY <1>2, <1>12
    <2>2. IF 2 * GB <= j
          THEN page_table'[j] = [base |-> j, kind |-> Section(FALSE, FALSE)]
          ELSE page_table'[j] = page_table[j]
      BY <1>3, <1>5, <1>12, LoopsAre DEF Section
    <2> QED
      BY <1>1, <1>5, <1>6, <2>1, <2>2 DEF MappedEntry, First, Section
  <1> QED
    BY <1>7, <1>8, <1>9, <1>10, <1>11, <1>12

LEMMA PtInvStep == PtInv /\ [PtNext]_pt_vars => PtInv'
  <1> SUFFICES ASSUME PtInv, [PtNext]_pt_vars PROVE PtInv'
    OBVIOUS
  <1> USE DEF PtInv
  <1>1. CASE UNCHANGED pt_vars
    BY <1>1 DEF pt_vars, PtTypes, Mapped, MappedEntry, Switched, First, MmuOn, Steps, Section
  <1>2. CASE memory_hierarchy_init
    <2>1. /\ at = 0 /\ at' = 1 /\ mem_end' \in MemoryEnds
          /\ UNCHANGED <<page_table, prepared, control>>
      BY <1>2 DEF memory_hierarchy_init
    <2>2. Len(Steps') \in {9, 11}
      BY DEF Steps
    <2>3. First' >= 1 /\ MmuOn' >= 8 /\ First' \in Nat
      BY DEF First, MmuOn
    <2>4. PtTypes'
      BY <2>1, <2>2 DEF PtTypes
    <2>5. Mapped'
      <3> SUFFICES ASSUME NEW j \in Entries' PROVE MappedEntry(j, page_table[j], at)'
        BY DEF Mapped
      <3>1. at' = 1 /\ First' \in Nat /\ First' >= 1
        BY <2>1, <2>3
      <3> QED
        BY ONLY <3>1 DEF MappedEntry, Section, First
    <2>6. Switched'
      BY <2>1 DEF Switched, MmuOn
    <2> QED
      BY <2>4, <2>5, <2>6
  <1>3. CASE memory_hierarchy_step
    <2>1. /\ at \in 1..Len(Steps) /\ at' = at + 1 /\ board' = board /\ mem_end' = mem_end
          /\ Len(Steps) \in Nat /\ at \in Nat
      <3>1. Len(Steps) \in Nat
        BY StepsAre
      <3> QED
        BY <1>3, <3>1, StepKinds
    <2>2. Steps' = Steps /\ MmuOn' = MmuOn /\ MmuOn \in {8, 11}
      BY <2>1 DEF Steps, MmuOn
    <2> DEFINE step == Steps[at]
    <2>3. /\ step \in {"default", "kernel", "user", "from1GB", "from2GB"} => setup_pagetable(step)
          /\ step \in Preparations => prepare(step)
          /\ step \in {"mmu", "dcache", "icache", "branch", "all"} => switch_on(step)
          /\ step = "dcache_off" => disable_l1_dcache
          /\ step \in {"default", "kernel", "user", "from1GB", "from2GB"} \union Preparations
                \union {"mmu", "dcache", "icache", "branch", "all"} \union {"dcache_off"}
      BY <1>3, <2>1, StepKinds, StepIsOne
    <2>4. /\ step \in {"mmu", "all"} <=> at = MmuOn
          /\ step = "dcache" => at > MmuOn
          /\ step = "domains" <=> at = IF board = "armv7" THEN 9 ELSE 7
          /\ step = "table" <=> at = IF board = "armv7" THEN 10 ELSE 6
      BY <2>1, WhereSwitchesAre
    <2> HIDE DEF step
    <2>5. page_table' \in [Entries -> [base : Nat, kind : [user : BOOLEAN, cached : BOOLEAN]]]
      <3>1. CASE step \in {"default", "kernel", "user", "from1GB", "from2GB"}
        <4>1. Loops[step] \in [user : BOOLEAN, cached : BOOLEAN]
          <5>1. \A u, c \in BOOLEAN : Section(u, c) \in [user : BOOLEAN, cached : BOOLEAN]
            BY DEF Section
          <5>2. (board = "armv7") \in BOOLEAN
            OBVIOUS
          <5>3. /\ Loops["default"] = Section(board = "armv7", FALSE)
                /\ Loops["kernel"] = Section(FALSE, TRUE) /\ Loops["user"] = Section(TRUE, TRUE)
                /\ Loops["from1GB"] = Section(FALSE, FALSE) /\ Loops["from2GB"] = Section(FALSE, FALSE)
            BY DEF Loops, Section
          <5> QED
            BY <3>1, <5>1, <5>2, <5>3, Zenon
        <4>2. setup_pagetable(step)
          BY <2>3, <3>1
        <4>3. \A j \in Entries : [base |-> j, kind |-> Loops[step]]
                \in [base : Nat, kind : [user : BOOLEAN, cached : BOOLEAN]]
          BY <4>1 DEF Entries
        <4> QED
          BY <4>2, <4>3 DEF setup_pagetable, PtTypes
      <3>2. CASE step \notin {"default", "kernel", "user", "from1GB", "from2GB"}
        BY <2>3, <3>2 DEF prepare, switch_on, disable_l1_dcache, PtTypes
      <3> QED
        BY <3>1, <3>2
    <2>6. PtTypes'
      BY <2>1, <2>2, <2>5 DEF PtTypes
    <2>7. Mapped'
      BY <1>3, MappedStep
    \* What is switched on and prepared by the next step.
    <2>8. /\ control' = IF step \in {"mmu", "dcache", "icache", "branch", "all"}
                        THEN control \union Switches[step]
                        ELSE IF step = "dcache_off" THEN control \ {"dcache"} ELSE control
          /\ prepared' = IF step \in Preparations THEN prepared \union {step} ELSE prepared
      BY <2>3 DEF setup_pagetable, prepare, switch_on, disable_l1_dcache, Preparations
    <2>9. /\ "mmu" \in Switches["mmu"] /\ "mmu" \in Switches["all"]
          /\ "mmu" \notin Switches["dcache"] \union Switches["icache"] \union Switches["branch"]
          /\ "dcache" \notin Switches["mmu"] \union Switches["icache"] \union Switches["branch"]
      BY DEF Switches
    <2>10. "mmu" \in control' <=> at + 1 > MmuOn
      <3>1. "mmu" \in control' <=> "mmu" \in control \/ step \in {"mmu", "all"}
        BY <2>8, <2>9
      <3>2. "mmu" \in control <=> at > MmuOn
        BY DEF Switched
      <3> QED
        BY <2>1, <2>2, <2>4, <3>1, <3>2
    <2>11. "dcache" \in control' => at + 1 > MmuOn
      <3>1. "dcache" \in control' => "dcache" \in control \/ step \in {"dcache", "all"}
        BY <2>8, <2>9
      <3>2. "dcache" \in control => at > MmuOn
        BY DEF Switched
      <3> QED
        BY <2>1, <2>2, <2>4, <3>1, <3>2
    <2>12. /\ at + 1 > (IF board = "armv7" THEN 9 ELSE 7) => "domains" \in prepared'
           /\ at + 1 > (IF board = "armv7" THEN 10 ELSE 6) => "table" \in prepared'
      <3>1. prepared \subseteq prepared' /\ (step \in {"domains", "table"} => step \in prepared')
        BY <2>8 DEF Preparations
      <3> QED
        BY <2>1, <2>4, <3>1 DEF Switched
    <2>13. Switched'
      BY <2>1, <2>2, <2>10, <2>11, <2>12 DEF Switched
    <2> QED
      BY <2>6, <2>7, <2>13
  <1> QED
    BY <1>1, <1>2, <1>3 DEF PtNext

\* For any size of memory, on both kinds of boards: when the MMU is on, the
\* loops of setup_pagetable() have left each section as it must be, and the
\* data cache is never on before it (memory.c, armv7-mmu.c, arm1176-mmu.c).
THEOREM MapIsRight == PtSpec => []MapRight
  <1>1. PtInv => MapRight
    <2> SUFFICES ASSUME PtInv PROVE MapRight
      OBVIOUS
    <2>1. "dcache" \in control => "mmu" \in control
      BY DEF PtInv, Switched
    <2>2. ASSUME "mmu" \in control
          PROVE  at > 0 /\ at \in Nat /\ at > First + 2 /\ (board = "armv7" => at > 5)
                   /\ {"table", "domains"} \subseteq prepared
      <3>1. Len(Steps) \in Nat
        BY StepsAre
      <3> QED
        BY <2>2, <3>1 DEF PtInv, PtTypes, Switched, MmuOn, First
    <2>3. ASSUME "mmu" \in control, NEW j \in Entries
          PROVE  /\ page_table[j].base = j
                 /\ j < KERNEL_SECTIONS => page_table[j].kind = Section(FALSE, TRUE)
                 /\ j \in KERNEL_SECTIONS..(mem_end - 1) => page_table[j].kind = Section(TRUE, TRUE)
                 /\ j >= mem_end => ~page_table[j].kind.cached
                 /\ j >= GB => ~page_table[j].kind.user
      <3>1. MappedEntry(j, page_table[j], at)
        BY DEF PtInv, Mapped
      <3>2. j \in Nat /\ First \in Nat /\ mem_end \in Nat /\ GB \in Nat /\ KERNEL_SECTIONS \in Nat
        BY <2>2, <2>3, GBIs DEF Entries, First, PtInv, PtTypes
      <3> QED
        BY <2>2, <2>3, <3>1, <3>2 DEF MappedEntry, Section
    <2> QED
      BY <2>1, <2>2, <2>3 DEF MapRight
  <1> QED
    BY <1>1, PtInvInit, PtInvStep, PTL DEF PtSpec

-----------------------------------------------------------------------------
(* The instruction cache                                                   *)

\* Once the program runs only what was dirty when the cache was emptied can
\* still be old in memory, and from there get into the cache.
TextInv ==
    /\ text_dirty \subseteq TextLines /\ text_late \subseteq TextLines
    /\ text_memory \in [TextLines -> {"old", "new"}]
    /\ text_icache \in [TextLines -> {"none", "old", "new"}]
    /\ \A line \in text_dirty : text_memory[line] = "old"
    /\ text_at = "runs" =>
          /\ text_dirty \subseteq text_late
          /\ \A line \in TextLines \ text_dirty : text_memory[line] = "new"
          /\ \A line \in TextLines \ text_late : text_icache[line] # "old"

\* Whatever leaves the data cache and enters the instruction cache in between,
\* an old instruction is fetched only from a line that was still in the data
\* cache when execve() emptied the other one, and nothing that was loaded is
\* lost (exec.c, armv7-mmu.c).  That such lines are fetched old is not
\* excluded: nothing in the code does.
THEOREM OldTextIsLate == TextSpec => []FetchRight
  <1>1. TextInit => TextInv
    BY DEF TextInit, TextInv
  <1>2. TextInv /\ [TextNext]_text_vars => TextInv'
    <2> SUFFICES ASSUME TextInv, [TextNext]_text_vars PROVE TextInv'
      OBVIOUS
    <2> USE DEF TextInv
    <2>1. CASE UNCHANGED text_vars
      BY <2>1 DEF text_vars
    <2>2. CASE load
      BY <2>2 DEF load
    <2>3. CASE evict
      BY <2>3 DEF evict
    <2>4. CASE fetch
      BY <2>4 DEF fetch
    <2>5. CASE flush_icache
      BY <2>5 DEF flush_icache
    <2> QED
      BY <2>1, <2>2, <2>3, <2>4, <2>5 DEF TextNext
  <1>3. TextInv => FetchRight
    BY DEF TextInv, FetchRight
  <1> QED
    BY <1>1, <1>2, <1>3, PTL DEF TextSpec

-----------------------------------------------------------------------------
(* The mailbox                                                             *)

MailTypes ==
    /\ mb_at \in {"idle", "write", "read", "look"}
    /\ mb_who \in {"framebuffer", "thermal"}
    /\ mb_frame \in 0..MaxMessages /\ mb_strays \in Nat
    /\ mb_shared \in BOOLEAN /\ mb_late \in BOOLEAN
    /\ mb_memory \in {"old", "request"} \union Answers
    /\ mb_line \in [here : BOOLEAN, dirty : BOOLEAN, is : {"old", "request"} \union Answers]
    /\ mb_answered \in {"none"} \union Answers
    /\ box1 \in Seq(SUBSET Nat) /\ box0 \in Seq(SUBSET Nat)
    /\ mb_line.dirty => mb_line.here
    /\ mb_frame = 0 => mb_at = "idle" /\ box1 = <<>>

\* What the firmware reads for the message of a call.
Bus(cpu, frame) == AddressOf(frame) \union (IF cpu = "armv7" THEN {30, 31} ELSE {30})
Mail == Bus(mb_cpu, mb_frame) \union Channel_of(mb_who)

Right(copy) == copy \in Answers => copy = mb_answered

\* No copy of the message holds an answer that was not given to it.
CopiesRight == Right(mb_memory) /\ (mb_line.here => Right(mb_line.is))

Unanswered ==
    /\ mb_answered = "none"
    /\ mb_memory \notin Answers /\ (mb_line.here => mb_line.is \notin Answers)

\* The firmware finds each call's message at most once: what waits in its
\* mailbox is of different calls, and not of one that has not written.
OnceEach ==
    /\ \A k \in 1..Len(box1) : \E f \in 1..mb_frame :
          box1[k] \ (0..3) = Bus(mb_cpu, f) /\ (f = mb_frame => mb_at # "write")
    /\ \A k, l \in 1..Len(box1) :
          box1[k] \ (0..3) = Bus(mb_cpu, mb_frame) /\ box1[l] \ (0..3) = Bus(mb_cpu, mb_frame) => k = l
    /\ \A k \in 1..Len(box1) :
          box1[k] \ (0..3) = Bus(mb_cpu, mb_frame) /\ mb_at # "idle" => Unanswered
    /\ mb_at = "write" => Unanswered

\* As long as the firmware only speaks when it is asked, question and answer
\* go to and fro, and no mail is left when a call ends.
Lockstep ==
    mb_strays = 0 =>
        /\ ~mb_late
        /\ mb_at # "read" => box1 = <<>> /\ box0 = <<>>
        /\ mb_at = "read" => \/ box1 = <<Mail>> /\ box0 = <<>> /\ mb_answered = "none"
                             \/ box1 = <<>> /\ box0 = <<Mail>>

Success ==
    /\ mb_answered \in Answers
    /\ mb_result = mb_answered \/ (mb_who = "framebuffer" /\ mb_answered = "error")

\* If besides nobody stores beside the message, the request is in memory when
\* the firmware looks, and the answer when the caller does.
Undisturbed ==
    mb_strays = 0 /\ mb_shared = FALSE =>
        /\ mb_at = "write" => IF mb_line.here THEN mb_line.dirty /\ mb_line.is = "request"
                              ELSE mb_memory = "request"
        /\ mb_at = "read" => /\ ~mb_line.dirty
                             /\ IF box1 # <<>> THEN mb_memory = "request"
                                ELSE mb_answered \in Answers /\ mb_memory = mb_answered
        /\ mb_at = "look" => /\ ~mb_line.dirty /\ mb_mail = "mail"
                             /\ mb_answered \in Answers /\ mb_memory = mb_answered
                             /\ mb_line.here => mb_line.is = mb_answered
        /\ mb_at = "idle" /\ mb_frame > 0 => Success

ResultRight == mb_at = "idle" /\ mb_frame > 0 /\ mb_result # "failed" => mb_result = mb_answered

MailInv == MailTypes /\ CopiesRight /\ OnceEach /\ Lockstep /\ Undisturbed /\ ResultRight

\* Calls have different addresses, also on the bus.
LEMMA BusesDiffer ==
    ASSUME NEW f \in 1..25, NEW g \in 1..25, NEW cpu, Bus(cpu, f) = Bus(cpu, g)
    PROVE  f = g
  <1>1. 4 + f \in Bus(cpu, f) /\ 4 + f \in Int /\ 4 + f # 4 /\ 4 + f # 30 /\ 4 + f # 31
    BY DEF Bus, AddressOf
  <1>2. 4 + f = 4 + g
    BY <1>1 DEF Bus, AddressOf
  <1> QED
    BY <1>2

\* Address and channel can be told apart again.
LEMMA MailParts ==
    ASSUME NEW f \in 1..25, NEW who \in {"framebuffer", "thermal"}, NEW cpu
    PROVE  /\ (Bus(cpu, f) \union Channel_of(who)) \ (0..3) = Bus(cpu, f)
           /\ (Bus(cpu, f) \union Channel_of(who)) \intersect 0..3 = Channel_of(who)
           /\ (Bus(cpu, f) \union Channel_of(who)) \intersect 4..29 = AddressOf(f)
           /\ Bus(cpu, f) \union Channel_of(who) \subseteq Nat
  <1>1. /\ \A b \in AddressOf(f) : b \in 4..29
        /\ \A b \in Bus(cpu, f) : b \in AddressOf(f) \/ b \in 30..31
        /\ AddressOf(f) \subseteq Bus(cpu, f)
    BY DEF Bus, AddressOf
  <1>2. \A b \in Channel_of(who) : b \in 0..3
    BY DEF Channel_of
  <1> QED
    BY <1>1, <1>2

LEMMA MailInvInit == FirmwareInit => MailInv
  <1> SUFFICES ASSUME FirmwareInit PROVE MailInv
    OBVIOUS
  <1>1. /\ mb_at = "idle" /\ mb_who = "framebuffer" /\ mb_frame = 0 /\ mb_shared = FALSE
        /\ mb_memory = "old" /\ box1 = <<>> /\ box0 = <<>> /\ mb_answered = "none"
        /\ mb_strays = 0 /\ mb_late = FALSE
    BY DEF FirmwareInit
  <1>2. mb_line = [here |-> FALSE, dirty |-> FALSE, is |-> "old"]
    BY DEF FirmwareInit, NotHere
  <1>3. mb_line.here = FALSE /\ mb_line.dirty = FALSE /\ mb_line.is = "old"
    BY ONLY <1>2
  <1>4. "old" \notin Answers /\ MaxMessages \in Nat
    BY FirmwareAssumption
  <1>5. MailTypes
    <2>1. mb_line \in [here : BOOLEAN, dirty : BOOLEAN, is : {"old", "request"} \union Answers]
      BY <1>2
    <2>2. box1 \in Seq(SUBSET Nat) /\ box0 \in Seq(SUBSET Nat)
      BY <1>1
    <2>3. mb_shared \in BOOLEAN /\ mb_late \in BOOLEAN /\ (mb_line.dirty => mb_line.here)
      BY ONLY <1>1, <1>3
    <2>4. mb_frame \in 0..MaxMessages /\ mb_strays \in Nat
      BY <1>1, <1>4
    <2> QED
      BY <1>1, <2>1, <2>2, <2>3, <2>4 DEF MailTypes
  <1>6. CopiesRight /\ OnceEach
    BY <1>1, <1>3, <1>4 DEF CopiesRight, Right, OnceEach
  <1>7. Lockstep /\ Undisturbed /\ ResultRight
    BY <1>1, <1>3 DEF Lockstep, Undisturbed, ResultRight
  <1> QED
    BY <1>5, <1>6, <1>7 DEF MailInv

\* A cache line that is given up.
LEMMA FlushLeaves ==
    ASSUME MailTypes, Flush
    PROVE  /\ mb_line' \in [here : BOOLEAN, dirty : BOOLEAN, is : {"old", "request"} \union Answers]
           /\ mb_line'.here = FALSE /\ mb_line'.dirty = FALSE
           /\ mb_memory' = IF mb_line.dirty THEN mb_line.is ELSE mb_memory
           /\ mb_memory' \in {"old", "request"} \union Answers
  BY DEF Flush, NotHere, MailTypes

\* What the copies may become when nothing else changes.
LEMMA CacheMoves ==
    ASSUME MailTypes, cache_moves
    PROVE  /\ mb_line' \in [here : BOOLEAN, dirty : BOOLEAN, is : {"old", "request"} \union Answers]
           /\ mb_memory' \in {"old", "request"} \union Answers
           /\ \/ /\ mb_line.here = FALSE /\ mb_at \in {"read", "look"}
                 /\ mb_line'.here = TRUE /\ mb_line'.dirty = FALSE /\ mb_line'.is = mb_memory
                 /\ mb_memory' = mb_memory
              \/ /\ mb_line.here = TRUE /\ mb_at # "idle"
                 /\ mb_line'.here = FALSE /\ mb_line'.dirty = FALSE
                 /\ mb_memory' = IF mb_line.dirty THEN mb_line.is ELSE mb_memory
              \/ /\ mb_shared = TRUE /\ mb_at \in {"read", "look"}
                 /\ mb_line'.here = TRUE /\ mb_line'.dirty = TRUE /\ mb_line'.is = Seen
                 /\ mb_memory' = mb_memory
  <1>1. CASE prefetch
    BY <1>1 DEF prefetch, MailTypes
  <1>2. CASE evict_line
    <2>1. mb_line.here = TRUE /\ mb_at # "idle" /\ Flush
      BY <1>2 DEF evict_line, MailTypes
    <2> QED
      BY <2>1, FlushLeaves
  <1>3. CASE store_beside
    <2>1. Seen \in {"old", "request"} \union Answers
      BY DEF Seen, MailTypes
    <2> QED
      BY <1>3, <2>1 DEF store_beside, MailTypes
  <1> QED
    BY <1>1, <1>2, <1>3 DEF cache_moves

LEMMA MailCacheMoves == ASSUME MailInv, cache_moves PROVE MailInv'
  <1> USE DEF MailInv
  <1>1. UNCHANGED <<mb_cpu, mb_at, mb_who, mb_frame, mb_shared, box1, box0, mb_mail, mb_result,
                    mb_answered, mb_strays, mb_late>>
    BY DEF cache_moves
  <1>2. MailTypes'
    <2>1. mb_line'.dirty => mb_line'.here
      BY CacheMoves
    <2> QED
      BY <1>1, <2>1, CacheMoves DEF MailTypes
  <1>3. CopiesRight'
    BY <1>1, CacheMoves DEF CopiesRight, Right, Seen, MailTypes
  <1>4. Bus(mb_cpu', mb_frame') = Bus(mb_cpu, mb_frame) /\ \A f \in 1..mb_frame : Bus(mb_cpu', f) = Bus(mb_cpu, f)
    BY <1>1 DEF Bus, AddressOf
  <1>5. Unanswered => Unanswered'
    BY <1>1, CacheMoves DEF Unanswered, Seen, MailTypes
  <1>6. OnceEach'
    BY <1>1, <1>4, <1>5 DEF OnceEach
  <1>7. Lockstep' /\ ResultRight'
    BY <1>1, <1>4 DEF Lockstep, Mail, Channel_of, ResultRight
  <1>8. Undisturbed'
    BY <1>1, CacheMoves DEF Undisturbed, Success, Seen, MailTypes
  <1> QED
    BY <1>2, <1>3, <1>6, <1>7, <1>8

\* A call is made: its message is not yet in any mailbox.
LEMMA MailAsk == ASSUME MailInv, NEW who \in {"framebuffer", "thermal"}, ask(who) PROVE MailInv'
  <1> USE FirmwareAssumption DEF MailInv
  <1>1. /\ mb_at = "idle" /\ mb_frame < MaxMessages /\ mb_frame \in Nat /\ mb_frame' = mb_frame + 1
        /\ mb_frame = 0 => box1 = <<>>
        /\ mb_frame # 0 => mb_cpu' = mb_cpu
        /\ mb_who' = who /\ mb_shared' \in BOOLEAN
        /\ mb_memory' = "old" /\ mb_at' = "write" /\ mb_answered' = "none"
        /\ UNCHANGED <<box1, box0, mb_mail, mb_result, mb_strays, mb_late>>
    BY DEF ask, MailTypes
  <1>2. /\ mb_line' \in [here : BOOLEAN, dirty : BOOLEAN, is : {"old", "request"} \union Answers]
        /\ mb_line'.here = TRUE /\ mb_line'.dirty = TRUE /\ mb_line'.is = "request"
    BY DEF ask
  <1>3. "old" \notin Answers /\ "request" \notin Answers
    OBVIOUS
  <1>4. MailTypes'
    <2>1. mb_frame' \in 0..MaxMessages /\ mb_frame' # 0
      BY <1>1
    <2>2. mb_line'.dirty => mb_line'.here
      BY <1>2
    <2> QED
      BY <1>1, <1>2, <2>1, <2>2 DEF MailTypes
  <1>5. CopiesRight' /\ Unanswered'
    BY <1>1, <1>2, <1>3 DEF CopiesRight, Right, Unanswered
  <1>6. \A k \in 1..Len(box1) : \E f \in 1..mb_frame : box1[k] \ (0..3) = Bus(mb_cpu', f) /\ f # mb_frame'
    <2> SUFFICES ASSUME NEW k \in 1..Len(box1)
                 PROVE  \E f \in 1..mb_frame : box1[k] \ (0..3) = Bus(mb_cpu', f) /\ f # mb_frame'
      OBVIOUS
    <2>1. PICK f \in 1..mb_frame : box1[k] \ (0..3) = Bus(mb_cpu, f)
      BY DEF OnceEach
    <2>2. mb_frame # 0 /\ f # mb_frame + 1
      BY <1>1
    <2>3. Bus(mb_cpu', f) = Bus(mb_cpu, f)
      BY <1>1, <2>2 DEF Bus, AddressOf
    <2> QED
      BY <1>1, <2>1, <2>2, <2>3
  <1>7. \A f \in 1..mb_frame : Bus(mb_cpu', f) # Bus(mb_cpu', mb_frame')
    <2> SUFFICES ASSUME NEW f \in 1..mb_frame, Bus(mb_cpu', f) = Bus(mb_cpu', mb_frame') PROVE FALSE
      OBVIOUS
    <2>1. f \in 1..25 /\ mb_frame' \in 1..25 /\ f # mb_frame'
      BY <1>1
    <2> QED
      BY <2>1, BusesDiffer
  <1>8. OnceEach'
    <2>1. \A k \in 1..Len(box1) : box1[k] \ (0..3) # Bus(mb_cpu', mb_frame')
      BY <1>6, <1>7
    <2>2. \A k \in 1..Len(box1) : \E f \in 1..mb_frame' : box1[k] \ (0..3) = Bus(mb_cpu', f) /\ f # mb_frame'
      BY <1>1, <1>6
    <2> QED
      BY <1>1, <1>5, <2>1, <2>2 DEF OnceEach
  <1>9. Lockstep' /\ ResultRight'
    BY <1>1 DEF Lockstep, ResultRight
  <1>10. Undisturbed'
    BY <1>1, <1>2 DEF Undisturbed
  <1> QED
    BY <1>4, <1>5, <1>8, <1>9, <1>10

\* The message goes to memory, and its address into the firmware's mailbox.
LEMMA MailWrite == ASSUME MailInv, mailbox_write PROVE MailInv'
  <1> USE FirmwareAssumption DEF MailInv
  <1>1. /\ mb_at = "write" /\ Flush /\ box1' = Append(box1, Mail) /\ mb_at' = "read"
        /\ UNCHANGED <<mb_cpu, mb_who, mb_frame, mb_shared, box0, mb_mail, mb_result, mb_answered,
                       mb_strays, mb_late>>
    BY DEF mailbox_write, Mail, Bus, firmware_phys_to_bus_address
  <1>2. mb_frame \in 1..25 /\ mb_frame \in 0..MaxMessages
    BY <1>1 DEF MailTypes
  <1>3. /\ Mail \in SUBSET Nat /\ Mail \ (0..3) = Bus(mb_cpu, mb_frame)
    BY <1>2, MailParts DEF Mail, MailTypes
  <1>4. /\ box1 \in Seq(SUBSET Nat) /\ box1' \in Seq(SUBSET Nat) /\ Len(box1') = Len(box1) + 1
        /\ \A k \in 1..Len(box1) : box1'[k] = box1[k]
        /\ box1'[Len(box1) + 1] = Mail
    BY <1>1, <1>3 DEF MailTypes
  <1>5. Bus(mb_cpu', mb_frame') = Bus(mb_cpu, mb_frame) /\ Mail' = Mail /\ \A f \in 1..mb_frame : Bus(mb_cpu', f) = Bus(mb_cpu, f)
    BY <1>1 DEF Bus, AddressOf, Mail, Channel_of
  <1>6. MailTypes'
    <2>1. mb_line'.dirty => mb_line'.here
      BY <1>1, FlushLeaves
    <2> QED
      BY <1>1, <1>2, <1>4, <2>1, FlushLeaves DEF MailTypes
  <1>7. CopiesRight' /\ Unanswered'
    <2>1. Unanswered
      BY <1>1 DEF OnceEach
    <2> QED
      BY <1>1, <2>1, FlushLeaves DEF CopiesRight, Right, Unanswered, MailTypes
  <1>8. \A k \in 1..Len(box1) :
           /\ \E f \in 1..mb_frame : box1'[k] \ (0..3) = Bus(mb_cpu', f) /\ f # mb_frame
           /\ box1'[k] \ (0..3) # Bus(mb_cpu, mb_frame)
    <2> SUFFICES ASSUME NEW k \in 1..Len(box1)
                 PROVE  /\ \E f \in 1..mb_frame : box1'[k] \ (0..3) = Bus(mb_cpu', f) /\ f # mb_frame
                        /\ box1'[k] \ (0..3) # Bus(mb_cpu, mb_frame)
      OBVIOUS
    <2>1. PICK f \in 1..mb_frame : box1[k] \ (0..3) = Bus(mb_cpu, f) /\ f # mb_frame
      BY <1>1 DEF OnceEach
    <2>2. f \in 1..25
      BY <1>2
    <2>3. Bus(mb_cpu, f) # Bus(mb_cpu, mb_frame)
      BY <1>2, <2>1, <2>2, BusesDiffer
    <2> QED
      BY <1>4, <1>5, <2>1, <2>3
  <1>9. OnceEach'
    <2>1. \A k \in 1..Len(box1') : k \in 1..Len(box1) \/ k = Len(box1) + 1
      BY <1>4
    <2>2. \A k \in 1..Len(box1') : \E f \in 1..mb_frame : box1'[k] \ (0..3) = Bus(mb_cpu', f)
      <3>1. box1'[Len(box1) + 1] \ (0..3) = Bus(mb_cpu', mb_frame) /\ mb_frame \in 1..mb_frame
        BY <1>1, <1>2, <1>3, <1>4
      <3> QED
        BY <1>8, <2>1, <3>1
    <2>3. \A k \in 1..Len(box1') : box1'[k] \ (0..3) = Bus(mb_cpu', mb_frame') => k = Len(box1) + 1
      BY <1>5, <1>8, <2>1
    <2> QED
      BY <1>1, <1>7, <2>2, <2>3 DEF OnceEach
  <1>10. Lockstep'
    <2>1. mb_strays = 0 => box1' = <<Mail>> /\ box0 = <<>>
      BY <1>1 DEF Lockstep
    <2> QED
      BY <1>1, <1>5, <1>7, <2>1 DEF Lockstep, Unanswered
  <1>11. ResultRight' /\ Undisturbed'
    <2>1. box1' # <<>>
      BY <1>4
    <2> QED
      BY <1>1, <2>1, FlushLeaves DEF ResultRight, Undisturbed, MailTypes
  <1> QED
    BY <1>6, <1>7, <1>9, <1>10, <1>11

\* The firmware takes a message and answers it if it is there.
LEMMA MailFirmware == ASSUME MailInv, firmware PROVE MailInv'
  <1> USE FirmwareAssumption DEF MailInv
  <1>1. /\ box1 # <<>> /\ box1' = Tail(box1) /\ box0' = Append(box0, Head(box1))
        /\ UNCHANGED <<mb_cpu, mb_at, mb_who, mb_frame, mb_shared, mb_line, mb_mail, mb_result, mb_strays>>
    BY DEF firmware
  <1> DEFINE mine == mb_at # "idle" /\ Head(box1) \ (0..3) = Bus(mb_cpu, mb_frame)
  <1>2. IF mine
        THEN /\ \E answer \in Answers :
                  /\ mb_memory' = IF mb_memory = "request" THEN answer ELSE mb_memory
                  /\ mb_answered' = IF mb_memory = "request" THEN answer ELSE "none"
             /\ mb_late' = mb_late
        ELSE mb_late' = TRUE /\ mb_memory' = mb_memory /\ mb_answered' = mb_answered
    BY DEF firmware, Bus, firmware_phys_to_bus_address
  <1>3. /\ box1' \in Seq(SUBSET Nat) /\ Len(box1) \in Nat /\ Len(box1) >= 1
        /\ Len(box1') = Len(box1) - 1 /\ \A k \in 1..Len(box1') : box1'[k] = box1[k + 1]
        /\ Head(box1) = box1[1] /\ Head(box1) \in SUBSET Nat
    BY <1>1 DEF MailTypes
  <1>4. box0' \in Seq(SUBSET Nat)
    BY <1>1, <1>3 DEF MailTypes
  <1>5. "request" \notin Answers /\ "none" \notin Answers
    OBVIOUS
  <1>6. mine => Unanswered
    BY <1>3 DEF OnceEach
  <1> HIDE DEF mine
  <1>7. MailTypes'
    <2>1. mb_memory' \in {"old", "request"} \union Answers /\ mb_answered' \in {"none"} \union Answers
            /\ mb_late' \in BOOLEAN
      BY <1>2 DEF MailTypes
    <2> QED
      BY <1>1, <1>3, <1>4, <2>1 DEF MailTypes
  <1>8. CopiesRight'
    <2>1. CASE mine
      BY <1>1, <1>2, <1>5, <1>6, <2>1 DEF Unanswered, CopiesRight, Right
    <2>2. CASE ~mine
      BY <1>1, <1>2, <2>2 DEF CopiesRight, Right
    <2> QED
      BY <2>1, <2>2
  <1>9. OnceEach'
    <2>1. \A k \in 1..Len(box1') : \E f \in 1..mb_frame :
             box1'[k] \ (0..3) = Bus(mb_cpu, f) /\ (f = mb_frame => mb_at # "write")
      <3> SUFFICES ASSUME NEW k \in 1..Len(box1')
                   PROVE  \E f \in 1..mb_frame :
                            box1[k + 1] \ (0..3) = Bus(mb_cpu, f) /\ (f = mb_frame => mb_at # "write")
        BY <1>3
      <3>1. k + 1 \in 1..Len(box1)
        BY <1>3
      <3> QED
        BY <3>1 DEF OnceEach
    <2>2. \A k, l \in 1..Len(box1') :
             box1'[k] \ (0..3) = Bus(mb_cpu, mb_frame) /\ box1'[l] \ (0..3) = Bus(mb_cpu, mb_frame) => k = l
      <3> SUFFICES ASSUME NEW k \in 1..Len(box1'), NEW l \in 1..Len(box1'),
                          box1[k + 1] \ (0..3) = Bus(mb_cpu, mb_frame),
                          box1[l + 1] \ (0..3) = Bus(mb_cpu, mb_frame)
                   PROVE  k = l
        BY <1>3
      <3>1. k + 1 \in 1..Len(box1) /\ l + 1 \in 1..Len(box1)
        BY <1>3
      <3>2. k + 1 = l + 1
        BY <3>1 DEF OnceEach
      <3> QED
        BY <3>2
    <2>3. \A k \in 1..Len(box1') :
             box1'[k] \ (0..3) = Bus(mb_cpu, mb_frame) /\ mb_at # "idle" => ~mine /\ Unanswered
      <3> SUFFICES ASSUME NEW k \in 1..Len(box1'), mb_at # "idle",
                          box1[k + 1] \ (0..3) = Bus(mb_cpu, mb_frame)
                   PROVE  ~mine /\ Unanswered
        BY <1>3
      <3>1. k + 1 \in 1..Len(box1) /\ k + 1 # 1 /\ 1 \in 1..Len(box1)
        BY <1>3
      <3>2. Unanswered
        BY <3>1 DEF OnceEach
      <3>3. ~mine
        <4> SUFFICES ASSUME mine PROVE FALSE
          OBVIOUS
        <4>1. box1[1] \ (0..3) = Bus(mb_cpu, mb_frame)
          BY <1>3 DEF mine
        <4> QED
          BY <3>1, <4>1 DEF OnceEach
      <3> QED
        BY <3>2, <3>3
    \* Nothing is mine that has not been written.
    <2>4. mb_at = "write" => ~mine
      <3> SUFFICES ASSUME mb_at = "write", mine PROVE FALSE
        OBVIOUS
      <3>1. 1 \in 1..Len(box1) /\ box1[1] \ (0..3) = Bus(mb_cpu, mb_frame)
        BY <1>3 DEF mine
      <3>2. PICK f \in 1..mb_frame : Bus(mb_cpu, mb_frame) = Bus(mb_cpu, f) /\ f # mb_frame
        BY <3>1 DEF OnceEach
      <3>3. mb_frame \in 1..25 /\ f \in 1..25
        BY DEF MailTypes
      <3> QED
        BY <3>2, <3>3, BusesDiffer
    <2>5. ~mine /\ Unanswered => Unanswered'
      BY <1>1, <1>2 DEF Unanswered
    <2>6. mb_at = "write" => Unanswered'
      BY <2>4, <2>5 DEF OnceEach
    <2>7. \A k \in 1..Len(box1') :
             box1'[k] \ (0..3) = Bus(mb_cpu, mb_frame) /\ mb_at # "idle" => Unanswered'
      BY <2>3, <2>5
    <2> QED
      BY <1>1, <2>1, <2>2, <2>6, <2>7 DEF OnceEach
  \* In lockstep it is the caller's, and there is no other.
  <1>10. mb_strays = 0 => /\ mine /\ mb_at = "read" /\ ~mb_late
                          /\ box1' = <<>> /\ box0' = <<Mail>> /\ Mail' = Mail
    <2> SUFFICES ASSUME mb_strays = 0
                 PROVE  /\ mine /\ mb_at = "read" /\ ~mb_late
                        /\ box1' = <<>> /\ box0' = <<Mail>> /\ Mail' = Mail
      OBVIOUS
    <2>1. mb_at = "read" /\ box1 = <<Mail>> /\ box0 = <<>> /\ ~mb_late
      BY <1>1 DEF Lockstep
    <2>2. Mail \ (0..3) = Bus(mb_cpu, mb_frame)
      <3>1. mb_frame \in 1..25
        BY <2>1 DEF MailTypes
      <3> QED
        BY <3>1, MailParts DEF Mail, MailTypes
    <2>3. Mail' = Mail
      BY <1>1 DEF Mail, Bus, Channel_of, AddressOf
    <2> QED
      BY <1>1, <2>1, <2>2, <2>3 DEF mine
  <1>11. Lockstep'
    BY <1>1, <1>2, <1>10 DEF Lockstep
  <1>12. Undisturbed' /\ ResultRight'
    <2>1. ResultRight'
      BY <1>1, <1>2 DEF ResultRight, mine
    <2>2. Undisturbed'
      BY <1>1, <1>2, <1>10 DEF Undisturbed
    <2> QED
      BY <2>1, <2>2
  <1> QED
    BY <1>7, <1>8, <1>9, <1>11, <1>12

\* The caller takes mail, and its message out of the cache if it is its own.
LEMMA MailRead == ASSUME MailInv, mailbox_read PROVE MailInv'
  <1> USE FirmwareAssumption DEF MailInv
  <1>1. /\ mb_at = "read" /\ box0 # <<>> /\ box0' = Tail(box0) /\ mb_at' = "look"
        /\ UNCHANGED <<mb_cpu, mb_who, mb_frame, mb_shared, box1, mb_result, mb_answered, mb_strays, mb_late>>
        /\ mb_mail' = IF Head(box0) \intersect 0..3 # Channel_of(mb_who) THEN "failed" ELSE "mail"
    BY DEF mailbox_read
  <1>2. IF Reaches(Head(box0) \intersect 4..29) THEN Flush ELSE UNCHANGED <<mb_memory, mb_line>>
    BY DEF mailbox_read
  <1>3. /\ mb_line' \in [here : BOOLEAN, dirty : BOOLEAN, is : {"old", "request"} \union Answers]
        /\ mb_memory' \in {"old", "request"} \union Answers
        /\ \/ mb_line' = mb_line /\ mb_memory' = mb_memory
           \/ /\ mb_line'.here = FALSE /\ mb_line'.dirty = FALSE
              /\ mb_memory' = IF mb_line.dirty THEN mb_line.is ELSE mb_memory
    BY <1>2, FlushLeaves DEF MailTypes
  <1>4. MailTypes'
    <2>1. mb_line'.dirty => mb_line'.here
      BY <1>3 DEF MailTypes
    <2>2. box0' \in Seq(SUBSET Nat)
      BY <1>1 DEF MailTypes
    <2> QED
      BY <1>1, <1>3, <2>1, <2>2 DEF MailTypes
  <1>5. CopiesRight'
    BY <1>1, <1>3 DEF CopiesRight, Right, MailTypes
  <1>6. Unanswered => Unanswered'
    BY <1>1, <1>3 DEF Unanswered, MailTypes
  <1>7. OnceEach'
    BY <1>1, <1>6 DEF OnceEach
  <1>8. mb_strays = 0 => box1 = <<>> /\ box0 = <<Mail>>
    BY <1>1 DEF Lockstep
  <1>9. Lockstep' /\ ResultRight'
    BY <1>1, <1>8 DEF Lockstep, ResultRight
  <1>10. Undisturbed'
    <2> SUFFICES ASSUME mb_strays = 0, mb_shared = FALSE
                 PROVE  /\ ~mb_line'.dirty /\ mb_mail' = "mail"
                        /\ mb_answered \in Answers /\ mb_memory' = mb_answered
                        /\ mb_line'.here => mb_line'.is = mb_answered
      BY <1>1 DEF Undisturbed
    <2>1. Head(box0) = Mail /\ ~mb_line.dirty /\ mb_answered \in Answers /\ mb_memory = mb_answered
      BY <1>1, <1>8 DEF Undisturbed
    <2>2. mb_frame \in 1..25
      BY <1>1 DEF MailTypes
    <2>3. Mail \intersect 4..29 = AddressOf(mb_frame) /\ Mail \intersect 0..3 = Channel_of(mb_who)
      BY <2>2, MailParts DEF Mail, MailTypes
    <2>4. Flush
      BY <1>2, <2>1, <2>3 DEF Reaches
    <2> QED
      BY <1>1, <2>1, <2>3, <2>4, FlushLeaves
  <1> QED
    BY <1>4, <1>5, <1>7, <1>9, <1>10

\* The caller looks at its message, which is gone after that.
LEMMA MailLook == ASSUME MailInv, look PROVE MailInv'
  <1> USE FirmwareAssumption DEF MailInv
  <1>1. /\ mb_at = "look" /\ mb_at' = "idle" /\ mb_line' = NotHere /\ mb_memory' = "old"
        /\ UNCHANGED <<mb_cpu, mb_who, mb_frame, mb_shared, box1, box0, mb_mail, mb_answered, mb_strays, mb_late>>
    BY DEF look, thermal_look, framebuffer_look
  <1>2. \/ mb_who = "thermal" /\ mb_result' = IF Seen \in Answers THEN Seen ELSE "failed"
        \/ mb_who = "framebuffer" /\ mb_mail = "failed" /\ mb_result' = "failed"
        \/ mb_who = "framebuffer" /\ mb_result' = IF Seen = "answer" THEN Seen ELSE "failed"
    BY DEF look, thermal_look, framebuffer_look
  <1>3. /\ mb_line' \in [here : BOOLEAN, dirty : BOOLEAN, is : {"old", "request"} \union Answers]
        /\ mb_line'.here = FALSE /\ mb_line'.dirty = FALSE
    BY <1>1 DEF NotHere
  <1>4. Seen \in {"old", "request"} \union Answers /\ (Seen \in Answers => Seen = mb_answered)
    BY DEF Seen, CopiesRight, Right, MailTypes
  <1>5. MailTypes'
    <2>1. mb_line'.dirty => mb_line'.here
      BY <1>3
    <2> QED
      BY <1>1, <1>3, <2>1 DEF MailTypes
  <1>6. CopiesRight'
    BY <1>1, <1>3 DEF CopiesRight, Right
  <1>7. OnceEach'
    BY <1>1 DEF OnceEach
  <1>8. Lockstep'
    BY <1>1 DEF Lockstep
  <1>9. ResultRight'
    BY <1>1, <1>2, <1>4 DEF ResultRight
  <1>10. Undisturbed'
    <2> SUFFICES ASSUME mb_strays = 0, mb_shared = FALSE PROVE Success'
      BY <1>1 DEF Undisturbed
    <2>1. mb_mail = "mail" /\ mb_answered \in Answers /\ Seen = mb_answered
      BY <1>1 DEF Undisturbed, Seen
    <2> QED
      BY <1>1, <1>2, <2>1 DEF Success
  <1> QED
    BY <1>5, <1>6, <1>7, <1>8, <1>9, <1>10

LEMMA MailStray == ASSUME MailInv, stray PROVE MailInv'
  <1> USE DEF MailInv
  <1>1. /\ mb_strays' = mb_strays + 1 /\ box0' = Append(box0, {})
        /\ UNCHANGED <<mb_cpu, mb_at, mb_who, mb_frame, mb_shared, mb_memory, mb_line, box1, mb_mail,
                       mb_result, mb_answered, mb_late>>
    BY DEF stray
  <1>2. mb_strays' \in Nat /\ mb_strays' # 0 /\ box0' \in Seq(SUBSET Nat)
    BY <1>1 DEF MailTypes
  <1>3. MailTypes'
    BY <1>1, <1>2 DEF MailTypes
  <1>4. CopiesRight' /\ OnceEach'
    BY <1>1 DEF CopiesRight, Right, OnceEach, Unanswered
  <1>5. Lockstep' /\ Undisturbed' /\ ResultRight'
    BY <1>1, <1>2 DEF Lockstep, Undisturbed, ResultRight
  <1> QED
    BY <1>3, <1>4, <1>5

LEMMA MailInvStep == MailInv /\ [FirmwareNext]_<<mailbox_vars, frame_vars>> => MailInv'
  <1> SUFFICES ASSUME MailInv, [FirmwareNext]_<<mailbox_vars, frame_vars>> PROVE MailInv'
    OBVIOUS
  <1>1. CASE UNCHANGED mailbox_vars
    <2>1. MailTypes' /\ CopiesRight' /\ Undisturbed' /\ ResultRight'
      BY <1>1 DEF mailbox_vars, MailInv, MailTypes, CopiesRight, Right, Undisturbed, Success, ResultRight
    <2>2. OnceEach'
      BY <1>1 DEF mailbox_vars, MailInv, OnceEach, Unanswered
    <2>3. Lockstep'
      BY <1>1 DEF mailbox_vars, MailInv, Lockstep, Mail
    <2> QED
      BY <2>1, <2>2, <2>3 DEF MailInv
  <1>2. CASE Mailbox_step
    BY <1>2, MailAsk, MailWrite, MailFirmware, MailRead, MailLook, MailStray, MailCacheMoves
       DEF Mailbox_step, framebuffer_setup, thermal_read
  <1> QED
    BY <1>1, <1>2 DEF FirmwareNext, Frame_step

\* Whatever the cache does with the message's line and whatever mail comes
\* that nobody asked for: a call that succeeds returns the firmware's answer
\* to its own message.  Without such mail each call finds both mailboxes
\* empty, and one beside whose message nobody stores gets its answer
\* (mailbox.c, thermal.c, framebuffer_init()).
THEOREM AnswersAreRight == FirmwareSpec => []MailRight
  <1>1. MailInv => MailRight
    BY FirmwareAssumption DEF MailInv, MailRight, ResultRight, Lockstep, Undisturbed, Success, MailTypes
  <1> QED
    BY <1>1, MailInvInit, MailInvStep, PTL DEF FirmwareSpec

-----------------------------------------------------------------------------
(* The frame buffer                                                        *)

\* Where the bytes of pixels lie when rows follow each other.
ByteAt(w, p, k) == p[2] * (3 * w) + p[1] * 3 + k

LEMMA OffsetIs ==
    ASSUME NEW p, NEW k, fb.pitch = 3 * fb.w
    PROVE  Offset(p[1], p[2], k) = ByteAt(fb.w, p, k)
  BY DEF Offset, ByteAt

LEMMA Times ==
    ASSUME NEW a \in Nat, NEW b \in Nat, NEW n \in Nat, a < b
    PROVE  a * n + n <= b * n /\ a * n \in Nat /\ b * n \in Nat
  <1>1. PICK d \in Nat : b = a + 1 + d
    <2>1. b - a - 1 \in Nat /\ b = a + 1 + (b - a - 1)
      OBVIOUS
    <2> QED
      BY <2>1
  <1>2. (a + 1 + d) * n = a * n + n + d * n /\ d * n \in Nat /\ a * n \in Nat
    OBVIOUS
  <1> QED
    BY <1>1, <1>2

\* Inside the buffer, each at a place of its own.
LEMMA BytesApart ==
    ASSUME NEW w \in Nat, NEW h \in Nat,
           NEW p \in (0..(w - 1)) \X (0..(h - 1)), NEW k \in 0..2
    PROVE  /\ ByteAt(w, p, k) \in 0..(w * h * 3 - 1)
           /\ \A q \in (0..(w - 1)) \X (0..(h - 1)), l \in 0..2 :
                ByteAt(w, p, k) = ByteAt(w, q, l) => p = q /\ k = l
  <1>1. /\ p = <<p[1], p[2]>> /\ p[1] \in Nat /\ p[2] \in Nat /\ p[1] < w /\ p[2] < h /\ k \in Nat /\ k <= 2
    OBVIOUS
  <1> DEFINE n == 3 * w
  <1>2. n \in Nat /\ \A x \in Nat : x < w => x * 3 + 3 <= n
    OBVIOUS
  <1>3. w * h * 3 = h * n
    OBVIOUS
  <1> HIDE DEF n
  <1>4. p[2] * n + n <= h * n /\ p[2] * n \in Nat /\ h * n \in Nat
    BY <1>1, <1>2, Times
  <1>5. ByteAt(w, p, k) = p[2] * n + p[1] * 3 + k
    BY DEF ByteAt, n
  <1>6. ByteAt(w, p, k) \in 0..(w * h * 3 - 1)
    BY <1>1, <1>2, <1>3, <1>4, <1>5
  <1>7. ASSUME NEW q \in (0..(w - 1)) \X (0..(h - 1)), NEW l \in 0..2, ByteAt(w, p, k) = ByteAt(w, q, l)
        PROVE  p = q /\ k = l
    <2>1. /\ q = <<q[1], q[2]>> /\ q[1] \in Nat /\ q[2] \in Nat /\ q[1] < w /\ q[2] < h
          /\ l \in Nat /\ l <= 2
      OBVIOUS
    <2>2. p[2] * n + p[1] * 3 + k = q[2] * n + q[1] * 3 + l /\ q[2] * n \in Nat
      BY <1>5, <1>7, <1>2, <2>1 DEF ByteAt, n
    <2>3. p[2] < q[2] => p[2] * n + n <= q[2] * n
      BY <1>1, <1>2, <2>1, Times
    <2>4. q[2] < p[2] => q[2] * n + n <= p[2] * n
      BY <1>1, <1>2, <2>1, Times
    <2>5. p[2] = q[2]
      BY SMTT(30), <1>1, <1>2, <1>4, <2>1, <2>2, <2>3, <2>4
    <2>6. p[1] * 3 + k = q[1] * 3 + l
      <3>1. p[2] * n = q[2] * n
        BY <2>5
      <3> QED
        BY <1>1, <1>4, <2>1, <2>2, <3>1
    <2> QED
      BY <1>1, <2>1, <2>5, <2>6
  <1> QED
    BY <1>6, <1>7

LEMMA OffsetMod ==
    ASSUME NEW w \in Nat, NEW h \in Nat,
           NEW p \in (0..(w - 1)) \X (0..(h - 1)), NEW k \in 0..2
    PROVE  ByteAt(w, p, k) % 3 = k
  <1> DEFINE m == p[2] * w + p[1]
  <1>1. p[1] \in Nat /\ p[2] \in Nat /\ m \in Nat
    OBVIOUS
  <1>2. ByteAt(w, p, k) = 3 * m + k
    BY <1>1 DEF ByteAt
  <1> HIDE DEF m
  <1>3. (3 * m + k) % 3 = k
    BY <1>1
  <1> QED
    BY <1>2, <1>3

FrameTypes ==
    /\ fb \in [w : Nat, h : Nat, pitch : Nat, ready : BOOLEAN]
    /\ DOMAIN pixels = Bytes_of(fb) /\ DOMAIN shown = Bytes_of(fb)
    /\ DOMAIN picture = Places_of(fb) /\ DOMAIN wanted = Places_of(fb)

\* The bytes of a picture.
Holds(bytes, colors) ==
    \A p \in Places_of(fb), k \in 0..2 : bytes[ByteAt(fb.w, p, k)] = Component(colors[p], k)

Faithful ==
    fb.ready /\ fb.pitch = 3 * fb.w =>
        ~fb_outside /\ Holds(pixels, picture) /\ Holds(shown, wanted)

\* Nothing is drawn before the frame buffer was asked for, and nothing asked
\* for once something was drawn.
DrawnAfter ==
    /\ mb_at # "idle" => draws = 0
    /\ draws = 0 => ~fb_outside /\ ~fb_null
    /\ draws \in Nat
    /\ fb_null => fb.w > 0 /\ ~fb.ready

FrameInv == FrameTypes /\ Faithful /\ DrawnAfter

LEMMA FrameInvInit == FirmwareInit => FrameInv
  <1> SUFFICES ASSUME FirmwareInit PROVE FrameInv
    OBVIOUS
  <1>1. /\ fb = [w |-> 0, h |-> 0, pitch |-> 0, ready |-> FALSE]
        /\ pixels = NoPicture /\ shown = NoPicture /\ picture = NoPicture /\ wanted = NoPicture
        /\ fb_outside = FALSE /\ fb_null = FALSE /\ draws = 0 /\ mb_at = "idle"
    BY DEF FirmwareInit
  <1>2. /\ fb \in [w : Nat, h : Nat, pitch : Nat, ready : BOOLEAN]
        /\ fb.w = 0 /\ fb.h = 0 /\ fb.ready = FALSE
    BY <1>1
  <1>3. DOMAIN NoPicture = {}
    BY DEF NoPicture
  <1>4. Bytes_of(fb) = {} /\ Places_of(fb) = {}
    BY <1>2 DEF Bytes_of, Places_of
  <1>5. FrameTypes
    BY <1>1, <1>2, <1>3, <1>4 DEF FrameTypes
  <1>6. Faithful
    BY <1>2 DEF Faithful
  <1>7. DrawnAfter
    BY <1>1 DEF DrawnAfter
  <1> QED
    BY <1>5, <1>6, <1>7 DEF FrameInv

\* The message is believed, and the buffers are new.
LEMMA FrameLook == ASSUME FrameInv, framebuffer_look, mb_at' = "idle" PROVE FrameInv'
  <1> USE DEF FrameInv
  <1>1. CASE UNCHANGED frame_vars
    BY <1>1 DEF frame_vars, FrameTypes, Faithful, Holds, DrawnAfter, Bytes_of, Places_of, ByteAt, Component, Shifted
  <1>2. CASE ~UNCHANGED frame_vars
    <2>1. PICK screen \in Screens :
            /\ fb' = [w |-> screen.w, h |-> screen.h, pitch |-> screen.pitch, ready |-> Seen = "answer"]
            /\ pixels' = [o \in Bytes_of(screen) |-> 0] /\ shown' = [o \in Bytes_of(screen) |-> 0]
            /\ picture' = [p \in Places_of(screen) |-> 0] /\ wanted' = [p \in Places_of(screen) |-> 0]
      BY <1>2 DEF framebuffer_look
    <2>2. mb_at = "look" /\ UNCHANGED <<fb_outside, fb_null, draws>>
      BY <1>2 DEF framebuffer_look
    <2>3. screen \in [w : Nat, h : Nat, pitch : Nat] /\ (Seen = "answer") \in BOOLEAN
      BY FrameAssumption
    <2>4. fb'.w = screen.w /\ fb'.h = screen.h /\ fb' \in [w : Nat, h : Nat, pitch : Nat, ready : BOOLEAN]
      <3> DEFINE answered == Seen = "answer"
      <3>1. fb' = [w |-> screen.w, h |-> screen.h, pitch |-> screen.pitch, ready |-> answered]
              /\ answered \in BOOLEAN
        BY <2>1
      <3> HIDE DEF answered
      <3> QED
        BY <2>3, <3>1
    <2>5. Bytes_of(fb') = Bytes_of(screen) /\ Places_of(fb') = Places_of(screen)
      BY <2>4 DEF Bytes_of, Places_of
    <2>6. FrameTypes'
      BY <2>1, <2>4, <2>5 DEF FrameTypes
    <2>7. \A k \in 0..2 : Component(0, k) = 0
      BY DEF Component, Shifted
    <2>8. \A p \in Places_of(fb'), k \in 0..2 : ByteAt(fb'.w, p, k) \in Bytes_of(fb')
      <3> SUFFICES ASSUME NEW p \in Places_of(fb'), NEW k \in 0..2
                   PROVE  ByteAt(fb'.w, p, k) \in Bytes_of(fb')
        OBVIOUS
      <3>1. fb'.w \in Nat /\ fb'.h \in Nat /\ p \in (0..(fb'.w - 1)) \X (0..(fb'.h - 1))
        BY <2>4 DEF Places_of
      <3> QED
        BY <3>1, BytesApart DEF Bytes_of
    <2>9. Faithful'
      BY <2>1, <2>2, <2>5, <2>7, <2>8 DEF Faithful, Holds, DrawnAfter
    <2>10. DrawnAfter'
      BY <2>2 DEF DrawnAfter
    <2> QED
      BY <2>6, <2>9, <2>10
  <1> QED
    BY <1>1, <1>2

\* What a loop of framebuffer.c does to the pixels it is about.
LEMMA StoredPixels ==
    ASSUME FrameInv, NEW colors, DOMAIN colors \subseteq Places_of(fb), Stored(colors),
           fb.ready, fb.pitch = 3 * fb.w
    PROVE  /\ fb_outside' = fb_outside /\ DOMAIN pixels' = DOMAIN pixels
           /\ \A p \in Places_of(fb), k \in 0..2 :
                pixels'[ByteAt(fb.w, p, k)] =
                    IF p \in DOMAIN colors THEN Component(colors[p], k) ELSE pixels[ByteAt(fb.w, p, k)]
  <1> DEFINE bytes == {<<p, k>> : p \in DOMAIN colors, k \in 0..2}
             Spot(b) == ByteAt(fb.w, b[1], b[2])
  <1>1. \A b \in bytes : Offset(b[1][1], b[1][2], b[2]) = Spot(b)
    BY OffsetIs
  <1>2. /\ pixels' = [o \in DOMAIN pixels |->
             IF \E b \in bytes : Offset(b[1][1], b[1][2], b[2]) = o
             THEN LET b == CHOOSE b \in bytes : Offset(b[1][1], b[1][2], b[2]) = o
                  IN Component(colors[b[1]], b[2])
             ELSE pixels[o]]
        /\ fb_outside' = (fb_outside \/ \E b \in bytes : Offset(b[1][1], b[1][2], b[2]) \notin DOMAIN pixels)
    BY DEF Stored
  <1>3. fb.w \in Nat /\ fb.h \in Nat /\ Places_of(fb) = (0..(fb.w - 1)) \X (0..(fb.h - 1))
    BY DEF FrameInv, FrameTypes, Places_of
  <1>4. \A p \in Places_of(fb), k \in 0..2 : ByteAt(fb.w, p, k) \in DOMAIN pixels
    BY <1>3, BytesApart DEF FrameInv, FrameTypes, Bytes_of
  <1>5. \A b \in bytes : b[1] \in DOMAIN colors /\ b[2] \in 0..2 /\ b = <<b[1], b[2]>>
    OBVIOUS
  <1>6. \A b \in bytes : Spot(b) \in DOMAIN pixels
    BY <1>4, <1>5
  <1>7. ASSUME NEW p \in Places_of(fb), NEW k \in 0..2
        PROVE  pixels'[ByteAt(fb.w, p, k)] =
                 IF p \in DOMAIN colors THEN Component(colors[p], k) ELSE pixels[ByteAt(fb.w, p, k)]
    <2> DEFINE o == ByteAt(fb.w, p, k)
    <2>1. o \in DOMAIN pixels
      BY <1>4
    <2>2. \A b \in bytes : Spot(b) = o => b[1] = p /\ b[2] = k
      BY <1>3, <1>5, BytesApart
    <2>3. p \in DOMAIN colors => <<p, k>> \in bytes /\ Spot(<<p, k>>) = o
      OBVIOUS
    <2> DEFINE chosen == CHOOSE b \in bytes : Offset(b[1][1], b[1][2], b[2]) = o
    <2>4. pixels'[o] = IF \E b \in bytes : Offset(b[1][1], b[1][2], b[2]) = o
                       THEN Component(colors[chosen[1]], chosen[2]) ELSE pixels[o]
      BY <1>2, <2>1
    <2>5. CASE p \in DOMAIN colors
      <3>1. \E b \in bytes : Offset(b[1][1], b[1][2], b[2]) = o
        <4> DEFINE mine == <<p, k>>
        <4>1. mine \in bytes /\ Spot(mine) = o
          BY <2>3, <2>5
        <4> HIDE DEF mine, o, bytes, Spot
        <4> QED
          BY <1>1, <4>1
      <3>2. chosen \in bytes /\ Offset(chosen[1][1], chosen[1][2], chosen[2]) = o
        BY <3>1
      <3>3. chosen[1] = p /\ chosen[2] = k
        <4> HIDE DEF chosen, o, bytes, Spot
        <4> QED
          BY <1>1, <2>2, <3>2
      <3> QED
        BY <2>4, <2>5, <3>1, <3>3
    <2>6. CASE p \notin DOMAIN colors
      <3>1. ~\E b \in bytes : Offset(b[1][1], b[1][2], b[2]) = o
        BY <1>1, <1>5, <2>2, <2>6
      <3> QED
        BY <2>4, <2>6, <3>1
    <2> QED
      BY <2>5, <2>6
  <1>8. fb_outside' = fb_outside
    <2>1. ~\E b \in bytes : Offset(b[1][1], b[1][2], b[2]) \notin DOMAIN pixels
      BY <1>1, <1>6
    <2>2. fb_outside = FALSE
      BY DEF FrameInv, Faithful
    <2> DEFINE strayed == \E b \in bytes : Offset(b[1][1], b[1][2], b[2]) \notin DOMAIN pixels
    <2>3. fb_outside' = (fb_outside \/ strayed) /\ ~strayed
      BY <1>2, <2>1
    <2> HIDE DEF strayed
    <2>4. fb_outside' = (FALSE \/ FALSE)
      BY <2>2, <2>3, Zenon
    <2> QED
      BY ONLY <2>2, <2>4
  <1>9. DOMAIN pixels' = DOMAIN pixels
    <2> DEFINE value(o) == IF \E b \in bytes : Offset(b[1][1], b[1][2], b[2]) = o
                           THEN LET b == CHOOSE b \in bytes : Offset(b[1][1], b[1][2], b[2]) = o
                                IN Component(colors[b[1]], b[2])
                           ELSE pixels[o]
    <2>1. pixels' = [o \in DOMAIN pixels |-> value(o)]
      BY ONLY <1>2
    <2> HIDE DEF value
    <2> QED
      BY ONLY <2>1
  <1> QED
    BY ONLY <1>7, <1>8, <1>9

LEMMA DomainStored ==
    ASSUME NEW colors, Stored(colors) PROVE DOMAIN pixels' = DOMAIN pixels
  <1> DEFINE bytes == {<<p, k>> : p \in DOMAIN colors, k \in 0..2}
             value(o) == IF \E b \in bytes : Offset(b[1][1], b[1][2], b[2]) = o
                         THEN LET b == CHOOSE b \in bytes : Offset(b[1][1], b[1][2], b[2]) = o
                              IN Component(colors[b[1]], b[2])
                         ELSE pixels[o]
  <1>1. pixels' = [o \in DOMAIN pixels |-> value(o)] \/ pixels' = pixels
    BY DEF Stored
  <1> HIDE DEF value
  <1> QED
    BY ONLY <1>1

LEMMA DomainPainted ==
    ASSUME NEW old, NEW colors
    PROVE  /\ DOMAIN Painted(old, colors) = DOMAIN old
           /\ \A p \in DOMAIN old :
                Painted(old, colors)[p] = IF p \in DOMAIN colors THEN colors[p] ELSE old[p]
  BY DEF Painted

\* The buffer goes on holding the picture that is drawn.
LEMMA StoredPicture ==
    ASSUME FrameInv, NEW colors, DOMAIN colors \subseteq Places_of(fb), Stored(colors),
           picture' = Painted(picture, colors), fb' = fb, draws' = draws + 1, mb_at' = "idle"
    PROVE  /\ DOMAIN pixels' = Bytes_of(fb) /\ DOMAIN picture' = Places_of(fb)
           /\ fb.ready /\ fb.pitch = 3 * fb.w => ~fb_outside' /\ Holds(pixels', picture')
           /\ DrawnAfter'
  <1>1. DOMAIN pixels' = Bytes_of(fb)
    BY DomainStored DEF FrameInv, FrameTypes
  <1>2. /\ DOMAIN picture' = Places_of(fb)
        /\ \A p \in Places_of(fb) : picture'[p] = IF p \in DOMAIN colors THEN colors[p] ELSE picture[p]
    <2>1. DOMAIN picture = Places_of(fb)
      BY DEF FrameInv, FrameTypes
    <2>2. /\ DOMAIN Painted(picture, colors) = DOMAIN picture
          /\ \A p \in DOMAIN picture :
               Painted(picture, colors)[p] = IF p \in DOMAIN colors THEN colors[p] ELSE picture[p]
      BY DomainPainted, Zenon
    <2> QED
      BY ONLY <2>1, <2>2, picture' = Painted(picture, colors)
  <1>3. ASSUME fb.ready, fb.pitch = 3 * fb.w PROVE ~fb_outside' /\ Holds(pixels', picture')
    <2>1. /\ fb_outside' = fb_outside
          /\ \A p \in Places_of(fb), k \in 0..2 :
               pixels'[ByteAt(fb.w, p, k)] =
                   IF p \in DOMAIN colors THEN Component(colors[p], k) ELSE pixels[ByteAt(fb.w, p, k)]
      BY <1>3, StoredPixels
    <2>2. ~fb_outside /\ Holds(pixels, picture)
      BY <1>3 DEF FrameInv, Faithful
    <2>3. ~fb_outside'
      BY ONLY <2>1, <2>2
    <2>4. Holds(pixels', picture')
      BY ONLY <1>2, <2>1, <2>2 DEF Holds
    <2> QED
      BY <2>3, <2>4
  <1>4. DrawnAfter'
    <2>1. draws \in Nat /\ draws' \in Nat /\ draws' # 0
      BY DEF FrameInv, DrawnAfter
    <2>2. ASSUME fb_null' PROVE fb.w > 0 /\ ~fb.ready
      <3>1. CASE fb_null
        BY <3>1 DEF FrameInv, DrawnAfter
      <3>2. CASE ~fb_null
        <4> DEFINE drawn == DOMAIN colors # {}
        <4>0. IF fb.ready THEN fb_null' = fb_null ELSE fb_null' = (fb_null \/ drawn)
          BY DEF Stored
        <4> HIDE DEF drawn
        <4>a. ~fb.ready /\ drawn
          BY ONLY <2>2, <3>2, <4>0, Zenon
        <4>1. ~fb.ready /\ DOMAIN colors # {}
          BY <4>a DEF drawn
        <4>2. PICK p : p \in (0..(fb.w - 1)) \X (0..(fb.h - 1))
          BY <4>1 DEF Places_of
        <4>3. fb.w \in Nat /\ p[1] \in 0..(fb.w - 1)
          BY <4>2 DEF FrameInv, FrameTypes
        <4> QED
          BY <4>1, <4>3
      <3> QED
        BY <3>1, <3>2
    <2> QED
      BY <2>1, <2>2 DEF DrawnAfter
  <1> QED
    BY <1>1, <1>2, <1>3, <1>4

\* Put together in the next state.
LEMMA FrameNext ==
    ASSUME FrameInv, fb' = fb, DOMAIN pixels' = Bytes_of(fb), DOMAIN shown' = Bytes_of(fb),
           DOMAIN picture' = Places_of(fb), DOMAIN wanted' = Places_of(fb),
           fb.ready /\ fb.pitch = 3 * fb.w =>
               ~fb_outside' /\ Holds(pixels', picture') /\ Holds(shown', wanted'),
           DrawnAfter'
    PROVE  FrameInv'
  <1>1. FrameTypes'
    BY DEF FrameInv, FrameTypes, Bytes_of, Places_of
  <1>2. Faithful'
    BY DEF FrameInv, Faithful, Holds, ByteAt, Places_of, Component, Shifted
  <1> QED
    BY <1>1, <1>2 DEF FrameInv

LEMMA FrameDraws ==
    ASSUME FrameInv, NEW colors, DOMAIN colors \subseteq Places_of(fb), Draws(colors),
           fb' = fb, draws' = draws + 1, mb_at' = "idle"
    PROVE  FrameInv'
  <1>1. Stored(colors) /\ picture' = Painted(picture, colors) /\ shown' = shown /\ wanted' = wanted
    BY DEF Draws
  <1>2. /\ DOMAIN pixels' = Bytes_of(fb) /\ DOMAIN picture' = Places_of(fb)
        /\ fb.ready /\ fb.pitch = 3 * fb.w => ~fb_outside' /\ Holds(pixels', picture')
        /\ DrawnAfter'
    BY <1>1, StoredPicture
  <1>3. /\ DOMAIN shown' = Bytes_of(fb) /\ DOMAIN wanted' = Places_of(fb)
        /\ fb.ready /\ fb.pitch = 3 * fb.w => Holds(shown', wanted')
    BY <1>1 DEF FrameInv, FrameTypes, Faithful
  <1> QED
    BY <1>2, <1>3, FrameNext

\* A push copies every byte.
LEMMA PushedHolds ==
    ASSUME FrameInv, NEW bytes, NEW colors, Holds(bytes, colors)
    PROVE  DOMAIN Pushed(bytes) = Bytes_of(fb) /\ Holds(Pushed(bytes), colors)
  <1>1. DOMAIN shown = Bytes_of(fb) /\ fb.w \in Nat /\ fb.h \in Nat
    BY DEF FrameInv, FrameTypes
  <1>2. \A p \in Places_of(fb), k \in 0..2 : ByteAt(fb.w, p, k) \in Bytes_of(fb)
    BY <1>1, BytesApart DEF Places_of, Bytes_of
  <1> QED
    BY <1>1, <1>2 DEF Pushed, Holds

LEMMA FrameStep == ASSUME FrameInv, Frame_step PROVE FrameInv'
  <1>1. /\ mb_at = "idle" /\ draws' = draws + 1 /\ fb' = fb /\ mb_at' = "idle"
        /\ \/ framebuffer_hline \/ framebuffer_vline \/ framebuffer_clear_screen
           \/ framebuffer_push \/ framebuffer_gradient \/ framebuffer_load
    BY DEF Frame_step, mailbox_vars
  <1>2. /\ fb.w \in Nat /\ fb.h \in Nat /\ Places_of(fb) = (0..(fb.w - 1)) \X (0..(fb.h - 1))
        /\ DOMAIN pixels = Bytes_of(fb) /\ DOMAIN shown = Bytes_of(fb)
        /\ DOMAIN picture = Places_of(fb) /\ DOMAIN wanted = Places_of(fb)
    BY DEF FrameInv, FrameTypes, Places_of
  <1>3. CASE framebuffer_hline
    <2>1. PICK color \in Colors, y \in 0..(fb.h - 1), x0 \in 0..fb.w, x1 \in 0..fb.w :
            Draws(Row(y, x0, x1, color))
      BY <1>3 DEF framebuffer_hline
    <2>2. DOMAIN Row(y, x0, x1, color) \subseteq Places_of(fb)
      BY <1>2 DEF Row
    <2> QED
      BY <1>1, <2>1, <2>2, FrameDraws
  <1>4. CASE framebuffer_vline
    <2>1. PICK color \in Colors, x \in 0..(fb.w - 1), y0 \in 0..fb.h, y1 \in 0..fb.h :
            Draws(Column(x, y0, y1, color))
      BY <1>4 DEF framebuffer_vline
    <2>2. DOMAIN Column(x, y0, y1, color) \subseteq Places_of(fb)
      BY <1>2 DEF Column
    <2> QED
      BY <1>1, <2>1, <2>2, FrameDraws
  <1>5. CASE framebuffer_clear_screen
    <2>1. PICK color \in Colors : Draws(Rows(color))
      BY <1>5 DEF framebuffer_clear_screen
    <2>2. DOMAIN Rows(color) \subseteq Places_of(fb)
      BY <1>2 DEF Rows
    <2> QED
      BY <1>1, <2>1, <2>2, FrameDraws
  <1>6. CASE framebuffer_push
    <2>1. /\ fb.ready /\ shown' = Pushed(pixels) /\ wanted' = picture
          /\ UNCHANGED <<pixels, picture, fb_outside, fb_null>>
      BY <1>6 DEF framebuffer_push
    <2>2. DOMAIN Pushed(pixels) = Bytes_of(fb)
      BY <1>2 DEF Pushed
    <2>3. ASSUME fb.ready, fb.pitch = 3 * fb.w
          PROVE  ~fb_outside' /\ Holds(pixels', picture') /\ Holds(shown', wanted')
      <3>1. ~fb_outside /\ Holds(pixels, picture)
        BY <2>3 DEF FrameInv, Faithful
      <3>2. Holds(Pushed(pixels), picture)
        BY <3>1, PushedHolds
      <3> QED
        BY <2>1, <3>1, <3>2
    <2>4. DrawnAfter'
      BY <1>1, <2>1 DEF FrameInv, DrawnAfter
    <2> QED
      BY <1>1, <1>2, <2>1, <2>2, <2>3, <2>4, FrameNext
  <1>7. CASE framebuffer_gradient
    <2>1. /\ Stored(Gradient) /\ shown' = IF fb.ready THEN Pushed(pixels') ELSE shown
          /\ picture' = [p \in DOMAIN picture |-> IF p[2] < fb.h - 1 THEN Shade(p[1]) ELSE picture[p]]
          /\ wanted' = picture'
      BY <1>7 DEF framebuffer_gradient
    <2>2. /\ DOMAIN Gradient \subseteq Places_of(fb)
          /\ \A p \in Places_of(fb) : p[2] < fb.h - 1 <=> p \in DOMAIN Gradient
          /\ \A p \in DOMAIN Gradient : Gradient[p] = Shade(p[1])
      BY <1>2 DEF Gradient
    <2>3. picture' = Painted(picture, Gradient)
      BY <1>2, <2>1, <2>2 DEF Painted
    <2>4. /\ DOMAIN pixels' = Bytes_of(fb) /\ DOMAIN picture' = Places_of(fb)
          /\ fb.ready /\ fb.pitch = 3 * fb.w => ~fb_outside' /\ Holds(pixels', picture')
          /\ DrawnAfter'
      BY <1>1, <2>1, <2>2, <2>3, StoredPicture
    <2>5. DOMAIN shown' = Bytes_of(fb)
      BY <1>2, <2>1 DEF Pushed
    <2>6. fb.ready /\ fb.pitch = 3 * fb.w => Holds(shown', wanted')
      BY <2>1, <2>4, PushedHolds
    <2> QED
      BY <1>1, <2>1, <2>4, <2>5, <2>6, FrameNext
  <1>8. CASE framebuffer_load
    <2>1. PICK color \in Colors :
            /\ shown' = IF fb.ready THEN [o \in DOMAIN shown |-> Component(color, o % 3)] ELSE shown
            /\ wanted' = [p \in DOMAIN wanted |-> color]
      BY <1>8 DEF framebuffer_load
    <2>2. /\ fb_null' = (fb_null \/ (~fb.ready /\ fb.w * fb.h > 0))
          /\ UNCHANGED <<pixels, picture, fb_outside>>
      BY <1>8 DEF framebuffer_load
    <2>3. DOMAIN shown' = Bytes_of(fb) /\ DOMAIN wanted' = Places_of(fb)
      BY <1>2, <2>1
    <2>4. ASSUME fb.ready, fb.pitch = 3 * fb.w
          PROVE  ~fb_outside' /\ Holds(pixels', picture') /\ Holds(shown', wanted')
      <3>1. ~fb_outside /\ Holds(pixels, picture)
        BY <2>4 DEF FrameInv, Faithful
      <3>2. ASSUME NEW p \in Places_of(fb), NEW k \in 0..2
            PROVE  shown'[ByteAt(fb.w, p, k)] = Component(wanted'[p], k)
        <4>1. ByteAt(fb.w, p, k) \in Bytes_of(fb) /\ ByteAt(fb.w, p, k) % 3 = k
          BY <1>2, BytesApart, OffsetMod DEF Bytes_of
        <4>2. shown'[ByteAt(fb.w, p, k)] = Component(color, k)
          BY <1>2, <2>1, <2>4, <4>1
        <4>3. wanted'[p] = color
          BY <1>2, <2>1
        <4> QED
          BY <4>2, <4>3
      <3> QED
        BY <2>2, <3>1, <3>2 DEF Holds
    <2>5. DrawnAfter'
      <3>1. draws \in Nat /\ draws' \in Nat /\ draws' # 0
        BY <1>1 DEF FrameInv, DrawnAfter
      <3>2. fb.w * fb.h > 0 => fb.w > 0
        <4>1. fb.w = 0 => fb.w * fb.h = 0
          BY <1>2
        <4> QED
          BY <1>2, <4>1
      <3>3. fb_null' => fb.w > 0 /\ ~fb.ready
        <4>1. fb_null => fb.w > 0 /\ ~fb.ready
          BY DEF FrameInv, DrawnAfter
        <4>2. fb_null' => fb_null \/ (~fb.ready /\ fb.w * fb.h > 0)
          BY ONLY <2>2
        <4> QED
          BY ONLY <3>2, <4>1, <4>2
      <3> QED
        BY <1>1, <3>1, <3>3 DEF DrawnAfter
    <2> QED
      BY <1>1, <1>2, <2>2, <2>3, <2>4, <2>5, FrameNext
  <1> QED
    BY <1>1, <1>3, <1>4, <1>5, <1>6, <1>7, <1>8

\* The mailboxes are busy with the message that asks for a frame buffer, before
\* anything is drawn, and with those that ask for the temperature.
LEMMA FrameInvStep ==
    FrameInv /\ [FirmwareNext]_<<mailbox_vars, frame_vars>> => FrameInv'
  <1> SUFFICES ASSUME FrameInv, [FirmwareNext]_<<mailbox_vars, frame_vars>> PROVE FrameInv'
    OBVIOUS
  <1>1. ASSUME UNCHANGED frame_vars, mb_at' = mb_at \/ draws = 0 \/ mb_at' = "idle" PROVE FrameInv'
    BY <1>1 DEF FrameInv, frame_vars, FrameTypes, Faithful, Holds, DrawnAfter, Bytes_of, Places_of,
                ByteAt, Component, Shifted
  <1>2. CASE framebuffer_setup \/ thermal_read
    BY <1>1, <1>2 DEF framebuffer_setup, thermal_read, ask
  <1>3. CASE mailbox_write
    BY <1>1, <1>3 DEF mailbox_write, FrameInv, DrawnAfter
  <1>4. CASE mailbox_read
    BY <1>1, <1>4 DEF mailbox_read, FrameInv, DrawnAfter
  <1>5. CASE look
    <2>1. CASE thermal_look
      BY <1>1, <1>5, <2>1 DEF look, thermal_look
    <2>2. CASE framebuffer_look
      BY <1>5, <2>2, FrameLook DEF look
    <2> QED
      BY <1>5, <2>1, <2>2 DEF look
  <1>6. CASE firmware
    BY <1>1, <1>6 DEF firmware
  <1>7. CASE stray
    BY <1>1, <1>7 DEF stray
  <1>8. CASE cache_moves
    BY <1>1, <1>8 DEF cache_moves
  <1>9. CASE Frame_step
    BY <1>9, FrameStep
  <1>10. CASE UNCHANGED <<mailbox_vars, frame_vars>>
    BY <1>1, <1>10 DEF mailbox_vars
  <1> QED
    BY <1>2, <1>3, <1>4, <1>5, <1>6, <1>7, <1>8, <1>9, <1>10 DEF FirmwareNext, Mailbox_step

LEMMA FrameInvRight == FrameInv => FrameRight
  <1> SUFFICES ASSUME FrameInv PROVE FrameRight
    OBVIOUS
  <1>1. ASSUME fb.ready, fb.pitch = 3 * fb.w, NEW p \in DOMAIN picture, NEW k \in 0..2
        PROVE  /\ pixels[Offset(p[1], p[2], k)] = Component(picture[p], k)
               /\ shown[Offset(p[1], p[2], k)] = Component(wanted[p], k)
    <2>1. p \in Places_of(fb) /\ Holds(pixels, picture) /\ Holds(shown, wanted)
      BY <1>1 DEF FrameInv, FrameTypes, Faithful
    <2>2. Offset(p[1], p[2], k) = ByteAt(fb.w, p, k)
      BY <1>1, OffsetIs
    <2> QED
      BY <2>1, <2>2 DEF Holds
  <1>2. fb.ready /\ fb.pitch = 3 * fb.w => ~fb_outside
    BY DEF FrameInv, Faithful
  <1>3. fb_null => fb.w > 0 /\ ~fb.ready
    BY DEF FrameInv, DrawnAfter
  <1> QED
    BY <1>1, <1>2, <1>3 DEF FrameRight

\* Where rows follow each other without a gap, what is shown is what was drawn
\* and pushed (framebuffer.c:161-286), for every size of the frame buffer and
\* every order of the calls that draw.
THEOREM FrameIsRight == FirmwareSpec => []FrameRight
  <1>1. FirmwareInit => FrameInv
    BY FrameInvInit
  <1>2. FrameInv /\ [FirmwareNext]_<<mailbox_vars, frame_vars>> => FrameInv'
    BY FrameInvStep
  <1>3. FrameInv => FrameRight
    BY FrameInvRight
  <1> QED
    BY <1>1, <1>2, <1>3, PTL DEF FirmwareSpec

-----------------------------------------------------------------------------
(* The program's image                                                     *)

\* Of a bounded set of numbers Max() is an upper bound.
LEMMA MaxIsBound ==
    ASSUME NEW S, S \subseteq Nat, S # {}, NEW bound \in Nat, \A y \in S : y <= bound
    PROVE  Max(S) \in S /\ \A y \in S : y <= Max(S)
  <1> DEFINE T == {n \in Nat : \A y \in S : y <= n}
  <1>1. PICK x \in T : \A n \in T : x <= n
    <2>1. bound \in T
      OBVIOUS
    <2> HIDE DEF T
    <2>2. T \subseteq Nat
      BY DEF T
    <2> QED
      BY <2>1, <2>2, LeastExists
  <1>2. x \in S
    <2> SUFFICES ASSUME x \notin S PROVE FALSE
      OBVIOUS
    <2>1. \A y \in S : y \in Nat /\ y <= x /\ y # x
      BY <1>1
    <2>2. x # 0
      <3>1. PICK y \in S : y \in Nat /\ y <= x /\ y # x
        BY <2>1
      <3> QED
        BY <1>1, <3>1
    <2>3. x - 1 \in T
      <3>1. x - 1 \in Nat
        BY <2>2, <1>1
      <3>2. \A y \in S : y <= x - 1
        BY <2>1, <1>1
      <3> QED
        BY <3>1, <3>2
    <2> QED
      BY <1>1, <2>3
  <1>3. \E m \in S : \A y \in S : m >= y
    BY <1>1, <1>2
  <1> QED
    BY <1>3 DEF Max

\* The sections follow each other.
LEMMA SectionsApart ==
    ASSUME NEW e \in Elfs
    PROVE  /\ {RodataAt(e), DataAt(e), BssAt(e), End(e)} \subseteq Nat
           /\ e.text <= RodataAt(e) /\ RodataAt(e) + e.rodata <= DataAt(e)
           /\ DataAt(e) + e.data <= BssAt(e) /\ End(e) = BssAt(e) + e.bss
  <1>1. \A n \in Nat : Aligned(n) \in Nat /\ n <= Aligned(n)
    <2> SUFFICES ASSUME NEW n \in Nat PROVE Aligned(n) \in Nat /\ n <= Aligned(n)
      OBVIOUS
    <2>1. PAGE \in Nat \ {0}
      BY LoaderAssumption
    <2> DEFINE m == n + PAGE - 1
               q == m \div PAGE
    <2>2. m \in Nat /\ q \in Nat /\ q * PAGE \in Nat
      BY <2>1
    <2>3. m < (q + 1) * PAGE
      BY <2>1, <2>2
    <2>4. (q + 1) * PAGE = q * PAGE + PAGE
      BY <2>1, <2>2
    <2>5. Aligned(n) = q * PAGE
      BY DEF Aligned
    <2> HIDE DEF q
    <2> QED
      BY <2>1, <2>2, <2>3, <2>4, <2>5
  <1>2. e.text \in Nat /\ e.rodata \in Nat /\ e.data \in Nat /\ e.bss \in Nat
    BY LoaderAssumption
  <1>3. RodataAt(e) \in Nat /\ e.text <= RodataAt(e)
    BY <1>1, <1>2 DEF RodataAt
  <1>4. DataAt(e) \in Nat /\ RodataAt(e) + e.rodata <= DataAt(e)
    BY <1>1, <1>2, <1>3 DEF DataAt
  <1>5. BssAt(e) \in Nat /\ DataAt(e) + e.data <= BssAt(e)
    BY <1>1, <1>2, <1>4 DEF BssAt
  <1> QED
    BY <1>2, <1>3, <1>4, <1>5 DEF End

\* What is stored: everything but the bss, which begins behind it.
InFile(e) == Text(e) \union Ro(e) \union Data(e)

LEMMA StoredBelow ==
    \A e \in Elfs : /\ InFile(e) \subseteq 0..(BssAt(e) - 1) /\ 0 \in InFile(e)
                    /\ DOMAIN e.refs \subseteq InFile(e)
                    /\ BssAt(e) \in Nat /\ End(e) = BssAt(e) + e.bss /\ e.bss \in Nat
  <1> SUFFICES ASSUME NEW e \in Elfs
               PROVE  /\ InFile(e) \subseteq 0..(BssAt(e) - 1) /\ 0 \in InFile(e)
                      /\ DOMAIN e.refs \subseteq InFile(e)
                      /\ BssAt(e) \in Nat /\ End(e) = BssAt(e) + e.bss /\ e.bss \in Nat
    OBVIOUS
  <1>1. e.text \in Nat \ {0} /\ e.rodata \in Nat /\ e.data \in Nat /\ e.bss \in Nat
    BY LoaderAssumption
  <1>2. DOMAIN e.refs \subseteq Data(e)
    BY LoaderAssumption
  <1> QED
    BY <1>1, <1>2, SectionsApart DEF InFile, Text, Ro, Data

\* Each relocation is listed, once.
LEMMA RelocsListed ==
    ASSUME NEW e \in Elfs
    PROVE  LET n == Cardinality(DOMAIN e.refs)
           IN /\ n \in Nat
              /\ n = 0 <=> DOMAIN e.refs = {}
              /\ RelocSeq(e) \in [1..n -> DOMAIN e.refs]
              /\ \A k, j \in 1..n : RelocSeq(e)[k] = RelocSeq(e)[j] => k = j
              /\ \A a \in DOMAIN e.refs : \E k \in 1..n : RelocSeq(e)[k] = a
  <1> DEFINE D == DOMAIN e.refs
             n == Cardinality(D)
  <1>1. IsFiniteSet(D)
    <2>1. IsFiniteSet(0..(BssAt(e) - 1))
      BY StoredBelow, FS_Interval
    <2>2. D \in SUBSET (0..(BssAt(e) - 1))
      BY StoredBelow
    <2> QED
      BY <2>1, <2>2, FS_Subset
  <1>2. n \in Nat /\ ExistsBijection(1..n, D)
    BY <1>1, FS_CardinalityType
  <1>3. RelocSeq(e) \in Bijection(1..n, D)
    BY <1>2 DEF RelocSeq, ExistsBijection
  <1>4. n = 0 <=> D = {}
    BY <1>1, FS_EmptySet
  <1> HIDE DEF n, D
  <1>5. RelocSeq(e) \in [1..n -> D]
        /\ (\A k, j \in 1..n : RelocSeq(e)[k] = RelocSeq(e)[j] => k = j)
        /\ \A a \in D : \E k \in 1..n : RelocSeq(e)[k] = a
    BY <1>3 DEF Bijection, Injection, Surjection, IsInjective
  <1> QED
    BY <1>2, <1>4, <1>5 DEF n, D

\* What elf2bflt writes is in the file: a stored word where it was in the ELF
\* file, zeros between the sections, and the relocations behind them all.
LEMMA FileHolds ==
    ASSUME NEW e \in Elfs
    PROVE  /\ \A a \in InFile(e) : HEADER + a \in DOMAIN Contents(e)
           /\ \A a \in 0..(BssAt(e) - 1) : HEADER + a \in DOMAIN Contents(e) =>
                Contents(e)[HEADER + a] = IF a \in InFile(e) THEN Written(e, a) ELSE 0
           /\ \A k \in 1..Cardinality(DOMAIN e.refs) :
                Contents(e)[bss_start(e) + k - 1] = RelocSeq(e)[k]
  <1> DEFINE last == Max({HEADER + a + 1 : a \in InFile(e)})
             n == Cardinality(DOMAIN e.refs)
             size == IF DOMAIN e.refs = {} THEN last ELSE bss_start(e) + n
             word(k) == CASE k - HEADER \in InFile(e) -> Written(e, k - HEADER)
                          [] DOMAIN e.refs # {} /\ k >= bss_start(e) -> RelocSeq(e)[k - bss_start(e) + 1]
                          [] OTHER -> 0
  <1>1. Contents(e) = [k \in 0..(size - 1) |-> word(k)]
    BY DEF Contents, InFile
  <1>2. /\ InFile(e) \subseteq 0..(BssAt(e) - 1) /\ 0 \in InFile(e) /\ BssAt(e) \in Nat
        /\ HEADER \in Nat \ {0} /\ n \in Nat /\ (n = 0 <=> DOMAIN e.refs = {})
        /\ bss_start(e) = HEADER + BssAt(e)
    BY StoredBelow, RelocsListed, LoaderAssumption DEF bss_start
  <1> HIDE DEF n
  <1>3. last \in Nat /\ last <= HEADER + BssAt(e) /\ \A a \in InFile(e) : HEADER + a + 1 <= last
    <2> DEFINE S == {HEADER + a + 1 : a \in InFile(e)}
    <2>1. S \subseteq Nat /\ HEADER + 0 + 1 \in S
          /\ \A y \in S : y <= HEADER + BssAt(e)
      BY <1>2
    <2>2. Max(S) \in S /\ \A y \in S : y <= Max(S)
      <3>1. S # {} /\ HEADER + BssAt(e) \in Nat
        BY <1>2, <2>1
      <3> HIDE DEF S
      <3> QED
        BY <2>1, <3>1, MaxIsBound
    <2> QED
      BY <1>2, <2>1, <2>2
  <1> HIDE DEF last
  <1>4. size \in Nat /\ \A a \in InFile(e) : HEADER + a < size
    BY <1>2, <1>3
  <1>5. \A a \in InFile(e) : HEADER + a \in 0..(size - 1)
    BY <1>2, <1>4
  <1>6. ASSUME NEW a \in 0..(BssAt(e) - 1)
        PROVE  word(HEADER + a) = IF a \in InFile(e) THEN Written(e, a) ELSE 0
    <2>1. (HEADER + a) - HEADER = a /\ ~(HEADER + a >= bss_start(e))
      BY <1>2
    <2> QED
      BY <2>1
  <1>7. ASSUME NEW k \in 1..n
        PROVE  /\ bss_start(e) + k - 1 \in 0..(size - 1)
               /\ word(bss_start(e) + k - 1) = RelocSeq(e)[k]
    <2> DEFINE place == bss_start(e) + k - 1
    <2>1. /\ place \in Nat /\ place >= bss_start(e) /\ place < bss_start(e) + n
          /\ place - HEADER = BssAt(e) + k - 1 /\ place - bss_start(e) + 1 = k
          /\ DOMAIN e.refs # {}
      BY <1>2
    <2>2. place - HEADER \notin InFile(e)
      BY <1>2, <2>1
    <2> HIDE DEF place
    <2>3. word(place) = RelocSeq(e)[k]
      BY <2>1, <2>2
    <2>4. place \in 0..(size - 1)
      BY <1>2, <2>1
    <2> QED
      BY <2>3, <2>4 DEF place
  <1> HIDE DEF word, size
  <1> QED
    BY <1>1, <1>5, <1>6, <1>7 DEF n

\* How far the image has come: the words that were relocated lead from its
\* place, the others that will be still from 0.
Moved == {RelocSeq(elf)[k] : k \in 1..relocated}

ImageInv ==
    /\ stage \in {"none", "bflt", "loaded", "running"}
    /\ relocated \in Nat /\ (stage \in {"none", "bflt"} => relocated = 0)
    /\ stage # "none" =>
         /\ elf \in Elfs
         /\ bflt.entry = HEADER /\ bflt.bss_start = bss_start(elf)
         /\ bflt.bss_end = bss_start(elf) + elf.bss
         /\ bflt.reloc_count = Cardinality(DOMAIN elf.refs)
         /\ DOMAIN elf.refs # {} => bflt.reloc_start = bss_start(elf)
         /\ bflt.file = Contents(elf)
    /\ stage \in {"loaded", "running"} =>
         /\ base \in Nat /\ relocated <= bflt.reloc_count
         /\ DOMAIN image = 0..(End(elf) - 1)
         /\ \A a \in DOMAIN image :
              /\ a \in Moved => image[a] = base + elf.refs[a]
              /\ a \in DOMAIN elf.refs \ Moved => image[a] = elf.refs[a]
              /\ a \in InFile(elf) \ DOMAIN elf.refs => image[a] = ElfWord(elf, a)
              /\ a \notin InFile(elf) => image[a] = 0
         /\ image = [a \in DOMAIN image |-> image[a]]
    /\ stage = "running" => relocated = bflt.reloc_count /\ icache = {}

LEMMA ImageInvInit == LoaderInit => ImageInv
  BY DEF LoaderInit, ImageInv

LEMMA LoadInv == ImageInv /\ bflt_load => ImageInv'
  <1> SUFFICES ASSUME ImageInv, bflt_load PROVE ImageInv'
    OBVIOUS
  <1>1. /\ stage = "bflt" /\ stage' = "loaded" /\ base' \in Bases
        /\ UNCHANGED <<elf, bflt, relocated>>
        /\ image' = [a \in 0..(program_size - 1) |->
                   IF a < Loaded /\ bflt.entry + a \in DOMAIN bflt.file
                   THEN bflt.file[bflt.entry + a] ELSE 0]
    BY DEF bflt_load
  <1>2. /\ elf \in Elfs /\ relocated = 0 /\ bflt.entry = HEADER /\ bflt.bss_start = bss_start(elf)
        /\ bflt.bss_end = bss_start(elf) + elf.bss /\ bflt.file = Contents(elf)
        /\ bflt.reloc_count \in Nat
    BY <1>1, RelocsListed DEF ImageInv
  <1>3. /\ InFile(elf) \subseteq 0..(BssAt(elf) - 1) /\ BssAt(elf) \in Nat
        /\ End(elf) = BssAt(elf) + elf.bss /\ elf.bss \in Nat /\ HEADER \in Nat
        /\ DOMAIN elf.refs \subseteq InFile(elf)
    BY <1>2, StoredBelow, LoaderAssumption
  <1>4. program_size = End(elf) /\ Loaded = BssAt(elf)
    BY <1>2, <1>3 DEF program_size, Loaded, ondisk_size, bss_start
  <1>5. Moved' = {}
    BY <1>1, <1>2 DEF Moved
  <1>6. DOMAIN image' = 0..(End(elf) - 1)
    BY <1>1, <1>4
  <1>7. ASSUME NEW a \in 0..(End(elf) - 1)
        PROVE  image'[a] = IF a \in InFile(elf) THEN Written(elf, a) ELSE 0
    <2>1. image'[a] = IF a < BssAt(elf) /\ HEADER + a \in DOMAIN Contents(elf)
                      THEN Contents(elf)[HEADER + a] ELSE 0
      BY <1>1, <1>2, <1>4
    <2>2. CASE a < BssAt(elf)
      <3>1. a \in 0..(BssAt(elf) - 1)
        BY <1>3, <2>2
      <3> QED
        BY <1>2, <2>1, <2>2, <3>1, FileHolds
    <2>3. CASE ~(a < BssAt(elf))
      <3>1. a \notin InFile(elf)
        BY <1>3, <2>3
      <3> QED
        BY <2>1, <2>3, <3>1
    <2> QED
      BY <2>2, <2>3
  <1>8. \A a \in DOMAIN elf.refs : Written(elf, a) = elf.refs[a]
    <2>1. \A a \in DOMAIN elf.refs : elf.refs[a] \in Nat /\ LINK \in Nat
      BY <1>2, LoaderAssumption
    <2> QED
      BY <2>1 DEF Written, ElfWord
  <1>9. \A a : a \notin DOMAIN elf.refs => Written(elf, a) = ElfWord(elf, a)
    BY DEF Written
  <1>10. base' \in Nat
    BY <1>1, LoaderAssumption
  <1>11. \A a \in DOMAIN image' :
              /\ a \in DOMAIN elf.refs => image'[a] = elf.refs[a]
              /\ a \in InFile(elf) \ DOMAIN elf.refs => image'[a] = ElfWord(elf, a)
              /\ a \notin InFile(elf) => image'[a] = 0
    BY <1>3, <1>6, <1>7, <1>8, <1>9
  <1>12. image' = [a \in DOMAIN image' |-> image'[a]]
    BY <1>1
  <1> QED
    BY <1>1, <1>2, <1>5, <1>6, <1>10, <1>11, <1>12 DEF ImageInv

LEMMA RelocInv == ImageInv /\ bflt_reloc => ImageInv'
  <1> SUFFICES ASSUME ImageInv, bflt_reloc PROVE ImageInv'
    OBVIOUS
  <1> DEFINE n == Cardinality(DOMAIN elf.refs)
             r == RelocSeq(elf)[relocated + 1]
  <1>1. /\ stage = "loaded" /\ relocated < bflt.reloc_count /\ relocated' = relocated + 1
        /\ UNCHANGED <<stage, elf, bflt, base, icache>>
        /\ image' = [image EXCEPT ![bflt.file[bflt.reloc_start + relocated]] = @ + base]
    BY DEF bflt_reloc
  <1>2. /\ elf \in Elfs /\ relocated \in Nat /\ bflt.reloc_count = n /\ base \in Nat
        /\ bflt.file = Contents(elf) /\ (DOMAIN elf.refs # {} => bflt.reloc_start = bss_start(elf))
        /\ DOMAIN image = 0..(End(elf) - 1)
    BY <1>1 DEF ImageInv
  <1>3. /\ n \in Nat /\ (n = 0 <=> DOMAIN elf.refs = {})
        /\ RelocSeq(elf) \in [1..n -> DOMAIN elf.refs]
        /\ \A k, j \in 1..n : RelocSeq(elf)[k] = RelocSeq(elf)[j] => k = j
    BY <1>2, RelocsListed
  <1> HIDE DEF n
  <1>4. relocated + 1 \in 1..n /\ bflt.reloc_start = bss_start(elf)
    BY <1>1, <1>2, <1>3
  <1>5. bflt.file[bflt.reloc_start + relocated] = r
    <2>1. bss_start(elf) \in Nat
      BY <1>2, StoredBelow, LoaderAssumption DEF bss_start
    <2>2. bss_start(elf) + (relocated + 1) - 1 = bss_start(elf) + relocated
      BY <1>2, <2>1
    <2> QED
      BY <1>2, <1>4, <2>2, FileHolds DEF n
  <1>6. r \in DOMAIN elf.refs /\ r \notin Moved
    <2>1. r \in DOMAIN elf.refs
      BY <1>3, <1>4
    <2>2. \A k \in 1..relocated : k \in 1..n /\ k # relocated + 1
      BY <1>2, <1>3, <1>4
    <2> QED
      BY <1>3, <1>4, <2>1, <2>2 DEF Moved
  <1>7. Moved' = Moved \union {r}
    <2>1. 1..(relocated + 1) = 1..relocated \union {relocated + 1}
      BY <1>2
    <2> QED
      BY <1>1, <2>1 DEF Moved
  <1>8. Moved \subseteq DOMAIN elf.refs /\ DOMAIN elf.refs \subseteq InFile(elf)
        /\ InFile(elf) \subseteq DOMAIN image
    <2>1. /\ InFile(elf) \subseteq 0..(BssAt(elf) - 1) /\ DOMAIN elf.refs \subseteq InFile(elf)
          /\ BssAt(elf) \in Nat /\ End(elf) = BssAt(elf) + elf.bss /\ elf.bss \in Nat
      BY <1>2, StoredBelow
    <2>2. \A k \in 1..relocated : k \in 1..n
      BY <1>2, <1>3, <1>4
    <2>3. Moved \subseteq DOMAIN elf.refs
      BY <1>3, <2>2 DEF Moved
    <2>4. \A a \in 0..(BssAt(elf) - 1) : a \in 0..(End(elf) - 1)
      BY <2>1
    <2> QED
      BY <1>2, <2>1, <2>3, <2>4
  <1>9. image[r] = elf.refs[r] /\ elf.refs[r] \in Nat
    <2>1. elf.refs[r] \in Nat
      BY <1>2, <1>6, LoaderAssumption
    <2> QED
      BY <1>1, <1>6, <1>8, <2>1 DEF ImageInv
  <1> HIDE DEF r
  <1>10. DOMAIN image' = DOMAIN image /\ image' = [a \in DOMAIN image' |-> image'[a]]
         /\ \A a \in DOMAIN image : image'[a] = IF a = r THEN base + elf.refs[r] ELSE image[a]
    <2>1. image = [a \in DOMAIN image |-> image[a]]
      BY <1>1 DEF ImageInv
    <2>2. image' = [a \in DOMAIN image |-> IF a = r THEN image[r] + base ELSE image[a]]
      BY <1>1, <1>5, <2>1
    <2>3. image[r] + base = base + elf.refs[r]
      BY <1>2, <1>9
    <2> QED
      BY <2>2, <2>3
  <1>11. \A a \in DOMAIN image :
              /\ a \in Moved => image[a] = base + elf.refs[a]
              /\ a \in DOMAIN elf.refs \ Moved => image[a] = elf.refs[a]
              /\ a \in InFile(elf) \ DOMAIN elf.refs => image[a] = ElfWord(elf, a)
              /\ a \notin InFile(elf) => image[a] = 0
    BY <1>1 DEF ImageInv
  <1>12. \A a \in DOMAIN image' :
              /\ a \in Moved' => image'[a] = base + elf.refs[a]
              /\ a \in DOMAIN elf.refs \ Moved' => image'[a] = elf.refs[a]
              /\ a \in InFile(elf) \ DOMAIN elf.refs => image'[a] = ElfWord(elf, a)
              /\ a \notin InFile(elf) => image'[a] = 0
    BY <1>6, <1>7, <1>8, <1>10, <1>11
  <1>13. relocated' \in Nat /\ relocated' <= bflt.reloc_count
    BY <1>1, <1>2, <1>3
  <1>14. stage # "none" =>
         /\ bflt.entry = HEADER /\ bflt.bss_start = bss_start(elf)
         /\ bflt.bss_end = bss_start(elf) + elf.bss
    BY DEF ImageInv
  <1> QED
    BY <1>1, <1>2, <1>10, <1>12, <1>13, <1>14 DEF ImageInv, n

LEMMA ImageInvStep == ImageInv /\ [LoaderNext]_loader_vars => ImageInv'
  <1> SUFFICES ASSUME ImageInv, [LoaderNext]_loader_vars PROVE ImageInv'
    OBVIOUS
  <1>1. CASE UNCHANGED loader_vars
    BY <1>1 DEF loader_vars, ImageInv, Moved
  <1>2. CASE elf2bflt
    <2>1. PICK e \in Elfs :
            /\ elf' = e
            /\ bflt' = [entry |-> HEADER, data_start |-> data_start(e),
                        bss_start |-> bss_start(e), bss_end |-> bss_start(e) + e.bss,
                        reloc_start |-> IF DOMAIN e.refs = {} THEN 0 ELSE bss_start(e),
                        reloc_count |-> Cardinality(DOMAIN e.refs),
                        file |-> Contents(e)]
      BY <1>2 DEF elf2bflt
    <2>2. stage = "none" /\ stage' = "bflt" /\ UNCHANGED relocated
      BY <1>2 DEF elf2bflt
    <2> QED
      BY <2>1, <2>2 DEF ImageInv
  <1>3. CASE execve_start
    <2>1. /\ stage = "loaded" /\ stage' = "running" /\ relocated = bflt.reloc_count
          /\ icache' = {} /\ UNCHANGED <<elf, bflt, base, image, relocated>>
      BY <1>3 DEF execve_start, text_flushed
    <2> QED
      BY <2>1 DEF ImageInv, Moved
  <1> QED
    BY <1>1, <1>2, <1>3, LoadInv, RelocInv DEF LoaderNext

\* The program that runs is the one that was linked, wherever it was put:
\* for every program with its relocations in its data, any sizes of sections
\* and pages, and any order of the relocations.
THEOREM ImageIsRight == LoaderSpec => []ImageRight
  <1>1. ImageInv => ImageRight
    <2> SUFFICES ASSUME ImageInv, stage = "running" PROVE ImageRight
      BY DEF ImageRight
    <2>1. elf \in Elfs /\ relocated = Cardinality(DOMAIN elf.refs) /\ icache = {}
          /\ DOMAIN image = 0..(End(elf) - 1)
      BY DEF ImageInv
    <2>2. Moved = DOMAIN elf.refs
      BY <2>1, RelocsListed DEF Moved
    <2>3. DOMAIN elf.refs \subseteq InFile(elf)
      BY <2>1, StoredBelow
    <2>4. \A a \in DOMAIN image :
              /\ a \in DOMAIN elf.refs => image[a] = base + elf.refs[a]
              /\ a \in InFile(elf) \ DOMAIN elf.refs => image[a] = ElfWord(elf, a)
              /\ a \notin InFile(elf) => image[a] = 0
      BY <2>2 DEF ImageInv
    <2> QED
      BY <2>1, <2>3, <2>4 DEF ImageRight, InFile
  <1> QED
    BY <1>1, ImageInvInit, ImageInvStep, PTL DEF LoaderSpec

\* The same of the composition.
THEOREM PlatformImage == PlatformSpec => []ImageRight
  BY PartsBehave, ImageIsRight, PTL

-----------------------------------------------------------------------------
(* The boot, as one                                                        *)

\* What BootRight promises of each part, but of the caches' geometry and of
\* the sizes read from the device tree, with up to four cores.
THEOREM BootsRight ==
    NUM_CORES <= 4 => (PlatformSpec => [](part \notin {"caches", "hardware"} => BootRight))
  <1> SUFFICES ASSUME NUM_CORES <= 4
               PROVE  PlatformSpec => [](part \notin {"caches", "hardware"} => BootRight)
    OBVIOUS
  <1>1. SmpSpec => []CoresApart
    BY CoresStartApart
  <1>2. /\ PtSpec => []MapRight
        /\ TextSpec => []FetchRight
        /\ FirmwareSpec => []MailRight
        /\ FirmwareSpec => []FrameRight
    BY MapIsRight, OldTextIsLate, AnswersAreRight, FrameIsRight
  <1>3. CoresApart /\ MapRight /\ FetchRight /\ MailRight /\ FrameRight
            => (part \notin {"caches", "hardware"} => BootRight)
    BY DEF BootRight
  <1> QED
    BY <1>1, <1>2, <1>3, PartsBehave, PTL

=============================================================================
