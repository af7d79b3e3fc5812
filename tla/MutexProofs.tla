----------------------------- MODULE MutexProofs -----------------------------
(***************************************************************************)
(* Proofs about the spin lock: for any number of cores, mutual exclusion,  *)
(* no lost wake-up, and that the instruction sequence implements a lock.   *)
(***************************************************************************)
EXTENDS Mutex, TLAPS

LEMMA AfterType == \A h \in Heads : After(h) \in Heads
  BY MutexAssumption DEF After, Heads

\* The initial state satisfies the inductive invariant.
LEMMA InvInit == Init => Inv
  <1> SUFFICES ASSUME Init PROVE Inv
    OBVIOUS
  <1>1. TypeOK
    BY MutexAssumption DEF Init, TypeOK, Heads, PCs
  <1>2. \A c \in Core : ~Owns(c)
    BY DEF Init, Owns, Critical
  <1> QED
    BY <1>1, <1>2 DEF Init, Inv, MutualExclusion, LockWord, MarkFresh, Buffers,
       HeadFresh, NoLostWakeup, MUTEX_LOCKED, MUTEX_UNLOCKED

\* Types are preserved.
LEMMA TypeStep == TypeOK /\ [Next]_vars => TypeOK'
  <1> SUFFICES ASSUME TypeOK, [Next]_vars PROVE TypeOK'
    OBVIOUS
  <1> USE MutexAssumption, AfterType DEF TypeOK
  <1>1. CASE UNCHANGED vars
    BY <1>1 DEF vars
  <1>2. ASSUME NEW c \in Core, call(c) \/ Step(c) \/ drain(c) \/ load_early(c)
        PROVE TypeOK'
    <2> USE DEF Goto, PCs, Trying, Critical, Leaving, MUTEX_LOCKED, MUTEX_UNLOCKED
    <2>1. CASE call(c)
      BY <2>1 DEF call
    <2>2. CASE ldrex(c)
      BY <2>2 DEF ldrex
    <2>3. CASE wfe(c)
      BY <2>3 DEF wfe
    <2>4. CASE strex(c)
      BY <2>4 DEF strex, StrexSucceeds
    <2>5. CASE lock_dmb(c)
      BY <2>5 DEF lock_dmb
    <2>6. CASE load(c)
      BY <2>6 DEF load
    <2>7. CASE store(c)
      BY <2>7 DEF store
    <2>8. CASE unlock_dmb(c)
      BY <2>8 DEF unlock_dmb
    <2>9. CASE str(c)
      BY <2>9 DEF str
    <2>10. CASE str_dmb(c)
      BY <2>10 DEF str_dmb
    <2>11. CASE sev(c)
      BY <2>11 DEF sev
    <2>12. CASE drain(c)
      BY <2>12 DEF drain, Heads
    <2>13. CASE load_early(c)
      BY <2>13 DEF load_early
    <2> QED
      BY <1>2, <2>1, <2>2, <2>3, <2>4, <2>5, <2>6, <2>7, <2>8, <2>9, <2>10,
         <2>11, <2>12, <2>13 DEF Step
  <1> QED
    BY <1>1, <1>2 DEF Next

\* Every step of every core preserves the inductive invariant.
LEMMA InvStep == Inv /\ [Next]_vars => Inv'
  <1> SUFFICES ASSUME Inv, [Next]_vars PROVE Inv'
    OBVIOUS
  <1>0. TypeOK /\ TypeOK'
    BY TypeStep DEF Inv
  <1> USE <1>0 DEF TypeOK
  <1>1. CASE UNCHANGED vars
    BY <1>1 DEF vars, Inv, MutualExclusion, LockWord, MarkFresh, Buffers,
       HeadFresh, NoLostWakeup, Owns
  <1>2. ASSUME NEW c \in Core, call(c) \/ Step(c) \/ drain(c) \/ load_early(c)
        PROVE Inv'
    <2> USE DEF Inv, Goto, PCs, Trying, Critical, Leaving, Owns,
                MutualExclusion, LockWord, MarkFresh, Buffers, HeadFresh,
                NoLostWakeup, MUTEX_LOCKED, MUTEX_UNLOCKED
    <2>1. CASE call(c)
      BY <2>1 DEF call
    <2>2. CASE ldrex(c)
      BY <2>2 DEF ldrex
    <2>3. CASE wfe(c)
      BY <2>3 DEF wfe
    <2>4. CASE strex(c)
      BY <2>4 DEF strex, StrexSucceeds
    <2>5. CASE lock_dmb(c)
      BY <2>5 DEF lock_dmb, Drained
    <2>6. CASE load(c)
      BY <2>6 DEF load
    <2>7. CASE store(c)
      BY <2>7 DEF store
    <2>8. CASE unlock_dmb(c)
      BY <2>8 DEF unlock_dmb, Drained
    <2>9. CASE str(c)
      BY <2>9 DEF str
    <2>10. CASE str_dmb(c)
      BY <2>10 DEF str_dmb, Drained
    <2>11. CASE sev(c)
      BY <2>11 DEF sev
    <2>12. CASE drain(c)
      BY <2>12 DEF drain
    <2>13. CASE load_early(c)
      BY <2>13 DEF load_early
    <2> QED
      BY <1>2, <2>1, <2>2, <2>3, <2>4, <2>5, <2>6, <2>7, <2>8, <2>9, <2>10,
         <2>11, <2>12, <2>13 DEF Step
  <1> QED
    BY <1>1, <1>2 DEF Next

LEMMA Invariance == Spec => []Inv
  BY InvInit, InvStep, PTL DEF Spec

\* For any number of cores, at most one is between its successful strex and
\* the moment its store of MUTEX_UNLOCKED is visible.
THEOREM MutexExcludes == Spec => []MutualExclusion
  <1>1. Inv => MutualExclusion
    BY DEF Inv
  <1> QED
    BY <1>1, Invariance, PTL

\* For any number of cores, a core that waits in wfe without a pending event
\* waits for a core that will still execute sev.
THEOREM MutexWakes == Spec => []NoLostWakeup
  <1>1. Inv => NoLostWakeup
    BY DEF Inv
  <1> QED
    BY <1>1, Invariance, PTL

-----------------------------------------------------------------------------
(* The refinement                                                          *)

\* The CHOOSE in the refinement mapping picks the only owner there is, and
\* the only buffered value of head.
LEMMA MappingNow ==
    ASSUME Inv
    PROVE  /\ \A c \in Core : Owns(c) => owner = c
           /\ (\A c \in Core : ~Owns(c)) => owner = NoCore
           /\ \A c \in Core : buffered[c] # Empty => settled = buffered[c]
           /\ (\A c \in Core : buffered[c] = Empty) => settled = head
  <1>1. \A c, d \in Core : Owns(c) /\ Owns(d) => c = d
    BY DEF Inv, MutualExclusion
  <1>2. \A c \in Core : Owns(c) => owner = c
    BY <1>1 DEF owner
  <1>3. (\A c \in Core : ~Owns(c)) => owner = NoCore
    BY DEF owner
  <1>4. \A c \in Core : buffered[c] # Empty => Owns(c)
    BY DEF Inv, Buffers, Owns, Critical
  <1>5. \A c, d \in Core : buffered[c] # Empty /\ buffered[d] # Empty => c = d
    BY <1>1, <1>4
  <1>6. \A c \in Core : buffered[c] # Empty => settled = buffered[c]
    BY <1>5 DEF settled
  <1>7. (\A c \in Core : buffered[c] = Empty) => settled = head
    BY DEF settled
  <1> QED
    BY <1>2, <1>3, <1>6, <1>7

LEMMA MappingNext ==
    ASSUME Inv'
    PROVE  /\ \A c \in Core : Owns(c)' => owner' = c
           /\ (\A c \in Core : ~Owns(c)') => owner' = NoCore
           /\ \A c \in Core : buffered'[c] # Empty => settled' = buffered'[c]
           /\ (\A c \in Core : buffered'[c] = Empty) => settled' = head'
  <1>1. \A c, d \in Core : Owns(c)' /\ Owns(d)' => c = d
    BY DEF Inv, MutualExclusion
  <1>2. \A c \in Core : Owns(c)' => owner' = c
    BY <1>1 DEF owner
  <1>3. (\A c \in Core : ~Owns(c)') => owner' = NoCore
    BY DEF owner
  <1>4. \A c \in Core : buffered'[c] # Empty => Owns(c)'
    BY DEF Inv, Buffers, Owns, Critical
  <1>5. \A c, d \in Core : buffered'[c] # Empty /\ buffered'[d] # Empty => c = d
    BY <1>1, <1>4
  <1>6. \A c \in Core : buffered'[c] # Empty => settled' = buffered'[c]
    BY <1>5 DEF settled
  <1>7. (\A c \in Core : buffered'[c] = Empty) => settled' = head'
    BY DEF settled
  <1> QED
    BY <1>2, <1>3, <1>6, <1>7

\* A step after which every core owns the lock, and buffers a value of head,
\* exactly if it did before, and that leaves head alone, is no step of the
\* abstract lock.
LEMMA Stutter ==
    ASSUME Inv, Inv', UNCHANGED <<buffered, head>>,
           \A c \in Core : Owns(c)' <=> Owns(c)
    PROVE  UNCHANGED <<owner, settled>>
  <1>1. owner' = owner
    BY MappingNow, MappingNext
  <1>2. settled' = settled
    BY MappingNow, MappingNext
  <1> QED
    BY <1>1, <1>2

\* Every step of the instruction sequence is a step of the lock or none.
LEMMA LockStep == Inv /\ Inv' /\ [Next]_vars => [L!Next]_<<owner, settled>>
  <1> SUFFICES ASSUME Inv, Inv', [Next]_vars PROVE [L!Next]_<<owner, settled>>
    OBVIOUS
  <1> USE DEF L!Next, L!Acquire, L!Advance, L!Release
  <1>0. TypeOK /\ TypeOK' /\ Buffers /\ LockWord /\ MutualExclusion
    BY DEF Inv
  <1>1. CASE UNCHANGED vars
    BY <1>1, Stutter DEF vars, Owns
  <1>2. ASSUME NEW c \in Core, call(c) \/ Step(c) \/ drain(c) \/ load_early(c)
        PROVE [L!Next]_<<owner, settled>>
    <2> USE <1>0 DEF TypeOK, Goto, PCs, Trying, Critical, Leaving
    <2>1. CASE \/ call(c) \/ ldrex(c) \/ wfe(c) \/ lock_dmb(c) \/ load(c)
               \/ unlock_dmb(c) \/ str(c) \/ str_dmb(c) \/ sev(c) \/ load_early(c)
      <3>1. /\ UNCHANGED <<buffered, head>>
            /\ \A d \in Core : Owns(d)' <=> Owns(d)
        BY <2>1 DEF Owns, Buffers, call, ldrex, wfe, lock_dmb, load, unlock_dmb,
           str, str_dmb, sev, load_early
      <3> QED
        BY <3>1, Stutter
    <2>2. CASE strex(c) /\ StrexSucceeds(c)
      <3>1. \A d \in Core : ~Owns(d)
        BY <2>2 DEF strex, StrexSucceeds, Inv, MarkFresh, LockWord,
           MUTEX_LOCKED, MUTEX_UNLOCKED
      <3>2. Owns(c)' /\ UNCHANGED <<buffered, head>>
        BY <2>2 DEF strex, Owns
      <3>3. owner = NoCore /\ owner' = c
        BY <3>1, <3>2, MappingNow, MappingNext
      <3>4. settled' = settled
        BY <3>2, MappingNow, MappingNext
      <3> QED
        BY <3>3, <3>4
    <2>3. CASE strex(c) /\ ~StrexSucceeds(c)
      <3>1. /\ UNCHANGED <<buffered, head>>
            /\ \A d \in Core : Owns(d)' <=> Owns(d)
        BY <2>3 DEF Owns, strex
      <3> QED
        BY <3>1, Stutter
    <2>4. CASE store(c) /\ buffered' = [buffered EXCEPT ![c] = reg[c]]
      <3>1. Owns(c) /\ Owns(c)' /\ head' = head
        BY <2>4 DEF store, Owns
      <3>2. \A d \in Core : buffered[d] = Empty
        BY <2>4, <3>1 DEF store, Buffers, MutualExclusion, Owns
      <3>3. settled = head
        BY <3>2, MappingNow
      <3>4. buffered'[c] = After(head) /\ buffered'[c] # Empty
        BY <2>4, MutexAssumption DEF store, Inv, HeadFresh, Heads
      <3>5. settled' = L!After(settled)
        BY <3>3, <3>4, MappingNext DEF After, L!After
      <3>6. owner = c /\ owner' = c
        BY <3>1, MappingNow, MappingNext
      <3> QED
        BY <3>5, <3>6
    <2>5. CASE store(c) /\ UNCHANGED buffered
      <3>1. /\ UNCHANGED <<buffered, head>>
            /\ \A d \in Core : Owns(d)' <=> Owns(d)
        BY <2>5 DEF Owns, store
      <3> QED
        BY <3>1, Stutter
    <2>6. CASE drain(c) /\ c \in unlocking /\ unlocking' = unlocking \ {c}
      <3>1. UNCHANGED <<pc, buffered, head>>
        BY <2>6 DEF drain
      <3>2. Owns(c) /\ \A d \in Core : ~Owns(d)'
        BY <2>6, <3>1 DEF Owns, Buffers, MutualExclusion
      <3>3. owner = c /\ owner' = NoCore
        BY <3>2, MappingNow, MappingNext
      <3>4. settled' = settled
        BY <3>1, MappingNow, MappingNext
      <3> QED
        BY <3>3, <3>4
    <2>7. CASE drain(c) /\ buffered[c] # Empty /\ head' = buffered[c]
               /\ buffered' = [buffered EXCEPT ![c] = Empty]
      <3>1. \A d \in Core : Owns(d)' <=> Owns(d)
        BY <2>7 DEF drain, Owns
      <3>2. \A d \in Core : buffered'[d] = Empty
        BY <2>7 DEF Buffers, MutualExclusion, Owns
      <3>3. settled = buffered[c] /\ settled' = buffered[c]
        BY <2>7, <3>2, MappingNow, MappingNext
      <3>4. owner' = owner
        BY <3>1, MappingNow, MappingNext
      <3> QED
        BY <3>3, <3>4
    <2>8. CASE store(c)
      BY <2>4, <2>5, <2>8 DEF store
    <2>9. CASE drain(c)
      BY <2>6, <2>7, <2>9 DEF drain
    <2> QED
      BY <1>2, <2>1, <2>2, <2>3, <2>8, <2>9 DEF Step
  <1> QED
    BY <1>1, <1>2 DEF Next

\* mutex_lock() and mutex_unlock(), run by any number of cores with store
\* buffers and early loads, implement the lock of module Lock: at every
\* moment one owner at most, and a shared variable that only moves on by one.
THEOREM MutexImplementsLock == Spec => ImplementsLock
  <1>1. Init => L!Init
    <2> SUFFICES ASSUME Init PROVE L!Init
      OBVIOUS
    <2>1. \A c \in Core : ~Owns(c) /\ buffered[c] = Empty
      BY DEF Init, Owns, Critical
    <2>2. owner = NoCore /\ settled = head
      BY <2>1, InvInit, MappingNow
    <2> QED
      BY <2>2 DEF Init, L!Init
  <1> QED
    BY <1>1, LockStep, Invariance, PTL DEF Spec, ImplementsLock, L!Spec

=============================================================================
