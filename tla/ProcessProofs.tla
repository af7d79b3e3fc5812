---------------------------- MODULE ProcessProofs ----------------------------
(***************************************************************************)
(* Theorems about module Process, for every size of the PCB table, every   *)
(* bound and every set of liberties.                                       *)
(***************************************************************************)
EXTENDS Process, TLAPS

\* The idle task is always READY and never inside a system call, so
\* schedule() can always fall back on it.
IdleSafe == status[Idle] = "READY" /\ kont[Idle] = "user"

\* The inductive invariant.  CurrentRunnable alone is not inductive: that
\* waitpid() does not free the running PCB needs the status of the PCB it
\* frees, that schedule() finds a runnable process needs the list and the
\* idle task.
Inv == TypeOK /\ ListIsValid /\ IdleSafe /\ CurrentRunnable

\* The slots the model names exist.
LEMMA SlotFacts ==
    /\ Idle \in Slots /\ InitProc \in Slots /\ Idle # InitProc
    /\ NULL \notin Slots
  BY ProcessAssumption DEF Slots, Idle, InitProc

\* schedule() ends on a process of the list that is READY.
LEMMA ScheduleRunnable ==
    ASSUME NEW ls \in Seq(Slots), NEW st,
           Len(ls) >= 1, ls[1] = Idle, st[Idle] = "READY",
           Schedule(ls, st)
    PROVE  /\ current' \in Slots
           /\ st[current'] = "READY"
           /\ \E i \in DOMAIN ls : ls[i] = current'
<1>1. CASE ReadyAt(ls, st) = {}
  BY <1>1 DEF Schedule, process_switch
<1>2. CASE ReadyAt(ls, st) # {}
  <2>1. PICK j \in ReadyAt(ls, st) : current' = ls[j]
    BY <1>2 DEF Schedule, process_switch
  <2>2. j \in 2..Len(ls) /\ st[ls[j]] = "READY"
    BY <2>1 DEF ReadyAt
  <2>3. j \in DOMAIN ls
    BY <2>2
  <2> QED
    BY <2>1, <2>2, <2>3
<1> QED
  BY <1>1, <1>2

\* process_remove() of a process other than the idle task: the rest of the
\* list stays, in the same order and without repetition.
LEMMA UnlinkedFacts ==
    ASSUME NEW ls \in Seq(Slots), NEW t, t # Idle,
           Len(ls) >= 1, ls[1] = Idle,
           \A i, j \in DOMAIN ls : ls[i] = ls[j] => i = j
    PROVE  /\ Unlinked(ls, t) \in Seq(Slots)
           /\ Len(Unlinked(ls, t)) >= 1
           /\ Unlinked(ls, t)[1] = Idle
           /\ \A i, j \in DOMAIN Unlinked(ls, t) :
                 Unlinked(ls, t)[i] = Unlinked(ls, t)[j] => i = j
           /\ \A s \in Slots :
                 (\E i \in DOMAIN Unlinked(ls, t) : Unlinked(ls, t)[i] = s)
                 <=> (\E i \in DOMAIN ls : ls[i] = s) /\ s # t
<1>1. CASE ~ \E i \in DOMAIN ls : ls[i] = t
  <2>1. Unlinked(ls, t) = ls
    BY <1>1 DEF Unlinked
  <2> QED
    BY <1>1, <2>1
<1>2. CASE \E i \in DOMAIN ls : ls[i] = t
  <2> DEFINE p == CHOOSE k \in DOMAIN ls : ls[k] = t
             n == Len(ls)
             u == [j \in 1..(n - 1) |-> IF j < p THEN ls[j] ELSE ls[j + 1]]
  <2>1. Unlinked(ls, t) = u
    BY <1>2 DEF Unlinked
  <2>2. p \in 1..n /\ ls[p] = t /\ n \in Nat /\ DOMAIN ls = 1..n
    BY <1>2
  <2>3. p >= 2
    BY <2>2
  <2> HIDE DEF p, n
  <2>4. \A j \in 1..(n - 1) : u[j] \in Slots
    BY <2>2 DEF n
  <2>5. u \in Seq(Slots) /\ Len(u) = n - 1 /\ DOMAIN u = 1..(n - 1)
    BY <2>2, <2>3, <2>4
  <2>6. Len(u) >= 1 /\ u[1] = Idle
    BY <2>2, <2>3, <2>5
  <2>7. ASSUME NEW i \in DOMAIN u, NEW j \in DOMAIN u, u[i] = u[j]
        PROVE  i = j
    <3> DEFINE src(k) == IF k < p THEN k ELSE k + 1
    <3>1. \A k \in 1..(n - 1) : src(k) \in 1..n /\ u[k] = ls[src(k)]
      BY <2>2
    <3>2. i \in 1..(n - 1) /\ j \in 1..(n - 1)
      BY <2>5
    <3>3. src(i) = src(j)
      BY <2>2, <2>7, <3>1, <3>2
    <3> QED
      BY <2>2, <3>2, <3>3
  <2>8. ASSUME NEW s, NEW i \in DOMAIN u, u[i] = s
        PROVE  (\E k \in DOMAIN ls : ls[k] = s) /\ s # t
    BY <2>2, <2>3, <2>5, <2>8
  <2>9. ASSUME NEW s, NEW k \in DOMAIN ls, ls[k] = s, s # t
        PROVE  \E i \in DOMAIN u : u[i] = s
    <3>1. CASE k < p
      <4>1. k \in DOMAIN u /\ u[k] = s
        BY <2>2, <2>5, <2>9, <3>1
      <4> QED
        BY <4>1
    <3>2. CASE k > p
      <4>1. k - 1 \in DOMAIN u /\ u[k - 1] = s
        BY <2>2, <2>5, <2>9, <3>2
      <4> QED
        BY <4>1
    <3> QED
      BY <2>2, <2>9, <3>1, <3>2
  <2> HIDE DEF u
  <2> QED
    BY <2>1, <2>5, <2>6, <2>7, <2>8, <2>9
<1> QED
  BY <1>1, <1>2

-----------------------------------------------------------------------------
\* Sleeping on a queue, or spinning in it, keeps the invariant: either the
\* CPU goes to a READY process or nothing but kont changes.
LEMMA WaitQueueAddInv ==
    ASSUME Inv, NEW q \in Queues, WaitQueueAdd(q), current # Idle,
           UNCHANGED <<valid, list>>
    PROVE  /\ status' \in [Slots -> Statuses]
           /\ kont' \in [Slots -> Konts]
           /\ wqNext' \in [Slots -> Slots \cup {NULL}]
           /\ first' \in [Queues -> Slots \cup {NULL}]
           /\ current' \in Slots
           /\ IdleSafe' /\ CurrentRunnable'
<1> USE DEF Inv, TypeOK
<1>1. CASE Sleep(q)
  <2>1. status' \in [Slots -> Statuses] /\ status'[Idle] = "READY"
    BY <1>1, SlotFacts DEF Sleep, Statuses, IdleSafe
  <2>2. kont' \in [Slots -> Konts] /\ kont'[Idle] = "user"
    BY <1>1, SlotFacts DEF Sleep, Konts, IdleSafe
  <2>3. Schedule(list, status')
    BY <1>1 DEF Sleep
  <2>4. /\ current' \in Slots /\ status'[current'] = "READY"
        /\ \E i \in DOMAIN list : list[i] = current'
    BY <2>1, <2>3, ScheduleRunnable DEF ListIsValid
  <2>5. /\ wqNext' \in [Slots -> Slots \cup {NULL}]
        /\ first' \in [Queues -> Slots \cup {NULL}]
    BY <1>1 DEF WaitQueueAdd
  <2> QED
    BY <2>1, <2>2, <2>4, <2>5 DEF IdleSafe, CurrentRunnable, InList
<1>2. CASE /\ kont' = [kont EXCEPT ![current] = "spin"]
           /\ UNCHANGED <<first, wqNext, status, current>>
  BY <1>2, SlotFacts DEF IdleSafe, CurrentRunnable, InList, Konts
<1> QED
  BY <1>1, <1>2 DEF WaitQueueAdd

\* So does waking a queue: it only makes processes READY.
LEMMA WokenFacts ==
    ASSUME TypeOK, NEW q \in Queues, NEW st \in [Slots -> Statuses]
    PROVE  /\ Woken(q, st) \in [Slots -> Statuses]
           /\ \A s \in Slots : st[s] = "READY" => Woken(q, st)[s] = "READY"
           /\ Unqueue(q) => /\ wqNext' \in [Slots -> Slots \cup {NULL}]
                            /\ first' \in [Queues -> Slots \cup {NULL}]
  BY DEF Woken, Unqueue, Statuses, TypeOK

\* process_destroy() of a zombie keeps the list and the running process.
LEMMA DestroyInv ==
    ASSUME Inv, NEW t, status[t] = "EXITED", Destroy(t)
    PROVE  /\ valid' \in [Slots -> BOOLEAN] /\ list' \in Seq(Slots)
           /\ ListIsValid' /\ CurrentRunnable'
           /\ status'[Idle] = "READY"
<1> USE DEF Inv, TypeOK
<1>1. t # Idle /\ t # current
  BY DEF IdleSafe, CurrentRunnable
<1>2. UNCHANGED <<status, current>> /\ list' = Unlinked(list, t)
      /\ valid' = [valid EXCEPT ![t] = FALSE]
  BY DEF Destroy
<1> DEFINE u == Unlinked(list, t)
<1>3. /\ u \in Seq(Slots)
      /\ Len(u) >= 1 /\ u[1] = Idle
      /\ \A i, j \in DOMAIN u : u[i] = u[j] => i = j
      /\ \A s \in Slots : (\E i \in DOMAIN u : u[i] = s)
                          <=> (\E i \in DOMAIN list : list[i] = s) /\ s # t
  <2>1. /\ list \in Seq(Slots) /\ Len(list) >= 1 /\ list[1] = Idle
        /\ \A i, j \in DOMAIN list : list[i] = list[j] => i = j
    BY DEF ListIsValid
  <2> HIDE DEF Inv, TypeOK
  <2> QED
    BY <1>1, <2>1, UnlinkedFacts
<1> HIDE DEF u
<1>4. \A s \in Slots : valid'[s] <=> valid[s] /\ s # t
  BY <1>2
<1>5. list' = u
  BY <1>2 DEF u
<1>6. ListIsValid'
  BY <1>3, <1>4, <1>5 DEF ListIsValid, InList
<1>7. CurrentRunnable'
  BY <1>1, <1>2, <1>3, <1>5 DEF CurrentRunnable, InList
<1> QED
  BY <1>2, <1>3, <1>5, <1>6, <1>7 DEF IdleSafe

-----------------------------------------------------------------------------
LEMMA InitInv == Init => Inv
<1> SUFFICES ASSUME Init PROVE Inv
  OBVIOUS
<1> USE SlotFacts
<1>1. TypeOK
  <2>1. /\ valid \in [Slots -> BOOLEAN] /\ status \in [Slots -> Statuses]
        /\ image \in [Slots -> BOOLEAN] /\ kont \in [Slots -> Konts]
    BY DEF Init, Statuses, Konts
  <2>2. /\ pid \in [Slots -> Pids] /\ avail_pid \in Pids
        /\ asked \in [Slots -> Pids \cup {ANY}]
        /\ avail \in 0..(InputSize - 1)
    BY ProcessAssumption DEF Init, Pids
  <2>3. /\ parent \in [Slots -> Slots \cup {NULL}]
        /\ wqNext \in [Slots -> Slots \cup {NULL}]
        /\ waiting \in [Slots -> Slots \cup {NULL}]
        /\ first \in [Queues -> Slots \cup {NULL}]
    BY DEF Init
  <2>4. list \in Seq(Slots) /\ current \in Slots
    BY DEF Init
  <2> QED
    BY <2>1, <2>2, <2>3, <2>4 DEF TypeOK, Init
<1>2. list = <<Idle, InitProc>> /\ Len(list) = 2 /\ DOMAIN list = 1..2
      /\ list[1] = Idle /\ list[2] = InitProc
  BY DEF Init
<1>3. ListIsValid
  <2>1. \A s \in Slots : InList(s) <=> s \in {Idle, InitProc}
    BY <1>2 DEF InList
  <2>2. \A i, j \in DOMAIN list : list[i] = list[j] => i = j
    BY <1>2
  <2>3. \A s \in Slots : valid[s] <=> s \in {Idle, InitProc}
    BY DEF Init
  <2> QED
    BY <1>2, <2>1, <2>2, <2>3 DEF ListIsValid
<1>4. IdleSafe /\ CurrentRunnable
  BY <1>2 DEF IdleSafe, CurrentRunnable, InList, Init
<1> QED
  BY <1>1, <1>3, <1>4 DEF Inv

\* vfork() appends a PCB that was not on the list.
LEMMA VforkInv == Inv /\ vfork => Inv'
<1> SUFFICES ASSUME Inv, vfork PROVE Inv'
  OBVIOUS
<1> USE SlotFacts
<1>1. PICK c \in FreeSlots :
        /\ valid' = [valid EXCEPT ![c] = TRUE]
        /\ pid' = [pid EXCEPT ![c] = avail_pid]
        /\ avail_pid' = avail_pid + 1
        /\ parent' = [parent EXCEPT ![c] = current]
        /\ image' = [image EXCEPT ![c] = FALSE]
        /\ wqNext' = [wqNext EXCEPT ![c] = wqNext[current]]
        /\ kont' = [kont EXCEPT ![c] = "user", ![current] = "vfork"]
        /\ waiting' = [waiting EXCEPT ![c] = NULL]
        /\ status' = VforkStatus(c)
        /\ list' = Append(list, c)
        /\ Schedule(list', status')
  BY DEF vfork, process_create, process_insert
<1>2. /\ c \in Slots /\ ~valid[c] /\ ~InList(c) /\ c # Idle /\ c # current
      /\ current # Idle
  <2>1. c \in Slots /\ ~valid[c] /\ current # Idle
    BY DEF FreeSlots, vfork, process_create, process_insert, InUser
  <2>2. ~InList(c)
    BY <2>1 DEF Inv, ListIsValid
  <2>3. InList(Idle) /\ InList(current)
    BY DEF Inv, TypeOK, ListIsValid, InList, CurrentRunnable
  <2> QED
    BY <2>1, <2>2, <2>3
<1>3. status' \in [Slots -> Statuses] /\ status'[Idle] = "READY"
  BY <1>1, <1>2 DEF VforkStatus, Inv, TypeOK, Statuses, IdleSafe
<1>4. kont' \in [Slots -> Konts] /\ kont'[Idle] = "user"
  BY <1>1, <1>2 DEF Inv, TypeOK, Konts, IdleSafe
<1>5. /\ list' \in Seq(Slots) /\ Len(list') = Len(list) + 1
      /\ \A i \in DOMAIN list : list'[i] = list[i]
      /\ list'[Len(list) + 1] = c
      /\ DOMAIN list' = 1..(Len(list) + 1) /\ DOMAIN list = 1..Len(list)
      /\ Len(list) \in Nat
  BY <1>1, <1>2 DEF Inv, TypeOK
<1>6. ListIsValid'
  <2>1. Len(list') >= 1 /\ list'[1] = Idle
    BY <1>5 DEF Inv, ListIsValid
  <2>2. \A i, j \in DOMAIN list' : list'[i] = list'[j] => i = j
    BY <1>2, <1>5 DEF Inv, ListIsValid, InList
  <2>3. \A s \in Slots : InList(s)' <=> InList(s) \/ s = c
    BY <1>5 DEF InList
  <2>4. \A s \in Slots : valid'[s] <=> valid[s] \/ s = c
    BY <1>1, <1>2 DEF Inv, TypeOK
  <2> QED
    BY <2>1, <2>2, <2>3, <2>4 DEF Inv, ListIsValid
<1>7. current' \in Slots /\ CurrentRunnable'
  BY <1>1, <1>3, <1>5, <1>6, ScheduleRunnable
     DEF ListIsValid, CurrentRunnable, InList
<1>8. TypeOK'
  <2>1. pid' \in [Slots -> Pids] /\ avail_pid' \in Pids
    <3>1. avail_pid \in Pids /\ pid \in [Slots -> Pids]
      BY DEF Inv, TypeOK
    <3>2. avail_pid < MaxPid
      BY DEF vfork
    <3>3. avail_pid + 1 \in Pids
      BY <3>1, <3>2, ProcessAssumption DEF Pids
    <3> QED
      BY <1>1, <1>2, <3>1, <3>3
  <2>2. /\ valid' \in [Slots -> BOOLEAN] /\ image' \in [Slots -> BOOLEAN]
        /\ parent' \in [Slots -> Slots \cup {NULL}]
        /\ wqNext' \in [Slots -> Slots \cup {NULL}]
        /\ waiting' \in [Slots -> Slots \cup {NULL}]
    BY <1>1, <1>2 DEF Inv, TypeOK
  <2>3. UNCHANGED <<asked, first, avail, scheduling_enabled>>
    BY DEF vfork, process_create, process_insert
  <2> QED
    BY <1>3, <1>4, <1>5, <1>7, <2>1, <2>2, <2>3 DEF Inv, TypeOK
<1> QED
  BY <1>3, <1>4, <1>6, <1>7, <1>8 DEF Inv, IdleSafe

\* A step that changes neither the list nor the PCBs on it, and leaves the
\* CPU with a READY process, keeps the invariant.
LEMMA SameListInv ==
    ASSUME Inv, TypeOK', IdleSafe', CurrentRunnable', UNCHANGED <<valid, list>>
    PROVE  Inv'
  BY DEF Inv, ListIsValid, InList

\* Each kind of step keeps the invariant.
LEMMA NextInv == Inv /\ [Next]_vars => Inv'
<1> SUFFICES ASSUME Inv, [Next]_vars PROVE Inv'
  OBVIOUS
<1> USE SlotFacts
<1>0. TypeOK /\ ListIsValid /\ IdleSafe /\ CurrentRunnable
  BY DEF Inv
<1>a. ASSUME kont[current] # "user" PROVE current # Idle
  BY <1>a, <1>0 DEF IdleSafe
<1>1. CASE vfork
  BY <1>1, VforkInv
<1>2. ASSUME NEW ok \in BOOLEAN, execve(ok) PROVE Inv'
  <2>1. /\ status' \in [Slots -> Statuses] /\ status'[Idle] = "READY"
        /\ image' \in [Slots -> BOOLEAN]
    BY <1>0, <1>2 DEF execve, ParentReady, TypeOK, Statuses, IdleSafe
  <2>2. /\ Schedule(list, status')
        /\ UNCHANGED <<valid, pid, parent, wqNext, kont, waiting, asked, list,
                       avail_pid, first, avail, scheduling_enabled>>
    BY <1>2 DEF execve
  <2>3. /\ current' \in Slots /\ status'[current'] = "READY"
        /\ \E i \in DOMAIN list : list[i] = current'
    BY <1>0, <2>1, <2>2, ScheduleRunnable DEF TypeOK, ListIsValid
  <2>4. TypeOK'
    BY <1>0, <2>1, <2>2, <2>3 DEF TypeOK
  <2> QED
    BY <1>0, <2>1, <2>2, <2>3, <2>4, SameListInv
       DEF IdleSafe, CurrentRunnable, InList
<1>3. CASE exit
  <2> DEFINE st == [status EXCEPT ![current] = "EXITED"]
  <2>1. current # Idle
    BY <1>3 DEF exit, InUser
  <2>2. st \in [Slots -> Statuses] /\ st[Idle] = "READY"
    BY <1>0, <2>1 DEF TypeOK, Statuses, IdleSafe
  <2>3. /\ status' = Woken("waitpid", st) /\ Unqueue("waitpid")
        /\ Schedule(list, status')
        /\ UNCHANGED <<pcbVars, kont, waiting, asked, avail, scheduling_enabled>>
    BY <1>3 DEF exit, ExitWake
  <2> HIDE DEF st
  <2>4. /\ status' \in [Slots -> Statuses] /\ status'[Idle] = "READY"
        /\ wqNext' \in [Slots -> Slots \cup {NULL}]
        /\ first' \in [Queues -> Slots \cup {NULL}]
    BY <1>0, <2>2, <2>3, WokenFacts DEF Queues
  <2>5. /\ current' \in Slots /\ status'[current'] = "READY"
        /\ \E i \in DOMAIN list : list[i] = current'
    BY <1>0, <2>3, <2>4, ScheduleRunnable DEF TypeOK, ListIsValid
  <2>6. TypeOK'
    BY <1>0, <2>3, <2>4, <2>5 DEF TypeOK, pcbVars
  <2> QED
    BY <1>0, <2>3, <2>4, <2>5, <2>6, SameListInv
       DEF IdleSafe, CurrentRunnable, InList, pcbVars
<1>4. ASSUME NEW p \in Pids \cup {ANY}, waitpid_reap(p) PROVE Inv'
  <2>1. PICK t \in Slots : status[t] = "EXITED" /\ Destroy(t)
    BY <1>4 DEF waitpid_reap
  <2>2. UNCHANGED <<kont, waiting, asked, avail, scheduling_enabled>>
    BY <1>4 DEF waitpid_reap
  <2>3. /\ valid' \in [Slots -> BOOLEAN] /\ list' \in Seq(Slots)
        /\ ListIsValid' /\ CurrentRunnable' /\ status'[Idle] = "READY"
    BY <2>1, DestroyInv
  <2> QED
    BY <1>0, <2>1, <2>2, <2>3 DEF Destroy, Inv, TypeOK, IdleSafe
<1>5. ASSUME NEW p \in Pids \cup {ANY}, waitpid_block(p) PROVE Inv'
  <2>1. /\ current # Idle /\ WaitQueueAdd("waitpid")
        /\ UNCHANGED <<pcbVars, avail, scheduling_enabled>>
    BY <1>5 DEF waitpid_block, InUser
  <2>2. /\ waiting' \in [Slots -> Slots \cup {NULL}]
        /\ asked' \in [Slots -> Pids \cup {ANY}]
    BY <1>0, <1>5 DEF waitpid_block, TypeOK
  <2> QED
    BY <1>0, <2>1, <2>2, WaitQueueAddInv, SameListInv
       DEF TypeOK, pcbVars, Queues
<1>6. CASE waitpid_resume
  <2>1. current # Idle /\ UNCHANGED <<avail, scheduling_enabled>>
    BY <1>6, <1>a DEF waitpid_resume
  <2>2. CASE /\ status[waiting[current]] = "EXITED"
             /\ Destroy(waiting[current])
             /\ kont' = [kont EXCEPT ![current] = "user"]
             /\ waiting' = [waiting EXCEPT ![current] = NULL]
             /\ asked' = [asked EXCEPT ![current] = ANY]
    <3>1. /\ valid' \in [Slots -> BOOLEAN] /\ list' \in Seq(Slots)
          /\ ListIsValid' /\ CurrentRunnable' /\ status'[Idle] = "READY"
      BY <2>2, DestroyInv
    <3>2. /\ waiting' \in [Slots -> Slots \cup {NULL}]
          /\ asked' \in [Slots -> Pids \cup {ANY}]
          /\ kont' \in [Slots -> Konts] /\ kont'[Idle] = "user"
      BY <1>0, <2>1, <2>2 DEF TypeOK, Konts, IdleSafe
    <3> QED
      BY <1>0, <2>1, <2>2, <3>1, <3>2 DEF Destroy, Inv, TypeOK, IdleSafe
  <2>3. CASE WaitQueueAdd("waitpid") /\ UNCHANGED <<pcbVars, waiting, asked>>
    BY <1>0, <2>1, <2>3, WaitQueueAddInv, SameListInv
       DEF TypeOK, pcbVars, Queues
  <2> QED
    BY <1>6, <2>2, <2>3 DEF waitpid_resume
<1>7. CASE console_read
  <2>1. /\ current # Idle
        /\ UNCHANGED <<pcbVars, waiting, asked, scheduling_enabled>>
    BY <1>7 DEF console_read, InUser
  <2>2. CASE WaitQueueAdd("console") /\ UNCHANGED avail
    BY <1>0, <2>1, <2>2, WaitQueueAddInv, SameListInv
       DEF TypeOK, pcbVars, Queues
  <2>3. CASE TakeInput /\ UNCHANGED <<status, wqNext, kont, current, first>>
    <3>1. avail' \in 0..(InputSize - 1)
      BY <1>0, <2>3, ProcessAssumption DEF TakeInput, TypeOK
    <3> QED
      BY <1>0, <2>1, <2>3, <3>1, SameListInv
         DEF TypeOK, pcbVars, IdleSafe, CurrentRunnable, InList
  <2> QED
    BY <1>7, <2>2, <2>3 DEF console_read
<1>8. CASE console_resume
  <2>1. current # Idle
    BY <1>8, <1>a DEF console_resume
  <2>2. avail' \in 0..(InputSize - 1)
    BY <1>0, <1>8, ProcessAssumption DEF console_resume, TakeInput, TypeOK
  <2>3. kont' \in [Slots -> Konts] /\ kont'[Idle] = "user"
    BY <1>0, <1>8 DEF console_resume, TypeOK, Konts, IdleSafe
  <2> QED
    BY <1>0, <1>8, <2>2, <2>3, SameListInv
       DEF console_resume, TypeOK, pcbVars, IdleSafe, CurrentRunnable, InList
<1>9. CASE nanosleep
  BY <1>0, <1>9, WaitQueueAddInv, SameListInv
     DEF nanosleep, InUser, TypeOK, pcbVars, Queues
<1>10. CASE nanosleep_resume
  <2>1. /\ current # Idle
        /\ UNCHANGED <<pcbVars, waiting, asked, avail, scheduling_enabled>>
    BY <1>10, <1>a DEF nanosleep_resume
  <2>2. CASE WaitQueueAdd("timer")
    BY <1>0, <2>1, <2>2, WaitQueueAddInv, SameListInv
       DEF TypeOK, pcbVars, Queues
  <2>3. CASE /\ kont' = [kont EXCEPT ![current] = "user"]
             /\ UNCHANGED <<status, wqNext, current, first>>
    <3>1. kont' \in [Slots -> Konts] /\ kont'[Idle] = "user"
      BY <1>0, <2>3 DEF TypeOK, Konts, IdleSafe
    <3> QED
      BY <1>0, <2>1, <2>3, <3>1, SameListInv
         DEF TypeOK, pcbVars, IdleSafe, CurrentRunnable, InList
  <2> QED
    BY <1>10, <2>2, <2>3 DEF nanosleep_resume
<1>11. CASE vfork_resume
  <2>1. kont' \in [Slots -> Konts] /\ kont'[Idle] = "user"
    BY <1>0, <1>11 DEF vfork_resume, TypeOK, Konts, IdleSafe
  <2> QED
    BY <1>0, <1>11, <2>1, SameListInv
       DEF vfork_resume, TypeOK, pcbVars, IdleSafe, CurrentRunnable, InList
<1>12. ASSUME NEW due \in BOOLEAN, timer_interrupt(due) PROVE Inv'
  <2>1. /\ status' \in [Slots -> Statuses]
        /\ \A s \in Slots : status[s] = "READY" => status'[s] = "READY"
        /\ wqNext' \in [Slots -> Slots \cup {NULL}]
        /\ first' \in [Queues -> Slots \cup {NULL}]
    BY <1>0, <1>12, WokenFacts DEF timer_interrupt, TypeOK, Queues
  <2>2. /\ Schedule(list, status') \/ UNCHANGED current
        /\ UNCHANGED <<pcbVars, kont, waiting, asked, avail, scheduling_enabled>>
    BY <1>12 DEF timer_interrupt
  <2>3. status'[Idle] = "READY"
    BY <1>0, <2>1 DEF IdleSafe
  <2>4. /\ current' \in Slots /\ status'[current'] = "READY"
        /\ \E i \in DOMAIN list : list[i] = current'
    <3>1. CASE Schedule(list, status')
      BY <1>0, <2>3, <3>1, ScheduleRunnable DEF TypeOK, ListIsValid
    <3>2. CASE UNCHANGED current
      BY <1>0, <2>1, <3>2 DEF TypeOK, CurrentRunnable, InList
    <3> QED
      BY <2>2, <3>1, <3>2
  <2>5. TypeOK'
    BY <1>0, <2>1, <2>2, <2>4 DEF TypeOK, pcbVars
  <2> QED
    BY <1>0, <2>2, <2>3, <2>4, <2>5, SameListInv
       DEF IdleSafe, CurrentRunnable, InList, pcbVars
<1>13. ASSUME NEW z \in BOOLEAN, console_insert_char(z) PROVE Inv'
  <2>1. /\ scheduling_enabled' \in BOOLEAN /\ InsertChar
        /\ UNCHANGED <<pcbVars, kont, waiting, asked, current>>
    BY <1>0, <1>13 DEF console_insert_char
  <2>2. /\ status' \in [Slots -> Statuses]
        /\ \A s \in Slots : status[s] = "READY" => status'[s] = "READY"
        /\ wqNext' \in [Slots -> Slots \cup {NULL}]
        /\ first' \in [Queues -> Slots \cup {NULL}]
    BY <1>0, <2>1, WokenFacts DEF InsertChar, TypeOK, Queues
  <2>3. avail' \in 0..(InputSize - 1)
    BY <1>0, <2>1, ProcessAssumption DEF InsertChar, HasRoom, TypeOK
  <2> QED
    BY <1>0, <2>1, <2>2, <2>3, SameListInv
       DEF TypeOK, pcbVars, IdleSafe, CurrentRunnable, InList
<1>14. CASE console_eof
  <2>1. /\ status' \in [Slots -> Statuses]
        /\ \A s \in Slots : status[s] = "READY" => status'[s] = "READY"
        /\ wqNext' \in [Slots -> Slots \cup {NULL}]
        /\ first' \in [Queues -> Slots \cup {NULL}]
    BY <1>0, <1>14, WokenFacts DEF console_eof, TypeOK, Queues
  <2> QED
    BY <1>0, <1>14, <2>1, SameListInv
       DEF console_eof, TypeOK, pcbVars, IdleSafe, CurrentRunnable, InList
<1>15. CASE UNCHANGED vars
  BY <1>0, <1>15, SameListInv
     DEF vars, TypeOK, IdleSafe, CurrentRunnable, InList
<1> QED
  BY <1>1, <1>2, <1>3, <1>4, <1>5, <1>6, <1>7, <1>8, <1>9, <1>10, <1>11,
     <1>12, <1>13, <1>14, <1>15 DEF Next, Resume, Tick

LEMMA SpecInv == Spec => []Inv
  BY InitInv, NextInv, PTL DEF Spec

\* The type invariant, for every table size and whatever programs do.
THEOREM TypeCorrect == Spec => []TypeOK
<1>1. Inv => TypeOK
  BY DEF Inv
<1> QED
  BY <1>1, SpecInv, PTL

\* The process list is exactly the PCBs in use, each once, idle task first:
\* process_insert() and process_remove() never lose or duplicate a process.
THEOREM ListCorrect == Spec => []ListIsValid
<1>1. Inv => ListIsValid
  BY DEF Inv
<1> QED
  BY <1>1, SpecInv, PTL

\* schedule() only ever gives the CPU to a READY process of the list, and
\* the process that has it stays one: the PCB of the running process is
\* never freed under it, whoever waits for whom.
THEOREM RunningIsRunnable == Spec => []CurrentRunnable
<1>1. Inv => CurrentRunnable
  BY DEF Inv
<1> QED
  BY <1>1, SpecInv, PTL

-----------------------------------------------------------------------------
(* Wait queues: what a chain of wait_queue_next pointers reaches            *)

\* OnQueue() for any head and any pointers.
Reached(head, next) ==
    {s \in Slots :
        \A X \in SUBSET Slots :
            /\ head # NULL => head \in X
            /\ \A x \in X : next[x] # NULL => next[x] \in X
            => s \in X}

Links == [Slots -> Slots \cup {NULL}]

LEMMA OnQueueReached == \A q : OnQueue(q) = Reached(first[q], wqNext)
  BY DEF OnQueue, Reached

\* The chain holds its head and goes on to its end.
LEMMA ReachedClosed ==
    ASSUME NEW head \in Slots \cup {NULL}, NEW next \in Links
    PROVE  /\ Reached(head, next) \subseteq Slots
           /\ head # NULL => head \in Reached(head, next)
           /\ \A x \in Reached(head, next) :
                 next[x] # NULL => next[x] \in Reached(head, next)
  BY SlotFacts DEF Reached, Links

\* It holds nothing else.
LEMMA ReachedLeast ==
    ASSUME NEW head, NEW next, NEW X \in SUBSET Slots,
           head # NULL => head \in X,
           \A x \in X : next[x] # NULL => next[x] \in X
    PROVE  Reached(head, next) \subseteq X
  BY DEF Reached

LEMMA ReachedNothing ==
    ASSUME NEW next
    PROVE  Reached(NULL, next) = {}
<1>1. {} \in SUBSET Slots /\ \A x \in {} : next[x] # NULL => next[x] \in {}
  OBVIOUS
<1>2. ASSUME NEW s \in Reached(NULL, next) PROVE FALSE
  <2>1. s \in {}
    BY <1>1 DEF Reached
  <2> QED
    BY <2>1
<1> QED
  BY <1>2

\* Only the pointers of the chain itself matter.
LEMMA ReachedSame ==
    ASSUME NEW head \in Slots \cup {NULL}, NEW next \in Links, NEW other \in Links,
           \A x \in Reached(head, next) : other[x] = next[x]
    PROVE  Reached(head, other) = Reached(head, next)
<1> DEFINE R == Reached(head, next)
           O == Reached(head, other)
<1>1. /\ R \subseteq Slots /\ (head # NULL => head \in R)
      /\ \A x \in R : next[x] # NULL => next[x] \in R
  BY ReachedClosed
<1>2. /\ O \subseteq Slots /\ (head # NULL => head \in O)
      /\ \A x \in O : other[x] # NULL => other[x] \in O
  BY ReachedClosed
<1> HIDE DEF R, O
<1>3. Reached(head, other) \subseteq R
  <2>1. \A x \in R : other[x] # NULL => other[x] \in R
    BY <1>1 DEF R
  <2> QED
    BY <1>1, <2>1, ReachedLeast
<1>4. Reached(head, next) \subseteq R \cap O
  <2>1. \A x \in R \cap O : next[x] # NULL => next[x] \in R \cap O
    <3>1. \A x \in R : other[x] = next[x]
      BY DEF R
    <3> QED
      BY <1>1, <1>2, <3>1
  <2> QED
    BY <1>1, <1>2, <2>1, ReachedLeast
<1> QED
  BY <1>3, <1>4 DEF R, O

\* Linking a process behind the last one adds that process.
LEMMA ReachedAppend ==
    ASSUME NEW head \in Slots \cup {NULL}, NEW next \in Links, NEW s \in Slots,
           next[s] = NULL, NEW last \in Reached(head, next), next[last] = NULL,
           NEW longer \in Links,
           \A x \in Slots : longer[x] = IF x = last THEN s ELSE next[x]
    PROVE  Reached(head, longer) = Reached(head, next) \cup {s}
<1> DEFINE R == Reached(head, next)
           O == Reached(head, longer)
<1>1. /\ R \subseteq Slots /\ (head # NULL => head \in R)
      /\ \A x \in R : next[x] # NULL => next[x] \in R
  BY ReachedClosed
<1>2. last \in Slots
  BY <1>1
<1>3. /\ O \subseteq Slots /\ (head # NULL => head \in O)
      /\ \A x \in O : longer[x] # NULL => longer[x] \in O
  BY <1>2, ReachedClosed
<1> HIDE DEF R, O
<1>4. last \in R
  BY DEF R
<1>5. Reached(head, longer) \subseteq R \cup {s}
  <2>1. \A x \in R \cup {s} : longer[x] # NULL => longer[x] \in R \cup {s}
    BY <1>1, <1>2
  <2>2. R \cup {s} \in SUBSET Slots
    BY <1>1
  <2> QED
    BY <1>1, <2>1, <2>2, ReachedLeast
<1>6. Reached(head, next) \subseteq R \cap O
  <2>1. \A x \in R \cap O : next[x] # NULL => next[x] \in R \cap O
    BY <1>1, <1>2, <1>3
  <2>2. R \cap O \in SUBSET Slots
    BY <1>1
  <2> QED
    BY <1>1, <1>3, <2>1, <2>2, ReachedLeast
<1>7. s \in O
  BY <1>2, <1>3, <1>4, <1>6, SlotFacts DEF R
<1> QED
  BY <1>5, <1>6, <1>7 DEF R, O

-----------------------------------------------------------------------------
(* What the shell's way with vfork() and execve() keeps                     *)

\* A program calls execve() once, right after vfork(), and the program it
\* names is there.  Everything else is allowed.
Orderly == Liberties \subseteq {"ctrl_z", "wait_stranger"}

\* A process that runs on its parent's stack is not a zombie, is the only one
\* on it, and its parent is not freed while it does.
Borrowed ==
    \A c \in Slots : valid[c] /\ ~image[c] =>
        /\ status[c] # "EXITED"
        /\ parent[c] \in Slots /\ valid[parent[c]]
        /\ status[parent[c]] = "SLEEPING" /\ kont[parent[c]] = "vfork"
        /\ \A d \in Slots : valid[d] /\ ~image[d] /\ parent[d] = parent[c] => d = c

\* A process in no queue links nowhere, and a queue that is not empty has a
\* last process to link behind.
LooseEnds ==
    \A s \in Slots : (\A q \in Queues : s \notin OnQueue(q)) => wqNext[s] = NULL
ChainEnds ==
    \A q \in Queues : first[q] # NULL => \E last \in OnQueue(q) : wqNext[last] = NULL

NobodySpins == \A s \in Slots : kont[s] # "spin"

\* QueueExact and StackExclusive hold each other up: execve() marks a parent
\* READY without looking at its queue, which is right because the parent is
\* in none.
OrderlyInv == Borrowed /\ QueueExact /\ LooseEnds /\ ChainEnds /\ NobodySpins

\* A child somebody waits for is still his.
Awaited ==
    \A s \in Slots : valid[s] /\ kont[s] = "waitpid" =>
        /\ waiting[s] \in Slots /\ valid[waiting[s]] /\ parent[waiting[s]] = s
        /\ asked[s] # ANY => pid[waiting[s]] = asked[s]

-----------------------------------------------------------------------------
(* How the steps change the queues                                         *)

QueuesRight == QueueExact /\ LooseEnds /\ ChainEnds

LEMMA OnQueueNext == \A q : OnQueue(q)' = Reached(first'[q], wqNext')
  BY DEF OnQueue, Reached

\* No process sleeps in two system calls.
LEMMA QueuesDisjoint ==
    ASSUME QueueExact, NEW q \in Queues, NEW r \in Queues, q # r
    PROVE  OnQueue(q) \cap OnQueue(r) = {}
  BY DEF QueueExact

LEMMA QueuesUntouched ==
    ASSUME QueuesRight, UNCHANGED <<first, wqNext>>
    PROVE  /\ \A q \in Queues : OnQueue(q)' = OnQueue(q)
           /\ LooseEnds' /\ ChainEnds'
<1>1. \A q : OnQueue(q)' = OnQueue(q)
  BY OnQueueReached, OnQueueNext
<1> QED
  BY <1>1 DEF QueuesRight, LooseEnds, ChainEnds

\* wait_queue_wake() empties its queue and no other.
LEMMA QueueEmptied ==
    ASSUME TypeOK, QueuesRight, NEW q \in Queues, Unqueue(q)
    PROVE  /\ OnQueue(q)' = {}
           /\ \A r \in Queues \ {q} : OnQueue(r)' = OnQueue(r)
           /\ LooseEnds' /\ ChainEnds'
<1>1. /\ first \in [Queues -> Slots \cup {NULL}] /\ wqNext \in Links
      /\ first' = [first EXCEPT ![q] = NULL]
      /\ wqNext' = [s \in Slots |-> IF s \in OnQueue(q) THEN NULL ELSE wqNext[s]]
  BY DEF TypeOK, Links, Unqueue
<1>2. wqNext' \in Links /\ first' \in [Queues -> Slots \cup {NULL}]
  BY <1>1 DEF Links
<1>3. OnQueue(q)' = {}
  BY <1>1, OnQueueNext, ReachedNothing
<1>4. ASSUME NEW r \in Queues \ {q} PROVE OnQueue(r)' = OnQueue(r)
  <2>1. first'[r] = first[r] /\ first[r] \in Slots \cup {NULL}
    BY <1>1
  <2>2. OnQueue(r) = Reached(first[r], wqNext) /\ OnQueue(r) \subseteq Slots
    BY <1>1, <2>1, OnQueueReached, ReachedClosed
  <2>3. OnQueue(r) \cap OnQueue(q) = {}
    BY QueuesDisjoint DEF QueuesRight
  <2>4. \A x \in Reached(first[r], wqNext) : wqNext'[x] = wqNext[x]
    BY <1>1, <2>2, <2>3
  <2>5. Reached(first[r], wqNext') = Reached(first[r], wqNext)
    BY <1>1, <1>2, <2>1, <2>4, ReachedSame
  <2> QED
    BY <2>1, <2>2, <2>5, OnQueueNext
<1>5. LooseEnds'
  <2> SUFFICES ASSUME NEW s \in Slots, \A r \in Queues : s \notin OnQueue(r)'
               PROVE  wqNext'[s] = NULL
    BY DEF LooseEnds
  <2>1. CASE s \in OnQueue(q)
    BY <1>1, <2>1
  <2>2. CASE s \notin OnQueue(q)
    <3>1. \A r \in Queues : s \notin OnQueue(r)
      BY <1>4, <2>2
    <3> QED
      BY <1>1, <3>1 DEF QueuesRight, LooseEnds
  <2> QED
    BY <2>1, <2>2
<1>6. ChainEnds'
  <2> SUFFICES ASSUME NEW r \in Queues, first'[r] # NULL
               PROVE  \E last \in OnQueue(r)' : wqNext'[last] = NULL
    BY DEF ChainEnds
  <2>1. r # q /\ first[r] # NULL
    BY <1>1
  <2>2. PICK last \in OnQueue(r) : wqNext[last] = NULL
    BY <2>1 DEF QueuesRight, ChainEnds
  <2>3. last \in Slots /\ last \in OnQueue(r)'
    BY <1>4, <2>1, <2>2 DEF OnQueue
  <2> QED
    BY <1>1, <2>2, <2>3
<1> QED
  BY <1>3, <1>4, <1>5, <1>6

\* wait_queue_add() of the running process links it behind the others of the
\* queue and puts it to sleep.
LEMMA QueueExtended ==
    ASSUME TypeOK, QueuesRight, CurrentRunnable, NEW q \in Queues, WaitQueueAdd(q)
    PROVE  /\ Sleep(q)
           /\ OnQueue(q)' = OnQueue(q) \cup {current}
           /\ \A r \in Queues \ {q} : OnQueue(r)' = OnQueue(r)
           /\ LooseEnds' /\ ChainEnds'
<1>1. /\ first \in [Queues -> Slots \cup {NULL}] /\ wqNext \in Links
      /\ current \in Slots
  BY DEF TypeOK, Links
<1>2. /\ \A r \in Queues : current \notin OnQueue(r)
      /\ wqNext[current] = NULL
  <2>1. \A r \in Queues : current \notin OnQueue(r)
    BY DEF CurrentRunnable, QueuesRight, QueueExact
  <2> QED
    BY <1>1, <2>1 DEF QueuesRight, LooseEnds
<1>3. \A r \in Queues : first[r] \in Slots \cup {NULL} /\ OnQueue(r) = Reached(first[r], wqNext)
  BY <1>1, OnQueueReached
<1>4. CASE /\ first[q] = NULL
           /\ first' = [first EXCEPT ![q] = current]
           /\ UNCHANGED wqNext
           /\ Sleep(q)
  <2>1. OnQueue(q) = {}
    BY <1>3, <1>4, ReachedNothing
  <2>2. OnQueue(q)' = {current}
    <3>1. OnQueue(q)' = Reached(current, wqNext)
      BY <1>1, <1>4, OnQueueNext
    <3>2. current \in Reached(current, wqNext)
      BY <1>1, ReachedClosed, SlotFacts
    <3>3. Reached(current, wqNext) \subseteq {current}
      <4>1. {current} \in SUBSET Slots
        BY <1>1
      <4>2. \A x \in {current} : wqNext[x] # NULL => wqNext[x] \in {current}
        BY <1>2
      <4> QED
        BY <4>1, <4>2, ReachedLeast
    <3> QED
      BY <3>1, <3>2, <3>3
  <2>3. \A r \in Queues \ {q} : OnQueue(r)' = OnQueue(r) /\ first'[r] = first[r]
    BY <1>1, <1>3, <1>4, OnQueueNext
  <2>4. LooseEnds'
    BY <1>4, <2>1, <2>3, <1>2 DEF QueuesRight, LooseEnds
  <2>5. ChainEnds'
    <3> SUFFICES ASSUME NEW r \in Queues, first'[r] # NULL
                 PROVE  \E last \in OnQueue(r)' : wqNext'[last] = NULL
      BY DEF ChainEnds
    <3>1. CASE r = q
      BY <1>2, <1>4, <2>2, <3>1
    <3>2. CASE r # q
      BY <1>4, <2>3, <3>2 DEF QueuesRight, ChainEnds
    <3> QED
      BY <3>1, <3>2
  <2> QED
    BY <1>4, <2>1, <2>2, <2>3, <2>4, <2>5
<1>5. CASE /\ current \in OnQueue(q)
           /\ UNCHANGED <<first, wqNext>>
           /\ Sleep(q)
  BY <1>2, <1>5
<1>6. CASE /\ current \notin OnQueue(q)
           /\ \E last \in OnQueue(q) :
                /\ wqNext[last] = NULL
                /\ wqNext' = [wqNext EXCEPT ![last] = current]
           /\ UNCHANGED first
           /\ Sleep(q)
  <2>1. PICK last \in OnQueue(q) :
          wqNext[last] = NULL /\ wqNext' = [wqNext EXCEPT ![last] = current]
    BY <1>6
  <2>2. last \in Slots /\ last # current /\ wqNext' \in Links /\ UNCHANGED first
    BY <1>1, <1>6, <2>1 DEF OnQueue, Links
  <2>3. OnQueue(q)' = OnQueue(q) \cup {current}
    <3>1. /\ first[q] \in Slots \cup {NULL} /\ last \in Reached(first[q], wqNext)
          /\ \A x \in Slots : wqNext'[x] = IF x = last THEN current ELSE wqNext[x]
      BY <1>1, <1>3, <2>1, <2>2 DEF Links
    <3>2. Reached(first[q], wqNext') = Reached(first[q], wqNext) \cup {current}
      <4>1. wqNext[last] = NULL /\ wqNext[current] = NULL
        BY <1>2, <2>1
      <4>2. wqNext \in Links /\ wqNext' \in Links /\ current \in Slots
        BY <1>1, <2>2
      <4> QED
        BY <3>1, <4>1, <4>2, ReachedAppend
    <3> QED
      BY <1>3, <2>1, <2>2, <3>2, OnQueueNext
  <2>4. ASSUME NEW r \in Queues \ {q} PROVE OnQueue(r)' = OnQueue(r)
    <3>1. last \notin OnQueue(r)
      BY <2>1, QueuesDisjoint DEF QueuesRight
    <3>2. \A x \in Reached(first[r], wqNext) : wqNext'[x] = wqNext[x]
      BY <1>1, <1>3, <2>1, <3>1 DEF Links
    <3>3. Reached(first[r], wqNext') = Reached(first[r], wqNext)
      BY <1>1, <1>3, <2>2, <3>2, ReachedSame
    <3> QED
      BY <1>3, <2>2, <3>3, OnQueueNext
  <2>5. LooseEnds'
    <3> SUFFICES ASSUME NEW s \in Slots, \A r \in Queues : s \notin OnQueue(r)'
                 PROVE  wqNext'[s] = NULL
      BY DEF LooseEnds
    <3>1. (\A r \in Queues : s \notin OnQueue(r)) /\ s # last
      BY <2>1, <2>3, <2>4
    <3>2. wqNext[s] = NULL
      BY <3>1 DEF QueuesRight, LooseEnds
    <3> QED
      BY <1>1, <2>1, <3>1, <3>2 DEF Links
  <2>6. ChainEnds'
    <3> SUFFICES ASSUME NEW r \in Queues, first'[r] # NULL
                 PROVE  \E end \in OnQueue(r)' : wqNext'[end] = NULL
      BY DEF ChainEnds
    <3>1. CASE r = q
      <4>1. wqNext'[current] = NULL /\ current \in OnQueue(r)'
        BY <1>1, <1>2, <2>1, <2>2, <2>3, <3>1 DEF Links
      <4> QED
        BY <4>1
    <3>2. CASE r # q
      <4>1. PICK end \in OnQueue(r) : wqNext[end] = NULL
        BY <2>2, <3>2 DEF QueuesRight, ChainEnds
      <4>2. end # last /\ end \in Slots
        BY <2>1, <3>2, <4>1, QueuesDisjoint DEF QueuesRight, OnQueue
      <4>3. end \in OnQueue(r)' /\ wqNext'[end] = NULL
        BY <1>1, <2>1, <2>4, <3>2, <4>1, <4>2 DEF Links
      <4> QED
        BY <4>3
    <3> QED
      BY <3>1, <3>2
  <2> QED
    BY <1>6, <2>3, <2>4, <2>5, <2>6
<1>7. CASE /\ first[q] # NULL /\ current \notin OnQueue(q)
           /\ \A last \in OnQueue(q) : wqNext[last] # NULL
  BY <1>7 DEF QueuesRight, ChainEnds
<1> QED
  BY <1>4, <1>5, <1>6, <1>7 DEF WaitQueueAdd

-----------------------------------------------------------------------------
(* Each kind of step keeps OrderlyInv                                      *)

LEMMA QueuesKept ==
    ASSUME QueuesRight, UNCHANGED <<first, wqNext>>,
           \A q \in Queues, s \in Slots :
              (valid'[s] /\ kont'[s] = q /\ status'[s] = "SLEEPING")
              <=> (valid[s] /\ kont[s] = q /\ status[s] = "SLEEPING")
    PROVE  QueuesRight'
<1>1. /\ \A q \in Queues : OnQueue(q)' = OnQueue(q)
      /\ LooseEnds' /\ ChainEnds'
  BY QueuesUntouched
<1>2. QueueExact'
  BY <1>1 DEF QueuesRight, QueueExact
<1> QED
  BY <1>1, <1>2 DEF QueuesRight

\* The running process goes to sleep in a queue.
LEMMA SleeperOrderly ==
    ASSUME Inv, OrderlyInv, NEW q \in Queues, WaitQueueAdd(q),
           UNCHANGED <<valid, image, parent>>
    PROVE  OrderlyInv'
<1>1. TypeOK /\ CurrentRunnable /\ QueuesRight /\ Borrowed /\ NobodySpins
      /\ current \in Slots /\ status[current] = "READY" /\ valid[current]
  BY DEF Inv, OrderlyInv, QueuesRight, TypeOK, CurrentRunnable, ListIsValid
<1>2. /\ Sleep(q)
      /\ OnQueue(q)' = OnQueue(q) \cup {current}
      /\ \A r \in Queues \ {q} : OnQueue(r)' = OnQueue(r)
      /\ LooseEnds' /\ ChainEnds'
  BY <1>1, QueueExtended
<1>3. /\ \A s \in Slots : status'[s] = IF s = current THEN "SLEEPING" ELSE status[s]
      /\ \A s \in Slots : kont'[s] = IF s = current THEN q ELSE kont[s]
  BY <1>1, <1>2 DEF TypeOK, Sleep
<1>4. QueueExact'
  <2> SUFFICES ASSUME NEW r \in Queues, NEW s \in Slots
               PROVE  s \in OnQueue(r)' <=> /\ valid'[s] /\ kont'[s] = r
                                            /\ status'[s] = "SLEEPING"
    BY DEF QueueExact, OnQueue
  <2>1. CASE s = current
    <3>1. \A p \in Queues : s \notin OnQueue(p)
      BY <1>1, <2>1 DEF QueuesRight, QueueExact
    <3> QED
      BY <1>1, <1>2, <1>3, <2>1, <3>1
  <2>2. CASE s # current
    <3>1. s \in OnQueue(r)' <=> s \in OnQueue(r)
      BY <1>2, <2>2
    <3> QED
      BY <1>1, <1>3, <2>2, <3>1 DEF QueuesRight, QueueExact
  <2> QED
    BY <2>1, <2>2
<1>5. Borrowed'
  BY <1>1, <1>3 DEF Borrowed
<1>6. NobodySpins'
  BY <1>1, <1>3 DEF NobodySpins, Queues
<1> QED
  BY <1>2, <1>4, <1>5, <1>6 DEF OrderlyInv

\* A queue is woken, perhaps by a process that has just become a zombie.
LEMMA WakerOrderly ==
    ASSUME Inv, OrderlyInv, NEW q \in Queues, NEW st \in [Slots -> Statuses],
           \A s \in Slots : \/ st[s] = status[s]
                            \/ s = current /\ image[s] /\ st[s] = "EXITED",
           status' = Woken(q, st), Unqueue(q),
           UNCHANGED <<valid, image, parent, kont>>
    PROVE  OrderlyInv'
<1>1. TypeOK /\ CurrentRunnable /\ QueuesRight /\ Borrowed /\ NobodySpins
      /\ current \in Slots /\ status[current] = "READY"
  BY DEF Inv, OrderlyInv, QueuesRight, TypeOK, CurrentRunnable
<1>2. /\ OnQueue(q)' = {}
      /\ \A r \in Queues \ {q} : OnQueue(r)' = OnQueue(r)
      /\ LooseEnds' /\ ChainEnds'
  BY <1>1, QueueEmptied
<1>3. \A s \in Slots : status'[s] = IF s \in OnQueue(q) THEN "READY" ELSE st[s]
  BY DEF Woken
<1>4. QueueExact'
  <2> SUFFICES ASSUME NEW r \in Queues, NEW s \in Slots
               PROVE  s \in OnQueue(r)' <=> /\ valid'[s] /\ kont'[s] = r
                                            /\ status'[s] = "SLEEPING"
    BY DEF QueueExact, OnQueue
  <2>1. \A p \in Queues : s \in OnQueue(p) <=> /\ valid[s] /\ kont[s] = p
                                               /\ status[s] = "SLEEPING"
    BY <1>1 DEF QueuesRight, QueueExact
  <2>2. CASE r = q
    BY <1>2, <1>3, <2>1, <2>2
  <2>3. CASE r # q
    <3>1. s \in OnQueue(r)' <=> s \in OnQueue(r)
      BY <1>2, <2>3
    <3>2. s \in OnQueue(r) => s \notin OnQueue(q) /\ s # current
      BY <1>1, <2>1, <2>3
    <3> QED
      BY <1>3, <2>1, <3>1, <3>2
  <2> QED
    BY <2>2, <2>3
<1>5. Borrowed'
  <2> SUFFICES ASSUME NEW c \in Slots, valid'[c], ~image'[c]
               PROVE  /\ status'[c] # "EXITED"
                      /\ parent'[c] \in Slots /\ valid'[parent'[c]]
                      /\ status'[parent'[c]] = "SLEEPING" /\ kont'[parent'[c]] = "vfork"
                      /\ \A d \in Slots : valid'[d] /\ ~image'[d] /\ parent'[d] = parent'[c] => d = c
    BY DEF Borrowed
  <2>1. /\ status[c] # "EXITED"
        /\ parent[c] \in Slots /\ valid[parent[c]]
        /\ status[parent[c]] = "SLEEPING" /\ kont[parent[c]] = "vfork"
        /\ \A d \in Slots : valid[d] /\ ~image[d] /\ parent[d] = parent[c] => d = c
    BY <1>1 DEF Borrowed
  <2>2. parent[c] \notin OnQueue(q) /\ st[parent[c]] = "SLEEPING" /\ st[c] # "EXITED"
    BY <1>1, <2>1 DEF QueuesRight, QueueExact, Queues
  <2> QED
    BY <1>3, <2>1, <2>2
<1>6. NobodySpins'
  BY <1>1 DEF NobodySpins
<1> QED
  BY <1>2, <1>4, <1>5, <1>6 DEF OrderlyInv

\* The running process returns to user mode.
LEMMA ReturnOrderly ==
    ASSUME Inv, OrderlyInv, kont' = [kont EXCEPT ![current] = "user"],
           UNCHANGED <<valid, image, parent, status, first, wqNext>>
    PROVE  OrderlyInv'
<1>1. TypeOK /\ QueuesRight /\ Borrowed /\ NobodySpins
      /\ current \in Slots /\ status[current] = "READY"
  BY DEF Inv, OrderlyInv, QueuesRight, TypeOK, CurrentRunnable
<1>2. \A s \in Slots : kont'[s] = IF s = current THEN "user" ELSE kont[s]
  BY <1>1 DEF TypeOK
<1>3. QueuesRight'
  BY <1>1, <1>2, QueuesKept
<1>4. Borrowed' /\ NobodySpins'
  BY <1>1, <1>2 DEF Borrowed, NobodySpins
<1> QED
  BY <1>3, <1>4 DEF OrderlyInv, QueuesRight

\* A zombie is reaped, by a process that returns to user mode or is in it.
LEMMA ReapOrderly ==
    ASSUME Inv, OrderlyInv, NEW t, status[t] = "EXITED", Destroy(t),
           \/ UNCHANGED kont
           \/ kont' = [kont EXCEPT ![current] = "user"]
    PROVE  OrderlyInv'
<1>1. TypeOK /\ QueuesRight /\ Borrowed /\ NobodySpins
      /\ current \in Slots /\ status[current] = "READY"
  BY DEF Inv, OrderlyInv, QueuesRight, TypeOK, CurrentRunnable
<1>2. /\ \A s \in Slots : valid'[s] <=> valid[s] /\ s # t
      /\ UNCHANGED <<status, parent, image, wqNext, first>>
  BY <1>1 DEF Destroy, TypeOK
<1>3. \A s \in Slots : kont'[s] = kont[s] \/ (s = current /\ kont'[s] = "user")
  BY <1>1 DEF TypeOK
<1>4. QueuesRight'
  BY <1>1, <1>2, <1>3, QueuesKept
<1>5. Borrowed' /\ NobodySpins'
  BY <1>1, <1>2, <1>3 DEF Borrowed, NobodySpins
<1> QED
  BY <1>4, <1>5 DEF OrderlyInv, QueuesRight

LEMMA VforkOrderly == Inv /\ OrderlyInv /\ vfork => OrderlyInv'
<1> SUFFICES ASSUME Inv, OrderlyInv, vfork PROVE OrderlyInv'
  OBVIOUS
<1>1. TypeOK /\ QueuesRight /\ Borrowed /\ NobodySpins
      /\ current \in Slots /\ status[current] = "READY" /\ valid[current]
  BY DEF Inv, OrderlyInv, QueuesRight, TypeOK, CurrentRunnable, ListIsValid
<1>2. PICK c \in FreeSlots :
        /\ valid' = [valid EXCEPT ![c] = TRUE]
        /\ parent' = [parent EXCEPT ![c] = current]
        /\ image' = [image EXCEPT ![c] = FALSE]
        /\ wqNext' = [wqNext EXCEPT ![c] = wqNext[current]]
        /\ kont' = [kont EXCEPT ![c] = "user", ![current] = "vfork"]
        /\ status' = [status EXCEPT ![c] = "READY", ![current] = "SLEEPING"]
  BY DEF vfork, process_create, process_insert, VforkStatus
<1>3. c \in Slots /\ ~valid[c] /\ c # current /\ kont[current] = "user" /\ UNCHANGED first
  BY <1>1, <1>2 DEF FreeSlots, vfork, process_create, process_insert, InUser
\* The child's pointer, copied from the running process, leads nowhere.
<1>4. UNCHANGED wqNext
  <2>1. \A q \in Queues : current \notin OnQueue(q) /\ c \notin OnQueue(q)
    BY <1>1, <1>3 DEF QueuesRight, QueueExact
  <2>2. wqNext[current] = NULL /\ wqNext[c] = NULL
    BY <1>1, <1>3, <2>1 DEF QueuesRight, LooseEnds
  <2> QED
    BY <1>1, <1>2, <1>3, <2>2 DEF TypeOK
<1>5. \A s \in Slots :
        /\ valid'[s] <=> valid[s] \/ s = c
        /\ image'[s] <=> image[s] /\ s # c
        /\ parent'[s] = IF s = c THEN current ELSE parent[s]
        /\ kont'[s] = IF s = c THEN "user" ELSE IF s = current THEN "vfork" ELSE kont[s]
        /\ status'[s] = IF s = c THEN "READY"
                        ELSE IF s = current THEN "SLEEPING" ELSE status[s]
  BY <1>1, <1>2, <1>3 DEF TypeOK
<1>6. QueuesRight'
  BY <1>1, <1>3, <1>4, <1>5, QueuesKept DEF Queues
<1>7. Borrowed'
  <2> SUFFICES ASSUME NEW d \in Slots, valid'[d], ~image'[d]
               PROVE  /\ status'[d] # "EXITED"
                      /\ parent'[d] \in Slots /\ valid'[parent'[d]]
                      /\ status'[parent'[d]] = "SLEEPING" /\ kont'[parent'[d]] = "vfork"
                      /\ \A e \in Slots : valid'[e] /\ ~image'[e] /\ parent'[e] = parent'[d] => e = d
    BY DEF Borrowed
  <2>1. \A e \in Slots \ {c} : valid[e] /\ ~image[e] =>
           /\ parent[e] \in Slots /\ parent[e] # current /\ parent[e] # c
    BY <1>1, <1>3 DEF Borrowed
  <2>2. CASE d = c
    BY <1>1, <1>3, <1>5, <2>1, <2>2
  <2>3. CASE d # c
    BY <1>1, <1>3, <1>5, <2>1, <2>3 DEF Borrowed
  <2> QED
    BY <2>2, <2>3
<1>8. NobodySpins'
  BY <1>1, <1>5 DEF NobodySpins
<1> QED
  BY <1>6, <1>7, <1>8 DEF OrderlyInv, QueuesRight

\* execve() gives the stack back to the parent, which slept in vfork() and in
\* no queue.
LEMMA ExecveOrderly ==
    ASSUME Orderly, Inv, OrderlyInv, NEW ok \in BOOLEAN, execve(ok)
    PROVE  OrderlyInv'
<1>1. TypeOK /\ QueuesRight /\ Borrowed /\ NobodySpins
      /\ current \in Slots /\ status[current] = "READY" /\ valid[current]
  BY DEF Inv, OrderlyInv, QueuesRight, TypeOK, CurrentRunnable, ListIsValid
<1>2. ok /\ ~image[current]
  BY DEF Orderly, execve
<1>3. /\ parent[current] \in Slots
      /\ status[parent[current]] = "SLEEPING" /\ kont[parent[current]] = "vfork"
  BY <1>1, <1>2 DEF Borrowed
<1>4. /\ \A s \in Slots : status'[s] = IF s = parent[current] THEN "READY" ELSE status[s]
      /\ \A s \in Slots : image'[s] <=> image[s] \/ s = current
      /\ UNCHANGED <<valid, parent, wqNext, kont, first>>
  BY <1>1, <1>2, <1>3 DEF execve, ParentReady, TypeOK
<1>5. QueuesRight'
  BY <1>1, <1>3, <1>4, QueuesKept DEF Queues
<1>6. Borrowed'
  BY <1>1, <1>2, <1>3, <1>4 DEF Borrowed
<1>7. NobodySpins'
  BY <1>1, <1>4 DEF NobodySpins
<1> QED
  BY <1>5, <1>6, <1>7 DEF OrderlyInv, QueuesRight

LEMMA InitOrderly == Init => OrderlyInv
<1> SUFFICES ASSUME Init PROVE OrderlyInv
  OBVIOUS
<1>1. \A q \in Queues : first[q] = NULL /\ OnQueue(q) = {}
  BY OnQueueReached, ReachedNothing DEF Init
<1>2. QueueExact
  BY <1>1 DEF QueueExact, Init, Queues
<1>3. LooseEnds /\ ChainEnds /\ NobodySpins
  BY <1>1 DEF LooseEnds, ChainEnds, NobodySpins, Init
<1>4. Borrowed
  BY DEF Borrowed, Init
<1> QED
  BY <1>2, <1>3, <1>4 DEF OrderlyInv

LEMMA NextOrderly == Orderly /\ Inv /\ OrderlyInv /\ [Next]_vars => OrderlyInv'
<1> SUFFICES ASSUME Orderly, Inv, OrderlyInv, [Next]_vars PROVE OrderlyInv'
  OBVIOUS
<1> USE SlotFacts
<1>0. TypeOK /\ QueuesRight /\ Borrowed /\ NobodySpins
      /\ current \in Slots /\ status[current] = "READY"
  BY DEF Inv, OrderlyInv, QueuesRight, TypeOK, CurrentRunnable
<1>u. ASSUME UNCHANGED <<valid, status, parent, image, wqNext, kont, first>>
      PROVE  OrderlyInv'
  BY <1>0, <1>u, QueuesKept DEF OrderlyInv, QueuesRight, Borrowed, NobodySpins
<1>1. CASE vfork
  BY <1>1, VforkOrderly
<1>2. ASSUME NEW ok \in BOOLEAN, execve(ok) PROVE OrderlyInv'
  BY <1>2, ExecveOrderly
<1>3. CASE exit
  <2> DEFINE st == [status EXCEPT ![current] = "EXITED"]
  <2>1. /\ status' = Woken("waitpid", st) /\ Unqueue("waitpid")
        /\ UNCHANGED <<valid, image, parent, kont>>
    BY <1>3 DEF exit, ExitWake, pcbVars
  <2>2. image[current]
    BY <1>3 DEF exit, Orderly
  <2>3. st \in [Slots -> Statuses]
    BY <1>0 DEF TypeOK, Statuses
  <2>4. \A s \in Slots : \/ st[s] = status[s]
                         \/ s = current /\ image[s] /\ st[s] = "EXITED"
    BY <1>0, <2>2 DEF TypeOK
  <2> HIDE DEF st
  <2> QED
    BY <2>1, <2>3, <2>4, WakerOrderly DEF Queues
<1>4. ASSUME NEW p \in Pids \cup {ANY}, waitpid_reap(p) PROVE OrderlyInv'
  BY <1>4, ReapOrderly DEF waitpid_reap
<1>5. ASSUME NEW p \in Pids \cup {ANY}, waitpid_block(p) PROVE OrderlyInv'
  BY <1>5, SleeperOrderly DEF waitpid_block, pcbVars, Queues
<1>6. CASE waitpid_resume
  <2>1. CASE /\ status[waiting[current]] = "EXITED"
             /\ Destroy(waiting[current])
             /\ kont' = [kont EXCEPT ![current] = "user"]
    BY <2>1, ReapOrderly
  <2>2. CASE WaitQueueAdd("waitpid") /\ UNCHANGED <<pcbVars, waiting, asked>>
    BY <2>2, SleeperOrderly DEF pcbVars, Queues
  <2> QED
    BY <1>6, <2>1, <2>2 DEF waitpid_resume
<1>7. CASE console_read
  <2>1. CASE WaitQueueAdd("console")
    BY <1>7, <2>1, SleeperOrderly DEF console_read, pcbVars, Queues
  <2>2. CASE UNCHANGED <<status, wqNext, kont, current, first>>
    BY <1>7, <1>u, <2>2 DEF console_read, pcbVars
  <2> QED
    BY <1>7, <2>1, <2>2 DEF console_read
<1>8. CASE console_resume
  BY <1>8, ReturnOrderly DEF console_resume, pcbVars
<1>9. CASE nanosleep
  BY <1>9, SleeperOrderly DEF nanosleep, pcbVars, Queues
<1>10. CASE nanosleep_resume
  <2>1. CASE WaitQueueAdd("timer")
    BY <1>10, <2>1, SleeperOrderly DEF nanosleep_resume, pcbVars, Queues
  <2>2. CASE /\ kont' = [kont EXCEPT ![current] = "user"]
             /\ UNCHANGED <<status, wqNext, current, first>>
    BY <1>10, <2>2, ReturnOrderly DEF nanosleep_resume, pcbVars
  <2> QED
    BY <1>10, <2>1, <2>2 DEF nanosleep_resume
<1>11. CASE vfork_resume
  BY <1>11, ReturnOrderly DEF vfork_resume, pcbVars
<1>12. ASSUME NEW due \in BOOLEAN, timer_interrupt(due) PROVE OrderlyInv'
  <2>1. CASE due
    BY <1>0, <1>12, <2>1, WakerOrderly DEF timer_interrupt, pcbVars, Queues, TypeOK
  <2>2. CASE ~due
    BY <1>12, <1>u, <2>2 DEF timer_interrupt, pcbVars
  <2> QED
    BY <2>1, <2>2
<1>13. ASSUME NEW z \in BOOLEAN, console_insert_char(z) PROVE OrderlyInv'
  <2>1. CASE HasRoom
    BY <1>0, <1>13, <2>1, WakerOrderly
       DEF console_insert_char, InsertChar, pcbVars, Queues, TypeOK
  <2>2. CASE ~HasRoom
    BY <1>13, <1>u, <2>2 DEF console_insert_char, InsertChar, pcbVars
  <2> QED
    BY <2>1, <2>2
<1>14. CASE console_eof
  BY <1>0, <1>14, WakerOrderly DEF console_eof, pcbVars, Queues, TypeOK
<1>15. CASE UNCHANGED vars
  BY <1>u, <1>15 DEF vars
<1> QED
  BY <1>1, <1>2, <1>3, <1>4, <1>5, <1>6, <1>7, <1>8, <1>9, <1>10, <1>11,
     <1>12, <1>13, <1>14, <1>15 DEF Next, Resume, Tick

-----------------------------------------------------------------------------
(* Children that are waited for                                             *)

\* A sleeper's place in the kernel is his queue, and nobody else's changes.
LEMMA SleeperKont ==
    ASSUME TypeOK, NEW q \in Queues, WaitQueueAdd(q)
    PROVE  \A s \in Slots : \/ kont'[s] = kont[s]
                            \/ s = current /\ kont'[s] \in {q, "spin"}
  BY DEF WaitQueueAdd, Sleep, TypeOK

\* waitpid() looks only at PCBs in use, and at the caller's children unless
\* programs ask for strangers.
LEMMA TargetIsChild ==
    ASSUME Inv, "wait_stranger" \notin Liberties,
           NEW p, NEW t \in Slots, WaitTarget(p, t)
    PROVE  valid[t] /\ parent[t] = current /\ (p # ANY => p = pid[t])
<1>1. InList(t) /\ parent[t] = current /\ (p # ANY => p = pid[t])
  <2>1. CASE p = ANY /\ process_lookup_child(t)
    BY <2>1 DEF process_lookup_child, ChildAt, InList
  <2>2. CASE p = pid[t] /\ InList(t) /\ t # current /\ parent[t] = current
    BY <2>2
  <2> QED
    BY <2>1, <2>2 DEF WaitTarget
<1> QED
  BY <1>1 DEF Inv, ListIsValid

\* A parent that reaps its own child pulls it from under nobody.
LEMMA ReapAwaited ==
    ASSUME Inv, Awaited, NEW t, Destroy(t), parent[t] = current,
           \A s \in Slots \ {current} : /\ kont'[s] = kont[s]
                                        /\ waiting'[s] = waiting[s]
                                        /\ asked'[s] = asked[s],
           kont'[current] # "waitpid"
    PROVE  Awaited'
<1>1. UNCHANGED <<pid, parent>> /\ \A s \in Slots : valid'[s] <=> valid[s] /\ s # t
  BY DEF Destroy, Inv, TypeOK
<1> QED
  BY <1>1 DEF Awaited

LEMMA VforkAwaited == Inv /\ Awaited /\ vfork => Awaited'
<1> SUFFICES ASSUME Inv, Awaited, vfork PROVE Awaited'
  OBVIOUS
<1>1. TypeOK /\ current \in Slots /\ valid[current]
  BY DEF Inv, TypeOK, CurrentRunnable, ListIsValid
<1>2. PICK c \in FreeSlots :
        /\ valid' = [valid EXCEPT ![c] = TRUE]
        /\ pid' = [pid EXCEPT ![c] = avail_pid]
        /\ parent' = [parent EXCEPT ![c] = current]
        /\ kont' = [kont EXCEPT ![c] = "user", ![current] = "vfork"]
        /\ waiting' = [waiting EXCEPT ![c] = NULL]
  BY DEF vfork, process_create, process_insert
<1>3. c \in Slots /\ ~valid[c] /\ c # current /\ UNCHANGED asked
  BY <1>1, <1>2 DEF FreeSlots, vfork, process_create, process_insert
<1>4. \A s \in Slots :
        /\ valid'[s] <=> valid[s] \/ s = c
        /\ s # c => pid'[s] = pid[s] /\ parent'[s] = parent[s] /\ waiting'[s] = waiting[s]
        /\ kont'[s] = IF s = c THEN "user" ELSE IF s = current THEN "vfork" ELSE kont[s]
  BY <1>1, <1>2, <1>3 DEF TypeOK
<1> QED
  BY <1>3, <1>4 DEF Awaited

LEMMA InitAwaited == Init => Awaited
  BY DEF Init, Awaited

LEMMA NextAwaited ==
    "wait_stranger" \notin Liberties /\ Inv /\ Awaited /\ [Next]_vars => Awaited'
<1> SUFFICES ASSUME "wait_stranger" \notin Liberties, Inv, Awaited, [Next]_vars
             PROVE  Awaited'
  OBVIOUS
<1>0. TypeOK /\ current \in Slots /\ valid[current]
  BY DEF Inv, TypeOK, CurrentRunnable, ListIsValid
\* Most steps touch neither the family nor the waiters.
<1>u. ASSUME UNCHANGED <<valid, pid, parent, waiting, asked>>,
             \A s \in Slots : \/ kont'[s] = kont[s]
                              \/ s = current /\ kont'[s] # "waitpid"
      PROVE  Awaited'
  BY <1>u DEF Awaited
\* A waiter that sleeps again waits for the same child.
<1>w. ASSUME UNCHANGED <<valid, pid, parent, waiting, asked>>,
             kont[current] = "waitpid", WaitQueueAdd("waitpid")
      PROVE  Awaited'
  <2>1. \A s \in Slots : kont'[s] = "waitpid" => kont[s] = "waitpid"
    BY <1>0, <1>w, SleeperKont DEF Queues
  <2> QED
    BY <1>w, <2>1 DEF Awaited
<1>1. CASE vfork
  BY <1>1, VforkAwaited
<1>2. ASSUME NEW ok \in BOOLEAN, execve(ok) PROVE Awaited'
  BY <1>2, <1>u DEF execve
<1>3. CASE exit
  BY <1>3, <1>u DEF exit, pcbVars
<1>4. ASSUME NEW p \in Pids \cup {ANY}, waitpid_reap(p) PROVE Awaited'
  <2>1. PICK t \in Slots : WaitTarget(p, t) /\ Destroy(t)
    BY <1>4 DEF waitpid_reap
  <2>2. kont[current] = "user" /\ UNCHANGED <<kont, waiting, asked>>
    BY <1>4 DEF waitpid_reap, InUser
  <2> QED
    BY <2>1, <2>2, TargetIsChild, ReapAwaited
<1>5. ASSUME NEW p \in Pids \cup {ANY}, waitpid_block(p) PROVE Awaited'
  <2>1. PICK t \in Slots : WaitTarget(p, t) /\ waiting' = [waiting EXCEPT ![current] = t]
    BY <1>5 DEF waitpid_block
  <2>2. valid[t] /\ parent[t] = current /\ (p # ANY => p = pid[t])
    BY <2>1, TargetIsChild
  <2>3. /\ UNCHANGED <<valid, pid, parent>>
        /\ asked' = [asked EXCEPT ![current] = p] /\ WaitQueueAdd("waitpid")
    BY <1>5 DEF waitpid_block, pcbVars
  <2>4. \A s \in Slots : s # current => kont'[s] = kont[s]
    BY <1>0, <2>3, SleeperKont DEF Queues
  <2>5. \A s \in Slots : /\ waiting'[s] = IF s = current THEN t ELSE waiting[s]
                         /\ asked'[s] = IF s = current THEN p ELSE asked[s]
    BY <1>0, <2>1, <2>3 DEF TypeOK
  <2> QED
    BY <1>0, <2>2, <2>3, <2>4, <2>5 DEF Awaited
<1>6. CASE waitpid_resume
  <2>1. CASE /\ Destroy(waiting[current])
             /\ kont' = [kont EXCEPT ![current] = "user"]
             /\ waiting' = [waiting EXCEPT ![current] = NULL]
             /\ asked' = [asked EXCEPT ![current] = ANY]
    <3>1. parent[waiting[current]] = current
      BY <1>0, <1>6 DEF waitpid_resume, Awaited
    <3>2. /\ kont'[current] # "waitpid"
          /\ \A s \in Slots \ {current} : /\ kont'[s] = kont[s]
                                          /\ waiting'[s] = waiting[s]
                                          /\ asked'[s] = asked[s]
      BY <1>0, <2>1 DEF TypeOK
    <3> QED
      BY <2>1, <3>1, <3>2, ReapAwaited
  <2>2. CASE WaitQueueAdd("waitpid") /\ UNCHANGED <<pcbVars, waiting, asked>>
    BY <1>6, <1>w, <2>2 DEF waitpid_resume, pcbVars
  <2> QED
    BY <1>6, <2>1, <2>2 DEF waitpid_resume
<1>7. CASE console_read
  <2>1. CASE WaitQueueAdd("console")
    <3>1. \A s \in Slots : kont'[s] = kont[s] \/ (s = current /\ kont'[s] # "waitpid")
      BY <1>0, <2>1, SleeperKont DEF Queues
    <3> QED
      BY <1>7, <1>u, <3>1 DEF console_read, pcbVars
  <2>2. CASE UNCHANGED kont
    BY <1>7, <1>u, <2>2 DEF console_read, pcbVars
  <2> QED
    BY <1>7, <2>1, <2>2 DEF console_read
<1>8. ASSUME kont' = [kont EXCEPT ![current] = "user"],
             UNCHANGED <<pcbVars, waiting, asked>>
      PROVE  Awaited'
  <2>1. \A s \in Slots : kont'[s] = kont[s] \/ (s = current /\ kont'[s] # "waitpid")
    BY <1>0, <1>8 DEF TypeOK
  <2> QED
    BY <1>8, <1>u, <2>1 DEF pcbVars
<1>9. ASSUME WaitQueueAdd("timer"), UNCHANGED <<pcbVars, waiting, asked>>
      PROVE  Awaited'
  <2>1. \A s \in Slots : kont'[s] = kont[s] \/ (s = current /\ kont'[s] # "waitpid")
    BY <1>0, <1>9, SleeperKont DEF Queues
  <2> QED
    BY <1>9, <1>u, <2>1 DEF pcbVars
<1>10. CASE console_resume \/ vfork_resume
  BY <1>8, <1>10 DEF console_resume, vfork_resume
<1>11. CASE nanosleep \/ nanosleep_resume
  BY <1>8, <1>9, <1>11 DEF nanosleep, nanosleep_resume
<1>12. ASSUME NEW due \in BOOLEAN, timer_interrupt(due) PROVE Awaited'
  BY <1>12, <1>u DEF timer_interrupt, pcbVars
<1>13. ASSUME NEW z \in BOOLEAN, console_insert_char(z) PROVE Awaited'
  BY <1>13, <1>u DEF console_insert_char, pcbVars
<1>14. CASE console_eof
  BY <1>14, <1>u DEF console_eof, pcbVars
<1>15. CASE UNCHANGED vars
  BY <1>15, <1>u DEF vars
<1> QED
  BY <1>1, <1>2, <1>3, <1>4, <1>5, <1>6, <1>7, <1>10, <1>11, <1>12, <1>13,
     <1>14, <1>15 DEF Next, Resume, Tick

-----------------------------------------------------------------------------
(* The life of a PCB                                                        *)

LifeStep ==
    \A s \in Slots :
        LET was == Life(valid[s], status[s])
            is  == Life(valid'[s], status'[s])
        IN /\ was = "EXITED" => is \in {"EXITED", "free"}
           /\ was \in {"READY", "SLEEPING"} => is # "free"
           /\ was # "EXITED" /\ is = "EXITED" => s = current

\* No process is freed, none is revived, and only the running one dies.
LEMMA LifeKept ==
    ASSUME TypeOK, UNCHANGED valid,
           \A s \in Slots : \/ status'[s] = status[s]
                            \/ status[s] # "EXITED" /\ status'[s] \in {"READY", "SLEEPING"}
                            \/ s = current /\ status'[s] = "EXITED"
    PROVE  LifeStep
  BY DEF LifeStep, Life, TypeOK, Statuses

LEMMA SleeperLife ==
    ASSUME Inv, NEW q, WaitQueueAdd(q), UNCHANGED valid
    PROVE  LifeStep
<1>1. TypeOK /\ current \in Slots /\ status[current] = "READY"
  BY DEF Inv, TypeOK, CurrentRunnable
<1>2. \A s \in Slots : status'[s] = status[s] \/ (s = current /\ status'[s] = "SLEEPING")
  BY <1>1 DEF WaitQueueAdd, Sleep, TypeOK
<1> QED
  BY <1>1, <1>2, LifeKept

\* A wake-up reaches sleepers only: a zombie is in no queue.
LEMMA WakerLife ==
    ASSUME Inv, QueueExact, NEW q \in Queues, NEW st,
           \A s \in Slots : \/ st[s] = status[s]
                            \/ s = current /\ st[s] = "EXITED",
           status' = Woken(q, st), UNCHANGED valid
    PROVE  LifeStep
<1>1. TypeOK /\ status[current] = "READY"
  BY DEF Inv, CurrentRunnable
<1>2. \A s \in Slots : status'[s] = IF s \in OnQueue(q) THEN "READY" ELSE st[s]
  BY DEF Woken
<1>3. \A s \in OnQueue(q) : status[s] = "SLEEPING"
  BY DEF QueueExact
<1>4. \A s \in Slots : \/ status'[s] = status[s]
                       \/ status[s] # "EXITED" /\ status'[s] = "READY"
                       \/ s = current /\ status'[s] = "EXITED"
  BY <1>2, <1>3
<1> QED
  BY <1>1, <1>4, LifeKept DEF Statuses

LEMMA DestroyLife ==
    ASSUME TypeOK, NEW t, status[t] = "EXITED", Destroy(t)
    PROVE  LifeStep
<1>1. /\ \A s \in Slots : valid'[s] <=> valid[s] /\ s # t
      /\ UNCHANGED status
  BY DEF Destroy, TypeOK
<1> QED
  BY <1>1 DEF LifeStep, Life, TypeOK, Statuses

LEMMA VforkLife == Inv /\ vfork => LifeStep
<1> SUFFICES ASSUME Inv, vfork PROVE LifeStep
  OBVIOUS
<1>1. TypeOK /\ current \in Slots /\ status[current] = "READY" /\ valid[current]
  BY DEF Inv, TypeOK, CurrentRunnable, ListIsValid
<1>2. PICK c \in FreeSlots :
        /\ valid' = [valid EXCEPT ![c] = TRUE]
        /\ status' = [status EXCEPT ![c] = "READY", ![current] = "SLEEPING"]
  BY DEF vfork, process_create, process_insert, VforkStatus
<1>3. \A s \in Slots :
        /\ valid'[s] <=> valid[s] \/ s = c
        /\ status'[s] = IF s = current THEN "SLEEPING" ELSE IF s = c THEN "READY" ELSE status[s]
  BY <1>1, <1>2 DEF TypeOK
<1>4. c \in Slots /\ ~valid[c]
  BY <1>2 DEF FreeSlots
<1> QED
  BY <1>1, <1>3, <1>4 DEF LifeStep, Life, TypeOK, Statuses

LEMMA NextLife == Orderly /\ Inv /\ OrderlyInv /\ [Next]_vars => LifeStep
<1> SUFFICES ASSUME Orderly, Inv, OrderlyInv, [Next]_vars PROVE LifeStep
  OBVIOUS
<1>0. TypeOK /\ QueueExact /\ current \in Slots /\ status[current] = "READY" /\ valid[current]
  BY DEF Inv, OrderlyInv, TypeOK, CurrentRunnable, ListIsValid
<1>u. UNCHANGED <<valid, status>> => LifeStep
  BY <1>0, LifeKept
<1>1. CASE vfork
  BY <1>1, VforkLife
<1>2. ASSUME NEW ok \in BOOLEAN, execve(ok) PROVE LifeStep
  <2>1. ok /\ ~image[current]
    BY <1>2 DEF Orderly, execve
  <2>2. parent[current] \in Slots /\ status[parent[current]] = "SLEEPING"
    BY <1>0, <2>1 DEF OrderlyInv, Borrowed
  <2>3. /\ UNCHANGED valid
        /\ \A s \in Slots : status'[s] = IF s = parent[current] THEN "READY" ELSE status[s]
    BY <1>0, <1>2 DEF execve, ParentReady, TypeOK
  <2> QED
    BY <1>0, <2>2, <2>3, LifeKept
<1>3. CASE exit
  <2> DEFINE st == [status EXCEPT ![current] = "EXITED"]
  <2>1. status' = Woken("waitpid", st) /\ UNCHANGED valid
    BY <1>3 DEF exit, ExitWake, pcbVars
  <2>2. \A s \in Slots : st[s] = status[s] \/ (s = current /\ st[s] = "EXITED")
    BY <1>0 DEF TypeOK
  <2> HIDE DEF st
  <2> QED
    BY <1>0, <2>1, <2>2, WakerLife DEF Queues
<1>4. ASSUME NEW p \in Pids \cup {ANY}, waitpid_reap(p) PROVE LifeStep
  BY <1>0, <1>4, DestroyLife DEF waitpid_reap
<1>5. ASSUME NEW p \in Pids \cup {ANY}, waitpid_block(p) PROVE LifeStep
  BY <1>5, SleeperLife DEF waitpid_block, pcbVars
<1>6. CASE waitpid_resume
  BY <1>0, <1>6, DestroyLife, SleeperLife DEF waitpid_resume, pcbVars
<1>7. CASE console_read
  BY <1>7, <1>u, SleeperLife DEF console_read, pcbVars
<1>8. CASE console_resume \/ vfork_resume
  BY <1>8, <1>u DEF console_resume, vfork_resume, pcbVars
<1>9. CASE nanosleep \/ nanosleep_resume
  BY <1>9, <1>u, SleeperLife DEF nanosleep, nanosleep_resume, pcbVars
<1>10. ASSUME NEW due \in BOOLEAN, timer_interrupt(due) PROVE LifeStep
  BY <1>0, <1>10, <1>u, WakerLife DEF timer_interrupt, pcbVars, Queues
<1>11. ASSUME NEW z \in BOOLEAN, console_insert_char(z) PROVE LifeStep
  BY <1>0, <1>11, <1>u, WakerLife DEF console_insert_char, InsertChar, pcbVars, Queues
<1>12. CASE console_eof
  BY <1>0, <1>12, WakerLife DEF console_eof, pcbVars, Queues
<1>13. CASE UNCHANGED vars
  BY <1>13, <1>u DEF vars
<1> QED
  BY <1>1, <1>2, <1>3, <1>4, <1>5, <1>6, <1>7, <1>8, <1>9, <1>10, <1>11,
     <1>12, <1>13 DEF Next, Resume, Tick

-----------------------------------------------------------------------------
(* The theorems                                                             *)

LEMMA SpecOrderly == Orderly => (Spec => []OrderlyInv)
<1> SUFFICES ASSUME Orderly PROVE Spec => []OrderlyInv
  OBVIOUS
<1>1. Inv /\ OrderlyInv /\ [Next]_vars => OrderlyInv'
  BY NextOrderly
<1> QED
  BY <1>1, InitOrderly, SpecInv, PTL DEF Spec

\* The chain of each wait queue holds exactly those who sleep in its system
\* call (wait_queue_add, wait_queue_wake): no wake-up is lost and no process
\* is woken that did not wait, whatever the number of processes, if programs
\* call execve() once after vfork() and it finds the program.
THEOREM QueuesExact == Orderly => (Spec => []QueueExact)
<1> SUFFICES ASSUME Orderly PROVE Spec => []QueueExact
  OBVIOUS
<1>1. OrderlyInv => QueueExact
  BY DEF OrderlyInv
<1> QED
  BY <1>1, SpecOrderly, PTL

\* While a vfork child runs on its parent's stack the parent stays asleep in
\* vfork(): no other process's execve(), exit or interrupt wakes it.
THEOREM StacksApart == Orderly => (Spec => []StackExclusive)
<1> SUFFICES ASSUME Orderly PROVE Spec => []StackExclusive
  OBVIOUS
<1>1. OrderlyInv => StackExclusive
  BY SlotFacts DEF OrderlyInv, Borrowed, StackExclusive
<1> QED
  BY <1>1, SpecOrderly, PTL

\* wait_queue_add() always finds the end of the chain: no process is caught
\* in its loop with interrupts masked.
THEOREM QueuesEnd == Orderly => (Spec => []NobodySpins)
<1> SUFFICES ASSUME Orderly PROVE Spec => []NobodySpins
  OBVIOUS
<1>1. OrderlyInv => NobodySpins
  BY DEF OrderlyInv
<1> QED
  BY <1>1, SpecOrderly, PTL

\* A zombie stays one until waitpid() reaps it, only a zombie's PCB is freed,
\* and a process dies only while it runs.
THEOREM LivesInOrder == Orderly => (Spec => LifeCycle)
<1> SUFFICES ASSUME Orderly PROVE Spec => LifeCycle
  OBVIOUS
<1>1. Inv /\ OrderlyInv /\ [Next]_vars => [LifeStep]_vars
  BY NextLife
<1>2. Spec => [][LifeStep]_vars
  BY <1>1, SpecInv, SpecOrderly, PTL DEF Spec
<1> QED
  BY <1>2 DEF LifeStep, LifeCycle

\* A parent inside waitpid() looks at a PCB that is still in use by the child
\* it asked for, whatever else programs do, if they only wait for their own
\* children.
THEOREM TargetsLive == "wait_stranger" \notin Liberties => (Spec => []WaitTargetLive)
<1> SUFFICES ASSUME "wait_stranger" \notin Liberties PROVE Spec => []WaitTargetLive
  OBVIOUS
<1>1. Inv /\ Awaited /\ [Next]_vars => Awaited'
  BY NextAwaited
<1>2. Awaited => WaitTargetLive
  BY SlotFacts DEF Awaited, WaitTargetLive
<1> QED
  BY <1>1, <1>2, InitAwaited, SpecInv, PTL DEF Spec

=============================================================================
