------------------------------- MODULE Process -------------------------------
(***************************************************************************)
(* The process core of VMWos: the PCB table and the process list, the      *)
(* round-robin scheduler, the wait queues, and the system calls that       *)
(* create, replace, end, await and block processes.                        *)
(*                                                                         *)
(* The kernel runs system calls and interrupt handlers with interrupts     *)
(* masked, and only core 0 runs processes, so everything between two calls *)
(* of schedule() is one atomic step.  A process that gave up the CPU       *)
(* inside a system call continues, when it is switched back in, where it   *)
(* left the kernel: kont says where that is.                               *)
(*                                                                         *)
(* Abstractions.  The doubly linked list of PCBs is the sequence list.     *)
(* The stack and text of a process are the flag image (both are NULL in a  *)
(* vfork child, which runs on its parent's).  Console input is the number  *)
(* of buffered characters.  tick_counter and timer_next_wakeup are         *)
(* abstracted to whether the wakeup is due.                                *)
(***************************************************************************)
EXTENDS Integers, Sequences, FiniteSets

CONSTANTS
    MAX_PROCS,    \* size of the PCB table
    NULL,         \* the null pointer
    MaxPid,       \* bound: avail_pid stops here
    InputSize,    \* INPUT_BUFFER_SIZE: the ring holds InputSize - 1 characters
    Liberties     \* what programs and the console user may do beyond what
                  \* a shell whose commands all start does

AllLiberties == {"exec_fails",        \* execve() of a missing file
                 "exec_again",        \* execve() without a vfork() before it
                 "exit_before_exec",  \* a vfork child exits or crashes first
                 "wait_stranger",     \* waitpid() on somebody else's child
                 "ctrl_z"}            \* ^Z on a raw console

ASSUME ProcessAssumption ==
    /\ MAX_PROCS \in Nat /\ MAX_PROCS >= 2
    /\ MaxPid \in Nat /\ MaxPid >= 2
    /\ InputSize \in Nat /\ InputSize >= 2
    /\ NULL \notin 0..(MAX_PROCS - 1)
    /\ Liberties \subseteq AllLiberties

Slots     == 0..(MAX_PROCS - 1)    \* indexes of all_processes[]
Idle      == 0                     \* the slot of the idle task, proc_first
InitProc  == 1                     \* the slot of init, the first shell
Queues    == {"console", "timer", "waitpid"}
Statuses  == {"SLEEPING", "READY", "EXITED"}
\* Where a process continues: in user mode, in vfork(), in the system call
\* that sleeps on a queue, or nowhere (it spins in wait_queue_add()).
Konts     == Queues \cup {"user", "vfork", "spin"}
Pids      == 0..MaxPid
ANY       == -1                    \* the pid argument "any child"

VARIABLES
    valid, status, pid, parent, image,  \* fields of each PCB
    wqNext,                             \* PCB field wait_queue_next
    kont,                               \* where the process continues
    waiting, asked,                     \* locals proc and pid of waitpid()
    list,                               \* proc_first and its next pointers
    current,                            \* current_proc[0]
    avail_pid,
    first,                              \* head of each wait queue
    avail,                              \* characters in the console ring
    scheduling_enabled

pcbVars == <<valid, pid, parent, image, list, avail_pid>>
vars == <<valid, status, pid, parent, image, wqNext, kont, waiting, asked,
          list, current, avail_pid, first, avail, scheduling_enabled>>

-----------------------------------------------------------------------------
(* The process list and the scheduler                                      *)

InList(s) == \E i \in DOMAIN list : list[i] = s

\* process_remove(): unlink s, or leave the list alone if s is not on it.
Unlinked(ls, s) ==
    IF \E i \in DOMAIN ls : ls[i] = s
    THEN LET i == CHOOSE k \in DOMAIN ls : ls[k] = s
         IN [j \in 1..(Len(ls) - 1) |-> IF j < i THEN ls[j] ELSE ls[j + 1]]
    ELSE ls

\* schedule() starts behind the running process, behind the first real one
\* if that is the idle task, skips the idle task and wraps around; the
\* starting process itself is looked at last.
ScanStart(ls) ==
    IF current = Idle THEN 2 ELSE CHOOSE i \in DOMAIN ls : ls[i] = current

\* Fault: the scan always starts at the head of the list.
Turn_from_head(ls, j) == j

Turn(ls, j) == IF j > ScanStart(ls) THEN j - ScanStart(ls)
                                    ELSE j - ScanStart(ls) + Len(ls)

ReadyAt(ls, st) == {j \in 2..Len(ls) : st[ls[j]] = "READY"}

\* The registers of the one that ran are in its PCB from here on (kont), and
\* those of the other are the processor's.
process_switch(new) == current' = new

\* Fault: with nobody READY the caller keeps the CPU.
Schedule_no_idle(ls, st) ==
    IF ReadyAt(ls, st) = {}
    THEN UNCHANGED current
    ELSE \E j \in ReadyAt(ls, st) :
            /\ \A i \in ReadyAt(ls, st) : Turn(ls, j) <= Turn(ls, i)
            /\ current' = ls[j]

Schedule(ls, st) ==
    IF ReadyAt(ls, st) = {}
    THEN process_switch(ls[1])
    ELSE \E j \in ReadyAt(ls, st) :
            /\ \A i \in ReadyAt(ls, st) : Turn(ls, j) <= Turn(ls, i)
            /\ process_switch(ls[j])

-----------------------------------------------------------------------------
(* Wait queues: a head pointer, linked through the PCBs                    *)

\* The PCBs reached from the head of q: the least set that holds the head
\* and is closed under wait_queue_next.
OnQueue(q) ==
    {s \in Slots :
        \A X \in SUBSET Slots :
            /\ first[q] # NULL => first[q] \in X
            /\ \A x \in X : wqNext[x] # NULL => wqNext[x] \in X
            => s \in X}

Sleep(q) ==
    /\ status' = [status EXCEPT ![current] = "SLEEPING"]
    /\ kont' = [kont EXCEPT ![current] = q]
    /\ Schedule(list, status')

\* wait_queue_add(q, current): walk the chain; stop at the process itself
\* (already there) or link it behind the last one; then sleep.  A chain that
\* runs in a circle and misses the process is walked for ever.
WaitQueueAdd(q) ==
    \/ /\ first[q] = NULL
       /\ first' = [first EXCEPT ![q] = current]
       /\ UNCHANGED wqNext
       /\ Sleep(q)
    \/ /\ current \in OnQueue(q)
       /\ UNCHANGED <<first, wqNext>>
       /\ Sleep(q)
    \/ /\ current \notin OnQueue(q)
       /\ \E last \in OnQueue(q) :
            /\ wqNext[last] = NULL
            /\ wqNext' = [wqNext EXCEPT ![last] = current]
       /\ UNCHANGED first
       /\ Sleep(q)
    \/ /\ first[q] # NULL /\ current \notin OnQueue(q)
       /\ \A last \in OnQueue(q) : wqNext[last] # NULL
       /\ kont' = [kont EXCEPT ![current] = "spin"]
       /\ UNCHANGED <<first, wqNext, status, current>>

\* wait_queue_wake(q): every process of the chain is READY and unlinked.
Woken(q, st) == [s \in Slots |-> IF s \in OnQueue(q) THEN "READY" ELSE st[s]]

\* Fault: the links of the woken processes are left in place.
Unqueue_head_only(q) ==
    /\ first' = [first EXCEPT ![q] = NULL]
    /\ UNCHANGED wqNext

Unqueue(q) ==
    /\ wqNext' = [s \in Slots |-> IF s \in OnQueue(q) THEN NULL ELSE wqNext[s]]
    /\ first' = [first EXCEPT ![q] = NULL]

-----------------------------------------------------------------------------
(* System calls of the running process                                     *)

InUser == kont[current] = "user" /\ current # Idle

\* Fault: process_create() takes the PCB of a zombie.
FreeSlots_zombies == {s \in Slots : ~valid[s] \/ status[s] = "EXITED"}

FreeSlots == {s \in Slots : ~valid[s]}

\* A process is put behind the last one.
process_insert(c) == list' = Append(list, c)

\* The first free PCB is cleared, gets a number, and is on the list.
process_create(c) ==
    /\ c \in FreeSlots /\ \A s \in FreeSlots : c <= s
    /\ valid' = [valid EXCEPT ![c] = TRUE]
    /\ pid' = [pid EXCEPT ![c] = avail_pid]
    /\ avail_pid' = avail_pid + 1
    /\ process_insert(c)

\* Fault: the parent is not put to sleep.
VforkStatus_both_ready(c) == [status EXCEPT ![c] = "READY"]

VforkStatus(c) == [status EXCEPT ![c] = "READY", ![current] = "SLEEPING"]

\* vfork(): the child gets the first free PCB and a copy of the parent's,
\* wait_queue_next included, and starts without stack and text of its own;
\* the parent sleeps on no queue.  With no free PCB the call returns -1 and
\* changes nothing.
vfork ==
    /\ InUser
    /\ avail_pid < MaxPid
    /\ \E c \in FreeSlots :
        /\ process_create(c)
        /\ parent' = [parent EXCEPT ![c] = current]
        /\ image' = [image EXCEPT ![c] = FALSE]
        /\ wqNext' = [wqNext EXCEPT ![c] = wqNext[current]]
        /\ kont' = [kont EXCEPT ![c] = "user", ![current] = "vfork"]
        /\ waiting' = [waiting EXCEPT ![c] = NULL]
        /\ status' = VforkStatus(c)
        /\ Schedule(list', status')
    /\ UNCHANGED <<asked, first, avail, scheduling_enabled>>

\* Fault: nobody wakes the parent.
ParentReady_forgotten == status

ParentReady == [status EXCEPT ![parent[current]] = "READY"]

\* The execve system call: whether or not execve() could load the program,
\* the parent is marked READY and the CPU is given up.
execve(ok) ==
    /\ InUser
    /\ ~ok => "exec_fails" \in Liberties
    /\ image[current] => "exec_again" \in Liberties
    /\ image' = IF ok THEN [image EXCEPT ![current] = TRUE] ELSE image
    /\ status' = ParentReady
    /\ Schedule(list, status')
    /\ UNCHANGED <<valid, pid, parent, wqNext, kont, waiting, asked, list,
                   avail_pid, first, avail, scheduling_enabled>>

\* Fault: the waiters are not woken.
ExitWake_none ==
    /\ status' = [status EXCEPT ![current] = "EXITED"]
    /\ UNCHANGED <<wqNext, first>>

\* The caller becomes a zombie, then waitpid_done() wakes every waiter.
ExitWake ==
    /\ status' = Woken("waitpid", [status EXCEPT ![current] = "EXITED"])
    /\ Unqueue("waitpid")

\* exit(), also entered from the abort handlers: a zombie that keeps its PCB
\* until somebody waits for it.  Were it scheduled again it would return to
\* user mode.
exit ==
    /\ InUser
    /\ ~image[current] => "exit_before_exec" \in Liberties
    /\ ExitWake
    /\ Schedule(list, status')
    /\ UNCHANGED <<pcbVars, kont, waiting, asked, avail, scheduling_enabled>>

\* Fault: the PCB is freed and stays linked.
Destroy_keeps_link(t) ==
    /\ valid' = [valid EXCEPT ![t] = FALSE]
    /\ UNCHANGED <<status, pid, parent, image, wqNext, current, avail_pid,
                   first, list>>

\* process_destroy(t): free the PCB, take it off the list.
Destroy(t) ==
    /\ valid' = [valid EXCEPT ![t] = FALSE]
    /\ list' = Unlinked(list, t)
    /\ UNCHANGED <<status, pid, parent, image, wqNext, current, avail_pid, first>>

\* process_lookup_child(): the first process of the list that names the
\* caller as its parent; init, its own parent, is not its child.
ChildAt(i) == list[i] # current /\ parent[list[i]] = current

process_lookup_child(t) ==
    \E i \in DOMAIN list : /\ list[i] = t /\ ChildAt(i)
                           /\ \A j \in 1..(i - 1) : ~ChildAt(j)

\* The PCB that waitpid(p) settles on (a pid that no process has is a null
\* pointer the code dereferences; programs are not modelled to pass one).
WaitTarget(p, t) ==
    \/ p = ANY /\ process_lookup_child(t)
    \/ /\ p = pid[t] /\ InList(t)
       /\ \/ t # current /\ parent[t] = current
          \/ "wait_stranger" \in Liberties

\* Fault: the status of the process found is not looked at.
waitpid_reap_unchecked(p) ==
    /\ InUser
    /\ \E t \in Slots : WaitTarget(p, t) /\ t # Idle /\ Destroy(t)
    /\ UNCHANGED <<kont, waiting, asked, avail, scheduling_enabled>>

\* waitpid(p) that finds a zombie; the same with and without WNOHANG.
waitpid_reap(p) ==
    /\ InUser
    /\ \E t \in Slots :
        /\ WaitTarget(p, t) /\ status[t] = "EXITED"
        /\ Destroy(t)
    /\ UNCHANGED <<kont, waiting, asked, avail, scheduling_enabled>>

\* waitpid(p) that has to wait (with WNOHANG it returns 0 instead).
waitpid_block(p) ==
    /\ InUser
    /\ \E t \in Slots :
        /\ WaitTarget(p, t) /\ status[t] # "EXITED"
        /\ waiting' = [waiting EXCEPT ![current] = t]
    /\ asked' = [asked EXCEPT ![current] = p]
    /\ WaitQueueAdd("waitpid")
    /\ UNCHANGED <<pcbVars, avail, scheduling_enabled>>

\* Back from the wait queue: test the PCB again.
waitpid_resume ==
    /\ kont[current] = "waitpid"
    /\ \/ /\ status[waiting[current]] = "EXITED"
          /\ Destroy(waiting[current])
          /\ kont' = [kont EXCEPT ![current] = "user"]
          /\ waiting' = [waiting EXCEPT ![current] = NULL]
          /\ asked' = [asked EXCEPT ![current] = ANY]
       \/ /\ status[waiting[current]] # "EXITED"
          /\ WaitQueueAdd("waitpid")
          /\ UNCHANGED <<pcbVars, waiting, asked>>
    /\ UNCHANGED <<avail, scheduling_enabled>>

\* console_read() copies at least one character if there is one.
TakeInput == \E n \in 0..avail : /\ n = 0 <=> avail = 0
                                 /\ avail' = avail - n

console_read ==
    /\ InUser
    /\ \/ /\ avail = 0
          /\ WaitQueueAdd("console")
          /\ UNCHANGED avail
       \/ /\ avail > 0
          /\ TakeInput
          /\ UNCHANGED <<status, wqNext, kont, current, first>>
    /\ UNCHANGED <<pcbVars, waiting, asked, scheduling_enabled>>

\* Back from the queue the reader takes what is there, and does not look
\* whether anything is.
console_resume ==
    /\ kont[current] = "console"
    /\ TakeInput
    /\ kont' = [kont EXCEPT ![current] = "user"]
    /\ UNCHANGED <<pcbVars, status, wqNext, waiting, asked, current, first,
                   scheduling_enabled>>

\* nanosleep() sleeps at least once; back from the queue it returns if its
\* end time has passed and sleeps again if not.
nanosleep ==
    /\ InUser
    /\ WaitQueueAdd("timer")
    /\ UNCHANGED <<pcbVars, waiting, asked, avail, scheduling_enabled>>

nanosleep_resume ==
    /\ kont[current] = "timer"
    /\ \/ WaitQueueAdd("timer")
       \/ /\ kont' = [kont EXCEPT ![current] = "user"]
          /\ UNCHANGED <<status, wqNext, current, first>>
    /\ UNCHANGED <<pcbVars, waiting, asked, avail, scheduling_enabled>>

\* Switched back in after vfork(): the parent returns the child's pid.
vfork_resume ==
    /\ kont[current] = "vfork"
    /\ kont' = [kont EXCEPT ![current] = "user"]
    /\ UNCHANGED <<pcbVars, status, wqNext, waiting, asked, current, first,
                   avail, scheduling_enabled>>

-----------------------------------------------------------------------------
(* Interrupts: taken in user mode and in the idle task only                *)

Interruptible == kont[current] = "user"

\* interrupt_handler_c() on a timer interrupt: wake the timer queue if the
\* wakeup is due, then schedule.
timer_interrupt(due) ==
    /\ Interruptible
    /\ status' = IF due THEN Woken("timer", status) ELSE status
    /\ IF due THEN Unqueue("timer") ELSE UNCHANGED <<wqNext, first>>
    /\ IF scheduling_enabled THEN Schedule(list, status')
                             ELSE UNCHANGED current
    /\ UNCHANGED <<pcbVars, kont, waiting, asked, avail, scheduling_enabled>>

HasRoom == avail < InputSize - 1

\* Fault: the character is stored and nobody is told.
InsertChar_silent ==
    /\ avail' = IF HasRoom THEN avail + 1 ELSE avail
    /\ UNCHANGED <<status, wqNext, first>>

\* console_actual_insert_char(): a character wakes the readers; a full ring
\* drops it and wakes nobody.
InsertChar ==
    \/ /\ HasRoom
       /\ avail' = avail + 1
       /\ status' = Woken("console", status)
       /\ Unqueue("console")
    \/ /\ ~HasRoom
       /\ UNCHANGED <<avail, status, wqNext, first>>

\* A character arrives.  ^Z on a raw console also switches preemption off
\* or on again.
console_insert_char(z) ==
    /\ Interruptible
    /\ z => "ctrl_z" \in Liberties
    /\ InsertChar
    /\ scheduling_enabled' = (scheduling_enabled # z)
    /\ UNCHANGED <<pcbVars, kont, waiting, asked, current>>

\* ^D on an empty line wakes the readers and leaves them nothing to read.
console_eof ==
    /\ Interruptible
    /\ status' = Woken("console", status)
    /\ Unqueue("console")
    /\ UNCHANGED <<pcbVars, kont, waiting, asked, current, avail,
                   scheduling_enabled>>

-----------------------------------------------------------------------------
\* start_userspace() has created the idle task and init and enters init.
Init ==
    /\ valid = [s \in Slots |-> s \in {Idle, InitProc}]
    /\ status = [s \in Slots |-> IF s \in {Idle, InitProc} THEN "READY"
                                                           ELSE "SLEEPING"]
    /\ pid = [s \in Slots |-> IF s = InitProc THEN 1 ELSE 0]
    /\ parent = [s \in Slots |-> IF s = InitProc THEN InitProc ELSE NULL]
    /\ image = [s \in Slots |-> s \in {Idle, InitProc}]
    /\ wqNext = [s \in Slots |-> NULL]
    /\ kont = [s \in Slots |-> "user"]
    /\ waiting = [s \in Slots |-> NULL]
    /\ asked = [s \in Slots |-> ANY]
    /\ list = <<Idle, InitProc>>
    /\ current = InitProc
    /\ avail_pid = 2
    /\ first = [q \in Queues |-> NULL]
    /\ avail = 0
    /\ scheduling_enabled = TRUE

Resume == waitpid_resume \/ console_resume \/ nanosleep_resume \/ vfork_resume

Tick == \E due \in BOOLEAN : timer_interrupt(due)

Next ==
    \/ vfork
    \/ \E ok \in BOOLEAN : execve(ok)
    \/ exit
    \/ \E p \in Pids \cup {ANY} : waitpid_reap(p) \/ waitpid_block(p)
    \/ console_read
    \/ nanosleep
    \/ Resume
    \/ Tick
    \/ \E z \in BOOLEAN : console_insert_char(z)
    \/ console_eof

Spec == Init /\ [][Next]_vars

\* The kernel does not stop inside a system call, and a pending timer
\* interrupt is taken as soon as the CPU leaves the kernel, however often it
\* enters it again.
Fairness == WF_vars(Resume) /\ SF_vars(Tick)

FairSpec == Spec /\ Fairness

-----------------------------------------------------------------------------
(* Properties                                                              *)

TypeOK ==
    /\ valid \in [Slots -> BOOLEAN]
    /\ status \in [Slots -> Statuses]
    /\ pid \in [Slots -> Pids]
    /\ parent \in [Slots -> Slots \cup {NULL}]
    /\ image \in [Slots -> BOOLEAN]
    /\ wqNext \in [Slots -> Slots \cup {NULL}]
    /\ kont \in [Slots -> Konts]
    /\ waiting \in [Slots -> Slots \cup {NULL}]
    /\ asked \in [Slots -> Pids \cup {ANY}]
    /\ list \in Seq(Slots)
    /\ current \in Slots
    /\ avail_pid \in Pids
    /\ first \in [Queues -> Slots \cup {NULL}]
    /\ avail \in 0..(InputSize - 1)
    /\ scheduling_enabled \in BOOLEAN

\* The process list (process_insert, process_remove) holds exactly the PCBs
\* marked valid, each once, the idle task first: schedule() relies on it to
\* come round to where it started.
ListIsValid ==
    /\ Len(list) >= 1 /\ list[1] = Idle
    /\ \A i, j \in DOMAIN list : list[i] = list[j] => i = j
    /\ \A s \in Slots : valid[s] <=> InList(s)

\* Whatever programs do, the running process is on the list and READY: it is
\* neither asleep, nor a zombie, nor a PCB that waitpid() has freed.
CurrentRunnable == InList(current) /\ status[current] = "READY"

\* While a vfork child still runs on its parent's stack (vfork.c: "put
\* parent to sleep") the parent stays asleep in vfork().
StackExclusive ==
    \A c \in Slots :
        valid[c] /\ ~image[c] /\ status[c] # "EXITED"
        => /\ parent[c] # NULL
           /\ status[parent[c]] = "SLEEPING" /\ kont[parent[c]] = "vfork"

\* The chain of each wait queue holds exactly the processes that sleep in the
\* system call it serves: nobody sleeps where no wake-up finds him, and
\* nobody is woken who was not waiting.
QueueExact ==
    \A q \in Queues :
        OnQueue(q) = {s \in Slots : /\ valid[s] /\ kont[s] = q
                                    /\ status[s] = "SLEEPING"}

\* A process inside waitpid() looks at a PCB that is still in use by the
\* process it asked for.
WaitTargetLive ==
    \A s \in Slots :
        valid[s] /\ kont[s] = "waitpid"
        => /\ waiting[s] # NULL /\ valid[waiting[s]]
           /\ asked[s] # ANY => pid[waiting[s]] = asked[s]

\* Life of a PCB: a zombie stays one until it is reaped, only a zombie is
\* reaped, and a process dies only while it runs.
Life(v, st) == IF ~v THEN "free" ELSE st
LifeCycle ==
    [][\A s \in Slots :
         LET was == Life(valid[s], status[s])
             is  == Life(valid'[s], status'[s])
         IN /\ was = "EXITED" => is \in {"EXITED", "free"}
            /\ was \in {"READY", "SLEEPING"} => is # "free"
            /\ was # "EXITED" /\ is = "EXITED" => s = current]_vars

\* Round robin: every READY process gets the CPU, whatever the others do.
NoStarvation ==
    \A s \in Slots \ {Idle} :
        valid[s] /\ status[s] = "READY" ~> current = s

\* waitpid() on a process that has exited returns: the wake-up of exit() is
\* never lost.
ReapedInTheEnd ==
    \A s \in Slots :
        valid[s] /\ kont[s] = "waitpid" /\ waiting[s] # NULL
          /\ status[waiting[s]] = "EXITED"
        ~> kont[s] = "user"

\* vfork() returns in the parent once its child runs a program of its own.
VforkReturns ==
    \A s \in Slots :
        /\ valid[s] /\ kont[s] = "vfork"
        /\ \A c \in Slots \ {s} : valid[c] /\ parent[c] = s => image[c]
        ~> kont[s] = "user"

\* A blocked console reader returns once there is input: the wake-up of
\* console_insert_char() is never lost.
InputDelivered ==
    \A s \in Slots :
        valid[s] /\ kont[s] = "console" /\ avail > 0 ~> kont[s] = "user"

=============================================================================
