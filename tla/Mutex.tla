-------------------------------- MODULE Mutex --------------------------------
(***************************************************************************)
(* mutex_lock() and mutex_unlock() of kernel/lib/locks.armv7.s, one action *)
(* per instruction that touches memory or the event register, around the   *)
(* critical section of console_actual_insert_char().                       *)
(*                                                                         *)
(* The machine is the part of ARMv7 the barriers and the wfe/sev pair are  *)
(* there for:                                                              *)
(*  - ldrex marks the lock word for the core; a store of any core to the   *)
(*    word that reaches memory takes the marks away, and strex stores      *)
(*    only if the core still has its mark;                                 *)
(*  - a store waits in the core's store buffer and may reach memory after  *)
(*    later ones; dmb waits until the buffer is empty;                     *)
(*  - a load may be performed early, while the core still spins for the    *)
(*    lock; a value that was loaded early does not survive a dmb;          *)
(*  - sev sets the event register of every core; wfe waits until the one   *)
(*    of its core is set, and clears it.                                   *)
(***************************************************************************)
EXTENDS Naturals

CONSTANTS
    Core,      \* the cores
    NoCore,    \* nobody
    Empty,     \* no value: an empty store buffer, nothing loaded early
    Size       \* INPUT_BUFFER_SIZE

ASSUME MutexAssumption ==
    /\ NoCore \notin Core
    /\ Size \in Nat /\ Size >= 2
    /\ Empty \notin Nat

VARIABLES
    pc,         \* the next instruction of each core
    lock,       \* the lock word in memory
    head,       \* input_buffer_head in memory
    monitor,    \* does the core hold an exclusive mark on the lock word?
    event,      \* the event register of each core
    unlocking,  \* cores whose store of MUTEX_UNLOCKED is in the store buffer
    buffered,   \* the value of head in each core's store buffer
    early,      \* the value of head each core has loaded early
    reg         \* the value of head the core computes with (new_head)

vars == <<pc, lock, head, monitor, event, unlocking, buffered, early, reg>>

MUTEX_UNLOCKED == 0
MUTEX_LOCKED   == 1

Heads == 0..(Size - 1)

After(h) == IF h + 1 >= Size THEN 0 ELSE h + 1

\* The instructions, in program order.
Trying   == {"ldrex", "wfe", "strex"}
Critical == {"lock_dmb", "load", "store", "unlock_dmb", "str"}
Leaving  == {"str_dmb", "sev"}
PCs      == {"out"} \cup Trying \cup Critical \cup Leaving

Goto(c, l) == pc' = [pc EXCEPT ![c] = l]

-----------------------------------------------------------------------------
(* mutex_lock                                                              *)

call(c) ==
    /\ pc[c] = "out"
    /\ Goto(c, "ldrex")
    /\ UNCHANGED <<lock, head, monitor, event, unlocking, buffered, early, reg>>

\* ldrex r2; cmp; wfeeq: a free lock is tried for, a taken one waited for.
ldrex(c) ==
    /\ pc[c] = "ldrex"
    /\ monitor' = [monitor EXCEPT ![c] = TRUE]
    /\ Goto(c, IF lock = MUTEX_LOCKED THEN "wfe" ELSE "strex")
    /\ UNCHANGED <<lock, head, event, unlocking, buffered, early, reg>>

wfe(c) ==
    /\ pc[c] = "wfe"
    /\ event[c]
    /\ event' = [event EXCEPT ![c] = FALSE]
    /\ Goto(c, "ldrex")
    /\ UNCHANGED <<lock, head, monitor, unlocking, buffered, early, reg>>

\* Fault: a plain store instead of strex.
StrexSucceeds_always(c) == TRUE

StrexSucceeds(c) == monitor[c]

strex(c) ==
    /\ pc[c] = "strex"
    /\ \/ /\ StrexSucceeds(c)
          /\ lock' = MUTEX_LOCKED
          /\ monitor' = [d \in Core |-> FALSE]
          /\ Goto(c, "lock_dmb")
       \/ /\ ~StrexSucceeds(c)
          /\ monitor' = [monitor EXCEPT ![c] = FALSE]
          /\ Goto(c, "ldrex")
          /\ UNCHANGED lock
    /\ UNCHANGED <<head, event, unlocking, buffered, early, reg>>

Drained(c) == c \notin unlocking /\ buffered[c] = Empty

lock_dmb(c) ==
    /\ pc[c] = "lock_dmb"
    /\ Drained(c)
    /\ early' = [early EXCEPT ![c] = Empty]
    /\ Goto(c, "load")
    /\ UNCHANGED <<lock, head, monitor, event, unlocking, buffered, reg>>

-----------------------------------------------------------------------------
(* The critical section: new_head = input_buffer_head + 1, wrapped; store   *)

load(c) ==
    /\ pc[c] = "load"
    /\ reg' = [reg EXCEPT ![c] = After(IF early[c] # Empty THEN early[c]
                                                           ELSE head)]
    /\ early' = [early EXCEPT ![c] = Empty]
    /\ Goto(c, "store")
    /\ UNCHANGED <<lock, head, monitor, event, unlocking, buffered>>

\* The ring may be full: then nothing is stored.
store(c) ==
    /\ pc[c] = "store"
    /\ \/ buffered' = [buffered EXCEPT ![c] = reg[c]]
       \/ UNCHANGED buffered
    /\ Goto(c, "unlock_dmb")
    /\ UNCHANGED <<lock, head, monitor, event, unlocking, early, reg>>

-----------------------------------------------------------------------------
(* mutex_unlock                                                            *)

\* Fault: no barrier before the lock is cleared.
unlock_dmb_missing(c) ==
    /\ pc[c] = "unlock_dmb"
    /\ Goto(c, "str")
    /\ UNCHANGED <<lock, head, monitor, event, unlocking, buffered, early, reg>>

unlock_dmb(c) ==
    /\ pc[c] = "unlock_dmb"
    /\ Drained(c)
    /\ Goto(c, "str")
    /\ UNCHANGED <<lock, head, monitor, event, unlocking, buffered, early, reg>>

str(c) ==
    /\ pc[c] = "str"
    /\ unlocking' = unlocking \cup {c}
    /\ Goto(c, "str_dmb")
    /\ UNCHANGED <<lock, head, monitor, event, buffered, early, reg>>

\* Fault: no barrier between the store and sev.
str_dmb_missing(c) ==
    /\ pc[c] = "str_dmb"
    /\ Goto(c, "sev")
    /\ UNCHANGED <<lock, head, monitor, event, unlocking, buffered, early, reg>>

str_dmb(c) ==
    /\ pc[c] = "str_dmb"
    /\ Drained(c)
    /\ Goto(c, "sev")
    /\ UNCHANGED <<lock, head, monitor, event, unlocking, buffered, early, reg>>

\* Fault: only the own core is told (sevl).
sev_local(c) ==
    /\ pc[c] = "sev"
    /\ event' = [event EXCEPT ![c] = TRUE]
    /\ Goto(c, "out")
    /\ UNCHANGED <<lock, head, monitor, unlocking, buffered, early, reg>>

sev(c) ==
    /\ pc[c] = "sev"
    /\ event' = [d \in Core |-> TRUE]
    /\ Goto(c, "out")
    /\ UNCHANGED <<lock, head, monitor, unlocking, buffered, early, reg>>

-----------------------------------------------------------------------------
(* The memory system                                                       *)

\* A buffered store of the core reaches memory.
drain(c) ==
    \/ /\ c \in unlocking
       /\ unlocking' = unlocking \ {c}
       /\ lock' = MUTEX_UNLOCKED
       /\ monitor' = [d \in Core |-> FALSE]
       /\ UNCHANGED <<pc, head, event, buffered, early, reg>>
    \/ /\ buffered[c] # Empty
       /\ buffered' = [buffered EXCEPT ![c] = Empty]
       /\ head' = buffered[c]
       /\ UNCHANGED <<pc, lock, monitor, event, unlocking, early, reg>>

\* The load of head is performed ahead of the instructions before it.
load_early(c) ==
    /\ pc[c] \in Trying \cup {"lock_dmb"}
    /\ early[c] = Empty
    /\ early' = [early EXCEPT ![c] = head]
    /\ UNCHANGED <<pc, lock, head, monitor, event, unlocking, buffered, reg>>

-----------------------------------------------------------------------------
\* The event registers come up in an unknown state.
Init ==
    /\ pc = [c \in Core |-> "out"]
    /\ lock = MUTEX_UNLOCKED
    /\ head = 0
    /\ monitor = [c \in Core |-> FALSE]
    /\ event \in [Core -> BOOLEAN]
    /\ unlocking = {}
    /\ buffered = [c \in Core |-> Empty]
    /\ early = [c \in Core |-> Empty]
    /\ reg = [c \in Core |-> 0]

\* The instructions a core that has called mutex_lock() goes on to execute.
Step(c) ==
    \/ ldrex(c) \/ wfe(c) \/ strex(c) \/ lock_dmb(c)
    \/ load(c) \/ store(c)
    \/ unlock_dmb(c) \/ str(c) \/ str_dmb(c) \/ sev(c)

Next == \E c \in Core : call(c) \/ Step(c) \/ drain(c) \/ load_early(c)

Spec == Init /\ [][Next]_vars

\* A core keeps executing, and a buffered store does not stay there.
Fairness == \A c \in Core : WF_vars(Step(c)) /\ WF_vars(drain(c))

FairSpec == Spec /\ Fairness

-----------------------------------------------------------------------------
(* Properties                                                              *)

TypeOK ==
    /\ pc \in [Core -> PCs]
    /\ lock \in {MUTEX_UNLOCKED, MUTEX_LOCKED}
    /\ head \in Heads
    /\ monitor \in [Core -> BOOLEAN]
    /\ event \in [Core -> BOOLEAN]
    /\ unlocking \subseteq Core
    /\ buffered \in [Core -> Heads \cup {Empty}]
    /\ early \in [Core -> Heads \cup {Empty}]
    /\ reg \in [Core -> Heads]

\* A core owns the lock from its successful strex until its store of
\* MUTEX_UNLOCKED has reached memory.
Owns(c) == pc[c] \in Critical \/ c \in unlocking

\* Two cores never own the lock at once.
MutualExclusion == \A c, d \in Core : Owns(c) /\ Owns(d) => c = d

\* The owner, and the value of head once every buffered store has reached
\* memory: the state of the abstract lock.
owner == IF \E c \in Core : Owns(c) THEN CHOOSE c \in Core : Owns(c) ELSE NoCore
settled == IF \E c \in Core : buffered[c] # Empty
           THEN buffered[CHOOSE c \in Core : buffered[c] # Empty]
           ELSE head

L == INSTANCE Lock WITH head <- settled

\* mutex_lock() and mutex_unlock() implement a lock, and what its owner
\* stores is what the next owner loads: input_buffer_head only ever moves on
\* by one, whatever the store buffers and early loads do.
ImplementsLock == L!Spec

\* A core that has found the lock taken and waits for an event gets one:
\* either the lock is still to be released, or sev is still to be executed,
\* or the event is there already.
NoLostWakeup ==
    \A c \in Core :
        pc[c] = "wfe" /\ ~event[c]
        => \E d \in Core : Owns(d) \/ pc[d] \in Leaving

\* What makes the above inductive.  The lock word says whether somebody owns
\* the lock; a core that still has its mark at strex has seen the lock free
\* and it is; buffered stores belong to the instruction that waits for them;
\* in the critical section nothing loaded early is left and head is current.
LockWord  == lock = MUTEX_LOCKED <=> \E c \in Core : Owns(c)
MarkFresh == \A c \in Core : pc[c] = "strex" /\ monitor[c] => lock = MUTEX_UNLOCKED
Buffers   == \A c \in Core : /\ buffered[c] # Empty => pc[c] = "unlock_dmb"
                             /\ c \in unlocking => pc[c] = "str_dmb"
HeadFresh == \A c \in Core : /\ pc[c] = "load" => early[c] = Empty
                             /\ pc[c] = "store" => reg[c] = After(head)

Inv == /\ TypeOK /\ MutualExclusion /\ LockWord /\ MarkFresh
       /\ Buffers /\ HeadFresh /\ NoLostWakeup

\* No core sleeps for ever in wfe.
WokenInTheEnd == \A c \in Core : pc[c] = "wfe" ~> pc[c] # "wfe"

\* While cores try for the lock, one of them gets it (which one is left to
\* the hardware; a single core may lose every time).
SomebodyGetsIt ==
    (\E c \in Core : pc[c] \in Trying) ~> (\E c \in Core : pc[c] \in Critical)

=============================================================================
