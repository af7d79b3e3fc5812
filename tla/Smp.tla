--------------------------------- MODULE Smp ---------------------------------
(***************************************************************************)
(* Start of the other cores: smp_boot() on core 0 (boot/smp_boot.c), the   *)
(* assembly each other core runs first (boot/start_smp-armv7.s) and        *)
(* secondary_boot_c(), up to the loop in which they stay.  Until           *)
(* console_enable_locking() nothing but the order of these steps keeps     *)
(* two cores out of printk().                                              *)
(*                                                                         *)
(* The firmware's loop that parks the cores and the coherence of the       *)
(* caches are not code of this repository: a parked core leaves its loop   *)
(* after sev when its mailbox is written, and a core with its data cache   *)
(* off writes to memory behind the back of core 0's cache, which keeps the *)
(* line it spins on.                                                       *)
(***************************************************************************)
EXTENDS Integers

CONSTANT NUM_CORES

ASSUME SmpAssumption == NUM_CORES \in Nat \ {0}

VARIABLES
    boot_at,       \* where smp_boot() is
    starting,      \* i, the core it starts
    mailbox,       \* cores whose mailbox holds start_core
    sent,          \* sev since the mailbox was written
    core_at,       \* where each other core is
    core_booted,   \* the array in memory
    cached,        \* core 0's cached copy of it
    locking,       \* console_use_locking
    gave_up        \* history: cores that core 0 did not wait for

smp_vars == <<boot_at, starting, mailbox, sent, core_at, core_booted, cached,
              locking, gave_up>>

Others == 1..(NUM_CORES - 1)
Cores  == 0..(NUM_CORES - 1)

-----------------------------------------------------------------------------
(* Stacks: the page below the initial stack pointer of each mode.          *)

Modes == {"svc", "irq", "fiq", "abt", "und"}

\* boot-armv7.s, in pages of 4 kB.
BootStack == [svc |-> 7, irq |-> 3, fiq |-> 2, abt |-> 1, und |-> 1]

\* start_smp-armv7.s: (8-core)<<12, (0x1000-core)<<12 and so on.
StartStack(core) ==
    [svc |-> 8 - core - 1, irq |-> 4096 - core - 1, fiq |-> 4092 - core - 1,
     abt |-> 4088 - core - 1, und |-> 4088 - core - 1]

Stack(core) == IF core = 0 THEN BootStack ELSE StartStack(core)

-----------------------------------------------------------------------------
(* Core 0                                                                  *)

\* smp_boot(): the loop body up to the wait, with its two messages.
smp_boot_announce ==
    /\ boot_at = "next" /\ starting < NUM_CORES
    /\ boot_at' = "print"
    /\ UNCHANGED <<starting, mailbox, sent, core_at, core_booted, cached, locking, gave_up>>

smp_boot_mailbox ==
    /\ boot_at = "print"
    /\ mailbox' = mailbox \union {starting}
    /\ boot_at' = "print_waiting"
    /\ UNCHANGED <<starting, sent, core_at, core_booted, cached, locking, gave_up>>

smp_boot_sev ==
    /\ boot_at = "print_waiting"
    /\ sent' = sent \union mailbox
    /\ boot_at' = "wait"
    /\ UNCHANGED <<starting, mailbox, core_at, core_booted, cached, locking, gave_up>>

\* The wait: until the core has set its flag, or a billion times.
smp_boot_started ==
    /\ boot_at = "wait"
    /\ cached[starting] = 1
    /\ boot_at' = "next"
    /\ starting' = starting + 1
    /\ UNCHANGED <<mailbox, sent, core_at, core_booted, cached, locking, gave_up>>

smp_boot_timed_out ==
    /\ boot_at = "wait"
    /\ cached[starting] = 0
    /\ boot_at' = "print_timeout"
    /\ gave_up' = gave_up \union {starting}
    /\ UNCHANGED <<starting, mailbox, sent, core_at, core_booted, cached, locking>>

smp_boot_give_up ==
    /\ boot_at = "print_timeout"
    /\ boot_at' = "next"
    /\ starting' = starting + 1
    /\ UNCHANGED <<mailbox, sent, core_at, core_booted, cached, locking, gave_up>>

\* The report, ipi_enable(), and console_enable_locking() in kernel_main().
smp_boot_report ==
    /\ boot_at = "next" /\ starting = NUM_CORES
    /\ boot_at' = "print_done"
    /\ UNCHANGED <<starting, mailbox, sent, core_at, core_booted, cached, locking, gave_up>>

smp_boot_end ==
    /\ boot_at = "print_done"
    /\ boot_at' = "running"
    /\ locking' = TRUE
    /\ UNCHANGED <<starting, mailbox, sent, core_at, core_booted, cached, gave_up>>

-----------------------------------------------------------------------------
(* The other cores                                                         *)

\* start_core: leave HYP mode, set the stacks of all modes.
start_core(c) ==
    /\ core_at[c] = "parked"
    /\ c \in mailbox /\ c \in sent
    /\ core_at' = [core_at EXCEPT ![c] = "started"]
    /\ UNCHANGED <<boot_at, starting, mailbox, sent, core_booted, cached, locking, gave_up>>

\* enable_mmu(0): the page table of core 0, and the caches.
enable_mmu(c) ==
    /\ core_at[c] = "started"
    /\ core_at' = [core_at EXCEPT ![c] = "print_mmu"]
    /\ UNCHANGED <<boot_at, starting, mailbox, sent, core_booted, cached, locking, gave_up>>

CacheOn(c) == core_at[c] \in {"print_mmu", "mark"}

printed(c) ==
    /\ core_at[c] = "print_mmu"
    /\ core_at' = [core_at EXCEPT ![c] = "mark"]
    /\ UNCHANGED <<boot_at, starting, mailbox, sent, core_booted, cached, locking, gave_up>>

\* Fault: the flag is set first thing in secondary_boot_c().
Marks_first(c) == core_at[c] = "started"

Marks(c) == core_at[c] = "mark"

\* core_booted[core]=1, then wfi for ever.
mark_booted(c) ==
    /\ Marks(c)
    /\ core_booted' = [core_booted EXCEPT ![c] = 1]
    /\ cached' = IF CacheOn(c) THEN core_booted' ELSE cached
    /\ core_at' = [core_at EXCEPT ![c] = "wfi"]
    /\ UNCHANGED <<boot_at, starting, mailbox, sent, locking, gave_up>>

SmpInit ==
    /\ boot_at = "next"
    /\ starting = 1
    /\ mailbox = {} /\ sent = {}
    /\ core_at = [c \in Others |-> "parked"]
    /\ core_booted = [c \in Cores |-> 0]
    /\ cached = [c \in Cores |-> 0]
    /\ locking = FALSE
    /\ gave_up = {}

smp_boot ==
    \/ smp_boot_announce \/ smp_boot_mailbox \/ smp_boot_sev
    \/ smp_boot_started \/ smp_boot_timed_out \/ smp_boot_give_up
    \/ smp_boot_report \/ smp_boot_end

secondary_boot(c) == start_core(c) \/ enable_mmu(c) \/ printed(c) \/ mark_booted(c)

SmpNext == smp_boot \/ \E c \in Others : secondary_boot(c)

SmpSpec == SmpInit /\ [][SmpNext]_smp_vars

-----------------------------------------------------------------------------
(* Properties                                                              *)

Prints(c) ==
    IF c = 0
    THEN boot_at \in {"print", "print_waiting", "print_timeout", "print_done"}
    ELSE core_at[c] = "print_mmu"

Runs(c) == c = 0 \/ core_at[c] # "parked"

\* The cores come up one after the other: while the console has no lock yet
\* two cores are not in printk() together (smp_boot.c waits for the flag that
\* secondary_boot_c() sets after its message) unless core 0 has given one up;
\* core 0's cache sees the flag; and cores that run do not share a stack,
\* though the abort and undefined handlers of one core do.
CoresApart ==
    /\ ~locking /\ gave_up = {} => \A c, d \in Cores : Prints(c) /\ Prints(d) => c = d
    /\ cached = core_booted
    /\ \A c, d \in Cores : \A m, n \in Modes :
         Runs(c) /\ Runs(d) /\ Stack(c)[m] = Stack(d)[n] =>
           c = d /\ (m = n \/ {m, n} = {"abt", "und"})

=============================================================================
