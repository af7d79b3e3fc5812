-------------------------------- MODULE Timer --------------------------------
(***************************************************************************)
(* Time: the timer interrupt (kernel/drivers/timer/sp804_timer.c), the     *)
(* one wake-up it keeps for all sleepers, and nanosleep()                  *)
(* (kernel/syscalls/nanosleep.c).  tick_counter, a uint32_t, wraps         *)
(* around; timer_next_wakeup is 0 when nobody waits.                       *)
(*                                                                         *)
(* Process has the same queue without the time; here processes other than  *)
(* the sleepers, and the order in which the scheduler runs those that were *)
(* woken, are left open, up to MaxDelay ticks.                             *)
(***************************************************************************)
EXTENDS Integers, FiniteSets

CONSTANTS
    Sleepers,     \* processes that call nanosleep
    TICK_VALUES,        \* values of a uint32_t
    Asked,        \* the intervals asked for, in ticks
    MaxDelay,     \* bound: ticks until a READY process runs
    SleepAtZero   \* may a program ask for less than a tick at tick 0?

ASSUME TimerAssumption ==
    /\ TICK_VALUES \in Nat \ {0} /\ MaxDelay \in Nat
    /\ Asked \subseteq 0..(TICK_VALUES - 1)
    /\ SleepAtZero \in BOOLEAN

VARIABLES
    tick_counter, timer_next_wakeup,
    asleep,       \* the processes in timer_wait_queue
    woken,        \* those that were woken and are back in nanosleep soon
    end_time,     \* nanosleep's local variable
    left,         \* history: ticks that still have to pass
    edge,         \* history: the interval touches the wrap-around
    late          \* history: ticks since a process was woken

timer_vars == <<tick_counter, timer_next_wakeup, asleep, woken, end_time,
                left, edge, late>>

Ticks == 0..(TICK_VALUES - 1)

-----------------------------------------------------------------------------
\* Fault: the latest sleeper decides, also when another one is due earlier.
Earliest_latest(time) == time

\* timer_sleep_until() keeps the earlier of two wake-ups; 0 is none.
Earliest(time) ==
    IF timer_next_wakeup = 0 \/ time < timer_next_wakeup
    THEN time ELSE timer_next_wakeup

\* The condition of nanosleep()'s loop.
Sleeping(time) == tick_counter <= time

timer_sleep_until(p, time) ==
    /\ timer_next_wakeup' = Earliest(time)
    /\ asleep' = asleep \union {p}

\* The call: the loop is not entered when the sum has wrapped around.  At tick
\* 0, boot or the moment of the wrap-around, an end time of 0 is taken for "no
\* wake-up" and clears the one of others too: SleepAtZero lets it happen.
nanosleep(p) ==
    /\ p \notin asleep \union woken
    /\ \E n \in Asked :
         LET time == (tick_counter + n) % TICK_VALUES IN
         /\ SleepAtZero \/ tick_counter + n # 0
         /\ end_time' = [end_time EXCEPT ![p] = time]
         /\ left' = [left EXCEPT ![p] = n + 1]
         /\ edge' = [edge EXCEPT ![p] =
                       tick_counter + n + 1 + MaxDelay >= TICK_VALUES]
         /\ IF Sleeping(time)
            THEN timer_sleep_until(p, time)
            ELSE UNCHANGED <<timer_next_wakeup, asleep>>
    /\ UNCHANGED <<tick_counter, woken, late>>

\* Back from schedule(): the condition of the loop again.
nanosleep_resume(p) ==
    /\ p \in woken
    /\ woken' = woken \ {p}
    /\ late' = [late EXCEPT ![p] = 0]
    /\ IF Sleeping(end_time[p])
       THEN timer_sleep_until(p, end_time[p])
       ELSE UNCHANGED <<timer_next_wakeup, asleep>>
    /\ UNCHANGED <<tick_counter, end_time, left, edge>>

Due(tick) == timer_next_wakeup # 0 /\ tick > timer_next_wakeup

\* wait_queue_wake() wakes all of them.
timer_interrupt_handler ==
    LET tick == (tick_counter + 1) % TICK_VALUES IN
    /\ \A p \in woken : late[p] < MaxDelay
    /\ tick_counter' = tick
    /\ IF Due(tick)
       THEN /\ timer_next_wakeup' = 0
            /\ woken' = woken \union asleep
            /\ asleep' = {}
       ELSE UNCHANGED <<timer_next_wakeup, woken, asleep>>
    /\ left' = [p \in Sleepers |-> IF left[p] > 0 THEN left[p] - 1 ELSE 0]
    /\ late' = [p \in Sleepers |-> IF p \in woken THEN late[p] + 1 ELSE 0]
    /\ UNCHANGED <<end_time, edge>>

TimerInit ==
    /\ tick_counter = 0
    /\ timer_next_wakeup = 0
    /\ asleep = {} /\ woken = {}
    /\ end_time = [p \in Sleepers |-> 0]
    /\ left = [p \in Sleepers |-> 0]
    /\ edge = [p \in Sleepers |-> FALSE]
    /\ late = [p \in Sleepers |-> 0]

TimerNext ==
    \/ timer_interrupt_handler
    \/ \E p \in Sleepers : nanosleep(p) \/ nanosleep_resume(p)

TimerSpec == TimerInit /\ [][TimerNext]_timer_vars

-----------------------------------------------------------------------------
(* Properties                                                              *)

\* A sleeper whose interval does not touch the wrap-around is never
\* forgotten: a wake-up is set that is not later than its own, and its own
\* has not passed; also when others sleep across the wrap-around.
WakeupKept ==
    \A p \in asleep : ~edge[p] =>
        /\ timer_next_wakeup \in 1..end_time[p]
        /\ tick_counter <= end_time[p]

\* sp804_timer.c and nanosleep.c together: sleepers are woken, all of them, at
\* their time, whatever the others sleep for, and nanosleep() returns only
\* when more ticks have passed than were asked for.
SleepersKept ==
    [][/\ WakeupKept /\ WakeupKept'
       /\ \A p \in Sleepers :
            p \in woken /\ p \notin woken' \union asleep' /\ ~edge[p] => left[p] = 0]_timer_vars

=============================================================================
