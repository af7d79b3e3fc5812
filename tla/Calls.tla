--------------------------------- MODULE Calls ---------------------------------
(***************************************************************************)
(* System calls from the C function a program calls                        *)
(* (userspace/vlibc/syscalls.arm.c, vmwos.c) over the registers and        *)
(* swi_handler to the dispatcher (kernel/syscalls/syscalls.c) and back,    *)
(* with interrupts of the processes that are in user mode and handlers     *)
(* that sleep.                                                             *)
(*                                                                         *)
(* A register holds a word: the name of an argument, of a result, or of    *)
(* the process whose value it is.  What the handlers do is in the modules  *)
(* of their components; here they take arguments and have a result.  r4    *)
(* and r7 are read in C by name; the build leaves them alone until then.   *)
(***************************************************************************)
EXTENDS Integers, Sequences, TLC

CONSTANTS
    Callers,       \* processes, strings
    MaxCalls       \* bound: calls

ASSUME CallsAssumption == MaxCalls \in Nat

VARIABLES
    caller,        \* current_proc[0]
    cpu,           \* the registers
    saved,         \* user_state.r[] of each process
    doing,         \* "user", "called", "kernel", "asleep", "answered", "gone"
    frame,         \* handler and arguments of a process in the kernel
    function,      \* history: the function it called
    held,          \* history: its registers at the call
    result,        \* history: its handler's result
    made           \* history: how many calls

calls_vars == <<caller, cpu, saved, doing, frame, function, held, result, made>>

Registers == <<"r0", "r1", "r2", "r3", "r4", "r5">>
Names     == {"r7"} \union {Registers[i] : i \in DOMAIN Registers}

-----------------------------------------------------------------------------
(* What the functions promise: a handler, its arguments, and whether       *)
(* errors become -1 and errno.  A 64-bit argument is a pair, high first.   *)
(* The mode of open() and the parameter of fcntl() are 0 where the caller  *)
(* has given none; handler "none" is a call the kernel does not do.        *)

Call(nr, handler, args, answer) ==
    [nr |-> ToString(nr), handler |-> handler, answer |-> answer,
     args |-> args]

Single(name) == <<name>>
Long(high, low) == <<high, low>>

FileCalls ==
    [read      |-> Call(3, "read_syscall", <<Single("fd"), Single("buf"), Single("count")>>, "errno"),
     write     |-> Call(4, "write_syscall", <<Single("fd"), Single("buf"), Single("size")>>, "errno"),
     open      |-> Call(5, "open_syscall", <<Single("filename"), Single("flags"), Single("mode")>>, "errno"),
     close     |-> Call(6, "close_syscall", <<Single("fd")>>, "errno"),
     unlink    |-> Call(10, "unlink_syscall", <<Single("filename")>>, "errno"),
     chdir     |-> Call(12, "chdir_syscall", <<Single("path")>>, "errno"),
     chmod     |-> Call(15, "chmod_syscall", <<Single("path"), Single("mode")>>, "errno"),
     dup2      |-> Call(63, "dup2_syscall", <<Single("oldfd"), Single("newfd")>>, "errno"),
     stat      |-> Call(106, "stat_syscall", <<Single("pathname"), Single("buf")>>, "as_is"),
     statfs    |-> Call(99, "statfs_syscall", <<Single("path"), Single("buf")>>, "as_is"),
     getdents  |-> Call(141, "getdents_syscall", <<Single("fd"), Single("dirp"), Single("count")>>, "as_is"),
     getcwd    |-> Call(183, "getcwd_syscall", <<Single("buf"), Single("size")>>, "as_is"),
     ioctl     |-> Call(54, "ioctl_syscall", <<Single("fd"), Single("request"), Single("req2"), Single("req3")>>, "as_is"),
     fcntl     |-> Call(55, "fcntl_syscall", <<Single("fd"), Single("cmd"), Single("paramater")>>, "zero"),
     lseek     |-> Call(140, "llseek_syscall",
                        <<Single("fd"), Long("offset_high", "offset_low"), Single("whence")>>, "offset"),
     truncate  |-> Call(193, "truncate64_syscall",
                        <<Single("path"), Long("length_high", "length_low")>>, "errno"),
     ftruncate |-> Call(194, "ftruncate64_syscall",
                        <<Single("fd"), Long("length_high", "length_low")>>, "errno")]

ProcessCalls ==
    [exit      |-> Call(1, "exit", <<Single("status")>>, "errno"),
     waitpid   |-> Call(7, "waitpid", <<Single("pid"), Single("wstatus"), Single("options")>>, "as_is"),
     execve    |-> Call(11, "execve", <<Single("filename"), Single("argv"), Single("envp")>>, "errno"),
     sys_time  |-> Call(13, "time_since_boot", <<>>, "as_is"),
     getpid    |-> Call(20, "pid", <<>>, "as_is"),
     times     |-> Call(43, "times", <<Single("buf")>>, "errno"),
     brk       |-> Call(45, "none", <<>>, "as_is"),
     mmap      |-> Call(90, "none", <<>>, "as_is"),
     munmap    |-> Call(91, "none", <<>>, "as_is"),
     dmesg     |-> Call(103, "dmesg_syscall", <<Single("cmd"), Single("buf")>>, "errno"),
     sysinfo   |-> Call(116, "sysinfo", <<Single("buf")>>, "as_is"),
     uname     |-> Call(122, "uname", <<Single("buf")>>, "as_is"),
     nanosleep |-> Call(162, "nanosleep", <<Single("req"), Single("rem")>>, "as_is"),
     vfork     |-> Call(190, "vfork", <<>>, "as_is"),
     clock_gettime |-> Call(263, "clock_gettime", <<Single("clk_id"), Single("t")>>, "as_is"),
     getcpu    |-> Call(345, "getcpu", <<Single("cpu"), Single("node"), Single("tcache")>>, "as_is")]

VmwosCalls ==
    [blink      |-> Call(8192, "blinking_enabled", <<Single("value")>>, "as_is"),
     setfont    |-> Call(8193, "framebuffer_console_setfont", <<Single("which")>>, "as_is"),
     gradient   |-> Call(8194, "framebuffer_gradient", <<Single("type")>>, "as_is"),
     tb1        |-> Call(8195, "none", <<>>, "as_is"),
     get_temp   |-> Call(8198, "thermal_read", <<>>, "as_is"),
     random     |-> Call(8199, "bcm2835_rng_read", <<Single("buffer")>>, "as_is"),
     load       |-> Call(8200, "framebuffer_load", <<Single("x"), Single("y"), Single("depth"), Single("fb")>>, "as_is"),
     malloc     |-> Call(8201, "memory_allocate", <<Single("size")>>, "as_is"),
     core_poke  |-> Call(8202, "send_ipi", <<Single("which")>>, "as_is"),
     play_sound |-> Call(8203, "audio_pwm_write", <<Single("buffer"), Single("length"), Single("repeat")>>, "as_is")]

Library == FileCalls @@ ProcessCalls @@ VmwosCalls

-----------------------------------------------------------------------------
(* Both sides of the interface                                             *)

\* The words a function leaves in r0, r1, ...: 64-bit lengths begin in an even
\* register, lseek64() has the place for its result between its arguments.
Passed(f) ==
    CASE f = "lseek" -> <<"fd", "offset_high", "offset_low", "result", "whence">>
      [] f \in {"truncate", "ftruncate"} ->
            <<Library[f].args[1][1], "0", "length_low", "length_high">>
      [] f = "brk"    -> <<"address">>
      [] f = "mmap"   -> <<"addr", "length", "prot", "flags", "fd", "offset">>
      [] f = "munmap" -> <<"addr", "length">>
      [] OTHER -> [i \in DOMAIN Library[f].args |-> Library[f].args[i][1]]

LengthRegisters == <<"r3", "r2">>

First(n) == [i \in 1..n |-> <<Registers[i]>>]

\* The cases of the switch over r7: the handler, and what it gets.
Entry(nr, handler, registers) ==
    ToString(nr) :> [handler |-> handler, registers |-> registers]

Switch ==
    Entry(1, "exit", First(1)) @@ Entry(3, "read_syscall", First(3))
    @@ Entry(4, "write_syscall", First(3)) @@ Entry(5, "open_syscall", First(3))
    @@ Entry(6, "close_syscall", First(1)) @@ Entry(7, "waitpid", First(3))
    @@ Entry(10, "unlink_syscall", First(1)) @@ Entry(11, "execve", First(3))
    @@ Entry(12, "chdir_syscall", First(1)) @@ Entry(13, "time_since_boot", <<>>)
    @@ Entry(15, "chmod_syscall", First(2)) @@ Entry(20, "pid", <<>>)
    @@ Entry(43, "times", First(1)) @@ Entry(54, "ioctl_syscall", First(4))
    @@ Entry(55, "fcntl_syscall", First(3)) @@ Entry(63, "dup2_syscall", First(2))
    @@ Entry(99, "statfs_syscall", First(2)) @@ Entry(103, "dmesg_syscall", First(2))
    @@ Entry(106, "stat_syscall", First(2)) @@ Entry(116, "sysinfo", First(1))
    @@ Entry(122, "uname", First(1))
    @@ Entry(140, "llseek_syscall", <<<<"r0">>, <<"r1", "r2">>, <<"r4">>>>)
    @@ Entry(141, "getdents_syscall", First(3)) @@ Entry(162, "nanosleep", First(2))
    @@ Entry(183, "getcwd_syscall", First(2)) @@ Entry(190, "vfork", <<>>)
    @@ Entry(193, "truncate64_syscall", <<<<"r0">>, LengthRegisters>>)
    @@ Entry(194, "ftruncate64_syscall", <<<<"r0">>, LengthRegisters>>)
    @@ Entry(263, "clock_gettime", First(2)) @@ Entry(345, "getcpu", First(3))
    @@ Entry(8192, "blinking_enabled", First(1))
    @@ Entry(8193, "framebuffer_console_setfont", First(1))
    @@ Entry(8194, "framebuffer_gradient", First(1)) @@ Entry(8198, "thermal_read", <<>>)
    @@ Entry(8199, "bcm2835_rng_read", First(1)) @@ Entry(8200, "framebuffer_load", First(4))
    @@ Entry(8201, "memory_allocate", First(1)) @@ Entry(8202, "send_ipi", First(1))
    @@ Entry(8203, "audio_pwm_write", First(3))

NoHandler == [handler |-> "none", registers |-> <<>>]

\* Handlers in which another process may run.
Sleepy == {"read_syscall", "waitpid", "nanosleep", "vfork", "execve"}

\* No case assigns a result to these.
Unanswered == {"none", "blinking_enabled", "framebuffer_console_setfont"}

Results(handler) == IF handler \in Unanswered THEN {"-ENOSYS"} ELSE {"value", "-ENOENT"}

-----------------------------------------------------------------------------
(* Actions                                                                 *)

library_call(f) ==
    /\ doing[caller] = "user" /\ made < MaxCalls
    /\ cpu' = [r \in Names |->
                 IF r = "r7" THEN Library[f].nr
                 ELSE IF \E i \in DOMAIN Passed(f) : Registers[i] = r
                 THEN Passed(f)[CHOOSE i \in DOMAIN Passed(f) : Registers[i] = r]
                 ELSE cpu[r]]
    /\ doing' = [doing EXCEPT ![caller] = "called"]
    /\ function' = [function EXCEPT ![caller] = f]
    /\ held' = [held EXCEPT ![caller] = cpu']
    /\ made' = made + 1
    /\ UNCHANGED <<caller, saved, frame, result>>

swi_handler ==
    /\ doing[caller] = "called"
    /\ saved' = [saved EXCEPT ![caller] = cpu]
    /\ LET case == IF cpu["r7"] \in DOMAIN Switch THEN Switch[cpu["r7"]] ELSE NoHandler
       IN frame' = [frame EXCEPT ![caller] =
                       [handler |-> case.handler,
                        args |-> [i \in DOMAIN case.registers |->
                                    [j \in DOMAIN case.registers[i] |->
                                        cpu[case.registers[i][j]]]]]]
    /\ doing' = [doing EXCEPT ![caller] = "kernel"]
    /\ UNCHANGED <<caller, cpu, function, held, result, made>>

\* The process p goes on: in the kernel, or with its registers.
Continue(p) ==
    /\ caller' = p
    /\ cpu' = IF doing'[p] = "kernel" THEN cpu ELSE saved'[p]

\* In user mode: interrupt_handler saves what swi_handler saves.
interrupt(p) ==
    /\ doing[caller] \in {"user", "called", "answered"}
    /\ p # caller /\ doing[p] # "gone"
    /\ saved' = [saved EXCEPT ![caller] = cpu]
    /\ doing' = [doing EXCEPT ![p] = IF @ = "asleep" THEN "kernel" ELSE @]
    /\ Continue(p)
    /\ UNCHANGED <<frame, function, held, result, made>>

\* schedule() inside a handler.
sleep(p) ==
    /\ doing[caller] = "kernel" /\ frame[caller].handler \in Sleepy
    /\ p # caller /\ doing[p] # "gone"
    /\ doing' = [doing EXCEPT ![caller] = "asleep",
                              ![p] = IF @ = "asleep" THEN "kernel" ELSE @]
    /\ UNCHANGED saved
    /\ Continue(p)
    /\ UNCHANGED <<frame, function, held, result, made>>

exit(p) ==
    /\ doing[caller] = "kernel" /\ frame[caller].handler = "exit"
    /\ p # caller /\ doing[p] # "gone"
    /\ doing' = [doing EXCEPT ![caller] = "gone", ![p] = IF @ = "asleep" THEN "kernel" ELSE @]
    /\ UNCHANGED saved
    /\ Continue(p)
    /\ UNCHANGED <<frame, function, held, result, made>>

\* The handler is done: its result is put where r0 was saved.
swi_return ==
    /\ doing[caller] = "kernel" /\ frame[caller].handler # "exit"
    /\ \E r \in Results(frame[caller].handler) :
         \* llseek: the result is stored through r3, r0 is 0: also for errors,
         \* as result64 is unsigned.
         LET r0 == IF frame[caller].handler = "llseek_syscall" THEN "0" ELSE r
         IN /\ saved' = [saved EXCEPT ![caller]["r0"] = r0]
            /\ result' = [result EXCEPT ![caller] = r]
    /\ cpu' = saved'[caller]
    /\ doing' = [doing EXCEPT ![caller] = "answered"]
    /\ UNCHANGED <<caller, frame, function, held, made>>

\* What the function returns, and errno: update_errno() or not.
Answer(f, r0, stored) ==
    CASE Library[f].answer = "zero"   -> <<"0", "0">>
      [] Library[f].answer = "offset" -> <<IF r0 \in {"-ENOENT", "-ENOSYS"} THEN r0 ELSE stored, "0">>
      [] Library[f].answer = "errno" /\ r0 \in {"-ENOENT", "-ENOSYS"} -> <<"-1", r0>>
      [] OTHER -> <<r0, "0">>

library_return ==
    /\ doing[caller] = "answered"
    /\ doing' = [doing EXCEPT ![caller] = "user"]
    /\ cpu' = [cpu EXCEPT !["r0"] = Answer(function[caller], cpu["r0"], result[caller])[1]]
    /\ UNCHANGED <<caller, saved, frame, function, held, result, made>>

First_caller == CHOOSE p \in Callers : TRUE

CallsInit ==
    /\ caller = First_caller
    /\ cpu = [r \in Names |-> First_caller]
    /\ saved = [p \in Callers |-> [r \in Names |-> p]]
    /\ doing = [p \in Callers |-> "user"]
    /\ frame = [p \in Callers |-> [handler |-> "none", args |-> <<>>]]
    /\ function = [p \in Callers |-> "exit"]
    /\ held = saved
    /\ result = [p \in Callers |-> "0"] /\ made = 0

CallsNext ==
    \/ \E f \in DOMAIN Library : library_call(f)
    \/ swi_handler
    \/ \E p \in Callers : interrupt(p) \/ sleep(p) \/ exit(p)
    \/ swi_return
    \/ library_return

CallsSpec == CallsInit /\ [][CallsNext]_calls_vars

-----------------------------------------------------------------------------
(* Properties                                                              *)

\* syscalls.h, syscalls.arm.c: the handler behind a function gets the
\* function's arguments, each in its place, 64-bit ones whole; a call the
\* kernel does not have reaches none.
ArgumentsArrive ==
    \A p \in Callers :
        doing[p] \in {"kernel", "asleep"} =>
            /\ frame[p].handler = Library[function[p]].handler
            /\ frame[p].args = Library[function[p]].args

\* swi_handler, irq_handler: whoever runs in between, a process gets its own
\* result and finds its other registers as they were.
RegistersKept ==
    \A p \in Callers :
        doing[p] = "answered" =>
            LET now == IF p = caller THEN cpu ELSE saved[p]
            IN /\ \A r \in Names \ {"r0"} : now[r] = held[p][r]
               /\ now["r0"] = result[p] \/ function[p] = "lseek"

\* Together: a system call is a call.
CallsRight == ArgumentsArrive /\ RegistersKept

=============================================================================
