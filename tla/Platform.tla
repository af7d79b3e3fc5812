------------------------------- MODULE Platform -------------------------------
(***************************************************************************)
(* What lies under the processes: how the machine is found and started     *)
(* (Hardware, PageTable, Smp, Firmware), memory and the programs in it     *)
(* (Memory, Loader), the clock (Timer) and the log (Dmesg).  The parts     *)
(* share no variable: each run of the platform is a run of one of them, so *)
(* that their state spaces are explored side by side and not multiplied.   *)
(***************************************************************************)
EXTENDS Memory, Dmesg, Timer, Smp, PageTable, Loader, Hardware, Firmware

VARIABLE part

boot_vars == <<smp_vars, pt_vars, cache_vars, text_vars, hw_vars, mailbox_vars, frame_vars>>

platform_vars == <<part, vars, dmesg_vars, timer_vars, loader_vars, boot_vars>>

PlatformInit ==
    /\ part \in {"memory", "dmesg", "timer", "loader",
                "smp", "page_table", "caches", "text", "hardware", "firmware"}
    /\ Init /\ DmesgInit /\ TimerInit /\ LoaderInit
    /\ SmpInit /\ PtInit /\ CacheInit /\ TextInit /\ HwInit /\ FirmwareInit

Memory_step     == part = "memory" /\ Next /\ UNCHANGED <<dmesg_vars, timer_vars, loader_vars, boot_vars>>
Dmesg_step      == part = "dmesg" /\ DmesgNext /\ UNCHANGED <<vars, timer_vars, loader_vars, boot_vars>>
Timer_step      == part = "timer" /\ TimerNext /\ UNCHANGED <<vars, dmesg_vars, loader_vars, boot_vars>>
Loader_step     == part = "loader" /\ LoaderNext /\ UNCHANGED <<vars, dmesg_vars, timer_vars, boot_vars>>

Smp_step        == part = "smp" /\ SmpNext
                     /\ UNCHANGED <<pt_vars, cache_vars, text_vars, hw_vars, mailbox_vars, frame_vars>>
PageTable_step  == part = "page_table" /\ PtNext
                     /\ UNCHANGED <<smp_vars, cache_vars, text_vars, hw_vars, mailbox_vars, frame_vars>>
Cache_step      == part = "caches" /\ CacheNext
                     /\ UNCHANGED <<smp_vars, pt_vars, text_vars, hw_vars, mailbox_vars, frame_vars>>
Text_step       == part = "text" /\ TextNext
                     /\ UNCHANGED <<smp_vars, pt_vars, cache_vars, hw_vars, mailbox_vars, frame_vars>>
Hardware_step   == part = "hardware" /\ HwNext
                     /\ UNCHANGED <<smp_vars, pt_vars, cache_vars, text_vars, mailbox_vars, frame_vars>>
Firmware_step   == part = "firmware" /\ FirmwareNext
                     /\ UNCHANGED <<smp_vars, pt_vars, cache_vars, text_vars, hw_vars>>
Boot_step       == Smp_step \/ PageTable_step \/ Cache_step \/ Text_step \/ Hardware_step \/ Firmware_step

PlatformNext ==
    /\ \/ Memory_step \/ Dmesg_step \/ Timer_step \/ Loader_step
       \/ Boot_step /\ UNCHANGED <<vars, dmesg_vars, timer_vars, loader_vars>>
    /\ UNCHANGED part

PlatformSpec == PlatformInit /\ [][PlatformNext]_platform_vars

-----------------------------------------------------------------------------

\* What the kernel relies on once it has started, each part in its own module:
\* cores that do not share a stack and start when they are told (Smp), the
\* board and the memory that the machine has (Hardware), a map of it, and caches that give
\* up what they hold (PageTable), answers of the firmware to what was asked,
\* and a frame buffer that shows what was drawn (Firmware).
BootRight ==
    /\ part = "smp" => CoresApart
    /\ part = "hardware" => MemoryFound /\ BoardRight
    /\ part = "page_table" => MapRight
    /\ part = "caches" => FlushRight
    /\ part = "text" => FetchRight
    /\ part = "firmware" => MailRight /\ FrameRight

=============================================================================
