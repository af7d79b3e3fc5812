-------------------------------- MODULE Dmesg --------------------------------
(***************************************************************************)
(* The kernel log, kernel/lib/dmesg.c: printk() appends to a ring buffer,  *)
(* the dmesg system call reads all of it.  A byte of the log is its serial *)
(* number; written counts the bytes appended since boot.                   *)
(***************************************************************************)
EXTENDS Integers, Sequences

CONSTANTS
    DMESG_SIZE,
    MaxWritten    \* bound: the log stops here

ASSUME DmesgAssumption ==
    /\ DMESG_SIZE \in Nat /\ DMESG_SIZE >= 2
    /\ MaxWritten \in Nat

VARIABLES dmesg_buffer, dmesg_head, dmesg_tail, written

dmesg_vars == <<dmesg_buffer, dmesg_head, dmesg_tail, written>>

DmesgPlaces == 0..(DMESG_SIZE - 1)

-----------------------------------------------------------------------------
\* memcpy of the next bytes of the log to the places from..to-1, the first of
\* them having serial number n.
Copied(buf, from, to, n) ==
    [i \in DmesgPlaces |-> IF from <= i /\ i < to THEN n + (i - from) ELSE buf[i]]

\* Fault: the second part is copied from the start of the message again.
SecondPart_restart(part) == written + 1

\* The first byte of the second part, behind part bytes of the first.
SecondPart(part) == written + 1 + part

\* Does an append that goes round the end run over the head?
Overrun(tail) == dmesg_tail < dmesg_head \/ tail > dmesg_head

\* Where the log starts after it was overwritten up to tail.
NewHead(tail) == IF tail + 1 > DMESG_SIZE THEN tail + 1 - DMESG_SIZE ELSE tail + 1

\* dmesg_append() that ends behind the end of the buffer.
append_around(length) ==
    LET tail == dmesg_tail + length - DMESG_SIZE
        part == DMESG_SIZE - dmesg_tail
    IN /\ tail > 0
       /\ dmesg_tail' = tail
       /\ dmesg_buffer' =
            Copied(Copied(dmesg_buffer, dmesg_tail, DMESG_SIZE, written + 1),
                   0, tail, SecondPart(part))
       /\ dmesg_head' = IF Overrun(tail) THEN NewHead(tail) ELSE dmesg_head

\* dmesg_append() that does not; it may end exactly at the end.
append_straight(length) ==
    LET tail == dmesg_tail + length
    IN /\ tail <= DMESG_SIZE
       /\ dmesg_tail' = tail
       /\ dmesg_buffer' = Copied(dmesg_buffer, dmesg_tail, tail, written + 1)
       /\ dmesg_head' = IF dmesg_tail < dmesg_head /\ dmesg_head < tail
                        THEN NewHead(tail) ELSE dmesg_head

\* Longer messages are refused and leave everything as it is.
Accepts(length) == length < DMESG_SIZE

dmesg_append(length) ==
    /\ Accepts(length)
    /\ written + length <= MaxWritten
    /\ append_around(length) \/ append_straight(length)
    /\ written' = written + length

\* dmesg_syscall(SYSLOG_ACTION_READ_ALL): head to end and start to tail, or
\* head to tail, or nothing if head and tail are equal.
Segment(from, to) == [i \in 1..(to - from) |-> dmesg_buffer[from + i - 1]]

ReadAll ==
    IF dmesg_head > dmesg_tail
    THEN Segment(dmesg_head, DMESG_SIZE) \o Segment(0, dmesg_tail)
    ELSE Segment(dmesg_head, dmesg_tail)

-----------------------------------------------------------------------------
DmesgInit ==
    /\ dmesg_buffer = [i \in DmesgPlaces |-> 0]
    /\ dmesg_head = 0
    /\ dmesg_tail = 0
    /\ written = 0

DmesgNext == \E length \in 1..(2 * DMESG_SIZE) : dmesg_append(length)

DmesgSpec == DmesgInit /\ [][DmesgNext]_dmesg_vars

-----------------------------------------------------------------------------
(* Properties                                                              *)

\* The memcpy calls stay inside dmesg_buffer, and what READ_ALL copies fits
\* the buffer of the size that SYSLOG_ACTION_SIZE_BUFFER reports.
InBounds ==
    /\ dmesg_head \in 0..DMESG_SIZE
    /\ dmesg_tail \in 0..DMESG_SIZE
    /\ Len(ReadAll) <= DMESG_SIZE

\* What READ_ALL returns is the end of the log: the latest bytes, in order,
\* without gaps and without leftovers of overwritten messages.
ReadsTheEnd ==
    ReadAll = [i \in 1..Len(ReadAll) |-> written - Len(ReadAll) + i]

=============================================================================
