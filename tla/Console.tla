------------------------------- MODULE Console -------------------------------
(***************************************************************************)
(* Console input, kernel/drivers/console/console_io.c: the ring buffer     *)
(* between the keyboard and serial interrupts and the readers, the line    *)
(* discipline in front of it, blocking reads, and TCSETS.                  *)
(*                                                                         *)
(* A typed character is its serial number: what matters is which           *)
(* characters reach which reader in which order.  Its kind says how the    *)
(* line discipline treats it.  Echo is left out.  Readers sleep on         *)
(* console_wait_queue; the queue and the scheduler are module Process.     *)
(***************************************************************************)
EXTENDS Integers, Sequences

CONSTANTS
    Readers,            \* processes that read the console
    INPUT_BUFFER_SIZE,
    CANON_BUFFER_SIZE,
    MaxTyped,           \* bound: this many characters are typed
    MaxCount,           \* bound: largest count of a read
    SwitchMidLine       \* may TCSETS change the mode inside a line?

ASSUME ConsoleAssumption ==
    /\ INPUT_BUFFER_SIZE \in Nat /\ INPUT_BUFFER_SIZE >= 2
    /\ CANON_BUFFER_SIZE \in Nat /\ CANON_BUFFER_SIZE >= 1
    /\ MaxTyped \in Nat /\ MaxCount \in Nat
    /\ SwitchMidLine \in BOOLEAN

VARIABLES
    input_buffer, input_buffer_head, input_buffer_tail,
    canon,          \* canon_buffer[0 .. canon_offset-1]
    flags,          \* the flags of current_termio the input code looks at
    where,          \* each reader: in user mode, asleep, or woken and READY
    typed,          \* number of characters typed
    received        \* the characters read() has returned, of all readers

ringVars == <<input_buffer, input_buffer_head, input_buffer_tail>>
vars == <<input_buffer, input_buffer_head, input_buffer_tail, canon, flags,
          where, typed, received>>

Places == 0..(INPUT_BUFFER_SIZE - 1)
Kinds  == {"char", "\r", "\n", "VEOF", "VERASE"}
Flags  == {"ICANON", "ICRNL", "IGNCR"}

-----------------------------------------------------------------------------
(* The ring                                                                *)

Wrapped(i) == i % INPUT_BUFFER_SIZE

Available == (input_buffer_head - input_buffer_tail) % INPUT_BUFFER_SIZE

\* Fault: two places are kept free.
Room_less == INPUT_BUFFER_SIZE - 2 - Available

Room == INPUT_BUFFER_SIZE - 1 - Available

Contents == [i \in 1..Available |-> input_buffer[(input_buffer_tail + i - 1)
                                                     % INPUT_BUFFER_SIZE]]

\* wait_queue_wake(): every sleeper is READY.
Wake(who) ==
    [r \in Readers |-> IF r \in who /\ where[r] = "asleep" THEN "woken" ELSE where[r]]

\* console_actual_insert_char() of each character of chs in turn: those that
\* find the ring full are dropped; each one stored wakes the readers.
InsertChars(chs) ==
    LET k == IF Len(chs) <= Room THEN Len(chs) ELSE Room
    IN /\ input_buffer' =
            [i \in Places |->
                LET j == ((i - input_buffer_head) % INPUT_BUFFER_SIZE) + 1
                IN IF j <= k THEN chs[j] ELSE input_buffer[i]]
       /\ input_buffer_head' = Wrapped(input_buffer_head + k)
       /\ where' = IF k > 0 THEN Wake(Readers) ELSE where
       /\ UNCHANGED input_buffer_tail

-----------------------------------------------------------------------------
(* The line discipline: console_insert_char(), called by the interrupts    *)

\* ICRNL before IGNCR in canonical mode, IGNCR before ICRNL in raw mode.
CanonicalKind(kind) ==
    IF kind = "\r" /\ "ICRNL" \in flags THEN "\n" ELSE kind

\* A carriage return that is thrown away.
Ignored(kind) ==
    /\ "IGNCR" \in flags
    /\ IF "ICANON" \in flags THEN CanonicalKind(kind) = "\r" ELSE kind = "\r"

ignore_cr(kind) ==
    /\ Ignored(kind)
    /\ UNCHANGED <<ringVars, canon, where>>

\* Raw mode: straight into the ring.
raw_char(kind) ==
    /\ "ICANON" \notin flags /\ ~Ignored(kind)
    /\ InsertChars(<<typed + 1>>)
    /\ UNCHANGED canon

\* Canonical mode, erase: the last character of the line, if there is one.
canonical_erase(kind) ==
    /\ "ICANON" \in flags /\ kind = "VERASE"
    /\ canon' = IF canon = <<>> THEN <<>> ELSE SubSeq(canon, 1, Len(canon) - 1)
    /\ UNCHANGED <<ringVars, where>>

\* The line is complete with this character.
Complete(kind) ==
    \/ CanonicalKind(kind) = "\n"
    \/ Len(canon) + 1 = CANON_BUFFER_SIZE

\* Fault: canon_offset is not reset.
canonical_char_kept(kind) ==
    /\ "ICANON" \in flags /\ ~Ignored(kind)
    /\ kind \notin {"VEOF", "VERASE"}
    /\ \/ /\ ~Complete(kind)
          /\ canon' = Append(canon, typed + 1)
          /\ UNCHANGED <<ringVars, where>>
       \/ /\ Complete(kind)
          /\ InsertChars(Append(canon, typed + 1))
          /\ UNCHANGED canon

\* Canonical mode, a character that goes into the line; a complete line goes
\* into the ring.
canonical_char(kind) ==
    /\ "ICANON" \in flags /\ ~Ignored(kind)
    /\ kind \notin {"VEOF", "VERASE"}
    /\ \/ /\ ~Complete(kind)
          /\ canon' = Append(canon, typed + 1)
          /\ UNCHANGED <<ringVars, where>>
       \/ /\ Complete(kind)
          /\ InsertChars(Append(canon, typed + 1))
          /\ canon' = <<>>

\* Canonical mode, ^D: what there is of the line goes into the ring; on an
\* empty line the readers are woken to find nothing.
canonical_eof(kind) ==
    /\ "ICANON" \in flags /\ kind = "VEOF"
    /\ \/ /\ canon # <<>>
          /\ InsertChars(canon)
       \/ /\ canon = <<>>
          /\ where' = Wake(Readers)
          /\ UNCHANGED ringVars
    /\ canon' = <<>>

console_insert_char(kind) ==
    /\ typed < MaxTyped
    /\ typed' = typed + 1
    /\ \/ ignore_cr(kind)
       \/ raw_char(kind)
       \/ canonical_erase(kind)
       \/ canonical_char(kind)
       \/ canonical_eof(kind)
    /\ UNCHANGED <<flags, received>>

-----------------------------------------------------------------------------
(* Reading                                                                 *)

\* The loop of console_get_char(): up to count characters, as many as there
\* are.
TakeChars(count) ==
    LET n == IF count <= Available THEN count ELSE Available
    IN /\ received' = received \o SubSeq(Contents, 1, n)
       /\ input_buffer_tail' = Wrapped(input_buffer_tail + n)
       /\ UNCHANGED <<input_buffer, input_buffer_head>>

MustSleep(nonblock) == ~nonblock /\ Available = 0

\* console_read(), first part: sleep if there is nothing to read.
console_read_block(r) ==
    /\ where[r] = "user"
    /\ MustSleep(FALSE)
    /\ where' = [where EXCEPT ![r] = "asleep"]
    /\ UNCHANGED <<ringVars, canon, flags, typed, received>>

\* console_read() that need not sleep.
console_read_now(r, count, nonblock) ==
    /\ where[r] = "user"
    /\ ~MustSleep(nonblock)
    /\ nonblock => Available > 0    \* an empty non-blocking read is a no-op
    /\ TakeChars(count)
    /\ UNCHANGED <<canon, flags, where, typed>>

\* console_read() behind wait_queue_add(): take what is there now.
console_read_woken(r, count) ==
    /\ where[r] = "woken"
    /\ TakeChars(count)
    /\ where' = [where EXCEPT ![r] = "user"]
    /\ UNCHANGED <<canon, flags, typed>>

\* ioctl(TCSETS): the new flags hold at once; a partial line stays in
\* canon_buffer.
console_ioctl(new) ==
    /\ new # flags
    /\ canon # <<>> => SwitchMidLine
    /\ flags' = new
    /\ UNCHANGED <<ringVars, canon, where, typed, received>>

-----------------------------------------------------------------------------
\* console_init(): default_termio.
Init ==
    /\ input_buffer = [i \in Places |-> 0]
    /\ input_buffer_head = 0
    /\ input_buffer_tail = 0
    /\ canon = <<>>
    /\ flags = {"ICANON", "ICRNL"}
    /\ where = [r \in Readers |-> "user"]
    /\ typed = 0
    /\ received = <<>>

Next ==
    \/ \E kind \in Kinds : console_insert_char(kind)
    \/ \E r \in Readers : console_read_block(r)
    \/ \E r \in Readers, count \in 1..MaxCount, nonblock \in BOOLEAN :
            console_read_now(r, count, nonblock)
    \/ \E r \in Readers, count \in 1..MaxCount : console_read_woken(r, count)
    \/ \E new \in SUBSET Flags : console_ioctl(new)

Spec == Init /\ [][Next]_vars

-----------------------------------------------------------------------------
(* Properties                                                              *)

\* The indexes stay inside input_buffer[], and canon_offset inside
\* canon_buffer[].
TypeOK ==
    /\ input_buffer \in [Places -> 0..MaxTyped]
    /\ input_buffer_head \in Places
    /\ input_buffer_tail \in Places
    /\ canon \in Seq(1..MaxTyped) /\ Len(canon) < CANON_BUFFER_SIZE
    /\ flags \subseteq Flags
    /\ where \in [Readers -> {"user", "asleep", "woken"}]
    /\ typed \in 0..MaxTyped
    /\ received \in Seq(1..MaxTyped)

\* Characters reach the readers in the order in which they were typed, none
\* twice: through the line buffer, around the end of the ring, and whatever
\* is dropped.
InOrder ==
    LET all == received \o Contents \o canon
    IN \A i, j \in DOMAIN all : i < j => all[i] < all[j]

\* Nobody sleeps while there is something to read.
NoSleepOnData == \A r \in Readers : where[r] = "asleep" => Available = 0

\* Typed characters reach the programs that read them, in order, and no
\* program sleeps while there are some (console_io.c).
InputRight == InOrder /\ NoSleepOnData

\* What is in the ring leaves it only through a reader, in order: no
\* character is overwritten, and a full ring does not turn into an empty one.
RingKeeps ==
    [][LET before == received \o Contents
           after  == received' \o Contents'
       IN /\ Len(before) <= Len(after)
          /\ SubSeq(after, 1, Len(before)) = before]_vars

\* console_io.c:82, 176: a complete line goes into the ring behind what is
\* already there, with the character that completed it unless that was ^D: all
\* of it that there is room for.  What there is no room for is dropped from its
\* end, the newline first, so that the next line continues it.
LineStored ==
    [][\A kind \in Kinds \ {"VERASE"} :
         LET line == IF kind = "VEOF" THEN canon ELSE Append(canon, typed')
             room == INPUT_BUFFER_SIZE - 1 - Available
         IN /\ console_insert_char(kind)
            /\ "ICANON" \in flags /\ ~Ignored(kind) /\ canon' = <<>>
            => Contents' = Contents \o SubSeq(line, 1, IF Len(line) <= room THEN Len(line) ELSE room)]_vars

=============================================================================
