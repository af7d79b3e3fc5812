-------------------------------- MODULE Format --------------------------------
(***************************************************************************)
(* Formatted output: vsnprintf() of the kernel (kernel/lib/printk.c) and   *)
(* vsnprintf_internal() of the C library (userspace/vlibc/printf.c), into  *)
(* a buffer of fixed size, and what printk() does with the result.         *)
(*                                                                         *)
(* The format is taken item by item; the buffer is the sequence of what    *)
(* was written, buffer_pointer its length, so that a write behind its end  *)
(* makes it longer than SIZE.  That happens: where a string, or in the      *)
(* kernel a number or its padding, fills the buffer to the last place,     *)
(* "break" leaves only the inner loop, the outer one asks whether there is *)
(* one place left, and all that follows is written behind the buffer.      *)
(* What is there is the stack frame of the caller: the code may then do    *)
(* anything (format_lost, "lost").  The library's decimal numbers also put *)
(* a 0 behind the end of int_buffer.                                       *)
(***************************************************************************)
EXTENDS Integers, Sequences, SequencesExt

CONSTANTS
    SIZE,          \* MAX_PRINT_SIZE
    DIGITS,        \* places of int_buffer
    VALUES,        \* values of a uint32_t
    Numbers,       \* those that are printed
    Bases,         \* {10, 16}
    Pads,          \* widths asked for
    MaxItems       \* bound: items of a format

ASSUME FormatAssumption ==
    /\ SIZE \in Nat /\ SIZE >= 2 /\ DIGITS \in Nat
    /\ VALUES \in Nat \ {0} /\ VALUES % 2 = 0 /\ Numbers \subseteq 0..(VALUES - 1)
    /\ Bases \subseteq Nat \ {0, 1} /\ Pads \subseteq Nat /\ MaxItems \in Nat

VARIABLES
    printer,       \* who formats: "printk", "printf", nobody yet, or how it ended
    buffer,        \* what has been written
    over,          \* has the loop ended?
    spilled,       \* was int_buffer[32] written?
    promise,       \* history: what the format stands for
    items,         \* history: how many items
    dmesg_text, serial_text,   \* what printk() passed on
    string         \* the memory that sprintf() and the like filled

format_vars == <<printer, buffer, over, spilled, promise, items, dmesg_text, serial_text, string>>

NUL_ == 0
ZERO == 48
SPACE == 32
MINUS == 45
NEWLINE == 10
RETURN == 13
LETTER == 97

Item(kind, value, base, pad, fill) ==
    [kind |-> kind, value |-> value, base |-> base, pad |-> pad, fill |-> fill]

Items ==
    {Item("char", ch, 0, 0, 0) : ch \in {LETTER, NEWLINE}}
    \union {Item("string", n, 0, 0, 0) : n \in 0..(SIZE + 1)}
    \union [kind : {"signed", "unsigned"}, value : Numbers, base : Bases,
            pad : Pads, fill : {SPACE, ZERO}]

-----------------------------------------------------------------------------
(* What an item stands for                                                 *)

Shown(digit) == IF digit < 10 THEN ZERO + digit ELSE LETTER + digit - 10

Value(digits, base) ==
    LET upto[k \in 0..Len(digits)] == IF k = 0 THEN 0 ELSE upto[k - 1] * base + digits[k]
    IN upto[Len(digits)]

\* The digits of n: those whose value is n, without a leading zero.
Strings(base) == UNION {[1..k -> 0..(base - 1)] : k \in 1..DIGITS}
IsNumeral(digits, n, base) == Value(digits, base) = n /\ (Len(digits) > 1 => digits[1] # 0)

\* int_buffer has places for every value.
ASSUME DigitsAssumption ==
    \A base \in Bases, n \in 0..(VALUES - 1) :
       \E digits \in Strings(base) : IsNumeral(digits, n, base)

Numeral ==
    [base \in Bases |-> [n \in 0..(VALUES - 1) |->
        CHOOSE digits \in Strings(base) : IsNumeral(digits, n, base)]]

Repeated(n, ch) == [i \in 1..n |-> ch]

\* The kernel writes the sign before the padding, the library behind it.
Meant(item) ==
    LET negative == item.kind = "signed" /\ item.value >= VALUES \div 2
        number == IF negative THEN VALUES - item.value ELSE item.value
        digits == [i \in DOMAIN Numeral[item.base][number] |-> Shown(Numeral[item.base][number][i])]
        sign == IF negative THEN <<MINUS>> ELSE <<>>
        space == item.pad - Len(sign \o digits)
        fill == Repeated(IF space > 0 THEN space ELSE 0, item.fill)
    IN CASE item.kind = "char" -> <<item.value>>
         [] item.kind = "string" -> Repeated(item.value, LETTER)
         [] OTHER -> IF printer = "printk" THEN sign \o fill \o digits ELSE fill \o sign \o digits

-----------------------------------------------------------------------------
(* The routines                                                            *)

\* Fault: a zero has no digit.
Converted_while(x, base) ==
    LET f[n \in 0..(VALUES - 1)] ==
            IF n = 0 THEN <<>> ELSE Append(f[n \div base], Shown(n % base))
    IN f[x]

\* The do-while loop that fills int_buffer from its end.
Converted(x, base) ==
    LET f[n \in 0..(VALUES - 1)] ==
            IF n \div base = 0 THEN <<Shown(n % base)>>
            ELSE Append(f[n \div base], Shown(n % base))
    IN f[x]

\* x=~x; x++;
Negated(x) == ((VALUES - 1 - x) + 1) % VALUES

IsNegative(item) == item.kind = "signed" /\ item.value >= VALUES \div 2
Magnitude(item) == IF IsNegative(item) THEN Negated(item.value) ELSE item.value

\* An inner loop: it ends when the buffer is full, but a buffer that is
\* fuller than that does not stop it.
Put(buf, chars) ==
    LET room == SIZE - Len(buf)
    IN IF room > 0 /\ Len(chars) > room THEN buf \o SubSeq(chars, 1, room) ELSE buf \o chars

Full(buf) == Len(buf) = SIZE

\* What one turn of the loop leaves: the buffer, and whether a break of the
\* turn's own left the loop.
Outcome(buf, left) == [buffer |-> buf, left |-> left]

\* A single character, the same in both.
put_char(ch) == Outcome(Append(buffer, ch), Full(Append(buffer, ch)))

\* A string, the same in both: its break leaves only the inner loop.
put_string(n) == Outcome(Put(buffer, Repeated(n, LETTER)), FALSE)

\* A number in vsnprintf() of the kernel: only the break behind the sign
\* leaves the loop, those of the padding and the digits do not.
printk_number(item) ==
    LET digits == Converted(Magnitude(item), item.base)
        signed == IF IsNegative(item) THEN Append(buffer, MINUS) ELSE buffer
        space == item.pad - Len(digits) - (IF IsNegative(item) THEN 1 ELSE 0)
        padded == IF space > 0 THEN Put(signed, Repeated(space, item.fill)) ELSE signed
    IN IF IsNegative(item) /\ Full(signed) THEN Outcome(signed, TRUE) ELSE Outcome(Put(padded, digits), FALSE)

\* A number in vsnprintf_internal(): pad() and append_buffer() return -1 when
\* they reach the end, which leaves the loop.
printf_number(item) ==
    LET digits == Converted(Magnitude(item), item.base)
        number == IF IsNegative(item) THEN <<MINUS>> \o digits ELSE digits
        space == item.pad - Len(number)
        padded == IF space > 0 THEN Put(buffer, Repeated(space, item.fill)) ELSE buffer
    IN IF space > 0 /\ Full(padded) THEN Outcome(padded, TRUE)
       ELSE Outcome(Put(padded, number), Full(Put(padded, number)))

one_item(item) ==
    CASE item.kind = "char" -> put_char(item.value)
      [] item.kind = "string" -> put_string(item.value)
      [] OTHER -> IF printer = "printk" THEN printk_number(item) ELSE printf_number(item)

\* %d is signed; the kernel knows no %u.
Allowed(item) ==
    /\ item.kind = "signed" => item.base = 10
    /\ printer = "printk" /\ item.kind = "unsigned" => item.base # 10

\* convert_decimal32(): int_buffer[32], of 32 places, becomes 0.
Spills(item) == printer = "printf" /\ item.kind \in {"signed", "unsigned"} /\ item.base = 10

format_begin ==
    /\ printer = "nobody"
    /\ printer' \in {"printk", "printf"}
    /\ UNCHANGED <<buffer, over, spilled, promise, items, dmesg_text, serial_text, string>>

\* The loop's own test comes at the end of each turn.
format_item ==
    /\ printer \in {"printk", "printf"} /\ ~over /\ items < MaxItems
    /\ \E item \in {i \in Items : Allowed(i)} :
         /\ buffer' = one_item(item).buffer
         /\ over' = (one_item(item).left \/ Len(buffer') = SIZE - 1)
         /\ spilled' = (spilled \/ Spills(item))
         /\ promise' = promise \o Meant(item)
    /\ items' = items + 1
    /\ UNCHANGED <<printer, dmesg_text, serial_text, string>>

\* Memory that is not the routine's own has been written: the caller's frame
\* behind the buffer, or what lies behind int_buffer, of which the build
\* decides whether it is ever used.
Damaged == Len(buffer) > SIZE \/ spilled

\* The result, cut to leave room for the 0 at the end.
Result == IF Len(buffer) >= SIZE THEN SubSeq(buffer, 1, SIZE - 1) ELSE buffer

\* serial_write(): a return before every newline.
serial_write(chars) ==
    LET sent[k \in 0..Len(chars)] ==
            IF k = 0 THEN <<>>
            ELSE sent[k - 1] \o (IF chars[k] = NEWLINE THEN <<RETURN, NEWLINE>> ELSE <<chars[k]>>)
    IN sent[Len(chars)]

\* As many characters as the result says.
Written == serial_write(Result)

\* The format ends too; printk() passes the text on, printf() and
\* fprintf() write it.  Then they return, if they still can.
format_end ==
    /\ printer \in {"printk", "printf"}
    /\ printer' \in {"done"} \union (IF Damaged THEN {"lost"} ELSE {})
    /\ buffer' = <<>> /\ over' = FALSE /\ items' = 0
    /\ dmesg_text' = IF printer = "printk" THEN Result ELSE <<>>
    /\ serial_text' = Written
    /\ UNCHANGED <<spilled, promise, string>>

\* sprintf(), snprintf() and their forms with a va_list, and the kernel's
\* snprintf(): the string stays in memory, with a 0 behind it, and then what
\* was there before.
sprintf ==
    /\ printer \in {"printk", "printf"}
    /\ printer' = "stored"
    /\ string' = Result \o <<NUL_>> \o SubSeq(string, Len(Result) + 2, SIZE)
    /\ buffer' = <<>> /\ over' = FALSE /\ items' = 0
    /\ UNCHANGED <<spilled, promise, dmesg_text, serial_text>>

\* Behind the buffer are the arguments still to be printed and the way back
\* to the caller: nothing may come of it at all.
format_lost ==
    /\ printer \in {"printk", "printf"} /\ Damaged
    /\ printer' = "lost"
    /\ buffer' = <<>> /\ over' = FALSE /\ items' = 0
    /\ UNCHANGED <<spilled, promise, dmesg_text, serial_text, string>>

FormatInit ==
    /\ printer = "nobody" /\ buffer = <<>> /\ over = FALSE /\ spilled = FALSE
    /\ promise = <<>> /\ items = 0
    /\ dmesg_text = <<>> /\ serial_text = <<>> /\ string = Repeated(SIZE, LETTER)

FormatNext == format_begin \/ format_item \/ format_end \/ sprintf \/ format_lost

FormatSpec == FormatInit /\ [][FormatNext]_format_vars

-----------------------------------------------------------------------------
(* Properties                                                              *)

\* As much of the format as there is room for.
Fitting(text) == SubSeq(text, 1, IF Len(text) < SIZE THEN Len(text) ELSE SIZE - 1)

\* printk.c, printf.c: what comes out is the beginning of what the format
\* stands for, all of it if it fits, also for the most negative number, 0, and
\* padding, and also when the loop went on behind the buffer; a format no
\* longer than the buffer does not make it go there.
InBuffer ==
    printer \in {"printk", "printf"} =>
        /\ Result = Fitting(promise)
        /\ Len(promise) <= SIZE => buffer = promise

Unreturned(chars) ==
    LET kept[k \in 0..Len(chars)] ==
            IF k = 0 THEN <<>>
            ELSE IF chars[k] = RETURN THEN kept[k - 1] ELSE Append(kept[k - 1], chars[k])
    IN kept[Len(chars)]

\* printk(), console_write(): the log gets that text, the serial line too, with
\* a return before each newline and nowhere else.
PrintedRight ==
    /\ dmesg_text \in {<<>>, Fitting(promise)}
    /\ Unreturned(serial_text) \in {<<>>, Fitting(promise)}
    /\ printer = "done" => Unreturned(serial_text) = Fitting(promise)
    /\ \A i \in DOMAIN serial_text :
         serial_text[i] = NEWLINE <=> i > 1 /\ serial_text[i - 1] = RETURN

\* printf.c:377-454, printk.c:241-258: a string has a 0 within its memory, and
\* up to there it is what the format stands for, or as much of it as there is
\* room for.
StringRight ==
    printer = "stored" =>
        \E end \in 1..SIZE :
            /\ string[end] = NUL_
            /\ SubSeq(string, 1, end - 1) = Fitting(promise)

\* The frame of the caller is damaged by no format that its buffer has places
\* for, except by the 0 behind int_buffer.
LostRight == printer = "lost" => Len(promise) > SIZE \/ spilled

\* Together: what is printed is what the format stands for.
FormatRight == InBuffer /\ PrintedRight /\ StringRight /\ LostRight

=============================================================================
