------------------------------- MODULE Routines --------------------------------
(***************************************************************************)
(* What the compiler and every program take for granted: the routines      *)
(* for words and areas of memory, and the functions on strings.            *)
(***************************************************************************)
EXTENDS Integers, Sequences, SequencesExt, Bitwise

-----------------------------------------------------------------------------
(***************************************************************************)
(* The routines the compiler and the C library take for granted:           *)
(* memcpy() (lib/memcpy.s, one text for kernel and programs), memset()     *)
(* (vlibc/string.c, kernel/lib/memset.c), memmove(), and division          *)
(* (vlibc/idiv.s, uldivmod.s, ldivmod.s).                                  *)
(*                                                                         *)
(* Registers have W bits, not 32; memory is written front to back, so that *)
(* what memset() and memcpy() wrote is a sequence: of bytes that were set, *)
(* of the offsets they were read from.  Division by 0 faults and is left   *)
(* out.                                                                    *)
(***************************************************************************)

CONSTANTS
    W,             \* bits of a register, 32
    Lengths,       \* of the areas that are set and copied
    Spans,         \* that programs sleep or print
    Elapsed, Ticks \* microseconds and 64ths of a second a program ran

ASSUME WordsAssumption ==
    /\ W \in 3..10
    /\ Lengths \subseteq Nat /\ Spans \subseteq Nat /\ Elapsed \subseteq Nat /\ Ticks \subseteq Nat

VARIABLES
    asked,         \* routine and arguments
    answered       \* what it has left

words_vars == <<asked, answered>>

Power[k \in 0..(2 * W)] == IF k = 0 THEN 1 ELSE 2 * Power[k - 1]
Word == 0..(Power[W] - 1)

Lsl(x, k) == IF k >= W THEN 0 ELSE (x * Power[k]) % Power[W]
Lsr(x, k) == IF k >= W THEN 0 ELSE x \div Power[k]
Clz(x)    == CHOOSE k \in 0..W : x < Power[W - k] /\ (k < W => x >= Power[W - k - 1])
Neg(x)    == (Power[W] - x) % Power[W]
Minus(x)  == x >= Power[W - 1]
Magnitude(x) == IF Minus(x) THEN Neg(x) ELSE x
Signed(x) == IF Minus(x) THEN x - Power[W] ELSE x

-----------------------------------------------------------------------------
(* Division of one word                                                    *)

\* Compare and subtract; what is left, and the quotient so far.
Subtracted(s, divisor, bit) ==
    IF s.n >= divisor THEN [n |-> s.n - divisor, q |-> s.q + bit] ELSE s

\* ARM_DIV_BODY, four bits a turn.
RECURSIVE DivTurns(_, _, _)
DivTurns(s, divisor, bit) ==
    LET t == FoldLeft(LAMBDA u, k : Subtracted(u, Lsr(divisor, k), Lsr(bit, k)), s, <<0, 1, 2, 3>>)
    IN IF t.n = 0 \/ Lsr(bit, 4) = 0 THEN t.q ELSE DivTurns(t, Lsr(divisor, 4), Lsr(bit, 4))

DivBody(n, d) ==
    LET shift == Clz(d) - Clz(n)
    IN DivTurns([n |-> n, q |-> 0], Lsl(d, shift), Lsl(1, shift))

\* ARM_MOD_BODY: batches of four, then what is left of the order.
RECURSIVE ModTurns(_, _, _)
ModTurns(n, d, order) ==
    LET t == FoldLeft(LAMBDA u, k : Subtracted(u, Lsr(d, k), 0), [n |-> n, q |-> 0], <<0, 1, 2, 3>>)
        left == IF t.n >= 1 THEN order - 4 ELSE order
    IN IF t.n >= 1 /\ left >= 0 THEN ModTurns(t.n, Lsr(d, 4), left)
       ELSE [n |-> t.n, d |-> Lsr(d, 4), order |-> left]

\* Fault: the last one, two or three steps are one too few.
LastSteps_short(order) == [k \in 1..(order + 3) |-> k - 1]

LastSteps(order) == [k \in 1..(order + 4) |-> k - 1]

ModBody(n, d) ==
    LET order == Clz(d) - Clz(n) - 3
        shifted == Lsl(d, Clz(d) - Clz(n))
        s == IF order < 0 THEN [n |-> n, d |-> shifted, order |-> order]
             ELSE ModTurns(n, shifted, order)
    IN IF order >= 0 /\ (s.order % 4 = 0 \/ s.n = 0) THEN s.n
       ELSE FoldLeft(LAMBDA u, k : Subtracted(u, Lsr(s.d, k), 0), [n |-> s.n, q |-> 0],
                     LastSteps(s.order)).n

PowerOfTwo(d) == (d & (d - 1)) = 0

uidiv(n, d) ==
    CASE d = 1 -> n
      [] d # 1 /\ n <= d -> IF n = d THEN 1 ELSE 0
      [] d # 1 /\ n > d /\ PowerOfTwo(d) -> Lsr(n, W - 1 - Clz(d))
      [] OTHER -> DivBody(n, d)

umodsi3(n, d) ==
    CASE d = 1 \/ n = d -> 0
      [] d # 1 /\ n < d -> n
      [] d # 1 /\ n > d /\ PowerOfTwo(d) -> n & (d - 1)
      [] OTHER -> ModBody(n, d)

\* The same case by case on the magnitudes, then the sign.
idiv(n, d) ==
    LET differ == Minus(n) # Minus(d)
        q == uidiv(Magnitude(n), Magnitude(d))
    IN IF Magnitude(d) = 1 THEN (IF Minus(d) THEN Neg(n) ELSE n)
       ELSE IF differ THEN Neg(q) ELSE q

modsi3(n, d) ==
    LET r == umodsi3(Magnitude(n), Magnitude(d)) IN IF Minus(n) THEN Neg(r) ELSE r

\* __aeabi_uidiv() of the kernel for the ARM1176: multiples are counted, which
\* ends if the one beyond the dividend is a word.
RECURSIVE Counted(_, _, _, _)
Counted(n, d, q, new_d) == IF new_d > n THEN q ELSE Counted(n, d, q + 1, (new_d + d) % Power[W])

\* Quotient and remainder: the remainder by multiplication.
Divmod(n, d, q) == <<q, (n - q * d) % Power[W]>>

-----------------------------------------------------------------------------
(* Division of two words.  A pair is <<low, high>>.                        *)

Whole(p)  == p[1] + p[2] * Power[W]
Halves(x) == <<x % Power[W], x \div Power[W]>>
Clz2(p)   == IF p[2] = 0 THEN W + Clz(p[1]) ELSE Clz(p[2])

Lsl2(p, k) ==
    IF k < W THEN <<Lsl(p[1], k), Lsl(p[2], k) | Lsr(p[1], W - k)>>
    ELSE <<Lsl(p[1], k), Lsl(p[1], k - W)>>

Lsr2(p) == <<Lsr(p[1], 1) | Lsl(p[2] % 2, W - 1), Lsr(p[2], 1)>>

\* L_subtract
RECURSIVE Subtract(_, _, _, _)
Subtract(a, b, c, d) ==
    LET less == Whole(a) < Whole(b)
        a2 == IF less THEN a ELSE Halves(Whole(a) - Whole(b))
        d2 == IF less THEN d ELSE <<d[1] | c[1], d[2] | c[2]>>
    IN IF a2 = <<0, 0>> \/ Lsr2(c) = <<0, 0>> THEN <<d2, a2>>
       ELSE Subtract(a2, Lsr2(b), Lsr2(c), d2)

\* L_pow2: a one in the low half, or in the high half.
ByPower(a, b) ==
    LET mask == Halves(Whole(b) - 1)
        k == W - 1 - Clz(b[1])
        k2 == W - 1 - Clz(b[2])
        q == IF b[1] # 0 THEN <<Lsr(a[1], k) | Lsl(a[2], Clz(b[1]) + 1), Lsr(a[2], k)>>
             ELSE <<Lsr(a[2], k2), Lsr(a[2], k2 + W)>>
    IN <<q, <<a[1] & mask[1], a[2] & mask[2]>>>>

uldivmod(a, b) ==
    LET mask == Halves(Whole(b) - 1)
        shift == Clz2(b) - Clz2(a)
        qr == Divmod(a[1], b[1], uidiv(a[1], b[1]))
    IN CASE (mask[1] & b[1]) = 0 /\ (mask[2] & b[2]) = 0 -> ByPower(a, b)
         [] ~((mask[1] & b[1]) = 0 /\ (mask[2] & b[2]) = 0) /\ a[2] = 0 /\ b[2] = 0 ->
                <<<<qr[1], 0>>, <<qr[2], 0>>>>
         [] OTHER -> IF shift > 0 THEN Subtract(a, Lsl2(b, shift), Lsl2(<<1, 0>>, shift), <<0, 0>>)
                     ELSE Subtract(a, b, <<1, 0>>, <<0, 0>>)

Neg2(p) == <<Neg(p[1]), (Power[W] - p[2] - (IF p[1] = 0 THEN 0 ELSE 1)) % Power[W]>>

ldivmod(a, b) ==
    LET Abs(p) == IF Minus(p[2]) THEN Neg2(p) ELSE p
        qr == uldivmod(Abs(a), Abs(b))
    IN <<IF Minus(a[2]) # Minus(b[2]) THEN Neg2(qr[1]) ELSE qr[1],
         IF Minus(a[2]) THEN Neg2(qr[2]) ELSE qr[2]>>

-----------------------------------------------------------------------------
(* Memory.  The bytes from..from+n-1 are a sequence.                       *)

Bytes(from, n) == [i \in 1..n |-> from + i - 1]

\* The last bytes: a pair if bit 1 of the count is set, one if bit 0 is.
LastBytes(count) == 2 * ((count % 4) \div 2) + (count % 2)

\* memset(): how many bytes are written.  d is the address.
memset(d, n) ==
    LET head == IF d % 4 = 0 THEN 0 ELSE 4 - (d % 4)
        count == n - head
        turns == IF count >= 64 THEN count \div 64 ELSE 0
        rest == count - 64 * turns
    IN IF head > 0 /\ n < 4 THEN LastBytes(n)
       ELSE head + 64 * turns
              + (IF rest = 0 THEN 0
                 ELSE 32 * ((rest \div 32) % 2) + 16 * ((rest \div 16) % 2)
                        + 8 * ((rest \div 8) % 2) + 4 * ((rest \div 4) % 2) + LastBytes(rest))

\* The library's is the same instructions once more.
memset_library(d, n) == memset(d, n)

\* Eight words a turn, then those that are left by the bits of the count.
WordsOf(count) == 8 * (count \div 32) + ((count % 32) \div 4)

\* forward_copy_shift: a word of the destination is made of two of the source.
Shifted(s, pull, words) ==
    LET at == s - (pull \div 8)
        Made(k) == [j \in 1..4 |->
                       IF j - 1 + (pull \div 8) < 4 THEN at + 4 * (k - 1) + (pull \div 8) + j - 1
                       ELSE at + 4 * k + (j - 1 - (4 - (pull \div 8)))]
    IN FlattenSeq([k \in 1..words |-> Made(k)])

\* memcpy(): where the bytes of the destination d come from.
memcpy(d, s, n) ==
    LET head == IF d % 4 = 0 THEN 0 ELSE 4 - (d % 4)
        count == n - head
        from == s + head
        words == IF count >= 4 THEN WordsOf(count) ELSE 0
        \* a pull of 0 is the copy by ldm and stm
        body == Shifted(from, 8 * (from % 4), words)
    IN IF n < 4 THEN Bytes(s, LastBytes(n))
       ELSE Bytes(s, head) \o body \o Bytes(from + 4 * words, LastBytes(count))

\* memmove() in memory m with addresses of W bits, byte by byte if the areas
\* overlap.
Apart(d, s, n) == (s - d - n) % Power[W] <= (-2 * n) % Power[W]

memmove(m, d, s, n) ==
    LET Copied(m2, i) == [m2 EXCEPT ![d + i] = m2[s + i]]
        forward  == [k \in 1..n |-> k - 1]
        backward == [k \in 1..n |-> n - k]
    IN CASE d = s -> m
         [] d # s /\ Apart(d, s, n) ->
                [a \in DOMAIN m |-> IF a \in d..(d + n - 1) THEN m[memcpy(d, s, n)[a - d + 1]] ELSE m[a]]
         [] OTHER -> FoldLeft(Copied, m, IF d < s THEN forward ELSE backward)

\* memset_byte(), memset_4byte() of the benchmarks: the offsets that are set.
\* Behind an edge of 4 - offset bytes the words are those of n - 1 bytes.
memset_byte(n) == 0..(n - 1)

memset_4byte(d, n) ==
    LET offset == d % 4
        edge == IF offset = 0 THEN 0 ELSE 4 - offset
        count == IF offset = 0 THEN n ELSE n - 1
    IN 0..(edge - 1) \union edge..(edge + 4 * (count \div 4) - 1) \union (n - offset)..(n - 1)

\* memory_test has the first and this one by itself, and the kernel's memset().
memset_4byte_test(d, n) == memset_4byte(d, n)
memset_asm(d, n) == 0..(memset(d, n) - 1)

\* memset_test(), on memory that had another value: not the byte behind the
\* area is looked at, but the next one.
memset_test(set, n) == (0..(n - 1)) \subseteq set /\ n + 1 \notin set

\* The kernel's has the text of the library's.
memmove_kernel(m, d, s, n) == memmove(m, d, s, n)

-----------------------------------------------------------------------------
(* Times                                                                   *)

usleep(usecs) ==
    LET sec == usecs \div 1000000
    IN [sec |-> sec, nsec |-> (usecs - sec * 1000000) * 1000]

\* time_pretty(): a unit is taken out of what is more than it, and shown with
\* the smaller ones if there is any of it.
time_pretty(time) ==
    LET days == IF time > 86400 THEN time \div 86400 ELSE 0
        left == time - days * 86400
        hours == IF left > 3600 THEN left \div 3600 ELSE 0
        last == left - hours * 3600
        minutes == IF last > 60 THEN last \div 60 ELSE 0
        seconds == last - minutes * 60
    IN CASE days # 0 -> <<days, hours, minutes, seconds>>
         [] days = 0 /\ hours # 0 -> <<hours, minutes, seconds>>
         [] days = 0 /\ hours = 0 /\ minutes # 0 -> <<minutes, seconds>>
         [] OTHER -> <<seconds>>

\* print_fixed(): what is before the point and three digits behind it.
print_fixed(value, divider) ==
    CASE divider = 1000000 -> <<value \div 1000000, (value % 1000000) \div 1000>>
      [] divider = 64 -> <<value \div 64, ((value % 64) * 1000) \div 64>>

\* The last line of printa and printb: how long it ran, for how many ticks of
\* that it had the processor, and how many of a hundred.
printa(us, ticks) ==
    LET wallclock_ms == us \div 1000
        user_ms == (ticks * 1000) \div 64
    IN [ran |-> print_fixed(us, 1000000), user |-> print_fixed(ticks, 64),
        percent |-> IF wallclock_ms # 0 THEN (100 * user_ms) \div wallclock_ms ELSE 0]
printb(us, ticks) == printa(us, ticks)

-----------------------------------------------------------------------------
(* Calls                                                                   *)

Ask(routine, a, b, n) == [routine |-> routine, a |-> a, b |-> b, n |-> n]

Half == (W + 1) \div 2
Pairs == (0..(Power[Half] - 1)) \X (0..(Power[Half] - 1))

\* Addresses of a memory without an end that wraps.
Area == 0..(Power[W - 1] - 1)

Asked ==
    [routine : {"udiv", "div"}, a : Word, b : Word \ {0}, n : {0}]
    \union {Ask("kdiv", a, b, 0) : a \in 0..(Power[W - 1] - 1), b \in 1..Power[W - 1]}
    \union [routine : {"uldiv", "ldiv"}, a : 0..(Power[W + 2] - 1),
            b : 1..(Power[W + 1] - 1), n : {0}]
    \union [routine : {"ldiv"}, a : (Power[2 * W] - 9)..(Power[2 * W] - 1),
            b : (1..9) \union ((Power[2 * W] - 9)..(Power[2 * W] - 1)), n : {0}]
    \union [routine : {"set"}, a : 0..3, b : {0}, n : Lengths]
    \union [routine : {"copy"}, a : 0..3, b : 4..7, n : Lengths]
    \union [routine : {"move"}, a : 0..7, b : 0..7, n : 0..6]
    \union [routine : {"bench"}, a : 0..3, b : {0}, n : {n \in Lengths : n >= 4}]
    \union [routine : {"time"}, a : Spans, b : {0}, n : {0}]
    \union {q \in [routine : {"ran"}, a : Elapsed, b : Ticks, n : {0}] :
              (q.b * 1000) \div 64 <= q.a \div 1000}

Computed(q) ==
    CASE q.routine = "udiv"  -> <<Divmod(q.a, q.b, uidiv(q.a, q.b)), umodsi3(q.a, q.b)>>
      [] q.routine = "kdiv"  -> Counted(q.a, q.b, 0, q.b)
      [] q.routine = "div"   -> <<Divmod(q.a, q.b, idiv(q.a, q.b)), modsi3(q.a, q.b)>>
      [] q.routine = "uldiv" -> uldivmod(Halves(q.a), Halves(q.b))
      [] q.routine = "ldiv"  -> ldivmod(Halves(q.a), Halves(q.b))
      [] q.routine = "set"   -> <<memset(q.a, q.n), memset_library(q.a, q.n)>>
      [] q.routine = "copy"  -> memcpy(q.a, q.b, q.n)
      [] q.routine = "move"  ->
            LET Moved(Move(_, _, _, _)) == Move([a \in 0..13 |-> a], q.a, q.b, q.n)
            IN <<Moved(memmove), Moved(memmove_kernel)>>
      [] q.routine = "bench" -> <<memset_byte(q.n), memset_4byte(q.a, q.n), memset_4byte_test(q.a, q.n),
                                  memset_asm(q.a, q.n)>>
      [] q.routine = "time"  -> <<usleep(q.a), time_pretty(q.a)>>
      [] q.routine = "ran"   -> <<printa(q.a, q.b), printb(q.a, q.b)>>

word_call ==
    /\ asked = Ask("none", 0, 0, 0)
    /\ asked' \in Asked
    /\ answered' = Computed(asked')

WordsInit == asked = Ask("none", 0, 0, 0) /\ answered = 0

WordsNext == word_call

WordsSpec == WordsInit /\ [][WordsNext]_words_vars

-----------------------------------------------------------------------------
(* Properties                                                              *)

\* Quotients are rounded toward 0, remainders have the sign of the dividend.
Towards0(n, d) == IF (n < 0) = (d < 0) THEN (IF n < 0 THEN (-n) \div (-d) ELSE n \div d)
                  ELSE IF n < 0 THEN -((-n) \div d) ELSE -(n \div (-d))

Signed2(x) == IF x >= Power[2 * W - 1] THEN x - Power[2 * W] ELSE x

\* idiv.s, uldivmod.s, ldivmod.s: with shifts, comparisons and early ends the
\* results are those of a division, also for the most negative number.
DivisionRight ==
    LET a == asked.a
        b == asked.b
    IN /\ asked.routine = "udiv" => answered = <<<<a \div b, a % b>>, a % b>>
       /\ asked.routine = "kdiv" => answered = a \div b
       /\ asked.routine = "div" =>
            LET q == Towards0(Signed(a), Signed(b))
                r == (Signed(a) - q * Signed(b)) % Power[W]
            IN answered = <<<<q % Power[W], r>>, r>>
       /\ asked.routine = "uldiv" => answered = <<Halves(a \div b), Halves(a % b)>>
       /\ asked.routine = "ldiv" =>
            LET q == Towards0(Signed2(a), Signed2(b))
            IN answered = <<Halves(q % Power[2 * W]),
                            Halves((Signed2(a) - q * Signed2(b)) % Power[2 * W])>>

\* memcpy.s, string.c, memset.c: whatever the alignments and the length, as
\* many bytes as were asked for are set or copied, each from its place;
\* memmove() reads no byte that it has written.
MemoryRight ==
    /\ asked.routine = "set" => answered = <<asked.n, asked.n>>
    /\ asked.routine = "copy" => answered = Bytes(asked.b, asked.n)
    /\ asked.routine = "move" =>
         \A which \in 1..2 :
            answered[which] = [a \in 0..13 |-> IF a \in asked.a..(asked.a + asked.n - 1)
                                               THEN asked.b + a - asked.a ELSE a]

\* memory_test.c:58-225: what the benchmarks compare sets the same bytes, of
\* an area whose beginning and length are multiples of 4; of others with a
\* beginning that is none at least the area is set.  An area that passes the
\* test is set, and nothing behind it but perhaps the one byte.
BenchmarksRight ==
    asked.routine = "bench" =>
        \A k \in 1..4 :
            LET set == answered[k] IN
            /\ asked.a % 4 = 0 /\ asked.n % 4 = 0 => set = 0..(asked.n - 1)
            /\ asked.a % 4 # 0 => (0..(asked.n - 1)) \subseteq set
            /\ (\E m \in 0..(asked.n + 4) : set = 0..m) /\ memset_test(set, asked.n) =>
                  set \in {0..(asked.n - 1), 0..asked.n}

\* time.c:23-80, printa.c, printb.c: a time that is split, and shown without
\* its larger units, is the time; three digits behind the point are cut off,
\* not rounded; and no program has more than all of the processor.
Seconds_in(parts) ==
    LET unit == <<1, 60, 3600, 86400>>
    IN FoldLeft(LAMBDA sum, k : sum + parts[k] * unit[Len(parts) + 1 - k], 0, [k \in DOMAIN parts |-> k])

Cut_to_digits(shown, value, divider) ==
    /\ shown[2] \in 0..999
    /\ shown[1] * divider + (shown[2] * divider) \div 1000 <= value
    /\ value < shown[1] * divider + ((shown[2] + 1) * divider + 999) \div 1000

TimesRight ==
    /\ asked.routine = "time" =>
         /\ answered[1].nsec < 1000000000
         /\ answered[1].sec * 1000000 + answered[1].nsec \div 1000 = asked.a
         /\ Seconds_in(answered[2]) = asked.a
         /\ \A k \in DOMAIN answered[2] : answered[2][k] >= 0 /\ (k > 1 => answered[2][k] <= 60)
    /\ asked.routine = "ran" =>
         \A k \in 1..2 : /\ Cut_to_digits(answered[k].ran, asked.a, 1000000)
                         /\ Cut_to_digits(answered[k].user, asked.b, 64)
                         /\ answered[k].percent <= 100

\* Together: the routines do what a program takes for granted.
WordsRight == DivisionRight /\ MemoryRight /\ BenchmarksRight /\ TimesRight

-----------------------------------------------------------------------------
(***************************************************************************)
(* String functions of the kernel (kernel/lib/string.c) and of the C       *)
(* library (userspace/vlibc/string.c), and the character classes           *)
(* (ctype.c).                                                              *)
(*                                                                         *)
(* A string is the sequence of its characters; in memory a 0 follows, and  *)
(* then what was there before.  The functions are written as the loops     *)
(* they are, over indexes from 1; a loop that runs past the 0 meets the    *)
(* old contents.                                                           *)
(***************************************************************************)

CONSTANTS
    Letters,       \* characters that strings are made of
    MaxLength,     \* of a string; of a number, no overflow
    Key,           \* that the kernel looks for in its command line
    CommandLines   \* that the boot loader may pass

ASSUME StringsAssumption ==
    /\ Letters \subseteq 1..255 /\ {45, 48} \cap Letters = {}
    /\ MaxLength \in Nat
    /\ Key # <<>> /\ {Key} \union CommandLines \subseteq Seq(1..255)

VARIABLES question, reply

strings_vars == <<question, reply>>

NUL == 0
Old == CHOOSE ch \in Letters : TRUE
NotFound == 0      \* NULL; other pointers are indexes

\* The byte at index i of a string in memory.
At_(s, i) == IF i <= Len(s) THEN s[i] ELSE IF i = Len(s) + 1 THEN NUL ELSE Old

Limit == 2 * MaxLength + 3

LeastOf(S) == IF S = {} THEN NotFound ELSE CHOOSE i \in S : \A j \in S : i <= j

-----------------------------------------------------------------------------
(* The loops                                                               *)

strlen(s) ==
    LET from[i \in 1..(Limit + 1)] == IF i > Limit \/ At_(s, i) = NUL THEN i - 1 ELSE from[i + 1]
    IN from[1]

\* The kernel's ends with the strings.
strncmp(s, t, n) ==
    LET from[i \in 1..(n + 1)] ==
            IF i > n THEN 0
            ELSE IF At_(s, i) # At_(t, i) THEN At_(s, i) - At_(t, i)
            ELSE IF At_(s, i) = NUL THEN 0 ELSE from[i + 1]
    IN from[1]

\* The kernel's counts them.
strlen_kernel(s) ==
    LET from[i \in 0..Limit] == IF i = Limit \/ At_(s, i + 1) = NUL THEN i ELSE from[i + 1]
    IN from[0]

\* The library's looks at n bytes whatever they are.
strncmp_library(s, t, n) ==
    LET from[i \in 1..(n + 1)] ==
            IF i > n THEN 0
            ELSE IF At_(s, i) # At_(t, i) THEN At_(s, i) - At_(t, i) ELSE from[i + 1]
    IN from[1]

\* memcmp() returns at the first of n bytes that differs: the kernel's tests
\* the count first, the library's has it in the loop.
memcmp_kernel(s, t, n) ==
    LET from[i \in 0..n] ==
            IF i = n THEN 0
            ELSE IF At_(s, i + 1) - At_(t, i + 1) # 0 THEN At_(s, i + 1) - At_(t, i + 1) ELSE from[i + 1]
    IN from[0]

memcmp(s, t, n) ==
    LET Result(i) == At_(s, i) - At_(t, i)
        nonzero == {i \in 1..n : Result(i) # 0}
    IN IF nonzero = {} THEN 0 ELSE Result(CHOOSE i \in nonzero : \A j \in nonzero : i <= j)

\* The n bytes that are written.
strncpy(s, n) ==
    LET copied[i \in 1..(n + 1)] == i > n \/ At_(s, i) = NUL
        end == CHOOSE i \in 1..(n + 1) : copied[i] /\ \A j \in 1..(i - 1) : ~copied[j]
    IN [i \in 1..n |-> IF i <= end THEN At_(s, i) ELSE NUL]

\* The kernel's in its two loops.
strncpy_kernel(s, n) ==
    LET ends == {i \in 1..n : At_(s, i) = NUL}
        copied == IF ends = {} THEN n ELSE CHOOSE i \in ends : \A j \in ends : i <= j
    IN [i \in 1..copied |-> At_(s, i)] \o [i \in 1..(n - copied) |-> NUL]

CopyLimit(n) == n - 1

\* What is written, the result is one less.
strlcpy(s, n) ==
    LET from[i \in 1..(CopyLimit(n) + 1)] ==
            IF i > CopyLimit(n) \/ At_(s, i) = NUL THEN <<NUL>> ELSE <<At_(s, i)>> \o from[i + 1]
    IN from[1]

\* The bytes from the end of t on.
strncat(t, s, n) ==
    LET from[i \in 1..(n + 1)] ==
            IF i > n \/ At_(s, i) = NUL THEN <<NUL>> ELSE <<At_(s, i)>> \o from[i + 1]
    IN [i \in 1..strlen(t) |-> t[i]] \o from[1]

\* From index first on; the 0 itself can be looked for.
strchr(s, ch, first) ==
    LET from[i \in 1..(Limit + 1)] ==
            IF At_(s, i) = ch THEN i ELSE IF i > Len(s) THEN NotFound ELSE from[i + 1]
    IN from[first]

strrchr(s, ch) ==
    LET from[i \in 1..(Limit + 1)] ==
            LET rest == IF i > Len(s) THEN NotFound ELSE from[i + 1]
            IN IF rest = NotFound /\ At_(s, i) = ch THEN i ELSE rest
    IN from[1]

strstr(s, t) ==
    LET from[i \in 1..(Limit + 1)] ==
            LET p == strchr(s, At_(t, 1), i)
            IN IF p = NotFound THEN NotFound
               ELSE IF strncmp_library(SubSeq(s, p, Len(s)), t, strlen(t)) = 0 THEN p
               ELSE from[p + 1]
    IN from[1]

isdigit(ch) == ch \in 48..57
isspace(ch) == ch \in {32, 12, 10, 13, 9, 11}
iscntrl(ch) == ch < 32 \/ ch = 127

\* A minus sign, then digits up to the first character that is none.
atoi(s) ==
    LET first == IF At_(s, 1) = 45 THEN 2 ELSE 1
        from[i \in 1..(Limit + 1), result \in Nat] ==
            IF isdigit(At_(s, i)) THEN from[i + 1, result * 10 + At_(s, i) - 48] ELSE result
    IN from[first, 0] * (IF first = 2 THEN -1 ELSE 1)

\* parse_cmdline_int() of atags.c: the number behind a key and the sign after
\* it.  The key is found in the middle of words, too, and neither search goes
\* to where less than the length of the key is left.
Digit_value(ch) == IF ch <= 57 THEN ch - 48 ELSE ch - 97 + 10

parse_cmdline_int(line, key) ==
    LET starts == {i \in 1..Len(line) : i + Len(key) - 1 <= Len(line)
                                          /\ SubSeq(line, i, i + Len(key) - 1) = key}
        at == LeastOf(starts) + Len(key) + 1
        hex == At_(line, at) = 48 /\ At_(line, at + 1) = 120
        base == IF hex THEN 16 ELSE 10
        from[i \in 1..(Limit + 20), result \in Int] ==
            IF i - 1 + Len(key) > Len(line) \/ At_(line, i) \in {32, NUL} THEN result
            ELSE from[i + 1, result * base + Digit_value(At_(line, i))]
    IN IF starts = {} THEN 0 ELSE from[IF hex THEN at + 2 ELSE at, 0]

-----------------------------------------------------------------------------
(* Calls, within what their callers keep to                                *)

Of(letters, n) == UNION {[1..k -> letters] : k \in 0..n}

Texts == Of(Letters, MaxLength)

Question(routine, s, t, n) == [routine |-> routine, s |-> s, t |-> t, n |-> n]

Questions ==
    [routine : {"strncmp"}, s : Texts, t : Texts, n : 0..(MaxLength + 1)]
    \union {q \in [routine : {"compare"}, s : Texts, t : Texts, n : 0..(MaxLength + 1)] :
              q.n <= Len(q.s) + 1 \/ q.n <= Len(q.t) + 1}
    \union [routine : {"strlen"}, s : Texts, t : {<<>>}, n : {0}]
    \union [routine : {"strncpy"}, s : Texts, t : {<<>>}, n : 0..(MaxLength + 2)]
    \union [routine : {"strlcpy"}, s : Texts, t : {<<>>}, n : 1..(MaxLength + 2)]
    \union [routine : {"strncat"}, s : Texts, t : Texts, n : 0..(MaxLength + 1)]
    \union [routine : {"strchr"}, s : Texts, t : {<<ch>> : ch \in Letters \union {NUL}}, n : {0}]
    \union {q \in [routine : {"strstr"}, s : Texts, t : Texts, n : {0}] : q.t # <<>>}
    \union [routine : {"cmdline"}, s : CommandLines, t : {Key}, n : {0}]
    \union [routine : {"atoi"}, s : {<<>>, <<45>>}, t : Of({48, 49, 57} \union Letters, 3), n : {0}]

Reply(q) ==
    CASE q.routine = "strncmp" -> strncmp(q.s, q.t, q.n)
      [] q.routine = "compare" ->
            <<strncmp_library(q.s, q.t, q.n), memcmp(q.s, q.t, q.n), memcmp_kernel(q.s, q.t, q.n)>>
      [] q.routine = "strncpy" -> <<strncpy(q.s, q.n), strncpy_kernel(q.s, q.n)>>
      [] q.routine = "strlen"  -> <<strlen(q.s), strlen_kernel(q.s)>>
      [] q.routine = "strlcpy" -> strlcpy(q.s, q.n)
      [] q.routine = "strncat" -> strncat(q.t, q.s, q.n)
      [] q.routine = "strchr" -> <<strchr(q.s, q.t[1], 1), strrchr(q.s, q.t[1])>>
      [] q.routine = "strstr"  -> strstr(q.s, q.t)
      [] q.routine = "cmdline" -> parse_cmdline_int(q.s, q.t)
      [] q.routine = "atoi"    -> atoi(q.s \o q.t)

string_call ==
    /\ question.routine = "none"
    /\ question' \in Questions
    /\ reply' = Reply(question')

StringsInit == question = Question("none", <<>>, <<>>, 0) /\ reply = 0

StringsNext == string_call

StringsSpec == StringsInit /\ [][StringsNext]_strings_vars

-----------------------------------------------------------------------------
(* Properties                                                              *)

\* The first n characters of a string and of its 0, at most.
Head_(s, n) == IF n <= Len(s) THEN SubSeq(s, 1, n) ELSE Append(s, NUL)

\* Where t is in s.
Places_(s, t) == {i \in 1..Len(s) : i + Len(t) - 1 <= Len(s) /\ SubSeq(s, i, i + Len(t) - 1) = t}

\* The order of strings: by the first character that differs.
Order(s, t) ==
    LET differ == {i \in 1..(Len(s) + 1) : At_(s, i) # At_(t, i)}
        first == CHOOSE i \in differ : \A j \in differ : i <= j
    IN IF s = t THEN 0 ELSE At_(s, first) - At_(t, first)

MostOf(S)  == IF S = {} THEN NotFound ELSE CHOOSE i \in S : \A j \in S : i >= j

Number(digits) == FoldLeft(LAMBDA n, ch : n * 10 + ch - 48, 0, digits)

\* The word behind the sign that follows the key, without its 0x.
Word_behind(line, key) ==
    LET sign == LeastOf(Places_(line, key)) + Len(key)
        hex == At_(line, sign + 1) = 48 /\ At_(line, sign + 2) = 120
        first == IF hex THEN sign + 3 ELSE sign + 1
        end == LeastOf({i \in first..(Len(line) + 1) : At_(line, i) \in {32, NUL}})
    IN [base |-> IF hex THEN 16 ELSE 10, digits |-> SubSeq(line, first, end - 1), end |-> end]

Value_of(digits, base) ==
    FoldLeft(LAMBDA sum, k : sum + Digit_value(digits[k]) * base ^ (Len(digits) - k), 0,
             [k \in DOMAIN digits |-> k])

\* atags.c:91-132: the number that is written behind the key is found, in
\* either base; where fewer characters follow than the key has but one, it
\* is what its first digits say.
CommandLineRight ==
    question.routine = "cmdline" =>
        LET line == question.s
            word == Word_behind(line, question.t)
        IN IF Places_(line, question.t) = {} THEN reply = 0
           ELSE IF Len(line) - (word.end - 1) >= Len(question.t) - 1
           THEN reply = Value_of(word.digits, word.base)
           ELSE \E n \in 0..Len(word.digits) : reply = Value_of(SubSeq(word.digits, 1, n), word.base)

\* string.c: strings are compared and copied within n bytes and within their
\* ends, the 0 is where the comments say, and what is found is the first (or
\* the last) that is there.
LibraryStringsRight ==
    LET q == question
        s == q.s
        t == q.t
        order == Order(IF q.n < Len(s) THEN SubSeq(s, 1, q.n) ELSE s,
                       IF q.n < Len(t) THEN SubSeq(t, 1, q.n) ELSE t)
    IN /\ q.routine = "strncmp" => reply = order
       /\ q.routine = "compare" => \A which \in 1..3 : reply[which] = order
       /\ q.routine = "strlen" => reply = <<Len(s), Len(s)>>
       /\ q.routine = "strncpy" =>
            \A which \in 1..2 :
                /\ Len(reply[which]) = q.n
                /\ IsPrefix(Head_(s, q.n), reply[which])
                /\ \A i \in 1..q.n : i > Len(s) => reply[which][i] = NUL
       /\ q.routine = "strlcpy" =>
            Len(reply) <= q.n /\ reply = Append(SubSeq(s, 1, IF q.n - 1 < Len(s) THEN q.n - 1 ELSE Len(s)), NUL)
       /\ q.routine = "strncat" =>
            reply = Append(t \o (IF q.n < Len(s) THEN SubSeq(s, 1, q.n) ELSE s), NUL)
       /\ q.routine = "strchr" =>
            LET places == Places_(Append(s, NUL), t)
            IN reply = <<LeastOf(places), MostOf(places)>>
       /\ q.routine = "strstr" => reply = LeastOf(Places_(s, t))
       /\ q.routine = "atoi" =>
            LET end == LeastOf({i \in 1..4 : ~isdigit(At_(t, i))})
            IN reply = (IF s = <<>> THEN 1 ELSE -1) * Number(SubSeq(t, 1, end - 1))

\* Together: strings are what their users take them for.
StringsRight == LibraryStringsRight /\ CommandLineRight

=============================================================================
