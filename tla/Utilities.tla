------------------------------- MODULE Utilities -------------------------------
(***************************************************************************)
(* The programs that work on files: cp, cat, cat_count, hexdump, truncate, *)
(* chmod, rm and df (userspace/), and the PCX pictures that the demo loads *)
(* (demo.demosplash2019/pcx_load.c).  A step is what a program does up to  *)
(* its next read() or write().                                             *)
(*                                                                         *)
(* read() may return less than was asked for, and an error at any time;    *)
(* write() may take less than it was given, or nothing.  A mode is what    *)
(* kind of file it is and the set of its nine permission bits.             *)
(***************************************************************************)
EXTENDS Integers, Sequences, FiniteSets, SequencesExt

CONSTANTS
    Utility_jobs,    \* what is started: [prog, ...], see the programs below
    First_files,     \* by path: bytes, or Absent
    First_mode,      \* of each
    COPY_SIZE,       \* BUF_SIZE of cp and cat; 256 and 128
    ROW_SIZE,        \* BUF_SIZE of hexdump, 16
    KILO,            \* 1024
    COUNTER,         \* 2^32, where a 32-bit product ends
    Statistics,      \* of file systems: [bsize, blocks, bfree]
    Unwritten        \* what may be in such a structure that nobody filled

ASSUME UtilitiesAssumption ==
    /\ {COPY_SIZE, ROW_SIZE, KILO, COUNTER} \subseteq Nat \ {0} /\ KILO > 1
    /\ \A s \in Statistics : s.bfree \in 0..s.blocks /\ {s.bsize, s.blocks} \subseteq Nat

VARIABLES
    ut_job,          \* the program and its arguments
    ut_at,           \* "start", "read", "write", "done"
    ut_files,        \* path -> bytes, or Absent
    ut_modes,        \* path -> [kind, bits]
    ut_in,           \* input_fd: [file, pos]
    ut_next,         \* files that cat opens after this one
    ut_pos,          \* where cp writes next; what hexdump counts
    ut_buffer,       \* what was read and not written
    ut_printed,      \* on the screen: bytes, rows or lines
    ut_before,       \* history: files and modes at the start
    ut_failed        \* history: making a file, a read() or write() failed, or
                     \* a write() was short

utility_vars == <<ut_job, ut_at, ut_files, ut_modes, ut_in, ut_next, ut_pos, ut_buffer, ut_printed,
                  ut_before, ut_failed>>

Absent == <<-1>>     \* of no file
There(path) == ut_files[path] # Absent

-----------------------------------------------------------------------------
(* The start: the arguments, and the first file                            *)

\* open() of the next file to read; on an error it is the end.
Opens(paths) ==
    /\ ut_next' = Tail(paths) /\ ut_in' = [file |-> Head(paths), pos |-> 0]
    /\ ut_at' = IF There(Head(paths)) THEN "read" ELSE "done"

Stays == UNCHANGED <<ut_in, ut_next, ut_pos, ut_buffer>>

\* [prog, from, to]: the copy is opened without O_TRUNC, and made if it is
\* not there; which may fail.
cp_main ==
    /\ ut_job'.prog = "cp"
    /\ \/ /\ Opens(<<ut_job'.from>>)
          /\ ut_files' = IF There(ut_job'.from) /\ ~There(ut_job'.to)
                         THEN [ut_files EXCEPT ![ut_job'.to] = <<>>] ELSE ut_files
          /\ UNCHANGED ut_failed
       \/ /\ There(ut_job'.from)
          /\ ut_at' = "done" /\ ut_failed' = TRUE
          /\ UNCHANGED <<ut_files, ut_in, ut_next>>
    /\ UNCHANGED <<ut_modes, ut_pos, ut_buffer, ut_printed>>

\* [prog, files]; cat_count and hexdump have one file, and bytes: how many.
cat_main ==
    /\ ut_job'.prog \in {"cat", "cat_count", "hexdump"} /\ Opens(ut_job'.files)
    /\ UNCHANGED <<ut_files, ut_modes, ut_pos, ut_buffer, ut_printed, ut_failed>>

Zeros(n) == [k \in 1..n |-> 0]
Cut(bytes, size) == IF size <= Len(bytes) THEN SubSeq(bytes, 1, size) ELSE bytes \o Zeros(size - Len(bytes))

\* [prog, file, size]: with -f the file is opened first, which comes to the
\* same.
truncate_main ==
    /\ ut_job'.prog = "truncate" /\ ut_at' = "done"
    /\ ut_files' = IF There(ut_job'.file)
                   THEN [ut_files EXCEPT ![ut_job'.file] = Cut(@, ut_job'.size)] ELSE ut_files
    /\ Stays /\ UNCHANGED <<ut_modes, ut_printed, ut_failed>>

\* Nine bits, of u, g and o; bit 0 is o's x.
Low_bits(n) == {k \in 0..8 : (n \div 2 ^ k) % 2 = 1}
Octal(digits) == FoldLeft(LAMBDA sum, digit : sum * 8 + digit, 0, digits)

Permission == [r |-> {2, 5, 8}, w |-> {1, 4, 7}, x |-> {0, 3, 6}]

\* parse_mode(): "0" and other digits, or "+" or "-" and one of "rwx"; what is
\* behind it is not looked at.  The kind is kept.
Understood(mode) == mode.sign = "0" \/ (mode.sign \in {"+", "-"} /\ mode.who \in DOMAIN Permission)
parse_mode(mode, old) ==
    CASE mode.sign = "0" -> [old EXCEPT !.bits = Low_bits(Octal(mode.digits))]
      [] mode.sign = "-" -> [old EXCEPT !.bits = @ \ Permission[mode.who]]
      [] mode.sign = "+" -> [old EXCEPT !.bits = @ \union Permission[mode.who]]

\* [prog, file, mode].  If stat() fails the old mode is what the stack held;
\* then there is no file to change.
chmod_main ==
    /\ ut_job'.prog = "chmod" /\ ut_at' = "done"
    /\ ut_modes' = IF There(ut_job'.file) /\ Understood(ut_job'.mode)
                   THEN [ut_modes EXCEPT ![ut_job'.file] = parse_mode(ut_job'.mode, @)] ELSE ut_modes
    /\ Stays /\ UNCHANGED <<ut_files, ut_printed, ut_failed>>

\* [prog, files]: one after the other, up to the first that is not there.
Removed(files, paths) ==
    FoldLeft(LAMBDA acc, path : IF acc.stopped \/ acc.files[path] = Absent THEN [acc EXCEPT !.stopped = TRUE]
                                ELSE [acc EXCEPT !.files[path] = Absent],
             [files |-> files, stopped |-> FALSE], paths).files

rm_main ==
    /\ ut_job'.prog = "rm" /\ ut_at' = "done"
    /\ ut_files' = Removed(ut_files, ut_job'.files)
    /\ Stays /\ UNCHANGED <<ut_modes, ut_printed, ut_failed>>

-----------------------------------------------------------------------------
(* df                                                                      *)

Blanks_df == {" ", "\t"}

\* The loops of main() over a line of fstab: the first character at or behind
\* k that is none, or one, of the blanks; the end of the line stops both.
Ends_line(entry, k) == k > Len(entry) \/ entry[k] = "\n"
Skips(entry, k, blanks) ==
    LET at[i \in k..(Len(entry) + 1)] ==
            IF Ends_line(entry, i) \/ (entry[i] \in Blanks_df) # blanks THEN i ELSE at[i + 1]
    IN at[k]

\* The words for which df() is called: none of a comment, of a line with less
\* than two words, and of one that ends with the second and has no line feed.
Fields(entry) ==
    LET device == Skips(entry, 1, TRUE)
        j == Skips(entry, device, FALSE)
        start == Skips(entry, j, TRUE)
        i == Skips(entry, start, FALSE)
    IN IF entry = <<>> \/ entry[1] = "#" \/ Ends_line(entry, device) \/ Ends_line(entry, start) \/ i > Len(entry)
       THEN <<>>
       ELSE <<[device |-> SubSeq(entry, device, j - 1), at |-> SubSeq(entry, start, i - 1)]>>

\* A number and how often it was divided by 1024.  "T" goes to 1024^5.
prettyprint(size) ==
    LET unit == IF size < KILO THEN 0 ELSE IF size < KILO ^ 2 THEN 1 ELSE IF size < KILO ^ 3 THEN 2
                ELSE IF size < KILO ^ 4 THEN 3 ELSE IF size < KILO ^ 5 THEN 4 ELSE 5
    IN [number |-> IF unit = 5 THEN 0 ELSE size \div KILO ^ unit, unit |-> unit]

\* The product has 32 bits.
Percent(s) == IF s.blocks = 0 THEN 100 ELSE 100 - ((100 * s.bfree) % COUNTER) \div s.blocks

\* What is used has 64 bits too: less than nothing is far above the last unit.
Line_of(fields, s, told) ==
    LET total == s.bsize * s.blocks
        free == s.bsize * s.bfree
    IN [fields |-> fields, total |-> prettyprint(total), free |-> prettyprint(free),
        used |-> IF total < free THEN [number |-> 0, unit |-> 5] ELSE prettyprint(total - free),
        percent |-> Percent(s), of |-> s, told |-> told]

\* [prog, fstab, lines]; without fstab there is the root.  statfs() of each,
\* whose failure is not looked at: the structure on the stack is as it was.
df_main ==
    /\ ut_job'.prog = "df" /\ ut_at' = "done"
    /\ LET wanted == IF ~ut_job'.fstab THEN <<[device |-> <<"/">>, at |-> <<"/">>]>>
                     ELSE FlattenSeq([k \in DOMAIN ut_job'.lines |-> Fields(ut_job'.lines[k])])
       IN \E s \in Statistics, old \in [DOMAIN wanted -> Unwritten], told \in [DOMAIN wanted -> BOOLEAN] :
             ut_printed' = [k \in DOMAIN wanted |-> Line_of(wanted[k], IF told[k] THEN s ELSE old[k], told[k])]
    /\ Stays /\ UNCHANGED <<ut_files, ut_modes, ut_failed>>

-----------------------------------------------------------------------------
(* Pictures                                                                *)

\* The pixel at out of the screen, unless it is one that fills up the line;
\* behind the last one of a line out is in the next line of the screen.
Pixel(state, color, pcx, across) ==
    LET last == state.x + 1 > pcx.bytes_per_line - 1
    IN [screen |-> IF state.x < pcx.xsize THEN [state.screen EXCEPT ![state.out] = color] ELSE state.screen,
        total |-> state.total + 1, x |-> IF last THEN 0 ELSE state.x + 1,
        out |-> state.out + 1 + (IF last THEN across - pcx.bytes_per_line ELSE 0)]

\* A run is cut at the end of a line.
Run(state, count, color, pcx, across) ==
    LET left == pcx.bytes_per_line - state.x
        n == IF count < left THEN count ELSE left
    IN FoldLeft(LAMBDA acc, k : Pixel(acc, color, pcx, across), state, [k \in 1..n |-> k])

\* vmwLoadPCX(): bytes from 0xc0 on have a count in their lower six bits.
vmwLoadPCX(pcx, at, screen, across) ==
    LET size == pcx.bytes_per_line * pcx.ysize
        RECURSIVE Loaded(_, _)
        Loaded(k, state) ==
            IF state.total >= size THEN state.screen
            ELSE IF pcx.bytes[k] \div 64 = 3
                 THEN Loaded(k + 2, Run(state, pcx.bytes[k] % 64, pcx.bytes[k + 1], pcx, across))
                 ELSE Loaded(k + 1, Pixel(state, pcx.bytes[k], pcx, across))
    IN Loaded(1, [screen |-> screen, total |-> 0, x |-> 0, out |-> at.y * across + at.x])

\* vmwPCXLoadPalette(): 12, and three bytes for each of the colors.
vmwPCXLoadPalette(bytes, offset, colors) ==
    IF bytes[offset + 1] # 12 THEN <<>>
    ELSE [k \in 1..colors |-> [red |-> bytes[offset + 3 * k - 1], green |-> bytes[offset + 3 * k],
                               blue |-> bytes[offset + 3 * k + 1]]]

\* svmwgraph.c.  A screen is what is at each offset of the buffer.
Painted(screen, spots, color) == [p \in DOMAIN screen |-> IF p \in spots THEN color ELSE screen[p]]

vmwHlin(x1, x2, y, color, screen, across) == Painted(screen, {y * across + x : x \in x1..(x2 - 1)}, color)
vmwVlin(y1, y2, x, color, screen, across) == Painted(screen, {y * across + x : y \in y1..(y2 - 1)}, color)
vmwPlot(x, y, color, screen, across) == Painted(screen, {y * across + x}, color)
vmwClearScreenY(starty, color, screen, across) ==
    Painted(screen, {p \in DOMAIN screen : p >= starty * across}, color)

\* One of red, green and blue of a color, at every update of the screen; the
\* screen is updated 256 / FADESPEED times.
FADESPEED == 8
Darker(level) == IF level > FADESPEED THEN level - FADESPEED ELSE 0
Lighter(level, goal) == IF level < goal - FADESPEED THEN level + FADESPEED ELSE goal
Updates(first, Then(_)) ==
    LET shown[k \in 0..(256 \div FADESPEED)] == IF k = 0 THEN first ELSE Then(shown[k - 1]) IN shown
vmwFadeToBlack(level) == Updates(level, Darker)
vmwFadeFromBlack(goal) == Updates(0, LAMBDA level : Lighter(level, goal))

\* Offset p, seen from the pointer to (x, y): the pointer walks on into the
\* next line of the screen at the right edge.
Past(p, x, y, across) == p - (y * across + x)
Inside(p, x, y, width, height, across) ==
    Past(p, x, y, across) >= 0 /\ Past(p, x, y, across) % across < width
        /\ Past(p, x, y, across) \div across < height

\* A sprite is its rows; 255 is not drawn.  Only drawing stops at the edges.
put_sprite_cropped(screen, sprite, x, y, across, down) ==
    [p \in DOMAIN screen |->
        LET xx == Past(p, x, y, across) % across
            yy == Past(p, x, y, across) \div across
        IN IF /\ Inside(p, x, y, Len(sprite[1]), Len(sprite), across)
              /\ xx + x < across /\ yy + y < down /\ sprite[yy + 1][xx + 1] # 255
           THEN sprite[yy + 1][xx + 1] ELSE screen[p]]
erase_sprite_cropped(screen, sprite, x, y, across) ==
    Painted(screen, {p \in DOMAIN screen : Inside(p, x, y, Len(sprite[1]), Len(sprite), across)}, 0)

\* print_string.c.  A character is a byte for each of its rows, of which bit
\* FONTSIZE_X - xx is tested: the first column is always empty and the lowest
\* bit is never shown.
FONTSIZE_X == 8
Dot(char, xx, yy) == (char[yy + 1] \div 2 ^ (FONTSIZE_X - xx)) % 2 = 1

\* put_char() and put_charx2(): each dot is a square of size by size pixels.
put_char(screen, char, size, x, y, inks, across) ==
    [p \in DOMAIN screen |->
        LET xx == (Past(p, x, y, across) % across) \div size
            yy == (Past(p, x, y, across) \div across) \div size
        IN IF ~Inside(p, x, y, size * FONTSIZE_X, size * Len(char), across) THEN screen[p]
           ELSE IF Dot(char, xx, yy) THEN inks.fg ELSE IF inks.overwrite THEN inks.bg ELSE screen[p]]
put_charx2(screen, char, x, y, inks, across) == put_char(screen, char, 2, x, y, inks, across)

\* In front of the first row or column there may be some of it.
put_char_cropped(screen, char, x, y, inks, across) ==
    [p \in DOMAIN screen |->
        LET xx == (p % across) - x
            yy == (p \div across) - y
        IN IF xx \notin 0..(FONTSIZE_X - 1) \/ yy \notin 0..(Len(char) - 1) THEN screen[p]
           ELSE IF Dot(char, xx, yy) THEN inks.fg ELSE IF inks.overwrite THEN inks.bg ELSE screen[p]]

\* Each row is two colors further on than the one before; black is a box.
put_charx4(screen, char, x, y, fg, across) ==
    [p \in DOMAIN screen |->
        LET xx == (Past(p, x, y, across) % across) \div 4
            line == Past(p, x, y, across) \div across
        IN IF /\ Inside(p, x, y, 4 * FONTSIZE_X, 4 * Len(char), across)
              /\ Dot(char, xx, line \div 4) \/ fg = 0
           THEN IF fg = 0 THEN 0 ELSE fg + line \div 2 ELSE screen[p]]

\* vmwTextXY(), print_string() and the larger ones.
vmwTextXY(screen, string, size, x, y, inks, across) ==
    FoldLeft(LAMBDA acc, k :
                 LET left == x + (k - 1) * size * FONTSIZE_X
                 IN CASE size = 1 -> put_char(acc, string[k], 1, left, y, inks, across)
                      [] size = 2 -> put_charx2(acc, string[k], left, y, inks, across)
                      [] size = 4 -> put_charx4(acc, string[k], left, y, inks.fg, across),
             screen, [k \in DOMAIN string |-> k])

Black(across, down) == [p \in 0..(across * down - 1) |-> 0]

\* [prog, pcx, at, across, down].
pcx_main ==
    /\ ut_job'.prog = "pcx" /\ ut_at' = "done"
    /\ ut_printed' = vmwLoadPCX(ut_job'.pcx, ut_job'.at, Black(ut_job'.across, ut_job'.down), ut_job'.across)
    /\ Stays /\ UNCHANGED <<ut_files, ut_modes, ut_failed>>

\* What the demo draws on a screen of one color: [prog, draw, across, down,
\* ...].  A frame is four lines, its inside is cleared from a row on.
Framed(job, screen) ==
    LET a == job.across
    IN vmwPlot(job.x, job.y, 3,
         vmwVlin(job.y, job.y2, job.x, 2, vmwHlin(job.x, job.x2, job.y, 1,
             vmwClearScreenY(job.y, 4, screen, a), a), a), a)

draw_main ==
    /\ ut_job'.prog = "draw" /\ ut_at' = "done"
    /\ LET job == ut_job'
           a == job.across
           screen == [p \in 0..(a * job.down - 1) |-> 9]
           sprite == put_sprite_cropped(screen, job.sprite, job.x, job.y, a, job.down)
       IN ut_printed' =
            CASE job.draw = "frame" -> Framed(job, screen)
              [] job.draw = "sprite" -> <<sprite, erase_sprite_cropped(sprite, job.sprite, job.x, job.y, a)>>
              [] job.draw = "text" -> vmwTextXY(screen, job.string, job.size, job.x, job.y, job.inks, a)
              [] job.draw = "char" -> put_char_cropped(screen, job.string[1], job.x, job.y, job.inks, a)
              [] job.draw = "fade" -> <<vmwFadeToBlack(job.level), vmwFadeFromBlack(job.level)>>
              [] job.draw = "palette" -> vmwPCXLoadPalette(job.bytes, job.offset, job.colors)
    /\ Stays /\ UNCHANGED <<ut_files, ut_modes, ut_failed>>

utility_main ==
    /\ ut_at = "start" /\ ut_job' \in Utility_jobs
    /\ \/ cp_main \/ cat_main \/ truncate_main \/ chmod_main \/ rm_main \/ df_main
       \/ pcx_main \/ draw_main
    /\ ut_before' = [files |-> ut_files, modes |-> ut_modes]

-----------------------------------------------------------------------------
(* The loops                                                               *)

\* What read() was asked for.
Amount == CASE ut_job.prog = "hexdump" -> ROW_SIZE [] ut_job.prog = "cat_count" -> ut_job.bytes
            [] OTHER -> COPY_SIZE

\* Of the rest of the file, what the buffer takes or less.
read_some ==
    /\ ut_at = "read"
    /\ \E n \in 1..Amount :
          LET rest == Len(ut_files[ut_in.file]) - ut_in.pos
          IN /\ n <= rest
             /\ ut_buffer' = SubSeq(ut_files[ut_in.file], ut_in.pos + 1, ut_in.pos + n)
             /\ ut_in' = [ut_in EXCEPT !.pos = @ + n]
    /\ ut_at' = "write"
    /\ UNCHANGED <<ut_job, ut_before, ut_files, ut_modes, ut_next, ut_pos, ut_printed, ut_failed>>

\* Behind the last byte, or an error: the next file, or the end.  Nobody
\* hears of the error but from hexdump.
Next_file ==
    /\ IF ut_next = <<>> THEN ut_at' = "done" /\ UNCHANGED <<ut_in, ut_next>> ELSE Opens(ut_next)
    /\ ut_buffer' = <<>>

read_ends ==
    /\ ut_at = "read"
    /\ \/ (ut_in.pos = Len(ut_files[ut_in.file]) \/ Amount = 0) /\ UNCHANGED ut_failed
       \/ ut_failed' = TRUE
    /\ Next_file
    /\ UNCHANGED <<ut_job, ut_before, ut_files, ut_modes, ut_pos, ut_printed>>

\* Over what is there.
Overlaid(bytes, at, new) == SubSeq(bytes, 1, at) \o new \o SubSeq(bytes, at + Len(new) + 1, Len(bytes))

\* cp() and cat(): what write() did not take is not written again.
write_some ==
    /\ ut_at = "write" /\ ut_job.prog # "hexdump"
    /\ \E n \in 1..Len(ut_buffer) :
          LET new == SubSeq(ut_buffer, 1, n)
          IN /\ IF ut_job.prog = "cp"
                THEN /\ ut_files' = [ut_files EXCEPT ![ut_job.to] = Overlaid(@, ut_pos, new)]
                     /\ UNCHANGED ut_printed
                ELSE ut_printed' = ut_printed \o new /\ UNCHANGED ut_files
             /\ ut_pos' = ut_pos + n
             /\ ut_failed' = (ut_failed \/ n < Len(ut_buffer))
    /\ ut_buffer' = <<>>
    /\ ut_at' = IF ut_job.prog = "cat_count" THEN "done" ELSE "read"
    /\ UNCHANGED <<ut_job, ut_before, ut_modes, ut_in, ut_next>>

\* An error ends cp; cat goes on with the next file.
write_fails ==
    /\ ut_at = "write" /\ ut_job.prog # "hexdump"
    /\ ut_failed' = TRUE
    /\ Next_file
    /\ UNCHANGED <<ut_job, ut_before, ut_files, ut_modes, ut_pos, ut_printed>>

\* hexdump(): a row of what was read, with the number of the first of its
\* bytes; up to the row that reaches the number of bytes asked for, if any.
hexdump ==
    /\ ut_at = "write" /\ ut_job.prog = "hexdump"
    /\ ut_printed' = Append(ut_printed, [at |-> ut_pos, bytes |-> ut_buffer])
    /\ ut_pos' = ut_pos + Len(ut_buffer)
    /\ ut_buffer' = <<>>
    /\ ut_at' = IF ut_job.bytes > 0 /\ ut_pos' >= ut_job.bytes THEN "done" ELSE "read"
    /\ UNCHANGED <<ut_job, ut_before, ut_files, ut_modes, ut_in, ut_next, ut_failed>>

UtilitiesInit ==
    /\ ut_job = [prog |-> "none"] /\ ut_at = "start"
    /\ ut_files \in First_files /\ ut_modes = [path \in DOMAIN ut_files |-> First_mode]
    /\ ut_in = [file |-> 0, pos |-> 0] /\ ut_next = <<>> /\ ut_pos = 0
    /\ ut_buffer = <<>> /\ ut_printed = <<>>
    /\ ut_before = [files |-> ut_files, modes |-> ut_modes] /\ ut_failed = FALSE

UtilitiesNext == utility_main \/ read_some \/ read_ends \/ write_some \/ write_fails \/ hexdump

UtilitiesSpec == UtilitiesInit /\ [][UtilitiesNext]_utility_vars

-----------------------------------------------------------------------------
(* Properties                                                              *)

Before(path) == ut_before.files[path]
Content(path) == IF Before(path) = Absent THEN <<>> ELSE Before(path)

\* cp.c:22-78: when nothing failed and no write() was short, the copy begins
\* with the file, in whatever pieces it was read, and goes on as it did if it
\* was longer; also when it is the file itself.  No other file changes, and
\* without the file no copy is made.
CopyRight ==
    ut_job.prog = "cp" =>
        /\ \A path \in DOMAIN ut_files : path # ut_job.to => ut_files[path] = Before(path)
        /\ ut_at = "done" /\ ~ut_failed =>
              ut_files[ut_job.to] =
                  IF Before(ut_job.from) = Absent THEN Before(ut_job.to)
                  ELSE Content(ut_job.from) \o
                       SubSeq(Content(ut_job.to), Len(Content(ut_job.from)) + 1, Len(Content(ut_job.to)))

\* cat.c:20-71, cat_count.c:38-75: what is printed are the files, up to the
\* first that is not there, or of one file no more than was asked for.
Until_absent(paths) ==
    SelectInSeq(paths, LAMBDA path : Before(path) = Absent)

CatRight ==
    /\ ut_job.prog = "cat" /\ ~ut_failed =>
          LET first == Until_absent(ut_job.files)
              there == IF first = 0 THEN ut_job.files ELSE SubSeq(ut_job.files, 1, first - 1)
              all == FlattenSeq([k \in DOMAIN there |-> Before(there[k])])
          IN IsPrefix(ut_printed, all) /\ (ut_at = "done" => ut_printed = all)
    /\ ut_job.prog = "cat_count" =>
          IsPrefix(ut_printed, Content(ut_job.files[1])) /\ Len(ut_printed) <= ut_job.bytes

\* hexdump.c:19-64: the rows are the file, each numbered by what is before it;
\* all of the file, or as many rows as reach the number of bytes asked for.
DumpRight ==
    ut_job.prog = "hexdump" =>
        LET file == Content(ut_job.files[1])
        IN /\ FlattenSeq([k \in DOMAIN ut_printed |-> ut_printed[k].bytes]) = SubSeq(file, 1, ut_pos)
           /\ \A k \in DOMAIN ut_printed :
                 /\ Len(ut_printed[k].bytes) \in 1..ROW_SIZE
                 /\ SubSeq(file, ut_printed[k].at + 1, ut_printed[k].at + Len(ut_printed[k].bytes))
                       = ut_printed[k].bytes
           /\ ut_at = "done" /\ ~ut_failed =>
                 ut_pos = Len(file) \/ ut_pos - ut_job.bytes \in 0..(ROW_SIZE - 1)

\* truncate.c:27-78, chmod.c:20-96, rm.c:26-56: the file has its new length,
\* with zeros behind what it had; each digit is three bits of the mode, and a
\* letter the same one of all three, and no other changes; the files that were
\* there when their turn came, before one that was not, have gone.
Digit_bit(digits, k) ==
    LET n == Len(digits) - (k \div 3) IN n > 0 /\ (digits[n] \div 2 ^ (k % 3)) % 2 = 1

FilesRight ==
    /\ ut_job.prog = "truncate" /\ ut_at = "done" /\ Before(ut_job.file) # Absent =>
          LET file == ut_files[ut_job.file]
          IN /\ Len(file) = ut_job.size
             /\ \A k \in DOMAIN file :
                   file[k] = IF k <= Len(Before(ut_job.file)) THEN Before(ut_job.file)[k] ELSE 0
    /\ ut_job.prog = "chmod" /\ ut_at = "done" =>
          \A path \in DOMAIN ut_modes :
              LET old == ut_before.modes[path]
              IN /\ ut_modes[path].kind = old.kind
                 /\ \A k \in 0..8 :
                       k \in ut_modes[path].bits <=>
                          IF path # ut_job.file \/ Before(path) = Absent THEN k \in old.bits
                          ELSE CASE ut_job.mode.sign = "0" -> Digit_bit(ut_job.mode.digits, k)
                                 [] ut_job.mode.sign \in {"+", "-"}
                                    /\ <<"x", "w", "r">>[(k % 3) + 1] = ut_job.mode.who -> ut_job.mode.sign = "+"
                                 [] OTHER -> k \in old.bits
    /\ ut_job.prog = "rm" /\ ut_at = "done" =>
          \A path \in DOMAIN ut_files :
              LET Gone(k) == \/ Before(ut_job.files[k]) = Absent
                             \/ \E j \in 1..(k - 1) : ut_job.files[j] = ut_job.files[k]
                  met == \E k \in DOMAIN ut_job.files :
                            ut_job.files[k] = path /\ \A j \in 1..k : ~Gone(j)
              IN ut_files[path] = IF met THEN Absent ELSE Before(path)

\* df.c:18-162: there is a line for each of fstab that has two words and
\* something behind them, and is no comment; sizes are rounded down to the unit
\* they have less than 1024 of, and the percentage that is used is rounded up,
\* as long as a hundred times what is free fits in 32 bits.
Is_entry(entry, a, b, c, d) ==
    /\ a <= b /\ b + 1 < c /\ c <= d /\ entry[1] # "#"
    /\ \A k \in 1..(d + 1) :
          entry[k] \in (IF k \in a..b \/ k \in c..d THEN {x \in Range(entry) : x \notin Blanks_df \union {"\n"}}
                       ELSE IF k = d + 1 THEN Blanks_df \union {"\n"} ELSE Blanks_df)

Entries_of(entry) ==
    LET at == {p \in (1..Len(entry)) \X (1..Len(entry)) \X (1..Len(entry)) \X (1..(Len(entry) - 1)) :
                  Is_entry(entry, p[1], p[2], p[3], p[4])}
    IN {[device |-> SubSeq(entry, p[1], p[2]), at |-> SubSeq(entry, p[3], p[4])] : p \in at}

Rounded(shown, size) ==
    shown.unit < 5 =>
        /\ shown.number * KILO ^ shown.unit <= size /\ size < (shown.number + 1) * KILO ^ shown.unit
        /\ shown.unit < 4 => shown.number < KILO
        /\ shown.unit > 0 => shown.number > 0

DfRight ==
    ut_job.prog = "df" =>
        /\ ut_job.fstab =>
              LET listed == SelectSeq(ut_job.lines, LAMBDA entry : Entries_of(entry) # {})
              IN /\ Len(ut_printed) = Len(listed)
                 /\ \A k \in DOMAIN listed : Entries_of(listed[k]) = {ut_printed[k].fields}
        /\ \A k \in DOMAIN ut_printed :
              LET row == ut_printed[k]
                  s == row.of
                  used == s.blocks - s.bfree
              IN row.told =>
                 /\ Rounded(row.total, s.bsize * s.blocks) /\ Rounded(row.free, s.bsize * s.bfree)
                 /\ Rounded(row.used, s.bsize * used)
                 /\ s.blocks > 0 /\ 100 * s.bfree < COUNTER =>
                       row.percent * s.blocks >= 100 * used /\ (row.percent - 1) * s.blocks < 100 * used

\* pcx_load.c:19-148: a picture that is packed row by row, in whatever runs,
\* has each of its pixels at its place on the screen, the bytes that fill up a
\* row are nowhere, and nothing else of the screen has changed.
Row_of(packed) ==
    FlattenSeq([k \in DOMAIN packed |->
        IF Len(packed[k]) = 1 THEN packed[k] ELSE [j \in 1..(packed[k][1] - 192) |-> packed[k][2]]])

PictureRight ==
    ut_job.prog = "pcx" /\ ut_at = "done" =>
        \A y \in 0..(ut_job.down - 1), x \in 0..(ut_job.across - 1) :
            LET row == y - ut_job.at.y + 1
                column == x - ut_job.at.x + 1
            IN ut_printed[y * ut_job.across + x] =
                  IF row \in 1..ut_job.pcx.ysize /\ column \in 1..ut_job.pcx.xsize
                  THEN Row_of(ut_job.pcx.rows[row])[column] ELSE 0

\* svmwgraph.c, print_string.c: every pixel of the screen, by its column and
\* its row, is what was drawn there or has not changed: of a string the seven
\* upper bits of the letters' rows, as large as wanted; of a sprite what is on
\* the screen; of one that is wholly there nothing is left when it is erased.
\* A fade begins and ends where it should and never goes the other way.
Letter_dot(string, size, column, row) ==
    LET wide == 8 * size
        bit == 8 - ((column % wide) \div size)
    IN /\ column \in 0..(wide * Len(string) - 1) /\ row \in 0..(size * Len(string[1]) - 1)
       /\ bit < 8 /\ (string[column \div wide + 1][row \div size + 1] \div 2 ^ bit) % 2 = 1

Within(column, row, width, height) == column \in 0..(width - 1) /\ row \in 0..(height - 1)

PixelRight(job, screens, px, py) ==
    LET at == py * job.across + px
        column == px - job.x
        row == py - job.y
        size == IF job.draw = "text" THEN job.size ELSE 1
        width == 8 * size * Len(job.string)
        sprite_wide == Len(job.sprite[1])
        ink == IF size = 4 THEN (IF job.inks.fg = 0 THEN 0 ELSE job.inks.fg + row \div 2) ELSE job.inks.fg
    IN CASE job.draw = "frame" ->
              screens[at] = (CASE column = 0 /\ row = 0 -> 3
                               [] column = 0 /\ row > 0 /\ py < job.y2 -> 2
                               [] row = 0 /\ column > 0 /\ px < job.x2 -> 1
                               [] OTHER -> IF row >= 0 THEN 4 ELSE 9)
         [] job.draw \in {"text", "char"} ->
              screens[at] = (IF Letter_dot(job.string, size, column, row) THEN ink
                             ELSE IF ~Within(column, row, width, size * Len(job.string[1])) THEN 9
                             ELSE IF size = 4 THEN (IF job.inks.fg = 0 THEN 0 ELSE 9)
                             ELSE IF job.inks.overwrite THEN job.inks.bg ELSE 9)
         [] job.draw = "sprite" ->
              LET on == Within(column, row, sprite_wide, Len(job.sprite))
              IN /\ screens[1][at] = IF on /\ job.sprite[row + 1][column + 1] # 255
                                     THEN job.sprite[row + 1][column + 1] ELSE 9
                 /\ job.x + sprite_wide <= job.across => screens[2][at] = IF on THEN 0 ELSE 9

DrawingRight ==
    ut_job.prog = "draw" /\ ut_at = "done" =>
        IF ut_job.draw = "fade"
        THEN LET last == 256 \div FADESPEED
             IN /\ ut_printed[1][0] = ut_job.level /\ ut_printed[1][last] = 0
                /\ ut_printed[2][0] = 0 /\ ut_printed[2][last] = ut_job.level
                /\ \A k \in 1..last : ut_printed[1][k] <= ut_printed[1][k - 1]
                                      /\ ut_printed[2][k] >= ut_printed[2][k - 1]
        ELSE IF ut_job.draw = "palette"
        THEN ut_printed # <<>> =>
                FlattenSeq([k \in DOMAIN ut_printed |-> <<ut_printed[k].red, ut_printed[k].green, ut_printed[k].blue>>])
                    = SubSeq(ut_job.bytes, ut_job.offset + 2, ut_job.offset + 1 + 3 * ut_job.colors)
        ELSE \A px \in 0..(ut_job.across - 1), py \in 0..(ut_job.down - 1) :
                PixelRight(ut_job, ut_printed, px, py)

UtilitiesRight ==
    CopyRight /\ CatRight /\ DumpRight /\ FilesRight /\ DfRight /\ PictureRight /\ DrawingRight

=============================================================================
