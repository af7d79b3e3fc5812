--------------------------------- MODULE Tools ---------------------------------
(***************************************************************************)
(* What is started from the shell most: ls, md5sum and ll.                 *)
(***************************************************************************)
EXTENDS Integers, Sequences, FiniteSets, SequencesExt
LOCAL INSTANCE Bitwise

-----------------------------------------------------------------------------
(***************************************************************************)
(* ls (userspace/ls.c).  It goes through the directory twice: once for the *)
(* longest name or the largest size, which says how wide the columns are,  *)
(* and, having opened the directory again because it cannot be rewound, to *)
(* print.  Other processes change the directory meanwhile.                 *)
(*                                                                         *)
(* A name is modelled by its length: no two here have the same one.  What  *)
(* getdents() leaves out when an entry comes or goes is the file system's  *)
(* (Catalog, Romfs); here entries keep their places.  Colours are "dir",   *)
(* "exe", "dev", "link" and "plain"; a cell is what is printed of a name,  *)
(* blanks behind it included.                                              *)
(***************************************************************************)

CONSTANTS
    Names_in,        \* the lengths of the names
    Places,          \* of entries in the directory
    ModeOf,          \* mode of each file
    DeviceOf,        \* st_dev of each file, as <<major, minor>>
    SizesOf,         \* sizes a file may have
    Arguments_ls,    \* lists of arguments ls is started with
    Seconds,         \* dates to print
    PerBuffer,       \* bound: entries that fit in BUF_SIZE
    MaxChanges       \* bound: changes of the directory while ls runs

ASSUME ListingAssumption ==
    /\ Names_in \subseteq 1..29 /\ Places \subseteq Nat \ {0} /\ IsFiniteSet(Places)
    /\ Seconds \subseteq Nat /\ SizesOf \subseteq Nat
    /\ PerBuffer \in Nat \ {0} /\ MaxChanges \in Nat

VARIABLES
    ls_at,           \* "start", "first", "second", "done", "endless", "date"
    ls_how,          \* "plain", "inode" or "long"
    ls_dir,          \* place -> name, 0 for none
    ls_sizes,        \* name -> size
    ls_fd,           \* the directory is open
    ls_place,        \* where getdents() goes on
    ls_buffer,       \* names read and not looked at
    ls_widest,       \* max_filename_len, or max_len
    ls_stat,         \* stat_buf: [mode, size, of], of the name it is about
    ls_rows,         \* what was printed: rows of cells
    ls_changes,      \* history: changes of the directory
    ls_unseen,       \* history: a name or a size came since the first pass
                     \* began, or it saw nothing as open() failed
    ls_steady,       \* history: names there all the time
    ls_date          \* the date printed last

listing_vars == <<ls_at, ls_how, ls_dir, ls_sizes, ls_fd, ls_place, ls_buffer, ls_widest,
                  ls_stat, ls_rows, ls_changes, ls_unseen, ls_steady, ls_date>>

-----------------------------------------------------------------------------
(* What is printed of a file                                               *)

Leap(year) == year % 4 = 0 /\ (year % 100 # 0 \/ year % 400 = 0)
Month_days == <<31, 28, 31, 30, 31, 30, 31, 31, 30, 31, 30, 31>>
DaysIn(month, year) == Month_days[month] + (IF month = 2 /\ Leap(year) THEN 1 ELSE 0)
Day_ == 24 * 60 * 60

\* Years, then months, then days are taken off as long as they fit.
print_date(s) ==
    LET year[y \in 1970..2039, t \in 0..s] ==
            LET long == (IF Leap(y) THEN 366 ELSE 365) * Day_
            IN IF t < long THEN <<y, t>> ELSE year[y + 1, t - long]
        ye == year[1970, s]
        month[m \in 1..13, t \in 0..s] ==
            LET long == DaysIn(m, ye[1]) * Day_
            IN IF t < long THEN <<m, t>> ELSE month[m + 1, t - long]
        mo == month[1, ye[2]]
    IN [year |-> ye[1], month |-> mo[1], day |-> mo[2] \div Day_ + 1,
        hour |-> (mo[2] % Day_) \div 3600, min |-> (mo[2] % 3600) \div 60, seconds |-> mo[2] % 60]

\* (rwx) three times; the letter before them is the type's.
print_permissions(mode) ==
    [k \in 1..9 |-> IF (mode \div 2 ^ (9 - k)) % 2 = 1 THEN <<"r", "w", "x">>[((k - 1) % 3) + 1] ELSE "-"]

S_IFMT(mode) == CASE mode \div 4096 = 4 -> "dir" [] mode \div 4096 = 8 -> "file"
                  [] mode \div 4096 = 2 -> "chr" [] mode \div 4096 = 6 -> "blk"
                  [] mode \div 4096 = 10 -> "lnk" [] OTHER -> "other"

print_file_color(mode) ==
    CASE S_IFMT(mode) = "dir" -> "dir"
      [] S_IFMT(mode) # "dir" /\ mode % 2 = 1 -> "exe"
      [] S_IFMT(mode) \in {"blk", "chr"} /\ mode % 2 = 0 -> "dev"
      [] S_IFMT(mode) = "lnk" /\ mode % 2 = 0 -> "link"
      [] OTHER -> "plain"

ilog10(value) == Cardinality({k \in 1..9 : value >= 10 ^ k})

-----------------------------------------------------------------------------
(* The columns of ls_plain() and ls_inode()                                *)

WIDTH == 80
Inode_ == IF ls_how = "inode" THEN 9 ELSE 0

Columns(widest) == WIDTH \div (widest + 1)

colwidth == WIDTH \div Columns(ls_widest + Inode_)

Cell(name, st) == [name |-> name, of |-> st.of, color |-> print_file_color(st.mode), wide |-> colwidth]

\* The blanks behind a name that is longer than its column are less than
\* none, which without a sign is very many.
Overrun(name) == name + Inode_ > colwidth

\* Of a long listing: the blanks before the size line the sizes up; a device
\* has its two numbers there, with ", " between them and no blanks before.
IsDevice(mode) == S_IFMT(mode) \in {"chr", "blk"}

Long_line(name, st) ==
    LET padding == ilog10(ls_widest) - ilog10(st.size)
    IN [name |-> name, of |-> st.of, color |-> print_file_color(st.mode),
        permissions |-> print_permissions(st.mode),
        wide |-> IF IsDevice(st.mode) THEN ilog10(st.dev[1]) + ilog10(st.dev[2]) + 4
                 ELSE (IF padding > 0 THEN padding ELSE 0) + ilog10(st.size) + 1]

\* A row is ended when it has all its columns.
Printed(rows, cell) ==
    LET now == Append(Last(rows), cell)
    IN IF ls_how = "long" \/ Len(now) >= Columns(ls_widest + Inode_)
       THEN Append(Front(rows) \o <<now>>, <<>>) ELSE Front(rows) \o <<now>>

-----------------------------------------------------------------------------
(* main(), ls_plain(), ls_inode(), ls_long()                               *)

Directories ==
    {entries \in [Places -> Names_in \union {0}] :
        \A p, q \in Places : entries[p] = entries[q] /\ entries[p] # 0 => p = q}
Listed == {ls_dir[p] : p \in Places} \ {0}

\* The last option of each kind and the last name are what counts; "-i" before
\* "-l".
Chosen(arguments) ==
    LET named == {k \in DOMAIN arguments : arguments[k] \notin {"-i", "-l", "-x"}}
    IN [how |-> IF \E k \in DOMAIN arguments : arguments[k] = "-i" THEN "inode"
                ELSE IF \E k \in DOMAIN arguments : arguments[k] = "-l" THEN "long" ELSE "plain",
        path |-> IF named = {} THEN "." ELSE arguments[CHOOSE k \in named : \A j \in named : j <= k]]

Directory_stat == [mode |-> 4 * 4096 + 511, size |-> 0, dev |-> <<0, 0>>, of |-> 0]

\* What is listed is not there, is a file, or is a directory.  A directory
\* that cannot be opened is gone through like any other, and has no entry.
ls_main ==
    /\ ls_at = "start"
    /\ \E arguments \in Arguments_ls, found \in {"absent", "file", "directory"} :
          /\ Chosen(arguments).path = "." => found = "directory"
          /\ ls_how' = Chosen(arguments).how
          /\ ls_at' = IF found = "directory" THEN "first" ELSE "other"
    /\ ls_dir' \in Directories
    /\ \E long \in Names_in, small, large \in SizesOf :
          ls_sizes' = [n \in Names_in |-> IF n = long THEN large ELSE small]
    /\ ls_steady' = {ls_dir'[p] : p \in Places} \ {0}
    /\ ls_fd' \in BOOLEAN /\ ls_unseen' = ~ls_fd'
    /\ UNCHANGED <<ls_place, ls_buffer, ls_widest, ls_stat, ls_rows, ls_changes, ls_date>>

\* The next entries, in the order of their places.
getdents ==
    /\ ls_at \in {"first", "second"} /\ ls_fd /\ ls_buffer = <<>>
    /\ LET left == {p \in Places : p >= ls_place /\ ls_dir[p] # 0}
           order == SetToSortSeq(left, <)
           now == SubSeq(order, 1, IF Len(order) < PerBuffer THEN Len(order) ELSE PerBuffer)
       IN /\ left # {}
          /\ ls_buffer' = [k \in DOMAIN now |-> ls_dir[now[k]]]
          /\ ls_place' = Last(now) + 1
    /\ UNCHANGED <<ls_at, ls_how, ls_dir, ls_sizes, ls_fd, ls_widest, ls_stat, ls_rows, ls_changes,
                   ls_unseen, ls_steady, ls_date>>

\* stat() of a name; when it has gone, what the buffer held before: nothing
\* anybody wrote, in list_file_long().
Found(name) ==
    IF name \in Listed
    THEN {[mode |-> ModeOf[name], size |-> ls_sizes[name], dev |-> DeviceOf[name], of |-> name]}
    ELSE IF ls_how = "long" /\ ls_at = "second"
         THEN {[mode |-> ModeOf[n], size |-> z, dev |-> DeviceOf[n], of |-> 0]
                  : n \in Names_in, z \in SizesOf}
         ELSE {[ls_stat EXCEPT !.of = 0]}

measure ==
    /\ ls_at = "first" /\ ls_buffer # <<>>
    /\ \E st \in Found(ls_buffer[1]) :
          LET wide == IF ls_how = "long" THEN st.size ELSE ls_buffer[1]
          IN /\ ls_stat' = IF ls_how = "long" THEN st ELSE ls_stat
             /\ ls_widest' = IF wide > ls_widest THEN wide ELSE ls_widest
    /\ ls_buffer' = Tail(ls_buffer)
    /\ UNCHANGED <<ls_at, ls_how, ls_dir, ls_sizes, ls_fd, ls_place, ls_rows, ls_changes, ls_unseen,
                   ls_steady, ls_date>>

list_file_long ==
    /\ ls_at = "second" /\ ls_how = "long" /\ ls_buffer # <<>>
    /\ \E st \in Found(ls_buffer[1]) : ls_rows' = Printed(ls_rows, Long_line(ls_buffer[1], st))
    /\ ls_buffer' = Tail(ls_buffer)
    /\ UNCHANGED <<ls_at, ls_how, ls_dir, ls_sizes, ls_fd, ls_place, ls_widest, ls_stat, ls_changes,
                   ls_unseen, ls_steady, ls_date>>

\* An entry of ls_plain() and ls_inode().  stat_buf is kept from one to the
\* next.
print_name ==
    /\ ls_at = "second" /\ ls_how # "long" /\ ls_buffer # <<>>
    /\ \E st \in Found(ls_buffer[1]) :
          /\ ls_stat' = st
          /\ ls_rows' = Printed(ls_rows, Cell(ls_buffer[1], st))
    /\ ls_at' = IF Overrun(ls_buffer[1]) THEN "endless" ELSE "second"
    /\ ls_buffer' = Tail(ls_buffer)
    /\ UNCHANGED <<ls_how, ls_dir, ls_sizes, ls_fd, ls_place, ls_widest, ls_changes, ls_unseen,
                   ls_steady, ls_date>>

\* getdents() has no more, or fails: the directory is closed, and opened
\* again for the second pass.
pass_ends ==
    /\ ls_at \in {"first", "second"} /\ ls_buffer = <<>>
    /\ ls_fd => \A p \in Places : p >= ls_place => ls_dir[p] = 0
    /\ \/ /\ ls_at = "first" /\ ls_at' = "second" /\ ls_fd' \in BOOLEAN
          /\ ls_steady' = IF ls_fd' THEN ls_steady ELSE {}
       \/ ls_at = "second" /\ ls_at' = "done" /\ ls_fd' = FALSE /\ UNCHANGED ls_steady
    /\ ls_place' = 0
    /\ UNCHANGED <<ls_how, ls_dir, ls_sizes, ls_buffer, ls_widest, ls_stat, ls_rows, ls_changes,
                   ls_unseen, ls_date>>

\* Other processes.
entry_create ==
    /\ ls_at \in {"first", "second"} /\ ls_changes < MaxChanges
    /\ \E p \in Places, name \in Names_in \ Listed :
          ls_dir[p] = 0 /\ ls_dir' = [ls_dir EXCEPT ![p] = name]
    /\ ls_unseen' = TRUE /\ ls_changes' = ls_changes + 1
    /\ UNCHANGED <<ls_at, ls_how, ls_sizes, ls_fd, ls_place, ls_buffer, ls_widest, ls_stat, ls_rows,
                   ls_steady, ls_date>>

entry_remove ==
    /\ ls_at \in {"first", "second"} /\ ls_changes < MaxChanges
    /\ \E p \in Places :
          /\ ls_dir[p] # 0
          /\ ls_dir' = [ls_dir EXCEPT ![p] = 0] /\ ls_steady' = ls_steady \ {ls_dir[p]}
    /\ ls_changes' = ls_changes + 1
    /\ UNCHANGED <<ls_at, ls_how, ls_sizes, ls_fd, ls_place, ls_buffer, ls_widest, ls_stat, ls_rows,
                   ls_unseen, ls_date>>

entry_write ==
    /\ ls_at \in {"first", "second"} /\ ls_changes < MaxChanges
    /\ \E name \in Listed, z \in SizesOf :
          /\ z # ls_sizes[name]
          /\ ls_sizes' = [ls_sizes EXCEPT ![name] = z]
          /\ ls_unseen' = (ls_unseen \/ z > ls_sizes[name])
    /\ ls_changes' = ls_changes + 1
    /\ UNCHANGED <<ls_at, ls_how, ls_dir, ls_fd, ls_place, ls_buffer, ls_widest, ls_stat, ls_rows,
                   ls_steady, ls_date>>

a_date ==
    /\ ls_at = "start" /\ ls_changes = 0
    /\ \E s \in Seconds : ls_date' = print_date(s) /\ ls_widest' = s
    /\ ls_at' = "date"
    /\ UNCHANGED <<ls_how, ls_dir, ls_sizes, ls_fd, ls_place, ls_buffer, ls_stat, ls_rows,
                   ls_changes, ls_unseen, ls_steady>>

ListingInit ==
    /\ ls_at = "start" /\ ls_how = "plain" /\ ls_fd = FALSE /\ ls_place = 0 /\ ls_buffer = <<>>
    /\ ls_dir = [p \in Places |-> 0] /\ ls_sizes = [n \in Names_in |-> 0]
    /\ ls_widest = 0 /\ ls_stat = Directory_stat /\ ls_rows = <<<<>>>>
    /\ ls_changes = 0 /\ ls_unseen = FALSE /\ ls_steady = {} /\ ls_date = <<>>

ListingNext ==
    \/ ls_main \/ getdents \/ measure \/ list_file_long \/ print_name \/ pass_ends
    \/ entry_create \/ entry_remove \/ entry_write \/ a_date

ListingSpec == ListingInit /\ [][ListingNext]_listing_vars

-----------------------------------------------------------------------------
(* Properties                                                              *)

Cells == {<<r, c>> \in (DOMAIN ls_rows) \X (1..WIDTH) : c \in DOMAIN ls_rows[r]}
At_cell(x) == ls_rows[x[1]][x[2]]
Sized(cell) == cell.of # 0 /\ ~IsDevice(ModeOf[cell.name])
Size_of_row(row) == FoldLeft(LAMBDA sum, cell : sum + cell.wide, 0, row)

\* The days since 1970 counted the other way round: whole years, the leap
\* years among them, whole months.
Days_before(d) ==
    LET years == d.year - 1970
        leaps == Cardinality({y \in 1970..(d.year - 1) : Leap(y)})
        months == FoldLeft(LAMBDA sum, m : sum + Month_days[m], 0, [m \in 1..(d.month - 1) |-> m])
    IN 365 * years + leaps + months + (IF d.month > 2 /\ Leap(d.year) THEN 1 ELSE 0) + d.day - 1

\* ls.c:45-116: a date names its second, in a month of that length.
DateRight ==
    ls_at = "date" =>
        /\ Days_before(ls_date) * Day_ + ls_date.hour * 3600 + ls_date.min * 60 + ls_date.seconds = ls_widest
        /\ ls_date.day \in 1..(Month_days[ls_date.month]
                                + (IF ls_date.month = 2 /\ Leap(ls_date.year) THEN 1 ELSE 0))

\* ls.c:186-508: a file that is there all the time is listed once, one that
\* never was is not, each in the colour it has.  As long as no name came and
\* no size changed between the two passes, every cell is as wide as the
\* others, ends in a blank, no row is wider than the screen, and in a long
\* listing the sizes of files that are no devices end in one column; only a
\* name that came in between can be wider than its column, and is then
\* followed by blanks without end.
ListingRight ==
    /\ ls_at = "endless" => ls_unseen
    /\ \A x \in Cells :
         LET cell == At_cell(x)
         IN /\ cell.name \in Names_in /\ cell.of \in {0, cell.name}
            /\ cell.of = 0 => ls_changes > 0
            /\ cell.of # 0 => cell.color = print_file_color(ModeOf[cell.name])
            /\ ls_how # "long" /\ ~ls_unseen => cell.wide > cell.name + Inode_
            /\ ls_how = "long" /\ ~ls_unseen =>
                  \A y \in Cells : Sized(cell) /\ Sized(At_cell(y)) => cell.wide = At_cell(y).wide
    /\ ls_how # "long" => \A r \in DOMAIN ls_rows : Size_of_row(ls_rows[r]) <= WIDTH
    /\ ls_at = "done" =>
         \A name \in ls_steady : Cardinality({x \in Cells : At_cell(x).name = name}) = 1
    /\ DateRight

-----------------------------------------------------------------------------
(***************************************************************************)
(* md5sum (userspace/md5sum.c): the MD5 of a file, read in pieces of any   *)
(* length.  A piece goes on where the one before left the block, and the   *)
(* length is counted in two words, lo below 2^29 and hi above.             *)
(*                                                                         *)
(* Bytes are numbers, a word is <<high, low>>, its halves, as TLC's        *)
(* numbers have 31 bits.  Block and field have their size; where lo ends   *)
(* (LO_LIMIT, 2^29) is small, to be reached.                               *)
(***************************************************************************)

CONSTANTS
    Messages,        \* contents of files
    Digest_of,       \* MD5 of those that are compared, as 16 bytes
    Pieces,          \* what read() may return
    LO_LIMIT

ASSUME DigestAssumption ==
    LO_LIMIT % 64 = 0 /\ 0 \notin Pieces /\ DOMAIN Digest_of \subseteq Messages

VARIABLES
    md_file,         \* what is in the file
    md_left,         \* and has not been read
    md_ctx,          \* [a, b, c, d, lo, hi, buffer]
    md_at,           \* "open", "read" or "done"
    md_failed,       \* history: a read() failed, which ends the file
    md_out           \* the digest

digest_vars == <<md_file, md_left, md_ctx, md_at, md_failed, md_out>>

-----------------------------------------------------------------------------
(* body()                                                                  *)

Half_word == 65536
Each(Op(_, _), x, y) == <<Op(x[1], y[1]), Op(x[2], y[2])>>
Xor_word(x, y) == Each(LAMBDA p, q : p ^^ q, x, y)
And_word(x, y) == Each(LAMBDA p, q : p & q, x, y)
Or_word(x, y) == Each(LAMBDA p, q : p | q, x, y)
Not_word(x) == <<Half_word - 1 - x[1], Half_word - 1 - x[2]>>
Plus(x, y) == <<(x[1] + y[1] + ((x[2] + y[2]) \div Half_word)) % Half_word, (x[2] + y[2]) % Half_word>>

\* The word x shifted round to the left.
Rotated(x, s) ==
    LET y == IF s >= 16 THEN <<x[2], x[1]>> ELSE x
        up == 2 ^ (s % 16)
        over == 2 ^ (16 - (s % 16))
    IN <<(y[1] % over) * up + (y[2] \div over), (y[2] % over) * up + (y[1] \div over)>>

\* F, G, H and I of the four rounds.
Mixed(round, x, y, z) ==
    CASE round = 0 -> Xor_word(z, And_word(x, Xor_word(y, z)))
      [] round = 1 -> Xor_word(y, And_word(z, Xor_word(x, y)))
      [] round = 2 -> Xor_word(Xor_word(x, y), z)
      [] round = 3 -> Xor_word(y, Or_word(x, Not_word(z)))

\* Which word of the block the n-th step of a round takes.
Word_of(round, n) ==
    CASE round = 0 -> n
      [] round = 1 -> (5 * n + 1) % 16
      [] round = 2 -> (3 * n + 5) % 16
      [] round = 3 -> (7 * n) % 16

Turn_by == <<<<7, 12, 17, 22>>, <<5, 9, 14, 20>>, <<4, 11, 16, 23>>, <<6, 10, 15, 21>>>>

\* What is added in each step, high half and low half.
Added == <<
        \hd76a, \ha478, \he8c7, \hb756, \h2420, \h70db, \hc1bd, \hceee,
        \hf57c, \h0faf, \h4787, \hc62a, \ha830, \h4613, \hfd46, \h9501,
        \h6980, \h98d8, \h8b44, \hf7af, \hffff, \h5bb1, \h895c, \hd7be,
        \h6b90, \h1122, \hfd98, \h7193, \ha679, \h438e, \h49b4, \h0821,
        \hf61e, \h2562, \hc040, \hb340, \h265e, \h5a51, \he9b6, \hc7aa,
        \hd62f, \h105d, \h0244, \h1453, \hd8a1, \he681, \he7d3, \hfbc8,
        \h21e1, \hcde6, \hc337, \h07d6, \hf4d5, \h0d87, \h455a, \h14ed,
        \ha9e3, \he905, \hfcef, \ha3f8, \h676f, \h02d9, \h8d2a, \h4c8a,
        \hfffa, \h3942, \h8771, \hf681, \h6d9d, \h6122, \hfde5, \h380c,
        \ha4be, \hea44, \h4bde, \hcfa9, \hf6bb, \h4b60, \hbebf, \hbc70,
        \h289b, \h7ec6, \heaa1, \h27fa, \hd4ef, \h3085, \h0488, \h1d05,
        \hd9d4, \hd039, \he6db, \h99e5, \h1fa2, \h7cf8, \hc4ac, \h5665,
        \hf429, \h2244, \h432a, \hff97, \hab94, \h23a7, \hfc93, \ha039,
        \h655b, \h59c3, \h8f0c, \hcc92, \hffef, \hf47d, \h8584, \h5dd1,
        \h6fa8, \h7e4f, \hfe2c, \he6e0, \ha301, \h4314, \h4e08, \h11a1,
        \hf753, \h7e82, \hbd3a, \hf235, \h2ad7, \hd2bb, \heb86, \hd391>>

\* SET(n): four bytes, the lowest first.
SET(block, n) == <<block[4 * n + 4] * 256 + block[4 * n + 3], block[4 * n + 2] * 256 + block[4 * n + 1]>>

\* STEP: the registers change places, so that the one that was added to is
\* the second one of the next step.
STEP(regs, block, k) ==
    LET round == k \div 16
        n == k % 16
        sum == Plus(Plus(regs[1], Mixed(round, regs[2], regs[3], regs[4])),
                    Plus(SET(block, Word_of(round, n)), <<Added[2 * k + 1], Added[2 * k + 2]>>))
    IN <<regs[4], Plus(Rotated(sum, Turn_by[round + 1][(n % 4) + 1]), regs[2]), regs[2], regs[3]>>

body(regs, block) ==
    LET after[k \in 0..64] == IF k = 0 THEN regs ELSE STEP(after[k - 1], block, k - 1)
        last == after[64]
    IN <<Plus(regs[1], last[1]), Plus(regs[2], last[2]), Plus(regs[3], last[3]), Plus(regs[4], last[4])>>

-----------------------------------------------------------------------------
(* MD5_Init(), MD5_Update(), MD5_Final()                                   *)

MD5_Init == [regs |-> <<<<\h6745, \h2301>>, <<\hefcd, \hab89>>, <<\h98ba, \hdcfe>>, <<\h1032, \h5476>>>>,
             lo |-> 0, hi |-> 0, buffer |-> [n \in 1..64 |-> 0]]

\* memcpy() to index used of the buffer.
Filled(buffer, used, data) == SubSeq(buffer, 1, used) \o data \o SubSeq(buffer, used + Len(data) + 1, 64)

\* The whole blocks at the beginning of the data.
Whole_blocks(regs, data) ==
    LET after[n \in 0..(Len(data) \div 64)] ==
            IF n = 0 THEN regs ELSE body(after[n - 1], SubSeq(data, 64 * n - 63, 64 * n))
    IN after[Len(data) \div 64]

Counted_in(ctx, size) ==
    LET lo == (ctx.lo + size) % LO_LIMIT
    IN [ctx EXCEPT !.lo = lo, !.hi = @ + (size \div LO_LIMIT) + (IF lo < ctx.lo THEN 1 ELSE 0)]

\* The block that was begun is ended first, if there is enough for it.
MD5_Update(ctx, data) ==
    LET used == ctx.lo % 64
        counted == Counted_in(ctx, Len(data))
        begun == IF used = 0 THEN <<>> ELSE SubSeq(data, 1, 64 - used)
        rest == SubSeq(data, Len(begun) + 1, Len(data))
        joined == Filled(ctx.buffer, used, begun)
        left == SubSeq(rest, (Len(rest) \div 64) * 64 + 1, Len(rest))
    IN IF used # 0 /\ Len(data) < 64 - used
       THEN [counted EXCEPT !.buffer = Filled(@, used, data)]
       ELSE [counted EXCEPT !.regs = Whole_blocks(IF used = 0 THEN @ ELSE body(@, joined), rest),
                            !.buffer = Filled(IF used = 0 THEN @ ELSE joined, 0, left)]

Bytes_of(word) == <<word[2] % 256, word[2] \div 256, word[1] % 256, word[1] \div 256>>
As_word(n) == <<n \div Half_word, n % Half_word>>

\* The length does not fit behind the mark in this block.
NoRoom(used) == 64 - used < 8

\* The mark, zeros up to the length, the length in bits.
MD5_Final(ctx) ==
    LET used == (ctx.lo % 64) + 1
        marked == Filled(ctx.buffer, used - 1, <<128>>)
        Zeroed(buffer, from, to) == [n \in 1..64 |-> IF n \in (from + 1)..to THEN 0 ELSE buffer[n]]
        regs == IF NoRoom(used) THEN body(ctx.regs, Zeroed(marked, used, 64)) ELSE ctx.regs
        start == IF NoRoom(used) THEN 0 ELSE used
        final == body(regs, Filled(Zeroed(marked, start, 56), 56,
                                   Bytes_of(As_word(ctx.lo * 8)) \o Bytes_of(As_word(ctx.hi))))
    IN Bytes_of(final[1]) \o Bytes_of(final[2]) \o Bytes_of(final[3]) \o Bytes_of(final[4])

-----------------------------------------------------------------------------
(* main()                                                                  *)

md5_open ==
    /\ md_at = "open" /\ md_at' = "read"
    /\ md_file' \in Messages /\ md_left' = md_file'
    /\ UNCHANGED <<md_ctx, md_failed, md_out>>

md5_read ==
    /\ md_at = "read" /\ md_left # <<>>
    /\ \E n \in Pieces :
          LET piece == SubSeq(md_left, 1, IF n < Len(md_left) THEN n ELSE Len(md_left))
          IN /\ md_ctx' = MD5_Update(md_ctx, piece)
             /\ md_left' = SubSeq(md_left, Len(piece) + 1, Len(md_left))
    /\ UNCHANGED <<md_file, md_at, md_failed, md_out>>

\* The end of the file; an error is taken for it.
md5_read_ends ==
    /\ md_at = "read"
    /\ md_failed' = (md_left # <<>>)
    /\ md_out' = MD5_Final(md_ctx)
    /\ md_at' = "done"
    /\ UNCHANGED <<md_file, md_left, md_ctx>>

DigestInit ==
    /\ md_file = <<>> /\ md_left = <<>>
    /\ md_ctx = MD5_Init /\ md_at = "open" /\ md_failed = FALSE /\ md_out = <<>>

DigestNext == md5_open \/ md5_read \/ md5_read_ends

DigestSpec == DigestInit /\ [][DigestNext]_digest_vars

-----------------------------------------------------------------------------
(* Properties                                                              *)

\* md5sum.c:272-376: however read() cuts the file, lo and hi count what was
\* read, the buffer holds what is behind the last whole block of it, and the
\* digest is the one that Digest_of has for it, which is not computed here.
DigestRight ==
    LET got == SubSeq(md_file, 1, Len(md_file) - Len(md_left))
        tail == Len(got) % 64
    IN /\ md_ctx.hi * LO_LIMIT + md_ctx.lo = Len(got)
       /\ SubSeq(md_ctx.buffer, 1, tail) = SubSeq(got, Len(got) - tail + 1, Len(got))
       /\ md_at = "done" /\ ~md_failed /\ md_file \in DOMAIN Digest_of => md_out = Digest_of[md_file]

-----------------------------------------------------------------------------
(***************************************************************************)
(* ll (userspace/ll.arm.eabi.s), in assembly: it expands a picture that is *)
(* packed with LZSS, and prints it and three lines about the machine below *)
(* it, each in the middle of the screen.                                   *)
(*                                                                         *)
(* The packed picture is made by another project's program; here it is     *)
(* made from tokens: a byte, or a distance back and a length to copy.  The *)
(* parameters of logo.include are constants.  Of a line of text its length *)
(* counts; what is read from /proc/cpuinfo, which vmwos does not have, is  *)
(* nothing.                                                                *)
(***************************************************************************)

CONSTANTS
    RING,            \* N: bytes of the window, a power of two
    AHEAD,           \* F: the window is filled from N - F on
    THRESHOLD,       \* copies are longer than this
    Pictures,        \* lists of tokens
    LineLengths      \* what the names from uname() make of a line

ASSUME LogoAssumption ==
    /\ RING \in Nat \ {0} /\ AHEAD \in 1..RING /\ THRESHOLD \in Nat
    /\ LineLengths \subseteq Nat

VARIABLES
    lg_picture,      \* the tokens it was made from
    lg_data,         \* the packed picture
    lg_next,         \* r3: index of the next byte of it
    lg_flags,        \* r5
    lg_window,       \* text_buf
    lg_r,            \* r2: where the next byte goes in the window
    lg_out,          \* what was stored at r1
    lg_at,           \* "start", "flags", "token", then the lines
    lg_line          \* [chars, moved] of the line printed last

logo_vars == <<lg_picture, lg_data, lg_next, lg_flags, lg_window, lg_r, lg_out, lg_at, lg_line>>

-----------------------------------------------------------------------------
(* How the picture was packed                                              *)

IsByte(token) == Len(token) = 1
Length_of(token) == IF IsByte(token) THEN 1 ELSE token[2]

\* Where the window is filled after so many bytes.
Filled_to(count) == (RING - AHEAD + count) % RING

\* The bytes of a token: itself, or a position in the window and a length, of
\* which two bytes are made.
Packed(token, before) ==
    IF IsByte(token) THEN token
    ELSE LET word == Filled_to(before + RING - token[1]) + RING * (token[2] - THRESHOLD - 1)
         IN <<word % 256, word \div 256>>

\* Eight tokens and the byte that tells which are single bytes.
Eight(tokens, before) ==
    LET bits == FoldLeft(LAMBDA sum, k : sum + (IF IsByte(tokens[k]) THEN 2 ^ (k - 1) ELSE 0), 0,
                         [k \in DOMAIN tokens |-> k])
        parts == FoldLeft(LAMBDA acc, token : <<acc[1] \o Packed(token, acc[2]), acc[2] + Length_of(token)>>,
                          <<<<bits>>, before>>, tokens)
    IN parts[1]

Total_length(tokens) == FoldLeft(LAMBDA sum, token : sum + Length_of(token), 0, tokens)

Pack(tokens) ==
    LET groups == (Len(tokens) + 7) \div 8
        upto[g \in 0..groups] ==
            IF g = 0 THEN <<>>
            ELSE upto[g - 1] \o Eight(SubSeq(tokens, 8 * g - 7, IF 8 * g < Len(tokens) THEN 8 * g ELSE Len(tokens)),
                                      Total_length(SubSeq(tokens, 1, 8 * g - 8)))
    IN upto[groups]

-----------------------------------------------------------------------------
(* decompression_loop                                                      *)

\* What is behind the packed picture in memory is loaded, too, and not used.
Byte_at(i) == IF i <= Len(lg_data) THEN lg_data[i] ELSE 0

_start ==
    /\ lg_at = "start" /\ lg_at' = "flags"
    /\ lg_picture' \in Pictures /\ lg_data' = Pack(lg_picture')
    /\ UNCHANGED <<lg_next, lg_flags, lg_window, lg_r, lg_out, lg_line>>

\* The byte with the bit above it that tells when its eight are used up.
decompression_loop ==
    /\ lg_at = "flags"
    /\ lg_flags' = Byte_at(lg_next) + 32768
    /\ lg_next' = lg_next + 1 /\ lg_at' = "token"
    /\ UNCHANGED <<lg_picture, lg_data, lg_window, lg_r, lg_out, lg_line>>

\* The mark has come down to bit 7.
Used_up(flags) == flags <= 255

\* store_byte, once.
Stored(state, byte) ==
    [window |-> [state.window EXCEPT ![state.r] = byte], r |-> (state.r + 1) % RING,
     out |-> Append(state.out, byte)]

\* output_loop: a byte may be one this copy has stored.
Copied(state, position, count) ==
    LET after[n \in 0..count] ==
            IF n = 0 THEN state
            ELSE Stored(after[n - 1], after[n - 1].window[(position + n - 1) % RING])
    IN after[count]

test_flags ==
    /\ lg_at = "token" /\ lg_next <= Len(lg_data)
    /\ LET now == [window |-> lg_window, r |-> lg_r, out |-> lg_out]
           word == Byte_at(lg_next) + 256 * Byte_at(lg_next + 1)
           byte == lg_flags % 2 = 1
           then == IF byte THEN Stored(now, Byte_at(lg_next))
                   ELSE Copied(now, word % RING, word \div RING + THRESHOLD + 1)
       IN /\ lg_window' = then.window /\ lg_r' = then.r /\ lg_out' = then.out
          /\ lg_next' = lg_next + (IF byte THEN 1 ELSE 2)
    /\ lg_flags' = lg_flags \div 2
    /\ lg_at' = IF Used_up(lg_flags') THEN "flags" ELSE "token"
    /\ UNCHANGED <<lg_picture, lg_data, lg_line>>

done_logo ==
    /\ lg_at = "token" /\ lg_next > Len(lg_data)
    /\ lg_at' = "first_line"
    /\ UNCHANGED <<lg_picture, lg_data, lg_next, lg_flags, lg_window, lg_r, lg_out, lg_line>>

-----------------------------------------------------------------------------
(* The lines                                                               *)

\* What is between r10 and the beginning of the buffer: of the first line the
\* 0 behind it is counted, too; the last one has no line feed.
Counted_chars(line, chars) ==
    CASE line = "first_line" -> chars + 2
      [] line = "middle_line" -> chars + 1
      [] line = "last_line" -> chars

\* center_and_print: half of what is left of 81, rounded up.  The difference
\* is halved as a number without a sign, and the branch for a negative one is
\* on the flags of write_stdout before it, which say equal.
FAR == 1000000000   \* that or more
Spaces(counted) ==
    LET left == 81 - counted
    IN IF left >= 0 THEN (left + 1) \div 2 ELSE FAR

Line_after == [first_line |-> "middle_line", middle_line |-> "last_line", last_line |-> "exit"]

center_and_print ==
    /\ lg_at \in DOMAIN Line_after
    /\ \E chars \in LineLengths :
          lg_line' = [line |-> lg_at, chars |-> chars, moved |-> Spaces(Counted_chars(lg_at, chars))]
    /\ lg_at' = Line_after[lg_at]
    /\ UNCHANGED <<lg_picture, lg_data, lg_next, lg_flags, lg_window, lg_r, lg_out>>

LogoInit ==
    /\ lg_picture = <<>> /\ lg_data = <<>>
    /\ lg_next = 1 /\ lg_flags = 0 /\ lg_at = "start"
    /\ lg_window = [n \in 0..(RING - 1) |-> 0] /\ lg_r = RING - AHEAD
    /\ lg_out = <<>> /\ lg_line = <<>>

LogoNext == _start \/ decompression_loop \/ test_flags \/ done_logo \/ center_and_print

LogoSpec == LogoInit /\ [][LogoNext]_logo_vars

-----------------------------------------------------------------------------
(* Properties                                                              *)

\* The picture without the window.
Expanded(tokens) ==
    LET Back(out, distance) == IF distance <= Len(out) THEN out[Len(out) + 1 - distance] ELSE 0
        Bytes(out, token) ==
            IF IsByte(token) THEN out \o token
            ELSE FoldLeft(LAMBDA acc, k : Append(acc, Back(acc, token[1])), out, [k \in 1..token[2] |-> k])
    IN FoldLeft(Bytes, <<>>, tokens)

\* ll.arm.eabi.s:168-226, 470-499: what is printed is the picture, to the
\* last token whether or not its flags end there, with copies that overlap
\* what they write or reach round the window; and a line that is not as wide
\* as the screen is as far from the one side as from the other, give or take
\* one column.
LogoRight ==
    /\ IsPrefix(lg_out, Expanded(lg_picture))
    /\ lg_at \in {"first_line", "middle_line", "last_line", "exit"} => lg_out = Expanded(lg_picture)
    /\ lg_line # <<>> /\ lg_line.chars < 80 =>
         /\ 80 - lg_line.moved - lg_line.chars >= 0
         /\ lg_line.moved - (80 - lg_line.moved - lg_line.chars) \in -1..2

=============================================================================
