-------------------------------- MODULE Editor ---------------------------------
(***************************************************************************)
(* The text editor (userspace/nano.c): a text as an array of rows, the     *)
(* cursor and the window on it, and the file it came from.                 *)
(*                                                                         *)
(* A row is the sequence of its characters; the two characters of a        *)
(* comment mark are one here ("open", "close").  Of the highlighting the   *)
(* row keeps what the next one starts with, hl_open_comment; the colours   *)
(* inside a row come last, by themselves.  A step is a turn of the main    *)
(* loop: a key and everything it does, and the window brought up to date.  *)
(*                                                                         *)
(* Right arrow and delete, when the cursor is behind the last row, look at *)
(* the memory behind the array.  What is there decides whether the cursor  *)
(* leaves the text: mode "astray", after which nothing is said.            *)
(***************************************************************************)
EXTENDS Integers, Sequences, SequencesExt, TLC

CONSTANTS
    Characters,       \* that are typed
    Files,            \* contents of a file that is opened
    Queries,          \* that are searched for
    NANO_TAB_STOP, NANO_QUIT_TIMES, \* 8 and 3
    screenrows, screencols,
    MaxText,          \* bound: characters and ends of rows
    MaxSaves          \* bound

ASSUME EditorAssumption ==
    /\ NANO_TAB_STOP \in {1, 2, 4, 8} /\ NANO_QUIT_TIMES \in Nat
    /\ screenrows \in Nat \ {0} /\ screencols \in Nat \ {0}
    /\ MaxText \in Nat /\ MaxSaves \in Nat

VARIABLES
    config,           \* row, numrows, cx, cy, rx, rowoff, coloff, dirty, ...
    mode,             \* "off", "edit", "astray" or "exit"
    quit_times,
    disk,             \* the file
    stale,            \* history: rows were joined, split or taken out since
                      \* all of them were highlighted
    damaged,          \* history: the file was named or touched by a save that
                      \* failed
    text, place,      \* history: the text and the cursor as one sequence and a
                      \* place in it
    saves

editor_vars == <<config, mode, quit_times, disk, stale, damaged, text, place, saves>>

NoFile == <<"no file">>

-----------------------------------------------------------------------------
(* Rows.  The row at index i of the C array is row[i + 1].                 *)

NewRow(at, s) == [chars |-> s, idx |-> at, open |-> FALSE]

Size(c, i) == Len(c.row[i + 1].chars)

\* Whether a row ends inside a comment that began with it or before.
EndsOpen(chars, in_comment) ==
    FoldLeft(LAMBDA in, ch : IF in THEN ch # "close" ELSE ch = "open", in_comment, chars)

\* The row at index i, and the next ones as long as what they start with
\* changes.
editor_update_syntax(c, i) ==
    LET row == c.row
        before == row[i + 1].idx > 0 /\ row[row[i + 1].idx].open
        new[j \in (i + 1)..Len(row)] ==
            EndsOpen(row[j].chars, IF j = i + 1 THEN before ELSE new[j - 1])
        reached(j) == j > i /\ \A k \in (i + 1)..(j - 1) : new[k] # row[k].open /\ k < c.numrows
    IN IF ~c.syntax THEN c
       ELSE [c EXCEPT !.row = [j \in DOMAIN row |->
                                 IF reached(j) THEN [row[j] EXCEPT !.open = new[j]] ELSE row[j]]]

SetChars(c, i, s) == editor_update_syntax([c EXCEPT !.row[i + 1].chars = s], i)

\* The new row is highlighted before it is counted.
editor_insert_row(c, at, s) ==
    LET moved == [j \in DOMAIN c.row |-> IF j > at THEN [c.row[j] EXCEPT !.idx = @ + 1] ELSE c.row[j]]
        put == [c EXCEPT !.row = InsertAt(moved, at + 1, NewRow(at, s))]
    IN [editor_update_syntax(put, at) EXCEPT !.numrows = @ + 1, !.dirty = TRUE]

editor_delete_row(c, at) ==
    [c EXCEPT !.row = [j \in 1..(Len(@) - 1) |->
                         IF j > at THEN [@[j + 1] EXCEPT !.idx = @ - 1] ELSE @[j]],
              !.numrows = @ - 1, !.dirty = TRUE]

-----------------------------------------------------------------------------
(* Editing                                                                 *)

editor_insert_char(c, ch) ==
    LET at == IF c.cy = c.numrows THEN editor_insert_row(c, c.numrows, <<>>) ELSE c
        chars == at.row[at.cy + 1].chars
        x == IF at.cx > Len(chars) THEN Len(chars) ELSE at.cx
    IN [SetChars(at, at.cy, InsertAt(chars, x + 1, ch)) EXCEPT !.cx = @ + 1, !.dirty = TRUE]

\* Fault: the rest of the row stays where it was, too.
Split_keeps(c) ==
    LET chars == c.row[c.cy + 1].chars
    IN editor_insert_row(c, c.cy + 1, SubSeq(chars, c.cx + 1, Len(chars)))

Split(c) ==
    LET chars == c.row[c.cy + 1].chars
        after == editor_insert_row(c, c.cy + 1, SubSeq(chars, c.cx + 1, Len(chars)))
    IN SetChars(after, c.cy, SubSeq(chars, 1, c.cx))

editor_insert_newline(c) ==
    [(IF c.cx = 0 THEN editor_insert_row(c, c.cy, <<>>) ELSE Split(c))
        EXCEPT !.cy = @ + 1, !.cx = 0]

editor_delete_char(c) ==
    IF c.cy = c.numrows \/ (c.cx = 0 /\ c.cy = 0) THEN c
    ELSE LET chars == c.row[c.cy + 1].chars
         IN IF c.cx > 0
            THEN [SetChars(c, c.cy, RemoveAt(chars, c.cx)) EXCEPT !.cx = @ - 1, !.dirty = TRUE]
            ELSE LET joined == SetChars(c, c.cy - 1, c.row[c.cy].chars \o chars)
                 IN [editor_delete_row(joined, c.cy) EXCEPT !.cx = Size(c, c.cy - 1), !.cy = @ - 1]

-----------------------------------------------------------------------------
(* The cursor and the window                                               *)

\* Not past the end of the row.
Bounded(c) ==
    LET rowlen == IF c.cy >= c.numrows THEN 0 ELSE Size(c, c.cy)
    IN [c EXCEPT !.cx = IF @ > rowlen THEN rowlen ELSE @]

\* To the right there is a row to look at up to, and with, cy = numrows; the
\* row behind the last one is whatever is in memory there.
editor_move_cursor(c, arrow) ==
    Bounded(
        CASE arrow = "left" /\ c.cx # 0 -> [c EXCEPT !.cx = @ - 1]
          [] arrow = "left" /\ c.cx = 0 /\ c.cy > 0 ->
                [c EXCEPT !.cy = @ - 1, !.cx = Size(c, c.cy - 1)]
          [] arrow = "right" /\ c.cy < c.numrows ->
                IF c.cx < Size(c, c.cy) THEN [c EXCEPT !.cx = @ + 1]
                ELSE [c EXCEPT !.cy = @ + 1, !.cx = 0]
          [] arrow = "up" /\ c.cy # 0 -> [c EXCEPT !.cy = @ - 1]
          [] arrow = "down" /\ c.cy < c.numrows -> [c EXCEPT !.cy = @ + 1]
          [] OTHER -> c)

editor_row_cx_to_rx(chars, cx) ==
    FoldLeft(LAMBDA rx, ch : rx + 1 + (IF ch = "tab" THEN NANO_TAB_STOP - 1 - (rx % NANO_TAB_STOP) ELSE 0),
             0, SubSeq(chars, 1, cx))

\* The bit of the tab stop is taken where the remainder is meant.
editor_row_rx_to_cx(chars, rx) ==
    LET from[cx \in 0..Len(chars), cur \in Int] ==
            LET and == ((cur \div NANO_TAB_STOP) % 2) * NANO_TAB_STOP
                next == cur + 1 + (IF chars[cx + 1] = "tab" THEN NANO_TAB_STOP - 1 - and ELSE 0)
            IN IF cx = Len(chars) \/ next > rx THEN cx ELSE from[cx + 1, next]
    IN from[0, 0]

Lowest(cy) == cy - screenrows + 1

editor_scroll(c) ==
    LET rx == IF c.cy < c.numrows THEN editor_row_cx_to_rx(c.row[c.cy + 1].chars, c.cx) ELSE 0
        up == IF c.cy < c.rowoff THEN c.cy ELSE c.rowoff
        left == IF rx < c.coloff THEN rx ELSE c.coloff
    IN [c EXCEPT !.rx = rx,
                 !.rowoff = IF c.cy >= up + screenrows THEN Lowest(c.cy) ELSE up,
                 !.coloff = IF rx >= left + screencols THEN rx - screencols + 1 ELSE left]

\* What a row looks like.
Render(chars) ==
    FoldLeft(LAMBDA r, ch :
               IF ch = "tab" THEN r \o [i \in 1..(NANO_TAB_STOP - (Len(r) % NANO_TAB_STOP)) |-> " "]
               ELSE Append(r, ch), <<>>, chars)

\* The rows of the window, up to their ends.
editor_draw_rows(c) ==
    [y \in 0..(screenrows - 1) |->
        IF y + c.rowoff >= c.numrows THEN <<"~">>
        ELSE LET r == Render(c.row[y + c.rowoff + 1].chars)
                 last == IF Len(r) < c.coloff + screencols THEN Len(r) ELSE c.coloff + screencols
             IN SubSeq(r, c.coloff + 1, last)]

-----------------------------------------------------------------------------
(* The file                                                                *)

editor_rows_to_string(c) == FlattenSeq([i \in DOMAIN c.row |-> Append(c.row[i].chars, "nl")])

\* The lines of a file: its characters up to each newline, and what is
\* behind the last one.  Carriage returns at the end of a line are dropped.
Stripped(line) ==
    LET kept == {n \in 0..Len(line) : \A i \in (n + 1)..Len(line) : line[i] \in {"nl", "cr"}}
    IN SubSeq(line, 1, CHOOSE n \in kept : \A k \in kept : n <= k)

FileRows(file) ==
    LET done == FoldLeft(LAMBDA acc, ch :
                    IF ch = "nl" THEN [rows |-> Append(acc.rows, Stripped(acc.line)), line |-> <<>>]
                    ELSE [acc EXCEPT !.line = Append(@, ch)],
                    [rows |-> <<>>, line |-> <<>>], file)
    IN IF done.line = <<>> THEN done.rows ELSE Append(done.rows, Stripped(done.line))

\* All rows are highlighted, in their order.
editor_select_syntax_highlight(c) ==
    FoldLeft(LAMBDA d, i : editor_update_syntax(d, i - 1), [c EXCEPT !.syntax = TRUE],
             [i \in 1..c.numrows |-> i])

Empty == [row |-> <<>>, numrows |-> 0, cx |-> 0, cy |-> 0, rx |-> 0, rowoff |-> 0,
          coloff |-> 0, dirty |-> FALSE, filename |-> FALSE, last_search |-> <<>>, syntax |-> FALSE]

editor_open(file) ==
    LET c == [Empty EXCEPT !.filename = TRUE, !.syntax = TRUE]
        rows == IF file = NoFile THEN <<>> ELSE FileRows(file)
    IN [FoldLeft(LAMBDA d, s : editor_insert_row(d, d.numrows, s), c, rows) EXCEPT !.dirty = FALSE]

\* nano alone, or with the name of a file that may not be there.
main ==
    /\ mode = "off" /\ mode' = "edit"
    /\ \E file \in Files \union {NoFile}, named \in BOOLEAN :
          /\ config' = editor_scroll(IF named THEN editor_open(file) ELSE Empty)
          /\ disk' = file
          /\ text' = editor_rows_to_string(config')
    /\ UNCHANGED <<place, quit_times, stale, damaged, saves>>

-----------------------------------------------------------------------------
(* The text as one sequence, in which each row ends with a newline         *)

\* The cursor's place in the text.
Place(c) ==
    c.cx + Len(FlattenSeq([i \in 1..c.cy |-> Append(c.row[i].chars, "nl")]))

\* What a key does to a text, of which the cursor is at a place.  Nothing is
\* deleted from behind the last row; what is typed there is a new one.
Typed(t, at, ch, behind) ==
    SubSeq(t, 1, at) \o (IF behind THEN <<ch, "nl">> ELSE <<ch>>) \o SubSeq(t, at + 1, Len(t))

Without(t, at, behind) == IF at \notin 1..Len(t) \/ behind THEN t ELSE RemoveAt(t, at)

-----------------------------------------------------------------------------
(* Keys                                                                    *)

\* A turn of the main loop that ends with the text c; another key than ^X.
Turn(c) ==
    /\ mode = "edit"
    /\ config' = editor_scroll(c)
    /\ quit_times' = NANO_QUIT_TIMES
    /\ UNCHANGED saves

Edited(c, rebuilt, t, p) ==
    /\ mode = "edit" /\ Len(t) <= MaxText
    /\ Turn(c)
    /\ stale' = (stale \/ rebuilt)
    /\ text' = t /\ place' = p
    /\ UNCHANGED <<mode, disk, damaged>>

Moved(c) == Edited(c, FALSE, text, Place(c))

Last_row == config.cy = config.numrows

insert_char ==
    \E ch \in Characters :
       Edited(editor_insert_char(config, ch), FALSE, Typed(text, place, ch, Last_row), place + 1)

newline == Edited(editor_insert_newline(config), TRUE, Typed(text, place, "nl", FALSE), place + 1)

backspace ==
    LET t == Without(text, place, Last_row)
    IN Edited(editor_delete_char(config), config.cx = 0 /\ config.cy > 0 /\ ~Last_row,
              t, place - (Len(text) - Len(t)))

delete ==
    LET moved == editor_move_cursor(config, "right")
        last == Last_row \/ place + 1 = Len(text)
    IN Edited(editor_delete_char(moved), moved.cx = 0 /\ moved.cy > 0 /\ moved.cy < moved.numrows,
              Without(text, place + 1, last),
              IF last /\ ~Last_row THEN place + 1 ELSE place)

arrow == \E a \in {"left", "right", "up", "down"} : Moved(editor_move_cursor(config, a))

\* There is a row behind the last one when there ever was an array.
Behind == Last_row /\ config.row # <<>>

\* The row behind the last one looks empty.
leave_text ==
    /\ mode = "edit" /\ Behind
    /\ mode' = "astray"
    /\ UNCHANGED <<config, quit_times, disk, stale, damaged, text, place, saves>>

home_end ==
    \/ Moved([config EXCEPT !.cx = 0])
    \/ /\ config.cy < config.numrows
       /\ Moved([config EXCEPT !.cx = Size(config, config.cy)])

Times(c, a) == FoldLeft(LAMBDA d, n : editor_move_cursor(d, a), c, [n \in 1..screenrows |-> n])

page ==
    \/ Moved(Times([config EXCEPT !.cy = config.rowoff], "up"))
    \/ LET bottom == config.rowoff + screenrows - 1
           at == IF bottom > config.numrows THEN config.numrows ELSE bottom
       IN Moved(Times([config EXCEPT !.cy = at], "down"))

\* Where a query is in what is shown of a row, from rx on.
Match(chars, query, rx) ==
    LET r == Render(chars)
        places == {i \in rx..(Len(r) - Len(query)) : SubSeq(r, i + 1, i + Len(query)) = query}
    IN IF places = {} THEN -1 ELSE CHOOSE i \in places : \A j \in places : i <= j

\* From behind the cursor, whose place in the row is taken for its place on
\* the screen.  An empty query is the last one again.
find ==
    \E query \in Queries \union {<<>>} :
       LET actual == IF query = <<>> THEN config.last_search ELSE query
           from(i) == IF i = config.cy THEN config.cx + 1 ELSE 0
           at(i) == Match(config.row[i + 1].chars, actual, from(i))
           rows == {i \in config.cy..(config.numrows - 1) : at(i) # -1}
           first == CHOOSE i \in rows : \A j \in rows : i <= j
           c == [config EXCEPT !.last_search = actual]
       IN /\ mode = "edit" /\ actual # <<>>
          /\ Moved(IF rows = {} THEN c
                   ELSE [c EXCEPT !.cy = first, !.rowoff = c.numrows,
                                  !.cx = editor_row_rx_to_cx(c.row[first + 1].chars, at(first))])

\* A text without a name gets one before, or the save is given up.  The
\* steps of a save fail one by one: the file is not opened, or it is cut to
\* the length of the text and not written, or only a part of it is.
save ==
    /\ mode = "edit" /\ saves < MaxSaves
    /\ LET string == editor_rows_to_string(config)
           named == IF config.filename THEN config
                    ELSE editor_select_syntax_highlight([config EXCEPT !.filename = TRUE])
       IN \/ /\ config' \in {editor_scroll(named)} \union (IF config.filename THEN {} ELSE {config})
             /\ damaged' = (damaged \/ config'.filename # config.filename)
             /\ UNCHANGED disk
          \/ /\ config' = editor_scroll(named)
             /\ \E n \in {0, Len(string) - 1} : disk' = SubSeq(string, 1, n)
             /\ damaged' = TRUE
          \/ /\ config' = editor_scroll([named EXCEPT !.dirty = FALSE])
             /\ disk' = string /\ damaged' = FALSE
    /\ stale' = (stale /\ config'.filename = config.filename)
    /\ quit_times' = NANO_QUIT_TIMES /\ saves' = saves + 1
    /\ UNCHANGED <<mode, text, place>>

\* ^X: a warning first, a few times, when the text was changed.
exit_key ==
    /\ mode = "edit"
    /\ \/ /\ config.dirty /\ quit_times > 0
          /\ quit_times' = quit_times - 1 /\ UNCHANGED mode
       \/ /\ ~(config.dirty /\ quit_times > 0)
          /\ mode' = "exit" /\ UNCHANGED quit_times
    /\ UNCHANGED <<config, disk, stale, damaged, text, place, saves>>

EditorInit ==
    /\ config = Empty /\ mode = "off" /\ quit_times = NANO_QUIT_TIMES
    /\ disk = NoFile /\ stale = FALSE /\ damaged = FALSE /\ saves = 0
    /\ text = <<>> /\ place = 0

EditorNext ==
    \/ main \/ insert_char \/ newline \/ backspace \/ delete \/ arrow \/ leave_text
    \/ home_end \/ page \/ find \/ save \/ exit_key

EditorSpec == EditorInit /\ [][EditorNext]_editor_vars

-----------------------------------------------------------------------------
(* Properties                                                              *)

\* nano.c:554-606: the rows are the text: every key changes it at the
\* cursor as if it were one sequence of characters and moves the cursor with
\* it, and no other key changes it.
EditsRight == mode = "edit" => editor_rows_to_string(config) = text /\ Place(config) = place

\* nano.c:736-779, 858-882: the cursor is in the text, and what is shown
\* under it is what is there.
CursorShown ==
    LET c == config
    IN mode = "edit" =>
        /\ c.numrows = Len(c.row) /\ \A i \in DOMAIN c.row : c.row[i].idx = i - 1
        /\ c.cy \in 0..c.numrows
        /\ c.cx \in 0..(IF c.cy = c.numrows THEN 0 ELSE Size(c, c.cy))
        /\ c.cy - c.rowoff \in 0..(screenrows - 1) /\ c.rx - c.coloff \in 0..(screencols - 1)
        /\ c.cy < c.numrows /\ c.cx < Size(c, c.cy) =>
              LET ch == c.row[c.cy + 1].chars[c.cx + 1]
              IN editor_draw_rows(c)[c.cy - c.rowoff][c.rx - c.coloff + 1] = IF ch = "tab" THEN " " ELSE ch

\* nano.c:376-382: what a row starts with is what the rows before it end
\* with, as long as no rows were joined or split.
HighlightKept ==
    ~stale /\ config.syntax =>
        \A i \in DOMAIN config.row :
           config.row[i].open = EndsOpen(config.row[i].chars, i > 1 /\ config.row[i - 1].open)

\* nano.c:1064-1102: a text that is not marked as changed is the one in the
\* file, unless a save failed on the way.
SavedRight ==
    mode = "edit" /\ ~config.dirty /\ ~damaged /\ config.filename =>
        [i \in DOMAIN config.row |-> config.row[i].chars] =
            (IF disk = NoFile THEN <<>> ELSE FileRows(disk))

-----------------------------------------------------------------------------
(***************************************************************************)
(* The colours of a row in the editor (userspace/nano.c,                   *)
(* editor_update_syntax()): comments, strings, numbers and keywords of C,  *)
(* as the code finds them with marks of two characters and keywords        *)
(* compared ahead of the character it is at.                               *)
(*                                                                         *)
(* Property SyntaxRight says the same of each character by itself: a       *)
(* machine that reads one at a time tells comments and strings, and a      *)
(* keyword is one by what is before and behind it.                         *)
(***************************************************************************)

CONSTANTS
    RowChars,       \* characters of rows
    Keywords1, Keywords2,
    MaxRow          \* length

ASSUME SyntaxAssumption ==
    MaxRow \in Nat /\ \A word \in Keywords1 \union Keywords2 : word # <<>>

VARIABLES line, coloring

syntax_vars == <<line, coloring>>

-----------------------------------------------------------------------------
(* editor_update_syntax()                                                  *)

is_separator(ch) == ch \notin {"a", "i", "f", "1", "'", "\\", "q"}

Starts(r, i, mark) == i + Len(mark) - 1 <= Len(r) /\ SubSeq(r, i, i + Len(mark) - 1) = mark

Behind_word(r, i) == i > Len(r) \/ is_separator(r[i])

KeywordAt(r, i) ==
    {word \in Keywords1 \union Keywords2 : Starts(r, i, word) /\ Behind_word(r, i + Len(word))}

Segment(hl, n) == [k \in 1..n |-> hl]

Escaped(r, i) == r[i] = "\\" /\ i < Len(r)

\* The colours from character i on, and whether the row ends in a comment.
Colors(r, in_comment) ==
    LET from[i \in 1..(Len(r) + 1), prev_sep \in BOOLEAN, in_string \in {"no", "q", "'"},
             comment \in BOOLEAN, prev_hl \in {"no", "comment", "string", "number", "1", "2"}] ==
            LET Then(hl, n, sep, str, com) ==
                    LET rest == from[i + n, sep, str, com, hl]
                    IN [hl |-> Segment(hl, n) \o rest.hl, open |-> rest.open]
                word == CHOOSE w \in KeywordAt(r, i) : TRUE
            IN IF i > Len(r) THEN [hl |-> <<>>, open |-> comment]
               ELSE IF in_string = "no" /\ ~comment /\ Starts(r, i, <<"/", "/">>)
               THEN [hl |-> Segment("comment", Len(r) - i + 1), open |-> FALSE]
               ELSE IF in_string = "no" /\ comment
               THEN IF Starts(r, i, <<"*", "/">>) THEN Then("comment", 2, TRUE, "no", FALSE)
                    ELSE Then("comment", 1, prev_sep, "no", TRUE)
               ELSE IF in_string = "no" /\ Starts(r, i, <<"/", "*">>)
               THEN Then("comment", 2, prev_sep, "no", TRUE)
               ELSE IF in_string # "no"
               THEN IF Escaped(r, i) THEN Then("string", 2, prev_sep, in_string, FALSE)
                    ELSE Then("string", 1, TRUE, IF r[i] = in_string THEN "no" ELSE in_string, FALSE)
               ELSE IF r[i] \in {"q", "'"} THEN Then("string", 1, prev_sep, r[i], FALSE)
               ELSE IF (r[i] = "1" /\ (prev_sep \/ prev_hl = "number")) \/ (r[i] = "." /\ prev_hl = "number")
               THEN Then("number", 1, FALSE, "no", FALSE)
               ELSE IF prev_sep /\ KeywordAt(r, i) # {}
               THEN Then(IF word \in Keywords1 THEN "1" ELSE "2", Len(word), FALSE, "no", FALSE)
               ELSE Then("no", 1, is_separator(r[i]), "no", FALSE)
    IN from[1, TRUE, "no", in_comment, "no"]

update_syntax ==
    /\ line = <<>>
    /\ \E in_comment \in BOOLEAN :
          /\ line' \in UNION {[1..n -> RowChars] : n \in 1..MaxRow}
          /\ coloring' = [Colors(line', in_comment) EXCEPT !.hl = [was |-> in_comment, is |-> @]]

SyntaxInit == line = <<>> /\ coloring = [hl |-> [was |-> FALSE, is |-> <<>>], open |-> FALSE]

SyntaxNext == update_syntax

SyntaxSpec == SyntaxInit /\ [][SyntaxNext]_syntax_vars

-----------------------------------------------------------------------------
(* Properties                                                              *)

\* A machine that reads a character: where it is then.  "/" may begin a
\* comment and "*" may end one.
Machine(state, ch) ==
    CASE state = "//" -> "//"
      [] state \in {"in", "in *"} ->
            IF state = "in *" /\ ch = "/" THEN "out" ELSE IF ch = "*" THEN "in *" ELSE "in"
      [] state \in {"q", "'"} ->
            IF ch = "\\" THEN state \o " \\" ELSE IF ch = state THEN "out" ELSE state
      [] state = "q \\" -> "q"
      [] state = "' \\" -> "'"
      [] state = "/" /\ ch \in {"/", "*"} -> IF ch = "/" THEN "//" ELSE "in"
      [] OTHER -> IF ch \in {"/", "q", "'"} THEN ch ELSE "out"

\* State of the machine before character i.
StateBefore(r, in_comment, i) ==
    FoldLeft(Machine, IF in_comment THEN "in" ELSE "out", SubSeq(r, 1, i - 1))

\* nano.c:286-381: characters are coloured as comment, or as string, when
\* the machine is in one or they begin one; the row ends in a comment as the
\* machine does; a keyword has a separator, the beginning or a comment or
\* string before it, and a separator behind it; a number has no letter
\* before it.
SyntaxRight ==
    LET r == line
        hl == coloring.hl.is
        before(i) == StateBefore(r, coloring.hl.was, i)
        opens(i) == i < Len(r) /\ before(i + 1) = "/" /\ before(i + 2) \in {"//", "in"}
        comment(i) == before(i) \in {"//", "in", "in *"} \/ opens(i) \/ (i > 1 /\ opens(i - 1))
        string(i) ==
            \/ before(i) \in {"q", "'", "q \\", "' \\"}
            \/ before(i) \in {"out", "/"} /\ r[i] \in {"q", "'"}
    IN line # <<>> =>
        /\ Len(hl) = Len(r)
        /\ coloring.open = (before(Len(r) + 1) \in {"in", "in *"})
        /\ \A i \in DOMAIN r :
              /\ hl[i] = "string" <=> string(i)
              /\ hl[i] = "comment" <=> comment(i)
              /\ hl[i] = "number" /\ i > 1 => hl[i - 1] # "no" \/ is_separator(r[i - 1])
              /\ hl[i] \in {"1", "2"} =>
                    \E j \in 1..i, k \in i..Len(r) :
                       /\ SubSeq(r, j, k) \in (IF hl[i] = "1" THEN Keywords1 ELSE Keywords2)
                       /\ Behind_word(r, k + 1)
                       /\ j > 1 => hl[j - 1] \in {"comment", "string"} \/ is_separator(r[j - 1])

-----------------------------------------------------------------------------
(***************************************************************************)
(* What the editor reads from the terminal (userspace/nano.c): keys, which *)
(* are one byte or an escape sequence (editor_read_key()), the line that   *)
(* is typed at a prompt (editor_prompt()), and the size of the screen,     *)
(* which the terminal reports in between (get_cursor_position()).          *)
(*                                                                         *)
(* The editor asks for a read() that gives up after 0.1 s; vmwos has none  *)
(* and waits, other systems do as they are asked.  The bytes of a key      *)
(* arrive together.  Bytes are model values: "esc", "R" and the like; any  *)
(* letter is "x", and "high" is a byte from 128 on.                        *)
(***************************************************************************)

CONSTANTS
    Timeouts,      \* of BOOLEAN: does read() give up?
    KeyBytes,      \* by key: its bytes
    Reports,       \* what the terminal may report: the digits of rows and columns
    Ahead,         \* what may have been typed before it answers
    FirstSize,     \* of the buffer of a prompt, 128
    ReportSize,    \* of the buffer for the report, 32
    MaxKeys,       \* bound: keys
    Widths         \* of texts and of the screen

ASSUME PromptAssumption ==
    /\ Timeouts \subseteq BOOLEAN /\ FirstSize \in Nat \ {0, 1} /\ MaxKeys \in Nat
    /\ Widths \subseteq Nat

VARIABLES
    tty,           \* [at, gives_up]; at is "start", "report", "prompt" and how it ended
    pending,       \* bytes that were not read, and "pause" where read() gives up
    size_reported, \* history: what the terminal said, what was typed before it, and
                   \* the editor's rows and columns
    prompt,        \* buf and bufsize
    wanted_line,   \* history: the line that was meant, and how the prompt ends
    keys,          \* history: their number
    lone,          \* history: an escape key was followed at once, or a key is unknown
    bar            \* the status bar

prompt_vars == <<tty, pending, size_reported, prompt, wanted_line, keys, lone, bar>>

-----------------------------------------------------------------------------
(* editor_read_key()                                                       *)

Digits_ == {"0", "1", "2", "3", "4", "5", "6", "7", "8", "9"}

\* read() of one byte: is there one, and what is left.
Answered(bytes) == bytes # <<>> /\ Head(bytes) # "pause"
Rest(bytes) == IF bytes = <<>> THEN bytes ELSE Tail(bytes)

\* Escape [ with a digit and ~, with a letter; escape O with a letter.
Numbered == [d \in {"1", "3", "4", "5", "6", "7", "8"} |->
    CASE d \in {"1", "7"} -> "home" [] d = "3" -> "del" [] d \in {"4", "8"} -> "end"
      [] d = "5" -> "page_up" [] d = "6" -> "page_down"]

Lettered(first, second) ==
    CASE first \in {"[", "O"} /\ second = "H" -> "home"
      [] first \in {"[", "O"} /\ second = "F" -> "end"
      [] first = "[" /\ second \in {"A", "B", "C", "D"} -> "arrow"
      [] OTHER -> "esc"

AfterDigit(digit, bytes) ==
    [key |-> IF Answered(bytes) /\ Head(bytes) = "~" /\ digit \in DOMAIN Numbered
             THEN Numbered[digit] ELSE "esc",
     rest |-> Rest(bytes)]

\* Whatever the two bytes behind the escape are, they are gone.
AfterEscape(bytes) ==
    IF ~Answered(bytes) THEN [key |-> "esc", rest |-> Rest(bytes)]
    ELSE IF ~Answered(Tail(bytes)) THEN [key |-> "esc", rest |-> Rest(Tail(bytes))]
    ELSE IF bytes[1] = "[" /\ bytes[2] \in Digits_ THEN AfterDigit(bytes[2], Tail(Tail(bytes)))
    ELSE [key |-> Lettered(bytes[1], bytes[2]), rest |-> Tail(Tail(bytes))]

KeyAt(bytes) ==
    IF Head(bytes) = "esc" THEN AfterEscape(Tail(bytes)) ELSE [key |-> Head(bytes), rest |-> Tail(bytes)]

\* All its reads return.
Complete(bytes) ==
    \/ tty.gives_up
    \/ Head(bytes) # "esc"
    \/ Len(bytes) > 3
    \/ Len(bytes) = 3 /\ ~(bytes[2] = "[" /\ bytes[3] \in Digits_)

-----------------------------------------------------------------------------
(* editor_prompt()                                                         *)

\* The buffer is doubled when the letter and the 0 behind it do not fit.
Grown_buffer(size, len) == IF len = size - 1 THEN size * 2 ELSE size

Printable == {"x", "~", "[", ";", "O", "A", "B", "C", "D", "F", "H", "R"} \union Digits_

LineAfter(so_far, key) ==
    CASE key \in {"del", "bs"} -> IF so_far = <<>> THEN so_far ELSE Front(so_far)
      [] key \in Printable -> Append(so_far, key)
      [] OTHER -> so_far

Ended(key, not_yet) ==
    CASE key = "cr" -> "returned" [] key = "cancel" -> "cancelled" [] OTHER -> not_yet

editor_prompt_key ==
    /\ tty.at = "prompt"
    /\ Answered(pending) /\ Complete(pending)
    /\ LET read == KeyAt(pending)
           buf == LineAfter(prompt.buf, read.key)
       IN /\ pending' = read.rest
          /\ prompt' = [buf |-> buf,
                        size |-> IF Len(buf) > Len(prompt.buf)
                                 THEN Grown_buffer(prompt.size, Len(prompt.buf)) ELSE prompt.size]
          /\ tty' = [tty EXCEPT !.at = Ended(read.key, @)]
    /\ UNCHANGED <<size_reported, wanted_line, keys, lone, bar>>

\* read() gave up before a byte came: it is called again.
read_again ==
    /\ tty.at = "prompt" /\ pending # <<>> /\ Head(pending) = "pause"
    /\ pending' = Tail(pending)
    /\ UNCHANGED <<tty, size_reported, prompt, wanted_line, keys, lone, bar>>

\* A key is pressed, at once or some time after the one before.
press ==
    /\ tty.at = "prompt" /\ keys < MaxKeys /\ wanted_line.ends = "not"
    /\ \E key \in DOMAIN KeyBytes, later \in {FALSE, tty.gives_up} :
          /\ pending' = pending \o (IF later THEN <<"pause">> ELSE <<>>) \o KeyBytes[key]
          /\ wanted_line' = [line |-> LineAfter(wanted_line.line, key), last |-> key,
                             ends |-> Ended(key, "not")]
          /\ lone' = (lone \/ key = "unknown" \/ (wanted_line.last = "esc" /\ ~later))
    /\ keys' = keys + 1
    /\ UNCHANGED <<tty, size_reported, prompt, bar>>

-----------------------------------------------------------------------------
(* get_cursor_position()                                                   *)

Report(r) == <<"esc", "[">> \o r.rows \o <<";">> \o r.cols \o <<"R">>

\* The indexes of the R's; the loop ends at the first, or when read() gives up.
Reading_ends(bytes) == {i \in DOMAIN bytes : bytes[i] = "R"}
FirstOf(S) == CHOOSE i \in S : \A j \in S : i <= j

\* atoi(): the digits up to the first byte that is none.
Values == [d \in Digits_ |-> CHOOSE n \in 0..9 : ToString(n) = d]
Number_at(buf, from) ==
    LET none == {i \in from..Len(buf) : buf[i] \notin Digits_} \union {Len(buf) + 1}
    IN FoldLeft(LAMBDA sum, d : 10 * sum + Values[d], 0, SubSeq(buf, from, FirstOf(none) - 1))

Parsed(buf) ==
    LET semicolons == {i \in DOMAIN buf : i > 2 /\ buf[i] = ";"}
    IN IF Len(buf) < 2 \/ SubSeq(buf, 1, 2) # <<"esc", "[">> \/ semicolons = {}
       THEN [rows |-> 24, cols |-> 80]
       ELSE [rows |-> Number_at(buf, 3), cols |-> Number_at(buf, FirstOf(semicolons) + 1)]

\* The loop's test is always true (nano.c:1017); two rows are for the bars.
\* Where the terminal does not answer, and read() does not give up, the
\* editor waits; what is typed is taken for the answer.
get_cursor_position(r, ahead, gives_up) ==
    LET bytes == ahead \o (IF r.answers THEN Report(r) ELSE <<>>)
        ends == Reading_ends(bytes)
        read == IF ends = {} THEN bytes ELSE SubSeq(bytes, 1, FirstOf(ends) - 1)
        size == Parsed(read)
        after == CASE Len(read) + (IF ends = {} THEN 0 ELSE 1) > ReportSize -> "overrun"
                   [] ends = {} /\ ~gives_up -> "waits" [] OTHER -> "prompt"
    IN /\ tty' = [at |-> after, gives_up |-> gives_up]
       /\ pending' = SubSeq(bytes, Len(read) + 2, Len(bytes))
       /\ size_reported' = [terminal |-> r, ahead |-> ahead, rows |-> size.rows - 2, cols |-> size.cols]

editor_init ==
    /\ tty.at = "start"
    /\ \E r \in Reports, ahead \in Ahead, gives_up \in Timeouts :
          get_cursor_position(r, ahead, gives_up)
    /\ UNCHANGED <<prompt, wanted_line, keys, lone, bar>>

-----------------------------------------------------------------------------
(* editor_draw_status_bar(), editor_draw_message_bar()                     *)

Shorter(a, b) == IF a < b THEN a ELSE b

\* The text at the left, blanks, and the text at the right when there is room
\* for it to end in the last column.
draw_bars ==
    /\ tty.at = "start"
    /\ \E len, rlen, cols, msglen \in Widths :
          LET left == Shorter(len, cols)
              fits == rlen > 0 /\ cols - left >= rlen
          IN bar' = [left |-> left, blanks |-> cols - left - (IF fits THEN rlen ELSE 0),
                     right |-> IF fits THEN rlen ELSE 0, message |-> Shorter(msglen, cols), cols |-> cols]
    /\ tty' = [tty EXCEPT !.at = "drawn"]
    /\ UNCHANGED <<pending, size_reported, prompt, wanted_line, keys, lone>>

-----------------------------------------------------------------------------

PromptInit ==
    /\ tty = [at |-> "start", gives_up |-> FALSE]
    /\ pending = <<>> /\ prompt = [buf |-> <<>>, size |-> FirstSize]
    /\ size_reported = [terminal |-> [answers |-> FALSE], ahead |-> <<>>, rows |-> 0, cols |-> 0]
    /\ wanted_line = [line |-> <<>>, last |-> "none", ends |-> "not"]
    /\ keys = 0 /\ lone = FALSE
    /\ bar = [left |-> 0, blanks |-> 0, right |-> 0, message |-> 0, cols |-> 0]

PromptNext == editor_init \/ press \/ read_again \/ editor_prompt_key \/ draw_bars

PromptSpec == PromptInit /\ [][PromptNext]_prompt_vars

-----------------------------------------------------------------------------

\* What was typed at the prompt is what the editor has, ended as it was ended,
\* once every byte of it is read; and the letters and the 0 behind them always
\* fit the buffer (nano.c:965-1003).  Not when an escape key was followed at
\* once by the next: without the read() that gives up it takes two of them
\* with it, which on vmwos is always; nor when a key is of the kind the editor
\* does not know, whose last bytes it takes for text (nano.c:696-727).
LineTyped ==
    /\ Len(prompt.buf) < prompt.size
    /\ tty.at \in {"prompt", "returned", "cancelled"} /\ ~lone /\ size_reported.ahead = <<>>
       /\ SelectSeq(pending, LAMBDA b : b # "pause") = <<>>
          => /\ prompt.buf = wanted_line.line
             /\ tty.at = (IF wanted_line.ends = "not" THEN "prompt" ELSE wanted_line.ends)

\* The size the terminal reports is the one the editor takes, two rows less,
\* and nothing of the report is left to be taken for keys; and only what was
\* typed before the answer can make it too long (nano.c:1005-1032, 1276-1288).
SizeTaken ==
    /\ tty.at = "overrun" => size_reported.ahead # <<>>
    /\ tty.at = "prompt" /\ size_reported.terminal.answers /\ size_reported.ahead = <<>>
       => /\ size_reported.rows + 2 = Number_at(size_reported.terminal.rows, 1)
          /\ size_reported.cols = Number_at(size_reported.terminal.cols, 1)
          /\ keys = 0 => pending = <<>>

\* The status bar is as wide as the screen, the text at the right whole or
\* not there; the message is not wider (nano.c:886-927).
BarsWide ==
    tty.at = "drawn" => /\ bar.left + bar.blanks + bar.right = bar.cols
                        /\ bar.blanks >= 0 /\ bar.message <= bar.cols

PromptRight == LineTyped /\ SizeTaken /\ BarsWide

=============================================================================
