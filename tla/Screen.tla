-------------------------------- MODULE Screen --------------------------------
(***************************************************************************)
(* The text console on the framebuffer                                     *)
(* (kernel/drivers/framebuffer/framebuffer_console.c): the characters of   *)
(* a write go one by one through the state machine for escape sequences    *)
(* into text_console[], which is then drawn over what was drawn before.    *)
(*                                                                         *)
(* Programs write tokens: a character, a control character or an escape    *)
(* sequence, cut into calls of framebuffer_console_write() anywhere.  Two  *)
(* kinds of tokens they keep to: those that lead to places on the screen,  *)
(* and colours of the background only where they write no blank.  (One     *)
(* that leads far below the screen leaves console_y there, for the bounds  *)
(* check takes off one line per character; blanks with a background are    *)
(* overwritten without a refresh.)  Calls have at least one character and  *)
(* sequences at most ANSI_MAX_NUMBERS numbers.                             *)
(*                                                                         *)
(* A sequence the console does not know is reported by printk from inside  *)
(* the write.  console_write() holds console_print_mutex then, locking has *)
(* been enabled since boot (kernel_main.c:146), and printk() takes the     *)
(* mutex too: the write never returns.  (A sequence with more numbers than *)
(* ANSI_MAX_NUMBERS is reported in the same way; programs write none.)     *)
(***************************************************************************)
EXTENDS Integers, Sequences, FiniteSets

CONSTANTS
    CONSOLE_X, CONSOLE_Y,
    TAB,           \* 8
    MaxTokens      \* bound

ASSUME ScreenAssumption ==
    /\ {CONSOLE_X, CONSOLE_Y, TAB} \subseteq Nat \ {0} /\ MaxTokens \in Nat
    /\ CONSOLE_X <= 99 /\ CONSOLE_Y <= 99     \* Digits: a number has two

VARIABLES
    text_console,  \* with text_color, by row and column: the character and
                   \* its two colours
    console_x, console_y,
    color,         \* console_fore_color, console_back_color, console_fore_bright
    ansi_state, numbers, which_number,
    refresh_screen,
    drawn,         \* by row and column: what was drawn there since it was last cleared
    writing,       \* are we inside a call?
    bytes,         \* of the token that is being written, to come
    page,          \* history: the screen the tokens describe
    tokens         \* history: their number

screen_vars == <<text_console, console_x, console_y, color, ansi_state, numbers,
                 which_number, refresh_screen, drawn, writing, bytes, page, tokens>>

X == 0..(CONSOLE_X - 1)
Y == 0..(CONSOLE_Y - 1)

ANSI_DEFAULT == -1
Colors(fore, back, bright) == [fore |-> fore, back |-> back, bright |-> bright]
Cell(ch, c) == [ch |-> ch, fore |-> c.fore, back |-> c.back]
Blank == Cell(32, Colors(7, 0, 0))
BlankRow == [x \in X |-> Blank]

-----------------------------------------------------------------------------
(* What programs write                                                     *)

Digits(n) == IF n < 10 THEN <<48 + n>> ELSE <<48 + (n \div 10), 48 + (n % 10)>>

\* ESC [ numbers command
Sequence(args, command) ==
    <<27, 91>> \o (CASE Len(args) = 0 -> <<>>
                     [] Len(args) = 1 -> Digits(args[1])
                     [] OTHER -> Digits(args[1]) \o <<59>> \o Digits(args[2])) \o <<command>>

Char(b)              == [kind |-> "char", args |-> <<b>>, bytes |-> <<b>>]
Escape(name, command, args) ==
    [kind |-> name, args |-> args, bytes |-> Sequence(args, command)]

Tokens ==
    {Char(b) : b \in {97, 32, 9, 8, 10, 13}}
    \union {Escape("up", 65, a) : a \in {<<>>, <<2>>}}
    \union {Escape("down", 66, <<>>)}
    \union {Escape("right", 67, <<>>)}
    \union {Escape("left", 68, a) : a \in {<<>>, <<2>>}}
    \union {Escape("goto", 72, a) : a \in {<<>>} \union {<<y + 1, x + 1>> : y \in Y, x \in X}}
    \union {Escape("clear", 74, a) : a \in {<<>>, <<2>>}}
    \union {Escape("unknown", 104, <<>>)}
    \union {Escape("color", 109, a) : a \in {<<0>>, <<41>>, <<1, 31>>}}
    \union {[kind |-> "none", args |-> <<>>, bytes |-> <<27, 55>>]}

-----------------------------------------------------------------------------
(* The screen the tokens describe: rows that move up when the cursor       *)
(* leaves the last one.                                                    *)

NewLine(p) ==
    IF p.y + 1 < CONSOLE_Y THEN [p EXCEPT !.x = 0, !.y = p.y + 1]
    ELSE [p EXCEPT !.x = 0,
                   !.rows = Append(Tail(p.rows), BlankRow)]

At(p, x) == IF x < CONSOLE_X THEN [p EXCEPT !.x = x] ELSE [NewLine(p) EXCEPT !.x = x % CONSOLE_X]

Distance(args) == IF args = <<>> THEN 1 ELSE args[1]
Back(n, d) == IF n < d THEN 0 ELSE n - d

Fore(args) == IF args = <<1, 31>> THEN 9 ELSE 7

Described(p, t) ==
    CASE t.kind = "char" /\ t.args[1] = 10 -> NewLine(p)
      [] t.kind = "char" /\ t.args[1] = 13 -> p
      [] t.kind = "char" /\ t.args[1] = 9  -> At(p, (p.x \div TAB + 1) * TAB)
      [] t.kind = "char" /\ t.args[1] = 8  -> [p EXCEPT !.x = Back(p.x, 1)]
      [] t.kind = "char" /\ t.args[1] >= 32 ->
            At([p EXCEPT !.rows[p.y + 1][p.x] = Cell(t.args[1], p.color)], p.x + 1)
      [] t.kind = "up"    -> [p EXCEPT !.y = Back(p.y, Distance(t.args))]
      [] t.kind = "down"  -> [p EXCEPT !.y = p.y + 1]
      [] t.kind = "right" -> [p EXCEPT !.x = p.x + 1]
      [] t.kind = "left"  -> [p EXCEPT !.x = Back(p.x, Distance(t.args))]
      [] t.kind = "goto"  -> IF t.args = <<>> THEN [p EXCEPT !.x = 0, !.y = 0]
                             ELSE [p EXCEPT !.y = t.args[1] - 1, !.x = t.args[2] - 1]
      [] t.kind = "clear" /\ t.args = <<2>> ->
            [p EXCEPT !.rows = [y \in 1..CONSOLE_Y |-> BlankRow], !.x = 0, !.y = 0]
      [] t.kind = "color" /\ t.args = <<0>>  -> [p EXCEPT !.color = Colors(7, 0, 0)]
      [] t.kind = "color" /\ t.args = <<41>> -> [p EXCEPT !.color.back = 1]
      [] t.kind = "color" /\ t.args = <<1, 31>> ->
            [p EXCEPT !.color.fore = 9, !.color.bright = 1]
      [] OTHER -> p

\* The tokens that lead to a place on the screen and draw no coloured blank.
Sensible(p, t) ==
    /\ t.kind = "down" => p.y + 1 < CONSOLE_Y
    /\ t.kind = "right" => p.x + 1 < CONSOLE_X
    /\ t.kind = "char" /\ t.args[1] = 32 => p.color.back = 0

\* A write that reports an unknown sequence waits for itself.
Hangs == ansi_state = "COMPLETE"

write_token ==
    /\ bytes = <<>> /\ tokens < MaxTokens
    /\ ~Hangs
    /\ \E t \in {t \in Tokens : Sensible(page, t)} :
         /\ bytes' = t.bytes
         /\ page' = Described(page, t)
    /\ tokens' = tokens + 1
    /\ UNCHANGED <<text_console, console_x, console_y, color, ansi_state, numbers,
                   which_number, refresh_screen, drawn, writing>>

-----------------------------------------------------------------------------
(* framebuffer_console_write(), one character                              *)

\* State in the course of one turn of the loop.
Turn == [text |-> text_console, x |-> console_x, y |-> console_y, color |-> color,
         state |-> ansi_state, numbers |-> numbers, which |-> which_number,
         refresh |-> refresh_screen, drawn |-> drawn, command |-> 0]

Nothing == [y \in Y |-> [x \in X |-> {}]]

normal(t, ch) ==
    CASE ch = 13 -> t
      [] ch = 10 -> [t EXCEPT !.x = 0, !.y = @ + 1]
      [] ch = 9  -> [t EXCEPT !.x = ((@ + TAB) \div TAB) * TAB]
      [] ch = 8  -> [t EXCEPT !.x = IF @ = 0 THEN 0 ELSE @ - 1, !.refresh = TRUE]
      [] ch = 27 -> [t EXCEPT !.state = "ESCAPE"]
      [] OTHER   -> [t EXCEPT !.text[t.y][t.x] = Cell(ch, t.color),
                              !.refresh = @ \/ t.text[t.y][t.x].ch # 32,
                              !.x = @ + 1]

escape_(t, ch) ==
    IF ch = 91 THEN [t EXCEPT !.which = -1, !.numbers[0] = ANSI_DEFAULT, !.state = "NUMBER"]
    ELSE [t EXCEPT !.state = "NORMAL"]

number(t, ch) ==
    CASE ch \in 48..57 ->
            LET w == IF t.which = -1 THEN 0 ELSE t.which
                old == IF t.which = -1 THEN 0 ELSE t.numbers[w]
            IN [t EXCEPT !.which = w, !.numbers[w] = old * 10 + ch - 48]
      [] ch = 59 -> [t EXCEPT !.which = @ + 1, !.numbers[t.which + 1] = 0]
      [] OTHER   -> [t EXCEPT !.which = @ + 1, !.command = ch, !.state = "COMPLETE"]

DistanceOf(t) == IF t.numbers[0] = ANSI_DEFAULT THEN 1 ELSE t.numbers[0]

\* One turn of the loop over the numbers of an 'm'.
colored(c, n) ==
    CASE n \in {0, ANSI_DEFAULT} -> Colors(7, 0, 0)
      [] n = 1 -> [c EXCEPT !.bright = 1, !.fore = IF @ % 16 < 8 THEN @ + 8 ELSE @]
      [] n \in 30..37 -> [c EXCEPT !.fore = n - 30 + 8 * c.bright]
      [] n \in 40..47 -> [c EXCEPT !.back = n - 40]
      [] OTHER -> c

goto(t) ==
    IF t.numbers[0] = ANSI_DEFAULT THEN [t EXCEPT !.x = 0, !.y = 0]
    ELSE IF t.which = 0 THEN [t EXCEPT !.y = t.numbers[0] - 1]
    ELSE [t EXCEPT !.y = t.numbers[0] - 1, !.x = t.numbers[1] - 1]

framebuffer_console_clear(t) ==
    [t EXCEPT !.text = [y \in Y |-> BlankRow], !.x = 0, !.y = 0, !.drawn = Nothing]

\* The branches that report: no such command, no such way to clear.
Unknown(t) ==
    /\ t.state = "COMPLETE"
    /\ \/ t.command \notin {65, 66, 67, 68, 72, 74, 109}
       \/ t.command = 74 /\ t.numbers[0] # 2

\* The other branches of the switch over ansi_command.
complete(t) ==
    LET moved ==
        CASE t.command = 65 -> [t EXCEPT !.y = @ - DistanceOf(t)]
          [] t.command = 66 -> [t EXCEPT !.y = @ + DistanceOf(t)]
          [] t.command = 67 -> [t EXCEPT !.x = @ + DistanceOf(t)]
          [] t.command = 68 -> [t EXCEPT !.x = @ - DistanceOf(t)]
          [] t.command = 72 -> goto(t)
          [] t.command = 74 -> framebuffer_console_clear(t)
          [] t.command = 109 ->
                CASE t.which = 0 -> t
                  [] t.which = 1 -> [t EXCEPT !.color = colored(@, t.numbers[0])]
                  [] OTHER -> [t EXCEPT !.color = colored(colored(@, t.numbers[0]), t.numbers[1])]
    IN IF t.state = "COMPLETE" THEN [moved EXCEPT !.which = -1, !.state = "NORMAL"] ELSE t

\* Fault: the lines are checked before the columns.
bounds_lines_first(t) ==
    LET positive == [t EXCEPT !.x = IF @ < 0 THEN 0 ELSE @, !.y = IF @ < 0 THEN 0 ELSE @]
        scrolled ==
            IF positive.y < CONSOLE_Y THEN positive
            ELSE [positive EXCEPT
                    !.text = [y \in Y |-> IF y + 1 \in Y THEN positive.text[y + 1] ELSE BlankRow],
                    !.y = @ - 1, !.refresh = TRUE]
    IN IF scrolled.x < CONSOLE_X THEN scrolled
       ELSE [scrolled EXCEPT !.x = @ % CONSOLE_X, !.y = IF @ + 1 \in Y THEN @ + 1 ELSE @]

\* The bounds check: wrap, then scroll by one line.
bounds(t) ==
    LET positive == [t EXCEPT !.x = IF @ < 0 THEN 0 ELSE @, !.y = IF @ < 0 THEN 0 ELSE @]
        wrapped == IF positive.x < CONSOLE_X THEN positive
                   ELSE [positive EXCEPT !.x = @ % CONSOLE_X, !.y = @ + 1]
    IN IF wrapped.y < CONSOLE_Y THEN wrapped
       ELSE [wrapped EXCEPT
                !.text = [y \in Y |-> IF y + 1 \in Y THEN wrapped.text[y + 1] ELSE BlankRow],
                !.y = @ - 1, !.refresh = TRUE]

framebuffer_console_write ==
    /\ bytes # <<>>
    /\ LET ch == Head(bytes)
           state == CASE ansi_state = "NORMAL" -> normal(Turn, ch)
                      [] ansi_state = "ESCAPE" -> escape_(Turn, ch)
                      [] ansi_state = "NUMBER" -> number(Turn, ch)
           t == IF Unknown(state) THEN state ELSE bounds(complete(state))
       IN /\ text_console' = t.text
          /\ console_x' = t.x /\ console_y' = t.y
          /\ color' = t.color
          /\ ansi_state' = t.state /\ numbers' = t.numbers /\ which_number' = t.which
          /\ refresh_screen' = t.refresh
          /\ drawn' = t.drawn
    /\ bytes' = Tail(bytes)
    /\ writing' = TRUE
    /\ UNCHANGED <<page, tokens>>

\* Each place is drawn: a background other than black covers what was there,
\* black is transparent; a blank on black draws nothing.
framebuffer_console_push(before) ==
    [y \in Y |-> [x \in X |->
        LET cell == text_console[y][x] IN
        IF cell.back # 0 THEN {cell}
        ELSE IF cell.ch = 32 THEN before[y][x] ELSE before[y][x] \union {cell}]]

\* The end of a call.
write_done ==
    /\ writing /\ ~Hangs
    /\ drawn' = framebuffer_console_push(IF refresh_screen THEN Nothing ELSE drawn)
    /\ refresh_screen' = FALSE
    /\ writing' = FALSE
    /\ UNCHANGED <<text_console, console_x, console_y, color, ansi_state, numbers,
                   which_number, bytes, page, tokens>>

\* framebuffer_console_init().
ScreenInit ==
    /\ text_console = [y \in Y |-> BlankRow]
    /\ console_x = 0 /\ console_y = 0
    /\ color = Colors(15, 0, 0)      \* 0xffffff, of which four bits are used
    /\ ansi_state = "NORMAL" /\ which_number = -1
    /\ numbers = [n \in 0..2 |-> 0]
    /\ refresh_screen = FALSE /\ writing = FALSE
    /\ drawn = Nothing
    /\ bytes = <<>> /\ tokens = 0
    /\ page = [rows |-> [y \in 1..CONSOLE_Y |-> BlankRow], x |-> 0, y |-> 0,
               color |-> Colors(15, 0, 0)]

ScreenNext == write_token \/ framebuffer_console_write \/ write_done

ScreenSpec == ScreenInit /\ [][ScreenNext]_screen_vars

-----------------------------------------------------------------------------
(* Properties                                                              *)

\* framebuffer_console.c: the screen is what the tokens describe, wherever
\* the calls cut them: lines wrap and scroll, sequences leave no trace, and
\* no number of an earlier sequence plays a part.
TextRight ==
    bytes = <<>> =>
        /\ <<console_x, console_y>> = <<page.x, page.y>>
        /\ color = page.color
        /\ \A y \in Y : text_console[y] = page.rows[y + 1]

\* Between two calls no pixel is left of characters that are gone, though
\* the screen is not cleared for each call.
PixelsRight ==
    ~writing => \A y \in Y, x \in X : drawn[y][x] \subseteq {text_console[y][x]}

\* Together: what is seen is what was written.
ScreenRight == TextRight /\ PixelsRight

=============================================================================
