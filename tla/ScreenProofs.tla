---------------------------- MODULE ScreenProofs ----------------------------
(***************************************************************************)
(* The screen is what was written to it: for every size of it, with every  *)
(* TAB, for any tokens cut into calls anywhere.  And what is printed is    *)
(* what the format stands for, for every list of conversions.              *)
(*                                                                         *)
(* Between two bytes the console holds the page from before the token and  *)
(* the machine has read a beginning of the token; the last byte makes it   *)
(* the page the token describes.  A place shows nothing but what is there, *)
(* or all will be drawn again.                                             *)
(***************************************************************************)
EXTENDS TerminalProofs, Screen, Format, Recursion

Cells == [ch : Int, fore : Int, back : Int]
Row == [X -> Cells]
Texts == [Y -> Row]
Drawings == [Y -> [X -> SUBSET Cells]]
ColorSet == [fore : Int, back : Int, bright : Int]
NumberSets == [0..2 -> Int]
AnsiStates == {"NORMAL", "ESCAPE", "NUMBER", "COMPLETE"}

Turns == [text : Texts, x : Int, y : Int, color : ColorSet, state : AnsiStates,
          numbers : NumberSets, which : Int, refresh : BOOLEAN, drawn : Drawings, command : Int]
Pages == [rows : [1..CONSOLE_Y -> Row], x : X, y : Y, color : ColorSet]

\* The page that is in the console.
AsPage(t) ==
    [rows |-> [y \in 1..CONSOLE_Y |-> t.text[y - 1]], x |-> t.x, y |-> t.y, color |-> t.color]

Inside(t) == t \in Turns /\ t.x \in X /\ t.y \in Y

\* Blanks have no background; and what was drawn on a place is what is there,
\* a blank nothing, or all will be drawn again.
NoColouredBlank(text) ==
    \A y \in Y, x \in X : text[y][x].ch = 32 => text[y][x].back = 0

ShownOn(drw, text) ==
    \A y \in Y, x \in X :
         /\ drw[y][x] \subseteq {text[y][x]}
         /\ text[y][x].ch = 32 => drw[y][x] = {}

Clean(t) == NoColouredBlank(t.text) /\ (t.refresh = TRUE \/ ShownOn(t.drawn, t.text))

LEMMA SizesAre ==
    /\ CONSOLE_X \in Nat \ {0} /\ CONSOLE_Y \in Nat \ {0} /\ TAB \in Nat \ {0}
    /\ CONSOLE_X <= 99 /\ CONSOLE_Y <= 99
    /\ \A n : n \in X <=> n \in Nat /\ n < CONSOLE_X
    /\ \A n : n \in Y <=> n \in Nat /\ n < CONSOLE_Y
  BY ScreenAssumption DEF X, Y

LEMMA BlankIs ==
    /\ Blank \in Cells /\ Blank.ch = 32 /\ Blank.back = 0
    /\ BlankRow \in Row /\ \A x \in X : BlankRow[x] = Blank
<1>1. Blank \in Cells /\ Blank.ch = 32 /\ Blank.back = 0
  BY DEF Blank, Cell, Colors, Cells
<1> QED
  BY <1>1 DEF BlankRow, Row

Scrolled(text) == [y \in Y |-> IF y + 1 \in Y THEN text[y + 1] ELSE BlankRow]

\* The steps of the bounds check: the cursor moves, and the text rolls up.
MovedTo(t, x, y) == [t EXCEPT !.x = x, !.y = y]
RolledTo(t, text, y) == [t EXCEPT !.text = text, !.y = y, !.refresh = TRUE]

SameRest(u, t) ==
    /\ u.color = t.color /\ u.state = t.state /\ u.numbers = t.numbers
    /\ u.which = t.which /\ u.drawn = t.drawn /\ u.command = t.command

LEMMA Moved ==
    ASSUME NEW t \in Turns, NEW x \in Int, NEW y \in Int
    PROVE  LET u == MovedTo(t, x, y)
           IN /\ u \in Turns /\ u.x = x /\ u.y = y
              /\ u.text = t.text /\ u.refresh = t.refresh /\ SameRest(u, t)
<1>1. MovedTo(t, x, y) \in Turns
  BY DEF MovedTo, Turns
<1>2. LET u == MovedTo(t, x, y)
      IN /\ u.x = x /\ u.y = y
         /\ u.text = t.text /\ u.refresh = t.refresh /\ SameRest(u, t)
  BY DEF MovedTo, Turns, SameRest
<1> QED
  BY <1>1, <1>2

LEMMA Rolled ==
    ASSUME NEW t \in Turns, NEW text \in Texts, NEW y \in Int
    PROVE  LET u == RolledTo(t, text, y)
           IN /\ u \in Turns /\ u.x = t.x /\ u.y = y
              /\ u.text = text /\ u.refresh = TRUE /\ SameRest(u, t)
<1>1. RolledTo(t, text, y) \in Turns
  BY DEF RolledTo, Turns
<1>2. LET u == RolledTo(t, text, y)
      IN /\ u.x = t.x /\ u.y = y
         /\ u.text = text /\ u.refresh = TRUE /\ SameRest(u, t)
  BY DEF RolledTo, Turns, SameRest
<1> QED
  BY <1>1, <1>2

BoundsOf(t, x0, y0) ==
    LET positive == MovedTo(t, x0, y0)
        wrapped == IF x0 < CONSOLE_X THEN positive
                   ELSE MovedTo(positive, x0 % CONSOLE_X, y0 + 1)
    IN IF wrapped.y < CONSOLE_Y THEN wrapped
       ELSE RolledTo(wrapped, Scrolled(wrapped.text), wrapped.y - 1)

LEMMA BoundsAre ==
    ASSUME NEW t \in Turns, NEW x0 \in Nat, NEW y0 \in Nat,
           x0 = IF t.x < 0 THEN 0 ELSE t.x, y0 = IF t.y < 0 THEN 0 ELSE t.y
    PROVE  bounds(t) = BoundsOf(t, x0, y0)
<1> DEFINE positive == [t EXCEPT !.x = IF @ < 0 THEN 0 ELSE @, !.y = IF @ < 0 THEN 0 ELSE @]
           wrapped == IF positive.x < CONSOLE_X THEN positive
                      ELSE [positive EXCEPT !.x = @ % CONSOLE_X, !.y = @ + 1]
           scrolled == [wrapped EXCEPT !.text = [y \in Y |-> IF y + 1 \in Y THEN wrapped.text[y + 1] ELSE BlankRow],
                                       !.y = @ - 1, !.refresh = TRUE]
           moved == MovedTo(t, x0, y0)
<1>1. positive = moved
  BY DEF Turns, MovedTo
<1>2. moved.x = x0 /\ moved.y = y0
  BY Moved
<1>3. bounds(t) = IF wrapped.y < CONSOLE_Y THEN wrapped ELSE scrolled
  BY DEF bounds
<1> HIDE DEF positive, moved
<1>4. wrapped = IF x0 < CONSOLE_X THEN moved ELSE [moved EXCEPT !.x = @ % CONSOLE_X, !.y = @ + 1]
  BY <1>1, <1>2
<1>5. [moved EXCEPT !.x = @ % CONSOLE_X, !.y = @ + 1] = MovedTo(moved, moved.x % CONSOLE_X, moved.y + 1)
  BY DEF MovedTo
<1>6. wrapped = IF x0 < CONSOLE_X THEN moved ELSE MovedTo(moved, x0 % CONSOLE_X, y0 + 1)
  BY <1>2, <1>4, <1>5
<1> HIDE DEF wrapped
<1>7. scrolled = RolledTo(wrapped, Scrolled(wrapped.text), wrapped.y - 1)
  BY DEF RolledTo, Scrolled
<1> HIDE DEF scrolled
<1> QED
  BY <1>3, <1>6, <1>7 DEF BoundsOf, moved

LEMMA ScrolledIs == ASSUME NEW text \in Texts PROVE Scrolled(text) \in Texts
<1>1. \A y \in Y : text[y] \in Row
  BY DEF Texts
<1> SUFFICES ASSUME NEW y \in Y PROVE (IF y + 1 \in Y THEN text[y + 1] ELSE BlankRow) \in Row
  BY DEF Scrolled, Texts
<1> QED
  BY <1>1, BlankIs

LEMMA BoundsIs ==
    ASSUME NEW t \in Turns
    PROVE  LET x0 == IF t.x < 0 THEN 0 ELSE t.x
               y0 == IF t.y < 0 THEN 0 ELSE t.y
               x1 == IF x0 < CONSOLE_X THEN x0 ELSE x0 % CONSOLE_X
               y1 == IF x0 < CONSOLE_X THEN y0 ELSE y0 + 1
               b == bounds(t)
           IN /\ b \in Turns
              /\ b.x = x1 /\ b.y = (IF y1 < CONSOLE_Y THEN y1 ELSE y1 - 1)
              /\ b.text = (IF y1 < CONSOLE_Y THEN t.text ELSE Scrolled(t.text))
              /\ b.refresh = (t.refresh \/ ~(y1 < CONSOLE_Y))
              /\ SameRest(b, t)
<1> DEFINE x0 == IF t.x < 0 THEN 0 ELSE t.x
           y0 == IF t.y < 0 THEN 0 ELSE t.y
           x1 == IF x0 < CONSOLE_X THEN x0 ELSE x0 % CONSOLE_X
           y1 == IF x0 < CONSOLE_X THEN y0 ELSE y0 + 1
           positive == MovedTo(t, x0, y0)
           wrapped == IF x0 < CONSOLE_X THEN positive
                      ELSE MovedTo(positive, x0 % CONSOLE_X, y0 + 1)
           rolled == RolledTo(wrapped, Scrolled(wrapped.text), wrapped.y - 1)
<1>1. x0 \in Nat /\ y0 \in Nat /\ x0 % CONSOLE_X \in Nat /\ t.text \in Texts /\ t.refresh \in BOOLEAN
  <2>1. t.x \in Int /\ t.y \in Int /\ t.text \in Texts /\ t.refresh \in BOOLEAN
    BY DEF Turns
  <2>2. x0 \in Nat /\ y0 \in Nat
    BY <2>1
  <2> HIDE DEF x0, y0
  <2> QED
    BY <2>1, <2>2, SizesAre
<1>2. bounds(t) = IF wrapped.y < CONSOLE_Y THEN wrapped ELSE rolled
  <2>1. bounds(t) = BoundsOf(t, x0, y0)
    BY <1>1, BoundsAre
  <2> QED
    BY <2>1 DEF BoundsOf
<1> HIDE DEF x0, y0
<1>3. /\ positive \in Turns /\ positive.x = x0 /\ positive.y = y0
      /\ positive.text = t.text /\ positive.refresh = t.refresh /\ SameRest(positive, t)
  BY <1>1, Moved
<1> HIDE DEF positive
<1>4. /\ wrapped \in Turns /\ wrapped.x = x1 /\ wrapped.y = y1
      /\ wrapped.text = t.text /\ wrapped.refresh = t.refresh /\ SameRest(wrapped, t)
  <2>1. CASE x0 < CONSOLE_X
    BY <1>3, <2>1
  <2>2. CASE ~(x0 < CONSOLE_X)
    <3> DEFINE u == MovedTo(positive, x0 % CONSOLE_X, y0 + 1)
    <3>1. /\ u \in Turns /\ u.x = x0 % CONSOLE_X /\ u.y = y0 + 1
          /\ u.text = positive.text /\ u.refresh = positive.refresh /\ SameRest(u, positive)
      BY <1>1, <1>3, Moved
    <3> HIDE DEF u
    <3>2. wrapped = u
      BY <2>2 DEF u
    <3> QED
      BY <1>3, <2>2, <3>1, <3>2 DEF SameRest
  <2> QED
    BY <2>1, <2>2
<1>5. x1 \in Int /\ y1 \in Int
  BY <1>1, SizesAre
<1> HIDE DEF wrapped, x1, y1
<1>6. Scrolled(t.text) \in Texts
  BY <1>1, ScrolledIs
<1>7. /\ rolled \in Turns /\ rolled.x = x1 /\ rolled.y = y1 - 1
      /\ rolled.text = Scrolled(t.text) /\ rolled.refresh = TRUE /\ SameRest(rolled, t)
  <2>1. wrapped.y - 1 \in Int /\ Scrolled(wrapped.text) \in Texts
    BY <1>4, <1>5, <1>6
  <2>2. /\ rolled \in Turns /\ rolled.x = wrapped.x /\ rolled.y = wrapped.y - 1
        /\ rolled.text = Scrolled(wrapped.text) /\ rolled.refresh = TRUE /\ SameRest(rolled, wrapped)
    BY <1>4, <2>1, Rolled
  <2> HIDE DEF rolled
  <2> QED
    BY <1>4, <2>2 DEF SameRest
<1> HIDE DEF rolled
<1>8. LET b == bounds(t)
      IN /\ b \in Turns
         /\ b.x = x1 /\ b.y = (IF y1 < CONSOLE_Y THEN y1 ELSE y1 - 1)
         /\ b.text = (IF y1 < CONSOLE_Y THEN t.text ELSE Scrolled(t.text))
         /\ b.refresh = (t.refresh \/ ~(y1 < CONSOLE_Y))
         /\ SameRest(b, t)
  <2>1. CASE y1 < CONSOLE_Y
    <3>1. bounds(t) = wrapped
      BY <1>2, <1>4, <2>1
    <3> QED
      BY <1>1, <1>4, <2>1, <3>1
  <2>2. CASE ~(y1 < CONSOLE_Y)
    <3>1. bounds(t) = rolled
      BY <1>2, <1>4, <2>2
    <3> QED
      BY <1>7, <2>2, <3>1
  <2> QED
    BY <2>1, <2>2
<1> QED
  BY <1>8 DEF x0, y0, x1, y1

LEMMA CleanBounds == ASSUME NEW t \in Turns, Clean(t) PROVE Clean(bounds(t))
<1> DEFINE b == bounds(t)
<1>1. /\ b.drawn = t.drawn
      /\ \/ b.text = t.text /\ b.refresh = t.refresh
         \/ b.text = Scrolled(t.text) /\ b.refresh = TRUE
  <2>1. t.refresh \in BOOLEAN
    BY DEF Turns
  <2> QED
    BY <2>1, BoundsIs DEF SameRest
<1> HIDE DEF b
<1>2. NoColouredBlank(Scrolled(t.text))
  <2> SUFFICES ASSUME NEW y \in Y, NEW x \in X, Scrolled(t.text)[y][x].ch = 32
               PROVE  Scrolled(t.text)[y][x].back = 0
    BY DEF NoColouredBlank
  <2>1. Scrolled(t.text)[y] = IF y + 1 \in Y THEN t.text[y + 1] ELSE BlankRow
    BY DEF Scrolled
  <2>2. CASE y + 1 \in Y
    BY <2>1, <2>2 DEF Clean, NoColouredBlank
  <2>3. CASE y + 1 \notin Y
    BY <2>1, <2>3, BlankIs
  <2> QED
    BY <2>2, <2>3
<1> QED
  BY <1>1, <1>2 DEF b, Clean

LEMMA PageIs ==
    ASSUME NEW t, Inside(t)
    PROVE  /\ AsPage(t) \in Pages /\ AsPage(t).x = t.x /\ AsPage(t).y = t.y /\ AsPage(t).color = t.color
           /\ \A y \in 1..CONSOLE_Y : AsPage(t).rows[y] = t.text[y - 1]
<1>1. \A y \in 1..CONSOLE_Y : y - 1 \in Y
  BY SizesAre
<1>2. [y \in 1..CONSOLE_Y |-> t.text[y - 1]] \in [1..CONSOLE_Y -> Row]
  BY <1>1 DEF Inside, Turns, Texts
<1> QED
  BY <1>2 DEF AsPage, Inside, Turns, Pages

LEMMA SamePage ==
    ASSUME NEW p \in Pages, NEW q \in Pages, p.x = q.x, p.y = q.y, p.color = q.color,
           \A y \in 1..CONSOLE_Y : p.rows[y] = q.rows[y]
    PROVE  p = q
<1>1. p.rows = q.rows
  <2>1. p.rows \in [1..CONSOLE_Y -> Row] /\ q.rows \in [1..CONSOLE_Y -> Row]
    BY DEF Pages
  <2>2. /\ p.rows = [y \in 1..CONSOLE_Y |-> p.rows[y]]
        /\ q.rows = [y \in 1..CONSOLE_Y |-> q.rows[y]]
    BY <2>1
  <2> QED
    BY <2>2, Zenon
<1>2. \A r \in Pages : r = [rows |-> r.rows, x |-> r.x, y |-> r.y, color |-> r.color]
  BY DEF Pages
<1> QED
  BY <1>1, <1>2

\* One line on: what the bounds check makes of it is what the page does.
LEMMA NewLineIs ==
    ASSUME NEW p \in Pages
    PROVE  /\ NewLine(p) \in Pages /\ NewLine(p).x = 0 /\ NewLine(p).color = p.color
           /\ NewLine(p).y = (IF p.y + 1 < CONSOLE_Y THEN p.y + 1 ELSE p.y)
           /\ \A y \in 1..CONSOLE_Y : NewLine(p).rows[y] =
                IF p.y + 1 < CONSOLE_Y THEN p.rows[y]
                ELSE IF y + 1 <= CONSOLE_Y THEN p.rows[y + 1] ELSE BlankRow
<1>1. p.y \in Nat /\ p.y < CONSOLE_Y /\ p.rows \in [1..CONSOLE_Y -> Row] /\ 0 \in X
  BY SizesAre DEF Pages
<1>2. CASE p.y + 1 < CONSOLE_Y
  <2>1. p.y + 1 \in Y
    BY <1>1, <1>2, SizesAre
  <2> QED
    BY <1>1, <1>2, <2>1 DEF NewLine, Pages
<1>3. CASE ~(p.y + 1 < CONSOLE_Y)
  <2> DEFINE rest == Tail(p.rows)
             rows == Append(rest, BlankRow)
  <2>1. p.rows \in Seq(Row) /\ Len(p.rows) = CONSOLE_Y /\ CONSOLE_Y \in Nat \ {0}
    BY <1>1, SizesAre
  <2>2. rest \in Seq(Row) /\ Len(rest) = CONSOLE_Y - 1 /\ \A y \in 1..(CONSOLE_Y - 1) : rest[y] = p.rows[y + 1]
    BY <2>1
  <2> HIDE DEF rest
  <2>3. rows \in Seq(Row) /\ Len(rows) = CONSOLE_Y /\ rows[CONSOLE_Y] = BlankRow
        /\ \A y \in 1..(CONSOLE_Y - 1) : rows[y] = rest[y]
    BY <2>1, <2>2, BlankIs
  <2>4. rows \in [1..CONSOLE_Y -> Row]
    <3>1. rows \in [1..Len(rows) -> Row]
      BY <2>3, LenProperties
    <3> QED
      BY <2>3, <3>1
  <2>5. NewLine(p) = [p EXCEPT !.x = 0, !.rows = rows]
    BY <1>3 DEF NewLine, rest
  <2> HIDE DEF rows
  <2>6. NewLine(p) \in Pages /\ NewLine(p).x = 0 /\ NewLine(p).color = p.color
        /\ NewLine(p).y = p.y /\ NewLine(p).rows = rows
    BY <1>1, <2>4, <2>5 DEF Pages
  <2>7. \A y \in 1..CONSOLE_Y : rows[y] = IF y + 1 <= CONSOLE_Y THEN p.rows[y + 1] ELSE BlankRow
    BY <2>1, <2>2, <2>3
  <2> QED
    BY <1>3, <2>6, <2>7
<1> QED
  BY <1>2, <1>3

\* Where the bounds check leads a cursor that has gone to the right.
LEMMA BoundsForward ==
    ASSUME NEW t \in Turns, t.x \in Nat, t.y \in Y
    PROVE  /\ Inside(bounds(t))
           /\ \A p \in Pages :
                /\ p.y = t.y /\ p.color = t.color
                /\ \A y \in 1..CONSOLE_Y : p.rows[y] = t.text[y - 1]
                => AsPage(bounds(t)) = At(p, t.x)
<1> DEFINE b == bounds(t)
           y1 == IF t.x < CONSOLE_X THEN t.y ELSE t.y + 1
<1>0. t.y \in Nat /\ t.y < CONSOLE_Y /\ CONSOLE_X \in Nat \ {0} /\ CONSOLE_Y \in Nat \ {0}
      /\ t.text \in Texts
  BY SizesAre DEF Turns
<1>1. /\ b \in Turns /\ b.x = (IF t.x < CONSOLE_X THEN t.x ELSE t.x % CONSOLE_X)
      /\ b.y = (IF y1 < CONSOLE_Y THEN y1 ELSE y1 - 1)
      /\ b.text = (IF y1 < CONSOLE_Y THEN t.text ELSE Scrolled(t.text))
      /\ b.color = t.color
  BY <1>0, BoundsIs DEF SameRest
<1>2. b.x \in X /\ b.y \in Y
  <2>1. t.x % CONSOLE_X \in 0..(CONSOLE_X - 1)
    BY <1>0
  <2> HIDE DEF b
  <2> QED
    BY <1>0, <1>1, <2>1, SizesAre
<1>3. Inside(b)
  BY <1>1, <1>2 DEF Inside
<1> HIDE DEF b
<1>4. ASSUME NEW p \in Pages, p.y = t.y, p.color = t.color,
             \A y \in 1..CONSOLE_Y : p.rows[y] = t.text[y - 1]
      PROVE  AsPage(b) = At(p, t.x)
  <2>1. CASE t.x < CONSOLE_X
    <3>1. t.x \in X
      BY <2>1, SizesAre
    <3>2. At(p, t.x) = [p EXCEPT !.x = t.x]
      BY <2>1 DEF At
    <3>3. At(p, t.x) \in Pages /\ At(p, t.x).x = t.x /\ At(p, t.x).y = p.y
          /\ At(p, t.x).color = p.color /\ At(p, t.x).rows = p.rows
      BY <3>1, <3>2 DEF Pages
    <3>4. b.x = t.x /\ b.y = t.y /\ b.text = t.text
      BY <1>0, <1>1, <2>1
    <3>5. \A y \in 1..CONSOLE_Y : AsPage(b).rows[y] = At(p, t.x).rows[y]
      BY <1>3, <1>4, <3>3, <3>4, PageIs
    <3> QED
      BY <1>1, <1>3, <1>4, <3>3, <3>4, <3>5, PageIs, SamePage
  <2>2. CASE ~(t.x < CONSOLE_X)
    <3> DEFINE n == NewLine(p)
               a == At(p, t.x)
    <3>1. /\ n \in Pages /\ n.color = p.color
          /\ n.y = (IF p.y + 1 < CONSOLE_Y THEN p.y + 1 ELSE p.y)
          /\ \A y \in 1..CONSOLE_Y : n.rows[y] =
               IF p.y + 1 < CONSOLE_Y THEN p.rows[y]
               ELSE IF y + 1 <= CONSOLE_Y THEN p.rows[y + 1] ELSE BlankRow
      BY NewLineIs
    <3>2. b.x = t.x % CONSOLE_X /\ t.x % CONSOLE_X \in X
      BY <1>1, <1>2, <2>2
    <3>3. a = [n EXCEPT !.x = t.x % CONSOLE_X]
      BY <2>2 DEF At
    <3> HIDE DEF n, a
    <3>4. a \in Pages /\ a.x = b.x /\ a.y = n.y /\ a.color = n.color /\ a.rows = n.rows
      BY <3>1, <3>2, <3>3 DEF Pages
    <3>5. b.y = n.y
      BY <1>0, <1>1, <1>4, <2>2, <3>1
    <3>6. ASSUME NEW y \in 1..CONSOLE_Y PROVE AsPage(b).rows[y] = a.rows[y]
      <4>1. AsPage(b).rows[y] = b.text[y - 1] /\ y - 1 \in Y
        BY <1>3, PageIs, SizesAre
      <4>2. CASE t.y + 1 < CONSOLE_Y
        <5>1. b.text = t.text
          BY <1>0, <1>1, <2>2, <4>2
        <5> QED
          BY <1>4, <3>1, <3>4, <4>1, <4>2, <5>1
      <4>3. CASE ~(t.y + 1 < CONSOLE_Y)
        <5>1. b.text = Scrolled(t.text)
          BY <1>0, <1>1, <2>2, <4>3
        <5>2. b.text[y - 1] = IF (y - 1) + 1 \in Y THEN t.text[(y - 1) + 1] ELSE BlankRow
          BY <4>1, <5>1 DEF Scrolled
        <5>3. (y - 1) + 1 = y /\ (y \in Y <=> y + 1 <= CONSOLE_Y)
          BY <1>0, SizesAre
        <5>4. y + 1 <= CONSOLE_Y => y + 1 \in 1..CONSOLE_Y /\ p.rows[y + 1] = t.text[(y + 1) - 1] /\ (y + 1) - 1 = y
          BY <1>0, <1>4
        <5> QED
          BY <1>4, <3>1, <3>4, <4>1, <4>3, <5>2, <5>3, <5>4
      <4> QED
        BY <4>2, <4>3
    <3>7. AsPage(b) = a
      BY <1>1, <1>3, <1>4, <3>1, <3>4, <3>5, <3>6, PageIs, SamePage
    <3> QED
      BY <3>7 DEF a
  <2> QED
    BY <2>1, <2>2
<1> QED
  BY <1>3, <1>4 DEF b

\* And one that has gone down a line, or up or to the left too far.
LEMMA BoundsDown ==
    ASSUME NEW t \in Turns, t.x = 0, t.y \in 1..CONSOLE_Y
    PROVE  /\ Inside(bounds(t))
           /\ \A p \in Pages :
                /\ p.y = t.y - 1 /\ p.color = t.color
                /\ \A y \in 1..CONSOLE_Y : p.rows[y] = t.text[y - 1]
                => AsPage(bounds(t)) = NewLine(p)
<1> DEFINE b == bounds(t)
<1>0. t.y \in Nat /\ CONSOLE_X \in Nat \ {0} /\ CONSOLE_Y \in Nat \ {0} /\ t.text \in Texts
  BY SizesAre DEF Turns
<1>1. /\ b \in Turns /\ b.x = 0
      /\ b.y = (IF t.y < CONSOLE_Y THEN t.y ELSE t.y - 1)
      /\ b.text = (IF t.y < CONSOLE_Y THEN t.text ELSE Scrolled(t.text))
      /\ b.color = t.color
  BY <1>0, BoundsIs DEF SameRest
<1> HIDE DEF b
<1>2. b.x \in X /\ b.y \in Y
  BY <1>0, <1>1, SizesAre
<1>3. Inside(b)
  BY <1>1, <1>2 DEF Inside
<1>4. ASSUME NEW p \in Pages, p.y = t.y - 1, p.color = t.color,
             \A y \in 1..CONSOLE_Y : p.rows[y] = t.text[y - 1]
      PROVE  AsPage(b) = NewLine(p)
  <2> DEFINE n == NewLine(p)
  <2>1. /\ n \in Pages /\ n.color = p.color /\ n.x = 0
        /\ n.y = (IF p.y + 1 < CONSOLE_Y THEN p.y + 1 ELSE p.y)
        /\ \A y \in 1..CONSOLE_Y : n.rows[y] =
             IF p.y + 1 < CONSOLE_Y THEN p.rows[y]
             ELSE IF y + 1 <= CONSOLE_Y THEN p.rows[y + 1] ELSE BlankRow
    BY NewLineIs
  <2> HIDE DEF n
  <2>2. b.y = n.y
    BY <1>0, <1>1, <1>4, <2>1
  <2>3. ASSUME NEW y \in 1..CONSOLE_Y PROVE AsPage(b).rows[y] = n.rows[y]
    <3>1. AsPage(b).rows[y] = b.text[y - 1] /\ y - 1 \in Y
      BY <1>3, PageIs, SizesAre
    <3>2. CASE t.y < CONSOLE_Y
      BY <1>0, <1>1, <1>4, <2>1, <3>1, <3>2
    <3>3. CASE ~(t.y < CONSOLE_Y)
      <4>1. b.text[y - 1] = IF (y - 1) + 1 \in Y THEN t.text[(y - 1) + 1] ELSE BlankRow
        BY <1>1, <3>1, <3>3 DEF Scrolled
      <4>2. (y - 1) + 1 = y /\ (y \in Y <=> y + 1 <= CONSOLE_Y)
        BY <1>0, SizesAre
      <4>3. y + 1 <= CONSOLE_Y => y + 1 \in 1..CONSOLE_Y /\ p.rows[y + 1] = t.text[(y + 1) - 1] /\ (y + 1) - 1 = y
        BY <1>0, <1>4
      <4> QED
        BY <1>0, <1>4, <2>1, <3>1, <3>3, <4>1, <4>2, <4>3
    <3> QED
      BY <3>2, <3>3
  <2>4. AsPage(b) = n
    BY <1>1, <1>3, <1>4, <2>1, <2>2, <2>3, PageIs, SamePage
  <2> QED
    BY <2>4 DEF n
<1> QED
  BY <1>3, <1>4 DEF b

LEMMA BoundsBack ==
    ASSUME NEW t \in Turns, t.x < CONSOLE_X, t.y < CONSOLE_Y
    PROVE  LET b == bounds(t)
           IN /\ Inside(b) /\ b.x = (IF t.x < 0 THEN 0 ELSE t.x) /\ b.y = (IF t.y < 0 THEN 0 ELSE t.y)
              /\ b.text = t.text /\ b.refresh = t.refresh /\ SameRest(b, t)
<1> DEFINE b == bounds(t)
<1>1. t.x \in Int /\ t.y \in Int /\ t.refresh \in BOOLEAN
  BY DEF Turns
<1>2. /\ b \in Turns /\ b.x = (IF t.x < 0 THEN 0 ELSE t.x) /\ b.y = (IF t.y < 0 THEN 0 ELSE t.y)
      /\ b.text = t.text /\ b.refresh = t.refresh /\ SameRest(b, t)
  BY <1>1, BoundsIs, SizesAre
<1> HIDE DEF b
<1>3. b.x \in X /\ b.y \in Y
  BY <1>1, <1>2, SizesAre
<1> QED
  BY <1>2, <1>3 DEF Inside, b

-----------------------------------------------------------------------------
(* The machine for escape sequences                                         *)

\* Only where the machine is differs.
SameScreen(u, t) ==
    /\ u.text = t.text /\ u.x = t.x /\ u.y = t.y /\ u.color = t.color
    /\ u.refresh = t.refresh /\ u.drawn = t.drawn

LEMMA ScreenKept ==
    ASSUME NEW t, Inside(t), Clean(t), NEW u \in Turns, SameScreen(u, t)
    PROVE  Inside(u) /\ Clean(u) /\ AsPage(u) = AsPage(t)
  BY DEF Inside, Clean, AsPage, SameScreen

\* The bounds check does nothing, and complete() neither.
LEMMA NothingLeft ==
    ASSUME NEW t, Inside(t), t.state # "COMPLETE"
    PROVE  LET b == bounds(complete(t))
           IN b \in Turns /\ SameScreen(b, t) /\ b.state = t.state /\ b.numbers = t.numbers /\ b.which = t.which
<1>1. complete(t) = t
  BY DEF complete
<1>2. t \in Turns /\ t.x < CONSOLE_X /\ t.y < CONSOLE_Y /\ ~(t.x < 0) /\ ~(t.y < 0)
  BY SizesAre DEF Inside
<1>3. LET b == bounds(t)
      IN /\ b \in Turns /\ b.x = t.x /\ b.y = t.y /\ b.text = t.text /\ b.refresh = t.refresh
         /\ SameRest(b, t)
  BY <1>2, BoundsBack DEF Inside
<1> QED
  BY <1>1, <1>3 DEF SameScreen, SameRest

\* The machine moves.
MachineAt(t, w, nums, st, c) ==
    [t EXCEPT !.which = w, !.numbers = nums, !.state = st, !.command = c]

LEMMA MachineMoved ==
    ASSUME NEW t \in Turns, NEW w \in Int, NEW nums \in NumberSets, NEW st \in AnsiStates, NEW c \in Int
    PROVE  LET u == MachineAt(t, w, nums, st, c)
           IN /\ u \in Turns /\ SameScreen(u, t)
              /\ u.which = w /\ u.numbers = nums /\ u.state = st /\ u.command = c
<1>1. MachineAt(t, w, nums, st, c) \in Turns
  BY DEF MachineAt, Turns
<1>2. LET u == MachineAt(t, w, nums, st, c)
      IN /\ SameScreen(u, t)
         /\ u.which = w /\ u.numbers = nums /\ u.state = st /\ u.command = c
  BY DEF MachineAt, Turns, SameScreen
<1> QED
  BY <1>1, <1>2

LEMMA MachineTypes ==
    ASSUME NEW t \in Turns
    PROVE  /\ t.which \in Int /\ t.numbers \in NumberSets /\ t.state \in AnsiStates /\ t.command \in Int
           /\ -1 \in Int /\ "NORMAL" \in AnsiStates /\ "ESCAPE" \in AnsiStates /\ "NUMBER" \in AnsiStates
           /\ "COMPLETE" \in AnsiStates
  BY DEF Turns, AnsiStates

LEMMA NormalEscape ==
    ASSUME NEW t \in Turns
    PROVE  LET u == normal(t, 27)
           IN u \in Turns /\ SameScreen(u, t) /\ u.state = "ESCAPE"
<1>1. normal(t, 27) = MachineAt(t, t.which, t.numbers, "ESCAPE", t.command)
  <2>1. normal(t, 27) = [t EXCEPT !.state = "ESCAPE"]
    BY DEF normal
  <2> QED
    BY <2>1 DEF MachineAt, Turns
<1>3. t.which \in Int /\ t.numbers \in NumberSets /\ t.command \in Int /\ "ESCAPE" \in AnsiStates
  BY MachineTypes
<1> QED
  BY <1>1, <1>3, MachineMoved

LEMMA EscapeOther ==
    ASSUME NEW t \in Turns
    PROVE  LET u == escape_(t, 55)
           IN u \in Turns /\ SameScreen(u, t) /\ u.state = "NORMAL"
<1>1. escape_(t, 55) = MachineAt(t, t.which, t.numbers, "NORMAL", t.command)
  <2>1. escape_(t, 55) = [t EXCEPT !.state = "NORMAL"]
    BY DEF escape_
  <2> QED
    BY <2>1 DEF MachineAt, Turns
<1>3. t.which \in Int /\ t.numbers \in NumberSets /\ t.command \in Int /\ "NORMAL" \in AnsiStates
  BY MachineTypes
<1> QED
  BY <1>1, <1>3, MachineMoved

LEMMA EscapeBracket ==
    ASSUME NEW t \in Turns
    PROVE  LET u == escape_(t, 91)
           IN /\ u \in Turns /\ SameScreen(u, t) /\ u.state = "NUMBER"
              /\ u.which = -1 /\ u.numbers[0] = -1
<1> DEFINE nums == [t.numbers EXCEPT ![0] = -1]
<1>1. escape_(t, 91) = MachineAt(t, -1, nums, "NUMBER", t.command)
  <2>1. escape_(t, 91) = [t EXCEPT !.which = -1, !.numbers[0] = -1, !.state = "NUMBER"]
    BY DEF escape_, ANSI_DEFAULT
  <2> QED
    BY <2>1 DEF MachineAt, Turns
<1>2. nums \in NumberSets /\ nums[0] = -1
  BY MachineTypes DEF NumberSets
<1> HIDE DEF nums
<1>3. t.which \in Int /\ t.numbers \in NumberSets /\ t.command \in Int /\ "NUMBER" \in AnsiStates /\ -1 \in Int
  BY MachineTypes
<1> DEFINE u == MachineAt(t, -1, nums, "NUMBER", t.command)
<1>4. u \in Turns /\ SameScreen(u, t) /\ u.which = -1 /\ u.numbers = nums /\ u.state = "NUMBER"
  <2> DEFINE w == -1
             st == "NUMBER"
  <2>1. w \in Int /\ nums \in NumberSets /\ st \in AnsiStates /\ t.command \in Int
    BY <1>2, <1>3
  <2> HIDE DEF w, st
  <2>2. LET m == MachineAt(t, w, nums, st, t.command)
        IN m \in Turns /\ SameScreen(m, t) /\ m.which = w /\ m.numbers = nums /\ m.state = st
    BY <2>1, MachineMoved
  <2> QED
    BY <2>2 DEF w, st
<1> HIDE DEF u
<1> QED
  BY <1>1, <1>2, <1>4 DEF u

\* A digit: d more, in the place of number w.
From(t, w, old) ==
    \/ t.which = -1 /\ w = 0 /\ old = 0
    \/ t.which = w /\ old = t.numbers[w]

LEMMA NumberDigit ==
    ASSUME NEW t \in Turns, NEW d \in 0..9, NEW w \in 0..2, NEW old \in Int, From(t, w, old)
    PROVE  LET u == number(t, 48 + d)
           IN /\ u \in Turns /\ SameScreen(u, t) /\ u.state = t.state /\ u.which = w
              /\ u.numbers[w] = old * 10 + d
              /\ \A n \in 0..2 : n # w => u.numbers[n] = t.numbers[n]
<1> DEFINE nums == [t.numbers EXCEPT ![w] = old * 10 + d]
<1>1. number(t, 48 + d) = MachineAt(t, w, nums, t.state, t.command)
  <2>1. 48 + d \in 48..57 /\ w # -1 /\ old * 10 + ((48 + d) - 48) = old * 10 + d
    OBVIOUS
  <2>2. w = (IF t.which = -1 THEN 0 ELSE t.which) /\ old = (IF t.which = -1 THEN 0 ELSE t.numbers[w])
    BY <2>1 DEF From
  <2>3. number(t, 48 + d) = [t EXCEPT !.which = w, !.numbers[w] = old * 10 + ((48 + d) - 48)]
    <3> DEFINE ch == 48 + d
    <3>1. ch \in 48..57
      BY <2>1
    <3> HIDE DEF ch
    <3>2. number(t, ch) = [t EXCEPT !.which = w, !.numbers[w] = old * 10 + ch - 48]
      BY <2>2, <3>1 DEF number
    <3> QED
      BY <3>2 DEF ch
  <2>4. number(t, 48 + d) = [t EXCEPT !.which = w, !.numbers[w] = old * 10 + d]
    BY <2>1, <2>3
  <2> QED
    BY <2>4 DEF MachineAt, Turns
<1>2. nums \in NumberSets /\ nums[w] = old * 10 + d /\ \A n \in 0..2 : n # w => nums[n] = t.numbers[n]
  BY MachineTypes DEF NumberSets
<1> HIDE DEF nums
<1>3. w \in Int /\ t.which \in Int /\ t.numbers \in NumberSets /\ t.command \in Int /\ t.state \in AnsiStates
  BY MachineTypes
<1> DEFINE u == MachineAt(t, w, nums, t.state, t.command)
<1>4. u \in Turns /\ SameScreen(u, t) /\ u.which = w /\ u.numbers = nums /\ u.state = t.state
  <2>1. w \in Int /\ nums \in NumberSets /\ t.state \in AnsiStates /\ t.command \in Int
    BY <1>2, <1>3
  <2> QED
    BY <2>1, MachineMoved
<1> HIDE DEF u
<1> QED
  BY <1>1, <1>2, <1>4 DEF u

LEMMA NumberNext ==
    ASSUME NEW t \in Turns, t.which = 0
    PROVE  LET u == number(t, 59)
           IN /\ u \in Turns /\ SameScreen(u, t) /\ u.state = t.state /\ u.which = 1
              /\ u.numbers[0] = t.numbers[0] /\ u.numbers[1] = 0
<1> DEFINE nums == [t.numbers EXCEPT ![1] = 0]
<1>1. number(t, 59) = MachineAt(t, 1, nums, t.state, t.command)
  <2>1. number(t, 59) = [t EXCEPT !.which = t.which + 1, !.numbers[t.which + 1] = 0]
    BY DEF number
  <2>2. number(t, 59) = [t EXCEPT !.which = 1, !.numbers[1] = 0]
    BY <2>1
  <2> QED
    BY <2>2 DEF MachineAt, Turns
<1>2. nums \in NumberSets /\ nums[1] = 0 /\ nums[0] = t.numbers[0]
  BY MachineTypes DEF NumberSets
<1> HIDE DEF nums
<1>3. t.which \in Int /\ t.numbers \in NumberSets /\ t.command \in Int /\ t.state \in AnsiStates
  BY MachineTypes
<1> DEFINE u == MachineAt(t, 1, nums, t.state, t.command)
<1>4. u \in Turns /\ SameScreen(u, t) /\ u.which = 1 /\ u.numbers = nums /\ u.state = t.state
  <2> DEFINE w == 1
  <2>1. w \in Int /\ nums \in NumberSets /\ t.state \in AnsiStates /\ t.command \in Int
    BY <1>2, <1>3
  <2> HIDE DEF w
  <2>2. LET m == MachineAt(t, w, nums, t.state, t.command)
        IN m \in Turns /\ SameScreen(m, t) /\ m.which = w /\ m.numbers = nums /\ m.state = t.state
    BY <2>1, MachineMoved
  <2> QED
    BY <2>2 DEF w
<1> HIDE DEF u
<1> QED
  BY <1>1, <1>2, <1>4 DEF u

Commands == {65, 66, 67, 68, 72, 74, 109, 104}

LEMMA NumberEnd ==
    ASSUME NEW t \in Turns, NEW c \in Commands
    PROVE  LET u == number(t, c)
           IN /\ u \in Turns /\ SameScreen(u, t) /\ u.state = "COMPLETE" /\ u.which = t.which + 1
              /\ u.numbers = t.numbers /\ u.command = c
<1>1. number(t, c) = MachineAt(t, t.which + 1, t.numbers, "COMPLETE", c)
  <2>1. number(t, c) = [t EXCEPT !.which = t.which + 1, !.command = c, !.state = "COMPLETE"]
    BY DEF number, Commands
  <2> QED
    BY <2>1 DEF MachineAt, Turns
<1>2. t.which + 1 \in Int /\ c \in Int
  BY MachineTypes DEF Commands
<1>3. t.which \in Int /\ t.numbers \in NumberSets /\ t.command \in Int /\ "COMPLETE" \in AnsiStates
  BY MachineTypes
<1> DEFINE u == MachineAt(t, t.which + 1, t.numbers, "COMPLETE", c)
<1>4. u \in Turns /\ SameScreen(u, t) /\ u.which = t.which + 1 /\ u.numbers = t.numbers /\ u.state = "COMPLETE" /\ u.command = c
  <2> DEFINE w == t.which + 1
             st == "COMPLETE"
  <2>1. w \in Int /\ t.numbers \in NumberSets /\ st \in AnsiStates /\ c \in Int
    BY <1>2, <1>3
  <2> HIDE DEF w, st
  <2>2. LET m == MachineAt(t, w, t.numbers, st, c)
        IN /\ m \in Turns /\ SameScreen(m, t) /\ m.which = w /\ m.numbers = t.numbers /\ m.state = st
           /\ m.command = c
    BY <2>1, MachineMoved
  <2> QED
    BY <2>2 DEF w, st
<1> HIDE DEF u
<1> QED
  BY <1>1, <1>2, <1>4 DEF u

-----------------------------------------------------------------------------
(* The commands                                                             *)

LEMMA TurnTypes ==
    ASSUME NEW t \in Turns
    PROVE  /\ t.x \in Int /\ t.y \in Int /\ t.text \in Texts /\ t.color \in ColorSet
           /\ t.drawn \in Drawings /\ t.refresh \in BOOLEAN
  BY DEF Turns

\* What is left of a command: the machine reads characters again.
Ended(t) == [t EXCEPT !.which = -1, !.state = "NORMAL"]
Coloured(t, c) == [t EXCEPT !.color = c]
Emptied(t) == [t EXCEPT !.text = [y \in Y |-> BlankRow], !.x = 0, !.y = 0, !.drawn = Nothing]

LEMMA EndedIs ==
    ASSUME NEW t \in Turns
    PROVE  Ended(t) \in Turns /\ SameScreen(Ended(t), t) /\ Ended(t).state = "NORMAL"
<1> DEFINE w == -1
           st == "NORMAL"
           u == MachineAt(t, w, t.numbers, st, t.command)
<1>1. w \in Int /\ st \in AnsiStates /\ t.numbers \in NumberSets /\ t.command \in Int
  BY MachineTypes
<1>2. Ended(t) = u
  BY DEF Ended, MachineAt, Turns
<1> HIDE DEF w, st
<1>3. u \in Turns /\ SameScreen(u, t) /\ u.state = st
  BY <1>1, MachineMoved
<1> HIDE DEF u
<1> QED
  BY <1>2, <1>3 DEF st

LEMMA ColouredIs ==
    ASSUME NEW t \in Turns, NEW c \in ColorSet
    PROVE  LET u == Coloured(t, c)
           IN /\ u \in Turns /\ u.color = c /\ u.x = t.x /\ u.y = t.y
              /\ u.text = t.text /\ u.refresh = t.refresh /\ u.drawn = t.drawn
<1>1. Coloured(t, c) \in Turns
  BY DEF Coloured, Turns
<1>2. LET u == Coloured(t, c)
      IN /\ u.color = c /\ u.x = t.x /\ u.y = t.y
         /\ u.text = t.text /\ u.refresh = t.refresh /\ u.drawn = t.drawn
  BY DEF Coloured, Turns
<1> QED
  BY <1>1, <1>2

LEMMA EmptiedIs ==
    ASSUME NEW t \in Turns
    PROVE  LET u == Emptied(t)
           IN /\ u \in Turns /\ u.color = t.color /\ u.x = 0 /\ u.y = 0
              /\ u.text = [y \in Y |-> BlankRow] /\ u.refresh = t.refresh /\ u.drawn = Nothing
<1> DEFINE text == [y \in Y |-> BlankRow]
           zero == 0
           drw == Nothing
<1>1. text \in Texts /\ zero \in Int /\ drw \in Drawings
  BY BlankIs DEF Texts, Drawings, Nothing
<1>2. Emptied(t) = [t EXCEPT !.text = text, !.x = zero, !.y = zero, !.drawn = drw]
  BY DEF Emptied
<1> HIDE DEF text, zero, drw
<1>3. [t EXCEPT !.text = text, !.x = zero, !.y = zero, !.drawn = drw] \in Turns
  BY <1>1 DEF Turns
<1>4. LET u == [t EXCEPT !.text = text, !.x = zero, !.y = zero, !.drawn = drw]
      IN /\ u.color = t.color /\ u.x = zero /\ u.y = zero
         /\ u.text = text /\ u.refresh = t.refresh /\ u.drawn = drw
  BY DEF Turns
<1> QED
  BY <1>2, <1>3, <1>4 DEF text, zero, drw

LEMMA CompleteIs ==
    ASSUME NEW u \in Turns, u.state = "COMPLETE"
    PROVE  /\ u.command = 65 => complete(u) = Ended(MovedTo(u, u.x, u.y - DistanceOf(u)))
           /\ u.command = 66 => complete(u) = Ended(MovedTo(u, u.x, u.y + DistanceOf(u)))
           /\ u.command = 67 => complete(u) = Ended(MovedTo(u, u.x + DistanceOf(u), u.y))
           /\ u.command = 68 => complete(u) = Ended(MovedTo(u, u.x - DistanceOf(u), u.y))
           /\ u.command = 72 /\ u.numbers[0] = -1 => complete(u) = Ended(MovedTo(u, 0, 0))
           /\ u.command = 72 /\ u.numbers[0] # -1 /\ u.which = 2 =>
                complete(u) = Ended(MovedTo(u, u.numbers[1] - 1, u.numbers[0] - 1))
           /\ u.command = 74 /\ u.numbers[0] = 2 => complete(u) = Ended(Emptied(u))
           /\ u.command = 109 /\ u.which = 1 => complete(u) = Ended(Coloured(u, colored(u.color, u.numbers[0])))
           /\ u.command = 109 /\ u.which = 2 =>
                complete(u) = Ended(Coloured(u, colored(colored(u.color, u.numbers[0]), u.numbers[1])))
<1> DEFINE D == DistanceOf(u)
<1>1. CASE u.command = 65
  <2>1. complete(u) = Ended([u EXCEPT !.y = @ - D])
    BY <1>1 DEF complete, Ended
  <2>2. [u EXCEPT !.y = @ - D] = MovedTo(u, u.x, u.y - D)
    BY DEF MovedTo, Turns
  <2> QED
    BY <1>1, <2>1, <2>2
<1>2. CASE u.command = 66
  <2>1. complete(u) = Ended([u EXCEPT !.y = @ + D])
    BY <1>2 DEF complete, Ended
  <2>2. [u EXCEPT !.y = @ + D] = MovedTo(u, u.x, u.y + D)
    BY DEF MovedTo, Turns
  <2> QED
    BY <1>2, <2>1, <2>2
<1>3. CASE u.command = 67
  <2>1. complete(u) = Ended([u EXCEPT !.x = @ + D])
    BY <1>3 DEF complete, Ended
  <2>2. [u EXCEPT !.x = @ + D] = MovedTo(u, u.x + D, u.y)
    BY DEF MovedTo, Turns
  <2> QED
    BY <1>3, <2>1, <2>2
<1>4. CASE u.command = 68
  <2>1. complete(u) = Ended([u EXCEPT !.x = @ - D])
    BY <1>4 DEF complete, Ended
  <2>2. [u EXCEPT !.x = @ - D] = MovedTo(u, u.x - D, u.y)
    BY DEF MovedTo, Turns
  <2> QED
    BY <1>4, <2>1, <2>2
<1>5. CASE u.command = 72
  <2>1. complete(u) = Ended(goto(u))
    BY <1>5 DEF complete, Ended
  <2>2. CASE u.numbers[0] = -1
    <3>1. goto(u) = MovedTo(u, 0, 0)
      BY <2>2 DEF goto, ANSI_DEFAULT, MovedTo
    <3> QED
      BY <1>5, <2>1, <2>2, <3>1
  <2>3. CASE u.numbers[0] # -1 /\ u.which = 2
    <3>1. goto(u) = [u EXCEPT !.y = u.numbers[0] - 1, !.x = u.numbers[1] - 1]
      BY <2>3 DEF goto, ANSI_DEFAULT
    <3>2. goto(u) = MovedTo(u, u.numbers[1] - 1, u.numbers[0] - 1)
      BY <3>1 DEF MovedTo, Turns
    <3> QED
      BY <1>5, <2>1, <2>3, <3>2
  <2> QED
    BY <1>5, <2>2, <2>3
<1>6. CASE u.command = 74
  <2>1. complete(u) = Ended(framebuffer_console_clear(u))
    BY <1>6 DEF complete, Ended
  <2>2. CASE u.numbers[0] = 2
    BY <1>6, <2>1, <2>2 DEF framebuffer_console_clear, Emptied
  <2> QED
    BY <1>6, <2>2
<1>7. CASE u.command = 109
  <2>1. CASE u.which = 1
    <3>1. complete(u) = Ended([u EXCEPT !.color = colored(@, u.numbers[0])])
      BY <1>7, <2>1 DEF complete, Ended
    <3> QED
      BY <1>7, <2>1, <3>1 DEF Coloured
  <2>2. CASE u.which = 2
    <3>1. complete(u) = Ended([u EXCEPT !.color = colored(colored(@, u.numbers[0]), u.numbers[1])])
      BY <1>7, <2>2 DEF complete, Ended
    <3> QED
      BY <1>7, <2>2, <3>1 DEF Coloured
  <2> QED
    BY <1>7, <2>1, <2>2
<1> QED
  BY <1>1, <1>2, <1>3, <1>4, <1>5, <1>6, <1>7

\* The same on the page.
PagePlaced(p, x, y) == [p EXCEPT !.x = x, !.y = y]
PageColoured(p, c) == [p EXCEPT !.color = c]
PageEmptied(p) == [p EXCEPT !.rows = [y \in 1..CONSOLE_Y |-> BlankRow], !.x = 0, !.y = 0]

LEMMA PagePlacedIs ==
    ASSUME NEW p \in Pages, NEW x \in X, NEW y \in Y
    PROVE  LET q == PagePlaced(p, x, y)
           IN q \in Pages /\ q.x = x /\ q.y = y /\ q.color = p.color /\ q.rows = p.rows
<1>1. PagePlaced(p, x, y) \in Pages
  BY DEF PagePlaced, Pages
<1>2. LET q == PagePlaced(p, x, y)
      IN q.x = x /\ q.y = y /\ q.color = p.color /\ q.rows = p.rows
  BY DEF PagePlaced, Pages
<1> QED
  BY <1>1, <1>2

LEMMA PageColouredIs ==
    ASSUME NEW p \in Pages, NEW c \in ColorSet
    PROVE  LET q == PageColoured(p, c)
           IN q \in Pages /\ q.x = p.x /\ q.y = p.y /\ q.color = c /\ q.rows = p.rows
<1>1. PageColoured(p, c) \in Pages
  BY DEF PageColoured, Pages
<1>2. LET q == PageColoured(p, c)
      IN q.x = p.x /\ q.y = p.y /\ q.color = c /\ q.rows = p.rows
  BY DEF PageColoured, Pages
<1> QED
  BY <1>1, <1>2

LEMMA PageEmptiedIs ==
    ASSUME NEW p \in Pages
    PROVE  LET q == PageEmptied(p)
           IN /\ q \in Pages /\ q.x = 0 /\ q.y = 0 /\ q.color = p.color
              /\ q.rows = [y \in 1..CONSOLE_Y |-> BlankRow]
<1> DEFINE rows == [y \in 1..CONSOLE_Y |-> BlankRow]
           zero == 0
<1>1. rows \in [1..CONSOLE_Y -> Row] /\ zero \in X /\ zero \in Y
  BY BlankIs, SizesAre
<1>2. PageEmptied(p) = [p EXCEPT !.rows = rows, !.x = zero, !.y = zero]
  BY DEF PageEmptied
<1> HIDE DEF rows, zero
<1>3. [p EXCEPT !.rows = rows, !.x = zero, !.y = zero] \in Pages
  BY <1>1 DEF Pages
<1>4. LET q == [p EXCEPT !.rows = rows, !.x = zero, !.y = zero]
      IN q.x = zero /\ q.y = zero /\ q.color = p.color /\ q.rows = rows
  BY DEF Pages
<1> QED
  BY <1>2, <1>3, <1>4 DEF rows, zero

\* A command that leaves the cursor on the screen or too far up or left.
LEMMA EndOfCommand ==
    ASSUME NEW m \in Turns, m.x < CONSOLE_X, m.y < CONSOLE_Y, Clean(m)
    PROVE  LET b == bounds(Ended(m))
           IN /\ Inside(b) /\ Clean(b) /\ b.state = "NORMAL"
              /\ b.x = (IF m.x < 0 THEN 0 ELSE m.x) /\ b.y = (IF m.y < 0 THEN 0 ELSE m.y)
              /\ b.text = m.text /\ b.color = m.color
<1> DEFINE e == Ended(m)
           b == bounds(e)
<1>1. e \in Turns /\ SameScreen(e, m) /\ e.state = "NORMAL"
  BY EndedIs
<1>2. Clean(e) /\ e.x = m.x /\ e.y = m.y /\ e.text = m.text /\ e.color = m.color
  BY <1>1 DEF Clean, SameScreen
<1> HIDE DEF e
<1>3. /\ Inside(b) /\ b.x = (IF e.x < 0 THEN 0 ELSE e.x) /\ b.y = (IF e.y < 0 THEN 0 ELSE e.y)
      /\ b.text = e.text /\ SameRest(b, e)
  BY <1>1, <1>2, BoundsBack
<1>4. Clean(b)
  BY <1>1, <1>2, CleanBounds
<1> HIDE DEF b
<1>5. LET c == b
      IN /\ Inside(c) /\ Clean(c) /\ c.state = "NORMAL"
         /\ c.x = (IF m.x < 0 THEN 0 ELSE m.x) /\ c.y = (IF m.y < 0 THEN 0 ELSE m.y)
         /\ c.text = m.text /\ c.color = m.color
  BY <1>1, <1>2, <1>3, <1>4 DEF SameRest
<1> QED
  BY <1>5 DEF b, e

LEMMA PlaceDone ==
    ASSUME NEW u, Inside(u), Clean(u), NEW x \in Int, NEW y \in Int, x < CONSOLE_X, y < CONSOLE_Y,
           NEW x0 \in X, NEW y0 \in Y, x0 = IF x < 0 THEN 0 ELSE x, y0 = IF y < 0 THEN 0 ELSE y
    PROVE  LET b == bounds(Ended(MovedTo(u, x, y)))
           IN /\ Inside(b) /\ Clean(b) /\ b.state = "NORMAL"
              /\ AsPage(b) = PagePlaced(AsPage(u), x0, y0)
<1> DEFINE m == MovedTo(u, x, y)
           b == bounds(Ended(m))
           q == PagePlaced(AsPage(u), x0, y0)
<1>0. u \in Turns
  BY DEF Inside
<1>1. /\ m \in Turns /\ m.x = x /\ m.y = y
      /\ m.text = u.text /\ m.refresh = u.refresh /\ SameRest(m, u)
  BY <1>0, Moved
<1> HIDE DEF m
<1>2. Clean(m)
  BY <1>1 DEF Clean, SameRest
<1>3. /\ Inside(b) /\ Clean(b) /\ b.state = "NORMAL" /\ b.x = x0 /\ b.y = y0
      /\ b.text = m.text /\ b.color = m.color
  BY <1>1, <1>2, EndOfCommand
<1>4. AsPage(u) \in Pages
  BY PageIs
<1>5. /\ q \in Pages /\ q.x = x0 /\ q.y = y0 /\ q.color = AsPage(u).color /\ q.rows = AsPage(u).rows
  BY <1>4, PagePlacedIs
<1> HIDE DEF b, q
<1>6. \A y1 \in 1..CONSOLE_Y : AsPage(b).rows[y1] = q.rows[y1]
  BY <1>1, <1>3, <1>5, PageIs
<1>7. AsPage(b) = q
  <2>1. /\ AsPage(b) \in Pages /\ AsPage(b).x = q.x /\ AsPage(b).y = q.y /\ AsPage(b).color = q.color
    BY <1>1, <1>3, <1>5, PageIs DEF SameRest
  <2> QED
    BY <1>5, <1>6, <2>1, SamePage
<1> QED
  BY <1>3, <1>7 DEF b, q, m

LEMMA ColourDone ==
    ASSUME NEW u, Inside(u), Clean(u), NEW c \in ColorSet
    PROVE  LET b == bounds(Ended(Coloured(u, c)))
           IN /\ Inside(b) /\ Clean(b) /\ b.state = "NORMAL"
              /\ AsPage(b) = PageColoured(AsPage(u), c)
<1> DEFINE m == Coloured(u, c)
           b == bounds(Ended(m))
           q == PageColoured(AsPage(u), c)
<1>0. u \in Turns /\ u.x < CONSOLE_X /\ u.y < CONSOLE_Y /\ ~(u.x < 0) /\ ~(u.y < 0)
  BY SizesAre DEF Inside
<1>1. /\ m \in Turns /\ m.color = c /\ m.x = u.x /\ m.y = u.y
      /\ m.text = u.text /\ m.refresh = u.refresh /\ m.drawn = u.drawn
  BY <1>0, ColouredIs
<1> HIDE DEF m
<1>2. Clean(m)
  BY <1>1 DEF Clean
<1>3. /\ Inside(b) /\ Clean(b) /\ b.state = "NORMAL" /\ b.x = u.x /\ b.y = u.y
      /\ b.text = m.text /\ b.color = m.color
  BY <1>0, <1>1, <1>2, EndOfCommand
<1>4. AsPage(u) \in Pages
  BY PageIs
<1>5. /\ q \in Pages /\ q.x = AsPage(u).x /\ q.y = AsPage(u).y /\ q.color = c /\ q.rows = AsPage(u).rows
  BY <1>4, PageColouredIs
<1> HIDE DEF b, q
<1>6. \A y1 \in 1..CONSOLE_Y : AsPage(b).rows[y1] = q.rows[y1]
  BY <1>1, <1>3, <1>5, PageIs
<1>7. AsPage(b) = q
  <2>1. /\ AsPage(b) \in Pages /\ AsPage(b).x = q.x /\ AsPage(b).y = q.y /\ AsPage(b).color = q.color
    BY <1>1, <1>3, <1>5, PageIs
  <2> QED
    BY <1>5, <1>6, <2>1, SamePage
<1> QED
  BY <1>3, <1>7 DEF b, q, m

LEMMA EmptyDone ==
    ASSUME NEW u, Inside(u), Clean(u)
    PROVE  LET b == bounds(Ended(Emptied(u)))
           IN /\ Inside(b) /\ Clean(b) /\ b.state = "NORMAL"
              /\ AsPage(b) = PageEmptied(AsPage(u))
<1> DEFINE m == Emptied(u)
           b == bounds(Ended(m))
           q == PageEmptied(AsPage(u))
           blank == [y \in Y |-> BlankRow]
<1>0. u \in Turns /\ 0 < CONSOLE_X /\ 0 < CONSOLE_Y
  BY SizesAre DEF Inside
<1>1. /\ m \in Turns /\ m.color = u.color /\ m.x = 0 /\ m.y = 0
      /\ m.text = blank /\ m.refresh = u.refresh /\ m.drawn = Nothing
  BY <1>0, EmptiedIs
<1> HIDE DEF m
<1>2. Clean(m)
  <2>1. \A y \in Y, x \in X : blank[y][x] = Blank /\ Nothing[y][x] = {}
    BY DEF BlankRow, Nothing
  <2> HIDE DEF blank
  <2>2. NoColouredBlank(blank)
    BY <2>1, BlankIs DEF NoColouredBlank
  <2>3. ShownOn(Nothing, blank)
    BY <2>1 DEF ShownOn
  <2> QED
    BY <1>1, <2>2, <2>3 DEF Clean
<1>3. /\ Inside(b) /\ Clean(b) /\ b.state = "NORMAL" /\ b.x = 0 /\ b.y = 0
      /\ b.text = m.text /\ b.color = m.color
  BY <1>0, <1>1, <1>2, EndOfCommand
<1>4. AsPage(u) \in Pages
  BY PageIs
<1>5. /\ q \in Pages /\ q.x = 0 /\ q.y = 0 /\ q.color = AsPage(u).color
      /\ q.rows = [y \in 1..CONSOLE_Y |-> BlankRow]
  BY <1>4, PageEmptiedIs
<1> HIDE DEF b, q
<1>6. ASSUME NEW y1 \in 1..CONSOLE_Y PROVE AsPage(b).rows[y1] = q.rows[y1]
  <2>1. y1 - 1 \in Y /\ AsPage(b).rows[y1] = blank[y1 - 1]
    BY <1>1, <1>3, PageIs, SizesAre
  <2> QED
    BY <1>5, <2>1
<1>7. AsPage(b) = q
  <2>1. /\ AsPage(b) \in Pages /\ AsPage(b).x = q.x /\ AsPage(b).y = q.y /\ AsPage(b).color = q.color
    BY <1>1, <1>3, <1>5, PageIs
  <2> QED
    BY <1>5, <1>6, <2>1, SamePage
<1> QED
  BY <1>3, <1>7 DEF b, q, m

-----------------------------------------------------------------------------
(* Tokens                                                                   *)

CommandOf(kind) ==
    CASE kind = "up" -> 65 [] kind = "down" -> 66 [] kind = "right" -> 67 [] kind = "left" -> 68
      [] kind = "goto" -> 72 [] kind = "clear" -> 74 [] kind = "color" -> 109
      [] kind = "unknown" -> 104

\* The kinds with their arguments.
IsCommand(kind, args) ==
    \/ kind \in {"up", "left"} /\ args \in {<<>>, <<2>>}
    \/ kind \in {"down", "right"} /\ args = <<>>
    \/ kind = "goto" /\ (args = <<>> \/ \E y \in Y, x \in X : args = <<y + 1, x + 1>>)
    \/ kind = "clear" /\ args \in {<<>>, <<2>>}
    \/ kind = "color" /\ args \in {<<0>>, <<41>>, <<1, 31>>}
    \/ kind = "unknown" /\ args = <<>>

\* Those that the console reports.
Reported(kind, args) == kind = "unknown" \/ (kind = "clear" /\ args = <<>>)

TokenIs(tok) ==
    \/ tok.kind = "char" /\ \E b \in {97, 32, 9, 8, 10, 13} : tok.args = <<b>> /\ tok.bytes = <<b>>
    \/ tok.kind = "none" /\ tok.args = <<>> /\ tok.bytes = <<27, 55>>
    \/ IsCommand(tok.kind, tok.args) /\ tok.bytes = Sequence(tok.args, CommandOf(tok.kind))

LEMMA TokensAre == ASSUME NEW tok \in Tokens PROVE TokenIs(tok)
<1>1. CASE \E b \in {97, 32, 9, 8, 10, 13} : tok = Char(b)
  BY <1>1 DEF Char, TokenIs
<1>2. CASE \E a \in {<<>>, <<2>>} : tok = Escape("up", 65, a)
  <2>1. PICK a \in {<<>>, <<2>>} : tok = Escape("up", 65, a)
    BY <1>2
  <2>2. tok.kind = "up" /\ tok.args = a /\ tok.bytes = Sequence(a, 65)
    BY <2>1 DEF Escape
  <2> QED
    BY <2>1, <2>2 DEF IsCommand, CommandOf, TokenIs
<1>3. CASE tok = Escape("down", 66, <<>>)
  <2>1. tok.kind = "down" /\ tok.args = <<>> /\ tok.bytes = Sequence(<<>>, 66)
    BY <1>3 DEF Escape
  <2> QED
    BY <2>1 DEF IsCommand, CommandOf, TokenIs
<1>4. CASE tok = Escape("right", 67, <<>>)
  <2>1. tok.kind = "right" /\ tok.args = <<>> /\ tok.bytes = Sequence(<<>>, 67)
    BY <1>4 DEF Escape
  <2> QED
    BY <2>1 DEF IsCommand, CommandOf, TokenIs
<1>5. CASE \E a \in {<<>>, <<2>>} : tok = Escape("left", 68, a)
  <2>1. PICK a \in {<<>>, <<2>>} : tok = Escape("left", 68, a)
    BY <1>5
  <2>2. tok.kind = "left" /\ tok.args = a /\ tok.bytes = Sequence(a, 68)
    BY <2>1 DEF Escape
  <2> QED
    BY <2>1, <2>2 DEF IsCommand, CommandOf, TokenIs
<1>6. CASE \E a \in {<<>>} \union {<<y + 1, x + 1>> : y \in Y, x \in X} : tok = Escape("goto", 72, a)
  <2>1. PICK a \in {<<>>} \union {<<y + 1, x + 1>> : y \in Y, x \in X} : tok = Escape("goto", 72, a)
    BY <1>6
  <2>2. tok.kind = "goto" /\ tok.args = a /\ tok.bytes = Sequence(a, 72)
    BY <2>1 DEF Escape
  <2>3. a = <<>> \/ \E y \in Y, x \in X : a = <<y + 1, x + 1>>
    BY <2>1
  <2> QED
    BY <2>2, <2>3 DEF IsCommand, CommandOf, TokenIs
<1>7. CASE \E a \in {<<>>, <<2>>} : tok = Escape("clear", 74, a)
  <2>1. PICK a \in {<<>>, <<2>>} : tok = Escape("clear", 74, a)
    BY <1>7
  <2>2. tok.kind = "clear" /\ tok.args = a /\ tok.bytes = Sequence(a, 74)
    BY <2>1 DEF Escape
  <2> QED
    BY <2>1, <2>2 DEF IsCommand, CommandOf, TokenIs
<1>11. CASE tok = Escape("unknown", 104, <<>>)
  <2>1. tok.kind = "unknown" /\ tok.args = <<>> /\ tok.bytes = Sequence(<<>>, 104)
    BY <1>11 DEF Escape
  <2> QED
    BY <2>1 DEF IsCommand, CommandOf, TokenIs
<1>8. CASE \E a \in {<<0>>, <<41>>, <<1, 31>>} : tok = Escape("color", 109, a)
  <2>1. PICK a \in {<<0>>, <<41>>, <<1, 31>>} : tok = Escape("color", 109, a)
    BY <1>8, Zenon
  <2>2. tok.kind = "color" /\ tok.args = a /\ tok.bytes = Sequence(a, 109)
    BY <2>1 DEF Escape
  <2> QED
    BY <2>1, <2>2 DEF IsCommand, CommandOf, TokenIs
<1>9. CASE tok = [kind |-> "none", args |-> <<>>, bytes |-> <<27, 55>>]
  BY <1>9 DEF TokenIs
<1>10. \/ \E b \in {97, 32, 9, 8, 10, 13} : tok = Char(b)
       \/ \E a \in {<<>>, <<2>>} : tok = Escape("up", 65, a)
       \/ tok = Escape("down", 66, <<>>)
       \/ tok = Escape("right", 67, <<>>)
       \/ \E a \in {<<>>, <<2>>} : tok = Escape("left", 68, a)
       \/ \E a \in {<<>>} \union {<<y + 1, x + 1>> : y \in Y, x \in X} : tok = Escape("goto", 72, a)
       \/ \E a \in {<<>>, <<2>>} : tok = Escape("clear", 74, a)
       \/ tok = Escape("unknown", 104, <<>>)
       \/ \E a \in {<<0>>, <<41>>, <<1, 31>>} : tok = Escape("color", 109, a)
       \/ tok = [kind |-> "none", args |-> <<>>, bytes |-> <<27, 55>>]
  <2> DEFINE A == {Char(b) : b \in {97, 32, 9, 8, 10, 13}}
             B == {Escape("up", 65, a) : a \in {<<>>, <<2>>}}
             C == {Escape("left", 68, a) : a \in {<<>>, <<2>>}}
             D == {Escape("goto", 72, a) : a \in {<<>>} \union {<<y + 1, x + 1>> : y \in Y, x \in X}}
             E == {Escape("color", 109, a) : a \in {<<0>>, <<41>>, <<1, 31>>}}
             F == {Escape("clear", 74, a) : a \in {<<>>, <<2>>}}
  <2>1. \/ tok \in A \/ tok \in B \/ tok = Escape("down", 66, <<>>) \/ tok = Escape("right", 67, <<>>)
        \/ tok \in C \/ tok \in D \/ tok \in E \/ tok \in F \/ tok = Escape("unknown", 104, <<>>)
        \/ tok = [kind |-> "none", args |-> <<>>, bytes |-> <<27, 55>>]
    <3>1. tok \in A \union B \union {Escape("down", 66, a) : a \in {<<>>}} \union {Escape("right", 67, a) : a \in {<<>>}}
              \union C \union D \union F \union {Escape("unknown", 104, a) : a \in {<<>>}} \union E
              \union {[kind |-> "none", args |-> <<>>, bytes |-> <<27, 55>>]}
      BY DEF Tokens
    <3> HIDE DEF A, B, C, D, E, F
    <3> QED
      BY <3>1
  <2>2. tok \in A => \E b \in {97, 32, 9, 8, 10, 13} : tok = Char(b)
    OBVIOUS
  <2>3. tok \in B => \E a \in {<<>>, <<2>>} : tok = Escape("up", 65, a)
    OBVIOUS
  <2>4. tok \in C => \E a \in {<<>>, <<2>>} : tok = Escape("left", 68, a)
    OBVIOUS
  <2>5. tok \in D => \E a \in {<<>>} \union {<<y + 1, x + 1>> : y \in Y, x \in X} : tok = Escape("goto", 72, a)
    OBVIOUS
  <2>6. tok \in E => \E a \in {<<0>>, <<41>>, <<1, 31>>} : tok = Escape("color", 109, a)
    OBVIOUS
  <2>7. tok \in F => \E a \in {<<>>, <<2>>} : tok = Escape("clear", 74, a)
    OBVIOUS
  <2> HIDE DEF A, B, C, D, E, F
  <2> QED
    BY <2>1, <2>2, <2>3, <2>4, <2>5, <2>6, <2>7
<1> QED
  BY <1>1, <1>2, <1>3, <1>4, <1>5, <1>6, <1>7, <1>8, <1>9, <1>10, <1>11

\* The arguments have been read.
Got(t, args) ==
    \/ args = <<>> /\ t.which = -1 /\ t.numbers[0] = -1
    \/ \E n \in 0..99 : args = <<n>> /\ t.which = 0 /\ t.numbers[0] = n
    \/ \E n, m \in 0..99 : args = <<n, m>> /\ t.which = 1 /\ t.numbers[0] = n /\ t.numbers[1] = m

LEMMA DistanceIs ==
    ASSUME NEW u, NEW args \in {<<>>, << 2 >>},
           args = <<>> => u.numbers[0] = -1, args = << 2 >> => u.numbers[0] = 2
    PROVE  /\ DistanceOf(u) = Distance(args)
           /\ Distance(args) \in {1, 2} /\ (args = <<>> => Distance(args) = 1)
<1>1. CASE args = <<>>
  BY <1>1 DEF DistanceOf, Distance, ANSI_DEFAULT
<1>2. CASE args = <<2>>
  <2>1. args # <<>> /\ args[1] = 2
    BY <1>2
  <2> QED
    BY <1>2, <2>1 DEF DistanceOf, Distance, ANSI_DEFAULT
<1> QED
  BY <1>1, <1>2

LEMMA GotIs ==
    ASSUME NEW t
    PROVE  /\ Got(t, <<>>) => t.which = -1 /\ t.numbers[0] = -1
           /\ \A n : Got(t, <<n>>) => t.which = 0 /\ t.numbers[0] = n /\ n \in 0..99
           /\ \A n, m : Got(t, <<n, m>>) =>
                t.which = 1 /\ t.numbers[0] = n /\ t.numbers[1] = m /\ n \in 0..99 /\ m \in 0..99
<1>1. Got(t, <<>>) => t.which = -1 /\ t.numbers[0] = -1
  BY DEF Got
<1>2. ASSUME NEW n, Got(t, <<n>>) PROVE t.which = 0 /\ t.numbers[0] = n /\ n \in 0..99
  <2>1. PICK k \in 0..99 : <<n>> = <<k>> /\ t.which = 0 /\ t.numbers[0] = k
    BY <1>2 DEF Got
  <2> QED
    BY <2>1
<1>3. ASSUME NEW n, NEW m, Got(t, <<n, m>>)
      PROVE  t.which = 1 /\ t.numbers[0] = n /\ t.numbers[1] = m /\ n \in 0..99 /\ m \in 0..99
  <2>1. PICK k \in 0..99, l \in 0..99 : <<n, m>> = <<k, l>> /\ t.which = 1 /\ t.numbers[0] = k /\ t.numbers[1] = l
    BY <1>3 DEF Got
  <2> QED
    BY <2>1
<1> QED
  BY <1>1, <1>2, <1>3

\* Colours: what the numbers of a sequence make of them.
LEMMA ColoursAre ==
    ASSUME NEW c \in ColorSet
    PROVE  /\ colored(c, 0) = Colors(7, 0, 0) /\ colored(c, 0) \in ColorSet
           /\ colored(c, 41) = [c EXCEPT !.back = 1] /\ colored(c, 41) \in ColorSet
           /\ colored(colored(c, 1), 31) = [c EXCEPT !.fore = 9, !.bright = 1]
           /\ colored(colored(c, 1), 31) \in ColorSet
<1>0. [c EXCEPT !.fore = 9, !.bright = 1] = [fore |-> 9, back |-> c.back, bright |-> 1]
  <2> DEFINE e == [c EXCEPT !.fore = 9, !.bright = 1]
  <2>1. c \in [fore : Int, back : Int, bright : Int]
    BY DEF ColorSet
  <2>2. DOMAIN e = {"fore", "back", "bright"} /\ e.fore = 9 /\ e.back = c.back /\ e.bright = 1
    BY <2>1
  <2>3. e = [i \in {"fore", "back", "bright"} |-> e[i]]
    BY <2>1
  <2> HIDE DEF e
  <2>4. e = [fore |-> 9, back |-> c.back, bright |-> 1]
    BY <2>2, <2>3
  <2> QED
    BY <2>4 DEF e
<1>1. colored(c, 0) = Colors(7, 0, 0) /\ colored(c, 0) \in ColorSet
  BY DEF colored, ColorSet, Colors, ANSI_DEFAULT
<1>2. colored(c, 41) = [c EXCEPT !.back = 1] /\ colored(c, 41) \in ColorSet
  BY DEF colored, ColorSet, ANSI_DEFAULT
<1>3. colored(colored(c, 1), 31) = [c EXCEPT !.fore = 9, !.bright = 1]
  <2> DEFINE d == colored(c, 1)
             f == IF c.fore % 16 < 8 THEN c.fore + 8 ELSE c.fore
  <2>1. d = [c EXCEPT !.bright = 1, !.fore = IF @ % 16 < 8 THEN @ + 8 ELSE @]
    BY DEF colored, ANSI_DEFAULT
  <2>2. d = [fore |-> f, back |-> c.back, bright |-> 1]
    BY <2>1 DEF ColorSet
  <2> HIDE DEF d, f
  <2>3. colored(d, 31) = [d EXCEPT !.fore = 9]
    BY <2>2 DEF colored, ANSI_DEFAULT
  <2>4. colored(d, 31) = [fore |-> 9, back |-> c.back, bright |-> 1]
    BY <2>2, <2>3
  <2> QED
    BY <1>0, <2>4 DEF d
<1>4. [c EXCEPT !.fore = 9, !.bright = 1] \in ColorSet
  <2>1. c.back \in Int
    BY DEF ColorSet
  <2> QED
    BY <1>0, <2>1 DEF ColorSet
<1> QED
  BY <1>1, <1>2, <1>3, <1>4

\* A token is done, and the page is q.
Ends(b, q) == Inside(b) /\ Clean(b) /\ b.state = "NORMAL" /\ AsPage(b) = q

\* The last byte of a sequence does what is described.
LEMMA CommandDone ==
    ASSUME NEW t, Inside(t), Clean(t), NEW tok, IsCommand(tok.kind, tok.args),
           ~Reported(tok.kind, tok.args), Sensible(AsPage(t), tok), Got(t, tok.args)
    PROVE  Ends(bounds(complete(number(t, CommandOf(tok.kind)))), Described(AsPage(t), tok))
<1> DEFINE c == CommandOf(tok.kind)
           u == number(t, c)
           p == AsPage(t)
           D == DistanceOf(u)
<1>1. t \in Turns
  BY DEF Inside
<1>2. c \in Commands
  BY DEF IsCommand, CommandOf, Commands
<1>3. /\ u \in Turns /\ SameScreen(u, t) /\ u.state = "COMPLETE" /\ u.which = t.which + 1
      /\ u.numbers = t.numbers /\ u.command = c
  BY <1>1, <1>2, NumberEnd
<1>4. Inside(u) /\ Clean(u) /\ AsPage(u) = p
  BY <1>3, ScreenKept
<1> HIDE DEF u
<1>5. p \in Pages /\ p.x = u.x /\ p.y = u.y /\ p.color = u.color /\ p.x \in X /\ p.y \in Y /\ p.color \in ColorSet
  BY <1>4, PageIs DEF Inside, Pages
<1> HIDE DEF p
<1>6. p.x \in Nat /\ p.y \in Nat /\ p.x < CONSOLE_X /\ p.y < CONSOLE_Y /\ 0 \in X /\ 0 \in Y
  BY <1>5, SizesAre
<1>7. ASSUME tok.args \in {<<>>, << 2 >>}
      PROVE  D = Distance(tok.args) /\ D \in {1, 2} /\ (tok.args = <<>> => D = 1)
  <2>1. tok.args = <<>> => u.numbers[0] = -1
    BY <1>3, GotIs
  <2>2. tok.args = <<2>> => u.numbers[0] = 2
    BY <1>3, GotIs
  <2> QED
    BY <1>7, <2>1, <2>2, DistanceIs
<1> HIDE DEF D
<1>8. CASE tok.kind = "up"
  <2>1. complete(u) = Ended(MovedTo(u, u.x, u.y - D)) /\ tok.args \in {<<>>, <<2>>}
    BY <1>3, <1>8, CompleteIs DEF CommandOf, IsCommand, D
  <2>2. Described(p, tok) = PagePlaced(p, p.x, Back(p.y, D))
    BY <1>5, <1>7, <1>8, <2>1 DEF Described, PagePlaced, Pages
  <2>3. u.x \in Int /\ u.y - D \in Int /\ u.x < CONSOLE_X /\ u.y - D < CONSOLE_Y
        /\ Back(p.y, D) = (IF u.y - D < 0 THEN 0 ELSE u.y - D) /\ p.x = (IF u.x < 0 THEN 0 ELSE u.x)
    <3>1. D \in Int /\ D >= 1
      BY <1>7, <2>1
    <3>2. u.x \in Nat /\ u.y \in Nat /\ u.x < CONSOLE_X /\ u.y < CONSOLE_Y /\ p.x = u.x /\ p.y = u.y
      BY <1>5, <1>6
    <3>3. \A n \in Nat : Back(n, D) = IF n - D < 0 THEN 0 ELSE n - D
      BY <3>1 DEF Back
    <3> QED
      BY <3>1, <3>2, <3>3, SizesAre
  <2>4. Back(p.y, D) \in Y
    BY <1>5, <1>6, <1>7, <2>1, SizesAre DEF Back
  <2>5. Ends(bounds(complete(u)), PagePlaced(p, p.x, Back(p.y, D)))
    BY <1>4, <1>5, <2>1, <2>3, <2>4, PlaceDone DEF Ends
  <2> QED
    BY <2>2, <2>5 DEF u, p
<1>9. CASE tok.kind = "down"
  <2>1. complete(u) = Ended(MovedTo(u, u.x, u.y + D)) /\ tok.args = <<>> /\ tok.args \in {<<>>, <<2>>}
    BY <1>3, <1>9, CompleteIs DEF CommandOf, IsCommand, D
  <2>2. D = 1 /\ p.y + 1 < CONSOLE_Y
    BY <1>7, <1>9, <2>1 DEF Sensible, p
  <2>3. Described(p, tok) = PagePlaced(p, p.x, p.y + 1)
    BY <1>5, <1>9, <2>1 DEF Described, PagePlaced, Pages
  <2>4. u.x \in Int /\ u.y + D \in Int /\ u.x < CONSOLE_X /\ u.y + D < CONSOLE_Y
        /\ p.y + 1 = (IF u.y + D < 0 THEN 0 ELSE u.y + D) /\ p.x = (IF u.x < 0 THEN 0 ELSE u.x)
    BY <1>5, <1>6, <2>2
  <2>5. p.y + 1 \in Y
    BY <1>6, <2>2, SizesAre
  <2>6. Ends(bounds(complete(u)), PagePlaced(p, p.x, p.y + 1))
    BY <1>4, <1>5, <2>1, <2>4, <2>5, PlaceDone DEF Ends
  <2> QED
    BY <2>3, <2>6 DEF u, p
<1>10. CASE tok.kind = "right"
  <2>1. complete(u) = Ended(MovedTo(u, u.x + D, u.y)) /\ tok.args = <<>> /\ tok.args \in {<<>>, <<2>>}
    BY <1>3, <1>10, CompleteIs DEF CommandOf, IsCommand, D
  <2>2. D = 1 /\ p.x + 1 < CONSOLE_X
    BY <1>7, <1>10, <2>1 DEF Sensible, p
  <2>3. Described(p, tok) = PagePlaced(p, p.x + 1, p.y)
    BY <1>5, <1>10, <2>1 DEF Described, PagePlaced, Pages
  <2>4. u.x + D \in Int /\ u.y \in Int /\ u.x + D < CONSOLE_X /\ u.y < CONSOLE_Y
        /\ p.x + 1 = (IF u.x + D < 0 THEN 0 ELSE u.x + D) /\ p.y = (IF u.y < 0 THEN 0 ELSE u.y)
    BY <1>5, <1>6, <2>2
  <2>5. p.x + 1 \in X
    BY <1>6, <2>2, SizesAre
  <2>6. Ends(bounds(complete(u)), PagePlaced(p, p.x + 1, p.y))
    BY <1>4, <1>5, <2>1, <2>4, <2>5, PlaceDone DEF Ends
  <2> QED
    BY <2>3, <2>6 DEF u, p
<1>11. CASE tok.kind = "left"
  <2>1. complete(u) = Ended(MovedTo(u, u.x - D, u.y)) /\ tok.args \in {<<>>, <<2>>}
    BY <1>3, <1>11, CompleteIs DEF CommandOf, IsCommand, D
  <2>2. Described(p, tok) = PagePlaced(p, Back(p.x, D), p.y)
    BY <1>5, <1>7, <1>11, <2>1 DEF Described, PagePlaced, Pages
  <2>3. u.x - D \in Int /\ u.y \in Int /\ u.x - D < CONSOLE_X /\ u.y < CONSOLE_Y
        /\ Back(p.x, D) = (IF u.x - D < 0 THEN 0 ELSE u.x - D) /\ p.y = (IF u.y < 0 THEN 0 ELSE u.y)
    <3>1. D \in Int /\ D >= 1
      BY <1>7, <2>1
    <3>2. u.x \in Nat /\ u.y \in Nat /\ u.x < CONSOLE_X /\ u.y < CONSOLE_Y /\ p.x = u.x /\ p.y = u.y
      BY <1>5, <1>6
    <3>3. \A n \in Nat : Back(n, D) = IF n - D < 0 THEN 0 ELSE n - D
      BY <3>1 DEF Back
    <3> QED
      BY <3>1, <3>2, <3>3, SizesAre
  <2>4. Back(p.x, D) \in X
    BY <1>5, <1>6, <1>7, <2>1, SizesAre DEF Back
  <2>5. Ends(bounds(complete(u)), PagePlaced(p, Back(p.x, D), p.y))
    BY <1>4, <1>5, <2>1, <2>3, <2>4, PlaceDone DEF Ends
  <2> QED
    BY <2>2, <2>5 DEF u, p
<1>12. CASE tok.kind = "goto" /\ tok.args = <<>>
  <2>1. complete(u) = Ended(MovedTo(u, 0, 0))
    BY <1>3, <1>12, CompleteIs, GotIs DEF CommandOf
  <2>2. Described(p, tok) = PagePlaced(p, 0, 0)
    BY <1>12 DEF Described, PagePlaced
  <2>3. 0 \in Int /\ 0 < CONSOLE_X /\ 0 < CONSOLE_Y /\ 0 = IF 0 < 0 THEN 0 ELSE 0
    BY SizesAre
  <2>4. Ends(bounds(complete(u)), PagePlaced(p, 0, 0))
    BY <1>4, <1>6, <2>1, <2>3, PlaceDone DEF Ends
  <2> QED
    BY <2>2, <2>4 DEF u, p
<1>13. CASE tok.kind = "goto" /\ tok.args # <<>>
  <2>1. PICK y \in Y, x \in X : tok.args = <<y + 1, x + 1>>
    BY <1>13 DEF IsCommand
  <2>2. y \in Int /\ x \in Int /\ y >= 0 /\ x >= 0 /\ x < CONSOLE_X /\ y < CONSOLE_Y
    BY SizesAre
  <2>3. u.which = 2 /\ u.numbers[0] = y + 1 /\ u.numbers[1] = x + 1
    BY <1>3, <2>1, GotIs
  <2>4. complete(u) = Ended(MovedTo(u, u.numbers[1] - 1, u.numbers[0] - 1))
    BY <1>3, <1>13, <2>2, <2>3, CompleteIs DEF CommandOf
  <2>5. complete(u) = Ended(MovedTo(u, x, y))
    BY <2>2, <2>3, <2>4
  <2>6. tok.args[1] - 1 = y /\ tok.args[2] - 1 = x
    BY <2>1, <2>2
  <2>7. Described(p, tok) = PagePlaced(p, x, y)
    BY <1>5, <1>13, <2>6 DEF Described, PagePlaced, Pages
  <2>8. Ends(bounds(complete(u)), PagePlaced(p, x, y))
    BY <1>4, <2>2, <2>5, PlaceDone DEF Ends
  <2> QED
    BY <2>7, <2>8 DEF u, p
<1>14. CASE tok.kind = "clear"
  <2>1. tok.args = <<2>>
    BY <1>14 DEF IsCommand, Reported
  <2>2. complete(u) = Ended(Emptied(u))
    BY <1>3, <1>14, <2>1, CompleteIs, GotIs DEF CommandOf
  <2>3. Described(p, tok) = PageEmptied(p)
    BY <1>14, <2>1 DEF Described, PageEmptied
  <2>4. Ends(bounds(complete(u)), PageEmptied(p))
    BY <1>4, <2>2, EmptyDone DEF Ends
  <2> QED
    BY <2>3, <2>4 DEF u, p
<1>15. CASE tok.kind = "color"
  <2>1. CASE tok.args = <<0>>
    <3>1. complete(u) = Ended(Coloured(u, colored(u.color, 0)))
      <4>1. u.which = 1 /\ u.numbers[0] = 0
        BY <1>3, <2>1, GotIs
      <4> QED
        BY <1>3, <1>15, <4>1, CompleteIs DEF CommandOf
    <3>2. Described(p, tok) = PageColoured(p, Colors(7, 0, 0))
      BY <1>15, <2>1 DEF Described, PageColoured
    <3>3. Ends(bounds(complete(u)), PageColoured(p, Colors(7, 0, 0)))
      <4> DEFINE k == colored(u.color, 0)
      <4>1. k \in ColorSet /\ k = Colors(7, 0, 0)
        BY <1>5, ColoursAre
      <4> HIDE DEF k
      <4>2. Ends(bounds(complete(u)), PageColoured(p, k))
        BY <1>4, <3>1, <4>1, ColourDone DEF k, Ends
      <4> QED
        BY <4>1, <4>2
    <3> QED
      BY <3>2, <3>3 DEF u, p
  <2>2. CASE tok.args = <<41>>
    <3>1. complete(u) = Ended(Coloured(u, colored(u.color, 41)))
      <4>1. u.which = 1 /\ u.numbers[0] = 41
        BY <1>3, <2>2, GotIs
      <4> QED
        BY <1>3, <1>15, <4>1, CompleteIs DEF CommandOf
    <3>2. Described(p, tok) = PageColoured(p, [p.color EXCEPT !.back = 1])
      <4>1. tok.args # <<0>>
        BY <2>2
      <4> QED
        BY <1>15, <2>2, <4>1 DEF Described, PageColoured
    <3>3. Ends(bounds(complete(u)), PageColoured(p, [p.color EXCEPT !.back = 1]))
      <4> DEFINE k == colored(u.color, 41)
      <4>1. k \in ColorSet /\ k = [p.color EXCEPT !.back = 1]
        BY <1>5, ColoursAre
      <4> HIDE DEF k
      <4>2. Ends(bounds(complete(u)), PageColoured(p, k))
        BY <1>4, <3>1, <4>1, ColourDone DEF k, Ends
      <4> QED
        BY <4>1, <4>2
    <3> QED
      BY <3>2, <3>3 DEF u, p
  <2>3. CASE tok.args = <<1, 31>>
    <3>1. complete(u) = Ended(Coloured(u, colored(colored(u.color, 1), 31)))
      <4>1. u.which = 2 /\ u.numbers[0] = 1 /\ u.numbers[1] = 31
        BY <1>3, <2>3, GotIs
      <4> QED
        BY <1>3, <1>15, <4>1, CompleteIs DEF CommandOf
    <3>2. Described(p, tok) = PageColoured(p, [p.color EXCEPT !.fore = 9, !.bright = 1])
      <4>1. tok.args # <<0>> /\ tok.args # <<41>>
        BY <2>3
      <4> QED
        BY <1>5, <1>15, <2>3, <4>1 DEF Described, PageColoured, Pages, ColorSet
    <3>3. Ends(bounds(complete(u)), PageColoured(p, [p.color EXCEPT !.fore = 9, !.bright = 1]))
      <4> DEFINE k == colored(colored(u.color, 1), 31)
      <4>1. k \in ColorSet /\ k = [p.color EXCEPT !.fore = 9, !.bright = 1]
        BY <1>5, ColoursAre
      <4> HIDE DEF k
      <4>2. Ends(bounds(complete(u)), PageColoured(p, k))
        BY <1>4, <3>1, <4>1, ColourDone DEF k, Ends
      <4> QED
        BY <4>1, <4>2
    <3> QED
      BY <3>2, <3>3 DEF u, p
  <2> QED
    BY <1>15, <2>1, <2>2, <2>3 DEF IsCommand
<1> QED
  BY <1>8, <1>9, <1>10, <1>11, <1>12, <1>13, <1>14, <1>15 DEF IsCommand, Reported

\* Which of them the console knows.
LEMMA CommandKnown ==
    ASSUME NEW t, Inside(t), NEW tok, IsCommand(tok.kind, tok.args), Got(t, tok.args)
    PROVE  Unknown(number(t, CommandOf(tok.kind))) <=> Reported(tok.kind, tok.args)
<1> DEFINE c == CommandOf(tok.kind)
           u == number(t, c)
<1>1. c \in Commands
  BY DEF IsCommand, CommandOf, Commands
<1>2. u.state = "COMPLETE" /\ u.numbers = t.numbers /\ u.command = c
  BY <1>1, NumberEnd DEF Inside
<1> HIDE DEF u
<1>3. CASE tok.kind = "clear" /\ tok.args = <<>>
  <2>1. c = 74 /\ u.numbers[0] = -1
    BY <1>2, <1>3, GotIs DEF CommandOf
  <2> QED
    BY <1>2, <1>3, <2>1 DEF Unknown, Reported, u
<1>4. CASE tok.kind = "clear" /\ tok.args = <<2>>
  <2>1. c = 74 /\ u.numbers[0] = 2 /\ tok.args # <<>>
    BY <1>2, <1>4, GotIs DEF CommandOf
  <2> QED
    BY <1>2, <1>4, <2>1 DEF Unknown, Reported, u
<1>5. CASE tok.kind = "unknown"
  <2>1. c = 104
    BY <1>5 DEF CommandOf
  <2> QED
    BY <1>2, <1>5, <2>1 DEF Unknown, Reported, u
<1>6. CASE tok.kind \notin {"clear", "unknown"}
  <2>1. c \in {65, 66, 67, 68, 72, 109}
    BY <1>6 DEF CommandOf, IsCommand
  <2> QED
    BY <1>2, <1>6, <2>1 DEF Unknown, Reported, u
<1> QED
  BY <1>3, <1>4, <1>5, <1>6 DEF IsCommand

\* A command that is reported changes nothing that is seen.
LEMMA CommandReported ==
    ASSUME NEW t, Inside(t), Clean(t), NEW tok, IsCommand(tok.kind, tok.args),
           Reported(tok.kind, tok.args)
    PROVE  LET u == number(t, CommandOf(tok.kind))
           IN /\ Inside(u) /\ Clean(u) /\ u.state = "COMPLETE"
              /\ AsPage(u) = Described(AsPage(t), tok)
<1> DEFINE c == CommandOf(tok.kind)
           u == number(t, c)
<1>1. c \in Commands
  BY DEF IsCommand, CommandOf, Commands
<1>2. u \in Turns /\ SameScreen(u, t) /\ u.state = "COMPLETE"
  BY <1>1, NumberEnd DEF Inside
<1> HIDE DEF u
<1>3. Inside(u) /\ Clean(u) /\ AsPage(u) = AsPage(t)
  BY <1>2, ScreenKept
<1>4. tok.args # <<2>> /\ tok.kind \in {"clear", "unknown"}
  BY DEF IsCommand, Reported
<1>5. Described(AsPage(t), tok) = AsPage(t)
  BY <1>4 DEF Described
<1> QED
  BY <1>2, <1>3, <1>5 DEF u

-----------------------------------------------------------------------------
(* Characters                                                               *)

\* A character is put into the text.
Printed(t, text, r, x) == [t EXCEPT !.text = text, !.refresh = r, !.x = x]

LEMMA PrintedIs ==
    ASSUME NEW t \in Turns, NEW text \in Texts, NEW r \in BOOLEAN, NEW x \in Int
    PROVE  LET u == Printed(t, text, r, x)
           IN /\ u \in Turns /\ u.text = text /\ u.refresh = r /\ u.x = x
              /\ u.y = t.y /\ SameRest(u, t)
<1>1. Printed(t, text, r, x) \in Turns
  BY DEF Printed, Turns
<1>2. LET u == Printed(t, text, r, x)
      IN /\ u.text = text /\ u.refresh = r /\ u.x = x
         /\ u.y = t.y /\ SameRest(u, t)
  BY DEF Printed, Turns, SameRest
<1> QED
  BY <1>1, <1>2

PageWritten(p, rows) == [p EXCEPT !.rows = rows]

LEMMA PageWrittenIs ==
    ASSUME NEW p \in Pages, NEW rows \in [1..CONSOLE_Y -> Row]
    PROVE  LET q == PageWritten(p, rows)
           IN q \in Pages /\ q.x = p.x /\ q.y = p.y /\ q.color = p.color /\ q.rows = rows
<1>1. PageWritten(p, rows) \in Pages
  BY DEF PageWritten, Pages
<1>2. LET q == PageWritten(p, rows)
      IN q.x = p.x /\ q.y = p.y /\ q.color = p.color /\ q.rows = rows
  BY DEF PageWritten, Pages
<1> QED
  BY <1>1, <1>2

LEMMA NextTab ==
    ASSUME NEW x \in Nat
    PROVE  /\ ((x + TAB) \div TAB) * TAB = (x \div TAB + 1) * TAB
           /\ ((x + TAB) \div TAB) * TAB \in Nat
<1>0. TAB \in Nat \ {0}
  BY SizesAre
<1> DEFINE q == x \div TAB
           r == x % TAB
<1>1. q \in Nat /\ r \in Nat /\ r < TAB /\ x = TAB * q + r
  BY <1>0
<1> HIDE DEF q, r
<1>2. x + TAB = TAB * (q + 1) + r
  BY <1>0, <1>1
<1>3. (x + TAB) \div TAB = q + 1
  BY <1>0, <1>1, <1>2
<1>4. (q + 1) * TAB \in Nat
  BY <1>0, <1>1
<1> QED
  BY <1>3, <1>4 DEF q

LEMMA ReturnDone ==
    ASSUME NEW t, Inside(t), Clean(t), t.state = "NORMAL"
    PROVE  Ends(bounds(complete(normal(t, 13))), AsPage(t))
<1>1. normal(t, 13) = t
  BY DEF normal
<1> DEFINE b == bounds(complete(t))
<1>2. b \in Turns /\ SameScreen(b, t) /\ b.state = t.state
  BY NothingLeft
<1> HIDE DEF b
<1>3. Ends(b, AsPage(t))
  BY <1>2, ScreenKept DEF Ends
<1> QED
  BY <1>1, <1>3 DEF b

\* All others: u is the turn after the character.
LEMMA CharactersAre ==
    ASSUME NEW t \in Turns, t.state = "NORMAL", NEW u \in Turns, SameRest(u, t), Clean(u)
    PROVE  complete(u) = u /\ Clean(bounds(u)) /\ bounds(u).state = "NORMAL"
<1>1. u.state = "NORMAL"
  BY DEF SameRest
<1>2. complete(u) = u
  BY <1>1 DEF complete
<1>3. Clean(bounds(u)) /\ SameRest(bounds(u), u)
  BY CleanBounds, BoundsIs
<1> QED
  BY <1>1, <1>2, <1>3 DEF SameRest

LEMMA LineDone ==
    ASSUME NEW t, Inside(t), Clean(t), t.state = "NORMAL"
    PROVE  Ends(bounds(complete(normal(t, 10))), NewLine(AsPage(t)))
<1> DEFINE y == t.y + 1
           u == MovedTo(t, 0, y)
           p == AsPage(t)
<1>0. t \in Turns /\ 0 \in Int /\ y \in Int /\ y \in 1..CONSOLE_Y /\ t.y = y - 1
  BY SizesAre DEF Inside
<1>1. normal(t, 10) = u
  BY DEF normal, MovedTo
<1> HIDE DEF y
<1>2. /\ u \in Turns /\ u.x = 0 /\ u.y = y
      /\ u.text = t.text /\ u.refresh = t.refresh /\ SameRest(u, t)
  BY <1>0, Moved
<1> HIDE DEF u
<1>3. Clean(u)
  BY <1>2 DEF Clean, SameRest
<1>4. /\ p \in Pages /\ p.y = u.y - 1 /\ p.color = u.color
      /\ \A y1 \in 1..CONSOLE_Y : p.rows[y1] = u.text[y1 - 1]
  BY <1>0, <1>2, PageIs DEF SameRest
<1> HIDE DEF p
<1>5. Inside(bounds(u)) /\ AsPage(bounds(u)) = NewLine(p)
  BY <1>0, <1>2, <1>4, BoundsDown
<1>6. complete(u) = u /\ Clean(bounds(u)) /\ bounds(u).state = "NORMAL"
  BY <1>0, <1>2, <1>3, CharactersAre
<1>7. Ends(bounds(complete(u)), NewLine(p))
  BY <1>5, <1>6 DEF Ends
<1> QED
  BY <1>1, <1>7 DEF p

LEMMA TabDone ==
    ASSUME NEW t, Inside(t), Clean(t), t.state = "NORMAL"
    PROVE  Ends(bounds(complete(normal(t, 9))), At(AsPage(t), (AsPage(t).x \div TAB + 1) * TAB))
<1> DEFINE x == ((t.x + TAB) \div TAB) * TAB
           u == MovedTo(t, x, t.y)
           p == AsPage(t)
<1>0. t \in Turns /\ t.x \in Nat /\ t.y \in Y /\ t.y \in Int /\ p.x = t.x
  BY SizesAre, PageIs DEF Inside
<1>1. x \in Nat /\ x = (p.x \div TAB + 1) * TAB
  BY <1>0, NextTab
<1>2. normal(t, 9) = u
  <2>1. normal(t, 9) = [t EXCEPT !.x = ((@ + TAB) \div TAB) * TAB]
    BY DEF normal
  <2>2. normal(t, 9) = [t EXCEPT !.x = x]
    BY <2>1
  <2> HIDE DEF x
  <2> QED
    BY <1>0, <2>2 DEF MovedTo, Turns
<1> HIDE DEF x
<1>3. /\ u \in Turns /\ u.x = x /\ u.y = t.y
      /\ u.text = t.text /\ u.refresh = t.refresh /\ SameRest(u, t)
  BY <1>0, <1>1, Moved
<1> HIDE DEF u
<1>4. Clean(u)
  BY <1>3 DEF Clean, SameRest
<1>5. /\ p \in Pages /\ p.y = u.y /\ p.color = u.color
      /\ \A y1 \in 1..CONSOLE_Y : p.rows[y1] = u.text[y1 - 1]
  BY <1>0, <1>3, PageIs DEF SameRest
<1> HIDE DEF p
<1>6. Inside(bounds(u)) /\ AsPage(bounds(u)) = At(p, x)
  BY <1>0, <1>1, <1>3, <1>5, BoundsForward
<1>7. complete(u) = u /\ Clean(bounds(u)) /\ bounds(u).state = "NORMAL"
  BY <1>0, <1>3, <1>4, CharactersAre
<1>8. Ends(bounds(complete(u)), At(p, x))
  BY <1>6, <1>7 DEF Ends
<1> QED
  BY <1>1, <1>2, <1>8 DEF p

LEMMA BackspaceDone ==
    ASSUME NEW t, Inside(t), Clean(t), t.state = "NORMAL"
    PROVE  Ends(bounds(complete(normal(t, 8))), [AsPage(t) EXCEPT !.x = Back(AsPage(t).x, 1)])
<1> DEFINE x == IF t.x = 0 THEN 0 ELSE t.x - 1
           u == Printed(t, t.text, TRUE, x)
           p == AsPage(t)
           q == PagePlaced(p, x, t.y)
<1>0. /\ t \in Turns /\ t.text \in Texts /\ t.x \in Nat /\ t.y \in Y /\ t.y < CONSOLE_Y /\ ~(t.y < 0)
      /\ x \in Int /\ x \in X /\ x < CONSOLE_X /\ ~(x < 0)
  BY SizesAre, TurnTypes DEF Inside
<1>1. normal(t, 8) = u
  <2>1. normal(t, 8) = [t EXCEPT !.x = x, !.refresh = TRUE]
    BY DEF normal
  <2> HIDE DEF x
  <2> QED
    BY <1>0, <2>1 DEF Printed, Turns
<1>2. x = Back(t.x, 1)
  BY <1>0 DEF Back
<1> HIDE DEF x
<1>3. /\ u \in Turns /\ u.text = t.text /\ u.refresh = TRUE /\ u.x = x
      /\ u.y = t.y /\ SameRest(u, t)
  BY <1>0, PrintedIs
<1> HIDE DEF u
<1>4. Clean(u)
  BY <1>3 DEF Clean
<1>5. Inside(bounds(u)) /\ bounds(u).x = x /\ bounds(u).y = t.y /\ bounds(u).text = t.text /\ bounds(u).color = t.color
  BY <1>0, <1>3, BoundsBack DEF SameRest
<1>6. complete(u) = u /\ Clean(bounds(u)) /\ bounds(u).state = "NORMAL"
  BY <1>0, <1>3, <1>4, CharactersAre
<1>7. p \in Pages /\ p.x = t.x /\ p.y = t.y /\ p.color = t.color
      /\ \A y1 \in 1..CONSOLE_Y : p.rows[y1] = t.text[y1 - 1]
  BY PageIs
<1> HIDE DEF p
<1>8. q \in Pages /\ q.x = x /\ q.y = t.y /\ q.color = p.color /\ q.rows = p.rows
  BY <1>0, <1>7, PagePlacedIs
<1>9. [p EXCEPT !.x = Back(p.x, 1)] = q
  BY <1>2, <1>7 DEF PagePlaced, Pages
<1> HIDE DEF q
<1>10. \A y1 \in 1..CONSOLE_Y : AsPage(bounds(u)).rows[y1] = q.rows[y1]
  BY <1>5, <1>7, <1>8, PageIs
<1>11. AsPage(bounds(u)) = q
  <2>1. /\ AsPage(bounds(u)) \in Pages /\ AsPage(bounds(u)).x = q.x /\ AsPage(bounds(u)).y = q.y
        /\ AsPage(bounds(u)).color = q.color
    BY <1>5, <1>7, <1>8, PageIs
  <2> QED
    BY <1>8, <1>10, <2>1, SamePage
<1>12. Ends(bounds(complete(u)), q)
  BY <1>5, <1>6, <1>11 DEF Ends
<1> QED
  BY <1>1, <1>9, <1>12 DEF p

LEMMA PrintDone ==
    ASSUME NEW t, Inside(t), Clean(t), t.state = "NORMAL", NEW b \in {97, 32},
           b = 32 => t.color.back = 0
    PROVE  Ends(bounds(complete(normal(t, b))),
                At([AsPage(t) EXCEPT !.rows[AsPage(t).y + 1][AsPage(t).x] = Cell(b, AsPage(t).color)],
                   AsPage(t).x + 1))
<1> DEFINE cell == Cell(b, t.color)
           row == [t.text[t.y] EXCEPT ![t.x] = cell]
           text == [t.text EXCEPT ![t.y] = row]
           r == t.refresh \/ t.text[t.y][t.x].ch # 32
           x == t.x + 1
           u == Printed(t, text, r, x)
           p == AsPage(t)
           rows == [p.rows EXCEPT ![t.y + 1] = row]
           q == PageWritten(p, rows)
<1>0. /\ t \in Turns /\ t.text \in Texts /\ t.refresh \in BOOLEAN /\ t.color \in ColorSet
      /\ t.x \in X /\ t.y \in Y /\ t.x \in Nat /\ t.y \in Nat /\ x \in Nat /\ x \in Int
  BY SizesAre, TurnTypes DEF Inside
<1>1. cell \in Cells /\ cell.ch = b /\ (cell.ch = 32 => cell.back = 0)
  BY <1>0 DEF Cell, Cells, ColorSet
<1>2. t.text[t.y] \in Row
  BY <1>0 DEF Texts
<1>3. normal(t, b) = u
  <2>1. normal(t, b) = [t EXCEPT !.text[t.y][t.x] = cell, !.refresh = @ \/ t.text[t.y][t.x].ch # 32, !.x = @ + 1]
    BY DEF normal
  <2>2. [t EXCEPT !.text[t.y][t.x] = cell] = [t EXCEPT !.text = text]
    BY <1>0, <1>2 DEF Turns, Texts, Row
  <2> HIDE DEF cell
  <2>3. normal(t, b) = [[t EXCEPT !.text = text] EXCEPT !.refresh = @ \/ t.text[t.y][t.x].ch # 32, !.x = @ + 1]
    BY <2>1, <2>2
  <2> HIDE DEF text
  <2>4. [[t EXCEPT !.text = text] EXCEPT !.refresh = @ \/ t.text[t.y][t.x].ch # 32, !.x = @ + 1] = u
    BY <1>0 DEF Printed, Turns
  <2> QED
    BY <2>3, <2>4
<1>4. row \in Row /\ row[t.x] = cell /\ \A x1 \in X : x1 # t.x => row[x1] = t.text[t.y][x1]
  BY <1>0, <1>1, <1>2 DEF Row
<1> HIDE DEF row, cell
<1>5. text \in Texts /\ text[t.y] = row /\ \A y1 \in Y : y1 # t.y => text[y1] = t.text[y1]
  BY <1>0, <1>4 DEF Texts
<1> HIDE DEF text
<1>6. r \in BOOLEAN /\ (r = FALSE => t.refresh = FALSE /\ t.text[t.y][t.x].ch = 32)
  BY <1>0
<1> HIDE DEF r, x
<1>7. /\ u \in Turns /\ u.text = text /\ u.refresh = r /\ u.x = x
      /\ u.y = t.y /\ SameRest(u, t)
  BY <1>0, <1>5, <1>6, PrintedIs
<1> HIDE DEF u
<1>8. Clean(u)
  <2>1. NoColouredBlank(text)
    <3> SUFFICES ASSUME NEW y1 \in Y, NEW x1 \in X, text[y1][x1].ch = 32
                 PROVE  text[y1][x1].back = 0
      BY DEF NoColouredBlank
    <3>1. CASE y1 = t.y /\ x1 = t.x
      BY <1>1, <1>4, <1>5, <3>1
    <3>2. CASE ~(y1 = t.y /\ x1 = t.x)
      <4>1. text[y1][x1] = t.text[y1][x1]
        BY <1>4, <1>5, <3>2
      <4> QED
        BY <4>1 DEF Clean, NoColouredBlank
    <3> QED
      BY <3>1, <3>2
  <2>2. ASSUME r = FALSE PROVE ShownOn(t.drawn, text)
    <3>1. t.text[t.y][t.x].ch = 32 /\ ShownOn(t.drawn, t.text)
      BY <1>6, <2>2 DEF Clean
    <3>2. t.drawn[t.y][t.x] = {}
      BY <1>0, <3>1 DEF ShownOn
    <3> SUFFICES ASSUME NEW y1 \in Y, NEW x1 \in X
                 PROVE  /\ t.drawn[y1][x1] \subseteq {text[y1][x1]}
                        /\ text[y1][x1].ch = 32 => t.drawn[y1][x1] = {}
      BY DEF ShownOn
    <3>3. CASE y1 = t.y /\ x1 = t.x
      BY <3>2, <3>3
    <3>4. CASE ~(y1 = t.y /\ x1 = t.x)
      <4>1. text[y1][x1] = t.text[y1][x1]
        BY <1>4, <1>5, <3>4
      <4> QED
        BY <3>1, <4>1 DEF ShownOn
    <3> QED
      BY <3>3, <3>4
  <2> QED
    BY <1>6, <1>7, <2>1, <2>2 DEF Clean, SameRest
<1>9. p \in Pages /\ p.x = t.x /\ p.y = t.y /\ p.color = t.color
      /\ \A y1 \in 1..CONSOLE_Y : p.rows[y1] = t.text[y1 - 1]
  BY PageIs
<1> HIDE DEF p
<1>10. t.y + 1 \in 1..CONSOLE_Y /\ (t.y + 1) - 1 = t.y /\ p.rows \in [1..CONSOLE_Y -> Row]
  BY <1>0, <1>9, SizesAre DEF Pages
<1>11. [p EXCEPT !.rows[p.y + 1][p.x] = Cell(b, p.color)] = q
  <2>1. p.rows[t.y + 1] = t.text[t.y]
    BY <1>9, <1>10
  <2>2. row = [p.rows[t.y + 1] EXCEPT ![t.x] = cell]
    BY <2>1 DEF row
  <2>3. [p EXCEPT !.rows[p.y + 1][p.x] = Cell(b, p.color)] = [p EXCEPT !.rows[t.y + 1][t.x] = cell]
    BY <1>9 DEF cell
  <2>4. [p EXCEPT !.rows[t.y + 1][t.x] = cell] = [p EXCEPT !.rows = [p.rows EXCEPT ![t.y + 1] = [p.rows[t.y + 1] EXCEPT ![t.x] = cell]]]
    BY <1>9, <1>10 DEF Pages
  <2> QED
    BY <2>2, <2>3, <2>4 DEF PageWritten
<1>12. rows \in [1..CONSOLE_Y -> Row] /\ rows[t.y + 1] = row
       /\ \A y1 \in 1..CONSOLE_Y : y1 # t.y + 1 => rows[y1] = p.rows[y1]
  BY <1>4, <1>10
<1> HIDE DEF rows
<1>13. q \in Pages /\ q.x = p.x /\ q.y = p.y /\ q.color = p.color /\ q.rows = rows
  BY <1>9, <1>12, PageWrittenIs
<1> HIDE DEF q
<1>14. ASSUME NEW y1 \in 1..CONSOLE_Y PROVE q.rows[y1] = u.text[y1 - 1]
  <2>1. y1 - 1 \in Y /\ y1 \in Int
    BY SizesAre
  <2>2. CASE y1 = t.y + 1
    BY <1>5, <1>7, <1>10, <1>12, <1>13, <2>2
  <2>3. CASE y1 # t.y + 1
    <3>1. y1 - 1 # t.y
      BY <1>0, <2>1, <2>3
    <3> QED
      BY <1>5, <1>7, <1>9, <1>12, <1>13, <2>1, <2>3, <3>1
  <2> QED
    BY <2>2, <2>3
<1>15. Inside(bounds(u)) /\ AsPage(bounds(u)) = At(q, x)
  <2>1. q.y = u.y /\ q.color = u.color
    BY <1>7, <1>9, <1>13 DEF SameRest
  <2>2. u.x \in Nat /\ u.y \in Y
    BY <1>0, <1>7
  <2> QED
    BY <1>7, <1>13, <1>14, <2>1, <2>2, BoundsForward
<1>16. complete(u) = u /\ Clean(bounds(u)) /\ bounds(u).state = "NORMAL"
  BY <1>0, <1>7, <1>8, CharactersAre
<1>17. Ends(bounds(complete(u)), At(q, x))
  BY <1>15, <1>16 DEF Ends
<1> QED
  BY <1>3, <1>9, <1>11, <1>17 DEF p, x

\* A character does what is described.
LEMMA CharacterDone ==
    ASSUME NEW t, Inside(t), Clean(t), t.state = "NORMAL", NEW b \in {97, 32, 9, 8, 10, 13},
           NEW tok, tok.kind = "char", tok.args = <<b>>, Sensible(AsPage(t), tok)
    PROVE  Ends(bounds(complete(normal(t, b))), Described(AsPage(t), tok))
<1> DEFINE p == AsPage(t)
<1>1. tok.args[1] = b /\ p.color = t.color
  BY PageIs
<1> HIDE DEF p
<1>2. CASE b = 10
  BY <1>1, <1>2, LineDone DEF Described, p
<1>3. CASE b = 13
  BY <1>1, <1>3, ReturnDone DEF Described, p
<1>4. CASE b = 9
  BY <1>1, <1>4, TabDone DEF Described, p
<1>5. CASE b = 8
  BY <1>1, <1>5, BackspaceDone DEF Described, p
<1>6. CASE b \in {97, 32}
  <2>1. b = 32 => t.color.back = 0
    BY <1>1 DEF Sensible, p
  <2>2. Described(p, tok) = At([p EXCEPT !.rows[p.y + 1][p.x] = Cell(b, p.color)], p.x + 1)
    BY <1>1, <1>6 DEF Described
  <2> QED
    BY <1>6, <2>1, <2>2, PrintDone DEF p
<1> QED
  BY <1>2, <1>3, <1>4, <1>5, <1>6

-----------------------------------------------------------------------------
(* Sequences, byte by byte                                                  *)
(* Sequences, byte by byte                                                  *)

Led(a, s) == <<a>> \o s

LEMMA FirstOf ==
    ASSUME NEW a \in Int, NEW s \in Seq(Int)
    PROVE  LET r == Led(a, s)
           IN r \in Seq(Int) /\ r # <<>> /\ Head(r) = a /\ Tail(r) = s
<1> DEFINE o == <<a>>
           r == o \o s
<1>1. o \in Seq(Int) /\ Len(o) = 1 /\ o[1] = a
  OBVIOUS
<1> HIDE DEF o
<1>3. Len(s) \in Nat
  OBVIOUS
<1>2. /\ r \in Seq(Int) /\ Len(r) = 1 + Len(s)
      /\ \A i \in 1..(1 + Len(s)) : r[i] = IF i <= 1 THEN o[i] ELSE s[i - 1]
  <2>1. /\ r \in Seq(Int) /\ Len(r) = Len(o) + Len(s)
        /\ \A i \in 1..(Len(o) + Len(s)) : r[i] = IF i <= Len(o) THEN o[i] ELSE s[i - Len(o)]
    BY <1>1, Joined
  <2> HIDE DEF r
  <2> QED
    BY <1>1, <2>1
<1> HIDE DEF r
<1>4. r # <<>> /\ Head(r) = a
  BY <1>1, <1>2, <1>3
<1>5. Tail(r) \in Seq(Int) /\ Len(Tail(r)) = Len(s) /\ \A i \in 1..Len(s) : Tail(r)[i] = r[i + 1]
  BY <1>2, <1>3, <1>4
<1>6. \A i \in 1..Len(s) : r[i + 1] = s[i]
  BY <1>2, <1>3
<1>7. Tail(r) = s
  BY <1>5, <1>6, SeqEqual
<1>8. Led(a, s) = r
  BY DEF Led, r, o
<1> QED
  BY <1>2, <1>4, <1>7, <1>8

LEMMA One ==
    ASSUME NEW a \in Int
    PROVE  <<a>> \in Seq(Int) /\ <<a>> # <<>> /\ Head(<<a>>) = a /\ Tail(<<a>>) = <<>>
  OBVIOUS

LEMMA Two ==
    ASSUME NEW a \in Int, NEW b \in Int
    PROVE  <<a, b>> = <<a>> \o <<b>> /\ <<a, b>> \in Seq(Int)
<1> DEFINE oa == <<a>>
           ob == <<b>>
           j == oa \o ob
           ab == <<a, b>>
<1>1. oa \in Seq(Int) /\ Len(oa) = 1 /\ oa[1] = a /\ ob \in Seq(Int) /\ Len(ob) = 1 /\ ob[1] = b
  OBVIOUS
<1>2. ab \in Seq(Int) /\ Len(ab) = 2 /\ ab[1] = a /\ ab[2] = b
  OBVIOUS
<1> HIDE DEF oa, ob, ab
<1>3. j \in Seq(Int) /\ Len(j) = 2 /\ \A i \in 1..2 : j[i] = IF i <= 1 THEN oa[i] ELSE ob[i - 1]
  <2>1. /\ j \in Seq(Int) /\ Len(j) = Len(oa) + Len(ob)
        /\ \A i \in 1..(Len(oa) + Len(ob)) : j[i] = IF i <= Len(oa) THEN oa[i] ELSE ob[i - Len(oa)]
    BY <1>1, Joined
  <2> HIDE DEF j
  <2> QED
    BY <1>1, <2>1
<1> HIDE DEF j
<1>4. j[1] = a /\ j[2] = b
  BY <1>1, <1>3
<1>5. \A i \in 1..2 : i = 1 \/ i = 2
  OBVIOUS
<1>6. j = ab
  BY <1>2, <1>3, <1>4, <1>5, SeqEqual
<1> QED
  BY <1>2, <1>6 DEF j, ab, oa, ob

LEMMA LedJoined ==
    ASSUME NEW a \in Int, NEW r \in Seq(Int), NEW s \in Seq(Int)
    PROVE  Led(a, r) \o s = Led(a, r \o s)
<1> DEFINE o == <<a>>
<1>1. o \in Seq(Int)
  OBVIOUS
<1> HIDE DEF o
<1>2. (o \o r) \o s = o \o (r \o s)
  BY <1>1, JoinedThrice
<1> QED
  BY <1>2 DEF Led, o

\* A digit before what follows, and the number that two digits make.
DigitLed(d, s) == Led(48 + d, s)
OfTwo(d, e) == d * 10 + e

LEMMA DigitLedIs ==
    ASSUME NEW d \in 0..9, NEW s \in Seq(Int)
    PROVE  LET r == DigitLed(d, s)
           IN r \in Seq(Int) /\ r # <<>> /\ Head(r) = 48 + d /\ Tail(r) = s
<1> DEFINE a == 48 + d
<1>1. a \in Int
  OBVIOUS
<1> HIDE DEF a
<1>2. LET r == Led(a, s)
      IN r \in Seq(Int) /\ r # <<>> /\ Head(r) = a /\ Tail(r) = s
  BY <1>1, FirstOf
<1> QED
  BY <1>2 DEF DigitLed, a

LEMMA OfTwoIs == ASSUME NEW d \in 0..9 PROVE OfTwo(0, d) = d
  BY DEF OfTwo

\* The first digit of a number, and what follows it.
LEMMA DigitsAre ==
    ASSUME NEW n \in 0..99, NEW s \in Seq(Int)
    PROVE  /\ Digits(n) \in Seq(Int) /\ Digits(n) \o s \in Seq(Int)
           /\ \/ n \in 0..9 /\ Digits(n) \o s = DigitLed(n, s)
              \/ \E d \in 0..9, e \in 0..9 :
                   OfTwo(d, e) = n /\ Digits(n) \o s = DigitLed(d, DigitLed(e, s))
<1>1. CASE n < 10
  <2> DEFINE a == 48 + n
  <2>1. a \in Int /\ n \in 0..9 /\ Digits(n) = <<a>>
    BY <1>1 DEF Digits
  <2> HIDE DEF a
  <2>2. <<a>> \in Seq(Int) /\ Digits(n) \o s = Led(a, s)
    BY <2>1, One DEF Led
  <2>3. Led(a, s) \in Seq(Int)
    BY <2>1, FirstOf
  <2> QED
    BY <2>1, <2>2, <2>3 DEF a, DigitLed
<1>2. CASE ~(n < 10)
  <2> DEFINE d == n \div 10
             e == n % 10
             a == 48 + d
             b == 48 + e
  <2>1. d \in 0..9 /\ e \in 0..9 /\ d * 10 + e = n
    BY <1>2
  <2>2. Digits(n) = <<a, b>>
    BY <1>2 DEF Digits
  <2> HIDE DEF d, e
  <2>3. a \in Int /\ b \in Int
    BY <2>1
  <2> HIDE DEF a, b
  <2> DEFINE ob == <<b>>
  <2>4. Digits(n) = Led(a, ob) /\ Digits(n) \in Seq(Int) /\ ob \in Seq(Int)
    BY <2>2, <2>3, Two, One DEF Led
  <2>6. Led(b, s) = ob \o s
    BY DEF Led
  <2> HIDE DEF ob
  <2>5. Led(a, ob) \o s = Led(a, ob \o s)
    BY <2>3, <2>4, LedJoined
  <2>7. Led(b, s) \in Seq(Int)
    BY <2>3, FirstOf
  <2>8. Led(a, Led(b, s)) \in Seq(Int)
    BY <2>3, <2>7, FirstOf
  <2> QED
    BY <2>1, <2>4, <2>5, <2>6, <2>8 DEF a, b, DigitLed, OfTwo
<1> QED
  BY <1>1, <1>2

\* What follows the first number, and what the bracket.
AfterFirst(args, n, s, c) ==
    \/ args = <<n>> /\ s = <<c>>
    \/ \E m \in 0..99 : args = <<n, m>> /\ s = Led(59, Digits(m) \o <<c>>)

Arguments(args, bs, c) ==
    \/ args = <<>> /\ bs = <<c>>
    \/ \E n \in 0..99, s \in Seq(Int) : AfterFirst(args, n, s, c) /\ bs = Digits(n) \o s

WithNumbers(args) ==
    \/ args = <<>>
    \/ \E n \in 0..99 : args = <<n>>
    \/ \E n \in 0..99, m \in 0..99 : args = <<n, m>>

Middle(args) ==
    CASE Len(args) = 0 -> <<>>
      [] Len(args) = 1 -> Digits(args[1])
      [] OTHER -> Digits(args[1]) \o <<59>> \o Digits(args[2])

LEMMA MiddleIs ==
    ASSUME NEW args, WithNumbers(args), NEW c \in Int
    PROVE  LET M == Middle(args)
           IN M \in Seq(Int) /\ M \o <<c>> \in Seq(Int) /\ Arguments(args, M \o <<c>>, c)
<1> DEFINE oc == <<c>>
           os == <<59>>
<1>0. oc \in Seq(Int) /\ os \in Seq(Int) /\ <<>> \in Seq(Int)
  OBVIOUS
<1>1. CASE args = <<>>
  <2>1. Middle(args) = <<>>
    BY <1>1 DEF Middle
  <2> HIDE DEF oc
  <2>2. <<>> \o oc = oc
    BY <1>0, ConcatEmptySeq
  <2> QED
    BY <1>0, <1>1, <2>1, <2>2 DEF Arguments, oc
<1>2. CASE \E n \in 0..99 : args = <<n>>
  <2>1. PICK n \in 0..99 : args = <<n>>
    BY <1>2
  <2>2. Middle(args) = Digits(n)
    BY <2>1 DEF Middle
  <2>3. AfterFirst(args, n, oc, c)
    BY <2>1 DEF AfterFirst
  <2> HIDE DEF oc
  <2>4. Digits(n) \in Seq(Int) /\ Digits(n) \o oc \in Seq(Int)
    BY <1>0, DigitsAre
  <2>5. Arguments(args, Digits(n) \o oc, c)
    BY <1>0, <2>3 DEF Arguments
  <2> QED
    BY <2>2, <2>4, <2>5 DEF oc
<1>3. CASE \E n \in 0..99, m \in 0..99 : args = <<n, m>>
  <2>1. PICK n \in 0..99, m \in 0..99 : args = <<n, m>>
    BY <1>3
  <2> DEFINE dn == Digits(n)
             dm == Digits(m)
             rest == dm \o oc
             s == Led(59, rest)
  <2>2. Middle(args) = dn \o os \o dm
    <3>1. Len(args) = 2 /\ args[1] = n /\ args[2] = m
      BY <2>1
    <3> QED
      BY <3>1 DEF Middle
  <2>3. dn \in Seq(Int) /\ dm \in Seq(Int) /\ rest \in Seq(Int)
    <3> HIDE DEF oc
    <3> QED
      BY <1>0, DigitsAre
  <2>4. AfterFirst(args, n, s, c)
    BY <2>1 DEF AfterFirst
  <2> HIDE DEF oc, dn, dm
  <2>5. (dn \o os) \o dm = dn \o (os \o dm) /\ os \o dm \in Seq(Int)
    BY SMTT(30), <1>0, <2>3, JoinedThrice, Joined
  <2>6. os \o dm = Led(59, dm) /\ os \o rest = s
    BY DEF Led
  <2> HIDE DEF os
  <2>7. dn \o Led(59, dm) \in Seq(Int) /\ Led(59, dm) \in Seq(Int)
    BY <2>3, <2>5, <2>6, Joined
  <2>8. (dn \o Led(59, dm)) \o oc = dn \o (Led(59, dm) \o oc)
    BY SMTT(30), <1>0, <2>3, <2>7, JoinedThrice
  <2>9. Led(59, dm) \o oc = s
    BY <1>0, <2>3, LedJoined
  <2>10. s \in Seq(Int)
    <3> HIDE DEF rest
    <3> QED
      BY <2>3, FirstOf
  <2> HIDE DEF rest, s
  <2>11. dn \o s \in Seq(Int)
    BY <2>3, <2>10, Joined
  <2>12. Arguments(args, dn \o s, c)
    BY <2>4, <2>10 DEF Arguments, dn
  <2>13. Middle(args) = dn \o Led(59, dm)
    BY <2>2, <2>5, <2>6
  <2> QED
    BY <2>7, <2>8, <2>9, <2>11, <2>12, <2>13 DEF oc
<1> QED
  BY <1>1, <1>2, <1>3 DEF WithNumbers

LEMMA SequenceIs ==
    ASSUME NEW args, WithNumbers(args), NEW c \in Int
    PROVE  \E bs \in Seq(Int) :
             Arguments(args, bs, c) /\ Sequence(args, c) = Led(27, Led(91, bs))
<1> DEFINE M == Middle(args)
           oc == <<c>>
           bs == M \o oc
           two == <<27, 91>>
           o1 == <<27>>
           o2 == <<91>>
<1>1. M \in Seq(Int) /\ bs \in Seq(Int) /\ Arguments(args, bs, c)
  BY MiddleIs
<1>2. Sequence(args, c) = two \o M \o oc
  BY DEF Sequence, Middle
<1>3. oc \in Seq(Int) /\ two \in Seq(Int) /\ o1 \in Seq(Int) /\ o2 \in Seq(Int)
  BY One, Two
<1>7. two = o1 \o o2
  BY Two
<1>4. Led(27, Led(91, bs)) = o1 \o (o2 \o bs)
  BY DEF Led
<1> HIDE DEF M, oc, two, o1, o2
<1>5. (two \o M) \o oc = two \o (M \o oc)
  BY ZenonT(60), <1>1, <1>3, JoinedThrice
<1>8. bs = M \o oc
  OBVIOUS
<1> HIDE DEF bs
<1>6. (o1 \o o2) \o bs = o1 \o (o2 \o bs)
  BY ZenonT(60), <1>1, <1>3, JoinedThrice
<1> QED
  BY <1>1, <1>2, <1>4, <1>5, <1>6, <1>7, <1>8

\* Where the machine is in what follows the bracket: before the numbers, in
\* or after the first, in or after the second.
Reading1(t, bs, args, c) ==
    \E n \in 0..99, s \in Seq(Int) :
       /\ AfterFirst(args, n, s, c) /\ t.which = 0
       /\ \/ t.numbers[0] = n /\ bs = s
          \/ \E d \in 0..9, e \in 0..9 :
               OfTwo(d, e) = n /\ t.numbers[0] = d /\ bs = DigitLed(e, s)

Reading2(t, bs, args, c) ==
    \E n \in 0..99, m \in 0..99 :
       /\ args = <<n, m>> /\ t.which = 1 /\ t.numbers[0] = n
       /\ \/ t.numbers[1] = m /\ bs = <<c>>
          \/ t.numbers[1] = 0 /\ bs = Digits(m) \o <<c>>
          \/ \E d \in 0..9, e \in 0..9 :
               OfTwo(d, e) = m /\ t.numbers[1] = d /\ bs = DigitLed(e, <<c>>)

Inputs(t, bs, args, c) ==
    \/ t.which = -1 /\ t.numbers[0] = -1 /\ Arguments(args, bs, c)
    \/ Reading1(t, bs, args, c)
    \/ Reading2(t, bs, args, c)

\* One byte more.
Advanced(t, bs, args, c) ==
    LET u == number(t, Head(bs))
    IN /\ bs # <<>> /\ Tail(bs) \in Seq(Int)
       /\ u \in Turns /\ SameScreen(u, t) /\ u.state = t.state
       /\ Inputs(u, Tail(bs), args, c)

\* A digit is read.
DigitDone(t, u, w, value) ==
    /\ u \in Turns /\ SameScreen(u, t) /\ u.state = t.state /\ u.which = w
    /\ u.numbers[w] = value
    /\ (w = 1 => u.numbers[0] = t.numbers[0])

LEMMA DigitRead ==
    ASSUME NEW t \in Turns, NEW d \in 0..9, NEW s \in Seq(Int), NEW w \in 0..2, NEW old \in Int,
           From(t, w, old), NEW bs, bs = DigitLed(d, s)
    PROVE  /\ bs # <<>> /\ Tail(bs) = s
           /\ DigitDone(t, number(t, Head(bs)), w, OfTwo(old, d))
<1>1. DigitDone(t, number(t, 48 + d), w, OfTwo(old, d))
  <2> DEFINE u == number(t, 48 + d)
  <2>1. /\ u \in Turns /\ SameScreen(u, t) /\ u.state = t.state /\ u.which = w
        /\ u.numbers[w] = old * 10 + d
        /\ \A n \in 0..2 : n # w => u.numbers[n] = t.numbers[n]
    BY ZenonT(60), NumberDigit
  <2> HIDE DEF u
  <2> QED
    BY <2>1 DEF DigitDone, OfTwo, u
<1>2. bs # <<>> /\ Head(bs) = 48 + d /\ Tail(bs) = s
  BY DigitLedIs
<1> QED
  BY <1>1, <1>2

\* The numbers, after the first is read up to its end or its first digit.
LEMMA FirstRead ==
    ASSUME NEW t \in Turns, t.which = -1, NEW args, NEW c \in Int, NEW n \in 0..99, NEW s \in Seq(Int),
           AfterFirst(args, n, s, c), NEW bs, bs = Digits(n) \o s
    PROVE  Advanced(t, bs, args, c)
<1> DEFINE u == number(t, Head(bs))
<1>1. CASE n \in 0..9 /\ bs = DigitLed(n, s)
  <2>1. /\ bs # <<>> /\ Tail(bs) = s
        /\ u \in Turns /\ SameScreen(u, t) /\ u.state = t.state /\ u.which = 0
        /\ u.numbers[0] = OfTwo(0, n)
    <3> DEFINE w == 0
               old == 0
    <3>1. w \in 0..2 /\ old \in Int /\ From(t, w, old)
      BY DEF From
    <3> HIDE DEF w, old
    <3>2. bs # <<>> /\ Tail(bs) = s /\ DigitDone(t, u, w, OfTwo(old, n))
      BY <1>1, <3>1, DigitRead
    <3> HIDE DEF u
    <3> QED
      BY <3>2 DEF w, old, DigitDone
  <2>2. OfTwo(0, n) = n
    BY <1>1, OfTwoIs
  <2> HIDE DEF u
  <2>3. Reading1(u, s, args, c)
    BY <2>1, <2>2 DEF Reading1
  <2> QED
    BY <2>1, <2>3 DEF Advanced, Inputs, u
<1>2. ASSUME NEW d \in 0..9, NEW e \in 0..9, OfTwo(d, e) = n, bs = DigitLed(d, DigitLed(e, s))
      PROVE  Advanced(t, bs, args, c)
  <2> DEFINE r == DigitLed(e, s)
  <2>0. r \in Seq(Int)
    BY DigitLedIs
  <2>5. bs = DigitLed(d, r)
    BY <1>2
  <2> HIDE DEF r
  <2>1. /\ bs # <<>> /\ Tail(bs) = r
        /\ u \in Turns /\ SameScreen(u, t) /\ u.state = t.state /\ u.which = 0
        /\ u.numbers[0] = OfTwo(0, d)
    <3> DEFINE w == 0
               old == 0
    <3>1. w \in 0..2 /\ old \in Int /\ From(t, w, old)
      BY DEF From
    <3> HIDE DEF w, old
    <3>2. bs # <<>> /\ Tail(bs) = r /\ DigitDone(t, u, w, OfTwo(old, d))
      BY <2>0, <2>5, <3>1, DigitRead
    <3> HIDE DEF u
    <3> QED
      BY <3>2 DEF w, old, DigitDone
  <2>2. OfTwo(0, d) = d
    BY OfTwoIs
  <2> HIDE DEF u
  <2>3. u.which = 0 /\ u.numbers[0] = d /\ OfTwo(d, e) = n /\ r = DigitLed(e, s)
    BY <1>2, <2>1, <2>2 DEF r
  <2>4. Reading1(u, r, args, c)
    BY <2>3 DEF Reading1
  <2> QED
    BY <2>0, <2>1, <2>4 DEF Advanced, Inputs, u
<1> HIDE DEF u
<1> QED
  BY <1>1, <1>2, DigitsAre

\* The machine is in a number, d of which it has.
Half(t, w, d) == t.which = w /\ t.numbers[w] = d
Makes(d, e, n) == OfTwo(d, e) = n

LEMMA FirstEnds ==
    ASSUME NEW t \in Turns, NEW args, NEW c \in Int, NEW n \in 0..99, NEW s \in Seq(Int),
           AfterFirst(args, n, s, c), NEW d \in 0..9, NEW e \in 0..9, Half(t, 0, d), Makes(d, e, n),
           NEW bs, bs = DigitLed(e, s)
    PROVE  Advanced(t, bs, args, c)
<1> DEFINE u == number(t, Head(bs))
           w == 0
<1>1. w \in 0..2 /\ d \in Int /\ From(t, w, d)
  BY DEF From, Half
<1> HIDE DEF w
<1>2. bs # <<>> /\ Tail(bs) = s /\ DigitDone(t, u, w, OfTwo(d, e))
  BY ZenonT(60), <1>1, DigitRead
<1> HIDE DEF u
<1>3. u \in Turns /\ SameScreen(u, t) /\ u.state = t.state /\ u.which = 0 /\ u.numbers[0] = n
  BY <1>2 DEF DigitDone, w, Makes
<1>4. Reading1(u, s, args, c)
  BY <1>3 DEF Reading1
<1> QED
  BY <1>2, <1>3, <1>4 DEF Advanced, Inputs, u

LEMMA NextBegins ==
    ASSUME NEW t \in Turns, t.which = 0, NEW args, NEW c \in Int, NEW n \in 0..99, NEW m \in 0..99,
           args = <<n, m>>, t.numbers[0] = n, NEW bs, bs = Led(59, Digits(m) \o <<c>>)
    PROVE  Advanced(t, bs, args, c)
<1> DEFINE u == number(t, 59)
           s == Digits(m) \o <<c>>
           oc == <<c>>
<1>1. s \in Seq(Int)
  <2>1. oc \in Seq(Int)
    BY One
  <2> HIDE DEF oc
  <2>2. Digits(m) \o oc \in Seq(Int)
    BY <2>1, DigitsAre
  <2> QED
    BY <2>2 DEF oc
<1>2. bs = Led(59, s)
  OBVIOUS
<1> HIDE DEF s
<1>3. bs # <<>> /\ Head(bs) = 59 /\ Tail(bs) = s
  <2> DEFINE a == 59
  <2>1. a \in Int
    OBVIOUS
  <2>2. bs = Led(a, s)
    BY <1>2
  <2> HIDE DEF a
  <2>3. bs # <<>> /\ Head(bs) = a /\ Tail(bs) = s
    BY <1>1, <2>1, <2>2, FirstOf
  <2> QED
    BY <2>3 DEF a
<1>4. /\ u \in Turns /\ SameScreen(u, t) /\ u.state = t.state /\ u.which = 1
      /\ u.numbers[0] = t.numbers[0] /\ u.numbers[1] = 0
  BY NumberNext
<1>5. u = number(t, Head(bs))
  BY <1>3
<1> HIDE DEF u
<1>6. Reading2(u, s, args, c)
  BY <1>4 DEF Reading2, s
<1>7. Inputs(u, s, args, c)
  BY <1>6 DEF Inputs
<1> QED
  BY <1>1, <1>3, <1>4, <1>5, <1>7 DEF Advanced

\* A digit of the second number: the first or the only one, or the last.
SecondIs(old, e, m, s, c) ==
    \/ OfTwo(old, e) = m /\ s = <<c>>
    \/ old = 0 /\ \E f \in 0..9 : OfTwo(e, f) = m /\ s = DigitLed(f, <<c>>)

HasFirst(t, n) == t.numbers[0] = n

LEMMA SecondDigit ==
    ASSUME NEW t \in Turns, NEW args, NEW c \in Int, NEW n \in 0..99, NEW m \in 0..99,
           args = <<n, m>>, HasFirst(t, n), NEW old \in 0..9, Half(t, 1, old),
           NEW e \in 0..9, NEW s \in Seq(Int), NEW bs, bs = DigitLed(e, s),
           SecondIs(old, e, m, s, c)
    PROVE  Advanced(t, bs, args, c)
<1> DEFINE u == number(t, Head(bs))
           w == 1
<1>1. w \in 0..2 /\ old \in Int /\ From(t, w, old)
  BY DEF From, Half
<1> HIDE DEF w
<1>2. bs # <<>> /\ Tail(bs) = s /\ DigitDone(t, u, w, OfTwo(old, e))
  BY ZenonT(60), <1>1, DigitRead
<1> HIDE DEF u
<1>3. /\ u \in Turns /\ SameScreen(u, t) /\ u.state = t.state /\ u.which = 1
      /\ u.numbers[0] = n /\ u.numbers[1] = OfTwo(old, e)
  BY <1>2 DEF DigitDone, w, HasFirst
<1>4. CASE OfTwo(old, e) = m /\ s = <<c>>
  <2>1. Reading2(u, s, args, c)
    BY <1>3, <1>4 DEF Reading2
  <2> QED
    BY <1>2, <1>3, <2>1 DEF Advanced, Inputs, u
<1>5. CASE old = 0 /\ \E f \in 0..9 : OfTwo(e, f) = m /\ s = DigitLed(f, <<c>>)
  <2>1. PICK f \in 0..9 : OfTwo(e, f) = m /\ s = DigitLed(f, <<c>>)
    BY <1>5
  <2>2. u.numbers[1] = e
    BY <1>3, <1>5, OfTwoIs
  <2>3. Reading2(u, s, args, c)
    BY <1>3, <2>1, <2>2 DEF Reading2
  <2> QED
    BY <1>2, <1>3, <2>3 DEF Advanced, Inputs, u
<1> QED
  BY <1>4, <1>5 DEF SecondIs

\* All arguments are read, or one byte more is.
LEMMA InputsStep ==
    ASSUME NEW t \in Turns, NEW args, NEW c \in Int, NEW bs, Inputs(t, bs, args, c)
    PROVE  (bs = <<c>> /\ Got(t, args)) \/ Advanced(t, bs, args, c)
<1> DEFINE oc == <<c>>
<1>0. oc \in Seq(Int)
  BY One
<1>1. CASE t.which = -1 /\ t.numbers[0] = -1 /\ Arguments(args, bs, c)
  <2>1. CASE args = <<>> /\ bs = <<c>>
    BY <1>1, <2>1 DEF Got
  <2>2. CASE \E n \in 0..99, s \in Seq(Int) : AfterFirst(args, n, s, c) /\ bs = Digits(n) \o s
    BY <1>1, <2>2, FirstRead
  <2> QED
    BY <1>1, <2>1, <2>2 DEF Arguments
<1>2. CASE Reading1(t, bs, args, c)
  <2>1. PICK n \in 0..99, s \in Seq(Int) :
           /\ AfterFirst(args, n, s, c) /\ t.which = 0
           /\ \/ t.numbers[0] = n /\ bs = s
              \/ \E d \in 0..9, e \in 0..9 :
                   OfTwo(d, e) = n /\ t.numbers[0] = d /\ bs = DigitLed(e, s)
    BY <1>2 DEF Reading1
  <2>2. CASE \E d \in 0..9, e \in 0..9 : OfTwo(d, e) = n /\ t.numbers[0] = d /\ bs = DigitLed(e, s)
    <3>1. PICK d \in 0..9, e \in 0..9 : OfTwo(d, e) = n /\ t.numbers[0] = d /\ bs = DigitLed(e, s)
      BY <2>2
    <3>2. Half(t, 0, d) /\ Makes(d, e, n) /\ bs = DigitLed(e, s) /\ AfterFirst(args, n, s, c)
      BY <2>1, <3>1 DEF Half, Makes
    <3> QED
      BY <3>2, FirstEnds
  <2>3. CASE t.numbers[0] = n /\ bs = s
    <3>1. CASE args = <<n>> /\ s = <<c>>
      BY <2>1, <2>3, <3>1 DEF Got
    <3>2. CASE \E m \in 0..99 : args = <<n, m>> /\ s = Led(59, Digits(m) \o <<c>>)
      BY ZenonT(60), <2>1, <2>3, <3>2, NextBegins
    <3> QED
      BY <2>1, <3>1, <3>2 DEF AfterFirst
  <2> QED
    BY <2>1, <2>2, <2>3
<1>3. CASE Reading2(t, bs, args, c)
  <2>1. PICK n \in 0..99, m \in 0..99 :
           /\ args = <<n, m>> /\ t.which = 1 /\ t.numbers[0] = n
           /\ \/ t.numbers[1] = m /\ bs = <<c>>
              \/ t.numbers[1] = 0 /\ bs = Digits(m) \o <<c>>
              \/ \E d \in 0..9, e \in 0..9 :
                   OfTwo(d, e) = m /\ t.numbers[1] = d /\ bs = DigitLed(e, <<c>>)
    BY <1>3 DEF Reading2
  <2>2. CASE t.numbers[1] = m /\ bs = <<c>>
    BY <2>1, <2>2 DEF Got
  <2>3. ASSUME NEW d \in 0..9, NEW e \in 0..9,
               OfTwo(d, e) = m, t.numbers[1] = d, bs = DigitLed(e, oc)
        PROVE  Advanced(t, bs, args, c)
    <3>1. SecondIs(d, e, m, oc, c)
      BY <2>3 DEF SecondIs
    <3> HIDE DEF oc
    <3>2. Half(t, 1, d) /\ HasFirst(t, n) /\ args = <<n, m>> /\ bs = DigitLed(e, oc)
      BY <2>1, <2>3 DEF Half, HasFirst
    <3> QED
      BY <1>0, <3>1, <3>2, SecondDigit
  <2>4. CASE t.numbers[1] = 0 /\ bs = Digits(m) \o <<c>>
    <3> DEFINE z == 0
    <3>1. z \in 0..9 /\ z = 0 /\ t.numbers[1] = z
      BY <2>4
    <3>2. CASE m \in 0..9 /\ bs = DigitLed(m, oc)
      <4>1. SecondIs(z, m, m, oc, c)
        BY <3>2, OfTwoIs DEF SecondIs
      <4>2. Half(t, 1, z) /\ HasFirst(t, n) /\ args = <<n, m>> /\ bs = DigitLed(m, oc) /\ m \in 0..9
        BY <2>1, <3>1, <3>2 DEF Half, HasFirst
      <4> HIDE DEF z, oc
      <4> QED
        BY <1>0, <3>1, <4>1, <4>2, SecondDigit
    <3>3. ASSUME NEW d \in 0..9, NEW e \in 0..9, OfTwo(d, e) = m, bs = DigitLed(d, DigitLed(e, oc))
          PROVE  Advanced(t, bs, args, c)
      <4> DEFINE r == DigitLed(e, oc)
      <4>1. r \in Seq(Int)
        BY <1>0, DigitLedIs
      <4>2. bs = DigitLed(d, r)
        BY <3>3
      <4>3. SecondIs(z, d, m, r, c)
        BY <3>3 DEF SecondIs
      <4>4. Half(t, 1, z) /\ HasFirst(t, n) /\ args = <<n, m>>
        BY <2>1, <3>1 DEF Half, HasFirst
      <4> HIDE DEF z, r, oc
      <4> QED
        BY <3>1, <4>1, <4>2, <4>3, <4>4, SecondDigit
    <3>4. bs = Digits(m) \o oc
      BY <2>4
    <3> HIDE DEF oc
    <3> QED
      BY <1>0, <3>2, <3>3, <3>4, DigitsAre
  <2> QED
    BY <2>1, <2>2, <2>3, <2>4
<1> QED
  BY <1>1, <1>2, <1>3 DEF Inputs

-----------------------------------------------------------------------------
(* The invariant                                                            *)

LEMMA ArgumentsOf == ASSUME NEW tok, IsCommand(tok.kind, tok.args) PROVE WithNumbers(tok.args)
<1> DEFINE args == tok.args
<1>1. CASE args = <<>>
  BY <1>1 DEF WithNumbers
<1>4. CASE \E n \in {2, 0, 41} : args = <<n>>
  <2>1. PICK n \in {2, 0, 41} : args = <<n>>
    BY <1>4
  <2>2. n \in 0..99
    OBVIOUS
  <2>3. \E k \in 0..99 : tok.args = <<k>>
    BY <2>1, <2>2, Zenon
  <2> QED
    BY <2>3 DEF WithNumbers
<1>2. CASE args = <<1, 31>>
  BY <1>2 DEF WithNumbers
<1>3. CASE \E y \in Y, x \in X : args = <<y + 1, x + 1>>
  <2>1. PICK y \in Y, x \in X : args = <<y + 1, x + 1>>
    BY <1>3
  <2>2. y + 1 \in 0..99 /\ x + 1 \in 0..99
    BY SizesAre
  <2> QED
    BY <2>1, <2>2 DEF WithNumbers
<1>5. args \in {<<2>>, <<0>>, <<41>>} => \E n \in {2, 0, 41} : args = <<n>>
  OBVIOUS
<1> QED
  BY <1>1, <1>2, <1>3, <1>4, <1>5 DEF IsCommand

\* Where in a token the machine is, and what of it is to come.
AtStage(t, tok, bs) ==
    \/ t.state = "NORMAL" /\ bs = tok.bytes
    \/ t.state = "ESCAPE" /\ tok.kind = "none" /\ bs = <<55>>
    \/ /\ t.state = "ESCAPE" /\ IsCommand(tok.kind, tok.args)
       /\ \E r \in Seq(Int) : Arguments(tok.args, r, CommandOf(tok.kind)) /\ bs = Led(91, r)
    \/ /\ t.state = "NUMBER" /\ IsCommand(tok.kind, tok.args)
       /\ Inputs(t, bs, tok.args, CommandOf(tok.kind))

Switched(t, ch) == CASE t.state = "NORMAL" -> normal(t, ch)
                     [] t.state = "ESCAPE" -> escape_(t, ch)
                     [] t.state = "NUMBER" -> number(t, ch)

Stepped(t, ch) ==
    LET s == Switched(t, ch) IN IF Unknown(s) THEN s ELSE bounds(complete(s))

\* After a byte: the token is done or reported, or the machine has read it
\* and no more.
Continues(t, tok, bs, u) ==
    /\ bs # <<>> /\ Inside(u) /\ Clean(u)
    /\ \/ Tail(bs) = <<>> /\ u.state \in {"NORMAL", "COMPLETE"} /\ AsPage(u) = Described(AsPage(t), tok)
       \/ AsPage(u) = AsPage(t) /\ AtStage(u, tok, Tail(bs))

\* A byte that moves the machine alone.
LEMMA OnlyMachine ==
    ASSUME NEW t, Inside(t), Clean(t), NEW v \in Turns, SameScreen(v, t), v.state # "COMPLETE"
    PROVE  LET u == bounds(complete(v))
           IN /\ u \in Turns /\ Inside(u) /\ Clean(u) /\ AsPage(u) = AsPage(t)
              /\ u.state = v.state /\ u.numbers = v.numbers /\ u.which = v.which
              /\ ~Unknown(v)
<1> DEFINE u == bounds(complete(v))
<1>4. ~Unknown(v)
  BY DEF Unknown
<1>1. Inside(v) /\ Clean(v) /\ AsPage(v) = AsPage(t)
  BY ScreenKept
<1>2. u \in Turns /\ SameScreen(u, v) /\ u.state = v.state /\ u.numbers = v.numbers /\ u.which = v.which
  BY <1>1, NothingLeft
<1> HIDE DEF u
<1>3. Inside(u) /\ Clean(u) /\ AsPage(u) = AsPage(v)
  BY <1>1, <1>2, ScreenKept
<1> QED
  BY <1>1, <1>2, <1>3, <1>4 DEF u

LEMMA InputsKept ==
    ASSUME NEW u, NEW v, u.numbers = v.numbers, u.which = v.which,
           NEW bs, NEW args, NEW c, Inputs(v, bs, args, c)
    PROVE  Inputs(u, bs, args, c)
<1>1. CASE v.which = -1 /\ v.numbers[0] = -1 /\ Arguments(args, bs, c)
  BY <1>1 DEF Inputs
<1>2. CASE Reading1(v, bs, args, c)
  <2>1. Reading1(u, bs, args, c)
    BY <1>2 DEF Reading1
  <2> QED
    BY <2>1 DEF Inputs
<1>3. CASE Reading2(v, bs, args, c)
  <2>1. Reading2(u, bs, args, c)
    BY <1>3 DEF Reading2
  <2> QED
    BY <2>1 DEF Inputs
<1> QED
  BY <1>1, <1>2, <1>3 DEF Inputs

LEMMA KindsApart ==
    ASSUME NEW kind, NEW args
    PROVE  IsCommand(kind, args) => kind # "char" /\ kind # "none" /\ CommandOf(kind) \in Commands /\ CommandOf(kind) \in Int
  BY DEF IsCommand, CommandOf, Commands

\* A character is no command.
LEMMA CharacterKnown ==
    ASSUME NEW t \in Turns, t.state = "NORMAL", NEW b \in {97, 32, 9, 8, 10, 13}
    PROVE  ~Unknown(normal(t, b))
<1>1. normal(t, b).state = "NORMAL"
  BY DEF normal, Turns
<1> QED
  BY <1>1 DEF Unknown

\* The first byte of a token.
LEMMA FirstByte ==
    ASSUME NEW t, Inside(t), Clean(t), t.state = "NORMAL", NEW tok \in Tokens,
           Sensible(AsPage(t), tok)
    PROVE  Continues(t, tok, tok.bytes, Stepped(t, Head(tok.bytes)))
<1> DEFINE bs == tok.bytes
<1>0. t \in Turns /\ TokenIs(tok)
  BY TokensAre DEF Inside
<1>1. CASE tok.kind = "char"
  <2>1. PICK b \in {97, 32, 9, 8, 10, 13} : tok.args = <<b>> /\ tok.bytes = <<b>>
    <3>1. tok.kind # "none" /\ ~IsCommand(tok.kind, tok.args)
      BY <1>1, KindsApart
    <3> QED
      BY <1>0, <3>1 DEF TokenIs
  <2>2. Ends(bounds(complete(normal(t, b))), Described(AsPage(t), tok))
    BY <1>1, <2>1, CharacterDone
  <2>3. bs # <<>> /\ Head(bs) = b /\ Tail(bs) = <<>>
    BY <2>1
  <2>4. Stepped(t, b) = bounds(complete(normal(t, b)))
    <3>1. Switched(t, b) = normal(t, b)
      BY DEF Switched
    <3> QED
      BY <1>0, <3>1, CharacterKnown DEF Stepped
  <2> QED
    BY <2>2, <2>3, <2>4 DEF Ends, Continues
<1>2. ASSUME bs # <<>>, Head(bs) = 27,
             \/ tok.kind = "none" /\ Tail(bs) = << 55 >>
             \/ /\ IsCommand(tok.kind, tok.args)
                /\ \E r \in Seq(Int) : Arguments(tok.args, r, CommandOf(tok.kind)) /\ Tail(bs) = Led(91, r)
      PROVE  Continues(t, tok, bs, Stepped(t, Head(bs)))
  <2> DEFINE v == normal(t, 27)
             u == bounds(complete(v))
  <2>1. v \in Turns /\ SameScreen(v, t) /\ v.state = "ESCAPE"
    BY <1>0, NormalEscape
  <2>2. Switched(t, Head(bs)) = v
    BY <1>2 DEF Switched
  <2> HIDE DEF v
  <2>3. Inside(u) /\ Clean(u) /\ AsPage(u) = AsPage(t) /\ u.state = "ESCAPE" /\ ~Unknown(v)
    BY <2>1, OnlyMachine
  <2>5. Stepped(t, Head(bs)) = u
    BY <2>2, <2>3 DEF Stepped
  <2> HIDE DEF u
  <2>4. AtStage(u, tok, Tail(bs))
    BY <1>2, <2>3 DEF AtStage
  <2> QED
    BY <1>2, <2>5, <2>3, <2>4 DEF Continues
<1>3. CASE tok.kind = "none"
  <2>1. bs = <<27, 55>>
    <3>1. tok.kind # "char" /\ ~IsCommand(tok.kind, tok.args)
      BY <1>3, KindsApart
    <3> QED
      BY <1>0, <3>1 DEF TokenIs
  <2>2. bs # <<>> /\ Head(bs) = 27 /\ Tail(bs) = <<55>>
    BY <2>1
  <2> QED
    BY <1>2, <1>3, <2>2
<1>4. CASE IsCommand(tok.kind, tok.args) /\ bs = Sequence(tok.args, CommandOf(tok.kind))
  <2> DEFINE c == CommandOf(tok.kind)
  <2>1. WithNumbers(tok.args) /\ c \in Int
    BY <1>4, ArgumentsOf, KindsApart
  <2> HIDE DEF c
  <2>2. PICK r \in Seq(Int) : Arguments(tok.args, r, c) /\ Sequence(tok.args, c) = Led(27, Led(91, r))
    BY <2>1, SequenceIs
  <2>3. bs # <<>> /\ Head(bs) = 27 /\ Tail(bs) = Led(91, r)
    <3> DEFINE a == 27
               l == 91
    <3>1. a \in Int /\ l \in Int
      OBVIOUS
    <3>2. bs = Led(a, Led(l, r))
      BY <1>4, <2>2 DEF c
    <3> HIDE DEF a, l
    <3>3. Led(l, r) \in Seq(Int)
      BY <3>1, FirstOf
    <3>4. bs # <<>> /\ Head(bs) = a /\ Tail(bs) = Led(l, r)
      BY <3>1, <3>2, <3>3, FirstOf
    <3> QED
      BY <3>4 DEF a, l
  <2> QED
    BY <1>2, <1>4, <2>2, <2>3 DEF c
<1> QED
  BY <1>0, <1>1, <1>3, <1>4 DEF TokenIs

\* The bytes that follow.
LEMMA NextByte ==
    ASSUME NEW t, Inside(t), Clean(t), NEW tok \in Tokens, Sensible(AsPage(t), tok),
           NEW bs, AtStage(t, tok, bs)
    PROVE  Continues(t, tok, bs, Stepped(t, Head(bs)))
<1>0. t \in Turns
  BY DEF Inside
<1>1. CASE t.state = "NORMAL" /\ bs = tok.bytes
  BY <1>1, FirstByte
<1>2. CASE t.state = "ESCAPE" /\ tok.kind = "none" /\ bs = <<55>>
  <2> DEFINE v == escape_(t, 55)
             u == bounds(complete(v))
  <2>1. v \in Turns /\ SameScreen(v, t) /\ v.state = "NORMAL"
    BY <1>0, EscapeOther
  <2>2. bs # <<>> /\ Head(bs) = 55 /\ Tail(bs) = <<>>
    BY <1>2
  <2>6. Switched(t, Head(bs)) = v
    BY <1>2, <2>2 DEF Switched
  <2> HIDE DEF v
  <2>4. Inside(u) /\ Clean(u) /\ AsPage(u) = AsPage(t) /\ u.state = "NORMAL" /\ ~Unknown(v)
    BY <2>1, OnlyMachine
  <2>3. Stepped(t, Head(bs)) = u
    BY <2>4, <2>6 DEF Stepped
  <2> HIDE DEF u
  <2>5. Described(AsPage(t), tok) = AsPage(t)
    BY <1>2 DEF Described
  <2> QED
    BY <2>2, <2>3, <2>4, <2>5 DEF Continues
<1>3. CASE /\ t.state = "ESCAPE" /\ IsCommand(tok.kind, tok.args)
           /\ \E r \in Seq(Int) : Arguments(tok.args, r, CommandOf(tok.kind)) /\ bs = Led(91, r)
  <2>1. PICK r \in Seq(Int) : Arguments(tok.args, r, CommandOf(tok.kind)) /\ bs = Led(91, r)
    BY <1>3
  <2> DEFINE v == escape_(t, 91)
             u == bounds(complete(v))
  <2>2. /\ v \in Turns /\ SameScreen(v, t) /\ v.state = "NUMBER"
        /\ v.which = -1 /\ v.numbers[0] = -1
    BY <1>0, EscapeBracket
  <2>3. bs # <<>> /\ Head(bs) = 91 /\ Tail(bs) = r
    <3> DEFINE l == 91
    <3>1. l \in Int /\ bs = Led(l, r)
      BY <2>1
    <3> HIDE DEF l
    <3>2. bs # <<>> /\ Head(bs) = l /\ Tail(bs) = r
      BY <3>1, FirstOf
    <3> QED
      BY <3>2 DEF l
  <2>9. Switched(t, Head(bs)) = v
    BY <1>3, <2>3 DEF Switched
  <2> HIDE DEF v
  <2>5. Inside(u) /\ Clean(u) /\ AsPage(u) = AsPage(t) /\ u.state = "NUMBER" /\ u.numbers = v.numbers /\ u.which = v.which
        /\ ~Unknown(v)
    BY <2>2, OnlyMachine
  <2>4. Stepped(t, Head(bs)) = u
    BY <2>5, <2>9 DEF Stepped
  <2> HIDE DEF u
  <2>6. u.which = -1 /\ u.numbers[0] = -1
    BY <2>2, <2>5
  <2>7. Inputs(u, r, tok.args, CommandOf(tok.kind))
    BY <2>1, <2>6 DEF Inputs
  <2>8. AtStage(u, tok, Tail(bs))
    BY <1>3, <2>3, <2>5, <2>7 DEF AtStage
  <2> QED
    BY <2>3, <2>4, <2>5, <2>8 DEF Continues
<1>4. CASE /\ t.state = "NUMBER" /\ IsCommand(tok.kind, tok.args)
           /\ Inputs(t, bs, tok.args, CommandOf(tok.kind))
  <2> DEFINE c == CommandOf(tok.kind)
             v == number(t, Head(bs))
             u == bounds(complete(v))
  <2>0. c \in Int
    BY <1>4, KindsApart
  <2>1. Switched(t, Head(bs)) = v
    BY <1>4 DEF Switched
  <2>5. CASE bs = <<c>> /\ Got(t, tok.args) /\ Reported(tok.kind, tok.args)
    <3>1. /\ Inside(number(t, c)) /\ Clean(number(t, c)) /\ number(t, c).state = "COMPLETE"
          /\ AsPage(number(t, c)) = Described(AsPage(t), tok) /\ Unknown(number(t, c))
      BY <1>4, <2>5, CommandReported, CommandKnown
    <3>2. bs # <<>> /\ Head(bs) = c /\ Tail(bs) = <<>>
      BY <2>5
    <3> HIDE DEF c
    <3>3. v = number(t, c)
      BY <3>2
    <3> HIDE DEF v
    <3>4. Stepped(t, Head(bs)) = v
      BY <2>1, <3>1, <3>3 DEF Stepped
    <3> QED
      BY <3>1, <3>2, <3>3, <3>4 DEF Continues
  <2>2. CASE bs = <<c>> /\ Got(t, tok.args) /\ ~Reported(tok.kind, tok.args)
    <3>1. Ends(bounds(complete(number(t, c))), Described(AsPage(t), tok)) /\ ~Unknown(number(t, c))
      BY <1>4, <2>2, CommandDone, CommandKnown
    <3>2. bs # <<>> /\ Head(bs) = c /\ Tail(bs) = <<>>
      BY <2>2
    <3> HIDE DEF c
    <3>3. u = bounds(complete(number(t, c))) /\ v = number(t, c)
      BY <3>2
    <3>5. Stepped(t, Head(bs)) = u
      BY <2>1, <3>1, <3>3 DEF Stepped
    <3> HIDE DEF u, v
    <3>4. Inside(u) /\ Clean(u) /\ u.state = "NORMAL" /\ AsPage(u) = Described(AsPage(t), tok)
      BY <3>1, <3>3 DEF Ends
    <3> QED
      BY <3>5, <3>2, <3>4 DEF Continues
  <2>3. CASE Advanced(t, bs, tok.args, c)
    <3>1. /\ bs # <<>> /\ Tail(bs) \in Seq(Int) /\ v \in Turns /\ SameScreen(v, t) /\ v.state = t.state
          /\ Inputs(v, Tail(bs), tok.args, c)
      BY <2>3 DEF Advanced
    <3> HIDE DEF v, c
    <3>2. v.state = "NUMBER"
      BY <1>4, <3>1
    <3>3. Inside(u) /\ Clean(u) /\ AsPage(u) = AsPage(t) /\ u.state = "NUMBER" /\ u.numbers = v.numbers /\ u.which = v.which
          /\ ~Unknown(v)
      BY <3>1, <3>2, OnlyMachine
    <3>6. Stepped(t, Head(bs)) = u
      BY <2>1, <3>3 DEF Stepped
    <3> HIDE DEF u
    <3>4. Inputs(u, Tail(bs), tok.args, c)
      BY <3>1, <3>3, InputsKept
    <3>5. AtStage(u, tok, Tail(bs))
      BY <1>4, <3>3, <3>4 DEF AtStage, c
    <3> QED
      BY <3>6, <3>1, <3>3, <3>5 DEF Continues
  <2>4. Inputs(t, bs, tok.args, c)
    BY <1>4
  <2> HIDE DEF c
  <2> QED
    BY <1>0, <2>0, <2>2, <2>3, <2>4, <2>5, InputsStep
<1> QED
  BY <1>1, <1>2, <1>3, <1>4 DEF AtStage

\* A token has bytes, wherever the machine is in it.
LEMMA BytesToCome ==
    ASSUME NEW t, Inside(t), Clean(t), NEW tok \in Tokens, Sensible(AsPage(t), tok),
           NEW bs, AtStage(t, tok, bs)
    PROVE  bs # <<>>
  BY NextByte DEF Continues

\* What is on the screen, and where in a token the machine is.
Pending ==
    \/ bytes = <<>> /\ ansi_state \in {"NORMAL", "COMPLETE"} /\ page = AsPage(Turn)
    \/ \E tok \in Tokens :
         Sensible(AsPage(Turn), tok) /\ page = Described(AsPage(Turn), tok) /\ AtStage(Turn, tok, bytes)

ScreenInv ==
    /\ Inside(Turn) /\ Clean(Turn)
    /\ writing = FALSE => refresh_screen = FALSE
    /\ Pending

LEMMA TurnIs ==
    /\ Turn.text = text_console /\ Turn.x = console_x /\ Turn.y = console_y /\ Turn.color = color
    /\ Turn.state = ansi_state /\ Turn.numbers = numbers /\ Turn.which = which_number
    /\ Turn.refresh = refresh_screen /\ Turn.drawn = drawn /\ Turn.command = 0
  BY DEF Turn

\* The same, but for the command, which starts from none.
LEMMA SameTurn ==
    ASSUME NEW u \in Turns, NEW v,
           v = [text |-> u.text, x |-> u.x, y |-> u.y, color |-> u.color, state |-> u.state,
                numbers |-> u.numbers, which |-> u.which, refresh |-> u.refresh,
                drawn |-> u.drawn, command |-> 0]
    PROVE  /\ v \in Turns /\ SameScreen(v, u) /\ v.state = u.state /\ v.numbers = u.numbers
           /\ v.which = u.which
<1>1. v \in Turns
  BY DEF Turns
<1> QED
  BY <1>1 DEF SameScreen

LEMMA StageKept ==
    ASSUME NEW u, NEW v, v.state = u.state, v.numbers = u.numbers, v.which = u.which,
           NEW tok, NEW bs, AtStage(u, tok, bs)
    PROVE  AtStage(v, tok, bs)
  BY InputsKept DEF AtStage

LEMMA ScreenInitInv == ScreenInit => ScreenInv
<1> SUFFICES ASSUME ScreenInit PROVE ScreenInv
  OBVIOUS
<1> DEFINE black == Colors(15, 0, 0)
           empty == [y \in Y |-> BlankRow]
           zeros == [n \in 0..2 |-> 0]
<1>1. /\ text_console = empty /\ console_x = 0 /\ console_y = 0 /\ color = black
      /\ ansi_state = "NORMAL" /\ which_number = -1 /\ numbers = zeros
      /\ refresh_screen = FALSE /\ writing = FALSE /\ drawn = Nothing /\ bytes = <<>>
  BY DEF ScreenInit
<1>2. /\ empty \in Texts /\ zeros \in NumberSets /\ black \in ColorSet /\ Nothing \in Drawings
      /\ 0 \in X /\ 0 \in Y /\ -1 \in Int
      /\ \A y \in Y, x \in X : Nothing[y][x] = {} /\ empty[y][x] = Blank
  BY BlankIs, SizesAre DEF Texts, NumberSets, Colors, ColorSet, Nothing, Drawings
<1>3. page = AsPage(Turn)
  <2>1. page = [rows |-> [y \in 1..CONSOLE_Y |-> BlankRow], x |-> 0, y |-> 0, color |-> black]
    BY DEF ScreenInit
  <2>2. \A y \in 1..CONSOLE_Y : y - 1 \in Y
    BY SizesAre
  <2>3. [y \in 1..CONSOLE_Y |-> Turn.text[y - 1]] = [y \in 1..CONSOLE_Y |-> BlankRow]
    BY <1>1, <2>2, TurnIs
  <2> HIDE DEF black, empty
  <2> QED
    BY <1>1, <2>1, <2>3, TurnIs DEF AsPage
<1> HIDE DEF black, empty, zeros
<1>4. Inside(Turn)
  <2> DEFINE m == -1
             st == "NORMAL"
             f == FALSE
             z == 0
  <2>1. m \in Int /\ st \in AnsiStates /\ f \in BOOLEAN /\ z \in Int /\ z \in X /\ z \in Y
    BY <1>2 DEF AnsiStates
  <2>2. Turn = [text |-> empty, x |-> z, y |-> z, color |-> black, state |-> st, numbers |-> zeros,
                which |-> m, refresh |-> f, drawn |-> Nothing, command |-> z]
    BY <1>1 DEF Turn
  <2> HIDE DEF m, st, f, z
  <2>3. Turn \in Turns
    BY <1>2, <2>1, <2>2 DEF Turns
  <2>4. Turn.x = z /\ Turn.y = z
    BY <2>2
  <2> QED
    BY <2>1, <2>3, <2>4 DEF Inside
<1>5. Clean(Turn)
  <2>1. NoColouredBlank(empty) /\ ShownOn(Nothing, empty)
    BY <1>2, BlankIs DEF NoColouredBlank, ShownOn
  <2> QED
    BY <1>1, <2>1, TurnIs DEF Clean
<1> QED
  BY <1>1, <1>3, <1>4, <1>5 DEF ScreenInv, Pending

LEMMA TokenWritten == ScreenInv /\ write_token => ScreenInv'
<1> SUFFICES ASSUME ScreenInv, write_token PROVE ScreenInv'
  OBVIOUS
<1>1. Turn' = Turn /\ writing' = writing /\ refresh_screen' = refresh_screen
  BY DEF write_token, Turn
<1>2. page = AsPage(Turn) /\ ansi_state = "NORMAL"
  <2>1. bytes = <<>>
    BY DEF write_token
  <2> QED
    BY <2>1, BytesToCome DEF ScreenInv, Pending, write_token, Hangs
<1>3. PICK tok \in Tokens : Sensible(page, tok) /\ bytes' = tok.bytes /\ page' = Described(page, tok)
  BY DEF write_token
<1>4. Turn.state = "NORMAL"
  BY <1>2, TurnIs
<1>5. AtStage(Turn, tok, tok.bytes)
  BY <1>4 DEF AtStage
<1>6. /\ Sensible(AsPage(Turn), tok) /\ page' = Described(AsPage(Turn), tok)
      /\ AtStage(Turn, tok, bytes')
  BY <1>2, <1>3, <1>5
<1>7. Pending'
  BY <1>1, <1>6 DEF Pending
<1> QED
  BY <1>1, <1>7 DEF ScreenInv

LEMMA ByteWritten == ScreenInv /\ framebuffer_console_write => ScreenInv'
<1> SUFFICES ASSUME ScreenInv, framebuffer_console_write PROVE ScreenInv'
  OBVIOUS
<1> DEFINE ch == Head(bytes)
           state == CASE ansi_state = "NORMAL" -> normal(Turn, ch)
                      [] ansi_state = "ESCAPE" -> escape_(Turn, ch)
                      [] ansi_state = "NUMBER" -> number(Turn, ch)
           u == IF Unknown(state) THEN state ELSE bounds(complete(state))
           v == Turn'
<1>1. /\ text_console' = u.text /\ console_x' = u.x /\ console_y' = u.y /\ color' = u.color
      /\ ansi_state' = u.state /\ numbers' = u.numbers /\ which_number' = u.which
      /\ refresh_screen' = u.refresh /\ drawn' = u.drawn
      /\ bytes' = Tail(bytes) /\ writing' = TRUE /\ page' = page
  BY DEF framebuffer_console_write
<1>2. bytes # <<>>
  BY DEF framebuffer_console_write
<1>3. u = Stepped(Turn, Head(bytes))
  <2>1. Turn.state = ansi_state
    BY TurnIs
  <2> HIDE DEF ch
  <2>2. Stepped(Turn, ch) = u
    BY <2>1 DEF Stepped, Switched
  <2> QED
    BY <2>2 DEF ch
<1> HIDE DEF u
<1>4. PICK tok \in Tokens :
        Sensible(AsPage(Turn), tok) /\ page = Described(AsPage(Turn), tok) /\ AtStage(Turn, tok, bytes)
  BY <1>2 DEF ScreenInv, Pending
<1>5. Continues(Turn, tok, bytes, u)
  BY <1>3, <1>4, NextByte DEF ScreenInv
<1>6. v = [text |-> u.text, x |-> u.x, y |-> u.y, color |-> u.color, state |-> u.state,
           numbers |-> u.numbers, which |-> u.which, refresh |-> u.refresh,
           drawn |-> u.drawn, command |-> 0]
  BY <1>1 DEF Turn
<1> HIDE DEF v
<1>7. Inside(u) /\ Clean(u) /\ u \in Turns
  BY <1>5 DEF Continues, Inside
<1>8. v \in Turns /\ SameScreen(v, u) /\ v.state = u.state /\ v.numbers = u.numbers /\ v.which = u.which
  BY <1>6, <1>7, SameTurn
<1>9. Inside(v) /\ Clean(v) /\ AsPage(v) = AsPage(u)
  BY <1>7, <1>8, ScreenKept
<1>10. \/ bytes' = <<>> /\ v.state \in {"NORMAL", "COMPLETE"} /\ page' = AsPage(v)
       \/ AsPage(v) = AsPage(Turn) /\ AtStage(v, tok, bytes')
  <2>1. \/ Tail(bytes) = <<>> /\ u.state \in {"NORMAL", "COMPLETE"} /\ AsPage(u) = Described(AsPage(Turn), tok)
        \/ AsPage(u) = AsPage(Turn) /\ AtStage(u, tok, Tail(bytes))
    BY <1>5 DEF Continues
  <2>2. AtStage(u, tok, Tail(bytes)) => AtStage(v, tok, Tail(bytes))
    BY <1>8, StageKept
  <2> QED
    BY <1>1, <1>4, <1>8, <1>9, <2>1, <2>2
<1>11. v.state = ansi_state'
  BY <1>1, <1>8
<1>12. Pending'
  <2>1. CASE bytes' = <<>> /\ v.state \in {"NORMAL", "COMPLETE"} /\ page' = AsPage(v)
    BY <1>11, <2>1 DEF Pending, v
  <2>2. CASE AsPage(v) = AsPage(Turn) /\ AtStage(v, tok, bytes')
    <3>1. Sensible(AsPage(v), tok) /\ page' = Described(AsPage(v), tok) /\ AtStage(v, tok, bytes')
      BY <1>1, <1>4, <2>2
    <3> QED
      BY <3>1 DEF Pending, v
  <2> QED
    BY <1>10, <2>1, <2>2
<1> QED
  BY <1>1, <1>9, <1>12 DEF ScreenInv, v

LEMMA CallDone == ScreenInv /\ write_done => ScreenInv'
<1> SUFFICES ASSUME ScreenInv, write_done PROVE ScreenInv'
  OBVIOUS
<1> DEFINE before == IF refresh_screen THEN Nothing ELSE drawn
           pushed == framebuffer_console_push(before)
           t == Turn
           v == Turn'
<1>1. /\ drawn' = pushed /\ refresh_screen' = FALSE /\ writing' = FALSE
      /\ UNCHANGED <<text_console, console_x, console_y, color, ansi_state, numbers,
                     which_number, bytes, page, tokens>>
  BY DEF write_done
<1>2. t \in Turns /\ t.text = text_console /\ t.refresh = refresh_screen /\ t.drawn = drawn
  BY TurnIs DEF ScreenInv, Inside
<1>3. NoColouredBlank(text_console) /\ text_console \in Texts /\ drawn \in Drawings /\ refresh_screen \in BOOLEAN
  BY <1>2, TurnTypes DEF ScreenInv, Clean
<1>4. before \in Drawings /\ ShownOn(before, text_console)
  <2>1. Nothing \in Drawings /\ ShownOn(Nothing, text_console)
    BY DEF Nothing, Drawings, ShownOn
  <2> QED
    BY <1>2, <1>3, <2>1 DEF ScreenInv, Clean
<1> HIDE DEF before
<1>5. pushed \in Drawings /\ ShownOn(pushed, text_console)
  <2>1. \A y \in Y, x \in X : text_console[y][x] \in Cells /\ before[y][x] \in SUBSET Cells
    BY <1>3, <1>4 DEF Texts, Row, Drawings
  <2>2. \A y \in Y, x \in X : pushed[y][x] =
          (LET cell == text_console[y][x] IN
           IF cell.back # 0 THEN {cell}
           ELSE IF cell.ch = 32 THEN before[y][x] ELSE before[y][x] \union {cell})
    BY DEF framebuffer_console_push
  <2>3. pushed \in Drawings
    BY <2>1 DEF framebuffer_console_push, Drawings
  <2> HIDE DEF pushed
  <2>4. ShownOn(pushed, text_console)
    <3> SUFFICES ASSUME NEW y \in Y, NEW x \in X
                 PROVE  /\ pushed[y][x] \subseteq {text_console[y][x]}
                        /\ text_console[y][x].ch = 32 => pushed[y][x] = {}
      BY DEF ShownOn
    <3> DEFINE cell == text_console[y][x]
               drw == before[y][x]
    <3>1. /\ drw \subseteq {cell} /\ (cell.ch = 32 => drw = {})
          /\ cell.ch = 32 => cell.back = 0
      BY <1>3, <1>4 DEF ShownOn, NoColouredBlank
    <3>2. pushed[y][x] = IF cell.back # 0 THEN {cell}
                         ELSE IF cell.ch = 32 THEN drw ELSE drw \union {cell}
      BY <2>2
    <3> HIDE DEF cell, drw
    <3>3. pushed[y][x] \subseteq {cell} /\ (cell.ch = 32 => pushed[y][x] = {})
      BY <3>1, <3>2
    <3> QED
      BY <3>3 DEF cell
  <2> QED
    BY <2>3, <2>4
<1> HIDE DEF pushed
<1>6. v = [text |-> t.text, x |-> t.x, y |-> t.y, color |-> t.color, state |-> t.state,
           numbers |-> t.numbers, which |-> t.which, refresh |-> FALSE, drawn |-> pushed, command |-> 0]
  BY <1>1, TurnIs DEF Turn
<1> HIDE DEF t, v
<1>7. /\ v.text = t.text /\ v.x = t.x /\ v.y = t.y /\ v.color = t.color /\ v.state = t.state
      /\ v.numbers = t.numbers /\ v.which = t.which /\ v.drawn = pushed /\ v.refresh = FALSE
  BY <1>6
<1>8. v \in Turns
  <2> DEFINE f == FALSE
             z == 0
  <2>1. f \in BOOLEAN /\ z \in Int
    OBVIOUS
  <2>2. v = [text |-> t.text, x |-> t.x, y |-> t.y, color |-> t.color, state |-> t.state,
             numbers |-> t.numbers, which |-> t.which, refresh |-> f, drawn |-> pushed, command |-> z]
    BY <1>6
  <2> HIDE DEF f, z
  <2>3. /\ t.text \in Texts /\ t.x \in Int /\ t.y \in Int /\ t.color \in ColorSet /\ t.state \in AnsiStates
        /\ t.numbers \in NumberSets /\ t.which \in Int
    BY <1>2, TurnTypes, MachineTypes
  <2> QED
    BY <1>5, <2>1, <2>2, <2>3 DEF Turns
<1>9. Inside(v)
  BY <1>7, <1>8 DEF ScreenInv, Inside, t
<1>10. Clean(v)
  BY <1>2, <1>3, <1>5, <1>7 DEF Clean
<1>11. AsPage(v) = AsPage(t)
  BY <1>7 DEF AsPage
<1>12. Pending'
  <2>1. CASE bytes = <<>> /\ ansi_state \in {"NORMAL", "COMPLETE"} /\ page = AsPage(Turn)
    BY <1>1, <1>11, <2>1 DEF Pending, v, t
  <2>2. CASE \E tok \in Tokens :
               Sensible(AsPage(Turn), tok) /\ page = Described(AsPage(Turn), tok) /\ AtStage(Turn, tok, bytes)
    <3>1. PICK tok \in Tokens : Sensible(AsPage(t), tok) /\ page = Described(AsPage(t), tok) /\ AtStage(t, tok, bytes)
      BY <2>2 DEF t
    <3>2. AtStage(v, tok, bytes)
      BY <1>7, <3>1, StageKept
    <3>3. Sensible(AsPage(v), tok) /\ page' = Described(AsPage(v), tok) /\ AtStage(v, tok, bytes')
      BY <1>1, <1>11, <3>1, <3>2
    <3> QED
      BY <3>3 DEF Pending, v
  <2> QED
    BY <2>1, <2>2 DEF ScreenInv, Pending
<1> QED
  BY <1>1, <1>9, <1>10, <1>12 DEF ScreenInv, v

LEMMA ScreenUnchanged == ScreenInv /\ UNCHANGED screen_vars => ScreenInv'
<1> SUFFICES ASSUME ScreenInv, UNCHANGED screen_vars PROVE ScreenInv'
  OBVIOUS
<1>1. Turn' = Turn /\ writing' = writing /\ refresh_screen' = refresh_screen /\ bytes' = bytes
      /\ ansi_state' = ansi_state /\ page' = page
  BY DEF screen_vars, Turn
<1>2. Pending'
  BY <1>1 DEF ScreenInv, Pending
<1> QED
  BY <1>1, <1>2 DEF ScreenInv

LEMMA ScreenInvRight == ScreenInv => ScreenRight
<1> SUFFICES ASSUME ScreenInv PROVE ScreenRight
  OBVIOUS
<1>1. TextRight
  <2> SUFFICES ASSUME bytes = <<>>
               PROVE  /\ <<console_x, console_y>> = <<page.x, page.y>> /\ color = page.color
                      /\ \A y \in Y : text_console[y] = page.rows[y + 1]
    BY DEF TextRight
  <2>1. page = AsPage(Turn)
    BY BytesToCome DEF ScreenInv, Pending
  <2>2. /\ page.x = console_x /\ page.y = console_y /\ page.color = color
        /\ \A y \in 1..CONSOLE_Y : page.rows[y] = text_console[y - 1]
    BY <2>1, PageIs, TurnIs DEF ScreenInv
  <2>3. \A y \in Y : y + 1 \in 1..CONSOLE_Y /\ (y + 1) - 1 = y
    BY SizesAre
  <2> QED
    BY <2>2, <2>3
<1>2. PixelsRight
  BY TurnIs DEF PixelsRight, ScreenInv, Clean, ShownOn
<1> QED
  BY <1>1, <1>2 DEF ScreenRight

\* framebuffer_console.c, framebuffer_console_write(): after every token the
\* text, the cursor and the colours are those of the page it describes, and
\* between calls nothing is left of what is gone: on every screen, with every
\* TAB, for any tokens cut into calls anywhere, up to a sequence that is not
\* known, with which the write never ends.
THEOREM ScreenIsRight == ScreenSpec => []ScreenRight
<1>1. ScreenInit => ScreenInv
  BY ScreenInitInv
<1>2. ScreenInv /\ [ScreenNext]_screen_vars => ScreenInv'
  BY TokenWritten, ByteWritten, CallDone, ScreenUnchanged DEF ScreenNext
<1>3. ScreenInv => ScreenRight
  BY ScreenInvRight
<1> QED
  BY <1>1, <1>2, <1>3, PTL DEF ScreenSpec

-----------------------------------------------------------------------------
(* Numerals                                                                *)

Upto(digits, base) ==
    CHOOSE upto : upto = [k \in 0..Len(digits) |->
        IF k = 0 THEN 0 ELSE upto[k - 1] * base + digits[k]]
ValueStep(base) == [x \in Nat |-> [d \in Nat |-> x * base + d]]

LEMMA ValueSteps ==
    ASSUME NEW base \in Nat
    PROVE  /\ Folder(Nat, Nat, ValueStep(base), 0)
           /\ \A x, d \in Nat : ValueStep(base)[x][d] = x * base + d
BY DEF Folder, ValueStep

LEMMA ValueIs ==
    ASSUME NEW base \in Nat, NEW s \in Seq(Nat)
    PROVE  Value(s, base) = Folded(Nat, ValueStep(base), 0, s)
<1> DEFINE F == ValueStep(base)
           Body(v, k) == v[k - 1] * base + s[k]
<1>1. Folder(Nat, Nat, F, 0) /\ \A x, d \in Nat : F[x][d] = x * base + d
  BY ValueSteps
<1>2. Len(s) \in Nat /\ \A k \in 1..Len(s) : s[k] \in Nat
  OBVIOUS
<1> HIDE DEF F
<1>3. PICK g : IsRun(Nat, F, 0, s, g)
  BY <1>1, RunExists
<1>4. g = [k \in 0..Len(s) |-> IF k = 0 THEN 0 ELSE Body(g, k)]
  <2>1. /\ g \in [0..Len(s) -> Nat] /\ g[0] = 0
        /\ \A k \in 1..Len(s) : g[k] = F[g[k - 1]][s[k]]
    BY <1>3 DEF IsRun
  <2>2. ASSUME NEW k \in 1..Len(s)
        PROVE  g[k] = Body(g, k)
    <3>1. k - 1 \in 0..Len(s)
      BY <1>2
    <3>2. g[k - 1] \in Nat /\ s[k] \in Nat
      BY <1>2, <2>1, <3>1
    <3> QED
      BY <1>1, <2>1, <3>2
  <2> HIDE DEF Body
  <2>3. \A k \in 0..Len(s) : g[k] = IF k = 0 THEN 0 ELSE Body(g, k)
    <3> TAKE k \in 0..Len(s)
    <3>1. k = 0 \/ k \in 1..Len(s)
      BY <1>2
    <3> QED
      BY <2>1, <2>2, <3>1
  <2> QED
    BY <2>1, <2>3
<1> DEFINE v == Upto(s, base)
<1>5. v = [k \in 0..Len(s) |-> IF k = 0 THEN 0 ELSE Body(v, k)]
  BY <1>4 DEF Upto
<1> HIDE DEF v
<1>6. v[0] = 0 /\ \A k \in 1..Len(s) : v[k] = Body(v, k)
  <2> HIDE DEF Body
  <2>1. \A k \in 0..Len(s) : v[k] = IF k = 0 THEN 0 ELSE Body(v, k)
    BY <1>5
  <2>2. 0 \in 0..Len(s) /\ \A k \in 1..Len(s) : k \in 0..Len(s) /\ k # 0
    BY <1>2
  <2> QED
    BY <2>1, <2>2
<1>7. Goes(Nat, F, 0, s, v)
  BY <1>1, <1>2, <1>6 DEF Goes
<1>8. v[Len(s)] = Folded(Nat, F, 0, s)
  BY <1>1, <1>7, FoldedIs
<1> QED
  BY <1>8 DEF v, F, Value, Upto

LEMMA ValueAppend ==
    ASSUME NEW base \in Nat
    PROVE  /\ Value(<<>>, base) = 0
           /\ \A s \in Seq(Nat), d \in Nat :
                /\ Value(s, base) \in Nat
                /\ Value(Append(s, d), base) = Value(s, base) * base + d
<1> DEFINE F == ValueStep(base)
<1>1. Folder(Nat, Nat, F, 0) /\ \A x, d \in Nat : F[x][d] = x * base + d
  BY ValueSteps
<1>2. \A s \in Seq(Nat) : Value(s, base) = Folded(Nat, F, 0, s)
  BY ValueIs
<1> HIDE DEF F
<1>3. Value(<<>>, base) = 0
  <2>1. <<>> \in Seq(Nat)
    OBVIOUS
  <2>2. Folded(Nat, F, 0, <<>>) = 0
    BY <1>1, FoldedBegins
  <2> QED
    BY <1>2, <2>1, <2>2
<1>4. ASSUME NEW s \in Seq(Nat), NEW d \in Nat
      PROVE  /\ Value(s, base) \in Nat
             /\ Value(Append(s, d), base) = Value(s, base) * base + d
  <2> DEFINE t == Append(s, d)
  <2>1. t \in Seq(Nat)
    OBVIOUS
  <2>2. Folded(Nat, F, 0, t) = F[Folded(Nat, F, 0, s)][d]
    <3> DEFINE A == Nat
    <3>1. Folder(A, Nat, F, 0) /\ s \in Seq(A) /\ d \in A
      BY <1>1
    <3> HIDE DEF A
    <3> QED
      BY <3>1, FoldedAppend
  <2>3. Folded(Nat, F, 0, s) \in Nat
    BY <1>1, FoldedType
  <2> HIDE DEF t
  <2>4. Value(t, base) = Value(s, base) * base + d
    BY <1>1, <1>2, <2>1, <2>2, <2>3
  <2> QED
    BY <1>2, <2>3, <2>4 DEF t
<1> QED
  BY <1>3, <1>4

-----------------------------------------------------------------------------
(* What the serial line gets *)

Sent(chars) ==
    CHOOSE out : out = [k \in 0..Len(chars) |->
        IF k = 0 THEN <<>>
        ELSE out[k - 1] \o (IF chars[k] = NEWLINE THEN <<RETURN, NEWLINE>> ELSE <<chars[k]>>)]
SentStep == [x \in Seq(Nat) |-> [c \in Nat |-> x \o (IF c = NEWLINE THEN <<RETURN, NEWLINE>> ELSE <<c>>)]]

LEMMA SentSteps ==
    /\ Folder(Nat, Seq(Nat), SentStep, <<>>)
    /\ \A x \in Seq(Nat), c \in Nat : SentStep[x][c] = x \o (IF c = NEWLINE THEN <<RETURN, NEWLINE>> ELSE <<c>>)
<1>1. <<>> \in Seq(Nat)
  OBVIOUS
<1>2. \A x \in Seq(Nat), c \in Nat : x \o (IF c = NEWLINE THEN <<RETURN, NEWLINE>> ELSE <<c>>) \in Seq(Nat)
  BY DEF RETURN, NEWLINE
<1> QED
  BY <1>1, <1>2 DEF Folder, SentStep

LEMMA SentIs ==
    ASSUME NEW s \in Seq(Nat)
    PROVE  serial_write(s) = Folded(Seq(Nat), SentStep, <<>>, s)
<1> DEFINE Q == Seq(Nat)
           F == SentStep
           G(x, c) == x \o (IF c = NEWLINE THEN <<RETURN, NEWLINE>> ELSE <<c>>)
           Body(v, k) == v[k - 1] \o (IF s[k] = NEWLINE THEN <<RETURN, NEWLINE>> ELSE <<s[k]>>)
<1>1. Folder(Nat, Q, F, <<>>) /\ \A x \in Q, c \in Nat : F[x][c] = G(x, c)
  BY SentSteps
<1>2. Len(s) \in Nat /\ \A k \in 1..Len(s) : s[k] \in Nat
  OBVIOUS
<1>0. \A v, k : Body(v, k) = G(v[k - 1], s[k])
  OBVIOUS
<1> HIDE DEF F, Q, G
<1>3. PICK g : IsRun(Q, F, <<>>, s, g)
  BY <1>1, RunExists
<1>4. g = [k \in 0..Len(s) |-> IF k = 0 THEN <<>> ELSE Body(g, k)]
  <2>1. /\ g \in [0..Len(s) -> Q] /\ g[0] = <<>>
        /\ \A k \in 1..Len(s) : g[k] = F[g[k - 1]][s[k]]
    BY <1>3 DEF IsRun
  <2> HIDE DEF Body
  <2>2. ASSUME NEW k \in 1..Len(s)
        PROVE  g[k] = Body(g, k)
    <3>1. k - 1 \in 0..Len(s)
      BY <1>2
    <3>2. g[k - 1] \in Q /\ s[k] \in Nat
      BY <1>2, <2>1, <3>1
    <3> QED
      BY <1>0, <1>1, <2>1, <3>2
  <2>3. \A k \in 0..Len(s) : g[k] = IF k = 0 THEN <<>> ELSE Body(g, k)
    <3> TAKE k \in 0..Len(s)
    <3>1. k = 0 \/ k \in 1..Len(s)
      BY <1>2
    <3> QED
      BY <2>1, <2>2, <3>1
  <2> QED
    BY <2>1, <2>3
<1> DEFINE v == Sent(s)
<1>5. v = [k \in 0..Len(s) |-> IF k = 0 THEN <<>> ELSE Body(v, k)]
  BY <1>4 DEF Sent
<1> HIDE DEF v, Body
<1>6. v[0] = <<>> /\ \A k \in 1..Len(s) : v[k] = Body(v, k)
  <2>1. \A k \in 0..Len(s) : v[k] = IF k = 0 THEN <<>> ELSE Body(v, k)
    BY <1>5
  <2>2. 0 \in 0..Len(s) /\ \A k \in 1..Len(s) : k \in 0..Len(s) /\ k # 0
    BY <1>2
  <2> QED
    BY <2>1, <2>2
<1>7. Goes(Q, F, <<>>, s, v)
  BY <1>0, <1>1, <1>2, <1>6 DEF Goes
<1>8. v[Len(s)] = Folded(Q, F, <<>>, s)
  BY <1>1, <1>7, FoldedIs
<1> QED
  BY <1>8 DEF v, F, Q, serial_write, Sent

LEMMA SentAppend ==
    /\ serial_write(<<>>) = <<>>
    /\ \A s \in Seq(Nat), d \in Nat :
         /\ serial_write(s) \in Seq(Nat)
         /\ serial_write(Append(s, d)) = serial_write(s) \o (IF d = NEWLINE THEN <<RETURN, NEWLINE>> ELSE << d >>)
<1> DEFINE Q == Seq(Nat)
           F == SentStep
           G(x, c) == x \o (IF c = NEWLINE THEN <<RETURN, NEWLINE>> ELSE <<c>>)
           A == Nat
<1>1. Folder(A, Q, F, <<>>) /\ \A x \in Q, c \in A : F[x][c] = G(x, c)
  BY SentSteps
<1>2. \A s \in Seq(A) : serial_write(s) = Folded(Q, F, <<>>, s)
  BY SentIs
<1>3. <<>> \in Seq(A)
  OBVIOUS
<1> HIDE DEF F, Q, G, A
<1>4. serial_write(<<>>) = <<>>
  <2>1. Folded(Q, F, <<>>, <<>>) = <<>>
    BY <1>1, FoldedBegins
  <2> QED
    BY <1>2, <1>3, <2>1
<1>5. ASSUME NEW s \in Seq(A), NEW d \in A
      PROVE  /\ serial_write(s) \in Q
             /\ serial_write(Append(s, d)) = G(serial_write(s), d)
  <2> DEFINE t == Append(s, d)
  <2>1. t \in Seq(A)
    OBVIOUS
  <2>2. Folded(Q, F, <<>>, t) = F[Folded(Q, F, <<>>, s)][d]
    BY <1>1, FoldedAppend
  <2>3. Folded(Q, F, <<>>, s) \in Q
    BY <1>1, FoldedType
  <2> HIDE DEF t
  <2>4. serial_write(t) = G(serial_write(s), d)
    BY <1>1, <1>2, <2>1, <2>2, <2>3
  <2> QED
    BY <1>2, <2>3, <2>4 DEF t
<1> QED
  BY <1>4, <1>5 DEF A, Q, G

-----------------------------------------------------------------------------
(* And without the returns *)

Kept(chars) ==
    CHOOSE kept : kept = [k \in 0..Len(chars) |->
        IF k = 0 THEN <<>>
        ELSE IF chars[k] = RETURN THEN kept[k - 1] ELSE Append(kept[k - 1], chars[k])]
KeptStep == [x \in Seq(Nat) |-> [c \in Nat |-> (IF c = RETURN THEN x ELSE Append(x, c))]]

LEMMA KeptSteps ==
    /\ Folder(Nat, Seq(Nat), KeptStep, <<>>)
    /\ \A x \in Seq(Nat), c \in Nat : KeptStep[x][c] = (IF c = RETURN THEN x ELSE Append(x, c))
<1>1. <<>> \in Seq(Nat)
  OBVIOUS
<1>2. \A x \in Seq(Nat), c \in Nat : (IF c = RETURN THEN x ELSE Append(x, c)) \in Seq(Nat)
  BY DEF RETURN, NEWLINE
<1> QED
  BY <1>1, <1>2 DEF Folder, KeptStep

LEMMA KeptIs ==
    ASSUME NEW s \in Seq(Nat)
    PROVE  Unreturned(s) = Folded(Seq(Nat), KeptStep, <<>>, s)
<1> DEFINE Q == Seq(Nat)
           F == KeptStep
           G(x, c) == (IF c = RETURN THEN x ELSE Append(x, c))
           Body(v, k) == (IF s[k] = RETURN THEN v[k - 1] ELSE Append(v[k - 1], s[k]))
<1>1. Folder(Nat, Q, F, <<>>) /\ \A x \in Q, c \in Nat : F[x][c] = G(x, c)
  BY KeptSteps
<1>2. Len(s) \in Nat /\ \A k \in 1..Len(s) : s[k] \in Nat
  OBVIOUS
<1>0. \A v, k : Body(v, k) = G(v[k - 1], s[k])
  OBVIOUS
<1> HIDE DEF F, Q, G
<1>3. PICK g : IsRun(Q, F, <<>>, s, g)
  BY <1>1, RunExists
<1>4. g = [k \in 0..Len(s) |-> IF k = 0 THEN <<>> ELSE Body(g, k)]
  <2>1. /\ g \in [0..Len(s) -> Q] /\ g[0] = <<>>
        /\ \A k \in 1..Len(s) : g[k] = F[g[k - 1]][s[k]]
    BY <1>3 DEF IsRun
  <2> HIDE DEF Body
  <2>2. ASSUME NEW k \in 1..Len(s)
        PROVE  g[k] = Body(g, k)
    <3>1. k - 1 \in 0..Len(s)
      BY <1>2
    <3>2. g[k - 1] \in Q /\ s[k] \in Nat
      BY <1>2, <2>1, <3>1
    <3> QED
      BY <1>0, <1>1, <2>1, <3>2
  <2>3. \A k \in 0..Len(s) : g[k] = IF k = 0 THEN <<>> ELSE Body(g, k)
    <3> TAKE k \in 0..Len(s)
    <3>1. k = 0 \/ k \in 1..Len(s)
      BY <1>2
    <3> QED
      BY <2>1, <2>2, <3>1
  <2> QED
    BY <2>1, <2>3
<1> DEFINE v == Kept(s)
<1>5. v = [k \in 0..Len(s) |-> IF k = 0 THEN <<>> ELSE Body(v, k)]
  BY <1>4 DEF Kept
<1> HIDE DEF v, Body
<1>6. v[0] = <<>> /\ \A k \in 1..Len(s) : v[k] = Body(v, k)
  <2>1. \A k \in 0..Len(s) : v[k] = IF k = 0 THEN <<>> ELSE Body(v, k)
    BY <1>5
  <2>2. 0 \in 0..Len(s) /\ \A k \in 1..Len(s) : k \in 0..Len(s) /\ k # 0
    BY <1>2
  <2> QED
    BY <2>1, <2>2
<1>7. Goes(Q, F, <<>>, s, v)
  BY <1>0, <1>1, <1>2, <1>6 DEF Goes
<1>8. v[Len(s)] = Folded(Q, F, <<>>, s)
  BY <1>1, <1>7, FoldedIs
<1> QED
  BY <1>8 DEF v, F, Q, Unreturned, Kept

LEMMA KeptAppend ==
    /\ Unreturned(<<>>) = <<>>
    /\ \A s \in Seq(Nat), d \in Nat :
         /\ Unreturned(s) \in Seq(Nat)
         /\ Unreturned(Append(s, d)) = (IF d = RETURN THEN Unreturned(s) ELSE Append(Unreturned(s), d))
<1> DEFINE Q == Seq(Nat)
           F == KeptStep
           G(x, c) == (IF c = RETURN THEN x ELSE Append(x, c))
           A == Nat
<1>1. Folder(A, Q, F, <<>>) /\ \A x \in Q, c \in A : F[x][c] = G(x, c)
  BY KeptSteps
<1>2. \A s \in Seq(A) : Unreturned(s) = Folded(Q, F, <<>>, s)
  BY KeptIs
<1>3. <<>> \in Seq(A)
  OBVIOUS
<1> HIDE DEF F, Q, G, A
<1>4. Unreturned(<<>>) = <<>>
  <2>1. Folded(Q, F, <<>>, <<>>) = <<>>
    BY <1>1, FoldedBegins
  <2> QED
    BY <1>2, <1>3, <2>1
<1>5. ASSUME NEW s \in Seq(A), NEW d \in A
      PROVE  /\ Unreturned(s) \in Q
             /\ Unreturned(Append(s, d)) = G(Unreturned(s), d)
  <2> DEFINE t == Append(s, d)
  <2>1. t \in Seq(A)
    OBVIOUS
  <2>2. Folded(Q, F, <<>>, t) = F[Folded(Q, F, <<>>, s)][d]
    BY <1>1, FoldedAppend
  <2>3. Folded(Q, F, <<>>, s) \in Q
    BY <1>1, FoldedType
  <2> HIDE DEF t
  <2>4. Unreturned(t) = G(Unreturned(s), d)
    BY <1>1, <1>2, <2>1, <2>2, <2>3
  <2> QED
    BY <1>2, <2>3, <2>4 DEF t
<1> QED
  BY <1>4, <1>5 DEF A, Q, G

\* A return before each newline, and no other.
Returned(w) ==
    /\ \A i \in 1..Len(w) : w[i] = NEWLINE <=> i > 1 /\ w[i - 1] = RETURN
    /\ w # <<>> => w[Len(w)] # RETURN

Unreturning(s) == \A i \in 1..Len(s) : s[i] # RETURN

LEMMA ReturnedAppend ==
    ASSUME NEW w \in Seq(Nat), NEW d \in Nat, Returned(w), d # RETURN
    PROVE  IF d = NEWLINE THEN Returned(Append(Append(w, RETURN), NEWLINE)) ELSE Returned(Append(w, d))
<1>1. Len(w) \in Nat /\ \A i \in 1..Len(w) : w[i] \in Nat
  OBVIOUS
<1>2. NEWLINE \in Nat /\ RETURN \in Nat /\ NEWLINE # RETURN
  BY DEF NEWLINE, RETURN
<1> HIDE DEF Returned
<1>3. CASE d = NEWLINE
  <2> DEFINE u == Append(w, RETURN)
             t == Append(u, NEWLINE)
  <2>1. u \in Seq(Nat) /\ Len(u) = Len(w) + 1 /\ u[Len(w) + 1] = RETURN /\ \A i \in 1..Len(w) : u[i] = w[i]
    BY <1>2
  <2> HIDE DEF u
  <2>2. t \in Seq(Nat) /\ Len(t) = Len(u) + 1 /\ t[Len(u) + 1] = NEWLINE /\ \A i \in 1..Len(u) : t[i] = u[i]
    BY <1>2, <2>1
  <2> HIDE DEF t
  <2>3. /\ Len(t) = Len(w) + 2 /\ t[Len(w) + 2] = NEWLINE /\ t[Len(w) + 1] = RETURN
        /\ \A i \in 1..Len(w) : t[i] = w[i]
    <3>1. Len(t) = Len(w) + 2 /\ t[Len(w) + 2] = NEWLINE
      <4>1. Len(u) + 1 = Len(w) + 2
        BY <1>1, <2>1
      <4> QED
        BY <2>1, <2>2, <4>1
    <3>2. Len(w) + 1 \in 1..Len(u) /\ \A i \in 1..Len(w) : i \in 1..Len(u)
      BY <1>1, <2>1
    <3> QED
      BY <2>1, <2>2, <3>1, <3>2
  <2>4. ASSUME NEW i \in 1..Len(t)
        PROVE  t[i] = NEWLINE <=> i > 1 /\ t[i - 1] = RETURN
    <3>1. CASE i \in 1..Len(w)
      <4>3. \A j \in 1..Len(w) : t[j] = w[j]
        BY <2>3
      <4>4. i > 1 => i - 1 \in 1..Len(w)
        BY <1>1, <3>1
      <4>1. t[i] = w[i] /\ (i > 1 => t[i - 1] = w[i - 1])
        BY <3>1, <4>3, <4>4
      <4>2. w[i] = NEWLINE <=> i > 1 /\ w[i - 1] = RETURN
        BY <3>1 DEF Returned
      <4> QED
        BY <4>1, <4>2
    <3>2. CASE i = Len(w) + 1
      <4>1. i > 1 => Len(w) > 0 /\ t[i - 1] = w[Len(w)] /\ w # <<>>
        BY <1>1, <2>3, <3>2
      <4> QED
        BY <1>2, <2>3, <3>2, <4>1 DEF Returned
    <3>3. CASE i = Len(w) + 2
      <4>1. i > 1 /\ t[i - 1] = RETURN
        BY <1>1, <2>3, <3>3
      <4> QED
        BY <2>3, <3>3, <4>1
    <3> QED
      BY <1>1, <2>3, <3>1, <3>2, <3>3
  <2>5. t[Len(t)] # RETURN
    BY <1>1, <1>2, <2>3
  <2>6. Returned(t)
    BY <2>4, <2>5 DEF Returned
  <2> QED
    BY <1>3, <2>6 DEF t, u
<1>4. CASE d # NEWLINE
  <2> DEFINE t == Append(w, d)
  <2>1. t \in Seq(Nat) /\ Len(t) = Len(w) + 1 /\ t[Len(w) + 1] = d /\ \A i \in 1..Len(w) : t[i] = w[i]
    OBVIOUS
  <2> HIDE DEF t
  <2>2. ASSUME NEW i \in 1..Len(t)
        PROVE  t[i] = NEWLINE <=> i > 1 /\ t[i - 1] = RETURN
    <3>1. CASE i \in 1..Len(w)
      <4>3. \A j \in 1..Len(w) : t[j] = w[j]
        BY <2>1
      <4>4. i > 1 => i - 1 \in 1..Len(w)
        BY <1>1, <3>1
      <4>1. t[i] = w[i] /\ (i > 1 => t[i - 1] = w[i - 1])
        BY <3>1, <4>3, <4>4
      <4>2. w[i] = NEWLINE <=> i > 1 /\ w[i - 1] = RETURN
        BY <3>1 DEF Returned
      <4> QED
        BY <4>1, <4>2
    <3>2. CASE i = Len(w) + 1
      <4>1. i > 1 => Len(w) > 0 /\ t[i - 1] = w[Len(w)] /\ w # <<>>
        BY <1>1, <2>1, <3>2
      <4> QED
        BY <1>4, <2>1, <3>2, <4>1 DEF Returned
    <3> QED
      BY <1>1, <2>1, <3>1, <3>2
  <2>3. t[Len(t)] # RETURN
    BY <1>1, <2>1
  <2>4. Returned(t)
    BY <2>2, <2>3 DEF Returned
  <2> QED
    BY <1>4, <2>4 DEF t
<1> QED
  BY <1>3, <1>4

LEMMA SentRight ==
    \A s \in Seq(Nat) : Unreturning(s) =>
       /\ serial_write(s) \in Seq(Nat)
       /\ Unreturned(serial_write(s)) = s
       /\ Returned(serial_write(s))
<1> DEFINE Fine(s) == /\ serial_write(s) \in Seq(Nat)
                      /\ Unreturned(serial_write(s)) = s
                      /\ Returned(serial_write(s))
           S == {s \in Seq(Nat) : Unreturning(s) => Fine(s)}
<1>1. <<>> \in S
  <2>1. serial_write(<<>>) = <<>> /\ Unreturned(<<>>) = <<>>
    BY SentAppend, KeptAppend
  <2>2. <<>> \in Seq(Nat) /\ Returned(<<>>)
    BY DEF Returned
  <2> QED
    BY <2>1, <2>2
<1>2. ASSUME NEW s \in Seq(Nat), NEW d \in Nat, s \in S
      PROVE  Append(s, d) \in S
  <2> DEFINE t == Append(s, d)
  <2>1. t \in Seq(Nat) /\ Len(t) = Len(s) + 1 /\ t[Len(s) + 1] = d /\ \A i \in 1..Len(s) : t[i] = s[i]
    OBVIOUS
  <2>2. serial_write(t) = serial_write(s) \o (IF d = NEWLINE THEN <<RETURN, NEWLINE>> ELSE << d >>)
    BY SentAppend
  <2> SUFFICES ASSUME Unreturning(t)
               PROVE  Fine(t)
    BY <2>1
  <2> HIDE DEF t
  <2>3. Len(s) \in Nat
    OBVIOUS
  <2>4. d # RETURN /\ Unreturning(s)
    BY <2>1, <2>3 DEF Unreturning
  <2> DEFINE w == serial_write(s)
             u == Append(w, RETURN)
  <2>5. w \in Seq(Nat) /\ Unreturned(w) = s /\ Returned(w)
    BY <1>2, <2>4
  <2>6. NEWLINE \in Nat /\ RETURN \in Nat /\ NEWLINE # RETURN
    BY DEF NEWLINE, RETURN
  <2> HIDE DEF w, Fine
  <2>7. u \in Seq(Nat)
    BY <2>5, <2>6
  <2>8. CASE d = NEWLINE
    <3>1. serial_write(t) = Append(u, NEWLINE)
      <4>1. serial_write(t) = w \o <<RETURN, NEWLINE>>
        BY <2>2, <2>8 DEF w
      <4> QED
        BY <2>5, <2>6, <4>1
    <3>2. Unreturned(u) = Unreturned(w)
      BY <2>5, <2>6, KeptAppend
    <3> HIDE DEF u
    <3>3. Unreturned(Append(u, NEWLINE)) = Append(s, NEWLINE)
      BY <2>5, <2>6, <2>7, <3>2, KeptAppend
    <3>4. Returned(Append(u, NEWLINE))
      BY <2>4, <2>5, <2>8, ReturnedAppend DEF u
    <3>5. Append(u, NEWLINE) \in Seq(Nat)
      BY <2>6, <2>7
    <3> QED
      BY <2>8, <3>1, <3>3, <3>4, <3>5 DEF Fine, t
  <2>9. CASE d # NEWLINE
    <3>1. serial_write(t) = Append(w, d)
      <4>1. serial_write(t) = w \o << d >>
        BY <2>2, <2>9 DEF w
      <4> QED
        BY <2>5, <4>1
    <3>2. Unreturned(Append(w, d)) = Append(s, d)
      BY <2>4, <2>5, KeptAppend
    <3>3. Returned(Append(w, d))
      BY <2>4, <2>5, <2>9, ReturnedAppend
    <3>4. Append(w, d) \in Seq(Nat)
      BY <2>5
    <3> QED
      BY <3>1, <3>2, <3>3, <3>4 DEF Fine, t
  <2> QED
    BY <2>8, <2>9
<1>3. Seq(Nat) \subseteq S
  <2> HIDE DEF S
  <2> QED
    BY <1>1, <1>2, AppendInduction
<1> QED
  BY <1>3

-----------------------------------------------------------------------------
(* The last digit and what is before it                                    *)

LEMMA Dividing ==
    ASSUME NEW base \in Nat, base >= 2, NEW n \in Nat
    PROVE  /\ (n \div base) \in Nat /\ (n % base) \in 0..(base - 1)
           /\ n = (n \div base) * base + (n % base)
           /\ (n \div base) <= n /\ (n # 0 => (n \div base) < n)
<1> DEFINE q == (n \div base)
           r == (n % base)
<1>1. q \in Int /\ r \in 0..(base - 1) /\ n = base * q + r
  OBVIOUS
<1> HIDE DEF q, r
<1> DEFINE bq == base * q
<1>2. bq \in Int /\ r \in Int /\ n = bq + r /\ r >= 0 /\ r < base
  BY <1>1
<1>3. q >= 0
  <2> SUFFICES ASSUME q <= -1
               PROVE  FALSE
    BY <1>1
  <2>1. bq <= 0 - base
    <3>1. base * q <= base * (-1)
      BY <1>1
    <3>2. base * (-1) = 0 - base
      OBVIOUS
    <3> QED
      BY <3>1, <3>2
  <2> HIDE DEF bq
  <2> QED
    BY <1>2, <2>1
<1>4. 2 * q <= bq
  BY <1>1, <1>3
<1>5. bq = q * base
  BY <1>1
<1> HIDE DEF bq
<1>6. q <= n /\ (n # 0 => q < n)
  BY <1>1, <1>2, <1>3, <1>4
<1> QED
  BY <1>1, <1>2, <1>3, <1>5, <1>6 DEF q, r

LEMMA Divided ==
    ASSUME NEW base \in Nat, base >= 2, NEW n \in Nat, NEW v \in Nat, NEW d \in 0..(base - 1), n = v * base + d
    PROVE  v = (n \div base) /\ d = (n % base)
<1> DEFINE q == (n \div base)
           r == (n % base)
<1>1. q \in Nat /\ r \in 0..(base - 1) /\ n = q * base + r
  BY Dividing
<1> HIDE DEF q, r
<1>2. ASSUME v < q PROVE FALSE
  <2>1. (v + 1) * base <= q * base
    BY <1>1, <1>2
  <2>2. (v + 1) * base = v * base + base
    OBVIOUS
  <2> DEFINE vb == v * base
             qb == q * base
  <2>3. vb \in Nat /\ qb \in Nat /\ vb + base <= qb /\ n = vb + d /\ n = qb + r
    BY <1>1, <2>1, <2>2
  <2> HIDE DEF vb, qb
  <2> QED
    BY <1>1, <2>3
<1>3. ASSUME q < v PROVE FALSE
  <2>1. (q + 1) * base <= v * base
    BY <1>1, <1>3
  <2>2. (q + 1) * base = q * base + base
    BY <1>1
  <2> DEFINE vb == v * base
             qb == q * base
  <2>3. vb \in Nat /\ qb \in Nat /\ qb + base <= vb /\ n = vb + d /\ n = qb + r
    BY <1>1, <2>1, <2>2
  <2> HIDE DEF vb, qb
  <2> QED
    BY <1>1, <2>3
<1>4. v = q
  BY <1>1, <1>2, <1>3
<1>5. d = r
  <2> DEFINE qb == q * base
  <2>1. qb \in Nat /\ n = qb + d /\ n = qb + r
    BY <1>1, <1>4
  <2> HIDE DEF qb
  <2> QED
    BY <1>1, <2>1
<1> QED
  BY <1>4, <1>5 DEF q, r

DigitSet(base) == 0..(base - 1)

\* A numeral that does not begin with 0 is not 0.
LEMMA Positive ==
    ASSUME NEW base \in Nat, base >= 2
    PROVE  \A s \in Seq(Nat) : s # <<>> /\ s[1] # 0 => Value(s, base) >= 1
<1> DEFINE S == {s \in Seq(Nat) : s # <<>> /\ s[1] # 0 => Value(s, base) >= 1}
<1>1. <<>> \in S
  OBVIOUS
<1>2. ASSUME NEW s \in Seq(Nat), NEW d \in Nat, s \in S
      PROVE  Append(s, d) \in S
  <2> DEFINE t == Append(s, d)
  <2>1. t \in Seq(Nat) /\ (s = <<>> => t[1] = d) /\ (s # <<>> => t[1] = s[1])
    OBVIOUS
  <2>2. Value(s, base) \in Nat /\ Value(t, base) = Value(s, base) * base + d
    BY ValueAppend
  <2>3. Value(<<>>, base) = 0
    BY ValueAppend
  <2> HIDE DEF t
  <2> SUFFICES ASSUME t[1] # 0
               PROVE  Value(t, base) >= 1
    BY <2>1 DEF t
  <2> DEFINE v == Value(s, base)
             w == Value(t, base)
  <2>6. v \in Nat /\ w = v * base + d /\ (s = <<>> => v = 0)
    BY <2>2, <2>3
  <2>7. s # <<>> => v >= 1
    BY <1>2, <2>1
  <2> HIDE DEF v
  <2>8. w >= 1
    <3> HIDE DEF w
    <3>4. CASE s = <<>>
      <4>1. d >= 1
        BY <2>1, <3>4
      <4>2. v * base = 0
        BY <2>6, <3>4
      <4> QED
        BY <2>6, <4>1, <4>2
    <3>5. CASE s # <<>>
      <4>1. v * base >= base
        BY <2>6, <2>7, <3>5
      <4> DEFINE vb == v * base
      <4>2. vb \in Nat /\ vb >= base /\ w = vb + d
        BY <2>6, <4>1
      <4> HIDE DEF vb
      <4> QED
        BY <4>2
    <3> QED
      BY <3>4, <3>5
  <2> QED
    BY <2>8
<1>3. Seq(Nat) \subseteq S
  <2> HIDE DEF S
  <2> QED
    BY <1>1, <1>2, AppendInduction
<1> QED
  BY <1>3

\* A numeral of n: digits, at least one.
Spells(s, n, base) == s \in Seq(DigitSet(base)) /\ s # <<>> /\ IsNumeral(s, n, base)

LEMMA SpellsParts ==
    ASSUME NEW base \in Nat, base >= 2, NEW n \in Nat, NEW s, Spells(s, n, base)
    PROVE  /\ (n \div base) = 0 => s = << (n % base) >>
           /\ (n \div base) # 0 => \E r : Spells(r, (n \div base), base) /\ s = Append(r, (n % base))
<1>1. s \in Seq(DigitSet(base)) /\ s # <<>> /\ Value(s, base) = n /\ (Len(s) > 1 => s[1] # 0)
  BY DEF Spells, IsNumeral
<1>2. PICK r \in Seq(DigitSet(base)), a \in DigitSet(base) : s = Append(r, a)
  BY <1>1, LastFacts
<1>3. r \in Seq(Nat) /\ a \in Nat /\ a \in 0..(base - 1)
  BY DEF DigitSet
<1> DEFINE v == Value(r, base)
<1>4. v \in Nat /\ Value(s, base) = v * base + a
  BY <1>2, <1>3, ValueAppend
<1>5. v = (n \div base) /\ a = (n % base)
  <2> HIDE DEF v
  <2>1. n = v * base + a
    BY <1>1, <1>4
  <2> QED
    BY <1>3, <1>4, <2>1, Divided
<1>6. CASE r = <<>>
  <2>1. v = 0
    BY <1>6, ValueAppend
  <2>2. s = << a >>
    BY <1>2, <1>6
  <2> QED
    BY <1>5, <2>1, <2>2
<1>7. CASE r # <<>>
  <2>1. Len(s) > 1 /\ s[1] = r[1]
    BY <1>2, <1>3, <1>7
  <2>2. v >= 1
    BY <1>1, <1>3, <1>7, <2>1, Positive
  <2>3. Spells(r, (n \div base), base)
    <3>1. r[1] # 0 /\ Value(r, base) = (n \div base)
      BY <1>1, <1>5, <2>1
    <3> QED
      BY <1>7, <3>1 DEF Spells, IsNumeral
  <2>4. s = Append(r, (n % base)) /\ (n \div base) # 0
    BY <1>2, <1>4, <1>5, <2>2
  <2> QED
    BY <2>3, <2>4
<1> QED
  BY <1>6, <1>7

LEMMA SpellsOne ==
    ASSUME NEW base \in Nat, base >= 2
    PROVE  \A n \in Nat : \A s, t : Spells(s, n, base) /\ Spells(t, n, base) => s = t
<1> DEFINE S == {n \in Nat : \A s, t : Spells(s, n, base) /\ Spells(t, n, base) => s = t}
<1>1. \A n \in Nat : (\A m \in Nat : m < n => m \in S) => n \in S
  <2> SUFFICES ASSUME NEW n \in Nat, \A m \in Nat : m < n => m \in S,
                      NEW s, NEW t, Spells(s, n, base), Spells(t, n, base)
               PROVE  s = t
    OBVIOUS
  <2> DEFINE q == (n \div base)
             e == (n % base)
  <2>1. q \in Nat /\ (n # 0 => q < n) /\ q <= n
    BY Dividing
  <2>2. /\ q = 0 => s = << e >>
        /\ q # 0 => \E r : Spells(r, q, base) /\ s = Append(r, e)
    BY SpellsParts
  <2>3. /\ q = 0 => t = << e >>
        /\ q # 0 => \E r : Spells(r, q, base) /\ t = Append(r, e)
    BY SpellsParts
  <2> HIDE DEF q, e
  <2>4. CASE q = 0
    BY <2>2, <2>3, <2>4
  <2>5. CASE q # 0
    <3>1. PICK x : Spells(x, q, base) /\ s = Append(x, e)
      BY <2>2, <2>5
    <3>2. PICK y : Spells(y, q, base) /\ t = Append(y, e)
      BY <2>3, <2>5
    <3>3. q \in S
      BY <2>1, <2>5
    <3>4. x = y
      BY <3>1, <3>2, <3>3
    <3> QED
      BY <3>1, <3>2, <3>4
  <2> QED
    BY <2>4, <2>5
<1>2. Nat \subseteq S
  <2> HIDE DEF S
  <2> QED
    BY <1>1, CourseOfValues
<1> QED
  BY <1>2

-----------------------------------------------------------------------------
(* The do-while loop makes the numeral                                     *)

ShownAll(digits) == [i \in DOMAIN digits |-> Shown(digits[i])]

LEMMA ShownAppend ==
    ASSUME NEW base \in Nat, NEW r \in Seq(DigitSet(base)), NEW a \in DigitSet(base)
    PROVE  /\ ShownAll(Append(r, a)) = Append(ShownAll(r), Shown(a))
           /\ ShownAll(<< a >>) = << Shown(a) >>
<1>1. Len(r) \in Nat /\ a \in Nat /\ \A i \in 1..Len(r) : r[i] \in Nat
  BY DEF DigitSet
<1>2. \A x \in Nat : Shown(x) \in Int
  BY DEF Shown, ZERO, LETTER
<1>3. ShownAll(Append(r, a)) = Append(ShownAll(r), Shown(a))
  <2> DEFINE t == Append(r, a)
             u == ShownAll(r)
             w == ShownAll(t)
             x == Append(u, Shown(a))
  <2>1. t \in Seq(DigitSet(base)) /\ Len(t) = Len(r) + 1 /\ t[Len(r) + 1] = a /\ \A i \in 1..Len(r) : t[i] = r[i]
    BY AppendFacts
  <2> HIDE DEF t
  <2>2. w \in [1..(Len(r) + 1) -> Int] /\ w[Len(r) + 1] = Shown(a) /\ \A i \in 1..Len(r) : w[i] = Shown(r[i])
    <3>1. DOMAIN t = 1..(Len(r) + 1)
      BY <2>1
    <3>2. w = [i \in 1..(Len(r) + 1) |-> Shown(t[i])]
      BY <3>1 DEF ShownAll
    <3>3. \A i \in 1..(Len(r) + 1) : t[i] \in Nat
      BY <1>1, <2>1, <3>1
    <3> QED
      BY <1>1, <1>2, <2>1, <3>2, <3>3
  <2>3. u \in [1..Len(r) -> Int] /\ \A i \in 1..Len(r) : u[i] = Shown(r[i])
    <3>1. u = [i \in 1..Len(r) |-> Shown(r[i])]
      BY DEF ShownAll
    <3> QED
      BY <1>1, <1>2, <3>1
  <2> HIDE DEF u, w
  <2>4. u \in Seq(Int) /\ Len(u) = Len(r) /\ Shown(a) \in Int
    BY <1>1, <1>2, <2>3, SequenceOf
  <2>5. x \in Seq(Int) /\ Len(x) = Len(r) + 1 /\ x[Len(r) + 1] = Shown(a) /\ \A i \in 1..Len(r) : x[i] = u[i]
    BY <1>1, <2>4
  <2> HIDE DEF x
  <2>6. x \in [1..(Len(r) + 1) -> Int]
    BY <1>1, <2>5
  <2>7. ASSUME NEW i \in 1..(Len(r) + 1)
        PROVE  x[i] = w[i]
    <3>1. CASE i \in 1..Len(r)
      <4>1. x[i] = u[i]
        BY <2>5, <3>1
      <4>2. u[i] = Shown(r[i])
        BY <2>3, <3>1
      <4>3. w[i] = Shown(r[i])
        BY <2>2, <3>1
      <4> QED
        BY <4>1, <4>2, <4>3
    <3>2. CASE i = Len(r) + 1
      BY <2>2, <2>5, <3>2
    <3>3. i \in 1..Len(r) \/ i = Len(r) + 1
      BY <1>1
    <3> QED
      BY <3>1, <3>2, <3>3
  <2>8. x = w
    BY <2>2, <2>6, <2>7
  <2> QED
    BY <2>8 DEF x, w, u, t
<1>4. ShownAll(<< a >>) = << Shown(a) >>
  BY DEF ShownAll
<1> QED
  BY <1>3, <1>4

LEMMA NumeralSpells ==
    ASSUME NEW base \in Bases, NEW n \in 0..(VALUES - 1)
    PROVE  /\ Spells(Numeral[base][n], n, base)
           /\ base \in Nat /\ base >= 2
<1>1. base \in Nat /\ base >= 2
  BY FormatAssumption
<1>2. \E digits \in Strings(base) : IsNumeral(digits, n, base)
  BY DigitsAssumption
<1> DEFINE s == Numeral[base][n]
<1>3. s = CHOOSE digits \in Strings(base) : IsNumeral(digits, n, base)
  BY DEF Numeral
<1>4. s \in Strings(base) /\ IsNumeral(s, n, base)
  BY <1>2, <1>3
<1> HIDE DEF s
<1>5. PICK k \in 1..DIGITS : s \in [1..k -> 0..(base - 1)]
  BY <1>4 DEF Strings
<1>6. k \in Nat /\ k >= 1
  BY FormatAssumption, <1>5
<1>7. s \in Seq(0..(base - 1)) /\ s # <<>>
  <2>1. s \in Seq(0..(base - 1)) /\ Len(s) = k
    BY <1>5, <1>6, SequenceOf
  <2> QED
    BY <1>6, <2>1
<1> QED
  BY <1>1, <1>4, <1>7 DEF Spells, DigitSet, s

\* The equation that defines Converted.
Converts(f, base) ==
    f = [n \in 0..(VALUES - 1) |->
            IF (n \div base) = 0 THEN << Shown(n % base) >>
            ELSE Append(f[n \div base], Shown(n % base))]

Numbered(base) == [n \in 0..(VALUES - 1) |-> ShownAll(Numeral[base][n])]

LEMMA NumberedConverts ==
    ASSUME NEW base \in Bases
    PROVE  Converts(Numbered(base), base)
<1>0. base \in Nat /\ base >= 2
  BY FormatAssumption
<1> DEFINE g == Numbered(base)
           N == 0..(VALUES - 1)
           B(n) == IF (n \div base) = 0 THEN << Shown(n % base) >>
                   ELSE Append(g[n \div base], Shown(n % base))
<1>1. \A n \in N : g[n] = ShownAll(Numeral[base][n])
  BY DEF Numbered
<1>2. g = [n \in N |-> g[n]]
  BY DEF Numbered
<1> HIDE DEF g
<1>3. ASSUME NEW n \in N
      PROVE  g[n] = B(n)
  <2> DEFINE q == (n \div base)
             e == (n % base)
             s == Numeral[base][n]
  <2>1. n \in Nat /\ n <= VALUES - 1
    BY FormatAssumption
  <2>2. q \in Nat /\ q <= n /\ e \in 0..(base - 1)
    BY <1>0, <2>1, Dividing
  <2>3. Spells(s, n, base)
    BY NumeralSpells
  <2>4. /\ q = 0 => s = << e >>
        /\ q # 0 => \E r : Spells(r, q, base) /\ s = Append(r, e)
    <3> HIDE DEF s
    <3> QED
      BY <1>0, <2>1, <2>3, SpellsParts
  <2>5. B(n) = IF q = 0 THEN << Shown(e) >> ELSE Append(g[q], Shown(e))
    OBVIOUS
  <2>6. q \in N
    BY <2>1, <2>2, FormatAssumption
  <2>7. g[n] = ShownAll(s)
    BY <1>1
  <2>8. e \in DigitSet(base)
    BY <2>2 DEF DigitSet
  <2> HIDE DEF B, N, q, e, s
  <2>9. CASE q = 0
    <3>1. ShownAll(<< e >>) = << Shown(e) >>
      <4>1. <<>> \in Seq(DigitSet(base))
        OBVIOUS
      <4> QED
        BY <1>0, <2>8, <4>1, ShownAppend
    <3> QED
      BY <2>4, <2>5, <2>7, <2>9, <3>1
  <2>10. CASE q # 0
    <3>1. PICK r : Spells(r, q, base) /\ s = Append(r, e)
      BY <2>4, <2>10
    <3>2. Spells(Numeral[base][q], q, base)
      BY <2>6, NumeralSpells DEF N
    <3>3. r = Numeral[base][q]
      BY <1>0, <2>2, <3>1, <3>2, SpellsOne
    <3>4. ShownAll(s) = Append(ShownAll(r), Shown(e))
      BY <1>0, <2>8, <3>1, ShownAppend DEF Spells
    <3>5. g[q] = ShownAll(r)
      BY <1>1, <2>6, <3>3
    <3> QED
      BY <2>5, <2>7, <2>10, <3>4, <3>5
  <2> QED
    BY <2>9, <2>10
<1>4. g = [n \in N |-> B(n)]
  <2> HIDE DEF B, N
  <2> QED
    BY <1>2, <1>3
<1> QED
  BY <1>4 DEF Converts, g

LEMMA ConvertedIs ==
    ASSUME NEW base \in Bases, NEW x \in 0..(VALUES - 1)
    PROVE  Converted(x, base) = ShownAll(Numeral[base][x])
<1>0. base \in Nat /\ base >= 2
  BY FormatAssumption
<1> DEFINE f == CHOOSE f : Converts(f, base)
           g == Numbered(base)
           N == 0..(VALUES - 1)
           B(h, n) == IF (n \div base) = 0 THEN << Shown(n % base) >>
                   ELSE Append(h[n \div base], Shown(n % base))
<1>1. Converts(f, base) /\ Converts(g, base)
  BY NumberedConverts
<1>2. Converted(x, base) = f[x]
  BY DEF Converted, Converts
<1>3. g[x] = ShownAll(Numeral[base][x])
  BY DEF Numbered
<1>4. \A h, n : Converts(h, base) /\ n \in N => h[n] = B(h, n)
  <2> SUFFICES ASSUME NEW h, NEW n \in N, Converts(h, base)
               PROVE  h[n] = B(h, n)
    OBVIOUS
  <2>1. h = [m \in N |-> B(h, m)]
    BY DEF Converts
  <2> HIDE DEF B, N
  <2> QED
    BY <2>1
<1> HIDE DEF f, g
<1> DEFINE S == {n \in Nat : n \in N => f[n] = g[n]}
<1>5. \A n \in Nat : (\A m \in Nat : m < n => m \in S) => n \in S
  <2> SUFFICES ASSUME NEW n \in Nat, \A m \in Nat : m < n => m \in S, n \in N
               PROVE  f[n] = g[n]
    OBVIOUS
  <2> DEFINE q == (n \div base)
             d == Shown(n % base)
  <2>1. q \in Nat /\ q <= n /\ (n # 0 => q < n)
    BY <1>0, Dividing
  <2>2. /\ f[n] = IF q = 0 THEN << d >> ELSE Append(f[q], d)
        /\ g[n] = IF q = 0 THEN << d >> ELSE Append(g[q], d)
    BY <1>1, <1>4
  <2> HIDE DEF q, d
  <2>3. q \in N
    BY <2>1, FormatAssumption
  <2>4. q # 0 => f[q] = g[q]
    BY <2>1, <2>3
  <2> HIDE DEF N
  <2> QED
    BY <2>2, <2>4
<1>6. Nat \subseteq S
  <2> HIDE DEF S
  <2> QED
    BY <1>5, CourseOfValues
<1>7. x \in Nat
  BY FormatAssumption
<1> QED
  BY <1>2, <1>3, <1>6, <1>7

-----------------------------------------------------------------------------
(* The buffer holds the beginning                                          *)

\* Whatever is printed, a return is not: console_write() adds those.
Chars == Nat \ {RETURN}

\* As much of s as has room in n places.
Within(n, s) == IF Len(s) <= n THEN s ELSE SubSeq(s, 1, n)

LEMMA Joining ==
    ASSUME NEW C, NEW a \in Seq(C), NEW b \in Seq(C)
    PROVE  /\ a \o b \in Seq(C) /\ Len(a) \in Nat /\ Len(b) \in Nat /\ Len(a \o b) = Len(a) + Len(b)
           /\ \A i \in 1..Len(a) : (a \o b)[i] = a[i]
           /\ \A i \in (Len(a) + 1)..(Len(a) + Len(b)) : (a \o b)[i] = b[i - Len(a)]
<1>1. Len(a) \in Nat /\ Len(b) \in Nat
  OBVIOUS
<1> QED
  BY <1>1, ConcatProperties

LEMMA FirstFew ==
    ASSUME NEW C, NEW s \in Seq(C), NEW n \in Nat, n <= Len(s)
    PROVE  /\ SubSeq(s, 1, n) \in Seq(C) /\ Len(SubSeq(s, 1, n)) = n
           /\ \A i \in 1..n : SubSeq(s, 1, n)[i] = s[i]
<1>1. Len(s) \in Nat /\ \A i \in 1..n : s[i] \in C
  OBVIOUS
<1> QED
  BY <1>1, SubSeqProperties

LEMMA WithinIs ==
    ASSUME NEW C, NEW s \in Seq(C), NEW n \in Nat
    PROVE  /\ Within(n, s) \in Seq(C)
           /\ Len(Within(n, s)) = (IF Len(s) <= n THEN Len(s) ELSE n)
           /\ \A i \in 1..Len(Within(n, s)) : Within(n, s)[i] = s[i]
<1>1. Len(s) \in Nat
  OBVIOUS
<1>2. CASE Len(s) <= n
  BY <1>2 DEF Within
<1>3. CASE ~(Len(s) <= n)
  <2>1. n <= Len(s)
    BY <1>1, <1>3
  <2> QED
    BY <1>3, <2>1, FirstFew DEF Within
<1> QED
  BY <1>2, <1>3

\* Two sequences with the same beginning.
LEMMA WithinSame ==
    ASSUME NEW C, NEW s \in Seq(C), NEW t \in Seq(C), NEW n \in Nat,
           Len(t) = (IF Len(s) <= n THEN Len(s) ELSE n),
           \A i \in 1..Len(t) : t[i] = s[i]
    PROVE  t = Within(n, s)
<1> DEFINE w == Within(n, s)
<1>1. w \in Seq(C) /\ Len(w) = Len(t) /\ \A i \in 1..Len(w) : w[i] = s[i]
  BY WithinIs
<1> HIDE DEF w
<1>2. \A i \in 1..Len(t) : t[i] = w[i]
  BY <1>1
<1>3. t = w
  BY <1>1, <1>2, SeqEqual
<1> QED
  BY <1>3 DEF w

\* An inner loop of vsnprintf() in a buffer with room.
LEMMA PutIs ==
    ASSUME NEW C, NEW buf \in Seq(C), NEW chars \in Seq(C), Len(buf) < SIZE
    PROVE  Put(buf, chars) = Within(SIZE, buf \o chars)
<1>1. SIZE \in Nat
  BY FormatAssumption
<1> DEFINE room == SIZE - Len(buf)
           t == buf \o chars
<1>2. Len(buf) \in Nat /\ Len(chars) \in Nat /\ room \in Nat /\ room > 0
  BY <1>1
<1>3. /\ t \in Seq(C) /\ Len(t) = Len(buf) + Len(chars)
      /\ \A i \in 1..Len(buf) : t[i] = buf[i]
      /\ \A i \in (Len(buf) + 1)..(Len(buf) + Len(chars)) : t[i] = chars[i - Len(buf)]
  BY Joining
<1>4. CASE Len(chars) <= room
  <2>1. Put(buf, chars) = t
    BY <1>2, <1>4 DEF Put
  <2>2. Len(t) <= SIZE
    BY <1>1, <1>2, <1>3, <1>4
  <2> QED
    BY <2>1, <2>2 DEF Within
<1>5. CASE ~(Len(chars) <= room)
  <2> DEFINE c == SubSeq(chars, 1, room)
             u == buf \o c
  <2>1. Put(buf, chars) = u
    BY <1>2, <1>5 DEF Put
  <2>2. c \in Seq(C) /\ Len(c) = room /\ \A i \in 1..room : c[i] = chars[i]
    <3>1. room <= Len(chars)
      BY <1>2, <1>5
    <3> HIDE DEF room
    <3> QED
      BY <1>2, <3>1, FirstFew
  <2> HIDE DEF c
  <2>3. /\ u \in Seq(C) /\ Len(u) = Len(buf) + room
        /\ \A i \in 1..Len(buf) : u[i] = buf[i]
        /\ \A i \in (Len(buf) + 1)..(Len(buf) + room) : u[i] = c[i - Len(buf)]
    <3>1. /\ u \in Seq(C) /\ Len(u) = Len(buf) + Len(c)
          /\ \A i \in 1..Len(buf) : u[i] = buf[i]
          /\ \A i \in (Len(buf) + 1)..(Len(buf) + Len(c)) : u[i] = c[i - Len(buf)]
      BY <2>2, Joining
    <3> HIDE DEF room, u
    <3> QED
      BY <2>2, <3>1
  <2> HIDE DEF u, t
  <2>4. Len(u) = SIZE /\ ~(Len(t) <= SIZE)
    BY <1>1, <1>2, <1>3, <1>5, <2>3
  <2>5. \A i \in 1..Len(u) : u[i] = t[i]
    <3> TAKE i \in 1..Len(u)
    <3>1. CASE i <= Len(buf)
      <4>1. i \in 1..Len(buf)
        BY <1>2, <2>4, <3>1
      <4> QED
        BY <1>3, <2>3, <4>1
    <3>2. CASE ~(i <= Len(buf))
      <4>1. /\ i \in (Len(buf) + 1)..(Len(buf) + room)
            /\ i \in (Len(buf) + 1)..(Len(buf) + Len(chars))
            /\ i - Len(buf) \in 1..room
        BY <1>1, <1>2, <1>5, <2>3, <3>2
      <4> QED
        BY <1>3, <2>2, <2>3, <4>1
    <3> QED
      BY <3>1, <3>2
  <2>6. u = Within(SIZE, t)
    BY <1>1, <1>3, <2>3, <2>4, <2>5, WithinSame
  <2> QED
    BY <2>1, <2>6 DEF t
<1> QED
  BY <1>4, <1>5

\* What is behind a full buffer does not count.
LEMMA WithinMore ==
    ASSUME NEW C, NEW a \in Seq(C), NEW b \in Seq(C), NEW n \in Nat, Len(a) >= n
    PROVE  Within(n, a \o b) = Within(n, a)
<1> DEFINE t == a \o b
           w == Within(n, t)
<1>1. /\ t \in Seq(C) /\ Len(a) \in Nat /\ Len(t) >= Len(a)
      /\ \A i \in 1..Len(a) : t[i] = a[i]
  <2>1. Len(t) = Len(a) + Len(b) /\ Len(a) \in Nat /\ Len(b) \in Nat
    BY Joining
  <2>2. Len(t) >= Len(a)
    BY <2>1
  <2> QED
    BY <2>1, <2>2, Joining
<1> HIDE DEF t
<1>2. /\ w \in Seq(C) /\ Len(w) = (IF Len(t) <= n THEN Len(t) ELSE n)
      /\ \A i \in 1..Len(w) : w[i] = t[i]
  BY <1>1, WithinIs
<1>5. Len(t) \in Nat
  BY <1>1
<1> HIDE DEF w
<1>3. Len(w) = n /\ (IF Len(a) <= n THEN Len(a) ELSE n) = n
  BY <1>1, <1>2, <1>5
<1>4. \A i \in 1..Len(w) : w[i] = a[i]
  BY <1>1, <1>2, <1>3
<1>6. w = Within(n, a)
  BY <1>2, <1>3, <1>4, WithinSame
<1> QED
  BY <1>6 DEF w, t

-----------------------------------------------------------------------------
(* One item                                                                *)

IsPrinting(p) == p \in {"printk", "printf"}

LEMMA Repeating ==
    ASSUME NEW n \in Int, NEW ch \in Chars
    PROVE  /\ Repeated(IF n > 0 THEN n ELSE 0, ch) \in Seq(Chars)
           /\ Len(Repeated(IF n > 0 THEN n ELSE 0, ch)) = (IF n > 0 THEN n ELSE 0)
           /\ ~(n > 0) => Repeated(IF n > 0 THEN n ELSE 0, ch) = <<>>
<1> DEFINE k == IF n > 0 THEN n ELSE 0
           r == Repeated(k, ch)
<1>1. k \in Nat
  OBVIOUS
<1>2. ~(n > 0) => k = 0
  OBVIOUS
<1> HIDE DEF k
<1>3. r \in [1..k -> Chars]
  BY DEF Repeated
<1> HIDE DEF r
<1>4. r \in Seq(Chars) /\ Len(r) = k
  BY <1>1, <1>3, SequenceOf
<1>5. k = 0 => r = <<>>
  BY <1>4
<1> QED
  BY <1>2, <1>4, <1>5 DEF k, r

\* The parts of a number.
SignOf(item) == IF IsNegative(item) THEN <<MINUS>> ELSE <<>>
DigitsOf(item) == ShownAll(Numeral[item.base][Magnitude(item)])
SpaceOf(item) == item.pad - (Len(SignOf(item)) + Len(DigitsOf(item)))
FillOf(item) == Repeated(IF SpaceOf(item) > 0 THEN SpaceOf(item) ELSE 0, item.fill)

IsNumber(item) ==
    /\ item.value \in 0..(VALUES - 1) /\ item.base \in Bases /\ item.pad \in Nat
    /\ item.fill \in Chars /\ item.kind # "char" /\ item.kind # "string"
IsText(item) ==
    \/ item.kind = "char" /\ item.value \in Chars
    \/ item.kind = "string" /\ item.value \in Nat

LEMMA ItemsAre ==
    ASSUME NEW item \in Items
    PROVE  IsNumber(item) \/ IsText(item)
<1>1. SPACE \in Chars /\ ZERO \in Chars /\ LETTER \in Chars /\ NEWLINE \in Chars
  BY DEF Chars, SPACE, ZERO, LETTER, NEWLINE, RETURN
<1>2. CASE item \in {Item("char", ch, 0, 0, 0) : ch \in {LETTER, NEWLINE}}
  BY <1>1, <1>2 DEF Item, IsText
<1>3. CASE item \in {Item("string", n, 0, 0, 0) : n \in 0..(SIZE + 1)}
  BY <1>3, FormatAssumption DEF Item, IsText
<1>4. CASE item \in [kind : {"signed", "unsigned"}, value : Numbers, base : Bases,
                     pad : Pads, fill : {SPACE, ZERO}]
  <2>1. item.value \in 0..(VALUES - 1) /\ item.pad \in Nat
    BY <1>4, FormatAssumption
  <2>2. item.base \in Bases /\ item.fill \in Chars
    BY <1>1, <1>4
  <2>3. item.kind # "char" /\ item.kind # "string"
    BY <1>4
  <2> QED
    BY <2>1, <2>2, <2>3 DEF IsNumber
<1> QED
  BY <1>2, <1>3, <1>4 DEF Items

LEMMA MagnitudeIs ==
    ASSUME NEW item, IsNumber(item)
    PROVE  /\ Magnitude(item) \in 0..(VALUES - 1)
           /\ Magnitude(item) = IF IsNegative(item) THEN VALUES - item.value ELSE item.value
<1> DEFINE v == item.value
<1>1. VALUES \in Nat /\ VALUES > 0 /\ VALUES % 2 = 0 /\ v \in 0..(VALUES - 1)
  BY FormatAssumption DEF IsNumber
<1>2. CASE IsNegative(item)
  <2>1. v >= (VALUES \div 2)
    BY <1>2 DEF IsNegative
  <2>2. v >= 1
    BY <1>1, <2>1
  <2> DEFINE y == VALUES - v
  <2>3. y \in 0..(VALUES - 1) /\ (VALUES - 1 - v) + 1 = y
    BY <1>1, <2>2
  <2>4. y % VALUES = y
    <3> HIDE DEF y
    <3> QED
      BY <1>1, <2>3
  <2> QED
    BY <1>2, <2>3, <2>4 DEF Magnitude, Negated
<1>3. CASE ~IsNegative(item)
  BY <1>1, <1>3 DEF Magnitude
<1> QED
  BY <1>2, <1>3

LEMMA NumberParts ==
    ASSUME NEW item, IsNumber(item)
    PROVE  /\ Converted(Magnitude(item), item.base) = DigitsOf(item)
           /\ DigitsOf(item) \in Seq(Chars) /\ SignOf(item) \in Seq(Chars)
           /\ Len(SignOf(item)) = (IF IsNegative(item) THEN 1 ELSE 0)
           /\ SpaceOf(item) \in Int /\ FillOf(item) \in Seq(Chars)
           /\ ~(SpaceOf(item) > 0) => FillOf(item) = <<>>
           /\ Len(DigitsOf(item)) \in Nat
<1>1. Magnitude(item) \in 0..(VALUES - 1) /\ item.base \in Bases /\ item.pad \in Nat /\ item.fill \in Chars
  BY MagnitudeIs DEF IsNumber
<1>2. Converted(Magnitude(item), item.base) = DigitsOf(item)
  BY <1>1, ConvertedIs DEF DigitsOf
<1>3. DigitsOf(item) \in Seq(Chars)
  <2> DEFINE s == Numeral[item.base][Magnitude(item)]
             w == ShownAll(s)
  <2>1. s \in Seq(DigitSet(item.base)) /\ item.base \in Nat
    BY <1>1, NumeralSpells DEF Spells
  <2> HIDE DEF s
  <2>2. Len(s) \in Nat /\ DOMAIN s = 1..Len(s) /\ \A i \in 1..Len(s) : s[i] \in Nat
    <3>1. Len(s) \in Nat /\ DOMAIN s = 1..Len(s) /\ \A i \in 1..Len(s) : s[i] \in DigitSet(item.base)
      BY <2>1
    <3>2. DigitSet(item.base) \subseteq Nat
      BY <2>1 DEF DigitSet
    <3> QED
      BY <3>1, <3>2
  <2>3. \A d \in Nat : Shown(d) \in Chars
    BY DEF Shown, Chars, ZERO, LETTER, RETURN
  <2>4. w \in [1..Len(s) -> Chars]
    BY <2>2, <2>3 DEF ShownAll
  <2>5. w \in Seq(Chars)
    <3> HIDE DEF w
    <3> QED
      BY <2>2, <2>4, SequenceOf
  <2> QED
    BY <2>5 DEF DigitsOf, s
<1>4. SignOf(item) \in Seq(Chars) /\ Len(SignOf(item)) = (IF IsNegative(item) THEN 1 ELSE 0)
  <2>1. MINUS \in Chars
    BY DEF MINUS, Chars, RETURN
  <2> QED
    BY <2>1 DEF SignOf
<1>5. Len(DigitsOf(item)) \in Nat /\ Len(SignOf(item)) \in Nat
  BY <1>3, <1>4
<1>6. SpaceOf(item) \in Int
  BY <1>1, <1>5 DEF SpaceOf
<1>7. FillOf(item) \in Seq(Chars) /\ (~(SpaceOf(item) > 0) => FillOf(item) = <<>>)
  BY <1>1, <1>6, Repeating DEF FillOf
<1> QED
  BY <1>2, <1>3, <1>4, <1>5, <1>6, <1>7

LEMMA MeantNumber ==
    ASSUME NEW item, IsNumber(item)
    PROVE  Meant(item) = IF printer = "printk" THEN (SignOf(item) \o FillOf(item)) \o DigitsOf(item)
                                              ELSE (FillOf(item) \o SignOf(item)) \o DigitsOf(item)
<1> DEFINE amount == IF IsNegative(item) THEN VALUES - item.value ELSE item.value
           space == item.pad - Len(SignOf(item) \o DigitsOf(item))
<1>1. amount = Magnitude(item)
  BY MagnitudeIs
<1>2. space = SpaceOf(item)
  <2>1. Len(SignOf(item) \o DigitsOf(item)) = Len(SignOf(item)) + Len(DigitsOf(item))
    BY NumberParts, Joining
  <2> QED
    BY <2>1 DEF SpaceOf
<1>3. [i \in DOMAIN Numeral[item.base][amount] |-> Shown(Numeral[item.base][amount][i])] = DigitsOf(item)
  BY <1>1 DEF DigitsOf, ShownAll
<1>4. item.kind # "char" /\ item.kind # "string"
  BY DEF IsNumber
<1> HIDE DEF amount
<1>5. Meant(item) = LET fill == Repeated(IF space > 0 THEN space ELSE 0, item.fill)
                    IN IF printer = "printk" THEN SignOf(item) \o fill \o DigitsOf(item)
                                            ELSE fill \o SignOf(item) \o DigitsOf(item)
  BY <1>3, <1>4 DEF Meant, SignOf, IsNegative, amount
<1> QED
  BY <1>2, <1>5 DEF FillOf

LEMMA MeantText ==
    ASSUME NEW item, IsText(item)
    PROVE  /\ Meant(item) = IF item.kind = "char" THEN << item.value >> ELSE Repeated(item.value, LETTER)
           /\ Meant(item) \in Seq(Chars)
<1>1. Meant(item) = IF item.kind = "char" THEN << item.value >> ELSE Repeated(item.value, LETTER)
  BY DEF Meant, IsText
<1>2. CASE item.kind = "char"
  BY <1>1, <1>2 DEF IsText
<1>3. CASE item.kind # "char"
  <2>1. item.value \in Nat /\ LETTER \in Chars
    BY <1>3 DEF IsText, LETTER, Chars, RETURN
  <2>2. Repeated(item.value, LETTER) \in [1..item.value -> Chars]
    BY <2>1 DEF Repeated
  <2> QED
    BY <1>1, <1>3, <2>1, <2>2, SequenceOf
<1> QED
  BY <1>1, <1>2, <1>3

LEMMA MeantChars ==
    ASSUME NEW item \in Items
    PROVE  Meant(item) \in Seq(Chars)
<1>1. CASE IsText(item)
  BY <1>1, MeantText
<1>2. CASE IsNumber(item)
  <2>1. SignOf(item) \in Seq(Chars) /\ FillOf(item) \in Seq(Chars) /\ DigitsOf(item) \in Seq(Chars)
    BY <1>2, NumberParts
  <2>2. /\ (SignOf(item) \o FillOf(item)) \o DigitsOf(item) \in Seq(Chars)
        /\ (FillOf(item) \o SignOf(item)) \o DigitsOf(item) \in Seq(Chars)
    BY <2>1
  <2> QED
    BY <1>2, <2>2, MeantNumber
<1> QED
  BY <1>1, <1>2, ItemsAre

LEMMA Grouping == \A a, b, c \in Seq(Chars) : (a \o b) \o c = a \o (b \o c)
BY ConcatAssociative

-----------------------------------------------------------------------------
(* A buffer against what it should hold                                    *)

\* p is no longer than q, and within the buffer they are the same.
Follows(p, q) ==
    /\ p \in Seq(Chars) /\ q \in Seq(Chars)
    /\ Len(p) <= Len(q)
    /\ Within(SIZE, p) = Within(SIZE, q)

\* Both have the same behind them.
LEMMA FollowsMore ==
    ASSUME NEW p, NEW q, Follows(p, q), NEW d \in Seq(Chars)
    PROVE  Follows(p \o d, q \o d)
<1>1. /\ p \in Seq(Chars) /\ q \in Seq(Chars) /\ Len(p) \in Nat /\ Len(q) \in Nat /\ Len(d) \in Nat
      /\ SIZE \in Nat /\ Len(p) <= Len(q) /\ Within(SIZE, p) = Within(SIZE, q)
  BY FormatAssumption DEF Follows
<1>2. /\ p \o d \in Seq(Chars) /\ q \o d \in Seq(Chars)
      /\ Len(p \o d) = Len(p) + Len(d) /\ Len(q \o d) = Len(q) + Len(d)
  BY <1>1, Joining
<1>3. /\ Len(Within(SIZE, p)) = (IF Len(p) <= SIZE THEN Len(p) ELSE SIZE)
      /\ Len(Within(SIZE, q)) = (IF Len(q) <= SIZE THEN Len(q) ELSE SIZE)
  BY <1>1, WithinIs
<1>4. CASE Len(p) >= SIZE
  <2>1. Len(q) >= SIZE
    BY <1>1, <1>4
  <2> QED
    BY <1>1, <1>2, <1>4, <2>1, WithinMore DEF Follows
<1>5. CASE ~(Len(p) >= SIZE)
  <2>1. Len(p) <= SIZE /\ Len(q) <= SIZE
    BY <1>1, <1>3, <1>5
  <2>2. p = q
    BY <1>1, <2>1 DEF Within
  <2> QED
    BY <1>2, <2>2 DEF Follows
<1> QED
  BY <1>4, <1>5

\* An inner loop of vsnprintf(), whatever room there is.
LEMMA FollowsPut ==
    ASSUME NEW p, NEW q, Follows(p, q), NEW d \in Seq(Chars)
    PROVE  Follows(Put(p, d), q \o d)
<1>1. p \in Seq(Chars) /\ Len(p) \in Nat /\ Len(d) \in Nat /\ SIZE \in Nat
  BY FormatAssumption DEF Follows
<1>2. Follows(p \o d, q \o d)
  BY FollowsMore
<1> DEFINE t == p \o d
<1>3. t \in Seq(Chars) /\ Len(t) \in Nat /\ Len(q \o d) \in Nat
  BY <1>2 DEF Follows
<1>4. CASE Len(p) < SIZE
  <2>1. Put(p, d) = Within(SIZE, t)
    BY <1>1, <1>4, PutIs
  <2> HIDE DEF t
  <2>2. /\ Within(SIZE, t) \in Seq(Chars)
        /\ Len(Within(SIZE, t)) = (IF Len(t) <= SIZE THEN Len(t) ELSE SIZE)
    BY <1>1, <1>3, WithinIs
  <2>3. Len(Within(SIZE, t)) <= Len(t) /\ Len(Within(SIZE, t)) <= SIZE
    BY <1>1, <1>3, <2>2
  <2>4. Within(SIZE, Within(SIZE, t)) = Within(SIZE, t)
    <3> DEFINE w == Within(SIZE, t)
    <3>1. Len(w) <= SIZE
      BY <2>3
    <3> HIDE DEF w
    <3>2. Within(SIZE, w) = w
      BY <3>1 DEF Within
    <3> QED
      BY <3>2 DEF w
  <2>5. Follows(t, q \o d)
    BY <1>2 DEF t
  <2>6. Len(Within(SIZE, t)) <= Len(q \o d)
    <3>1. Len(t) <= Len(q \o d)
      BY <2>5 DEF Follows
    <3> QED
      BY <1>1, <1>3, <2>2, <2>3, <3>1
  <2> QED
    BY <2>1, <2>2, <2>4, <2>5, <2>6 DEF Follows
<1>5. CASE ~(Len(p) < SIZE)
  <2>1. ~(SIZE - Len(p) > 0)
    BY <1>1, <1>5
  <2> QED
    BY <1>2, <2>1 DEF Put
<1> QED
  BY <1>4, <1>5

\* A full buffer need not take what is left out.
LEMMA FollowsLess ==
    ASSUME NEW p, NEW q, Follows(p, q), Len(p) >= SIZE, NEW d \in Seq(Chars)
    PROVE  Follows(p, q \o d)
<1>1. /\ p \in Seq(Chars) /\ q \in Seq(Chars) /\ Len(p) \in Nat /\ Len(q) \in Nat /\ Len(d) \in Nat
      /\ SIZE \in Nat /\ Len(p) <= Len(q) /\ Within(SIZE, p) = Within(SIZE, q)
  BY FormatAssumption DEF Follows
<1>2. q \o d \in Seq(Chars) /\ Len(q \o d) = Len(q) + Len(d) /\ Len(q) >= SIZE
  BY <1>1, Joining
<1>3. Within(SIZE, q \o d) = Within(SIZE, q)
  BY <1>1, <1>2, WithinMore
<1>4. Len(p) <= Len(q \o d)
  BY <1>1, <1>2
<1> QED
  BY <1>1, <1>2, <1>3, <1>4 DEF Follows

\* Padding, if there is any.
LEMMA FollowsPadded ==
    ASSUME NEW p, NEW q, Follows(p, q), NEW space \in Int, NEW f \in Seq(Chars),
           ~(space > 0) => f = <<>>
    PROVE  Follows(IF space > 0 THEN Put(p, f) ELSE p, q \o f)
<1>1. CASE space > 0
  BY <1>1, FollowsPut
<1>2. CASE ~(space > 0)
  <2>1. q \in Seq(Chars) /\ f = <<>>
    BY <1>2 DEF Follows
  <2>2. q \o f = q
    BY <2>1, ConcatEmptySeq
  <2> QED
    BY <1>2, <2>2
<1> QED
  BY <1>1, <1>2

-----------------------------------------------------------------------------
(* One turn of the loop                                                    *)

LEMMA TextTurn ==
    ASSUME NEW item, IsText(item), Follows(buffer, promise)
    PROVE  Follows(one_item(item).buffer, promise \o Meant(item))
<1>1. /\ Meant(item) = IF item.kind = "char" THEN << item.value >> ELSE Repeated(item.value, LETTER)
      /\ Meant(item) \in Seq(Chars)
  BY MeantText
<1>2. CASE item.kind = "char"
  <2>1. one_item(item).buffer = Append(buffer, item.value)
    BY <1>2 DEF one_item, put_char, Outcome
  <2>2. Append(buffer, item.value) = buffer \o Meant(item)
    BY <1>1, <1>2 DEF Follows, IsText
  <2> QED
    BY <1>1, <2>1, <2>2, FollowsMore
<1>3. CASE item.kind # "char"
  <2>1. Meant(item) = Repeated(item.value, LETTER) /\ item.kind = "string"
    BY <1>1, <1>3 DEF IsText
  <2>2. one_item(item).buffer = Put(buffer, Meant(item))
    BY <2>1 DEF one_item, put_string, Outcome
  <2> QED
    BY <1>1, <2>2, FollowsPut
<1> QED
  BY <1>2, <1>3

LEMMA KernelNumber ==
    ASSUME NEW item, IsNumber(item), printer = "printk", Follows(buffer, promise)
    PROVE  Follows(printk_number(item).buffer, promise \o Meant(item))
<1> DEFINE s == SignOf(item)
           d == DigitsOf(item)
           f == FillOf(item)
           bs == buffer \o s
           ps == promise \o s
           pf == ps \o f
           all == pf \o d
           padded == IF SpaceOf(item) > 0 THEN Put(bs, f) ELSE bs
<1>1. /\ s \in Seq(Chars) /\ d \in Seq(Chars) /\ f \in Seq(Chars)
      /\ Len(s) = (IF IsNegative(item) THEN 1 ELSE 0)
      /\ SpaceOf(item) \in Int /\ (~(SpaceOf(item) > 0) => f = <<>>)
      /\ Converted(Magnitude(item), item.base) = d
      /\ Len(d) \in Nat
  BY NumberParts
<1>2. Meant(item) = (s \o f) \o d
  BY MeantNumber
<1>3. item.pad \in Nat /\ buffer \in Seq(Chars) /\ promise \in Seq(Chars)
  BY DEF IsNumber, Follows
<1>4. SpaceOf(item) = item.pad - Len(d) - (IF IsNegative(item) THEN 1 ELSE 0)
  <2>1. SpaceOf(item) = item.pad - (Len(s) + Len(d))
    BY DEF SpaceOf
  <2> HIDE DEF s, d
  <2> QED
    BY <1>1, <1>3, <2>1
<1>5. bs = IF IsNegative(item) THEN Append(buffer, MINUS) ELSE buffer
  <2>1. CASE IsNegative(item)
    <3>1. s = <<MINUS>> /\ MINUS \in Chars
      BY <2>1 DEF SignOf, MINUS, Chars, RETURN
    <3> HIDE DEF s
    <3> QED
      BY <1>3, <2>1, <3>1
  <2>2. CASE ~IsNegative(item)
    <3>1. s = <<>>
      BY <2>2 DEF SignOf
    <3> HIDE DEF s
    <3> QED
      BY <1>3, <2>2, <3>1
  <2> QED
    BY <2>1, <2>2
<1>6. SpaceOf(item) > 0 => f = Repeated(SpaceOf(item), item.fill)
  BY DEF FillOf
<1>7. printk_number(item).buffer = IF IsNegative(item) /\ Full(bs) THEN bs ELSE Put(padded, d)
  <2> HIDE DEF s, d, f, bs
  <2> QED
    BY <1>1, <1>4, <1>5, <1>6 DEF printk_number, Outcome
<1> HIDE DEF s, d, f
<1>8. Follows(bs, ps)
  BY <1>1, FollowsMore
<1>9. all = promise \o Meant(item)
  <2>1. /\ s \in Seq(Chars) /\ f \in Seq(Chars) /\ d \in Seq(Chars) /\ promise \in Seq(Chars)
        /\ s \o f \in Seq(Chars)
    BY <1>1, <1>3
  <2>2. (promise \o s) \o f = promise \o (s \o f)
    BY <2>1, Grouping
  <2>3. (promise \o (s \o f)) \o d = promise \o ((s \o f) \o d)
    BY <2>1, Grouping
  <2> QED
    BY <1>2, <2>2, <2>3 DEF pf, ps, all
<1> HIDE DEF bs, ps
<1>10. Follows(padded, pf)
  BY <1>1, <1>8, FollowsPadded
<1> HIDE DEF padded
<1>11. CASE IsNegative(item) /\ Full(bs)
  <2>1. Len(bs) >= SIZE
    BY <1>11, FormatAssumption DEF Full
  <2>2. Follows(bs, pf)
    BY <1>1, <1>8, <2>1, FollowsLess
  <2> HIDE DEF pf
  <2>3. Follows(bs, all)
    BY <1>1, <2>1, <2>2, FollowsLess
  <2> QED
    BY <1>7, <1>9, <1>11, <2>3
<1>12. CASE ~(IsNegative(item) /\ Full(bs))
  <2> HIDE DEF pf
  <2>1. Follows(Put(padded, d), all)
    BY <1>1, <1>10, FollowsPut
  <2> QED
    BY <1>7, <1>9, <1>12, <2>1
<1> QED
  BY <1>11, <1>12

LEMMA LibraryNumber ==
    ASSUME NEW item, IsNumber(item), printer # "printk", Follows(buffer, promise)
    PROVE  Follows(printf_number(item).buffer, promise \o Meant(item))
<1> DEFINE s == SignOf(item)
           d == DigitsOf(item)
           f == FillOf(item)
           n == s \o d
           pf == promise \o f
           all == pf \o n
           padded == IF SpaceOf(item) > 0 THEN Put(buffer, f) ELSE buffer
<1>1. /\ s \in Seq(Chars) /\ d \in Seq(Chars) /\ f \in Seq(Chars)
      /\ Len(s) = (IF IsNegative(item) THEN 1 ELSE 0)
      /\ SpaceOf(item) \in Int /\ (~(SpaceOf(item) > 0) => f = <<>>)
      /\ Converted(Magnitude(item), item.base) = d
      /\ Len(d) \in Nat
  BY NumberParts
<1>2. Meant(item) = f \o n
  <2>1. Meant(item) = (f \o s) \o d
    BY MeantNumber
  <2> HIDE DEF s, d, f
  <2> QED
    BY <1>1, <2>1, Grouping
<1>3. item.pad \in Nat /\ promise \in Seq(Chars)
  BY DEF IsNumber, Follows
<1>4. n = IF IsNegative(item) THEN <<MINUS>> \o d ELSE d
  <2>1. CASE IsNegative(item)
    BY <2>1 DEF SignOf
  <2>2. CASE ~IsNegative(item)
    <3>1. s = <<>>
      BY <2>2 DEF SignOf
    <3> HIDE DEF s, d
    <3> QED
      BY <1>1, <2>2, <3>1, ConcatEmptySeq
  <2> QED
    BY <2>1, <2>2
<1>5. SpaceOf(item) = item.pad - Len(n)
  <2>1. SpaceOf(item) = item.pad - (Len(s) + Len(d))
    BY DEF SpaceOf
  <2>2. Len(n) = Len(s) + Len(d)
    BY <1>1, Joining
  <2> HIDE DEF s, d, n
  <2> QED
    BY <1>1, <1>3, <2>1, <2>2
<1>6. SpaceOf(item) > 0 => f = Repeated(SpaceOf(item), item.fill)
  BY DEF FillOf
<1>7. printf_number(item).buffer = IF SpaceOf(item) > 0 /\ Full(padded) THEN padded ELSE Put(padded, n)
  <2> HIDE DEF s, d, f, n
  <2> QED
    BY <1>1, <1>4, <1>5, <1>6 DEF printf_number, Outcome
<1>8. n \in Seq(Chars)
  BY <1>1
<1> HIDE DEF s, d, f, n
<1>9. Follows(padded, pf)
  BY <1>1, FollowsPadded
<1>10. all = promise \o Meant(item)
  <2>1. f \in Seq(Chars) /\ n \in Seq(Chars) /\ promise \in Seq(Chars)
    BY <1>1, <1>3, <1>8
  <2>2. (promise \o f) \o n = promise \o (f \o n)
    BY <2>1, Grouping
  <2> QED
    BY <1>2, <2>2 DEF pf, all
<1> HIDE DEF padded, pf
<1>11. CASE SpaceOf(item) > 0 /\ Full(padded)
  <2>1. Len(padded) >= SIZE
    BY <1>11, FormatAssumption DEF Full
  <2>2. Follows(padded, all)
    BY <1>8, <1>9, <2>1, FollowsLess
  <2> QED
    BY <1>7, <1>10, <1>11, <2>2
<1>12. CASE ~(SpaceOf(item) > 0 /\ Full(padded))
  <2>1. Follows(Put(padded, n), all)
    BY <1>8, <1>9, FollowsPut
  <2> QED
    BY <1>7, <1>10, <1>12, <2>1
<1> QED
  BY <1>11, <1>12

-----------------------------------------------------------------------------
(* The invariant                                                           *)

Working == IsPrinting(printer) => Follows(buffer, promise)

FormatInv ==
    /\ promise \in Seq(Chars)
    /\ printer = "nobody" => promise = <<>> /\ buffer = <<>>
    /\ Working
    /\ printer # "stored" => string \in [1..SIZE -> Nat]
    /\ ~(printer \in {"done", "lost"}) => dmesg_text = <<>> /\ serial_text = <<>>
    /\ PrintedRight /\ StringRight /\ LostRight

\* An empty text is one that printk() and printf() may have passed on.
LEMMA NothingPrinted ==
    ASSUME dmesg_text = <<>>, serial_text = <<>>, printer # "done"
    PROVE  PrintedRight
<1>1. Unreturned(<<>>) = <<>>
  BY KeptAppend
<1> QED
  BY <1>1 DEF PrintedRight

LEMMA FormatBegins == FormatInit => FormatInv
<1> SUFFICES ASSUME FormatInit
             PROVE  FormatInv
  OBVIOUS
<1>1. promise \in Seq(Chars) /\ printer = "nobody" /\ promise = <<>> /\ buffer = <<>>
  <2>1. <<>> \in Seq(Chars)
    OBVIOUS
  <2>2. promise = <<>> /\ printer = "nobody" /\ buffer = <<>>
    BY DEF FormatInit
  <2> QED
    BY <2>1, <2>2
<1>2. string \in [1..SIZE -> Nat]
  BY DEF FormatInit, Repeated, LETTER
<1>3. dmesg_text = <<>> /\ serial_text = <<>>
  BY DEF FormatInit
<1>4. Working /\ PrintedRight /\ StringRight /\ LostRight
  BY <1>1, <1>3, NothingPrinted DEF Working, StringRight, LostRight, IsPrinting
<1> QED
  BY <1>1, <1>2, <1>3, <1>4 DEF FormatInv

LEMMA BeginKeeps == FormatInv /\ format_begin => FormatInv'
<1> SUFFICES ASSUME FormatInv, format_begin
             PROVE  FormatInv'
  OBVIOUS
<1>1. /\ IsPrinting(printer') /\ printer = "nobody"
      /\ UNCHANGED <<buffer, promise, dmesg_text, serial_text, string>>
  BY DEF format_begin, IsPrinting
<1>2. /\ buffer = <<>> /\ promise = <<>> /\ string \in [1..SIZE -> Nat] /\ promise \in Seq(Chars)
      /\ dmesg_text = <<>> /\ serial_text = <<>>
  BY <1>1 DEF FormatInv
<1>3. printer' # "nobody" /\ printer' # "stored" /\ printer' # "done" /\ printer' # "lost"
  BY <1>1 DEF IsPrinting
<1>4. Working'
  <2>1. Len(buffer) \in Nat /\ Follows(buffer, promise)
    BY <1>2 DEF Follows
  <2> QED
    BY <1>1, <2>1 DEF Working, Follows
<1>5. PrintedRight'
  <2>1. Unreturned(<<>>) = <<>>
    BY KeptAppend
  <2> QED
    BY <1>1, <1>2, <1>3, <2>1 DEF PrintedRight
<1> QED
  BY <1>1, <1>2, <1>3, <1>4, <1>5 DEF FormatInv, StringRight, LostRight

LEMMA ItemKeeps == FormatInv /\ format_item => FormatInv'
<1> SUFFICES ASSUME FormatInv, format_item
             PROVE  FormatInv'
  OBVIOUS
<1>1. PICK item \in Items :
         /\ buffer' = one_item(item).buffer
         /\ promise' = promise \o Meant(item)
  BY DEF format_item
<1>2. /\ IsPrinting(printer) /\ printer' = printer /\ string' = string
      /\ dmesg_text' = dmesg_text /\ serial_text' = serial_text
  BY DEF format_item, IsPrinting
<1>3. Follows(buffer, promise)
  BY <1>2 DEF FormatInv, Working
<1>4. Follows(buffer', promise')
  <2>1. CASE IsText(item)
    BY <1>1, <1>3, <2>1, TextTurn
  <2>2. CASE IsNumber(item) /\ printer = "printk"
    <3>1. one_item(item) = printk_number(item)
      BY <2>2 DEF one_item, IsNumber
    <3> QED
      BY <1>1, <1>3, <2>2, <3>1, KernelNumber
  <2>3. CASE IsNumber(item) /\ printer # "printk"
    <3>1. one_item(item) = printf_number(item)
      BY <2>3 DEF one_item, IsNumber
    <3> QED
      BY <1>1, <1>3, <2>3, <3>1, LibraryNumber
  <2> QED
    BY <2>1, <2>2, <2>3, ItemsAre
<1>5. promise' \in Seq(Chars)
  BY <1>4 DEF Follows
<1>6. /\ printer' # "nobody" /\ printer' # "stored" /\ printer' # "done" /\ printer' # "lost"
      /\ string \in [1..SIZE -> Nat] /\ dmesg_text = <<>> /\ serial_text = <<>>
  BY <1>2 DEF IsPrinting, FormatInv
<1>7. Working'
  BY <1>4 DEF Working, Follows
<1>8. PrintedRight'
  <2>1. Unreturned(<<>>) = <<>>
    BY KeptAppend
  <2> QED
    BY <1>2, <1>6, <2>1 DEF PrintedRight
<1> QED
  BY <1>2, <1>5, <1>6, <1>7, <1>8 DEF FormatInv, StringRight, LostRight

\* What is taken out is the beginning of the promise, with room for the 0.
LEMMA FittingIs ==
    ASSUME NEW s \in Seq(Chars)
    PROVE  Fitting(s) = Within(SIZE - 1, s)
<1>1. SIZE \in Nat /\ SIZE >= 2 /\ Len(s) \in Nat
  BY FormatAssumption
<1>2. CASE Len(s) < SIZE
  <2>1. Len(s) <= SIZE - 1 /\ SubSeq(s, 1, Len(s)) = s
    BY <1>1, <1>2
  <2> QED
    BY <1>2, <2>1 DEF Fitting, Within
<1>3. CASE ~(Len(s) < SIZE)
  <2>1. ~(Len(s) <= SIZE - 1)
    BY <1>1, <1>3
  <2> QED
    BY <1>3, <2>1 DEF Fitting, Within
<1> QED
  BY <1>2, <1>3

LEMMA ResultIs ==
    ASSUME FormatInv, IsPrinting(printer)
    PROVE  Result = Within(SIZE - 1, promise)
<1> DEFINE wb == Within(SIZE, buffer)
           wp == Within(SIZE, promise)
<1>1. /\ buffer \in Seq(Chars) /\ promise \in Seq(Chars) /\ wb = wp
      /\ SIZE \in Nat /\ SIZE >= 2 /\ Len(promise) \in Nat /\ Len(buffer) \in Nat /\ SIZE - 1 \in Nat
  BY FormatAssumption DEF FormatInv, Working, Follows
<1>2. /\ Len(wb) = (IF Len(buffer) <= SIZE THEN Len(buffer) ELSE SIZE)
      /\ \A i \in 1..Len(wb) : wb[i] = buffer[i]
      /\ Len(wp) = (IF Len(promise) <= SIZE THEN Len(promise) ELSE SIZE)
      /\ \A i \in 1..Len(wp) : wp[i] = promise[i]
  BY <1>1, WithinIs
<1> HIDE DEF wb, wp
<1>3. CASE Len(buffer) >= SIZE
  <2> DEFINE r == SubSeq(buffer, 1, SIZE - 1)
  <2>1. Result = r
    BY <1>3 DEF Result
  <2>2. r \in Seq(Chars) /\ Len(r) = SIZE - 1 /\ \A i \in 1..(SIZE - 1) : r[i] = buffer[i]
    BY <1>1, <1>3, FirstFew
  <2> HIDE DEF r
  <2>3. Len(promise) >= SIZE /\ Len(wb) = SIZE
    BY <1>1, <1>2, <1>3
  <2>4. \A i \in 1..Len(r) : r[i] = promise[i]
    BY <1>1, <1>2, <2>2, <2>3
  <2>5. Len(r) = IF Len(promise) <= SIZE - 1 THEN Len(promise) ELSE SIZE - 1
    BY <1>1, <2>2, <2>3
  <2> QED
    BY <1>1, <2>1, <2>2, <2>4, <2>5, WithinSame
<1>4. CASE ~(Len(buffer) >= SIZE)
  <2>1. Len(buffer) <= SIZE /\ Len(promise) <= SIZE /\ Len(promise) = Len(buffer)
    BY <1>1, <1>2, <1>4
  <2>2. buffer = promise
    BY <1>1, <2>1 DEF wb, wp, Within
  <2>3. Len(promise) <= SIZE - 1
    BY <1>1, <1>4, <2>1
  <2> QED
    BY <1>4, <2>2, <2>3 DEF Result, Within
<1> QED
  BY <1>3, <1>4

LEMMA CharsAre ==
    ASSUME NEW s \in Seq(Chars)
    PROVE  s \in Seq(Nat) /\ Unreturning(s)
<1>1. \A c \in Chars : c \in Nat /\ c # RETURN
  BY DEF Chars
<1>2. Len(s) \in Nat /\ s \in [1..Len(s) -> Chars] /\ \A i \in 1..Len(s) : s[i] \in Chars
  OBVIOUS
<1>3. s \in [1..Len(s) -> Nat]
  BY <1>1, <1>2
<1> QED
  BY <1>1, <1>2, <1>3, SequenceOf DEF Unreturning

LEMMA FormatHolds == FormatInv => FormatRight
<1> SUFFICES ASSUME FormatInv
             PROVE  FormatRight
  OBVIOUS
<1>1. ASSUME IsPrinting(printer)
      PROVE  InBuffer
  <2>1. /\ buffer \in Seq(Chars) /\ promise \in Seq(Chars) /\ Len(buffer) \in Nat /\ Len(promise) \in Nat
        /\ Len(buffer) <= Len(promise) /\ Within(SIZE, buffer) = Within(SIZE, promise)
    BY <1>1 DEF FormatInv, Working, Follows
  <2>2. Result = Fitting(promise)
    BY <1>1, <2>1, ResultIs, FittingIs
  <2>3. Len(promise) <= SIZE => buffer = promise
    <3>1. Len(promise) <= SIZE => Len(buffer) <= SIZE
      BY <2>1, FormatAssumption
    <3> QED
      BY <2>1, <3>1 DEF Within
  <2> QED
    BY <2>2, <2>3 DEF InBuffer
<1>2. ~IsPrinting(printer) => InBuffer
  BY DEF InBuffer, IsPrinting
<1> QED
  BY <1>1, <1>2 DEF FormatInv, FormatRight

\* Only a format longer than the buffer made it longer than it is.
LEMMA DamagedIs ==
    ASSUME FormatInv, IsPrinting(printer), Damaged
    PROVE  Len(promise) > SIZE \/ spilled
<1>1. Len(buffer) <= Len(promise) /\ Len(buffer) \in Nat /\ Len(promise) \in Nat /\ SIZE \in Nat
  BY FormatAssumption DEF FormatInv, Working, Follows
<1> QED
  BY <1>1 DEF Damaged

LEMMA EndKeeps == FormatInv /\ format_end => FormatInv'
<1> SUFFICES ASSUME FormatInv, format_end
             PROVE  FormatInv'
  OBVIOUS
<1>1. /\ IsPrinting(printer) /\ (printer' = "done" \/ (printer' = "lost" /\ Damaged))
      /\ promise' = promise /\ string' = string /\ spilled' = spilled
      /\ dmesg_text' = IF printer = "printk" THEN Result ELSE <<>>
      /\ serial_text' = serial_write(Result)
  BY DEF format_end, IsPrinting, Written
<1>2. promise \in Seq(Chars) /\ string \in [1..SIZE -> Nat]
  BY <1>1 DEF FormatInv, IsPrinting
<1>3. SIZE - 1 \in Nat /\ Result = Within(SIZE - 1, promise) /\ Result = Fitting(promise)
  BY <1>1, <1>2, ResultIs, FittingIs, FormatAssumption
<1> DEFINE r == Result
           w == serial_write(r)
<1>4. r \in Seq(Chars)
  BY <1>2, <1>3, WithinIs
<1> HIDE DEF r
<1>5. w \in Seq(Nat) /\ Unreturned(w) = r /\ Returned(w)
  BY <1>4, CharsAre, SentRight
<1>6. serial_text' = w
  BY <1>1 DEF r
<1> HIDE DEF w
<1>7. \A i \in DOMAIN w : w[i] = NEWLINE <=> i > 1 /\ w[i - 1] = RETURN
  BY <1>5 DEF Returned
<1>8. PrintedRight'
  <2>1. Fitting(promise)' = Fitting(promise)
    BY <1>1 DEF Fitting
  <2>2. dmesg_text' \in {<<>>, Fitting(promise)'}
    BY <1>1, <1>3, <2>1
  <2>3. Unreturned(serial_text)' = Fitting(promise)'
    <3>1. Unreturned(serial_text') = Fitting(promise)
      BY <1>3, <1>5, <1>6 DEF r
    <3> QED
      BY <2>1, <3>1 DEF Unreturned
  <2>4. \A i \in DOMAIN serial_text' : serial_text'[i] = NEWLINE <=> i > 1 /\ serial_text'[i - 1] = RETURN
    BY <1>6, <1>7
  <2> QED
    BY <2>2, <2>3, <2>4 DEF PrintedRight
<1>9. LostRight'
  <2>1. Damaged => Len(promise) > SIZE \/ spilled
    BY <1>1, DamagedIs
  <2> QED
    BY <1>1, <2>1 DEF LostRight
<1>10. Working' /\ StringRight'
  BY <1>1 DEF Working, StringRight, IsPrinting
<1> QED
  BY <1>1, <1>2, <1>8, <1>9, <1>10 DEF FormatInv

LEMMA LostKeeps == FormatInv /\ format_lost => FormatInv'
<1> SUFFICES ASSUME FormatInv, format_lost
             PROVE  FormatInv'
  OBVIOUS
<1>1. /\ IsPrinting(printer) /\ printer' = "lost" /\ Damaged
      /\ UNCHANGED <<spilled, promise, dmesg_text, serial_text, string>>
  BY DEF format_lost, IsPrinting
<1>2. /\ promise \in Seq(Chars) /\ string \in [1..SIZE -> Nat]
      /\ dmesg_text = <<>> /\ serial_text = <<>>
  BY <1>1 DEF FormatInv, IsPrinting
<1>3. LostRight'
  BY <1>1, DamagedIs DEF LostRight
<1>4. PrintedRight'
  <2>1. Unreturned(<<>>) = <<>>
    BY KeptAppend
  <2> QED
    BY <1>1, <1>2, <2>1 DEF PrintedRight
<1>5. Working' /\ StringRight'
  BY <1>1 DEF Working, StringRight, IsPrinting
<1> QED
  BY <1>1, <1>2, <1>3, <1>4, <1>5 DEF FormatInv

LEMMA StoredKeeps == FormatInv /\ sprintf => FormatInv'
<1> SUFFICES ASSUME FormatInv, sprintf
             PROVE  FormatInv'
  OBVIOUS
<1>1. /\ IsPrinting(printer) /\ printer' = "stored" /\ promise' = promise
      /\ dmesg_text = <<>> /\ serial_text = <<>> /\ dmesg_text' = dmesg_text /\ serial_text' = serial_text
      /\ string' = Result \o <<NUL_>> \o SubSeq(string, Len(Result) + 2, SIZE)
      /\ string \in [1..SIZE -> Nat]
  BY DEF sprintf, IsPrinting, FormatInv
<1>2. promise \in Seq(Chars) /\ SIZE \in Nat /\ SIZE >= 2 /\ SIZE - 1 \in Nat /\ Len(promise) \in Nat
  BY FormatAssumption DEF FormatInv
<1> DEFINE r == Result
           k == Len(r)
           tail == SubSeq(string, k + 2, SIZE)
           ended == Append(r, NUL_)
           s == ended \o tail
<1>3. r = Within(SIZE - 1, promise)
  BY <1>1, ResultIs
<1>4. /\ r \in Seq(Chars) /\ k = (IF Len(promise) <= SIZE - 1 THEN Len(promise) ELSE SIZE - 1)
      /\ \A i \in 1..k : r[i] = promise[i]
  BY <1>2, <1>3, WithinIs
<1> HIDE DEF r
<1>5. k \in Nat /\ k <= SIZE - 1 /\ k <= Len(promise) /\ r \in Seq(Nat)
  BY <1>2, <1>4, CharsAre
<1>6. tail \in Seq(Nat)
  <2>1. \A i \in (k + 2)..SIZE : string[i] \in Nat
    BY <1>1, <1>2, <1>5
  <2> QED
    BY <1>2, <1>5, <2>1, SubSeqProperties
<1>7. string' = s
  <2>1. r \o <<NUL_>> = ended
    BY <1>5 DEF NUL_
  <2> QED
    BY <1>1, <2>1 DEF r
<1> HIDE DEF tail
<1>8. ended \in Seq(Nat) /\ Len(ended) = k + 1 /\ ended[k + 1] = NUL_ /\ \A i \in 1..k : ended[i] = r[i]
  BY <1>5, AppendFacts DEF NUL_
<1> HIDE DEF ended
<1>9. s \in Seq(Nat) /\ Len(s) = k + 1 + Len(tail) /\ Len(tail) \in Nat /\ \A i \in 1..(k + 1) : s[i] = ended[i]
  <2>1. /\ s \in Seq(Nat) /\ Len(s) = Len(ended) + Len(tail) /\ Len(tail) \in Nat
        /\ \A i \in 1..Len(ended) : s[i] = ended[i]
    BY <1>6, <1>8, Joining
  <2> HIDE DEF k, s
  <2> QED
    BY <1>5, <1>8, <2>1
<1> HIDE DEF s
<1>10. s[k + 1] = NUL_ /\ \A i \in 1..k : s[i] = promise[i]
  <2>1. k + 1 \in 1..(k + 1) /\ \A i \in 1..k : i \in 1..(k + 1)
    BY <1>5
  <2> HIDE DEF k
  <2> QED
    BY <1>4, <1>8, <1>9, <2>1
<1>11. SubSeq(s, 1, k) = SubSeq(promise, 1, k)
  <2> DEFINE x == SubSeq(s, 1, k)
             y == SubSeq(promise, 1, k)
  <2>1. x \in Seq(Nat) /\ Len(x) = k /\ \A i \in 1..k : x[i] = s[i]
    <3>1. k <= Len(s)
      BY <1>5, <1>9
    <3> HIDE DEF k
    <3> QED
      BY <1>5, <1>9, <3>1, FirstFew
  <2>2. y \in Seq(Nat) /\ Len(y) = k /\ \A i \in 1..k : y[i] = promise[i]
    <3>1. promise \in Seq(Nat)
      BY <1>2, CharsAre
    <3> HIDE DEF k
    <3> QED
      BY <1>5, <3>1, FirstFew
  <2> HIDE DEF x, y
  <2>3. x = y
    BY <1>10, <2>1, <2>2, SeqEqual
  <2> QED
    BY <2>3 DEF x, y
<1>12. StringRight'
  <2>1. k + 1 \in 1..SIZE /\ (k + 1) - 1 = k
    BY <1>2, <1>5
  <2>2. k = IF Len(promise) < SIZE THEN Len(promise) ELSE SIZE - 1
    <3> HIDE DEF k
    <3> QED
      BY <1>2, <1>4
  <2> HIDE DEF k
  <2>3. /\ s[k + 1] = NUL_
        /\ SubSeq(s, 1, (k + 1) - 1) = Fitting(promise)
    BY <1>10, <1>11, <2>1, <2>2 DEF Fitting
  <2>4. \E end \in 1..SIZE :
           /\ s[end] = NUL_
           /\ SubSeq(s, 1, end - 1) = Fitting(promise)
    BY <2>1, <2>3
  <2>5. Fitting(promise)' = Fitting(promise)
    BY <1>1 DEF Fitting
  <2> QED
    BY <1>1, <1>7, <2>4, <2>5 DEF StringRight
<1>13. Working' /\ LostRight'
  BY <1>1 DEF Working, LostRight, IsPrinting
<1>14. PrintedRight'
  <2>1. Unreturned(<<>>) = <<>>
    BY KeptAppend
  <2> QED
    BY <1>1, <2>1 DEF PrintedRight
<1> QED
  BY <1>1, <1>2, <1>12, <1>13, <1>14 DEF FormatInv

\* What is printed is what the format stands for, as far as the buffer has
\* room, whatever its size and whatever the formats, those that run on behind
\* it included; and only those, and the library's decimal numbers, damage
\* memory that is not the routine's.
THEOREM PrintsTheFormat == FormatSpec => []FormatRight
<1>1. FormatInit => FormatInv
  BY FormatBegins
<1>2. FormatInv /\ [FormatNext]_format_vars => FormatInv'
  <2> SUFFICES ASSUME FormatInv, [FormatNext]_format_vars
               PROVE  FormatInv'
    OBVIOUS
  <2>1. CASE format_begin
    BY <2>1, BeginKeeps
  <2>2. CASE format_item
    BY <2>2, ItemKeeps
  <2>3. CASE format_end
    BY <2>3, EndKeeps
  <2>4. CASE sprintf
    BY <2>4, StoredKeeps
  <2>5. CASE format_lost
    BY <2>5, LostKeeps
  <2>6. CASE UNCHANGED format_vars
    <3>1. /\ printer' = printer /\ buffer' = buffer /\ promise' = promise /\ spilled' = spilled
          /\ dmesg_text' = dmesg_text /\ serial_text' = serial_text /\ string' = string
      BY <2>6 DEF format_vars
    <3>2. Fitting(promise)' = Fitting(promise)
      BY <3>1 DEF Fitting
    <3>3. Unreturned(serial_text)' = Unreturned(serial_text)
      BY <3>1 DEF Unreturned
    <3>4. PrintedRight /\ StringRight /\ LostRight => (PrintedRight /\ StringRight /\ LostRight)'
      BY <3>1, <3>2, <3>3 DEF PrintedRight, StringRight, LostRight
    <3>5. Working => Working'
      BY <3>1 DEF Working, Follows
    <3> QED
      BY <3>1, <3>4, <3>5 DEF FormatInv
  <2> QED
    BY <2>1, <2>2, <2>3, <2>4, <2>5, <2>6 DEF FormatNext
<1>3. FormatInv => FormatRight
  BY FormatHolds
<1> QED
  BY <1>1, <1>2, <1>3, PTL DEF FormatSpec

=============================================================================
