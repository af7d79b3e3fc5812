------------------------------- MODULE Keyboard -------------------------------
(***************************************************************************)
(* The PS/2 keyboard (kernel/drivers/keyboard/ps2-keyboard.c): an          *)
(* interrupt for each bit of a frame, the scancodes the frames carry, and  *)
(* the characters that come of them.                                       *)
(*                                                                         *)
(* The keyboard itself is external: what it sends when a key goes down or  *)
(* up, bit by bit without a pause inside a frame.  An interrupt may be     *)
(* lost.  A frame is received well when all its bits are in their places;  *)
(* otherwise any code may come out, which parity and the start and stop    *)
(* bits do not prevent: the handler only prints a message.                 *)
(***************************************************************************)
EXTENDS Integers, Sequences, SequencesExt

CONSTANTS
    Keys,          \* the keys that are used: not two of one modifier
    BITS,          \* bits of a frame, 11
    MaxEvents,     \* bound: keys that go down or up
    MaxLost        \* bound: interrupts that are lost, fewer than BITS

VARIABLES
    pressed,       \* keys that are down
    sending,       \* codes the keyboard still has to send
    pos,           \* bits of Head(sending) that were sent
    idle,          \* ticks since the last interrupt, 3 for more than 2
    tick_counter,  \* 0 until the first tick of the timer, then 1
    old_ticks,     \* the tick of the last interrupt, in the same way
    clock_bits, in_step, keyup, escape, pause,
    modifiers,     \* shift_state, alt_state, ctrl_state that are 1
    reported,      \* history: arguments of console_insert_char()
    meant,         \* history: what the released keys mean
    lost, slipped, \* history: lost interrupts; one since the last pause
                   \* that has a beginning, an interrupt after the first tick
    events

kbd_vars == <<pressed, sending, pos, idle, tick_counter, old_ticks, clock_bits, in_step, keyup, escape,
              pause, modifiers, reported, meant, lost, slipped, events>>

-----------------------------------------------------------------------------
(* Scancodes.  A key is a code with or without the high bit that stands    *)
(* for the escape 0xe0.                                                    *)

Plain(code)    == [code |-> code, extended |-> FALSE]
Extended(code) == [code |-> code, extended |-> TRUE]

KeyCode ==
    [a |-> Plain("1c"), one |-> Plain("16"), shift |-> Plain("12"),
     ctrl |-> Plain("14"), right_ctrl |-> Extended("14"), up |-> Extended("75"),
     pause |-> Plain("88")]

ASSUME KeyboardAssumption ==
    /\ Keys \subseteq DOMAIN KeyCode /\ ~({"ctrl", "right_ctrl"} \subseteq Keys)
    /\ BITS \in Nat \ {0} /\ MaxLost \in 0..(BITS - 1) /\ MaxEvents \in Nat

\* translate[]: letters are those that modifiers change.
translate ==
    [key \in {KeyCode[k] : k \in DOMAIN KeyCode} |->
        CASE key = KeyCode.a -> "letter"
          [] key = KeyCode.shift -> "K_SHFT"
          [] key \in {KeyCode.ctrl, KeyCode.right_ctrl} -> "K_CTRL"
          [] key = KeyCode.one -> "1"
          [] key = KeyCode.up -> "K_UP"
          [] key = KeyCode.pause -> "K_PAUSE"]

Meaning(key) == IF key \in DOMAIN translate THEN translate[key] ELSE "K_RSV"

\* What the keyboard sends; the pause key sends it all when it goes down.
DownCodes(k) ==
    IF k = "pause" THEN <<"e1", "14", "77", "e1", "f0", "14", "f0", "77">>
    ELSE IF KeyCode[k].extended THEN <<"e0", KeyCode[k].code>> ELSE <<KeyCode[k].code>>

UpCodes(k) ==
    IF k = "pause" THEN <<>>
    ELSE IF KeyCode[k].extended THEN <<"e0", "f0", KeyCode[k].code>>
    ELSE <<"f0", KeyCode[k].code>>

Codes == {"1c", "16", "12", "14", "75", "77", "f0", "e0", "e1"}

Mods(keys) ==
    (IF "shift" \in keys THEN {"K_SHFT"} ELSE {}) \union
    (IF keys \cap {"ctrl", "right_ctrl"} # {} THEN {"K_CTRL"} ELSE {})

\* Kept until an interrupt is lost.
Means(report) == IF lost = 0 THEN Append(meant, report) ELSE meant

\* The keyboard looks at its keys when it has sent all it had; the order of
\* its codes is the same if it did so earlier.
key_event(k) ==
    /\ events < MaxEvents /\ sending = <<>>
    /\ events' = events + 1
    /\ \/ /\ pressed' = pressed \union {k}      \* or it repeats
          /\ sending' = DownCodes(k)
          /\ meant' = IF k = "pause" THEN Means(<<"K_PAUSE", {}>>) ELSE meant
       \/ /\ k \in pressed
          /\ pressed' = pressed \ {k}
          /\ sending' = UpCodes(k)
          /\ meant' = IF k \in {"shift", "ctrl", "right_ctrl", "pause"} THEN meant
                      ELSE Means(<<Meaning(KeyCode[k]),
                                   IF k = "a" THEN Mods(pressed) ELSE {}>>)
    /\ UNCHANGED <<pos, idle, tick_counter, old_ticks, clock_bits, in_step, keyup,
                   escape, pause, modifiers, reported, lost, slipped>>

\* Time passes, but not inside a frame, which is shorter than a tick: as long
\* as the handler tolerates, or longer.
tick ==
    /\ pos = 0 /\ idle < 3
    /\ idle' \in {2, 3} \ {idle}
    /\ tick_counter' = 1
    /\ slipped' = IF idle' = 3 /\ old_ticks # 0 THEN FALSE ELSE slipped
    /\ UNCHANGED <<pressed, sending, pos, old_ticks, clock_bits, in_step, keyup, escape, pause,
                   modifiers, reported, meant, lost, events>>

-----------------------------------------------------------------------------
(* The handler                                                             *)

\* Letters are made capital, control characters, or both at once.
Report(ascii) == <<ascii, IF ascii = "letter" THEN modifiers ELSE {}>>

translate_key(key, down) ==
    LET ascii == Meaning(key) IN
    IF ascii \in {"K_SHFT", "K_CTRL"}
    THEN /\ modifiers' = IF down THEN modifiers \union {ascii} ELSE modifiers \ {ascii}
         /\ UNCHANGED reported
    ELSE /\ reported' = IF down THEN reported
                        ELSE IF lost = 0 THEN Append(reported, Report(ascii)) ELSE reported
         /\ UNCHANGED modifiers

\* Fault: an old beginning of a frame is kept.
TooLong_never == FALSE

\* old_ticks of 0 stands for no interrupt yet: then it is set to the present
\* first, and no time has passed, also when there was one before the first tick.
TooLong == old_ticks # 0 /\ idle > 2

\* Eleven bits are there: the code, a prefix or a key.
ps2_code(code) ==
    \/ /\ code = "f0"
       /\ keyup' = TRUE
       /\ UNCHANGED <<escape, pause, modifiers, reported>>
    \/ /\ code = "e0"
       /\ escape' = TRUE
       /\ UNCHANGED <<keyup, pause, modifiers, reported>>
    \/ /\ code = "e1"
       /\ pause' = 2
       /\ UNCHANGED <<keyup, escape, modifiers, reported>>
    \/ /\ code \notin {"f0", "e0", "e1"} /\ pause = 2
       /\ pause' = 1
       /\ UNCHANGED <<keyup, escape, modifiers, reported>>
    \/ /\ code \notin {"f0", "e0", "e1"} /\ pause # 2
       /\ LET key == IF pause = 1 THEN "88" ELSE code
          IN translate_key([code |-> key, extended |-> escape /\ key # "88"], ~keyup)
       /\ keyup' = FALSE /\ escape' = FALSE /\ pause' = 0

\* The keyboard's next bit, and the interrupt for it.
SendBit(history) ==
    /\ sending # <<>>
    /\ pos' = (pos + 1) % BITS
    /\ sending' = IF pos + 1 = BITS THEN Tail(sending) ELSE sending
    /\ meant' = history
    /\ UNCHANGED <<pressed, events>>

ps2_interrupt_handler ==
    LET bits == (IF TooLong THEN 0 ELSE clock_bits) + 1
        good == (IF TooLong \/ clock_bits = 0 THEN TRUE ELSE in_step) /\ bits = pos + 1
    IN /\ SendBit(meant)
       /\ idle' = 0
       /\ old_ticks' = tick_counter
       /\ UNCHANGED <<tick_counter, lost, slipped>>
       /\ \/ /\ bits < BITS
             /\ clock_bits' = bits
             /\ in_step' = good
             /\ UNCHANGED <<keyup, escape, pause, modifiers, reported>>
          \/ /\ bits = BITS
             /\ clock_bits' = 0
             /\ in_step' = TRUE
             /\ \E code \in Codes :
                    /\ good => code = Head(sending)
                    /\ ps2_code(code)

\* From here on the histories say nothing.
lost_interrupt ==
    /\ lost < MaxLost
    /\ SendBit(<<>>)
    /\ reported' = <<>>
    /\ lost' = lost + 1
    /\ slipped' = TRUE
    /\ UNCHANGED <<idle, tick_counter, old_ticks, clock_bits, in_step, keyup, escape,
                   pause, modifiers>>

KbdInit ==
    /\ pressed = {} /\ sending = <<>> /\ pos = 0 /\ idle = 0
    /\ tick_counter = 0 /\ old_ticks = 0
    /\ clock_bits = 0 /\ in_step = TRUE
    /\ keyup = FALSE /\ escape = FALSE /\ pause = 0
    /\ modifiers = {} /\ reported = <<>> /\ meant = <<>>
    /\ lost = 0 /\ slipped = FALSE /\ events = 0

KbdNext ==
    \/ \E k \in Keys : key_event(k)
    \/ tick
    \/ ps2_interrupt_handler
    \/ lost_interrupt

KbdSpec == KbdInit /\ [][KbdNext]_kbd_vars

-----------------------------------------------------------------------------
(* Properties                                                              *)

\* While no interrupt is lost what is reported is what was typed: each key at
\* its release, with the modifiers that are down then, however the keys
\* overlap and whatever prefixes come before.
AsTyped ==
    lost = 0 =>
        /\ IsPrefix(reported, meant)
        /\ sending = <<>> => reported = meant

\* ps2-keyboard.c, "out of sync": after a pause the handler counts the bits of
\* a frame as the keyboard does, whatever was lost before; but for a pause
\* that begins before the first tick, which it takes for none.
InStep == pos > 0 /\ ~slipped => clock_bits = pos /\ in_step

\* ps2-keyboard.c: keys come out as they are typed, and a lost interrupt harms
\* no frame behind the next pause that begins after the first tick.
KeysRight == AsTyped /\ InStep

=============================================================================
