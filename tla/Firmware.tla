-------------------------------- MODULE Firmware --------------------------------
(***************************************************************************)
(* The firmware's two mailboxes (drivers/firmware/mailbox.c), what is      *)
(* asked through them, the frame buffer and the temperature                *)
(* (framebuffer_init(), thermal_read()), and drawing in the frame buffer   *)
(* (drivers/framebuffer/framebuffer.c).                                    *)
(*                                                                         *)
(* A message lies on the stack of who asks.  The firmware, which is        *)
(* external, reads and answers it in memory, behind the data cache: of its *)
(* line there are the copy in memory and perhaps one in the cache, which   *)
(* the processor may fill when it likes, and give up when it likes.  The   *)
(* functions that are called have their frames below the message; where    *)
(* they share its line, their stores make it dirty again.  Interrupts are  *)
(* off in system calls, so there is one caller at a time.                  *)
(***************************************************************************)
EXTENDS Integers, Sequences

CONSTANTS
    Processors,    \* "armv7", "arm1176": how far flush_dcache() goes
    BOX,           \* messages in a mailbox
    Answers,       \* of the firmware: "answer", or "error", which has the top
                   \* bit of its code set as well, or for the frame buffer no pointer
    MaxMessages,   \* bound: messages
    MaxStrays,     \* bound: mail that nobody asked for
    Screens,       \* what the firmware gives: [w, h, pitch]
    FB_WIDTH,      \* 640
    Colors,        \* to draw with
    MaxDraws       \* bound: calls that draw

ASSUME FirmwareAssumption ==
    /\ BOX \in Nat \ {0} /\ MaxStrays \in Nat
    /\ MaxMessages \in 0..25     \* an address has the bits 4 to 29
    /\ Answers \subseteq {"answer", "error"}

ASSUME FrameAssumption ==
    /\ Screens \subseteq [w : Nat, h : Nat, pitch : Nat]
    /\ Colors \subseteq Nat /\ FB_WIDTH \in Nat \ {0} /\ MaxDraws \in Nat

VARIABLES
    mb_cpu,        \* one of Processors, or "none"
    mb_at,         \* "idle", or what the caller does next: "write", "read", "look"
    mb_who,        \* "framebuffer", "thermal"
    mb_frame,      \* number of the call, which says where its message is
    mb_shared,     \* do its callees store in the message's line?
    mb_memory,     \* the message in memory: "old", "request" or one of Answers
    mb_line,       \* and in the cache: [here, dirty, is]
    box1, box0,    \* what the firmware has to read; what it wrote: words
    mb_mail,       \* what mailbox_read() returned: "mail", or "failed"
    mb_result,     \* of the last call
    mb_answered,   \* history: the answer to this message, or "none"
    mb_strays,     \* history
    mb_late        \* history: an answer was written where no message is any more

mailbox_vars == <<mb_cpu, mb_at, mb_who, mb_frame, mb_shared, mb_memory, mb_line, box1, box0,
                  mb_mail, mb_result, mb_answered, mb_strays, mb_late>>

VARIABLES
    fb,            \* current_fb, and framebuffer_initialized
    pixels,        \* bytes of the offscreen buffer
    shown,         \* bytes of the frame buffer
    picture, wanted,  \* history: what was drawn, and what ought to be shown
    fb_outside,    \* history: bytes were stored behind the offscreen buffer
    fb_null,       \* history: or at address 0
    draws

frame_vars == <<fb, pixels, shown, picture, wanted, fb_outside, fb_null, draws>>

-----------------------------------------------------------------------------
(* The message and its cache line                                          *)

NotHere == [here |-> FALSE, dirty |-> FALSE, is |-> "old"]

Seen == IF mb_line.here THEN mb_line.is ELSE mb_memory

\* Cleaned and invalidated.
Flush ==
    /\ mb_memory' = IF mb_line.dirty THEN mb_line.is ELSE mb_memory
    /\ mb_line' = NotHere

\* A line is filled ahead of its use; is given up; gets another variable's store.
prefetch ==
    /\ ~mb_line.here /\ mb_at \in {"read", "look"}
    /\ mb_line' = [here |-> TRUE, dirty |-> FALSE, is |-> mb_memory]
    /\ UNCHANGED mb_memory

evict_line == mb_line.here /\ mb_at # "idle" /\ Flush

store_beside ==
    /\ mb_shared /\ mb_at \in {"read", "look"} /\ ~mb_line.dirty
    /\ mb_line' = [here |-> TRUE, dirty |-> TRUE, is |-> Seen]
    /\ UNCHANGED mb_memory

cache_moves ==
    /\ prefetch \/ evict_line \/ store_beside
    /\ UNCHANGED <<mb_cpu, mb_at, mb_who, mb_frame, mb_shared, box1, box0, mb_mail, mb_result,
                   mb_answered, mb_strays, mb_late, frame_vars>>

-----------------------------------------------------------------------------
(* mailbox.c                                                               *)

\* A word is the set of its bits that are 1.  Channels 1 and 8; messages lie
\* at multiples of 16 below 1 GB.
Channel_of(who) == IF who = "framebuffer" THEN {0} ELSE {3}
AddressOf(frame) == {4, 4 + frame}

firmware_phys_to_bus_address(addr) == addr \union (IF mb_cpu = "armv7" THEN {30, 31} ELSE {30})

\* The caller makes its message and is about to call mailbox_write().
ask(who) ==
    /\ mb_at = "idle" /\ mb_frame < MaxMessages /\ draws = 0
    /\ mb_frame' = mb_frame + 1
    /\ mb_cpu' \in IF mb_frame = 0 THEN Processors ELSE {mb_cpu}
    /\ mb_who' = who /\ mb_shared' \in BOOLEAN
    /\ mb_memory' = "old" /\ mb_line' = [here |-> TRUE, dirty |-> TRUE, is |-> "request"]
    /\ mb_at' = "write" /\ mb_answered' = "none"
    /\ UNCHANGED <<box1, box0, mb_mail, mb_result, mb_strays, mb_late, frame_vars>>

\* At boot (drivers.c:53), on the processor it is; and any time after it.
framebuffer_setup == mb_frame = 0 /\ ask("framebuffer")
thermal_read == mb_frame > 0 /\ ask("thermal")

\* Waits while the mailbox is full.  The message is aligned and the channels
\* have four bits, so that the other returns are not taken.
mailbox_write ==
    /\ mb_at = "write" /\ Len(box1) < BOX
    /\ Flush
    /\ box1' = Append(box1, firmware_phys_to_bus_address(AddressOf(mb_frame)) \union Channel_of(mb_who))
    /\ mb_at' = "read"
    /\ UNCHANGED <<mb_cpu, mb_who, mb_frame, mb_shared, box0, mb_mail, mb_result, mb_answered,
                   mb_strays, mb_late, frame_vars>>

\* Does flush_dcache() at the address in a mail reach the message?  On armv7
\* it empties the whole cache.
Reaches(addr) == mb_cpu = "armv7" \/ addr = AddressOf(mb_frame)

\* Waits while it is empty.  Mail on another channel is taken out as well.
mailbox_read ==
    /\ mb_at = "read" /\ box0 # <<>>
    /\ LET channel_read == Head(box0) \intersect 0..3
           mail == Head(box0) \intersect 4..29
       IN /\ IF Reaches(mail) THEN Flush ELSE UNCHANGED <<mb_memory, mb_line>>
          /\ mb_mail' = IF channel_read # Channel_of(mb_who) THEN "failed" ELSE "mail"
    /\ box0' = Tail(box0)
    /\ mb_at' = "look"
    /\ UNCHANGED <<mb_cpu, mb_who, mb_frame, mb_shared, box1, mb_result, mb_answered,
                   mb_strays, mb_late, frame_vars>>

\* The firmware (external) takes a message, and answers it where it is if it
\* finds one there.
firmware ==
    /\ box1 # <<>> /\ Len(box0) < BOX
    /\ box1' = Tail(box1) /\ box0' = Append(box0, Head(box1))
    /\ IF mb_at # "idle" /\ Head(box1) \ (0..3) = firmware_phys_to_bus_address(AddressOf(mb_frame))
       THEN /\ \E answer \in Answers :
                  /\ mb_memory' = IF mb_memory = "request" THEN answer ELSE mb_memory
                  /\ mb_answered' = IF mb_memory = "request" THEN answer ELSE "none"
            /\ UNCHANGED mb_late
       ELSE mb_late' = TRUE /\ UNCHANGED <<mb_memory, mb_answered>>
    /\ UNCHANGED <<mb_cpu, mb_at, mb_who, mb_frame, mb_shared, mb_line, mb_mail, mb_result,
                   mb_strays, frame_vars>>

\* The firmware has something to say by itself.
stray ==
    /\ mb_strays < MaxStrays /\ Len(box0) < BOX
    /\ mb_strays' = mb_strays + 1
    /\ box0' = Append(box0, {})
    /\ UNCHANGED <<mb_cpu, mb_at, mb_who, mb_frame, mb_shared, mb_memory, mb_line, box1, mb_mail,
                   mb_result, mb_answered, mb_late, frame_vars>>

\* The caller looks at its message.  The temperature is there when the top bit
\* of the code says so; what mailbox_read() returned is not looked at.
thermal_look ==
    /\ mb_at = "look" /\ mb_who = "thermal"
    /\ mb_result' = IF Seen \in Answers THEN Seen ELSE "failed"
    /\ UNCHANGED frame_vars

NoPicture == [x \in {} |-> 0]
Bytes_of(screen) == 0..(screen.w * screen.h * 3 - 1)
Places_of(screen) == (0..(screen.w - 1)) \X (0..(screen.h - 1))

\* NULL when mailbox_read() failed.  Otherwise the message is believed: its
\* sizes even if it has no pointer; there is a buffer, ready, if it has one.
framebuffer_look ==
    /\ mb_at = "look" /\ mb_who = "framebuffer"
    /\ IF mb_mail = "failed" THEN mb_result' = "failed" /\ UNCHANGED frame_vars
       ELSE /\ mb_result' = IF Seen = "answer" THEN Seen ELSE "failed"
            /\ \E screen \in Screens :
                  /\ fb' = [w |-> screen.w, h |-> screen.h, pitch |-> screen.pitch, ready |-> Seen = "answer"]
                  /\ pixels' = [o \in Bytes_of(screen) |-> 0] /\ shown' = [o \in Bytes_of(screen) |-> 0]
                  /\ picture' = [p \in Places_of(screen) |-> 0] /\ wanted' = [p \in Places_of(screen) |-> 0]
            /\ UNCHANGED <<fb_outside, fb_null, draws>>

look ==
    /\ thermal_look \/ framebuffer_look
    /\ mb_at' = "idle" /\ mb_line' = NotHere /\ mb_memory' = "old"
    /\ UNCHANGED <<mb_cpu, mb_who, mb_frame, mb_shared, box1, box0, mb_mail, mb_answered, mb_strays, mb_late>>

Mailbox_step ==
    framebuffer_setup \/ thermal_read \/ mailbox_write \/ mailbox_read \/ look \/ firmware \/ stray \/ cache_moves

-----------------------------------------------------------------------------
(* framebuffer.c                                                           *)

Shifted(color, k) ==
    CASE k = 0 -> color [] k = 1 -> color \div 256 [] k = 2 -> (color \div 256) \div 256
Component(color, k) == Shifted(color, k) % 256

\* Where a pixel's bytes go: blue, green, red.
Offset(x, y, k) == (y * fb.pitch) + (x * 3) + k

\* framebuffer_putpixel(), and the bodies of the other loops: pixels and their
\* colours.  Without a buffer they go to address 0.
Stored(colors) ==
    LET bytes == {<<p, k>> : p \in DOMAIN colors, k \in 0..2}
        At(b) == Offset(b[1][1], b[1][2], b[2])
    IN IF fb.ready
       THEN /\ pixels' = [o \in DOMAIN pixels |->
                  IF \E b \in bytes : At(b) = o
                  THEN LET b == CHOOSE b \in bytes : At(b) = o IN Component(colors[b[1]], b[2])
                  ELSE pixels[o]]
            /\ fb_outside' = (fb_outside \/ \E b \in bytes : At(b) \notin DOMAIN pixels)
            /\ UNCHANGED fb_null
       ELSE /\ fb_null' = (fb_null \/ DOMAIN colors # {})
            /\ UNCHANGED <<pixels, fb_outside>>

Row(y, x0, x1, color) == [p \in {<<x, y>> : x \in x0..(x1 - 1)} |-> color]
Column(x, y0, y1, color) == [p \in {<<x, y>> : y \in y0..(y1 - 1)} |-> color]

Painted(old, colors) == [p \in DOMAIN old |-> IF p \in DOMAIN colors THEN colors[p] ELSE old[p]]

Draws(colors) == Stored(colors) /\ picture' = Painted(picture, colors) /\ UNCHANGED <<shown, wanted>>

\* Lines are drawn by the console, when the frame buffer is ready.
framebuffer_hline ==
    /\ fb.ready
    /\ \E color \in Colors, y \in 0..(fb.h - 1), x0, x1 \in 0..fb.w :
          x0 < x1 /\ Draws(Row(y, x0, x1, color))

framebuffer_vline ==
    /\ fb.ready
    /\ \E color \in Colors, x \in 0..(fb.w - 1), y0, y1 \in 0..fb.h :
          y0 < y1 /\ Draws(Column(x, y0, y1, color))

\* framebuffer_clear_screen(), of escape sequences and of setfont().
Rows(color) == [p \in (0..(fb.w - 1)) \X (0..(fb.h - 1)) |-> color]

framebuffer_clear_screen == \E color \in Colors : Draws(Rows(color))

\* memcpy() of w * h * 3 bytes, wherever the pointer leads.
Pushed(bytes) == [o \in DOMAIN shown |-> bytes[o]]

framebuffer_push ==
    /\ fb.ready
    /\ shown' = Pushed(pixels) /\ wanted' = picture
    /\ UNCHANGED <<pixels, picture, fb_outside, fb_null>>

\* Each column to the row above the last, then it is shown.  Its system call
\* does not ask whether there is a frame buffer.
Shade(x) == (x * 256) \div FB_WIDTH

Gradient == [p \in (0..(fb.w - 1)) \X (0..(fb.h - 2)) |-> Shade(p[1])]

framebuffer_gradient ==
    /\ Stored(Gradient)
    /\ shown' = IF fb.ready THEN Pushed(pixels') ELSE shown
    /\ picture' = [p \in DOMAIN picture |-> IF p[2] < fb.h - 1 THEN Shade(p[1]) ELSE picture[p]]
    /\ wanted' = picture'

\* The program's picture, of one colour, is shown without being drawn.
framebuffer_load ==
    /\ \E color \in Colors :
          /\ shown' = IF fb.ready THEN [o \in DOMAIN shown |-> Component(color, o % 3)] ELSE shown
          /\ wanted' = [p \in DOMAIN wanted |-> color]
    /\ fb_null' = (fb_null \/ (~fb.ready /\ fb.w * fb.h > 0))
    /\ UNCHANGED <<pixels, picture, fb_outside>>

Frame_step ==
    /\ mb_at = "idle" /\ mb_frame = 1 /\ draws < MaxDraws
    /\ draws' = draws + 1
    /\ \/ framebuffer_hline \/ framebuffer_vline \/ framebuffer_clear_screen
       \/ framebuffer_push \/ framebuffer_gradient \/ framebuffer_load
    /\ UNCHANGED <<fb, mailbox_vars>>

FirmwareInit ==
    /\ mb_cpu = "none"
    /\ mb_at = "idle" /\ mb_who = "framebuffer" /\ mb_frame = 0 /\ mb_shared = FALSE
    /\ mb_memory = "old" /\ mb_line = NotHere
    /\ box1 = <<>> /\ box0 = <<>> /\ mb_mail = "failed" /\ mb_result = "none" /\ mb_answered = "none"
    /\ mb_strays = 0 /\ mb_late = FALSE
    /\ fb = [w |-> 0, h |-> 0, pitch |-> 0, ready |-> FALSE]
    /\ pixels = NoPicture /\ shown = NoPicture /\ picture = NoPicture /\ wanted = NoPicture
    /\ fb_outside = FALSE /\ fb_null = FALSE /\ draws = 0

FirmwareNext == Mailbox_step \/ Frame_step

FirmwareSpec == FirmwareInit /\ [][FirmwareNext]_<<mailbox_vars, frame_vars>>

-----------------------------------------------------------------------------
(* Properties                                                              *)

\* What a call returns is the firmware's answer to its own message, or that it
\* failed (mailbox.c:46-156, thermal.c:40-82).  It has the answer, both
\* mailboxes are empty again and nothing is written behind its back, as long
\* as the firmware only speaks when it is asked and nobody stores beside the
\* message.
MailRight ==
    mb_at = "idle" /\ mb_frame > 0 =>
        /\ mb_result # "failed" => mb_result = mb_answered
        /\ mb_strays = 0 /\ ~mb_shared =>
              /\ mb_answered # "none"
              /\ mb_result = mb_answered \/ (mb_who = "framebuffer" /\ mb_answered = "error")
              /\ box1 = <<>> /\ box0 = <<>>
        /\ mb_strays = 0 => ~mb_late

\* With rows that follow each other, what is shown is what was drawn when it
\* was last pushed, or loaded since, and no byte goes elsewhere
\* (framebuffer.c:161-286).  Before there is a frame buffer nothing is stored
\* anywhere, unless the firmware answered without a pointer.
FrameRight ==
    /\ fb.ready /\ fb.pitch = 3 * fb.w =>
          /\ ~fb_outside
          /\ \A p \in DOMAIN picture, k \in 0..2 :
                /\ pixels[Offset(p[1], p[2], k)] = Component(picture[p], k)
                /\ shown[Offset(p[1], p[2], k)] = Component(wanted[p], k)
    /\ fb_null => fb.w > 0 /\ ~fb.ready

=============================================================================
