------------------------------- MODULE Terminal -------------------------------
(***************************************************************************)
(* What is between a person and a program: keys become characters          *)
(* (Keyboard), characters become lines that readers get (Console), what a  *)
(* program prints becomes text (Format) and text a screen (Screen); the    *)
(* ports that bytes come and go by, and their pins (Ports); and what is    *)
(* heard: songs on a sound chip (Music).  As in Platform the parts share   *)
(* no variable and a run is a run of one of them.                          *)
(***************************************************************************)
EXTENDS Console, Keyboard, Screen, Format, Ports, Music

VARIABLE part

text_vars == <<vars, kbd_vars, screen_vars, format_vars>>
sound_vars == <<music_vars, chip_vars>>
terminal_vars == <<part, text_vars, port_vars, sound_vars>>

TerminalInit ==
    /\ part \in {"console", "keyboard", "screen", "format", "bus", "serial", "pins",
                "music", "chip"}
    /\ Init /\ KbdInit /\ ScreenInit /\ FormatInit /\ PortsInit /\ MusicInit /\ ChipInit

Console_step  == part = "console" /\ Next /\ UNCHANGED <<kbd_vars, screen_vars, format_vars>>
Keyboard_step == part = "keyboard" /\ KbdNext /\ UNCHANGED <<vars, screen_vars, format_vars>>
Screen_step   == part = "screen" /\ ScreenNext /\ UNCHANGED <<vars, kbd_vars, format_vars>>
Format_step   == part = "format" /\ FormatNext /\ UNCHANGED <<vars, kbd_vars, screen_vars>>
Text_step     == Console_step \/ Keyboard_step \/ Screen_step \/ Format_step

Bus_step      == part = "bus" /\ BusNext /\ UNCHANGED <<uart_vars, gpio_vars>>
Serial_step   == part = "serial" /\ UartNext /\ UNCHANGED <<bus_vars, gpio_vars>>
Pins_step     == part = "pins" /\ PinsNext /\ UNCHANGED <<bus_vars, uart_vars>>
Port_step     == Bus_step \/ Serial_step \/ Pins_step

Music_step    == part = "music" /\ MusicNext /\ UNCHANGED chip_vars
Chip_step     == part = "chip" /\ ChipNext /\ UNCHANGED music_vars
Sound_step    == Music_step \/ Chip_step

TerminalNext ==
    /\ \/ Text_step /\ UNCHANGED <<port_vars, sound_vars>>
       \/ Port_step /\ UNCHANGED <<text_vars, sound_vars>>
       \/ Sound_step /\ UNCHANGED <<text_vars, port_vars>>
    /\ UNCHANGED part

TerminalSpec == TerminalInit /\ [][TerminalNext]_terminal_vars

-----------------------------------------------------------------------------

\* A song is heard as its lines say, for as long as they last, and the chip
\* sounds as its registers say (pt3_lib.c, chiptune.c, ay8912.c).
MusicRight ==
    /\ TablesRight
    /\ part = "music" => HeardRight /\ SlidesRight /\ FrameRight /\ LengthRight
    /\ part = "chip" => ChipRight

=============================================================================
