--------------------------------- MODULE Music ---------------------------------
(***************************************************************************)
(* The song player (userspace/pt3_lib.c, userspace/chiptune.c): lines of a *)
(* song, which are commands in bytes, are decoded for three channels, and  *)
(* every frame gives the registers of the sound chip.                      *)
(*                                                                         *)
(* A line is a record of what it says; LineBytes is the byte format.  What *)
(* a channel's next line is, is chosen when it is decoded, so a song is    *)
(* any sequence of the lines in LinesOf.  A frame is a step, and NextBuffer*)
(* does in it what chiptune.c does between two sound buffers; the sound    *)
(* itself is below.  A line has at most one effect: of two, decoding skips *)
(* only the last one's parameters, and is lost from there on.              *)
(***************************************************************************)
EXTENDS Integers, Sequences, FiniteSets, SequencesExt, FiniteSetsExt

-----------------------------------------------------------------------------
(***************************************************************************)
(* The tables of the song player (userspace/pt3_lib.c): it makes them from *)
(* twelve periods and a correction bit for each note, and by repeated      *)
(* addition.  The tables that they replaced are still in the source.       *)
(***************************************************************************)

(* A volume and an amplitude, 0 to 15 each, give an amplitude.             *)

\* The increment of row v; the row behind 0x77 gets one more.
Increment(which) ==
    LET de[v \in 0..15] ==
            IF v = 0 THEN 16 * which
            ELSE de[v - 1] + (17 - which) + (IF de[v - 1] % 256 = 119 THEN 1 ELSE 0)
    IN de

\* pt3_setup_volume_table(): 1 before version 5, 0 from there on, where the
\* bit below the result is added.
VolumeTable(which) ==
    [v \in 0..15 |-> [c \in 0..15 |->
        LET hl == c * Increment(which)[v]
        IN IF v = 0 THEN 0
           ELSE ((hl \div 256) + (IF which = 0 THEN (hl \div 128) % 2 ELSE 0)) % 256]]

(* A note, 0 to 95, gives a period.                                        *)

Notes == 0..95

base0_v3 == <<3105, 2931, 2766, 2611, 2464, 2326, 2195, 2072, 1956, 1846, 1742, 1645>>
base0_v4 == <<3106, 2931, 2767, 2611, 2465, 2327, 2196, 2073, 1956, 1847, 1743, 1645>>
base1    == <<3832, 3600, 3424, 3200, 3032, 2856, 2696, 2544, 2400, 2272, 2136, 2016>>
base2_v3 == <<3390, 3200, 3020, 2850, 2690, 2540, 2396, 2262, 2136, 2016, 1902, 1796>>
base2_v4 == <<3344, 3157, 2980, 2812, 2655, 2506, 2365, 2232, 2107, 1989, 1877, 1772>>
base3    == <<3290, 3106, 2931, 2767, 2611, 2465, 2327, 2196, 2073, 1956, 1847, 1743>>

table0_v4_adjust == <<64, 230, 156, 102, 64, 44, 32, 48, 72, 108, 28, 90>>
table2_v3_adjust == <<248, 128, 144, 192, 4, 240, 248, 236, 224, 192, 252, 64>>
table2_v4_adjust == <<32, 168, 64, 248, 188, 144, 120, 112, 116, 8, 42, 80>>
table3_v4_adjust == <<180, 64, 230, 156, 102, 64, 44, 32, 48, 72, 108, 28>>

\* Each octave has half the periods of the one below.
NoteTablePropogate(base) == [n \in Notes |-> base[(n % 12) + 1] \div 2^(n \div 12)]

\* Bit k of a correction is octave k's.
NoteTableAdjust(adjust, Tone) ==
    [n \in Notes |-> Tone[n] + ((adjust[(n % 12) + 1] \div 2^(n \div 12)) % 2)]

\* pt3_init_song(), by the number in the header and the version.
frequency_table(which, version) ==
    CASE which = 0 /\ version <= 3 -> NoteTablePropogate(base0_v3)
      [] which = 0 /\ version > 3 -> NoteTableAdjust(table0_v4_adjust, NoteTablePropogate(base0_v4))
      [] which = 1 -> [NoteTablePropogate(base1) EXCEPT ![23] = @ + 13, ![46] = @ - 1]
      [] which = 2 /\ version <= 3 ->
            [NoteTableAdjust(table2_v3_adjust, NoteTablePropogate(base2_v3))
                EXCEPT ![86] = @ + 1, ![87] = @ + 1]
      [] which = 2 /\ version > 3 -> NoteTableAdjust(table2_v4_adjust, NoteTablePropogate(base2_v4))
      [] which > 2 /\ version <= 3 ->
            [NoteTableAdjust(table3_v4_adjust, NoteTablePropogate(base3)) EXCEPT ![43] = @ + 1]
      [] OTHER -> NoteTableAdjust(table3_v4_adjust, NoteTablePropogate(base3))

-----------------------------------------------------------------------------
(* The tables that were there before                                       *)

PT3NoteTable_PT_33_34r == <<
    3105, 2931, 2766, 2611, 2464, 2326, 2195, 2072, 1956, 1846, 1742, 1645, 1552, 1465, 1383, 1305,
    1232, 1163, 1097, 1036, 978, 923, 871, 822, 776, 732, 691, 652, 616, 581, 548, 518,
    489, 461, 435, 411, 388, 366, 345, 326, 308, 290, 274, 259, 244, 230, 217, 205,
    194, 183, 172, 163, 154, 145, 137, 129, 122, 115, 108, 102, 97, 91, 86, 81,
    77, 72, 68, 64, 61, 57, 54, 51, 48, 45, 43, 40, 38, 36, 34, 32,
    30, 28, 27, 25, 24, 22, 21, 20, 19, 18, 17, 16, 15, 14, 13, 12>>

PT3NoteTable_PT_34_35 == <<
    3106, 2931, 2767, 2611, 2465, 2327, 2196, 2073, 1956, 1847, 1743, 1645, 1553, 1466, 1383, 1306,
    1232, 1163, 1098, 1036, 978, 923, 871, 823, 776, 733, 692, 653, 616, 582, 549, 518,
    489, 462, 436, 411, 388, 366, 346, 326, 308, 291, 274, 259, 245, 231, 218, 206,
    194, 183, 173, 163, 154, 145, 137, 130, 122, 115, 109, 103, 97, 92, 86, 82,
    77, 73, 69, 65, 61, 58, 54, 51, 49, 46, 43, 41, 39, 36, 34, 32,
    31, 29, 27, 26, 24, 23, 22, 20, 19, 18, 17, 16, 15, 14, 13, 12>>

PT3NoteTable_ST == <<
    3832, 3600, 3424, 3200, 3032, 2856, 2696, 2544, 2400, 2272, 2136, 2016, 1916, 1800, 1712, 1600,
    1516, 1428, 1348, 1272, 1200, 1136, 1068, 1021, 958, 900, 856, 800, 758, 714, 674, 636,
    600, 568, 534, 504, 479, 450, 428, 400, 379, 357, 337, 318, 300, 284, 266, 252,
    239, 225, 214, 200, 189, 178, 168, 159, 150, 142, 133, 126, 119, 112, 107, 100,
    94, 89, 84, 79, 75, 71, 66, 63, 59, 56, 53, 50, 47, 44, 42, 39,
    37, 35, 33, 31, 29, 28, 26, 25, 23, 22, 21, 19, 18, 17, 16, 15>>

PT3NoteTable_ASM_34r == <<
    3390, 3200, 3020, 2850, 2690, 2540, 2396, 2262, 2136, 2016, 1902, 1796, 1695, 1600, 1510, 1425,
    1345, 1270, 1198, 1131, 1068, 1008, 951, 898, 847, 800, 755, 712, 673, 635, 599, 566,
    534, 504, 476, 449, 424, 400, 377, 356, 336, 317, 300, 283, 267, 252, 238, 224,
    212, 200, 189, 178, 168, 159, 150, 141, 133, 126, 119, 112, 106, 100, 94, 89,
    84, 80, 75, 71, 67, 63, 60, 56, 53, 50, 47, 45, 42, 40, 38, 36,
    34, 32, 30, 29, 27, 26, 25, 24, 21, 20, 19, 18, 17, 16, 15, 14>>

PT3NoteTable_ASM_34_35 == <<
    3344, 3157, 2980, 2812, 2655, 2506, 2365, 2232, 2107, 1989, 1877, 1772, 1672, 1578, 1490, 1406,
    1327, 1253, 1182, 1116, 1053, 994, 939, 886, 836, 789, 745, 703, 664, 626, 591, 558,
    527, 497, 469, 443, 418, 395, 372, 352, 332, 313, 296, 279, 263, 249, 235, 221,
    209, 197, 186, 176, 166, 157, 148, 140, 132, 124, 117, 111, 105, 99, 93, 88,
    83, 78, 74, 70, 66, 62, 59, 55, 52, 49, 47, 44, 41, 39, 37, 35,
    33, 31, 29, 28, 26, 25, 23, 22, 21, 20, 18, 17, 16, 15, 14, 13>>

PT3NoteTable_REAL_34r == <<
    3290, 3106, 2931, 2767, 2611, 2465, 2327, 2196, 2073, 1956, 1847, 1743, 1645, 1553, 1466, 1383,
    1306, 1232, 1163, 1098, 1036, 978, 923, 871, 823, 776, 733, 692, 653, 616, 582, 549,
    518, 489, 462, 436, 411, 388, 366, 346, 326, 308, 291, 275, 259, 245, 231, 218,
    206, 194, 183, 173, 163, 154, 145, 137, 130, 122, 115, 109, 103, 97, 92, 86,
    82, 77, 73, 69, 65, 61, 58, 54, 51, 49, 46, 43, 41, 39, 36, 34,
    32, 31, 29, 27, 26, 24, 23, 22, 20, 19, 18, 17, 16, 15, 14, 13>>

\* "ONLY DIFFERENCE IS 0x113 -> 0x112"
PT3NoteTable_REAL_34_35 == [PT3NoteTable_REAL_34r EXCEPT ![44] = 274]

Replaced(which, version) ==
    CASE which = 0 -> IF version <= 3 THEN PT3NoteTable_PT_33_34r ELSE PT3NoteTable_PT_34_35
      [] which = 1 -> PT3NoteTable_ST
      [] which = 2 -> IF version <= 3 THEN PT3NoteTable_ASM_34r ELSE PT3NoteTable_ASM_34_35
      [] OTHER -> IF version <= 3 THEN PT3NoteTable_REAL_34r ELSE PT3NoteTable_REAL_34_35

\* PT3VolumeTable_33_34 and PT3VolumeTable_35: v + 1 sixteenths of the
\* amplitude, and from version 5 on v fifteenths, rounded.
Replaced_volume(which, v, c) ==
    IF which = 1 THEN (IF v = 0 THEN 0 ELSE ((v + 1) * c) \div 16)
    ELSE (2 * v * c + 15) \div 30

\* The tables that are made are those that they replaced (pt3_lib.c:1208).
TablesRight ==
    /\ \A which \in 0..4, version \in 0..9 :
          \A n \in Notes : frequency_table(which, version)[n] = Replaced(which, version)[n + 1]
    /\ \A which \in 0..1, v \in 0..15, c \in 0..15 : VolumeTable(which)[v][c] = Replaced_volume(which, v, c)

-----------------------------------------------------------------------------
(* The player                                                              *)

CONSTANTS
    Channels,         \* of the chip, in order
    LinesOf,          \* by channel: the lines it may have
    SampleData,       \* by number: [loop, steps], a step is [b0, b1, tone]
    OrnamentData,     \* by number: [loop, steps]
    WhichTable, Version, Speed,      \* in the header of the song
    PatternLines,     \* 64
    MusicLen,         \* patterns
    MaxFrames         \* bound: frames

ASSUME MusicAssumption ==
    /\ \A k \in DOMAIN SampleData : Len(SampleData[k].steps) > 0
    /\ \A k \in DOMAIN OrnamentData : Len(OrnamentData[k].steps) > 0
    /\ \A ch \in DOMAIN LinesOf : \A l \in LinesOf[ch] : Len(l.effects) <= 1
    /\ Speed \in 1..255 /\ PatternLines \in Nat \ {0} /\ {MusicLen, MaxFrames} \subseteq Nat

VARIABLES
    note_of,          \* pt3_note_type of each channel
    song,             \* the rest of pt3_song_t
    line, subframe, current_pattern, song_done,
    frame,            \* the registers
    heard,            \* history: what the lines said, by channel
    decoded,          \* history: the last line's bytes were used up
    started,          \* history: the shape of an envelope that the last line set
    counted, played, ended_early  \* history: frames that pt3_calc_frames() counts; those played

music_vars == <<note_of, song, line, subframe, current_pattern, song_done, frame,
                heard, decoded, started, counted, played, ended_early>>

Unsigned8(n) == n % 256
Signed8(n)   == ((n + 128) % 256) - 128
Signed16(n)  == ((n + 32768) % 65536) - 32768

VolumeOf  == VolumeTable(IF Version <= 4 THEN 1 ELSE 0)
PeriodOf  == frequency_table(WhichTable, Version)

-----------------------------------------------------------------------------
(* The format                                                              *)

\* What a line may have for a note: nothing new, silence, the pattern's end.
Rest == 96
Off  == 97
End  == 98

\* The bytes of a line: the commands, the note, and what effects need.
Instrument(i) ==
    CASE i.kind = "keep"     -> <<>>
      [] i.kind = "sample"   -> <<208 + i.sample>>
      [] i.kind = "ornament" -> <<64 + i.ornament>>
      [] i.kind = "both"     -> <<240 + i.ornament, 2 * i.sample>>
      [] i.kind = "env_off"  -> <<176>>
      [] i.kind = "envelope" -> <<177 + i.shape, i.period \div 256, i.period % 256>>
      [] i.kind = "env_sample" -> <<16 + i.shape, i.period \div 256, i.period % 256, 2 * i.sample>>
      [] OTHER               -> <<16, 2 * i.sample>>      \* sample alone, and no envelope
LineBytes(l) ==
    Instrument(l.instrument)
      \o (IF l.length = 0 THEN <<>> ELSE <<177, l.length>>)
      \o (IF l.volume = 0 THEN <<>> ELSE <<192 + l.volume>>)
      \o (IF l.noise = 0 THEN <<>> ELSE <<32 + l.noise>>)
      \o [k \in DOMAIN l.effects |-> l.effects[k][1]]
      \o (CASE l.note = Rest -> <<208>> [] l.note = Off -> <<192>> [] l.note = End -> <<0>>
            [] OTHER -> <<80 + l.note>>)
      \o (IF l.effects = <<>> THEN <<>> ELSE Tail(l.effects[1]))

-----------------------------------------------------------------------------
(* decode_note()                                                           *)

\* What a note and silence reset.
Restarted(c) ==
    [c EXCEPT !.sample_position = 0, !.ornament_position = 0, !.amplitude_sliding = 0,
              !.noise_sliding = 0, !.envelope_sliding = 0, !.tone_slide_count = 0,
              !.tone_sliding = 0, !.tone_accumulator = 0, !.onoff = 0]

\* d is a decoder: the channel, the song, the bytes ahead, and the effect.
Enveloped(d, shape) ==
    [d EXCEPT !.song.envelope_type_old = 120, !.song.envelope_type = shape,
              !.song.envelope_period = 256 * d.ahead[2] + d.ahead[3],
              !.song.envelope_slide = 0, !.song.envelope_delay = 0,
              !.c.envelope_enabled = TRUE, !.ahead = Tail(Tail(@))]
Next_byte(d) == [d EXCEPT !.ahead = Tail(@)]
With_sample(d, s) == [d EXCEPT !.c.sample = s]

\* One command, to its last byte but one.
Command(d) ==
    LET b == Head(d.ahead)  high == b \div 16  low == b % 16
        sampled(e) == With_sample(Next_byte(e), e.ahead[2] \div 2)
    IN CASE b = 0 -> [d EXCEPT !.c.len_count = 0, !.c.all_done = TRUE, !.done = TRUE]
         [] high = 0 /\ low # 0 -> [d EXCEPT !.effect = low]
         [] high = 1 ->
               [sampled(IF low = 0 THEN [d EXCEPT !.c.envelope_enabled = FALSE] ELSE Enveloped(d, low))
                  EXCEPT !.c.ornament_position = 0]
         [] high \in {2, 3} -> [d EXCEPT !.song.noise_period = b - 32]
         [] high = 4 -> [d EXCEPT !.c.ornament = low, !.c.ornament_position = 0]
         [] high \in 5..10 -> [d EXCEPT !.c = [Restarted(@) EXCEPT !.note = b - 80, !.enabled = TRUE],
                                        !.done = TRUE]
         [] b = 176 -> [d EXCEPT !.c.envelope_enabled = FALSE, !.c.ornament_position = 0]
         [] b = 177 -> [Next_byte(d) EXCEPT !.c.len = d.ahead[2], !.c.len_count = d.ahead[2]]
         [] high = 11 /\ low > 1 -> [Enveloped(d, low - 1) EXCEPT !.c.ornament_position = 0]
         [] b = 192 -> [d EXCEPT !.c = [Restarted(@) EXCEPT !.enabled = FALSE], !.done = TRUE]
         [] high = 12 /\ low # 0 -> [d EXCEPT !.c.volume = low]
         [] b = 208 -> [d EXCEPT !.done = TRUE]
         [] high = 13 /\ low # 0 -> With_sample(d, low)
         [] high = 14 -> With_sample(d, b - 208)
         [] OTHER -> sampled([d EXCEPT !.c.envelope_enabled = FALSE, !.c.ornament_position = 0,
                                       !.c.ornament = low])

RECURSIVE Commands(_)
Commands(d) ==
    LET e == Next_byte(Command([d EXCEPT !.c.len_count = d.c.len]))
    IN IF e.done THEN e ELSE Commands(e)

Skip(d, n) == [d EXCEPT !.ahead = SubSeq(@, n + 1, Len(@))]

\* From the note before, by what is left of its slide: the step goes the way
\* to the new note.
Portamento(d, before) ==
    LET given == Signed16(d.ahead[4] + 256 * d.ahead[5])
        step  == IF given < 0 THEN Signed16(-given) ELSE given
        delta == Signed16(PeriodOf[d.c.note] - PeriodOf[before.note])
        sliding == IF Version >= 6 THEN before.tone_sliding ELSE d.c.tone_sliding
    IN [Skip(d, 5) EXCEPT
          !.c.simplegliss = FALSE, !.c.onoff = 0,
          !.c.tone_slide_delay = Signed8(d.ahead[1]), !.c.tone_slide_count = Signed8(d.ahead[1]),
          !.c.tone_delta = delta, !.c.slide_to_note = d.c.note, !.c.note = before.note,
          !.c.tone_sliding = sliding,
          !.c.tone_slide_step = IF delta - sliding < 0 THEN Signed16(-step) ELSE step]

\* The parameters of the last effect of the line.
Effect(d, before) ==
    CASE d.effect = 1 ->
            [Skip(d, 3) EXCEPT
               !.c.tone_slide_delay = Signed8(d.ahead[1]), !.c.tone_slide_count = Signed8(d.ahead[1]),
               !.c.tone_slide_step = Signed16(d.ahead[2] + 256 * d.ahead[3]),
               !.c.simplegliss = TRUE, !.c.onoff = 0]
      [] d.effect = 2 -> Portamento(d, before)
      [] d.effect = 3 -> [Skip(d, 1) EXCEPT !.c.sample_position = d.ahead[1]]
      [] d.effect = 4 -> [Skip(d, 1) EXCEPT !.c.ornament_position = d.ahead[1]]
      [] d.effect = 5 ->
            [Skip(d, 2) EXCEPT !.c.onoff_delay = Signed8(d.ahead[1]), !.c.offon_delay = Signed8(d.ahead[2]),
                               !.c.onoff = Signed8(d.ahead[1]),
                               !.c.tone_slide_count = 0, !.c.tone_sliding = 0]
      [] d.effect = 8 ->
            [Skip(d, 3) EXCEPT !.song.envelope_delay = d.ahead[1], !.song.envelope_delay_orig = d.ahead[1],
                               !.song.envelope_slide_add = Signed16(d.ahead[2] + 256 * d.ahead[3])]
      [] d.effect = 9 -> [Skip(d, 1) EXCEPT !.song.speed = d.ahead[1]]
      [] OTHER -> d

Line_decoded(c, s, bytes) ==
    Effect(Commands([c |-> c, song |-> s, ahead |-> bytes, effect |-> 0, done |-> FALSE]), c)

-----------------------------------------------------------------------------
(* calculate_note()                                                        *)

\* A position behind the end reads what lies there: zeros.
StepOf(c) ==
    LET steps == SampleData[c.sample].steps
    IN IF c.sample_position < Len(steps) THEN steps[c.sample_position + 1]
       ELSE [b0 |-> 0, b1 |-> 0, tone |-> 0]
OrnamentOf(c) ==
    LET steps == OrnamentData[c.ornament].steps
    IN IF c.ornament_position < Len(steps) THEN steps[c.ornament_position + 1] ELSE 0

Bit(b, k) == (b \div 2^k) % 2 = 1
Clamped(n, low, high) == IF n < low THEN low ELSE IF n > high THEN high ELSE n

Advanced(position, data) ==
    IF position + 1 >= Len(data.steps) THEN data.loop ELSE Unsigned8(position + 1)

\* Fault: a portamento that steps over its note goes on.
Slid_over(c) ==
    LET sliding == Signed16(c.tone_sliding + c.tone_slide_step)
        there == ~c.simplegliss /\ sliding = c.tone_delta
    IN CASE c.tone_slide_count <= 0 -> c
         [] c.tone_slide_count > 1 -> [c EXCEPT !.tone_slide_count = @ - 1]
         [] c.tone_slide_count = 1 /\ there ->
               [c EXCEPT !.note = c.slide_to_note, !.tone_slide_count = 0, !.tone_sliding = 0]
         [] OTHER -> [c EXCEPT !.tone_slide_count = c.tone_slide_delay, !.tone_sliding = sliding]

\* The slide's count; at 0 a step is made, and a portamento that has come to
\* its note, or behind it, ends.
Slid(c) ==
    LET sliding == Signed16(c.tone_sliding + c.tone_slide_step)
        there == /\ ~c.simplegliss
                 /\ \/ c.tone_slide_step < 0 /\ sliding <= c.tone_delta
                    \/ c.tone_slide_step >= 0 /\ sliding >= c.tone_delta
    IN CASE c.tone_slide_count <= 0 -> c
         [] c.tone_slide_count > 1 -> [c EXCEPT !.tone_slide_count = @ - 1]
         [] c.tone_slide_count = 1 /\ there ->
               [c EXCEPT !.note = c.slide_to_note, !.tone_slide_count = 0, !.tone_sliding = 0]
         [] OTHER -> [c EXCEPT !.tone_slide_count = c.tone_slide_delay, !.tone_sliding = sliding]

\* The mixer is a set of bits; a channel's bits 3 and 6 come to their places
\* by the shifts for it and the channels behind it.
Mixed(mixer, step) ==
    {k - 1 : k \in (mixer \union {j \in {3, 6} : Bit(step.b1, j + 1)}) \ {0}}

Vibrated(c) ==
    IF c.onoff <= 0 THEN c
    ELSE IF c.onoff > 1 THEN [c EXCEPT !.onoff = @ - 1]
    ELSE [c EXCEPT !.enabled = ~@, !.onoff = IF c.enabled THEN c.offon_delay ELSE c.onoff_delay]

\* m is the frame in the making: the channel, the song, the mixer, and what is
\* added to the envelope's period.
Sounding(m, c, step) ==
    LET tone == Signed16(step.tone + c.tone_accumulator)
        n == Clamped(c.note + OrnamentOf(c), 0, 95)
        sliding == IF ~Bit(step.b0, 7) THEN c.amplitude_sliding
                   ELSE IF Bit(step.b0, 6) THEN Clamped(c.amplitude_sliding + 1, -15, 15)
                   ELSE Clamped(c.amplitude_sliding - 1, -15, 15)
        amplitude == VolumeOf[c.volume][Clamped((step.b1 % 16) + sliding, 0, 15)]
        low == (step.b0 \div 2) % 16
        added == (IF Bit(step.b0, 5) THEN low - 16 ELSE low) + c.envelope_sliding
        noise == Unsigned8(step.b0 \div 2 + c.noise_sliding)
        enveloped == Bit(step.b1, 7)
    IN [m EXCEPT
          !.c = [Slid(c) EXCEPT
                   !.tone = (tone + c.tone_sliding + PeriodOf[n]) % 4096,
                   !.tone_accumulator = IF Bit(step.b1, 6) THEN tone ELSE @,
                   !.amplitude_sliding = sliding,
                   !.amplitude = IF ~Bit(step.b0, 0) /\ c.envelope_enabled THEN amplitude + 16 ELSE amplitude,
                   !.envelope_sliding = IF enveloped /\ Bit(step.b1, 5) THEN Signed8(added) ELSE @,
                   !.noise_sliding = IF ~enveloped /\ Bit(step.b1, 5) THEN Signed8(noise) ELSE @,
                   !.sample_position = Advanced(@, SampleData[c.sample]),
                   !.ornament_position = Advanced(@, OrnamentData[c.ornament])],
          !.song.noise_add = IF enveloped THEN @ ELSE noise,
          !.added = IF enveloped THEN Unsigned8(@ + added) ELSE @,
          !.mixer = Mixed(@, step)]

calculate_note(m, c) ==
    LET sounded == IF c.enabled THEN Sounding(m, c, StepOf(c))
                   ELSE [m EXCEPT !.c = [c EXCEPT !.amplitude = 0],
                                  !.mixer = {k - 1 : k \in @ \ {0}}]
    IN [sounded EXCEPT !.c = Vibrated(@)]

\* pt3_make_frame() of the channels cs and the song s.
RECURSIVE All_calculated(_, _, _)
All_calculated(m, cs, k) ==
    IF k > Len(Channels) THEN [m |-> m, cs |-> cs]
    ELSE LET n == calculate_note(m, cs[Channels[k]])
         IN All_calculated(n, [cs EXCEPT ![Channels[k]] = n.c], k + 1)

pt3_make_frame(cs, s) ==
    LET all == All_calculated([c |-> cs[Channels[1]], song |-> s, mixer |-> {}, added |-> 0], cs, 1)
        t == all.m.song
        envelope == t.envelope_period + all.m.added + t.envelope_slide
        due == t.envelope_delay = 1
    IN [cs |-> all.cs,
        song |-> [t EXCEPT !.envelope_type_old = t.envelope_type,
                           !.envelope_delay = IF due THEN t.envelope_delay_orig
                                              ELSE IF @ > 0 THEN @ - 1 ELSE @,
                           !.envelope_slide = IF due THEN Signed16(@ + t.envelope_slide_add) ELSE @],
        frame |-> [tone |-> [ch \in DOMAIN all.cs |-> all.cs[ch].tone],
                   noise |-> (t.noise_period + t.noise_add) % 32,
                   mixer |-> all.m.mixer,
                   amplitude |-> [ch \in DOMAIN all.cs |-> all.cs[ch].amplitude],
                   envelope |-> envelope % 65536,
                   shape |-> IF t.envelope_type = t.envelope_type_old THEN 255 ELSE t.envelope_type]]

-----------------------------------------------------------------------------
(* The song                                                                *)

\* pt3_init_song()
Silent_channel ==
    [note |-> 0, sample |-> 1, ornament |-> 0, volume |-> 15, enabled |-> FALSE,
     envelope_enabled |-> FALSE, sample_position |-> 0, ornament_position |-> 0,
     amplitude |-> 0, amplitude_sliding |-> 0, noise_sliding |-> 0, envelope_sliding |-> 0,
     tone |-> 0, tone_accumulator |-> 0, tone_sliding |-> 0, tone_slide_count |-> 0,
     tone_slide_delay |-> 0, tone_slide_step |-> 0, tone_delta |-> 0, slide_to_note |-> 0,
     simplegliss |-> FALSE, onoff |-> 0, onoff_delay |-> 0, offon_delay |-> 0,
     len |-> 0, len_count |-> 0, all_done |-> FALSE]
New_song ==
    [speed |-> Speed, noise_period |-> 0, noise_add |-> 0, envelope_period |-> 0,
     envelope_type |-> 0, envelope_type_old |-> 0, envelope_slide |-> 0, envelope_slide_add |-> 0,
     envelope_delay |-> 0, envelope_delay_orig |-> 0]
Silence ==
    [tone |-> [ch \in DOMAIN LinesOf |-> 0], noise |-> 0, mixer |-> {},
     amplitude |-> [ch \in DOMAIN LinesOf |-> 0], envelope |-> 0, shape |-> 0]
Heard_nothing ==
    [note |-> 0, sample |-> 1, ornament |-> 0, volume |-> 15, enabled |-> FALSE,
     enveloped |-> FALSE, length |-> 0, wait |-> 0]

MusicInit ==
    /\ note_of = [ch \in DOMAIN LinesOf |-> Silent_channel]
    /\ song = New_song
    /\ line = 0 /\ subframe = 0 /\ current_pattern = 0 /\ song_done = FALSE
    /\ frame = Silence
    /\ heard = [ch \in DOMAIN LinesOf |-> Heard_nothing]
    /\ decoded = TRUE /\ started = FALSE
    /\ counted = 0 /\ played = 0 /\ ended_early = 0

\* pt3_set_pattern()
set_pattern(cs) == [ch \in DOMAIN cs |-> [cs[ch] EXCEPT !.all_done = FALSE]]

\* decode_note() for the channels in order, which share the song; ls are their
\* lines.  A line is left alone while the one before lasts.
RECURSIVE decode_line(_, _, _, _)
decode_line(cs, s, ls, k) ==
    IF k > Len(Channels) THEN [cs |-> cs, song |-> s, left |-> FALSE]
    ELSE LET ch == Channels[k]
             d == Line_decoded(cs[ch], s, LineBytes(ls[ch]))
             rest == decode_line([cs EXCEPT ![ch] = d.c], d.song, ls, k + 1)
         IN IF cs[ch].len_count > 1
            THEN decode_line([cs EXCEPT ![ch].len_count = @ - 1], s, ls, k + 1)
            ELSE [rest EXCEPT !.left = @ \/ d.ahead # <<>>]

\* What a listener who knows the lines expects of a channel.  A slide
\* or a vibrato that another interrupts leaves the note where it is, or silent.
Told(h, l, c) ==
    LET i == l.instrument
        interrupted == l.note \in {Rest, End} /\ \E k \in DOMAIN l.effects : l.effects[k][1] \in {1, 2, 5}
        length == IF l.length # 0 THEN l.length ELSE h.length
    IN [note |-> IF l.note \in Notes THEN l.note ELSE IF interrupted THEN c.note ELSE h.note,
        sample |-> IF i.kind \in {"sample", "both", "env_sample", "sample_only"} THEN i.sample ELSE h.sample,
        ornament |-> IF i.kind \in {"ornament", "both"} THEN i.ornament ELSE h.ornament,
        volume |-> IF l.volume # 0 THEN l.volume ELSE h.volume,
        enabled |-> l.note \in Notes \/ (l.note # Off /\ IF interrupted THEN c.enabled ELSE h.enabled),
        enveloped |-> CASE i.kind \in {"envelope", "env_sample"} -> TRUE
                        [] i.kind \in {"keep", "sample", "ornament"} -> h.enveloped
                        [] OTHER -> FALSE,
        length |-> length,
        wait |-> IF l.note = End \/ length = 0 THEN 0 ELSE length - 1]

Starts(l) == l.instrument.kind \in {"envelope", "env_sample"}

\* NextBuffer(): a frame.
Frame_played(cs, s, at) ==
    LET f == pt3_make_frame(cs, s)
    IN /\ note_of' = f.cs /\ song' = f.song /\ frame' = f.frame
       /\ line' = at.line /\ subframe' = at.subframe /\ current_pattern' = at.pattern
       /\ played' = played + 1

Next_place(speed) ==
    IF subframe + 1 < speed THEN [line |-> line, subframe |-> subframe + 1, pattern |-> current_pattern]
    ELSE IF line + 1 < PatternLines THEN [line |-> line + 1, subframe |-> 0, pattern |-> current_pattern]
    ELSE [line |-> 0, subframe |-> 0, pattern |-> current_pattern + 1]

\* A line for each channel.
Lines_next ==
    {ls \in [DOMAIN LinesOf -> UNION {LinesOf[ch] : ch \in DOMAIN LinesOf}] :
        \A ch \in DOMAIN ls : ls[ch] \in LinesOf[ch]}

NextBuffer_ends ==
    /\ ~song_done /\ line = 0 /\ subframe = 0 /\ current_pattern = MusicLen
    /\ song_done' = TRUE
    /\ UNCHANGED <<note_of, song, line, subframe, current_pattern, frame, heard, decoded, started,
                   counted, played, ended_early>>

NextBuffer_goes_on ==
    /\ subframe > 0 /\ played < MaxFrames
    /\ Frame_played(note_of, song, Next_place(song.speed))
    /\ started' = FALSE
    /\ UNCHANGED <<song_done, heard, decoded, counted, ended_early>>

NextBuffer_decodes ==
    /\ subframe = 0 /\ played < MaxFrames
    /\ ~song_done /\ (line = 0 => current_pattern # MusicLen)
    /\ \E ls \in Lines_next :
         LET begins == line = 0
             cs == IF begins THEN set_pattern(note_of) ELSE note_of
             d == decode_line(cs, IF begins THEN [song EXCEPT !.noise_period = 0] ELSE song, ls, 1)
             due == {ch \in DOMAIN cs : cs[ch].len_count <= 1}
             early == \A ch \in DOMAIN cs : d.cs[ch].all_done
         IN /\ \A ch \in DOMAIN ls \ due : ls[ch] = CHOOSE l \in LinesOf[ch] : TRUE
            /\ Frame_played(d.cs, d.song,
                            IF early THEN [line |-> 0, subframe |-> 0, pattern |-> current_pattern + 1]
                            ELSE Next_place(d.song.speed))
            /\ heard' = [ch \in DOMAIN ls |->
                            IF ch \in due THEN Told(heard[ch], ls[ch], cs[ch])
                            ELSE [heard[ch] EXCEPT !.wait = @ - 1]]
            /\ decoded' = (~d.left /\ \A ch \in DOMAIN ls : ch \in due <=> heard[ch].wait = 0)
            /\ started' = \E ch \in due : Starts(ls[ch])
            /\ counted' = IF early THEN counted ELSE counted + d.song.speed
            /\ ended_early' = IF early THEN ended_early + 1 ELSE ended_early
    /\ UNCHANGED song_done

MusicNext == NextBuffer_ends \/ NextBuffer_goes_on \/ NextBuffer_decodes

MusicSpec == MusicInit /\ [][MusicNext]_music_vars

-----------------------------------------------------------------------------

\* Portamento that is under way.
Sliding(c) == ~c.simplegliss /\ c.tone_slide_count > 0

\* Decoding uses up a line's bytes, at the time it is due, and leaves in the
\* channel what the line said: also when a note is slid to, which ends at the
\* note (decode_note, calculate_note).
HeardRight ==
    /\ decoded
    /\ \A ch \in DOMAIN note_of :
         LET c == note_of[ch]  h == heard[ch]
         IN /\ <<c.sample, c.ornament, c.volume, c.envelope_enabled>>
                  = <<h.sample, h.ornament, h.volume, h.enveloped>>
            /\ c.onoff = 0 => c.enabled = h.enabled
            /\ h.enabled => c.note = h.note \/ (Sliding(c) /\ c.slide_to_note = h.note)

\* A portamento never passes the note it goes to (calculate_note).
SlidesRight ==
    \A ch \in DOMAIN note_of :
        LET c == note_of[ch]
        IN Sliding(c) =>
             /\ c.tone_delta = PeriodOf[c.slide_to_note] - PeriodOf[c.note]
             /\ IF c.tone_slide_step < 0 THEN c.tone_sliding >= c.tone_delta
                ELSE c.tone_sliding <= c.tone_delta

\* The registers fit the chip's, a channel's mixer bits are its own sample's,
\* and the envelope starts anew in the frame of the line that sets one and in
\* no other (pt3_make_frame).
FrameRight ==
    /\ \A ch \in DOMAIN note_of : frame.tone[ch] \in 0..4095 /\ frame.amplitude[ch] \in 0..31
    /\ frame.noise \in 0..31 /\ frame.mixer \subseteq 0..5
    /\ played > 0 => (frame.shape # 255) = started
    /\ \A k \in DOMAIN Channels :
         LET c == note_of[Channels[k]]
             steps == SampleData[c.sample].steps
         IN c.enabled /\ c.onoff = 0 /\ played > 0 =>
              \A bit \in {4, 7} :
                 (k - 1 + (bit - 4)) \in frame.mixer <=> \E j \in DOMAIN steps : Bit(steps[j].b1, bit)

\* The frames that are played are those that pt3_calc_frames() counts, and one
\* for each pattern that ends before its last line (NextBuffer).
LengthRight ==
    /\ subframe < song.speed
    /\ played = counted + ended_early - (IF subframe = 0 THEN 0 ELSE song.speed - subframe)

-----------------------------------------------------------------------------
(***************************************************************************)
(* The sound chip, emulated (userspace/ay8912.c): registers are written    *)
(* once a frame, and the sound between two writes is the sum of three      *)
(* channels, each a square wave, noise, both or neither, at a volume that  *)
(* is fixed or follows the envelope.                                       *)
(*                                                                         *)
(* A step writes registers and makes OutCounts samples of TactsPerCount    *)
(* tacts.  Registers are chosen from RegisterSets: tone, noise, the bits of*)
(* R7, the volumes with bit 4 for the envelope, and R11 to R13.  What a    *)
(* settings function refuses leaves everything as it is, so only what they *)
(* accept is modelled.  Cur_Seed is kept to the 17 bits that are read.     *)
(***************************************************************************)

CONSTANTS
    RegisterSets,     \* what may be written
    OutCounts,        \* samples in a buffer
    TactsPerCount,    \* ChipTacts_per_outcount: 5 for the player
    MaxWrites         \* bound: buffers

ASSUME ChipAssumption == {OutCounts, TactsPerCount, MaxWrites} \subseteq Nat \ {0}

VARIABLES
    regs,             \* parsed; R13 as env_style
    cnt, bit,         \* of the channels 1 to 3, the noise (4), the envelope's count (5)
    env_pos, Cur_Seed,
    writes,
    sound,            \* the samples of the last buffer, on the left
    env_steps         \* history: the envelope's steps since its shape was written

chip_vars == <<regs, cnt, bit, env_pos, Cur_Seed, writes, sound, env_steps>>

-----------------------------------------------------------------------------
(* Envelopes: gen_env()                                                    *)

Has(n, b) == (n \div b) % 2 = 1

\* One step of the generator of shape env.
Generator == [vol : -1..32, dir : {-1, 1}, hold : BOOLEAN]
Env_step(env) ==
    [e \in Generator |->
        LET vol == e.vol + e.dir
            dir == IF Has(env, 2) THEN -e.dir ELSE e.dir
        IN CASE e.hold -> e
             [] ~e.hold /\ vol \in 0..31 -> [e EXCEPT !.vol = vol]
             [] ~e.hold /\ vol \notin 0..31 /\ ~Has(env, 8) -> [e EXCEPT !.vol = 0, !.hold = TRUE]
             [] OTHER -> [vol |-> IF (dir > 0) = Has(env, 1) THEN 31 ELSE 0,
                          dir |-> dir, hold |-> Has(env, 1)]]

gen_env(env) ==
    LET start == IF Has(env, 4) THEN [vol |-> -1, dir |-> 1, hold |-> FALSE]
                 ELSE [vol |-> 32, dir |-> -1, hold |-> FALSE]
        at[place \in 0..127] == Env_step(env)[IF place = 0 THEN start ELSE at[place - 1]]
    IN [place \in 1..128 |-> at[place - 1].vol]

\* Tuples, so that they are made once.
Envelope == [env \in 1..16 |-> gen_env(env - 1) \o <<>>] \o <<>>

-----------------------------------------------------------------------------
(* Volumes: ayemu_set_chip_type(), ayemu_set_stereo(), prepare_generation()*)

Lion17_AY_table ==
    <<0, 513, 828, 1239, 1923, 3238, 4926, 9110, 10344, 17876, 24682, 30442, 38844, 47270, 56402, 65535>>
Lion17_YM_table ==
    <<0, 0, 190, 286, 375, 470, 560, 664, 866, 1130, 1515, 1803, 2253, 2848, 3351, 3862,
      4844, 6058, 7290, 8559, 10474, 12878, 15297, 17787, 21500, 26172, 30866, 35676, 42664, 50986, 58842, 65535>>
KAY_AY_table ==
    <<0, 836, 1212, 1773, 2619, 3875, 5397, 8823, 10392, 16706, 23339, 29292, 36969, 46421, 55195, 65535>>
KAY_YM_table ==
    <<0, 0, 248, 450, 670, 826, 1010, 1239, 1552, 1919, 2314, 2626, 3131, 3778, 4407, 5031,
      5968, 7161, 8415, 9622, 11421, 13689, 15957, 18280, 21759, 26148, 30523, 34879, 41434, 49404, 57492, 65535>>

ChipTypes == {"AY", "YM", "AY_KAY", "YM_KAY"}
AY(type)  == type \in {"AY", "AY_KAY"}
set_chip_type(type) ==
    CASE type = "AY"     -> [n \in 0..31 |-> Lion17_AY_table[(n \div 2) + 1]]
      [] type = "YM"     -> [n \in 0..31 |-> Lion17_YM_table[n + 1]]
      [] type = "AY_KAY" -> [n \in 0..31 |-> KAY_AY_table[(n \div 2) + 1]]
      [] OTHER           -> [n \in 0..31 |-> KAY_YM_table[n + 1]]

\* The loudest, the middle and the softest place of a channel on each side:
\* A left, A right, B left, B right, C left, C right.
Stereos == {"MONO", "ABC", "ACB", "BAC", "BCA", "CAB", "CBA"}
default_layout(ay, stereo) ==
    LET far == IF ay THEN 33 ELSE 5
    IN CASE stereo = "MONO" -> <<100, 100, 100, 100, 100, 100>>
         [] stereo = "ABC" -> <<100, far, 70, 70, far, 100>>
         [] stereo = "ACB" -> <<100, far, far, 100, 70, 70>>
         [] stereo = "BAC" -> <<70, 70, 100, far, far, 100>>
         [] stereo = "BCA" -> <<far, 100, 100, far, 70, 70>>
         [] stereo = "CAB" -> <<70, 70, far, 100, 100, far>>
         [] OTHER -> <<far, 100, 70, 70, 100, far>>

AYEMU_MAX_AMP == 24575

Vols(type, stereo) ==
    [m \in 1..6 |-> [n \in 0..31 |-> (set_chip_type(type)[n] * default_layout(AY(type), stereo)[m]) \div 100]]

\* The left side is taken to be what A and B give it, and B gives the right.
Amp_Global(type, stereo, tacts) ==
    LET vols == Vols(type, stereo)
        max_l == vols[1][31] + vols[3][31] + vols[4][31]
        max_r == vols[2][31] + vols[4][31] + vols[6][31]
    IN (tacts * (IF max_l > max_r THEN max_l ELSE max_r)) \div AYEMU_MAX_AMP

\* What chiptune.c sets; tuples, so that they are made once.
Player_vols == [m \in 1..6 |-> [n \in 1..32 |-> Vols("AY", "MONO")[m][n - 1]] \o <<>>] \o <<>>
Player_amp  == Amp_Global("AY", "MONO", TactsPerCount)

\* ayemu_gen_sound(): a sample of 8 bits.
Eight_bits(mix) == IF Has(mix \div 256, 128) THEN mix \div 256 ELSE (mix \div 256) + 128

-----------------------------------------------------------------------------
(* Sound                                                                   *)

\* ayemu_set_regs(): 255 for the shape goes on with the envelope as it is.
Parsed(r) == [r EXCEPT !.env_style = IF r.env_style = 255 THEN regs.env_style ELSE r.env_style % 16]
set_regs(r) ==
    /\ regs' = Parsed(r)
    /\ writes' = writes + 1

\* A tact, in a record of what changes; the period of a channel, of the noise
\* and of the envelope.
Period(r, k) == CASE k \in 1..3 -> r.tone[k] [] k = 4 -> 2 * r.noise [] OTHER -> r.env_freq

\* Bits 13 and 16 are fed back into bit 0, which a 1 is shifted into.
Shifted(seed) ==
    LET fed == ((seed \div 65536) + (seed \div 8192)) % 2
    IN ((2 * seed) % 131072) + (1 - fed)

\* Two of the four ramps are repeated for ever.
Env_pos_next(place) == IF place + 1 > 127 THEN 64 ELSE place + 1

Tact(s, r) ==
    LET due == {k \in 1..5 : s.cnt[k] + 1 >= Period(r, k)}
        seed == IF 4 \in due THEN Shifted(s.seed) ELSE s.seed
        count(k) == IF k \in due THEN 0 ELSE s.cnt[k] + 1
        wave(k)  == IF k \in due THEN ~s.bit[k] ELSE s.bit[k]
    IN [cnt |-> <<count(1), count(2), count(3), count(4), count(5)>>,
        bit |-> <<wave(1), wave(2), wave(3),
                  IF 4 \in due THEN seed \div 65536 = 1 ELSE s.bit[4]>>,
        env_pos |-> IF 5 \in due THEN Env_pos_next(s.env_pos) ELSE s.env_pos,
        seed |-> seed,
        env_steps |-> IF 5 \in due THEN s.env_steps + 1 ELSE s.env_steps,
        mix_l |-> 0]

\* ENVVOL, and what channel k adds at a time.
Volume(r, k, place) ==
    IF r.vol[k] >= 16 THEN Envelope[r.env_style + 1][place + 1] ELSE (r.vol[k] % 16) * 2 + 1
Sounds(r, k, bits) ==
    /\ bits[k] \/ ~r.R7_tone[k]
    /\ bits[4] \/ ~r.R7_noise[k]

Added(s, r, k) == IF Sounds(r, k, s.bit) THEN Player_vols[2 * k - 1][Volume(r, k, s.env_pos) + 1] ELSE 0
Summed(s, r, mix_l) == [s EXCEPT !.mix_l = mix_l + Added(s, r, 1) + Added(s, r, 2) + Added(s, r, 3)]

\* n tacts, and n samples, each the mean of its tacts' sums, scaled.
RECURSIVE Tacts(_, _, _), Samples(_, _, _)
Tacts(s, r, n) == IF n = 0 THEN s ELSE Tacts(Summed(Tact(s, r), r, s.mix_l), r, n - 1)
Samples(done, r, n) ==
    IF n = 0 THEN done
    ELSE Samples(Append(done, Tacts([Last(done) EXCEPT !.mix_l = 0], r, TactsPerCount)), r, n - 1)

\* ayemu_gen_sound()
gen_sound(r0) ==
    LET restarted == r0.env_style # 255
        r == Parsed(r0)
        s0 == [cnt |-> IF restarted THEN [cnt EXCEPT ![5] = 0] ELSE cnt, bit |-> bit,
               env_pos |-> IF restarted THEN 0 ELSE env_pos, seed |-> Cur_Seed,
               env_steps |-> IF restarted THEN 0 ELSE env_steps, mix_l |-> 0]
        after == Samples(<<s0>>, r, OutCounts)
        s == Last(after)
    IN /\ cnt' = s.cnt /\ bit' = s.bit /\ env_pos' = s.env_pos /\ Cur_Seed' = s.seed
       /\ env_steps' = s.env_steps
       /\ sound' = [n \in 1..OutCounts |-> after[n + 1].mix_l \div Player_amp]

\* ayemu_reset() and the registers of a chip that is not written yet.
ChipInit ==
    /\ regs = [tone |-> <<0, 0, 0>>, noise |-> 0, R7_tone |-> <<FALSE, FALSE, FALSE>>,
               R7_noise |-> <<FALSE, FALSE, FALSE>>, vol |-> <<0, 0, 0>>, env_freq |-> 0, env_style |-> 0]
    /\ cnt = <<0, 0, 0, 0, 0>> /\ bit = <<FALSE, FALSE, FALSE, FALSE>>
    /\ env_pos = 0 /\ Cur_Seed = 65535 /\ writes = 0
    /\ env_steps = 0 /\ sound = <<>>

ChipNext == writes < MaxWrites /\ \E r \in RegisterSets : set_regs(r) /\ gen_sound(r)

ChipSpec == ChipInit /\ [][ChipNext]_chip_vars

-----------------------------------------------------------------------------

\* The shape of an envelope: bits 8, 4, 2, 1 continue, attack, alternate, hold.
Shape(env, step) ==
    LET ramp == step \div 32
        rises == IF Has(env, 2) /\ ramp % 2 = 1 THEN ~Has(env, 4) ELSE Has(env, 4)
    IN IF ramp > 0 /\ ~Has(env, 8) THEN 0
       ELSE IF ramp > 0 /\ Has(env, 1) THEN (IF Has(env, 4) # Has(env, 2) THEN 31 ELSE 0)
       ELSE IF rises THEN step % 32 ELSE 31 - (step % 32)

TablesAreShapes == \A env \in 0..15, place \in 0..127 : Envelope[env + 1][place + 1] = Shape(env, place)

\* However often registers are written in between, an envelope follows its
\* shape from when that was written (gen_env, ayemu_set_regs, ayemu_gen_sound).
EnvelopeRight ==
    /\ TablesAreShapes
    /\ writes > 0 => Envelope[regs.env_style + 1][env_pos + 1] = Shape(regs.env_style, env_steps)

\* A shorter period that is written does not wait for the longer one to end,
\* and the noise never comes to where it would stay (ayemu_gen_sound).
WavesRight ==
    /\ writes > 0 => \A k \in 1..5 : cnt[k] < Max({Period(regs, k), 1})
    /\ Cur_Seed # 131071

\* The sum of three channels at their loudest is within 16 bits, signed, and
\* nothing is divided by 0; 8 bits lose no bit (prepare_generation).
NeverClips ==
    \A type \in ChipTypes, stereo \in Stereos :
        LET vols == Vols(type, stereo)
            amp == Amp_Global(type, stereo, TactsPerCount)
        IN /\ amp > 0
           /\ \A side \in {1, 2} :
                LET mix == (TactsPerCount * (vols[side][31] + vols[side + 2][31] + vols[side + 4][31])) \div amp
                IN mix <= 32767 /\ Eight_bits(mix) = (mix \div 256) + 128

\* A channel with neither tone nor noise sounds all the time: three of them at
\* a fixed volume give every sample the same value, the scaled sum.
SoundRight ==
    LET steady == \A k \in 1..3 : ~regs.R7_tone[k] /\ ~regs.R7_noise[k] /\ regs.vol[k] < 16
        level(k) == Player_vols[2 * k - 1][2 * regs.vol[k] + 2]
    IN \A n \in DOMAIN sound :
          /\ sound[n] <= AYEMU_MAX_AMP + AYEMU_MAX_AMP \div Player_amp
          /\ steady => sound[n] = (TactsPerCount * (level(1) + level(2) + level(3))) \div Player_amp

ChipRight == EnvelopeRight /\ WavesRight /\ SoundRight /\ NeverClips

=============================================================================
