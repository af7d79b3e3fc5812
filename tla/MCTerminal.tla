------------------------------ MODULE MCTerminal ------------------------------
(* A song and a chip for Terminal: lines, samples, ornaments and registers. *)
EXTENDS Terminal

SongLine(i, n) == [instrument |-> i, length |-> 0, volume |-> 0, noise |-> 0, effects |-> <<>>, note |-> n]
Kept == [kind |-> "keep"]
MCChannels == <<"A", "B", "C">>
SampleStep(b0, b1, tone) == [b0 |-> b0, b1 |-> b1, tone |-> tone]
MCSamples == 1 :> [loop |-> 0, steps |-> <<SampleStep(1, 15, 0)>>]
    @@ 2 :> [loop |-> 1, steps |-> <<SampleStep(192, 143, 2), SampleStep(130, 239, -3), SampleStep(4, 160, 5)>>]
    @@ 3 :> [loop |-> 0, steps |-> <<SampleStep(62, 63, 0), SampleStep(11, 16, 0)>>]
MCOrnaments == 0 :> [loop |-> 0, steps |-> <<0>>] @@ 4 :> [loop |-> 1, steps |-> <<0, 12, -100>>]
MCLines ==
    "A" :> {[SongLine([kind |-> "sample", sample |-> 2], 36) EXCEPT !.volume = 9],
            [SongLine(Kept, 48) EXCEPT !.effects = << <<2, 1, 0, 0, 200, 0>> >>],
            [SongLine(Kept, 30) EXCEPT !.effects = << <<2, 1, 0, 0, 156, 255>> >>],
            [SongLine(Kept, Rest) EXCEPT !.effects = << <<1, 1, 20, 0>> >>],
            [SongLine([kind |-> "both", sample |-> 3, ornament |-> 4], 60) EXCEPT !.effects = << <<5, 1, 2>> >>],
            [SongLine([kind |-> "envelope", shape |-> 8, period |-> 300], Rest) EXCEPT !.length = 2,
                !.effects = << <<8, 1, 255, 255>> >>],
            [SongLine([kind |-> "sample_only", sample |-> 1], Off) EXCEPT !.effects = << <<9, 2>> >>],
            SongLine([kind |-> "ornament", ornament |-> 4], End)}
 @@ "B" :> {[SongLine([kind |-> "env_sample", shape |-> 12, period |-> 20, sample |-> 2], 95) EXCEPT !.noise = 17],
            SongLine([kind |-> "env_off"], End)}
 @@ "C" :> {[SongLine(Kept, End) EXCEPT !.effects = << <<4, 2>> >>]}

Registers(t, n, v, f, e) ==
    [tone |-> t, noise |-> n, R7_tone |-> <<TRUE, TRUE, FALSE>>, R7_noise |-> <<FALSE, TRUE, TRUE>>,
     vol |-> v, env_freq |-> f, env_style |-> e]
MCRegs ==
 {Registers(<<0, 3, 100>>, 0, <<15, 16, 31>>, 1, 255), Registers(<<1, 7, 4>>, 2, <<0, 16, 3>>, 1, 14),
  Registers(<<0, 2, 9>>, 1, <<15, 16, 31>>, 2, 255),
  Registers(<<0, 2, 9>>, 5, <<15, 16, 31>>, 1, 10),
  Registers(<<0, 2, 100>>, 5, <<15, 16, 31>>, 0, 13),
  [Registers(<<1, 2, 3>>, 5, <<15, 8, 15>>, 3, 255)
      EXCEPT !.R7_tone = <<FALSE, FALSE, FALSE>>, !.R7_noise = <<FALSE, FALSE, FALSE>>]}

=============================================================================
