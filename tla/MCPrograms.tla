------------------------------ MODULE MCPrograms ------------------------------
(***************************************************************************)
(* Programs with the strings, files and command lines of a small instance. *)
(***************************************************************************)
EXTENDS Programs, TLC

\* Around every power of two and every limit at which the copying loops of
\* memset() and memcpy() change their stride.
MCLengths == (0..9) \union (15..17) \union (31..36) \union (63..70) \union (95..100)
                \union (127..133) \union {160, 200}

\* Around every unit of time; and for what printa may have run.
MCSpans == UNION {{n - 1, n, n + 1} : n \in {60, 120, 3600, 7200, 86400, 90000, 90060, 172800}}
                \union {0, 1000000, 1999999, 2147483647}
MCElapsed == {999, 1000, 5000123, 5012345}
MCTicks == {0, 1, 63, 65, 319}

\* The key is "fb"; before it nothing, another word, or one that ends with it.
MCKey == <<102, 98>>
MCCommandLines ==
    {before \o MCKey \o <<61>> \o number \o behind :
        before \in {<<>>, <<113, 32>>, <<113>>},
        number \in {<<54, 57>>, <<48, 120, 49, 97>>, <<48>>, <<>>},
        behind \in {<<>>, <<32>>, <<32, 113>>, <<32, 102, 98, 61, 49, 32, 113>>}}
    \union {<<>>, <<102>>, <<113, 32, 113>>}

\* What is put behind an option, and what ends the options.
MCOptional == {<<"x">>, <<"-", "a">>}
MCOperands == {<<"x">>, <<"-">>, <<"-", "-">>, <<>>}

\* Files for getline(): empty, longer than a buffer, empty lines, no end of
\* the last line.
MCContents == {<<>>, <<"x", "x", "x", "x", "x", "x", "nl", "x">>,
               <<"nl", "nl", "x", "x", "nl">>, <<"x", "nl">>}

\* Files for the editor: with the ends of rows of DOS, a tab, and no end of
\* the last row.  What is typed opens a comment.
MCFiles == {<<"open", "nl", "close", "cr", "nl">>, <<"tab", "nl", "x">>}
MCQueries == {<<"open">>}

MCRowChars == {"/", "*", "q", "\\", "i", "f", " ", "1"}
MCKeywords1 == {<<"i", "f">>}
MCKeywords2 == {<<"f">>}

\* Keys of one byte and of more, and one the editor does not know.
MCKeyBytes == [k \in {"x", "cr", "bs", "cancel", "high", "esc"} |-> <<k>>]
                @@ [del |-> <<"esc", "[", "3", "~">>, end |-> <<"esc", "O", "F">>,
                    arrow |-> <<"esc", "[", "A">>, unknown |-> <<"esc", "[", "1", "5", "~">>]
MCReports == {[answers |-> FALSE], [answers |-> TRUE, rows |-> <<"1", "0", "0">>, cols |-> <<"2", "3", "9">>]}
MCAhead == {<<>>, <<"R">>, [i \in 1..8 |-> "x"] \o <<>>}

\* Nothing; a program by itself, in the background, with one file, with two
\* and all three; the builtin that ends the shell.
MCCommands == {<<>>, <<"a">>, <<"e">>, <<"a", " ", "&">>, <<"a", " ", ">", "a">>,
               <<"a", " ", "2", ">", "a", " ", "&">>,
               <<"a", " ", "<", "a", " ", ">", ">", " ", "a", " ", "2", ">", " ", "a", "a">>}
MCGarbage == {<<>>, <<"a">>}

\* Files for ls: a plain file, a directory, a device, a program.
MCModeOf == [n \in Names_in |-> CASE n = 2 -> 8 * 4096 + 420 [] n = 12 -> 4 * 4096 + 493
                                   [] n = 20 -> 2 * 4096 + 438 [] OTHER -> 8 * 4096 + 493]
MCDeviceOf == [n \in Names_in |-> IF n = 20 THEN <<4, 64>> ELSE <<0, 0>>]
MCArguments_ls == {<<>>, <<"-l">>, <<"dir", "-l", "-i">>}

\* The seconds before and after a minute, a day, a month, a year end, in leap
\* years and others, and the last one a long has.
MCSeconds == {0, 59, 86399, 86400, 2678399, 2678400, 5097599, 5097600,
              951782399, 951782400, 951868799, 951868800, 1735603199, 1735603200, 1735689599, 1735689600,
              2147483647, 68169599, 68169600, 68255999, 68256000}

\* Of RFC 1321: "", "abc", the letters and digits, the digits eight times;
\* and, of the last, the first 55, 56 and 64, by another implementation.
Letters_digits == [n \in 1..62 |-> CASE n <= 26 -> 64 + n [] n \in 27..52 -> 70 + n [] OTHER -> n - 5] \o <<>>
Digits == [n \in 1..80 |-> 48 + (n % 10)] \o <<>>
\* The length just fits a block, just not, and has one of its own.
Beginning(n) == SubSeq(Digits, 1, n)
MCMessages == {<<>>, <<97, 98, 99>>, Letters_digits, Digits, Digits \o Letters_digits,
               Beginning(55), Beginning(56), Beginning(64)}
MCDigest_of ==
    <<>> :> <<212, 29, 140, 217, 143, 0, 178, 4, 233, 128, 9, 152, 236, 248, 66, 126>>
    @@ <<97, 98, 99>> :> <<144, 1, 80, 152, 60, 210, 79, 176, 214, 150, 63, 125, 40, 225, 127, 114>>
    @@ Letters_digits :> <<209, 116, 171, 152, 210, 119, 217, 245, 165, 97, 28, 44, 159, 65, 157, 159>>
    @@ Digits :> <<87, 237, 244, 162, 43, 227, 201, 85, 172, 73, 218, 46, 33, 7, 182, 122>>
    @@ Beginning(55) :> <<201, 204, 241, 104, 145, 74, 27, 207, 195, 34, 159, 25, 72, 230, 125, 160>>
    @@ Beginning(56) :> <<73, 241, 147, 173, 206, 23, 132, 144, 227, 77, 27, 58, 78, 192, 6, 76>>
    @@ Beginning(64) :> <<235, 108, 65, 121, 192, 167, 200, 44, 194, 130, 140, 30, 99, 56, 225, 101>>

\* A token each, or two after six: the flags end before, with and after them.
MCTokens == {<<7>>, <<1, 3>>, <<2, 5>>, <<8, 4>>, <<5, 3>>}
MCPictures == {<<<<1>>, <<2>>>> \o p : p \in [1..3 -> MCTokens]}
    \union {<<<<1>>, <<2>>, <<3>>, <<1, 4>>, <<4>>, <<5>>, <<3, 3>>>> \o p : p \in [1..1 -> MCTokens] \cup [1..2 -> MCTokens]}

-----------------------------------------------------------------------------

\* Each program on files that are there and that are not, "a" and "b"; modes
\* with digits, letters and neither; fstabs of one short line, and of several.
MCFirst_files ==
    {[a |-> a, b |-> b, c |-> <<-1>>] : a \in {<<1, 2, 3, 4, 5>>, <<>>}, b \in {<<-1>>, <<6>>, <<7, 8, 9, 7, 8, 9, 7>>}}

MCFirst_mode == [kind |-> "file", bits |-> {2, 5, 7, 8}]

MCLists == {<<"a">>, <<"a", "b">>, <<"b", "a", "b">>, <<"c", "a">>, <<"a", "c", "b">>}

MCModes ==
    {[sign |-> "0", digits |-> <<0>> \o d] : d \in {<<>>, <<6>>, <<4, 7>>, <<6, 4, 1>>, <<1, 7, 5, 5>>}}
    \union {[sign |-> s, who |-> w] : s \in {"+", "-", "u"}, w \in {"r", "w", "x", "s"}}

MCLine == UNION {[1..n -> {" ", "a", "#"}] : n \in 0..5}

\* Rows of three bytes, the last of which fills up a row of two pixels.
MCRows == {<<<<5>>, <<6>>, <<0>>>>, <<<<195, 200>>>>, <<<<194, 7>>, <<193, 255>>>>, <<<<9>>, <<194, 3>>>>}
MCPcx == {[xsize |-> x, ysize |-> 2, bytes_per_line |-> 3, rows |-> <<a, b>>,
           bytes |-> FlattenSeq(a) \o FlattenSeq(b)] : x \in {2, 3}, a, b \in MCRows}

\* Letters of two rows; inks that cover the background and not.  One string of
\* two letters that leaves a column free; sprites at and over the edges.
MCInks == {[fg |-> f, bg |-> 5, overwrite |-> o] : f \in {0, 7}, o \in BOOLEAN}
MCText == {[prog |-> "draw", draw |-> "text", string |-> <<<<129, 254>>, <<64, 7>>>>, size |-> size, x |-> x, y |-> 1,
            inks |-> inks, across |-> 16 * size + 1, down |-> 2 * size + 2] : size \in {1, 2, 4}, x \in 0..1, inks \in MCInks}
MCChars == {[prog |-> "draw", draw |-> "char", string |-> <<<<129, 254>>>>, x |-> x, y |-> y,
             inks |-> inks, across |-> 9, down |-> 3] : x \in {-7, -1, 0, 5}, y \in {-1, 0, 2}, inks \in MCInks}
MCSprites == {[prog |-> "draw", draw |-> "sprite", sprite |-> <<<<1, 255, 2>>, <<255, 3, 4>>>>, x |-> x, y |-> y,
               across |-> 5, down |-> 4] : x \in 0..4, y \in 0..3}
MCFrames == {[prog |-> "draw", draw |-> "frame", x |-> x, y |-> y, x2 |-> x2, y2 |-> y2, across |-> 4, down |-> 3] :
               x, y \in 0..1, x2 \in 2..4, y2 \in 2..3}
MCFades == {[prog |-> "draw", draw |-> "fade", level |-> level] : level \in {0, 1, 8, 9, 100, 248, 255}}
MCPalettes == {[prog |-> "draw", draw |-> "palette", bytes |-> <<0, kind, 1, 2, 3, 4, 5, 6>>, offset |-> 1, colors |-> 2] :
                 kind \in {10, 12}}

MCUtility_jobs ==
    MCText \union MCChars \union MCSprites \union MCFrames \union MCFades \union MCPalettes \union
    {[prog |-> "pcx", pcx |-> p, at |-> [x |-> x, y |-> y], across |-> 4, down |-> 3] : p \in MCPcx, x, y \in 0..1}
    \union {[prog |-> "cp", from |-> f, to |-> t] : f, t \in {"a", "b"}}
    \union {[prog |-> "cat", files |-> l] : l \in MCLists}
    \union {[prog |-> "cat_count", files |-> <<f>>, bytes |-> n] : f \in {"a", "c"}, n \in {0, 2, 9}}
    \union {[prog |-> "hexdump", files |-> <<f>>, bytes |-> n] : f \in {"a", "b"}, n \in {-1, 2, 3, 9}}
    \union {[prog |-> "truncate", file |-> f, size |-> n] : f \in {"a", "b", "c"}, n \in {0, 3, 6}}
    \union {[prog |-> "chmod", file |-> f, mode |-> m] : f \in {"a", "c"}, m \in MCModes}
    \union {[prog |-> "rm", files |-> l] : l \in MCLists}
    \union {[prog |-> "df", fstab |-> TRUE, lines |-> <<entry \o end>>] : entry \in MCLine, end \in {<<>>, <<"\n">>}}
    \union {[prog |-> "df", fstab |-> f, lines |-> <<<<"a", " ", "b", "\n">>, <<"\n">>, <<"c", "\t", "d", " ", "e", "\n">>>>]
               : f \in BOOLEAN}

MCStatistics == {[bsize |-> 3, blocks |-> n, bfree |-> f] : n \in {0, 7, 30, 99}, f \in {0, 5}} \ 
                {[bsize |-> 3, blocks |-> 0, bfree |-> 5]}
MCUnwritten == {[bsize |-> 3, blocks |-> 7, bfree |-> 99], [bsize |-> 0, blocks |-> 0, bfree |-> 5]}

=============================================================================
