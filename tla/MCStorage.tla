------------------------------ MODULE MCStorage ------------------------------
(***************************************************************************)
(* Storage with the images, device tables and paths of a small instance.   *)
(***************************************************************************)
EXTENDS Storage

Dot     == <<".", 1>>
Bin     == <<"bin", 3>>
Sixteen == <<"sixteen letters.", 16>>
LinkA   == <<"a", 1>>
LinkB   == <<"b", 1>>
Other   == <<"other", 5>>

\* A directory with a directory of links, one to a link, and a file whose
\* name fills a chunk.
MCImage == [a \in {0, 32, 64, 96, 192, 224} |->
    CASE a = 0   -> Header(0, "volume", 0, 0, <<"VMWos", 5>>)
      [] a = 32  -> Header(64, "dir", 32, 0, Dot)
      [] a = 64  -> Header(96, "dir", 192, 0, Bin)
      [] a = 96  -> Header(0, "file", 0, 18, Sixteen)
      [] a = 192 -> Header(224, "link", 224, 0, LinkA)
      [] a = 224 -> Header(0, "link", 96, 0, LinkB)]

MCImages == {MCImage}
MCFileLists == {<<[name |-> Sixteen, size |-> 16]>>,
                <<[name |-> Sixteen, size |-> 16], [name |-> Other, size |-> 1]>>}
MCPaths == {<<>>, <<Dot>>, <<Bin>>, <<Bin, LinkA>>, <<Bin, LinkB>>, <<Sixteen>>,
            <<Sixteen, LinkA>>, <<Dot, Bin>>, <<Other>>}

-----------------------------------------------------------------------------
MCDevices     == <<<<"r", "0">>, <<"r", "1">>, <<"s", "2">>>>
MCFileSystem  == <<"romfs", "dos33fs", "romfs">>
MCDirectories == <<{<<<<"m">>>>, <<<<"m", "x">>>>, <<<<"b">>>>, <<<<"b">>, <<"c">>>>},
                   {}, {<<<<"c">>>>}>>
MCSources == {<<"r">>, <<"r", "1">>, <<"s">>, <<"x">>}
MCTargets == {<<"/", "b">>, <<"/">>, <<"/", "m">>}
MCAsked == {<<"/">>, <<"b">>, <<"/", "b", "/">>, <<"/", "m">>, <<"c">>, <<"m", "x">>,
            <<"b", "/", "c">>, <<"/", "m", "x">>}

-----------------------------------------------------------------------------
\* A new disk, and one that came from an Apple II: text that is locked, a
\* BASIC program, and a binary file whose name begins with another's.
MCFirst == {<<>>, <<[name |-> <<"a", "b">>, kind |-> "T", locked |-> TRUE, size |-> 0],
                    [name |-> <<"b">>, kind |-> "I", locked |-> FALSE, size |-> 3],
                    [name |-> <<"b", "a", "a">>, kind |-> "B", locked |-> FALSE, size |-> 3]>>}

\* One begins with another, one ends with a blank, one is too long.
MCGiven == {<<"a">>, <<"a", "b">>, <<"b">>, <<"b", BLANK>>, <<"b", "a", "a", "a">>}

=============================================================================
