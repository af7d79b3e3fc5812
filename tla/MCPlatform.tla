------------------------------ MODULE MCPlatform ------------------------------
(***************************************************************************)
(* Platform with the ELF files, device trees and ATAG lists of a small     *)
(* instance.                                                               *)
(***************************************************************************)
EXTENDS Platform

\* Programs without data, with every size of the other sections; programs
\* with two words of data, each plain or the address of any word.
Plain == {Elf(t, r, 0, b, <<>>) : t \in 1..2, r \in 0..1, b \in 0..1}

WithData(r, b) ==
    LET none == Elf(1, r, 2, b, <<>>)
        words == Data(none)
    IN {Elf(1, r, 2, b, refs) :
            refs \in UNION {[D -> 0..(DataAt(none) + 2)] : D \in SUBSET words}}

MCElfs == Plain \union UNION {WithData(r, b) : r \in 0..1, b \in {0, 2}}

-----------------------------------------------------------------------------
\* Pieces of a device tree.
Property(name, value) == <<PROP, 4 * Len(value), name>> \o value
Node(name, contents) == <<BEGIN_NODE, name>> \o contents \o <<END_NODE>>

\* A range that begins at 0, with addresses and sizes of so many words.
MemoryRange(address_cells, size_cells, n) ==
    [j \in 1..(address_cells + size_cells) |-> IF j = address_cells + size_cells THEN n ELSE 0]

OldMemory(ac, sc, n) == Node(Names.memory, Property(Names.reg, MemoryRange(ac, sc, n)))
NewMemory(reg) == Node(Names.memory_at_0, Property(Names.reg, reg))

\* No memory node, the old one, the new one, both, the old one empty.
MemoryNodes(ac, sc) ==
    LET old == {OldMemory(ac, sc, n) : n \in {5000, \h3b400000}}
        new == {NewMemory(reg) : reg \in {MemoryRange(1, 1, 6000), MemoryRange(2, 1, 6500),
                                                MemoryRange(2, 1, 7000) \o MemoryRange(2, 1, 8000)}}
    IN {<<>>} \union old \union new \union {a \o b : a \in old, b \in new}
        \union {OldMemory(ac, sc, 0) \o b : b \in new}

OtherNodes ==
    {<<>>, <<NOP>>, Node(108, Property(Names.reg, <<3, 9999>>) \o Node(109, <<>>))}

MCTrees ==
    UNION {{Node(Names.root,
                 Property(Names.address_cells, <<ac>>) \o Property(Names.size_cells, <<sc>>)
                   \o others \o Node(Names.system, rev) \o nodes) \o <<END>> :
              others \in OtherNodes, rev \in {<<>>, Property(Names.revision, <<7>>)},
              nodes \in MemoryNodes(ac, sc)} : ac \in {1, 2}, sc \in {1, 2}}

    \union {Node(Names.root, Node(Names.system, Property(Names.revision, <<revision>>)) \o OldMemory(1, 1, 5000)) \o <<END>> :
              revision \in UNION {Revisions[type] : type \in DOMAIN Revisions}}

MCAtagLists == {<<<<"CORE", 0>>, <<"MEM", 4000>>, <<"CMDLINE", 0>>, <<"NONE", 0>>>>}

-----------------------------------------------------------------------------
\* Caches of one to four ways and sets; two levels of them, of which one may
\* be for instructions only; none.
MCLevels ==
    {[type |-> type, linelen |-> linelen, associativity |-> ways - 1, numsets |-> sets - 1] :
        type \in {1, 3}, linelen \in {1, 2}, ways \in 1..4, sets \in {1, 2, 4}}
MCUnified == [type |-> 4, linelen |-> 2, associativity |-> 3, numsets |-> 2]
MCCaches ==
    {[loc |-> loc, levels |-> <<c, MCUnified>>] : loc \in {1, 2}, c \in MCLevels}
        \union {[loc |-> 0, levels |-> <<>>]}

\* Rows that follow each other, and rows with a byte or two between them.
MCScreens == {[w |-> 2, h |-> 2, pitch |-> 6], [w |-> 1, h |-> 2, pitch |-> 5], [w |-> 3, h |-> 1, pitch |-> 9]}

=============================================================================
