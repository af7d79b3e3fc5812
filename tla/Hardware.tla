------------------------------- MODULE Hardware -------------------------------
(***************************************************************************)
(* What the kernel learns from the boot loader: hardware_detect() and      *)
(* hardware_get_memory() (kernel/boot/hardware_detect.c) search the        *)
(* flattened device tree (kernel/boot/device_tree.c) or, on old firmware,  *)
(* the list of ATAGs (kernel/boot/atags.c).                                *)
(*                                                                         *)
(* A search walks the tree token by token and returns an index as a        *)
(* uint32_t; so is the -ENOENT of a search that fails, and "result<0" is   *)
(* never true.  The words before the tree, which that index leads to, are  *)
(* the 0 that ends the reserved-memory table.  Trees are well-formed.  A   *)
(* name is one word; the 0-padding of longer ones is left out.             *)
(*                                                                         *)
(* A word is the number that its four bytes are, the highest first, which  *)
(* is what big_to_little() makes of it.  big_to_little64() makes something *)
(* else of two words, and that is kept byte by byte.                       *)
(***************************************************************************)
EXTENDS Integers, Sequences

CONSTANTS
    Trees,         \* device trees the firmware may hand over: sequences of words
    AtagLists,     \* ATAG lists: sequences of <<tag, value>>
    SMALLEST,      \* 1024: a smaller memory is not believed
    DEFAULT        \* 256 MB

\* Words of a tree.  A node is BEGIN, its name, properties, nodes, END; a
\* property is PROP, the length of its value in bytes, its name, the value.
BEGIN_NODE == 1
END_NODE   == 2
PROP       == 3
NOP        == 4
END        == 9

Names == [root |-> 0, system |-> 101, memory |-> 102, memory_at_0 |-> 103,
          address_cells |-> 104, size_cells |-> 105, reg |-> 106,
          revision |-> 107, any |-> -1]

ASSUME HardwareAssumption ==
    /\ SMALLEST \in Nat /\ DEFAULT \in Nat
    /\ \A t \in Trees : t[1] = BEGIN_NODE /\ t[Len(t)] = END

VARIABLES
    found,         \* "none", "tree" or "atags"
    tree, atags,   \* what the boot loader left
    search,        \* the search that runs, of Searches
    i, inside,     \* its index, and the names of the nodes it is in
    results,       \* of the searches so far
    ramsize        \* what hardware_get_memory() returned, or -1

hw_vars == <<found, tree, atags, search, i, inside, results, ramsize>>

\* The searches of devicetree_find_int() in hardware_detect() and of
\* devicetree_get_memory(), in this order: node and property.
Searches == <<
    <<Names.system, Names.revision>>,
    <<Names.any, Names.address_cells>>,
    <<Names.any, Names.size_cells>>,
    <<Names.memory, Names.reg>>,
    <<Names.memory_at_0, Names.reg>> >>

\* The word at an index that counts from 0; outside is the table's end.
At(index) == IF index + 1 \in DOMAIN tree THEN tree[index + 1] ELSE 0

-----------------------------------------------------------------------------
(* The search: dt_parse_node() and dt_parse_prop()                         *)

Searching == found = "tree" /\ search <= Len(Searches)

Matches(name, prop) ==
    /\ Searches[search][1] \in {Names.any, name}
    /\ prop = Searches[search][2]

\* The next search begins at the tree's first word.
Return(result) ==
    /\ results' = Append(results, result)
    /\ search' = search + 1
    /\ i' = 0
    /\ inside' = <<>>

dt_begin_node ==
    /\ At(i) = BEGIN_NODE
    /\ inside' = Append(inside, At(i + 1))
    /\ i' = i + 2
    /\ UNCHANGED <<search, results>>

dt_end_node ==
    /\ At(i) = END_NODE
    /\ inside' = SubSeq(inside, 1, Len(inside) - 1)
    /\ i' = i + 1
    /\ UNCHANGED <<search, results>>

dt_nop ==
    /\ At(i) = NOP
    /\ i' = i + 1
    /\ UNCHANGED <<search, results, inside>>

dt_parse_prop ==
    /\ At(i) = PROP
    /\ IF Matches(inside[Len(inside)], At(i + 2))
       THEN Return(i + 1)
       ELSE /\ i' = i + 3 + (At(i + 1) + 3) \div 4
            /\ UNCHANGED <<search, results, inside>>

\* -ENOENT.
dt_not_found ==
    /\ inside = <<>> /\ At(i) = END
    /\ Return(-2)

devicetree_find_node_prop ==
    /\ Searching
    /\ dt_begin_node \/ dt_end_node \/ dt_nop \/ dt_parse_prop \/ dt_not_found
    /\ UNCHANGED <<found, tree, atags, ramsize>>

-----------------------------------------------------------------------------
(* What is made of the results                                             *)

\* devicetree_prop_int(): the first word behind length and name.
PropInt(result) == At(result + 2)

\* The bytes of a word, in the order of memory.
Byte(word, k) == (word \div 256^(4 - k)) % 256

\* The bits of either byte.
Either(a, b) ==
    LET bits[k \in 0..8] ==
            IF k = 0 THEN 0
            ELSE bits[k - 1] + (IF (a \div 2^(k - 1)) % 2 = 1 \/ (b \div 2^(k - 1)) % 2 = 1
                                THEN 2^(k - 1) ELSE 0)
    IN bits[8]

\* A uint64_t, of which no part of the boot code uses more than the lower
\* word and whether the number is small.
Long(high, low) == [high |-> high, low |-> low]
IsSmall(n) == n.high = 0 /\ n.low < SMALLEST

\* The eight bytes of two words of memory, as the shifts put them: the lowest
\* byte of the number is empty, and twice two bytes share a place.
big_to_little64(first, second) ==
    Long(Byte(first, 1) * 256^2 + Byte(first, 2) * 256 + Either(Byte(first, 3), Byte(first, 4)),
         Either(Byte(second, 1), Byte(second, 2)) * 256^3 + Byte(second, 3) * 256^2 + Byte(second, 4) * 256)

\* A size of one word or of two.
Cells(count, at) ==
    IF count = 1 THEN Long(0, At(at))
    ELSE IF count = 2 THEN big_to_little64(At(at), At(at + 1)) ELSE Long(0, 0)

\* hardware_convert_type(): the revisions of each board.  The numbers of the
\* types are those of RPI_MODEL_*.
Revisions ==
    [type \in {1, 2, 3, 4, 6, 7, 8, 9, 10, 11, 12, 13, 14, 15, 16} |->
        CASE type = 1 -> 7..9
          [] type = 2 -> (2..6) \union (13..15)
          [] type = 3 -> {\h12, \h15, \h900021}
          [] type = 4 -> {\h10, \h13, \h900032}
          [] type = 6 -> {\h11, \h14}
          [] type = 7 -> {\ha01040, \ha01041, \ha21041}
          [] type = 8 -> {\h900092, \h900093, \h920093}
          [] type = 9 -> {\ha02082, \ha22082, \ha32082}
          [] type = 10 -> {\ha020d3}
          [] type = 11 -> {\ha22042}
          [] type = 12 -> {\ha020a0}
          [] type = 13 -> {\h9000c1}
          [] type = 14 -> {\h902120}
          [] type = 15 -> {\h9020e0}
          [] type = 16 -> {\ha03111, \hb03111, \hb03112, \hb03114, \hb03115, \hc03111, \hc03112,
                           \hc03114, \hc03115, \hd03114, \hd03115}]

RPI_MODEL_UNKNOWN == 0

hardware_convert_type(revision) ==
    IF \E type \in DOMAIN Revisions : revision \in Revisions[type]
    THEN CHOOSE type \in DOMAIN Revisions : revision \in Revisions[type]
    ELSE RPI_MODEL_UNKNOWN

\* hardware_setup_vars(): where the peripherals are, in units of 2^24.
io_base(type) ==
    CASE type \in {1, 2, 3, 4, 6, 8, 13} -> \h20
      [] type \in {7, 9, 10, 11, 12, 14, 15} -> \h3f
      [] OTHER -> \hfe

devicetree_get_memory_old ==
    LET address_cells == PropInt(results[2])
        value == results[4] + 2
    IN IF address_cells \in {1, 2}
       THEN Cells(PropInt(results[3]), value + address_cells)
       ELSE Cells(PropInt(results[3]), value)

\* One range of two words, one of three, or two of three, the first of which
\* is used.  The size of one range of three is one word, but the conversion is
\* that of two: the word is taken for the upper one.
devicetree_get_memory_new ==
    LET val_len == At(results[5])
        value == results[5] + 2
    IN CASE val_len = 8 -> Long(0, At(value + 1))
         [] val_len = 12 -> big_to_little64(At(value + 2), 0)
         [] val_len = 24 -> Long(0, At(value + 2))
         [] OTHER -> Long(0, 0)

devicetree_get_memory ==
    LET length == IF IsSmall(devicetree_get_memory_old)
                  THEN devicetree_get_memory_new ELSE devicetree_get_memory_old
    IN IF IsSmall(length) THEN Long(0, DEFAULT) ELSE length

\* *length is a uint32_t.
hardware_get_memory_tree ==
    /\ found = "tree" /\ search > Len(Searches) /\ ramsize = -1
    /\ ramsize' = devicetree_get_memory.low
    /\ UNCHANGED <<found, tree, atags, search, i, inside, results>>

-----------------------------------------------------------------------------
(* ATAGs                                                                   *)

\* The switch of atags_detect(): the last memory tag counts; tags it does not
\* need are skipped.
atags_detect ==
    /\ found = "atags" /\ i < Len(atags) /\ atags[i + 1][1] # "NONE"
    /\ results' = IF atags[i + 1][1] = "MEM" THEN <<atags[i + 1][2]>> ELSE results
    /\ i' = i + 1
    /\ UNCHANGED <<found, tree, atags, search, inside, ramsize>>

hardware_get_memory_atags ==
    /\ found = "atags" /\ atags[i + 1][1] = "NONE" /\ ramsize = -1
    /\ ramsize' = IF results = <<>> THEN 0 ELSE results[1]
    /\ UNCHANGED <<found, tree, atags, search, i, inside, results>>

\* devicetree_setup() looks for the magic number.
hardware_detect ==
    /\ found = "none"
    /\ \/ found' = "tree" /\ tree' \in Trees /\ UNCHANGED atags
       \/ found' = "atags" /\ atags' \in AtagLists /\ UNCHANGED tree
    /\ UNCHANGED <<search, i, inside, results, ramsize>>

HwInit ==
    /\ found = "none" /\ tree = <<>> /\ atags = <<>>
    /\ search = 1 /\ i = 0 /\ inside = <<>>
    /\ results = <<>> /\ ramsize = -1

HwNext ==
    \/ hardware_detect \/ devicetree_find_node_prop \/ hardware_get_memory_tree
    \/ atags_detect \/ hardware_get_memory_atags

HwSpec == HwInit /\ [][HwNext]_hw_vars

-----------------------------------------------------------------------------
(* Properties                                                              *)

\* A node's property, found the other way round: the reg of a node with this
\* name begins with a range, whose last word is a size, or its lower half.
RangeLength(val_len) == IF val_len = 24 THEN 3 ELSE val_len \div 4

RegsIn(t, name) ==
    {k \in 1..(Len(t) - 4) : t[k] = BEGIN_NODE /\ t[k + 1] = name
                                /\ t[k + 2] = PROP /\ t[k + 4] = Names.reg}

SizesIn(t, name) ==
    {n \in {t[k + 4 + RangeLength(t[k + 3])] : k \in RegsIn(t, name)} : n >= SMALLEST}

\* Does the tree say that sizes have two words?  Is there a range of three words?
TwoWordSizes(t) ==
    \E k \in 1..(Len(t) - 3) : t[k] = PROP /\ t[k + 2] = Names.size_cells /\ t[k + 3] = 2
RangeOfThree(t) == \E k \in RegsIn(t, Names.memory_at_0) : t[k + 3] = 12

\* Where sizes have one word, memory gets the size that the firmware reports,
\* in the old way or the new, or the default if it reports none: although a
\* search that fails gives an index, too, and the words it leads to are looked
\* at.  Not so a size given only by a range of three words: the kernel then has
\* no memory at all (device_tree.c:625).  Of a size of two words the lower
\* half comes out 256 times as large (device_tree.c:84-99).
MemoryFound ==
    ramsize # -1 =>
        IF found = "atags" THEN \A k \in DOMAIN atags : atags[k][1] = "MEM" => ramsize = atags[k][2]
        ELSE LET old == SizesIn(tree, Names.memory)
                 new == SizesIn(tree, Names.memory_at_0)
             IN IF TwoWordSizes(tree) THEN \A n \in old : ramsize % 256^3 = (n % 256^2) * 256
                ELSE IF old = {} /\ new # {} /\ RangeOfThree(tree) THEN ramsize = 0
                ELSE IF old \union new = {} THEN ramsize = DEFAULT
                ELSE ramsize \in old \union new

\* hardware_detect.c:23-128, 213-275: a revision of the kind whose digits say
\* which board and processor it is is taken for that board, and the peripherals
\* are where this processor has them.  The revision is the one the tree has,
\* or what is found where it has none.
Model_digits == [type \in DOMAIN Revisions |->
    CASE type = 3 -> 2 [] type = 4 -> 3 [] type = 7 -> 4 [] type = 8 -> 9 [] type = 9 -> 8
      [] type = 10 -> \hd [] type = 11 -> 4 [] type = 12 -> \ha [] type = 13 -> \hc
      [] type = 14 -> \h12 [] type = 15 -> \he [] type = 16 -> \h11 [] OTHER -> -1]
Bases_of == [processor \in 0..3 |-> CASE processor = 0 -> \h20 [] processor = 3 -> \hfe [] OTHER -> \h3f]

BoardRight ==
    found = "tree" /\ results # <<>> =>
        LET revision == PropInt(results[1])
            type == hardware_convert_type(revision)
        IN revision >= \h800000 /\ type # RPI_MODEL_UNKNOWN =>
               /\ (revision \div 16) % 256 = Model_digits[type]
               /\ (revision \div 4096) % 16 \in DOMAIN Bases_of
               /\ io_base(type) = Bases_of[(revision \div 4096) % 16]

=============================================================================
