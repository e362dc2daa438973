------------------------------- MODULE TplNode -------------------------------
(***************************************************************************)
(* tpl_map, tpl_pack, tpl_dump, tpl_load, tpl_unpack, tpl_peek and tpl_jot *)
(* on one map: the arrays' backbones while it is packed, their counts and  *)
(* cursors in the image while it is unpacked.                              *)
(*                                                                         *)
(* An image's data is a sequence of cells, each a 32 bit word or one       *)
(* character; sizes and cursors count cells.  The machine here is little   *)
(* endian; the images it loads were dumped here or on a big endian one.    *)
(* The loops of S(...)# are unrolled in Kids.                              *)
(***************************************************************************)
EXTENDS TplFormat, SequencesExt

CONSTANTS
    Nothing,
    Versions,   \* releases of tpl that write the images, of {"1.2", "1.3"}
    Preamble    \* size of an image's magic, flags, length and format

VARIABLES
    m,      \* the map: flags, data of the root's leaves, osz, num, bb, cur of
            \* each A node, and the image text
    store,  \* the image in the program's hands, and what became of it
    out     \* the answer to the last call

vars == <<m, store, out>>

Null == 0       \* cur of an array whose parent was not unpacked
TooLarge == 1000

ForArrays(x) == [a \in Arrays |-> x]

\* tpl_map: the atoms' buffers are not yet written.
Mapped(garbage) ==
    [flags |-> {}, data |-> Reset(garbage), osz |-> ForArrays(0), num |-> ForArrays(0),
     bb |-> ForArrays(<<>>), cur |-> ForArrays(Null), text |-> Nothing]

\* Mutant: the size that was bubbled up stays.
FreeKeepMapSize(map) ==
    [map EXCEPT !.flags = {}, !.data = Reset(map.data), !.num = ForArrays(0),
                !.bb = ForArrays(<<>>), !.cur = ForArrays(Null), !.text = Nothing]

\* The map as newly mapped.  Nothing reads the pointer to the image that it
\* held, nor to one that was refused, before the next load.
FreeKeepMap(map) ==
    [map EXCEPT !.flags = {}, !.data = Reset(map.data), !.osz = ForArrays(0),
                !.num = ForArrays(0), !.bb = ForArrays(<<>>), !.cur = ForArrays(Null),
                !.text = Nothing]

-----------------------------------------------------------------------------
(* Packing and dumping *)

strlen(s) == IF s = 0 THEN 0 ELSE s - 1

\* The space a value takes in the image.
AtomSize(l, v) ==
    FoldSeq(LAMBDA s, total : total + 1 + (IF l \in Strings THEN strlen(s) ELSE 0), 0, v)

Total(f) == FoldFunction(+, 0, f)

\* What an element adds to the array's ser_osz.
ElementSize(n, element, osz) ==
    Total([k \in DOMAIN Kids[n] |->
              IF Kids[n][k] \in Arrays THEN 1 + osz[Kids[n][k]]
              ELSE AtomSize(Kids[n][k], element[k])])

\* Mutant: the arrays keep the backbones that they gave away.
TakenFromNone(n) == {}

\* The arrays whose backbones the new element of n takes over.
TakenFrom(n) == IF n = Root THEN {} ELSE ArrayKids(n)

tpl_pack(map, n, pick) ==
    LET w == IF "RDONLY" \in map.flags THEN FreeKeepMap(map) ELSE map
        element == Element(n, pick, w.bb)
        size == ElementSize(n, element, w.osz)
    IN [w EXCEPT
        !.flags = @ \union {"WRONLY"},
        !.data = IF n = Root THEN pick ELSE @,
        !.num = [a \in Arrays |-> IF a = n THEN @[a] + 1
                                  ELSE IF a \in TakenFrom(n) THEN 0 ELSE @[a]],
        !.bb = [a \in Arrays |-> IF a = n THEN Append(@[a], element)
                                 ELSE IF a \in TakenFrom(n) THEN <<>> ELSE @[a]],
        !.osz = [a \in Arrays |-> IF a = n THEN @[a] + size
                                  ELSE IF a \in TakenFrom(n) THEN 0 ELSE @[a]]]

tpl_ser_osz(map) ==
    Preamble + ElementSize(Root, Element(Root, map.data, map.bb), map.osz)

\* A word of the other byte order; enough for words below 256.
tpl_byteswap(w) == IF w < 256 THEN w * 16777216 ELSE w \div 16777216

Word(big, w) == IF big THEN tpl_byteswap(w) ELSE w

\* A string's length is stored with its NUL since 1.3, without it before.
StringCells(big, version, s) ==
    <<Word(big, IF version = "1.3" THEN s ELSE strlen(s))>> \o [k \in 1..strlen(s) |-> 7]

LeafCells(big, version, l, v) ==
    FlattenSeq([i \in DOMAIN v |-> IF l \in Strings THEN StringCells(big, version, v[i])
                                   ELSE <<Word(big, v[i])>>])

RECURSIVE ElementCells(_, _, _, _)
\* tpl_dump_atyp: the count, then the elements on the backbone.
ArrayCells(big, version, a, elements) ==
    <<Word(big, Len(elements))>> \o
    FlattenSeq([j \in DOMAIN elements |-> ElementCells(big, version, a, elements[j])])
ElementCells(big, version, n, element) ==
    FlattenSeq([k \in DOMAIN Kids[n] |->
        IF Kids[n][k] \in Arrays THEN ArrayCells(big, version, Kids[n][k], element[k])
        ELSE LeafCells(big, version, Kids[n][k], element[k])])

\* tpl_dump_to_mem, on a machine of either byte order.  The image remembers
\* what it was dumped from, for TplNodeRefinement.
tpl_dump_to_mem(map, big, version) ==
    LET cells == ElementCells(big, version, Root, Element(Root, map.data, map.bb))
    IN [fmt |-> "own", big |-> big, nulls |-> version = "1.3",
        len |-> Word(big, tpl_ser_osz(map)), cells |-> cells,
        value |-> Element(Root, map.data, map.bb)]

-----------------------------------------------------------------------------
(* Walking an image *)

Size(im) == Preamble + Len(im.cells)
Cell(im, p) == IF p \in DOMAIN im.cells THEN im.cells[p] ELSE 0
Count(im, flags, p) == IF "XENDIAN" \in flags THEN tpl_byteswap(Cell(im, p)) ELSE Cell(im, p)

\* Where the atom at p ends: a string is skipped by its length.
AtomEnd(im, flags, l) ==
    [p \in Nat |->
        IF l \notin Strings THEN p + 1
        ELSE IF "OLD" \in flags THEN p + 1 + Count(im, flags, p)
        ELSE p + 1 + strlen(Count(im, flags, p))]

\* The place of a leaf's i-th atom; the place after the leaf is that of an
\* atom more.
AtomAt(im, flags, l, p) ==
    LET at[i \in 1..(Width[l] + 1)] ==
            IF i = 1 THEN p ELSE AtomEnd(im, flags, l)[at[i - 1]]
    IN at
LeafEnd(im, flags, l, p) == AtomAt(im, flags, l, p)[Width[l] + 1]

\* tpl_serlen: the place after the nodes of todo, or TooLarge when they end
\* past the image.  Every element takes a cell, so a larger count is wrong.
tpl_serlen(im, flags) ==
    LET past == Len(im.cells) + 1
        end[todo \in Seq(Arrays \union Leaves), p \in Nat] ==
            IF p > past THEN TooLarge
            ELSE IF todo = <<>> THEN p
            ELSE IF Head(todo) \notin Arrays
                 THEN end[Tail(todo), LeafEnd(im, flags, Head(todo), p)]
            ELSE IF p = past \/ Count(im, flags, p) > past - p - 1
                 THEN TooLarge
            ELSE end[FlattenSeq([j \in 1..Count(im, flags, p) |-> Kids[Head(todo)]])
                         \o Tail(todo), p + 1]
    IN end

\* The places of the children of n and the place after them.  tpl_unpack and
\* tpl_unpackA0 trust the leaves that tpl_sanity has walked.
KidsAt(im, flags, n, p) ==
    LET at[k \in 1..(Len(Kids[n]) + 1)] ==
            IF k = 1 THEN p
            ELSE IF Kids[n][k - 1] \in Arrays
                 THEN tpl_serlen(im, flags)[<<Kids[n][k - 1]>>, at[k - 1]]
            ELSE LeafEnd(im, flags, Kids[n][k - 1], at[k - 1])
    IN at

LeafValue(im, flags, l, p) ==
    [i \in 1..Width[l] |->
        LET w == Count(im, flags, AtomAt(im, flags, l, p)[i])
        IN IF l \in Strings /\ "OLD" \in flags THEN w + 1 ELSE w]

\* The flags that tpl_sanity sets on its way.
SanityFlags(im) ==
    IF im.fmt \in {"short", "junk"} THEN {}
    ELSE (IF im.big THEN {"XENDIAN"} ELSE {}) \union (IF im.nulls THEN {} ELSE {"OLD"})

tpl_sanity(im, flags, excess_ok) ==
    LET serlen == tpl_serlen(im, flags)[Kids[Root], 1] - 1 + Preamble
    IN /\ im.fmt = "own"
       /\ excess_ok \/ (IF "XENDIAN" \in flags THEN tpl_byteswap(im.len) ELSE im.len) = Size(im)
       /\ IF excess_ok THEN serlen <= Size(im) ELSE serlen = Size(im)

-----------------------------------------------------------------------------
(* Loading and unpacking *)

\* The counts and cursors of the arrays under n, whose children are at.
Positioned(map, n, at) ==
    [map EXCEPT
        !.num = [a \in Arrays |-> IF a \in ArrayKids(n)
                     THEN Count(map.text, map.flags, at[Place(n, a)]) ELSE @[a]],
        !.cur = [a \in Arrays |-> IF a \in ArrayKids(n) THEN at[Place(n, a)] + 1
                                  ELSE IF a = n THEN at[Len(Kids[n]) + 1] ELSE @[a]]]

tpl_unpackA0(map) == Positioned(map, Root, KidsAt(map.text, map.flags, Root, 1))

\* Already packed or loaded, so reset as if newly mapped.
AsNewlyMapped(map) ==
    IF map.flags \intersect {"WRONLY", "RDONLY"} = {} THEN map ELSE FreeKeepMap(map)

\* The flags of a loaded map are set anew, and those of tpl_sanity are gone.
LoadedFlags(im, ufree) ==
    {"MEM", "RDONLY"} \union ufree \union (IF im.big THEN {"XENDIAN"} ELSE {})

Accepts(map, im, excess_ok) ==
    tpl_sanity(im, AsNewlyMapped(map).flags \union SanityFlags(im), excess_ok)

tpl_load(map, im, ufree, accepted) ==
    LET w == AsNewlyMapped(map)
    IN IF accepted
       THEN tpl_unpackA0([w EXCEPT !.flags = LoadedFlags(im, ufree), !.text = im])
       ELSE [w EXCEPT !.flags = @ \union SanityFlags(im)]

\* One element less to unpack.
Consumed(map, n) == IF n = Root THEN map ELSE [map EXCEPT !.num[n] = @ - 1]

-----------------------------------------------------------------------------
(* The calls of the program, which deals with one image before its next:   *)
(* the map does not know of images that were not loaded into it.           *)

Init ==
    /\ m \in {Mapped(d) : d \in Picks(Root)}
    /\ store = Nothing
    /\ out = Nothing

Pack(n) ==
    /\ store = Nothing
    /\ n \in Arrays /\ "RDONLY" \notin m.flags => m.num[n] < MaxElements
    /\ \E pick \in Picks(n) : m' = tpl_pack(m, n, pick)
    /\ out' = Nothing
    /\ UNCHANGED store

\* The image of a map as it arrives where it is loaded: whole, with a byte
\* after its end, cut short, or not of this format or not tpl at all.
Whole(map) ==
    {[im |-> im, fate |-> "whole"] :
        im \in {tpl_dump_to_mem(map, b, v) : b \in BOOLEAN, v \in Versions}}
Excess(whole) == [whole EXCEPT !.im.cells = Append(@, 0), !.fate = "excess"]
Cut(whole) == {[whole.im EXCEPT !.cells = SubSeq(@, 1, k)] : k \in 0..(Len(whole.im.cells) - 1)}
Foreign(whole, fmt, nulls) ==
    {[whole.im EXCEPT !.cells = <<>>, !.fmt = f, !.nulls = n] : f \in fmt, n \in nulls}
Spoiled(images) ==
    {[im |-> [im EXCEPT !.value = Nothing], fate |-> "spoiled"] : im \in images}

Dump ==
    /\ store = Nothing
    /\ "RDONLY" \notin m.flags
    /\ \E whole \in Whole(m) :
          store' \in {whole} \union
              Spoiled(Cut(whole) \union Foreign(whole, {"other", "junk", "short"}, {TRUE}))
    /\ out' = Nothing
    /\ UNCHANGED m

\* tpl_dump of a loaded map.
DumpRefused ==
    /\ "RDONLY" \in m.flags
    /\ out' = [rc |-> -1]
    /\ UNCHANGED <<m, store>>

\* tpl_jot maps, packs the root, dumps and frees.
Jot ==
    /\ store = Nothing
    /\ \E pick \in Picks(Root) : \E whole \in Whole(tpl_pack(Mapped(pick), Root, pick)) :
          store' \in {whole, Excess(whole)} \union Spoiled(Foreign(whole, {"other"}, {FALSE}))
    /\ out' = Nothing
    /\ UNCHANGED m

Discard ==
    /\ store # Nothing
    /\ store' = Nothing /\ out' = Nothing
    /\ UNCHANGED m

Load(excess_ok) ==
    /\ store # Nothing
    /\ \E accepted \in {Accepts(m, store.im, excess_ok)} :
          /\ m' = tpl_load(m, store.im, {}, accepted)
          /\ out' = [rc |-> IF accepted THEN 0 ELSE -1]
    /\ store' = Nothing

\* tpl_unpack of a map that is loaded.
Unpacked(l, n) ==
    IF n # Root /\ l.num[n] <= 0
    THEN m' = l /\ out' = [node |-> n, rc |-> 0]
    ELSE IF n # Root /\ l.cur[n] = Null THEN out' = [fatal |-> n] /\ m' = l
    ELSE \E at \in {KidsAt(l.text, l.flags, n, IF n = Root THEN 1 ELSE l.cur[n])} :
            /\ m' = Positioned(Consumed(l, n), n, at)
            /\ out' = [node |-> n, rc |-> IF n = Root THEN 1 ELSE l.num[n],
                       values |-> [c \in LeafKids(n) |->
                           LeafValue(l.text, l.flags, c, at[Place(n, c)])]]

Unpack(n) ==
    /\ store = Nothing
    /\ "RDONLY" \in m.flags
    /\ Unpacked(m, n)
    /\ UNCHANGED store

\* A map that was packed is dumped and loaded first.
UnpackPacked(n) ==
    /\ store = Nothing
    /\ "WRONLY" \in m.flags
    /\ \E im \in {tpl_dump_to_mem(m, FALSE, "1.3")} :
          \E l \in {tpl_load(m, im, {"UFREE"}, TRUE)} : Unpacked(l, n)
    /\ UNCHANGED store

\* What tpl_peek reads of the leaves that begin the format.
Peeked(im) ==
    LET flags == SanityFlags(im)
    IN [c \in LeafKids(Root) |-> LeafValue(im, flags, c, KidsAt(im, flags, Root, 1)[Place(Root, c)])]

Peek ==
    /\ store # Nothing /\ store.im.fmt = "own"
    /\ Word(store.im.big, store.im.len) = Size(store.im)
    /\ out' = [peeked |-> Peeked(store.im)]
    /\ UNCHANGED <<m, store>>

\* tpl_free, and the format is mapped again.
Remap ==
    /\ store = Nothing
    /\ m' \in {Mapped(d) : d \in Picks(Root)}
    /\ out' = Nothing
    /\ UNCHANGED store

Next ==
    \/ \E n \in Inner : Pack(n) \/ Unpack(n) \/ UnpackPacked(n)
    \/ Dump \/ DumpRefused \/ Jot \/ Discard \/ Peek \/ Remap
    \/ \E excess_ok \in BOOLEAN : Load(excess_ok)

-----------------------------------------------------------------------------
\* The buffer tpl_dump allocates is exactly as large as what tpl_dump_to_mem
\* writes into it, whatever was packed, moved into parents, loaded and reset
\* before (tpl_ser_osz against tpl_dump_to_mem).
SizeIsExact ==
    "RDONLY" \notin m.flags => Size(tpl_dump_to_mem(m, FALSE, "1.3")) = tpl_ser_osz(m)

\* What tpl_unpack gives for the root is what tpl_peek saw in the same image,
\* whichever release of tpl wrote it.
UnpacksWhatPeekSees ==
    out # Nothing /\ "RDONLY" \in m.flags =>
        ("values" \in DOMAIN out => (out.node = Root => out.values = Peeked(m.text)))
=============================================================================
