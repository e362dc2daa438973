-------------------------- MODULE TplNodeRefinement --------------------------
(***************************************************************************)
(* TplNode implements TplValues: cursors in an image of cells behave as    *)
(* sequences of values that are still to be unpacked.                      *)
(***************************************************************************)
EXTENDS TplNode

ImageFlags(im) == IF im.big THEN {"XENDIAN"} ELSE {}

\* The elements of n that are encoded at p.
RECURSIVE Decoded(_, _, _, _)
DecodedElement(im, n, at) ==
    [k \in DOMAIN Kids[n] |->
        IF Kids[n][k] \in Arrays
        THEN Decoded(im, Kids[n][k], at[k] + 1, Count(im, ImageFlags(im), at[k]))
        ELSE LeafValue(im, ImageFlags(im), Kids[n][k], at[k])]
Decoded(im, n, p, count) ==
    LET at[j \in 1..count] ==
            IF j = 1 THEN KidsAt(im, ImageFlags(im), n, p)
            ELSE KidsAt(im, ImageFlags(im), n, at[j - 1][Len(Kids[n]) + 1])
    IN [j \in 1..count |-> DecodedElement(im, n, at[j])]

Loaded == "RDONLY" \in m.flags
Mode == IF Loaded THEN "load" ELSE IF "WRONLY" \in m.flags THEN "pack" ELSE "map"

Promise == INSTANCE TplValues WITH
    mode    <- Mode,
    data    <- m.data,
    pend    <- m.bb,
    top     <- IF Loaded THEN m.text.value ELSE Nothing,
    rest    <- [a \in Arrays |->
                   IF Loaded THEN Decoded(m.text, a, m.cur[a], m.num[a]) ELSE <<>>],
    tainted <- Mode = "map" /\ m.flags # {},
    store   <- IF store = Nothing THEN Nothing
               ELSE [fate |-> store.fate, value |-> store.im.value]

\* Packing, dumping and unpacking images, whole or spoiled, of either byte
\* order, behave as values that are packed and come back in their order.
ImplementsTplValues == Promise!Init /\ [][Promise!Next]_(Promise!vars)
=============================================================================
