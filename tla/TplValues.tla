------------------------------ MODULE TplValues ------------------------------
(***************************************************************************)
(* What a tpl map promises to its program, without bytes: values packed    *)
(* into it come back, element by element, from a map of the same format    *)
(* that loads the image.                                                   *)
(***************************************************************************)
EXTENDS TplFormat

CONSTANT Nothing

VARIABLES
    mode,     \* "map" as tpl_map left it, "pack" or "load"
    data,     \* the root's own values
    pend,     \* elements packed into each array and not yet into its parent
    top,      \* the value that was loaded
    rest,     \* elements of each array that are still to be unpacked
    tainted,  \* a load has failed and nothing has reset the map since
    store,    \* the image in the program's hands, with its fate
    out       \* the answer to the last call

vars == <<mode, data, pend, top, rest, tainted, store, out>>

Fates == {"whole", "excess", "spoiled"}
Empty == [a \in Arrays |-> <<>>]

Init ==
    /\ mode = "map"
    /\ data \in {Reset(d) : d \in Picks(Root)}
    /\ pend = Empty /\ top = Nothing /\ rest = Empty
    /\ tainted = FALSE /\ store = Nothing /\ out = Nothing

Pack(n, pick) ==
    LET old == IF mode = "load" THEN Empty ELSE pend
        kept == IF mode = "load" THEN Reset(data) ELSE data
    IN /\ mode' = "pack"
       /\ data' = IF n = Root THEN pick ELSE kept
       /\ pend' = [a \in Arrays |->
              IF a = n THEN Append(old[n], Element(n, pick, old))
              ELSE IF n # Root /\ a \in ArrayKids(n) THEN <<>> ELSE old[a]]
       /\ top' = Nothing /\ rest' = Empty /\ tainted' = FALSE /\ out' = Nothing
       /\ UNCHANGED store

Stored(fate, value) ==
    [fate |-> fate, value |-> IF fate = "spoiled" THEN Nothing ELSE value]

Dump(fate) ==
    /\ mode # "load"
    /\ store' = Stored(fate, Element(Root, data, pend))
    /\ out' = Nothing
    /\ UNCHANGED <<mode, data, pend, top, rest, tainted>>

Jot(pick, fate) ==
    /\ store' = Stored(fate, Element(Root, pick, Empty))
    /\ out' = Nothing
    /\ UNCHANGED <<mode, data, pend, top, rest, tainted>>

Refuse ==
    /\ out' = [rc |-> -1]
    /\ UNCHANGED <<mode, data, pend, top, rest, tainted, store>>

Discard ==
    /\ store' = Nothing /\ out' = Nothing
    /\ UNCHANGED <<mode, data, pend, top, rest, tainted>>

FirstRest(value) ==
    [a \in Arrays |-> IF a \in ArrayKids(Root) THEN value[Place(Root, a)] ELSE <<>>]

Emptied ==
    /\ pend' = Empty /\ store' = Nothing
    /\ data' = IF mode = "map" THEN data ELSE Reset(data)

\* A whole image is accepted by a map that no failed load has left behind.
LoadSucceeds ==
    /\ store # Nothing /\ store.fate # "spoiled"
    /\ Emptied
    /\ mode' = "load" /\ top' = store.value /\ rest' = FirstRest(store.value)
    /\ tainted' = FALSE /\ out' = [rc |-> 0]

LoadFails ==
    /\ store # Nothing /\ (store.fate = "whole" => tainted)
    /\ Emptied
    /\ mode' = "map" /\ top' = Nothing /\ rest' = Empty
    /\ tainted' \in BOOLEAN /\ out' = [rc |-> -1]

Unpack(n) ==
    LET packed == mode = "pack"
        value == IF packed THEN Element(Root, data, pend) ELSE top
        left == IF packed THEN FirstRest(value) ELSE rest
        now == IF n = Root THEN value ELSE Head(left[n])
    IN /\ mode # "map"
       /\ mode' = "load" /\ top' = value /\ tainted' = FALSE
       /\ IF n # Root /\ left[n] = <<>>
          THEN out' = [node |-> n, rc |-> 0] /\ rest' = left
          ELSE /\ out' = [node |-> n, rc |-> IF n = Root THEN 1 ELSE Len(left[n]),
                          values |-> LeavesOf(n, now)]
               /\ rest' = [a \in Arrays |->
                      IF a = n THEN Tail(left[n])
                      ELSE IF a \in ArrayKids(n) THEN now[Place(n, a)] ELSE left[a]]
       /\ pend' = Empty
       /\ data' = IF packed THEN Reset(data) ELSE data
       /\ UNCHANGED store

Peek ==
    /\ store # Nothing /\ store.fate = "whole"
    /\ out' = [peeked |-> LeavesOf(Root, store.value)]
    /\ UNCHANGED <<mode, data, pend, top, rest, tainted, store>>

\* The map is freed and mapped anew.
Remap ==
    /\ mode' = "map" /\ data' \in {Reset(d) : d \in Picks(Root)}
    /\ pend' = Empty /\ top' = Nothing /\ rest' = Empty
    /\ tainted' = FALSE /\ out' = Nothing
    /\ UNCHANGED store

Next ==
    \/ \E n \in Inner : \E pick \in Picks(n) : Pack(n, pick)
    \/ \E fate \in Fates : Dump(fate) \/ \E pick \in Picks(Root) : Jot(pick, fate)
    \/ Refuse \/ Discard \/ LoadSucceeds \/ LoadFails \/ Peek \/ Remap
    \/ \E n \in Inner : Unpack(n)

Spec == Init /\ [][Next]_vars
=============================================================================
