------------------------------ MODULE TplFormat ------------------------------
(***************************************************************************)
(* The format of a tpl map: a tree whose inner nodes are the root and the  *)
(* A(...) arrays, and whose leaves are numbers and strings.  A leaf with a *)
(* '#' holds several atoms, and so its value is a sequence.  A string is   *)
(* told by its length with the NUL, so 0 is the null pointer and 1 the     *)
(* empty string.                                                           *)
(***************************************************************************)
EXTENDS Integers, Sequences

CONSTANTS
    Root,      \* the node tpl_map returns
    Arrays,    \* the A nodes
    Strings,   \* the leaves of type 's'
    Kids,      \* the children of the root and of each A node, in order
    Width,     \* the atoms of each leaf
    Values     \* what the program packs into each leaf

Leaves == DOMAIN Width
Inner == {Root} \union Arrays
LeafKids(n) == {Kids[n][k] : k \in DOMAIN Kids[n]} \ Arrays
ArrayKids(n) == {Kids[n][k] : k \in DOMAIN Kids[n]} \intersect Arrays

\* What the program's variables may hold when it packs a node.
Picks(n) == {f \in [LeafKids(n) -> UNION {Values[l] : l \in LeafKids(n)}] :
                \A l \in LeafKids(n) : f[l] \in Values[l]}

\* One element of a node: the values of its leaves, the arrays its arrays hold.
Element(n, pick, arrays) ==
    [k \in DOMAIN Kids[n] |->
        IF Kids[n][k] \in Arrays THEN arrays[Kids[n][k]] ELSE pick[Kids[n][k]]]

\* Where c is among the children of n.
Place(n, c) == CHOOSE k \in DOMAIN Kids[n] : Kids[n][k] = c

LeavesOf(n, element) == [l \in LeafKids(n) |-> element[Place(n, l)]]

NullLeaf(l) == [i \in 1..Width[l] |-> 0]

\* A map that is reset lets go of its strings and keeps its numbers.
Reset(data) == [l \in DOMAIN data |-> IF l \in Strings THEN NullLeaf(l) ELSE data[l]]

\* Bound: elements that an array is given between two resets.
CONSTANT MaxElements
=============================================================================
