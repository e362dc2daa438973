-------------------------------- MODULE MCTpl --------------------------------
(***************************************************************************)
(* Instances for TLC of the values in a tpl map and of the gathering of    *)
(* images from chunks.  A behaviour is one of the part that Init chose.    *)
(***************************************************************************)
EXTENDS TplGather

CONSTANTS Nothing, Versions, MaxElements

VARIABLES part, m, store, out

\* The format sA(iA(s#)), with two strings for the #.
Map == INSTANCE TplNodeRefinement
    WITH Root <- "r", Arrays <- {"a", "b"}, Strings <- {"s", "t"}, Preamble <- 1,
         Kids <- [r |-> <<"s", "a">>, a |-> <<"i", "b">>, b |-> <<"t">>],
         Width <- [s |-> 1, i |-> 1, t |-> 2],
         Values <- [s |-> {<<1>>, <<2>>}, i |-> {<<1>>}, t |-> {<<0, 2>>}]

mapOnly == <<m, store, out>>
tplVars == <<part, mapOnly, vars>>

NoChunks ==
    /\ mode = "fd" /\ ends = <<3>> /\ length = 0 /\ arrived = 0 /\ taken = 0
    /\ gs = <<>> /\ given = <<>> /\ pc = "closed" /\ rc = -1

TplInit ==
    \/ part = "map" /\ Map!Init /\ NoChunks
    \/ part = "chunks" /\ Init /\ Map!Init

TplNext ==
    \/ part = "map" /\ Map!Next /\ UNCHANGED <<part, vars>>
    \/ part = "chunks" /\ Next /\ UNCHANGED <<part, mapOnly>>

TplSpec == TplInit /\ [][TplNext]_tplVars

\* The other side sends what it has, and the program calls again whenever
\* there is something to read.
FairSpec ==
    /\ TplSpec
    /\ WF_tplVars(part = "chunks" /\ Arrives /\ UNCHANGED <<part, mapOnly>>)
    /\ WF_tplVars(part = "chunks" /\ Gather /\ UNCHANGED <<part, mapOnly>>)

-----------------------------------------------------------------------------
\* The buffer of tpl_dump is as large as what is written into it.
SizeIsExact == Map!SizeIsExact

\* What is packed into a map comes back from the map that loads its image.
ImplementsTplValues == Map!ImplementsTplValues

\* tpl_unpack reads what tpl_peek reads, whichever release wrote the image.
UnpacksWhatPeekSees == Map!UnpacksWhatPeekSees
=============================================================================
