------------------------------ MODULE TplGather ------------------------------
(***************************************************************************)
(* tpl_gather_nonblocking and tpl_gather_mem: images that come in chunks   *)
(* of any size, none of which need end where an image does.  What was left *)
(* over of a chunk waits in *gs for the next one.                          *)
(*                                                                         *)
(* A byte is named by its place in the stream; the n-th image is made of   *)
(* the bytes Start(n) + 1 to ends[n].  After the last image the stream     *)
(* ends, or goes on with bytes that are not tpl.                           *)
(***************************************************************************)
EXTENDS Integers, Sequences

CONSTANTS
    Header,      \* bytes of an image that hold its length, 8 in the code
    Sizes,       \* sizes of images, above Header
    MaxImages,   \* bound: images in the stream
    BufLen,      \* TPL_GATHER_BUFLEN, and the most tpl_gather_mem is handed
    GatherMax    \* tpl_hook.gather_max, 0 for no limit

ASSUME GatherAssumption ==
    /\ Header \in Nat /\ Sizes \subseteq {n \in Nat : n > Header}
    /\ MaxImages \in Nat /\ BufLen \in Nat \ {0} /\ GatherMax \in Nat

VARIABLES
    mode,       \* "fd" for tpl_gather_nonblocking, "mem" for tpl_gather_mem
    ends,       \* where each image ends
    length,     \* the bytes the other side sends, of whole images or not
    arrived,    \* bytes that can be read
    taken,      \* bytes that were read
    gs,         \* the partial image: its bytes
    given,      \* images the callback was invoked with
    pc,         \* between calls, or in the loop of tpl_gather_nonblocking
    rc          \* what the last call returned, 1 to be called again

vars == <<mode, ends, length, arrived, taken, gs, given, pc, rc>>

End(n) == IF n = 0 THEN 0 ELSE ends[n]
Start(n) == End(n - 1)
Bytes(from, to) == [k \in 1..(to - from) |-> from + k]
Image(n) == Bytes(Start(n), End(n))

ImagesAt(byte) == {n \in DOMAIN ends : Start(n) + 1 = byte}
HasPrefix(byte) == ImagesAt(byte) # {}
TplLen(byte) == LET n == CHOOSE n \in ImagesAt(byte) : TRUE IN End(n) - Start(n)

Smallest(a, b) == IF a < b THEN a ELSE b

EndsOf(sizes) ==
    LET end[n \in 0..Len(sizes)] == IF n = 0 THEN 0 ELSE end[n - 1] + sizes[n]
    IN [n \in DOMAIN sizes |-> end[n]]

Init ==
    /\ mode \in {"fd", "mem"}
    /\ \E n \in 1..MaxImages : \E sizes \in [1..n -> Sizes] : ends = EndsOf(sizes)
    /\ length \in Start(Len(ends))..(End(Len(ends)) + Header + 1)
    /\ arrived = 0 /\ taken = 0 /\ gs = <<>> /\ given = <<>> /\ pc = "idle" /\ rc = 1

-----------------------------------------------------------------------------
Exceeds(len) == GatherMax > 0 /\ len > GatherMax

\* What is left of img from the pointer tpl on, when the loop stops there.
Stops(img, tpl, bad) ==
    [images |-> <<>>, left |-> SubSeq(img, tpl + 1, Len(img)), bad |-> bad]

\* Mutant: an image is looked for once in a chunk.
Isolated1(img) ==
    IF Len(img) <= Header THEN Stops(img, 0, FALSE)
    ELSE IF ~HasPrefix(img[1]) THEN Stops(img, 0, TRUE)
    ELSE IF TplLen(img[1]) > Len(img) THEN Stops(img, 0, FALSE)
    ELSE [Stops(img, TplLen(img[1]), FALSE) EXCEPT
             !.images = <<SubSeq(img, 1, TplLen(img[1]))>>]

\* The whole images that img begins with, and what is left of it; bad when
\* what follows them is not tpl.  With a header and no more in hand, the loop
\* stops.
Isolated(img) ==
    LET loop[tpl \in 0..Len(img)] ==
            IF tpl + Header >= Len(img) THEN Stops(img, tpl, FALSE)
            ELSE IF ~HasPrefix(img[tpl + 1]) THEN Stops(img, tpl, TRUE)
            ELSE LET next == tpl + TplLen(img[tpl + 1])
                 IN IF next > Len(img) THEN Stops(img, tpl, FALSE)
                    ELSE [loop[next] EXCEPT !.images = <<SubSeq(img, tpl + 1, next)>> \o @]
    IN loop[0]

\* Any partial image, and the new chunk after it.
Concatenated(chunk) == gs \o chunk

\* Mutant: what follows the images in a chunk is dropped with its buffer.
LeftoverNone(i) == IF i.images = <<>> THEN i.left ELSE <<>>

\* What is kept for the next chunk.
Leftover(i) == i.left

\* One chunk: -2 for a partial image that grows too large, -3 for input that
\* is not tpl, -4 when the callback wants no more.
Gathered(chunk, onward) ==
    LET i == Isolated(Concatenated(chunk))
    IN IF gs # <<>> /\ Exceeds(Len(Concatenated(chunk)))
       THEN gs' = <<>> /\ given' = given /\ rc' = -2 /\ pc' = "closed"
       ELSE \/ /\ given' = given \o i.images
               /\ IF i.bad THEN gs' = <<>> /\ rc' = -3 /\ pc' = "closed"
                  ELSE gs' = Leftover(i) /\ onward
            \/ \E k \in DOMAIN i.images :
                  /\ given' = given \o SubSeq(i.images, 1, k)
                  /\ gs' = <<>> /\ rc' = -4 /\ pc' = "closed"

\* The other side sends.
Arrives ==
    /\ arrived < length
    /\ arrived' = arrived + 1
    /\ UNCHANGED <<mode, ends, length, taken, gs, given, pc, rc>>

\* tpl_gather_mem is handed the next bytes.
GatherMem ==
    /\ mode = "mem" /\ pc = "idle"
    /\ \E n \in 1..Smallest(arrived - taken, BufLen) :
          /\ taken' = taken + n
          /\ Gathered(Bytes(taken, taken + n), rc' = 1 /\ pc' = "idle")
    /\ UNCHANGED <<mode, ends, length, arrived>>

\* The program's select finds the descriptor readable.
GatherNonblocking ==
    /\ mode = "fd" /\ pc = "idle"
    /\ arrived > taken \/ arrived = length
    /\ pc' = "reading"
    /\ UNCHANGED <<mode, ends, length, arrived, taken, gs, given, rc>>

\* A read that fills no more than the buffer; the loop goes on.
ReadChunk ==
    /\ pc = "reading"
    /\ arrived > taken
    /\ LET n == Smallest(arrived - taken, BufLen)
       IN taken' = taken + n
          /\ Gathered(Bytes(taken, taken + n), rc' = rc /\ pc' = "reading")
    /\ UNCHANGED <<mode, ends, length, arrived>>

\* EAGAIN: nothing to read right now.
ReadNothing ==
    /\ pc = "reading"
    /\ arrived = taken /\ arrived < length
    /\ pc' = "idle" /\ rc' = 1
    /\ UNCHANGED <<mode, ends, length, arrived, taken, gs, given>>

\* End of file, or an error: a partial image is freed.
ReadEnds ==
    /\ pc = "reading"
    /\ arrived = taken /\ arrived = length
    /\ rc' \in {0, -1}
    /\ gs' = <<>> /\ pc' = "closed"
    /\ UNCHANGED <<mode, ends, length, arrived, taken, given>>

Gather == GatherMem \/ GatherNonblocking \/ ReadChunk \/ ReadNothing \/ ReadEnds

Next == Arrives \/ Gather

Spec == Init /\ [][Next]_vars

-----------------------------------------------------------------------------
\* The callback gets the images that were sent, in their order, each byte for
\* byte and none of them twice, and what waits in *gs is all that was read
\* after them, whatever the chunks (tpl_gather_nonblocking, tpl_gather_mem).
GatheredInOrder ==
    /\ Len(given) <= Len(ends)
    /\ \A n \in DOMAIN given : given[n] = Image(n)
    /\ pc # "closed" => gs = Bytes(End(Len(given)), taken)

\* Every image that was sent whole reaches the callback before the source is
\* given up, unless the program, an error or the limit gives it up.
AllGathered ==
    <>(\/ rc < 0
       \/ \A n \in DOMAIN ends : ends[n] <= length => n <= Len(given))
=============================================================================
