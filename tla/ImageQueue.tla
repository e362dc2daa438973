----------------------------- MODULE ImageQueue -----------------------------
(***************************************************************************)
(* What one direction of a connection promises to the program that dumps   *)
(* tpl images into it and to the one that loads them: a queue of whole     *)
(* images.  This is the queue that Irpc's c2s and s2c are.                 *)
(***************************************************************************)
EXTENDS Naturals, Sequences

CONSTANTS
    Images,    \* what may be dumped
    Capacity   \* images that fit before a dump blocks

VARIABLES
    queue,   \* images dumped and not yet loaded
    taken,   \* images loaded, in order
    open,    \* the writer is there
    reader   \* "on", at end of file, or "off" after an error or its death

vars == <<queue, taken, open, reader>>

Init ==
    /\ queue = <<>>
    /\ taken = <<>>
    /\ open = TRUE
    /\ reader = "on"

Put(m) ==
    /\ open
    /\ Len(queue) < Capacity
    /\ queue' = Append(queue, m)
    /\ UNCHANGED <<taken, open, reader>>

Take ==
    /\ reader = "on"
    /\ queue # <<>>
    /\ taken' = Append(taken, Head(queue))
    /\ queue' = Tail(queue)
    /\ UNCHANGED <<open, reader>>

Close == open /\ open' = FALSE /\ UNCHANGED <<queue, taken, reader>>

\* A writer that is gone may take the last images with it.
Lose ==
    /\ ~open
    /\ \E k \in 0..Len(queue) : queue' = SubSeq(queue, 1, k)
    /\ UNCHANGED <<taken, open, reader>>

Eof ==
    /\ reader = "on"
    /\ ~open
    /\ queue = <<>>
    /\ reader' = "eof"
    /\ UNCHANGED <<queue, taken, open>>

Stop ==
    /\ reader = "on"
    /\ reader' = "off"
    /\ UNCHANGED <<queue, taken, open>>

Next == (\E m \in Images : Put(m)) \/ Take \/ Close \/ Lose \/ Eof \/ Stop

Spec == Init /\ [][Next]_vars
=============================================================================
