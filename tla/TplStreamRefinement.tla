------------------------ MODULE TplStreamRefinement ------------------------
(***************************************************************************)
(* TplStream implements ImageQueue: an image is put by the write of its    *)
(* last byte and taken by the read of its last byte, whatever the parts in *)
(* which it was written and read.                                          *)
(***************************************************************************)
EXTENDS TplStream

\* The images of which every byte is in the pipe, in img or in got.
Through ==
    LET here == End(Len(got)) + Len(img) + Len(pipe)
    IN Cardinality({n \in 1..Len(ends) : ends[n] <= here})

Queue == INSTANCE ImageQueue WITH
    Images   <- Sizes,
    Capacity <- PipeBuf \div (Header + 1) + 1,
    queue    <- [k \in 1..(Through - Len(got)) |-> Size(Len(got) + k)],
    taken    <- [n \in 1..Len(got) |-> Len(got[n])],
    open     <- wpc # "closed",
    reader   <- IF ReaderOpen THEN "on" ELSE IF rpc = "eof" THEN "eof" ELSE "off"

\* Bytes in parts, retried and cut short, behave as a queue of whole images.
ImplementsImageQueue == Queue!Spec

\* Neither side is left inside a call that has begun to move an image.
CallsReturn == DumpReturns /\ GatherReturns
=============================================================================
