------------------------------ MODULE TplStream ------------------------------
(***************************************************************************)
(* tpl images on a byte stream: the write loop of tpl_dump(TPL_FD) at one  *)
(* end of a connection and tpl_gather_blocking, which tpl_load(TPL_FD)     *)
(* calls, at the other.  Every image of libirpc travels this way.          *)
(*                                                                         *)
(* A byte is named by its place in everything that was ever dumped: the    *)
(* n-th image is made of the bytes Start(n) + 1 to ends[n].  The first     *)
(* three bytes of an image are "tpl", and its eight byte header holds its  *)
(* length.  Writes and reads move any part of what they are asked to; a    *)
(* signal (EINTR, EAGAIN) makes either loop try again with nothing         *)
(* changed, which is a stuttering step.                                    *)
(***************************************************************************)
EXTENDS Integers, Sequences, FiniteSets

CONSTANTS
    Header,     \* bytes read before an image's length is known, 8 in the code
    Sizes,      \* sizes that tpl_ser_osz computes
    PipeBuf,    \* bytes the connection holds before a write blocks
    GatherMax,  \* tpl_hook.gather_max, 0 for no limit
    MaxDumps    \* bound: images dumped in one behaviour

\* An image is longer than its header: its format string follows.
ASSUME StreamAssumption ==
    /\ Header \in Nat \ {0}
    /\ Sizes \subseteq {s \in Nat : s > Header}
    /\ PipeBuf \in Nat \ {0}
    /\ GatherMax \in Nat
    /\ MaxDumps \in Nat

VARIABLES
    wpc,    \* the writer: between dumps, in a dump, or closed
    sz,     \* tpl_dump: bytes still to be written
    ends,   \* place of the last byte of every image whose dump was begun
    pipe,   \* bytes written and not yet read
    reset,  \* the connection was reset, which loses unread bytes
    rpc,    \* the reader: between gathers, in one of the two read loops, or
            \* stopped after end of file, an error or its own death
    img,    \* tpl_gather_blocking: preamble, then *img; its length is i
    got     \* the images that gathers returned

vars == <<wpc, sz, ends, pipe, reset, rpc, img, got>>
writerVars == <<wpc, sz, ends>>
readerVars == <<rpc, img, got>>

-----------------------------------------------------------------------------
Least(a, b) == IF a < b THEN a ELSE b

End(n)   == IF n = 0 THEN 0 ELSE ends[n]
Start(n) == End(n - 1)
Size(n)  == End(n) - Start(n)
Bytes(n) == [k \in 1..Size(n) |-> Start(n) + k]

\* The images whose first byte is p: the one there is, or none.
ImagesAt(p) == {n \in 1..Len(ends) : Start(n) + 1 = p}

\* The comparison of the first three bytes with "tpl".
HasPrefix(bytes) == ImagesAt(bytes[1]) # {}

\* The length in the header.
TplLen(bytes) == Size(CHOOSE n \in ImagesAt(bytes[1]) : TRUE)

-----------------------------------------------------------------------------
Init ==
    /\ wpc = "idle" /\ sz = 0 /\ ends = <<>>
    /\ pipe = <<>> /\ reset = FALSE
    /\ rpc = "idle" /\ img = <<>> /\ got = <<>>

ReaderOpen == rpc \in {"idle", "header", "body"}

(* The writer *)

TplDump(s) ==
    /\ wpc = "idle"
    /\ Len(ends) < MaxDumps
    /\ wpc' = "dump"
    /\ sz' = s
    /\ ends' = Append(ends, End(Len(ends)) + s)
    /\ UNCHANGED <<pipe, reset, readerVars>>

\* Mutant: bufv stays at buf after a partial write.
BufvStuck == Start(Len(ends))

\* The bytes of buf before bufv have been written.
Bufv == End(Len(ends)) - sz

\* Mutant: one byte past the end of buf is written.
UnwrittenAndOne == sz + 1

\* What one write asks for.
Unwritten == sz

\* Mutant: write is taken to have written everything it was asked to.
WriteOnce ==
    /\ wpc = "dump"
    /\ \E rc \in 1..Least(Unwritten, PipeBuf - Len(pipe)) :
          pipe' = pipe \o [k \in 1..rc |-> Bufv + k]
    /\ sz' = 0
    /\ wpc' = "idle"
    /\ UNCHANGED <<ends, reset, readerVars>>

\* write returns rc bytes; the loop ends when none is left.  A write to a
\* reader that stopped may still succeed.
WriteSome ==
    /\ wpc = "dump"
    /\ \E rc \in 1..Least(Unwritten, PipeBuf - Len(pipe)) :
          /\ pipe' = pipe \o [k \in 1..rc |-> Bufv + k]
          /\ sz' = sz - rc
          /\ wpc' = IF sz = rc THEN "idle" ELSE "dump"
    /\ UNCHANGED <<ends, reset, readerVars>>

\* Mutant: every error is retried as EINTR is.
WriteRetries ==
    /\ wpc = "dump"
    /\ ~ReaderOpen
    /\ UNCHANGED vars

\* write fails with EPIPE or ECONNRESET: tpl_dump returns -1.
WriteFails ==
    /\ wpc = "dump"
    /\ ~ReaderOpen
    /\ wpc' = "closed"
    /\ UNCHANGED <<sz, ends, pipe, reset, readerVars>>

\* The writing program ends, or is killed between two writes.
WriterCloses ==
    /\ wpc \in {"idle", "dump"}
    /\ wpc' = "closed"
    /\ UNCHANGED <<sz, ends, pipe, reset, readerVars>>

\* A closed connection is reset, and a tail of the unread bytes is gone.
ConnectionReset ==
    /\ wpc = "closed"
    /\ ~reset
    /\ reset' = TRUE
    /\ \E k \in 0..Len(pipe) : pipe' = SubSeq(pipe, 1, k)
    /\ UNCHANGED <<writerVars, readerVars>>

(* The reader *)

GatherBegins ==
    /\ rpc = "idle"
    /\ rpc' = "header"
    /\ UNCHANGED <<writerVars, pipe, reset, img, got>>

\* read returns the first rc bytes.
Rest(rc)     == SubSeq(pipe, rc + 1, Len(pipe))
Gathered(rc) == img \o SubSeq(pipe, 1, rc)
Take(rc)     == pipe' = Rest(rc) /\ img' = Gathered(rc)

\* What one read of the header asks for.
HeaderWant == Header - Len(img)

\* The first loop of tpl_gather_blocking, short of the whole header.
ReadHeader ==
    /\ rpc = "header"
    /\ \E rc \in 1..Least(HeaderWant, Len(pipe)) : rc < HeaderWant /\ Take(rc)
    /\ UNCHANGED <<writerVars, reset, rpc, got>>

TooLong(bytes) == GatherMax > 0 /\ TplLen(bytes) > GatherMax

\* The last read of the header, and what is decided on it.
ReadHeaderEnd ==
    /\ rpc = "header"
    /\ HeaderWant <= Len(pipe)
    /\ Take(HeaderWant)
    /\ rpc' = IF ~HasPrefix(img') THEN "nontpl"
              ELSE IF TooLong(img') THEN "toolong" ELSE "body"
    /\ UNCHANGED <<writerVars, reset, got>>

\* Mutant: the header is not deducted from the image's length.
BodyWantAll == TplLen(img)

\* What one read of the rest asks for.
BodyWant == TplLen(img) - Len(img)

\* The second loop, short of the whole image.
ReadBody ==
    /\ rpc = "body"
    /\ \E rc \in 1..Least(BodyWant, Len(pipe)) : rc < BodyWant /\ Take(rc)
    /\ UNCHANGED <<writerVars, reset, rpc, got>>

\* The last read of the image: the gather returns it.
ReadBodyEnd ==
    /\ rpc = "body"
    /\ BodyWant <= Len(pipe)
    /\ pipe' = Rest(BodyWant)
    /\ got' = Append(got, Gathered(BodyWant))
    /\ img' = <<>>
    /\ rpc' = "idle"
    /\ UNCHANGED <<writerVars, reset>>

\* Mutant: no bytes for now is taken for the end of file.
ReadEofEarly ==
    /\ rpc \in {"header", "body"}
    /\ pipe = <<>>
    /\ rpc' = "eof"
    /\ UNCHANGED <<writerVars, pipe, reset, img, got>>

\* read returns 0, before or inside an image: the gather returns 0, and the
\* tpl_load that called it returns -1.
ReadEof ==
    /\ rpc \in {"header", "body"}
    /\ pipe = <<>> /\ wpc = "closed" /\ ~reset
    /\ rpc' = "eof"
    /\ UNCHANGED <<writerVars, pipe, reset, img, got>>

\* read fails: the gather returns -1.
ReadFails ==
    /\ rpc \in {"header", "body"}
    /\ pipe = <<>> /\ reset
    /\ rpc' = "error"
    /\ UNCHANGED <<writerVars, pipe, reset, img, got>>

\* The reading program ends, or is killed between two reads.
ReaderCloses ==
    /\ ReaderOpen
    /\ rpc' = "gone"
    /\ UNCHANGED <<writerVars, pipe, reset, img, got>>

-----------------------------------------------------------------------------
Writing == WriteSome \/ WriteFails
Reading ==
    \/ GatherBegins
    \/ ReadHeader
    \/ ReadHeaderEnd
    \/ ReadBody
    \/ ReadBodyEnd
    \/ ReadEof
    \/ ReadFails

Next ==
    \/ \E s \in Sizes : TplDump(s)
    \/ Writing
    \/ WriterCloses
    \/ ConnectionReset
    \/ Reading
    \/ ReaderCloses

\* A dump that was begun goes on, and the reader gathers again and again.
Fairness == WF_vars(Writing) /\ WF_vars(Reading)

Spec == Init /\ [][Next]_vars /\ Fairness

-----------------------------------------------------------------------------
TypeOK ==
    /\ wpc \in {"idle", "dump", "closed"}
    /\ sz \in Nat
    /\ ends \in Seq(Nat)
    /\ pipe \in Seq(Nat) /\ Len(pipe) <= PipeBuf
    /\ reset \in BOOLEAN
    /\ rpc \in {"idle", "header", "body", "eof", "error", "nontpl", "toolong", "gone"}
    /\ img \in Seq(Nat)
    /\ got \in Seq(Seq(Nat))

\* The gathers return the images that were dumped, in their order, each byte
\* for byte and none of them twice (tpl_dump, tpl_gather_blocking).
WholeImages ==
    /\ Len(got) <= Len(ends)
    /\ \A n \in 1..Len(got) : got[n] = Bytes(n)

\* A gather takes no byte of the next image: between two gathers the next
\* byte begins an image, and no gather meets input that is not tpl.
StopsAtTheEnd ==
    /\ rpc # "nontpl"
    /\ rpc = "idle" /\ pipe # <<>> => HasPrefix(pipe)

\* Images whose last byte was written.
Dumped == IF sz > 0 THEN Len(ends) - 1 ELSE Len(ends)

\* The end of file is seen only after every image whose dump was completed
\* has been gathered.
EofAfterAll == rpc = "eof" => Len(got) = Dumped

\* A program that dumps images and one that gathers them share nothing but the
\* stream: each image arrives whole, no gather takes a byte of the next, and the
\* end comes after all of them.
OneStream == WholeImages /\ StopsAtTheEnd /\ EofAfterAll

\* A dump returns: its image gets through, or the reader has stopped and the
\* write fails.
DumpReturns == wpc = "dump" ~> wpc # "dump"

\* A gather that has read a part of an image returns.
GatherReturns == rpc \in {"header", "body"} /\ img # <<>> ~> rpc \notin {"header", "body"}
=============================================================================
