-------------------------- MODULE TplStreamProofs --------------------------
(***************************************************************************)
(* Proofs of TplStream's safety properties, and that the stream implements *)
(* ImageQueue.                                                             *)
(***************************************************************************)
EXTENDS TplStreamRefinement, TLAPS, FiniteSetTheorems, SequenceTheorems, WellFoundedInduction

\* Images lie one behind the other and are longer than a header.
Laid ==
    /\ \A n \in 1..Len(ends) : End(n) > Start(n) + Header
    /\ \A m, n \in 1..Len(ends) : m < n => End(m) <= Start(n)

\* The writer is inside its last image, or at the end of it.
AtWriter ==
    /\ wpc = "idle" => sz = 0
    /\ wpc = "dump" => sz > 0
    /\ ends = <<>> => sz = 0
    /\ ends # <<>> => sz <= Size(Len(ends))

\* Where the reader is.
Here == End(Len(got)) + Len(img)

\* The reader is inside the image after those it returned, or before it.
AtReader ==
    /\ Len(got) <= Len(ends)
    /\ \A k \in 1..Len(img) : img[k] = End(Len(got)) + k
    /\ rpc = "idle" => img = <<>>
    /\ rpc = "header" => Len(img) < Header
    /\ rpc = "body" => img # <<>>
    /\ img # <<>> => Len(got) < Len(ends) /\ Len(img) < Size(Len(got) + 1)

\* The pipe holds the bytes between the two, or their beginning after a reset.
Between ==
    /\ \A i \in 1..Len(pipe) : pipe[i] = Here + i
    /\ Here + Len(pipe) <= Bufv
    /\ ~reset => Here + Len(pipe) = Bufv
    /\ reset => wpc = "closed"
    /\ rpc = "eof" => pipe = <<>> /\ wpc = "closed" /\ Here = Bufv

StreamInv ==
    /\ TypeOK
    /\ Laid
    /\ AtWriter
    /\ AtReader
    /\ Between
    /\ WholeImages
    /\ rpc # "nontpl"

-----------------------------------------------------------------------------
(* Places *)

\* Places of images are numbers, and grow.
LEMMA EndFacts ==
    ASSUME TypeOK, Laid
    PROVE  /\ \A n \in 0..Len(ends) : End(n) \in Nat
           /\ \A m, n \in 0..Len(ends) : m < n => End(m) < End(n)
           /\ \A n \in 1..Len(ends) : /\ Start(n) \in Nat
                                      /\ Size(n) \in Nat
                                      /\ Size(n) > Header
                                      /\ End(n) = Start(n) + Size(n)
<1>1. \A n \in 0..Len(ends) : End(n) \in Nat
    BY DEF TypeOK, End
<1>2. \A n \in 1..Len(ends) : Start(n) \in Nat /\ End(n) \in Nat
    BY <1>1 DEF TypeOK, Start
<1>3. \A n \in 1..Len(ends) : Size(n) \in Nat /\ Size(n) > Header /\ End(n) = Start(n) + Size(n)
    BY <1>2, StreamAssumption DEF Laid, Size, TypeOK
<1>4. ASSUME NEW m \in 0..Len(ends), NEW n \in 0..Len(ends), m < n
      PROVE  End(m) < End(n)
    <2>1. n \in 1..Len(ends) /\ Start(n) < End(n)
        BY <1>2, <1>4, StreamAssumption DEF Laid, TypeOK
    <2>2. CASE m = 0
        BY <1>2, <2>1, <2>2 DEF End
    <2>3. CASE m # 0
        BY <1>1, <1>2, <1>4, <2>1, <2>3 DEF Laid, TypeOK
    <2> QED BY <2>2, <2>3
<1> QED BY <1>1, <1>2, <1>3, <1>4

\* Two images do not begin at one place.
LEMMA OneImage ==
    ASSUME TypeOK, Laid, NEW n \in 1..Len(ends)
    PROVE  ImagesAt(Start(n) + 1) = {n}
<1>1. \A m \in 1..Len(ends) : Start(m) = Start(n) => m = n
    <2> SUFFICES ASSUME NEW m \in 1..Len(ends), Start(m) = Start(n) PROVE m = n
        OBVIOUS
    <2>1. m - 1 \in 0..Len(ends) /\ n - 1 \in 0..Len(ends)
        BY DEF TypeOK
    <2>2. \A a, b \in 0..Len(ends) : a < b => End(a) < End(b)
        BY EndFacts
    <2>3. End(m - 1) \in Nat /\ End(n - 1) \in Nat /\ End(m - 1) = End(n - 1)
        BY <2>1, EndFacts DEF Start
    <2>4. ~(m - 1 < n - 1) /\ ~(n - 1 < m - 1)
        BY <2>1, <2>2, <2>3
    <2> QED BY <2>1, <2>4
<1>2. \A m \in 1..Len(ends) : Start(m) \in Nat
    BY EndFacts
<1> QED BY <1>1, <1>2 DEF ImagesAt

\* The header of an image tells where the image ends.
LEMMA HeaderTells ==
    ASSUME TypeOK, Laid, NEW n \in 1..Len(ends),
           NEW bytes, bytes[1] = Start(n) + 1
    PROVE  HasPrefix(bytes) /\ TplLen(bytes) = Size(n)
BY OneImage DEF HasPrefix, TplLen

\* Where a byte waits, an image that was begun has not been returned.
LEMMA SomethingBegun ==
    ASSUME StreamInv, pipe # <<>>
    PROVE  /\ Len(got) + 1 \in 1..Len(ends)
           /\ Start(Len(got) + 1) = End(Len(got))
<1>1. Len(pipe) \in Nat /\ Len(pipe) > 0 /\ Len(got) \in Nat /\ Len(ends) \in Nat
    BY DEF StreamInv, TypeOK
<1>2. End(Len(got)) \in Nat /\ End(Len(ends)) \in Nat
    BY <1>1, EndFacts DEF StreamInv, AtReader
<1>3. End(Len(got)) < End(Len(ends))
    BY <1>1, <1>2 DEF StreamInv, TypeOK, Between, Here, Bufv
<1>4. Len(got) # Len(ends)
    BY <1>2, <1>3
<1>5. Len(got) < Len(ends)
    BY <1>1, <1>4 DEF StreamInv, AtReader
<1> QED BY <1>1, <1>5 DEF Start

-----------------------------------------------------------------------------
(* Reads *)

\* Bytes read go behind those read before, and leave the rest in order.
LEMMA TakeMoves ==
    ASSUME StreamInv, NEW rc \in 1..Len(pipe)
    PROVE  /\ Rest(rc) \in Seq(Nat)
           /\ Len(Rest(rc)) = Len(pipe) - rc
           /\ \A i \in 1..Len(Rest(rc)) : Rest(rc)[i] = Here + rc + i
           /\ Gathered(rc) \in Seq(Nat)
           /\ Len(Gathered(rc)) = Len(img) + rc
           /\ \A k \in 1..Len(Gathered(rc)) : Gathered(rc)[k] = End(Len(got)) + k
<1> DEFINE part == SubSeq(pipe, 1, rc)
<1>1. /\ pipe \in Seq(Nat) /\ img \in Seq(Nat)
      /\ Len(pipe) \in Nat /\ Len(img) \in Nat /\ Len(got) \in Nat
      /\ \A i \in 1..Len(pipe) : pipe[i] = Here + i
      /\ \A k \in 1..Len(img) : img[k] = End(Len(got)) + k
    BY DEF StreamInv, TypeOK, AtReader, Between
<1>2. End(Len(got)) \in Nat
    BY <1>1, EndFacts DEF StreamInv, AtReader, TypeOK
<1>3. part \in Seq(Nat) /\ Len(part) = rc /\ \A i \in 1..rc : part[i] = pipe[i]
    BY <1>1
<1>4. /\ Rest(rc) \in Seq(Nat) /\ Len(Rest(rc)) = Len(pipe) - rc
      /\ \A i \in 1..Len(Rest(rc)) : Rest(rc)[i] = pipe[rc + i]
    <2>1. Rest(rc) = SubSeq(pipe, rc + 1, Len(pipe))
        BY DEF Rest
    <2>2. Rest(rc) \in Seq(Nat) /\ Len(Rest(rc)) = Len(pipe) - rc
        BY <1>1, <2>1
    <2>3. \A i \in 1..Len(Rest(rc)) : Rest(rc)[i] = pipe[rc + i]
        BY <1>1, <2>1, <2>2
    <2> QED BY <2>2, <2>3
<1>5. ASSUME NEW i \in 1..Len(Rest(rc)) PROVE Rest(rc)[i] = Here + rc + i
    <2>1. rc + i \in 1..Len(pipe)
        BY <1>1, <1>4
    <2>2. Rest(rc)[i] = Here + (rc + i)
        BY <1>1, <1>4, <2>1
    <2> QED BY <1>1, <1>2, <2>2 DEF Here
<1>6. Gathered(rc) \in Seq(Nat) /\ Len(Gathered(rc)) = Len(img) + rc
    BY <1>1, <1>3 DEF Gathered
<1>7. ASSUME NEW k \in 1..Len(Gathered(rc)) PROVE Gathered(rc)[k] = End(Len(got)) + k
    <2>1. Gathered(rc) = img \o part
        BY DEF Gathered
    <2>2. CASE k <= Len(img)
        BY <1>1, <1>3, <1>6, <2>1, <2>2
    <2>3. CASE k > Len(img)
        <3>1. k - Len(img) \in 1..rc /\ k - Len(img) \in 1..Len(pipe)
            BY <1>1, <1>6, <2>3
        <3>2. Gathered(rc)[k] = part[k - Len(img)]
            BY <1>1, <1>3, <1>6, <2>1, <2>3
        <3>3. Gathered(rc)[k] = Here + (k - Len(img))
            BY <1>1, <1>3, <3>1, <3>2
        <3> QED BY <1>1, <1>2, <3>3 DEF Here
    <2> QED BY <1>1, <1>6, <2>2, <2>3
<1> QED BY <1>4, <1>5, <1>6, <1>7

\* A read that leaves the reader inside its image.
LEMMA ReadKeeps ==
    ASSUME StreamInv, NEW rc \in 1..Len(pipe), Take(rc),
           UNCHANGED <<writerVars, reset, got>>,
           rpc \in {"header", "body"}, rpc' \in {"header", "body", "toolong"},
           rpc' = "header" => Len(img) + rc < Header,
           Len(img) + rc < Size(Len(got) + 1)
    PROVE  StreamInv'
<1>1. /\ Len(pipe) \in Nat /\ Len(pipe) > 0 /\ pipe # <<>> /\ Len(img) \in Nat
      /\ Len(got) \in Nat /\ Len(ends) \in Nat
      /\ ends' = ends /\ sz' = sz /\ wpc' = wpc /\ reset' = reset /\ got' = got
    BY DEF StreamInv, TypeOK, writerVars
<1>2. Len(got) + 1 \in 1..Len(ends)
    BY <1>1, SomethingBegun
<1>3. /\ pipe' \in Seq(Nat)
      /\ Len(pipe') = Len(pipe) - rc
      /\ \A i \in 1..Len(pipe') : pipe'[i] = Here + rc + i
      /\ img' \in Seq(Nat)
      /\ Len(img') = Len(img) + rc
      /\ \A k \in 1..Len(img') : img'[k] = End(Len(got)) + k
    BY TakeMoves DEF Take
<1>4. End(Len(got)) \in Nat /\ End(Len(ends)) \in Nat
    BY <1>1, EndFacts DEF StreamInv, AtReader
<1>5. /\ End(Len(got))' = End(Len(got)) /\ Bufv' = Bufv
      /\ Size(Len(got) + 1)' = Size(Len(got) + 1)
    BY <1>1 DEF End, Bufv, Size, Start
<1>6. Here' = Here + rc /\ Here' \in Nat /\ Here' + Len(pipe') = Here + Len(pipe)
    <2>1. Here \in Nat
        BY <1>1, <1>4 DEF Here
    <2>2. Here' = End(Len(got)) + (Len(img) + rc)
        BY <1>3, <1>5 DEF Here
    <2>3. Here' = Here + rc
        BY <1>1, <1>4, <2>2 DEF Here
    <2>4. Len(pipe') = Len(pipe) - rc
        BY <1>3
    <2> QED BY <1>1, <2>1, <2>3, <2>4
<1>7. TypeOK'
    <2>1. Len(pipe') <= PipeBuf
        BY <1>1, <1>3, StreamAssumption DEF StreamInv, TypeOK
    <2> QED BY <1>1, <1>3, <2>1 DEF StreamInv, TypeOK
<1>8. Laid' /\ AtWriter'
    BY <1>1 DEF StreamInv, Laid, AtWriter, End, Start, Size
<1>9. AtReader'
    BY <1>1, <1>2, <1>3, <1>5 DEF StreamInv, AtReader
<1>10. Between'
    <2>1. \A i \in 1..Len(pipe') : pipe'[i] = Here' + i
        BY <1>3, <1>6
    <2>2. /\ Here + Len(pipe) <= Bufv
          /\ ~reset => Here + Len(pipe) = Bufv
          /\ reset => wpc = "closed"
        BY DEF StreamInv, Between
    <2>3. /\ Here' + Len(pipe') <= Bufv'
          /\ ~reset' => Here' + Len(pipe') = Bufv'
          /\ reset' => wpc' = "closed"
        BY <1>1, <1>5, <1>6, <2>2
    <2> QED BY <2>1, <2>3 DEF Between
<1>11. WholeImages'
    BY <1>1 DEF StreamInv, WholeImages, Bytes, Size, Start, End
<1>12. rpc' # "nontpl"
    OBVIOUS
<1> QED BY <1>7, <1>8, <1>9, <1>10, <1>11, <1>12 DEF StreamInv

LEMMA HeaderStep == StreamInv /\ (ReadHeader \/ ReadHeaderEnd) => StreamInv'
<1> SUFFICES ASSUME StreamInv, ReadHeader \/ ReadHeaderEnd PROVE StreamInv'
    OBVIOUS
<1>1. /\ rpc = "header" /\ Len(img) \in Nat /\ Len(img) < Header /\ Len(pipe) \in Nat
      /\ Header \in Nat /\ HeaderWant = Header - Len(img)
      /\ UNCHANGED <<writerVars, reset, got>>
    <2>1. rpc = "header" /\ UNCHANGED <<writerVars, reset, got>>
        BY DEF ReadHeader, ReadHeaderEnd
    <2>2. Len(img) \in Nat /\ Len(pipe) \in Nat
        BY DEF StreamInv, TypeOK
    <2>3. Len(img) < Header
        BY <2>1 DEF StreamInv, AtReader
    <2> QED BY <2>1, <2>2, <2>3, StreamAssumption DEF HeaderWant
<1>2. PICK rc \in 1..Len(pipe) :
         /\ Take(rc)
         /\ Len(img) + rc <= Header
         /\ \/ rpc' = "header" /\ Len(img) + rc < Header
            \/ rpc' \in {"nontpl", "toolong", "body"} /\ (rpc' = "nontpl" => ~HasPrefix(img'))
    <2>1. CASE ReadHeader
        BY <1>1, <2>1 DEF ReadHeader, Least
    <2>2. CASE ReadHeaderEnd
        <3>1. HeaderWant \in 1..Len(pipe)
            BY <1>1, <2>2 DEF ReadHeaderEnd
        <3> QED BY <1>1, <2>2, <3>1 DEF ReadHeaderEnd
    <2> QED BY <2>1, <2>2
<1>3. pipe # <<>>
    BY <1>1, <1>2
<1>4. Len(got) + 1 \in 1..Len(ends) /\ Start(Len(got) + 1) = End(Len(got))
    BY <1>3, SomethingBegun
<1>5. Len(img) + rc < Size(Len(got) + 1)
    <2>1. Size(Len(got) + 1) \in Nat /\ Size(Len(got) + 1) > Header
        BY <1>4, EndFacts DEF StreamInv
    <2> QED BY <1>1, <1>2, <2>1
<1>6. HasPrefix(img')
    <2>1. Len(img') = Len(img) + rc /\ \A k \in 1..Len(img') : img'[k] = End(Len(got)) + k
        BY <1>2, TakeMoves DEF Take
    <2>2. img'[1] = Start(Len(got) + 1) + 1
        BY <1>1, <1>4, <2>1
    <2> QED BY <1>4, <2>2, HeaderTells DEF StreamInv
<1>7. rpc' \in {"header", "body", "toolong"} /\ (rpc' = "header" => Len(img) + rc < Header)
    BY <1>2, <1>6
<1> QED BY <1>1, <1>2, <1>5, <1>7, ReadKeeps

LEMMA BodyStep == StreamInv /\ ReadBody => StreamInv'
<1> SUFFICES ASSUME StreamInv, ReadBody PROVE StreamInv'
    OBVIOUS
<1>1. /\ rpc = "body" /\ img # <<>> /\ Len(img) \in Nat /\ Len(pipe) \in Nat
      /\ Len(got) + 1 \in 1..Len(ends) /\ Len(got) \in Nat
      /\ UNCHANGED <<writerVars, reset, rpc, got>>
    BY DEF StreamInv, TypeOK, AtReader, ReadBody
<1>2. Size(Len(got) + 1) \in Nat /\ Start(Len(got) + 1) = End(Len(got))
    BY <1>1, EndFacts DEF StreamInv, Start
<1>3. BodyWant = Size(Len(got) + 1) - Len(img)
    BY <1>1, <1>2, HeaderTells DEF StreamInv, AtReader, BodyWant
<1>4. PICK rc \in 1..Len(pipe) : Take(rc) /\ rc < BodyWant
    BY <1>1, <1>2, <1>3 DEF ReadBody, Least
<1>5. Len(img) + rc < Size(Len(got) + 1)
    BY <1>1, <1>2, <1>3, <1>4
<1> QED BY <1>1, <1>4, <1>5, ReadKeeps

\* The last read returns the whole image, and no byte after it.
LEMMA BodyEndStep == StreamInv /\ ReadBodyEnd => StreamInv'
<1> SUFFICES ASSUME StreamInv, ReadBodyEnd PROVE StreamInv'
    OBVIOUS
<1>1. /\ rpc = "body" /\ img # <<>> /\ Len(img) \in Nat /\ Len(pipe) \in Nat
      /\ Len(got) + 1 \in 1..Len(ends) /\ Len(got) \in Nat /\ Len(ends) \in Nat
      /\ got \in Seq(Seq(Nat)) /\ Len(img) < Size(Len(got) + 1)
      /\ ends' = ends /\ sz' = sz /\ wpc' = wpc /\ reset' = reset
      /\ img' = <<>> /\ rpc' = "idle"
    BY DEF StreamInv, TypeOK, AtReader, ReadBodyEnd, writerVars
<1>2. PICK n \in 1..Len(ends) : n = Len(got) + 1
    BY <1>1
<1>3. /\ Size(n) \in Nat /\ Start(n) = End(Len(got)) /\ Start(n) \in Nat
      /\ End(n) \in Nat /\ End(n) = Start(n) + Size(n)
    BY <1>1, <1>2, EndFacts DEF StreamInv, Start
<1>4. BodyWant = Size(n) - Len(img)
    BY <1>1, <1>2, <1>3, HeaderTells DEF StreamInv, AtReader, BodyWant
<1>5. PICK rc \in 1..Len(pipe) :
         rc = BodyWant /\ Len(img) + rc = Size(n) /\ pipe' = Rest(rc) /\ got' = Append(got, Gathered(rc))
    BY <1>1, <1>2, <1>3, <1>4 DEF ReadBodyEnd
<1>6. /\ Rest(rc) \in Seq(Nat) /\ Gathered(rc) \in Seq(Nat)
      /\ Len(Rest(rc)) = Len(pipe) - rc
      /\ \A i \in 1..Len(Rest(rc)) : Rest(rc)[i] = Here + rc + i
      /\ Len(Gathered(rc)) = Size(n)
      /\ \A k \in 1..Len(Gathered(rc)) : Gathered(rc)[k] = Start(n) + k
    <2>1. /\ Rest(rc) \in Seq(Nat) /\ Gathered(rc) \in Seq(Nat)
          /\ Len(Rest(rc)) = Len(pipe) - rc
          /\ \A i \in 1..Len(Rest(rc)) : Rest(rc)[i] = Here + rc + i
          /\ Len(Gathered(rc)) = Len(img) + rc
          /\ \A k \in 1..Len(Gathered(rc)) : Gathered(rc)[k] = End(Len(got)) + k
        BY TakeMoves
    <2> QED BY <1>3, <1>5, <2>1
<1>7. Gathered(rc) = Bytes(n)
    BY <1>3, <1>6 DEF Bytes
<1>8. /\ Len(got') = n /\ got'[n] = Bytes(n) /\ got' \in Seq(Seq(Nat))
      /\ \A m \in 1..Len(got) : got'[m] = got[m]
    BY <1>1, <1>2, <1>5, <1>6, <1>7
<1>9. End(Len(got))' = End(n) /\ Bufv' = Bufv
    BY <1>1, <1>8 DEF End, Bufv
<1>10. Here' = Here + rc
    BY <1>1, <1>3, <1>5, <1>9 DEF Here
<1>11. \A i \in 1..Len(pipe') : pipe'[i] = Here' + i
    BY <1>5, <1>6, <1>10
<1>12. Here' + Len(pipe') = Here + Len(pipe)
    <2>1. Here \in Nat
        BY <1>1, <1>3 DEF Here
    <2>2. Len(pipe') = Len(pipe) - rc
        BY <1>5, <1>6
    <2> QED BY <1>1, <1>10, <2>1, <2>2
<1>13. TypeOK'
    <2>1. Len(pipe') <= PipeBuf /\ pipe' \in Seq(Nat)
        BY <1>1, <1>5, <1>6, StreamAssumption DEF StreamInv, TypeOK
    <2> QED BY <1>1, <1>8, <2>1 DEF StreamInv, TypeOK
<1>14. Laid' /\ AtWriter'
    BY <1>1 DEF StreamInv, Laid, AtWriter, End, Start, Size
<1>15. AtReader'
    BY <1>1, <1>8 DEF AtReader
<1>16. Between'
    BY <1>1, <1>9, <1>11, <1>12 DEF StreamInv, Between
<1>17. WholeImages'
    <2>1. \A m \in 1..Len(got) : got'[m] = Bytes(m)
        BY <1>8 DEF StreamInv, WholeImages
    <2>2. ASSUME NEW m \in 1..Len(got') PROVE got'[m] = Bytes(m)
        <3>1. m = n \/ m \in 1..Len(got)
            BY <1>1, <1>2, <1>8
        <3> QED BY <1>8, <2>1, <3>1
    <2>3. \A m \in 1..Len(got') : Bytes(m)' = Bytes(m)
        BY <1>1 DEF Bytes, Size, Start, End
    <2> QED BY <1>1, <1>8, <2>2, <2>3 DEF WholeImages
<1> QED BY <1>1, <1>13, <1>14, <1>15, <1>16, <1>17 DEF StreamInv

-----------------------------------------------------------------------------
(* Writes *)

\* A dump places its image behind the others and moves no byte.
LEMMA DumpStep == \A s \in Sizes : StreamInv /\ TplDump(s) => StreamInv'
<1> SUFFICES ASSUME NEW s \in Sizes, StreamInv, TplDump(s) PROVE StreamInv'
    OBVIOUS
<1>0. PICK L \in Nat : L = Len(ends)
    BY DEF StreamInv, TypeOK
<1>1. /\ wpc = "idle" /\ sz = 0 /\ wpc' = "dump" /\ sz' = s /\ s \in Nat /\ s > Header
      /\ ends \in Seq(Nat) /\ ends' = Append(ends, End(L) + s)
      /\ pipe' = pipe /\ reset' = reset /\ rpc' = rpc /\ img' = img /\ got' = got
      /\ Len(got) \in Nat /\ Len(got) <= L /\ Header \in Nat
    BY <1>0, StreamAssumption DEF StreamInv, TypeOK, AtWriter, AtReader, TplDump, readerVars
<1>2. \A n \in 0..L : End(n) \in Nat
    BY <1>0, EndFacts DEF StreamInv
<1>3. ends' \in Seq(Nat) /\ Len(ends') = L + 1 /\ ends'[L + 1] = End(L) + s
    BY <1>0, <1>1, <1>2
<1>4. \A n \in 0..L : End(n)' = End(n)
    BY <1>0, <1>1, <1>2 DEF End
<1>5. End(L + 1)' = End(L) + s
    BY <1>1, <1>3 DEF End
<1>6. \A n \in 1..L : Start(n)' = Start(n) /\ Size(n)' = Size(n)
    BY <1>1, <1>4 DEF Start, Size
<1>7. Start(L + 1)' = End(L) /\ Size(L + 1)' = s
    BY <1>1, <1>2, <1>4, <1>5 DEF Start, Size
<1>8. TypeOK'
    BY <1>1, <1>3 DEF StreamInv, TypeOK
<1>9. Laid'
    <2>1. ASSUME NEW n \in 1..(L + 1) PROVE End(n)' > Start(n)' + Header
        <3>1. CASE n \in 1..L
            BY <1>0, <1>4, <1>6, <3>1 DEF StreamInv, Laid
        <3>2. CASE n = L + 1
            BY <1>1, <1>2, <1>5, <1>7, <3>2
        <3> QED BY <1>1, <3>1, <3>2
    <2>2. ASSUME NEW m \in 1..(L + 1), NEW n \in 1..(L + 1), m < n
          PROVE  End(m)' <= Start(n)'
        <3>1. m \in 1..L /\ m \in 0..L /\ L \in 0..L
            BY <1>1, <2>2
        <3>2. CASE n \in 1..L
            BY <1>0, <1>4, <1>6, <2>2, <3>1, <3>2 DEF StreamInv, Laid
        <3>3. CASE n = L + 1
            <4>1. m < L => End(m) < End(L)
                BY <1>0, <3>1, EndFacts DEF StreamInv
            <4>2. End(m) <= End(L)
                BY <1>1, <1>2, <3>1, <4>1
            <4> QED BY <1>0, <1>4, <1>7, <3>1, <3>3, <4>2
        <3> QED BY <1>1, <3>2, <3>3
    <2> QED BY <1>3, <2>1, <2>2 DEF Laid
<1>10. AtWriter'
    BY <1>1, <1>3, <1>7, StreamAssumption DEF AtWriter
<1>11. AtReader'
    <2>1. PICK g \in 0..L : g = Len(got)
        BY <1>1
    <2>2. End(g)' = End(g) /\ (g < L => Size(g + 1)' = Size(g + 1))
        BY <1>4, <1>6, <2>1
    <2> QED BY <1>0, <1>1, <1>3, <2>1, <2>2 DEF StreamInv, AtReader
<1>12. Between'
    <2>1. Bufv = End(L)
        BY <1>0, <1>1, <1>2 DEF Bufv
    <2>2. Bufv' = End(L)
        BY <1>1, <1>2, <1>3, <1>5 DEF Bufv
    <2>3. Here' = Here
        BY <1>1, <1>4 DEF Here
    <2> QED BY <1>1, <2>1, <2>2, <2>3 DEF StreamInv, Between
<1>13. WholeImages'
    <2>1. \A n \in 1..Len(got) : n \in 1..L /\ Bytes(n)' = Bytes(n)
        BY <1>1, <1>6 DEF Bytes
    <2> QED BY <1>0, <1>1, <1>3, <2>1 DEF StreamInv, WholeImages
<1> QED BY <1>1, <1>8, <1>9, <1>10, <1>11, <1>12, <1>13 DEF StreamInv

\* A write appends the bytes that follow in the image.
LEMMA WriteStep == StreamInv /\ WriteSome => StreamInv'
<1> SUFFICES ASSUME StreamInv, WriteSome PROVE StreamInv'
    OBVIOUS
<1>1. /\ wpc = "dump" /\ sz \in Nat /\ sz > 0 /\ ends' = ends /\ reset' = reset
      /\ rpc' = rpc /\ img' = img /\ got' = got /\ ~reset
      /\ pipe \in Seq(Nat) /\ Len(pipe) \in Nat /\ Len(got) \in Nat /\ Len(img) \in Nat
      /\ Len(ends) \in Nat /\ ends # <<>>
    BY DEF StreamInv, TypeOK, AtWriter, Between, WriteSome, readerVars
<1>2. PICK rc \in Nat :
         /\ rc > 0 /\ rc <= sz /\ rc <= PipeBuf - Len(pipe)
         /\ pipe' = pipe \o [k \in 1..rc |-> Bufv + k]
         /\ sz' = sz - rc
         /\ wpc' = IF sz = rc THEN "idle" ELSE "dump"
    BY <1>1, StreamAssumption DEF WriteSome, Least, Unwritten
<1>3. /\ End(Len(ends)) \in Nat /\ End(Len(got)) \in Nat
      /\ Here \in Nat /\ Here + Len(pipe) = Bufv /\ Bufv \in Nat
    <2>1. Len(got) \in 0..Len(ends) /\ Len(ends) \in 0..Len(ends)
        BY <1>1 DEF StreamInv, AtReader
    <2>2. End(Len(ends)) \in Nat /\ End(Len(got)) \in Nat
        BY <2>1, EndFacts DEF StreamInv
    <2>3. Here \in Nat
        BY <1>1, <2>2 DEF Here
    <2>4. Here + Len(pipe) = Bufv
        BY <1>1 DEF StreamInv, Between
    <2> QED BY <1>1, <2>2, <2>3, <2>4
<1> DEFINE part == [k \in 1..rc |-> Bufv + k]
<1>4. part \in Seq(Nat) /\ Len(part) = rc
    BY <1>2, <1>3
<1>5. pipe' \in Seq(Nat) /\ Len(pipe') = Len(pipe) + rc
    BY <1>1, <1>2, <1>4
<1>6. Bufv' = Bufv + rc /\ Here' = Here
    BY <1>1, <1>2, <1>3 DEF Bufv, Here, End
<1>7. ASSUME NEW i \in 1..Len(pipe') PROVE pipe'[i] = Here + i
    <2>1. CASE i <= Len(pipe)
        BY <1>1, <1>2, <1>4, <1>5, <2>1 DEF StreamInv, Between
    <2>2. CASE i > Len(pipe)
        <3>1. i - Len(pipe) \in 1..rc
            BY <1>1, <1>2, <1>5, <2>2
        <3>2. pipe'[i] = part[i - Len(pipe)]
            BY <1>1, <1>2, <1>4, <1>5, <2>2
        <3>3. pipe'[i] = Bufv + (i - Len(pipe))
            BY <3>1, <3>2
        <3> QED BY <1>1, <1>3, <3>3
    <2> QED BY <1>1, <1>5, <2>1, <2>2
<1>8. TypeOK'
    <2>1. Len(pipe') <= PipeBuf
        BY <1>1, <1>2, <1>5, StreamAssumption
    <2>2. sz' \in Nat /\ wpc' \in {"idle", "dump", "closed"}
        BY <1>1, <1>2
    <2> QED BY <1>1, <1>5, <2>1, <2>2 DEF StreamInv, TypeOK
<1>9. Laid'
    BY <1>1 DEF StreamInv, Laid, End, Start
<1>10. AtWriter'
    <2>1. Size(Len(ends))' = Size(Len(ends))
        BY <1>1 DEF Size, Start, End
    <2>2. Len(ends) \in 1..Len(ends)
        BY <1>1 DEF StreamInv, TypeOK
    <2>3. Size(Len(ends)) \in Nat
        BY <2>2, EndFacts DEF StreamInv
    <2> QED BY <1>1, <1>2, <2>1, <2>3 DEF StreamInv, AtWriter
<1>11. AtReader'
    BY <1>1 DEF StreamInv, AtReader, Size, Start, End
<1>12. Between'
    <2>1. Here' + Len(pipe') = Bufv'
        <3>1. Here + (Len(pipe) + rc) = (Here + Len(pipe)) + rc
            BY <1>1, <1>3
        <3> QED BY <1>3, <1>5, <1>6, <3>1
    <2>2. rpc # "eof"
        BY <1>1 DEF StreamInv, Between
    <2> QED BY <1>1, <1>3, <1>5, <1>6, <1>7, <2>1, <2>2 DEF Between
<1>13. WholeImages'
    BY <1>1 DEF StreamInv, WholeImages, Bytes, Size, Start, End
<1> QED BY <1>1, <1>8, <1>9, <1>10, <1>11, <1>12, <1>13 DEF StreamInv

-----------------------------------------------------------------------------
(* The other steps *)

\* A process that closes, fails or begins a gather moves no byte.
LEMMA QuietStep ==
    ASSUME StreamInv,
           WriteFails \/ WriterCloses \/ GatherBegins \/ ReadEof \/ ReadFails \/ ReaderCloses
    PROVE  StreamInv'
<1>1. /\ UNCHANGED <<sz, ends, pipe, reset, img, got>>
      /\ wpc' = wpc \/ (wpc \in {"idle", "dump"} /\ wpc' = "closed")
      /\ \/ rpc' = rpc
         \/ rpc = "idle" /\ rpc' = "header"
         \/ rpc' = "eof" /\ pipe = <<>> /\ wpc = "closed" /\ wpc' = wpc /\ ~reset
         \/ rpc' \in {"error", "gone"}
    BY DEF WriteFails, WriterCloses, GatherBegins, ReadEof, ReadFails, ReaderCloses,
           writerVars, readerVars
<1>2. TypeOK'
    BY <1>1 DEF StreamInv, TypeOK
<1>3. Laid' /\ WholeImages' /\ Bufv' = Bufv /\ Here' = Here
    BY <1>1 DEF StreamInv, Laid, WholeImages, Bytes, Size, Start, End, Bufv, Here
<1>4. AtWriter'
    BY <1>1 DEF StreamInv, AtWriter, Size, Start, End
<1>5. AtReader'
    BY <1>1, StreamAssumption DEF StreamInv, AtReader, Size, Start, End
<1>6. Between'
    <2>1. pipe = <<>> /\ ~reset => Here = Bufv
        <3>1. End(Len(got)) \in Nat /\ Len(img) \in Nat
            BY EndFacts DEF StreamInv, TypeOK, AtReader
        <3> QED BY <3>1 DEF StreamInv, Between, Here
    <2> QED BY <1>1, <1>3, <2>1 DEF StreamInv, Between
<1> QED BY <1>1, <1>2, <1>3, <1>4, <1>5, <1>6 DEF StreamInv

LEMMA ResetStep == StreamInv /\ ConnectionReset => StreamInv'
<1> SUFFICES ASSUME StreamInv, ConnectionReset PROVE StreamInv'
    OBVIOUS
<1>1. /\ UNCHANGED <<wpc, sz, ends, rpc, img, got>> /\ reset' = TRUE /\ wpc = "closed"
      /\ pipe \in Seq(Nat) /\ Len(pipe) \in Nat
    BY DEF StreamInv, TypeOK, ConnectionReset, writerVars, readerVars
<1>2. PICK k \in 0..Len(pipe) : pipe' = SubSeq(pipe, 1, k)
    BY DEF ConnectionReset
<1>3. pipe' \in Seq(Nat) /\ Len(pipe') = k /\ \A i \in 1..k : pipe'[i] = pipe[i]
    BY <1>1, <1>2
<1>4. pipe = <<>> => pipe' = <<>>
    BY <1>1, <1>3
<1>5. TypeOK'
    BY <1>1, <1>3, StreamAssumption DEF StreamInv, TypeOK
<1>6. Laid' /\ WholeImages' /\ Bufv' = Bufv /\ Here' = Here
    BY <1>1 DEF StreamInv, Laid, WholeImages, Bytes, Size, Start, End, Bufv, Here
<1>7. AtWriter' /\ AtReader'
    BY <1>1 DEF StreamInv, AtWriter, AtReader, Size, Start, End
<1>8. Between'
    <2>1. Here \in Nat /\ Bufv \in Int
        <3>1. End(Len(got)) \in Nat /\ Len(img) \in Nat /\ End(Len(ends)) \in Nat /\ sz \in Nat
            BY EndFacts DEF StreamInv, TypeOK, AtReader
        <3> QED BY <3>1 DEF Here, Bufv
    <2>2. Here + k <= Bufv
        BY <1>1, <2>1 DEF StreamInv, Between
    <2>3. \A i \in 1..k : pipe'[i] = Here + i
        <3>1. \A i \in 1..k : pipe[i] = Here + i
            BY <1>1 DEF StreamInv, Between
        <3> QED BY <1>3, <3>1
    <2>4. \A i \in 1..Len(pipe') : pipe'[i] = Here' + i
        BY <1>3, <1>6, <2>3
    <2> QED BY <1>1, <1>3, <1>4, <1>6, <2>2, <2>4 DEF StreamInv, Between
<1> QED BY <1>1, <1>5, <1>6, <1>7, <1>8 DEF StreamInv

LEMMA StreamInit == Init => StreamInv
<1> SUFFICES ASSUME Init PROVE StreamInv
    OBVIOUS
<1>1. /\ wpc = "idle" /\ sz = 0 /\ ends = <<>> /\ pipe = <<>> /\ reset = FALSE
      /\ rpc = "idle" /\ img = <<>> /\ got = <<>>
    BY Zenon DEF Init
<1>2. Len(ends) = 0 /\ Len(pipe) = 0 /\ Len(img) = 0 /\ Len(got) = 0
    BY <1>1
<1>3. End(0) = 0
    BY DEF End
<1>4. TypeOK
    <2>1. reset \in BOOLEAN
        BY <1>1, Zenon
    <2>2. ends \in Seq(Nat) /\ pipe \in Seq(Nat) /\ img \in Seq(Nat) /\ got \in Seq(Seq(Nat))
        BY <1>1
    <2> QED BY <1>1, <1>2, <2>1, <2>2, StreamAssumption DEF TypeOK
<1>5. Laid /\ AtWriter /\ AtReader /\ WholeImages
    BY <1>1, <1>2 DEF Laid, AtWriter, AtReader, WholeImages
<1>6. Here = 0 /\ Bufv = 0
    BY <1>1, <1>2, <1>3 DEF Here, Bufv
<1>7. Between
    BY <1>1, <1>2, <1>6 DEF Between
<1> QED BY <1>1, <1>4, <1>5, <1>7 DEF StreamInv

LEMMA StreamStep == StreamInv /\ [Next]_vars => StreamInv'
<1> SUFFICES ASSUME StreamInv, [Next]_vars PROVE StreamInv'
    OBVIOUS
<1>1. ASSUME NEW s \in Sizes, TplDump(s) PROVE StreamInv'
    BY <1>1, DumpStep
<1>2. CASE Writing
    BY <1>2, WriteStep, QuietStep DEF Writing
<1>3. CASE WriterCloses
    BY <1>3, QuietStep
<1>4. CASE ConnectionReset
    BY <1>4, ResetStep
<1>5. CASE Reading
    BY <1>5, HeaderStep, BodyStep, BodyEndStep, QuietStep DEF Reading
<1>6. CASE ReaderCloses
    BY <1>6, QuietStep
<1>7. CASE UNCHANGED vars
    BY <1>7 DEF vars, StreamInv, TypeOK, Laid, AtWriter, AtReader, Between, WholeImages,
                Bytes, Size, Start, End, Here, Bufv
<1> QED BY <1>1, <1>2, <1>3, <1>4, <1>5, <1>6, <1>7 DEF Next

\* At every step the pipe holds what lies between the reader and the writer.
THEOREM StreamCorrect == Spec => []StreamInv
BY StreamInit, StreamStep, PTL DEF Spec

-----------------------------------------------------------------------------
(* What a program that loads images can rely on *)

\* Every image a gather returns is the next that was dumped, byte for byte:
\* the write loop of tpl_dump and the read loops of tpl_gather_blocking.
THEOREM ImagesAreWhole == Spec => []WholeImages
<1>1. StreamInv => WholeImages
    BY DEF StreamInv
<1> QED BY <1>1, StreamCorrect, PTL

\* No gather reads into the next image, so none meets input that is not tpl:
\* the lengths tpl_gather_blocking asks read for.
THEOREM GatherStops == Spec => []StopsAtTheEnd
<1>1. StreamInv => StopsAtTheEnd
    <2> SUFFICES ASSUME StreamInv, rpc = "idle", pipe # <<>> PROVE HasPrefix(pipe)
        BY DEF StreamInv, StopsAtTheEnd
    <2>1. Len(got) + 1 \in 1..Len(ends) /\ Start(Len(got) + 1) = End(Len(got))
        BY SomethingBegun
    <2>2. End(Len(got)) \in Nat
        BY EndFacts DEF StreamInv, TypeOK, AtReader
    <2>3. pipe[1] = Start(Len(got) + 1) + 1
        BY <2>1, <2>2 DEF StreamInv, TypeOK, AtReader, Between, Here
    <2> QED BY <2>1, <2>3, HeaderTells DEF StreamInv
<1> QED BY <1>1, StreamCorrect, PTL

\* An end of file comes after every image whose dump was completed: the order
\* of tpl_dump's last write and the close, and tpl_gather_blocking's return 0.
THEOREM EofComesLast == Spec => []EofAfterAll
<1>1. StreamInv => EofAfterAll
    <2> SUFFICES ASSUME StreamInv, rpc = "eof" PROVE Len(got) = Dumped
        BY DEF EofAfterAll
    <2>1. /\ Len(got) \in Nat /\ Len(ends) \in Nat /\ Len(img) \in Nat /\ sz \in Nat
          /\ Len(got) <= Len(ends) /\ End(Len(got)) + Len(img) = End(Len(ends)) - sz
          /\ sz > 0 => Len(ends) \in 1..Len(ends)
        BY DEF StreamInv, TypeOK, AtReader, AtWriter, Between, Here, Bufv
    <2>2. PICK L \in Nat, g \in Nat : L = Len(ends) /\ g = Len(got) /\ g <= L
        BY <2>1
    <2>3. /\ \A n \in 0..L : End(n) \in Nat
          /\ \A m, n \in 0..L : m < n => End(m) < End(n)
        BY <2>2, EndFacts DEF StreamInv
    <2>4. ASSUME g < L PROVE End(g) + Len(img) < End(g + 1)
        <3>1. g + 1 \in 1..L /\ g + 1 \in 0..L
            BY <2>4
        <3>2. Start(g + 1) = End(g) /\ End(g + 1) = End(g) + Size(g + 1) /\ Size(g + 1) \in Nat
            BY <2>2, <3>1, EndFacts DEF StreamInv, Start
        <3>3. Len(img) < Size(g + 1)
            <4>1. Size(g + 1) > 0
                BY <2>2, <3>1, EndFacts, StreamAssumption DEF StreamInv
            <4>2. img = <<>> => Len(img) = 0
                OBVIOUS
            <4> QED BY <2>2, <4>1, <4>2 DEF StreamInv, AtReader
        <3>4. End(g) \in Nat /\ Len(img) \in Nat
            BY <2>1, <2>2, <2>3, <2>4
        <3> QED BY <3>2, <3>3, <3>4
    <2>5. ASSUME g < L, End(L) - sz >= End(L - 1), L > 0 PROVE g = L - 1
        <3>1. g + 1 \in 0..L /\ L - 1 \in 0..L
            BY <2>5
        <3>2. End(L - 1) < End(g + 1)
            <4>1. End(L) \in Nat /\ End(L - 1) \in Nat /\ End(g + 1) \in Nat /\ sz \in Nat
                BY <2>1, <2>2, <2>3, <3>1
            <4>2. End(g) + Len(img) = End(L) - sz
                BY <2>1, <2>2
            <4>3. End(g) + Len(img) < End(g + 1)
                BY <2>4, <2>5
            <4>4. End(L) - sz < End(g + 1)
                BY <4>2, <4>3
            <4> QED BY <2>5, <4>1, <4>4
        <3>3. ~(g + 1 < L - 1) /\ g + 1 # L - 1
            BY <2>3, <3>1, <3>2
        <3> QED BY <2>5, <3>3
    <2>6. CASE sz = 0
        <3>1. ASSUME g < L PROVE FALSE
            <4>1. End(L) < End(g + 1)
                BY <2>1, <2>2, <2>3, <2>4, <2>6, <3>1
            <4>2. g + 1 \in 0..L /\ L \in 0..L
                BY <3>1
            <4>3. ~(g + 1 < L) /\ g + 1 # L
                BY <2>3, <4>1, <4>2
            <4> QED BY <3>1, <4>3
        <3> QED BY <2>1, <2>2, <2>6, <3>1 DEF Dumped
    <2>7. CASE sz > 0
        <3>1. L > 0 /\ L \in 0..L
            BY <2>1, <2>2, <2>7
        <3>2. g # L
            BY <2>1, <2>2, <2>3, <2>7, <3>1
        <3>3. End(L) - sz >= End(L - 1)
            <4>1. ends # <<>>
                BY <2>2, <3>1
            <4>2. sz <= Size(L)
                BY <2>2, <4>1 DEF StreamInv, AtWriter
            <4>3. End(L) = End(L - 1) + Size(L) /\ Size(L) \in Nat /\ End(L - 1) \in Nat
                <5>1. L \in 1..L
                    BY <3>1
                <5> QED BY <2>2, <5>1, EndFacts DEF StreamInv, Start
            <4> QED BY <2>1, <4>2, <4>3
        <3> QED BY <2>2, <2>5, <2>7, <3>1, <3>2, <3>3 DEF Dumped
    <2> QED BY <2>1, <2>6, <2>7
<1> QED BY <1>1, StreamCorrect, PTL

\* The three together: one stream of whole images.
THEOREM StreamIsOne == Spec => []OneStream
<1>1. WholeImages /\ StopsAtTheEnd /\ EofAfterAll => OneStream
    BY DEF OneStream
<1> QED BY <1>1, ImagesAreWhole, GatherStops, EofComesLast, PTL

\* Every variable of the stream keeps its type, the pipe its capacity.
THEOREM StreamTyped == Spec => []TypeOK
<1>1. StreamInv => TypeOK
    BY DEF StreamInv
<1> QED BY <1>1, StreamCorrect, PTL

-----------------------------------------------------------------------------
(* The stream is a queue of whole images                                   *)

\* The images between two places in the order of their dumps.
Part(f, m, n) == [k \in 1..(n - m) |-> f[m + k]]

LEMMA PartIs ==
    ASSUME NEW L \in Nat, NEW f \in [1..L -> Nat], NEW m \in 0..L, NEW n \in m..L
    PROVE  /\ Part(f, m, n) \in Seq(Nat) /\ Len(Part(f, m, n)) = n - m
           /\ \A k \in 1..(n - m) : Part(f, m, n)[k] = f[m + k]
<1>1. n - m \in Nat
    OBVIOUS
<1>2. \A k \in 1..(n - m) : m + k \in 1..L
    OBVIOUS
<1>3. Part(f, m, n) \in [1..(n - m) -> Nat]
    BY <1>2 DEF Part
<1>4. Part(f, m, n) \in Seq(Nat)
    BY <1>1, <1>3, SeqDef
<1>5. Len(Part(f, m, n)) = n - m
    BY <1>1, <1>3, <1>4, LenProperties
<1> QED BY <1>4, <1>5 DEF Part

\* A dump adds at the end of such a row, a gather takes its head, and a reset
\* of the connection cuts it.
LEMMA PartSteps ==
    ASSUME NEW L \in Nat, NEW f \in [1..L -> Nat], NEW m \in 0..L, NEW n \in m..L
    PROVE  /\ n < L => Part(f, m, n + 1) = Append(Part(f, m, n), f[n + 1])
           /\ m < n => /\ Part(f, m, n) # <<>> /\ Head(Part(f, m, n)) = f[m + 1]
                       /\ Tail(Part(f, m, n)) = Part(f, m + 1, n)
           /\ \A k \in m..n : Part(f, m, k) = SubSeq(Part(f, m, n), 1, k - m)
<1>1. /\ Part(f, m, n) \in Seq(Nat) /\ Len(Part(f, m, n)) = n - m
      /\ \A k \in 1..(n - m) : Part(f, m, n)[k] = f[m + k]
    BY PartIs
<1>2. ASSUME n < L PROVE Part(f, m, n + 1) = Append(Part(f, m, n), f[n + 1])
    <2>1. n + 1 \in m..L /\ n + 1 \in 1..L /\ f[n + 1] \in Nat
        BY <1>2
    <2>2. /\ Part(f, m, n + 1) \in Seq(Nat) /\ Len(Part(f, m, n + 1)) = n + 1 - m
          /\ \A k \in 1..(n + 1 - m) : Part(f, m, n + 1)[k] = f[m + k]
        <3>1. PICK q \in m..L : q = n + 1
            BY <2>1
        <3>2. /\ Part(f, m, q) \in Seq(Nat) /\ Len(Part(f, m, q)) = q - m
              /\ \A k \in 1..(q - m) : Part(f, m, q)[k] = f[m + k]
            BY PartIs
        <3> QED BY <3>1, <3>2
    <2>3. /\ Append(Part(f, m, n), f[n + 1]) \in Seq(Nat)
          /\ Len(Append(Part(f, m, n), f[n + 1])) = n - m + 1
          /\ \A k \in 1..(n - m) : Append(Part(f, m, n), f[n + 1])[k] = Part(f, m, n)[k]
          /\ Append(Part(f, m, n), f[n + 1])[n - m + 1] = f[n + 1]
        <3>1. PICK s \in Seq(Nat), e \in Nat : s = Part(f, m, n) /\ e = f[n + 1]
            BY <1>1, <2>1
        <3>2. /\ Append(s, e) \in Seq(Nat) /\ Len(Append(s, e)) = Len(s) + 1
              /\ \A k \in 1..Len(s) : Append(s, e)[k] = s[k]
              /\ Append(s, e)[Len(s) + 1] = e
            BY AppendProperties
        <3> QED BY <1>1, <3>1, <3>2
    <2>4. ASSUME NEW k \in 1..(n + 1 - m)
          PROVE  Part(f, m, n + 1)[k] = Append(Part(f, m, n), f[n + 1])[k]
        <3>1. CASE k = n - m + 1
            <4>1. m + k = n + 1
                BY <3>1
            <4>2. Part(f, m, n + 1)[k] = f[n + 1]
                BY <2>2, <4>1
            <4> QED BY <2>3, <3>1, <4>2
        <3>2. CASE k # n - m + 1
            <4>1. k \in 1..(n - m)
                BY <3>2
            <4> QED BY <1>1, <2>2, <2>3, <4>1
        <3> QED BY <3>1, <3>2
    <2>5. Len(Part(f, m, n + 1)) = Len(Append(Part(f, m, n), f[n + 1]))
          /\ 1..Len(Part(f, m, n + 1)) = 1..(n + 1 - m)
        BY <2>2, <2>3
    <2> QED BY <2>2, <2>3, <2>4, <2>5, SeqEqual
<1>3. ASSUME m < n
      PROVE  /\ Part(f, m, n) # <<>> /\ Head(Part(f, m, n)) = f[m + 1]
             /\ Tail(Part(f, m, n)) = Part(f, m + 1, n)
    <2> DEFINE s == Part(f, m, n)
    <2>1. m + 1 \in 0..L /\ n \in (m + 1)..L /\ 1 \in 1..(n - m)
        BY <1>3
    <2>2. /\ Part(f, m + 1, n) \in Seq(Nat) /\ Len(Part(f, m + 1, n)) = n - (m + 1)
          /\ \A k \in 1..(n - (m + 1)) : Part(f, m + 1, n)[k] = f[(m + 1) + k]
        BY <2>1, PartIs
    <2>3. s # <<>> /\ Head(s) = s[1]
        <3> HIDE DEF s
        <3>1. s \in Seq(Nat) /\ Len(s) = n - m
            BY <1>1 DEF s
        <3> QED BY <1>3, <3>1
    <2>4. Tail(s) \in Seq(Nat) /\ Len(Tail(s)) = Len(s) - 1 /\ \A k \in 1..Len(Tail(s)) : Tail(s)[k] = s[k + 1]
        BY <1>1, <2>3, HeadTailProperties
    <2>5. ASSUME NEW k \in 1..(n - (m + 1)) PROVE Tail(s)[k] = Part(f, m + 1, n)[k]
        <3>1. k + 1 \in 1..(n - m) /\ m + (k + 1) = (m + 1) + k /\ k \in 1..Len(Tail(s))
            BY <1>1, <2>4
        <3> QED BY <1>1, <2>2, <2>4, <3>1
    <2>6. Len(Tail(s)) = n - (m + 1)
        BY <1>1, <2>4
    <2>7. Tail(s) = Part(f, m + 1, n)
        BY <2>2, <2>4, <2>5, <2>6, SeqEqual
    <2> QED BY <1>1, <2>1, <2>3, <2>7
<1>4. ASSUME NEW k \in m..n PROVE Part(f, m, k) = SubSeq(Part(f, m, n), 1, k - m)
    <2> DEFINE s == Part(f, m, n)
    <2>1. k \in m..L /\ k - m \in Int /\ 1 \in Int /\ (IF 1 <= k - m THEN k - m - 1 + 1 ELSE 0) = k - m
        OBVIOUS
    <2>2. \A i \in 1..(k - m) : s[i] \in Nat /\ s[i] = f[m + i]
        <3>1. \A i \in 1..(k - m) : i \in 1..(n - m) /\ m + i \in 1..L
            OBVIOUS
        <3> QED BY <1>1, <3>1
    <2>3. /\ SubSeq(s, 1, k - m) \in Seq(Nat) /\ Len(SubSeq(s, 1, k - m)) = k - m
          /\ \A i \in 1..(k - m - 1 + 1) : SubSeq(s, 1, k - m)[i] = s[1 + i - 1]
        <3> HIDE DEF s
        <3> QED BY <2>1, <2>2, SubSeqProperties
    <2>4. /\ Part(f, m, k) \in Seq(Nat) /\ Len(Part(f, m, k)) = k - m
          /\ \A i \in 1..(k - m) : Part(f, m, k)[i] = f[m + i]
        BY <2>1, PartIs
    <2>5. ASSUME NEW i \in 1..(k - m) PROVE SubSeq(s, 1, k - m)[i] = Part(f, m, k)[i]
        <3>1. 1 + i - 1 = i /\ i \in 1..(k - m - 1 + 1)
            OBVIOUS
        <3>2. SubSeq(s, 1, k - m)[i] = s[1 + i - 1]
            BY <2>3, <3>1
        <3> HIDE DEF s
        <3> QED BY <2>2, <2>4, <3>1, <3>2
    <2> HIDE DEF s
    <2>6. SubSeq(s, 1, k - m) = Part(f, m, k)
        BY <2>3, <2>4, <2>5, SeqEqual
    <2> QED BY <2>6 DEF s
<1> QED BY <1>2, <1>3, <1>4

-----------------------------------------------------------------------------
\* What was written of the stream ends inside or behind image t + 1.
ThroughTo(t) ==
    /\ t \in 0..Len(ends) /\ End(t) <= Here + Len(pipe)
    /\ t < Len(ends) => Here + Len(pipe) < End(t + 1)

LEMMA ThroughIs ==
    ASSUME StreamInv, NEW t, ThroughTo(t)
    PROVE  Through = t
<1>1. Len(ends) \in Nat /\ Len(pipe) \in Nat /\ Len(img) \in Nat /\ Len(got) \in 0..Len(ends)
    BY DEF StreamInv, TypeOK, AtReader
<1>2. /\ \A n \in 0..Len(ends) : End(n) \in Nat
      /\ \A m, n \in 0..Len(ends) : m < n => End(m) < End(n)
    BY EndFacts DEF StreamInv
<1> DEFINE here == Here + Len(pipe)
<1>3. here \in Nat
    BY <1>1, <1>2 DEF Here
<1>4. ASSUME NEW n \in 1..Len(ends) PROVE ends[n] <= here <=> n <= t
    <2>1. ends[n] = End(n) /\ n \in 0..Len(ends) /\ t \in 0..Len(ends)
        BY <1>1 DEF End, ThroughTo
    <2>2. CASE n <= t
        <3>1. n = t \/ End(n) < End(t)
            BY <1>1, <1>2, <2>1, <2>2
        <3> HIDE DEF here
        <3>2. End(t) <= here
            BY DEF ThroughTo, here
        <3> QED BY <1>2, <1>3, <2>1, <2>2, <3>1, <3>2
    <2>3. CASE ~(n <= t)
        <3>1. t + 1 \in 0..Len(ends) /\ t < Len(ends) /\ (n = t + 1 \/ t + 1 < n)
            BY <1>1, <2>1, <2>3
        <3>2. End(t + 1) <= End(n)
            BY <1>2, <2>1, <3>1
        <3>3. here < End(t + 1)
            BY <3>1 DEF ThroughTo
        <3> HIDE DEF here
        <3> QED BY <1>2, <1>3, <2>1, <2>3, <3>1, <3>2, <3>3
    <2> QED BY <2>2, <2>3
<1>5. {n \in 1..Len(ends) : ends[n] <= here} = 1..t
    <2> HIDE DEF here
    <2>1. t \in 0..Len(ends)
        BY DEF ThroughTo
    <2> QED BY <1>1, <1>4, <2>1
<1>6. End(Len(got)) + Len(img) + Len(pipe) = here
    BY DEF Here
<1>7. Through = Cardinality(1..t)
    BY <1>5, <1>6, Zenon DEF Through
<1>8. t \in Nat /\ Cardinality(1..t) = t
    <2>1. t \in Nat
        BY <1>1 DEF ThroughTo
    <2>2. Cardinality(1..t) = IF 1 > t THEN 0 ELSE t - 1 + 1
        BY <2>1, FS_Interval
    <2> QED BY <2>1, <2>2
<1> QED BY <1>7, <1>8

LEMMA LeastPlace ==
    ASSUME NEW T \in SUBSET Nat, T # {} PROVE \E x \in T : \A y \in T : x <= y
<1> DEFINE R == OpToRel(<, Nat)
<1>1. IsWellFoundedOn(R, Nat)
    BY NatLessThanWellFounded
<1>2. R = {ss \in Nat \X Nat : ss[1] < ss[2]}
    BY Zenon DEF OpToRel
<1> HIDE DEF R
<1>3. PICK x \in T : \A y \in T : <<y, x>> \notin R
    BY <1>1, WFMin
<1>4. ASSUME NEW y \in T PROVE x <= y
    <2>1. <<y, x>> \in Nat \X Nat /\ <<y, x>>[1] = y /\ <<y, x>>[2] = x
        OBVIOUS
    <2>2. ~(y < x)
        BY <1>2, <1>3, <2>1, Zenon
    <2> QED BY <2>2
<1> QED BY <1>4

\* The bytes of n images are more than n headers.
LEMMA ImagesTakeRoom ==
    ASSUME TypeOK, Laid, NEW m \in 0..Len(ends), NEW n \in m..Len(ends)
    PROVE  (n - m) * (Header + 1) <= End(n) - End(m)
<1>1. Len(ends) \in Nat /\ Header \in Nat
    BY StreamAssumption DEF TypeOK
<1>2. \A k \in 0..Len(ends) : End(k) \in Nat
    BY EndFacts
<1>3. PICK K \in Nat : K = Header + 1
    BY <1>1
<1> DEFINE T == {k \in Nat : m <= k /\ k <= Len(ends) /\ ~((k - m) * K <= End(k) - End(m))}
<1>4. T = {}
    <2> SUFFICES ASSUME T # {} PROVE FALSE
        OBVIOUS
    <2>1. PICK k \in T : \A y \in T : k <= y
        <3>1. T \in SUBSET Nat
            OBVIOUS
        <3> HIDE DEF T
        <3> QED BY <3>1, LeastPlace
    <2>2. k \in Nat /\ m <= k /\ k <= Len(ends) /\ ~((k - m) * K <= End(k) - End(m))
        OBVIOUS
    <2>3. k # m
        <3>1. (m - m) * K = 0 /\ End(m) - End(m) = 0
            BY <1>2, <1>3, SMTT(30)
        <3> QED BY <2>2, <3>1
    <2>4. PICK j \in Nat : j = k - 1 /\ m <= j /\ j <= Len(ends) /\ j < k
        BY <2>2, <2>3
    <2>5. j \notin T
        BY <2>1, <2>2, <2>4
    <2>6. (j - m) * K <= End(j) - End(m)
        BY <2>4, <2>5
    <2>7. End(j) + K <= End(k)
        <3>1. k \in 1..Len(ends) /\ k - 1 = j
            BY <2>2, <2>3, <2>4
        <3>2. Start(k) = End(j) /\ End(k) > Start(k) + Header
            BY <3>1 DEF Laid, Start
        <3>3. End(k) \in Nat /\ End(j) \in Nat
            BY <1>2, <2>2, <2>4
        <3> QED BY <1>1, <1>3, <3>2, <3>3
    <2>8. (k - m) * K = (j - m) * K + K
        BY <1>3, <2>2, <2>4
    <2>9. (j - m) * K \in Int /\ End(k) \in Nat /\ End(j) \in Nat /\ End(m) \in Nat
        <3>1. (j - m) * K \in Int
            BY <1>1, <2>4
        <3> QED BY <1>1, <1>2, <2>2, <2>4, <3>1, SMTT(30)
    <2>10. (j - m) * K + K <= End(k) - End(m)
        <3>1. PICK p \in Int : p = (j - m) * K
            BY <2>9
        <3>2. p + K <= End(k) - End(m)
            BY <2>6, <2>7, <2>9, <3>1, SMTT(30)
        <3> QED BY <3>1, <3>2
    <2> QED BY <2>2, <2>8, <2>10
<1>5. n \in Nat /\ m <= n /\ n <= Len(ends) /\ n \notin T
    BY <1>1, <1>4
<1> QED BY <1>3, <1>5

LEMMA DivBounds ==
    ASSUME NEW x \in Int, NEW P \in Nat, NEW K \in Nat \ {0}, x * K <= P
    PROVE  x <= P \div K
<1> DEFINE d == P \div K
<1>1. P = K * d + (P % K) /\ d \in Int /\ P % K \in 0..(K - 1)
    OBVIOUS
<1> HIDE DEF d
<1> SUFFICES ASSUME x > d PROVE FALSE
    BY <1>1 DEF d
<1>2. (d + 1) * K <= x * K
    BY <1>1
<1>3. (d + 1) * K = K * d + K
    BY <1>1
<1> QED BY <1>1, <1>2, <1>3

-----------------------------------------------------------------------------
Row == [n \in 1..Len(ends) |-> Size(n)]
AllSized == \A n \in 1..Len(ends) : Size(n) \in Sizes

\* The queue of whole images, with those that reached the pipe up to t.
Waits(t) ==
    /\ ThroughTo(t) /\ Len(got) \in 0..t /\ t \in Nat /\ t <= Len(ends)
    /\ Len(ends) \in Nat /\ Row \in [1..Len(ends) -> Nat]
    /\ [k \in 1..(Through - Len(got)) |-> Size(Len(got) + k)] = Part(Row, Len(got), t)

LEMMA PlacesMeet ==
    ASSUME StreamInv
    PROVE  /\ Len(ends) \in Nat /\ Len(pipe) \in Nat /\ Len(img) \in Nat /\ Len(got) \in 0..Len(ends)
           /\ Here \in Nat /\ End(Len(got)) <= Here /\ sz \in Nat
           /\ Here + Len(pipe) <= End(Len(ends)) - sz
           /\ Len(got) < Len(ends) => Here < End(Len(got) + 1)
           /\ \A n \in 0..Len(ends) : End(n) \in Nat
           /\ \A m, n \in 0..Len(ends) : m < n => End(m) < End(n)
           /\ \A n \in 1..Len(ends) : Size(n) \in Nat /\ Size(n) > Header /\ End(n) = End(n - 1) + Size(n)
<1>1. Len(ends) \in Nat /\ Len(pipe) \in Nat /\ Len(img) \in Nat /\ Len(got) \in 0..Len(ends) /\ sz \in Nat
    BY DEF StreamInv, TypeOK, AtReader
<1>2. /\ \A n \in 0..Len(ends) : End(n) \in Nat
      /\ \A m, n \in 0..Len(ends) : m < n => End(m) < End(n)
      /\ \A n \in 1..Len(ends) : Size(n) \in Nat /\ Size(n) > Header /\ End(n) = End(n - 1) + Size(n)
    BY EndFacts DEF StreamInv, Start
<1>3. Here \in Nat /\ End(Len(got)) <= Here
    BY <1>1, <1>2 DEF Here
<1>4. Here + Len(pipe) <= End(Len(ends)) - sz
    BY DEF StreamInv, Between, Bufv
<1>5. ASSUME Len(got) < Len(ends) PROVE Here < End(Len(got) + 1)
    <2>1. PICK n \in 1..Len(ends) : n = Len(got) + 1
        BY <1>1, <1>5
    <2>2. Len(img) < Size(n)
        <3>1. img = <<>> => Len(img) = 0
            OBVIOUS
        <3>2. img # <<>> => Len(img) < Size(Len(got) + 1)
            BY DEF StreamInv, AtReader
        <3> QED BY <1>2, <2>1, <3>1, <3>2, StreamAssumption
    <2>3. End(n) = End(Len(got)) + Size(n)
        <3>1. n - 1 = Len(got)
            BY <1>1, <2>1
        <3> QED BY <1>2, <3>1
    <2> QED BY <1>1, <1>2, <2>1, <2>2, <2>3 DEF Here
<1> QED BY <1>1, <1>2, <1>3, <1>4, <1>5

LEMMA WaitsAre == StreamInv => (\E t : ThroughTo(t)) /\ (\A t : ThroughTo(t) => Waits(t))
<1> SUFFICES ASSUME StreamInv PROVE (\E t : ThroughTo(t)) /\ (\A t : ThroughTo(t) => Waits(t))
    OBVIOUS
<1> DEFINE here == Here + Len(pipe)
<1>1. PICK L \in Nat, g \in Nat : L = Len(ends) /\ g = Len(got) /\ g \in 0..L
    BY PlacesMeet
<1>2. /\ \A n \in 0..L : End(n) \in Nat
      /\ \A m, n \in 0..L : m < n => End(m) < End(n)
      /\ here \in Nat /\ End(g) <= here /\ here <= End(L)
    BY <1>1, PlacesMeet
<1>3. \E t : ThroughTo(t)
    <2> DEFINE T == {n \in Nat : n <= L /\ (n = L \/ here < End(n + 1))}
    <2>1. L \in T
        BY <1>1
    <2>2. PICK t \in T : \A n \in T : t <= n
        <3>1. T \in SUBSET Nat /\ T # {}
            BY <2>1
        <3> HIDE DEF T
        <3> QED BY <3>1, LeastPlace
    <2>3. t \in Nat /\ t <= L /\ (t < L => here < End(t + 1))
        OBVIOUS
    <2>4. End(t) <= here
        <3>1. CASE t = 0
            BY <1>2, <3>1 DEF End
        <3>2. CASE t # 0
            <4>1. PICK n \in Nat : t = n + 1
                BY <2>3, <3>2
            <4>2. n \notin T
                BY <2>2, <4>1
            <4>3. ~(here < End(n + 1))
                BY <2>3, <4>1, <4>2
            <4>4. End(t) \in Nat
                BY <1>2, <2>3
            <4> HIDE DEF here
            <4> QED BY <1>2, <4>1, <4>3, <4>4
        <3> QED BY <3>1, <3>2
    <2> HIDE DEF T
    <2> QED BY <1>1, <2>3, <2>4 DEF ThroughTo
<1>4. ASSUME NEW t, ThroughTo(t) PROVE Waits(t)
    <2>1. t \in 0..L /\ End(t) <= here /\ (t < L => here < End(t + 1))
        BY <1>1, <1>4 DEF ThroughTo
    <2>2. g <= t
        <3> SUFFICES ASSUME t < g PROVE FALSE
            BY <1>1, <2>1
        <3>1. t + 1 \in 0..L /\ t < L /\ (t + 1 = g \/ t + 1 < g)
            BY <1>1, <2>1
        <3>2. End(t + 1) <= End(g)
            BY <1>1, <1>2, <3>1
        <3>3. here < End(t + 1)
            BY <2>1, <3>1
        <3> HIDE DEF here
        <3> QED BY <1>1, <1>2, <3>1, <3>2, <3>3
    <2>3. Row \in [1..L -> Nat]
        BY <1>1, PlacesMeet DEF Row
    <2>4. Through = t
        BY <1>4, ThroughIs
    <2>5. [k \in 1..(t - g) |-> Size(g + k)] = Part(Row, g, t)
        <3>1. \A k \in 1..(t - g) : g + k \in 1..L
            BY <2>1, <2>2
        <3>2. \A k \in 1..(t - g) : Row[g + k] = Size(g + k)
            BY <1>1, <3>1 DEF Row
        <3> QED BY <3>2 DEF Part
    <2> QED BY <1>1, <1>4, <2>1, <2>2, <2>3, <2>4, <2>5 DEF Waits
<1> QED BY <1>3, <1>4

\* Where the stream ends now and at the next step.
AllWait == (\E t : ThroughTo(t)) /\ (\A t : ThroughTo(t) => Waits(t))

LEMMA WaitsNext == StreamInv' => AllWait'
<1>1. StreamInv => AllWait
    BY WaitsAre DEF AllWait
<1> QED BY <1>1, PTL

InFlight == [k \in 1..(Through - Len(got)) |-> Size(Len(got) + k)]
Returned == [n \in 1..Len(got) |-> Len(got[n])]
Open     == wpc # "closed"
Reader   == IF ReaderOpen THEN "on" ELSE IF rpc = "eof" THEN "eof" ELSE "off"

\* A read inside an image moves bytes to the reader's side of Here.
LEMMA SameQueue ==
    ASSUME StreamInv, StreamInv', ends' = ends, got' = got,
           Here' + Len(pipe') = Here + Len(pipe)
    PROVE  InFlight' = InFlight /\ Returned' = Returned
<1>1. PICK t : ThroughTo(t) /\ Waits(t)
    BY WaitsAre
<1>2. \A n : End(n)' = End(n)
    BY DEF End
<1>3. ThroughTo(t)'
    BY <1>1, <1>2 DEF ThroughTo
<1>4. Waits(t)'
    <2>1. \A u : ThroughTo(u)' => Waits(u)'
        BY WaitsNext DEF AllWait
    <2> QED BY <1>3, <2>1
<1>5. Row' = Row
    BY <1>2 DEF Row, Size, Start
<1>6. InFlight = Part(Row, Len(got), t) /\ InFlight' = Part(Row', Len(got'), t)
    BY <1>1, <1>4 DEF Waits, InFlight
<1> QED BY <1>5, <1>6 DEF Returned

LEMMA DumpPlaces ==
    ASSUME StreamInv, NEW s \in Sizes, TplDump(s), NEW L \in Nat, L = Len(ends)
    PROVE  /\ s \in Nat /\ s > Header /\ Len(ends') = L + 1
           /\ \A n \in 0..L : End(n)' = End(n)
           /\ End(L + 1)' = End(L) + s
           /\ \A n \in 1..L : Size(n)' = Size(n)
           /\ Size(L + 1)' = s
<1>1. s \in Nat /\ s > Header /\ ends \in Seq(Nat) /\ ends' = Append(ends, End(L) + s)
      BY StreamAssumption DEF StreamInv, TypeOK, TplDump
<1>2. \A n \in 0..L : End(n) \in Nat
      BY EndFacts DEF StreamInv
<1>3. Len(ends') = L + 1 /\ ends'[L + 1] = End(L) + s
      BY <1>1, <1>2
<1>4. \A n \in 0..L : End(n)' = End(n)
      BY <1>1, <1>2 DEF End
<1>5. End(L + 1)' = End(L) + s
      BY <1>1, <1>3 DEF End
<1>6. \A n \in 1..L : Size(n)' = Size(n)
      BY <1>4 DEF Start, Size
<1>7. Size(L + 1)' = s
      BY <1>1, <1>2, <1>4, <1>5 DEF Start, Size
<1> QED BY <1>1, <1>3, <1>4, <1>5, <1>6, <1>7

\* A dump that begins has put nothing yet.
LEMMA DumpPutsNothing ==
    ASSUME StreamInv, StreamInv', NEW s \in Sizes, TplDump(s)
    PROVE  InFlight' = InFlight /\ Returned' = Returned /\ Open' = Open /\ Reader' = Reader
<1>1. PICK L \in Nat : L = Len(ends)
    BY PlacesMeet
<1>2. /\ s \in Nat /\ s > Header /\ Len(ends') = L + 1
      /\ \A n \in 0..L : End(n)' = End(n)
      /\ End(L + 1)' = End(L) + s
      /\ \A n \in 1..L : Size(n)' = Size(n)
    BY <1>1, DumpPlaces
<1>3. /\ sz = 0 /\ UNCHANGED <<pipe, img, got, rpc>> /\ wpc = "idle" /\ wpc' = "dump"
    BY DEF StreamInv, AtWriter, TplDump, readerVars
<1>4. PICK t : ThroughTo(t) /\ Waits(t)
    BY WaitsAre
<1>5. t \in 0..L /\ Len(got) \in 0..t /\ Len(got) \in 0..L
    BY <1>1, <1>4, PlacesMeet DEF ThroughTo, Waits
<1>6. Here' = Here
    BY <1>2, <1>3, <1>5 DEF Here
<1>7. ThroughTo(t)'
    <2>1. Here + Len(pipe) \in Nat /\ Here + Len(pipe) <= End(L) /\ End(L) \in Nat
        BY <1>1, <1>3, PlacesMeet
    <2>2. t \in 0..(L + 1) /\ End(t)' <= Here + Len(pipe)
        BY <1>2, <1>4, <1>5 DEF ThroughTo
    <2>3. CASE t = L
        <3>1. Here + Len(pipe) < End(L + 1)'
            BY <1>2, <2>1, StreamAssumption
        <3> QED BY <1>2, <1>3, <1>6, <2>2, <2>3, <3>1 DEF ThroughTo
    <2>4. CASE t # L
        <3>1. t + 1 \in 0..L
            BY <1>5, <2>4
        <3>2. Here + Len(pipe) < End(t + 1)
            BY <1>1, <1>4, <1>5, <2>4 DEF ThroughTo
        <3>3. End(t + 1)' = End(t + 1)
            BY <1>2, <3>1
        <3> QED BY <1>2, <1>3, <1>6, <2>2, <3>2, <3>3 DEF ThroughTo
    <2> QED BY <2>3, <2>4
<1>8. Waits(t)'
    <2>1. \A u : ThroughTo(u)' => Waits(u)'
        BY WaitsNext DEF AllWait
    <2> QED BY <1>7, <2>1
<1>9. Part(Row', Len(got), t) = Part(Row, Len(got), t)
    <2>1. ASSUME NEW k \in 1..(t - Len(got)) PROVE Row'[Len(got) + k] = Row[Len(got) + k]
        <3>1. PICK n \in 1..L : n = Len(got) + k
            BY <1>5
        <3>2. Row[n] = Size(n) /\ Row'[n] = Size(n)'
            <4>1. n \in 1..Len(ends')
                BY <1>2
            <4> QED BY <1>1, <4>1 DEF Row
        <3> QED BY <1>2, <3>1, <3>2
    <2> QED BY <2>1 DEF Part
<1>10. InFlight = Part(Row, Len(got), t) /\ InFlight' = Part(Row', Len(got'), t)
    BY <1>4, <1>8 DEF Waits, InFlight
<1> QED BY <1>3, <1>9, <1>10 DEF Returned, Open, Reader, ReaderOpen

\* An image is put by the write of its last byte, when there is room for it.
LEMMA WritePuts ==
    ASSUME StreamInv, StreamInv', AllSized, WriteSome
    PROVE  \/ InFlight' = InFlight
           \/ /\ \E m \in Sizes : InFlight' = Append(InFlight, m)
              /\ Len(InFlight) < PipeBuf \div (Header + 1) + 1
<1>1. PICK L \in Nat, g \in Nat : L = Len(ends) /\ g = Len(got) /\ g \in 0..L
    BY PlacesMeet
<1>2. /\ wpc = "dump" /\ sz \in Nat /\ sz > 0 /\ ends' = ends /\ img' = img /\ got' = got
      /\ pipe \in Seq(Nat) /\ Len(pipe) \in Nat /\ ~reset /\ L # 0 /\ sz <= Size(L)
      /\ Here + Len(pipe) = End(L) - sz
    BY <1>1 DEF StreamInv, TypeOK, AtWriter, Between, WriteSome, readerVars, Bufv
<1>3. PICK rc \in Nat :
         /\ rc > 0 /\ rc <= sz /\ rc <= PipeBuf - Len(pipe)
         /\ pipe' = pipe \o [k \in 1..rc |-> Bufv + k]
    <2>1. PICK rc \in 1..Least(Unwritten, PipeBuf - Len(pipe)) :
             pipe' = pipe \o [k \in 1..rc |-> Bufv + k]
        BY DEF WriteSome
    <2>2. rc \in Nat /\ rc > 0 /\ rc <= sz /\ rc <= PipeBuf - Len(pipe)
        BY <1>2, <2>1, StreamAssumption DEF Least, Unwritten
    <2> QED BY <2>1, <2>2
<1>4. /\ End(L) \in Nat /\ \A n \in 0..L : End(n) \in Nat
      /\ L \in 1..L /\ Size(L) \in Nat /\ End(L) = End(L - 1) + Size(L) /\ Here \in Nat
    BY <1>1, <1>2, PlacesMeet
<1>5. Len(pipe') = Len(pipe) + rc
    <2> DEFINE part == [k \in 1..rc |-> Bufv + k]
    <2>1. Bufv \in Nat
        BY <1>1, <1>2, <1>4 DEF Bufv
    <2>2. part \in Seq(Nat) /\ Len(part) = rc
        BY <2>1
    <2> QED BY <1>2, <1>3, <2>2
<1>6. \A n : End(n)' = End(n) /\ Size(n)' = Size(n)
    BY <1>2 DEF End, Size, Start
<1>7. Here' = Here /\ Row' = Row
    BY <1>2, <1>6 DEF Here, Row
<1>8. L - 1 \in 0..L /\ L - 1 < L /\ (L - 1) + 1 = L
    BY <1>2
<1>9. ThroughTo(L - 1)
    <2>1. End(L - 1) <= Here + Len(pipe) /\ Here + Len(pipe) < End(L)
        BY <1>2, <1>4, <1>8
    <2> QED BY <1>1, <1>8, <2>1 DEF ThroughTo
<1>10. Waits(L - 1)
    BY <1>9, WaitsAre
<1>11. InFlight = Part(Row, g, L - 1) /\ g \in 0..(L - 1) /\ Row \in [1..L -> Nat]
    BY <1>1, <1>10 DEF Waits, InFlight
<1>12. \A u : ThroughTo(u)' => Waits(u)'
    BY WaitsNext DEF AllWait
<1>13. CASE rc # sz
    <2>1. End(L - 1) <= Here + (Len(pipe) + rc) /\ Here + (Len(pipe) + rc) < End(L)
        BY <1>2, <1>3, <1>4, <1>8, <1>13, SMTT(30)
    <2>2. PICK m \in 0..L : m = L - 1 /\ m + 1 = L /\ m < L
        BY <1>8
    <2>3. ThroughTo(m)'
        BY <1>1, <1>2, <1>5, <1>6, <1>7, <2>1, <2>2 DEF ThroughTo
    <2>4. Waits(m)'
        BY <1>12, <2>3
    <2>5. InFlight' = Part(Row', Len(got'), m)
        BY <2>4 DEF Waits, InFlight
    <2> QED BY <1>1, <1>2, <1>7, <1>11, <2>2, <2>5
<1>14. CASE rc = sz
    <2>1. End(L) = Here + (Len(pipe) + rc)
        <3>1. Here + Len(pipe) = End(L) - sz /\ Len(pipe) \in Nat /\ sz \in Nat
            BY <1>2
        <3>2. Here \in Nat /\ End(L) \in Nat
            BY <1>4
        <3> QED BY <1>14, <3>1, <3>2
    <2>2. ThroughTo(L)'
        <3>1. L \in 0..L /\ ~(L < L) /\ End(L) <= Here + (Len(pipe) + rc)
            BY <1>4, <2>1
        <3> QED BY <1>1, <1>2, <1>5, <1>6, <1>7, <3>1 DEF ThroughTo
    <2>3. Waits(L)'
        BY <1>12, <2>2
    <2>4. InFlight' = Part(Row, g, L)
        BY <1>1, <1>2, <1>7, <2>3 DEF Waits, InFlight
    <2>5. Part(Row, g, L) = Append(Part(Row, g, L - 1), Row[L])
        <3>1. PICK m \in g..L : m = L - 1 /\ m + 1 = L /\ m < L
            BY <1>1, <1>8, <1>11
        <3>2. g \in 0..L
            BY <1>1
        <3>3. Part(Row, g, m + 1) = Append(Part(Row, g, m), Row[m + 1])
            BY <1>11, <3>1, <3>2, PartSteps
        <3> QED BY <3>1, <3>3
    <2>6. Row[L] \in Sizes
        BY <1>1, <1>4 DEF Row, AllSized
    <2>7. Len(InFlight) = L - 1 - g
        <3>1. PICK m \in g..L : m = L - 1
            BY <1>1, <1>8, <1>11
        <3>2. Len(Part(Row, g, m)) = m - g
            BY <1>1, <1>11, PartIs
        <3> QED BY <1>11, <3>1, <3>2
    <2>8. (L - (g + 1)) * (Header + 1) <= PipeBuf
        <3>1. PICK h \in 0..L : h = g + 1
            BY <1>1, <1>11
        <3>2. (L - h) * (Header + 1) <= End(L) - End(h)
            <4>1. L \in h..L /\ h \in 0..Len(ends)
                BY <1>1, <3>1
            <4> QED BY <1>1, <4>1, ImagesTakeRoom DEF StreamInv
        <3>3. Here < End(h)
            BY <1>1, <1>8, <1>11, <3>1, PlacesMeet
        <3>4. End(L) - End(h) <= Len(pipe) + rc /\ Len(pipe) + rc <= PipeBuf
            <4>1. End(h) \in Nat
                BY <1>4
            <4>2. End(L) - End(h) <= Len(pipe) + rc
                BY <1>2, <1>3, <1>4, <2>1, <3>3, <4>1, SMTT(30)
            <4>3. Len(pipe) + rc <= PipeBuf
                BY <1>2, <1>3, StreamAssumption
            <4> QED BY <4>2, <4>3
        <3>5. (L - h) * (Header + 1) \in Int /\ End(L) - End(h) \in Int /\ Len(pipe) + rc \in Nat /\ PipeBuf \in Nat
            <4>1. L - h \in Int /\ Header + 1 \in Int
                BY <3>1, StreamAssumption
            <4>2. (L - h) * (Header + 1) \in Int
                BY <4>1
            <4> QED BY <1>2, <1>4, <4>2, StreamAssumption, SMTT(30)
        <3>6. (L - h) * (Header + 1) <= PipeBuf
            <4>1. PICK p \in Int : p = (L - h) * (Header + 1)
                BY <3>5
            <4>2. p <= PipeBuf
                BY <3>2, <3>4, <3>5, <4>1
            <4> QED BY <4>1, <4>2
        <3> QED BY <3>1, <3>6
    <2>9. L - (g + 1) <= PipeBuf \div (Header + 1)
        <3>5. L - (g + 1) \in Int
            BY <1>1
        <3>1. PICK x \in Int : x = L - (g + 1)
            BY <3>5
        <3>2. PICK K \in Nat \ {0} : K = Header + 1 /\ x * K <= PipeBuf
            BY <2>8, <3>1, StreamAssumption
        <3>3. PipeBuf \in Nat
            BY StreamAssumption
        <3>4. x <= PipeBuf \div K
            BY <3>2, <3>3, DivBounds
        <3> QED BY <3>1, <3>2, <3>4
    <2>10. Len(InFlight) < PipeBuf \div (Header + 1) + 1
        <3>1. PICK d \in Int : d = PipeBuf \div (Header + 1)
            BY StreamAssumption
        <3> QED BY <1>1, <2>7, <2>9, <3>1
    <2> QED BY <1>11, <2>4, <2>5, <2>6, <2>10
<1> QED BY <1>13, <1>14

\* Sizes come from tpl_ser_osz alone.
LEMMA SizedStep == StreamInv /\ AllSized /\ [Next]_vars => AllSized'
<1> SUFFICES ASSUME StreamInv, AllSized, [Next]_vars PROVE AllSized'
    OBVIOUS
<1>1. ASSUME NEW s \in Sizes, TplDump(s) PROVE AllSized'
    <2>1. PICK L \in Nat : L = Len(ends)
        BY PlacesMeet
    <2>2. /\ Len(ends') = L + 1 /\ Size(L + 1)' = s
          /\ \A n \in 1..L : Size(n)' = Size(n)
        BY <1>1, <2>1, DumpPlaces
    <2>3. ASSUME NEW n \in 1..(L + 1) PROVE Size(n)' \in Sizes
        <3>1. n = L + 1 \/ n \in 1..L
            BY <2>1
        <3>2. \A m \in 1..L : Size(m) \in Sizes
            BY <2>1 DEF AllSized
        <3> QED BY <2>2, <3>1, <3>2
    <2> QED BY <2>2, <2>3 DEF AllSized
<1>2. ASSUME ends' = ends PROVE AllSized'
    BY <1>2 DEF AllSized, Size, Start, End
<1>3. (\E s \in Sizes : TplDump(s)) \/ ends' = ends
    BY DEF Next, vars, Writing, Reading, WriteSome, WriteFails, WriterCloses, ConnectionReset,
         GatherBegins, ReadHeader, ReadHeaderEnd, ReadBody, ReadBodyEnd, ReadEof, ReadFails,
         ReaderCloses, writerVars
<1> QED BY <1>1, <1>2, <1>3

\* A read short of the whole image leaves the queue alone.
LEMMA PartRead ==
    ASSUME StreamInv, StreamInv', ReadHeader \/ ReadHeaderEnd \/ ReadBody
    PROVE  InFlight' = InFlight /\ Returned' = Returned
<1>1. /\ UNCHANGED <<writerVars, reset, got>> /\ rpc \in {"header", "body"}
      /\ Len(img) \in Nat /\ Len(pipe) \in Nat /\ Here \in Nat
    BY PlacesMeet DEF ReadHeader, ReadHeaderEnd, ReadBody
<1>2. PICK rc \in 1..Len(pipe) : Take(rc)
    <2>1. CASE ReadHeader
        BY <1>1, <2>1, StreamAssumption DEF ReadHeader, Least, HeaderWant
    <2>2. CASE ReadHeaderEnd
        <3>1. HeaderWant \in 1..Len(pipe)
            <4>1. Len(img) < Header
                BY <2>2 DEF StreamInv, AtReader, ReadHeaderEnd
            <4> QED BY <1>1, <2>2, <4>1, StreamAssumption DEF ReadHeaderEnd, HeaderWant
        <3> QED BY <2>2, <3>1 DEF ReadHeaderEnd
    <2>3. CASE ReadBody
        <3>1. img # <<>> /\ Len(got) + 1 \in 1..Len(ends) /\ Size(Len(got) + 1) \in Nat
              /\ Start(Len(got) + 1) = End(Len(got))
            BY <2>3, PlacesMeet DEF StreamInv, AtReader, ReadBody, Start
        <3>2. BodyWant = Size(Len(got) + 1) - Len(img)
            BY <1>1, <3>1, HeaderTells DEF StreamInv, AtReader, BodyWant
        <3> QED BY <1>1, <2>3, <3>1, <3>2 DEF ReadBody, Least
    <2> QED BY <2>1, <2>2, <2>3
<1>3. Len(pipe') = Len(pipe) - rc /\ Len(img') = Len(img) + rc
    BY <1>2, TakeMoves DEF Take
<1>4. ends' = ends /\ got' = got /\ End(Len(got))' = End(Len(got)) /\ End(Len(got)) \in Nat
    BY <1>1, PlacesMeet DEF writerVars, End
<1>5. Here' + Len(pipe') = Here + Len(pipe)
    <2>1. Here' = End(Len(got)) + (Len(img) + rc)
        BY <1>3, <1>4 DEF Here
    <2>2. Here = End(Len(got)) + Len(img)
        BY DEF Here
    <2> QED BY <1>1, <1>2, <1>3, <1>4, <2>1, <2>2
<1> QED BY <1>4, <1>5, SameQueue

\* The end of file is met at the end of the queue.
LEMMA NothingWaits ==
    ASSUME StreamInv, pipe = <<>> PROVE InFlight = <<>>
<1>1. PICK L \in Nat, g \in Nat : L = Len(ends) /\ g = Len(got) /\ g \in 0..L
    BY PlacesMeet
<1>2. PICK t : ThroughTo(t) /\ Waits(t)
    BY WaitsAre
<1>3. /\ t \in Nat /\ g \in 0..t /\ t \in 0..L /\ End(t) <= Here + Len(pipe) /\ Len(pipe) = 0
      /\ Here \in Nat /\ (g < L => Here < End(g + 1))
      /\ \A n \in 0..L : End(n) \in Nat
      /\ \A m, n \in 0..L : m < n => End(m) < End(n)
    BY <1>1, <1>2, PlacesMeet DEF ThroughTo, Waits
<1>4. t = g
    <2> SUFFICES ASSUME g < t PROVE FALSE
        BY <1>1, <1>3
    <2>1. PICK h \in 0..L : h = g + 1 /\ (h = t \/ h < t) /\ g < L
        BY <1>1, <1>3
    <2>2. End(h) <= End(t) /\ End(t) \in Nat /\ End(h) \in Nat
        BY <1>3, <2>1
    <2>3. Here < End(h) /\ End(t) <= Here + 0
        BY <1>3, <2>1
    <2> QED BY <1>3, <2>2, <2>3
<1>5. InFlight = Part(Row, g, g)
    BY <1>1, <1>2, <1>4 DEF Waits, InFlight
<1>6. 1..(g - g) = {}
    BY <1>1
<1> QED BY <1>5, <1>6 DEF Part

\* A reset cuts the queue as it cuts the stream.
LEMMA ResetCuts ==
    ASSUME StreamInv, StreamInv', ConnectionReset
    PROVE  /\ \E k \in 0..Len(InFlight) : InFlight' = SubSeq(InFlight, 1, k)
           /\ Returned' = Returned
<1>1. PICK L \in Nat, g \in Nat : L = Len(ends) /\ g = Len(got) /\ g \in 0..L
    BY PlacesMeet
<1>2. UNCHANGED <<ends, img, got>> /\ pipe \in Seq(Nat) /\ Len(pipe) \in Nat /\ Here \in Nat
    BY PlacesMeet DEF ConnectionReset, writerVars, readerVars, StreamInv, TypeOK
<1>3. PICK k \in 0..Len(pipe) : pipe' = SubSeq(pipe, 1, k)
    BY DEF ConnectionReset
<1>4. Len(pipe') = k
    BY <1>2, <1>3
<1>5. /\ \A n : End(n)' = End(n)
      /\ Here' = Here /\ Row' = Row /\ Returned' = Returned
    BY <1>2 DEF End, Here, Row, Size, Start, Returned
<1>6. PICK t : ThroughTo(t) /\ Waits(t)
    BY WaitsAre
<1>7. PICK u : ThroughTo(u)' /\ Waits(u)'
    BY WaitsNext DEF AllWait
<1>8. /\ t \in Nat /\ g \in 0..t /\ t \in 0..L /\ (t < L => Here + Len(pipe) < End(t + 1))
      /\ InFlight = Part(Row, g, t) /\ Row \in [1..L -> Nat]
    BY <1>1, <1>6 DEF ThroughTo, Waits, InFlight
<1>9. /\ u \in Nat /\ g \in 0..u /\ u \in 0..L /\ End(u) <= Here + k
      /\ InFlight' = Part(Row, g, u)
    BY <1>1, <1>2, <1>4, <1>5, <1>7 DEF ThroughTo, Waits, InFlight
<1>10. u <= t
    <2> SUFFICES ASSUME t < u PROVE FALSE
        BY <1>8, <1>9
    <2>1. PICK h \in 0..L : h = t + 1 /\ (h = u \/ h < u) /\ t < L
        BY <1>1, <1>8, <1>9
    <2>2. End(h) \in Nat /\ End(u) \in Nat /\ (h < u => End(h) < End(u))
        BY <1>1, <1>9, <2>1, PlacesMeet
    <2>3. Here + Len(pipe) < End(h)
        BY <1>8, <2>1
    <2> QED BY <1>2, <1>3, <1>9, <2>1, <2>2, <2>3
<1>11. Part(Row, g, u) = SubSeq(Part(Row, g, t), 1, u - g)
    <2>1. t \in g..L /\ u \in g..t /\ g \in 0..L
        BY <1>1, <1>8, <1>9, <1>10
    <2> QED BY <1>8, <2>1, PartSteps
<1>12. u - g \in 0..Len(InFlight)
    <2>1. t \in g..L
        BY <1>8, <1>9
    <2>2. Len(Part(Row, g, t)) = t - g
        BY <1>1, <1>8, <2>1, PartIs
    <2> QED BY <1>8, <1>9, <1>10, <2>2
<1>13. InFlight' = SubSeq(InFlight, 1, u - g)
    BY <1>8, <1>9, <1>11
<1> QED BY <1>5, <1>12, <1>13

LEMMA AppendIs ==
    ASSUME NEW g \in Nat, NEW r \in Seq(Nat), Len(r) = g, NEW e \in Nat
    PROVE  Append(r, e) = [m \in 1..(g + 1) |-> IF m = g + 1 THEN e ELSE r[m]]
<1> DEFINE a == Append(r, e)
<1>1. /\ a \in Seq(Nat) /\ Len(a) = g + 1 /\ a[g + 1] = e
      /\ \A m \in 1..g : a[m] = r[m]
    BY AppendProperties
<1> HIDE DEF a
<1>2. a = [m \in 1..(g + 1) |-> a[m]]
    <2>1. a \in [1..Len(a) -> Nat]
        BY <1>1
    <2> QED BY <1>1, <2>1
<1>3. \A m \in 1..(g + 1) : a[m] = IF m = g + 1 THEN e ELSE r[m]
    <2>1. \A m \in 1..(g + 1) : m = g + 1 \/ m \in 1..g
        OBVIOUS
    <2> QED BY <1>1, <2>1
<1>4. a = [m \in 1..(g + 1) |-> IF m = g + 1 THEN e ELSE r[m]]
    BY <1>2, <1>3
<1> QED BY <1>4 DEF a

\* The read of an image's last byte takes the head of the queue.
LEMMA LastReadTakes ==
    ASSUME StreamInv, StreamInv', ReadBodyEnd
    PROVE  /\ InFlight # <<>> /\ InFlight' = Tail(InFlight)
           /\ Returned' = Append(Returned, Head(InFlight))
<1>1. PICK L \in Nat, g \in Nat : L = Len(ends) /\ g = Len(got) /\ g \in 0..L
    BY PlacesMeet
<1>2. /\ rpc = "body" /\ img # <<>> /\ Len(img) \in Nat /\ Len(pipe) \in Nat
      /\ g + 1 \in 1..L /\ got \in Seq(Seq(Nat)) /\ Len(img) < Size(g + 1)
      /\ ends' = ends /\ img' = <<>> /\ Here \in Nat
    BY <1>1, PlacesMeet DEF StreamInv, TypeOK, AtReader, ReadBodyEnd, writerVars
<1>3. PICK n \in 1..L : n = g + 1 /\ n - 1 = g
    BY <1>1, <1>2
<1>4. Size(n) \in Nat /\ Start(n) = End(g) /\ End(n) = End(g) + Size(n) /\ End(g) \in Nat
    BY <1>1, <1>3, PlacesMeet DEF Start
<1>5. BodyWant = Size(n) - Len(img)
    <2>1. img[1] = Start(n) + 1 /\ n \in 1..Len(ends)
        BY <1>1, <1>2, <1>4 DEF StreamInv, AtReader
    <2> QED BY <2>1, HeaderTells DEF StreamInv, BodyWant
<1>6. PICK rc \in 1..Len(pipe) :
         Len(img) + rc = Size(n) /\ pipe' = Rest(rc) /\ got' = Append(got, Gathered(rc))
    <2>1. BodyWant \in 1..Len(pipe) /\ Len(img) + BodyWant = Size(n)
        <3>1. Len(img) < Size(n)
            BY <1>2, <1>3
        <3>2. BodyWant <= Len(pipe)
            BY DEF ReadBodyEnd
        <3>3. Len(img) \in Nat /\ Len(pipe) \in Nat /\ Size(n) \in Nat
            BY <1>2, <1>4
        <3> QED BY <1>5, <3>1, <3>2, <3>3
    <2> QED BY <2>1 DEF ReadBodyEnd
<1>7. Len(Rest(rc)) = Len(pipe) - rc /\ Gathered(rc) \in Seq(Nat) /\ Len(Gathered(rc)) = Size(n)
    BY <1>6, TakeMoves
<1>8. /\ Len(got') = n /\ Len(got'[n]) = Size(n)
      /\ \A m \in 1..g : got'[m] = got[m]
    BY <1>1, <1>2, <1>3, <1>6, <1>7
<1>9. \A m : End(m)' = End(m) /\ Size(m)' = Size(m)
    BY <1>2 DEF End, Size, Start
<1>10. Row' = Row
    BY <1>2, <1>9 DEF Row
<1>11. Here' = End(n) /\ Len(pipe') = Len(pipe) - rc
    <2>1. Here' = End(n) + Len(img')
        BY <1>8, <1>9 DEF Here
    <2>2. Len(img') = 0 /\ End(n) \in Nat
        BY <1>2, <1>4
    <2> QED BY <1>6, <1>7, <2>1, <2>2
<1>12. Here' + Len(pipe') = Here + Len(pipe)
    <2>1. Here = End(g) + Len(img)
        BY <1>1 DEF Here
    <2> QED BY <1>2, <1>4, <1>6, <1>11, <2>1, SMTT(30)
<1>13. PICK t : ThroughTo(t) /\ Waits(t)
    BY WaitsAre
<1>14. ThroughTo(t)'
    BY <1>2, <1>9, <1>12, <1>13 DEF ThroughTo
<1>15. Waits(t)'
    BY <1>14, WaitsNext DEF AllWait
<1>16. /\ t \in Nat /\ n \in 0..t /\ t \in 0..L /\ Row \in [1..L -> Nat]
       /\ InFlight = Part(Row, g, t) /\ InFlight' = Part(Row, n, t)
    BY <1>1, <1>8, <1>10, <1>13, <1>15 DEF ThroughTo, Waits, InFlight
<1>17. /\ Part(Row, g, t) # <<>> /\ Head(Part(Row, g, t)) = Row[g + 1]
       /\ Tail(Part(Row, g, t)) = Part(Row, g + 1, t)
    <2>1. g \in 0..L /\ t \in g..L /\ g < t
        BY <1>1, <1>3, <1>16
    <2> QED BY <1>16, <2>1, PartSteps
<1>18. Row[n] = Size(n)
    BY <1>1 DEF Row
<1>19. Returned' = Append(Returned, Size(n))
    <2> DEFINE r == [m \in 1..g |-> Len(got[m])]
    <2>1. Returned = r /\ Returned' = [m \in 1..n |-> Len(got'[m])]
        BY <1>1, <1>8 DEF Returned
    <2>2. r \in Seq(Nat) /\ Len(r) = g /\ \A m \in 1..g : r[m] = Len(got[m])
        BY <1>1, <1>2
    <2>3. \A m \in 1..g : Len(got'[m]) = r[m]
        BY <1>8, <2>2
    <2>4. Len(got'[n]) = Size(n)
        BY <1>8
    <2> HIDE DEF r
    <2>5. Append(r, Size(n)) = [m \in 1..n |-> IF m = n THEN Size(n) ELSE r[m]]
        <3>1. \A e \in Nat : Append(r, e) = [m \in 1..(g + 1) |-> IF m = g + 1 THEN e ELSE r[m]]
            BY <1>1, <2>2, AppendIs
        <3> QED BY <1>3, <1>4, <3>1
    <2>6. \A m \in 1..n : m = n \/ m \in 1..g
        BY <1>1, <1>3
    <2>7. \A m \in 1..n : Len(got'[m]) = IF m = n THEN Size(n) ELSE r[m]
        BY <2>3, <2>4, <2>6
    <2> QED BY <2>1, <2>5, <2>7
<1> QED BY <1>3, <1>16, <1>17, <1>18, <1>19

-----------------------------------------------------------------------------
\* The queue's steps, in the words of the stream.
LEMMA QueueIs ==
    /\ Queue!Init <=> InFlight = <<>> /\ Returned = <<>> /\ Open = TRUE /\ Reader = "on"
    /\ \A m : Queue!Put(m) <=>
          /\ Open /\ Len(InFlight) < PipeBuf \div (Header + 1) + 1
          /\ InFlight' = Append(InFlight, m)
          /\ UNCHANGED <<Returned, Open, Reader>>
    /\ Queue!Take <=>
          /\ Reader = "on" /\ InFlight # <<>>
          /\ Returned' = Append(Returned, Head(InFlight)) /\ InFlight' = Tail(InFlight)
          /\ UNCHANGED <<Open, Reader>>
    /\ Queue!Close <=> Open /\ Open' = FALSE /\ UNCHANGED <<InFlight, Returned, Reader>>
    /\ Queue!Lose <=>
          /\ ~Open
          /\ \E k \in 0..Len(InFlight) : InFlight' = SubSeq(InFlight, 1, k)
          /\ UNCHANGED <<Returned, Open, Reader>>
    /\ Queue!Eof <=>
          /\ Reader = "on" /\ ~Open /\ InFlight = <<>> /\ Reader' = "eof"
          /\ UNCHANGED <<InFlight, Returned, Open>>
    /\ Queue!Stop <=>
          Reader = "on" /\ Reader' = "off" /\ UNCHANGED <<InFlight, Returned, Open>>
    /\ UNCHANGED Queue!vars <=> UNCHANGED <<InFlight, Returned, Open, Reader>>
<1>1. Queue!Init <=> InFlight = <<>> /\ Returned = <<>> /\ Open = TRUE /\ Reader = "on"
    BY DEF Queue!Init, InFlight, Returned, Open, Reader
<1>2. \A m : Queue!Put(m) <=>
          /\ Open /\ Len(InFlight) < PipeBuf \div (Header + 1) + 1
          /\ InFlight' = Append(InFlight, m)
          /\ UNCHANGED <<Returned, Open, Reader>>
    BY DEF Queue!Put, InFlight, Returned, Open, Reader
<1>3. Queue!Take <=>
          /\ Reader = "on" /\ InFlight # <<>>
          /\ Returned' = Append(Returned, Head(InFlight)) /\ InFlight' = Tail(InFlight)
          /\ UNCHANGED <<Open, Reader>>
    BY DEF Queue!Take, InFlight, Returned, Open, Reader
<1>4. Queue!Close <=> Open /\ Open' = FALSE /\ UNCHANGED <<InFlight, Returned, Reader>>
    BY DEF Queue!Close, InFlight, Returned, Open, Reader
<1>5. Queue!Lose <=>
          /\ ~Open
          /\ \E k \in 0..Len(InFlight) : InFlight' = SubSeq(InFlight, 1, k)
          /\ UNCHANGED <<Returned, Open, Reader>>
    BY DEF Queue!Lose, InFlight, Returned, Open, Reader
<1>6. Queue!Eof <=>
          /\ Reader = "on" /\ ~Open /\ InFlight = <<>> /\ Reader' = "eof"
          /\ UNCHANGED <<InFlight, Returned, Open>>
    BY DEF Queue!Eof, InFlight, Returned, Open, Reader
<1>7. Queue!Stop <=>
          Reader = "on" /\ Reader' = "off" /\ UNCHANGED <<InFlight, Returned, Open>>
    BY DEF Queue!Stop, InFlight, Returned, Open, Reader
<1>8. UNCHANGED Queue!vars <=> UNCHANGED <<InFlight, Returned, Open, Reader>>
    BY DEF Queue!vars, InFlight, Returned, Open, Reader
<1> QED BY <1>1, <1>2, <1>3, <1>4, <1>5, <1>6, <1>7, <1>8

\* Each step of the stream is a step of the queue, or changes nothing of it.
LEMMA QueueStep ==
    ASSUME StreamInv, StreamInv', AllSized, Next
    PROVE  Queue!Next \/ UNCHANGED Queue!vars
<1>1. ASSUME NEW s \in Sizes, TplDump(s) PROVE UNCHANGED Queue!vars
    BY <1>1, DumpPutsNothing, QueueIs
<1>2. CASE WriteSome
    <2>1. Open /\ UNCHANGED <<Returned, Open, Reader>>
        BY <1>2 DEF WriteSome, readerVars, Open, Returned, Reader, ReaderOpen
    <2>2. CASE InFlight' = InFlight
        BY <2>1, <2>2, QueueIs
    <2>3. CASE InFlight' # InFlight
        <3>1. /\ \E m \in Sizes : InFlight' = Append(InFlight, m)
              /\ Len(InFlight) < PipeBuf \div (Header + 1) + 1
            BY <1>2, <2>3, WritePuts
        <3>2. PICK m \in Sizes : InFlight' = Append(InFlight, m)
            BY <3>1
        <3>3. Queue!Put(m)
            BY <2>1, <3>1, <3>2, QueueIs, Zenon
        <3> QED BY <3>3 DEF Queue!Next
    <2> QED BY <2>2, <2>3
<1>3. CASE WriteFails \/ WriterCloses
    <2>1. /\ UNCHANGED <<ends, pipe, img, got, rpc>>
          /\ wpc \in {"idle", "dump"} /\ wpc' = "closed"
        BY <1>3 DEF WriteFails, WriterCloses, readerVars
    <2>2. UNCHANGED <<InFlight, Returned, Reader>>
        BY <2>1 DEF InFlight, Returned, Reader, ReaderOpen, Through, End, Size, Start
    <2>3. Open /\ Open' = FALSE
        BY <2>1 DEF Open
    <2>4. Queue!Close
        BY <2>2, <2>3, QueueIs, Zenon
    <2> QED BY <2>4 DEF Queue!Next
<1>4. CASE ConnectionReset
    <2>1. ~Open /\ UNCHANGED <<Open, Reader>>
        BY <1>4 DEF ConnectionReset, writerVars, readerVars, Open, Reader, ReaderOpen
    <2>2. /\ \E k \in 0..Len(InFlight) : InFlight' = SubSeq(InFlight, 1, k)
          /\ Returned' = Returned
        BY <1>4, ResetCuts
    <2>3. Queue!Lose
        BY <2>1, <2>2, QueueIs, Zenon
    <2> QED BY <2>3 DEF Queue!Next
<1>5. CASE ReadHeader \/ ReadHeaderEnd \/ ReadBody
    <2>1. InFlight' = InFlight /\ Returned' = Returned
        BY <1>5, PartRead
    <2>2. Open' = Open /\ Reader = "on" /\ Reader' \in {"on", "off"}
        BY <1>5 DEF ReadHeader, ReadHeaderEnd, ReadBody, writerVars, Open, Reader, ReaderOpen
    <2>3. CASE Reader' = "on"
        BY <2>1, <2>2, <2>3, QueueIs
    <2>4. CASE Reader' = "off"
        <3>1. Queue!Stop
            BY <2>1, <2>2, <2>4, QueueIs, Zenon
        <3> QED BY <3>1 DEF Queue!Next
    <2> QED BY <2>2, <2>3, <2>4
<1>6. CASE ReadBodyEnd
    <2>1. UNCHANGED <<Open, Reader>> /\ Reader = "on"
        BY <1>6 DEF ReadBodyEnd, writerVars, Open, Reader, ReaderOpen
    <2>2. Queue!Take
        BY <1>6, <2>1, LastReadTakes, QueueIs, Zenon
    <2> QED BY <2>2 DEF Queue!Next
<1>7. CASE GatherBegins \/ ReadEof \/ ReadFails \/ ReaderCloses
    <2>1. UNCHANGED <<wpc, ends, pipe, img, got>>
        BY <1>7 DEF GatherBegins, ReadEof, ReadFails, ReaderCloses, writerVars
    <2>2. UNCHANGED <<InFlight, Returned, Open>>
        BY <2>1 DEF InFlight, Returned, Open, Through, End, Size, Start
    <2>3. CASE GatherBegins
        <3>1. Reader' = Reader
            BY <2>3 DEF GatherBegins, Reader, ReaderOpen
        <3> QED BY <2>2, <3>1, QueueIs
    <2>4. CASE ReadEof
        <3>1. Reader = "on" /\ Reader' = "eof" /\ ~Open
            BY <2>4 DEF ReadEof, Reader, ReaderOpen, Open
        <3>2. InFlight = <<>>
            BY <2>4, NothingWaits DEF ReadEof
        <3>3. Queue!Eof
            BY <2>2, <3>1, <3>2, QueueIs, Zenon
        <3> QED BY <3>3 DEF Queue!Next
    <2>5. CASE ReadFails \/ ReaderCloses
        <3>1. Reader = "on" /\ Reader' = "off"
            BY <2>5 DEF ReadFails, ReaderCloses, Reader, ReaderOpen
        <3>2. Queue!Stop
            BY <2>2, <3>1, QueueIs, Zenon
        <3> QED BY <3>2 DEF Queue!Next
    <2> QED BY <1>7, <2>3, <2>4, <2>5
<1> QED BY <1>1, <1>2, <1>3, <1>4, <1>5, <1>6, <1>7 DEF Next, Writing, Reading

\* Parts written and read in any order, and cut by a reset, are for the two
\* programs a queue of whole images: tpl_dump's write loop,
\* tpl_gather_blocking's two read loops and what a close leaves of them.
THEOREM StreamIsQueue == Spec => ImplementsImageQueue
<1>1. Init => Queue!Init
    <2> SUFFICES ASSUME Init PROVE Queue!Init
        OBVIOUS
    <2>1. ends = <<>> /\ got = <<>> /\ wpc = "idle" /\ rpc = "idle"
        BY DEF Init
    <2>2. Len(ends) = 0 /\ Len(got) = 0
        BY <2>1
    <2>3. Through = 0
        <3>1. {n \in 1..Len(ends) : ends[n] <= End(Len(got)) + Len(img) + Len(pipe)} = {}
            BY <2>2
        <3>2. Cardinality({}) = 0
            BY FS_EmptySet
        <3> QED BY <3>1, <3>2, Zenon DEF Through
    <2>4. InFlight = <<>> /\ Returned = <<>>
        BY <2>2, <2>3 DEF InFlight, Returned
    <2>5. Open = TRUE /\ Reader = "on"
        BY <2>1 DEF Open, Reader, ReaderOpen
    <2> QED BY <2>4, <2>5, QueueIs, Zenon
<1>2. Init => AllSized
    BY DEF Init, AllSized
<1>3. Spec => []AllSized
    BY <1>2, SizedStep, StreamCorrect, PTL DEF Spec
<1>4. StreamInv /\ StreamInv' /\ AllSized /\ [Next]_vars => [Queue!Next]_Queue!vars
    <2> SUFFICES ASSUME StreamInv, StreamInv', AllSized, [Next]_vars
                 PROVE  Queue!Next \/ UNCHANGED Queue!vars
        OBVIOUS
    <2>1. CASE UNCHANGED vars
        <3>1. UNCHANGED <<InFlight, Returned, Open, Reader>>
            BY <2>1 DEF vars, InFlight, Returned, Open, Reader, ReaderOpen, Through, End, Size, Start
        <3> QED BY <3>1, QueueIs
    <2> QED BY <2>1, QueueStep
<1> QED BY <1>1, <1>3, <1>4, StreamCorrect, PTL DEF Spec, ImplementsImageQueue, Queue!Spec
=============================================================================
