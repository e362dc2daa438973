--------------------------- MODULE TplGatherProofs ---------------------------
(***************************************************************************)
(* Proofs about TplGather: for any number and sizes of images, any chunks  *)
(* and any limit, the callback gets the images that were sent, in order,   *)
(* and what waits in *gs is what was read after them.                      *)
(***************************************************************************)
EXTENDS TplGather, SequenceTheorems, NaturalsInduction, WellFoundedInduction, TLAPS

-----------------------------------------------------------------------------
(* Numbers                                                                 *)

\* Induction over the natural numbers: a set that has none least is empty.
LEMMA LeastOf ==
    ASSUME NEW T \in SUBSET Nat, T # {} PROVE \E x \in T : \A y \in T : x <= y
<1> DEFINE R == OpToRel(<, Nat)
<1>1. IsWellFoundedOn(R, Nat)
  BY NatLessThanWellFounded
<1>2. R = {ss \in Nat \X Nat : ss[1] < ss[2]}
  BY Zenon DEF OpToRel
<1> HIDE DEF R
<1>3. PICK x \in T : \A y \in T : <<y, x>> \notin R
  BY <1>1, WFMin
<1>4. ASSUME NEW y \in T PROVE x <= y
  <2>1. <<y, x>> \in Nat \X Nat /\ <<y, x>>[1] = y /\ <<y, x>>[2] = x
    OBVIOUS
  <2>2. ~(y < x)
    BY <1>2, <1>3, <2>1, Zenon
  <2> QED BY <2>2
<1> QED BY <1>4

-----------------------------------------------------------------------------
(* The stream                                                              *)

\* Every image is longer than a header, and the stream goes on after the last
\* one for no more than a header and a byte.
Stream ==
    /\ ends = [n \in 1..Len(ends) |-> ends[n]] /\ Len(ends) \in Nat
    /\ \A n \in 0..Len(ends) : End(n) \in Nat
    /\ \A n \in 1..Len(ends) : End(n) > End(n - 1) + Header
    /\ length \in Nat /\ length <= End(Len(ends)) + Header + 1

LEMMA EndsGrow ==
    ASSUME Stream, NEW a \in 0..Len(ends), NEW b \in 0..Len(ends), a < b
    PROVE  End(a) < End(b)
<1> DEFINE T == {k \in Nat : a + k + 1 \in 0..Len(ends) /\ ~(End(a) < End(a + k + 1))}
<1>0. Len(ends) \in Nat /\ Header \in Nat
  BY GatherAssumption DEF Stream
<1>1. T = {}
  <2>1. SUFFICES ASSUME T # {} PROVE FALSE
    OBVIOUS
  <2>2. PICK x \in T : \A y \in T : x <= y
    <3>1. T \in SUBSET Nat
      OBVIOUS
    <3> HIDE DEF T
    <3> QED BY <2>1, <3>1, LeastOf
  <2>3. x \in Nat /\ a + x + 1 \in 0..Len(ends) /\ ~(End(a) < End(a + x + 1))
    BY DEF T
  <2>4. a + x + 1 \in 1..Len(ends) /\ a + x + 1 - 1 = a + x /\ a + x \in 0..Len(ends)
    BY <1>0, <2>3
  <2>5. End(a + x + 1) > End(a + x) + Header
    BY <2>4 DEF Stream
  <2>6. End(a + x) \in Nat /\ End(a + x + 1) \in Nat /\ End(a) \in Nat
    BY <2>4 DEF Stream
  <2>7. ~(End(a) <= End(a + x))
    BY <1>0, <2>3, <2>5, <2>6
  <2>8. x # 0
    BY <2>6, <2>7
  <2>9. x - 1 \in T
    <3>1. x - 1 \in Nat /\ a + (x - 1) + 1 = a + x
      BY <2>3, <2>8
    <3> QED BY <2>4, <2>6, <2>7, <3>1
  <2>10. x <= x - 1
    <3> HIDE DEF T
    <3> QED BY <2>2, <2>9
  <2> QED BY <2>3, <2>10
<1>2. b - a - 1 \in Nat /\ a + (b - a - 1) + 1 = b
  BY <1>0
<1> QED BY <1>1, <1>2

LEMMA PrefixIs ==
    ASSUME Stream, NEW h \in 0..Len(ends)
    PROVE  /\ HasPrefix(End(h) + 1) <=> h # Len(ends)
           /\ h # Len(ends) => TplLen(End(h) + 1) = End(h + 1) - End(h)
<1>0. Len(ends) \in Nat /\ DOMAIN ends = 1..Len(ends)
  BY DEF Stream
<1>1. ASSUME NEW n \in ImagesAt(End(h) + 1) PROVE n = h + 1 /\ n \in 1..Len(ends)
  <2>1. n \in 1..Len(ends) /\ End(n - 1) + 1 = End(h) + 1
    BY <1>0 DEF ImagesAt, Start
  <2>2. n - 1 \in 0..Len(ends)
    BY <1>0, <2>1
  <2>3. End(n - 1) = End(h)
    BY <2>1, <2>2 DEF Stream
  <2>4. ~(n - 1 < h) /\ ~(h < n - 1)
    BY <2>2, <2>3, EndsGrow DEF Stream
  <2> QED BY <1>0, <2>1, <2>2, <2>4
<1>2. ASSUME h # Len(ends) PROVE h + 1 \in ImagesAt(End(h) + 1)
  <2>0. Len(ends) \in Nat
    BY <1>0
  <2>1. h + 1 \in 1..Len(ends) /\ h + 1 - 1 = h
    BY <1>2, <2>0
  <2>2. Start(h + 1) = End(h)
    BY <2>1 DEF Start
  <2> QED BY <1>0, <2>1, <2>2, Zenon DEF ImagesAt
<1>3. HasPrefix(End(h) + 1) <=> h # Len(ends)
  <2>1. ASSUME h = Len(ends), HasPrefix(End(h) + 1) PROVE FALSE
    <3>1. PICK n \in ImagesAt(End(h) + 1) : TRUE
      BY <2>1 DEF HasPrefix
    <3> QED BY <1>0, <1>1, <2>1, <3>1
  <2> QED BY <1>2, <2>1 DEF HasPrefix
<1>4. ASSUME h # Len(ends) PROVE TplLen(End(h) + 1) = End(h + 1) - End(h)
  <2>1. (CHOOSE n \in ImagesAt(End(h) + 1) : TRUE) = h + 1
    BY <1>1, <1>2, <1>4
  <2>2. Start(h + 1) = End(h)
    <3>1. h + 1 - 1 = h
      OBVIOUS
    <3> QED BY <3>1 DEF Start
  <2> QED BY <2>1, <2>2, Zenon DEF TplLen
<1> QED BY <1>3, <1>4

LEMMA ImagesHaveBytes ==
    ASSUME Stream, NEW byte, HasPrefix(byte) PROVE TplLen(byte) \in Nat \ {0}
<1>0. Len(ends) \in Nat /\ DOMAIN ends = 1..Len(ends) /\ Header \in Nat
  BY GatherAssumption DEF Stream
<1> DEFINE n == CHOOSE n \in ImagesAt(byte) : TRUE
<1>1. n \in 1..Len(ends)
  BY <1>0 DEF HasPrefix, ImagesAt
<1>2. TplLen(byte) = End(n) - End(n - 1)
  BY DEF TplLen, Start
<1> HIDE DEF n
<1>3. End(n) \in Nat /\ End(n - 1) \in Nat /\ End(n) > End(n - 1) + Header
  BY <1>0, <1>1 DEF Stream
<1> QED BY <1>0, <1>2, <1>3

-----------------------------------------------------------------------------
(* The loop over a chunk                                                   *)

\* The loop from the pointer tpl on, when f is what it does from farther on.
Walk(img, f, tpl) ==
    IF tpl + Header >= Len(img) THEN Stops(img, tpl, FALSE)
    ELSE IF ~HasPrefix(img[tpl + 1]) THEN Stops(img, tpl, TRUE)
    ELSE LET next == tpl + TplLen(img[tpl + 1])
         IN IF next > Len(img) THEN Stops(img, tpl, FALSE)
            ELSE [f[next] EXCEPT !.images = <<SubSeq(img, tpl + 1, next)>> \o @]

LEMMA WalksOn ==
    ASSUME Stream, NEW img \in Seq(Nat), NEW tpl \in 0..Len(img), NEW f, NEW g,
           \A next \in (tpl + 1)..Len(img) : f[next] = g[next]
    PROVE  Walk(img, f, tpl) = Walk(img, g, tpl)
<1> DEFINE next == tpl + TplLen(img[tpl + 1])
<1>1. Len(img) \in Nat
  OBVIOUS
<1>2. ASSUME HasPrefix(img[tpl + 1]), ~(next > Len(img)) PROVE f[next] = g[next]
  <2>1. TplLen(img[tpl + 1]) \in Nat \ {0}
    BY <1>2, ImagesHaveBytes
  <2>2. next \in (tpl + 1)..Len(img)
    BY <1>1, <1>2, <2>1
  <2> QED BY <2>2
<1> QED BY <1>2, Zenon DEF Walk

\* The loop ends, and does what its definition says.
LEMMA IsolatedIs ==
    ASSUME Stream, NEW img \in Seq(Nat)
    PROVE  \E f : f = [tpl \in 0..Len(img) |-> Walk(img, f, tpl)] /\ Isolated(img) = f[0]
<1> DEFINE L == Len(img)
           Good(f, n) == f = [tpl \in (L - n)..L |-> Walk(img, f, tpl)]
           T == {n \in 0..L : \A f : ~Good(f, n)}
<1>0. L \in Nat
  OBVIOUS
<1> HIDE DEF L
<1>1. T = {}
  <2>1. SUFFICES ASSUME T # {} PROVE FALSE
    OBVIOUS
  <2>2. PICK x \in T : \A y \in T : x <= y
    <3>1. T \in SUBSET Nat
      BY <1>0
    <3> HIDE DEF T
    <3> QED BY <2>1, <3>1, LeastOf
  <2>3. x \in 0..L /\ \A f : ~Good(f, x)
    BY DEF T
  <2>4. CASE x = 0
    <3> DEFINE g == [tpl \in L..L |-> Stops(img, tpl, FALSE)]
    <3>1. L - 0 = L
      BY <1>0
    <3>2. ASSUME NEW tpl \in L..L PROVE g[tpl] = Walk(img, g, tpl)
      <4>1. tpl + Header >= Len(img)
        BY <1>0, GatherAssumption DEF L
      <4>2. g[tpl] = Stops(img, tpl, FALSE)
        OBVIOUS
      <4> HIDE DEF g
      <4> QED BY <4>1, <4>2, Zenon DEF Walk
    <3>3. g = [tpl \in L..L |-> g[tpl]]
      OBVIOUS
    <3> HIDE DEF g
    <3>4. Good(g, 0)
      BY <3>1, <3>2, <3>3, Zenon
    <3> QED BY <2>3, <2>4, <3>4, Zenon
  <2>5. CASE x # 0
    <3>1. x - 1 \in 0..L /\ x - 1 \notin T
      <4> HIDE DEF T
      <4> QED BY <1>0, <2>2, <2>3, <2>5
    <3>2. PICK f : Good(f, x - 1)
      <4> HIDE DEF Good
      <4> QED BY <3>1, Zenon
    <3> DEFINE low == L - x
               top == (L - (x - 1))..L
               g == [tpl \in low..L |-> IF tpl \in top THEN f[tpl] ELSE Walk(img, f, low)]
    <3>3. /\ low \in 0..L /\ low \notin top /\ top \subseteq low..L
          /\ \A tpl \in low..L : tpl # low => tpl \in top
          /\ \A tpl \in low..L : tpl \in 0..L /\ (tpl + 1)..L \subseteq top
      BY <1>0, <2>3, <2>5
    <3> HIDE DEF top, low
    <3>4. \A tpl \in top : g[tpl] = f[tpl] /\ f[tpl] = Walk(img, f, tpl)
      BY <3>2, <3>3, Zenon DEF top
    <3>5. g[low] = Walk(img, f, low)
      <4>1. low \in low..L
        BY <1>0, <3>3
      <4> QED BY <3>3, <4>1, Zenon
    <3>6. g = [tpl \in low..L |-> g[tpl]]
      BY Zenon
    <3> HIDE DEF g
    <3>7. ASSUME NEW tpl \in low..L PROVE g[tpl] = Walk(img, g, tpl)
      <4>1. g[tpl] = Walk(img, f, tpl)
        BY <3>3, <3>4, <3>5, Zenon
      <4>2. \A next \in (tpl + 1)..Len(img) : f[next] = g[next]
        BY <3>3, <3>4 DEF L
      <4>3. tpl \in 0..Len(img)
        BY <3>3 DEF L
      <4> QED BY <4>1, <4>2, <4>3, WalksOn, Zenon
    <3>8. Good(g, x)
      BY <3>6, <3>7, Zenon DEF low
    <3> QED BY <2>3, <3>8, Zenon
  <2> QED BY <2>4, <2>5
<1>2. \E f : Good(f, L)
  <2> HIDE DEF Good
  <2>1. L \in 0..L
    BY <1>0
  <2> QED BY <1>1, <2>1, Zenon
<1>3. L - L = 0
  BY <1>0
<1> DEFINE Is(f) == f = [tpl \in 0..Len(img) |-> Walk(img, f, tpl)]
<1>4. \E f : Is(f)
  BY <1>2, <1>3, Zenon DEF L
<1>5. Isolated(img) = (CHOOSE f : Is(f))[0]
  BY Zenon DEF Isolated, Walk
<1>6. Is(CHOOSE f : Is(f))
  BY <1>4, Zenon
<1> QED BY <1>5, <1>6, Zenon

-----------------------------------------------------------------------------
(* What is isolated                                                        *)

\* q images, the first of them the one after the h-th.
ImagesFrom(h, q) == [k \in 1..q |-> Image(h + k)]

LEMMA BytesAre ==
    ASSUME NEW a \in Nat, NEW b \in Nat, a <= b
    PROVE  /\ Bytes(a, b) \in Seq(Nat) /\ Len(Bytes(a, b)) = b - a
           /\ \A k \in 1..(b - a) : Bytes(a, b)[k] = a + k
  BY DEF Bytes

LEMMA BytesSame ==
    ASSUME NEW s \in Seq(Nat), NEW a \in Nat, NEW b \in Nat, a <= b, Len(s) = b - a,
           \A k \in 1..(b - a) : s[k] = a + k
    PROVE  s = Bytes(a, b)
<1>1. /\ Bytes(a, b) \in Seq(Nat) /\ Len(Bytes(a, b)) = b - a
      /\ \A k \in 1..(b - a) : Bytes(a, b)[k] = a + k
  BY BytesAre
<1> QED BY <1>1, SeqEqual

\* Bytes that were read from a to b hold those from c to d.
Holds(a, b, c, d) ==
    /\ a \in Nat /\ b \in Nat /\ c \in Nat /\ d \in Nat
    /\ a <= b /\ a <= c /\ c <= d /\ d <= b

Part(a, b, c, d) == SubSeq(Bytes(a, b), c - a + 1, d - a)

LEMMA BytesBetween ==
    ASSUME NEW a, NEW b, NEW c, NEW d, Holds(a, b, c, d) PROVE Part(a, b, c, d) = Bytes(c, d)
<1>0. /\ a \in Nat /\ b \in Nat /\ c \in Nat /\ d \in Nat
      /\ a <= b /\ a <= c /\ c <= d /\ d <= b
  BY DEF Holds
<1> DEFINE s == Bytes(a, b)
           m == c - a + 1
           n == d - a
           t == SubSeq(s, m, n)
<1>1. s \in Seq(Nat) /\ Len(s) = b - a /\ \A k \in 1..(b - a) : s[k] = a + k
  BY <1>0, BytesAre
<1> HIDE DEF s
<1>2. m \in Int /\ n \in Int /\ n - m + 1 = d - c /\ (IF m <= n THEN n - m + 1 ELSE 0) = d - c
  BY <1>0
<1>3. \A k \in m..n : k \in 1..(b - a)
  BY <1>0
<1>4. \A k \in m..n : s[k] \in Nat
  <2>1. \A k \in 1..(b - a) : a + k \in Nat
    BY <1>0
  <2> QED BY <1>1, <1>3, <2>1
<1>5. \A k \in 1..(d - c) : m + k - 1 \in 1..(b - a) /\ a + (m + k - 1) = c + k
  BY <1>0
<1> HIDE DEF m, n
<1>6. /\ t \in Seq(Nat) /\ Len(t) = d - c
      /\ \A k \in 1..(d - c) : t[k] = s[m + k - 1]
  BY <1>2, <1>4, SubSeqProperties
<1> HIDE DEF t
<1>7. \A k \in 1..(d - c) : t[k] = c + k
  BY <1>1, <1>5, <1>6
<1>8. t = Bytes(c, d)
  BY <1>0, <1>6, <1>7, BytesSame
<1> QED BY <1>8 DEF t, s, m, n, Part

\* What was read before, and a chunk after it.
LEMMA BytesJoin ==
    ASSUME NEW a \in Nat, NEW b \in Nat, NEW c \in Nat, a <= b, b <= c
    PROVE  Bytes(a, b) \o Bytes(b, c) = Bytes(a, c)
<1> DEFINE s == Bytes(a, b)
           t == Bytes(b, c)
           z == s \o t
<1>1. s \in Seq(Nat) /\ Len(s) = b - a /\ \A k \in 1..(b - a) : s[k] = a + k
  BY BytesAre
<1>2. t \in Seq(Nat) /\ Len(t) = c - b /\ \A k \in 1..(c - b) : t[k] = b + k
  BY BytesAre
<1> HIDE DEF s, t
<1>3. /\ z \in Seq(Nat) /\ Len(z) = Len(s) + Len(t)
      /\ \A k \in 1..(Len(s) + Len(t)) : z[k] = IF k <= Len(s) THEN s[k] ELSE t[k - Len(s)]
  BY <1>1, <1>2, ConcatProperties
<1>4. Len(s) \in Nat /\ Len(t) \in Nat /\ Len(s) + Len(t) = c - a
  BY <1>1, <1>2
<1> HIDE DEF z
<1>5. ASSUME NEW k \in 1..(c - a) PROVE z[k] = a + k
  <2>1. z[k] = IF k <= Len(s) THEN s[k] ELSE t[k - Len(s)]
    BY <1>3, <1>4
  <2>2. CASE k <= Len(s)
    <3>1. k \in 1..(b - a)
      BY <1>1, <2>2
    <3> QED BY <1>1, <2>1, <2>2, <3>1
  <2>3. CASE ~(k <= Len(s))
    <3>1. k - Len(s) \in 1..(c - b) /\ b + (k - Len(s)) = a + k
      BY <1>1, <1>2, <1>4, <2>3
    <3> QED BY <1>2, <2>1, <2>3, <3>1
  <2> QED BY <2>2, <2>3
<1>6. z = Bytes(a, c)
  <2>1. a <= c /\ Len(z) = c - a
    BY <1>3, <1>4
  <2> QED BY <1>3, <1>5, <2>1, BytesSame
<1> QED BY <1>6 DEF z, s, t

\* Images, as a set, to give sequences of them a type.
Images == {Image(k) : k \in Nat}

LEMMA ImagesAre ==
    ASSUME NEW h \in Nat, NEW q \in Nat
    PROVE  /\ ImagesFrom(h, q) \in Seq(Images) /\ Len(ImagesFrom(h, q)) = q
           /\ \A k \in 1..q : ImagesFrom(h, q)[k] = Image(h + k)
<1>1. \A k \in 1..q : Image(h + k) \in Images
  BY DEF Images
<1> QED BY <1>1 DEF ImagesFrom

LEMMA ImagesSame ==
    ASSUME NEW h \in Nat, NEW q \in Nat, NEW s \in Seq(Images), Len(s) = q,
           \A k \in 1..q : s[k] = Image(h + k)
    PROVE  s = ImagesFrom(h, q)
<1>1. /\ ImagesFrom(h, q) \in Seq(Images) /\ Len(ImagesFrom(h, q)) = q
      /\ \A k \in 1..q : ImagesFrom(h, q)[k] = Image(h + k)
  BY ImagesAre
<1> QED BY <1>1, SeqEqual

LEMMA ImagesJoin ==
    ASSUME NEW h \in Nat, NEW p \in Nat, NEW q \in Nat
    PROVE  ImagesFrom(h, p) \o ImagesFrom(h + p, q) = ImagesFrom(h, p + q)
<1> DEFINE s == ImagesFrom(h, p)
           t == ImagesFrom(h + p, q)
           z == s \o t
<1>1. s \in Seq(Images) /\ Len(s) = p /\ \A k \in 1..p : s[k] = Image(h + k)
  BY ImagesAre
<1>2. t \in Seq(Images) /\ Len(t) = q /\ \A k \in 1..q : t[k] = Image(h + p + k)
  <2>1. h + p \in Nat
    OBVIOUS
  <2> QED BY <2>1, ImagesAre
<1> HIDE DEF s, t
<1>3. /\ z \in Seq(Images) /\ Len(z) = p + q
      /\ \A k \in 1..(p + q) : z[k] = IF k <= p THEN s[k] ELSE t[k - p]
  BY <1>1, <1>2, ConcatProperties
<1> HIDE DEF z
<1>5. ASSUME NEW k \in 1..(p + q) PROVE z[k] = Image(h + k)
  <2>2. CASE k <= p
    <3>1. k \in 1..p
      BY <2>2
    <3> QED BY <1>1, <1>3, <2>2, <3>1
  <2>3. CASE ~(k <= p)
    <3>1. k - p \in 1..q /\ h + p + (k - p) = h + k
      BY <2>3
    <3> QED BY <1>2, <1>3, <2>3, <3>1
  <2> QED BY <2>2, <2>3
<1>6. z = ImagesFrom(h, p + q)
  <2>1. p + q \in Nat
    OBVIOUS
  <2> QED BY <1>3, <1>5, <2>1, ImagesSame
<1> QED BY <1>6 DEF z, s, t

LEMMA OneImage ==
    ASSUME NEW h \in Nat PROVE <<Image(h + 1)>> = ImagesFrom(h, 1)
<1>1. h + 1 \in Nat
  OBVIOUS
<1>2. Image(h + 1) \in Images
  BY <1>1 DEF Images
<1>3. \A k \in 1..1 : k = 1
  OBVIOUS
<1>4. <<Image(h + 1)>> \in Seq(Images) /\ Len(<<Image(h + 1)>>) = 1
      /\ <<Image(h + 1)>>[1] = Image(h + 1)
  BY <1>2
<1> QED BY <1>3, <1>4, ImagesSame

LEMMA NoImages == ASSUME NEW h \in Nat PROVE ImagesFrom(h, 0) = <<>>
  BY DEF ImagesFrom

\* The images a callback that gives up was invoked with.
LEMMA FirstImages ==
    ASSUME NEW h \in Nat, NEW q \in Nat, NEW k \in 0..q
    PROVE  SubSeq(ImagesFrom(h, q), 1, k) = ImagesFrom(h, k)
<1> DEFINE s == ImagesFrom(h, q)
           t == SubSeq(s, 1, k)
<1>1. s \in Seq(Images) /\ Len(s) = q /\ \A j \in 1..q : s[j] = Image(h + j)
  BY ImagesAre
<1> HIDE DEF s
<1>2. \A j \in 1..k : s[j] \in Images
  BY <1>1
<1>3. k - 1 + 1 = k /\ (IF 1 <= k THEN k - 1 + 1 ELSE 0) = k /\ \A j \in 1..k : 1 + j - 1 = j /\ j \in 1..q
  OBVIOUS
<1>4. t \in Seq(Images) /\ Len(t) = k /\ \A j \in 1..k : t[j] = s[j]
  BY <1>2, <1>3, SubSeqProperties
<1> HIDE DEF t
<1>5. t = ImagesFrom(h, k)
  BY <1>1, <1>3, <1>4, ImagesSame
<1> QED BY <1>5 DEF t, s

-----------------------------------------------------------------------------
(* What one call of the loop isolates                                      *)

\* The loop over the bytes from the end of the g-th image to t isolates whole
\* images, and leaves the bytes after them.
Isolates(g, t, from, i) ==
    \E q \in 0..(Len(ends) - from), bad \in BOOLEAN :
       /\ i = [images |-> ImagesFrom(from, q), left |-> Bytes(End(from + q), t), bad |-> bad]
       /\ End(from + q) <= t

LEMMA StopsWith ==
    ASSUME Stream, NEW g \in 0..Len(ends), NEW t \in Nat, End(g) <= t,
           NEW h \in 0..Len(ends), g <= h, End(h) <= t, NEW bad \in BOOLEAN
    PROVE  Isolates(g, t, h, Stops(Bytes(End(g), t), End(h) - End(g), bad))
<1>0. Len(ends) \in Nat
  BY DEF Stream
<1>1. End(g) \in Nat /\ End(h) \in Nat /\ h \in Nat
  BY <1>0 DEF Stream
<1>2. End(g) <= End(h)
  <2>1. CASE g = h
    BY <1>1, <2>1
  <2>2. CASE g # h
    <3>1. End(g) < End(h)
      BY <1>0, <2>2, EndsGrow
    <3> QED BY <1>1, <3>1
  <2> QED BY <2>1, <2>2
<1>3. Len(Bytes(End(g), t)) = t - End(g)
  BY <1>1, BytesAre
<1>4. SubSeq(Bytes(End(g), t), End(h) - End(g) + 1, t - End(g)) = Bytes(End(h), t)
  <2>1. Holds(End(g), t, End(h), t)
    BY <1>1, <1>2 DEF Holds
  <2>2. Part(End(g), t, End(h), t) = Bytes(End(h), t)
    BY <2>1, BytesBetween
  <2> QED BY <2>2 DEF Part
<1>5. Stops(Bytes(End(g), t), End(h) - End(g), bad)
        = [images |-> ImagesFrom(h, 0), left |-> Bytes(End(h + 0), t), bad |-> bad]
  <2>1. h + 0 = h
    BY <1>1
  <2>2. ImagesFrom(h, 0) = <<>>
    BY <1>1, NoImages
  <2> QED BY <1>3, <1>4, <2>1, <2>2, Zenon DEF Stops
<1>6. 0 \in 0..(Len(ends) - h) /\ End(h + 0) <= t
  BY <1>0, <1>1
<1> QED BY <1>5, <1>6, Zenon DEF Isolates

LEMMA ImageBytes ==
    ASSUME Stream, NEW g \in 0..Len(ends), NEW t \in Nat, NEW h \in 0..Len(ends),
           End(g) <= End(h), h # Len(ends), End(h + 1) <= t
    PROVE  SubSeq(Bytes(End(g), t), End(h) - End(g) + 1, End(h + 1) - End(g)) = Image(h + 1)
<1>0. Len(ends) \in Nat
  BY DEF Stream
<1>1. h + 1 \in 0..Len(ends) /\ h < h + 1 /\ h + 1 - 1 = h
  BY <1>0
<1>2. End(g) \in Nat /\ End(h) \in Nat /\ End(h + 1) \in Nat
  BY <1>1 DEF Stream
<1>3. End(h) < End(h + 1)
  BY <1>1, EndsGrow
<1>4. End(h) <= End(h + 1) /\ End(g) <= t
  BY <1>2, <1>3
<1>5. SubSeq(Bytes(End(g), t), End(h) - End(g) + 1, End(h + 1) - End(g))
        = Bytes(End(h), End(h + 1))
  <2>1. Holds(End(g), t, End(h), End(h + 1))
    BY <1>2, <1>4 DEF Holds
  <2>2. Part(End(g), t, End(h), End(h + 1)) = Bytes(End(h), End(h + 1))
    BY <2>1, BytesBetween
  <2> QED BY <2>2 DEF Part
<1>6. Start(h + 1) = End(h)
  BY <1>1 DEF Start
<1> QED BY <1>5, <1>6, Zenon DEF Image

LEMMA IsolatedImages ==
    ASSUME Stream, NEW g \in 0..Len(ends), NEW t \in Nat, End(g) <= t
    PROVE  Isolates(g, t, g, Isolated(Bytes(End(g), t)))
<1> DEFINE L == Len(ends)
           img == Bytes(End(g), t)
           at(h) == End(h) - End(g)
<1>0. L \in Nat /\ Header \in Nat
  BY GatherAssumption DEF Stream
<1>1. \A h \in 0..L : End(h) \in Nat
  BY DEF Stream
<1>2. \A h \in g..L : End(g) <= End(h)
  <2>1. TAKE h \in g..L
  <2>2. h \in 0..L /\ End(g) \in Nat /\ End(h) \in Nat
    BY <1>0, <1>1
  <2>3. CASE g = h
    BY <2>2, <2>3
  <2>4. CASE g # h
    <3>1. End(g) < End(h)
      BY <1>0, <2>1, <2>2, <2>4, EndsGrow
    <3> QED BY <2>2, <3>1
  <2> QED BY <2>3, <2>4
<1>3. /\ img \in Seq(Nat) /\ Len(img) = t - End(g)
      /\ \A k \in 1..(t - End(g)) : img[k] = End(g) + k
  BY <1>1, BytesAre
<1>4. PICK f : f = [tpl \in 0..Len(img) |-> Walk(img, f, tpl)] /\ Isolated(img) = f[0]
  BY <1>3, IsolatedIs
<1> DEFINE Claim(h) == End(h) <= t => Isolates(g, t, h, f[at(h)])
           T == {n \in Nat : L - n \in g..L /\ ~Claim(L - n)}
<1>5. T = {}
  <2>1. SUFFICES ASSUME T # {} PROVE FALSE
    OBVIOUS
  <2>2. PICK x \in T : \A y \in T : x <= y
    <3>1. T \in SUBSET Nat
      OBVIOUS
    <3> HIDE DEF T
    <3> QED BY <2>1, <3>1, LeastOf
  <2> DEFINE h == L - x
  <2>3. x \in Nat /\ h \in g..L /\ ~Claim(h)
    BY DEF T
  <2>4. h \in 0..L /\ End(h) \in Nat /\ End(g) \in Nat /\ End(g) <= End(h)
    BY <1>0, <1>1, <1>2, <2>3
  <2>5. End(h) <= t /\ ~Isolates(g, t, h, f[at(h)])
    BY <2>3
  <2>6. ASSUME h # L, NEW q \in Nat PROVE h + 1 \in g..L /\ Claim(h + 1)
    <3>1. x - 1 \in Nat /\ L - (x - 1) = h + 1 /\ h + 1 \in g..L
      BY <1>0, <2>3, <2>6
    <3>2. x - 1 \notin T
      <4> HIDE DEF T
      <4> QED BY <2>2, <2>3, <3>1
    <3> QED BY <3>1, <3>2 DEF T
  <2> HIDE DEF h, T
  <2>7. at(h) \in 0..Len(img) /\ f[at(h)] = Walk(img, f, at(h))
    <3>1. at(h) \in 0..Len(img)
      BY <1>3, <2>4, <2>5
    <3> QED BY <1>4, <3>1, Zenon
  <2>8. ASSUME NEW bad \in BOOLEAN PROVE Walk(img, f, at(h)) # Stops(img, at(h), bad)
    <3>1. g <= h
      BY <2>3
    <3>2. Isolates(g, t, h, Stops(img, at(h), bad))
      BY <1>0, <2>4, <2>5, <3>1, StopsWith
    <3> QED BY <2>5, <2>7, <3>2, Zenon
  <2>9. ~(at(h) + Header >= Len(img))
    BY <2>8, Zenon DEF Walk
  <2>10. img[at(h) + 1] = End(h) + 1
    <3>1. at(h) + 1 \in 1..(t - End(g)) /\ End(g) + (at(h) + 1) = End(h) + 1
      BY <1>0, <1>3, <2>4, <2>9
    <3> QED BY <1>3, <3>1
  <2>11. HasPrefix(End(h) + 1)
    BY <2>8, <2>9, <2>10, Zenon DEF Walk
  <2>12. h # L /\ TplLen(End(h) + 1) = End(h + 1) - End(h)
    BY <2>4, <2>11, PrefixIs
  <2>13. h + 1 \in g..L /\ h + 1 \in 0..L /\ Claim(h + 1) /\ End(h + 1) \in Nat
         /\ End(h) < End(h + 1)
    <3>1. h + 1 \in g..L /\ Claim(h + 1)
      BY <2>6, <2>12
    <3>2. h + 1 \in 0..L
      BY <1>0, <3>1
    <3>3. h < h + 1
      BY <2>4
    <3> QED BY <1>0, <1>1, <2>4, <3>1, <3>2, <3>3, EndsGrow
  <2>14. at(h) + TplLen(img[at(h) + 1]) = at(h + 1)
    <3>1. TplLen(img[at(h) + 1]) = End(h + 1) - End(h)
      BY <2>10, <2>12, Zenon
    <3>2. (End(h) - End(g)) + (End(h + 1) - End(h)) = End(h + 1) - End(g)
      BY <2>4, <2>13
    <3> QED BY <3>1, <3>2
  <2>15. /\ ~(at(h + 1) > Len(img))
         /\ f[at(h)] = [f[at(h + 1)] EXCEPT
                          !.images = <<SubSeq(img, at(h) + 1, at(h + 1))>> \o @]
    <3>1. ~(at(h + 1) > Len(img))
      <4> HIDE DEF at
      <4> QED BY <2>8, <2>9, <2>10, <2>11, <2>14, Zenon DEF Walk
    <3>2. Walk(img, f, at(h)) = [f[at(h + 1)] EXCEPT
                          !.images = <<SubSeq(img, at(h) + 1, at(h + 1))>> \o @]
      <4> HIDE DEF at
      <4> QED BY <2>9, <2>10, <2>11, <2>14, <3>1, Zenon DEF Walk
    <3> QED BY <2>7, <3>1, <3>2
  <2>16. SubSeq(img, at(h) + 1, at(h + 1)) = Image(h + 1)
    <3>1. End(h + 1) <= t
      BY <1>3, <2>4, <2>13, <2>15
    <3> QED BY <2>4, <2>12, <3>1, ImageBytes
  <2>17. Isolates(g, t, h + 1, f[at(h + 1)])
    <3>1. End(h + 1) <= t
      BY <1>3, <2>4, <2>13, <2>15
    <3> QED BY <2>13, <3>1
  <2>18. PICK q \in 0..(L - (h + 1)), bad \in BOOLEAN :
           /\ f[at(h + 1)] = [images |-> ImagesFrom(h + 1, q),
                              left |-> Bytes(End(h + 1 + q), t), bad |-> bad]
           /\ End(h + 1 + q) <= t
    <3> HIDE DEF at
    <3> QED BY <2>17, Zenon DEF Isolates
  <2>19. /\ q \in Nat /\ h \in Nat /\ q + 1 \in 0..(L - h) /\ h + 1 + q = h + (q + 1)
         /\ 1 + q = q + 1
    BY <1>0, <2>4, <2>13
  <2>20. <<Image(h + 1)>> \o ImagesFrom(h + 1, q) = ImagesFrom(h, q + 1)
    <3>1. 1 \in Nat
      OBVIOUS
    <3>2. ImagesFrom(h, 1) \o ImagesFrom(h + 1, q) = ImagesFrom(h, 1 + q)
      BY <2>19, <3>1, ImagesJoin
    <3> QED BY <2>19, <3>2, OneImage, Zenon
  <2>21. f[at(h)] = [images |-> ImagesFrom(h, q + 1),
                     left |-> Bytes(End(h + (q + 1)), t), bad |-> bad]
    <3> DEFINE r == f[at(h + 1)]
               z == <<Image(h + 1)>>
    <3>1. r = [images |-> ImagesFrom(h + 1, q), left |-> Bytes(End(h + (q + 1)), t), bad |-> bad]
      BY <2>18, <2>19, Zenon
    <3>2. f[at(h)] = [r EXCEPT !.images = z \o @]
      BY <2>15, <2>16, Zenon
    <3>3. z \o ImagesFrom(h + 1, q) = ImagesFrom(h, q + 1)
      BY <2>20
    <3> HIDE DEF r, z
    <3>4. ASSUME NEW a, NEW b, NEW c, NEW y, r = [images |-> a, left |-> b, bad |-> c]
          PROVE  [r EXCEPT !.images = y \o @] = [images |-> y \o a, left |-> b, bad |-> c]
      <4>1. \A w : [r EXCEPT !.images = w] = [images |-> w, left |-> b, bad |-> c]
        BY <3>4
      <4>2. r.images = a
        BY <3>4
      <4> QED BY <4>1, <4>2, Zenon
    <3>5. f[at(h)] = [images |-> z \o ImagesFrom(h + 1, q),
                      left |-> Bytes(End(h + (q + 1)), t), bad |-> bad]
      BY <3>1, <3>2, <3>4, Zenon
    <3> QED BY <3>3, <3>5, Zenon
  <2>22. Isolates(g, t, h, f[at(h)])
    <3>1. End(h + (q + 1)) <= t
      BY <2>18, <2>19
    <3> HIDE DEF at
    <3> QED BY <2>19, <2>21, <3>1, Zenon DEF Isolates
  <2> QED BY <2>5, <2>22
<1>6. Claim(g)
  <2>1. L - g \in Nat /\ L - (L - g) = g /\ g \in g..L
    BY <1>0
  <2>2. L - g \notin T
    BY <1>5, Zenon
  <2> QED BY <2>1, <2>2 DEF T
<1>7. at(g) = 0
  BY <1>1
<1> QED BY <1>4, <1>6, <1>7, Zenon

-----------------------------------------------------------------------------
(* The stream that is sent                                                 *)

\* The sum in EndsOf, as the equation that defines it.
LEMMA EndsAre ==
    ASSUME NEW sizes, Len(sizes) \in Nat
    PROVE  \E f : /\ f = [n \in 0..Len(sizes) |-> IF n = 0 THEN 0 ELSE f[n - 1] + sizes[n]]
                  /\ EndsOf(sizes) = [n \in DOMAIN sizes |-> f[n]]
<1> DEFINE next(last, n) == last + sizes[n]
           Good(f, m) == f = [n \in 0..m |-> IF n = 0 THEN 0 ELSE next(f[n - 1], n)]
           T == {m \in Nat : \A f : ~Good(f, m)}
<1> HIDE DEF next
<1>1. T = {}
  <2>1. SUFFICES ASSUME T # {} PROVE FALSE
    OBVIOUS
  <2>2. T \in SUBSET Nat
    OBVIOUS
  <2>3. PICK x \in T : \A y \in T : x <= y
    <3> HIDE DEF T
    <3> QED BY <2>1, <2>2, LeastOf
  <2>4. x \in Nat /\ \A f : ~Good(f, x)
    BY DEF T
  <2>5. CASE x = 0
    <3> DEFINE g == [n \in 0..0 |-> 0]
    <3>1. \A n \in 0..0 : n = 0
      OBVIOUS
    <3>2. Good(g, 0)
      BY <3>1, Zenon
    <3> QED BY <2>4, <2>5, <3>2, Zenon
  <2>6. CASE x # 0
    <3>1. x - 1 \in Nat /\ x - 1 \notin T
      <4> HIDE DEF T
      <4> QED BY <2>3, <2>4, <2>6
    <3>2. PICK f : Good(f, x - 1)
      <4> HIDE DEF Good
      <4> QED BY <3>1, Zenon
    <3> DEFINE g == [n \in 0..x |-> IF n \in 0..(x - 1) THEN f[n] ELSE next(f[x - 1], x)]
    <3>3. ASSUME NEW n \in 0..x
          PROVE  g[n] = IF n = 0 THEN 0 ELSE next(g[n - 1], n)
      <4>1. CASE n = 0
        <5>1. n \in 0..(x - 1)
          BY <2>4, <2>6, <4>1
        <5>2. g[n] = f[n]
          BY <5>1, Zenon
        <5>3. f[n] = 0
          BY <3>2, <4>1, <5>1, Zenon
        <5> QED BY <4>1, <5>2, <5>3, Zenon
      <4>2. CASE n # 0 /\ n \in 0..(x - 1)
        <5>1. n - 1 \in 0..(x - 1) /\ n - 1 \in 0..x
          BY <2>4, <4>2
        <5>2. g[n] = f[n] /\ g[n - 1] = f[n - 1]
          BY <4>2, <5>1, Zenon
        <5>3. f[n] = next(f[n - 1], n)
          BY <3>2, <4>2, Zenon
        <5> QED BY <4>2, <5>2, <5>3, Zenon
      <4>3. CASE n \notin 0..(x - 1)
        <5>1. n = x /\ n - 1 \in 0..(x - 1) /\ n - 1 \in 0..x /\ n # 0
          BY <2>4, <2>6, <4>3
        <5>2. g[n] = next(f[x - 1], x)
          BY <4>3, Zenon
        <5>3. g[n - 1] = f[n - 1]
          BY <5>1, Zenon
        <5> QED BY <5>1, <5>2, <5>3, Zenon
      <4> QED BY <4>1, <4>2, <4>3
    <3>4. g = [n \in 0..x |-> g[n]]
      BY Zenon
    <3> HIDE DEF g
    <3>5. Good(g, x)
      BY <3>3, <3>4, Zenon
    <3> QED BY <2>4, <3>5, Zenon
  <2> QED BY <2>5, <2>6
<1>2. \E f : Good(f, Len(sizes))
  <2> HIDE DEF Good
  <2>1. Len(sizes) \notin T
    BY <1>1, Zenon
  <2> QED BY <2>1, Zenon
<1>3. EndsOf(sizes) = [n \in DOMAIN sizes |-> (CHOOSE f : Good(f, Len(sizes)))[n]]
  BY Zenon DEF EndsOf, next
<1>4. Good(CHOOSE f : Good(f, Len(sizes)), Len(sizes))
  BY <1>2, Zenon
<1> QED BY <1>3, <1>4, Zenon DEF next

LEMMA StreamSent == Init => Stream
<1> SUFFICES ASSUME Init PROVE Stream
  OBVIOUS
<1>1. PICK n \in 1..MaxImages : \E sizes \in [1..n -> Sizes] : ends = EndsOf(sizes)
  BY DEF Init
<1>2. PICK sizes \in [1..n -> Sizes] : ends = EndsOf(sizes)
  BY <1>1
<1>3. /\ n \in Nat /\ Len(sizes) = n /\ DOMAIN sizes = 1..n /\ Header \in Nat
      /\ \A k \in 1..n : sizes[k] \in Nat /\ sizes[k] > Header
  <2>1. n \in Nat /\ Header \in Nat
    BY GatherAssumption
  <2>2. \A k \in 1..n : sizes[k] \in Sizes
    OBVIOUS
  <2>3. \A k \in 1..n : sizes[k] \in Nat /\ sizes[k] > Header
    BY <2>2, GatherAssumption
  <2>4. DOMAIN sizes = 1..n
    OBVIOUS
  <2>5. sizes \in Seq(Sizes)
    BY <2>1
  <2>6. Len(sizes) = n
    BY <2>1, <2>4, <2>5
  <2> QED BY <2>1, <2>3, <2>4, <2>6
<1>4. PICK f : /\ f = [k \in 0..n |-> IF k = 0 THEN 0 ELSE f[k - 1] + sizes[k]]
               /\ ends = [k \in 1..n |-> f[k]]
  <2>1. Len(sizes) \in Nat
    BY <1>3
  <2>2. PICK f : /\ f = [k \in 0..Len(sizes) |-> IF k = 0 THEN 0 ELSE f[k - 1] + sizes[k]]
                 /\ EndsOf(sizes) = [k \in DOMAIN sizes |-> f[k]]
    BY <2>1, EndsAre
  <2> QED BY <1>2, <1>3, <2>2, Zenon
<1>5. /\ f[0] = 0
      /\ \A k \in 1..n : f[k] = f[k - 1] + sizes[k]
  <2>1. f[0] = 0
    <3>1. 0 \in 0..n
      BY <1>3
    <3> QED BY <1>4, <3>1, Zenon
  <2>2. ASSUME NEW k \in 1..n PROVE f[k] = f[k - 1] + sizes[k]
    <3>1. k \in 0..n /\ k # 0
      BY <1>3
    <3> QED BY <1>4, <3>1, Zenon
  <2> QED BY <2>1, <2>2
<1> DEFINE T == {k \in 0..n : f[k] \notin Nat}
<1>6. T = {}
  <2>1. SUFFICES ASSUME T # {} PROVE FALSE
    OBVIOUS
  <2>2. PICK x \in T : \A y \in T : x <= y
    <3>1. T \in SUBSET Nat
      BY <1>3
    <3> HIDE DEF T
    <3> QED BY <2>1, <3>1, LeastOf
  <2>3. x \in 0..n /\ f[x] \notin Nat
    BY DEF T
  <2>4. x # 0
    BY <1>5, <2>3
  <2>5. x - 1 \in 0..n /\ x \in 1..n /\ x - 1 \notin T
    <3> HIDE DEF T
    <3> QED BY <1>3, <2>2, <2>3, <2>4
  <2>6. f[x - 1] \in Nat
    BY <2>5 DEF T
  <2>7. f[x] \in Nat
    <3>1. sizes[x] \in Nat /\ f[x] = f[x - 1] + sizes[x]
      BY <1>3, <1>5, <2>5
    <3> QED BY <2>6, <3>1
  <2> QED BY <2>3, <2>7
<1>7. \A k \in 0..n : f[k] \in Nat
  BY <1>6
<1>8. /\ ends = [k \in 1..n |-> ends[k]] /\ Len(ends) = n
      /\ \A k \in 0..n : End(k) = f[k]
  <2>1. ends = [k \in 1..n |-> ends[k]] /\ \A k \in 1..n : ends[k] = f[k]
    BY <1>4, Zenon
  <2>2. Len(ends) = n
    <3>1. ends \in Seq(Nat)
      <4>1. \A k \in 1..n : f[k] \in Nat
        BY <1>3, <1>7
      <4>2. ends \in [1..n -> Nat]
        BY <1>4, <4>1, Zenon
      <4> QED BY <1>3, <4>2
    <3>2. DOMAIN ends = 1..n
      BY <2>1
    <3> QED BY <1>3, <3>1, <3>2
  <2>3. ASSUME NEW k \in 0..n PROVE End(k) = f[k]
    <3>1. CASE k = 0
      BY <1>5, <3>1 DEF End
    <3>2. CASE k # 0
      <4>1. k \in 1..n
        BY <1>3, <3>2
      <4> QED BY <2>1, <3>2, <4>1 DEF End
    <3> QED BY <3>1, <3>2
  <2> QED BY <2>1, <2>2, <2>3
<1>9. \A k \in 1..n : End(k) > End(k - 1) + Header
  <2>1. TAKE k \in 1..n
  <2>2. k \in 0..n /\ k - 1 \in 0..n
    BY <1>3
  <2>3. f[k - 1] \in Nat /\ f[k] = f[k - 1] + sizes[k] /\ sizes[k] \in Nat /\ sizes[k] > Header
    BY <1>3, <1>5, <1>7, <2>2
  <2>4. End(k) = f[k] /\ End(k - 1) = f[k - 1]
    BY <1>8, <2>2
  <2> QED BY <1>3, <2>3, <2>4
<1>10. length \in Nat /\ length <= End(n) + Header + 1
  <2>1. length \in Start(n)..(End(n) + Header + 1)
    BY <1>8 DEF Init
  <2>2. Start(n) \in Nat /\ End(n) \in Nat
    <3>1. n \in 0..n /\ n - 1 \in 0..n
      BY <1>3
    <3> QED BY <1>7, <1>8, <3>1 DEF Start
  <2> QED BY <1>3, <2>1, <2>2
<1> QED BY <1>3, <1>7, <1>8, <1>9, <1>10 DEF Stream

-----------------------------------------------------------------------------
(* The invariant                                                           *)

GatherInv ==
    /\ Stream
    /\ taken \in Nat /\ arrived \in Nat
    /\ \E g \in 0..Len(ends) :
          /\ given = ImagesFrom(0, g)
          /\ pc # "closed" => gs = Bytes(End(g), taken) /\ End(g) <= taken

LEMMA GatherInvInit == Init => GatherInv
<1> SUFFICES ASSUME Init PROVE GatherInv
  OBVIOUS
<1>1. Stream
  BY StreamSent
<1>2. taken = 0 /\ arrived = 0 /\ gs = <<>> /\ given = <<>>
  BY DEF Init
<1>3. 0 \in 0..Len(ends) /\ End(0) = 0
  BY <1>1 DEF Stream, End
<1>4. Bytes(0, 0) = <<>>
  BY DEF Bytes
<1>5. ImagesFrom(0, 0) = <<>>
  BY NoImages
<1> QED BY <1>1, <1>2, <1>3, <1>4, <1>5 DEF GatherInv

\* A chunk of the next bytes: what is given stays a prefix of what was sent.
LEMMA ChunkGathered ==
    ASSUME GatherInv, pc # "closed", NEW n \in Nat, taken' = taken + n,
           UNCHANGED <<mode, ends, length, arrived>>,
           NEW onward \in BOOLEAN, Gathered(Bytes(taken, taken + n), onward)
    PROVE  GatherInv'
<1>0. /\ Stream /\ taken \in Nat /\ arrived \in Nat
      /\ ends' = ends /\ length' = length /\ arrived' = arrived
  BY DEF GatherInv
<1>1. Len(ends) \in Nat
  BY <1>0 DEF Stream
<1>2. PICK g \in 0..Len(ends) :
        given = ImagesFrom(0, g) /\ gs = Bytes(End(g), taken) /\ End(g) <= taken
  BY DEF GatherInv
<1> DEFINE t == taken + n
           i == Isolated(Concatenated(Bytes(taken, t)))
<1>3. End(g) \in Nat /\ g \in Nat /\ t \in Nat /\ End(g) <= t /\ taken <= t
  BY <1>0, <1>1, <1>2 DEF Stream
<1>4. Concatenated(Bytes(taken, t)) = Bytes(End(g), t)
  BY <1>0, <1>2, <1>3, BytesJoin DEF Concatenated
<1>5. Isolates(g, t, g, i)
  BY <1>0, <1>2, <1>3, <1>4, IsolatedImages
<1>6. PICK q \in 0..(Len(ends) - g), bad \in BOOLEAN :
        /\ i = [images |-> ImagesFrom(g, q), left |-> Bytes(End(g + q), t), bad |-> bad]
        /\ End(g + q) <= t
  BY <1>5, Zenon DEF Isolates
<1>7. i.images = ImagesFrom(g, q) /\ i.left = Bytes(End(g + q), t)
  BY <1>6
<1>8. g + q \in 0..Len(ends) /\ q \in Nat /\ 0 + g = g
  BY <1>1, <1>3
<1>9. Stream' /\ taken' = t /\ taken' \in Nat /\ arrived' \in Nat /\ \A k : End(k)' = End(k)
  BY <1>0, <1>3 DEF Stream, End
<1>10. \A a, b : ImagesFrom(a, b)' = ImagesFrom(a, b)
  BY <1>9, Zenon DEF ImagesFrom, Image, Start, Bytes
<1>11. ImagesFrom(0, g) \o ImagesFrom(g, q) = ImagesFrom(0, g + q)
  <2>1. 0 \in Nat
    OBVIOUS
  <2>2. ImagesFrom(0, g) \o ImagesFrom(0 + g, q) = ImagesFrom(0, g + q)
    BY <1>3, <1>8, <2>1, ImagesJoin, Zenon
  <2> QED BY <1>8, <2>2
<1> HIDE DEF i, t
\* It is enough that some images were given, and that the rest waits.
<1>12. ASSUME NEW h \in 0..Len(ends), given' = ImagesFrom(0, h),
              \/ pc' = "closed"
              \/ gs' = Bytes(End(h), t) /\ End(h) <= t
       PROVE  GatherInv'
  <2>1. h \in 0..Len(ends)' /\ given' = ImagesFrom(0, h)'
    BY <1>0, <1>10, <1>12
  <2>2. pc' # "closed" => gs' = Bytes(End(h), taken)' /\ End(h)' <= taken'
    BY <1>9, <1>12 DEF Bytes
  <2> QED BY <1>9, <2>1, <2>2 DEF GatherInv
<1>13. CASE given' = given /\ pc' = "closed"
  BY <1>2, <1>12, <1>13
<1>14. CASE given' = given \o i.images /\ pc' = "closed"
  BY <1>2, <1>7, <1>8, <1>11, <1>12, <1>14
<1>15. CASE given' = given \o i.images /\ gs' = Leftover(i)
  <2>1. gs' = Bytes(End(g + q), t) /\ given' = ImagesFrom(0, g + q)
    BY <1>2, <1>7, <1>11, <1>15 DEF Leftover
  <2> QED BY <1>6, <1>8, <1>12, <2>1
<1>16. ASSUME NEW k \in DOMAIN i.images, given' = given \o SubSeq(i.images, 1, k), pc' = "closed"
       PROVE  GatherInv'
  <2>1. k \in 0..q /\ k \in Nat
    BY <1>3, <1>7, <1>8 DEF ImagesFrom
  <2>2. SubSeq(ImagesFrom(g, q), 1, k) = ImagesFrom(g, k)
    BY <1>3, <1>8, <2>1, FirstImages
  <2>3. ImagesFrom(0, g) \o ImagesFrom(0 + g, k) = ImagesFrom(0, g + k)
    <3>1. 0 \in Nat
      OBVIOUS
    <3> QED BY <1>3, <2>1, <3>1, ImagesJoin
  <2>4. g + k \in 0..Len(ends)
    BY <1>1, <1>3, <2>1
  <2>5. given' = ImagesFrom(0, g + k)
    BY <1>2, <1>7, <1>8, <1>16, <2>2, <2>3
  <2> QED BY <1>12, <1>16, <2>4, <2>5
<1>17. \/ given' = given /\ pc' = "closed"
       \/ given' = given \o i.images /\ pc' = "closed"
       \/ given' = given \o i.images /\ gs' = Leftover(i)
       \/ \E k \in DOMAIN i.images : given' = given \o SubSeq(i.images, 1, k) /\ pc' = "closed"
  BY Zenon DEF Gathered, i, t
<1> QED BY <1>13, <1>14, <1>15, <1>16, <1>17, Zenon

LEMMA GatherInvNext == GatherInv /\ [Next]_vars => GatherInv'
<1> SUFFICES ASSUME GatherInv, [Next]_vars PROVE GatherInv'
  OBVIOUS
<1>0. Stream /\ taken \in Nat /\ arrived \in Nat
  BY DEF GatherInv
<1>1. ASSUME UNCHANGED <<ends, length, taken, given>>, arrived' \in Nat,
             pc # "closed" => pc' = "closed" \/ gs' = gs, pc = "closed" => pc' = "closed"
      PROVE  GatherInv'
  <2>1. PICK g \in 0..Len(ends) :
          /\ given = ImagesFrom(0, g)
          /\ pc # "closed" => gs = Bytes(End(g), taken) /\ End(g) <= taken
    BY DEF GatherInv
  <2>2. Stream' /\ taken' \in Nat /\ \A k : End(k)' = End(k)
    BY <1>0, <1>1 DEF Stream, End
  <2>3. ImagesFrom(0, g)' = ImagesFrom(0, g)
    BY <2>2, Zenon DEF ImagesFrom, Image, Start, Bytes
  <2>4. pc' # "closed" => gs' = Bytes(End(g), taken)' /\ End(g)' <= taken'
    BY <1>1, <2>1, <2>2 DEF Bytes
  <2>5. g \in 0..Len(ends)' /\ given' = ImagesFrom(0, g)'
    BY <1>1, <2>1, <2>3
  <2> QED BY <1>1, <2>2, <2>4, <2>5 DEF GatherInv
<1>2. CASE Arrives
  <2>1. arrived' = arrived + 1 /\ UNCHANGED <<mode, ends, length, taken, gs, given, pc, rc>>
    BY <1>2 DEF Arrives
  <2> QED BY <1>0, <1>1, <2>1
<1>3. CASE GatherMem
  <2>1. PICK n \in 1..Smallest(arrived - taken, BufLen) :
          taken' = taken + n /\ Gathered(Bytes(taken, taken + n), rc' = 1 /\ pc' = "idle")
    BY <1>3 DEF GatherMem
  <2>2. n \in Nat /\ pc # "closed" /\ UNCHANGED <<mode, ends, length, arrived>>
    BY <1>0, <1>3, GatherAssumption DEF GatherMem, Smallest
  <2> QED BY <2>1, <2>2, ChunkGathered, Zenon
<1>4. CASE GatherNonblocking
  BY <1>0, <1>1, <1>4 DEF GatherNonblocking
<1>5. CASE ReadChunk
  <2> DEFINE n == Smallest(arrived - taken, BufLen)
  <2>1. taken' = taken + n /\ Gathered(Bytes(taken, taken + n), rc' = rc /\ pc' = "reading")
    BY <1>5, Zenon DEF ReadChunk
  <2>2. n \in Nat /\ pc # "closed" /\ UNCHANGED <<mode, ends, length, arrived>>
    BY <1>0, <1>5, GatherAssumption DEF ReadChunk, Smallest
  <2> HIDE DEF n
  <2> QED BY <2>1, <2>2, ChunkGathered, Zenon
<1>6. CASE ReadNothing
  BY <1>0, <1>1, <1>6 DEF ReadNothing
<1>7. CASE ReadEnds
  BY <1>0, <1>1, <1>7 DEF ReadEnds
<1>8. CASE UNCHANGED vars
  BY <1>0, <1>1, <1>8 DEF vars
<1> QED BY <1>2, <1>3, <1>4, <1>5, <1>6, <1>7, <1>8 DEF Next, Gather

LEMMA GatherInvHolds == Spec => []GatherInv
  BY GatherInvInit, GatherInvNext, PTL DEF Spec

\* The callback gets the images that were sent, in their order, each byte for
\* byte and none of them twice, and what waits in *gs is all that was read
\* after them, however the stream is cut into chunks, however many images it
\* has and whatever the limit (tpl_gather_nonblocking, tpl_gather_mem).
THEOREM ImagesInOrder == Spec => []GatheredInOrder
<1>1. GatherInv => GatheredInOrder
  <2> SUFFICES ASSUME GatherInv PROVE GatheredInOrder
    OBVIOUS
  <2>1. PICK g \in 0..Len(ends) :
          /\ given = ImagesFrom(0, g)
          /\ pc # "closed" => gs = Bytes(End(g), taken) /\ End(g) <= taken
    BY DEF GatherInv
  <2>2. Len(ends) \in Nat
    BY DEF GatherInv, Stream
  <2>3. g \in Nat /\ 0 \in Nat
    BY <2>2
  <2>4. Len(given) = g /\ DOMAIN given = 1..g /\ \A k \in 1..g : given[k] = Image(0 + k)
    <3>1. /\ given \in Seq(Images) /\ Len(given) = g
          /\ \A k \in 1..g : given[k] = Image(0 + k)
      BY <2>1, <2>3, ImagesAre
    <3> QED BY <3>1
  <2>5. \A k \in 1..g : 0 + k = k
    OBVIOUS
  <2>6. \A k \in DOMAIN given : given[k] = Image(k)
    BY <2>4, <2>5
  <2>7. Len(given) <= Len(ends)
    BY <2>2, <2>4
  <2> QED BY <2>1, <2>4, <2>6, <2>7 DEF GatheredInOrder
<1> QED BY <1>1, GatherInvHolds, PTL
=============================================================================
